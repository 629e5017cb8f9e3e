\* Four domains on meshes of 3 x 2, 2 x 2 and 3 x 1 tasks.  The model ends when every
\* task is through: EveryoneFinishes says that it stops nowhere else.
SPECIFICATION Spec
CONSTANTS
  Grids <- MCGrids
  Bdy = 1
  Junk = Junk
INVARIANTS
  TypeOK
  GhostsRight
  SizesAgree
  NothingLeftBehind
PROPERTY
  EveryoneFinishes
CHECK_DEADLOCK FALSE
