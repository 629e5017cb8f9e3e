\* Buffers of two values and words of two bits; the adjoint program may end
\* when its tape is empty, or full for the bound, so the model may stop.
SPECIFICATION Spec
CONSTANTS
  i4 = i4
  r8 = r8
  x = x
  y = y
  Types = {i4, r8}
  Integer4 = i4
  Values = {x, y}
  Garbage = Garbage
  L = 2
  W = 2
  Programs <- MCPrograms
INVARIANTS
  TopArrayIsOwn
PROPERTY
  ImplementsTape
