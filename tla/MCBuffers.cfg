\* The buffers of a halo, the cache of a server, the shares of a collected buffer.
CONSTANTS
  Menus <- MCMenus
  MaxFields = 3
  MaxHalos = 2
  Stencils = {4, 48}
  Width = 60
  Height = 50
  Kpe = 30
  Sr = 4
  MAX_VDIMS = 2
  MAX_4DARRAYS = 2
  Names = {a, b, c}
  NULL = NULL
  MAX_FLDS = 2
  MaxPieces = 4
  MaxSize = 2
  MaxBatches = 2
  N = 4
  IntMax = 3
  ExitSize <- MinusTwo
  Calls = {"collect", "dist", "quilt"}
SPECIFICATION PartsSpec
INVARIANTS
  NeverOverwrites
  NothingRefused
  RetrievedSorted
  PlacesAreSums
\* Each of them ends, or stops where the program does.
CHECK_DEADLOCK FALSE
