\* kmalloc, kfree and krealloc by three callers, with expansions.
CONSTANTS
  a = a
  b = b
  NoPtr = NoPtr
  Owners <- MCOwners
  PageSize = 4096
  InitPages = 1
  MaxFrames = 3
  Sizes = {64, 1000, 3000}
SPECIFICATION Spec
INVARIANT TypeOK
INVARIANT WellFormed
INVARIANT NoAdjacentFree
INVARIANT LiveDisjoint
