\* Frame allocation and release with the counts that stay inside memory.
CONSTANTS
  o1 = o1
  o2 = o2
  Owners <- MCOwners
  InitMarks <- MCInitMarks
  TotalPages = 7
  BitmapPages = 11
  Counts = {1, 2, 4}
SPECIFICATION Spec
INVARIANT TypeOK
INVARIANT UsedCounted
INVARIANT Exclusive
INVARIANT WithinPool
INVARIANT FirstFit
