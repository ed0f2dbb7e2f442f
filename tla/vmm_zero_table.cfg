\* manual_map_page on an exhausted PMM: page 0 becomes a table and destroy frees a page still in use.
CONSTANTS
  Pages <- MCPages
  Idx <- MCIdx
  UpperIdx = {1}
  KRoot = 2
  BootMem <- MCBootMem
  BootFree <- MCBootFree
  InitMaps <- MCInitMaps
  KVAddrs <- MCKVAddrs
  UVAddrs <- MCUVAddrs
  PhysArgs = {13}
SPECIFICATION Spec
INVARIANT TablesOwned
