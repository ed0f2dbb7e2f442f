\* Kernel and user address spaces: tables stay owned, the kernel map is kept.
CONSTANTS
  Pages <- MCPages
  Idx <- MCIdx
  UpperIdx = {1}
  KRoot = 2
  BootMem <- MCBootMem
  BootFree <- MCBootFree
  InitMaps <- MCInitMaps
  KVAddrs <- MCKVAddrs
  UVAddrs <- MCUVAddrs
  PhysArgs = {13}
SPECIFICATION Spec
INVARIANT TypeOK
INVARIANT TablesOwned
PROPERTY KernelRefines
CONSTRAINT NoZeroTable
