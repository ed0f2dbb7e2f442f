\* Mount, unmount, open, close, read, seek, stat and readdir over a volume
\* with a file and a directory in its root.
CONSTANTS
  fs1 = fs1
  n1 = n1
  n2 = n2
  NULL = NULL
  Fss = {fs1}
  Names <- MCNames
  Paths <- MCPaths
  MountPaths <- MCMountPaths
  RootDir <- MCRootDir
  RootSize = 0
  MaxEntries = 8
  MaxOpen = 2
  MaxMounts = 2
  NodeIds = {1, 2}
  Offsets <- MCOffsets
  OffsetBits = 3
  IntBits = 2
SPECIFICATION Spec
INVARIANT TypeOK
