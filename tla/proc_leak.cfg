\* A user process created when the table is full loses its code frames.
CONSTANTS
  p1 = p1
  p2 = p2
  Owners <- MCProcs
  Procs <- MCProcs
  InitMarks <- MCProcInitMarks
  TotalPages = 22
  BitmapPages = 24
  Counts = {4}
  MaxProcesses = 1
  PidBound = 4
SPECIFICATION ProcSpec
INVARIANT NoOrphanFrames
