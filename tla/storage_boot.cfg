\* The boot's format, mount and readdir calls over a drive that drops a
\* command written while DRQ is set (as QEMU's IDE does), fails commands
\* and answers as late as it likes, but commits every sector it accepts.
CONSTANTS
  NumBlocks = 4
  LbaBits = 2
  Data = {SB1, SB2, Zero, RootBlk, Stale, Junk}
  SB1 = SB1
  SB2 = SB2
  Zero = Zero
  RootBlk = RootBlk
  Stale = Stale
  Junk = Junk
  Ident = Ident
  Garbage = Garbage
  Budget = 2
  AbortOnCommand = FALSE
  WriteFaults = FALSE
SPECIFICATION Spec
INVARIANT MountedRootFormatted
PROPERTY ReadReturnsRequested
PROPERTY WriteReachesDrive
\* A failed call ends test_filesystem: the kernel then does no disk I/O.
CHECK_DEADLOCK FALSE
