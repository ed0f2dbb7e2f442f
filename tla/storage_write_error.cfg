\* A drive that may fail to commit a sector it accepted: ata_write_sectors
\* never reads ERR after the data, so format returns 0 over a lost write.
CONSTANTS
  NumBlocks = 4
  LbaBits = 2
  Data = {SB1, SB2, Zero, RootBlk, Stale, Junk}
  SB1 = SB1
  SB2 = SB2
  Zero = Zero
  RootBlk = RootBlk
  Stale = Stale
  Junk = Junk
  Ident = Ident
  Garbage = Garbage
  Budget = 2
  AbortOnCommand = FALSE
  WriteFaults = TRUE
SPECIFICATION Spec
INVARIANT MountedRootFormatted
\* A failed call ends test_filesystem: the kernel then does no disk I/O.
CHECK_DEADLOCK FALSE
