\* A drive that drops a command written while DRQ is set (as QEMU's IDE
\* does): a DRQ raised after ata_wait_drq timed out serves the next call.
CONSTANTS
  NumBlocks = 2
  LbaBits = 1
  Data = {d1, d2}
  Ident = Ident
  Garbage = Garbage
  Budget = 2
  AbortOnCommand = FALSE
  WriteFaults = FALSE
SPECIFICATION Spec
PROPERTY ReadReturnsRequested
\* A failed IDENTIFY leaves no hda: the kernel then does no disk I/O.
CHECK_DEADLOCK FALSE
