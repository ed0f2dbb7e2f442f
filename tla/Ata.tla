-------------------------------- MODULE Ata --------------------------------
(***************************************************************************)
(* The PIO disk driver of ata.c and the drive it talks to, as two actors  *)
(* whose steps interleave.  The driver writes the task-file registers and *)
(* polls the status register (ata_wait_ready, ata_wait_drq), each wait    *)
(* giving up after a budget of reads; the drive runs a command, raises    *)
(* DRQ when it has data to give or wants data, commits a written sector,  *)
(* or fails with ERR, and takes as long as it likes.  ata_init identifies *)
(* the drive and registers it with block.c; after that simplefs' calls    *)
(* arrive through ata_block_read / ata_block_write, one sector each.      *)
(*                                                                         *)
(* A command written while the drive is BSY is dropped.  One written      *)
(* while it holds DRQ is left undefined by the ATA protocol (a host must  *)
(* not do it): AbortOnCommand says whether the drive abandons the         *)
(* pending transfer and runs the new command, or drops the new command    *)
(* (QEMU's IDE does the latter).                                          *)
(***************************************************************************)
EXTENDS Integers

CONSTANTS
  NumBlocks,       \* the sectors of the drive
  LbaBits,         \* the LBA bits a command carries (28 in ata.c)
  Data,            \* sector contents
  Ident,           \* the IDENTIFY block
  Garbage,         \* what the data port gives when no read is pending
  Budget,          \* status reads per wait (timeout_ms * 1000 = 100000)
  AbortOnCommand,  \* the drive takes a command written while DRQ is set
  WriteFaults      \* the drive may fail to commit a written sector

LBAs == 0 .. NumBlocks - 1

VARIABLES
  media,   \* the sectors on the drive
  dev,     \* the drive: status bits, command in progress, LBA, buffer
  pc,      \* where the driver is
  req,     \* the call in progress: [op, blk, data]
  polls,   \* status reads left in the current wait
  reg,     \* the drive is registered with the block layer as hda
  call     \* the last call that returned: [op, blk, data, val]

vars == <<media, dev, pc, req, polls, reg, call>>

Ops == {"identify", "read", "write"}
DevCmds == Ops \cup {"commit", "flush", "none"}

\* The LBA the drive sees: the low 24 bits in LBA_LOW/MID/HIGH, bits 24-27
\* in DRIVE_SELECT, the rest lost.
Lba28(b) == b % (2 ^ LbaBits)

Init ==
  /\ media \in [LBAs -> Data]
  /\ dev = [bsy |-> FALSE, drq |-> FALSE, err |-> FALSE,
            cmd |-> "none", lba |-> 0, buf |-> Garbage]
  /\ pc = "boot"
  /\ req = [op |-> "identify", blk |-> 0, data |-> Garbage]
  /\ polls = Budget
  /\ reg = FALSE
  /\ call = [op |-> "none", blk |-> 0, data |-> Garbage, val |-> 0]

(***************************************************************************)
(* The drive.                                                              *)
(***************************************************************************)

\* outb(ATA_REG_COMMAND, c): a drive that takes it starts it busy and
\* clears ERR; one that drops it keeps what it was doing.
Accept(c, l) ==
  dev' = [dev EXCEPT !.bsy = TRUE, !.drq = FALSE, !.err = FALSE,
                     !.cmd = c, !.lba = l]

WriteCommand(c, l) ==
  \/ ~dev.bsy /\ ~dev.drq /\ Accept(c, l)
  \/ ~dev.bsy /\ dev.drq /\ AbortOnCommand /\ Accept(c, l)
  \/ (dev.bsy \/ (dev.drq /\ ~AbortOnCommand)) /\ UNCHANGED dev

\* The drive has the sector (or IDENTIFY block) in its buffer, or is ready
\* for the sector to write, and raises DRQ.
DevDataReady ==
  /\ dev.bsy
  /\ dev.cmd \in Ops
  /\ dev' = [dev EXCEPT !.bsy = FALSE, !.drq = TRUE,
               !.buf = CASE dev.cmd = "read"     -> media[dev.lba]
                         [] dev.cmd = "identify" -> Ident
                         [] OTHER                -> dev.buf]
  /\ UNCHANGED <<media, pc, req, polls, reg, call>>

\* The written sector reaches the media.
DevCommit ==
  /\ dev.bsy
  /\ dev.cmd = "commit"
  /\ media' = [media EXCEPT ![dev.lba] = dev.buf]
  /\ dev' = [dev EXCEPT !.bsy = FALSE, !.cmd = "none"]
  /\ UNCHANGED <<pc, req, polls, reg, call>>

DevFlushDone ==
  /\ dev.bsy
  /\ dev.cmd = "flush"
  /\ dev' = [dev EXCEPT !.bsy = FALSE, !.cmd = "none"]
  /\ UNCHANGED <<media, pc, req, polls, reg, call>>

\* The command fails: BSY clears with ERR set.
DevError ==
  /\ dev.bsy
  /\ dev.cmd \in Ops \cup {"flush"} \cup (IF WriteFaults THEN {"commit"} ELSE {})
  /\ dev' = [dev EXCEPT !.bsy = FALSE, !.err = TRUE, !.cmd = "none"]
  /\ UNCHANGED <<media, pc, req, polls, reg, call>>

(***************************************************************************)
(* The driver.                                                             *)
(***************************************************************************)

\* The waits and what each reads in the status register until it gives up:
\* ata_wait_ready for !BSY (a present drive keeps RDY set), ata_wait_drq
\* for ERR or DRQ.
Waits == {"id_ready", "ready", "drq", "flush"}
StillWaiting == IF pc = "drq" THEN ~dev.err /\ ~dev.drq ELSE dev.bsy

\* The call returns v: a failed IDENTIFY leaves the drive unregistered,
\* and with no hda the kernel does no disk I/O.
Finish(v, d) ==
  /\ pc' = IF req.op = "identify" /\ v # 0 THEN "halt" ELSE "idle"
  /\ reg' = (reg \/ (req.op = "identify" /\ v = 0))
  /\ call' = [op |-> req.op, blk |-> req.blk, data |-> d, val |-> v]
  /\ polls' = Budget
  /\ UNCHANGED req

\* ata_identify: select the drive, write IDENTIFY; a present drive's
\* status is then not 0.
IssueIdentify ==
  /\ pc = "boot"
  /\ WriteCommand("identify", 0)
  /\ pc' = "id_ready"
  /\ UNCHANGED <<media, req, polls, reg, call>>

\* A call through ata_block_read / ata_block_write reaches
\* ata_read_sectors / ata_write_sectors with count 1.
Start(op, b, d) ==
  /\ pc = "idle"
  /\ reg
  /\ req' = [op |-> op, blk |-> b, data |-> d]
  /\ pc' = "ready"
  /\ UNCHANGED <<media, dev, polls, reg, call>>

\* A status read that does not end the wait.
PollAgain ==
  /\ pc \in Waits
  /\ StillWaiting
  /\ polls > 1
  /\ polls' = polls - 1
  /\ UNCHANGED <<media, dev, pc, req, reg, call>>

\* A driver that, as after the flush, ignores every wait that runs out.
TimeOutIgnored ==
  /\ pc \in Waits
  /\ StillWaiting
  /\ polls = 1
  /\ Finish(0, req.data)
  /\ UNCHANGED <<media, dev>>

\* The last status read the budget allows fails: the wait returns -1, and
\* so does the call, except after the cache flush, whose wait is ignored.
TimeOut ==
  /\ pc \in Waits
  /\ StillWaiting
  /\ polls = 1
  /\ IF pc = "flush" THEN Finish(0, req.data) ELSE Finish(-1, Garbage)
  /\ UNCHANGED <<media, dev>>

\* ata_wait_ready returns 0: before the command in ata_read_sectors and
\* ata_write_sectors, after it in ata_identify.
WaitReady ==
  /\ pc \in {"id_ready", "ready"}
  /\ ~dev.bsy
  /\ pc' = IF pc = "ready" THEN "cmd" ELSE "drq"
  /\ polls' = Budget
  /\ UNCHANGED <<media, dev, req, reg, call>>

\* Select the drive, program the count and LBA, write READ or WRITE.
IssueCommand ==
  /\ pc = "cmd"
  /\ WriteCommand(req.op, Lba28(req.blk))
  /\ pc' = "drq"
  /\ UNCHANGED <<media, req, polls, reg, call>>

\* A wait_drq that looks at ERR alone.
WaitDrqErrOnly ==
  /\ pc = "drq"
  /\ \/ dev.err /\ Finish(-1, Garbage)
     \/ ~dev.err /\ pc' = "xfer" /\ polls' = Budget
                 /\ UNCHANGED <<req, reg, call>>
  /\ UNCHANGED <<media, dev>>

\* ata_wait_drq: ERR ends the call with -1, DRQ lets the transfer start.
WaitDrq ==
  /\ pc = "drq"
  /\ \/ dev.err /\ Finish(-1, Garbage)
     \/ ~dev.err /\ dev.drq /\ pc' = "xfer" /\ polls' = Budget
                 /\ UNCHANGED <<req, reg, call>>
  /\ UNCHANGED <<media, dev>>

\* 256 inw of the data port.  They drain a pending read or IDENTIFY
\* whatever command the driver last wrote; with none pending they give
\* nothing the drive holds.
TransferIn ==
  /\ pc = "xfer"
  /\ req.op \in {"identify", "read"}
  /\ LET pending == dev.drq /\ dev.cmd \in {"identify", "read"}
     IN  /\ dev' = IF pending THEN [dev EXCEPT !.drq = FALSE, !.cmd = "none"]
                              ELSE dev
         /\ Finish(0, IF pending THEN dev.buf ELSE Garbage)
  /\ UNCHANGED media

\* 256 outw of the data port.  A drive waiting for a sector takes them and
\* goes busy committing it; one with a read pending drops them.
DataOut ==
  /\ pc = "xfer"
  /\ req.op = "write"
  /\ dev' = IF dev.drq /\ dev.cmd = "write"
              THEN [dev EXCEPT !.drq = FALSE, !.bsy = TRUE, !.cmd = "commit",
                               !.buf = req.data]
              ELSE dev
  /\ pc' = "flush_cmd"
  /\ UNCHANGED <<media, req, polls, reg, call>>

\* CACHE FLUSH is written straight after the data, with no wait.
FlushCommand ==
  /\ pc = "flush_cmd"
  /\ WriteCommand("flush", dev.lba)
  /\ pc' = "flush"
  /\ UNCHANGED <<media, req, polls, reg, call>>

\* ata_wait_ready after the flush; its result is not looked at.
WaitFlush ==
  /\ pc = "flush"
  /\ ~dev.bsy
  /\ Finish(0, req.data)
  /\ UNCHANGED <<media, dev>>

Next ==
  \/ DevDataReady \/ DevCommit \/ DevFlushDone \/ DevError
  \/ IssueIdentify
  \/ \E b \in LBAs : Start("read", b, Garbage)
  \/ \E b \in LBAs, d \in Data : Start("write", b, d)
  \/ PollAgain \/ TimeOut \/ WaitReady \/ IssueCommand \/ WaitDrq
  \/ TransferIn \/ DataOut \/ FlushCommand \/ WaitFlush

Spec == Init /\ [][Next]_vars

(***************************************************************************)
(* Properties.                                                             *)
(***************************************************************************)

TypeOK ==
  /\ media \in [LBAs -> Data]
  /\ dev \in [bsy : BOOLEAN, drq : BOOLEAN, err : BOOLEAN, cmd : DevCmds,
              lba : LBAs, buf : Data \cup {Ident, Garbage}]
  /\ pc \in Waits \cup {"boot", "idle", "cmd", "xfer", "flush_cmd", "halt"}
  /\ req \in [op : Ops, blk : LBAs, data : Data \cup {Garbage}]
  /\ polls \in 1 .. Budget
  /\ reg \in BOOLEAN

\* The step at which ata_read_sectors or ata_write_sectors returns.
Returns == pc \notin {"idle", "halt"} /\ pc' \in {"idle", "halt"}

\* A read that ata_read_sectors reports as done (0) hands back the sector
\* the caller asked for, as it is on the media: never a sector of an
\* earlier command the drive answered late, nor bytes with no read behind.
ReadReturnsRequested ==
  [][Returns /\ call'.op = "read" /\ call'.val = 0
       => call'.data = media'[call'.blk]]_vars

\* A write that ata_write_sectors reports as done (0) is on the media of
\* the block asked for, or is the sector the drive is still committing.
WriteReachesDrive ==
  [][Returns /\ call'.op = "write" /\ call'.val = 0
       => \/ media'[call'.blk] = call'.data
          \/ dev'.cmd = "commit" /\ dev'.lba = call'.blk
             /\ dev'.buf = call'.data]_vars
====
