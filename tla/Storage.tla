------------------------------ MODULE Storage ------------------------------
(***************************************************************************)
(* The disk path of the kernel's boot, composed with the driver and drive *)
(* of Ata: test_filesystem (main.c) finds hda, simplefs_format writes the *)
(* volume through ata_block_write, simplefs_create reads the superblock   *)
(* back and checks its magic, vfs_mount takes the root inode through      *)
(* simplefs_fs_get_root, and afterwards the syscalls that list or search  *)
(* / run simplefs_vfs_readdir, which reads the root's first direct block  *)
(* and, for an entry in use, that entry's inode.  A failed call ends the  *)
(* test: the kernel then does no more disk I/O.                           *)
(*                                                                         *)
(* A sector is the abstract content that wrote it: the two superblocks    *)
(* format writes (SB1 at line 48, SB2 at line 96), a zeroed block, the    *)
(* inode block holding the new root inode, or what the disk held before:  *)
(* Stale is what an earlier format left there (a superblock with the      *)
(* magic in block 0, an old root in block 1, old entries in block 3),     *)
(* Junk anything else.                                                    *)
(***************************************************************************)
EXTENDS Integers, Sequences

CONSTANTS NumBlocks, LbaBits, Data, Ident, Garbage, Budget, AbortOnCommand,
          WriteFaults,
          SB1, SB2, Zero, RootBlk, Stale, Junk

VARIABLES media, dev, pc, req, polls, reg, call,
          fpc,     \* where test_filesystem and the calls after it are
          issued,  \* the current block call has been made to the driver
          froot,   \* the block-1 sector get_root took the root inode from
          farg     \* the block the current read asks for

A == INSTANCE Ata

drv == <<media, dev, pc, req, polls, reg, call>>
fsv == <<fpc, issued, froot, farg>>
vars == <<drv, fsv>>

LBAs == A!LBAs

\* What the disk holds before the kernel boots.
Prior == {Stale, Junk}

\* A format that writes the root inode before clearing the inode table.
FormatWritesRootFirst ==
  << <<0, SB1>>, <<1, RootBlk>>, <<1, Zero>>, <<2, Zero>>, <<3, Zero>>,
     <<0, SB2>> >>

\* simplefs_format's writes, in order: the superblock, the
\* SIMPLEFS_INODE_BLOCKS zeroed inode blocks from first_inode_block = 1,
\* the inode block with the root inode, the root's zeroed directory block
\* at first_data_block = 3, the superblock with the updated free counts.
FormatWrites ==
  << <<0, SB1>>, <<1, Zero>>, <<2, Zero>>, <<1, RootBlk>>, <<3, Zero>>,
     <<0, SB2>> >>

\* Sectors whose first word is SIMPLEFS_MAGIC.
Magic == {SB1, SB2, Stale}

\* The blocks readdir may find in direct[0] of the root inode taken from a
\* block-1 sector: 3 for a root format wrote (or an earlier format did);
\* none (type 0, readdir returns NULL) for a zeroed one; any nonzero block
\* for anything else.
RootDirBlocks(c) ==
  CASE c \in {RootBlk, Stale} -> {3}
    [] c = Zero               -> {}
    [] OTHER                  -> LBAs \ {0}

\* A directory block whose entry may have a nonzero inode field.
HasEntries(c) == c \in {Stale, Junk, SB1, SB2, RootBlk}

\* The block simplefs_read_inode reads for inode n: first_inode_block +
\* n / inodes_per_block, with 512 / sizeof(simplefs_inode_t) = 7 inodes a
\* block and n below num_inodes = 256.
InodeBlock(n) == 1 + n \div 7
ChildBlocks == {InodeBlock(n) : n \in 1 .. 255} \cap LBAs

\* The block call the current step makes.
Request ==
  CASE fpc = "format" -> [op |-> "write", blk |-> FormatWrites[farg][1],
                          data |-> FormatWrites[farg][2]]
    [] fpc = "r_sb"   -> [op |-> "read", blk |-> 0, data |-> Garbage]
    [] fpc = "r_root" -> [op |-> "read", blk |-> InodeBlock(0), data |-> Garbage]
    [] OTHER          -> [op |-> "read", blk |-> farg, data |-> Garbage]

IoSteps == {"format", "r_sb", "r_root", "r_dir", "r_child"}

Init ==
  /\ A!Init
  /\ media \in [LBAs -> Prior]
  /\ fpc = "start"
  /\ issued = FALSE
  /\ froot = Junk
  /\ farg = 0

\* test_filesystem: block_get_device("hda") finds the drive ata_init
\* registered, or the test is skipped.
StartTest ==
  /\ fpc = "start"
  /\ pc \in {"idle", "halt"}
  /\ fpc' = IF reg THEN "format" ELSE "done"
  /\ farg' = 1
  /\ UNCHANGED <<drv, issued, froot>>

\* The step's read_block or write_block call reaches the driver.
Issue ==
  /\ fpc \in IoSteps
  /\ ~issued
  /\ A!Start(Request.op, Request.blk, Request.data)
  /\ issued' = TRUE
  /\ UNCHANGED <<fpc, froot, farg>>

\* The call returns and its caller goes on: a failed write ends
\* simplefs_format and the test; simplefs_fs_init takes a superblock with
\* the magic; get_root keeps the inode it read (vfs_mount fails with it);
\* readdir reads the inode of an entry in use and returns to the syscall.
Resume ==
  /\ issued
  /\ pc = "idle"
  /\ issued' = FALSE
  /\ LET v == call.val
         d == call.data
     IN CASE fpc = "format" ->
               /\ fpc' = CASE v # 0                   -> "done"
                           [] farg < Len(FormatWrites) -> "format"
                           [] OTHER                    -> "r_sb"
               /\ farg' = IF farg < Len(FormatWrites) THEN farg + 1 ELSE farg
               /\ UNCHANGED froot
          [] fpc = "r_sb" ->
               /\ fpc' = IF v = 0 /\ d \in Magic THEN "r_root" ELSE "done"
               /\ UNCHANGED <<froot, farg>>
          [] fpc = "r_root" ->
               /\ fpc' = IF v = 0 THEN "mounted" ELSE "done"
               /\ froot' = IF v = 0 THEN d ELSE froot
               /\ UNCHANGED farg
          [] fpc = "r_dir" ->
               /\ fpc' = IF v = 0 /\ HasEntries(d) THEN "r_child" ELSE "mounted"
               /\ farg' \in IF v = 0 /\ HasEntries(d) THEN ChildBlocks ELSE {farg}
               /\ UNCHANGED froot
          [] OTHER ->
               /\ fpc' = "mounted"
               /\ UNCHANGED <<froot, farg>>
  /\ UNCHANGED drv

\* A syscall that opens or lists a path under / runs readdir on the root
\* node, which reads the root's direct[0] when it is a directory with one.
Readdir ==
  /\ fpc = "mounted"
  /\ \E b \in RootDirBlocks(froot) : fpc' = "r_dir" /\ farg' = b
  /\ UNCHANGED <<drv, issued, froot>>

\* The drive's and the driver's steps leave the callers' state alone.
Next ==
  \/ A!DevDataReady /\ UNCHANGED fsv
  \/ A!DevCommit /\ UNCHANGED fsv
  \/ A!DevFlushDone /\ UNCHANGED fsv
  \/ A!DevError /\ UNCHANGED fsv
  \/ A!IssueIdentify /\ UNCHANGED fsv
  \/ A!PollAgain /\ UNCHANGED fsv
  \/ A!TimeOut /\ UNCHANGED fsv
  \/ A!WaitReady /\ UNCHANGED fsv
  \/ A!IssueCommand /\ UNCHANGED fsv
  \/ A!WaitDrq /\ UNCHANGED fsv
  \/ A!TransferIn /\ UNCHANGED fsv
  \/ A!DataOut /\ UNCHANGED fsv
  \/ A!FlushCommand /\ UNCHANGED fsv
  \/ A!WaitFlush /\ UNCHANGED fsv
  \/ StartTest \/ Issue \/ Resume \/ Readdir

Spec == Init /\ [][Next]_vars

(***************************************************************************)
(* Properties.                                                             *)
(***************************************************************************)

TypeOK ==
  /\ A!TypeOK
  /\ fpc \in IoSteps \cup {"start", "mounted", "done"}
  /\ issued \in BOOLEAN
  /\ froot \in Data
  /\ farg \in LBAs \cup 1 .. Len(FormatWrites)

\* The driver's promises, in the calls the kernel makes: a read that
\* returns 0 gives the sector asked for, a write that returns 0 is on the
\* drive.
ReadReturnsRequested ==
  [][A!Returns /\ call'.op = "read" /\ call'.val = 0
       => call'.data = media'[call'.blk]]_drv

WriteReachesDrive ==
  [][A!Returns /\ call'.op = "write" /\ call'.val = 0
       => \/ media'[call'.blk] = call'.data
          \/ dev'.cmd = "commit" /\ dev'.lba = call'.blk
             /\ dev'.buf = call'.data]_drv

\* Scenario S6: once simplefs_format has returned 0 and vfs_mount has
\* mounted the volume, the root the VFS serves is the directory format
\* wrote (type DIR, size 0, direct[0] = first_data_block), not whatever
\* block 1 held before.
MountedRootFormatted ==
  fpc \in {"mounted", "r_dir", "r_child"} => froot = RootBlk
====
