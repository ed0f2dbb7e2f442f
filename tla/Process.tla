------------------------------ MODULE Process ------------------------------
(***************************************************************************)
(* The process table of kernel/sched/process.c and the two creation paths *)
(* that fill it, on the frame allocator of Pmm.  process_table is a fixed *)
(* array of MAX_PROCESSES slots that add_process fills first-free;        *)
(* remove_process has no caller, so a slot is never given back.  A       *)
(* process_t comes from kzalloc (a member of Procs, the structures the    *)
(* heap can hand out) and owns, in Pmm's held, the runs of frames it took.*)
(*                                                                         *)
(* process_create_kernel_task takes a four-frame kernel stack.            *)
(* process_create_user takes a kernel stack, a user stack, a PML4         *)
(* (vmm_create_address_space), four code frames and, in its first         *)
(* manual_map_page, the PDPT, PD and PT that hold all eight user pages    *)
(* (0x8000000000 and 0x8000010000 share one page table).  Each creation  *)
(* is one action: the code runs it to the end or to an early return, and *)
(* every early return gives back what the code gives back.               *)
(***************************************************************************)
EXTENDS Pmm, Functions

CONSTANTS
  Procs,         \* the process_t structures kzalloc can return
  MaxProcesses,  \* MAX_PROCESSES, scaled down
  PidBound       \* bound on next_pid, to keep the state space finite

ASSUME
  /\ Procs \subseteq Owners
  /\ MaxProcesses \in Nat \ {0}
  /\ PidBound \in Nat

Slots == 0 .. MaxProcesses - 1
NULL == "NULL"

\* The frames a stack or the user code takes: pmm_alloc_pages(4).
STACK_PAGES == 4

VARIABLES
  table,         \* process_table
  nextPid,       \* next_pid
  processCount,  \* process_count
  pid            \* pid[p]: the pid alloc_pid gave structure p

pvars == <<vars, table, nextPid, processCount, pid>>

-----------------------------------------------------------------------------
(* Frame steps on Pmm's record [bm, used].                                *)

\* pmm_alloc_pages(n) (or pmm_alloc_page for n = 1) found run base p.
Take(s, p, n) == [bm |-> s.bm \cup {p + j : j \in 0 .. n - 1}, used |-> s.used + n]

\* pmm_alloc_page, which returns 0 when no frame is free.
PageOrZero(s) == IF FindFreePage(s.bm) = NoPage THEN 0 ELSE FindFreePage(s.bm)

\* A frame manual_map_page installs as a table: pmm_alloc_page's frame,
\* unchecked.  Frame 0 is reserved, so a failed call takes nothing; what
\* the walk then does through page 0 is Vmm's (vmm_zero_table).
TakeTable(s) == LET f == PageOrZero(s) IN IF f = 0 THEN s ELSE Take(s, f, 1)

Run(p, n) == [base |-> p, count |-> n]

\* vmm_destroy_address_space on the new space: the PML4 and the lower-half
\* tables under it; pmm_free_page(0) does nothing.
DestroySpace(s, pml4, tbls) ==
  FoldLeft(LAMBDA acc, f : FreeFrame(acc, f), s, <<pml4>> \o tbls)

-----------------------------------------------------------------------------
\* process_init (after pmm_init).
ProcInit ==
  /\ Init
  /\ table = [i \in Slots |-> NULL]
  /\ nextPid = 1
  /\ processCount = 0
  /\ pid = [p \in Procs |-> 0]

\* add_process: the lowest empty slot, or -1 when the table is full.
FreeSlots == {i \in Slots : table[i] = NULL}

AddProcess(p) ==
  LET i == CHOOSE i \in FreeSlots : \A j \in FreeSlots : i <= j
  IN  /\ table' = [table EXCEPT ![i] = p]
      /\ processCount' = processCount + 1

\* kzalloc returned structure p and alloc_pid gave it next_pid.  (A kzalloc
\* that fails returns before alloc_pid and changes nothing.)
NewProc(p) ==
  /\ p \notin Range(table)
  /\ nextPid < PidBound
  /\ nextPid' = nextPid + 1
  /\ pid' = [pid EXCEPT ![p] = nextPid]

\* Return NULL: the structure is kfree'd, the table is untouched, and the
\* frames are what s says.
Fail(p, s) ==
  /\ Store(s)
  /\ held' = [held EXCEPT ![p] = {}]
  /\ UNCHANGED <<table, processCount>>

\* process_create_kernel_task.
CreateKernelTask(p) ==
  LET k == FindFreePages(bitmap, STACK_PAGES)
      s == Take(Cur, k, STACK_PAGES)
  IN  /\ NewProc(p)
      /\ \/ k = NoPage /\ Fail(p, Cur)
         \/ /\ k # NoPage /\ FreeSlots = {}
            /\ Fail(p, FreeRun(s, k, STACK_PAGES))
         \/ /\ k # NoPage /\ FreeSlots # {}
            /\ Store(s)
            /\ held' = [held EXCEPT ![p] = {Run(k, STACK_PAGES)}]
            /\ AddProcess(p)

\* The frames process_create_user has taken when it frees what it took on
\* an early return: the kernel stack k and the user stack u.
FreeStacks(s, k, u) == FreeRun(FreeRun(s, k, STACK_PAGES), u, STACK_PAGES)

\* process_create_user: kernel stack, user stack, address space, code
\* frames, the three tables of the first manual_map_page, add_process.
CreateUser(p) ==
  LET k  == FindFreePages(bitmap, STACK_PAGES)
      s1 == Take(Cur, k, STACK_PAGES)
      u  == FindFreePages(s1.bm, STACK_PAGES)
      s2 == Take(s1, u, STACK_PAGES)
      m  == FindFreePage(s2.bm)
      s3 == Take(s2, m, 1)
      c  == FindFreePages(s3.bm, STACK_PAGES)
      s4 == Take(s3, c, STACK_PAGES)
      t1 == PageOrZero(s4)
      s5 == TakeTable(s4)
      t2 == PageOrZero(s5)
      s6 == TakeTable(s5)
      t3 == PageOrZero(s6)
      s7 == TakeTable(s6)
      tbls == <<t1, t2, t3>>
  IN  /\ NewProc(p)
      /\ \/ k = NoPage /\ Fail(p, Cur)
         \/ /\ k # NoPage /\ u = NoPage
            /\ Fail(p, FreeRun(s1, k, STACK_PAGES))
         \/ /\ k # NoPage /\ u # NoPage /\ m = NoPage
            /\ Fail(p, FreeStacks(s2, k, u))
         \/ /\ k # NoPage /\ u # NoPage /\ m # NoPage /\ c = NoPage
            /\ Fail(p, FreeStacks(DestroySpace(s3, m, <<>>), k, u))
         \/ /\ k # NoPage /\ u # NoPage /\ m # NoPage /\ c # NoPage
            /\ FreeSlots = {}
            /\ Fail(p, FreeStacks(DestroySpace(s7, m, tbls), k, u))
         \/ /\ k # NoPage /\ u # NoPage /\ m # NoPage /\ c # NoPage
            /\ FreeSlots # {}
            /\ Store(s7)
            /\ held' = [held EXCEPT ![p] =
                 {Run(k, STACK_PAGES), Run(u, STACK_PAGES), Run(m, 1),
                  Run(c, STACK_PAGES)}
                 \cup {Run(t, 1) : t \in {t1, t2, t3} \ {0}}]
            /\ AddProcess(p)

ProcNext ==
  \E p \in Procs : CreateKernelTask(p) \/ CreateUser(p)

ProcSpec == ProcInit /\ [][ProcNext]_pvars

-----------------------------------------------------------------------------
ProcTypeOK ==
  /\ TypeOK
  /\ table \in [Slots -> Procs \cup {NULL}]
  /\ nextPid \in 1 .. PidBound
  /\ processCount \in 0 .. MaxProcesses
  /\ pid \in [Procs -> 0 .. PidBound]

\* pmm.h: a frame is used from pmm_alloc_page(s) until pmm_free_page(s).
\* Every frame whose bit is set is one pmm_init reserved or one a process
\* in the table holds: a creation that returns NULL gives back every frame
\* it took, since no pointer to them survives it.
NoOrphanFrames ==
  \A f \in bitmap :
    \/ f \in ToSet(InitMarks)
    \/ \E i \in Slots : table[i] # NULL /\ \E r \in held[table[i]] : f \in Frames(r)
====
