------------------------------ MODULE Syscall ------------------------------
(***************************************************************************)
(* The int 0x80 system-call layer (kernel/arch/x86_64/syscall.c) on top of *)
(* the scheduler model.  syscall_init fills a 16-entry table through      *)
(* syscall_register; syscall_dispatcher reads the call number from rax,   *)
(* rejects numbers past the table and empty slots with -1, and otherwise  *)
(* stores the handler's result in rax.  A ring-3 task reaches the kernel  *)
(* only through the dispatcher: its exit, sleep and yield are the         *)
(* scheduler's Exit, Sleep and Yield, reached through sys_exit, sys_sleep *)
(* and sys_yield.  Kernel tasks keep calling the scheduler directly.      *)
(*                                                                         *)
(* Data is abstracted: a call carries one argument (the fd of write, read *)
(* and close, the path pointer of open, the ms of sleep); the bytes moved *)
(* by write and read and the VFS state behind open, read and close are    *)
(* left to the Vfs module, so those calls return any value the VFS can.   *)
(***************************************************************************)
EXTENDS Scheduler, Integers, Gdt

CONSTANTS
  Pid,        \* process_t.pid of each task (alloc_pid: creation order from 1)
  SleepMs,    \* the ms values ring-3 code passes to sys_sleep
  WordBits,   \* width of uint64_t, scaled down so TLC can hold 2^WordBits
  Fds         \* the fds ring-3 code passes to write, read and close

ASSUME
  /\ Pid \in [Tasks -> Nat \ {0}]
  /\ SleepMs \subseteq Nat
  /\ WordBits \in Nat \ {0}

VARIABLES
  trap,       \* the last int 0x80 of a ring-3 task: caller, rax in, arg, rax out
  inSyscall   \* ring-3 tasks switched away inside a handler: their int 0x80
              \* frame is still live on the stack TSS.rsp0 points at

sysvars == <<vars, trap, inSyscall>>

SYSCALL_COUNT == 16
SYS_EXIT == 0
SYS_WRITE == 1
SYS_READ == 2
SYS_OPEN == 3
SYS_CLOSE == 4
SYS_GETPID == 5
SYS_SLEEP == 6
SYS_YIELD == 7
SYS_TIME == 13
SYS_GETCHAR == 14
SYS_PUTCHAR == 15

\* rax on entry; SYSCALL_COUNT stands for every number past the table.
Nums == 0 .. SYSCALL_COUNT

Word == 2 ^ WordBits

NULL == "NULL"

\* The handlers syscall_init installs, in its order.
Registrations ==
  << <<SYS_EXIT, "exit">>, <<SYS_WRITE, "write">>, <<SYS_READ, "read">>,
     <<SYS_OPEN, "open">>, <<SYS_CLOSE, "close">>, <<SYS_GETPID, "getpid">>,
     <<SYS_SLEEP, "sleep">>, <<SYS_YIELD, "yield">>, <<SYS_TIME, "time">>,
     <<SYS_PUTCHAR, "putchar">>, <<SYS_GETCHAR, "getchar">> >>

\* syscall_register: a number past the table is ignored.
SyscallRegister(tbl, num, h) ==
  IF num < SYSCALL_COUNT THEN [tbl EXCEPT ![num] = h] ELSE tbl

\* syscall_init: clear the table, then register every handler.
SyscallTable ==
  FoldLeft(LAMBDA tbl, r : SyscallRegister(tbl, r[1], r[2]),
           [n \in 0 .. SYSCALL_COUNT - 1 |-> NULL], Registrations)

\* The dispatcher's two checks, in its order: bound, then empty slot.
Handler(num) ==
  IF num >= SYSCALL_COUNT THEN NULL ELSE SyscallTable[num]

\* sys_sleep that truncates: ticks = ms / 10.
TicksTruncate(ms) == (ms % Word) \div 10

\* sys_sleep: ticks = (ms + 9) / 10 in uint64_t arithmetic.
Ticks(ms) == ((ms + 9) % Word) \div 10

\* What the VFS can hand back through open, read and close: an error or a
\* count/fd.  The Vfs module checks what these calls do to the file table.
VfsResults == {-1, 0}

\* The argument register a call's handler reads.
ArgsOf(num) ==
  CASE num = SYS_SLEEP -> SleepMs
    [] num \in {SYS_WRITE, SYS_READ, SYS_CLOSE} -> Fds
    [] num = SYS_OPEN -> {0, 1}              \* path: NULL or a pointer
    [] OTHER -> {0}

\* The handlers that only compute rax, each as the set of values it can
\* return for argument a of task c.
\* sys_write: the console for fds 1 and 2 (a one-byte write), -1 otherwise.
SysWrite(a) == {IF a \in {1, 2} THEN 1 ELSE -1}

\* sys_open: -1 for a NULL path, otherwise what vfs_open returns.
SysOpen(a) == IF a = 0 THEN {-1} ELSE VfsResults

\* sys_close and sys_read (with a non-NULL buffer): what the VFS returns.
SysVfs == VfsResults

\* sys_getpid: current->pid; current is the caller.
SysGetpid(c) == {Pid[c]}

\* sys_time: timer_get_uptime_ms at the PIT's 100 Hz.
SysTime == {(Now * 1000) \div 100}

\* sys_putchar prints and returns 0; sys_getchar has no input buffer.
SysPutchar == {0}
SysGetchar == {-1}

SysResult(h, c, a) ==
  CASE h = "write" -> SysWrite(a)
    [] h = "open" -> SysOpen(a)
    [] h \in {"read", "close"} -> SysVfs
    [] h = "getpid" -> SysGetpid(c)
    [] h = "time" -> SysTime
    [] h = "putchar" -> SysPutchar
    [] h = "getchar" -> SysGetchar

-----------------------------------------------------------------------------
SysInit ==
  /\ Init
  /\ trap = [task |-> NIL, num |-> SYSCALL_COUNT, arg |-> 0, ret |-> 0]
  /\ inSyscall = {}

\* The dispatcher leaves r in the trap frame's rax.
Returns(c, num, a, r) == trap' = [task |-> c, num |-> num, arg |-> a, ret |-> r]

\* A ring-3 task whose handler switched away keeps its frame on the stack
\* until it is resumed and returns; every switch to a task unwinds that
\* task's frame.  A task halted in sys_exit never returns through its frame.
Unwind(c) ==
  inSyscall' = (inSyscall \cup {t \in {c} : current' # t /\ pc'[t] = "run"})
                 \ {current'}

\* sys_sleep: 0 ms returns at once, any other value sleeps Ticks(ms).
SysSleep(c, ms) ==
  IF ms = 0 THEN UNCHANGED vars ELSE Sleep(c, Ticks(ms))

\* A dispatcher that returns early for an unknown number without writing
\* rax: the caller gets its own call number back.
DispatchKeepsRax(c, num, a) ==
  /\ c \in UserTasks /\ Running(c)
  /\ Handler(num) = NULL
  /\ Returns(c, num, a, num) /\ UNCHANGED vars
  /\ Unwind(c)

\* int 0x80 from ring-3 task c with rax = num and argument a:
\* syscall_dispatcher and the handler it calls.
Dispatch(c, num, a) ==
  /\ c \in UserTasks /\ Running(c)
  /\ LET h == Handler(num) IN
     \/ h = NULL /\ Returns(c, num, a, -1) /\ UNCHANGED vars
     \/ h = "exit" /\ Exit(c) /\ Returns(c, num, a, 0)
     \/ h = "sleep" /\ SysSleep(c, a) /\ Returns(c, num, a, 0)
     \/ h = "yield" /\ Yield(c) /\ Returns(c, num, a, 0)
     \/ h \notin {NULL, "exit", "sleep", "yield"}
        /\ \E r \in SysResult(h, c, a) : Returns(c, num, a, r)
        /\ UNCHANGED vars
  /\ Unwind(c)

\* The timer and the kernel tasks act as in the scheduler model; a switch
\* to a ring-3 task unwinds its handler frame.
KernelFrame == UNCHANGED trap /\ inSyscall' = inSyscall \ {current'}

Kernel == Tasks \ UserTasks

SysNext ==
  \/ TimerIrq /\ KernelFrame
  \/ \E c \in Kernel : Exit(c) /\ KernelFrame
  \/ \E c \in Kernel, n \in SleepTicks : Sleep(c, n) /\ KernelFrame
  \/ \E c \in Kernel : Yield(c) /\ KernelFrame
  \/ \E c \in Kernel : Block(c) /\ KernelFrame
  \/ \E c \in Kernel, t \in Tasks : Unblock(c, t) /\ KernelFrame
  \/ \E c \in Kernel, t \in Tasks : Kill(c, t) /\ KernelFrame
  \/ \E c \in UserTasks, num \in Nums : \E a \in ArgsOf(num) : Dispatch(c, num, a)

SysSpec == SysInit /\ [][SysNext]_sysvars

-----------------------------------------------------------------------------
\* The cs, ss and rflags (IF set, IOPL 0) process_create and
\* process_create_user store in a new task's context.
KernelContext == [cs |-> 8, ss |-> 16, rflags |-> 514]
UserContext == [cs |-> 27, ss |-> 35, rflags |-> 514]

\* The frame the scheduler's iretq returns through when it switches to t:
\* scheduler_schedule saved regs->cs and regs->ss when t was switched out.
\* That is t's initial context unless a ring-3 t was switched out inside
\* a handler (or halted in sys_exit); then it is the nested int 0x20 taken
\* in ring 0, with the null SS the processor loads on entry from ring 3 and
\* IF clear.
Frame(t) ==
  CASE t \in inSyscall \/ pc[t] = "halt" -> [cs |-> 8, ss |-> 0, rflags |-> 2]
    [] t \in UserTasks -> UserContext
    [] OTHER -> KernelContext

Iopl(rflags) == (rflags \div 4096) % 4

-----------------------------------------------------------------------------
\* The registered call numbers spec.md 4.9 lists.
SpecRegistered == {0, 1, 2, 3, 4, 5, 6, 7, 13, 14, 15}

\* spec.md 4.9 and correctness property 6: for a call number outside the
\* registered set (fork..free, or past the table) syscall_dispatcher
\* returns -1 and invokes no handler, so no task changes state.
UnregisteredRejected ==
  [][trap' # trap /\ trap'.num \notin SpecRegistered =>
       trap'.ret = -1 /\ UNCHANGED vars]_sysvars

\* spec.md 4.9: sys_sleep rounds ms up to the next 10 ms tick, so the
\* caller's wake tick is ceil(ms/10) ticks from now, never sooner and not
\* a tick later; sleep_ms(0) returns at once and changes nothing.  (That
\* pick_next may resume a task before its wake tick is SwitchOnlyToReady's
\* concern.)
SleepRoundsUp ==
  [][trap' # trap /\ trap'.num = SYS_SLEEP =>
       LET ms == trap'.arg
           d  == sleepUntil'[trap'.task] - Now
       IN  IF ms = 0 THEN UNCHANGED vars
           ELSE d * 10 >= ms /\ (d - 1) * 10 < ms]_sysvars

\* spec.md 4.4: every segment load the kernel makes is one the processor
\* accepts: gdt_init's reloads and ltr, under which the boot thread runs
\* until the first switch; the iretq of each switch into a task, at the
\* privilege of the frame's cs (and a ring-3 task gets no port I/O: IOPL 0
\* and no I/O bitmap); and each int 0x80 from ring 3, through its DPL-3
\* gate, onto TSS.rsp0.
SegmentsLoadable ==
  [][/\ current = NIL /\ current' # NIL => GdtInitLoads
     /\ current' # current /\ current' # NIL =>
        LET f == Frame(current')
            cpl == Rpl(f.cs)
        IN  /\ CodeAccepted(f.cs, cpl) /\ StackAccepted(f.ss, cpl)
            /\ cpl = 3 => Iopl(f.rflags) < 3 /\ NoIoBitmap
     /\ trap' # trap => GateAccepted(128, 3)]_sysvars

\* tss_set_kernel_stack is never called, so every ring-3 task enters the
\* kernel on the one stack TSS.rsp0 names.  An int 0x80 must never land
\* on it while another ring-3 task's handler frame is still live there.
KernelStackExclusive ==
  [][trap' # trap => inSyscall \subseteq {trap'.task}]_sysvars

====
