----------------------------- MODULE Scheduler -----------------------------
(***************************************************************************)
(* The task model and round-robin scheduler of NovaOS on its single CPU: *)
(* kernel/sched/scheduler.c, kernel/sched/process.c and the dispatch of   *)
(* vector 32 through isr_common_handler (unnamed/part_009).               *)
(*                                                                         *)
(* State: the lifecycle state and wake tick of every task control block,  *)
(* the ready queue as the intrusive doubly-linked list of scheduler.c     *)
(* (head, tail and the next/prev fields of each task), the current task   *)
(* (NIL while the boot thread of kernel_main runs) and the in-service bit *)
(* of IRQ0 in the master 8259.                                            *)
(*                                                                         *)
(* Bring-up as main.c leaves it: timer_init(100) registers timer_handler  *)
(* on vector 32, then scheduler_init registers scheduler_schedule on the  *)
(* same vector and replaces it.  So a timer interrupt runs the scheduler  *)
(* but never increments timer_ticks and never sends the end-of-interrupt  *)
(* that only timer_handler sends (the entry stubs, per spec.md 4.5/4.6,   *)
(* do not acknowledge the controller).  The tick count stays at the value *)
(* it had when interrupts were enabled, which is 0, and IRQ0 stays in     *)
(* service after its first delivery.                                      *)
(*                                                                         *)
(* Every handler runs behind an interrupt gate (IF cleared) and the only  *)
(* interrupt that can arrive is that first IRQ0, which is taken in the    *)
(* boot thread's hlt loop before any task has run; so each operation a   *)
(* task calls is one atomic step.                                         *)
(***************************************************************************)
EXTENDS Naturals, Sequences, FiniteSets, SequencesExt

CONSTANTS
  Tasks,        \* task control blocks, all created and queued by the boot code
  UserTasks,    \* the ring-3 tasks among them; they reach the kernel by int 0x80
  NIL,          \* the NULL pointer
  Prog,         \* Prog[t]: the kernel operations the code of task t calls
  SleepTicks,   \* tick counts passed to process_sleep
  InitOrder     \* the order in which the boot code calls scheduler_add_process

Ops     == {"exit", "sleep", "yield", "block", "unblock", "kill"}
\* A ring-3 task reaches only sys_exit, sys_sleep and sys_yield.
UserOps == {"exit", "sleep", "yield"}

ASSUME
  /\ NIL \notin Tasks
  /\ UserTasks \subseteq Tasks
  /\ Prog \in [Tasks -> SUBSET Ops]
  /\ \A t \in UserTasks : Prog[t] \subseteq UserOps
  /\ SleepTicks \subseteq Nat
  /\ IsInjective(InitOrder) /\ ToSet(InitOrder) = Tasks

\* process_state_t
READY == "READY"  RUNNING == "RUNNING"  BLOCKED == "BLOCKED"
SLEEPING == "SLEEPING"  ZOMBIE == "ZOMBIE"  DEAD == "DEAD"
States == {READY, RUNNING, BLOCKED, SLEEPING, ZOMBIE, DEAD}

\* Where a task's code stands: calling kernel operations, or parked in the
\* while(1) hlt loop that follows the int 0x20 of process_exit.
PCs == {"run", "halt"}

VARIABLES
  state,          \* process->state
  sleepUntil,     \* process->sleep_until
  rq,             \* ready_queue_head/_tail and the next/prev links
  current,        \* current_process
  pc,             \* where each task's code stands
  irq0InService   \* IRQ0's bit in the master PIC's in-service register

vars == <<state, sleepUntil, rq, current, pc, irq0InService>>

\* timer_ticks: frozen, see the module header.
Now == 0

-----------------------------------------------------------------------------
(* The ready queue, scheduler.c lines 31-81.                               *)

EmptyQueue ==
  [head |-> NIL, tail |-> NIL,
   next |-> [t \in Tasks |-> NIL], prev |-> [t \in Tasks |-> NIL]]

\* scheduler_add_process, without its write of process->state.
AddProcess(L, p) ==
  IF L.head = NIL
  THEN [L EXCEPT !.head = p, !.tail = p,
                 !.next[p] = NIL, !.prev[p] = NIL]
  ELSE [L EXCEPT !.next = [L.next EXCEPT ![L.tail] = p, ![p] = NIL],
                 !.prev[p] = L.tail,
                 !.tail = p]

\* remove_process that forgets to move tail back when p is the last task.
RemoveProcessKeepTail(L, p) ==
  LET L1 == IF L.prev[p] # NIL
            THEN [L EXCEPT !.next[L.prev[p]] = L.next[p]]
            ELSE [L EXCEPT !.head = L.next[p]]
      L2 == IF L1.next[p] # NIL
            THEN [L1 EXCEPT !.prev[L1.next[p]] = L1.prev[p]]
            ELSE L1
  IN  [L2 EXCEPT !.next[p] = NIL, !.prev[p] = NIL]

\* remove_process that never repairs the successor's prev link.
RemoveProcessKeepPrev(L, p) ==
  LET L1 == IF L.prev[p] # NIL
            THEN [L EXCEPT !.next[L.prev[p]] = L.next[p]]
            ELSE [L EXCEPT !.head = L.next[p]]
      L2 == IF L1.next[p] # NIL THEN L1
            ELSE [L1 EXCEPT !.tail = L1.prev[p]]
  IN  [L2 EXCEPT !.next[p] = NIL, !.prev[p] = NIL]

\* scheduler_remove_process.  It trusts p's links: it never checks that p
\* is queued.
RemoveProcess(L, p) ==
  LET L1 == IF L.prev[p] # NIL
            THEN [L EXCEPT !.next[L.prev[p]] = L.next[p]]
            ELSE [L EXCEPT !.head = L.next[p]]
      L2 == IF L1.next[p] # NIL
            THEN [L1 EXCEPT !.prev[L1.next[p]] = L1.prev[p]]
            ELSE [L1 EXCEPT !.tail = L1.prev[p]]
  IN  [L2 EXCEPT !.next[p] = NIL, !.prev[p] = NIL]

RECURSIVE AddAll(_, _)
AddAll(L, s) == IF s = <<>> THEN L ELSE AddAll(AddProcess(L, Head(s)), Tail(s))

\* The tasks met walking next from head, cut off after |Tasks|+1 hops so
\* that a cycle shows as a repeated task.
RECURSIVE Walk(_, _, _)
Walk(L, p, k) == IF p = NIL \/ k = 0 THEN <<>>
                 ELSE <<p>> \o Walk(L, L.next[p], k - 1)

QueueOf(L) == Walk(L, L.head, Cardinality(Tasks) + 1)

-----------------------------------------------------------------------------
(* scheduler_schedule (scheduler.c 109-196) with scheduler_pick_next and   *)
(* process_wakeup_sleeping, entered with the task states st, the wake     *)
(* ticks su and the queue L that the interrupted code left.  The context  *)
(* copy and the CR3 load are the switch of current; the total_time and    *)
(* total_switches statistics are not modelled.                            *)

\* schedule that does not demote the task it switches away from.
ScheduleNoDemote(st, su, L) ==
  LET woke == [t \in Tasks |->
                 IF st[t] = SLEEPING /\ Now >= su[t] THEN READY ELSE st[t]]
      next == L.head
  IN  /\ rq' = IF next = NIL THEN L
                ELSE AddProcess(RemoveProcess(L, next), next)
      /\ state' = IF next \in {NIL, current} THEN woke
                   ELSE [woke EXCEPT ![next] = RUNNING]
      /\ current' = IF next = NIL THEN current ELSE next

\* schedule whose pick returns the head without moving it to the tail.
ScheduleNoRotate(st, su, L) ==
  LET woke == [t \in Tasks |->
                 IF st[t] = SLEEPING /\ Now >= su[t] THEN READY ELSE st[t]]
      next == L.head
  IN  /\ rq' = L
      /\ state' = IF next = NIL THEN woke
                   ELSE [t \in Tasks |->
                           IF t = next THEN RUNNING
                           ELSE IF t = current /\ woke[t] = RUNNING THEN READY
                           ELSE woke[t]]
      /\ current' = IF next = NIL THEN current ELSE next

Schedule(st, su, L) ==
  LET woke == [t \in Tasks |->
                 IF st[t] = SLEEPING /\ Now >= su[t] THEN READY ELSE st[t]]
      next == L.head
      rot  == AddProcess(RemoveProcess(L, next), next)
  IN  IF next = NIL
      THEN /\ state' = woke
           /\ rq' = L
           /\ UNCHANGED current
      ELSE IF next = current
      THEN \* add_process marked it READY; the same task continues
           /\ state' = [woke EXCEPT ![next] = READY]
           /\ rq' = rot
           /\ UNCHANGED current
      ELSE /\ state' = [t \in Tasks |->
                          IF t = next THEN RUNNING
                          ELSE IF t = current /\ woke[t] = RUNNING THEN READY
                          ELSE woke[t]]
           /\ rq' = rot
           /\ current' = next

-----------------------------------------------------------------------------
Init ==
  /\ state = [t \in Tasks |-> READY]
  /\ sleepUntil = [t \in Tasks |-> 0]
  /\ rq = AddAll(EmptyQueue, InitOrder)
  /\ current = NIL
  /\ pc = [t \in Tasks |-> "run"]
  /\ irq0InService = FALSE

\* IF is set in the boot thread's hlt loop and in every task's saved flags;
\* it is clear in a ring-3 task halted inside sys_exit, which runs behind
\* the int 0x80 interrupt gate.
InterruptsOn ==
  IF current \in UserTasks THEN pc[current] = "run" ELSE TRUE

\* IRQ0 from the PIT, vector 32 -> isr_common_handler -> scheduler_schedule.
TimerIrq ==
  /\ ~irq0InService
  /\ InterruptsOn
  /\ irq0InService' = TRUE
  /\ Schedule(state, sleepUntil, rq)
  /\ UNCHANGED <<sleepUntil, pc>>

Running(c) == current = c /\ pc[c] = "run"

\* process_exit, directly or through sys_exit.
Exit(c) ==
  /\ Running(c) /\ "exit" \in Prog[c]
  /\ pc' = [pc EXCEPT ![c] = "halt"]
  /\ Schedule([state EXCEPT ![c] = ZOMBIE], sleepUntil, rq)
  /\ UNCHANGED <<sleepUntil, irq0InService>>

\* process_sleep that subtracts the delay from the tick count.
SleepBeforeNow(c, n) ==
  /\ Running(c) /\ "sleep" \in Prog[c]
  /\ LET su == [sleepUntil EXCEPT ![c] = Now - n]
     IN  /\ sleepUntil' = su
         /\ Schedule([state EXCEPT ![c] = SLEEPING], su, rq)
  /\ UNCHANGED <<pc, irq0InService>>

\* process_sleep(n).
Sleep(c, n) ==
  /\ Running(c) /\ "sleep" \in Prog[c]
  /\ LET su == [sleepUntil EXCEPT ![c] = Now + n]
     IN  /\ sleepUntil' = su
         /\ Schedule([state EXCEPT ![c] = SLEEPING], su, rq)
  /\ UNCHANGED <<pc, irq0InService>>

\* scheduler_yield (int $32), directly or through sys_yield.
Yield(c) ==
  /\ Running(c) /\ "yield" \in Prog[c]
  /\ Schedule(state, sleepUntil, rq)
  /\ UNCHANGED <<sleepUntil, pc, irq0InService>>

\* scheduler_block: mark BLOCKED, unlink, yield.
Block(c) ==
  /\ Running(c) /\ "block" \in Prog[c]
  /\ Schedule([state EXCEPT ![c] = BLOCKED], sleepUntil, RemoveProcess(rq, c))
  /\ UNCHANGED <<sleepUntil, pc, irq0InService>>

\* scheduler_unblock(t): only a BLOCKED task is re-queued.
Unblock(c, t) ==
  /\ Running(c) /\ "unblock" \in Prog[c]
  /\ state[t] = BLOCKED
  /\ state' = [state EXCEPT ![t] = READY]
  /\ rq' = AddProcess(rq, t)
  /\ UNCHANGED <<sleepUntil, current, pc, irq0InService>>

\* process_kill(pid of t): marks DEAD and leaves the task where it is.
Kill(c, t) ==
  /\ Running(c) /\ "kill" \in Prog[c]
  /\ state' = [state EXCEPT ![t] = DEAD]
  /\ UNCHANGED <<sleepUntil, rq, current, pc, irq0InService>>

\* A task's next call into the kernel.  A ring-3 task sleeps through
\* sys_sleep, which rounds ms up to n >= 1 ticks and returns at once for
\* 0 ms (the Syscall module models the dispatcher itself).
TaskStep(c) ==
  \/ Exit(c)
  \/ \E n \in SleepTicks : (c \in UserTasks => n > 0) /\ Sleep(c, n)
  \/ Yield(c)
  \/ Block(c)
  \/ \E t \in Tasks : Unblock(c, t) \/ Kill(c, t)

Next == TimerIrq \/ \E c \in Tasks : TaskStep(c)

\* The PIT keeps raising IRQ0, so it is taken whenever it can be; a task
\* that holds the CPU keeps executing until its code calls the kernel.
Fairness == WF_vars(TimerIrq) /\ \A c \in Tasks : WF_vars(TaskStep(c))

Spec == Init /\ [][Next]_vars /\ Fairness

-----------------------------------------------------------------------------
TypeOK ==
  /\ state \in [Tasks -> States]
  /\ sleepUntil \in [Tasks -> Nat]
  /\ rq.head \in Tasks \cup {NIL} /\ rq.tail \in Tasks \cup {NIL}
  /\ rq.next \in [Tasks -> Tasks \cup {NIL}]
  /\ rq.prev \in [Tasks -> Tasks \cup {NIL}]
  /\ current \in Tasks \cup {NIL}
  /\ pc \in [Tasks -> PCs]
  /\ irq0InService \in BOOLEAN

\* The list of scheduler.c stays well formed through every operation the
\* tasks and the timer interrupt perform: walking next from head meets no
\* task twice and ends at tail, and every prev link is the inverse of the
\* next link before it.  add_process and remove_process each rewrite four
\* pointers, and remove_process trusts the links of the task it is given.
QueueLinked ==
  LET Q == QueueOf(rq) IN
  /\ IsInjective(Q)
  /\ Q = <<>> => rq.tail = NIL
  /\ Q # <<>> => /\ rq.tail = Q[Len(Q)]
                /\ rq.next[rq.tail] = NIL
                /\ rq.prev[Q[1]] = NIL
                /\ \A i \in 1..Len(Q) - 1 : rq.prev[Q[i + 1]] = Q[i]

\* Only the current task is ever RUNNING: scheduler_schedule demotes the
\* task it switches away from, whatever operation entered it.
OneRunning == \A t \in Tasks : state[t] = RUNNING => t = current

\* The linked list implements the round-robin FIFO of ReadyQueue: every
\* step of the list is an add, a remove, a pick or a block of the queue it
\* stands for.
RQ == INSTANCE ReadyQueue WITH queue <- QueueOf(rq), InitQueue <- InitOrder

RefinesReadyQueue == RQ!Spec

\* scheduler_schedule only switches to a task that may run: one that is
\* READY, or RUNNING, or asleep with its wake tick reached (spec.md 4.7, 5:
\* sleeping, zombie and dead tasks are not selected).
SwitchOnlyToReady ==
  [][current' # current /\ current' # NIL =>
       \/ state[current'] \in {READY, RUNNING}
       \/ state[current'] = SLEEPING /\ Now >= sleepUntil'[current']]_vars

\* Every task gets the CPU again and again (spec.md 4.8: a preemptive
\* round-robin scheduler).
RoundRobin == \A t \in Tasks : []<>(current = t)
=============================================================================
