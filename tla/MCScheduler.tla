---------------------------- MODULE MCScheduler ----------------------------
(***************************************************************************)
(* Instances of Scheduler for TLC.  The tasks are those test_multitasking *)
(* in main.c creates: one ring-3 task u, kernel tasks t1..t3 and the idle *)
(* task, queued in the order main.c adds them (u first, idle last).  Each *)
(* Prog says which kernel operations a task's code calls.                 *)
(***************************************************************************)
EXTENDS Scheduler

CONSTANTS u, t1, t2, t3, idle

\* Three tasks: the ring-3 task and two kernel tasks.
Order3 == <<u, t1, t2>>
Tasks3 == ToSet(Order3)

\* Kernel tasks may call every operation; u every system call it has.
ProgAll == [t \in Tasks3 |-> IF t = u THEN UserOps ELSE Ops]


\* Kernel tasks alone, calling every operation.
Order4 == <<u, t1, t2, t3>>
Tasks4 == ToSet(Order4)
KOrder3 == <<t1, t2, t3>>
KTasks3 == ToSet(KOrder3)
ProgKernel == [t \in KTasks3 |-> Ops]
ProgAll4 == [t \in Tasks4 |-> IF t = u THEN UserOps ELSE Ops]

\* Only t1 blocks; the others may unblock it.  A blocker is then never the
\* last task queued.
ProgOneBlocker == [t \in KTasks3 |-> IF t = t1 THEN Ops \ {"unblock"}
                                     ELSE Ops \ {"block"}]

\* Tasks that only sleep and yield, in a loop.
ProgCoop == [t \in Tasks4 |-> {"sleep", "yield"}]

\* The tasks of main.c: user_mode_entry sleeps then exits, test_task1..3
\* loop on process_sleep, idle_task loops on hlt and calls nothing.
Order5 == <<u, t1, t2, t3, idle>>
Tasks5 == ToSet(Order5)
ProgInTree ==
  [t \in Tasks5 |-> IF t = u THEN {"sleep", "exit"}
                    ELSE IF t = idle THEN {}
                    ELSE {"sleep"}]
=============================================================================
