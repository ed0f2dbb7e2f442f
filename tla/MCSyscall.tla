---------------------------- MODULE MCSyscall ----------------------------
(***************************************************************************)
(* Instances of Syscall for TLC: the tasks of MCScheduler, with the pids  *)
(* alloc_pid gives them in test_multitasking (task1..3 first, idle 4, the *)
(* ring-3 task 5), and kernel_tss at an address in the kernel BSS.        *)
(***************************************************************************)
EXTENDS MCScheduler, Syscall

\* The pids process_create hands out in main.c's creation order.
PidOf == [t \in Tasks5 |-> CASE t = t1 -> 1 [] t = t2 -> 2 [] t = t3 -> 3
                             [] t = idle -> 4 [] t = u -> 5]
Pid4 == [t \in Tasks4 |-> PidOf[t]]

\* &kernel_tss = 0xFFFF8001002A34C0 (ARCHITECTURE.md: kernel BSS).
TssAddr == <<13504, 42, 32769, 65535>>

\* Two ring-3 tasks (u and t1 created by process_create_user), one kernel
\* task; each ring-3 task may make every system call.
Order2U == <<u, t1, t2>>
Tasks2U == ToSet(Order2U)
Prog2U == [t \in Tasks2U |-> IF t = t2 THEN Ops ELSE UserOps]
Pid2U == [t \in Tasks2U |-> PidOf[t]]
====
