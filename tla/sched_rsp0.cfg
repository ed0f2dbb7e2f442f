\* Two ring-3 tasks: the second enters the kernel on interrupt_stack while
\* the first is suspended inside sys_sleep there.  Expect
\* KernelStackExclusive violated.
CONSTANTS
  u = u
  t1 = t1
  t2 = t2
  t3 = t3
  idle = idle
  NIL = NIL
  UserTasks = {u, t1}
  SleepTicks = {0, 1}
  Tasks <- Tasks2U
  InitOrder <- Order2U
  Prog <- Prog2U
  Pid <- Pid2U
  SleepMs = {15}
  WordBits = 16
  Fds = {1, 3}
  TssBase <- TssAddr
SPECIFICATION SysSpec
\* Every task may end halted in process_exit's hlt loop or blocked.
CHECK_DEADLOCK FALSE
PROPERTY KernelStackExclusive
