\* The tasks of test_multitasking: the idle task's hlt loop keeps the CPU.
CONSTANTS
  u = u
  t1 = t1
  t2 = t2
  t3 = t3
  idle = idle
  NIL = NIL
  UserTasks = {u}
  SleepTicks = {0, 1}
  Tasks <- Tasks5
  InitOrder <- Order5
  Prog <- ProgInTree
SPECIFICATION Spec
PROPERTY RoundRobin
CHECK_DEADLOCK FALSE
