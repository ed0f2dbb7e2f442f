\* With scheduler_unblock: a blocked task that runs on alone loses the queue.
CONSTANTS
  u = u
  t1 = t1
  t2 = t2
  t3 = t3
  idle = idle
  NIL = NIL
  UserTasks = {}
  SleepTicks = {0, 1}
  Tasks <- KTasks3
  InitOrder <- KOrder3
  Prog <- ProgKernel
SPECIFICATION Spec
PROPERTY RefinesReadyQueue
CHECK_DEADLOCK FALSE
