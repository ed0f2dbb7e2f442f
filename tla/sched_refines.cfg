\* One task blocks, the others may unblock it: the list refines the
\* round-robin FIFO.
CONSTANTS
  u = u
  t1 = t1
  t2 = t2
  t3 = t3
  idle = idle
  NIL = NIL
  UserTasks = {}
  SleepTicks = {0, 1}
  Tasks <- KTasks3
  InitOrder <- KOrder3
  Prog <- ProgOneBlocker
SPECIFICATION Spec
PROPERTY RefinesReadyQueue
CHECK_DEADLOCK FALSE
