\* pick_next ignores the state of the task at the head of the queue.
CONSTANTS
  u = u
  t1 = t1
  t2 = t2
  t3 = t3
  idle = idle
  NIL = NIL
  UserTasks = {u}
  SleepTicks = {0, 1}
  Tasks <- Tasks3
  InitOrder <- Order3
  Prog <- ProgAll
SPECIFICATION Spec
PROPERTY SwitchOnlyToReady
CHECK_DEADLOCK FALSE
