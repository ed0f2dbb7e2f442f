\* Tasks that sleep and yield in a loop all get the CPU.
CONSTANTS
  u = u
  t1 = t1
  t2 = t2
  t3 = t3
  idle = idle
  NIL = NIL
  UserTasks = {u}
  SleepTicks = {0, 1}
  Tasks <- Tasks4
  InitOrder <- Order4
  Prog <- ProgCoop
SPECIFICATION Spec
PROPERTY RoundRobin
