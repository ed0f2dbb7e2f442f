\* Every operation of every kernel task and every system call of the ring-3
\* task: the list stays linked, one task runs, the dispatcher rejects what
\* is not registered, sleep rounds up, and every segment load is accepted.
CONSTANTS
  u = u
  t1 = t1
  t2 = t2
  t3 = t3
  idle = idle
  NIL = NIL
  UserTasks = {u}
  SleepTicks = {0, 1}
  Tasks <- Tasks4
  InitOrder <- Order4
  Prog <- ProgAll4
  Pid <- Pid4
  SleepMs = {0, 15, 1000}
  WordBits = 16
  Fds = {1, 3}
  TssBase <- TssAddr
SPECIFICATION SysSpec
INVARIANT TypeOK
INVARIANT QueueLinked
INVARIANT OneRunning
PROPERTY UnregisteredRejected
PROPERTY SleepRoundsUp
PROPERTY SegmentsLoadable
\* Every task may end halted in process_exit's hlt loop or blocked.
CHECK_DEADLOCK FALSE
