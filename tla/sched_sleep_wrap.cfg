\* sys_sleep with ms within 9 of 2^64 (scaled: 2^WordBits): (ms + 9) wraps
\* to a 0-tick sleep.  Expect SleepRoundsUp violated.
CONSTANTS
  u = u
  t1 = t1
  t2 = t2
  t3 = t3
  idle = idle
  NIL = NIL
  UserTasks = {u}
  SleepTicks = {0, 1}
  Tasks <- Tasks4
  InitOrder <- Order4
  Prog <- ProgAll4
  Pid <- Pid4
  SleepMs = {65535}
  WordBits = 16
  Fds = {1, 3}
  TssBase <- TssAddr
SPECIFICATION SysSpec
\* Every task may end halted in process_exit's hlt loop or blocked.
CHECK_DEADLOCK FALSE
PROPERTY SleepRoundsUp
