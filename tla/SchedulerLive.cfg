SPECIFICATION FairSpec
CONSTANTS
  t1 = t1
  t2 = t2
  s1 = s1
  Main = main
  Idle = idle
  Thread = {main, idle, t1, t2}
  Sema = {s1}
  DeviceSema <- NoDevice
  InitValue <- ZeroSemas
  MaxValue = 1
  Pri = {1, 2}
  SleepTicks = {0, 2}
  TimeSlice = 2
  Calls = {"down", "up", "sleep", "yield", "create", "exit"}
PROPERTY SleeperWakes SliceIsShared
