SPECIFICATION Spec
CONSTANTS
  t1 = t1
  t2 = t2
  s1 = s1
  Main = main
  Idle = idle
  Thread = {main, idle, t1, t2}
  Sema = {s1}
  DeviceSema = {s1}
  InitValue <- ZeroSemas
  MaxValue = 2
  Pri = {1, 2}
  SleepTicks = {0, 2}
  TimeSlice = 2
  Calls = {"down", "trydown", "up", "sleep", "yield", "create", "exit", "setpri"}
SYMMETRY OtherThreads
INVARIANT ListsMatchStatus BlockedIsFindable NoLostWakeup
PROPERTY FreedIsOffCpu SwitchToHighest WakeOnTime
