SPECIFICATION MCSpec
CONSTANTS
  t1 = t1
  t2 = t2
  l1 = l1
  l2 = l2
  s1 = s1
  w0 = w0
  w1 = w1
  w2 = w2
  p1 = p1
  initd = initd
  f1 = f1
  f2 = f2
  f3 = f3
  n1 = n1
  n2 = n2
  NoCall = NoCall
  Cond = l1
  ElemSema <- Elems
  Main = main
  Idle = idle
  Thread = {main, idle, t1, t2}
  Worker <- AllWorkers
  BasePri <- Ascending
  Sema = {l1, w0, w1, w2}
  DeviceSema <- NoDevice
  InitValue <- OneLock
  MaxValue = 2
  Pri = {1, 2, 3}
  SleepTicks = {1}
  TimeSlice = 1
  MaxDepth = 8
  Mlfqs = FALSE
  Calls = {"sleep"}
  LockCalls = {"acquire", "release"}
  CondCalls = {}
INVARIANT LockCodeDoesNotFault
VIEW MCView
SYMMETRY Alike
