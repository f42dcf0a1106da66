SPECIFICATION Spec
CONSTANTS
  Main = main
  Initd = initd
  Page = {main, initd, p1}
  FdLimit = 4
  File = {f1, f2, f3}
  Inode = {n1, n2}
  Argument = {}
  Calls = {"fork", "wait", "exit", "open", "close", "exec", "io"}
INVARIANT DeadHoldNoLock
