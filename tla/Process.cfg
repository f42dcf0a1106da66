SPECIFICATION FairSpec
CONSTANTS
  Main = main
  Initd = initd
  Page = {main, initd, p1, p2}
  FdLimit = 3
  File = {f1}
  Inode = {n1}
  Argument = {}
  Calls = {"fork", "wait", "exit", "fault", "exec", "halt"}
INVARIANT ChildrenAreThere StatusIsFinal
PROPERTY ForkReturns WaitReturns
