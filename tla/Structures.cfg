SPECIFICATION MCSpec
CONSTANTS
  Threads = {t1, t2}
  t1 = t1
  t2 = t2
  Nobody = Nobody
  PageCnt = 3
  PGSIZE = 20
  ArenaSize = 2
  MinBlock = 8
  Sizes = {8, 20}
  MaxOwned = 1
  x1 = x1
  x2 = x2
  x3 = x3
  x4 = x4
  x5 = x5
  A = A
  B = B
  p1 = p1
  p2 = p2
  None = None
  IdleThread = IdleThread
INVARIANTS ArenasAgree PagesAreOwned FairShare
PROPERTIES ImplementsHeap ImplementsLists ImplementsDict ImplementsBits ImplementsAddrSpace
SYMMETRY MCSymmetry
CHECK_DEADLOCK FALSE
VIEW MCView
