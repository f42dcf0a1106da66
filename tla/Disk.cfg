SPECIFICATION Spec
CONSTANTS
  Threads = {t1, t2}
  Nobody = Nobody
  Sectors = {1, 2}
  Values = {"a", "b"}
  NoCall = NoCall
  MaxSpurious = 1
INVARIANT CommandIsOwn
PROPERTIES ImplementsStore DiskAnswers
CHECK_DEADLOCK FALSE
