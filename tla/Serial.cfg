SPECIFICATION MCSpec
CONSTANTS
  w1 = w1
  w2 = w2
  r1 = r1
  r2 = r2
  Writers <- MCWriters
  Readers <- MCReaders
  Nobody = Nobody
  Bytes = {"a", "b"}
  INTQ_BUFSIZE = 3
  MaxPrints = 1
INVARIANTS OneSpeaker WaitersAreFound
PROPERTIES BytesInOrder WriterWakes
CHECK_DEADLOCK FALSE
