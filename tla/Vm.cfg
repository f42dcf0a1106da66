SPECIFICATION Spec
CONSTANTS
  a = a
  b = b
  Proc = {p1, p2}
  First = p1
  Top = 4
  Segment = {1}
  MapAt = {2}
  FileLength = 2
  MapFrom = {0, 1}
  Frames = 2
  Slots = 1
  Value = {a, b}
  Start = a
  Junk = b
  None = None
  p1 = p1
  p2 = p2
VIEW ViewOf
CONSTRAINT Harmless
INVARIANT FramesAgree SlotsAgree
PROPERTY ImplementsMemory
