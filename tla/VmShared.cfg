SPECIFICATION Spec
CONSTANTS
  a = a
  b = b
  Proc = {p1, p2}
  First = p1
  Top = 3
  Segment = {1}
  MapAt = {2}
  FileLength = 1
  MapFrom = {0}
  Frames = 2
  Slots = 2
  Value = {a, b}
  Start = a
  Junk = b
  None = None
  p1 = p1
  p2 = p2
VIEW ViewOf
INVARIANT MappingsAreOwn
