SPECIFICATION Spec
CONSTANTS
  a = a
  b = b
  p1 = p1
  p2 = p2
  f1 = f1
  f2 = f2
  n1 = n1
  n2 = n2
  n3 = n3
  Proc = {p1}
  Name = {n1, n2, n3}
  Sectors = 4
  Sizes = {0, 1, 2}
  Slots = 2
  Inodes = 2
  File = {f1, f2}
  Value = {a, b}
  Zero = a
  None = None
SYMMETRY Alike
VIEW ViewOf
INVARIANT SectorsAreOwned InodesAgree
PROPERTY ImplementsFiles
