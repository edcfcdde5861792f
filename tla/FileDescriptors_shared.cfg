SPECIFICATION MCFairSpec
CONSTANTS
  a = a
  b = b
  x = x
  y = y
  Name = {a, b}
  Byte = {x, y}
  Addr = {1, 2, 3}
  NumEntries = 4
  BlockSize = 3
  PerBlock = 2
  Eof = 100
  Header = 257
  Junk = Junk
  Outdated = Outdated
  Situations = {}
  Proc = {p1, p2}
  fore = p1
  None = None
  Mounted <- MCMounted
  Lines <- MCLines
  Granted <- MCGranted
  BufSize = 3
  StdinSize = 2
  MaxId = 5
INVARIANTS
  TypeOK
  OwnFile
  OneWriter
  NoneLeftOpen
PROPERTIES
  WritesInPlace
  ProgramsEnd
