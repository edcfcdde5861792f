SPECIFICATION MCFairSpec
CONSTANTS
  a = a
  b = b
  x = x
  y = y
  Name = {a, b}
  Byte = {x, y}
  Addr = {1, 2, 3}
  NumEntries = 6
  BlockSize = 2
  PerBlock = 2
  Eof = 100
  Header = 257
  Junk = Junk
  Outdated = Outdated
  Situations = {"offset_in_later_block"}
  Proc = {p1, p2}
  fore = p1
  None = None
  Mounted <- MCMounted
  Lines <- MCRedirected
  Granted <- MCGranted
  BufSize = 1
  StdinSize = 2
  MaxId = 5
PROPERTY WritesInPlace
