SPECIFICATION Spec
CONSTANTS
  x = x
  y = y
  Name = {n1, n2, n3}
  Byte = {x, y}
  Addr = {a1}
  NumEntries = 5
  BlockSize = 2
  PerBlock = 2
  Eof = 100
  Header = 257
  Junk = Junk
  NoFile = NoFile
  Outdated = Outdated
  Situations = {}
  Texts <- MCTexts
  Lists <- MCLists
  Granted <- MCGranted
SYMMETRY Symmetry
INVARIANTS
  TypeOK
  ChainsWhole
  ChainsDisjoint
  NoLostBlocks
  NeverOvercommits
PROPERTY IsFiles
