SPECIFICATION Spec
CONSTANTS
  ByteMod = 2
  WordBytes = 2
  OutputWords = 3
  MaxSize = 4
  InputFiles <- SmallFiles
  OldOutput <- Old
  F <- AddThem
INVARIANTS
  TypeOK
  OutputIsBigEndian
  CalledWithWholeInput
  AbortKeepsOutput
