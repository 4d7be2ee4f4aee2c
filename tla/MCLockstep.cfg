SPECIFICATION Spec
CONSTANTS
  ByteMod = 8
  WordMod = 4
  OutputWords = 2
  PtrMod = 2
  MaxLength = 4
  Programs <- SomePrograms
  Inputs <- OneInput
INVARIANTS
  TypeOK
  HeightIsStatic
  SameVerdict
  SameOffset
PROPERTIES
  BothEnd
