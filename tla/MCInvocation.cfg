SPECIFICATION Spec
CONSTANTS
  MaxArguments = 3
  MaxLength = 5
  Symbol <- Symbols
  CommandLines <- ManyLines
  HexValue <- Digits
  Space <- Blanks
INVARIANTS
  TypeOK
  ReadAsSpelled
  StringsArriveWhole
  HexIsRead
  EveryByteHasDigit
PROPERTIES
  InvocationEnds
