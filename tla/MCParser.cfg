SPECIFICATION Spec
CONSTANTS
  ByteMod = 8
  WordMod = 4
  OutputWords = 2
  PtrMod = 2
  MaxLength = 5
  Programs <- AllPrograms
INVARIANTS
  TypeOK
  DecorationIsHeight
  NeverUnderflows
  StackSizeIsPeak
  EndsWithOnlyStop
  MirrorsCode
