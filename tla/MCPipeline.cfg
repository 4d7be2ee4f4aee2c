SPECIFICATION Spec
CONSTANTS
  ByteMod = 8
  WordMod = 5
  OutputWords = 2
  PtrMod = 8
  Instructions <- EveryInstruction
  MaxLength = 4
  Programs <- StoppedPrograms
  Inputs <- OneInput
INVARIANTS
  TypeOK
  SlotsFollowHeight
PROPERTIES
  ImplementsInterpreter
