SPECIFICATION Spec
CONSTANTS
  ByteMod = 256
  WordMod = 3
  OutputWords = 64
  PtrMod = 256
  Instructions <- FewInstructions
  MaxLength = 2
  Programs <- StoppedPrograms
  Inputs <- ShortInput
INVARIANTS
  NoUndefinedBehaviour
