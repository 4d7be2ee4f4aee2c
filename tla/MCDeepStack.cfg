SPECIFICATION Spec
CONSTANTS
  ByteMod = 256
  WordMod = 3
  OutputWords = 64
  PtrMod = 256
  Instructions <- FewInstructions
  MaxLength = 1
  Programs <- DeepPrograms
  Inputs <- OneInput
INVARIANTS
  NoUndefinedBehaviour
