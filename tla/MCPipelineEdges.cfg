SPECIFICATION Spec
CONSTANTS
  ByteMod = 8
  WordMod = 3
  OutputWords = 2
  PtrMod = 2
  Instructions <- FewInstructions
  MaxLength = 4
  Programs <- StoppedPrograms
  Inputs <- ShortAndFullInput
INVARIANTS
  DefinedWhenShallow
