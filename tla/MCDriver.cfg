SPECIFICATION Spec
CONSTANTS
  Invocations = {1, 2}
  Assignments <- PairsOfCommands
  Compilable <- GoodPrograms
INVARIANTS
  TypeOK
  SuccessOwnsFiles
  MadeByOneAsked
