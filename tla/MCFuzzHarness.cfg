SPECIFICATION Spec
CONSTANTS
  NumTestCases = 3
INVARIANTS
  TypeOK
  ZeroMeansAgreement
  SummaryIsWhole
