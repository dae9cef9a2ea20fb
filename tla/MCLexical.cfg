SPECIFICATION FairSpec
CONSTANTS
  IntDigits = 2
  FloatDigits = 1
  Inputs <- MCInputs
INVARIANTS
  LookaheadIsNext
  TokensAreRight
PROPERTIES
  EveryTextIsScanned
