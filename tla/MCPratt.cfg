SPECIFICATION FairSpec
CONSTANTS
  None = None
  Inputs <- MCInputs
INVARIANTS
  TypeOK
  RespectsPrecedence
  TextIsKept
  StorageIsEnclosing
  GenericsOwnTheirParameters
PROPERTIES
  EveryInputIsAnswered
