SPECIFICATION FairSpec
CONSTANTS
  Programs <- MCPrograms
INVARIANTS
  TypeOK
  VerdictIsRight
  CastsAreComplete
