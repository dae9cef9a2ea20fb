SPECIFICATION FairSpec
CONSTANTS
  A = A
  B = B
  C = C
  x = x
  t1 = t1
  t2 = t2
  t3 = t3
  Null = Null
  OtherSymbol = OtherSymbol
  Name <- MCName
  Template <- MCTemplate
  Programs <- MCPrograms
INVARIANTS
  TypeOK
  ExpandingIsOpen
  VisitsNest
  FoundIsRecorded
PROPERTIES
  CircularIsReal
  ErrorStopsExpansion
  EveryLineEnds
