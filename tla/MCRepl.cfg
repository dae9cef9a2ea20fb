SPECIFICATION FairSpec
CONSTANTS
  a = a
  b = b
  ns = ns
  None = None
  Name <- MCName
  Sessions <- MCSessions
INVARIANTS
  TypeOK
  RunsItself
  VisibleHasRun
  StatusIsTrue
PROPERTIES
  NamesKeepTheirMeaning
  EveryLineIsDealtWith
