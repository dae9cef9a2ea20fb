SPECIFICATION Spec
CONSTANTS
  a = a
  b = b
  ns = ns
  None = None
  Name <- MCName
  Sessions <- MCSessions
INVARIANTS
  SymbolsAreMapped
