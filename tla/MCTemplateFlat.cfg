SPECIFICATION FairSpec
CONSTANTS
  A = A
  B = B
  C = C
  p = p
  t1 = t1
  t2 = t2
  t3 = t3
  Null = Null
  OtherSymbol = OtherSymbol
  Name <- MCName
  Template <- MCTemplate
  Programs <- MCPrograms
PROPERTY ImplementsContract
