SPECIFICATION Spec
CONSTANTS
  Node <- MCNode
  Programs <- MCPrograms
  MaxEvents = 8
INVARIANTS
  TypeOK
  InsertionPointIsOpen
  RefusedForOperandsOnly
PROPERTIES
  ImplementsSource
