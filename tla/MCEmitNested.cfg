SPECIFICATION Spec
CONSTANTS
  Node <- MCNode
  Programs <- MCPrograms
  MaxEvents = 8
INVARIANTS
  ModuleVerifies
