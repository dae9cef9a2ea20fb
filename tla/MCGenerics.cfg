SPECIFICATION Spec
CONSTANTS
  Definition <- MCDefinition
  ClassName  <- MCClassName
  Keyword    <- MCKeyword
  Variable   <- MCVariable
  Lines      <- MCLines
INVARIANTS TypeOK AcceptedIsComplete OneClassPerArguments PreparedUnlessRejected
PROPERTIES WrittenIsExpanded
