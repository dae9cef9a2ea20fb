SPECIFICATION Spec
CONSTANTS
  Definition <- MCDefinition
  ClassName  <- MCClassName
  Keyword    <- MCKeyword
  Variable   <- MCVariable
  Lines      <- MCLines
INVARIANT AllFieldsArePopulated
