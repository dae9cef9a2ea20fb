SPECIFICATION Spec
CONSTANTS
  Programs <- MCPrograms
  Exported <- MCExported
  Keyword  <- MCKeyword
INVARIANTS TypeOK NamesMeanNearest AssertedInCopyOnly LinkedToOwnText
PROPERTIES NamespaceIsStable
