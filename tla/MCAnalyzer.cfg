SPECIFICATION Spec
CONSTANT Programs <- AllPrograms
INVARIANTS
  TypeOK
  DefinedIffOpen
  
  
  NoReentry
  ScopesMatchStack
  ReturnTypeMatches
  HoldsOwnSymbol
  VariablesAreEvaluated
PROPERTIES
  ImplementsDeclOrder
  GlobalsSettle
  SymbolsStayPut
  VerdictReached
