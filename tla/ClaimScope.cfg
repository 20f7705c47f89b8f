SPECIFICATION Spec
CONSTANT Programs <- ScopePrograms
INVARIANT
  LexicalScope
