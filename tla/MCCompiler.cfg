SPECIFICATION CompilerSpec
CONSTANTS
  Programs <- CompilerPrograms
  Trees = {}
INVARIANTS
  GeneratorOK
  BindsAsAnalysed
  GeneratedAsWritten
  SlotsAreFilled
  EveryFunctionReturns
PROPERTIES
  CompilationEnds
