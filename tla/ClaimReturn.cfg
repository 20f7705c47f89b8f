SPECIFICATION CompilerSpec
CONSTANTS
  Programs <- ReturnPrograms
  Trees = {}
INVARIANT
  ReturnsEarly
