SPECIFICATION Spec
CONSTANTS
  Max = 3
  Types = {"int", "uint1", "uint4"}
  Signed = {"int"}
  Modulus <- MCModulus
  Numerals = {0, 1, 2, 3, 4}
  MaxDepth = 3
INVARIANTS
  FoldsExactly
  WrapsAlike
