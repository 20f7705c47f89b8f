SPECIFICATION MCSpec
CONSTANTS
  Texts <- MCTexts
  Strays <- MCStrays
INVARIANTS
  ParsesBack
  Unparses
  BindsTighter
  TreesAreComplete
