SPECIFICATION Spec
CONSTANTS
  Header = 3
  Capacity = 5
  Sizes = {1, 3, 6}
  Alignments = {1, 4}
  Bases = {0, 8, 16}
  LiveBound = 3
INVARIANTS
  TypeOK
  LiveApart
  CopyIsRight
