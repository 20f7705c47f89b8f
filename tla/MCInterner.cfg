SPECIFICATION Spec
CONSTANTS
  Strings = {1, 2, 3, 4, 5}
  NoString = NoString
  Capacity = 2
  Hashes <- Crowds
INVARIANTS
  NoGaps
  OneEntryEach
PROPERTIES
  CallsEnd
  ImplementsInterning
