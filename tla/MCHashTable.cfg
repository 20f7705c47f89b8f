SPECIFICATION Spec
CONSTANTS
  Items <- FiveItems
  Missing = Missing
  Capacity = 3
  Hashes <- Crowds
INVARIANTS
  TypeOK
  OneSlotEach
  RobinHood
PROPERTIES
  CallsEnd
  ImplementsDictionary
