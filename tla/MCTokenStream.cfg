SPECIFICATION Spec
CONSTANTS
  N = 3
  SizeMod = 16
  Texts <- ShortTexts
INVARIANTS
  RingHoldsUnread
PROPERTIES
  ClosedTextAnswered
  ImplementsQueue
