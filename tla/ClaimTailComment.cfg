SPECIFICATION Spec
CONSTANTS
  N = 3
  SizeMod = 16
  Texts <- TailTexts
PROPERTY
  EveryCallAnswered
