CONSTANTS
  CharMax = 3
  Size = 6
  A = 2
  TagSize = 4
  Ciphers <- SmallCiphers
  Texts <- SmallTexts
  Secret <- SamePhrase
SPECIFICATION Spec
INVARIANT ExchangeTypeOK
INVARIANT NoZeroSent
INVARIANT IndexInside
INVARIANT ReadIsAllOrNothing
CHECK_DEADLOCK FALSE
