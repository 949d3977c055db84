SPECIFICATION FrontSpec
CONSTANTS
  Sources <- Members
  Texts <- NoTexts
  Artifacts <- NoTexts
  OtherMetadata <- NoTexts
  IntBits = 5
  kMaxTypeExprDepth = 4
  kMaxUnaryExprDepth = 3
PROPERTY
  EveryParseEnds
CHECK_DEADLOCK FALSE
