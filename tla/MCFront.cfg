SPECIFICATION FrontSpec
CONSTANTS
  Sources <- AllSources
  Texts <- LexTexts
  Artifacts <- AllInterfaces
  OtherMetadata <- AllOtherMetadata
  IntBits = 5
  kMaxTypeExprDepth = 4
  kMaxUnaryExprDepth = 3
INVARIANTS
  AcceptedAsWritten
  LookaheadKeepsItsPromise
  LoadsAsWritten
  LiteralsMeanWhatTheySay
PROPERTY
  ParseEnds
CHECK_DEADLOCK FALSE
