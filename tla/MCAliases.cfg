SPECIFICATION CodeSpec
CONSTANTS
  MaxInputs = 0
  Answers = {}
  Functions = {}
  Graphs = {}
  Width <- SmallWidth
  Decls <- SmallDecls
  Enums <- SmallEnums
  Consts <- SmallConsts
  Programs <- AliasExpressions
INVARIANT
  AliasesAreTransparent
CHECK_DEADLOCK FALSE
