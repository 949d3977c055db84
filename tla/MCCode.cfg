SPECIFICATION CodeSpec
CONSTANTS
  MaxInputs = 3
  Answers = {0, 1}
  Functions <- SmallPrograms
  Graphs <- SmallGraphs
  Width <- SmallWidth
  Decls <- SmallDecls
  Enums <- SmallEnums
  Consts <- SmallConsts
  Programs <- AllExpressions
INVARIANTS
  ReadsAreDefined
  CallsAreThoseOfTheSource
  RunsAsSpecified
  AcceptedCompiles
  ConstantsAgree
CHECK_DEADLOCK FALSE
