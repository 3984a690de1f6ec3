SPECIFICATION Spec
CONSTANTS
  Programs <- AllPrograms
  VariableOf <- BracedNames
  UpperCase <- LowerCaseNames
  RegisteredTypes <- NoUdfs
INVARIANTS
  MeaningPreserved
  TypesInferred
  AddedLikeSetUp
  StatementsAsWritten
CHECK_DEADLOCK FALSE
