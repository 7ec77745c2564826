SPECIFICATION LiveSpec
\* A resolution ends and there is no next one.
CHECK_DEADLOCK FALSE
CONSTANTS
  Token <- MCToken
  Catalogs <- MCCatalogs
  Root = "r"
  Inputs <- MCInputs
  MaxDepth = 3
  MaxDelegates = 5
  MaxNextCatalogs = 5
INVARIANTS SearchIsFaithful MostSpecificFirst LoadsAreBounded
PROPERTY Terminates
