SPECIFICATION Spec
\* A parse ends.
CHECK_DEADLOCK FALSE
CONSTANTS
  Entities = {"a", "b", "c", "u"}
  Inputs <- MCInputs
  MaxElemDepth = 3
  MaxNest = 7
  FixedCost = 1
  AllowedExpansion = 10
  HardCeiling = 25
  MaxAmpl = 4
INVARIANTS ContentIsRight LimitsHold AcceptedIsWellFormed
