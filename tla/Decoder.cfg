SPECIFICATION LiveSpec
\* After a refused start a call waits for ever on the nil channel.
CHECK_DEADLOCK FALSE
CONSTANTS
  Inputs <- MCInputs
  Prefixes = {"p"}
  Cap = 2
  MaxNesting = 2
  MaxNoProgress = 2
INVARIANTS TokensInOrder EOFIsHonest LoopsStopAtMatch NamespacesInScope
PROPERTY CallsReturn
