SPECIFICATION RunSpec
CONSTANTS
  Tokens = {"a", "b"}
  Modes = {"text"}
  Nodes = {"agent"}
  MaxTokens = 2
  MaxCalls = 1
  MaxAttempts <- Attempts
  MaxBytes = 2
INVARIANTS TextConsistent
CHECK_DEADLOCK FALSE
