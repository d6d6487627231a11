SPECIFICATION RunsSpec
CONSTANTS
  Tokens = {"a", "b"}
  Modes = {"text", "events"}
  Nodes = {"plain", "tools", "agent"}
  MaxTokens = 2
  MaxCalls = 1
  MaxAttempts <- Attempts
  MaxBytes = 2
  Bodies <- AllBodies
  MaxResponse = 13
  MaxEvent = 4
  LineFields <- LineFieldsOf
  MaxQueued = 2
  MaxArrived = 6
  MaxForms = 2
  MaxBuffered = 1
  Invocations = {i1, i2}
  i1 = i1
  i2 = i2
  NoWorker = NoWorker
  Limit = 1
  Pickers = {"file", "document"}
  Commands <- CommandsOf
INVARIANTS
  TextIsOutput EndTold
  ReplyMeant
  RegistryServed
  LinesSafe
  ShellSafe EnteredByConsent
  AnswerSafe
PROPERTIES
  WaitsEnd
CHECK_DEADLOCK FALSE
