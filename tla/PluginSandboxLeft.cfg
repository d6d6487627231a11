SPECIFICATION SandboxSpec
CONSTANTS
  Invocations = {i1}
  i1 = i1
  NoWorker = NoWorker
  Limit = 1
INVARIANTS NothingLeft
CHECK_DEADLOCK FALSE
