SPECIFICATION Spec
CONSTANTS
  Clients = {c1}
  c1 = c1
  MaxFrames = 1
  MaxSubs = 2
  MaxFaults = 0
INVARIANTS NoFalseLoss
CHECK_DEADLOCK FALSE
