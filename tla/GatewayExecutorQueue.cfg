SPECIFICATION Spec
CONSTANTS
  Runs = {r1, r2, r3}
  Triggers = {t1, t2}
  Packages = {p1}
  Requests = {q1, q2}
  NoRun = NoRun
  NoTrigger = NoTrigger
  NoPackage = NoPackage
  Calls = {"disable"}
  MaxFaults = 0
SYMMETRY Symmetry
INVARIANTS
  QueueOwned
  SoleFlow
  StopAwaitsLive
PROPERTIES
  StopSettles
