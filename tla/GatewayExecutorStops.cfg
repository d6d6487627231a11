SPECIFICATION FairSpec
CONSTANTS
  Runs = {r1, r2}
  Triggers = {t1}
  Packages = {p1}
  Requests = {q1}
  NoRun = NoRun
  NoTrigger = NoTrigger
  NoPackage = NoPackage
  Calls = {"disable", "dispose"}
  MaxFaults = 0
PROPERTIES
  QueuedSettles
  StopReturns
