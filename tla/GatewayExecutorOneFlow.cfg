SPECIFICATION Spec
CONSTANTS
  Runs = {r1, r2, r3}
  Triggers = {t1}
  Packages = {p1, p2}
  Requests = {q1}
  NoRun = NoRun
  NoTrigger = NoTrigger
  NoPackage = NoPackage
  Calls = {"disable", "install"}
  MaxFaults = 0
SYMMETRY Symmetry
INVARIANTS
  OneActiveFlow
