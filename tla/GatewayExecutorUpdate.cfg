SPECIFICATION Spec
CONSTANTS
  Runs = {r1, r2}
  Triggers = {t1}
  Packages = {p1, p2}
  Requests = {q1}
  NoRun = NoRun
  NoTrigger = NoTrigger
  NoPackage = NoPackage
  Calls = {"uninstall", "install", "enable", "disable", "dispose", "runNow"}
  MaxFaults = 1
SYMMETRY Symmetry
INVARIANTS
  RecordsAgree
PROPERTIES
  LifecycleSpec
