SPECIFICATION LocalSpec
CONSTANTS
  Calls = {1, 2}
  Handles = {1, 2}
  NoCall = 0
  Missing = Missing
  Kinds = {"turn", "delete"}
  MaxTries = 2
  MaxFaults = 1
  Ops = {1, 2}
  Paths = {p1, p2}
  MaxSources = 2
  MaxCuts = 1
  Edits = {1, 2}
  Profiles = {p1, p2}
  NoProfile = NoProfile
  Publishers = {i1}
  Bundles = {k1, k2}
  Permissions = {"read", "write"}
  Declared <- DeclaredOf
  Signed = {k1}
  MaxBreaks = 1
  Uses = {1, 2, 3}
  Files = {f1, f2}
  Absent = Absent
  MaxFileLen = 2
  MaxRefused = 1
  FormFields <- FormFieldsOf
  Layout = "three-column"
  Screens <- ScreensOf
  MaxChars = 2
  Prefilled = {0, 3}
  MaxOverrun = 2
SYMMETRY Alike
INVARIANTS
  OneWriter HistoryKept
  IndexKept
  ConfigKept TrustIsDecision
  HostFilesKept
  FormSafe FocusLabelled
CHECK_DEADLOCK FALSE
