SPECIFICATION ShellSpec
CONSTANTS
  Pickers = {"file"}
INVARIANTS TerminalGivenBack
CHECK_DEADLOCK FALSE
