-------------------------- MODULE MCTerminalShell --------------------------
(* Instances of TerminalShell for TLC. *)
EXTENDS TerminalShell
=============================================================================
