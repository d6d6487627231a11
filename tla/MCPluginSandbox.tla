-------------------------- MODULE MCPluginSandbox --------------------------
(* Instances of PluginSandbox for TLC. *)
EXTENDS PluginSandbox
=============================================================================
