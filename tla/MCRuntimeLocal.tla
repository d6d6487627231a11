--------------------------- MODULE MCRuntimeLocal ---------------------------
(***************************************************************************)
(* The parts of the runtime that promise safety only, for TLC: what it     *)
(* keeps in files (sessions, knowledge, the configuration, the files of    *)
(* plugins) and the form on the terminal.  They share no variable, so one  *)
(* run explores each while the others stand still; `part` says which one   *)
(* moves.                                                                  *)
(***************************************************************************)
EXTENDS SessionStore, KnowledgeIndex, LocalConfig, HostFiles, TerminalForm, TLC

VARIABLE part
localVars == <<part, sessionVars, knowledgeVars, configVars, hostVars, formVars>>

LocalInit ==
  /\ part \in {"session", "knowledge", "config", "host", "form"}
  /\ IF part = "config" THEN TRUE ELSE config = NoDoc /\ trust = {}
  /\ IF part = "form" THEN TRUE ELSE screen = [lines |-> 5, narrow |-> TRUE]
  /\ SessionInit /\ KnowledgeInit /\ ConfigInit /\ HostInit /\ FormInit

\* A step of one part.
InSession(A) == part = "session" /\ A /\ UNCHANGED <<part, knowledgeVars, configVars, hostVars, formVars>>
InKnowledge(A) == part = "knowledge" /\ A /\ UNCHANGED <<part, sessionVars, configVars, hostVars, formVars>>
InConfig(A) == part = "config" /\ A /\ UNCHANGED <<part, sessionVars, knowledgeVars, hostVars, formVars>>
InHost(A) == part = "host" /\ A /\ UNCHANGED <<part, sessionVars, knowledgeVars, configVars, formVars>>
InForm(A) == part = "form" /\ A /\ UNCHANGED <<part, sessionVars, knowledgeVars, configVars, hostVars>>

LocalNext ==
  \/ InSession(SessionNext) \/ InKnowledge(KnowledgeNext) \/ InConfig(ConfigNext) \/ InHost(HostNext) \/ InForm(FormNext)

LocalSpec == LocalInit /\ [][LocalNext]_localVars

\* Files of plugins are alike, and these parts promise safety only.
Alike == Permutations(Files)

DeclaredOf == [k \in Bundles |-> {"read"}]

FormFieldsOf == << [component |-> "input", multiline |-> TRUE, size |-> "large"],
                   [component |-> "checkbox", multiline |-> FALSE, size |-> "small"],
                   [component |-> "button", multiline |-> FALSE, size |-> "medium"] >>
ScreensOf == {[lines |-> 5, narrow |-> TRUE], [lines |-> 7, narrow |-> FALSE]}
=============================================================================
