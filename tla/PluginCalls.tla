---------------------------- MODULE PluginCalls ----------------------------
(***************************************************************************)
(* What the sandbox of a plugin promises its callers, whatever becomes of  *)
(* the workers behind it: a call is answered once, a caller that left      *)
(* before its turn never sets the plugin to work and one that leaves later *)
(* is answered at once, and a failure is told to every call at work.       *)
(***************************************************************************)
CONSTANT Calls
VARIABLES call, left

Init == call = [i \in Calls |-> "none"] /\ left = {}

Move(i, from, to) == call[i] = from /\ call' = [call EXCEPT ![i] = to]
Waits == {i \in Calls : call[i] = "asked"}
Works == {i \in Calls : call[i] = "working"}

Ask(i) == Move(i, "none", "asked") /\ UNCHANGED left
Begin(i) == i \notin left /\ Move(i, "asked", "working") /\ UNCHANGED left
End(i) == (\E from \in {"asked", "working"} : Move(i, from, "answered")) /\ UNCHANGED left

\* The caller gives up: a call that works is answered in the same step.
Leave(i) ==
  /\ i \in (Waits \union Works) \ left /\ left' = left \union {i}
  /\ call' = [call EXCEPT ![i] = IF @ = "working" THEN "answered" ELSE @]

\* What ends a worker ends every call at work, and those that wait for its start.
EndAll(S) ==
  /\ call' = [i \in Calls |-> IF i \in Works \union S THEN "answered" ELSE call[i]]
  /\ UNCHANGED left

Next ==
  \/ \E S \in SUBSET Waits : EndAll(S)
  \/ \E i \in Calls : Ask(i) \/ Begin(i) \/ End(i) \/ Leave(i)

Spec == Init /\ [][Next]_<<call, left>>
=============================================================================
