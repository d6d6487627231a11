--------------------------- MODULE RunLifecycle ---------------------------
(***************************************************************************)
(* What the gateway promises about run records, whoever writes them: a     *)
(* record is created queued or running, moves forward only, is final once, *)
(* and only a run that was recorded as running is recorded as completed.   *)
(***************************************************************************)
CONSTANTS Runs
VARIABLE record

Final == {"completed", "failed", "cancelled"}

Init == record = [r \in Runs |-> "none"]

Move(r, from, to) == record[r] = from /\ record' = [record EXCEPT ![r] = to]

Queue(r) == Move(r, "none", "queued")
Begin(r) == Move(r, "none", "running") \/ Move(r, "queued", "running")
Finish(r) == \E s \in Final : Move(r, "running", s)
GiveUp(r) == \E s \in {"failed", "cancelled"} : Move(r, "queued", s)

\* A new process gives up everything its predecessor left open.
Interrupt ==
  record' = [r \in Runs |-> IF record[r] \in {"queued", "running"} THEN "cancelled"
                                                                  ELSE record[r]]

Next == Interrupt \/ \E r \in Runs : Queue(r) \/ Begin(r) \/ Finish(r) \/ GiveUp(r)

Spec == Init /\ [][Next]_record
===========================================================================
