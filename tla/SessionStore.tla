---------------------------- MODULE SessionStore ----------------------------
(***************************************************************************)
(* One persistent session of an application: its file, the lock file that  *)
(* is held while the file is written, and the calls (turns, renames and    *)
(* deletions) that several processes make on it.  A handle is one process  *)
(* with the session open; calls of one handle share the record it read     *)
(* last.  A record is the sequence of the updates applied to it.           *)
(***************************************************************************)
EXTENDS Integers, Sequences, FiniteSets

CONSTANTS Calls, Handles, NoCall, Missing, Kinds,
          MaxTries,    \* LOCK_ATTEMPTS
          MaxFaults    \* failing writes, disposals and crashes of one behaviour

ASSUME SessionAssumption ==
  /\ Calls \subseteq Nat /\ NoCall \notin Calls /\ Handles \subseteq Nat /\ Handles # {}
  /\ Kinds \subseteq {"turn", "rename", "delete"}
  /\ MaxTries \in Nat \ {0} /\ MaxFaults \in Nat
  /\ Missing \notin Seq(Calls \X {"ok", "failed", "title"})

VARIABLES file,       \* what the session's file holds, Missing once deleted
          lock,       \* the call that created the lock file, or NoCall
          stale,      \* the lock file is older than LOCK_STALE_MS
          heap,       \* heap[o]: the record object that call o read
          current,    \* current[h]: the object the handle's variable refers to
          closed,     \* closed[h]: the app handle was disposed of
          st, kind, of, outcome,
          obj, text,  \* what the call is saving: the object, then its text
          tries, faults,
          mixed,      \* history: two calls were under way together
          left,       \* history: the calls that could not write their pid
          stolen      \* history: a lock file was removed under its holder

sessionVars == <<file, lock, stale, heap, current, closed, st, kind, of, outcome,
                 obj, text, tries, faults, mixed, left, stolen>>
held == <<file, heap, current, closed, kind, of, faults, mixed>>
lockVars == <<lock, stale, left, stolen>>

Updates == Calls \X {"ok", "failed", "title"}
Records == Seq(Updates)
Over == {"resolved", "recorded", "rejected", "crashed"}
Holding == {"marking", "writing", "leaving", "broken"}
Saving == Holding \union {"opening", "stating", "breaking"}
States == {"idle", "reading", "running"} \union Saving \union Over
Has(record, u) == record # Missing /\ \E i \in DOMAIN record : record[i] = u

SessionTypeOK ==
  /\ file \in Records \union {Missing} /\ lock \in Calls \union {NoCall} /\ stale \in BOOLEAN
  /\ heap \in [Calls -> Records] /\ current \in [Handles -> Calls \union {NoCall}]
  /\ closed \in [Handles -> BOOLEAN]
  /\ st \in [Calls -> States] /\ kind \in [Calls -> {"turn", "rename", "delete"}]
  /\ of \in [Calls -> Handles] /\ outcome \in [Calls -> {"none", "ok", "failed", "both"}]
  /\ obj \in [Calls -> Calls] /\ text \in [Calls -> Records]
  /\ tries \in [Calls -> 0 .. MaxTries] /\ faults \in 0 .. MaxFaults
  /\ mixed \in BOOLEAN /\ left \subseteq Calls /\ stolen \in BOOLEAN

SessionInit ==
  /\ file = <<>> /\ lock = NoCall /\ stale = FALSE
  /\ heap = [c \in Calls |-> <<>>] /\ current = [h \in Handles |-> NoCall]
  /\ closed = [h \in Handles |-> FALSE]
  /\ st = [c \in Calls |-> "idle"] /\ kind = [c \in Calls |-> "turn"]
  /\ of = [c \in Calls |-> CHOOSE h \in Handles : TRUE]
  /\ outcome = [c \in Calls |-> "none"]
  /\ obj = [c \in Calls |-> c] /\ text = [c \in Calls |-> <<>>]
  /\ tries = [c \in Calls |-> 0] /\ faults = 0 /\ mixed = FALSE /\ left = {} /\ stolen = FALSE

----------------------------------------------------------------------------
\* assertOpen, then the read of the file; a deletion goes straight to the lock.
\* Calls and handles are numbered in the order in which they are used.
Begin(c, h, k) ==
  /\ st[c] = "idle" /\ ~closed[h]
  /\ \A d \in Calls : d < c => st[d] # "idle"
  /\ \A g \in Handles : g < h => \E d \in Calls : of[d] = g /\ st[d] # "idle"
  /\ st' = [st EXCEPT ![c] = IF k = "delete" THEN "opening" ELSE "reading"]
  /\ kind' = [kind EXCEPT ![c] = k] /\ of' = [of EXCEPT ![c] = h]
  /\ mixed' = (mixed \/ \E d \in Calls \ {c} : st[d] \notin Over \union {"idle"})
  /\ UNCHANGED <<file, lockVars, heap, current, closed, outcome, obj, text, tries, faults>>

\* What the read gives the caller.
SlipStaleCopy(c) == IF current[of[c]] = NoCall THEN <<>> ELSE heap[current[of[c]]]
Fresh(c) == IF file = Missing THEN <<>> ELSE file

Found(c) == st[c] = "reading" /\ file # Missing

\* The object read becomes the handle's; a rename changes it and saves it at once.
ReadDone(c) ==
  /\ Found(c)
  /\ heap' = [heap EXCEPT ![c] = IF kind[c] = "turn" THEN Fresh(c) ELSE Append(Fresh(c), <<c, "title">>)]
  /\ current' = [current EXCEPT ![of[c]] = c]
  /\ obj' = [obj EXCEPT ![c] = c]
  /\ st' = [st EXCEPT ![c] = IF kind[c] = "turn" THEN "running"
                             ELSE IF closed[of[c]] THEN "rejected" ELSE "opening"]
  /\ UNCHANGED <<file, lockVars, closed, kind, of, outcome, text, tries, faults, mixed>>

ReadFails(c) ==
  /\ st[c] = "reading" /\ file = Missing
  /\ st' = [st EXCEPT ![c] = "rejected"]
  /\ UNCHANGED <<held, lockVars, outcome, obj, text, tries>>

\* The flow ends.  The entry goes into the handle's record of this moment, which
\* another call of the handle may have replaced; save throws in a closed app.
RunEnds(c, how) ==
  LET o == current[of[c]]
      entry == <<c, how>>
  IN /\ st[c] = "running"
     /\ heap' = [heap EXCEPT ![o] = IF closed[of[c]] /\ how = "ok" THEN Append(Append(@, entry), <<c, "failed">>)
                                    ELSE Append(@, entry)]
     /\ obj' = [obj EXCEPT ![c] = o]
     /\ outcome' = [outcome EXCEPT ![c] = IF closed[of[c]] /\ how = "ok" THEN "both" ELSE how]
     /\ st' = [st EXCEPT ![c] = IF closed[of[c]] THEN "rejected" ELSE "opening"]
     /\ UNCHANGED <<file, lockVars, current, closed, kind, of, text, tries, faults, mixed>>

----------------------------------------------------------------------------
\* open(path, "wx") creates the lock file or fails because there is one.
SlipAnyOpen(c) == st[c] = "opening"
CanCreate(c) == st[c] = "opening" /\ lock = NoCall

Open(c) ==
  /\ CanCreate(c)
  /\ lock' = c /\ stale' = FALSE
  /\ st' = [st EXCEPT ![c] = "marking"]
  /\ UNCHANGED <<held, left, stolen, outcome, obj, text, tries>>

Exists(c) ==
  /\ st[c] = "opening" /\ lock # NoCall
  /\ st' = [st EXCEPT ![c] = "stating"]
  /\ UNCHANGED <<held, lockVars, outcome, obj, text, tries>>

\* pid and time are written; the task starts and takes the text of the object.
Mark(c) ==
  /\ st[c] = "marking"
  /\ text' = [text EXCEPT ![c] = heap[obj[c]]]
  /\ st' = [st EXCEPT ![c] = "writing"]
  /\ UNCHANGED <<file, lockVars, heap, current, closed, kind, of, outcome, obj, tries, faults, mixed>>

\* The task: a rename over the session's file, or its removal.
Write(c) ==
  /\ st[c] = "writing"
  /\ file' = IF kind[c] = "delete" THEN Missing ELSE text[c]
  /\ text' = [text EXCEPT ![c] = <<>>]
  /\ st' = [st EXCEPT ![c] = "leaving"]
  /\ UNCHANGED <<lockVars, heap, current, closed, kind, of, outcome, obj, tries, faults, mixed>>

SessionWriteFails(c) ==
  /\ st[c] = "writing" /\ faults < MaxFaults
  /\ faults' = faults + 1
  /\ text' = [text EXCEPT ![c] = <<>>]
  /\ st' = [st EXCEPT ![c] = "broken"]
  /\ UNCHANGED <<file, lockVars, heap, current, closed, kind, of, outcome, obj, tries, mixed>>

\* A save that throws: after a completed run the turn is recorded as failed too
\* and saved again, otherwise the call ends with the error.
SaveThrows(c) ==
  LET again == kind[c] = "turn" /\ outcome[c] = "ok"
      o == current[of[c]]
  IN /\ heap' = IF again THEN [heap EXCEPT ![o] = Append(@, <<c, "failed">>)] ELSE heap
     /\ obj' = [obj EXCEPT ![c] = IF again THEN o ELSE c]
     /\ outcome' = [outcome EXCEPT ![c] = IF again THEN "both" ELSE "none"]
     /\ tries' = [tries EXCEPT ![c] = 0]
     /\ st' = [st EXCEPT ![c] = IF again /\ ~closed[of[c]] THEN "opening" ELSE "rejected"]

\* The pid cannot be written: acquire throws and leaves the lock file behind.
MarkFails(c) ==
  /\ st[c] = "marking" /\ faults < MaxFaults
  /\ faults' = faults + 1
  /\ SaveThrows(c)
  /\ left' = left \union {c}
  /\ UNCHANGED <<file, lock, stale, stolen, current, closed, kind, of, text, mixed>>

\* finally: the path is removed, whoever created the file that is there now.
Unlock(c) ==
  /\ lock' = NoCall /\ stale' = FALSE
  /\ stolen' = (stolen \/ (lock \notin {c, NoCall} /\ st[lock] \in Holding))

Ending(c) == IF kind[c] = "turn" /\ outcome[c] # "ok" THEN "recorded" ELSE "resolved"

Leave(c) ==
  /\ st[c] = "leaving"
  /\ Unlock(c)
  /\ st' = [st EXCEPT ![c] = Ending(c)]
  /\ outcome' = [outcome EXCEPT ![c] = "none"] /\ obj' = [obj EXCEPT ![c] = c]
  /\ tries' = [tries EXCEPT ![c] = 0]
  /\ UNCHANGED <<held, left, text>>

LeaveBroken(c) ==
  /\ st[c] = "broken"
  /\ Unlock(c) /\ SaveThrows(c)
  /\ UNCHANGED <<file, left, current, closed, kind, of, text, faults, mixed>>

\* The next attempt, or LOCAL_DATA_LOCKED after the last one.
LastTry(c) == tries[c] + 1 >= MaxTries

Again(c) ==
  IF LastTry(c) THEN SaveThrows(c)
  ELSE /\ tries' = [tries EXCEPT ![c] = IF @ < MaxTries THEN @ + 1 ELSE @]
       /\ st' = [st EXCEPT ![c] = "opening"]
       /\ UNCHANGED <<heap, obj, outcome>>

\* stat: a fresh lock is waited for (25 ms), one that is gone is tried again.
Stat(c) ==
  /\ st[c] = "stating" /\ ~(lock # NoCall /\ stale)
  /\ Again(c)
  /\ UNCHANGED <<file, lockVars, current, closed, kind, of, text, faults, mixed>>

StatStale(c) ==
  /\ st[c] = "stating" /\ lock # NoCall /\ stale
  /\ st' = [st EXCEPT ![c] = "breaking"]
  /\ UNCHANGED <<held, lockVars, outcome, obj, text, tries>>

\* rm after the stat: the file may be another one by now.
Break(c) ==
  /\ st[c] = "breaking"
  /\ lock' = NoCall /\ stale' = FALSE
  /\ stolen' = (stolen \/ (lock # NoCall /\ st[lock] \in Holding))
  /\ Again(c)
  /\ UNCHANGED <<file, left, current, closed, kind, of, text, faults, mixed>>

----------------------------------------------------------------------------
\* The lock grows older than thirty seconds: its creator is gone, or suspended.
GoStale ==
  /\ lock # NoCall /\ ~stale
  /\ stale' = TRUE
  /\ UNCHANGED <<held, lock, left, stolen, st, outcome, obj, text, tries>>

\* AiAppHandle.dispose.
Close(h) ==
  /\ ~closed[h] /\ faults < MaxFaults
  /\ faults' = faults + 1
  /\ closed' = [closed EXCEPT ![h] = TRUE]
  /\ UNCHANGED <<file, lockVars, heap, current, st, kind, of, outcome, obj, text, tries, mixed>>

\* A process dies with everything it was doing; its lock file stays.
Dies(c, h) == of[c] = h /\ st[c] \notin Over \union {"idle"}

Crash(h) ==
  /\ \E c \in Calls : Dies(c, h)
  /\ faults < MaxFaults
  /\ faults' = faults + 1
  /\ closed' = [closed EXCEPT ![h] = TRUE]
  /\ st' = [c \in Calls |-> IF Dies(c, h) THEN "crashed" ELSE st[c]]
  /\ outcome' = [c \in Calls |-> IF Dies(c, h) THEN "none" ELSE outcome[c]]
  /\ obj' = [c \in Calls |-> IF Dies(c, h) THEN c ELSE obj[c]]
  /\ text' = [c \in Calls |-> IF Dies(c, h) THEN <<>> ELSE text[c]]
  /\ tries' = [c \in Calls |-> IF Dies(c, h) THEN 0 ELSE tries[c]]
  /\ UNCHANGED <<file, lockVars, heap, current, kind, of, mixed>>

SaveStep(c) == Open(c) \/ Exists(c) \/ Mark(c) \/ Write(c) \/ SessionWriteFails(c) \/ MarkFails(c)
               \/ Leave(c) \/ LeaveBroken(c) \/ Stat(c) \/ StatStale(c) \/ Break(c)

SessionNext ==
  \/ \E c \in Calls : \/ \E h \in Handles, k \in Kinds : Begin(c, h, k)
                      \/ ReadDone(c) \/ ReadFails(c) \/ SaveStep(c)
                      \/ \E how \in {"ok", "failed"} : RunEnds(c, how)
  \/ \E h \in Handles : Close(h) \/ Crash(h)
  \/ GoStale

SessionSpec == SessionInit /\ [][SessionNext]_sessionVars
----------------------------------------------------------------------------
\* A lock file belongs to a call that is writing or failed without removing it:
\* none is left behind by a save that returned, whatever was stolen from whom.
LockAccounted == lock # NoCall => st[lock] \in Holding \union {"crashed"} \/ lock \in left

\* Two calls are inside the lock only after a lock file was taken from its holder
\* (the stat and the rm of removeStaleLock are two steps, the holder never
\* refreshes its file, and finally removes whatever file there is).
OneWriter == ~stolen => \A c, d \in Calls : st[c] \in Holding /\ st[d] \in Holding => c = d

\* A turn that was answered, or recorded as failed, is in the file, unless two
\* calls overlapped (the lock does not cover the read) or the session was deleted.
TurnsKept ==
  ~mixed => \A c \in Calls :
    /\ kind[c] = "turn" /\ st[c] \in {"resolved", "recorded"}
    /\ ~\E d \in Calls : kind[d] = "delete" /\ st[d] # "idle"
    => Has(file, <<c, IF st[c] = "resolved" THEN "ok" ELSE "failed">>)

\* A deleted session comes back only through a call that read it before.
DeletedStays ==
  ~mixed => \A d \in Calls : kind[d] = "delete" /\ st[d] = "resolved" => file = Missing

\* What the user sees of a session: finished turns stay, deleted sessions do not come back.
HistoryKept == TurnsKept /\ DeletedStays
=============================================================================
