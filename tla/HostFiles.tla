----------------------------- MODULE HostFiles -----------------------------
(***************************************************************************)
(* The file and document permissions that the runtime grants to plugins.   *)
(* A use names a handle of an earlier use or asks the user for a path;     *)
(* reading checks the size first, appending reads the file and writes it   *)
(* as a whole, and every write goes through a temporary file and a rename. *)
(* A text has one unit of the 8 MiB limit; a file is the sequence of the   *)
(* uses whose texts it holds, 0 for what was there before.                 *)
(***************************************************************************)
EXTENDS Integers, Sequences, FiniteSets, Functions

CONSTANTS Uses,      \* 1 .. n: the uses of permissions, in order
          Files, Absent,
          MaxFileLen,    \* the limit in texts
          MaxRefused     \* file operations and conversions that fail

ASSUME HostAssumption ==
  Uses \subseteq Nat \ {0} /\ Absent \notin Files \union {0} \union Uses /\ MaxFileLen \in Nat \ {0} /\ MaxRefused \in Nat

VARIABLES disk,      \* disk[f]: the texts of file f, or <<Absent>>
          handles,   \* handles[t]: the path behind the token of use t, or Absent
          temps,     \* uses whose temporary file is on the disk
          use,       \* use[u]: permission, step, path, bytes, and whether it succeeded
          picked,    \* history: what the user selected
          lost,      \* history: files with a write that crossed another one
          refused

hostVars == <<disk, handles, temps, use, picked, lost, refused>>

Gone == <<Absent>>
NoUse == [op |-> "none", at |-> "idle", path |-> Absent, bytes |-> <<>>, ok |-> FALSE]
Written == {"replace", "append"}

HostTypeOK ==
  /\ \A f \in Files : disk[f] = Gone \/ (disk[f] \in Seq({0} \union Uses) /\ Len(disk[f]) <= MaxFileLen)
  /\ handles \in [Uses -> Files \union {Absent}] /\ temps \subseteq Uses
  /\ \A u \in Uses : use[u].op \in Written \union {"read", "none"} /\ use[u].at \in
       {"idle", "choosing", "chosen", "sized", "bytes", "temp", "over"}
  /\ picked \subseteq Files /\ lost \subseteq Files /\ refused \in 0 .. MaxRefused

HostInit ==
  /\ \E f \in Files : disk = [g \in Files |-> IF g = f THEN Gone ELSE <<0>>]
  /\ handles = [t \in Uses |-> Absent] /\ temps = {}
  /\ use = [u \in Uses |-> NoUse] /\ picked = {} /\ lost = {} /\ refused = 0

Goes(u, op, at, path, bytes, ok) ==
  use' = [use EXCEPT ![u] = [op |-> op, at |-> at, path |-> path, bytes |-> bytes, ok |-> ok]]
StepTo(u, at) == Goes(u, use[u].op, at, use[u].path, use[u].bytes, FALSE)
Returns(u, ok) == Goes(u, use[u].op, "over", use[u].path, <<>>, ok)

\* choose with a handle that some use returned, or one that the adapter never gave out.
UseHandle(u, op, t) ==
  /\ use[u].at = "idle" /\ \A v \in Uses : v < u => use[v].at # "idle"
  /\ IF handles[t] = Absent THEN Goes(u, op, "over", Absent, <<>>, FALSE)
     ELSE Goes(u, op, "chosen", handles[t], <<>>, FALSE)
  /\ UNCHANGED <<disk, handles, temps, picked, lost, refused>>

AskUser(u, op) ==
  /\ use[u].at = "idle" /\ \A v \in Uses : v < u => use[v].at # "idle"
  /\ Goes(u, op, "choosing", Absent, <<>>, FALSE)
  /\ UNCHANGED <<disk, handles, temps, picked, lost, refused>>

\* The user cancels, or selects a path: realpath of a file that is there, or, to
\* write, a new name in a directory that is there.
Selectable(u, f) == use[u].op = "read" => disk[f] # Gone
Selects(u) ==
  /\ use[u].at = "choosing"
  /\ \/ Returns(u, FALSE) /\ UNCHANGED <<handles, picked>>
     \/ \E f \in Files :
          /\ picked' = picked \union {f}
          /\ IF Selectable(u, f)
               THEN handles' = [handles EXCEPT ![u] = f]
                    /\ Goes(u, use[u].op, "chosen", f, <<>>, FALSE)
               ELSE Returns(u, FALSE) /\ UNCHANGED handles
  /\ UNCHANGED <<disk, temps, lost, refused>>

\* stat and then readFile; a file over the limit is refused like one that is gone.
SizeOf(u) ==
  /\ use[u].at = "chosen" /\ use[u].op = "read"
  /\ IF disk[use[u].path] = Gone THEN Returns(u, FALSE) ELSE StepTo(u, "sized")
  /\ UNCHANGED <<disk, handles, temps, picked, lost, refused>>
ReadAll(u) ==
  /\ use[u].at = "sized" /\ Returns(u, disk[use[u].path] # Gone)
  /\ UNCHANGED <<disk, handles, temps, picked, lost, refused>>

\* replace starts from nothing, append from the file, which may not be there.
SlipNoOld(f) == <<>>
OldText(f) == IF disk[f] = Gone THEN <<>> ELSE disk[f]
OverLimit(bytes) == Len(bytes) > MaxFileLen

Compose(u) ==
  LET o == use[u]  bytes == (IF o.op = "append" THEN OldText(o.path) ELSE <<>>) \o <<u>> IN
  /\ o.at = "chosen" /\ o.op \in Written
  /\ IF OverLimit(bytes) THEN Returns(u, FALSE)
     ELSE Goes(u, o.op, "bytes", o.path, bytes, FALSE)
  /\ UNCHANGED <<disk, handles, temps, picked, lost, refused>>

\* atomicBytes; what breaks off leaves the temporary file behind.
WriteTemp(u) ==
  /\ use[u].at = "bytes" /\ temps' = temps \union {u} /\ StepTo(u, "temp")
  /\ UNCHANGED <<disk, handles, picked, lost, refused>>

Crossed(u) == {v \in Uses \ {u} : use[v].at \in {"bytes", "temp"} /\ use[v].path = use[u].path}
RenameTemp(u) ==
  /\ use[u].at = "temp" /\ temps' = temps \ {u} /\ disk' = [disk EXCEPT ![use[u].path] = use[u].bytes]
  /\ Returns(u, TRUE)
  /\ lost' = IF use[u].op = "replace" \/ Crossed(u) # {} THEN lost \union {use[u].path} ELSE lost
  /\ UNCHANGED <<handles, picked, refused>>

\* The system refuses, or the document is not one that readDocx or writeDocx accepts.
Refuses(u) ==
  /\ use[u].at \in {"chosen", "sized", "bytes", "temp"} /\ refused < MaxRefused /\ refused' = refused + 1
  /\ Returns(u, FALSE) /\ UNCHANGED <<disk, handles, temps, picked, lost>>

HostNext ==
  \E u \in Uses :
    \/ \E op \in Written \union {"read"} : AskUser(u, op) \/ \E t \in Uses : UseHandle(u, op, t)
    \/ Selects(u) \/ SizeOf(u) \/ ReadAll(u) \/ Compose(u) \/ WriteTemp(u) \/ RenameTemp(u) \/ Refuses(u)

HostSpec == HostInit /\ [][HostNext]_hostVars

----------------------------------------------------------------------------
(* Properties.                                                             *)

\* A text reaches a file only if the user selected that file, for this use or for the
\* one whose handle it names.
OnlyPicked ==
  \A f \in Files, u \in Uses :
    (disk[f] # Gone /\ u \in Range(disk[f])) => (f \in picked /\ use[u].path = f)

\* No text of a use that succeeded is missing from its file unless a use replaced the
\* file or two writes of it crossed: append reads and writes without a lock.
AppendKeeps ==
  \A u \in Uses :
    (use[u].op = "append" /\ use[u].ok /\ use[u].path \notin lost) => u \in Range(disk[use[u].path])

\* Plugins write into the files the user picked, and their appends add up.
HostFilesKept == HostTypeOK /\ OnlyPicked /\ AppendKeeps
=============================================================================
