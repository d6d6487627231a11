---------------------------- MODULE GatewayDoor ----------------------------
(***************************************************************************)
(* The way into the gateway daemon: the process lock (gateway.lock) with   *)
(* its takeover of a stale lock, the liveness file, the token file, the    *)
(* socket path and the server behind it, and one client's call.  Several   *)
(* daemons may be started (login service, CLI); a daemon may crash, stall  *)
(* or be disposed of at any moment.  Time is the one question the code     *)
(* asks of it: is the stamp less than 90 seconds old.                      *)
(***************************************************************************)
EXTENDS Integers, FiniteSets

CONSTANTS Daemons,      \* 1 .. n: the processes, in the order in which they start
          Former,       \* an earlier process, whose files may have stayed
          NoDaemon,
          MaxWaits,     \* times that 90 seconds pass
          Faulty        \* daemons one of whose file operations may fail

ASSUME DoorAssumption ==
  /\ Daemons \subseteq Nat /\ Former \notin Daemons /\ NoDaemon \notin Daemons \union {Former} /\ MaxWaits \in Nat
  /\ Faulty \subseteq Daemons

VARIABLES lockOf,    \* who created gateway.lock, NoDaemon if there is none
          lockText,  \* "empty" between open and writeFile, then "full"
          lockNew,   \* its startedAt is less than 90 s old
          beat,      \* liveness.json: "none", "new" or "old"
          tokenFile, \* whose token ipc-token holds
          secret,    \* secret[p]: the token the server of p compares with
          path,      \* who created the socket at gateway.sock
          step,      \* step[p]: where the process stands
          saw,       \* saw[p]: the lock that p read, and its stamp
          call,      \* the client's call
          excuses,   \* history: what undermined the lock so far
          waits, errors

lockFile == <<lockOf, lockText, lockNew>>
door == <<tokenFile, secret, path>>
bounds == <<waits, errors>>
doorVars == <<lockFile, beat, door, step, saw, call, excuses, bounds>>

Acquiring == {"writing", "looking", "judging", "removing", "again", "rewriting"}
Holders == {"owner", "minting", "unlinking", "binding", "listening", "up", "stumbled", "leaving", "unlocking"}
Serving == {"listening", "up", "stumbled", "orphan"}
Stopped == {"refused", "corrupt", "dead", "gone"}
Makers == Daemons \union {Former, NoDaemon}
Alive(p) == p \in Daemons /\ step[p] \notin Stopped \union {"out"}
Owners == {p \in Daemons : step[p] \in Holders}
Found(p, stamp) == [of |-> p, stamp |-> stamp]

DoorTypeOK ==
  /\ lockOf \in Makers /\ lockText \in {"empty", "full"} /\ lockNew \in BOOLEAN
  /\ beat \in {"none", "new", "old"} /\ tokenFile \in Makers
  /\ secret \in [Daemons -> Makers] /\ path \in Makers
  /\ step \in [Daemons -> {"out", "orphan"} \union Stopped \union Acquiring \union Holders]
  /\ saw \in [Daemons -> [of : Makers, stamp : {"nan", "new", "old"}]]
  /\ call \in [at : {"idle", "sent", "executing", "answered", "deserted", "over"},
                with : Makers, token : Makers,
                result : {"none", "ok", "refused", "unreachable", "timeout"}, ran : {"no", "owner", "other"}]
  /\ excuses \subseteq {"first", "silent", "replaced", "failed"}
  /\ waits \in 0 .. MaxWaits /\ errors \subseteq Faulty

DoorInit ==
  /\ lockOf \in {NoDaemon, Former} /\ lockText \in {"empty", "full"} /\ lockNew = FALSE
  /\ lockOf = NoDaemon => lockText = "empty"
  /\ beat \in {"none", "old"} /\ path = lockOf
  /\ tokenFile = (IF beat = "old" THEN Former ELSE NoDaemon) /\ secret = [p \in Daemons |-> NoDaemon]
  /\ step = [p \in Daemons |-> "out"] /\ saw = [p \in Daemons |-> Found(NoDaemon, "nan")]
  /\ call = [at |-> "idle", with |-> NoDaemon, token |-> NoDaemon, result |-> "none", ran |-> "no"]
  /\ excuses = {} /\ waits = 0 /\ errors = {}

To(p, where) == step' = [step EXCEPT ![p] = where]
Errs(p) == p \in Faulty \ errors /\ errors' = errors \union {p} /\ UNCHANGED waits

----------------------------------------------------------------------------
(* GatewayLock.                                                            *)

\* open(path, "wx"), the first time and after the removal of a stale lock.
SlipNotExclusive(p) == TRUE
Creates(p) == lockOf = NoDaemon

OpenLock(p, from, made, taken) ==
  /\ step[p] = from
  /\ IF Creates(p)
       THEN lockOf' = p /\ lockText' = "empty" /\ lockNew' = TRUE /\ To(p, made)
       ELSE To(p, taken) /\ UNCHANGED lockFile
  /\ UNCHANGED <<beat, door, saw, call, excuses, bounds>>

\* Every daemon is started once, in the order of its number.
Acquire(p) ==
  /\ \A q \in Daemons : q < p => step[q] # "out"
  /\ OpenLock(p, "out", "writing", "looking")

\* writeFile to the open handle; after a failure the empty file stays.
WriteLock(p) ==
  /\ step[p] \in {"writing", "rewriting"}
  /\ \/ /\ lockText' = IF lockOf = p THEN "full" ELSE lockText
        /\ To(p, "owner") /\ UNCHANGED bounds
     \/ Errs(p) /\ To(p, "refused") /\ UNCHANGED lockText
  /\ UNCHANGED <<lockOf, lockNew, beat, door, saw, call, excuses>>

\* readJson(gateway.lock): {} when it is gone, an exception when it is still empty.
LookAtLock(p) ==
  /\ step[p] = "looking"
  /\ IF lockOf # NoDaemon /\ lockText = "empty" THEN To(p, "corrupt") /\ UNCHANGED saw
     ELSE /\ To(p, "judging")
          /\ saw' = [saw EXCEPT ![p] =
               Found(lockOf, IF lockOf = NoDaemon THEN "nan" ELSE IF lockNew THEN "new" ELSE "old")]
  /\ UNCHANGED <<lockFile, beat, door, call, excuses, bounds>>

\* Math.max of the two stamps: one that is missing makes it NaN, and the lock stale.
ShowsLife(p) == saw[p].stamp # "nan" /\ beat # "none" /\ (saw[p].stamp = "new" \/ beat = "new")

Judge(p) ==
  /\ step[p] = "judging"
  /\ To(p, IF ShowsLife(p) THEN "refused" ELSE "removing")
  /\ excuses' = IF ShowsLife(p) \/ ~Alive(saw[p].of) THEN excuses
                ELSE IF saw[p].stamp = "old" THEN excuses \union {"silent"}
                ELSE IF beat = "none" THEN excuses \union {"first"} ELSE excuses
  /\ saw' = IF ShowsLife(p) THEN [saw EXCEPT ![p] = Found(NoDaemon, "nan")] ELSE saw
  /\ UNCHANGED <<lockFile, beat, door, call, bounds>>

\* rm(force) removes whatever file has the name by now.
RemoveLock(p, expected) ==
  /\ lockOf' = NoDaemon /\ lockText' = "empty" /\ lockNew' = FALSE
  /\ excuses' = IF lockOf \in {NoDaemon, expected} THEN excuses ELSE excuses \union {"replaced"}

LockStep(p) ==
  \/ OpenLock(p, "again", "rewriting", "refused") \/ WriteLock(p) \/ LookAtLock(p) \/ Judge(p)
  \/ /\ step[p] = "removing" /\ To(p, "again") /\ RemoveLock(p, saw[p].of)
     /\ saw' = [saw EXCEPT ![p] = Found(NoDaemon, "nan")] /\ UNCHANGED <<beat, door, call, bounds>>

----------------------------------------------------------------------------
(* RuntimeGateway.start, dispose and createGatewayIpcServer.               *)

\* initialize, then the token: read from its file, made when there is none.
ReadToken(p) ==
  /\ step[p] = "owner"
  /\ \/ /\ To(p, IF tokenFile = NoDaemon THEN "minting" ELSE "unlinking")
        /\ secret' = [secret EXCEPT ![p] = tokenFile] /\ UNCHANGED bounds
     \/ Errs(p) /\ To(p, "leaving") /\ UNCHANGED secret
  /\ UNCHANGED <<lockFile, beat, tokenFile, path, saw, call, excuses>>

MintToken(p) ==
  /\ step[p] = "minting" /\ To(p, "unlinking")
  /\ tokenFile' = p /\ secret' = [secret EXCEPT ![p] = p]
  /\ UNCHANGED <<lockFile, beat, path, saw, call, excuses, bounds>>

Unlink(p) ==
  /\ step[p] = "unlinking" /\ To(p, "binding") /\ path' = NoDaemon
  /\ UNCHANGED <<lockFile, beat, tokenFile, secret, saw, call, excuses, bounds>>

\* listen fails when the path exists.
Listen(p) ==
  /\ step[p] = "binding"
  /\ IF path = NoDaemon THEN path' = p /\ To(p, "listening") ELSE To(p, "leaving") /\ UNCHANGED path
  /\ UNCHANGED <<lockFile, beat, tokenFile, secret, saw, call, excuses, bounds>>

\* The first tick writes liveness.json; when it throws, start releases the lock
\* and leaves the server open for dispose.
Tick(p) ==
  /\ step[p] \in {"listening", "up"}
  /\ \/ beat' = "new" /\ To(p, "up") /\ UNCHANGED bounds
     \/ step[p] = "listening" /\ Errs(p) /\ To(p, "stumbled") /\ UNCHANGED beat
  /\ UNCHANGED <<lockFile, door, saw, call, excuses>>

Call(at, with, token, result, ran) ==
  call' = [at |-> at, with |-> with, token |-> token, result |-> result, ran |-> ran]
SettleCall(result) == Call("over", NoDaemon, NoDaemon, result, call.ran)

\* A connection the server ends: a request it has not read resets it.
Open(p) == call.with = p /\ call.at \in {"sent", "executing"}
Resets(p) == call.at = "sent"
Deserts(p) ==
  IF ~Open(p) THEN UNCHANGED call
  ELSE \/ Call("deserted", NoDaemon, NoDaemon, call.result, call.ran)
       \/ Resets(p) /\ SettleCall("unreachable")

\* ipc.close: the sockets are destroyed and the path is removed, whoever made it.
AfterClose(p) == IF step[p] = "orphan" THEN "gone" ELSE "leaving"

SlipReleaseFirst(p) ==
  /\ \/ /\ step[p] = "up" /\ To(p, "orphan") /\ lockOf' = NoDaemon /\ lockText' = "empty" /\ lockNew' = FALSE
        /\ UNCHANGED <<path, call>>
     \/ step[p] = "orphan" /\ path' = NoDaemon /\ Deserts(p) /\ To(p, "gone") /\ UNCHANGED lockFile
  /\ UNCHANGED <<beat, tokenFile, secret, saw, excuses, bounds>>
Close(p) ==
  /\ step[p] \in {"up", "orphan"} /\ path' = NoDaemon /\ Deserts(p) /\ To(p, AfterClose(p))
  /\ secret' = [secret EXCEPT ![p] = NoDaemon]
  /\ UNCHANGED <<lockFile, beat, tokenFile, saw, excuses, bounds>>

\* release(): reads the owner after the runs have ended; then removes the file.
Release(p) ==
  /\ step[p] \in {"leaving", "stumbled"}
  /\ \/ lockOf = p /\ lockText = "full" /\ step[p] = "leaving" /\ To(p, "unlocking") /\ UNCHANGED <<lockFile, excuses>>
     \/ lockOf # p /\ To(p, IF step[p] = "leaving" THEN "gone" ELSE "orphan") /\ UNCHANGED <<lockFile, excuses>>
     \/ /\ lockOf = p /\ step[p] = "stumbled" /\ To(p, "orphan") /\ lockOf' = NoDaemon
        /\ lockText' = "empty" /\ lockNew' = FALSE /\ excuses' = excuses \union {"failed"}
  /\ UNCHANGED <<beat, door, saw, call, bounds>>

Unlocks(p) ==
  /\ step[p] = "unlocking" /\ To(p, "gone") /\ RemoveLock(p, p)
  /\ UNCHANGED <<beat, door, saw, call, bounds>>

Die(p) ==
  /\ Alive(p) /\ To(p, "dead") /\ Deserts(p)
  /\ secret' = [secret EXCEPT ![p] = NoDaemon] /\ saw' = [saw EXCEPT ![p] = Found(NoDaemon, "nan")]
  /\ UNCHANGED <<lockFile, beat, tokenFile, path, excuses, bounds>>

\* 90 seconds pass in which no process wrote liveness.json.
Pass90 ==
  /\ waits < MaxWaits /\ waits' = waits + 1 /\ UNCHANGED errors
  /\ lockNew' = FALSE /\ beat' = IF beat = "none" THEN "none" ELSE "old"
  /\ saw' = [p \in Daemons |-> IF saw[p].stamp = "new" THEN Found(saw[p].of, "old") ELSE saw[p]]
  /\ UNCHANGED <<lockOf, lockText, door, step, call, excuses>>

----------------------------------------------------------------------------
(* One call of a client over the socket.                                   *)

\* connectRuntimeGateway reads the token; the call makes a connection of its own.
Connect ==
  /\ call.at = "idle"
  /\ IF tokenFile # NoDaemon /\ path \in Daemons /\ step[path] \in Serving
       THEN Call("sent", path, tokenFile, call.result, call.ran)
       ELSE SettleCall("unreachable")

\* The server reads the line, compares the token and calls the gateway.
Authentic(p) == call.token = secret[p]

Dispatch(p) ==
  /\ call.at = "sent" /\ call.with = p /\ step[p] \in Serving
  /\ IF Authentic(p)
       THEN Call("executing", p, call.token, call.result, IF lockOf = p THEN "owner" ELSE "other")
       ELSE Call("answered", p, call.token, "refused", call.ran)

\* runNow answers when the run has ended, which may be never.
Answer == call.at = "executing" /\ Call("answered", call.with, call.token, "ok", call.ran)
Receive == call.at = "answered" /\ SettleCall(call.result)

\* Ten seconds without a byte.
TimeOut == call.at \in {"sent", "executing", "answered"} /\ SettleCall("timeout")

CallStep == ((\E p \in Daemons : Dispatch(p)) \/ Receive \/ TimeOut)
            /\ UNCHANGED <<lockFile, beat, door, step, saw, excuses, bounds>>
Caller == (Connect \/ Answer) /\ UNCHANGED <<lockFile, beat, door, step, saw, excuses, bounds>>

StartStep(p) == ReadToken(p) \/ MintToken(p) \/ Unlink(p) \/ Listen(p) \/ Release(p) \/ Unlocks(p)

DoorNext ==
  \/ \E p \in Daemons : Acquire(p) \/ LockStep(p) \/ StartStep(p) \/ Tick(p) \/ Close(p) \/ Die(p)
  \/ Pass90 \/ CallStep \/ Caller

DoorFair == WF_doorVars(CallStep)
DoorSpec == DoorInit /\ [][DoorNext]_doorVars
DoorFairSpec == DoorSpec /\ DoorFair

----------------------------------------------------------------------------
(* Properties.                                                             *)

\* Two daemons hold the lock together only after a start found no liveness file
\* beside a new lock, the holder was silent for 90 seconds, or a file was removed
\* that is not the one that was read.  Crashes and failing writes do not matter.
OneOwner ==
  excuses \subseteq {"failed"} => /\ Cardinality(Owners) <= 1
                                 /\ \A p \in Owners : lockOf = p /\ lockText = "full"

\* The daemon that is up is the one behind the socket path, its token is the one in
\* the token file, and what a client asks runs in the process that holds the lock,
\* unless a start failed after it had opened its server.
ReachableOwner ==
  excuses = {} =>
    /\ \A p \in Daemons : /\ step[p] = "up" => path = p
                         /\ step[p] \in Serving => secret[p] = tokenFile
    /\ call.ran # "other" /\ call.result # "refused"

\* What the client is told is what happened: an answer means that the operation
\* ran, a refusal or a failed connection that it did not.
AnswerTrue ==
  /\ call.result = "ok" => call.ran # "no"
  /\ call.result \in {"refused", "unreachable"} => call.ran = "no"

\* A call settles, unless the server ended the connection without an answer: the
\* client does not listen to `close`, and its timer ends with the socket.
CallSettles == (call.at # "idle") ~> (call.at \in {"over", "deserted"})

\* Both, with the types: what a client asks runs where the lock is held, and what it is
\* told is what happened there.
DoorSafe == DoorTypeOK /\ ReachableOwner /\ AnswerTrue
=============================================================================
