-------------------------- MODULE GatewayExecutor --------------------------
(***************************************************************************)
(* Run execution of the gateway daemon for ONE application: the maps of    *)
(* GatewayExecutor (active, activeRunIds, pending), the run records in     *)
(* runs.json, the app's registry entry, and the requests that race with    *)
(* them (disable, uninstall, install, dispose, runNow), a crash and a      *)
(* restart.  Every map of the code is keyed by app id, so one app is the   *)
(* whole story; the steps between two awaits are one action.               *)
(*                                                                         *)
(* A run's AbortController is created with the run, so `active` holds the  *)
(* run itself.  Upserts of runs.json queue up in withLock, first come      *)
(* first served, and each is one atomic rename: a call appends its run to  *)
(* `lock`, the write is the step that takes it from the head.              *)
(***************************************************************************)
EXTENDS Naturals, Sequences, FiniteSets

CONSTANTS Runs,        \* run ids, each used at most once (randomUUID)
          Triggers,    \* the app's heartbeat and cron triggers
          Packages,    \* package hashes an install may bring
          Requests,    \* callers (IPC sockets, the CLI) with one call each in flight
          NoRun, NoTrigger, NoPackage,
          Calls,       \* the calls the callers of this instance make
          MaxFaults    \* bound: disk writes that fail in one behaviour

ASSUME ConstantsAssumption ==
  /\ NoRun \notin Runs /\ NoTrigger \notin Triggers /\ NoPackage \notin Packages
  /\ Packages # {} /\ MaxFaults \in Nat
  /\ Calls \subseteq {"enable", "disable", "uninstall", "install", "dispose", "runNow"}

VARIABLES
  gw,         \* "up", "disposing", "disposed" (dispose returned) or "down" (no process)
  reg,        \* the app's entry in state.registry: [installed, enabled, pkg]
  saved,      \* the same entry in registry.json
  disk,       \* status of every run in runs.json, "none" before the first upsert
  active,     \* executor.active: the run whose controller the map holds
  activeRun,  \* executor.activeRunIds
  pending,    \* executor.pending: queued runs in insertion order
  pc,         \* where the asynchronous call that drives the run stands
  lock,       \* upserts called and not yet done, the `${id}:runs` lock's queue
  enq,        \* runs whose "queued" record start() is still writing
  trig, pkgOf,\* trigger of the run; package hash of the app object it holds
  status,     \* record.status in memory
  aborted,    \* runs whose controller was aborted
  req,        \* the caller's request
  overlapped, \* history: launchNext replaced a live entry of `active`
  faults,     \* writes that failed so far
  ticking     \* RuntimeGateway.ticking: a tick is between its first and last await

regVars  == <<gw, ticking, reg, saved>>
mapVars  == <<active, activeRun, pending>>
idVars   == <<trig, pkgOf>>
histVars == <<overlapped, faults>>
runVars  == <<disk, lock, pc, enq, idVars, status>>
vars == <<regVars, runVars, mapVars, aborted, req, histVars>>

Terminal == {"completed", "failed", "cancelled"}
Status   == {"none", "queued", "running"} \union Terminal
\* What a run holds while it owns, or is about to own, the app.
LivePc   == {"starting", "fetching", "launched", "listing", "running", "ending"}
Pcs      == LivePc \union {"new", "pending", "draining", "cancelling", "dropping", "dropped",
                           "failing", "settling", "cleanup", "swept", "done", "lost"}
Cmds     == {"none", "disable", "uninstall", "install", "dispose", "runNow"}
ReqPcs   == {"idle", "inspect", "stop", "wait", "cancel", "drain", "commit",
             "ticket", "read", "join"}
Entry    == [installed : BOOLEAN, enabled : BOOLEAN, pkg : Packages]
Request  == {x \in [cmd : Cmds, at : ReqPcs, run : Runs \union {NoRun}, queue : Seq(Runs),
                    pkg : Packages \union {NoPackage}, seen : Packages \union {NoPackage}] :
               x.cmd = "install" => x.pkg \in Packages}

\* A call at its beginning, and the same call further on.
Called(cmd, at, run, pkg, seen) ==
  [cmd |-> cmd, at |-> at, run |-> run, queue |-> <<>>, pkg |-> pkg, seen |-> seen]
Onward(x, at, run, queue) ==
  [cmd |-> x.cmd, at |-> at, run |-> run, queue |-> queue, pkg |-> x.pkg, seen |-> x.seen]
Idle == Called("none", "idle", NoRun, NoPackage, NoPackage)

TypeOK ==
  /\ gw \in {"up", "disposing", "disposed", "down"}
  /\ reg \in Entry /\ saved \in Entry
  /\ disk \in [Runs -> Status]
  /\ active \in Runs \union {NoRun} /\ activeRun \in Runs \union {NoRun}
  /\ pending \in Seq(Runs) /\ lock \in Seq(Runs)
  /\ pc \in [Runs -> Pcs]
  /\ enq \subseteq Runs /\ aborted \subseteq Runs
  /\ trig \in [Runs -> Triggers \union {NoTrigger}]
  /\ pkgOf \in [Runs -> Packages \union {NoPackage}]
  /\ status \in [Runs -> Status]
  /\ req \in [Requests -> Request]
  /\ overlapped \in BOOLEAN /\ faults \in 0..MaxFaults /\ ticking \in BOOLEAN

Init ==
  /\ gw = "up"
  /\ \E p \in Packages : reg = [installed |-> TRUE, enabled |-> TRUE, pkg |-> p]
  /\ saved = reg
  /\ disk = [r \in Runs |-> "none"]
  /\ active = NoRun /\ activeRun = NoRun /\ pending = <<>>
  /\ pc = [r \in Runs |-> "new"] /\ enq = {} /\ lock = <<>>
  /\ trig = [r \in Runs |-> NoTrigger] /\ pkgOf = [r \in Runs |-> NoPackage]
  /\ status = [r \in Runs |-> "none"]
  /\ aborted = {}
  /\ req = [q \in Requests |-> Idle]
  /\ overlapped = FALSE /\ faults = 0 /\ ticking = FALSE

\* The definitions named Slip... are one-line mistakes in the definition that follows
\* them; each shows that a property of the runs notices it.

At(r, where) == pc' = [pc EXCEPT ![r] = where]
Record(r, st) == disk' = [disk EXCEPT ![r] = st]
CallUpsert(r) == lock' = Append(lock, r)
Turn(r) == lock # <<>> /\ Head(lock) = r /\ lock' = Tail(lock)
TurnAndCall(r) == lock # <<>> /\ Head(lock) = r /\ lock' = Append(Tail(lock), r)
Alive == gw # "down"

\* A write of the run record fails (GATEWAY_WRITE_FAILED).
WriteFails == /\ faults < MaxFaults /\ faults' = faults + 1 /\ UNCHANGED overlapped

\* runRecord finds the run: the app is registered and the record was written.
SlipNotFoundIgnored(r) == reg.installed
Recorded(r) == reg.installed /\ disk[r] # "none"

\* stream.complete(record): every caller awaiting the run's promise goes on.
SlipNoCompletion(f, r) == f
Resumed(f, r) ==
  [q \in Requests |->
    IF f[q].at # "wait" \/ f[q].run # r THEN f[q]
    ELSE IF f[q].cmd = "runNow" THEN Idle
    ELSE Onward(f[q], IF f[q].cmd = "dispose" THEN "commit" ELSE "cancel", NoRun, f[q].queue)]

\* release(record), called only when the map still holds this run's controller.
SlipKeepsRunId(r) ==
  IF active = r THEN active' = NoRun /\ UNCHANGED activeRun ELSE UNCHANGED <<active, activeRun>>
ReleaseIfOwner(r) ==
  IF active = r THEN active' = NoRun /\ activeRun' = NoRun
                ELSE UNCHANGED <<active, activeRun>>

-----------------------------------------------------------------------------
(* start(): everything up to its first await.                              *)

QueuedFor(t) == {i \in DOMAIN pending : trig[pending[i]] = t}

NewRun(r, t) ==
  /\ pc[r] = "new"
  /\ trig' = [trig EXCEPT ![r] = t] /\ pkgOf' = [pkgOf EXCEPT ![r] = reg.pkg]
  /\ CallUpsert(r)
  /\ IF active = NoRun
       THEN /\ active' = r /\ At(r, "starting")
            /\ UNCHANGED <<activeRun, pending, enq>>
       ELSE /\ QueuedFor(t) = {}
            /\ pending' = Append(pending, r) /\ enq' = enq \union {r} /\ At(r, "pending")
            /\ UNCHANGED <<active, activeRun>>

\* The await of upsertRun in start(), for a run that found the app idle; launch()
\* enters execute(), which calls its own upsert at once.
StartUpsert(r) ==
  /\ pc[r] = "starting"
  /\ \/ /\ TurnAndCall(r) /\ Record(r, "running") /\ activeRun' = r /\ At(r, "launched")
        /\ UNCHANGED <<active, histVars>>
     \/ /\ Turn(r) /\ WriteFails /\ active' = NoRun /\ At(r, "done")
        /\ UNCHANGED <<disk, activeRun>>
  /\ UNCHANGED <<regVars, pending, enq, idVars, status, aborted, req>>

\* The same await for a run that was queued; it runs beside the run's dequeuing.
QueueUpsert(r) ==
  /\ r \in enq /\ enq' = enq \ {r} /\ Turn(r)
  /\ \/ Record(r, "queued") /\ UNCHANGED histVars
     \/ WriteFails /\ UNCHANGED disk
  /\ UNCHANGED <<regVars, mapVars, pc, idVars, status, aborted, req>>

\* tick() up to its first await: the guard against a tick that is still running.
TickBegin ==
  /\ gw = "up" /\ ~ticking /\ ticking' = TRUE
  /\ UNCHANGED <<gw, reg, saved, runVars, mapVars, aborted, req, histVars>>

\* tick() after its last await but one: a due trigger of an enabled app is started,
\* or nothing is due; the saveRegistry that follows snapshots in the same block.
\* dispose does not wait for a tick in flight.
TickFire ==
  /\ Alive /\ ticking /\ ticking' = FALSE /\ saved' = reg
  /\ \/ /\ reg.installed /\ reg.enabled
        /\ \E r \in Runs, t \in Triggers : NewRun(r, t)
     \/ UNCHANGED <<mapVars, lock, pc, enq, idVars>>
  /\ UNCHANGED <<gw, reg, disk, status, aborted, req, histVars>>

-----------------------------------------------------------------------------
(* execute(), failLaunch() and launchNext(), one action per await.         *)

ExecuteRunning(r) ==
  /\ pc[r] = "launched" /\ Turn(r)
  /\ status' = [status EXCEPT ![r] = "running"]
  /\ \/ /\ Record(r, "running") /\ At(r, "listing") /\ UNCHANGED <<active, activeRun, histVars>>
     \/ /\ WriteFails /\ At(r, "failing") /\ ReleaseIfOwner(r) /\ UNCHANGED disk
  /\ UNCHANGED <<regVars, pending, enq, idVars, aborted, req>>

\* listRuns throws for an app that is no longer in the registry.
ExecuteListRuns(r) ==
  /\ pc[r] = "listing"
  /\ IF reg.installed THEN At(r, "running") /\ UNCHANGED <<active, activeRun>>
                      ELSE At(r, "failing") /\ ReleaseIfOwner(r)
  /\ UNCHANGED <<regVars, disk, lock, pending, enq, idVars, status, aborted, req, histVars>>

\* executeGatewayTrigger settles.  Cancelled needs an abort; an aborted run may still
\* complete, or have failed first (a full stream log aborts with its own error).
ExecuteTrigger(r) ==
  /\ pc[r] = "running"
  /\ \E out \in {"completed", "failed"} \union (IF r \in aborted THEN {"cancelled"} ELSE {}) :
       status' = [status EXCEPT ![r] = out]
  /\ At(r, "ending") /\ CallUpsert(r)
  /\ UNCHANGED <<regVars, disk, mapVars, enq, idVars, aborted, req, histVars>>

\* The final upsert, then release and stream.complete without another await.
SlipCompletesFirst(r) ==
  /\ pc[r] = "ending" /\ Turn(r) /\ ReleaseIfOwner(r) /\ At(r, "cleanup") /\ req' = Resumed(req, r)
  /\ UNCHANGED <<regVars, disk, pending, enq, idVars, status, aborted, histVars>>
ExecuteEnd(r) ==
  /\ pc[r] = "ending" /\ Turn(r) /\ ReleaseIfOwner(r)
  /\ \/ /\ Record(r, status[r]) /\ At(r, "cleanup") /\ req' = Resumed(req, r)
        /\ UNCHANGED histVars
     \/ /\ WriteFails /\ At(r, "failing") /\ UNCHANGED <<disk, req>>
  /\ UNCHANGED <<regVars, pending, enq, idVars, status, aborted>>

\* failLaunch after its release: a record that is final already is left alone and its
\* completion is not announced; an app that is gone leaves the record of the memory, ...
FailLaunch(r) ==
  LET current == IF Recorded(r) THEN disk[r] ELSE status[r]
  IN /\ pc[r] = "failing"
     /\ IF current \in Terminal THEN At(r, "lost") /\ UNCHANGED lock
                                ELSE At(r, "settling") /\ CallUpsert(r)
     /\ UNCHANGED <<regVars, disk, mapVars, enq, idVars, status, aborted, req, histVars>>

\* ... any other is settled; a failing write is swallowed, the run completes anyway.
FailSettle(r) ==
  LET outs == IF r \notin aborted THEN {"failed"}
              ELSE IF status[r] = "failed" THEN {"failed", "cancelled"} ELSE {"cancelled"}
  IN /\ pc[r] = "settling" /\ Turn(r) /\ At(r, "done") /\ req' = Resumed(req, r)
     /\ \/ \E out \in outs : Record(r, out) /\ UNCHANGED histVars
        \/ WriteFails /\ UNCHANGED disk
     /\ UNCHANGED <<regVars, mapVars, enq, idVars, status, aborted>>

\* stream.cleanup lists the runs first; when that throws, execute ends here.
SlipNoLaunchNext(r) ==
  /\ pc[r] = "cleanup" /\ At(r, "done")
  /\ UNCHANGED <<regVars, disk, lock, mapVars, enq, idVars, status, aborted, req, histVars>>
Cleanup(r) ==
  /\ pc[r] = "cleanup"
  /\ At(r, IF reg.installed THEN "swept" ELSE "done")
  /\ UNCHANGED <<regVars, disk, lock, mapVars, enq, idVars, status, aborted, req, histVars>>

\* launchNext up to its await: dequeue, and claim the app if it is enabled.
LaunchNext(r) ==
  /\ pc[r] = "swept"
  /\ IF pending = <<>>
       THEN At(r, "done") /\ UNCHANGED <<mapVars, pkgOf, overlapped>>
       ELSE LET n == Head(pending) IN
            /\ pending' = Tail(pending)
            /\ IF reg.installed /\ reg.enabled
                 THEN /\ active' = n /\ activeRun' = n
                      /\ pc' = [pc EXCEPT ![r] = "done", ![n] = "fetching"]
                      /\ pkgOf' = [pkgOf EXCEPT ![n] = reg.pkg]
                      /\ overlapped' = (overlapped \/ active # NoRun)
                 ELSE /\ pc' = [pc EXCEPT ![r] = "done", ![n] = "dropping"]
                      /\ UNCHANGED <<active, activeRun, pkgOf, overlapped>>
  /\ UNCHANGED <<regVars, disk, lock, enq, trig, status, aborted, req, faults>>

\* launchNext reads the queued record; a missing one throws past the claimed slot.
LaunchFetch(r) ==
  /\ pc[r] = "fetching"
  /\ IF Recorded(r) THEN At(r, "launched") /\ CallUpsert(r)
                    ELSE At(r, "lost") /\ UNCHANGED lock
  /\ UNCHANGED <<regVars, disk, mapVars, enq, idVars, status, aborted, req, histVars>>

\* launchNext for an app that was disabled: the queued record is read, ...
LaunchDrop(r) ==
  /\ pc[r] = "dropping"
  /\ IF Recorded(r) THEN At(r, "dropped") /\ CallUpsert(r)
                    ELSE At(r, "lost") /\ UNCHANGED lock
  /\ UNCHANGED <<regVars, disk, mapVars, enq, idVars, status, aborted, req, histVars>>

\* ... and cancelled.
DropUpsert(r) ==
  /\ pc[r] = "dropped" /\ Turn(r)
  /\ \/ /\ Record(r, "cancelled") /\ At(r, "done") /\ req' = Resumed(req, r)
        /\ UNCHANGED histVars
     \/ WriteFails /\ At(r, "lost") /\ UNCHANGED <<disk, req>>
  /\ UNCHANGED <<regVars, mapVars, enq, idVars, status, aborted>>

RunStep(r) ==
  \/ StartUpsert(r) \/ ExecuteRunning(r) \/ ExecuteListRuns(r) \/ ExecuteTrigger(r)
  \/ ExecuteEnd(r) \/ FailLaunch(r) \/ FailSettle(r) \/ Cleanup(r)
  \/ LaunchNext(r) \/ LaunchFetch(r) \/ LaunchDrop(r) \/ DropUpsert(r)

-----------------------------------------------------------------------------
(* Requests.  A caller's call is a small state machine over its awaits.    *)

Become(q, rec) == req' = [req EXCEPT ![q] = rec]
Goto(q, at) == Become(q, Onward(req[q], at, req[q].run, req[q].queue))
Calling(q) == gw = "up" /\ req[q].at = "idle" /\ reg.installed

Enable(q) ==
  /\ Calling(q) /\ reg' = [reg EXCEPT !.enabled = TRUE] /\ saved' = reg'
  /\ UNCHANGED <<gw, ticking, runVars, mapVars, aborted, req, histVars>>

Disable(q) ==
  /\ Calling(q) /\ reg' = [reg EXCEPT !.enabled = FALSE]
  /\ Become(q, Called("disable", "stop", NoRun, NoPackage, NoPackage))
  /\ UNCHANGED <<gw, ticking, saved, runVars, mapVars, aborted, histVars>>

Uninstall(q) ==
  /\ Calling(q)
  /\ Become(q, Called("uninstall", "stop", NoRun, NoPackage, NoPackage))
  /\ UNCHANGED <<regVars, runVars, mapVars, aborted, histVars>>

\* install looks the existing entry up before it validates anything.
Install(q, p) ==
  /\ gw = "up" /\ req[q].at = "idle"
  /\ Become(q, Called("install", "inspect", NoRun, p,
                      IF reg.installed THEN reg.pkg ELSE NoPackage))
  /\ UNCHANGED <<regVars, runVars, mapVars, aborted, histVars>>

\* A validation may refuse the package; a replaced hash stops the old package.
InstallInspect(q) ==
  /\ req[q].at = "inspect"
  /\ \/ Become(q, Idle)
     \/ Goto(q, IF req[q].seen \in {NoPackage, req[q].pkg} THEN "commit" ELSE "stop")
  /\ UNCHANGED <<regVars, runVars, mapVars, aborted, histVars>>

Dispose(q) ==
  /\ gw = "up" /\ req[q].at = "idle" /\ gw' = "disposing"
  /\ Become(q, Called("dispose", "cancel", NoRun, NoPackage, NoPackage))
  /\ UNCHANGED <<ticking, reg, saved, runVars, mapVars, aborted, histVars>>

\* stopActive: abort the controller in `active`, wait for the run in activeRunIds.
\* dispose aborts even when no run id is known yet.
StopActive(q) ==
  LET known == active # NoRun /\ activeRun # NoRun
      after == IF req[q].cmd = "dispose" THEN "commit" ELSE "cancel"
  IN /\ req[q].at = "stop"
     /\ aborted' = IF active # NoRun /\ (known \/ req[q].cmd = "dispose")
                     THEN aborted \union {active} ELSE aborted
     /\ IF known \/ (req[q].cmd = "dispose" /\ activeRun # NoRun)
          THEN Become(q, Onward(req[q], "wait", activeRun, req[q].queue))
          ELSE Goto(q, after)
     /\ UNCHANGED <<regVars, runVars, mapVars, histVars>>

\* cancelPending up to its first await: the queue is taken out of the map.
SlipQueueNotDeleted(q) ==
  /\ req[q].at = "cancel"
  /\ Become(q, Onward(req[q], "drain", NoRun, pending))
  /\ pc' = [r \in Runs |-> IF pc[r] = "pending" THEN "draining" ELSE pc[r]]
  /\ UNCHANGED <<regVars, disk, lock, mapVars, enq, idVars, status, aborted, histVars>>
CancelPending(q) ==
  /\ req[q].at = "cancel"
  /\ Become(q, Onward(req[q], "drain", NoRun, pending))
  /\ pending' = <<>>
  /\ pc' = [r \in Runs |-> IF pc[r] = "pending" THEN "draining" ELSE pc[r]]
  /\ UNCHANGED <<regVars, disk, lock, active, activeRun, enq, idVars, status, aborted, histVars>>

\* cancelPending throws: the rest of the queue is in nobody's hands.
CancelThrows(q) ==
  /\ pc' = [r \in Runs |-> IF \E i \in DOMAIN req[q].queue : req[q].queue[i] = r
                              THEN "lost" ELSE pc[r]]
  /\ Become(q, Idle)

\* One iteration: read the record of the next queued run; a missing one throws.
CancelRead(q) ==
  LET r == Head(req[q].queue)
  IN /\ req[q].at = "drain" /\ req[q].queue # <<>> /\ pc[r] = "draining"
     /\ IF Recorded(r) THEN At(r, "cancelling") /\ CallUpsert(r) /\ UNCHANGED req
                       ELSE CancelThrows(q) /\ UNCHANGED lock
     /\ UNCHANGED <<regVars, disk, mapVars, enq, idVars, status, aborted, histVars>>

\* Its record is cancelled and the run completed; a failed write throws.
CancelUpsert(q) ==
  LET r == Head(req[q].queue)
  IN /\ req[q].at = "drain" /\ req[q].queue # <<>> /\ pc[r] = "cancelling" /\ Turn(r)
     /\ \/ /\ Record(r, "cancelled") /\ At(r, "done")
           /\ req' = Resumed([req EXCEPT ![q] = Onward(@, "drain", NoRun, Tail(@.queue))], r)
           /\ UNCHANGED histVars
        \/ WriteFails /\ CancelThrows(q) /\ UNCHANGED disk
     /\ UNCHANGED <<regVars, mapVars, enq, idVars, status, aborted>>

\* What follows cancelPending in disable, uninstall, install and dispose.
CancelDone(q) ==
  /\ req[q].at = "drain" /\ req[q].queue = <<>>
  /\ Goto(q, IF req[q].cmd = "dispose" THEN "stop" ELSE "commit")
  /\ UNCHANGED <<regVars, runVars, mapVars, aborted, histVars>>

Commit(q) ==
  /\ req[q].at = "commit" /\ Become(q, Idle)
  /\ \/ /\ req[q].cmd = "disable" /\ saved' = reg /\ UNCHANGED <<gw, reg>>
     \/ /\ req[q].cmd = "uninstall"
        /\ reg' = [installed |-> FALSE, enabled |-> FALSE, pkg |-> reg.pkg]
        /\ saved' = reg' /\ UNCHANGED gw
     \/ /\ req[q].cmd = "install"
        /\ \E on \in BOOLEAN :
             reg' = [installed |-> TRUE, enabled |-> on, pkg |-> req[q].pkg]
        /\ saved' = reg' /\ UNCHANGED gw
     \/ /\ req[q].cmd = "dispose" /\ gw' = "disposed" /\ UNCHANGED <<reg, saved>>
  /\ UNCHANGED <<ticking, runVars, mapVars, aborted, histVars>>

\* runNow: start a trigger (or join the queued run of the same trigger).
RunNow(q, t) ==
  /\ Calling(q)
  /\ \/ \E r \in Runs : /\ NewRun(r, t)
                        /\ Become(q, Called("runNow", "ticket", r, NoPackage, NoPackage))
     \/ \E i \in QueuedFor(t) :
          /\ active # NoRun
          /\ Become(q, Called("runNow", "read", pending[i], NoPackage, NoPackage))
          /\ UNCHANGED <<mapVars, lock, pc, enq, idVars>>
  /\ UNCHANGED <<regVars, disk, status, aborted, histVars>>

\* start() returned the ticket, or threw because its record was not written.
RunNowTicket(q) ==
  LET r == req[q].run IN
  /\ req[q].at = "ticket" /\ r \notin enq /\ pc[r] # "starting"
  /\ IF disk[r] = "none" THEN Become(q, Idle) ELSE Goto(q, "read")
  /\ UNCHANGED <<regVars, runVars, mapVars, aborted, histVars>>

\* The record is read from the file; a missing one throws, a final one returns.
RunNowRead(q) ==
  LET r == req[q].run IN
  /\ req[q].at = "read"
  /\ IF reg.installed /\ disk[r] \in {"queued", "running"} THEN Goto(q, "join")
                                                           ELSE Become(q, Idle)
  /\ UNCHANGED <<regVars, runVars, mapVars, aborted, histVars>>

\* Only now is the completion promise looked up, or created if it is gone.
RunNowJoin(q) ==
  /\ req[q].at = "join" /\ Goto(q, "wait")
  /\ UNCHANGED <<regVars, runVars, mapVars, aborted, histVars>>

RequestStep(q) ==
  \/ InstallInspect(q) \/ StopActive(q) \/ CancelPending(q) \/ CancelRead(q)
  \/ CancelUpsert(q) \/ CancelDone(q) \/ Commit(q) \/ RunNowTicket(q) \/ RunNowRead(q) \/ RunNowJoin(q)

Call(q) ==
  \/ "enable" \in Calls /\ Enable(q)
  \/ "disable" \in Calls /\ Disable(q)
  \/ "uninstall" \in Calls /\ Uninstall(q)
  \/ "dispose" \in Calls /\ Dispose(q)
  \/ "install" \in Calls /\ \E p \in Packages : Install(q, p)
  \/ "runNow" \in Calls /\ \E t \in Triggers : RunNow(q, t)

-----------------------------------------------------------------------------
(* The process dies; a new one reads the files (RuntimeGateway.initialize). *)

Crash ==
  /\ Alive /\ gw' = "down"
  /\ pc' = [r \in Runs |-> IF pc[r] = "new" THEN "new" ELSE "done"]
  /\ active' = NoRun /\ activeRun' = NoRun /\ pending' = <<>>
  /\ enq' = {} /\ lock' = <<>> /\ aborted' = {} /\ overlapped' = FALSE /\ ticking' = FALSE
  /\ status' = [r \in Runs |-> "none"]
  /\ req' = [q \in Requests |-> Idle]
  /\ UNCHANGED <<reg, saved, disk, idVars, faults>>

\* initialize: what the last process left queued or running is cancelled.
Interrupted(d) == [r \in Runs |-> IF d[r] \in {"queued", "running"} THEN "cancelled" ELSE d[r]]

Restart ==
  /\ gw = "down" /\ gw' = "up" /\ reg' = saved
  /\ disk' = IF saved.installed THEN Interrupted(disk) ELSE disk
  /\ UNCHANGED <<ticking, saved, mapVars, lock, pc, enq, idVars, status, aborted, req, histVars>>

Next ==
  \/ TickBegin \/ TickFire
  \/ \E r \in Runs : RunStep(r) \/ QueueUpsert(r)
  \/ \E q \in Requests : RequestStep(q) \/ Call(q)
  \/ Crash
  \/ Restart

\* The event loop runs every continuation; a trigger's execution settles.
Fairness ==
  /\ \A r \in Runs : WF_vars(RunStep(r)) /\ WF_vars(QueueUpsert(r))
  /\ \A q \in Requests : WF_vars(RequestStep(q))
  /\ WF_vars(Restart)

Spec == Init /\ [][Next]_vars
FairSpec == Spec /\ Fairness

-----------------------------------------------------------------------------
(* Properties.                                                             *)

Live == {r \in Runs : pc[r] \in LivePc}
Executing == {r \in Runs : pc[r] = "running"}
Elements(s) == {s[i] : i \in DOMAIN s}
NoRepeat(s) == \A i, j \in DOMAIN s : i # j => s[i] # s[j]

\* A queued run has one owner: the pending map, one caller that is cancelling it,
\* or launchNext.  So no run is both cancelled and launched, or launched twice,
\* and the map holds at most one run of a trigger.
QueueOwned ==
  /\ NoRepeat(pending) /\ Elements(pending) = {r \in Runs : pc[r] = "pending"}
  /\ \A r, s \in Elements(pending) : r # s => trig[r] # trig[s]
  /\ \A q \in Requests : NoRepeat(req[q].queue)
  /\ \A q1, q2 \in Requests :
       q1 # q2 => Elements(req[q1].queue) \intersect Elements(req[q2].queue) = {}
  /\ \A r \in Runs : pc[r] \in {"draining", "cancelling"} <=>
                      \E q \in Requests : r \in Elements(req[q].queue)

\* What a run record says is what its run did: nothing is recorded before the call
\* that records it, a live run is never recorded as finished, a run that gave up
\* the app to its successor always is.
RecordsAgree ==
  \A r \in Runs :
    /\ pc[r] \in {"new", "starting"} \/ r \in enq => disk[r] = "none"
    /\ pc[r] \in {"pending", "draining", "fetching", "dropping"} =>
         disk[r] \in {"none", "queued"}
    /\ pc[r] \in {"cancelling", "dropped"} => disk[r] = "queued"
    /\ pc[r] = "launched" => disk[r] \in {"queued", "running"}
    /\ pc[r] \in {"listing", "running", "ending"} => disk[r] = "running"
    /\ pc[r] \in {"cleanup", "swept"} => disk[r] \in Terminal

\* Until launchNext replaces an entry that is in use, the app has one flow, the
\* map holds it, and the run id that stopActive waits for is that flow's.
SoleFlow ==
  ~overlapped => /\ \A r \in Live : active = r
                 /\ activeRun # NoRun => activeRun = active

\* With no overlap, disable, uninstall, install and dispose never wait for a run
\* that nobody will complete, one that lost its record apart: a launch that found none,
\* or a run whose last write failed and whose app another caller has removed since.
StopAwaitsLive ==
  ~overlapped =>
    \A q \in Requests :
      req[q].at = "wait" /\ req[q].cmd # "runNow" =>
        pc[req[q].run] \in LivePc \union {"failing", "settling", "lost"}

\* When a stop goes on, the run it waited for is settled on disk, unless just that write
\* failed: whoever reads runs.json after a disable finds no open run that is over.
StopSettles ==
  [][\A q \in Requests :
       req[q].at = "wait" /\ req'[q].at \in {"cancel", "commit"}
         => disk'[req[q].run] \in Terminal \/ faults' > faults]_vars

\* USAGE.md: one active background flow per app.
OneActiveFlow == Cardinality(Executing) <= 1

\* The records promise the life cycle of module RunLifecycle.
Lifecycle == INSTANCE RunLifecycle WITH record <- disk
LifecycleSpec == Lifecycle!Spec

\* While the app stays installed and enabled, no launch overwrites another and none
\* is lost, every run recorded as queued is settled on disk, restarts included.
Calm == ~overlapped /\ reg.installed /\ reg.enabled /\ \A r \in Runs : pc[r] # "lost"
QueuedSettles ==
  []Calm => \A r \in Runs : (disk[r] = "queued") ~> (disk[r] \in Terminal)

\* While launches neither overlap nor get lost, every stop returns.
StopReturns ==
  [](~overlapped /\ \A r \in Runs : pc[r] # "lost") =>
    \A q \in Requests : (req[q].at = "stop") ~> (req[q].at = "idle")
=============================================================================
