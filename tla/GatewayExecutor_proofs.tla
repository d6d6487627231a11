----------------------- MODULE GatewayExecutor_proofs -----------------------
(***************************************************************************)
(* Proofs about GatewayExecutor, for any number of runs, triggers,         *)
(* packages, callers and failing writes.                                   *)
(***************************************************************************)
EXTENDS GatewayExecutor, TLAPS

-----------------------------------------------------------------------------
(* Sequences without repetition, as sets of their elements.                *)

LEMMA ElementsOfEmpty == Elements(<<>>) = {} /\ NoRepeat(<<>>)
BY DEF Elements, NoRepeat

LEMMA ElementsOfAppend ==
  ASSUME NEW S, NEW s \in Seq(S), NEW e \in S, NoRepeat(s), e \notin Elements(s)
  PROVE  /\ Append(s, e) \in Seq(S)
         /\ NoRepeat(Append(s, e))
         /\ Elements(Append(s, e)) = Elements(s) \union {e}
<1>1. /\ Append(s, e) \in Seq(S) /\ Len(Append(s, e)) = Len(s) + 1
      /\ DOMAIN Append(s, e) = 1..(Len(s) + 1) /\ DOMAIN s = 1..Len(s) /\ Len(s) \in Nat
  OBVIOUS
<1>2. /\ \A i \in 1..Len(s) : Append(s, e)[i] = s[i]
      /\ Append(s, e)[Len(s) + 1] = e
  OBVIOUS
<1>3. NoRepeat(Append(s, e))
  BY <1>1, <1>2 DEF NoRepeat, Elements
<1>4. Elements(Append(s, e)) = Elements(s) \union {e}
  BY <1>1, <1>2 DEF Elements
<1>. QED  BY <1>1, <1>3, <1>4

LEMMA ElementsOfTail ==
  ASSUME NEW S, NEW s \in Seq(S), s # <<>>, NoRepeat(s)
  PROVE  /\ Head(s) \in S /\ Head(s) \in Elements(s)
         /\ Tail(s) \in Seq(S)
         /\ NoRepeat(Tail(s))
         /\ Elements(Tail(s)) = Elements(s) \ {Head(s)}
<1>1. /\ Len(s) \in Nat /\ Len(s) # 0 /\ DOMAIN s = 1..Len(s)
      /\ Head(s) = s[1] /\ Head(s) \in S
      /\ Tail(s) \in Seq(S) /\ DOMAIN Tail(s) = 1..(Len(s) - 1)
  OBVIOUS
<1>2. \A i \in 1..(Len(s) - 1) : Tail(s)[i] = s[i + 1]
  OBVIOUS
<1>3. NoRepeat(Tail(s))
  BY <1>1, <1>2 DEF NoRepeat
<1>4. Elements(Tail(s)) = Elements(s) \ {Head(s)}
  <2>1. ASSUME NEW x \in Elements(Tail(s)) PROVE x \in Elements(s) \ {Head(s)}
    BY <1>1, <1>2 DEF Elements, NoRepeat
  <2>2. ASSUME NEW x \in Elements(s), x # Head(s) PROVE x \in Elements(Tail(s))
    <3>1. PICK i \in 1..Len(s) : s[i] = x
      BY <1>1 DEF Elements
    <3>2. i - 1 \in 1..(Len(s) - 1) /\ Tail(s)[i - 1] = x
      BY <1>1, <1>2, <2>2, <3>1
    <3>. QED  BY <1>1, <3>2 DEF Elements
  <2>. QED  BY <2>1, <2>2
<1>. QED  BY <1>1, <1>3, <1>4 DEF Elements

-----------------------------------------------------------------------------
(* Type correctness.                                                       *)

LEMMA RequestTypes ==
  /\ Idle \in Request
  /\ \A x \in Request, at \in ReqPcs, r \in Runs \union {NoRun}, s \in Seq(Runs) :
       Onward(x, at, r, s) \in Request
  /\ \A f \in [Requests -> Request], r \in Runs : Resumed(f, r) \in [Requests -> Request]
<1>1. <<>> \in Seq(Runs)
  OBVIOUS
<1>2. Idle \in Request
  BY <1>1 DEF Idle, Called, Request, Cmds, ReqPcs
<1>3. \A x \in Request, at \in ReqPcs, r \in Runs \union {NoRun}, s \in Seq(Runs) :
        Onward(x, at, r, s) \in Request
  BY DEF Onward, Request
<1>4. ASSUME NEW f \in [Requests -> Request], NEW r \in Runs
      PROVE  Resumed(f, r) \in [Requests -> Request]
  <2>. SUFFICES ASSUME NEW q \in Requests
                PROVE  Resumed(f, r)[q] \in Request
    BY DEF Resumed
  <2>1. f[q] \in Request /\ f[q].queue \in Seq(Runs)
    BY DEF Request
  <2>. QED  BY <1>2, <1>3, <2>1 DEF Resumed, ReqPcs
<1>. QED  BY <1>2, <1>3, <1>4

LEMMA EntryTypes ==
  /\ \A i, e \in BOOLEAN, p \in Packages : [installed |-> i, enabled |-> e, pkg |-> p] \in Entry
  /\ \A x \in Entry : x.pkg \in Packages
BY DEF Entry

LEMMA TypeInit == Init => TypeOK
<1>. SUFFICES ASSUME Init PROVE TypeOK
  OBVIOUS
<1>1. <<>> \in Seq(Runs) /\ 0 \in 0..MaxFaults
  BY ConstantsAssumption
<1>2. reg \in Entry /\ saved \in Entry
  BY DEF Init, Entry
<1>3. req \in [Requests -> Request]
  BY RequestTypes DEF Init
<1>4. /\ disk \in [Runs -> Status] /\ status \in [Runs -> Status]
      /\ pc \in [Runs -> Pcs]
      /\ trig \in [Runs -> Triggers \union {NoTrigger}]
      /\ pkgOf \in [Runs -> Packages \union {NoPackage}]
  BY DEF Init, Status, Pcs
<1>. QED  BY <1>1, <1>2, <1>3, <1>4 DEF Init, TypeOK

\* The run's own steps.
LEMMA TypeRunStep ==
  ASSUME TypeOK, NEW r \in Runs, RunStep(r) \/ QueueUpsert(r)
  PROVE  TypeOK'
<1>. USE DEF TypeOK, regVars, mapVars, idVars, histVars, At, Record
<1>0. /\ lock # <<>> => Tail(lock) \in Seq(Runs)
      /\ Append(lock, r) \in Seq(Runs)
      /\ lock # <<>> => Append(Tail(lock), r) \in Seq(Runs)
      /\ pending # <<>> => Head(pending) \in Runs /\ Tail(pending) \in Seq(Runs)
  OBVIOUS
<1>a. (Turn(r) \/ CallUpsert(r) \/ TurnAndCall(r)) => lock' \in Seq(Runs)
  BY <1>0 DEF Turn, CallUpsert, TurnAndCall
<1>b. WriteFails => overlapped' \in BOOLEAN /\ faults' \in 0..MaxFaults
  BY ConstantsAssumption DEF WriteFails
<1>c. ReleaseIfOwner(r) => active' \in Runs \union {NoRun} /\ activeRun' \in Runs \union {NoRun}
  BY DEF ReleaseIfOwner
<1>d. Resumed(req, r) \in [Requests -> Request]
  BY RequestTypes
<1>1. CASE StartUpsert(r)
  BY <1>1, <1>a, <1>b DEF StartUpsert, Pcs, LivePc, Status
<1>2. CASE ExecuteRunning(r)
  BY <1>2, <1>a, <1>b, <1>c DEF ExecuteRunning, Pcs, LivePc, Status
<1>3. CASE ExecuteListRuns(r)
  BY <1>3, <1>c DEF ExecuteListRuns, Pcs, LivePc
<1>4. CASE ExecuteTrigger(r)
  BY <1>4, <1>a DEF ExecuteTrigger, Pcs, LivePc, Status, Terminal
<1>5. CASE ExecuteEnd(r)
  BY <1>5, <1>a, <1>b, <1>c, <1>d DEF ExecuteEnd, Pcs, LivePc
<1>6. CASE FailLaunch(r)
  BY <1>6, <1>a DEF FailLaunch, Pcs
<1>7. CASE FailSettle(r)
  BY <1>7, <1>a, <1>b, <1>d DEF FailSettle, Pcs, Status, Terminal
<1>8. CASE Cleanup(r)
  BY <1>8 DEF Cleanup, Pcs
<1>9. CASE LaunchNext(r)
  <2>1. CASE pending = <<>>
    BY <1>9, <2>1 DEF LaunchNext, Pcs
  <2>2. CASE pending # <<>>
    <3>. DEFINE n == Head(pending)
    <3>1. n \in Runs /\ pending' = Tail(pending) /\ Tail(pending) \in Seq(Runs)
      BY <1>0, <1>9, <2>2 DEF LaunchNext
    <3>2. CASE reg.installed /\ reg.enabled
      BY <1>9, <2>2, <3>1, <3>2 DEF LaunchNext, Pcs, LivePc, Entry
    <3>3. CASE ~(reg.installed /\ reg.enabled)
      BY <1>9, <2>2, <3>1, <3>3 DEF LaunchNext, Pcs
    <3>. QED  BY <3>2, <3>3
  <2>. QED  BY <2>1, <2>2
<1>10. CASE LaunchFetch(r)
  BY <1>10, <1>a DEF LaunchFetch, Pcs, LivePc
<1>11. CASE LaunchDrop(r)
  BY <1>11, <1>a DEF LaunchDrop, Pcs
<1>12. CASE DropUpsert(r)
  BY <1>12, <1>a, <1>b, <1>d DEF DropUpsert, Pcs, Status, Terminal
<1>13. CASE QueueUpsert(r)
  BY <1>13, <1>a, <1>b DEF QueueUpsert, Status
<1>. QED
  BY <1>1, <1>2, <1>3, <1>4, <1>5, <1>6, <1>7, <1>8, <1>9, <1>10, <1>11, <1>12, <1>13
  DEF RunStep

LEMMA TypeNewRun ==
  ASSUME TypeOK, NEW r \in Runs, NEW t \in Triggers, NewRun(r, t)
  PROVE  /\ trig' \in [Runs -> Triggers \union {NoTrigger}]
         /\ pkgOf' \in [Runs -> Packages \union {NoPackage}]
         /\ lock' \in Seq(Runs) /\ pending' \in Seq(Runs)
         /\ pc' \in [Runs -> Pcs] /\ enq' \subseteq Runs
         /\ active' \in Runs \union {NoRun} /\ activeRun' \in Runs \union {NoRun}
<1>. USE DEF TypeOK
<1>1. /\ trig' \in [Runs -> Triggers \union {NoTrigger}]
      /\ pkgOf' \in [Runs -> Packages \union {NoPackage}]
  BY DEF NewRun, Entry
<1>2. lock' \in Seq(Runs)
  BY DEF NewRun, CallUpsert
<1>3. CASE active = NoRun
  <2>1. pending' = pending /\ enq' = enq /\ pc' = [pc EXCEPT ![r] = "starting"]
        /\ active' = r /\ activeRun' = activeRun
    BY <1>3 DEF NewRun, At
  <2>2. pc' \in [Runs -> Pcs] /\ pending' \in Seq(Runs) /\ enq' \subseteq Runs
    BY <2>1 DEF Pcs, LivePc
  <2>. QED  BY <1>1, <1>2, <2>1, <2>2
<1>4. CASE active # NoRun
  <2>1. pending' = Append(pending, r) /\ enq' = enq \union {r}
        /\ pc' = [pc EXCEPT ![r] = "pending"] /\ active' = active /\ activeRun' = activeRun
    BY <1>4 DEF NewRun, At
  <2>2. pending' \in Seq(Runs)
    BY <2>1
  <2>3. pc' \in [Runs -> Pcs] /\ enq' \subseteq Runs
    BY <2>1 DEF Pcs
  <2>. QED  BY <1>1, <1>2, <2>1, <2>2, <2>3
<1>. QED  BY <1>3, <1>4

LEMMA TypeRequestStep ==
  ASSUME TypeOK, NEW q \in Requests, RequestStep(q)
  PROVE  TypeOK'
<1>. USE DEF TypeOK, regVars, mapVars, runVars, idVars, histVars, Become, Goto
<1>0. /\ req[q] \in Request /\ req[q].queue \in Seq(Runs) /\ req[q].run \in Runs \union {NoRun}
      /\ req[q].cmd = "install" => req[q].pkg \in Packages
      /\ \A at \in ReqPcs : Onward(req[q], at, req[q].run, req[q].queue) \in Request
      /\ Idle \in Request
  BY RequestTypes DEF Request
<1>a. CancelThrows(q) => /\ pc' \in [Runs -> Pcs] /\ req' \in [Requests -> Request]
  BY <1>0 DEF CancelThrows, Pcs
<1>1. CASE InstallInspect(q)
  BY <1>0, <1>1 DEF InstallInspect, ReqPcs
<1>2. CASE StopActive(q)
  <2>1. Onward(req[q], "wait", activeRun, req[q].queue) \in Request
    BY <1>0, RequestTypes DEF ReqPcs
  <2>2. req' \in [Requests -> Request]
    BY <1>0, <1>2, <2>1 DEF StopActive, ReqPcs
  <2>3. aborted' \subseteq Runs
    BY <1>2 DEF StopActive
  <2>. QED  BY <1>2, <2>2, <2>3 DEF StopActive
<1>3. CASE CancelPending(q)
  <2>1. Onward(req[q], "drain", NoRun, pending) \in Request
    BY <1>0, RequestTypes DEF ReqPcs
  <2>2. <<>> \in Seq(Runs)
    OBVIOUS
  <2>3. pc' \in [Runs -> Pcs]
    BY <1>3 DEF CancelPending, Pcs
  <2>. QED  BY <1>3, <2>1, <2>2, <2>3 DEF CancelPending
<1>4. CASE CancelRead(q)
  <2>. DEFINE r == Head(req[q].queue)
  <2>1. r \in Runs
    BY <1>0, <1>4 DEF CancelRead
  <2>2. lock' \in Seq(Runs)
    <3>1. Append(lock, r) \in Seq(Runs)
      BY <2>1
    <3>. QED  BY <1>4, <3>1 DEF CancelRead, CallUpsert
  <2>3. pc' \in [Runs -> Pcs] /\ req' \in [Requests -> Request]
    BY <1>4, <1>a, <2>1 DEF CancelRead, At, Pcs
  <2>. QED  BY <1>4, <2>2, <2>3 DEF CancelRead
<1>5. CASE CancelUpsert(q)
  <2>. DEFINE r == Head(req[q].queue)
              f == [req EXCEPT ![q] = Onward(@, "drain", NoRun, Tail(@.queue))]
  <2>1. r \in Runs /\ Tail(req[q].queue) \in Seq(Runs)
    BY <1>0, <1>5 DEF CancelUpsert
  <2>2. lock' \in Seq(Runs)
    BY <1>5, <2>1 DEF CancelUpsert, Turn
  <2>3. f \in [Requests -> Request]
    BY <1>0, <2>1, RequestTypes DEF ReqPcs
  <2>4. Resumed(f, r) \in [Requests -> Request]
    BY <2>1, <2>3, RequestTypes
  <2>5. CASE WriteFails /\ CancelThrows(q) /\ UNCHANGED disk
    BY <1>5, <1>a, <2>2, <2>5, ConstantsAssumption DEF CancelUpsert, WriteFails
  <2>6. CASE Record(r, "cancelled") /\ At(r, "done") /\ req' = Resumed(f, r) /\ UNCHANGED histVars
    <3>1. /\ pc' \in [Runs -> Pcs] /\ disk' \in [Runs -> Status]
      BY <2>1, <2>6 DEF At, Record, Pcs, Status, Terminal
    <3>. QED  BY <1>5, <2>2, <2>4, <2>6, <3>1 DEF CancelUpsert
  <2>. QED  BY <1>5, <2>5, <2>6 DEF CancelUpsert
<1>6. CASE CancelDone(q)
  BY <1>0, <1>6 DEF CancelDone, ReqPcs
<1>7. CASE Commit(q)
  <2>1. reg' \in Entry /\ saved' \in Entry /\ gw' \in {"up", "disposing", "disposed", "down"}
    <3>1. CASE req[q].cmd = "install"
      <4>1. PICK on \in BOOLEAN : reg' = [installed |-> TRUE, enabled |-> on, pkg |-> req[q].pkg]
        BY <1>7, <3>1 DEF Commit
      <4>2. reg' \in Entry
        BY <1>0, <3>1, <4>1, EntryTypes
      <4>3. saved' = reg' /\ gw' = gw
        BY <1>7, <3>1 DEF Commit
      <4>. QED  BY <4>2, <4>3
    <3>2. CASE req[q].cmd = "uninstall"
      <4>1. /\ reg' = [installed |-> FALSE, enabled |-> FALSE, pkg |-> reg.pkg]
            /\ saved' = reg' /\ gw' = gw
        BY <1>7, <3>2 DEF Commit
      <4>2. reg' \in Entry
        BY <4>1, EntryTypes
      <4>. QED  BY <4>1, <4>2
    <3>3. CASE req[q].cmd \notin {"install", "uninstall"}
      BY <1>7, <3>3 DEF Commit
    <3>. QED  BY <3>1, <3>2, <3>3
  <2>2. req' \in [Requests -> Request]
    BY <1>0, <1>7 DEF Commit
  <2>. QED  BY <1>7, <2>1, <2>2 DEF Commit
<1>8. CASE RunNowTicket(q)
  BY <1>0, <1>8 DEF RunNowTicket, ReqPcs
<1>9. CASE RunNowRead(q)
  BY <1>0, <1>9 DEF RunNowRead, ReqPcs
<1>10. CASE RunNowJoin(q)
  BY <1>0, <1>10 DEF RunNowJoin, ReqPcs
<1>. QED
  BY <1>1, <1>2, <1>3, <1>4, <1>5, <1>6, <1>7, <1>8, <1>9, <1>10 DEF RequestStep

LEMMA TypeCall ==
  ASSUME TypeOK, NEW q \in Requests, Call(q)
  PROVE  TypeOK'
<1>. USE DEF TypeOK, regVars, mapVars, runVars, idVars, histVars, Become
<1>0. \A cmd \in {"disable", "uninstall", "dispose", "runNow"}, at \in ReqPcs, r \in Runs \union {NoRun} :
        Called(cmd, at, r, NoPackage, NoPackage) \in Request
  <2>1. <<>> \in Seq(Runs)
    OBVIOUS
  <2>. QED  BY <2>1 DEF Called, Request, Cmds
<1>1. CASE Enable(q)
  BY <1>1 DEF Enable, Entry
<1>2. CASE Disable(q)
  BY <1>0, <1>2 DEF Disable, Entry, ReqPcs
<1>3. CASE Uninstall(q)
  BY <1>0, <1>3 DEF Uninstall, ReqPcs
<1>4. CASE Dispose(q)
  BY <1>0, <1>4 DEF Dispose, ReqPcs
<1>5. ASSUME NEW p \in Packages, Install(q, p) PROVE TypeOK'
  <2>1. <<>> \in Seq(Runs) /\ reg.pkg \in Packages
    BY DEF Entry
  <2>2. Called("install", "inspect", NoRun, p, IF reg.installed THEN reg.pkg ELSE NoPackage) \in Request
    BY <2>1 DEF Called, Request, Cmds, ReqPcs
  <2>. QED  BY <1>5, <2>2 DEF Install
<1>6. ASSUME NEW t \in Triggers, RunNow(q, t) PROVE TypeOK'
  <2>1. ASSUME NEW r \in Runs, NewRun(r, t),
               Become(q, Called("runNow", "ticket", r, NoPackage, NoPackage))
        PROVE  TypeOK'
    <3>1. req' \in [Requests -> Request]
      BY <1>0, <2>1 DEF ReqPcs
    <3>. QED  BY <1>6, <2>1, <3>1, TypeNewRun DEF RunNow
  <2>2. ASSUME NEW i \in QueuedFor(t), UNCHANGED <<mapVars, lock, pc, enq, idVars>>,
               Become(q, Called("runNow", "read", pending[i], NoPackage, NoPackage))
        PROVE  TypeOK'
    <3>1. pending[i] \in Runs
      BY <2>2 DEF QueuedFor
    <3>2. req' \in [Requests -> Request]
      BY <1>0, <2>2, <3>1 DEF ReqPcs
    <3>. QED  BY <1>6, <2>2, <3>2 DEF RunNow
  <2>. QED  BY <1>6, <2>1, <2>2 DEF RunNow
<1>. QED  BY <1>1, <1>2, <1>3, <1>4, <1>5, <1>6 DEF Call

LEMMA TypeStep == TypeOK /\ [Next]_vars => TypeOK'
<1>. SUFFICES ASSUME TypeOK, [Next]_vars PROVE TypeOK'
  OBVIOUS
<1>1. CASE TickBegin
  BY <1>1 DEF TypeOK, TickBegin, runVars, mapVars, idVars, histVars
<1>2. CASE TickFire
  <2>1. ASSUME NEW r \in Runs, NEW t \in Triggers, NewRun(r, t) PROVE TypeOK'
    BY <1>2, <2>1, TypeNewRun DEF TypeOK, TickFire, histVars
  <2>2. CASE UNCHANGED <<mapVars, lock, pc, enq, idVars>>
    BY <1>2, <2>2 DEF TypeOK, TickFire, mapVars, idVars, histVars
  <2>. QED  BY <1>2, <2>1, <2>2 DEF TickFire
<1>3. CASE Crash
  <2>1. <<>> \in Seq(Runs) /\ req' \in [Requests -> Request]
    BY <1>3, RequestTypes DEF Crash
  <2>. QED  BY <1>3, <2>1 DEF TypeOK, Crash, Pcs, Status, idVars
<1>4. CASE Restart
  <2>1. Interrupted(disk) \in [Runs -> Status]
    BY DEF TypeOK, Interrupted, Status, Terminal
  <2>. QED  BY <1>4, <2>1 DEF TypeOK, Restart, mapVars, idVars, histVars
<1>5. CASE UNCHANGED vars
  BY <1>5 DEF TypeOK, vars, regVars, runVars, mapVars, idVars, histVars
<1>. QED
  BY <1>1, <1>2, <1>3, <1>4, <1>5, TypeRunStep, TypeRequestStep, TypeCall DEF Next

\* The state is well typed in every behaviour of the executor.
THEOREM TypeCorrect == Spec => []TypeOK
BY TypeInit, TypeStep, PTL DEF Spec

-----------------------------------------------------------------------------
(* One flow at a time, as long as no launch replaced a live entry.  What    *)
(* SoleFlow leaves open is who may set the run id: a run that is starting   *)
(* has not, and nobody else owns the app.                                   *)

SoleInv ==
  ~overlapped => /\ \A r \in Live : active = r
                 /\ activeRun # NoRun => activeRun = active
                 /\ \A r \in Runs : pc[r] = "starting" => activeRun = NoRun

\* A step that leaves the maps alone and lets no run become live.
LEMMA SoleUnchanged ==
  ASSUME TypeOK, SoleInv, UNCHANGED <<active, activeRun, overlapped>>,
         \A r \in Runs : pc'[r] \in LivePc => pc[r] \in LivePc,
         \A r \in Runs : pc'[r] = "starting" => pc[r] = "starting"
  PROVE  SoleInv'
BY DEF SoleInv, Live

LEMMA SoleRunStep ==
  ASSUME TypeOK, SoleInv, NEW r \in Runs, RunStep(r) \/ QueueUpsert(r)
  PROVE  SoleInv'
<1>. USE ConstantsAssumption DEF TypeOK, LivePc, At, mapVars, histVars
<1>1. CASE StartUpsert(r)
  BY <1>1 DEF StartUpsert, SoleInv, Live, WriteFails
<1>2. CASE ExecuteRunning(r)
  BY <1>2 DEF ExecuteRunning, SoleInv, Live, WriteFails, ReleaseIfOwner
<1>3. CASE ExecuteListRuns(r)
  BY <1>3 DEF ExecuteListRuns, SoleInv, Live, ReleaseIfOwner
<1>4. CASE ExecuteTrigger(r)
  BY <1>4, SoleUnchanged DEF ExecuteTrigger
<1>5. CASE ExecuteEnd(r)
  BY <1>5 DEF ExecuteEnd, SoleInv, Live, WriteFails, ReleaseIfOwner
<1>6. CASE FailLaunch(r)
  BY <1>6, SoleUnchanged DEF FailLaunch
<1>7. CASE FailSettle(r)
  BY <1>7, SoleUnchanged DEF FailSettle, WriteFails
<1>8. CASE Cleanup(r)
  BY <1>8, SoleUnchanged DEF Cleanup
<1>9. CASE LaunchNext(r)
  <2>1. CASE pending = <<>>
    BY <1>9, <2>1, SoleUnchanged DEF LaunchNext
  <2>2. CASE pending # <<>>
    <3>. DEFINE n == Head(pending)
    <3>1. n \in Runs
      BY <2>2
    <3>2. CASE reg.installed /\ reg.enabled
      <4>1. /\ active' = n /\ activeRun' = n
            /\ pc' = [pc EXCEPT ![r] = "done", ![n] = "fetching"]
            /\ overlapped' = (overlapped \/ active # NoRun)
        BY <1>9, <2>2, <3>2 DEF LaunchNext
      <4>2. ASSUME ~overlapped' PROVE \A x \in Runs : pc[x] \notin LivePc
        BY <4>1, <4>2 DEF SoleInv, Live
      <4>3. ASSUME ~overlapped', NEW x \in Runs, x # n
            PROVE pc'[x] \notin LivePc
        BY <3>1, <4>1, <4>2, <4>3
      <4>4. pc'[n] = "fetching"
        BY <3>1, <4>1
      <4>. QED  BY <4>1, <4>3, <4>4 DEF SoleInv, Live
    <3>3. CASE ~(reg.installed /\ reg.enabled)
      <4>1. /\ pc' = [pc EXCEPT ![r] = "done", ![n] = "dropping"]
            /\ UNCHANGED <<active, activeRun, overlapped>>
        BY <1>9, <2>2, <3>3 DEF LaunchNext
      <4>. QED  BY <3>1, <4>1, SoleUnchanged
    <3>. QED  BY <3>2, <3>3
  <2>. QED  BY <2>1, <2>2
<1>10. CASE LaunchFetch(r)
  BY <1>10, SoleUnchanged DEF LaunchFetch
<1>11. CASE LaunchDrop(r)
  BY <1>11, SoleUnchanged DEF LaunchDrop
<1>12. CASE DropUpsert(r)
  BY <1>12, SoleUnchanged DEF DropUpsert, WriteFails
<1>13. CASE QueueUpsert(r)
  BY <1>13, SoleUnchanged DEF QueueUpsert, WriteFails
<1>. QED
  BY <1>1, <1>2, <1>3, <1>4, <1>5, <1>6, <1>7, <1>8, <1>9, <1>10, <1>11, <1>12, <1>13
  DEF RunStep

LEMMA SoleNewRun ==
  ASSUME TypeOK, SoleInv, NEW r \in Runs, NEW t \in Triggers, NewRun(r, t), UNCHANGED overlapped
  PROVE  SoleInv'
<1>1. CASE active = NoRun
  BY <1>1, ConstantsAssumption DEF TypeOK, LivePc, NewRun, At, SoleInv, Live
<1>2. CASE active # NoRun
  BY <1>2, SoleUnchanged DEF TypeOK, LivePc, NewRun, At
<1>. QED  BY <1>1, <1>2

LEMMA SoleRequest ==
  ASSUME TypeOK, SoleInv, NEW q \in Requests, RequestStep(q) \/ Call(q)
  PROVE  SoleInv'
<1>. USE DEF TypeOK, LivePc, At, runVars, mapVars, histVars
<1>1. CASE UNCHANGED <<pc, active, activeRun, overlapped>>
  BY <1>1, SoleUnchanged
<1>2. CASE CancelPending(q)
  BY <1>2, SoleUnchanged DEF CancelPending
<1>3. CASE CancelRead(q)
  BY <1>3, SoleUnchanged DEF CancelRead, CancelThrows
<1>4. CASE CancelUpsert(q)
  BY <1>4, SoleUnchanged DEF CancelUpsert, CancelThrows, WriteFails
<1>5. ASSUME NEW t \in Triggers, RunNow(q, t) PROVE SoleInv'
  BY <1>1, <1>5, SoleNewRun DEF RunNow
<1>. QED
  BY <1>1, <1>2, <1>3, <1>4, <1>5
  DEF RequestStep, Call, InstallInspect, StopActive, CancelDone, Commit, RunNowTicket,
      RunNowRead, RunNowJoin, Enable, Disable, Uninstall, Dispose, Install

LEMMA SoleStep == TypeOK /\ SoleInv /\ [Next]_vars => SoleInv'
<1>. SUFFICES ASSUME TypeOK, SoleInv, [Next]_vars PROVE SoleInv'
  OBVIOUS
<1>1. CASE TickBegin \/ Restart \/ UNCHANGED vars
  <2>1. UNCHANGED <<pc, active, activeRun, overlapped>>
    BY <1>1 DEF TickBegin, Restart, vars, runVars, mapVars, histVars
  <2>. QED  BY <2>1, SoleUnchanged
<1>2. CASE TickFire
  <2>1. ASSUME NEW r \in Runs, NEW t \in Triggers, NewRun(r, t) PROVE SoleInv'
    BY <1>2, <2>1, SoleNewRun DEF TickFire, histVars
  <2>2. CASE UNCHANGED <<mapVars, lock, pc, enq, idVars>>
    BY <1>2, <2>2, SoleUnchanged DEF TickFire, mapVars, histVars
  <2>. QED  BY <1>2, <2>1, <2>2 DEF TickFire
<1>3. CASE Crash
  BY <1>3 DEF Crash, SoleInv, Live, LivePc
<1>. QED
  BY <1>1, <1>2, <1>3, SoleRunStep, SoleRequest DEF Next

\* For any number of runs: unless launchNext replaced a live entry, the app has one
\* flow, and the run id stopActive waits for is that flow's.
THEOREM OneFlowUnlessOverlapped == Spec => []SoleFlow
<1>1. Init => SoleInv
  BY DEF Init, SoleInv, Live, LivePc
<1>2. SoleInv => SoleFlow
  BY DEF SoleInv, SoleFlow
<1>. QED  BY <1>1, <1>2, TypeInit, TypeStep, SoleStep, PTL DEF Spec

-----------------------------------------------------------------------------
(* A queued run has one owner.  Inductive together with the fact that only  *)
(* a caller inside cancelPending holds a queue.                             *)

Queueing == {"pending", "draining", "cancelling"}
Held == {"draining", "cancelling"}

QueueInv ==
  /\ QueueOwned
  /\ \A q \in Requests : req[q].at # "drain" => req[q].queue = <<>>

\* Completing a run takes no queue from anybody.
LEMMA ResumedKeepsQueues ==
  ASSUME NEW f \in [Requests -> Request],
         \A q \in Requests : f[q].at # "drain" => f[q].queue = <<>>,
         NEW r \in Runs
  PROVE  \A q \in Requests : /\ Resumed(f, r)[q].queue = f[q].queue
                             /\ Resumed(f, r)[q].at = "drain" <=> f[q].at = "drain"
BY DEF Resumed, Onward, Idle, Called

\* A step that moves no run into or out of a queue.
LEMMA QueueUnchanged ==
  ASSUME TypeOK, QueueInv, UNCHANGED <<pending, trig>>,
         \A r \in Runs : pc'[r] = "pending" <=> pc[r] = "pending",
         \A r \in Runs : pc'[r] \in Held <=> pc[r] \in Held,
         \A q \in Requests : /\ req'[q].queue = req[q].queue
                             /\ req'[q].at # "drain" => req'[q].queue = <<>>
  PROVE  QueueInv'
BY DEF QueueInv, QueueOwned, Held

\* A step that changes the pending map and leaves the callers' queues alone.
LEMMA PendingChanged ==
  ASSUME TypeOK, QueueInv,
         NoRepeat(pending'),
         \A r \in Runs : r \in Elements(pending') <=> pc'[r] = "pending",
         Elements(pending') \subseteq Runs,
         \A r, s \in Elements(pending') : r # s => trig'[r] # trig'[s],
         \A r \in Runs : pc'[r] \in Held <=> pc[r] \in Held,
         \A q \in Requests : /\ req'[q].queue = req[q].queue
                             /\ req'[q].at # "drain" => req'[q].queue = <<>>
  PROVE  QueueInv'
<1>1. Elements(pending') = {r \in Runs : pc'[r] = "pending"}
  OBVIOUS
<1>2. \A q \in Requests : NoRepeat(req'[q].queue)
  BY DEF QueueInv, QueueOwned
<1>3. \A q1, q2 \in Requests :
        q1 # q2 => Elements(req'[q1].queue) \intersect Elements(req'[q2].queue) = {}
  BY DEF QueueInv, QueueOwned
<1>4. \A r \in Runs : pc'[r] \in {"draining", "cancelling"} <=>
                        \E q \in Requests : r \in Elements(req'[q].queue)
  BY DEF QueueInv, QueueOwned, Held
<1>. QED  BY <1>1, <1>2, <1>3, <1>4 DEF QueueInv, QueueOwned

LEMMA QueueRunStep ==
  ASSUME TypeOK, QueueInv, NEW r \in Runs, RunStep(r) \/ QueueUpsert(r)
  PROVE  QueueInv'
<1>. USE DEF TypeOK, At, mapVars, idVars, Held
<1>a. \A q \in Requests : /\ Resumed(req, r)[q].queue = req[q].queue
                          /\ Resumed(req, r)[q].at = "drain" <=> req[q].at = "drain"
  BY ResumedKeepsQueues DEF QueueInv
<1>b. \A q \in Requests : /\ Resumed(req, r)[q].queue = req[q].queue
                          /\ Resumed(req, r)[q].at # "drain" => Resumed(req, r)[q].queue = <<>>
  BY <1>a DEF QueueInv
<1>c. \A q \in Requests : req[q].at # "drain" => req[q].queue = <<>>
  BY DEF QueueInv
<1>1. CASE StartUpsert(r)
  BY <1>1, <1>c, QueueUnchanged DEF StartUpsert
<1>2. CASE ExecuteRunning(r)
  BY <1>2, <1>c, QueueUnchanged DEF ExecuteRunning
<1>3. CASE ExecuteListRuns(r)
  BY <1>3, <1>c, QueueUnchanged DEF ExecuteListRuns
<1>4. CASE ExecuteTrigger(r)
  BY <1>4, <1>c, QueueUnchanged DEF ExecuteTrigger
<1>5. CASE ExecuteEnd(r)
  BY <1>5, <1>b, <1>c, QueueUnchanged DEF ExecuteEnd
<1>6. CASE FailLaunch(r)
  BY <1>6, <1>c, QueueUnchanged DEF FailLaunch
<1>7. CASE FailSettle(r)
  BY <1>7, <1>b, QueueUnchanged DEF FailSettle
<1>8. CASE Cleanup(r)
  BY <1>8, <1>c, QueueUnchanged DEF Cleanup
<1>9. CASE LaunchNext(r)
  <2>1. CASE pending = <<>>
    BY <1>9, <1>c, <2>1, QueueUnchanged DEF LaunchNext
  <2>2. CASE pending # <<>>
    <3>. DEFINE n == Head(pending)
    <3>1. /\ n \in Runs /\ n \in Elements(pending) /\ NoRepeat(Tail(pending))
          /\ Elements(Tail(pending)) = Elements(pending) \ {n}
      BY <2>2, ElementsOfTail DEF QueueInv, QueueOwned
    <3>2. pc[n] = "pending" /\ pc[r] = "swept"
      BY <1>9, <3>1 DEF LaunchNext, QueueInv, QueueOwned
    <3>3. PICK w \in {"fetching", "dropping"} : pc' = [pc EXCEPT ![r] = "done", ![n] = w]
      BY <1>9, <2>2 DEF LaunchNext
    <3>4. pending' = Tail(pending) /\ UNCHANGED <<trig, req>>
      BY <1>9, <2>2 DEF LaunchNext
    <3>5. \A x \in Runs : /\ pc'[x] = "pending" <=> pc[x] = "pending" /\ x # n
                          /\ pc'[x] \in Held <=> pc[x] \in Held
      BY <3>1, <3>2, <3>3
    <3>6. \A x \in Runs : x \in Elements(pending') <=> pc'[x] = "pending"
      BY <3>1, <3>4, <3>5 DEF QueueInv, QueueOwned
    <3>7. \A x, y \in Elements(pending') : x # y => trig'[x] # trig'[y]
      BY <3>1, <3>4 DEF QueueInv, QueueOwned
    <3>8. NoRepeat(pending') /\ Elements(pending') \subseteq Runs
      BY <3>1, <3>4 DEF QueueInv, QueueOwned
    <3>9. \A q \in Requests : /\ req'[q].queue = req[q].queue
                              /\ req'[q].at # "drain" => req'[q].queue = <<>>
      BY <3>4, <1>c
    <3>. QED  BY <3>5, <3>6, <3>7, <3>8, <3>9, PendingChanged
  <2>. QED  BY <2>1, <2>2
<1>10. CASE LaunchFetch(r)
  BY <1>10, <1>c, QueueUnchanged DEF LaunchFetch
<1>11. CASE LaunchDrop(r)
  BY <1>11, <1>c, QueueUnchanged DEF LaunchDrop
<1>12. CASE DropUpsert(r)
  BY <1>12, <1>b, <1>c, QueueUnchanged DEF DropUpsert
<1>13. CASE QueueUpsert(r)
  BY <1>13, <1>c, QueueUnchanged DEF QueueUpsert
<1>. QED
  BY <1>1, <1>2, <1>3, <1>4, <1>5, <1>6, <1>7, <1>8, <1>9, <1>10, <1>11, <1>12, <1>13
  DEF RunStep

LEMMA QueueNewRun ==
  ASSUME TypeOK, QueueInv, NEW r \in Runs, NEW t \in Triggers, NewRun(r, t),
         \A q \in Requests : /\ req'[q].queue = req[q].queue
                             /\ req'[q].at # "drain" => req'[q].queue = <<>>
  PROVE  QueueInv'
<1>. USE DEF TypeOK, At, Held
<1>0. pc[r] = "new" /\ r \notin Elements(pending) /\ trig' = [trig EXCEPT ![r] = t]
  BY DEF NewRun, QueueInv, QueueOwned
<1>1. CASE active = NoRun
  <2>1. pending' = pending /\ pc' = [pc EXCEPT ![r] = "starting"]
    BY <1>1 DEF NewRun
  <2>2. \A x \in Elements(pending) : trig'[x] = trig[x]
    BY <1>0 DEF QueueInv, QueueOwned
  <2>3. \A x \in Runs : /\ pc'[x] = "pending" <=> pc[x] = "pending"
                        /\ pc'[x] \in Held <=> pc[x] \in Held
    BY <1>0, <2>1
  <2>4. \A x \in Runs : x \in Elements(pending') <=> pc'[x] = "pending"
    BY <2>1, <2>3 DEF QueueInv, QueueOwned
  <2>5. \A x, y \in Elements(pending') : x # y => trig'[x] # trig'[y]
    BY <2>1, <2>2 DEF QueueInv, QueueOwned
  <2>6. NoRepeat(pending') /\ Elements(pending') \subseteq Runs
    BY <2>1 DEF QueueInv, QueueOwned
  <2>. QED  BY <2>3, <2>4, <2>5, <2>6, PendingChanged
<1>2. CASE active # NoRun
  <2>1. /\ QueuedFor(t) = {} /\ pending' = Append(pending, r)
        /\ pc' = [pc EXCEPT ![r] = "pending"]
    BY <1>2 DEF NewRun
  <2>2. /\ NoRepeat(pending') /\ Elements(pending') = Elements(pending) \union {r}
    BY <1>0, <2>1, ElementsOfAppend DEF QueueInv, QueueOwned
  <2>3. \A x \in Elements(pending) : trig[x] # t /\ x # r /\ x \in Runs
    BY <1>0, <2>1 DEF QueuedFor, Elements
  <2>4. \A x, y \in Elements(pending') : x # y => trig'[x] # trig'[y]
    BY <1>0, <2>2, <2>3 DEF QueueInv, QueueOwned
  <2>5. \A x \in Runs : /\ pc'[x] = "pending" <=> pc[x] = "pending" \/ x = r
                        /\ pc'[x] \in Held <=> pc[x] \in Held
    BY <1>0, <2>1
  <2>6. \A x \in Runs : x \in Elements(pending') <=> pc'[x] = "pending"
    BY <2>2, <2>5 DEF QueueInv, QueueOwned
  <2>7. Elements(pending') \subseteq Runs
    BY <2>2 DEF QueueInv, QueueOwned
  <2>. QED  BY <2>2, <2>4, <2>5, <2>6, <2>7, PendingChanged
<1>. QED  BY <1>1, <1>2

\* A step that changes one caller's queue and leaves the map alone.
LEMMA QueueChanged ==
  ASSUME TypeOK, QueueInv, UNCHANGED <<pending, trig>>, NEW q \in Requests,
         \A r \in Runs : pc'[r] = "pending" <=> pc[r] = "pending",
         \A x \in Requests : x # q => req'[x].queue = req[x].queue,
         \A x \in Requests : req'[x].at # "drain" => req'[x].queue = <<>>,
         NoRepeat(req'[q].queue),
         Elements(req'[q].queue) \subseteq Elements(req[q].queue),
         \A r \in Runs : pc'[r] \in Held <=>
            pc[r] \in Held /\ (r \in Elements(req[q].queue) => r \in Elements(req'[q].queue))
  PROVE  QueueInv'
<1>1. \A x \in Requests : NoRepeat(req'[x].queue)
  BY DEF QueueInv, QueueOwned
<1>2. \A x, y \in Requests :
        x # y => Elements(req'[x].queue) \intersect Elements(req'[y].queue) = {}
  BY DEF QueueInv, QueueOwned
<1>3. ASSUME NEW r \in Runs
      PROVE  pc'[r] \in Held <=> \E x \in Requests : r \in Elements(req'[x].queue)
  <2>1. pc[r] \in Held <=> \E x \in Requests : r \in Elements(req[x].queue)
    BY DEF QueueInv, QueueOwned, Held
  <2>2. ASSUME pc'[r] \in Held PROVE \E x \in Requests : r \in Elements(req'[x].queue)
    BY <2>1, <2>2
  <2>3. ASSUME NEW x \in Requests, r \in Elements(req'[x].queue) PROVE pc'[r] \in Held
    <3>1. CASE x = q
      BY <2>1, <2>3, <3>1
    <3>2. CASE x # q
      <4>1. r \in Elements(req[x].queue) /\ r \notin Elements(req[q].queue)
        BY <2>3, <3>2 DEF QueueInv, QueueOwned
      <4>. QED  BY <2>1, <4>1
    <3>. QED  BY <3>1, <3>2
  <2>. QED  BY <2>2, <2>3
<1>4. /\ NoRepeat(pending') /\ Elements(pending') = {r \in Runs : pc'[r] = "pending"}
      /\ \A r, s \in Elements(pending') : r # s => trig'[r] # trig'[s]
  BY DEF QueueInv, QueueOwned
<1>. QED  BY <1>1, <1>2, <1>3, <1>4 DEF QueueInv, QueueOwned, Held

\* cancelPending gives up: nobody holds the queue any more.
LEMMA QueueThrows ==
  ASSUME TypeOK, QueueInv, UNCHANGED <<pending, trig>>, NEW q \in Requests, CancelThrows(q)
  PROVE  QueueInv'
<1>1. req' = [req EXCEPT ![q] = Idle] /\ Idle.queue = <<>>
  BY DEF CancelThrows, Become, Idle, Called
<1>2. \A r \in Runs : pc'[r] = IF r \in Elements(req[q].queue) THEN "lost" ELSE pc[r]
  BY DEF CancelThrows, Elements
<1>3. \A r \in Elements(req[q].queue) : r \in Runs => pc[r] \in Held
  BY DEF QueueInv, QueueOwned, Held
<1>4. /\ req'[q].queue = <<>>
      /\ \A x \in Requests : x # q => req'[x] = req[x]
  BY <1>1 DEF TypeOK
<1>5. NoRepeat(req'[q].queue) /\ Elements(req'[q].queue) = {}
  BY <1>4, ElementsOfEmpty DEF NoRepeat
<1>6. \A r \in Runs : pc'[r] = "pending" <=> pc[r] = "pending"
  BY <1>2, <1>3 DEF Held
<1>7. \A r \in Runs : pc'[r] \in Held <=> pc[r] \in Held /\ r \notin Elements(req[q].queue)
  BY <1>2, <1>3 DEF Held
<1>8. \A x \in Requests : req'[x].at # "drain" => req'[x].queue = <<>>
  BY <1>4 DEF QueueInv
<1>. QED  BY <1>4, <1>5, <1>6, <1>7, <1>8, QueueChanged

\* A call whose queue is empty before and after.
LEMMA QueueIdle ==
  ASSUME TypeOK, QueueInv, UNCHANGED <<pc, pending, trig>>, NEW q \in Requests, NEW x,
         req[q].queue = <<>>, x.queue = <<>>, Become(q, x)
  PROVE  QueueInv'
<1>1. \A y \in Requests : /\ req'[y].queue = req[y].queue
                          /\ req'[y].at # "drain" => req'[y].queue = <<>>
  BY DEF TypeOK, Become, QueueInv
<1>. QED  BY <1>1, QueueUnchanged

LEMMA QueueCancel ==
  ASSUME TypeOK, QueueInv, NEW q \in Requests, CancelPending(q)
  PROVE  QueueInv'
<1>1. /\ req[q].queue = <<>> /\ pending' = <<>> /\ trig' = trig
      /\ Become(q, Onward(req[q], "drain", NoRun, pending))
      /\ pc' = [r \in Runs |-> IF pc[r] = "pending" THEN "draining" ELSE pc[r]]
  BY DEF CancelPending, QueueInv, idVars
<1>2. /\ req'[q].queue = pending /\ req'[q].at = "drain"
      /\ \A x \in Requests : x # q => req'[x] = req[x]
  BY <1>1 DEF TypeOK, Become, Onward
<1>3. /\ Elements(req[q].queue) = {} /\ Elements(pending') = {} /\ NoRepeat(pending')
  BY <1>1, ElementsOfEmpty DEF NoRepeat
<1>4. \A r \in Runs : /\ pc'[r] # "pending"
                      /\ pc'[r] \in Held <=> pc[r] \in Held \/ pc[r] = "pending"
  BY <1>1 DEF Held
<1>5. NoRepeat(pending) /\ \A r \in Runs : r \in Elements(pending) <=> pc[r] = "pending"
  BY DEF QueueInv, QueueOwned
<1>6. \A x \in Requests : NoRepeat(req'[x].queue)
  BY <1>2, <1>5 DEF QueueInv, QueueOwned
<1>7. \A x \in Requests : \A r \in Elements(req[x].queue) : r \notin Elements(pending)
  BY DEF QueueInv, QueueOwned
<1>8. \A x, y \in Requests :
        x # y => Elements(req'[x].queue) \intersect Elements(req'[y].queue) = {}
  BY <1>2, <1>7 DEF QueueInv, QueueOwned
<1>9. ASSUME NEW r \in Runs
      PROVE  pc'[r] \in Held <=> \E x \in Requests : r \in Elements(req'[x].queue)
  <2>1. pc[r] \in Held <=> \E x \in Requests : r \in Elements(req[x].queue)
    BY DEF QueueInv, QueueOwned, Held
  <2>. QED  BY <1>2, <1>3, <1>4, <1>5, <2>1
<1>10. \A x \in Requests : req'[x].at # "drain" => req'[x].queue = <<>>
  BY <1>2 DEF QueueInv
<1>11. /\ Elements(pending') = {r \in Runs : pc'[r] = "pending"}
       /\ \A r, s \in Elements(pending') : r # s => trig'[r] # trig'[s]
  BY <1>3, <1>4
<1>. QED  BY <1>3, <1>6, <1>8, <1>9, <1>10, <1>11 DEF QueueInv, QueueOwned, Held

LEMMA QueueCancelRead ==
  ASSUME TypeOK, QueueInv, NEW q \in Requests, CancelRead(q)
  PROVE  QueueInv'
<1>. DEFINE r == Head(req[q].queue)
<1>0. pc[r] = "draining" /\ UNCHANGED <<pending, trig>>
  BY DEF CancelRead, mapVars, idVars
<1>1. CASE At(r, "cancelling") /\ UNCHANGED req
  BY <1>0, <1>1, QueueUnchanged DEF TypeOK, At, Held, QueueInv
<1>2. CASE CancelThrows(q)
  BY <1>0, <1>2, QueueThrows
<1>. QED  BY <1>1, <1>2 DEF CancelRead

LEMMA QueueCancelUpsert ==
  ASSUME TypeOK, QueueInv, NEW q \in Requests, CancelUpsert(q)
  PROVE  QueueInv'
<1>. DEFINE r == Head(req[q].queue)
            f == [req EXCEPT ![q] = Onward(@, "drain", NoRun, Tail(@.queue))]
<1>0. /\ req[q].at = "drain" /\ req[q].queue # <<>> /\ req[q].queue \in Seq(Runs)
      /\ pc[r] = "cancelling" /\ UNCHANGED <<pending, trig>> /\ r \in Runs
  BY DEF CancelUpsert, mapVars, idVars, TypeOK, Request
<1>1. CASE At(r, "done") /\ req' = Resumed(f, r)
  <2>1. /\ f[q].queue = Tail(req[q].queue) /\ f[q].at = "drain"
        /\ \A x \in Requests : x # q => f[x] = req[x]
    BY DEF TypeOK, Onward
  <2>2. f \in [Requests -> Request]
    BY <1>0, RequestTypes, ConstantsAssumption DEF TypeOK, Request, Onward
  <2>3. \A x \in Requests : f[x].at # "drain" => f[x].queue = <<>>
    BY <2>1 DEF QueueInv
  <2>4. \A x \in Requests : /\ req'[x].queue = f[x].queue
                            /\ req'[x].at = "drain" <=> f[x].at = "drain"
    <3>. HIDE DEF f
    <3>. QED  BY <1>0, <1>1, <2>2, <2>3, ResumedKeepsQueues
  <2>5. /\ Elements(req[q].queue) = Elements(req'[q].queue) \union {r}
        /\ r \notin Elements(req'[q].queue)
        /\ NoRepeat(req'[q].queue)
    BY <1>0, <2>1, <2>4, ElementsOfTail DEF QueueInv, QueueOwned
  <2>6. pc' = [pc EXCEPT ![r] = "done"]
    BY <1>1 DEF At
  <2>7. \A x \in Runs : /\ pc'[x] = "pending" <=> pc[x] = "pending"
                        /\ pc'[x] \in Held <=> pc[x] \in Held /\ x # r
    BY <1>0, <2>6 DEF TypeOK, Held
  <2>8. \A x \in Requests : /\ x # q => req'[x].queue = req[x].queue
                            /\ req'[x].at # "drain" => req'[x].queue = <<>>
    BY <2>1, <2>3, <2>4
  <2>9. \A x \in Runs : pc'[x] \in Held <=>
           pc[x] \in Held /\ (x \in Elements(req[q].queue) => x \in Elements(req'[q].queue))
    BY <2>5, <2>7
  <2>. QED  BY <1>0, <2>5, <2>7, <2>8, <2>9, QueueChanged
<1>2. CASE CancelThrows(q)
  BY <1>0, <1>2, QueueThrows
<1>. QED  BY <1>1, <1>2 DEF CancelUpsert

LEMMA QueueRequest ==
  ASSUME TypeOK, QueueInv, NEW q \in Requests, RequestStep(q) \/ Call(q)
  PROVE  QueueInv'
<1>. USE DEF runVars, mapVars, idVars
<1>. DEFINE Step == UNCHANGED <<pc, pending, trig>> /\ req[q].queue = <<>>
<1>1. req[q].at # "drain" => req[q].queue = <<>>
  BY DEF QueueInv
<1>2. ASSUME Step, NEW x, x.queue = <<>>, Become(q, x) PROVE QueueInv'
  BY <1>2, QueueIdle
<1>3. ASSUME Step, NEW at, Goto(q, at) PROVE QueueInv'
  <2>1. Become(q, Onward(req[q], at, req[q].run, req[q].queue))
    BY <1>3 DEF Goto
  <2>. QED  BY <1>2, <1>3, <2>1 DEF Onward
<1>4. Idle.queue = <<>>
  BY DEF Idle, Called
<1>5. ASSUME Step, Become(q, Idle) PROVE QueueInv'
  BY <1>2, <1>4, <1>5
<1>6. ASSUME Step, NEW c, NEW at, NEW r, NEW p, NEW s, Become(q, Called(c, at, r, p, s))
      PROVE  QueueInv'
  BY <1>2, <1>6 DEF Called
<1>. HIDE DEF Step
<1>7. UNCHANGED <<pc, pending, trig>> /\ req[q].at # "drain" => Step
  BY <1>1 DEF Step
<1>8. CASE Call(q)
  <2>1. CASE Enable(q)
    BY <2>1, QueueUnchanged DEF Enable, QueueInv
  <2>2. CASE Disable(q)
    BY <1>6, <1>7, <2>2 DEF Disable, Calling
  <2>3. CASE Uninstall(q)
    BY <1>6, <1>7, <2>3 DEF Uninstall, Calling
  <2>4. CASE Dispose(q)
    BY <1>6, <1>7, <2>4 DEF Dispose
  <2>5. ASSUME NEW p \in Packages, Install(q, p) PROVE QueueInv'
    BY <1>6, <1>7, <2>5 DEF Install
  <2>6. ASSUME NEW t \in Triggers, RunNow(q, t) PROVE QueueInv'
    <3>1. ASSUME NEW r \in Runs, NewRun(r, t),
                 Become(q, Called("runNow", "ticket", r, NoPackage, NoPackage))
          PROVE  QueueInv'
      <4>1. \A y \in Requests : /\ req'[y].queue = req[y].queue
                                /\ req'[y].at # "drain" => req'[y].queue = <<>>
        BY <1>1, <2>6, <3>1 DEF TypeOK, Become, QueueInv, Called, RunNow, Calling
      <4>. QED  BY <3>1, <4>1, QueueNewRun
    <3>2. ASSUME NEW i \in QueuedFor(t), UNCHANGED <<mapVars, lock, pc, enq, idVars>>,
                 Become(q, Called("runNow", "read", pending[i], NoPackage, NoPackage))
          PROVE  QueueInv'
      BY <1>6, <1>7, <2>6, <3>2 DEF RunNow, Calling
    <3>. QED  BY <2>6, <3>1, <3>2 DEF RunNow
  <2>. QED  BY <1>8, <2>1, <2>2, <2>3, <2>4, <2>5, <2>6 DEF Call
<1>9. CASE RequestStep(q)
  <2>1. CASE InstallInspect(q)
    BY <1>3, <1>5, <1>7, <2>1 DEF InstallInspect
  <2>2. CASE StopActive(q)
    <3>1. Step /\ req[q].queue = <<>>
      BY <1>1, <1>7, <2>2 DEF StopActive
    <3>2. CASE \E at : Goto(q, at)
      BY <1>3, <3>1, <3>2
    <3>3. CASE Become(q, Onward(req[q], "wait", activeRun, req[q].queue))
      BY <1>2, <3>1, <3>3 DEF Onward
    <3>. QED  BY <2>2, <3>2, <3>3 DEF StopActive
  <2>3. CASE CancelDone(q)
    <3>1. Step
      BY <2>3 DEF CancelDone, Step
    <3>. QED  BY <1>3, <2>3, <3>1 DEF CancelDone
  <2>4. CASE Commit(q)
    BY <1>5, <1>7, <2>4 DEF Commit
  <2>5. CASE RunNowTicket(q)
    BY <1>3, <1>5, <1>7, <2>5 DEF RunNowTicket
  <2>6. CASE RunNowRead(q)
    BY <1>3, <1>5, <1>7, <2>6 DEF RunNowRead
  <2>7. CASE RunNowJoin(q)
    BY <1>3, <1>7, <2>7 DEF RunNowJoin
  <2>. QED
    BY <1>9, <2>1, <2>2, <2>3, <2>4, <2>5, <2>6, <2>7, QueueCancel, QueueCancelRead,
       QueueCancelUpsert
    DEF RequestStep
<1>. QED  BY <1>8, <1>9

LEMMA QueueStep == TypeOK /\ QueueInv /\ [Next]_vars => QueueInv'
<1>. SUFFICES ASSUME TypeOK, QueueInv, [Next]_vars PROVE QueueInv'
  OBVIOUS
<1>0. \A q \in Requests : req[q].at # "drain" => req[q].queue = <<>>
  BY DEF QueueInv
<1>1. CASE TickBegin \/ Restart \/ UNCHANGED vars
  <2>1. UNCHANGED <<pc, pending, trig, req>>
    BY <1>1 DEF TickBegin, Restart, vars, runVars, mapVars, idVars
  <2>. QED  BY <1>0, <2>1, QueueUnchanged
<1>2. CASE TickFire
  <2>1. ASSUME NEW r \in Runs, NEW t \in Triggers, NewRun(r, t) PROVE QueueInv'
    BY <1>0, <1>2, <2>1, QueueNewRun DEF TickFire
  <2>2. CASE UNCHANGED <<mapVars, lock, pc, enq, idVars>>
    BY <1>0, <1>2, <2>2, QueueUnchanged DEF TickFire, mapVars, idVars
  <2>. QED  BY <1>2, <2>1, <2>2 DEF TickFire
<1>3. CASE Crash
  <2>1. /\ pending' = <<>> /\ Elements(pending') = {} /\ NoRepeat(pending')
        /\ \A r \in Runs : pc'[r] \in {"new", "done"}
    BY <1>3, ElementsOfEmpty DEF Crash, NoRepeat
  <2>2. \A q \in Requests : /\ req'[q].queue = <<>> /\ Elements(req'[q].queue) = {}
                            /\ NoRepeat(req'[q].queue)
    BY <1>3, ElementsOfEmpty DEF Crash, Idle, Called, NoRepeat
  <2>. QED  BY <2>1, <2>2 DEF QueueInv, QueueOwned
<1>. QED
  BY <1>1, <1>2, <1>3, QueueRunStep, QueueRequest DEF Next

LEMMA QueueInit == Init => QueueInv
<1>. SUFFICES ASSUME Init PROVE QueueInv
  OBVIOUS
<1>1. /\ pending = <<>> /\ Elements(pending) = {} /\ NoRepeat(pending)
      /\ \A r \in Runs : pc[r] = "new"
  BY ElementsOfEmpty DEF Init, NoRepeat
<1>2. \A q \in Requests : /\ req[q].queue = <<>> /\ Elements(req[q].queue) = {}
                          /\ NoRepeat(req[q].queue)
  BY ElementsOfEmpty DEF Init, Idle, Called, NoRepeat
<1>. QED  BY <1>1, <1>2 DEF QueueInv, QueueOwned

\* For any number of runs, triggers and callers: a queued run is in the pending map,
\* in the hands of one caller that cancels it, or with launchNext.
THEOREM QueuedRunHasOneOwner == Spec => []QueueOwned
<1>1. QueueInv => QueueOwned
  BY DEF QueueInv
<1>. QED  BY <1>1, TypeInit, TypeStep, QueueInit, QueueStep, PTL DEF Spec

-----------------------------------------------------------------------------
(* Who waits for a run.  A caller reads the run id it waits for when the    *)
(* run has left start() behind, and whoever takes that run out of the steps *)
(* below completes it; the map never holds a run that has left them, unless *)
(* it lost its record.                                                      *)

Waited == (LivePc \ {"starting"}) \union {"failing", "settling", "lost"}

WaitInv ==
  /\ ~overlapped => /\ active # NoRun => pc[active] \in LivePc \union {"lost"}
                    /\ \A q \in Requests : req[q].at = "wait" /\ req[q].cmd # "runNow" =>
                         req[q].run \in Runs /\ pc[req[q].run] \in Waited
  /\ \A q \in Requests : req[q].at \in {"ticket", "read", "join"} => req[q].cmd = "runNow"

LEMMA ResumedWaits ==
  ASSUME NEW f \in [Requests -> Request], NEW r \in Runs, NEW q \in Requests
  PROVE  LET x == Resumed(f, r)[q]
         IN /\ x.at = "wait" => x = f[q] /\ x.run # r
            /\ x.at \in {"ticket", "read", "join"} => x = f[q]
<1> DEFINE x == Resumed(f, r)[q]
<1>1. CASE f[q].at # "wait" \/ f[q].run # r
  BY <1>1 DEF Resumed
<1>2. CASE f[q].at = "wait" /\ f[q].run = r
  <2>1. x.at \in {"idle", "cancel", "commit"}
    BY <1>2 DEF Resumed, Idle, Called, Onward
  <2>. QED  BY <2>1
<1>. QED  BY <1>1, <1>2

\* What a step may do to the runs and to the calls.
LEMMA WaitMoved ==
  ASSUME WaitInv, ~overlapped' => ~overlapped,
         ~overlapped' => (active' # NoRun => pc'[active'] \in LivePc \union {"lost"}),
         \A q \in Requests : req'[q].at = "wait" =>
           /\ req'[q] = req[q]
           /\ ~overlapped /\ req[q].run \in Runs /\ pc[req[q].run] \in Waited => pc'[req[q].run] \in Waited,
         \A q \in Requests : req'[q].at \in {"ticket", "read", "join"} => req'[q] = req[q]
  PROVE  WaitInv'
BY DEF WaitInv

\* A run moves and no call does.
LEMMA WaitRunMoved ==
  ASSUME TypeOK, WaitInv, NEW r \in Runs, NEW where, At(r, where), UNCHANGED <<req, overlapped>>,
         pc[r] \in Waited => where \in Waited,
         active' = NoRun \/ (active' = active /\ (active = r => overlapped \/ where \in LivePc \union {"lost"}))
                         \/ (active' = r /\ where \in LivePc)
  PROVE  WaitInv'
<1>1. pc' = [pc EXCEPT ![r] = where] /\ pc \in [Runs -> Pcs] /\ active \in Runs \union {NoRun}
  BY DEF At, TypeOK
<1>2. ~overlapped' => (active' # NoRun => pc'[active'] \in LivePc \union {"lost"})
  BY <1>1 DEF WaitInv
<1>3. \A x \in Runs : pc[x] \in Waited => pc'[x] \in Waited
  BY <1>1
<1>. QED  BY <1>2, <1>3, WaitMoved

\* A run is completed and its callers go on.
LEMMA WaitCompleted ==
  ASSUME TypeOK, WaitInv, NEW r \in Runs, NEW where, At(r, where), UNCHANGED overlapped,
         req' = Resumed(req, r), active' = NoRun \/ (active' = active /\ (active = r => overlapped))
  PROVE  WaitInv'
<1>1. pc' = [pc EXCEPT ![r] = where] /\ pc \in [Runs -> Pcs] /\ active \in Runs \union {NoRun}
  BY DEF At, TypeOK
<1>2. ~overlapped' => (active' # NoRun => pc'[active'] \in LivePc \union {"lost"})
  BY <1>1 DEF WaitInv
<1>3. ASSUME NEW q \in Requests
      PROVE  /\ req'[q].at = "wait" => /\ req'[q] = req[q]
                                       /\ req[q].run \in Runs /\ pc[req[q].run] \in Waited => pc'[req[q].run] \in Waited
             /\ req'[q].at \in {"ticket", "read", "join"} => req'[q] = req[q]
  BY <1>1, ResumedWaits DEF TypeOK
<1>. QED  BY <1>2, <1>3, WaitMoved

LEMMA WaitRunStep ==
  ASSUME TypeOK, QueueInv, WaitInv, NEW r \in Runs, RunStep(r) \/ QueueUpsert(r)
  PROVE  WaitInv'
<1>. USE DEF LivePc, Waited, mapVars, histVars
<1>0. active = r => overlapped \/ pc[r] \in LivePc \union {"lost"}
  BY ConstantsAssumption DEF WaitInv
<1>1. CASE StartUpsert(r)
  BY <1>1, WaitRunMoved DEF StartUpsert, WriteFails
<1>2. CASE ExecuteRunning(r)
  BY <1>2, WaitRunMoved DEF ExecuteRunning, WriteFails, ReleaseIfOwner
<1>3. CASE ExecuteListRuns(r)
  BY <1>3, WaitRunMoved DEF ExecuteListRuns, ReleaseIfOwner
<1>4. CASE ExecuteTrigger(r)
  BY <1>4, WaitRunMoved DEF ExecuteTrigger
<1>5. CASE ExecuteEnd(r)
  <2>1. active' = NoRun \/ (active' = active /\ active # r)
    BY <1>5 DEF ExecuteEnd, ReleaseIfOwner
  <2>2. CASE At(r, "cleanup") /\ req' = Resumed(req, r) /\ UNCHANGED histVars
    BY <2>1, <2>2, WaitCompleted
  <2>3. CASE WriteFails /\ At(r, "failing") /\ UNCHANGED <<disk, req>>
    BY <2>1, <2>3, WaitRunMoved DEF WriteFails
  <2>. QED  BY <1>5, <2>2, <2>3 DEF ExecuteEnd
<1>6. CASE FailLaunch(r)
  BY <1>0, <1>6, WaitRunMoved DEF FailLaunch
<1>7. CASE FailSettle(r)
  <2>1. active' = active /\ (active = r => overlapped) /\ UNCHANGED overlapped
    BY <1>0, <1>7 DEF FailSettle, WriteFails
  <2>2. At(r, "done") /\ req' = Resumed(req, r)
    BY <1>7 DEF FailSettle
  <2>. QED  BY <2>1, <2>2, WaitCompleted
<1>8. CASE Cleanup(r)
  BY <1>0, <1>8, WaitRunMoved DEF Cleanup
<1>9. CASE LaunchNext(r)
  <2>1. CASE pending = <<>>
    BY <1>0, <1>9, <2>1, WaitRunMoved DEF LaunchNext
  <2>2. CASE pending # <<>>
    <3> DEFINE n == Head(pending)
    <3>1. n \in Elements(pending) /\ pending \in Seq(Runs) /\ NoRepeat(pending)
      BY <2>2, ElementsOfTail DEF TypeOK, QueueInv, QueueOwned
    <3>2. n \in Runs /\ pc[n] = "pending" /\ pc[r] = "swept"
      BY <1>9, <3>1 DEF QueueInv, QueueOwned, LaunchNext
    <3>. HIDE DEF n
    <3>3. CASE reg.installed /\ reg.enabled
      <4>1. /\ active' = n /\ pc' = [pc EXCEPT ![r] = "done", ![n] = "fetching"]
            /\ overlapped' = (overlapped \/ active # NoRun) /\ req' = req
        BY <1>9, <2>2, <3>3 DEF LaunchNext, n
      <4>2. pc'[n] = "fetching" /\ \A x \in Runs : x # r /\ x # n => pc'[x] = pc[x]
        BY <3>2, <4>1 DEF TypeOK
      <4>3. \A x \in Runs : pc[x] \in Waited => pc'[x] \in Waited
        BY <3>2, <4>2
      <4>. QED  BY <4>1, <4>2, <4>3, WaitMoved
    <3>4. CASE ~(reg.installed /\ reg.enabled)
      <4>1. /\ active' = active /\ pc' = [pc EXCEPT ![r] = "done", ![n] = "dropping"]
            /\ overlapped' = overlapped /\ req' = req
        BY <1>9, <2>2, <3>4 DEF LaunchNext, n
      <4>2. \A x \in Runs : x # r /\ x # n => pc'[x] = pc[x]
        BY <3>2, <4>1 DEF TypeOK
      <4>3. \A x \in Runs : pc[x] \in Waited \union {"starting"} => pc'[x] = pc[x]
        BY <3>2, <4>2
      <4>4. ~overlapped' => (active' # NoRun => pc'[active'] \in LivePc \union {"lost"})
        BY <4>1, <4>3 DEF WaitInv, TypeOK
      <4>. QED  BY <4>1, <4>3, <4>4, WaitMoved
    <3>. QED  BY <3>3, <3>4
  <2>. QED  BY <2>1, <2>2
<1>10. CASE LaunchFetch(r)
  BY <1>10, WaitRunMoved DEF LaunchFetch
<1>11. CASE LaunchDrop(r)
  BY <1>0, <1>11, WaitRunMoved DEF LaunchDrop
<1>12. CASE DropUpsert(r)
  <2>1. active' = active /\ (active = r => overlapped) /\ UNCHANGED overlapped
    BY <1>0, <1>12 DEF DropUpsert, WriteFails
  <2>2. CASE At(r, "done") /\ req' = Resumed(req, r)
    BY <2>1, <2>2, WaitCompleted
  <2>3. CASE At(r, "lost") /\ UNCHANGED req
    BY <1>12, <2>1, <2>3, WaitRunMoved DEF DropUpsert
  <2>. QED  BY <1>12, <2>2, <2>3 DEF DropUpsert
<1>13. CASE QueueUpsert(r)
  <2>1. UNCHANGED <<active, pc, req, overlapped>>
    BY <1>13 DEF QueueUpsert, WriteFails
  <2>. QED  BY <2>1 DEF WaitInv
<1>. QED
  BY <1>1, <1>2, <1>3, <1>4, <1>5, <1>6, <1>7, <1>8, <1>9, <1>10, <1>11, <1>12, <1>13
  DEF RunStep

\* A call at a step where it waits for nothing.
LEMMA WaitBecome ==
  ASSUME TypeOK, WaitInv, UNCHANGED <<active, pc, overlapped>>, NEW q \in Requests, NEW x, Become(q, x),
         x.at # "wait" \/ x.cmd = "runNow", x.at \in {"ticket", "read", "join"} => x.cmd = "runNow"
  PROVE  WaitInv'
<1>1. req'[q] = x /\ \A y \in Requests : y # q => req'[y] = req[y]
  BY DEF Become, TypeOK
<1>. QED  BY <1>1 DEF WaitInv

LEMMA WaitNewRun ==
  ASSUME TypeOK, WaitInv, NEW r \in Runs, NEW t \in Triggers, NewRun(r, t), UNCHANGED overlapped
  PROVE  /\ \A x \in Runs : pc[x] \in Waited => pc'[x] \in Waited
         /\ ~overlapped' => (active' # NoRun => pc'[active'] \in LivePc \union {"lost"})
<1>1. CASE active = NoRun
  BY <1>1 DEF NewRun, At, TypeOK, LivePc, Waited
<1>2. CASE active # NoRun
  BY <1>2, ConstantsAssumption DEF NewRun, At, TypeOK, LivePc, Waited, WaitInv
<1>. QED  BY <1>1, <1>2

LEMMA WaitRequest ==
  ASSUME TypeOK, SoleInv, QueueInv, WaitInv, NEW q \in Requests, RequestStep(q) \/ Call(q)
  PROVE  WaitInv'
<1>. USE DEF runVars, mapVars, histVars
<1>1. ASSUME UNCHANGED <<active, pc, overlapped>>, NEW at, at # "wait", Goto(q, at),
             at \in {"ticket", "read", "join"} => req[q].cmd = "runNow"
      PROVE  WaitInv'
  BY <1>1, WaitBecome DEF Goto, Onward
<1>2. ASSUME UNCHANGED <<active, pc, overlapped>>, NEW c, NEW at, NEW r, NEW p, NEW s, at # "wait",
             Become(q, Called(c, at, r, p, s)), at \in {"ticket", "read", "join"} => c = "runNow"
      PROVE  WaitInv'
  BY <1>2, WaitBecome DEF Called
<1>3. ASSUME UNCHANGED <<active, pc, overlapped>>, Become(q, Idle) PROVE WaitInv'
  BY <1>2, <1>3 DEF Idle
<1>4. ASSUME NEW r \in Runs, NEW t \in Triggers, NewRun(r, t), UNCHANGED overlapped,
             NEW x, Become(q, x), x.at = "ticket", x.cmd = "runNow"
      PROVE  WaitInv'
  <2>1. req'[q] = x /\ \A y \in Requests : y # q => req'[y] = req[y]
    BY <1>4 DEF Become, TypeOK
  <2>. QED  BY <1>4, <2>1, WaitNewRun DEF WaitInv
<1>5. ASSUME \A x \in Runs : pc[x] \in Waited => pc'[x] \in Waited, UNCHANGED overlapped,
             \A y \in Requests : y # q => req'[y] = req[y],
             req'[q].at \notin {"wait", "ticket", "read", "join"},
             ~overlapped => (active' # NoRun => pc'[active'] \in LivePc \union {"lost"})
      PROVE  WaitInv'
  BY <1>5 DEF WaitInv
<1>6. CASE Call(q)
  <2>1. CASE Enable(q)
    BY <2>1 DEF Enable, WaitInv
  <2>2. CASE Disable(q)
    BY <1>2, <2>2 DEF Disable
  <2>3. CASE Uninstall(q)
    BY <1>2, <2>3 DEF Uninstall
  <2>4. CASE Dispose(q)
    BY <1>2, <2>4 DEF Dispose
  <2>5. ASSUME NEW p \in Packages, Install(q, p) PROVE WaitInv'
    BY <1>2, <2>5 DEF Install
  <2>6. ASSUME NEW t \in Triggers, RunNow(q, t) PROVE WaitInv'
    <3>1. ASSUME NEW r \in Runs, NewRun(r, t), Become(q, Called("runNow", "ticket", r, NoPackage, NoPackage))
          PROVE  WaitInv'
      BY <1>4, <2>6, <3>1 DEF RunNow, Called
    <3>2. ASSUME NEW i \in QueuedFor(t), UNCHANGED <<mapVars, lock, pc, enq, idVars>>,
                 Become(q, Called("runNow", "read", pending[i], NoPackage, NoPackage))
          PROVE  WaitInv'
      BY <1>2, <2>6, <3>2 DEF RunNow
    <3>. QED  BY <2>6, <3>1, <3>2 DEF RunNow
  <2>. QED  BY <1>6, <2>1, <2>2, <2>3, <2>4, <2>5, <2>6 DEF Call
<1>7. CASE RequestStep(q)
  <2>1. CASE InstallInspect(q)
    BY <1>1, <1>3, <2>1 DEF InstallInspect
  <2>2. CASE StopActive(q)
    <3>1. UNCHANGED <<active, pc, overlapped>>
      BY <2>2 DEF StopActive
    <3>2. CASE Goto(q, IF req[q].cmd = "dispose" THEN "commit" ELSE "cancel")
      BY <1>1, <3>1, <3>2
    <3>3. CASE activeRun # NoRun /\ Become(q, Onward(req[q], "wait", activeRun, req[q].queue))
      <4>1. req'[q].run = activeRun /\ req'[q].at = "wait" /\ \A y \in Requests : y # q => req'[y] = req[y]
        BY <3>3 DEF Become, Onward, TypeOK
      <4>2. ~overlapped => activeRun = active /\ active \in Runs /\ pc[active] \in Waited
        BY <3>3 DEF SoleInv, WaitInv, TypeOK, Waited
      <4>. QED  BY <3>1, <4>1, <4>2 DEF WaitInv
    <3>. QED  BY <2>2, <3>2, <3>3 DEF StopActive
  <2>3. CASE CancelPending(q)
    <3>1. pc' = [r \in Runs |-> IF pc[r] = "pending" THEN "draining" ELSE pc[r]]
          /\ UNCHANGED <<active, overlapped>> /\ Become(q, Onward(req[q], "drain", NoRun, pending))
      BY <2>3 DEF CancelPending
    <3>2. req'[q].at = "drain" /\ \A y \in Requests : y # q => req'[y] = req[y]
      BY <3>1 DEF Become, Onward, TypeOK
    <3>. QED  BY <1>5, <3>1, <3>2 DEF WaitInv, TypeOK, Waited, LivePc
  <2>4. ASSUME CancelThrows(q), UNCHANGED <<active, overlapped>> PROVE WaitInv'
    <3>1. pc' = [r \in Runs |-> IF \E i \in DOMAIN req[q].queue : req[q].queue[i] = r THEN "lost" ELSE pc[r]]
          /\ Become(q, Idle)
      BY <2>4 DEF CancelThrows
    <3>2. req'[q].at = "idle" /\ \A y \in Requests : y # q => req'[y] = req[y]
      BY <3>1 DEF Become, Idle, Called, TypeOK
    <3>3. \A x \in Runs : pc'[x] \in {pc[x], "lost"}
      BY <3>1
    <3>4. \A x \in Runs : pc[x] \in Waited => pc'[x] \in Waited
      BY <3>3 DEF Waited
    <3>5. ~overlapped => (active' # NoRun => pc'[active'] \in LivePc \union {"lost"})
      BY <2>4, <3>3 DEF WaitInv, TypeOK
    <3>. QED  BY <1>5, <2>4, <3>2, <3>4, <3>5
  <2>5. CASE CancelRead(q)
    <3> DEFINE r == Head(req[q].queue)
    <3>1. r \in Runs /\ pc[r] = "draining" /\ UNCHANGED <<active, overlapped>>
      BY <2>5 DEF CancelRead, TypeOK, Request
    <3>. HIDE DEF r
    <3>2. CASE At(r, "cancelling") /\ UNCHANGED req
      <4>1. active = r => overlapped
        BY <3>1, ConstantsAssumption DEF WaitInv, LivePc
      <4>2. "cancelling" \notin Waited /\ pc[r] \notin Waited
        BY <3>1 DEF Waited, LivePc
      <4>. QED  BY <3>1, <3>2, <4>1, <4>2, WaitRunMoved
    <3>3. CASE CancelThrows(q)
      BY <2>4, <3>1, <3>3
    <3>. QED  BY <2>5, <3>2, <3>3 DEF CancelRead, r
  <2>6. CASE CancelUpsert(q)
    <3> DEFINE r == Head(req[q].queue)
               f == [req EXCEPT ![q] = Onward(@, "drain", NoRun, Tail(@.queue))]
    <3>1. /\ r \in Runs /\ pc[r] = "cancelling" /\ UNCHANGED active /\ req[q].queue # <<>> /\ req[q].queue \in Seq(Runs)
      BY <2>6 DEF CancelUpsert, TypeOK, Request
    <3>2. f \in [Requests -> Request] /\ f[q].at = "drain" /\ \A y \in Requests : y # q => f[y] = req[y]
      <4>1. Onward(req[q], "drain", NoRun, Tail(req[q].queue)) \in Request
        <5>1. Tail(req[q].queue) \in Seq(Runs) /\ req[q] \in Request /\ "drain" \in ReqPcs
          BY <3>1 DEF TypeOK, ReqPcs
        <5>. QED  BY <5>1, RequestTypes
      <4>. QED  BY <4>1 DEF TypeOK, Onward
    <3>3. CASE At(r, "done") /\ req' = Resumed(f, r) /\ UNCHANGED histVars
      <4>. HIDE DEF r, f
      <4>1. active = r => overlapped
        BY <3>1, ConstantsAssumption DEF WaitInv, LivePc
      <4>2. pc' = [pc EXCEPT ![r] = "done"] /\ pc \in [Runs -> Pcs] /\ active \in Runs \union {NoRun}
        BY <3>3 DEF At, TypeOK
      <4>3. ~overlapped' => (active' # NoRun => pc'[active'] \in LivePc \union {"lost"})
        BY <3>1, <3>3, <4>1, <4>2 DEF WaitInv
      <4>4. ASSUME NEW y \in Requests
            PROVE  /\ req'[y].at = "wait" => /\ req'[y] = req[y]
                                             /\ req[y].run \in Runs /\ pc[req[y].run] \in Waited => pc'[req[y].run] \in Waited
                   /\ req'[y].at \in {"ticket", "read", "join"} => req'[y] = req[y]
        <5>1. /\ req'[y].at = "wait" => req'[y] = f[y] /\ req'[y].run # r
              /\ req'[y].at \in {"ticket", "read", "join"} => req'[y] = f[y]
          BY <3>1, <3>2, <3>3, ResumedWaits
        <5>2. y = q => req'[y].at \notin {"wait", "ticket", "read", "join"}
          BY <3>2, <5>1
        <5>. QED  BY <3>2, <4>2, <5>1, <5>2
      <4>. QED  BY <3>3, <4>3, <4>4, WaitMoved
    <3>4. CASE WriteFails /\ CancelThrows(q)
      BY <2>4, <3>1, <3>4 DEF WriteFails
    <3>. QED  BY <2>6, <3>3, <3>4 DEF CancelUpsert
  <2>7. CASE CancelDone(q)
    BY <1>1, <2>7 DEF CancelDone
  <2>8. CASE Commit(q)
    BY <1>3, <2>8 DEF Commit
  <2>9. CASE RunNowTicket(q)
    BY <1>1, <1>3, <2>9 DEF RunNowTicket, WaitInv
  <2>10. CASE RunNowRead(q)
    BY <1>1, <1>3, <2>10 DEF RunNowRead, WaitInv
  <2>11. CASE RunNowJoin(q)
    <3>1. req[q].cmd = "runNow" /\ UNCHANGED <<active, pc, overlapped>>
          /\ Become(q, Onward(req[q], "wait", req[q].run, req[q].queue))
      BY <2>11 DEF RunNowJoin, WaitInv, Goto
    <3>. QED  BY <3>1, WaitBecome DEF Onward
  <2>. QED
    BY <1>7, <2>1, <2>2, <2>3, <2>5, <2>6, <2>7, <2>8, <2>9, <2>10, <2>11 DEF RequestStep
<1>. QED  BY <1>6, <1>7

LEMMA WaitStep == TypeOK /\ SoleInv /\ QueueInv /\ WaitInv /\ [Next]_vars => WaitInv'
<1>. SUFFICES ASSUME TypeOK, SoleInv, QueueInv, WaitInv, [Next]_vars PROVE WaitInv'
  OBVIOUS
<1>1. CASE TickBegin \/ Restart \/ UNCHANGED vars
  <2>1. UNCHANGED <<active, pc, req, overlapped>>
    BY <1>1 DEF TickBegin, Restart, vars, runVars, mapVars, histVars
  <2>. QED  BY <2>1 DEF WaitInv
<1>2. CASE TickFire
  <2>1. ASSUME NEW r \in Runs, NEW t \in Triggers, NewRun(r, t) PROVE WaitInv'
    BY <1>2, <2>1, WaitNewRun, WaitMoved DEF TickFire, histVars
  <2>2. CASE UNCHANGED <<mapVars, lock, pc, enq, idVars>>
    BY <1>2, <2>2 DEF TickFire, mapVars, histVars, WaitInv
  <2>. QED  BY <1>2, <2>1, <2>2 DEF TickFire
<1>3. CASE Crash
  <2>1. active' = NoRun /\ \A q \in Requests : req'[q].at = "idle"
    BY <1>3 DEF Crash, Idle, Called
  <2>. QED  BY <2>1 DEF WaitInv
<1>. QED  BY <1>1, <1>2, <1>3, WaitRunStep, WaitRequest DEF Next

LEMMA WaitInit == Init => WaitInv
BY DEF Init, WaitInv, Idle, Called

\* For any number of runs and callers: a call that stops the app waits for a run on its way
\* to its completion, as long as no launch overlapped another, or for one that lost its record.
THEOREM StopAwaitsLiveRun == Spec => []StopAwaitsLive
<1>1. TypeOK /\ WaitInv => StopAwaitsLive
  BY DEF WaitInv, StopAwaitsLive, Waited
<1>2. Init => SoleInv
  BY DEF Init, SoleInv, Live, LivePc
<1>. QED  BY <1>1, <1>2, TypeInit, TypeStep, SoleStep, QueueInit, QueueStep, WaitInit,
          WaitStep, PTL DEF Spec
-----------------------------------------------------------------------------
(* What a record says is what its run did.  A run inherits the record that  *)
(* the step before it left, so every program counter fixes what may stand   *)
(* in the file; a process that is down runs nothing.                        *)

\* Where a run may be while its "queued" record is still being written.
Unwritten == {"pending", "draining", "fetching", "dropping", "lost"}

RecordInv ==
  /\ RecordsAgree
  /\ \A r \in enq : pc[r] \in Unwritten
  /\ \A r \in Runs : pc[r] = "ending" => status[r] \in Terminal
  /\ \A r \in Runs : pc[r] \in {"failing", "settling"} => disk[r] \in {"queued", "running"}
  /\ gw = "down" => /\ \A r \in Runs : pc[r] \in {"new", "done"}
                    /\ \A q \in Requests : req[q].at = "idle"

\* The invariant at one run, to argue about the run that moved.
AgreesAt(r) ==
  /\ pc[r] \in {"new", "starting"} \/ r \in enq => disk[r] = "none"
  /\ pc[r] \in {"pending", "draining", "fetching", "dropping"} => disk[r] \in {"none", "queued"}
  /\ pc[r] \in {"cancelling", "dropped"} => disk[r] = "queued"
  /\ pc[r] = "launched" => disk[r] \in {"queued", "running"}
  /\ pc[r] \in {"listing", "running", "ending"} => disk[r] = "running"
  /\ pc[r] \in {"cleanup", "swept"} => disk[r] \in Terminal
  /\ r \in enq => pc[r] \in Unwritten
  /\ pc[r] = "ending" => status[r] \in Terminal
  /\ pc[r] \in {"failing", "settling"} => disk[r] \in {"queued", "running"}

LEMMA RecordPointwise ==
  ASSUME TypeOK
  PROVE  RecordInv <=> /\ \A r \in Runs : AgreesAt(r)
                       /\ gw = "down" => /\ \A r \in Runs : pc[r] \in {"new", "done"}
                                         /\ \A q \in Requests : req[q].at = "idle"
BY DEF TypeOK, RecordInv, RecordsAgree, AgreesAt

\* A step of a process that is up: each run agrees afterwards.
LEMMA RecordMoved ==
  ASSUME TypeOK, TypeOK', gw' # "down", \A r \in Runs : AgreesAt(r)'
  PROVE  RecordInv'
BY DEF TypeOK, RecordInv, RecordsAgree, AgreesAt

\* What a step leaves alone at one run.
SameAt(x) == pc'[x] = pc[x] /\ disk'[x] = disk[x] /\ status'[x] = status[x] /\ (x \in enq' <=> x \in enq)

LEMMA RecordSame ==
  ASSUME NEW x \in Runs, AgreesAt(x), SameAt(x)
  PROVE  AgreesAt(x)'
BY DEF AgreesAt, SameAt

LEMMA RecordRunStep ==
  ASSUME TypeOK, TypeOK', QueueInv, RecordInv, NEW r \in Runs, RunStep(r) \/ QueueUpsert(r)
  PROVE  RecordInv'
<1>. USE DEF At, Record, mapVars, idVars, histVars, regVars
<1>0. /\ \A x \in Runs : AgreesAt(x)
      /\ gw = "down" => \A x \in Runs : pc[x] \in {"new", "done"} /\ x \notin enq
  BY RecordPointwise DEF AgreesAt, Unwritten, TypeOK
<1>1. gw' = gw /\ gw # "down"
  BY <1>0 DEF RunStep, StartUpsert, ExecuteRunning, ExecuteListRuns, ExecuteTrigger,
     ExecuteEnd, FailLaunch, FailSettle, Cleanup, LaunchNext, LaunchFetch, LaunchDrop,
     DropUpsert, QueueUpsert
<1>. SUFFICES \A x \in Runs : AgreesAt(x)'
  BY <1>1, RecordMoved
<1>2. \A x \in Runs : AgreesAt(x) /\ SameAt(x) => AgreesAt(x)'
  BY RecordSame
<1>. SUFFICES ASSUME NEW x \in Runs, ~SameAt(x) PROVE AgreesAt(x)'
  BY <1>0, <1>2
<1>3. AgreesAt(x)
  BY <1>0
<1>. USE DEF TypeOK, SameAt, AgreesAt, Unwritten, Terminal
<1>4. CASE StartUpsert(r)
  BY <1>3, <1>4 DEF StartUpsert
<1>5. CASE ExecuteRunning(r)
  BY <1>3, <1>5 DEF ExecuteRunning
<1>6. CASE ExecuteListRuns(r)
  BY <1>3, <1>6 DEF ExecuteListRuns
<1>7. CASE ExecuteTrigger(r)
  BY <1>3, <1>7 DEF ExecuteTrigger
<1>8. CASE ExecuteEnd(r)
  BY <1>3, <1>8 DEF ExecuteEnd
<1>9. CASE FailLaunch(r)
  BY <1>3, <1>9 DEF FailLaunch
<1>10. CASE FailSettle(r)
  BY <1>3, <1>10 DEF FailSettle
<1>11. CASE Cleanup(r)
  BY <1>3, <1>11 DEF Cleanup
<1>12. CASE LaunchNext(r)
  <2>1. CASE pending = <<>>
    BY <1>3, <1>12, <2>1 DEF LaunchNext
  <2>2. CASE pending # <<>>
    <3>1. pending[1] = Head(pending) /\ Head(pending) \in Elements(pending)
      BY <2>2 DEF Elements
    <3>2. Head(pending) \in Runs /\ pc[Head(pending)] = "pending"
      BY <3>1 DEF QueueInv, QueueOwned
    <3>3. PICK w \in {"fetching", "dropping"} :
            pc' = [pc EXCEPT ![r] = "done", ![Head(pending)] = w]
      BY <1>12, <2>2 DEF LaunchNext
    <3>4. UNCHANGED <<disk, status, enq>> /\ pc[r] = "swept"
      BY <1>12 DEF LaunchNext
    <3>. QED  BY <1>3, <3>2, <3>3, <3>4
  <2>. QED  BY <2>1, <2>2
<1>13. CASE LaunchFetch(r)
  BY <1>3, <1>13 DEF LaunchFetch, Recorded
<1>14. CASE LaunchDrop(r)
  BY <1>3, <1>14 DEF LaunchDrop, Recorded
<1>15. CASE DropUpsert(r)
  BY <1>3, <1>15 DEF DropUpsert
<1>16. CASE QueueUpsert(r)
  BY <1>3, <1>16 DEF QueueUpsert
<1>. QED
  BY <1>4, <1>5, <1>6, <1>7, <1>8, <1>9, <1>10, <1>11, <1>12, <1>13, <1>14, <1>15, <1>16
  DEF RunStep

LEMMA RecordNewRun ==
  ASSUME TypeOK, TypeOK', RecordInv, gw' # "down", NEW r \in Runs, NEW t \in Triggers,
         NewRun(r, t), UNCHANGED <<disk, status>>
  PROVE  RecordInv'
<1>1. \A x \in Runs : AgreesAt(x)
  BY RecordPointwise
<1>. SUFFICES ASSUME NEW x \in Runs PROVE AgreesAt(x)'
  BY RecordMoved
<1>2. CASE active = NoRun
  BY <1>1, <1>2 DEF NewRun, At, AgreesAt, TypeOK, Unwritten
<1>3. CASE active # NoRun
  BY <1>1, <1>3 DEF NewRun, At, AgreesAt, TypeOK, Unwritten
<1>. QED  BY <1>2, <1>3

\* A step that touches neither the runs nor their records.
LEMMA RecordUnchanged ==
  ASSUME TypeOK, TypeOK', RecordInv, gw' # "down", UNCHANGED <<pc, disk, status, enq>>
  PROVE  RecordInv'
<1>1. \A x \in Runs : AgreesAt(x)
  BY RecordPointwise
<1>2. \A x \in Runs : AgreesAt(x)'
  BY <1>1 DEF AgreesAt
<1>. QED  BY <1>2, RecordMoved

\* cancelPending gives up: its queue is lost, whatever was written of it.
LEMMA RecordThrows ==
  ASSUME TypeOK, TypeOK', QueueInv, RecordInv, gw' # "down", NEW q \in Requests,
         CancelThrows(q), UNCHANGED <<disk, status, enq>>
  PROVE  RecordInv'
<1>1. \A x \in Runs : AgreesAt(x)
  BY RecordPointwise
<1>. SUFFICES ASSUME NEW x \in Runs PROVE AgreesAt(x)'
  BY RecordMoved
<1>2. pc'[x] \in {pc[x], "lost"}
  BY DEF CancelThrows
<1>. QED  BY <1>1, <1>2 DEF AgreesAt, Unwritten

LEMMA RecordRequest ==
  ASSUME TypeOK, TypeOK', QueueInv, RecordInv, NEW q \in Requests, RequestStep(q) \/ Call(q)
  PROVE  RecordInv'
<1>. USE DEF regVars, runVars, mapVars, idVars, histVars
<1>0. gw # "down"
  BY DEF RecordInv, RequestStep, InstallInspect, StopActive, CancelPending, CancelRead,
     CancelUpsert, CancelDone, Commit, RunNowTicket, RunNowRead, RunNowJoin,
     Call, Enable, Disable, Uninstall, Dispose, Install, RunNow, Calling
<1>1. gw' # "down"
  BY <1>0 DEF RequestStep, InstallInspect, StopActive, CancelPending, CancelRead,
     CancelUpsert, CancelDone, Commit, RunNowTicket, RunNowRead, RunNowJoin,
     Call, Enable, Disable, Uninstall, Dispose, Install, RunNow
<1>2. CASE UNCHANGED <<pc, disk, status, enq>>
  BY <1>1, <1>2, RecordUnchanged
<1>3. \A x \in Runs : AgreesAt(x)
  BY RecordPointwise
<1>4. CASE CancelPending(q)
  <2>. SUFFICES ASSUME NEW x \in Runs PROVE AgreesAt(x)'
    BY <1>1, RecordMoved
  <2>. QED  BY <1>3, <1>4 DEF CancelPending, AgreesAt, Unwritten
<1>. DEFINE r == Head(req[q].queue)
<1>5. CASE CancelRead(q)
  <2>1. CASE Recorded(r) /\ At(r, "cancelling")
    <3>1. r \in Runs /\ UNCHANGED <<disk, status, enq>> /\ disk[r] # "none" /\ pc[r] = "draining"
      BY <1>5, <2>1 DEF CancelRead, TypeOK, Request, Recorded
    <3>. SUFFICES ASSUME NEW x \in Runs PROVE AgreesAt(x)'
      BY <1>1, RecordMoved
    <3>. QED  BY <1>3, <2>1, <3>1 DEF At, AgreesAt, Unwritten, TypeOK
  <2>2. CASE CancelThrows(q)
    BY <1>1, <1>5, <2>2, RecordThrows DEF CancelRead
  <2>. QED  BY <1>5, <2>1, <2>2 DEF CancelRead
<1>6. CASE CancelUpsert(q)
  <2>1. CASE At(r, "done") /\ Record(r, "cancelled")
    <3>1. r \in Runs /\ UNCHANGED <<status, enq>> /\ pc[r] = "cancelling"
      BY <1>6 DEF CancelUpsert, TypeOK, Request
    <3>. SUFFICES ASSUME NEW x \in Runs PROVE AgreesAt(x)'
      BY <1>1, RecordMoved
    <3>. QED  BY <1>3, <2>1, <3>1 DEF At, Record, AgreesAt, Unwritten, TypeOK
  <2>2. CASE CancelThrows(q) /\ UNCHANGED disk
    BY <1>1, <1>6, <2>2, RecordThrows DEF CancelUpsert
  <2>. QED  BY <1>6, <2>1, <2>2 DEF CancelUpsert
<1>7. ASSUME NEW t \in Triggers, RunNow(q, t) PROVE RecordInv'
  BY <1>1, <1>2, <1>7, RecordNewRun DEF RunNow
<1>. QED
  BY <1>2, <1>4, <1>5, <1>6, <1>7
  DEF RequestStep, Call, InstallInspect, StopActive, CancelDone, Commit, RunNowTicket,
      RunNowRead, RunNowJoin, Enable, Disable, Uninstall, Dispose, Install

LEMMA RecordStep == TypeOK /\ QueueInv /\ RecordInv /\ [Next]_vars => RecordInv'
<1>. SUFFICES ASSUME TypeOK, QueueInv, RecordInv, [Next]_vars PROVE RecordInv'
  OBVIOUS
<1>0. TypeOK'
  BY TypeStep
<1>1. \A x \in Runs : AgreesAt(x)
  BY RecordPointwise
<1>2. CASE TickBegin
  BY <1>0, <1>2, RecordUnchanged DEF TickBegin, runVars
<1>3. CASE TickFire
  <2>1. gw' # "down" /\ UNCHANGED <<disk, status>>
    BY <1>3 DEF TickFire, Alive
  <2>2. ASSUME NEW r \in Runs, NEW t \in Triggers, NewRun(r, t) PROVE RecordInv'
    BY <1>0, <2>1, <2>2, RecordNewRun
  <2>3. CASE UNCHANGED <<mapVars, lock, pc, enq, idVars>>
    BY <1>0, <2>1, <2>3, RecordUnchanged
  <2>. QED  BY <1>3, <2>2, <2>3 DEF TickFire
<1>4. CASE Crash
  <2>1. /\ gw' = "down" /\ UNCHANGED disk /\ enq' = {}
        /\ \A x \in Runs : pc'[x] \in {"new", "done"} /\ (pc'[x] = "new" => pc[x] = "new")
        /\ \A q \in Requests : req'[q].at = "idle"
    BY <1>4 DEF Crash, Idle, Called
  <2>. QED  BY <1>1, <2>1 DEF RecordInv, RecordsAgree, AgreesAt
<1>5. CASE Restart
  <2>1. /\ gw' = "up" /\ UNCHANGED <<pc, enq, status>>
        /\ \A x \in Runs : pc[x] \in {"new", "done"}
        /\ \A x \in Runs : disk[x] = "none" => disk'[x] = "none"
    BY <1>5 DEF Restart, Interrupted, RecordInv
  <2>2. \A x \in Runs : AgreesAt(x)'
    BY <1>1, <2>1 DEF AgreesAt, Unwritten
  <2>. QED  BY <1>0, <2>1, <2>2, RecordMoved
<1>6. CASE UNCHANGED vars
  BY <1>6 DEF vars, regVars, runVars, RecordInv, RecordsAgree
<1>. QED
  BY <1>0, <1>2, <1>3, <1>4, <1>5, <1>6, RecordRunStep, RecordRequest DEF Next

LEMMA RecordInit == Init => RecordInv
BY DEF Init, RecordInv, RecordsAgree, Idle, Called

\* For any number of runs and callers: no live run is recorded as finished, no run is
\* recorded before the call that records it, and a run that hands the app on is final.
THEOREM RecordsAgreeWithRuns == Spec => []RecordsAgree
<1>1. RecordInv => RecordsAgree
  BY DEF RecordInv
<1>. QED
  BY <1>1, TypeInit, TypeStep, QueueInit, QueueStep, RecordInit, RecordStep, PTL DEF Spec

-----------------------------------------------------------------------------
(* The executor implements the life cycle of the records: where each write  *)
(* stands, RecordInv says what it overwrites.                               *)

\* One upsert is one move of the life cycle, or writes what is there already.
LEMMA UpsertMoves ==
  ASSUME TypeOK, NEW r \in Runs, NEW to \in Status, Record(r, to),
         \/ disk[r] = to
         \/ disk[r] = "none" /\ to \in {"queued", "running"}
         \/ disk[r] = "queued" /\ to \in {"running", "failed", "cancelled"}
         \/ disk[r] = "running" /\ to \in Terminal
  PROVE  Lifecycle!Next \/ UNCHANGED disk
<1>1. CASE disk[r] = to
  BY <1>1 DEF TypeOK, Record
<1>2. CASE disk[r] # to
  <2>1. Lifecycle!Queue(r) \/ Lifecycle!Begin(r) \/ Lifecycle!Finish(r) \/ Lifecycle!GiveUp(r)
    BY <1>2 DEF Record, Terminal, Lifecycle!Queue, Lifecycle!Begin, Lifecycle!Finish,
       Lifecycle!GiveUp, Lifecycle!Move, Lifecycle!Final
  <2>. QED  BY <2>1 DEF Lifecycle!Next
<1>. QED  BY <1>1, <1>2

LEMMA RunStepMoves ==
  ASSUME TypeOK, RecordInv, NEW r \in Runs, RunStep(r) \/ QueueUpsert(r)
  PROVE  Lifecycle!Next \/ UNCHANGED disk
<1>0. AgreesAt(r)
  BY RecordPointwise
<1>1. CASE UNCHANGED disk
  BY <1>1
<1>2. ASSUME pc[r] = "starting", Record(r, "running") PROVE Lifecycle!Next \/ UNCHANGED disk
  BY <1>0, <1>2, UpsertMoves DEF AgreesAt, Status
<1>3. ASSUME r \in enq, Record(r, "queued") PROVE Lifecycle!Next \/ UNCHANGED disk
  BY <1>0, <1>3, UpsertMoves DEF AgreesAt, Status
<1>4. ASSUME pc[r] = "launched", Record(r, "running") PROVE Lifecycle!Next \/ UNCHANGED disk
  BY <1>0, <1>4, UpsertMoves DEF AgreesAt, Status
<1>5. ASSUME pc[r] = "ending", Record(r, status[r]) PROVE Lifecycle!Next \/ UNCHANGED disk
  BY <1>0, <1>5, UpsertMoves DEF AgreesAt, Status
<1>6. ASSUME pc[r] = "settling", NEW out \in {"failed", "cancelled"}, Record(r, out)
      PROVE  Lifecycle!Next \/ UNCHANGED disk
  BY <1>0, <1>6, UpsertMoves DEF AgreesAt, Status, Terminal
<1>7. ASSUME pc[r] = "dropped", Record(r, "cancelled") PROVE Lifecycle!Next \/ UNCHANGED disk
  BY <1>0, <1>7, UpsertMoves DEF AgreesAt, Status, Terminal
<1>. QED
  BY <1>1, <1>2, <1>3, <1>4, <1>5, <1>6, <1>7
  DEF RunStep, StartUpsert, ExecuteRunning, ExecuteListRuns, ExecuteTrigger, ExecuteEnd,
      FailLaunch, FailSettle, Cleanup, LaunchNext, LaunchFetch, LaunchDrop, DropUpsert,
      QueueUpsert

LEMMA RequestMoves ==
  ASSUME TypeOK, RecordInv, NEW q \in Requests, RequestStep(q) \/ Call(q)
  PROVE  Lifecycle!Next \/ UNCHANGED disk
<1>. DEFINE r == Head(req[q].queue)
<1>1. CASE UNCHANGED disk
  BY <1>1
<1>2. CASE CancelUpsert(q) /\ Record(r, "cancelled")
  <2>1. r \in Runs /\ pc[r] = "cancelling"
    BY <1>2 DEF CancelUpsert, TypeOK, Request
  <2>2. AgreesAt(r)
    BY <2>1, RecordPointwise
  <2>. QED  BY <1>2, <2>1, <2>2, UpsertMoves DEF AgreesAt, Status, Terminal
<1>. QED
  BY <1>1, <1>2
  DEF RequestStep, Call, InstallInspect, StopActive, CancelPending, CancelRead, CancelUpsert,
      CancelDone, Commit, RunNowTicket, RunNowRead, RunNowJoin, Enable, Disable, Uninstall,
      Dispose, Install, RunNow, runVars

LEMMA LifecycleStep == TypeOK /\ RecordInv /\ [Next]_vars => [Lifecycle!Next]_disk
<1>. SUFFICES ASSUME TypeOK, RecordInv, [Next]_vars PROVE Lifecycle!Next \/ UNCHANGED disk
  OBVIOUS
<1>1. CASE TickBegin \/ TickFire \/ Crash \/ UNCHANGED vars
  BY <1>1 DEF TickBegin, TickFire, Crash, vars, runVars
<1>2. CASE Restart
  BY <1>2 DEF Restart, Interrupted, Lifecycle!Next, Lifecycle!Interrupt
<1>. QED  BY <1>1, <1>2, RunStepMoves, RequestMoves DEF Next

\* The executor, with every caller, failing write, crash and restart, implements the
\* life cycle of the run records, for any number of runs, triggers and callers.
THEOREM ImplementsLifecycle == Spec => LifecycleSpec
<1>1. Init => Lifecycle!Init
  BY DEF Init, Lifecycle!Init
<1>. QED
  BY <1>1, TypeInit, TypeStep, QueueInit, QueueStep, RecordInit, RecordStep, LifecycleStep, PTL
  DEF Spec, LifecycleSpec, Lifecycle!Spec

-----------------------------------------------------------------------------
(* A stop goes on when its run is completed, and what completes a run has   *)
(* just written its last record.                                           *)

SettledAt(q) == req[q].at = "wait" /\ req'[q].at \in {"cancel", "commit"}
                  => disk'[req[q].run] \in Terminal \/ faults' > faults

LEMMA ResumedSettles ==
  ASSUME TypeOK, NEW f \in [Requests -> Request], NEW r \in Runs, req' = Resumed(f, r),
         NEW out \in Terminal, Record(r, out), NEW q \in Requests,
         f[q] = req[q] \/ f[q].at = "drain"
  PROVE  SettledAt(q)
<1>1. CASE f[q].at # "wait" \/ f[q].run # r
  <2>1. req'[q] = f[q]
    BY <1>1 DEF Resumed
  <2>. QED  BY <2>1 DEF SettledAt
<1>2. CASE f[q].at = "wait" /\ f[q].run = r
  BY <1>2 DEF SettledAt, Record, TypeOK
<1>. QED  BY <1>1, <1>2

LEMMA SettledRunStep ==
  ASSUME TypeOK, RecordInv, NEW r \in Runs, RunStep(r) \/ QueueUpsert(r), NEW q \in Requests
  PROVE  SettledAt(q)
<1>0. req \in [Requests -> Request]
  BY DEF TypeOK
<1>1. CASE UNCHANGED req
  BY <1>1 DEF SettledAt
<1>2. CASE ExecuteEnd(r) /\ Record(r, status[r]) /\ req' = Resumed(req, r)
  <2>1. status[r] \in Terminal
    BY <1>2 DEF ExecuteEnd, RecordInv
  <2>. QED  BY <1>0, <1>2, <2>1, ResumedSettles
<1>3. CASE FailSettle(r)
  <2>1. ASSUME NEW out \in {"failed", "cancelled"}, Record(r, out), req' = Resumed(req, r)
        PROVE  SettledAt(q)
    BY <1>0, <2>1, ResumedSettles DEF Terminal
  <2>2. CASE WriteFails
    BY <2>2 DEF WriteFails, SettledAt, TypeOK
  <2>. QED  BY <1>3, <2>1, <2>2 DEF FailSettle
<1>4. CASE DropUpsert(r) /\ Record(r, "cancelled") /\ req' = Resumed(req, r)
  BY <1>0, <1>4, ResumedSettles DEF Terminal
<1>. QED
  BY <1>1, <1>2, <1>3, <1>4
  DEF RunStep, StartUpsert, ExecuteRunning, ExecuteListRuns, ExecuteTrigger, ExecuteEnd,
      FailLaunch, FailSettle, Cleanup, LaunchNext, LaunchFetch, LaunchDrop, DropUpsert, QueueUpsert

\* A call moves on by itself only where it does not wait.
LEMMA SettledRequest ==
  ASSUME TypeOK, RecordInv, NEW c \in Requests, RequestStep(c) \/ Call(c), NEW q \in Requests
  PROVE  SettledAt(q)
<1>. DEFINE r == Head(req[c].queue)
            f == [req EXCEPT ![c] = Onward(@, "drain", NoRun, Tail(@.queue))]
<1>1. CASE UNCHANGED req \/ (req[c].at # "wait" /\ \E x : Become(c, x))
  BY <1>1 DEF SettledAt, Become, TypeOK
<1>2. CASE CancelUpsert(c) /\ Record(r, "cancelled") /\ req' = Resumed(f, r)
  <2>1. r \in Runs /\ req[c].queue # <<>> /\ req[c].queue \in Seq(Runs) /\ req[c] \in Request
    BY <1>2 DEF CancelUpsert, TypeOK, Request
  <2>2. f \in [Requests -> Request] /\ (f[q] = req[q] \/ f[q].at = "drain")
    <3>1. Onward(req[c], "drain", NoRun, Tail(req[c].queue)) \in Request
      <4>1. Tail(req[c].queue) \in Seq(Runs) /\ "drain" \in ReqPcs
        BY <2>1 DEF ReqPcs
      <4>. QED  BY <2>1, <4>1, RequestTypes
    <3>. QED  BY <3>1 DEF TypeOK, Onward
  <2>. HIDE DEF r, f
  <2>. QED  BY <1>2, <2>1, <2>2, ResumedSettles DEF Terminal
<1>3. Call(c) => UNCHANGED req \/ (req[c].at # "wait" /\ \E x : Become(c, x))
  BY DEF Call, Enable, Disable, Uninstall, Dispose, Install, RunNow, Calling
<1>4. RequestStep(c) /\ ~CancelUpsert(c) => UNCHANGED req \/ (req[c].at # "wait" /\ \E x : Become(c, x))
  BY DEF RequestStep, InstallInspect, StopActive, CancelPending, CancelRead, CancelThrows, CancelDone,
     Commit, RunNowTicket, RunNowRead, RunNowJoin, Goto
<1>5. CancelUpsert(c) => \/ req[c].at # "wait" /\ \E x : Become(c, x)
                         \/ CancelUpsert(c) /\ Record(r, "cancelled") /\ req' = Resumed(f, r)
  BY DEF CancelUpsert, CancelThrows
<1>. QED  BY <1>1, <1>2, <1>3, <1>4, <1>5

\* Whatever races with it: a disable, an uninstall, an update or a dispose that waited for
\* a run goes on only once runs.json has the run's final record, or its write has failed.
THEOREM StopsFindItSettled == Spec => StopSettles
<1>. DEFINE Settled == \A q \in Requests : SettledAt(q)
<1>1. TypeOK /\ RecordInv /\ [Next]_vars => [Settled]_vars
  <2>. SUFFICES ASSUME TypeOK, RecordInv, [Next]_vars, NEW q \in Requests
                PROVE  SettledAt(q)
    OBVIOUS
  <2>1. CASE UNCHANGED req
    BY <2>1 DEF SettledAt
  <2>2. CASE Crash
    BY <2>2 DEF Crash, SettledAt, Idle, Called
  <2>3. CASE TickBegin \/ TickFire \/ Restart \/ UNCHANGED vars
    BY <2>1, <2>3 DEF TickBegin, TickFire, Restart, vars
  <2>. QED  BY <2>2, <2>3, SettledRunStep, SettledRequest DEF Next
<1>2. StopSettles <=> [][Settled]_vars
  BY DEF StopSettles, SettledAt
<1>. QED  BY <1>1, <1>2, TypeInit, TypeStep, QueueInit, QueueStep, RecordInit, RecordStep, PTL DEF Spec
=============================================================================
