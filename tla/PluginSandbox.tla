--------------------------- MODULE PluginSandbox ---------------------------
(***************************************************************************)
(* NodePluginSandbox: the worker threads in which ONE portable plugin runs *)
(* and the invocations that wait for them.  The host is an event loop:     *)
(* what an event makes ready to go on (a promise's continuation) goes on   *)
(* before the next event, so events wait until the queue of continuations  *)
(* is Drained; the worker threads run beside the host at any time.         *)
(*                                                                         *)
(* A worker is started by a call that finds none, and bears its name.      *)
(* Values, schemas and sizes are an answer that is accepted or refused.    *)
(***************************************************************************)
EXTENDS Naturals, FiniteSets

CONSTANTS Invocations, \* calls of run(), each made once
          NoWorker,
          Limit        \* limits.maxConcurrency

ASSUME SandboxAssumption == NoWorker \notin Invocations /\ Limit \in Nat \ {0}

Workers == Invocations

VARIABLES
  verified,   \* PluginManager.verified: the promise of verifyPlugin
  worker,     \* this.worker
  loading,    \* this.loading: the worker whose start the promise stands for
  start,      \* that promise, for every worker: "failing" while its catch awaits dispose
  term,       \* workers whose terminate() was called
  catcher,    \* the worker whose failed start awaits this one's terminate()
  registry,   \* PluginInvocationRegistry: the ids that wait for a result
  st,         \* where run() stands
  of,         \* the worker whose start run() awaits, then to which it posted
  abortedCalls, \* invocations whose signal is aborted
  thread,     \* the worker thread
  job,        \* the invocation in its worker
  ask,        \* the permission the invocation asks for, one at a time
  overran     \* history: invocations that exceeded timeoutMs

hostVars   == <<worker, loading, start, term, catcher>>
callVars   == <<registry, st, of, abortedCalls>>
workerVars == <<thread, job, ask>>
sandboxVars == <<verified, hostVars, callVars, workerVars, overran>>

SandboxTypeOK ==
  /\ verified \in {"none", "asking", "yes", "no"}
  /\ worker \in Workers \union {NoWorker} /\ loading \in Workers \union {NoWorker}
  /\ start \in [Workers -> {"none", "open", "ok", "failing", "failed"}]
  /\ term \subseteq Workers /\ catcher \in [Workers -> Workers \union {NoWorker}]
  /\ registry \subseteq Invocations /\ abortedCalls \subseteq Invocations
  /\ st \in [Invocations -> {"idle", "verifying", "loading", "loaded", "posted", "settled"}]
  /\ of \in [Invocations -> Workers \union {NoWorker}]
  /\ thread \in [Workers -> {"none", "evaluating", "loaded", "broken", "crashed", "dead"}]
  /\ job \in [Invocations -> {"none", "sent", "running", "answered"}]
  /\ overran \subseteq Invocations
  /\ ask \in [Invocations -> {"none", "posted", "handling", "replied"}]

SandboxInit ==
  /\ verified = "none" /\ worker = NoWorker /\ loading = NoWorker
  /\ start = [w \in Workers |-> "none"] /\ term = {}
  /\ catcher = [w \in Workers |-> NoWorker]
  /\ registry = {} /\ abortedCalls = {} /\ overran = {}
  /\ st = [i \in Invocations |-> "idle"] /\ of = [i \in Invocations |-> NoWorker]
  /\ thread = [w \in Workers |-> "none"] /\ job = [i \in Invocations |-> "none"]
  /\ ask = [i \in Invocations |-> "none"]

\* The definitions named Slip... are one-line mistakes in the definition that follows
\* them; each shows that a property of the runs notices it.

Alive(w) == thread[w] \notin {"none", "dead"}
\* No continuation waits for its turn.
Drained == \A i \in Invocations : /\ st[i] # "loaded"
                                  /\ st[i] = "verifying" => verified = "asking"
SettledCalls(S) == st' = [i \in Invocations |-> IF i \in S THEN "settled" ELSE st[i]]
Verifying == "verifying"
To(i, where) == st' = [st EXCEPT ![i] = where]
AwaitStart(S) == {i \in Invocations : st[i] = "loading" /\ of[i] \in S}

-----------------------------------------------------------------------------
(* PluginManager.sandboxFor: the plugin is verified once.                  *)

Request(i) ==
  /\ st[i] = "idle" /\ To(i, Verifying)
  /\ verified' = IF verified = "none" THEN "asking" ELSE verified
  /\ UNCHANGED <<hostVars, registry, of, abortedCalls, workerVars, overran>>

\* Integrity, signature, publisher and the trust provider's decision.
Verify ==
  /\ Drained /\ verified = "asking" /\ verified' \in {"yes", "no"}
  /\ UNCHANGED <<hostVars, callVars, workerVars, overran>>

Refuse(i) ==
  /\ st[i] = "verifying" /\ verified = "no" /\ SettledCalls({i})
  /\ UNCHANGED <<verified, hostVars, registry, of, abortedCalls, workerVars, overran>>

-----------------------------------------------------------------------------
(* run() and load().                                                       *)

\* run() up to its await: the operation, the input and the concurrency are checked, then
\* load() joins the start under way, takes the worker as it is, or starts one.
Loading == loading # NoWorker
RunCall(i) ==
  /\ st[i] = "verifying" /\ verified = "yes"
  /\ \/ SettledCalls({i}) /\ UNCHANGED <<hostVars, of, thread>>
     \/ /\ Cardinality(registry) < Limit
        /\ IF Loading
             THEN /\ To(i, IF start[loading] = "ok" THEN "loaded" ELSE "loading")
                  /\ of' = [of EXCEPT ![i] = loading] /\ UNCHANGED <<hostVars, thread>>
           ELSE IF worker # NoWorker
             THEN /\ To(i, "loaded") /\ of' = [of EXCEPT ![i] = worker]
                  /\ UNCHANGED <<hostVars, thread>>
           ELSE /\ worker' = i /\ loading' = i /\ start' = [start EXCEPT ![i] = "open"]
                /\ thread' = [thread EXCEPT ![i] = "evaluating"]
                /\ To(i, "loading") /\ of' = [of EXCEPT ![i] = i]
                /\ UNCHANGED <<term, catcher>>
  /\ UNCHANGED <<verified, registry, abortedCalls, job, ask, overran>>

\* run() after its await: an aborted signal ends it, otherwise the invocation is
\* registered, its timer starts and the message goes to the worker of this moment.
Post(i) ==
  /\ st[i] = "loaded"
  /\ IF i \in abortedCalls
       THEN SettledCalls({i}) /\ UNCHANGED <<registry, of, job>>
       ELSE /\ To(i, "posted") /\ registry' = registry \union {i}
            /\ of' = [of EXCEPT ![i] = worker]
            /\ job' = [job EXCEPT ![i] = IF worker = NoWorker THEN "none" ELSE "sent"]
  /\ UNCHANGED <<verified, hostVars, abortedCalls, thread, ask, overran>>

-----------------------------------------------------------------------------
(* The ends of a worker's start, and dispose().                            *)

\* dispose() up to its await; without a worker it fails every invocation at once.
Terminating(w) == term \union {w}
DisposeOf(w, u) ==
  /\ worker' = NoWorker /\ loading' = NoWorker
  /\ IF w = NoWorker THEN UNCHANGED <<term, catcher>>
     ELSE term' = Terminating(w) /\ catcher' = [catcher EXCEPT ![w] = u]

HostReady(w) ==
  /\ Drained /\ thread[w] = "loaded" /\ start[w] = "open"
  /\ start' = [start EXCEPT ![w] = "ok"]
  /\ st' = [i \in Invocations |-> IF i \in AwaitStart({w}) THEN "loaded" ELSE st[i]]
  /\ UNCHANGED <<verified, worker, loading, term, catcher, registry, of, abortedCalls, workerVars, overran>>

\* The catch of the start of w, which disposes of the worker of this moment: of w itself
\* only the reference is dropped, so that there is nothing left to terminate.
Other(w) == IF worker = w THEN NoWorker ELSE worker
StartFails(w) ==
  /\ DisposeOf(Other(w), w)
  /\ start' = [start EXCEPT ![w] = IF Other(w) = NoWorker THEN "failed" ELSE "failing"]
FailedNow(w) == IF Other(w) = NoWorker THEN registry \union AwaitStart({w}) ELSE {}

HostInitError(w) ==
  /\ Drained /\ thread[w] = "broken" /\ start[w] = "open"
  /\ StartFails(w) /\ SettledCalls(FailedNow(w)) /\ registry' = registry \ FailedNow(w)
  /\ UNCHANGED <<verified, of, abortedCalls, workerVars, overran>>

\* Five seconds have passed.
StartTimeout(w) ==
  /\ Drained /\ start[w] = "open"
  /\ StartFails(w) /\ SettledCalls(FailedNow(w)) /\ registry' = registry \ FailedNow(w)
  /\ UNCHANGED <<verified, of, abortedCalls, workerVars, overran>>

\* The "exit" event: a thread that was terminated or has crashed is gone, with the
\* messages on their way.  The code is not 0, or dispose() goes on after terminate():
\* either fails every registered invocation.
SlipKeepsWaiting == {}
ExitFails == registry
Exit(w) ==
  /\ Drained /\ thread[w] # "dead" /\ (w \in term \/ thread[w] = "crashed")
  /\ LET awaiting == {u \in Workers : catcher[w] = u}
         open == start[w] = "open"
         failed == awaiting \union {u \in {w} : open /\ Other(w) = NoWorker}
     IN /\ thread' = [thread EXCEPT ![w] = "dead"]
        /\ IF open THEN DisposeOf(Other(w), w)
           ELSE /\ worker' = Other(w) /\ loading' = IF worker = w THEN NoWorker ELSE loading
                /\ UNCHANGED <<term, catcher>>
        /\ start' = [u \in Workers |-> IF u \in failed THEN "failed"
                                       ELSE IF u = w /\ open THEN "failing" ELSE start[u]]
        /\ SettledCalls(ExitFails \union AwaitStart(failed)) /\ registry' = registry \ ExitFails
        /\ job' = [i \in Invocations |-> IF of[i] = w THEN "none" ELSE job[i]]
        /\ ask' = [i \in Invocations |-> IF of[i] = w /\ ask[i] # "handling" THEN "none" ELSE ask[i]]
  /\ UNCHANGED <<verified, of, abortedCalls, overran>>

\* The "error" event of a thread that ends by an uncaught error or its memory limit.
Crash(w) ==
  /\ Drained /\ thread[w] \in {"evaluating", "loaded", "broken"} /\ w \notin term
  /\ thread' = [thread EXCEPT ![w] = "crashed"]
  /\ SettledCalls(registry) /\ registry' = {}
  /\ UNCHANGED <<verified, hostVars, of, abortedCalls, job, ask, overran>>

\* The manager ends with its run.
DisposeSandbox ==
  /\ Drained /\ DisposeOf(worker, NoWorker)
  /\ IF worker = NoWorker THEN SettledCalls(registry) /\ registry' = {} ELSE UNCHANGED <<st, registry>>
  /\ UNCHANGED <<verified, start, of, abortedCalls, workerVars, overran>>

-----------------------------------------------------------------------------
(* The ends of an invocation.                                              *)

Forget(i) == registry \ {i}

\* The caller's signal: before the invocation is registered it is only remembered.
AbortCall(i) ==
  /\ Drained /\ st[i] \in {"verifying", "loading", "posted"} /\ i \notin abortedCalls
  /\ abortedCalls' = abortedCalls \union {i}
  /\ IF st[i] = "posted" THEN registry' = Forget(i) /\ SettledCalls({i}) ELSE UNCHANGED <<registry, st>>
  /\ UNCHANGED <<verified, hostVars, of, workerVars, overran>>

\* timeoutMs have passed: the plugin is out of hand, whatever worker there is goes.
StopPlugin == DisposeOf(worker, NoWorker)
CallTimeout(i) ==
  /\ Drained /\ st[i] = "posted"
  /\ overran' = overran \union {i} /\ StopPlugin
  /\ IF worker = NoWorker THEN SettledCalls(registry \union {i}) /\ registry' = {}
                          ELSE SettledCalls({i}) /\ registry' = registry \ {i}
  /\ UNCHANGED <<verified, start, of, abortedCalls, workerVars>>

\* A result, valid or not, settles the invocation that still waits for it.
HostResult(i) ==
  /\ Drained /\ job[i] = "answered" /\ job' = [job EXCEPT ![i] = "none"]
  /\ SettledCalls(registry \intersect {i}) /\ registry' = registry \ {i}
  /\ UNCHANGED <<verified, hostVars, of, abortedCalls, thread, ask, overran>>

-----------------------------------------------------------------------------
(* The worker thread, and the permissions it asks the host for.            *)

At(i, S) == \E w \in Workers : of[i] = w /\ thread[w] \in S
Running(i) == job[i] = "running" /\ At(i, {"loaded"})
WorkerOnly == UNCHANGED <<verified, hostVars, callVars, overran>>

Evaluate(w) ==
  /\ thread[w] = "evaluating"
  /\ \E end \in {"loaded", "broken"} : thread' = [thread EXCEPT ![w] = end]
  /\ UNCHANGED <<job, ask>> /\ WorkerOnly
\* A message that comes before the plugin is loaded is answered with an error.
WorkerRun(i) ==
  /\ job[i] = "sent" /\ At(i, {"evaluating", "loaded", "broken"})
  /\ job' = [job EXCEPT ![i] = IF At(i, {"loaded"}) THEN "running" ELSE "answered"]
  /\ UNCHANGED <<thread, ask>> /\ WorkerOnly
WorkerAnswer(i) ==
  /\ Running(i) /\ job' = [job EXCEPT ![i] = "answered"]
  /\ UNCHANGED <<thread, ask>> /\ WorkerOnly
\* context.call, which the plugin need not await.  Once the abort message has come it
\* throws (checkAborted); since nothing makes a plugin ask, and nothing else shows when
\* the message came, that changes no behaviour and has no step of its own.
AskPermission(i) ==
  /\ Running(i) /\ ask[i] = "none" /\ ask' = [ask EXCEPT ![i] = "posted"]
  /\ UNCHANGED <<thread, job>> /\ WorkerOnly
WorkerReply(i) ==
  /\ ask[i] = "replied" /\ At(i, {"loaded"}) /\ ask' = [ask EXCEPT ![i] = "none"]
  /\ UNCHANGED <<thread, job>> /\ WorkerOnly

\* The reply goes to the worker of this moment, which knows its own questions only.
Replied(i) == IF worker = of[i] /\ worker # NoWorker /\ Alive(worker) THEN "replied" ELSE "none"
Denied(i) == Replied(i)
\* dispatch up to its await: an expired or aborted invocation, or a permission that was
\* not declared or granted, is answered with an error; the others go to the handler.
HostPermission(i) ==
  /\ Drained /\ ask[i] = "posted"
  /\ \E answer \in {Denied(i)} \union (IF i \in registry /\ i \notin abortedCalls THEN {"handling"} ELSE {}) :
       ask' = [ask EXCEPT ![i] = answer]
  /\ UNCHANGED <<thread, job>> /\ WorkerOnly
HandlerDone(i) ==
  /\ Drained /\ ask[i] = "handling" /\ ask' = [ask EXCEPT ![i] = Replied(i)]
  /\ UNCHANGED <<thread, job>> /\ WorkerOnly

-----------------------------------------------------------------------------
Continuation == \E i \in Invocations : Refuse(i) \/ RunCall(i) \/ Post(i)
WorkerStep(w) == HostReady(w) \/ HostInitError(w) \/ StartTimeout(w) \/ Exit(w)
Permission(i) == HostPermission(i) \/ HandlerDone(i) \/ WorkerReply(i)

SandboxNext ==
  \/ Verify \/ Continuation \/ DisposeSandbox
  \/ \E w \in Workers : WorkerStep(w) \/ Crash(w) \/ Evaluate(w)
  \/ \E i \in Invocations : \/ Request(i) \/ AbortCall(i) \/ CallTimeout(i) \/ HostResult(i)
                            \/ WorkerRun(i) \/ WorkerAnswer(i) \/ AskPermission(i)
                            \/ Permission(i)

SandboxSpec == SandboxInit /\ [][SandboxNext]_sandboxVars

\* Continuations run, timers fire, terminate() ends the thread, and whoever is asked for
\* trust or by a permission handler answers.  What the plugin does is not fair.
SandboxFairness ==
  /\ WF_sandboxVars(Verify) /\ WF_sandboxVars(Continuation)
  /\ \A w \in Workers : WF_sandboxVars(WorkerStep(w))
  /\ \A i \in Invocations : WF_sandboxVars(CallTimeout(i)) /\ WF_sandboxVars(Permission(i))
SandboxFairSpec == SandboxSpec /\ SandboxFairness

-----------------------------------------------------------------------------
(* Properties.                                                             *)

\* An invocation is posted to a worker whose plugin is loaded.  The code has one
\* exception: the start a call awaits ends well, while its worker was disposed of and
\* the next one, which gets the call's message, is still loading (load's two returns).
PostedToReady ==
  \A i \in registry : \/ of[i] = NoWorker \/ start[of[i]] = "ok"
                     \/ \E w \in term : w # of[i]

\* A registered invocation has a worker that lives, or one that is on its way out and
\* fails every registered invocation when it ends: none outlives its worker (failAll).
RegistryServed ==
  \A i \in registry : \E w \in Workers : Alive(w) /\ IF of[i] = NoWorker THEN w \in term
                                                                        ELSE w = of[i]

\* The registry, whose size is the concurrency that run() checks, holds exactly the
\* invocations whose caller still waits for a result.
RegistryWaits == registry = {i \in Invocations : st[i] = "posted"}

\* Every thread is the sandbox's worker, is being terminated, has crashed, or never
\* finished its start: a dispose that meets a start or a second dispose loses none.
ThreadsKnown ==
  \A w \in Workers : Alive(w) =>
    worker = w \/ w \in term \/ thread[w] = "crashed" \/ start[w] \in {"failing", "failed"}

\* Every call of run() settles, although the plugin, its worker and the start may hang,
\* fail or be disposed of at any time (the timers of load and run, failAll).
CallsSettle == \A i \in Invocations : (st[i] # "idle") ~> (st[i] = "settled")

\* The calls as their callers see them: module PluginCalls.
Called ==
  [i \in Invocations |-> IF st[i] = "idle" THEN "none" ELSE IF st[i] = "posted" THEN "working"
                         ELSE IF st[i] = "settled" THEN "answered" ELSE "asked"]
Caller == INSTANCE PluginCalls WITH Calls <- Invocations, call <- Called, left <- abortedCalls
CallsAnswered == Caller!Spec

\* USAGE.md: runAiFile releases package resources.  When the sandbox was disposed of and
\* everything it terminates has ended, no thread is left.
NothingLeft ==
  worker = NoWorker /\ (\A w \in term : ~Alive(w)) /\ (\A i \in Invocations : st[i] = "settled")
    => \A w \in Workers : ~Alive(w) \/ thread[w] = "crashed"
=============================================================================
