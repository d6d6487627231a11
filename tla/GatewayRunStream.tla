-------------------------- MODULE GatewayRunStream --------------------------
(***************************************************************************)
(* The stream of ONE run and the clients that watch it over IPC.  The run  *)
(* appends frames to streams/<run>.ndjson through the promise chain        *)
(* StreamState.tail and records the last sequence when it ends; a watcher  *)
(* polls the log, then the record, until it has both; the server writes    *)
(* what the watcher yields to the socket and closes it with the record     *)
(* that the run's completion promise brings; the client remembers the      *)
(* last sequence it consumed and may subscribe again after it.             *)
(*                                                                         *)
(* Frames are numbered from 1.  Only the frame numbers matter: the text    *)
(* projection of an event stream drops values, never reorders them.        *)
(***************************************************************************)
EXTENDS Naturals, Sequences, FiniteSets

CONSTANTS Clients,
          MaxFrames,   \* bound: frames of the run; in the code the log's 4 MiB
          MaxSubs,     \* bound: subscriptions of a client
          MaxFaults    \* bound: failing reads and writes, and restarts of the process

ASSUME ConstantsAssumption == MaxFrames \in Nat /\ MaxSubs \in Nat /\ MaxFaults \in Nat

VARIABLES
  pc,         \* the run: executor.start/execute between two awaits
  rec,        \* its record in runs.json: [status, last]
  seq, wrote, \* StreamState.sequence; appends of the tail that are done
  broken,     \* an append failed: the tail is rejected for good
  log,        \* the file: [present, frames]
  resolved,   \* stream.complete has resolved the promise of start and dropped it
  keep,       \* stream.cleanup between its list of runs and its removals
  expired,    \* the run is past the retention (7 days, 100 newer runs)
  at, cursor, buf, stored, wait, \* a subscription in the server, see Subscribe
  chan,       \* frames the server wrote to the socket and the client has not read
  ending,     \* the line with which the server ended the socket
  got,        \* frames the client consumed, over all its subscriptions
  result,     \* how the client's subscription ended
  subs, faults,
  torn,       \* history: cleanup removed the log of a run that was not finished
  unwritten   \* history: of this process, the last write of the final record failed

runVars    == <<pc, rec, seq, wrote, broken, resolved, unwritten>>
serverVars == <<at, cursor, buf, stored, wait, ending>>
clientVars == <<chan, got, result, subs>>
vars == <<runVars, log, keep, expired, serverVars, clientVars, faults, torn>>

Frames == 1..MaxFrames
NoLog  == [present |-> FALSE, frames |-> {}]
Finished == rec.status = "final"
Endings == {"none", "done", "expired", "incomplete"}
Empty   == [c \in Clients |-> <<>>]
Nothing == [c \in Clients |-> {}]
Largest(S) == CHOOSE f \in S : \A g \in S : g <= f

TypeOK ==
  /\ pc \in {"new", "queued", "starting", "clearing", "executing", "draining", "recording",
             "failing", "unrecorded", "completing", "over", "lost"}
  /\ rec \in [status : {"none", "queued", "running", "final"}, last : 0..MaxFrames]
  /\ seq \in 0..MaxFrames /\ wrote \in 0..MaxFrames /\ broken \in BOOLEAN /\ resolved \in BOOLEAN
  /\ log \in [present : BOOLEAN, frames : SUBSET Frames]
  /\ keep \in {"idle", "keep", "drop"} /\ expired \in BOOLEAN
  /\ at \in [Clients -> {"none", "read", "yield", "settle", "closed"}]
  /\ cursor \in [Clients -> 0..MaxFrames] /\ buf \in [Clients -> SUBSET Frames]
  /\ stored \in [Clients -> {"absent", "empty", "some"}]
  /\ wait \in [Clients -> {"none", "ask", "known", "unknown", "promise", "orphan"}]
  /\ chan \in [Clients -> Seq(Frames)] /\ got \in [Clients -> Seq(Frames)]
  /\ ending \in [Clients -> Endings] /\ result \in [Clients -> Endings]
  /\ subs \in [Clients -> 0..MaxSubs] /\ faults \in 0..MaxFaults
  /\ torn \in BOOLEAN /\ unwritten \in BOOLEAN

Init ==
  /\ pc = "new" /\ rec = [status |-> "none", last |-> 0]
  /\ seq = 0 /\ wrote = 0 /\ broken = FALSE /\ log = NoLog /\ resolved = FALSE
  /\ keep = "idle" /\ expired = FALSE
  /\ at = [c \in Clients |-> "none"] /\ cursor = [c \in Clients |-> 0] /\ buf = Nothing
  /\ stored = [c \in Clients |-> "absent"] /\ wait = [c \in Clients |-> "none"]
  /\ chan = Empty /\ ending = [c \in Clients |-> "none"] /\ got = Empty
  /\ result = [c \in Clients |-> "none"]
  /\ subs = [c \in Clients |-> 0] /\ faults = 0 /\ torn = FALSE /\ unwritten = FALSE

\* The definitions named Slip... are one-line mistakes in the definition that follows
\* them; each shows that a property of the runs notices it.

-----------------------------------------------------------------------------
(* The run.                                                                *)

Run(from, to) == pc = from /\ pc' = to
Recorded(st, last) == rec' = [status |-> st, last |-> last]
Others == UNCHANGED <<keep, expired, serverVars, clientVars, torn>>
RunOnly == Others /\ UNCHANGED unwritten
\* A read or a write of the app's files rejects and leaves them as they were.
Fails == faults < MaxFaults /\ faults' = faults + 1
Works == UNCHANGED faults

\* start() records the run as queued behind another one, or as running.
Queue == /\ Run("new", "queued") /\ Recorded("queued", 0)
         /\ UNCHANGED <<seq, wrote, broken, log, resolved, faults>> /\ RunOnly
Start == /\ Run("new", "starting") /\ Recorded("running", 0)
         /\ UNCHANGED <<seq, wrote, broken, log, resolved, faults>> /\ RunOnly
Launch == /\ Run("queued", "starting") /\ UNCHANGED <<rec, seq, wrote, broken, log, resolved, faults>>
          /\ RunOnly

\* cancelPending and, for a disabled app, launchNext take the run from its queue, read its
\* record and settle it; after a failure nobody completes the run.
Settle == /\ pc = "queued"
          /\ \/ pc' = "completing" /\ Recorded("final", 0) /\ Works /\ UNCHANGED unwritten
             \/ pc' = "lost" /\ unwritten' = TRUE /\ Fails /\ UNCHANGED rec
          /\ UNCHANGED <<seq, wrote, broken, log, resolved>> /\ Others

\* execute: the record says running, the records are read and an old log goes, the stream
\* state is created.
ExecuteRunning == /\ \/ Run("starting", "clearing") /\ Recorded("running", 0) /\ Works
                     \/ Run("starting", "failing") /\ Fails /\ UNCHANGED rec
                  /\ UNCHANGED <<seq, wrote, broken, log, resolved>> /\ RunOnly
ExecuteClear == /\ \/ Run("clearing", "executing") /\ log' = NoLog /\ Works
                   \/ Run("clearing", "failing") /\ Fails /\ UNCHANGED log
                /\ UNCHANGED <<rec, seq, wrote, broken, resolved>> /\ RunOnly

\* append counts the frame at once and writes it when the tail gets there.
AppendFrame == /\ pc = "executing" /\ seq < MaxFrames /\ seq' = seq + 1
               /\ UNCHANGED <<pc, rec, wrote, broken, log, resolved, faults>> /\ RunOnly
Flush == /\ wrote < seq /\ ~broken /\ pc \in {"executing", "draining"}
         /\ wrote' = wrote + 1
         /\ log' = [present |-> TRUE, frames |-> log.frames \union {wrote + 1}]
         /\ UNCHANGED <<pc, rec, seq, broken, resolved, faults>> /\ RunOnly
FlushFails == /\ wrote < seq /\ ~broken /\ pc \in {"executing", "draining"}
              /\ Fails /\ broken' = TRUE
              /\ UNCHANGED <<pc, rec, seq, wrote, log, resolved>> /\ RunOnly

\* The trigger's flow settles, by itself, by an abort or by the size limit; then the
\* tail is awaited, the record written, and the completion resolved.
ExecuteTrigger == /\ Run("executing", "draining")
                  /\ UNCHANGED <<rec, seq, wrote, broken, log, resolved, faults>> /\ RunOnly
TailSettled == broken \/ wrote = seq
ExecuteTail == /\ Run("draining", "recording") /\ TailSettled
               /\ UNCHANGED <<rec, seq, wrote, broken, log, resolved, faults>> /\ RunOnly
ExecuteEnd == /\ \/ Run("recording", "completing") /\ Recorded("final", seq) /\ Works
                 \/ Run("recording", "unrecorded") /\ Fails /\ UNCHANGED rec
              /\ UNCHANGED <<seq, wrote, broken, log, resolved>> /\ RunOnly

\* failLaunch settles the record that is on disk, which counts no frame.  Its own write may
\* fail as well: that is swallowed and the run completed all the same.  Unless the record
\* cannot be read either: the one in memory is final after the end of execute, and
\* failLaunch leaves.
FailLaunch ==
  /\ pc \in {"failing", "unrecorded"}
  /\ \/ pc' = "completing" /\ Recorded("final", rec.last) /\ UNCHANGED unwritten
     \/ pc' = "completing" /\ unwritten' = TRUE /\ UNCHANGED rec
     \/ pc = "unrecorded" /\ pc' = "lost" /\ unwritten' = TRUE /\ UNCHANGED rec
  /\ UNCHANGED <<seq, wrote, broken, log, resolved, faults>> /\ Others
SlipNotResolved == FALSE
Resolves == TRUE
SlipBeforeUpsert == {"recording", "completing"}
CompleteAfter == {"completing"}
Complete == /\ pc \in CompleteAfter /\ pc' = "over" /\ resolved' = Resolves
            /\ UNCHANGED <<rec, seq, wrote, broken, log, faults>> /\ RunOnly

-----------------------------------------------------------------------------
(* cleanup, by every tick and after every run: the list of runs is read,   *)
(* then the logs that are not of a run to keep are removed.                *)

\* Only a run that is over ages past the retention here: none waits or runs for 7 days.
Expire == /\ pc \in {"completing", "over", "lost"} /\ ~expired /\ expired' = TRUE
          /\ UNCHANGED <<runVars, log, keep, serverVars, clientVars, faults, torn>>
CleanupList == /\ keep = "idle"
               /\ keep' = IF rec.status # "none" /\ ~expired THEN "keep" ELSE "drop"
               /\ UNCHANGED <<runVars, log, expired, serverVars, clientVars, faults, torn>>
CleanupRemove == /\ keep # "idle" /\ keep' = "idle"
                 /\ log' = IF keep = "drop" THEN NoLog ELSE log
                 /\ torn' = (torn \/ (keep = "drop" /\ log.present /\ ~expired))
                 /\ UNCHANGED <<runVars, expired, serverVars, clientVars, faults>>

-----------------------------------------------------------------------------
(* watchGatewayRun and serveGatewayRunStream.                              *)

ServerOnly == UNCHANGED <<runVars, log, keep, expired, got, result, subs, faults, torn>>

\* The watcher starts at the client's cursor; waitForRun is called at the same time.
SlipFromTheStart(c) == 0
Consumed(c) == IF got[c] = <<>> THEN 0 ELSE got[c][Len(got[c])]
Subscribe(c) ==
  /\ at[c] = "none" /\ subs[c] < MaxSubs /\ rec.status # "none" /\ ~(Finished /\ expired)
  /\ at' = [at EXCEPT ![c] = "read"] /\ wait' = [wait EXCEPT ![c] = "ask"]
  /\ cursor' = [cursor EXCEPT ![c] = Consumed(c)]
  /\ subs' = [subs EXCEPT ![c] = subs[c] + 1] /\ result' = [result EXCEPT ![c] = "none"]
  /\ UNCHANGED <<runVars, log, keep, expired, buf, stored, ending, chan, got, faults, torn>>

\* waitForRun reads the record, then asks for the completion: of a run that has
\* completed in between it gets a new promise that nobody resolves.
WaitRead(c) == /\ wait[c] = "ask"
               /\ wait' = [wait EXCEPT ![c] = IF Finished THEN "known" ELSE "unknown"]
               /\ UNCHANGED <<at, cursor, buf, stored, ending, chan>> /\ ServerOnly
WaitJoin(c) == /\ wait[c] = "unknown"
               /\ wait' = [wait EXCEPT ![c] = IF resolved THEN "orphan" ELSE "promise"]
               /\ UNCHANGED <<at, cursor, buf, stored, ending, chan>> /\ ServerOnly

\* iterate: the frames after the cursor, yielded in their order; the cursor is past them
\* before the first is yielded.
After(n) == {f \in log.frames : f > n}
ReadFrames(c) ==
  LET new == After(cursor[c])
  IN /\ at[c] = "read" /\ at' = [at EXCEPT ![c] = "yield"]
     /\ buf' = [buf EXCEPT ![c] = new]
     /\ cursor' = [cursor EXCEPT ![c] = IF new = {} THEN cursor[c] ELSE Largest(new)]
     /\ stored' = [stored EXCEPT ![c] =
          IF ~log.present THEN "absent" ELSE IF new = {} THEN "empty" ELSE "some"]
     /\ UNCHANGED <<wait, ending, chan>> /\ ServerOnly

Yield(c) == /\ at[c] = "yield"
            /\ \E f \in buf[c] : /\ \A g \in buf[c] : f <= g
                               /\ chan' = [chan EXCEPT ![c] = Append(chan[c], f)]
                               /\ buf' = [buf EXCEPT ![c] = buf[c] \ {f}]
            /\ UNCHANGED <<at, cursor, stored, wait, ending>> /\ ServerOnly

\* The record, read after the frames: a finished run with frames missing is an error,
\* unless this pass brought some; a finished run with none missing ends the stream.
SlipFinishedEnds(c) == FALSE
Missing(c) == cursor[c] < rec.last
Outcome(c) == IF ~Finished THEN "read"
              ELSE IF ~Missing(c) THEN "settle"
              ELSE IF stored[c] = "absent" THEN "expired"
              ELSE IF stored[c] = "empty" THEN "incomplete" ELSE "read"
ReadRecord(c) ==
  /\ at[c] = "yield" /\ buf[c] = {}
  /\ IF Outcome(c) \in {"expired", "incomplete"}
       THEN /\ at' = [at EXCEPT ![c] = "closed"]
            /\ ending' = [ending EXCEPT ![c] = Outcome(c)]
       ELSE at' = [at EXCEPT ![c] = Outcome(c)] /\ UNCHANGED ending
  /\ UNCHANGED <<cursor, buf, stored, wait, chan>> /\ ServerOnly

Finish(c) == /\ at[c] = "settle" /\ (wait[c] = "known" \/ (wait[c] = "promise" /\ resolved))
             /\ at' = [at EXCEPT ![c] = "closed"]
             /\ ending' = [ending EXCEPT ![c] = "done"]
             /\ UNCHANGED <<cursor, buf, stored, wait, chan>> /\ ServerOnly

-----------------------------------------------------------------------------
(* GatewayRunStreamConnection, the client's end of the socket.             *)

Closed(c) == /\ at' = [at EXCEPT ![c] = "none"] /\ wait' = [wait EXCEPT ![c] = "none"]
             /\ buf' = [buf EXCEPT ![c] = {}] /\ chan' = [chan EXCEPT ![c] = <<>>]
             /\ cursor' = [cursor EXCEPT ![c] = 0] /\ stored' = [stored EXCEPT ![c] = "absent"]
             /\ ending' = [ending EXCEPT ![c] = "none"]

Consume(c) == /\ chan[c] # <<>>
              /\ got' = [got EXCEPT ![c] = Append(got[c], Head(chan[c]))]
              /\ chan' = [chan EXCEPT ![c] = Tail(chan[c])]
              /\ UNCHANGED <<runVars, log, keep, expired, serverVars, result, subs, faults, torn>>
Ended(c) == /\ chan[c] = <<>> /\ ending[c] # "none"
            /\ result' = [result EXCEPT ![c] = ending[c]] /\ Closed(c)
            /\ UNCHANGED <<runVars, log, keep, expired, got, subs, faults, torn>>
\* The consumer stops, aborts, or the connection is lost: unread frames go with it.
Cut(c) == /\ at[c] # "none" /\ Closed(c)
          /\ UNCHANGED <<runVars, log, keep, expired, got, result, subs, faults, torn>>

\* The process dies and the next one cancels what the record left open.
Restart ==
  /\ rec.status # "none" /\ faults < MaxFaults /\ faults' = faults + 1
  /\ pc' = "over" /\ rec' = [status |-> "final", last |-> rec.last] /\ resolved' = TRUE
  /\ keep' = "idle" /\ unwritten' = FALSE
  /\ at' = [c \in Clients |-> "none"] /\ wait' = [c \in Clients |-> "none"]
  /\ cursor' = [c \in Clients |-> 0] /\ buf' = Nothing /\ chan' = Empty
  /\ stored' = [c \in Clients |-> "absent"] /\ ending' = [c \in Clients |-> "none"]
  /\ UNCHANGED <<seq, wrote, broken, log, expired, got, result, subs, torn>>

\* What takes a run into and out of its queue, and what a run that has been launched does.
QueueStep == Queue \/ Start \/ Launch \/ Settle
RunStep == \/ ExecuteRunning \/ ExecuteClear \/ Flush \/ FlushFails \/ ExecuteTrigger
           \/ ExecuteTail \/ ExecuteEnd \/ FailLaunch \/ Complete
ServerStep(c) == \/ WaitRead(c) \/ WaitJoin(c) \/ ReadFrames(c) \/ Yield(c)
                 \/ ReadRecord(c) \/ Finish(c)

Next == \/ QueueStep \/ RunStep \/ AppendFrame
        \/ Expire \/ CleanupList \/ CleanupRemove
        \/ \E c \in Clients : Subscribe(c) \/ ServerStep(c) \/ Consume(c) \/ Ended(c) \/ Cut(c)
        \/ Restart

Spec == Init /\ [][Next]_vars

\* The event loop runs every continuation of a launched run, flows settle, clients read
\* their sockets.  Nothing makes a queued run go on: the run before it may have failed to
\* launch, and failLaunch never looks at the queue.
Fairness == /\ WF_vars(RunStep)
            /\ \A c \in Clients : /\ WF_vars(WaitRead(c) \/ WaitJoin(c))
                                  /\ WF_vars(ReadFrames(c) \/ Yield(c) \/ ReadRecord(c) \/ Finish(c))
                                  /\ WF_vars(Consume(c) \/ Ended(c))
FairSpec == Spec /\ Fairness

-----------------------------------------------------------------------------
(* Properties.                                                             *)

\* Over all its subscriptions a client consumes the frames in their order, none twice,
\* and none is left out unless cleanup removed the log of the running run (cursor of
\* GatewayRunStreamConnection against cursor of GatewayRunWatcher).
InOrder == \A c \in Clients : \A i \in DOMAIN got[c] :
             IF torn THEN i > 1 => got[c][i - 1] < got[c][i] ELSE got[c][i] = i

\* A client that is told that the run is done has consumed every frame the record
\* counts, whatever was cut, failed to append or restarted (iterate's last condition).
DoneMeansAll == \A c \in Clients :
                  result[c] = "done" => Finished /\ (~torn => Len(got[c]) >= rec.last)

\* Whoever awaits the completion finds the final record in runs.json (execute's order),
\* unless the disk refused it and failLaunch swallowed that.
CompletionAfterRecord ==
  \A c \in Clients : /\ wait[c] = "known" => Finished
                     /\ wait[c] = "promise" /\ resolved => Finished \/ unwritten

\* A subscription to a run that is not queued ends, unless waitForRun came between the
\* record and complete, or the run's final record was never written.
NoOrphan == \A c \in Clients : wait[c] # "orphan"
WatchEnds == \A c \in Clients : (at[c] # "none" /\ pc # "queued")
                                ~> (at[c] = "none" \/ ~NoOrphan \/ unwritten)

\* The log of a run that lacks no frame is never reported as expired or incomplete.
NoFalseLoss ==
  \A c \in Clients : result[c] \in {"expired", "incomplete"} =>
                       torn \/ expired \/ broken \/ log.frames # 1..rec.last
=============================================================================
