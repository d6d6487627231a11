------------------------- MODULE GatewayDaemon_proofs -------------------------
(***************************************************************************)
(* Proofs about the daemon: the stream of a run (GatewayRunStream), for    *)
(* any number of clients, frames, subscriptions, failing reads and writes  *)
(* and restarts; its lock, socket and token (GatewayDoor), for any number of   *)
(* daemons, any of which may crash, stall or fail, any number of waits,    *)
(* and one call; and its schedule (GatewaySchedule), for any fields and    *)
(* expressions, any wall clock, and any number of crashes.                 *)
(***************************************************************************)
EXTENDS GatewayRunStream, GatewayDoor, GatewaySchedule, FiniteSetTheorems, SequenceTheorems, Recursion, TLAPS

-----------------------------------------------------------------------------
(* The stream of a run and its watchers.                                   *)

\* The frames a client has consumed and those it will find in its socket.
Seen(c) == got[c] \o chan[c]
Rising(s) == \A i, j \in DOMAIN s : i < j => s[i] < s[j]
Counts(s) == \A i \in DOMAIN s : s[i] = i

\* The run: its record is final when it completes, unless the disk refused it, and stays
\* final.
RunInv ==
  /\ Finished => pc \in {"completing", "over"}
  /\ pc \in {"completing", "over"} => Finished \/ unwritten
  /\ rec.status = "none" <=> pc = "new"
  /\ resolved => pc = "over"
  /\ expired => pc \in {"completing", "over", "lost"}
  /\ pc \in {"new", "queued", "starting", "clearing"} => wrote = 0 /\ seq = 0
  /\ wrote <= seq

\* The log holds the last frames that were written; all of them unless it was torn.
LogInv ==
  /\ log.frames \subseteq 1 .. wrote
  /\ log.frames # {} => wrote \in log.frames /\ log.present
  /\ ~torn => log.frames = 1 .. wrote \/ (expired /\ log.frames = {})

\* A subscription: its frames rise up to the cursor, and without a torn log they count.
WatchInv(c) ==
  /\ Rising(Seen(c)) /\ (~torn => Counts(Seen(c)))
  /\ at[c] = "none" => chan[c] = <<>> /\ buf[c] = {} /\ ending[c] = "none" /\ wait[c] = "none"
  /\ at[c] # "yield" => buf[c] = {}
  /\ at[c] # "none" => /\ \A i \in DOMAIN Seen(c) : Seen(c)[i] <= cursor[c]
                       /\ \A i \in DOMAIN Seen(c), f \in buf[c] : Seen(c)[i] < f
                       /\ \A f \in buf[c] : f <= cursor[c]
                       /\ ~torn => buf[c] = Len(Seen(c)) + 1 .. cursor[c] /\ Len(Seen(c)) <= cursor[c]

\* What a client is told: the record is final and nothing of it is missing.
EndInv(c) ==
  /\ wait[c] = "known" => Finished
  /\ at[c] = "settle" => Finished /\ rec.last <= cursor[c]
  /\ ending[c] # "none" => at[c] = "closed"
  /\ ending[c] = "done" => Finished /\ (~torn => rec.last <= Len(Seen(c)))
  /\ result[c] = "done" => Finished /\ (~torn => rec.last <= Len(got[c]))

StreamInv == TypeOK /\ RunInv /\ LogInv /\ \A c \in Clients : WatchInv(c) /\ EndInv(c)

-----------------------------------------------------------------------------
(* Sequences of frames.                                                    *)

LEMMA ConsumeSame ==
  ASSUME NEW s \in Seq(Frames), NEW t \in Seq(Frames), t # <<>>
  PROVE  Append(s, Head(t)) \o Tail(t) = s \o t
<1>. DEFINE u == Append(s, Head(t)) \o Tail(t)
<1>1. Head(t) \in Frames /\ Tail(t) \in Seq(Frames) /\ Len(Tail(t)) = Len(t) - 1
      /\ Head(t) = t[1] /\ \A i \in 1 .. Len(Tail(t)) : Tail(t)[i] = t[i + 1]
  BY HeadTailProperties
<1>2. /\ Append(s, Head(t)) \in Seq(Frames) /\ Len(Append(s, Head(t))) = Len(s) + 1
      /\ \A i \in 1 .. Len(s) + 1 : Append(s, Head(t))[i] = IF i <= Len(s) THEN s[i] ELSE Head(t)
  BY <1>1
<1>3. Len(s) \in Nat /\ Len(t) \in Nat
  BY LenProperties
<1>4. /\ u \in Seq(Frames) /\ Len(u) = Len(s) + Len(t)
      /\ \A i \in 1 .. Len(s) + Len(t) :
           u[i] = IF i <= Len(s) + 1 THEN Append(s, Head(t))[i] ELSE Tail(t)[i - (Len(s) + 1)]
  <2>. HIDE DEF u
  <2>. QED  BY <1>1, <1>2, <1>3, ConcatProperties DEF u
<1>5. /\ s \o t \in Seq(Frames) /\ Len(s \o t) = Len(s) + Len(t)
      /\ \A i \in 1 .. Len(s) + Len(t) : (s \o t)[i] = IF i <= Len(s) THEN s[i] ELSE t[i - Len(s)]
  BY ConcatProperties
<1>6. ASSUME NEW i \in 1 .. Len(s) + Len(t) PROVE u[i] = (s \o t)[i]
  <2>. HIDE DEF u
  <2>1. CASE i <= Len(s)
    BY <1>2, <1>3, <1>4, <1>5, <2>1
  <2>2. CASE i = Len(s) + 1
    BY <1>1, <1>2, <1>3, <1>4, <1>5, <2>2
  <2>3. CASE i > Len(s) + 1
    BY <1>1, <1>3, <1>4, <1>5, <2>3
  <2>. QED  BY <1>3, <2>1, <2>2, <2>3
<1>. HIDE DEF u
<1>7. u = s \o t
  BY <1>4, <1>5, <1>6, SeqEqual
<1>. QED  BY <1>7 DEF u

LEMMA YieldSame ==
  ASSUME NEW s \in Seq(Frames), NEW t \in Seq(Frames), NEW f \in Frames
  PROVE  s \o Append(t, f) = Append(s \o t, f)
<1>1. Append(t, f) = t \o <<f>> /\ <<f>> \in Seq(Frames) /\ s \o t \in Seq(Frames)
  BY AppendIsConcat, ConcatProperties
<1>2. Append(s \o t, f) = (s \o t) \o <<f>>
  BY <1>1, AppendIsConcat
<1>. QED  BY <1>1, <1>2, ConcatAssociative

\* What is added at the end of a rising sequence lets it rise, and counts on.
LEMMA AppendRises ==
  ASSUME NEW s \in Seq(Frames), NEW f \in Frames, \A i \in DOMAIN s : s[i] < f
  PROVE  /\ Rising(s) => Rising(Append(s, f))
         /\ Counts(s) /\ f = Len(s) + 1 => Counts(Append(s, f))
         /\ Len(Append(s, f)) = Len(s) + 1
         /\ \A i \in DOMAIN Append(s, f) : (i \in DOMAIN s /\ Append(s, f)[i] = s[i]) \/ Append(s, f)[i] = f
<1>1. /\ DOMAIN s = 1 .. Len(s) /\ Len(s) \in Nat /\ DOMAIN Append(s, f) = 1 .. Len(s) + 1
      /\ Len(Append(s, f)) = Len(s) + 1
      /\ \A i \in 1 .. Len(s) : Append(s, f)[i] = s[i]
      /\ Append(s, f)[Len(s) + 1] = f
  OBVIOUS
<1>. QED  BY <1>1 DEF Rising, Counts

\* The consumed frames are a prefix of the seen ones.
LEMMA PrefixRises ==
  ASSUME NEW s \in Seq(Frames), NEW t \in Seq(Frames)
  PROVE  /\ Rising(s \o t) => Rising(s)
         /\ Counts(s \o t) => Counts(s)
         /\ \A n : (\A i \in DOMAIN (s \o t) : (s \o t)[i] <= n) => \A i \in DOMAIN s : s[i] <= n
<1>1. /\ DOMAIN s = 1 .. Len(s) /\ Len(s) \in Nat /\ Len(t) \in Nat
      /\ DOMAIN (s \o t) = 1 .. Len(s) + Len(t)
      /\ \A i \in 1 .. Len(s) : (s \o t)[i] = s[i]
  BY ConcatProperties, LenProperties
<1>. QED  BY <1>1 DEF Rising, Counts

-----------------------------------------------------------------------------
(* The run and its log.                                                    *)

Clientside == <<at, cursor, buf, stored, wait, chan, ending, got, result, subs>>
\* What a step of the run or of cleanup leaves to the clients.
Stays == (torn => torn') /\ (Finished => Finished' /\ rec' = rec)
RunTypeOK ==
  /\ pc \in {"new", "queued", "starting", "clearing", "executing", "draining", "recording",
             "failing", "unrecorded", "completing", "over", "lost"}
  /\ rec \in [status : {"none", "queued", "running", "final"}, last : 0..MaxFrames]
  /\ seq \in 0..MaxFrames /\ wrote \in 0..MaxFrames /\ broken \in BOOLEAN /\ resolved \in BOOLEAN
  /\ log \in [present : BOOLEAN, frames : SUBSET Frames]
  /\ keep \in {"idle", "keep", "drop"} /\ expired \in BOOLEAN
  /\ faults \in 0..MaxFaults
  /\ torn \in BOOLEAN /\ unwritten \in BOOLEAN
ClientTypeOK ==
  /\ at \in [Clients -> {"none", "read", "yield", "settle", "closed"}]
  /\ cursor \in [Clients -> 0..MaxFrames] /\ buf \in [Clients -> SUBSET Frames]
  /\ stored \in [Clients -> {"absent", "empty", "some"}]
  /\ wait \in [Clients -> {"none", "ask", "known", "unknown", "promise", "orphan"}]
  /\ chan \in [Clients -> Seq(Frames)] /\ got \in [Clients -> Seq(Frames)]
  /\ ending \in [Clients -> Endings] /\ result \in [Clients -> Endings]
  /\ subs \in [Clients -> 0..MaxSubs]

LEMMA StreamTypeParts == TypeOK <=> RunTypeOK /\ ClientTypeOK
BY DEF TypeOK, RunTypeOK, ClientTypeOK

LEMMA RunMoves ==
  ASSUME RunTypeOK, RunInv, LogInv, QueueStep \/ RunStep \/ AppendFrame
  PROVE  /\ RunTypeOK' /\ RunInv' /\ LogInv' /\ Stays /\ UNCHANGED Clientside
<1>. USE ConstantsAssumption DEF RunTypeOK, RunInv, LogInv, Stays, Clientside, Finished,
         RunOnly, Others, Fails, Works, serverVars, clientVars, Run, Recorded
<1>1. CASE Queue
  BY <1>1 DEF Queue
<1>2. CASE Start
  BY <1>2 DEF Start
<1>3. CASE Launch
  BY <1>3 DEF Launch
<1>4. CASE ExecuteRunning
  <2>1. /\ pc = "starting" /\ pc' \in {"clearing", "failing"} /\ faults' \in 0..MaxFaults
        /\ rec' = [status |-> "running", last |-> 0] \/ rec' = rec
        /\ UNCHANGED <<seq, wrote, broken, log, resolved, keep, expired, torn, unwritten>> /\ UNCHANGED Clientside
    BY <1>4 DEF ExecuteRunning
  <2>. QED  BY <2>1
<1>5. CASE ExecuteClear
  <2>1. /\ pc = "clearing" /\ pc' \in {"executing", "failing"} /\ faults' \in 0..MaxFaults
        /\ UNCHANGED <<rec, seq, wrote, broken, resolved, keep, expired, torn, unwritten>> /\ UNCHANGED Clientside
        /\ log' = NoLog \/ log' = log
    BY <1>5 DEF ExecuteClear
  <2>2. NoLog.frames = {} /\ NoLog \in [present : BOOLEAN, frames : SUBSET Frames]
    BY DEF NoLog
  <2>3. LogInv' /\ RunTypeOK'
    BY <2>1, <2>2
  <2>. QED  BY <2>1, <2>3
<1>6. CASE Settle
  <2>1. CASE pc' = "completing"
    BY <1>6, <2>1 DEF Settle
  <2>2. CASE pc' = "lost"
    BY <1>6, <2>2 DEF Settle
  <2>. QED  BY <1>6, <2>1, <2>2 DEF Settle
<1>7. CASE Flush
  <2>1. /\ wrote < seq /\ wrote' = wrote + 1 /\ pc \in {"executing", "draining"}
        /\ log' = [present |-> TRUE, frames |-> log.frames \union {wrote + 1}]
        /\ UNCHANGED <<pc, rec, seq, broken, resolved, unwritten, faults, keep, expired, torn>> /\ UNCHANGED Clientside
    BY <1>7 DEF Flush
  <2>2. ~expired
    BY <2>1
  <2>3. wrote + 1 \in Frames
    BY <2>1 DEF Frames
  <2>4. log'.frames = log.frames \union {wrote + 1} /\ log'.present
    BY <2>1
  <2>5. LogInv'
    BY <2>1, <2>2, <2>4
  <2>6. RunTypeOK' /\ RunInv' /\ Stays
    BY <2>1, <2>3 DEF Frames
  <2>. QED  BY <2>1, <2>5, <2>6
<1>8. CASE FlushFails
  BY <1>8 DEF FlushFails
<1>9. CASE ExecuteTrigger
  BY <1>9 DEF ExecuteTrigger
<1>10. CASE ExecuteTail
  BY <1>10 DEF ExecuteTail
<1>11. CASE ExecuteEnd
  BY <1>11 DEF ExecuteEnd
<1>12. CASE Complete
  BY <1>12 DEF Complete, CompleteAfter, Resolves
<1>13. CASE AppendFrame
  BY <1>13 DEF AppendFrame
<1>14. CASE FailLaunch
  <2>1. CASE Recorded("final", rec.last) /\ UNCHANGED unwritten
    BY <1>14, <2>1 DEF FailLaunch
  <2>2. CASE rec' = rec /\ unwritten' = TRUE
    BY <1>14, <2>2 DEF FailLaunch
  <2>. QED  BY <1>14, <2>1, <2>2 DEF FailLaunch
<1>. QED  BY <1>1, <1>2, <1>3, <1>4, <1>5, <1>6, <1>7, <1>8, <1>9, <1>10, <1>11, <1>12, <1>13, <1>14 DEF RunStep, QueueStep

LEMMA CleanupMoves ==
  ASSUME RunTypeOK, RunInv, LogInv, Expire \/ CleanupList \/ CleanupRemove
  PROVE  /\ RunTypeOK' /\ RunInv' /\ LogInv' /\ Stays /\ UNCHANGED Clientside
<1>. USE DEF RunTypeOK, RunInv, LogInv, Stays, Clientside, Finished, runVars, serverVars, clientVars
<1>1. CASE Expire
  BY <1>1 DEF Expire
<1>2. CASE CleanupList
  BY <1>2 DEF CleanupList
<1>3. CASE CleanupRemove
  <2>1. UNCHANGED runVars /\ UNCHANGED Clientside /\ UNCHANGED <<expired, faults>>
        /\ keep' = "idle" /\ torn' \in BOOLEAN
    BY <1>3 DEF CleanupRemove
  <2>2. CASE keep = "drop"
    <3>1. log' = [present |-> FALSE, frames |-> {}] /\ torn' = (torn \/ (log.present /\ ~expired))
      BY <1>3, <2>2 DEF CleanupRemove, NoLog
    <3>2. log'.frames = {}
      BY <3>1
    <3>3. LogInv'
      BY <2>1, <3>1, <3>2
    <3>. QED  BY <2>1, <3>1, <3>3
  <2>3. CASE keep # "drop"
    BY <1>3, <2>1, <2>3 DEF CleanupRemove
  <2>. QED  BY <2>2, <2>3
<1>. QED  BY <1>1, <1>2, <1>3

\* A client none of whose variables changes keeps its invariants.
Same(d) == UNCHANGED <<at[d], wait[d], cursor[d], buf[d], chan[d], got[d], ending[d], result[d]>>

LEMMA QuietClient ==
  ASSUME NEW d \in Clients, Same(d), Stays, WatchInv(d), EndInv(d)
  PROVE  WatchInv(d)' /\ EndInv(d)'
<1>1. Seen(d)' = Seen(d)
  BY DEF Same, Seen
<1>2. WatchInv(d)'
  BY <1>1 DEF Same, Stays, WatchInv
<1>3. EndInv(d)'
  BY <1>1 DEF Same, Stays, EndInv
<1>. QED  BY <1>2, <1>3

LEMMA RunSide ==
  ASSUME StreamInv, QueueStep \/ RunStep \/ AppendFrame \/ Expire \/ CleanupList \/ CleanupRemove
  PROVE  StreamInv'
<1>1. /\ RunTypeOK' /\ RunInv' /\ LogInv' /\ Stays /\ UNCHANGED Clientside
  BY RunMoves, CleanupMoves, StreamTypeParts DEF StreamInv
<1>2. TypeOK'
  BY <1>1, StreamTypeParts DEF StreamInv, ClientTypeOK, Clientside, TypeOK, RunTypeOK
<1>3. ASSUME NEW d \in Clients PROVE WatchInv(d)' /\ EndInv(d)'
  BY <1>1, QuietClient DEF StreamInv, Same, Clientside
<1>. QED  BY <1>1, <1>2, <1>3 DEF StreamInv

-----------------------------------------------------------------------------
(* One client, and the watcher that serves it.                             *)

\* A step of one client leaves the run and the other clients alone.
OneClient(c) ==
  /\ UNCHANGED <<runVars, log, keep, expired, faults, torn>>
  /\ \A d \in Clients \ {c} : Same(d)

LEMMA ClientSide ==
  ASSUME StreamInv, NEW c \in Clients, OneClient(c), ClientTypeOK', WatchInv(c)', EndInv(c)'
  PROVE  StreamInv'
<1>1. TypeOK'
  <2>1. RunTypeOK'
    BY StreamTypeParts DEF StreamInv, OneClient, RunTypeOK, runVars
  <2>. QED  BY <2>1 DEF TypeOK, RunTypeOK, ClientTypeOK
<1>2. RunInv' /\ LogInv' /\ Stays
  BY DEF StreamInv, OneClient, RunInv, LogInv, Stays, runVars, Finished
<1>3. ASSUME NEW d \in Clients PROVE WatchInv(d)' /\ EndInv(d)'
  BY <1>2, QuietClient DEF StreamInv, OneClient
<1>. QED  BY <1>1, <1>2, <1>3 DEF StreamInv

LEMMA SeenTypes ==
  ASSUME ClientTypeOK, NEW c \in Clients
  PROVE  /\ got[c] \in Seq(Frames) /\ chan[c] \in Seq(Frames) /\ Seen(c) \in Seq(Frames)
         /\ Len(got[c]) \in Nat /\ Len(chan[c]) \in Nat /\ Len(Seen(c)) = Len(got[c]) + Len(chan[c])
         /\ DOMAIN Seen(c) = 1 .. Len(Seen(c))
<1>1. got[c] \in Seq(Frames) /\ chan[c] \in Seq(Frames)
  BY DEF ClientTypeOK
<1>. QED  BY <1>1, ConcatProperties, LenProperties DEF Seen

\* Without unread frames the client has seen what it has consumed.
LEMMA NothingUnread ==
  ASSUME ClientTypeOK, NEW c \in Clients, chan[c] = <<>>
  PROVE  Seen(c) = got[c]
BY SeenTypes, ConcatEmptySeq DEF Seen

\* The last consumed frame is the largest, and without a torn log their number.
LEMMA ConsumedIsLast ==
  ASSUME TypeOK, NEW c \in Clients, Rising(got[c])
  PROVE  /\ Consumed(c) \in 0 .. MaxFrames
         /\ \A i \in DOMAIN got[c] : got[c][i] <= Consumed(c)
         /\ Counts(got[c]) => Consumed(c) = Len(got[c])
<1>1. got[c] \in Seq(Frames) /\ MaxFrames \in Nat
  BY ConstantsAssumption DEF TypeOK
<1>2. CASE got[c] = <<>>
  BY <1>1, <1>2 DEF Consumed
<1>3. CASE got[c] # <<>>
  <2>1. Len(got[c]) \in Nat \ {0} /\ DOMAIN got[c] = 1 .. Len(got[c]) /\ Consumed(c) = got[c][Len(got[c])]
        /\ \A i \in 1 .. Len(got[c]) : got[c][i] \in Frames
    BY <1>1, <1>3, EmptySeq, LenProperties DEF Consumed
  <2>2. Consumed(c) \in 0 .. MaxFrames
    BY <1>1, <2>1 DEF Frames
  <2>3. ASSUME NEW i \in DOMAIN got[c] PROVE got[c][i] <= Consumed(c)
    <3>1. i \in 1 .. Len(got[c]) /\ Len(got[c]) \in DOMAIN got[c] /\ got[c][i] \in Nat
      BY <2>1 DEF Frames
    <3>2. CASE i = Len(got[c])
      BY <2>1, <3>1, <3>2
    <3>3. CASE i < Len(got[c])
      BY <1>1, <2>1, <2>2, <3>1, <3>3 DEF Rising
    <3>. QED  BY <2>1, <3>1, <3>2, <3>3
  <2>4. Counts(got[c]) => Consumed(c) = Len(got[c])
    BY <2>1 DEF Counts
  <2>. QED  BY <2>2, <2>3, <2>4
<1>. QED  BY <1>2, <1>3

LEMMA SubscribeKeeps == ASSUME StreamInv, NEW c \in Clients, Subscribe(c) PROVE StreamInv'
<1>1. TypeOK /\ WatchInv(c) /\ EndInv(c) /\ at[c] = "none" /\ ClientTypeOK
  BY StreamTypeParts DEF StreamInv, Subscribe
<1>2. chan[c] = <<>> /\ buf[c] = {} /\ ending[c] = "none" /\ Seen(c) = got[c] /\ Rising(got[c]) /\ (~torn => Counts(got[c]))
  BY <1>1, NothingUnread DEF WatchInv
<1>3. /\ Consumed(c) \in 0 .. MaxFrames
      /\ \A i \in DOMAIN got[c] : got[c][i] <= Consumed(c)
      /\ Counts(got[c]) => Consumed(c) = Len(got[c])
  BY <1>1, <1>2, ConsumedIsLast
<1>4. ClientTypeOK'
  BY <1>1, <1>3, ConstantsAssumption DEF ClientTypeOK, Subscribe, Endings
<1>5. /\ at'[c] = "read" /\ wait'[c] = "ask" /\ cursor'[c] = Consumed(c) /\ result'[c] = "none"
      /\ UNCHANGED <<runVars, log, keep, expired, faults, torn, chan, got, buf, ending>>
  BY <1>1 DEF Subscribe, ClientTypeOK
<1>6. Seen(c)' = Seen(c)
  BY <1>5 DEF Seen
<1>7. Len(got[c]) \in Nat
  BY <1>1, SeenTypes
<1>8. WatchInv(c)'
  <2>1. ~torn => Len(got[c]) + 1 .. Consumed(c) = {} /\ Len(got[c]) <= Consumed(c)
    BY <1>2, <1>3, <1>7
  <2>. QED  BY <1>1, <1>2, <1>3, <1>5, <1>6, <2>1 DEF WatchInv
<1>9. EndInv(c)'
  BY <1>1, <1>2, <1>5 DEF EndInv
<1>10. OneClient(c)
  BY <1>1 DEF Subscribe, OneClient, Same, ClientTypeOK
<1>. QED  BY <1>4, <1>8, <1>9, <1>10, ClientSide

LEMMA WaitKeeps == ASSUME StreamInv, NEW c \in Clients, WaitRead(c) \/ WaitJoin(c) PROVE StreamInv'
<1>1. ClientTypeOK /\ WatchInv(c) /\ EndInv(c)
  BY StreamTypeParts DEF StreamInv
<1>2. /\ UNCHANGED <<at, cursor, buf, stored, ending, chan, got, result, subs, runVars, log, keep, expired, faults, torn>>
      /\ wait' \in [Clients -> {"none", "ask", "known", "unknown", "promise", "orphan"}]
      /\ wait[c] \in {"ask", "unknown"} /\ (wait'[c] = "known" => Finished)
      /\ \A d \in Clients \ {c} : wait'[d] = wait[d]
  BY <1>1 DEF WaitRead, WaitJoin, ServerOnly, ClientTypeOK
<1>3. Seen(c)' = Seen(c)
  BY <1>2 DEF Seen
<1>4. WatchInv(c)'
  BY <1>1, <1>2, <1>3 DEF WatchInv
<1>5. EndInv(c)'
  BY <1>1, <1>2, <1>3 DEF EndInv, Finished, runVars
<1>6. ClientTypeOK' /\ OneClient(c)
  BY <1>1, <1>2 DEF ClientTypeOK, OneClient, Same
<1>. QED  BY <1>4, <1>5, <1>6, ClientSide

\* What a read of the log finds: nothing, or frames up to the last one written.
LEMMA LastIsWritten ==
  ASSUME RunTypeOK, LogInv, NEW n \in 0 .. MaxFrames, After(n) # {}
  PROVE  Largest(After(n)) = wrote /\ n < wrote
<1>1. \A f \in After(n) : f \in 1 .. wrote /\ f > n
  BY DEF After, LogInv
<1>2. wrote \in Nat /\ n \in Nat
  BY ConstantsAssumption DEF RunTypeOK
<1>3. wrote \in After(n)
  BY <1>1, <1>2 DEF After, LogInv
<1>4. \A g \in After(n) : g <= wrote
  BY <1>1, <1>2
<1>5. \A f \in After(n) : (\A g \in After(n) : g <= f) => f = wrote
  BY <1>1, <1>2, <1>3
<1>. QED  BY <1>1, <1>2, <1>3, <1>4, <1>5 DEF Largest

LEMMA ReadFramesKeeps == ASSUME StreamInv, NEW c \in Clients, ReadFrames(c) PROVE StreamInv'
<1>. DEFINE new == After(cursor[c])
<1>1. /\ ClientTypeOK /\ RunTypeOK /\ LogInv /\ WatchInv(c) /\ EndInv(c) /\ MaxFrames \in Nat
      /\ at[c] = "read" /\ buf[c] = {} /\ cursor[c] \in 0 .. MaxFrames
  BY StreamTypeParts, ConstantsAssumption DEF StreamInv, ReadFrames, ClientTypeOK, WatchInv
<1>2. new # {} => Largest(new) = wrote /\ cursor[c] < wrote
  BY <1>1, LastIsWritten
<1>3. new \subseteq Frames /\ new = {f \in log.frames : f > cursor[c]} /\ wrote \in 0 .. MaxFrames
  BY <1>1 DEF After, RunTypeOK
<1>. HIDE DEF new
<1>4. /\ at' = [at EXCEPT ![c] = "yield"] /\ buf' = [buf EXCEPT ![c] = new]
      /\ cursor' = [cursor EXCEPT ![c] = IF new = {} THEN cursor[c] ELSE Largest(new)]
      /\ UNCHANGED <<wait, ending, chan, runVars, log, keep, expired, got, result, subs, faults, torn>>
  BY DEF ReadFrames, ServerOnly, new
<1>5. stored' \in [Clients -> {"absent", "empty", "some"}]
  BY <1>1 DEF ReadFrames, ClientTypeOK
<1>6. ClientTypeOK'
  BY <1>1, <1>2, <1>3, <1>4, <1>5 DEF ClientTypeOK
<1>7. /\ at'[c] = "yield" /\ buf'[c] = new /\ (new = {} => cursor'[c] = cursor[c]) /\ (new # {} => cursor'[c] = wrote)
      /\ Seen(c)' = Seen(c) /\ cursor[c] <= cursor'[c] /\ cursor'[c] \in 0 .. MaxFrames
  BY <1>1, <1>2, <1>3, <1>4 DEF ClientTypeOK, Seen
<1>8. Len(Seen(c)) \in Nat /\ \A i \in DOMAIN Seen(c) : Seen(c)[i] \in Frames
  <2>1. Seen(c) \in Seq(Frames)
    BY <1>1, SeenTypes
  <2>. QED  BY <2>1, LenProperties, ElementOfSeq
<1>9. \A i \in DOMAIN Seen(c) : Seen(c)[i] <= cursor'[c] /\ \A f \in buf'[c] : Seen(c)[i] < f
  BY <1>1, <1>3, <1>7, <1>8 DEF WatchInv, Frames
<1>10. \A f \in buf'[c] : f <= cursor'[c]
  BY <1>1, <1>3, <1>7 DEF LogInv
<1>11. ~torn => buf'[c] = Len(Seen(c)) + 1 .. cursor'[c] /\ Len(Seen(c)) <= cursor'[c]
  <2>. SUFFICES ASSUME ~torn PROVE buf'[c] = Len(Seen(c)) + 1 .. cursor'[c] /\ Len(Seen(c)) <= cursor'[c]
    OBVIOUS
  <2>1. Len(Seen(c)) = cursor[c]
    BY <1>1, <1>8 DEF WatchInv
  <2>2. CASE new = {}
    BY <1>1, <1>7, <2>1, <2>2
  <2>3. CASE new # {}
    <3>1. log.frames = 1 .. wrote
      BY <1>1, <1>3, <2>3 DEF LogInv
    <3>. QED  BY <1>1, <1>2, <1>3, <1>7, <2>1, <2>3, <3>1
  <2>. QED  BY <2>2, <2>3
<1>12. WatchInv(c)'
  BY <1>1, <1>4, <1>7, <1>9, <1>10, <1>11 DEF WatchInv
<1>13. EndInv(c)'
  BY <1>1, <1>4, <1>7 DEF EndInv, Finished, runVars
<1>14. OneClient(c)
  BY <1>1, <1>4 DEF OneClient, Same, ClientTypeOK
<1>. QED  BY <1>6, <1>12, <1>13, <1>14, ClientSide

LEMMA YieldKeeps == ASSUME StreamInv, NEW c \in Clients, Yield(c) PROVE StreamInv'
<1>1. ClientTypeOK /\ WatchInv(c) /\ EndInv(c) /\ MaxFrames \in Nat /\ at[c] = "yield"
  BY StreamTypeParts, ConstantsAssumption DEF StreamInv, Yield
<1>2. PICK f \in buf[c] : /\ \A g \in buf[c] : f <= g
                         /\ chan' = [chan EXCEPT ![c] = Append(chan[c], f)]
                         /\ buf' = [buf EXCEPT ![c] = buf[c] \ {f}]
  BY DEF Yield
<1>3. UNCHANGED <<at, cursor, stored, wait, ending, runVars, log, keep, expired, got, result, subs, faults, torn>>
  BY DEF Yield, ServerOnly
<1>4. buf[c] \subseteq Frames /\ f \in Frames /\ cursor[c] \in 0 .. MaxFrames
  BY <1>1, <1>2 DEF ClientTypeOK
<1>5. /\ got[c] \in Seq(Frames) /\ chan[c] \in Seq(Frames) /\ Seen(c) \in Seq(Frames) /\ Len(Seen(c)) \in Nat
      /\ DOMAIN Seen(c) = 1 .. Len(Seen(c))
  BY <1>1, SeenTypes, LenProperties
<1>6. chan' \in [Clients -> Seq(Frames)] /\ buf' \in [Clients -> SUBSET Frames]
  BY <1>1, <1>2, <1>4, <1>5 DEF ClientTypeOK
<1>7. ClientTypeOK'
  BY <1>1, <1>3, <1>6 DEF ClientTypeOK
<1>8. chan'[c] = Append(chan[c], f) /\ buf'[c] = buf[c] \ {f}
  BY <1>1, <1>2 DEF ClientTypeOK
<1>9. Seen(c)' = Append(Seen(c), f)
  <2>1. Seen(c)' = got[c] \o Append(chan[c], f)
    BY <1>3, <1>8 DEF Seen
  <2>2. got[c] \o Append(chan[c], f) = Append(got[c] \o chan[c], f)
    BY <1>4, <1>5, YieldSame
  <2>. QED  BY <2>1, <2>2 DEF Seen
<1>10. \A i \in DOMAIN Seen(c) : Seen(c)[i] < f
  BY <1>1, <1>2 DEF WatchInv
<1>11. /\ Rising(Seen(c)) => Rising(Append(Seen(c), f))
       /\ Counts(Seen(c)) /\ f = Len(Seen(c)) + 1 => Counts(Append(Seen(c), f))
       /\ Len(Append(Seen(c), f)) = Len(Seen(c)) + 1
       /\ \A i \in DOMAIN Append(Seen(c), f) :
            (i \in DOMAIN Seen(c) /\ Append(Seen(c), f)[i] = Seen(c)[i]) \/ Append(Seen(c), f)[i] = f
  BY <1>4, <1>5, <1>10, AppendRises
<1>12. ~torn => f = Len(Seen(c)) + 1 /\ buf'[c] = Len(Seen(c)) + 2 .. cursor[c] /\ Len(Seen(c)) + 1 <= cursor[c]
  <2>. SUFFICES ASSUME ~torn
                PROVE  f = Len(Seen(c)) + 1 /\ buf'[c] = Len(Seen(c)) + 2 .. cursor[c] /\ Len(Seen(c)) + 1 <= cursor[c]
    OBVIOUS
  <2>1. buf[c] = Len(Seen(c)) + 1 .. cursor[c]
    BY <1>1 DEF WatchInv
  <2>2. f \in Len(Seen(c)) + 1 .. cursor[c] /\ Len(Seen(c)) \in Nat /\ cursor[c] \in Nat
    BY <1>2, <1>4, <1>5, <2>1
  <2>3. Len(Seen(c)) + 1 \in buf[c]
    BY <2>1, <2>2
  <2>4. f = Len(Seen(c)) + 1
    BY <1>2, <2>2, <2>3
  <2>. QED  BY <1>8, <2>1, <2>2, <2>4
<1>13. \A g \in buf'[c] : f < g
  BY <1>2, <1>4, <1>8 DEF Frames
<1>14. WatchInv(c)'
  <2>1. Rising(Seen(c))' /\ (~torn' => Counts(Seen(c))')
    BY <1>1, <1>3, <1>9, <1>11, <1>12 DEF WatchInv, Rising, Counts
  <2>2. /\ at'[c] = "yield" /\ cursor'[c] = cursor[c] /\ torn' = torn
        /\ \A i \in DOMAIN Seen(c)' : Seen(c)'[i] <= cursor[c]
        /\ \A i \in DOMAIN Seen(c)', g \in buf'[c] : Seen(c)'[i] < g
        /\ \A g \in buf'[c] : g <= cursor[c]
    <3>1. \A i \in DOMAIN Seen(c) : Seen(c)[i] <= cursor[c] /\ \A g \in buf'[c] : Seen(c)[i] < g
      BY <1>1, <1>8 DEF WatchInv
    <3>2. f <= cursor[c] /\ \A g \in buf'[c] : g <= cursor[c]
      BY <1>1, <1>2, <1>8 DEF WatchInv
    <3>. QED  BY <1>1, <1>3, <1>9, <1>11, <1>13, <3>1, <3>2
  <2>3. ~torn => buf'[c] = Len(Seen(c)') + 1 .. cursor[c] /\ Len(Seen(c)') <= cursor[c]
    BY <1>5, <1>9, <1>11, <1>12
  <2>. QED  BY <2>1, <2>2, <2>3 DEF WatchInv
<1>15. EndInv(c)'
  BY <1>1, <1>3 DEF EndInv, Finished, runVars
<1>16. OneClient(c)
  BY <1>1, <1>2, <1>3 DEF OneClient, Same, ClientTypeOK
<1>. QED  BY <1>7, <1>14, <1>15, <1>16, ClientSide

LEMMA ReadRecordKeeps == ASSUME StreamInv, NEW c \in Clients, ReadRecord(c) PROVE StreamInv'
<1>1. ClientTypeOK /\ RunTypeOK /\ WatchInv(c) /\ EndInv(c) /\ MaxFrames \in Nat /\ at[c] = "yield" /\ buf[c] = {}
  BY StreamTypeParts, ConstantsAssumption DEF StreamInv, ReadRecord
<1>2. UNCHANGED <<cursor, buf, stored, wait, chan, runVars, log, keep, expired, got, result, subs, faults, torn>>
  BY DEF ReadRecord, ServerOnly
<1>3. /\ at'[c] \in {"read", "settle", "closed"}
      /\ at' \in [Clients -> {"none", "read", "yield", "settle", "closed"}]
      /\ ending' \in [Clients -> Endings]
      /\ \A d \in Clients \ {c} : at'[d] = at[d] /\ ending'[d] = ending[d]
  <2>1. Outcome(c) \in {"read", "settle", "expired", "incomplete"}
    BY DEF Outcome
  <2>2. at \in [Clients -> {"none", "read", "yield", "settle", "closed"}] /\ ending \in [Clients -> Endings]
    BY <1>1 DEF ClientTypeOK
  <2>3. CASE Outcome(c) \in {"expired", "incomplete"}
    <3>1. at' = [at EXCEPT ![c] = "closed"] /\ ending' = [ending EXCEPT ![c] = Outcome(c)]
      BY <2>3 DEF ReadRecord
    <3>. QED  BY <2>2, <2>3, <3>1 DEF Endings
  <2>4. CASE Outcome(c) \in {"read", "settle"}
    <3>1. at' = [at EXCEPT ![c] = Outcome(c)] /\ ending' = ending
      BY <2>4 DEF ReadRecord
    <3>. QED  BY <2>2, <2>4, <3>1
  <2>. QED  BY <2>1, <2>3, <2>4
<1>4. at'[c] = "settle" => Finished /\ rec.last <= cursor[c]
  BY <1>1 DEF ReadRecord, Outcome, Missing, ClientTypeOK, RunTypeOK
<1>5. ending'[c] # "none" => at'[c] = "closed" /\ ending'[c] # "done"
  BY <1>1 DEF ReadRecord, Outcome, ClientTypeOK, EndInv
<1>6. Seen(c)' = Seen(c)
  BY <1>2 DEF Seen
<1>7. WatchInv(c)'
  BY <1>1, <1>2, <1>3, <1>6 DEF WatchInv
<1>8. EndInv(c)'
  BY <1>1, <1>2, <1>4, <1>5, <1>6 DEF EndInv, Finished, runVars
<1>9. ClientTypeOK' /\ OneClient(c)
  BY <1>1, <1>2, <1>3 DEF ClientTypeOK, OneClient, Same
<1>. QED  BY <1>7, <1>8, <1>9, ClientSide

LEMMA FinishKeeps == ASSUME StreamInv, NEW c \in Clients, Finish(c) PROVE StreamInv'
<1>1. /\ ClientTypeOK /\ RunTypeOK /\ WatchInv(c) /\ EndInv(c) /\ MaxFrames \in Nat /\ at[c] = "settle"
      /\ buf[c] = {} /\ cursor[c] \in 0 .. MaxFrames /\ Len(Seen(c)) \in Nat
  <2>1. ClientTypeOK /\ RunTypeOK /\ WatchInv(c) /\ EndInv(c) /\ MaxFrames \in Nat /\ at[c] = "settle"
    BY StreamTypeParts, ConstantsAssumption DEF StreamInv, Finish
  <2>2. Seen(c) \in Seq(Frames)
    BY <2>1, SeenTypes
  <2>3. Len(Seen(c)) \in Nat
    BY <2>2, LenProperties
  <2>. QED  BY <2>1, <2>3 DEF WatchInv, ClientTypeOK
<1>2. /\ UNCHANGED <<cursor, buf, stored, wait, chan, runVars, log, keep, expired, got, result, subs, faults, torn>>
      /\ at' = [at EXCEPT ![c] = "closed"] /\ ending' = [ending EXCEPT ![c] = "done"]
  BY DEF Finish, ServerOnly
<1>3. Seen(c)' = Seen(c) /\ at'[c] = "closed" /\ ending'[c] = "done"
  BY <1>1, <1>2 DEF Seen, ClientTypeOK
<1>4. ~torn => rec.last <= Len(Seen(c))
  <2>1. ~torn => Len(Seen(c)) = cursor[c]
    BY <1>1 DEF WatchInv
  <2>. QED  BY <1>1, <2>1 DEF EndInv
<1>5. WatchInv(c)'
  BY <1>1, <1>2, <1>3 DEF WatchInv
<1>6. EndInv(c)'
  BY <1>1, <1>2, <1>3, <1>4 DEF EndInv, Finished, runVars
<1>7. ClientTypeOK' /\ OneClient(c)
  BY <1>1, <1>2 DEF ClientTypeOK, OneClient, Same, Endings
<1>. QED  BY <1>5, <1>6, <1>7, ClientSide

LEMMA ConsumeKeeps == ASSUME StreamInv, NEW c \in Clients, Consume(c) PROVE StreamInv'
<1>1. ClientTypeOK /\ RunTypeOK /\ WatchInv(c) /\ EndInv(c) /\ chan[c] # <<>>
  BY StreamTypeParts DEF StreamInv, Consume
<1>2. got[c] \in Seq(Frames) /\ chan[c] \in Seq(Frames)
  BY <1>1 DEF ClientTypeOK
<1>3. Head(chan[c]) \in Frames /\ Tail(chan[c]) \in Seq(Frames)
  BY <1>1, <1>2, HeadTailProperties
<1>4. /\ UNCHANGED <<at, cursor, buf, stored, wait, ending, runVars, log, keep, expired, result, subs, faults, torn>>
      /\ got' = [got EXCEPT ![c] = Append(got[c], Head(chan[c]))]
      /\ chan' = [chan EXCEPT ![c] = Tail(chan[c])]
  BY DEF Consume, serverVars
<1>5. got' \in [Clients -> Seq(Frames)] /\ chan' \in [Clients -> Seq(Frames)]
  BY <1>1, <1>2, <1>3, <1>4 DEF ClientTypeOK
<1>6. got'[c] = Append(got[c], Head(chan[c])) /\ chan'[c] = Tail(chan[c])
  BY <1>1, <1>4 DEF ClientTypeOK
<1>7. Seen(c)' = Seen(c)
  <2>1. Seen(c)' = Append(got[c], Head(chan[c])) \o Tail(chan[c])
    BY <1>6 DEF Seen
  <2>. QED  BY <1>1, <1>2, <2>1, ConsumeSame DEF Seen
<1>8. Len(got'[c]) = Len(got[c]) + 1 /\ Len(got[c]) \in Nat
  BY <1>2, <1>3, <1>6
<1>9. WatchInv(c)'
  BY <1>1, <1>4, <1>7 DEF WatchInv
<1>10. EndInv(c)'
  <2>1. result[c] = "done" => Finished /\ (~torn => rec.last <= Len(got'[c]))
    BY <1>1, <1>8, ConstantsAssumption DEF EndInv, RunTypeOK
  <2>. QED  BY <1>1, <1>4, <1>7, <2>1 DEF EndInv, Finished, runVars
<1>11. ClientTypeOK' /\ OneClient(c)
  BY <1>1, <1>4, <1>5 DEF ClientTypeOK, OneClient, Same
<1>. QED  BY <1>9, <1>10, <1>11, ClientSide

\* A subscription that is over leaves what was consumed.
LEMMA ClosedKeeps ==
  ASSUME StreamInv, NEW c \in Clients, Closed(c), result' \in [Clients -> Endings],
         UNCHANGED <<runVars, log, keep, expired, got, subs, faults, torn>>,
         result'[c] = "done" => Finished /\ (~torn => rec.last <= Len(got[c])),
         \A d \in Clients \ {c} : result'[d] = result[d]
  PROVE  StreamInv'
<1>1. ClientTypeOK /\ WatchInv(c) /\ EndInv(c) /\ got[c] \in Seq(Frames) /\ chan[c] \in Seq(Frames)
  BY StreamTypeParts DEF StreamInv, ClientTypeOK
<1>2. /\ at'[c] = "none" /\ wait'[c] = "none" /\ buf'[c] = {} /\ chan'[c] = <<>> /\ ending'[c] = "none"
      /\ got'[c] = got[c]
  BY <1>1 DEF Closed, ClientTypeOK
<1>3. Seen(c)' = got[c]
  BY <1>1, <1>2, ConcatEmptySeq DEF Seen
<1>4. Rising(got[c]) /\ (~torn => Counts(got[c]))
  BY <1>1, PrefixRises DEF WatchInv, Seen
<1>5. WatchInv(c)'
  BY <1>2, <1>3, <1>4 DEF WatchInv, Rising, Counts
<1>6. EndInv(c)'
  BY <1>2, <1>3 DEF EndInv, Finished, runVars
<1>7. <<>> \in Seq(Frames)
  BY EmptySeq
<1>8. ClientTypeOK'
  BY <1>1, <1>7, ConstantsAssumption DEF ClientTypeOK, Closed, Endings
<1>9. OneClient(c)
  BY <1>1 DEF OneClient, Same, Closed, ClientTypeOK
<1>. QED  BY <1>5, <1>6, <1>8, <1>9, ClientSide

LEMMA EndedKeeps == ASSUME StreamInv, NEW c \in Clients, Ended(c) \/ Cut(c) PROVE StreamInv'
<1>1. ClientTypeOK /\ EndInv(c)
  BY StreamTypeParts DEF StreamInv
<1>2. CASE Ended(c)
  <2>1. Seen(c) = got[c]
    BY <1>1, <1>2, NothingUnread DEF Ended
  <2>2. result' = [result EXCEPT ![c] = ending[c]] /\ ending[c] \in Endings
    BY <1>1, <1>2 DEF Ended, ClientTypeOK
  <2>3. result' \in [Clients -> Endings] /\ result'[c] = ending[c] /\ \A d \in Clients \ {c} : result'[d] = result[d]
    BY <1>1, <2>2 DEF ClientTypeOK
  <2>4. ending[c] = "done" => Finished /\ (~torn => rec.last <= Len(got[c]))
    BY <1>1, <2>1 DEF EndInv
  <2>. QED  BY <1>2, <2>3, <2>4, ClosedKeeps DEF Ended
<1>3. CASE Cut(c)
  BY <1>1, <1>3, ClosedKeeps DEF Cut, ClientTypeOK, EndInv
<1>. QED  BY <1>2, <1>3

\* A restart ends every subscription and makes every record final.
LEMMA RestartKeeps == ASSUME StreamInv, Restart PROVE StreamInv'
<1>1. RunTypeOK /\ ClientTypeOK /\ RunInv /\ LogInv /\ \A c \in Clients : WatchInv(c) /\ EndInv(c)
  BY StreamTypeParts DEF StreamInv
<1>2. RunTypeOK'
  <2>1. /\ rec' = [status |-> "final", last |-> rec.last] /\ faults < MaxFaults /\ faults' = faults + 1
        /\ pc' = "over" /\ resolved' = TRUE /\ keep' = "idle" /\ unwritten' = FALSE
        /\ UNCHANGED <<seq, wrote, broken, log, expired, torn>>
    BY DEF Restart
  <2>2. rec'.status = "final" /\ rec' \in [status : {"none", "queued", "running", "final"}, last : 0..MaxFrames]
    BY <1>1, <2>1 DEF RunTypeOK
  <2>3. faults' \in 0..MaxFaults
    BY <1>1, <2>1, ConstantsAssumption DEF RunTypeOK
  <2>. QED  BY <1>1, <2>1, <2>2, <2>3 DEF RunTypeOK
<1>3. <<>> \in Seq(Frames)
  BY EmptySeq
<1>4. ClientTypeOK'
  BY <1>1, <1>3, ConstantsAssumption DEF Restart, ClientTypeOK, Nothing, Empty, Endings
<1>5. TypeOK'
  BY <1>2, <1>4 DEF TypeOK, RunTypeOK, ClientTypeOK
<1>6. RunInv'
  BY <1>1 DEF Restart, RunInv, Finished
<1>7. LogInv'
  BY <1>1 DEF Restart, LogInv
<1>8. ASSUME NEW c \in Clients PROVE WatchInv(c)' /\ EndInv(c)'
  <2>1. /\ at'[c] = "none" /\ wait'[c] = "none" /\ buf'[c] = {} /\ chan'[c] = <<>> /\ ending'[c] = "none"
        /\ UNCHANGED <<got, result, torn>> /\ rec'.last = rec.last /\ rec'.status = "final"
    BY DEF Restart, Nothing, Empty
  <2>2. WatchInv(c) /\ EndInv(c) /\ got[c] \in Seq(Frames) /\ chan[c] \in Seq(Frames)
    BY <1>1 DEF ClientTypeOK
  <2>3. Seen(c)' = got[c]
    BY <2>1, <2>2, ConcatEmptySeq DEF Seen
  <2>4. Rising(got[c]) /\ (~torn => Counts(got[c]))
    BY <2>2, PrefixRises DEF WatchInv, Seen
  <2>5. WatchInv(c)'
    BY <2>1, <2>3, <2>4 DEF WatchInv, Rising, Counts
  <2>6. EndInv(c)'
    BY <2>1, <2>2 DEF EndInv, Finished
  <2>. QED  BY <2>5, <2>6
<1>. QED  BY <1>5, <1>6, <1>7, <1>8 DEF StreamInv

-----------------------------------------------------------------------------
(* The theorems.                                                           *)

LEMMA StreamInitially == Init => StreamInv
<1>. SUFFICES ASSUME Init PROVE StreamInv
  OBVIOUS
<1>1. <<>> \in Seq(Frames)
  BY EmptySeq
<1>2. TypeOK
  <2>1. RunTypeOK
    <3>1. rec \in [status : {"none", "queued", "running", "final"}, last : 0..MaxFrames]
      BY ConstantsAssumption DEF Init
    <3>2. log \in [present : BOOLEAN, frames : SUBSET Frames]
      BY DEF Init, NoLog
    <3>3. {broken, resolved, expired, torn, unwritten} \subseteq BOOLEAN /\ pc = "new" /\ keep = "idle"
      BY DEF Init
    <3>4. seq \in 0..MaxFrames /\ wrote \in 0..MaxFrames /\ faults \in 0..MaxFaults
      BY ConstantsAssumption DEF Init
    <3>. QED  BY <3>1, <3>2, <3>3, <3>4 DEF RunTypeOK
  <2>2. ClientTypeOK
    BY <1>1, ConstantsAssumption DEF Init, ClientTypeOK, Nothing, Empty, Endings
  <2>. QED  BY <2>1, <2>2, StreamTypeParts
<1>3. RunInv /\ LogInv
  BY DEF Init, RunInv, LogInv, Finished, NoLog
<1>4. ASSUME NEW c \in Clients PROVE WatchInv(c) /\ EndInv(c)
  <2>1. Seen(c) = <<>>
    BY <1>1, ConcatEmptySeq DEF Seen, Init, Empty
  <2>2. Rising(Seen(c)) /\ Counts(Seen(c))
    BY <2>1 DEF Rising, Counts
  <2>. QED  BY <2>1, <2>2 DEF Init, WatchInv, EndInv, Nothing, Empty
<1>. QED  BY <1>2, <1>3, <1>4 DEF StreamInv

LEMMA Stutters == ASSUME StreamInv, UNCHANGED vars PROVE StreamInv'
<1>1. UNCHANGED <<pc, rec, seq, wrote, broken, resolved, unwritten, log, keep, expired, faults, torn>> /\ UNCHANGED Clientside
  BY DEF vars, runVars, serverVars, clientVars, Clientside
<1>2. TypeOK'
  BY <1>1 DEF StreamInv, TypeOK, Clientside
<1>3. RunInv' /\ LogInv' /\ Stays
  BY <1>1 DEF StreamInv, RunInv, LogInv, Stays, Finished
<1>4. ASSUME NEW c \in Clients PROVE WatchInv(c)' /\ EndInv(c)'
  BY <1>1, <1>3, QuietClient DEF StreamInv, Same, Clientside
<1>. QED  BY <1>2, <1>3, <1>4 DEF StreamInv

LEMMA StreamSteps == StreamInv /\ [Next]_vars => StreamInv'
<1>. SUFFICES ASSUME StreamInv, [Next]_vars PROVE StreamInv'
  OBVIOUS
<1>1. ASSUME NEW c \in Clients, ServerStep(c) PROVE StreamInv'
  BY <1>1, WaitKeeps, ReadFramesKeeps, YieldKeeps, ReadRecordKeeps, FinishKeeps DEF ServerStep
<1>2. ASSUME NEW c \in Clients, Subscribe(c) \/ Consume(c) \/ Ended(c) \/ Cut(c) PROVE StreamInv'
  BY <1>2, SubscribeKeeps, ConsumeKeeps, EndedKeeps
<1>. QED  BY <1>1, <1>2, RunSide, RestartKeeps, Stutters DEF Next

LEMMA StreamInvariance == Spec => []StreamInv
BY StreamInitially, StreamSteps, PTL DEF Spec

\* Every variable keeps its type.
THEOREM TypeCorrect == Spec => []TypeOK
<1>1. StreamInv => TypeOK
  BY DEF StreamInv
<1>. QED  BY <1>1, StreamInvariance, PTL

\* However often it subscribes again, a client consumes the frames in their order, none
\* twice, and without a torn log none is left out.
THEOREM FramesInOrder == Spec => []InOrder
<1>1. StreamInv => InOrder
  <2>. SUFFICES ASSUME StreamInv, NEW c \in Clients, NEW i \in DOMAIN got[c]
                PROVE  IF torn THEN i > 1 => got[c][i - 1] < got[c][i] ELSE got[c][i] = i
    BY DEF InOrder
  <2>1. got[c] \in Seq(Frames) /\ chan[c] \in Seq(Frames) /\ WatchInv(c)
    BY DEF StreamInv, TypeOK
  <2>2. Rising(got[c]) /\ (~torn => Counts(got[c]))
    BY <2>1, PrefixRises DEF WatchInv, Seen
  <2>3. i \in 1 .. Len(got[c]) /\ DOMAIN got[c] = 1 .. Len(got[c]) /\ Len(got[c]) \in Nat
    BY <2>1, LenProperties
  <2>. QED  BY <2>2, <2>3 DEF Rising, Counts
<1>. QED  BY <1>1, StreamInvariance, PTL

\* A client that is told that the run is done has every frame the final record counts.
THEOREM DoneIsComplete == Spec => []DoneMeansAll
<1>1. StreamInv => DoneMeansAll
  <2>. SUFFICES ASSUME StreamInv, NEW c \in Clients, result[c] = "done"
                PROVE  Finished /\ (~torn => Len(got[c]) >= rec.last)
    BY DEF DoneMeansAll
  <2>1. Len(got[c]) \in Nat /\ rec.last \in Nat
    BY LenProperties, ConstantsAssumption DEF StreamInv, TypeOK
  <2>. QED  BY <2>1 DEF StreamInv, EndInv
<1>. QED  BY <1>1, StreamInvariance, PTL

\* Whoever awaited the completion reads a final record, unless the disk refused it: every
\* other way to the completion, failLaunch's included, has written one.
THEOREM RecordBeforeCompletion == Spec => []CompletionAfterRecord
<1>1. StreamInv => CompletionAfterRecord
  BY DEF StreamInv, RunInv, EndInv, CompletionAfterRecord
<1>. QED  BY <1>1, StreamInvariance, PTL

-----------------------------------------------------------------------------
(* The door.                                                               *)

\* Who holds the lock or has just created it, and who has judged a lock to be stale.
Creators == {p \in Daemons : step[p] \in Holders \union {"writing", "rewriting"}}
SawInv ==
  /\ \A p \in Daemons : step[p] = "out" => lockOf # p /\ \A q \in Daemons : saw[q].of # p
  /\ \A q \in Daemons : saw[q].stamp = "nan" => saw[q].of = NoDaemon
HeldInv ==
  excuses \subseteq {"failed"} =>
    /\ \A p \in Creators : lockOf = p
    /\ \A p \in Owners : lockText = "full"
    /\ \A q \in Daemons : step[q] = "removing" => ~Alive(saw[q].of)
LockInv == SawInv /\ HeldInv

\* As long as nothing undermined the lock: the holder's server, token and socket.
MyServer(p) ==
  /\ step[p] # "orphan"
  /\ step[p] \in {"listening", "up", "stumbled"} => path = p
  /\ step[p] \in {"unlinking", "binding"} \union Serving => secret[p] = tokenFile
  /\ step[p] = "minting" => tokenFile = NoDaemon
ServerInv == excuses = {} => \A p \in Daemons : MyServer(p)

\* The call: what ran, what it was told, and which token it carries.
CallInv ==
  /\ call.at \in {"idle", "sent"} => call.ran = "no" /\ call.result = "none"
  /\ call.at = "executing" => call.ran # "no" /\ call.result = "none"
  /\ call.at = "answered" => call.result \in {"ok", "refused"}
  /\ excuses = {} => /\ call.ran # "other" /\ call.result # "refused"
                     /\ call.at = "sent" => call.token = tokenFile /\ tokenFile # NoDaemon

DoorInv == DoorTypeOK /\ LockInv /\ ServerInv /\ CallInv /\ AnswerTrue

-----------------------------------------------------------------------------
(* Type correctness.                                                       *)

CallTypes == [at : {"idle", "sent", "executing", "answered", "deserted", "over"},
              with : Makers, token : Makers,
              result : {"none", "ok", "refused", "unreachable", "timeout"}, ran : {"no", "owner", "other"}]
Steps == {"out", "orphan"} \union Stopped \union Acquiring \union Holders

LEMMA CallTyped ==
  ASSUME NEW where, NEW with, NEW token, NEW told, NEW ran, Call(where, with, token, told, ran),
         where \in {"idle", "sent", "executing", "answered", "deserted", "over"}, with \in Makers, token \in Makers,
         told \in {"none", "ok", "refused", "unreachable", "timeout"}, ran \in {"no", "owner", "other"}
  PROVE  call' \in CallTypes
BY DEF Call, CallTypes

LEMMA DesertsTyped == ASSUME DoorTypeOK, NEW p, Deserts(p) PROVE call' \in CallTypes
<1>1. call \in CallTypes /\ NoDaemon \in Makers
  BY DEF DoorTypeOK, CallTypes, Makers
<1>2. call.result \in {"none", "ok", "refused", "unreachable", "timeout"} /\ call.ran \in {"no", "owner", "other"}
  BY <1>1 DEF CallTypes
<1>. QED  BY <1>1, <1>2, CallTyped DEF Deserts, SettleCall

LEMMA CallStepTyped == ASSUME DoorTypeOK, CallStep \/ Caller PROVE call' \in CallTypes
<1>1. call \in CallTypes /\ NoDaemon \in Makers /\ Daemons \subseteq Makers /\ tokenFile \in Makers /\ path \in Makers
  BY DEF DoorTypeOK, CallTypes, Makers
<1>2. /\ call.result \in {"none", "ok", "refused", "unreachable", "timeout"} /\ call.ran \in {"no", "owner", "other"}
      /\ call.with \in Makers /\ call.token \in Makers
  BY <1>1 DEF CallTypes
<1>3. ASSUME NEW p \in Daemons, Dispatch(p) PROVE call' \in CallTypes
  BY <1>1, <1>2, <1>3, CallTyped DEF Dispatch
<1>4. CASE Receive \/ TimeOut
  BY <1>1, <1>2, <1>4, CallTyped DEF Receive, TimeOut, SettleCall
<1>5. CASE Connect \/ Answer
  BY <1>1, <1>2, <1>5, CallTyped DEF Connect, Answer, SettleCall
<1>. QED  BY <1>3, <1>4, <1>5 DEF CallStep, Caller

LEMMA StepTyped ==
  ASSUME DoorTypeOK, NEW p \in Daemons, NEW s \in Steps, To(p, s)
  PROVE  step' \in [Daemons -> Steps]
BY DEF DoorTypeOK, To, Steps

\* The types in three parts: the files, what the processes know, and the rest.
FilesOK == /\ lockOf \in Makers /\ lockText \in {"empty", "full"} /\ lockNew \in BOOLEAN
           /\ beat \in {"none", "new", "old"} /\ tokenFile \in Makers /\ path \in Makers
SawTypes == [Daemons -> [of : Makers, stamp : {"nan", "new", "old"}]]
RestOK == excuses \subseteq {"first", "silent", "replaced", "failed"} /\ waits \in 0 .. MaxWaits /\ errors \subseteq Faulty

LEMMA TypeParts ==
  DoorTypeOK <=> /\ FilesOK /\ RestOK /\ secret \in [Daemons -> Makers] /\ step \in [Daemons -> Steps]
                 /\ saw \in SawTypes /\ call \in CallTypes
BY DEF DoorTypeOK, FilesOK, RestOK, SawTypes, CallTypes, Steps

LEMMA TypeNext == ASSUME DoorTypeOK, [DoorNext]_doorVars PROVE DoorTypeOK'
<1>. DEFINE Typed == /\ FilesOK' /\ RestOK' /\ secret' \in [Daemons -> Makers] /\ step' \in [Daemons -> Steps]
                     /\ saw' \in SawTypes /\ call' \in CallTypes
<1>1. /\ FilesOK /\ RestOK /\ secret \in [Daemons -> Makers] /\ step \in [Daemons -> Steps]
      /\ saw \in SawTypes /\ call \in CallTypes
  BY TypeParts
<1>2. /\ Daemons \subseteq Makers /\ NoDaemon \in Makers /\ \A of \in Makers, t \in {"nan", "new", "old"} :
           Found(of, t) \in [of : Makers, stamp : {"nan", "new", "old"}]
  BY DEF Makers, Found
<1>. HIDE DEF Typed
<1>3. ASSUME NEW p \in Daemons, NEW from, NEW made \in {"writing", "rewriting"}, NEW taken \in {"looking", "refused"},
             OpenLock(p, from, made, taken)
      PROVE  Typed
  <2>1. step' \in [Daemons -> Steps]
    BY <1>3, StepTyped DEF OpenLock, Steps, Acquiring, Stopped
  <2>2. FilesOK'
    BY <1>1, <1>2, <1>3 DEF OpenLock, FilesOK, door, lockFile
  <2>. QED  BY <1>1, <1>3, <2>1, <2>2 DEF OpenLock, RestOK, Typed, door, bounds
<1>4. ASSUME NEW p \in Daemons, WriteLock(p) PROVE Typed
  <2>1. step' \in [Daemons -> Steps]
    BY <1>4, StepTyped DEF WriteLock, Steps, Holders, Stopped
  <2>2. FilesOK' /\ RestOK'
    BY <1>1, <1>4 DEF WriteLock, FilesOK, RestOK, Errs, door, bounds
  <2>. QED  BY <1>1, <1>4, <2>1, <2>2 DEF WriteLock, Typed, door
<1>5. ASSUME NEW p \in Daemons, LookAtLock(p) PROVE Typed
  <2>1. step' \in [Daemons -> Steps]
    BY <1>5, StepTyped DEF LookAtLock, Steps, Acquiring, Stopped
  <2>2. saw' \in SawTypes
    BY <1>1, <1>2, <1>5 DEF LookAtLock, SawTypes, FilesOK
  <2>3. FilesOK' /\ RestOK'
    BY <1>1, <1>5 DEF LookAtLock, FilesOK, RestOK, lockFile, door, bounds
  <2>. QED  BY <1>1, <1>5, <2>1, <2>2, <2>3 DEF LookAtLock, Typed, door
<1>6. ASSUME NEW p \in Daemons, Judge(p) PROVE Typed
  <2>1. step' \in [Daemons -> Steps]
    BY <1>6, StepTyped DEF Judge, Steps, Acquiring, Stopped
  <2>2. saw' \in SawTypes
    BY <1>1, <1>2, <1>6 DEF Judge, SawTypes
  <2>3. FilesOK' /\ RestOK'
    BY <1>1, <1>6 DEF Judge, FilesOK, RestOK, lockFile, door, bounds
  <2>. QED  BY <1>1, <1>6, <2>1, <2>2, <2>3 DEF Judge, Typed, door
<1>7. ASSUME NEW p \in Daemons, LockStep(p) PROVE Typed
  <2>1. CASE step[p] = "removing" /\ To(p, "again") /\ RemoveLock(p, saw[p].of)
             /\ saw' = [saw EXCEPT ![p] = Found(NoDaemon, "nan")] /\ UNCHANGED <<beat, door, call, bounds>>
    <3>1. step' \in [Daemons -> Steps]
      BY <2>1, StepTyped DEF Steps, Acquiring
    <3>2. saw' \in SawTypes
      BY <1>1, <1>2, <2>1 DEF SawTypes
    <3>3. FilesOK' /\ RestOK'
      BY <1>1, <1>2, <2>1 DEF RemoveLock, FilesOK, RestOK, door, bounds
    <3>. QED  BY <1>1, <2>1, <3>1, <3>2, <3>3 DEF Typed, door
  <2>. QED  BY <1>3, <1>4, <1>5, <1>6, <1>7, <2>1 DEF LockStep
<1>8. ASSUME NEW p \in Daemons, StartStep(p) \/ Tick(p) PROVE Typed
  <2>1. step' \in [Daemons -> Steps]
    BY <1>8, StepTyped DEF StartStep, Tick, ReadToken, MintToken, Unlink, Listen, Release, Unlocks,
         Steps, Holders, Stopped
  <2>2. UNCHANGED <<saw, call>>
    BY <1>8 DEF StartStep, Tick, ReadToken, MintToken, Unlink, Listen, Release, Unlocks
  <2>3. CASE ReadToken(p) \/ MintToken(p)
    <3>1. secret' \in [Daemons -> Makers]
      BY <1>1, <1>2, <2>3 DEF ReadToken, MintToken, FilesOK
    <3>2. FilesOK'
      BY <1>1, <1>2, <2>3 DEF ReadToken, MintToken, FilesOK, lockFile
    <3>3. RestOK'
      BY <1>1, <2>3 DEF ReadToken, MintToken, RestOK, Errs, bounds
    <3>. QED  BY <1>1, <2>1, <2>2, <3>1, <3>2, <3>3 DEF Typed
  <2>4. CASE Unlink(p) \/ Listen(p) \/ Tick(p)
    <3>1. FilesOK' /\ RestOK' /\ secret' = secret
      BY <1>1, <1>2, <2>4 DEF Unlink, Listen, Tick, FilesOK, RestOK, Errs, lockFile, door, bounds
    <3>. QED  BY <1>1, <2>1, <2>2, <3>1 DEF Typed
  <2>5. CASE Release(p) \/ Unlocks(p)
    <3>1. FilesOK' /\ RestOK' /\ secret' = secret
      BY <1>1, <1>2, <2>5 DEF Release, Unlocks, RemoveLock, FilesOK, RestOK, lockFile, door, bounds
    <3>. QED  BY <1>1, <2>1, <2>2, <3>1 DEF Typed
  <2>. QED  BY <1>8, <2>3, <2>4, <2>5 DEF StartStep
<1>9. ASSUME NEW p \in Daemons, Close(p) \/ Die(p) PROVE Typed
  <2>1. call' \in CallTypes
    BY <1>9, DesertsTyped DEF Close, Die
  <2>2. step' \in [Daemons -> Steps]
    BY <1>9, StepTyped DEF Close, Die, AfterClose, Steps, Holders, Stopped
  <2>3. secret' \in [Daemons -> Makers] /\ saw' \in SawTypes
    BY <1>1, <1>2, <1>9 DEF Close, Die, SawTypes
  <2>4. FilesOK' /\ RestOK'
    BY <1>1, <1>2, <1>9 DEF Close, Die, FilesOK, RestOK, lockFile, bounds
  <2>. QED  BY <2>1, <2>2, <2>3, <2>4 DEF Typed
<1>10. ASSUME Pass90 PROVE Typed
  <2>1. saw' \in SawTypes
    BY <1>1, <1>2, <1>10 DEF Pass90, SawTypes
  <2>2. FilesOK'
    BY <1>1, <1>10 DEF Pass90, FilesOK, door
  <2>3. RestOK'
    BY <1>1, <1>10, DoorAssumption DEF Pass90, RestOK
  <2>. QED  BY <1>1, <1>10, <2>1, <2>2, <2>3 DEF Pass90, Typed, door
<1>11. ASSUME CallStep \/ Caller PROVE Typed
  <2>1. call' \in CallTypes
    BY <1>11, CallStepTyped
  <2>2. UNCHANGED <<lockFile, beat, door, step, saw, excuses, bounds>>
    BY <1>11 DEF CallStep, Caller
  <2>. QED  BY <1>1, <2>1, <2>2 DEF FilesOK, RestOK, Typed, lockFile, door, bounds
<1>12. ASSUME UNCHANGED doorVars PROVE Typed
  BY <1>1, <1>12 DEF doorVars, FilesOK, RestOK, Typed, lockFile, door, bounds
<1>13. Typed
  BY <1>3, <1>7, <1>8, <1>9, <1>10, <1>11, <1>12 DEF DoorNext, Acquire
<1>. QED  BY <1>13 DEF Typed, DoorTypeOK, FilesOK, RestOK, SawTypes, CallTypes, Steps

-----------------------------------------------------------------------------
(* The lock.                                                               *)

Making == {"writing", "rewriting"}

\* A process stays where it is, or goes on without a new claim on the lock.
GoesOn(q) ==
  \/ step'[q] = step[q]
  \/ /\ step[q] \notin Stopped \union {"out"} /\ step'[q] \notin {"out", "removing"}
     /\ step'[q] \in Holders \union Making => step[q] \in Holders
\* What it knows of the lock stays or is forgotten.
Remembers(q) == /\ saw'[q].of = saw[q].of \/ saw'[q].of = NoDaemon
                /\ saw'[q].stamp = "nan" => saw'[q].of = NoDaemon

LEMMA QuietLock ==
  ASSUME DoorTypeOK, LockInv, UNCHANGED <<lockOf, lockText>>, excuses \subseteq excuses',
         \A q \in Daemons : GoesOn(q) /\ Remembers(q)
  PROVE  LockInv'
<1>1. SawInv'
  BY DoorAssumption DEF LockInv, SawInv, GoesOn, Remembers
<1>2. Owners' \subseteq Owners /\ Creators' \subseteq Creators
  BY DEF Owners, Creators, GoesOn, Making
<1>3. ASSUME NEW q \in Daemons, step'[q] = "removing", excuses \subseteq {"failed"} PROVE ~Alive(saw[q].of)'
  <2>1. step[q] = "removing" /\ ~Alive(saw[q].of)
    BY <1>3 DEF GoesOn, LockInv, HeldInv, Holders
  <2>2. \A x \in Daemons : ~Alive(x) /\ step[x] # "out" => step'[x] \in Stopped
    BY DEF Alive, GoesOn
  <2>3. saw'[q].of \in Daemons => saw'[q].of = saw[q].of /\ step[saw[q].of] # "out"
    BY DoorAssumption DEF Remembers, LockInv, SawInv
  <2>. QED  BY <2>1, <2>2, <2>3 DEF Alive
<1>4. HeldInv'
  BY <1>2, <1>3 DEF LockInv, HeldInv
<1>. QED  BY <1>1, <1>4 DEF LockInv

LEMMA OpenLockKeeps ==
  ASSUME DoorTypeOK, LockInv, NEW p \in Daemons, NEW from \in {"out", "again"}, NEW made \in Making,
         NEW taken \in {"looking", "refused"}, OpenLock(p, from, made, taken)
  PROVE  LockInv'
<1>1. /\ step[p] = from /\ UNCHANGED <<saw, excuses>> /\ \A q \in Daemons \ {p} : step'[q] = step[q]
      /\ step \in [Daemons -> Steps] /\ NoDaemon \notin Daemons
  BY DoorAssumption DEF OpenLock, To, DoorTypeOK, Steps
<1>2. CASE lockOf = NoDaemon
  <2>1. lockOf' = p /\ lockText' = "empty" /\ step'[p] = made
    BY <1>1, <1>2 DEF OpenLock, Creates, To
  <2>2. SawInv'
    BY <1>1, <2>1 DEF LockInv, SawInv, Making
  <2>3. ASSUME excuses \subseteq {"failed"} PROVE HeldInv'
    <3>1. Creators = {} /\ Owners = {}
      BY <1>1, <1>2, <2>3 DEF LockInv, HeldInv, Creators, Owners
    <3>2. Creators' = {p} /\ Owners' = {}
      BY <1>1, <2>1, <3>1 DEF Creators, Owners, Holders, Making
    <3>3. \A q \in Daemons : step'[q] = "removing" => step[q] = "removing" /\ ~Alive(saw[q].of)
      BY <1>1, <2>1, <2>3 DEF LockInv, HeldInv, Making
    <3>4. \A q, x \in Daemons : saw[q].of = x /\ ~Alive(x) => ~Alive(x)'
      BY <1>1, <2>1 DEF Alive, LockInv, SawInv, Stopped
    <3>5. \A q \in Daemons : step'[q] = "removing" => ~Alive(saw[q].of)'
      BY <1>1, <3>3, <3>4 DEF Alive
    <3>. QED  BY <1>1, <2>1, <3>2, <3>5 DEF HeldInv
  <2>. QED  BY <1>1, <2>2, <2>3 DEF LockInv, HeldInv
<1>3. CASE lockOf # NoDaemon
  <2>1. step'[p] = taken /\ UNCHANGED lockFile
    BY <1>1, <1>3 DEF OpenLock, Creates, To
  <2>2. SawInv'
    BY <1>1, <2>1 DEF LockInv, SawInv, lockFile
  <2>3. Creators' = Creators /\ Owners' = Owners
    BY <1>1, <2>1 DEF Creators, Owners, Holders
  <2>4. \A q \in Daemons : step'[q] = "removing" => step[q] = "removing"
    BY <1>1, <2>1
  <2>5. \A q, x \in Daemons : saw[q].of = x /\ ~Alive(x) => ~Alive(x)'
    BY <1>1, <2>1 DEF Alive, LockInv, SawInv, Stopped
  <2>6. HeldInv'
    BY <1>1, <2>1, <2>3, <2>4, <2>5 DEF LockInv, HeldInv, Alive, lockFile
  <2>. QED  BY <2>2, <2>6 DEF LockInv
<1>. QED  BY <1>2, <1>3

LEMMA WriteLockKeeps == ASSUME DoorTypeOK, LockInv, NEW p \in Daemons, WriteLock(p) PROVE LockInv'
<1>1. /\ step[p] \in Making /\ UNCHANGED <<saw, excuses, lockOf>> /\ \A q \in Daemons \ {p} : step'[q] = step[q]
      /\ \/ step'[p] = "owner" /\ lockText' = IF lockOf = p THEN "full" ELSE lockText
         \/ step'[p] = "refused" /\ lockText' = lockText
  BY DEF WriteLock, To, DoorTypeOK, Making
<1>2. SawInv'
  BY <1>1 DEF LockInv, SawInv
<1>3. ASSUME excuses \subseteq {"failed"} PROVE HeldInv'
  <2>1. lockOf = p /\ Creators' \subseteq Creators /\ Creators = {p}
    BY <1>1, <1>3 DEF LockInv, HeldInv, Creators, Holders, Making
  <2>2. Owners' # {} => lockText' = "full"
    <3>1. \A q \in Owners' : q = p
      BY <1>1, <2>1 DEF Owners, Creators
    <3>2. step'[p] = "refused" => p \notin Owners'
      BY DEF Owners, Holders
    <3>. QED  BY <1>1, <2>1, <3>1, <3>2
  <2>3. \A q \in Daemons : step'[q] = "removing" => step[q] = "removing" /\ ~Alive(saw[q].of)
    BY <1>1, <1>3 DEF LockInv, HeldInv
  <2>4. \A x \in Daemons : ~Alive(x) => ~Alive(x)'
    BY <1>1 DEF Alive, Stopped, Making
  <2>. QED  BY <1>1, <2>1, <2>2, <2>3, <2>4 DEF HeldInv, Alive
<1>. QED  BY <1>1, <1>2, <1>3 DEF LockInv, HeldInv

LEMMA LookKeeps == ASSUME DoorTypeOK, LockInv, NEW p \in Daemons, LookAtLock(p) PROVE LockInv'
<1>1. /\ step[p] = "looking" /\ UNCHANGED <<lockOf, lockText, excuses>>
      /\ step'[p] \in {"judging", "corrupt"}
      /\ \A q \in Daemons \ {p} : step'[q] = step[q] /\ saw'[q] = saw[q]
      /\ saw'[p] = saw[p] \/ (saw'[p].of = lockOf /\ (saw'[p].stamp = "nan" => lockOf = NoDaemon))
  BY DEF LookAtLock, To, DoorTypeOK, Found, lockFile
<1>2. SawInv'
  BY <1>1 DEF LockInv, SawInv
<1>3. Creators' = Creators /\ Owners' = Owners
  BY <1>1 DEF Creators, Owners, Holders
<1>4. \A x \in Daemons : ~Alive(x) => ~Alive(x)'
  BY <1>1 DEF Alive, Stopped
<1>5. \A q \in Daemons : step'[q] = "removing" => q # p /\ step[q] = "removing"
  BY <1>1
<1>6. HeldInv'
  BY <1>1, <1>3, <1>4, <1>5 DEF LockInv, HeldInv, Alive
<1>. QED  BY <1>2, <1>6 DEF LockInv

\* A lock that is judged to be stale while nothing excuses it is not of a living process.
LEMMA JudgeKeeps == ASSUME DoorTypeOK, LockInv, NEW p \in Daemons, Judge(p) PROVE LockInv'
<1>1. /\ step[p] = "judging" /\ UNCHANGED <<lockOf, lockText, beat>> /\ excuses \subseteq excuses'
      /\ step'[p] = (IF ShowsLife(p) THEN "refused" ELSE "removing")
      /\ \A q \in Daemons \ {p} : step'[q] = step[q] /\ saw'[q] = saw[q]
      /\ saw'[p] = IF ShowsLife(p) THEN Found(NoDaemon, "nan") ELSE saw[p]
  BY DEF Judge, To, DoorTypeOK, lockFile
<1>2. SawInv'
  BY <1>1, DoorAssumption DEF LockInv, SawInv, Found
<1>3. Creators' = Creators /\ Owners' = Owners
  BY <1>1 DEF Creators, Owners, Holders
<1>4. \A x \in Daemons : ~Alive(x) /\ step[x] # "out" => ~Alive(x)'
  BY <1>1 DEF Alive, Stopped
<1>5. ASSUME excuses' \subseteq {"failed"}, ~ShowsLife(p) PROVE ~Alive(saw[p].of)
  <2>1. saw[p].stamp \in {"nan", "new", "old"} /\ (saw[p].stamp = "nan" => ~Alive(saw[p].of))
    BY DoorAssumption DEF DoorTypeOK, LockInv, SawInv, Alive
  <2>2. CASE saw[p].stamp = "old"
    BY <1>5, <2>2 DEF Judge
  <2>3. CASE saw[p].stamp = "new"
    BY <1>5, <2>3 DEF Judge, ShowsLife
  <2>. QED  BY <2>1, <2>2, <2>3
<1>6. ASSUME NEW q \in Daemons, excuses' \subseteq {"failed"}, step'[q] = "removing" PROVE ~Alive(saw[q].of)'
  <2>1. ~Alive(saw[q].of) /\ saw'[q] = saw[q]
    BY <1>1, <1>5, <1>6 DEF LockInv, HeldInv
  <2>2. saw[q].of \in Daemons => step[saw[q].of] # "out"
    BY DEF LockInv, SawInv
  <2>. QED  BY <1>4, <2>1, <2>2 DEF Alive
<1>7. HeldInv'
  BY <1>1, <1>3, <1>6 DEF LockInv, HeldInv
<1>. QED  BY <1>2, <1>7 DEF LockInv

\* The lock file is removed when nobody holds it any more, or with an excuse.
LEMMA RemovalKeeps ==
  ASSUME DoorTypeOK, LockInv, lockOf' = NoDaemon, excuses \subseteq excuses',
         \A q \in Daemons : GoesOn(q) /\ Remembers(q), excuses' \subseteq {"failed"} => Creators' = {}
  PROVE  LockInv'
<1>1. SawInv'
  BY DoorAssumption DEF LockInv, SawInv, GoesOn, Remembers
<1>2. Owners' \subseteq Creators'
  BY DEF Owners, Creators
<1>3. ASSUME NEW q \in Daemons, step'[q] = "removing", excuses' \subseteq {"failed"} PROVE ~Alive(saw[q].of)'
  <2>1. step[q] = "removing" /\ ~Alive(saw[q].of)
    BY <1>3 DEF GoesOn, LockInv, HeldInv, Holders
  <2>2. \A x \in Daemons : ~Alive(x) /\ step[x] # "out" => step'[x] \in Stopped
    BY DEF Alive, GoesOn
  <2>3. saw'[q].of \in Daemons => saw'[q].of = saw[q].of /\ step[saw[q].of] # "out"
    BY DoorAssumption DEF Remembers, LockInv, SawInv
  <2>. QED  BY <2>1, <2>2, <2>3 DEF Alive
<1>4. HeldInv'
  BY <1>2, <1>3 DEF HeldInv
<1>. QED  BY <1>1, <1>4 DEF LockInv

\* With nothing to excuse it there is one creator at most.
LEMMA OneCreator ==
  ASSUME LockInv, excuses \subseteq {"failed"}, NEW p \in Creators
  PROVE  Creators = {p} /\ lockOf = p
BY DEF LockInv, HeldInv

LEMMA RemoveKeeps ==
  ASSUME DoorTypeOK, LockInv, NEW p \in Daemons, step[p] = "removing", To(p, "again"), RemoveLock(p, saw[p].of),
         saw' = [saw EXCEPT ![p] = Found(NoDaemon, "nan")]
  PROVE  LockInv'
<1>1. /\ step'[p] = "again" /\ saw'[p] = Found(NoDaemon, "nan") /\ lockOf' = NoDaemon /\ excuses \subseteq excuses'
      /\ \A q \in Daemons \ {p} : step'[q] = step[q] /\ saw'[q] = saw[q]
  BY DEF To, RemoveLock, DoorTypeOK
<1>2. \A q \in Daemons : GoesOn(q) /\ Remembers(q)
  BY <1>1 DEF GoesOn, Remembers, Found, Stopped, Holders, Making, LockInv, SawInv
<1>3. ASSUME excuses' \subseteq {"failed"} PROVE Creators' = {}
  <2>1. lockOf \in {NoDaemon, saw[p].of} /\ ~Alive(saw[p].of) /\ excuses \subseteq {"failed"}
    BY <1>3 DEF RemoveLock, LockInv, HeldInv
  <2>2. \A q \in Creators : Alive(q) /\ lockOf = q /\ q # NoDaemon
    BY <2>1, DoorAssumption DEF Creators, Alive, Holders, Stopped, LockInv, HeldInv
  <2>3. Creators = {}
    BY <2>1, <2>2
  <2>. QED  BY <1>1, <2>3 DEF Creators, Holders
<1>. QED  BY <1>1, <1>2, <1>3, RemovalKeeps

LEMMA ReleaseKeeps == ASSUME DoorTypeOK, LockInv, NEW p \in Daemons, Release(p) \/ Unlocks(p) PROVE LockInv'
<1>1. /\ step[p] \in {"leaving", "stumbled", "unlocking"} /\ step'[p] \in {"unlocking", "gone", "orphan"}
      /\ step'[p] = "unlocking" => step[p] = "leaving"
      /\ UNCHANGED saw /\ \A q \in Daemons \ {p} : step'[q] = step[q]
  BY DEF Release, Unlocks, To, DoorTypeOK
<1>2. \A q \in Daemons : GoesOn(q) /\ Remembers(q)
  BY <1>1 DEF GoesOn, Remembers, Stopped, Holders, Making, LockInv, SawInv
<1>3. p \in Creators
  BY <1>1 DEF Creators, Holders
<1>4. step'[p] # "unlocking" => Creators' = Creators \ {p}
  BY <1>1 DEF Creators, Holders, Making
<1>5. CASE UNCHANGED <<lockFile, excuses>>
  BY <1>2, <1>5, QuietLock DEF lockFile
<1>6. CASE step[p] = "stumbled" /\ To(p, "orphan") /\ lockOf' = NoDaemon /\ excuses' = excuses \union {"failed"}
  <2>1. excuses' \subseteq {"failed"} => Creators' = {}
    BY <1>3, <1>4, <1>6, OneCreator DEF To, DoorTypeOK
  <2>. QED  BY <1>2, <1>6, <2>1, RemovalKeeps
<1>7. CASE step[p] = "unlocking" /\ To(p, "gone") /\ RemoveLock(p, p)
  <2>1. excuses \subseteq excuses' /\ lockOf' = NoDaemon /\ step'[p] = "gone"
    BY <1>7 DEF RemoveLock, To, DoorTypeOK
  <2>2. excuses' \subseteq {"failed"} => Creators' = {}
    BY <1>3, <1>4, <2>1, OneCreator
  <2>. QED  BY <1>2, <2>1, <2>2, RemovalKeeps
<1>. QED  BY <1>5, <1>6, <1>7 DEF Release, Unlocks

LEMMA QuietSteps ==
  ASSUME DoorTypeOK, LockInv, NEW p \in Daemons,
         ReadToken(p) \/ MintToken(p) \/ Unlink(p) \/ Listen(p) \/ Tick(p) \/ Close(p) \/ Die(p)
  PROVE  LockInv'
<1>1. UNCHANGED <<lockOf, lockText, excuses>> /\ \A q \in Daemons \ {p} : step'[q] = step[q] /\ saw'[q] = saw[q]
  BY DEF ReadToken, MintToken, Unlink, Listen, Tick, Close, Die, To, DoorTypeOK, lockFile
<1>2. saw'[p] = saw[p] \/ saw'[p] = Found(NoDaemon, "nan")
  BY DEF ReadToken, MintToken, Unlink, Listen, Tick, Close, Die, DoorTypeOK
<1>3. \A q \in Daemons : Remembers(q)
  BY <1>1, <1>2 DEF Remembers, Found, LockInv, SawInv
<1>4. GoesOn(p)
  <2>1. CASE ReadToken(p) \/ MintToken(p) \/ Unlink(p) \/ Listen(p)
    BY <2>1 DEF ReadToken, MintToken, Unlink, Listen, To, DoorTypeOK, GoesOn, Stopped, Holders, Making
  <2>2. CASE Tick(p) \/ Close(p)
    BY <2>2 DEF Tick, Close, AfterClose, To, DoorTypeOK, GoesOn, Stopped, Holders, Making
  <2>3. CASE Die(p)
    BY <2>3 DEF Die, Alive, To, DoorTypeOK, GoesOn, Stopped, Holders, Making
  <2>. QED  BY <2>1, <2>2, <2>3
<1>. QED  BY <1>1, <1>3, <1>4, QuietLock DEF GoesOn

LEMMA LockNext == ASSUME DoorTypeOK, LockInv, [DoorNext]_doorVars PROVE LockInv'
<1>1. ASSUME NEW p \in Daemons, Acquire(p) \/ LockStep(p) PROVE LockInv'
  BY <1>1, OpenLockKeeps, WriteLockKeeps, LookKeeps, JudgeKeeps, RemoveKeeps DEF Acquire, LockStep, Making
<1>2. ASSUME NEW p \in Daemons, StartStep(p) \/ Tick(p) \/ Close(p) \/ Die(p) PROVE LockInv'
  BY <1>2, QuietSteps, ReleaseKeeps DEF StartStep
<1>3. ASSUME Pass90 PROVE LockInv'
  <2>1. UNCHANGED <<lockOf, lockText, step, excuses>>
    BY <1>3 DEF Pass90
  <2>2. \A q \in Daemons : Remembers(q)
    BY <1>3 DEF Pass90, Remembers, Found, LockInv, SawInv
  <2>. QED  BY <2>1, <2>2, QuietLock DEF GoesOn
<1>4. ASSUME CallStep \/ Caller \/ UNCHANGED doorVars PROVE LockInv'
  <2>1. UNCHANGED <<lockOf, lockText, step, saw, excuses>>
    BY <1>4 DEF CallStep, Caller, doorVars, lockFile
  <2>. QED  BY <2>1, QuietLock DEF GoesOn, Remembers, LockInv, SawInv
<1>. QED  BY <1>1, <1>2, <1>3, <1>4 DEF DoorNext

-----------------------------------------------------------------------------
(* The server of the holder, and the call.                                 *)

Claims == {"orphan", "minting", "unlinking", "binding"} \union Serving

LEMMA ExcusesStay == ASSUME DoorTypeOK, [DoorNext]_doorVars PROVE excuses \subseteq excuses'
BY DEF DoorNext, Acquire, LockStep, OpenLock, WriteLock, LookAtLock, Judge, RemoveLock, StartStep, ReadToken,
       MintToken, Unlink, Listen, Release, Unlocks, Tick, Close, Die, Pass90, CallStep, Caller, doorVars

\* A step that makes no new claim on the socket and the token.
LEMMA NoNewClaim ==
  ASSUME ServerInv, excuses \subseteq excuses', UNCHANGED <<path, tokenFile>>,
         \A q \in Daemons : \/ step'[q] = step[q] /\ secret'[q] = secret[q]
                            \/ step'[q] \notin Claims
  PROVE  ServerInv'
BY DEF ServerInv, MyServer, Claims, Serving

\* A step of the holder: nobody else is behind a socket.
LEMMA HolderMoves ==
  ASSUME DoorTypeOK, LockInv, ServerInv, NEW p \in Owners, excuses \subseteq excuses',
         \A q \in Daemons \ {p} : step'[q] = step[q], excuses = {} => MyServer(p)'
  PROVE  ServerInv'
<1>. SUFFICES ASSUME excuses' = {}, NEW q \in Daemons, q # p PROVE MyServer(q)'
  BY DEF ServerInv, Owners
<1>1. p \in Creators /\ excuses = {}
  BY DEF Owners, Creators
<1>2. q \notin Creators
  BY <1>1, OneCreator
<1>3. step[q] \notin Claims
  BY <1>1, <1>2 DEF Claims, Serving, Creators, Holders, ServerInv, MyServer
<1>. QED  BY <1>3 DEF MyServer, Claims, Serving

LEMMA ServerNext == ASSUME DoorTypeOK, LockInv, ServerInv, [DoorNext]_doorVars PROVE ServerInv'
<1>1. excuses \subseteq excuses' /\ step \in [Daemons -> Steps] /\ secret \in [Daemons -> Makers]
  BY ExcusesStay, TypeParts
<1>2. ASSUME NEW p \in Daemons, Acquire(p) \/ LockStep(p) PROVE ServerInv'
  <2>1. UNCHANGED <<path, tokenFile, secret>>
    BY <1>2 DEF Acquire, LockStep, OpenLock, WriteLock, LookAtLock, Judge, door
  <2>2. \A q \in Daemons : step'[q] = step[q] \/ step'[q] \notin Claims
    BY <1>1, <1>2 DEF Acquire, LockStep, OpenLock, WriteLock, LookAtLock, Judge, To, Claims, Serving
  <2>. QED  BY <1>1, <2>1, <2>2, NoNewClaim
<1>3. ASSUME NEW p \in Daemons, ReadToken(p) \/ MintToken(p) \/ Unlink(p) \/ Listen(p) \/ Tick(p) PROVE ServerInv'
  <2>1. p \in Owners /\ \A q \in Daemons \ {p} : step'[q] = step[q]
    BY <1>1, <1>3 DEF ReadToken, MintToken, Unlink, Listen, Tick, To, Owners, Holders
  <2>2. CASE ReadToken(p)
    <3>1. step[p] = "owner" /\ UNCHANGED <<tokenFile, path>>
          /\ \/ secret'[p] = tokenFile /\ step'[p] = IF tokenFile = NoDaemon THEN "minting" ELSE "unlinking"
             \/ step'[p] = "leaving"
      BY <1>1, <2>2 DEF ReadToken, To
    <3>2. MyServer(p)'
      BY <3>1 DEF MyServer, Serving
    <3>. QED  BY <1>1, <2>1, <3>2, HolderMoves
  <2>3. CASE MintToken(p)
    <3>1. step'[p] = "unlinking" /\ secret'[p] = tokenFile'
      BY <1>1, <2>3 DEF MintToken, To
    <3>2. MyServer(p)'
      BY <3>1 DEF MyServer
    <3>. QED  BY <1>1, <2>1, <3>2, HolderMoves
  <2>4. CASE Unlink(p) \/ Listen(p) \/ Tick(p)
    <3>1. /\ UNCHANGED <<tokenFile, secret>>
          /\ \/ step[p] = "unlinking" /\ step'[p] = "binding"
             \/ step[p] = "binding" /\ step'[p] = "listening" /\ path' = p
             \/ step'[p] = "leaving"
             \/ step[p] \in {"listening", "up"} /\ step'[p] \in {"up", "stumbled"} /\ path' = path
      BY <1>1, <2>4 DEF Unlink, Listen, Tick, To, door
    <3>2. ASSUME excuses = {} PROVE MyServer(p)'
      BY <3>1, <3>2 DEF ServerInv, MyServer, Serving
    <3>. QED  BY <1>1, <2>1, <3>2, HolderMoves
  <2>. QED  BY <1>3, <2>2, <2>3, <2>4
<1>4. ASSUME NEW p \in Daemons, Release(p) \/ Unlocks(p) PROVE ServerInv'
  <2>1. /\ p \in Owners /\ UNCHANGED <<path, tokenFile, secret>> /\ \A q \in Daemons \ {p} : step'[q] = step[q]
        /\ step'[p] \in {"unlocking", "gone", "orphan"}
        /\ step'[p] = "orphan" => lockOf # p \/ excuses' = excuses \union {"failed"}
    BY <1>1, <1>4 DEF Release, Unlocks, To, door, Owners, Holders
  <2>2. excuses' = {} => step'[p] # "orphan"
    BY <1>1, <2>1 DEF LockInv, HeldInv, Owners, Creators
  <2>3. excuses' = {} => MyServer(p)'
    BY <2>1, <2>2 DEF MyServer, Serving
  <2>4. CASE excuses' = {}
    BY <1>1, <2>1, <2>3, <2>4, HolderMoves
  <2>. QED  BY <2>4 DEF ServerInv
<1>5. ASSUME NEW p \in Daemons, Close(p) PROVE ServerInv'
  <2>1. /\ step[p] \in {"up", "orphan"} /\ step'[p] = AfterClose(p) /\ \A q \in Daemons \ {p} : step'[q] = step[q]
    BY <1>1, <1>5 DEF Close, To
  <2>2. CASE step[p] = "up"
    <3>1. p \in Owners /\ MyServer(p)'
      BY <2>1, <2>2 DEF Owners, Holders, AfterClose, MyServer, Serving
    <3>. QED  BY <1>1, <2>1, <3>1, HolderMoves
  <2>3. CASE step[p] = "orphan"
    BY <1>1, <2>3 DEF ServerInv, MyServer
  <2>. QED  BY <2>1, <2>2, <2>3
<1>6. ASSUME NEW p \in Daemons, Die(p) PROVE ServerInv'
  <2>1. /\ UNCHANGED <<path, tokenFile>> /\ step'[p] = "dead"
        /\ \A q \in Daemons \ {p} : step'[q] = step[q] /\ secret'[q] = secret[q]
    BY <1>1, <1>6 DEF Die, To
  <2>. QED  BY <1>1, <2>1, NoNewClaim DEF Claims, Serving
<1>7. ASSUME Pass90 \/ CallStep \/ Caller \/ UNCHANGED doorVars PROVE ServerInv'
  <2>1. UNCHANGED <<path, tokenFile, secret, step>>
    BY <1>7 DEF Pass90, CallStep, Caller, doorVars, door
  <2>. QED  BY <1>1, <2>1, NoNewClaim
<1>. QED  BY <1>2, <1>3, <1>4, <1>5, <1>6, <1>7 DEF DoorNext, StartStep

LEMMA CallNext ==
  ASSUME DoorTypeOK, LockInv, ServerInv, CallInv, AnswerTrue, [DoorNext]_doorVars
  PROVE  CallInv' /\ AnswerTrue'
<1>1. excuses \subseteq excuses'
  BY ExcusesStay
<1>2. ASSUME UNCHANGED <<call, tokenFile>> PROVE CallInv' /\ AnswerTrue'
  BY <1>1, <1>2 DEF CallInv, AnswerTrue
<1>3. ASSUME NEW p \in Daemons, MintToken(p) PROVE CallInv' /\ AnswerTrue'
  <2>1. step[p] = "minting" /\ UNCHANGED call
    BY <1>3 DEF MintToken
  <2>2. excuses = {} => call.at # "sent"
    BY <2>1 DEF ServerInv, MyServer, CallInv
  <2>. QED  BY <1>1, <2>1, <2>2 DEF CallInv, AnswerTrue
<1>4. ASSUME NEW p \in Daemons, Close(p) \/ Die(p) PROVE CallInv' /\ AnswerTrue'
  <2>1. Deserts(p) /\ tokenFile' = tokenFile
    BY <1>4 DEF Close, Die
  <2>2. CASE UNCHANGED call
    BY <1>2, <2>1, <2>2
  <2>3. CASE Open(p) /\ Call("deserted", NoDaemon, NoDaemon, call.result, call.ran)
    BY <1>1, <2>3 DEF Call, CallInv, AnswerTrue
  <2>4. CASE Open(p) /\ Resets(p) /\ SettleCall("unreachable")
    BY <1>1, <2>4 DEF Resets, SettleCall, Call, CallInv, AnswerTrue
  <2>. QED  BY <2>1, <2>2, <2>3, <2>4 DEF Deserts
<1>5. ASSUME NEW p \in Daemons, Dispatch(p), UNCHANGED <<lockFile, beat, door, step, saw, excuses, bounds>>
      PROVE  CallInv' /\ AnswerTrue'
  <2>1. call.at = "sent" /\ step[p] \in Serving /\ call.ran = "no" /\ call.result = "none"
    BY <1>5 DEF Dispatch, CallInv
  <2>2. excuses = {} => Authentic(p) /\ lockOf = p
    BY <2>1 DEF ServerInv, MyServer, CallInv, Authentic, LockInv, HeldInv, Creators, Serving, Holders
  <2>3. CASE Authentic(p)
    BY <1>1, <1>5, <2>1, <2>2, <2>3 DEF Dispatch, Call, CallInv, AnswerTrue
  <2>4. CASE ~Authentic(p)
    BY <1>1, <1>5, <2>1, <2>2, <2>4 DEF Dispatch, Call, CallInv, AnswerTrue
  <2>. QED  BY <2>3, <2>4
<1>6. ASSUME Receive \/ TimeOut, tokenFile' = tokenFile PROVE CallInv' /\ AnswerTrue'
  BY <1>1, <1>6 DEF Receive, TimeOut, SettleCall, Call, CallInv, AnswerTrue
<1>7. ASSUME Connect \/ Answer, tokenFile' = tokenFile PROVE CallInv' /\ AnswerTrue'
  BY <1>1, <1>7 DEF Connect, Answer, SettleCall, Call, CallInv, AnswerTrue
<1>8. ASSUME NEW p \in Daemons, Acquire(p) \/ LockStep(p) \/ ReadToken(p) \/ Unlink(p) \/ Listen(p) \/ Release(p)
                                \/ Unlocks(p) \/ Tick(p)
      PROVE  UNCHANGED <<call, tokenFile>>
  BY <1>8 DEF Acquire, LockStep, OpenLock, WriteLock, LookAtLock, Judge, ReadToken, Unlink, Listen, Release, Unlocks,
              Tick, door
<1>9. ASSUME Pass90 \/ UNCHANGED doorVars PROVE UNCHANGED <<call, tokenFile>>
  BY <1>9 DEF Pass90, doorVars, door
<1>10. ASSUME CallStep \/ Caller PROVE CallInv' /\ AnswerTrue'
  BY <1>5, <1>6, <1>7, <1>10 DEF CallStep, Caller, door
<1>. QED  BY <1>2, <1>3, <1>4, <1>8, <1>9, <1>10 DEF DoorNext, StartStep

-----------------------------------------------------------------------------
(* The theorems.                                                           *)

LEMMA DoorInitially == DoorInit => DoorInv
<1>. SUFFICES ASSUME DoorInit PROVE DoorInv
  OBVIOUS
<1>1. FilesOK /\ call \in CallTypes
  BY DEF DoorInit, FilesOK, CallTypes, Makers
<1>2. saw \in SawTypes /\ step \in [Daemons -> Steps] /\ secret \in [Daemons -> Makers]
  BY DEF DoorInit, SawTypes, Steps, Makers, Found
<1>3. RestOK
  BY DoorAssumption DEF DoorInit, RestOK
<1>4. DoorTypeOK
  BY <1>1, <1>2, <1>3, TypeParts
<1>5. LockInv
  BY DoorAssumption DEF DoorInit, LockInv, SawInv, HeldInv, Creators, Owners, Holders, Found
<1>6. ServerInv /\ CallInv /\ AnswerTrue
  BY DEF DoorInit, ServerInv, MyServer, Serving, CallInv, AnswerTrue
<1>. QED  BY <1>4, <1>5, <1>6 DEF DoorInv

LEMMA DoorInvariance == DoorSpec => []DoorInv
<1>1. DoorInv /\ [DoorNext]_doorVars => DoorInv'
  BY TypeNext, LockNext, ServerNext, CallNext DEF DoorInv
<1>. QED  BY <1>1, DoorInitially, PTL DEF DoorSpec

\* Two daemons hold the lock together only after one of the ways to lose it: no crash and
\* no failing write alone brings that about.
THEOREM OneHolder == DoorSpec => []OneOwner
<1>1. DoorInv => OneOwner
  <2>. SUFFICES ASSUME DoorInv, excuses \subseteq {"failed"}
                PROVE  Cardinality(Owners) <= 1 /\ \A p \in Owners : lockOf = p /\ lockText = "full"
    BY DEF OneOwner
  <2>1. \A p \in Owners : lockOf = p /\ lockText = "full"
    BY DEF DoorInv, LockInv, HeldInv, Creators, Owners
  <2>2. Owners \subseteq {lockOf} /\ IsFiniteSet({lockOf}) /\ Cardinality({lockOf}) = 1
    BY <2>1, FS_Singleton
  <2>3. Cardinality(Owners) <= 1
    BY <2>2, FS_Subset
  <2>. QED  BY <2>1, <2>3
<1>. QED  BY <1>1, DoorInvariance, PTL

\* What a client asks of the daemon that is up runs in the process that holds the lock, and
\* what it is told is what happened there.
THEOREM DoorIsSafe == DoorSpec => []DoorSafe
<1>1. DoorInv => DoorSafe
  <2>. SUFFICES ASSUME DoorInv PROVE DoorTypeOK /\ ReachableOwner /\ AnswerTrue
    BY DEF DoorSafe
  <2>1. ReachableOwner
    BY DEF DoorInv, ServerInv, MyServer, CallInv, ReachableOwner
  <2>. QED  BY <2>1 DEF DoorInv
<1>. QED  BY <1>1, DoorInvariance, PTL

-----------------------------------------------------------------------------
(* What a cron expression names.                                           *)

LEMMA Quotient ==
  ASSUME NEW a \in Nat, NEW s \in Nat \ {0}
  PROVE  a % s = 0 => \E k \in 0 .. a : a = s * k
<1>1. a = s * (a \div s) + (a % s) /\ a \div s \in 0 .. a
  OBVIOUS
<1>. QED  BY <1>1

LEMMA Multiple == ASSUME NEW k \in Nat, NEW s \in Nat \ {0} PROVE (s * k) % s = 0
OBVIOUS

LEMMA FieldFacts ==
  ASSUME NEW f \in 1 .. 5
  PROVE  /\ Ranges[f].min \in 0 .. 1 /\ Ranges[f].max \in 1 .. 60 /\ Ranges[f].sunday \in BOOLEAN
         /\ Ranges[f].sunday => Ranges[f].min = 0 /\ Ranges[f].max = 7
         /\ \A src \in Sources : src[f] \in Seq(Parts)
         /\ \A src \in Sources : \A i \in DOMAIN src[f] : src[f][i] \in Parts
<1>1. Ranges[f] \in [min : 0 .. 1, max : 1 .. 60, sunday : BOOLEAN]
  BY ScheduleAssumption
<1>2. Ranges[f].sunday => Ranges[f].min = 0 /\ Ranges[f].max = 7
  BY ScheduleAssumption
<1>3. \A src \in Sources : src[f] \in Seq(Parts)
  BY ScheduleAssumption
<1>4. ASSUME NEW src \in Sources, NEW i \in DOMAIN src[f] PROVE src[f][i] \in Parts
  <2>1. \A s \in Seq(Parts) : \A j \in DOMAIN s : s[j] \in Parts
    <3>. HIDE DEF Parts
    <3>. QED  OBVIOUS
  <2>. QED  BY <1>3, <2>1
<1>5. Ranges[f].min \in 0 .. 1 /\ Ranges[f].max \in 1 .. 60
  BY <1>1
<1>6. Ranges[f].sunday \in BOOLEAN
  BY <1>1
<1>. QED  BY <1>2, <1>3, <1>4, <1>5, <1>6

\* Where a part begins and ends.
LEMMA PartBounds ==
  ASSUME NEW f \in 1 .. 5, NEW p \in Parts, ValidPart(p, f)
  PROVE  /\ First5(p, f) \in Nat /\ Last5(p, f) \in Nat /\ p.step \in Nat \ {0}
         /\ Ranges[f].min <= First5(p, f) /\ First5(p, f) <= Last5(p, f) /\ Last5(p, f) <= Ranges[f].max
         /\ p.kind = "any" => First5(p, f) = Ranges[f].min /\ Last5(p, f) = Ranges[f].max
         /\ (p.kind = "one" /\ Ranges[f].sunday /\ p.lo = 7) => First5(p, f) = 0 /\ Last5(p, f) = 0
         /\ (p.kind # "any" /\ ~(Ranges[f].sunday /\ p.lo = 7)) => First5(p, f) = p.lo /\ Last5(p, f) = p.hi
<1>0. Ranges[f].min \in 0 .. 1 /\ Ranges[f].max \in 1 .. 60 /\ Ranges[f].sunday \in BOOLEAN
      /\ (Ranges[f].sunday => Ranges[f].min = 0 /\ Ranges[f].max = 7)
  BY FieldFacts
<1>1. p.kind \in {"any", "one", "range"} /\ p.lo \in Nat /\ p.hi \in Nat /\ p.step \in Nat /\ (p.kind = "one" => p.lo = p.hi)
  BY DEF Parts
<1>2. CASE p.kind = "any"
  BY <1>0, <1>1, <1>2 DEF ValidPart, First5, Last5
<1>3. CASE p.kind = "one"
  BY <1>0, <1>1, <1>3 DEF ValidPart, First5, Last5, RangeEnd, Value
<1>4. CASE p.kind = "range"
  BY <1>0, <1>1, <1>4 DEF ValidPart, First5, Last5, RangeEnd, Value
<1>. QED  BY <1>1, <1>2, <1>3, <1>4

LEMMA WellWrittenIsValid ==
  ASSUME NEW f \in 1 .. 5, NEW p \in Parts, WellWritten(p, f)
  PROVE  ValidPart(p, f)
<1>0. Ranges[f].min \in 0 .. 1 /\ Ranges[f].max \in 1 .. 60 /\ Ranges[f].sunday \in BOOLEAN
      /\ (Ranges[f].sunday => Ranges[f].min = 0 /\ Ranges[f].max = 7)
  BY FieldFacts
<1>1. p.kind \in {"any", "one", "range"} /\ p.lo \in Nat /\ p.hi \in Nat /\ p.step \in Nat /\ (p.kind = "one" => p.lo = p.hi)
  BY DEF Parts
<1>. QED  BY <1>0, <1>1 DEF WellWritten, ValidPart, First5, Last5, RangeEnd, Value

\* The numbers that addRange adds for a part.
Added(p, f) == {w \in First5(p, f) .. Last5(p, f) : (w - First5(p, f)) % p.step = 0}

\* A part adds what it names.
LEMMA PartMeant ==
  ASSUME NEW f \in 1 .. 5, NEW p \in Parts, ValidPart(p, f), ~FromSunday(p, f),
         NEW v \in Ranges[f].min .. Ranges[f].max, NEW u, u = Value(v, f)
  PROVE  (\E w \in Added(p, f) : u = Value(w, f)) <=> Meant(p, f, u)
<1> DEFINE r == Ranges[f]
           begin == First5(p, f)
           final == Last5(p, f)
<1>0. r.min \in 0 .. 1 /\ r.max \in 1 .. 60 /\ r.sunday \in BOOLEAN /\ (r.sunday => r.min = 0 /\ r.max = 7)
  BY FieldFacts
<1>1. p.kind \in {"any", "one", "range"} /\ p.lo \in Nat /\ p.hi \in Nat /\ p.step \in Nat \ {0} /\ (p.kind = "one" => p.lo = p.hi)
  BY PartBounds DEF Parts
<1>2. /\ begin \in Nat /\ final \in Nat /\ r.min <= begin /\ begin <= final /\ final <= r.max
      /\ p.kind = "any" => begin = r.min /\ final = r.max
      /\ (p.kind = "one" /\ r.sunday /\ p.lo = 7) => begin = 0 /\ final = 0
      /\ (p.kind # "any" /\ ~(r.sunday /\ p.lo = 7)) => begin = p.lo /\ final = p.hi
  BY PartBounds
<1>3. u \in r.min .. r.max /\ (r.sunday => u # 7)
  BY <1>0 DEF Value
<1>4. \A w : u = Value(w, f) => w = u \/ (r.sunday /\ u = 0 /\ w = 7)
  BY DEF Value
<1>5. \A raw : (raw = u \/ (r.sunday /\ u = 0 /\ raw = 7)) => Value(raw, f) = u
  BY <1>3 DEF Value
<1> DEFINE Raws == {u} \union (IF r.sunday /\ u = 0 THEN {7} ELSE {})
<1>6. \A raw : raw \in Raws <=> (raw = u \/ (r.sunday /\ u = 0 /\ raw = 7))
  OBVIOUS
<1>7. Meant(p, f, u) <=> \E raw \in Raws :
         IF p.kind = "any" THEN \E k \in 0 .. 60 : raw = r.min + p.step * k
         ELSE raw \in p.lo .. p.hi /\ \E k \in 0 .. 60 : raw = p.lo + p.step * k
  BY DEF Meant
<1>. HIDE DEF begin, final, r, Raws
<1>8. ASSUME NEW w \in Added(p, f), u = Value(w, f) PROVE Meant(p, f, u)
  <2>1. w \in begin .. final /\ (w - begin) % p.step = 0
    BY <1>8 DEF Added, begin, final
  <2>2. PICK k \in 0 .. w - begin : w - begin = p.step * k
    <3>1. w - begin \in Nat
      BY <1>2, <2>1
    <3>. QED  BY <1>1, <2>1, <3>1, Quotient
  <2>3. k \in 0 .. 60 /\ w = begin + p.step * k
    BY <1>0, <1>1, <1>2, <2>1, <2>2
  <2>4. w \in Raws
    BY <1>4, <1>6, <1>8
  <2>5. CASE p.kind = "any"
    BY <1>2, <1>7, <2>3, <2>4, <2>5
  <2>6. CASE p.kind = "one" /\ r.sunday /\ p.lo = 7
    <3>1. w = 0 /\ u = 0
      BY <1>0, <1>2, <1>3, <1>4, <1>8, <2>1, <2>6
    <3>2. 7 \in Raws /\ 7 \in p.lo .. p.hi /\ 7 = p.lo + p.step * 0 /\ 0 \in 0 .. 60
      BY <1>1, <1>6, <2>6, <3>1
    <3>. QED  BY <1>7, <2>6, <3>2
  <2>7. CASE p.kind # "any" /\ ~(r.sunday /\ p.lo = 7)
    BY <1>2, <1>7, <2>1, <2>3, <2>4, <2>7
  <2>. QED  BY <1>1, <2>5, <2>6, <2>7 DEF FromSunday, r
<1>9. ASSUME Meant(p, f, u) PROVE \E w \in Added(p, f) : u = Value(w, f)
  <2>1. PICK raw \in Raws : IF p.kind = "any" THEN \E k \in 0 .. 60 : raw = r.min + p.step * k
                            ELSE raw \in p.lo .. p.hi /\ \E k \in 0 .. 60 : raw = p.lo + p.step * k
    BY <1>7, <1>9
  <2>2. raw \in r.min .. r.max /\ Value(raw, f) = u
    BY <1>0, <1>3, <1>5, <1>6
  <2>3. ASSUME NEW k \in 0 .. 60, raw = begin + p.step * k, raw <= final PROVE \E w \in Added(p, f) : u = Value(w, f)
    <3>1. raw - begin = p.step * k /\ begin <= raw /\ raw \in Int /\ p.step * k \in Nat
      BY <1>0, <1>1, <1>2, <2>2, <2>3
    <3>2. (p.step * k) % p.step = 0
      <4>1. k \in Nat
        OBVIOUS
      <4>. QED  BY <1>1, <4>1, Multiple
    <3>3. raw \in begin .. final
      BY <1>2, <2>3, <3>1
    <3>4. (raw - begin) % p.step = 0
      BY <3>1, <3>2
    <3>. QED  BY <2>2, <3>3, <3>4 DEF Added, begin, final
  <2>4. CASE p.kind = "any"
    BY <1>2, <2>1, <2>2, <2>3, <2>4
  <2>5. CASE p.kind = "one" /\ r.sunday /\ p.lo = 7
    <3>1. raw = 7 /\ u = 0
      BY <1>1, <1>3, <1>6, <2>1, <2>5
    <3>2. 0 \in begin .. final /\ (0 - begin) % p.step = 0 /\ Value(0, f) = 0
      <4>1. p.step * 0 = 0
        BY <1>1
      <4>2. (p.step * 0) % p.step = 0
        BY <1>1, Multiple
      <4>3. (0 - begin) % p.step = 0
        BY <1>2, <2>5, <4>1, <4>2
      <4>. QED  BY <1>2, <2>5, <4>3 DEF Value
    <3>. QED  BY <3>1, <3>2 DEF Added, begin, final
  <2>6. CASE p.kind # "any" /\ ~(r.sunday /\ p.lo = 7)
    BY <1>2, <2>1, <2>3, <2>6
  <2>. QED  BY <1>1, <2>4, <2>5, <2>6 DEF FromSunday, r
<1>. QED  BY <1>8, <1>9

\* The values of a field are what its parts add.
LEMMA FieldValues ==
  ASSUME NEW src \in Sources, NEW f \in 1 .. 5
  PROVE  /\ Parsed[src][f] = Values(src, f)
         /\ \A u : u \in Values(src, f) <=> \E i \in DOMAIN src[f] : \E w \in Added(src[f][i], f) : u = Value(w, f)
<1>1. Parsed[src][f] = Values(src, f)
  BY DEF Parsed
<1> DEFINE Adds(p) == {Value(v, f) : v \in {w \in First5(p, f) .. Last5(p, f) : (w - First5(p, f)) % p.step = 0}}
<1>2. Values(src, f) = UNION {Adds(p) : p \in {src[f][i] : i \in DOMAIN src[f]}}
  BY DEF Values
<1>3. \A p, u : u \in Adds(p) <=> \E w \in Added(p, f) : u = Value(w, f)
  BY DEF Added
<1>. HIDE DEF Adds
<1>4. \A u : u \in UNION {Adds(p) : p \in {src[f][i] : i \in DOMAIN src[f]}} <=> \E i \in DOMAIN src[f] : u \in Adds(src[f][i])
  OBVIOUS
<1>. QED  BY <1>1, <1>2, <1>3, <1>4

LEMMA SourceMeant ==
  ASSUME NEW src \in Sources, ValidSource(src)
  PROVE  MeantBy[src] /\ InRange[src]
<1>1. ASSUME NEW f \in 1 .. 5, \A i \in DOMAIN src[f] : ~FromSunday(src[f][i], f),
             NEW v \in Ranges[f].min .. Ranges[f].max
      PROVE  Value(v, f) \in Parsed[src][f] <=> \E i \in DOMAIN src[f] : Meant(src[f][i], f, Value(v, f))
  <2>1. ASSUME NEW i \in DOMAIN src[f]
        PROVE  (\E w \in Added(src[f][i], f) : Value(v, f) = Value(w, f)) <=> Meant(src[f][i], f, Value(v, f))
    <3>1. src[f][i] \in Parts /\ ValidPart(src[f][i], f) /\ ~FromSunday(src[f][i], f)
      BY <1>1, FieldFacts DEF ValidSource
    <3>. QED  BY <3>1, PartMeant
  <2>. QED  BY <2>1, FieldValues
<1>2. ASSUME NEW f \in 1 .. 5, NEW u \in Parsed[src][f]
      PROVE  u \in Ranges[f].min .. IF Ranges[f].sunday THEN 6 ELSE Ranges[f].max
  <2>1. PICK i \in DOMAIN src[f] : \E w \in Added(src[f][i], f) : u = Value(w, f)
    BY <1>2, FieldValues
  <2>2. PICK w \in Added(src[f][i], f) : u = Value(w, f)
    BY <2>1
  <2>3. src[f][i] \in Parts /\ ValidPart(src[f][i], f)
    BY FieldFacts DEF ValidSource
  <2> DEFINE begin == First5(src[f][i], f)
             final == Last5(src[f][i], f)
  <2>4. begin \in Nat /\ final \in Nat /\ Ranges[f].min <= begin /\ final <= Ranges[f].max
    BY <2>3, PartBounds
  <2>5. w \in begin .. final
    BY <2>2 DEF Added
  <2>6. /\ Ranges[f].min \in 0 .. 1 /\ Ranges[f].max \in 1 .. 60 /\ Ranges[f].sunday \in BOOLEAN
        /\ Ranges[f].sunday => Ranges[f].min = 0 /\ Ranges[f].max = 7
    BY FieldFacts
  <2>. HIDE DEF begin, final
  <2>7. w \in Ranges[f].min .. Ranges[f].max
    BY <2>4, <2>5, <2>6
  <2>. QED  BY <2>2, <2>6, <2>7 DEF Value
<1>3. MeantBy[src]
  BY <1>1 DEF MeantBy
<1>4. \A f \in 1 .. 5 : Parsed[src][f] \subseteq Ranges[f].min .. IF Ranges[f].sunday THEN 6 ELSE Ranges[f].max
  BY <1>2
<1>5. InRange[src]
  BY <1>4, Zenon DEF InRange
<1>. QED  BY <1>3, <1>5

LEMMA AllAccepted == Accepted
<1>1. ASSUME NEW src \in Sources, \A f \in 1 .. 5 : \A i \in DOMAIN src[f] : WellWritten(src[f][i], f),
             NEW f \in 1 .. 5, NEW i \in DOMAIN src[f]
      PROVE  ValidPart(src[f][i], f)
  BY <1>1, FieldFacts, WellWrittenIsValid
<1>. QED  BY <1>1 DEF Accepted, ValidSource

-----------------------------------------------------------------------------
(* The next occurrence.                                                    *)

\* A set of numbers that is not empty has a least one.
LEMMA Least ==
  ASSUME NEW S, S \subseteq Nat, S # {}
  PROVE  \E m \in S : \A n \in S : m <= n
<1> DEFINE R == OpToRel(<, Nat)
<1>1. IsWellFoundedOn(R, Nat)
  BY NatLessThanWellFounded
<1>2. \A a, b \in Nat : a < b => <<a, b>> \in R
  BY DEF OpToRel
<1>. HIDE DEF R
<1>3. PICK x \in S : \A y \in S : ~(<<y, x>> \in R)
  BY <1>1, WFMin, Zenon
<1>4. ASSUME NEW y \in S PROVE x <= y
  <2>1. x \in Nat /\ y \in Nat
    OBVIOUS
  <2>2. ~(y < x)
    BY <1>2, <1>3, <2>1
  <2>. QED  BY <2>1, <2>2
<1>. QED  BY <1>4

\* The next time of an expression is after the given one, or there is none.
LEMMA NextIsLater ==
  ASSUME NEW src \in Sources, ValidSource(src), NEW after \in 0 .. Horizon
  PROVE  NextCron(src, after) \in Nat /\ NextCron(src, after) > after
<1> DEFINE ms == Occurrences(src, after)
<1>1. Horizon \in Nat /\ Window \in Nat
  BY ScheduleAssumption
<1>2. ms \subseteq after + 1 .. after + Window
  BY DEF Occurrences
<1>3. NextCron(src, after) = IF ms = {} THEN Never ELSE CHOOSE m \in ms : \A n \in ms : m <= n
  BY DEF NextCron
<1>. HIDE DEF ms
<1>4. CASE ms = {}
  BY <1>1, <1>3, <1>4 DEF Never
<1>5. CASE ms # {}
  <2>1. ms \subseteq Nat
    BY <1>1, <1>2
  <2>2. \E m \in ms : \A n \in ms : m <= n
    BY <1>5, <2>1, Least
  <2>3. NextCron(src, after) \in ms
    BY <1>3, <1>5, <2>2, Zenon
  <2>4. NextCron(src, after) \in after + 1 .. after + Window
    BY <1>2, <2>3
  <2>5. after \in Int /\ after >= 0
    BY <1>1
  <2>. QED  BY <1>1, <2>4, <2>5
<1>. QED  BY <1>4, <1>5

-----------------------------------------------------------------------------
(* The schedule.  The order of its times: the running tick is not older    *)
(* than the daemon, and what started was due before what comes next.       *)

SourceInv == source \in Sources /\ ValidSource(source)
ClockOK ==
  /\ now \in 0 .. Horizon /\ upSince \in 0 .. now /\ crashes \in 0 .. MaxCrashes
  /\ tick \in [at : {"no", "waiting", "saving"}, now : 0 .. Horizon]
  /\ nexts \in [Triggers2 -> Nat] /\ kept2 \in [nexts : [Triggers2 -> Nat], enabled : BOOLEAN]
  /\ last \in [Triggers2 -> [due : -1 .. now, at : 0 .. Horizon]]
FlagsOK == alive \in BOOLEAN /\ enabled2 \in BOOLEAN /\ threw \in BOOLEAN
TickInv == tick.at # "no" => alive /\ tick.now \in upSince .. now
DueInv == crashes = 0 => alive /\ \A t \in Triggers2 : last[t].due < nexts[t]
BeatInv == alive /\ enabled2 => nexts["heartbeat"] >= upSince
ScheduleInv == SourceInv /\ ClockOK /\ FlagsOK /\ TickInv /\ DueInv /\ BeatInv

LEMMA Limits == Horizon \in Nat /\ Every \in Nat /\ Every > 0 /\ MaxCrashes \in Nat
BY ScheduleAssumption

LEMMA RunsLater ==
  ASSUME SourceInv, NEW t \in Triggers2, NEW after \in 0 .. Horizon
  PROVE  NextRun(t, after) \in Nat /\ NextRun(t, after) > after
<1>1. CASE t = "heartbeat"
  <2>1. NextRun(t, after) = after + Every
    BY <1>1 DEF NextRun
  <2>. QED  BY <2>1, Limits
<1>2. CASE t # "heartbeat"
  <2>1. NextRun(t, after) = NextCron(source, after)
    BY <1>2 DEF NextRun
  <2>. QED  BY <2>1, NextIsLater DEF SourceInv
<1>. QED  BY <1>1, <1>2

LEMMA ScheduleStarts == ScheduleInit => ScheduleInv
<1>. SUFFICES ASSUME ScheduleInit PROVE ScheduleInv
  OBVIOUS
<1>1. SourceInv
  BY DEF ScheduleInit, SourceInv
<1>2. 0 \in 0 .. Horizon
  BY Limits
<1>3. NextCron(source, 0) \in Nat /\ NextCron(source, 0) > 0
  BY <1>1, <1>2, NextIsLater DEF SourceInv
<1>4. PICK begin \in {0, Every} : nexts = [t \in Triggers2 |-> IF t = "heartbeat" THEN begin ELSE NextCron(source, 0)]
  BY DEF ScheduleInit
<1>5. nexts \in [Triggers2 -> Nat]
  BY <1>3, <1>4, Limits
<1>6. ClockOK
  <2>1. now = 0 /\ upSince = 0 /\ crashes = 0 /\ tick = [at |-> "no", now |-> 0]
    BY DEF ScheduleInit, NoTick
  <2>2. kept2 = [nexts |-> nexts, enabled |-> TRUE] /\ last = [t \in Triggers2 |-> [due |-> -1, at |-> 0]]
    BY DEF ScheduleInit
  <2>3. kept2 \in [nexts : [Triggers2 -> Nat], enabled : BOOLEAN]
    BY <1>5, <2>2
  <2>4. last \in [Triggers2 -> [due : -1 .. now, at : 0 .. Horizon]]
    BY <2>1, <2>2, Limits
  <2>. QED  BY <1>5, <2>1, <2>3, <2>4, Limits DEF ClockOK
<1>7. FlagsOK
  BY DEF ScheduleInit, FlagsOK
<1>8. TickInv
  BY DEF ScheduleInit, NoTick, TickInv
<1>9. DueInv
  <2>1. \A t \in Triggers2 : nexts[t] >= 0
    BY <1>5
  <2>2. \A t \in Triggers2 : last[t].due = -1
    BY DEF ScheduleInit
  <2>3. \A t \in Triggers2 : last[t].due < nexts[t]
    BY <1>5, <2>1, <2>2
  <2>. QED  BY <2>3 DEF ScheduleInit, DueInv
<1>10. BeatInv
  <2>1. nexts["heartbeat"] \in Nat
    BY <1>5 DEF Triggers2
  <2>. QED  BY <2>1 DEF ScheduleInit, BeatInv
<1>. QED  BY <1>1, <1>6, <1>7, <1>8, <1>9, <1>10 DEF ScheduleInv

\* A tick that fires: what it starts, and what comes next.
LEMMA FiresKeeps ==
  ASSUME ScheduleInv, TickFires
  PROVE  /\ ScheduleInv'
         /\ \A t \in Triggers2 : last'[t] # last[t] =>
              /\ enabled2 /\ last'[t].due = nexts[t] /\ nexts[t] <= tick.now
<1>. USE DEF ScheduleInv
<1>1. /\ alive /\ tick.at = "waiting"
      /\ UNCHANGED <<now, alive, source, enabled2, kept2, upSince, crashes>>
      /\ tick' \in {NoTick, [tick EXCEPT !.at = "saving"]}
  BY DEF TickFires
<1>2. tick.now \in upSince .. now /\ tick.now \in 0 .. Horizon /\ now \in 0 .. Horizon /\ upSince \in 0 .. now
  BY <1>1 DEF TickInv, ClockOK
<1>3. \A t \in Triggers2 : NextRun(t, tick.now) \in Nat /\ NextRun(t, tick.now) > tick.now
  BY <1>2, RunsLater
<1>4. threw' \in BOOLEAN
  BY DEF TickFires, FlagsOK
<1>5. \A t \in Triggers2 : nexts[t] \in Nat /\ last[t] \in [due : -1 .. now, at : 0 .. Horizon]
  BY DEF ClockOK
<1> DEFINE Fired(t) == /\ last'[t] = IF enabled2 /\ Starts(t) THEN [due |-> nexts[t], at |-> tick.now] ELSE last[t]
                       /\ nexts'[t] = IF enabled2 /\ Advances(t) THEN NextRun(t, tick.now) ELSE nexts[t]
<1>6. \A t \in Triggers2 : Fired(t)
  BY DEF TickFires, ClockOK
<1>7. DOMAIN last' = Triggers2 /\ DOMAIN nexts' = Triggers2 /\ last' = [t \in Triggers2 |-> last'[t]]
      /\ nexts' = [t \in Triggers2 |-> nexts'[t]]
  BY DEF TickFires, ClockOK
<1>8. ASSUME NEW t \in Triggers2
      PROVE  /\ nexts'[t] \in Nat /\ nexts'[t] >= nexts[t]
             /\ last'[t] \in [due : -1 .. now, at : 0 .. Horizon]
             /\ last[t].due < nexts[t] => last'[t].due < nexts'[t]
             /\ last'[t] # last[t] => enabled2 /\ last'[t].due = nexts[t] /\ nexts[t] <= tick.now
  <2>1. nexts[t] \in Nat /\ last[t].due \in Int /\ tick.now \in Int
    BY <1>2, <1>5
  <2>2. NextRun(t, tick.now) \in Nat /\ NextRun(t, tick.now) > tick.now
    BY <1>3
  <2>3. Fired(t)
    BY <1>6
  <2>. HIDE DEF Fired
  <2>4. CASE enabled2 /\ Starts(t)
    <3>1. Advances(t) /\ nexts[t] <= tick.now
      BY <2>4 DEF Starts, Advances, DueNow
    <3>2. last'[t] = [due |-> nexts[t], at |-> tick.now] /\ nexts'[t] = NextRun(t, tick.now)
      BY <2>3, <2>4, <3>1 DEF Fired
    <3>3. nexts[t] \in -1 .. now
      BY <1>2, <2>1, <3>1
    <3>4. last'[t] \in [due : -1 .. now, at : 0 .. Horizon] /\ last'[t].due = nexts[t]
      BY <1>2, <3>2, <3>3
    <3>. QED  BY <2>1, <2>2, <2>4, <3>1, <3>2, <3>4
  <2>5. CASE ~(enabled2 /\ Starts(t)) /\ enabled2 /\ Advances(t)
    <3>1. last'[t] = last[t] /\ nexts'[t] = NextRun(t, tick.now)
      BY <2>3, <2>5 DEF Fired
    <3>2. nexts[t] <= tick.now
      BY <2>5 DEF Advances, DueNow
    <3>. QED  BY <1>5, <2>1, <2>2, <3>1, <3>2
  <2>6. CASE ~(enabled2 /\ Starts(t)) /\ ~(enabled2 /\ Advances(t))
    <3>1. last'[t] = last[t] /\ nexts'[t] = nexts[t]
      BY <2>3, <2>6 DEF Fired
    <3>. QED  BY <1>5, <2>1, <3>1
  <2>. QED  BY <2>4, <2>5, <2>6
<1>. HIDE DEF Fired
<1>9. nexts' \in [Triggers2 -> Nat] /\ last' \in [Triggers2 -> [due : -1 .. now, at : 0 .. Horizon]]
  BY <1>7, <1>8
<1>10. tick' \in [at : {"no", "waiting", "saving"}, now : 0 .. Horizon]
  BY <1>1, Limits DEF ClockOK, NoTick
<1>11. ClockOK'
  BY <1>1, <1>9, <1>10 DEF ClockOK
<1>12. SourceInv' /\ FlagsOK'
  BY <1>1, <1>4 DEF SourceInv, FlagsOK
<1>13. TickInv'
  BY <1>1, <1>2 DEF TickInv, NoTick, ClockOK
<1>14. DueInv'
  BY <1>1, <1>8 DEF DueInv
<1>15. BeatInv'
  <2>1. nexts'["heartbeat"] >= nexts["heartbeat"] /\ nexts'["heartbeat"] \in Nat /\ nexts["heartbeat"] \in Nat
    BY <1>5, <1>8 DEF Triggers2
  <2>. QED  BY <1>1, <1>2, <2>1 DEF BeatInv
<1>. QED  BY <1>8, <1>11, <1>12, <1>13, <1>14, <1>15

LEMMA EnablesKeeps == ASSUME ScheduleInv, Enables PROVE ScheduleInv'
<1>. USE DEF ScheduleInv
<1>1. /\ nexts' = [t \in Triggers2 |-> NextRun(t, now)] /\ kept2' = [nexts |-> nexts', enabled |-> TRUE]
      /\ enabled2' = TRUE /\ UNCHANGED <<now, alive, source, tick, last, upSince, crashes, threw>>
  BY DEF Enables
<1>2. now \in 0 .. Horizon /\ upSince \in 0 .. now
  BY DEF ClockOK
<1>3. \A t \in Triggers2 : NextRun(t, now) \in Nat /\ NextRun(t, now) > now
  BY <1>2, RunsLater
<1>4. nexts' \in [Triggers2 -> Nat] /\ \A t \in Triggers2 : nexts'[t] > now
  BY <1>1, <1>3
<1>5. kept2' \in [nexts : [Triggers2 -> Nat], enabled : BOOLEAN]
  BY <1>1, <1>4
<1>6. ClockOK'
  BY <1>1, <1>4, <1>5 DEF ClockOK
<1>7. DueInv'
  <2>1. ASSUME NEW t \in Triggers2 PROVE last[t].due < nexts'[t]
    <3>1. last[t].due \in -1 .. now
      BY DEF ClockOK
    <3>. QED  BY <1>2, <1>4, <3>1
  <2>. QED  BY <1>1, <2>1 DEF DueInv
<1>8. BeatInv'
  <2>1. nexts'["heartbeat"] \in Nat /\ nexts'["heartbeat"] > now
    BY <1>4 DEF Triggers2
  <2>. QED  BY <1>1, <1>2, <2>1 DEF BeatInv
<1>. QED  BY <1>1, <1>6, <1>7, <1>8 DEF SourceInv, FlagsOK, TickInv

LEMMA RestartsKeeps == ASSUME ScheduleInv, Restarts PROVE ScheduleInv'
<1>. USE DEF ScheduleInv
<1>1. /\ ~alive /\ alive' = TRUE /\ enabled2' = kept2.enabled /\ nexts' = Restarted
      /\ kept2' = [kept2 EXCEPT !.nexts = nexts'] /\ upSince' = now
      /\ UNCHANGED <<now, source, tick, last, crashes, threw>>
  BY DEF Restarts
<1>2. now \in 0 .. Horizon /\ kept2 \in [nexts : [Triggers2 -> Nat], enabled : BOOLEAN]
  BY DEF ClockOK
<1>3. kept2.nexts \in [Triggers2 -> Nat] /\ now + Every \in Nat
  BY <1>2, Limits
<1>4. kept2.enabled \in BOOLEAN
  BY <1>2
<1>5. nexts' \in [Triggers2 -> Nat] /\ (kept2.enabled => nexts'["heartbeat"] = now + Every)
  BY <1>1, <1>3 DEF Restarted, Triggers2
<1>6. kept2' \in [nexts : [Triggers2 -> Nat], enabled : BOOLEAN]
  BY <1>1, <1>2, <1>5
<1>7. ClockOK'
  BY <1>1, <1>2, <1>5, <1>6 DEF ClockOK
<1>8. SourceInv' /\ FlagsOK'
  BY <1>1, <1>4 DEF SourceInv, FlagsOK
<1>9. TickInv' /\ DueInv'
  BY <1>1 DEF TickInv, DueInv
<1>10. BeatInv'
  BY <1>1, <1>2, <1>5, Limits DEF BeatInv
<1>. QED  BY <1>7, <1>8, <1>9, <1>10

LEMMA OthersKeep ==
  ASSUME ScheduleInv, Passes \/ TickStarts \/ TickSaves \/ Disables \/ Crashes \/ UNCHANGED scheduleVars
  PROVE  ScheduleInv' /\ last' = last
<1>. USE DEF ScheduleInv
<1>0. now \in 0 .. Horizon /\ upSince \in 0 .. now /\ crashes \in 0 .. MaxCrashes
  BY DEF ClockOK
<1>1. CASE Passes
  <2>1. now' = now + 1 /\ now < Horizon /\ UNCHANGED <<alive, source, enabled2, nexts, kept2, tick, last, upSince, crashes, threw>>
    BY <1>1 DEF Passes
  <2>2. now' \in 0 .. Horizon /\ upSince \in 0 .. now' /\ 0 .. now \subseteq 0 .. now' /\ -1 .. now \subseteq -1 .. now'
    BY <1>0, <2>1, Limits
  <2>3. last \in [Triggers2 -> [due : -1 .. now', at : 0 .. Horizon]]
    BY <2>2 DEF ClockOK
  <2>4. ClockOK'
    BY <2>1, <2>2, <2>3 DEF ClockOK
  <2>5. TickInv'
    BY <1>0, <2>1, <2>2 DEF TickInv
  <2>. QED  BY <2>1, <2>4, <2>5 DEF SourceInv, FlagsOK, DueInv, BeatInv
<1>2. CASE TickStarts
  <2>1. alive /\ tick' = [at |-> "waiting", now |-> now] /\ UNCHANGED <<now, alive, source, enabled2, nexts, kept2, last, upSince, crashes, threw>>
    BY <1>2 DEF TickStarts
  <2>2. tick' \in [at : {"no", "waiting", "saving"}, now : 0 .. Horizon] /\ tick'.now = now
    BY <1>0, <2>1
  <2>3. ClockOK'
    BY <2>1, <2>2 DEF ClockOK
  <2>4. TickInv'
    BY <1>0, <2>1, <2>2 DEF TickInv
  <2>. QED  BY <2>1, <2>3, <2>4 DEF SourceInv, FlagsOK, DueInv, BeatInv
<1>3. CASE TickSaves
  <2>1. kept2' = Saved2 /\ tick' = NoTick /\ UNCHANGED <<now, alive, source, enabled2, nexts, last, upSince, crashes, threw>>
    BY <1>3 DEF TickSaves
  <2>2. tick' \in [at : {"no", "waiting", "saving"}, now : 0 .. Horizon] /\ tick'.at = "no"
    BY <2>1, Limits DEF NoTick
  <2>3. kept2' \in [nexts : [Triggers2 -> Nat], enabled : BOOLEAN]
    BY <2>1 DEF Saved2, ClockOK, FlagsOK
  <2>4. ClockOK'
    BY <2>1, <2>2, <2>3 DEF ClockOK
  <2>. QED  BY <2>1, <2>2, <2>4 DEF SourceInv, FlagsOK, DueInv, BeatInv, TickInv
<1>4. CASE Disables
  <2>1. enabled2' = FALSE /\ kept2' = [nexts |-> nexts, enabled |-> FALSE]
        /\ UNCHANGED <<now, alive, source, nexts, tick, last, upSince, crashes, threw>>
    BY <1>4 DEF Disables
  <2>2. kept2' \in [nexts : [Triggers2 -> Nat], enabled : BOOLEAN]
    BY <2>1 DEF ClockOK
  <2>3. ClockOK'
    BY <2>1, <2>2 DEF ClockOK
  <2>. QED  BY <2>1, <2>3 DEF SourceInv, FlagsOK, DueInv, BeatInv, TickInv
<1>5. CASE Crashes
  <2>1. crashes < MaxCrashes /\ crashes' = crashes + 1 /\ alive' = FALSE /\ tick' = NoTick
        /\ UNCHANGED <<now, source, enabled2, nexts, kept2, last, upSince, threw>>
    BY <1>5 DEF Crashes
  <2>2. tick' \in [at : {"no", "waiting", "saving"}, now : 0 .. Horizon] /\ tick'.at = "no"
    BY <2>1, Limits DEF NoTick
  <2>3. crashes' \in 0 .. MaxCrashes /\ crashes' # 0
    BY <1>0, <2>1, Limits
  <2>4. ClockOK'
    BY <2>1, <2>2, <2>3 DEF ClockOK
  <2>. QED  BY <2>1, <2>2, <2>3, <2>4 DEF SourceInv, FlagsOK, DueInv, BeatInv, TickInv
<1>6. CASE UNCHANGED scheduleVars
  BY <1>6 DEF scheduleVars, SourceInv, ClockOK, FlagsOK, TickInv, DueInv, BeatInv
<1>. QED  BY <1>1, <1>2, <1>3, <1>4, <1>5, <1>6

LEMMA ScheduleInvariance == ScheduleSpec => []ScheduleInv
<1>1. ScheduleInv /\ [ScheduleNext]_scheduleVars => ScheduleInv'
  BY FiresKeeps, EnablesKeeps, RestartsKeeps, OthersKeep DEF ScheduleNext
<1>. QED  BY <1>1, ScheduleStarts, PTL DEF ScheduleSpec

\* An expression that is written well is accepted and means what it says, and every state
\* is one of the scheduler's: for any fields, expressions and wall clock.
THEOREM ScheduleIsSafe == ScheduleSpec => []ScheduleSafe
<1>1. ScheduleInv => ScheduleSafe
  <2>. SUFFICES ASSUME ScheduleInv PROVE ScheduleSafe
    OBVIOUS
  <2>1. InRange[source] /\ MeantBy[source]
    BY SourceMeant DEF ScheduleInv, SourceInv
  <2>2. now \in 0 .. Horizon /\ upSince \in 0 .. Horizon
    BY Limits DEF ScheduleInv, ClockOK
  <2>3. last \in [Triggers2 -> [due : -1 .. Horizon, at : 0 .. Horizon]]
    <3>1. -1 .. now \subseteq -1 .. Horizon
      BY <2>2, Limits
    <3>. QED  BY <3>1 DEF ScheduleInv, ClockOK
  <2>4. ScheduleTypeOK
    BY <2>1, <2>2, <2>3 DEF ScheduleInv, ClockOK, FlagsOK, SourceInv, ScheduleTypeOK
  <2>. QED  BY <2>1, <2>4, AllAccepted DEF ScheduleSafe, FieldsMeant
<1>. QED  BY <1>1, ScheduleInvariance, PTL

\* An occurrence is started twice only if the daemon crashed, and no heartbeat that was due
\* while the daemon was down is made up for.
THEOREM StartsAreMeant == ScheduleSpec => StartsMeant
<1> DEFINE Meant2 ==
      /\ \A t \in Triggers2 : (last'[t] # last[t] /\ crashes = 0) => last'[t].due > last[t].due
      /\ last'["heartbeat"] # last["heartbeat"] => last'["heartbeat"].due >= upSince
<1>1. ScheduleInv /\ [ScheduleNext]_scheduleVars => [Meant2]_scheduleVars
  <2>. SUFFICES ASSUME ScheduleInv, [ScheduleNext]_scheduleVars PROVE Meant2
    OBVIOUS
  <2>1. CASE TickFires
    <3>1. \A t \in Triggers2 : last'[t] # last[t] => enabled2 /\ last'[t].due = nexts[t]
      BY <2>1, FiresKeeps
    <3>2. alive
      BY <2>1 DEF TickFires
    <3>3. \A t \in Triggers2 : nexts[t] \in Int /\ last[t].due \in Int
      BY DEF ScheduleInv, ClockOK
    <3>4. \A t \in Triggers2 : (last'[t] # last[t] /\ crashes = 0) => last'[t].due > last[t].due
      BY <3>1, <3>3 DEF ScheduleInv, DueInv
    <3>5. last'["heartbeat"] # last["heartbeat"] => last'["heartbeat"].due >= upSince
      BY <3>1, <3>2 DEF ScheduleInv, BeatInv, Triggers2
    <3>. QED  BY <3>4, <3>5
  <2>2. CASE ~TickFires
    <3>1. last' = last
      BY <2>2, OthersKeep DEF ScheduleNext, Enables, Restarts
    <3>. QED  BY <3>1
  <2>. QED  BY <2>1, <2>2
<1>. QED  BY <1>1, ScheduleInvariance, PTL DEF ScheduleSpec, StartsMeant
=============================================================================
