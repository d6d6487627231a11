----------------------------- MODULE MCGateway -----------------------------
(***************************************************************************)
(* The daemon's run streams, its lock and socket, and its schedule, for    *)
(* TLC.  They share no variable, so one run explores each from its own     *)
(* initial states while the others stand still: `part` says which moves,   *)
(* and of the schedule also which of its triggers is watched.              *)
(* Init, Next, vars and TypeOK are GatewayRunStream's.                     *)
(***************************************************************************)
EXTENDS GatewayRunStream, GatewayDoor, GatewaySchedule, TLC

VARIABLE part
gatewayVars == <<part, vars, doorVars, scheduleVars>>

GatewayInit ==
  /\ part \in {"stream", "door"} \union Triggers2
  /\ Init /\ DoorInit /\ ScheduleInit
  /\ part # "door" => lockOf = NoDaemon /\ beat = "none"
  /\ part \notin Triggers2 => /\ source = CHOOSE src \in Sources : ValidSource(src) /\ NextCron(src, 0) # Never
                             /\ nexts["heartbeat"] = Every

\* A step of one part.
InStream(A) == part = "stream" /\ A /\ UNCHANGED <<part, doorVars, scheduleVars>>
InDoor(A) == part = "door" /\ A /\ UNCHANGED <<part, vars, scheduleVars>>
InSchedule(A) == part \in Triggers2 /\ A /\ UNCHANGED <<part, vars, doorVars>>

GatewayNext == InStream(Next) \/ InDoor(DoorNext) \/ InSchedule(ScheduleNext)

\* The fairness of the part that moves, as its module states it.
GatewayFairness ==
  /\ WF_vars(part = "stream" /\ RunStep)
  /\ \A c \in Clients :
       /\ WF_vars(part = "stream" /\ (WaitRead(c) \/ WaitJoin(c)))
       /\ WF_vars(part = "stream" /\ (ReadFrames(c) \/ Yield(c) \/ ReadRecord(c) \/ Finish(c)))
       /\ WF_vars(part = "stream" /\ (Consume(c) \/ Ended(c)))
  /\ WF_doorVars(part = "door" /\ CallStep)
  /\ WF_scheduleVars(part \in Triggers2 /\ (TickStarts \/ TickFires \/ TickSaves))

GatewaySpec == GatewayInit /\ [][GatewayNext]_gatewayVars /\ GatewayFairness

\* Nobody waits for the daemon for ever: a subscription to a run that was launched ends
\* unless it lost its completion or the disk refused the final record (WatchEnds), a call is
\* settled unless the server ended it without an answer (CallSettles), and a trigger that is
\* due is started or passed over (DueIsHandled).
NobodyWaits ==
  \A c \in Clients :
    (\/ part = "stream" /\ at[c] # "none" /\ pc # "queued"
     \/ part = "door" /\ call.at # "idle"
     \/ part \in Triggers2 /\ IsDue(part))
    ~> (\/ part = "stream" /\ (at[c] = "none" \/ ~NoOrphan \/ unwritten)
        \/ part = "door" /\ call.at \in {"over", "deserted"}
        \/ part \in Triggers2 /\ (threw \/ ~IsDue(part)))

\* Two minutes an hour, three hours a day; minutes 4 and 5 repeat minutes 2 and 3.
RangesOf == << [min |-> 0, max |-> 1, sunday |-> FALSE], [min |-> 0, max |-> 2, sunday |-> FALSE],
               [min |-> 1, max |-> 2, sunday |-> FALSE], [min |-> 1, max |-> 2, sunday |-> FALSE],
               [min |-> 0, max |-> 7, sunday |-> TRUE] >>
WallClockOf == [m \in 0 .. Horizon + Window |->
                 LET l == IF m < 4 THEN m ELSE m - 2
                 IN <<l % 2, (l \div 2) % 3, ((l \div 6) % 2) + 1, 1, (l \div 6 + 6) % 7>>]

Part(k, a, b, s) == [kind |-> k, lo |-> a, hi |-> b, step |-> s]
All == <<Part("any", 0, 0, 1)>>
One(v) == Part("one", v, v, 1)
SourcesOf == { <<All, All, All, All, All>>,
               << <<One(0)>>, <<One(1)>>, All, All, All>>,
               << <<Part("any", 0, 0, 2)>>, All, <<One(2)>>, All, <<Part("range", 5, 7, 1)>> >>,
               << <<One(1)>>, <<One(2)>>, <<One(1)>>, All, <<One(6), One(7)>> >>,
               << <<Part("range", 1, 0, 1)>>, All, All, All, All>>,
               << <<One(0)>>, <<One(1)>>, <<One(1)>>, All, All>>,
               <<All, <<One(2)>>, All, All, <<Part("range", 7, 7, 1)>> >>,
               <<All, <<One(1)>>, All, All, <<Part("range", 2, 6, 2)>> >> }
=============================================================================
