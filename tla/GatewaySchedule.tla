-------------------------- MODULE GatewaySchedule --------------------------
(***************************************************************************)
(* When the gateway starts the triggers of one app: the five fields of a   *)
(* cron expression, the next minute that matches, the tick that starts     *)
(* what is due, the registry that keeps the next times over a crash, and   *)
(* the wall clock of the time zone, whose minutes may be skipped or occur  *)
(* twice.  Times are minutes; the daemon ticks at any of them or none.     *)
(***************************************************************************)
EXTENDS Integers, Sequences, FiniteSets

CONSTANTS Ranges,      \* Ranges[f]: [min, max, sunday] of field f; the fields are 1 .. 5
          Sources,     \* cron expressions: five sequences of parts [kind, lo, hi, step]
          WallClock,   \* WallClock[m]: the five fields of minute m in the time zone
          Horizon,     \* the last minute
          Window,      \* limitMinutes of nextCronOccurrence
          Every,       \* everyMs of the heartbeat
          Grace,       \* misfireGraceMs of the cron trigger
          MaxCrashes

\* A part is "*", a number (lo and hi are one) or a range, with its step.
Parts == {p \in [kind : {"any", "one", "range"}, lo : Nat, hi : Nat, step : Nat] : p.kind = "one" => p.lo = p.hi}

ASSUME ScheduleAssumption ==
  /\ Horizon \in Nat /\ Window \in Nat /\ Every \in Nat \ {0} /\ Grace \in Nat /\ MaxCrashes \in Nat
  /\ DOMAIN WallClock = 0 .. Horizon + Window
  /\ Ranges \in [1 .. 5 -> [min : 0 .. 1, max : 1 .. 60, sunday : BOOLEAN]]
  /\ \A f \in 1 .. 5 : Ranges[f].sunday => Ranges[f].min = 0 /\ Ranges[f].max = 7
  /\ \A src \in Sources : src \in [1 .. 5 -> Seq(Parts)]

Triggers2 == {"heartbeat", "cron"}
Never == Horizon + Window + 1      \* nextCronOccurrence throws

VARIABLES now, alive,
          source,      \* the expression of the app's cron trigger
          enabled2,
          nexts,       \* nextRuns in memory
          kept2,       \* nextRuns and enabled in registry.json
          tick,        \* [at, now]: "no", "waiting", "saving"
          last,        \* history: the last start of each trigger: [due, at]
          upSince,     \* history: the last start of the daemon
          crashes, threw  \* history: crashes; a tick threw
scheduleVars == <<now, alive, source, enabled2, nexts, kept2, tick, last, upSince, crashes, threw>>

----------------------------------------------------------------------------
(* parseCronExpression, cronMatches, nextCronOccurrence.                   *)

\* fieldValue and parseRange: Sunday is 0 and 7, and a range may end in 7.
Value(v, f) == IF Ranges[f].sunday /\ v = 7 THEN 0 ELSE v
SlipNoSeven(p, f) == Value(p.hi, f)
RangeEnd(p, f) == IF Ranges[f].sunday /\ p.kind = "range" /\ p.hi = 7 THEN 7 ELSE Value(p.hi, f)
First5(p, f) == IF p.kind = "any" THEN Ranges[f].min ELSE Value(p.lo, f)
Last5(p, f) == IF p.kind = "any" THEN Ranges[f].max ELSE RangeEnd(p, f)

ValidPart(p, f) ==
  /\ p.kind = "any" \/ ({p.lo, p.hi} \subseteq Ranges[f].min .. Ranges[f].max /\ First5(p, f) <= Last5(p, f))
  /\ p.step \in 1 .. Ranges[f].max - Ranges[f].min + 1
ValidSource(src) == \A f \in 1 .. 5 : \A i \in DOMAIN src[f] : ValidPart(src[f][i], f)

\* addRange counts from the start in steps.
Values(src, f) ==
  UNION { {Value(v, f) : v \in {w \in First5(p, f) .. Last5(p, f) : (w - First5(p, f)) % p.step = 0}} :
          p \in {src[f][i] : i \in DOMAIN src[f]} }
Parsed == [src \in Sources |-> [f \in 1 .. 5 |-> Values(src, f)]]
AnyDay(src, f) == src[f] = <<[kind |-> "any", lo |-> 0, hi |-> 0, step |-> 1]>>

DayMatches(src, w) ==
  IF AnyDay(src, 3) THEN w[5] \in Parsed[src][5]
  ELSE IF AnyDay(src, 5) THEN w[3] \in Parsed[src][3]
  ELSE w[3] \in Parsed[src][3] \/ w[5] \in Parsed[src][5]
Matches(src, m) ==
  LET w == WallClock[m] IN (\A f \in {1, 2, 4} : w[f] \in Parsed[src][f]) /\ DayMatches(src, w)

Matching == [src \in {s \in Sources : ValidSource(s)} |-> {m \in DOMAIN WallClock : Matches(src, m)}]

SlipFromNow(src, after) == Matching[src] \intersect (after .. after + Window - 1)
Occurrences(src, after) == Matching[src] \intersect (after + 1 .. after + Window)
NextCron(src, after) ==
  LET ms == Occurrences(src, after) IN IF ms = {} THEN Never ELSE CHOOSE m \in ms : \A n \in ms : m <= n
NextRun(t, after) == IF t = "heartbeat" THEN after + Every ELSE NextCron(source, after)

----------------------------------------------------------------------------
InRange == [src \in Sources |-> \A f \in 1 .. 5 :
  Parsed[src][f] \subseteq Ranges[f].min .. IF Ranges[f].sunday THEN 6 ELSE Ranges[f].max]
ScheduleTypeOK ==
  /\ InRange[source] /\ now \in 0 .. Horizon /\ alive \in BOOLEAN /\ source \in Sources /\ enabled2 \in BOOLEAN
  /\ nexts \in [Triggers2 -> Nat] /\ kept2 \in [nexts : [Triggers2 -> Nat], enabled : BOOLEAN]
  /\ tick \in [at : {"no", "waiting", "saving"}, now : 0 .. Horizon] /\ upSince \in 0 .. Horizon
  /\ last \in [Triggers2 -> [due : -1 .. Horizon, at : 0 .. Horizon]]
  /\ crashes \in 0 .. MaxCrashes /\ threw \in BOOLEAN

NoTick == [at |-> "no", now |-> 0]

\* The app was installed at 0: an expression with an occurrence, a heartbeat that runs on
\* start or not.
ScheduleInit ==
  /\ now = 0 /\ alive = TRUE /\ source \in {src \in Sources : ValidSource(src) /\ NextCron(src, 0) # Never}
  /\ \E first \in {0, Every} : nexts = [t \in Triggers2 |-> IF t = "heartbeat" THEN first ELSE NextCron(source, 0)]
  /\ enabled2 = TRUE /\ kept2 = [nexts |-> nexts, enabled |-> TRUE] /\ tick = NoTick
  /\ last = [t \in Triggers2 |-> [due |-> -1, at |-> 0]] /\ upSince = 0 /\ crashes = 0 /\ threw = FALSE

Passes ==
  /\ now < Horizon /\ now' = now + 1
  /\ UNCHANGED <<alive, source, enabled2, nexts, kept2, tick, last, upSince, crashes, threw>>

\* tick() takes the time and awaits the deliveries.
TickStarts ==
  /\ alive /\ tick.at = "no" /\ tick' = [at |-> "waiting", now |-> now]
  /\ UNCHANGED <<now, alive, source, enabled2, nexts, kept2, last, upSince, crashes, threw>>

DueNow(t) == nexts[t] <= tick.now
Misfired(t) == t = "cron" /\ tick.now - nexts[t] > Grace
Starts(t) == DueNow(t) /\ ~Misfired(t) /\ NextRun(t, tick.now) # Never

\* The loop over the triggers, heartbeat first; a cron trigger without a next occurrence
\* throws before it starts, and nothing is saved.
Advances(t) == DueNow(t) /\ NextRun(t, tick.now) # Never

TickFires ==
  LET throws == enabled2 /\ DueNow("cron") /\ NextCron(source, tick.now) = Never IN
  /\ alive /\ tick.at = "waiting"
  /\ IF enabled2
       THEN /\ last' = [t \in Triggers2 |-> IF Starts(t) THEN [due |-> nexts[t], at |-> tick.now] ELSE last[t]]
            /\ nexts' = [t \in Triggers2 |-> IF Advances(t) THEN NextRun(t, tick.now) ELSE nexts[t]]
       ELSE UNCHANGED <<last, nexts>>
  /\ tick' = IF throws THEN NoTick ELSE [tick EXCEPT !.at = "saving"]
  /\ threw' = (threw \/ throws)
  /\ UNCHANGED <<now, alive, source, enabled2, kept2, upSince, crashes>>

Saved2 == [nexts |-> nexts, enabled |-> enabled2]
TickSaves ==
  /\ alive /\ tick.at = "saving" /\ kept2' = Saved2 /\ tick' = NoTick
  /\ UNCHANGED <<now, alive, source, enabled2, nexts, last, upSince, crashes, threw>>

\* enable computes the next times anew, disable leaves them; both save.
Enables ==
  /\ alive /\ ~enabled2 /\ enabled2' = TRUE /\ (NextCron(source, now) # Never)
  /\ nexts' = [t \in Triggers2 |-> NextRun(t, now)] /\ kept2' = [nexts |-> nexts', enabled |-> TRUE]
  /\ UNCHANGED <<now, alive, source, tick, last, upSince, crashes, threw>>
Disables ==
  /\ alive /\ enabled2 /\ enabled2' = FALSE /\ kept2' = [nexts |-> nexts, enabled |-> FALSE]
  /\ UNCHANGED <<now, alive, source, nexts, tick, last, upSince, crashes, threw>>

Crashes ==
  /\ alive /\ crashes < MaxCrashes /\ crashes' = crashes + 1 /\ alive' = FALSE /\ tick' = NoTick
  /\ UNCHANGED <<now, source, enabled2, nexts, kept2, last, upSince, threw>>

\* initialize: the heartbeat of an enabled app starts over.
Restarted == IF kept2.enabled THEN [kept2.nexts EXCEPT !["heartbeat"] = now + Every] ELSE kept2.nexts
Restarts ==
  /\ ~alive /\ alive' = TRUE /\ enabled2' = kept2.enabled /\ nexts' = Restarted
  /\ kept2' = [kept2 EXCEPT !.nexts = nexts'] /\ upSince' = now
  /\ UNCHANGED <<now, source, tick, last, crashes, threw>>

ScheduleNext ==
  \/ Passes \/ TickStarts \/ TickFires \/ TickSaves \/ Enables \/ Disables \/ Crashes \/ Restarts

ScheduleSpec == ScheduleInit /\ [][ScheduleNext]_scheduleVars
ScheduleFairness == WF_scheduleVars(TickStarts \/ TickFires \/ TickSaves)
ScheduleFairSpec == ScheduleSpec /\ ScheduleFairness

----------------------------------------------------------------------------
(* Properties.                                                             *)

\* An expression whose numbers and steps are in their ranges and ascend as written is
\* accepted, also a range of days that ends in 7; and the parsed field holds what its lists,
\* ranges and steps name, 7 being Sunday as well as 0 (but for a range of days that begins
\* with 7, which the code takes to begin with 0).
Meant(p, f, v) ==
  \E raw \in {v} \union (IF Ranges[f].sunday /\ v = 0 THEN {7} ELSE {}) :
    IF p.kind = "any" THEN raw \in {Ranges[f].min + p.step * k : k \in 0 .. 60}
    ELSE raw \in p.lo .. p.hi /\ raw \in {p.lo + p.step * k : k \in 0 .. 60}
WellWritten(p, f) ==
  /\ p.kind = "any" \/ (p.lo <= p.hi /\ {p.lo, p.hi} \subseteq Ranges[f].min .. Ranges[f].max)
  /\ p.step \in 1 .. Ranges[f].max - Ranges[f].min + 1
Accepted ==
  \A src \in Sources :
    (\A f \in 1 .. 5 : \A i \in DOMAIN src[f] : WellWritten(src[f][i], f)) => ValidSource(src)
FromSunday(p, f) == Ranges[f].sunday /\ p.kind = "range" /\ p.lo = 7
MeantBy == [src \in Sources |->
  \A f \in 1 .. 5 : (\A i \in DOMAIN src[f] : ~FromSunday(src[f][i], f)) =>
    \A v \in Ranges[f].min .. Ranges[f].max :
      Value(v, f) \in Parsed[src][f] <=> \E i \in DOMAIN src[f] : Meant(src[f][i], f, Value(v, f))]
FieldsMeant == Accepted /\ MeantBy[source]

\* A trigger that is due is started or its occurrence passed over, unless the app is
\* disabled, the daemon crashes, or a cron expression without a next occurrence has
\* stopped the tick.
IsDue(t) == alive /\ enabled2 /\ nexts[t] <= now
DueIsHandled ==
  \A t \in Triggers2 : IsDue(t) ~> (threw \/ ~IsDue(t))

\* What a trigger starts, step by step: an occurrence is never started twice, though ticks
\* repeat, the app is disabled and enabled and the clock of the zone repeats an hour, unless
\* the daemon crashed between the start and the save of the registry; and a heartbeat that
\* was missed while the daemon was down is not made up for.
StartsMeant ==
  [][ /\ \A t \in Triggers2 : (last'[t] # last[t] /\ crashes = 0) => last'[t].due > last[t].due
      /\ last'["heartbeat"] # last["heartbeat"] => last'["heartbeat"].due >= upSince ]_scheduleVars

\* The expression means what it says, and every state is one of the scheduler's.
ScheduleSafe == ScheduleTypeOK /\ FieldsMeant
=============================================================================
