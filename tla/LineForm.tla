------------------------------ MODULE LineForm ------------------------------
(***************************************************************************)
(* The sequential renderer of a run: lines of the input answer the fields  *)
(* of an INPUT form one after the other.  Lines arrive before, while and   *)
(* after a field is asked for, the input may end, the run may be aborted   *)
(* and the renderer disposed; events of the run wait while a field is      *)
(* asked for.  Lines are numbered as they arrive.                          *)
(***************************************************************************)
EXTENDS Integers, Sequences, FiniteSets, Functions

CONSTANTS LineFields,    \* the form: "text", "checkbox" fields, then "button" for its buttons
          MaxQueued,     \* lines kept while no field is asked for: 256
          MaxArrived,    \* lines of the input
          MaxForms,      \* requestInput calls
          MaxBuffered    \* events while a field is asked for

ASSUME LineAssumption ==
  /\ LineFields \in Seq({"text", "checkbox", "button"}) /\ LineFields # <<>>
  /\ {MaxQueued, MaxForms} \subseteq Nat \ {0} /\ {MaxArrived, MaxBuffered} \subseteq Nat

VARIABLES interactive,
          readline,    \* the readline interface: "none", "open", "closed"
          queued,      \* queuedLines
          asked,       \* pendingLine is set: ask() awaits a line
          field,       \* the field to answer, 0 outside a form
          known,       \* fields with a current value
          formOutcome, \* of the last form: "none", "given", "rejected"
          buffered,    \* bufferedEvents
          stopped,     \* the signal of the requests was aborted
          gone,        \* disposed
          arrived, forms,
          used,        \* history: the lines that answered, in order
          dropped      \* history: lines that found the queue full

lineVars == <<interactive, readline, queued, asked, field, known, formOutcome, buffered, stopped, gone,
              arrived, forms, used, dropped>>

LineKinds == {"answer", "blank", "unfit", "large"}
LastField == Len(LineFields)

LineTypeOK ==
  /\ interactive \in BOOLEAN /\ readline \in {"none", "open", "closed"} /\ asked \in BOOLEAN
  /\ queued \in Seq([line : 1 .. MaxArrived, kind : LineKinds]) /\ Len(queued) <= MaxQueued
  /\ field \in 0 .. LastField /\ known \subseteq 1 .. LastField /\ formOutcome \in {"none", "given", "rejected"}
  /\ buffered \in 0 .. MaxBuffered /\ stopped \in BOOLEAN /\ gone \in BOOLEAN
  /\ arrived \in 0 .. MaxArrived /\ forms \in 0 .. MaxForms
  /\ used \in Seq(1 .. MaxArrived) /\ dropped \subseteq 1 .. MaxArrived

LineInit ==
  /\ interactive \in BOOLEAN /\ readline = "none" /\ queued = <<>> /\ asked = FALSE /\ field = 0
  /\ known = {} /\ formOutcome = "none" /\ buffered = 0 /\ stopped = FALSE /\ gone = FALSE
  /\ arrived = 0 /\ forms = 0 /\ used = <<>> /\ dropped = {}

----------------------------------------------------------------------------
\* A blank line keeps a value and answers a checkbox, a text takes every line, the other
\* fields ask again for what they do not understand.
Accepts(i, kind) ==
  \/ kind = "answer"
  \/ kind = "unfit" /\ LineFields[i] = "text"
  \/ kind = "blank" /\ (LineFields[i] # "button" \/ i \in known)

Settled(how) == field' = 0 /\ formOutcome' = how
Flushed == 0

\* What becomes of the form when field i gets a line: ask() returns it or throws.
TakeLine(i, l) ==
  /\ asked' = FALSE /\ buffered' = Flushed /\ used' = Append(used, l.line)
  /\ IF l.kind = "large" THEN Settled("rejected") /\ UNCHANGED known
     ELSE IF ~Accepts(i, l.kind) THEN field' = i /\ UNCHANGED <<formOutcome, known>>
     ELSE /\ known' = IF l.kind = "blank" /\ LineFields[i] = "button" THEN known ELSE known \union {i}
          /\ IF i = LastField THEN Settled("given") ELSE field' = i + 1 /\ UNCHANGED formOutcome

InputOver == Settled("rejected")

\* ask(): the signal, the lines that wait, the end of the input, a promise.
SlipNewest == [line |-> queued[Len(queued)], rest |-> SubSeq(queued, 1, Len(queued) - 1)]
Oldest == [line |-> queued[1], rest |-> Tail(queued)]

AskLine(i) ==
  IF stopped
    THEN /\ Settled("rejected") /\ UNCHANGED <<readline, queued, asked, buffered, used, known>>
    ELSE /\ readline' = IF readline = "none" THEN "open" ELSE readline
         /\ IF queued # <<>> THEN queued' = Oldest.rest /\ TakeLine(i, Oldest.line)
            ELSE /\ UNCHANGED <<queued, used, known, buffered>>
                 /\ IF readline = "closed" THEN InputOver /\ UNCHANGED asked
                    ELSE asked' = TRUE /\ field' = i /\ UNCHANGED formOutcome

RequestForm ==
  /\ interactive /\ field = 0 /\ ~gone /\ forms < MaxForms /\ forms' = forms + 1
  /\ AskLine(1) /\ UNCHANGED <<interactive, stopped, gone, arrived, dropped>>

\* Without a terminal the values must be there; a button that is not selected is missing.
RequestValues ==
  /\ ~interactive /\ field = 0 /\ ~gone /\ forms < MaxForms /\ forms' = forms + 1
  /\ \E given \in SUBSET (1 .. LastField) :
       known' = given /\ Settled(IF given = 1 .. LastField THEN "given" ELSE "rejected")
  /\ UNCHANGED <<interactive, readline, queued, asked, buffered, stopped, gone, arrived, used, dropped>>

AskNext ==
  /\ field # 0 /\ ~asked /\ AskLine(field)
  /\ UNCHANGED <<interactive, stopped, gone, arrived, forms, dropped>>

HasRoom == Len(queued) < MaxQueued

\* The "line" event: the pending question takes it, else the queue if it is not full.
LineArrives(kind) ==
  LET l == [line |-> arrived + 1, kind |-> kind] IN
  /\ readline = "open" /\ arrived < MaxArrived /\ arrived' = arrived + 1
  /\ IF asked THEN TakeLine(field, l) /\ UNCHANGED <<queued, dropped>>
     ELSE /\ UNCHANGED <<asked, buffered, field, formOutcome, known, used>>
          /\ IF HasRoom THEN queued' = Append(queued, l) /\ UNCHANGED dropped
             ELSE dropped' = dropped \union {l.line} /\ UNCHANGED queued
  /\ UNCHANGED <<interactive, readline, stopped, gone, forms>>

\* What rejects the pending question: the end of the input, the abort, dispose.
RejectPending == IF asked THEN asked' = FALSE /\ buffered' = Flushed /\ Settled("rejected")
                 ELSE UNCHANGED <<asked, field, formOutcome, buffered>>

InputEnds ==
  /\ readline = "open" /\ readline' = "closed" /\ RejectPending
  /\ UNCHANGED <<interactive, queued, known, stopped, gone, arrived, forms, used, dropped>>

StopAsking ==
  /\ ~stopped /\ stopped' = TRUE /\ RejectPending
  /\ UNCHANGED <<interactive, readline, queued, known, gone, arrived, forms, used, dropped>>

\* dispose closes the interface, which marks the input as ended; it forgets the lines.
Disposes ==
  /\ ~gone /\ gone' = TRUE /\ readline' = IF readline = "none" THEN "none" ELSE "closed"
  /\ queued' = <<>> /\ buffered' = 0
  /\ IF asked THEN asked' = FALSE /\ Settled("rejected") ELSE UNCHANGED <<asked, field, formOutcome>>
  /\ UNCHANGED <<interactive, known, stopped, arrived, forms, used, dropped>>

\* onModelEvent and onStreamEvent are written at once unless a field is asked for.
LineEvent ==
  /\ interactive /\ asked /\ buffered < MaxBuffered /\ buffered' = buffered + 1
  /\ UNCHANGED <<interactive, readline, queued, asked, field, known, formOutcome, stopped, gone,
                 arrived, forms, used, dropped>>

LineNext ==
  \/ RequestForm \/ RequestValues \/ AskNext \/ (\E kind \in LineKinds : LineArrives(kind))
  \/ InputEnds \/ StopAsking \/ Disposes \/ LineEvent

LineSpec == LineInit /\ [][LineNext]_lineVars
LineFairness == WF_lineVars(AskNext)
LineFairSpec == LineSpec /\ LineFairness

----------------------------------------------------------------------------
(* Properties.                                                             *)

\* No question stays open after the input has ended, the run was aborted or the renderer
\* disposed, whichever of the three comes first.
NoneLeftAsked == asked => readline = "open" /\ ~stopped /\ ~gone

\* Lines answer in the order they arrived, each once, and none is skipped but those that
\* found the queue full or that wait in it.
LinesInOrder ==
  /\ \A i, j \in DOMAIN used : i < j => used[i] < used[j]
  /\ ~gone => 1 .. arrived = Range(used) \union dropped \union {queued[i].line : i \in DOMAIN queued}

\* Events are held back only while a field is asked for: none gets stuck.
EventsShown == buffered > 0 => asked

\* A form ends as given only when every field has a value.
GivenIsFull == formOutcome = "given" => known = 1 .. LastField

\* Once the input has ended, the run was aborted or the renderer disposed, a form does
\* not go on for ever.
FormEnds == (field # 0 /\ (readline = "closed" \/ stopped \/ gone)) ~> (field = 0)

\* Lines and fields meet in order, nobody is asked after the end, no event is held back for
\* good, and what is given is complete.
LinesSafe == LineTypeOK /\ NoneLeftAsked /\ LinesInOrder /\ EventsShown /\ GivenIsFull
=============================================================================
