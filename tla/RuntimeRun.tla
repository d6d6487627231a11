----------------------------- MODULE RuntimeRun -----------------------------
(***************************************************************************)
(* One streamed run of an application in the runtime: the flow (an INPUT   *)
(* node, the SKILL or WORKSPACE node whose text streams, the OUTPUT node), *)
(* the coordinator that decides which tokens of the model are output text, *)
(* the publisher, and the bounded queue between the run and the one who    *)
(* iterates the stream, who may be slow, cancel or leave at any moment.    *)
(* A text is a sequence of tokens; an item of the queue is one text in text*)
(* mode and one event, <<type>>, in event mode.                            *)
(***************************************************************************)
EXTENDS Integers, Sequences

CONSTANTS Tokens, Modes,
          Nodes,        \* "plain": a SKILL; "tools": one with tools; "agent": a WORKSPACE
          MaxTokens,    \* tokens of one model call
          MaxCalls,     \* iterations of the tool calling loop
          MaxAttempts,  \* MaxAttempts[n]: retry.maxAttempts
          MaxBytes      \* MAX_BUFFER_BYTES

ASSUME RunAssumption ==
  /\ Modes \subseteq {"text", "events"} /\ Nodes \subseteq {"plain", "tools", "agent"}
  /\ MaxTokens \in Nat /\ MaxCalls \in Nat \ {0} /\ MaxAttempts \in [Nodes -> Nat \ {0}] /\ MaxBytes \in Nat

VARIABLES mode, node, pc,
          queue,      \* the AsyncRunQueue and what its consumer has got
          aborted,    \* reason of the run's signal: "no", "aborted" or "overflow"
          enabled,    \* callbackEnabled of the publisher
          emitted,    \* text the coordinator let out
          said, call, \* tokens of the model call under way, and what kind of call it is
          calls, attempt, form, answer, failure

runVars == <<mode, node, pc, queue, aborted, enabled, emitted, said, call,
             calls, attempt, form, answer, failure>>
flowVars == <<emitted, said, call, calls, attempt, form, answer>>

NoText == <<"none">>
InFlow == {"input", "node", "calling", "tool", "answered"}
Over == {"settled", "ended", "dead"}
Pcs == InFlow \union Over \union
       {"created", "starting", "completing", "throwing", "failing", "closing"}
Failures == {"none", "ok", "aborted", "overflow", "failed", "mismatch", "renderer"}
Prefix(s, t) == Len(s) <= Len(t) /\ SubSeq(t, 1, Len(s)) = s

Waiting(values) == LET sum[i \in 0 .. Len(values)] == IF i = 0 THEN 0 ELSE sum[i - 1] + Len(values[i])
                   IN sum[Len(values)]

RunTypeOK ==
  /\ mode \in Modes /\ node \in Nodes /\ pc \in Pcs
  /\ queue.state \in {"open", "closed", "failed"} /\ queue.seen \in {"items", "done", "error", "left"}
  /\ queue.bytes = Waiting(queue.values) /\ queue.bytes <= MaxBytes
  /\ queue.waiting => queue.values = <<>>
  /\ aborted \in {"no", "aborted", "overflow"} /\ enabled \in BOOLEAN
  /\ emitted \in Seq(Tokens) /\ said \in Seq(Tokens)
  /\ call \in {"none", "forced", "asking", "sub"}
  /\ calls \in 0 .. MaxCalls /\ attempt \in 1 .. MaxAttempts[node]
  /\ form \in {"fresh", "refused"} /\ answer \in Seq(Tokens) \union {NoText}
  /\ failure \in Failures

RunInit ==
  /\ mode \in Modes /\ node \in Nodes /\ pc = "created"
  /\ queue = [values |-> <<>>, bytes |-> 0, waiting |-> FALSE, got |-> <<>>,
              state |-> "open", seen |-> "items", full |-> FALSE]
  /\ aborted = "no" /\ enabled = TRUE
  /\ emitted = <<>> /\ said = <<>> /\ call = "none"
  /\ calls = 0 /\ attempt = 1 /\ form = "fresh" /\ answer = NoText /\ failure = "none"

----------------------------------------------------------------------------
\* AsyncRunQueue.push: to the pending next() if there is one, else into the buffer.
TooMuch(q, item) == q.bytes + Len(item) > MaxBytes

\* The consumer's text, or the last event it got that is no log of a plugin.
Log == <<"runtime-event">>
Got(got, item) == IF mode = "text" THEN got \o item ELSE IF item = Log THEN got ELSE item

Push(q, item) ==
  IF q.full \/ q.state # "open" THEN q
  ELSE IF q.waiting THEN [q EXCEPT !.waiting = FALSE, !.got = Got(@, item)]
  ELSE IF TooMuch(q, item) THEN [q EXCEPT !.full = TRUE]
  ELSE [q EXCEPT !.values = Append(@, item), !.bytes = @ + Len(item)]

PushAll(items) ==
  LET after[i \in 0 .. Len(items)] == IF i = 0 THEN queue ELSE Push(after[i - 1], items[i])
  IN after[Len(items)]

\* What one event, and one text of the output, are to the consumer of this mode.
Event(type) == IF mode = "events" /\ enabled THEN << <<type>> >> ELSE <<>>
Deltas(texts) == IF mode = "text" THEN texts
                 ELSE IF enabled THEN [i \in DOMAIN texts |-> <<"output-delta">>] ELSE <<>>
Pieces(text) == [i \in DOMAIN text |-> <<text[i]>>]

\* The items go out in one synchronous step.  A full queue aborts the run,
\* silences the publisher and throws into whoever was publishing.
Publish(items, next) ==
  LET q == PushAll(items)
  IN /\ queue' = q
     /\ IF q.full /\ ~queue.full
        THEN /\ aborted' = IF aborted = "no" THEN "overflow" ELSE aborted
             /\ enabled' = FALSE /\ failure' = "overflow" /\ pc' = "throwing"
        ELSE UNCHANGED <<aborted, enabled, failure>> /\ pc' = next

Throw(why) == pc' = "throwing" /\ failure' = why

----------------------------------------------------------------------------
\* The runner starts in a microtask; run-start is the first event.
Start ==
  /\ pc = "created"
  /\ Publish(Event("run-start"), "starting")
  /\ UNCHANGED <<mode, node, flowVars>>

RendererStart ==
  /\ pc = "starting"
  /\ \/ pc' = "input" /\ UNCHANGED failure
     \/ Throw("renderer")
  /\ UNCHANGED <<mode, node, queue, aborted, enabled, flowVars>>

\* requestInput: values that do not fit the form are asked for again.
Submit(valid) ==
  /\ pc = "input"
  /\ form' = IF valid THEN "fresh" ELSE "refused"
  /\ pc' = IF valid THEN "node" ELSE "input"
  /\ UNCHANGED <<mode, node, queue, aborted, enabled, emitted, said, call, calls, attempt,
                 answer, failure>>

\* A model call: the last iteration, and a node without tools, force an answer.
LastCall == node = "plain" \/ calls = MaxCalls

BeginCall(kind) ==
  /\ pc = IF kind = "sub" THEN "tool" ELSE "node"
  /\ kind # "sub" => kind = IF LastCall THEN "forced" ELSE "asking"
  /\ call' = kind /\ said' = <<>>
  /\ Publish(Event("model-start"), "calling")
  /\ UNCHANGED <<mode, node, emitted, calls, attempt, form, answer>>

\* The coordinator: tokens of a forced call are output at once, those of a call
\* that may still ask for tools are held back.  A Skill that a Workspace uses as
\* a tool is called with the Workspace's node id.
SlipAtOnce == TRUE
AtOnce == call # "asking"

Token(t) ==
  /\ pc = "calling" /\ Len(said) < MaxTokens
  /\ said' = Append(said, t)
  /\ emitted' = IF AtOnce THEN Append(emitted, t) ELSE emitted
  /\ Publish((IF AtOnce THEN Deltas(<< <<t>> >>) ELSE <<>>) \o Event("model-event"), "calling")
  /\ UNCHANGED <<mode, node, call, calls, attempt, form, answer>>

\* The reply.  With tool calls the held text is dropped, without it is emitted.
Released(tools) == IF tools \/ AtOnce THEN <<>> ELSE said

Reply(tools, content) ==
  /\ pc = "calling" /\ (tools => call = "asking")
  /\ content = said \/ (said = <<>> /\ content \in {<<t>> : t \in Tokens})
  /\ emitted' = emitted \o Released(tools)
  /\ said' = <<>> /\ call' = "none"
  /\ calls' = IF tools THEN calls + 1 ELSE calls
  /\ answer' = IF tools \/ call = "sub" THEN answer ELSE content
  /\ Publish(Deltas(Pieces(Released(tools))) \o Event("model-complete"),
             IF call = "sub" THEN "node"
             ELSE IF ~tools THEN "answered" ELSE IF node = "agent" THEN "tool" ELSE "node")
  /\ UNCHANGED <<mode, node, attempt, form>>

\* The tool of an agent may also be one of a plugin.
PluginTool ==
  /\ pc = "tool" /\ pc' = "node"
  /\ UNCHANGED <<mode, node, queue, aborted, enabled, failure, flowVars>>

\* The provider, a tool or the node's time limit fails the attempt.
AttemptFails ==
  /\ pc \in {"node", "calling", "tool"}
  /\ said' = <<>> /\ call' = "none" /\ calls' = 0
  /\ IF aborted = "no" /\ attempt < MaxAttempts[node]
     THEN attempt' = attempt + 1 /\ pc' = "node" /\ UNCHANGED failure
     ELSE Throw("failed") /\ UNCHANGED attempt
  /\ UNCHANGED <<mode, node, queue, aborted, enabled, emitted, form, answer>>

\* OUTPUT: what the final text adds to the emitted one, then the result event.
SlipWhole == answer
Rest == SubSeq(answer, Len(emitted) + 1, Len(answer))

Output ==
  /\ pc = "answered" /\ aborted = "no"
  /\ IF Prefix(emitted, answer)
     THEN /\ emitted' = answer
          /\ Publish((IF Rest = <<>> THEN <<>> ELSE Deltas(<<Rest>>)) \o Event("result"), "completing")
     ELSE Throw("mismatch") /\ UNCHANGED <<queue, aborted, enabled, emitted>>
  /\ UNCHANGED <<mode, node, said, call, calls, attempt, form, answer>>

SlipOnlyFull == aborted = "overflow"
Interrupted == aborted # "no"

FlowAborted ==
  /\ pc \in InFlow /\ Interrupted
  /\ Throw("aborted")
  /\ UNCHANGED <<mode, node, queue, aborted, enabled, flowVars>>

\* The renderer shows the result; when it fails the run fails after all.
RendererComplete ==
  /\ pc = "completing"
  /\ \/ pc' = "closing" /\ failure' = "ok"
     \/ Throw("renderer")
  /\ UNCHANGED <<mode, node, queue, aborted, enabled, flowVars>>

\* catch: the error event, then renderer.fail, whose own failure is swallowed.
\* What the flow was doing is dropped.
SlipNoErrorEvent == <<>>
ErrorEvent == Event("error")

Catch ==
  LET why == IF aborted = "overflow" THEN "overflow" ELSE failure
      q == PushAll(ErrorEvent)
  IN /\ pc = "throwing"
     /\ queue' = q /\ pc' = "failing"
     /\ IF q.full /\ ~queue.full
        THEN /\ aborted' = IF aborted = "no" THEN "overflow" ELSE aborted
             /\ enabled' = FALSE /\ failure' = "overflow"
        ELSE failure' = why /\ UNCHANGED <<aborted, enabled>>
     /\ said' = <<>> /\ call' = "none" /\ calls' = 0 /\ form' = "fresh"
     /\ UNCHANGED <<mode, node, emitted, attempt, answer>>

\* finally: manager.dispose and renderer.dispose; then result settles.
Finish ==
  /\ pc \in {"failing", "closing"}
  /\ pc' = IF pc = "failing" THEN "closing" ELSE "settled"
  /\ UNCHANGED <<mode, node, queue, aborted, enabled, failure, flowVars>>

\* A worker of a plugin logs whenever it likes, from the flow's first hook until
\* manager.dispose in finally has ended it, so also after the result or the error
\* event; a worker that was forgotten while it started logs on.  Nobody awaits the
\* handler of its messages: when its event fills the queue, the run is aborted and
\* the publisher silenced, but the rejection has no handler, which ends the process
\* unless the host has one of its own.
PluginsLive == /\ pc \notin {"created", "starting", "ended", "dead"}
               /\ failure = "renderer" => answer # NoText

PluginLog ==
  LET q == PushAll(Event("runtime-event"))
  IN /\ mode = "events" /\ PluginsLive
     /\ queue' = q
     /\ IF q.full /\ ~queue.full
        THEN /\ aborted' = IF aborted = "no" THEN "overflow" ELSE aborted
             /\ enabled' = FALSE /\ pc' \in {pc, "dead"}
        ELSE UNCHANGED <<aborted, enabled, pc>>
     /\ UNCHANGED <<mode, node, failure, flowVars>>

\* queue.close or queue.fail answers a pending next().
Ending == IF failure = "ok" \/ mode = "events" THEN "closed" ELSE "failed"
Seen(state) == IF state = "closed" THEN "done" ELSE "error"
Answered == queue.waiting

Settle ==
  /\ pc = "settled" /\ pc' = "ended"
  /\ queue' = [queue EXCEPT !.state = Ending, !.waiting = @ /\ ~Answered,
                            !.seen = IF Answered /\ @ = "items" THEN Seen(Ending) ELSE @]
  /\ UNCHANGED <<mode, node, aborted, enabled, failure, flowVars>>

----------------------------------------------------------------------------
\* The consumer.
Pull ==
  /\ queue.seen = "items" /\ ~queue.waiting /\ pc # "dead"
  /\ queue' = IF queue.values # <<>>
              THEN [queue EXCEPT !.values = Tail(@), !.bytes = @ - Len(Head(queue.values)),
                                 !.got = Got(@, Head(queue.values))]
              ELSE IF queue.state = "open" THEN [queue EXCEPT !.waiting = TRUE]
              ELSE [queue EXCEPT !.seen = Seen(queue.state)]
  /\ UNCHANGED <<mode, node, pc, aborted, enabled, failure, flowVars>>

\* cancel, the caller's signal, the renderer or RuntimeLifecycle.dispose; return()
\* of the iterator also ends the iteration.
Abort(leaves) ==
  /\ pc \notin Over /\ queue.seen = "items" /\ (aborted = "no" \/ leaves)
  /\ aborted' = IF aborted = "no" THEN "aborted" ELSE aborted
  /\ queue' = IF leaves THEN [queue EXCEPT !.seen = "left"] ELSE queue
  /\ UNCHANGED <<mode, node, pc, enabled, failure, flowVars>>

Goes == Start \/ RendererStart \/ Output \/ FlowAborted \/ RendererComplete \/ Catch \/ Finish \/ Settle

RunNext ==
  \/ Goes
  \/ \E valid \in BOOLEAN : Submit(valid)
  \/ \E kind \in {"forced", "asking", "sub"} : BeginCall(kind)
  \/ \E t \in Tokens : Token(t)
  \/ \E tools \in BOOLEAN : Reply(tools, said) \/ \E t \in Tokens : Reply(tools, <<t>>)
  \/ PluginTool \/ AttemptFails \/ PluginLog \/ Pull
  \/ \E leaves \in BOOLEAN : Abort(leaves)

RunSpec == RunInit /\ [][RunNext]_runVars
RunFairSpec == RunSpec /\ WF_runVars(Goes) /\ WF_runVars(Pull)

----------------------------------------------------------------------------
\* A text run that ends without an error has delivered exactly its output.
TextIsOutput ==
  mode = "text" /\ queue.seen = "done" => failure = "ok" /\ queue.got = answer

\* When the iteration is over, the last event tells how the run ended: nothing but the
\* logs of plugins follows it, and it is missing only when the queue was full.
LastEventTells ==
  mode = "events" /\ queue.seen = "done" =>
    LET last == queue.got[Len(queue.got)]
    IN /\ failure = "ok" => last = "result"
       /\ failure # "ok" => queue.full \/ last = "error"

\* The streamed text contradicts the output only after a failed attempt or when a
\* Workspace called a Skill: text held back for a call that asks for tools is
\* never let out, and all of an answer is.
MismatchExplained == failure = "mismatch" => attempt > 1 \/ node = "agent"

\* A stream that was cancelled, left or that fell behind ends, if the process goes on.
AbortEnds == (aborted # "no") ~> (pc \in {"ended", "dead"})

\* Whoever waits for the next item of a run that has ended is answered.
ConsumerEnds == (pc = "ended" /\ queue.seen = "items") ~> (queue.seen \in {"done", "error"})

\* Text streams contain only content consistent with the final OUTPUT.
TextConsistent == mode = "text" /\ answer # NoText => Prefix(queue.got, answer)

\* The end of a run is told, and is told for a reason.
EndTold == RunTypeOK /\ LastEventTells /\ MismatchExplained

\* A stream that is given up ends, and whoever waits for it is answered.
RunsEnd == AbortEnds /\ ConsumerEnds
=============================================================================
