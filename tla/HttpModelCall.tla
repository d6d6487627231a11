---------------------------- MODULE HttpModelCall ----------------------------
(***************************************************************************)
(* One call of the HTTP model provider: the request, the response body that *)
(* arrives in chunks cut anywhere, the SSE decoder, the tool call fragments *)
(* and the two signals (the caller's and the provider's time limit) that    *)
(* may end it at any await.  A body is a sequence of bytes, drawn here as:  *)
(*   "d" the field name data:   "c" a colon that starts a comment           *)
(*   "n" line feed   "r" carriage return   "u" "v" one two-byte character   *)
(*   "a" content   "p" "q" name of tool call 0 and 1                        *)
(*   "z" a quotation mark in the arguments of tool call 0                   *)
(*   "." the done marker   "!" text that is not JSON                        *)
(***************************************************************************)
EXTENDS Integers, Sequences, FiniteSets

CONSTANTS Bodies,        \* the bodies a server may send
          MaxResponse,   \* MAX_RESPONSE_BYTES
          MaxEvent       \* MAX_SSE_EVENT_BYTES

Bytes == {"d", "c", "n", "r", "u", "v", "a", "p", "q", "z", ".", "!"}

\* An event may be as long as the done marker at least.
ASSUME HttpAssumption == Bodies \subseteq Seq(Bytes) /\ MaxResponse \in Nat /\ MaxEvent \in Nat \ {0}

VARIABLES format,              \* response.mode: "sse" or "json"
          body, status,        \* what the server sends; "bodyless": an answer without a body
          stage,               \* where the call is
          cancelled, timedOut, \* request.signal and the timer
          at,                  \* bytes read
          decoder, taken,      \* SseFrameDecoder; the bytes readLimited collected
          tokens, toolCalls,   \* text given to onEvent, ToolCallDeltaAccumulator
          reader, outcome, reply

httpVars == <<format, body, status, stage, cancelled, timedOut, at, decoder, taken,
              tokens, toolCalls, reader, outcome, reply>>
response == <<format, body, status>>
parsed == <<at, decoder, taken, tokens, toolCalls>>

Texts == {"a", "u"}
Tools == [p |-> 0, q |-> 1, z |-> 0]
NoCalls == [i \in {0, 1} |-> [name |-> <<>>, args |-> <<>>]]
NoReply == [content |-> <<"none">>, calls |-> <<>>]
\* The members of s that are in P, in their order; pieces put together with between.
Pick(s, P) ==
  LET kept[i \in 0 .. Len(s)] ==
        IF i = 0 THEN <<>> ELSE IF s[i] \in P THEN Append(kept[i - 1], s[i]) ELSE kept[i - 1]
  IN kept[Len(s)]
Concat(pieces, between) ==
  LET upTo[i \in 0 .. Len(pieces)] ==
        IF i = 0 THEN <<>> ELSE IF i = 1 THEN pieces[1] ELSE upTo[i - 1] \o between \o pieces[i]
  IN upTo[Len(pieces)]
TextOf(data) == Pick(data, Texts)

Stages == {"called", "transforming", "validating", "fetching", "responded", "reading", "over"}
Outcomes == {"none", "ok", "aborted", "timeout", "unsupported", "transform", "rejected", "network",
             "redirect", "status", "large", "invalid"}

HttpTypeOK ==
  /\ format \in {"sse", "json"} /\ status \in {"ok", "redirect", "error", "bodyless"}
  /\ stage \in Stages /\ cancelled \in BOOLEAN /\ timedOut \in BOOLEAN
  /\ at \in 0 .. Len(body) /\ Len(taken) <= MaxResponse
  /\ reader \in {"none", "open", "done", "cancelled", "released"} /\ outcome \in Outcomes
  /\ (outcome = "none") = (stage # "over")

HttpInit ==
  /\ format \in {"sse", "json"} /\ body \in Bodies /\ status \in {"ok", "redirect", "error", "bodyless"}
  /\ status # "ok" => body = <<>>
  /\ stage = "called" /\ cancelled = FALSE /\ timedOut = FALSE
  /\ at = 0 /\ taken = <<>> /\ tokens = <<>> /\ toolCalls = NoCalls
  /\ decoder = [half |-> FALSE, pending |-> <<>>, lines |-> <<>>, stopped |-> FALSE,
                frames |-> <<>>, bad |-> FALSE]
  /\ reader = "none" /\ outcome = "none" /\ reply = NoReply

----------------------------------------------------------------------------
\* The caller's signal has precedence over the time limit, that over the error.
Cause(error) == IF cancelled THEN "aborted" ELSE IF timedOut THEN "timeout" ELSE error

Fail(error) == stage' = "over" /\ outcome' = Cause(error) /\ UNCHANGED reply

Call(supported) ==
  /\ stage = "called"
  /\ IF cancelled THEN Fail("aborted")
     ELSE IF ~supported THEN Fail("unsupported")
     ELSE stage' = "transforming" /\ UNCHANGED <<outcome, reply>>
  /\ UNCHANGED <<response, cancelled, timedOut, parsed, reader>>

\* The transformer is awaited without a limit; the timer starts after it.
Transform(fits) ==
  /\ stage = "transforming"
  /\ IF fits THEN stage' = "validating" /\ UNCHANGED <<outcome, reply>>
     ELSE stage' = "over" /\ outcome' = "transform" /\ UNCHANGED reply
  /\ UNCHANGED <<response, cancelled, timedOut, parsed, reader>>

\* validateResolvedPublicUrl and fetch take the signal.
Moves(from, to) == stage = from /\ stage' = to /\ UNCHANGED <<outcome, reply>>

Reach(answers) ==
  /\ IF answers /\ ~cancelled /\ ~timedOut
     THEN Moves("validating", "fetching") \/ Moves("fetching", "responded")
     ELSE \/ stage = "validating" /\ Fail("rejected")
          \/ stage = "fetching" /\ Fail("network")
  /\ UNCHANGED <<response, cancelled, timedOut, parsed, reader>>

\* The content-length may be above the limit, whatever the body is: it is not read.
DeclaresTooMuch == Fail("large") /\ UNCHANGED reader

\* Without a body there is nothing to stream, and no bytes are no JSON.
NoBody == Fail("invalid") /\ UNCHANGED reader

Respond ==
  /\ stage = "responded"
  /\ IF status = "redirect" THEN Fail("redirect") /\ UNCHANGED reader
     ELSE IF status = "error" THEN Fail("status") /\ UNCHANGED reader
     ELSE IF status = "bodyless" THEN NoBody \/ (format = "json" /\ DeclaresTooMuch)
     ELSE \/ DeclaresTooMuch
          \/ stage' = "reading" /\ reader' = "open" /\ UNCHANGED <<outcome, reply>>
  /\ UNCHANGED <<response, cancelled, timedOut, parsed>>

----------------------------------------------------------------------------
\* SseFrameDecoder, one byte at a time: nothing is decided by where a chunk ends.
Join(lines) == Concat(lines, <<"n">>)
Chomp(line) == IF line # <<>> /\ line[Len(line)] = "r" THEN SubSeq(line, 1, Len(line) - 1) ELSE line

\* A frame: the data lines since the last one.  The done marker stops the decoder.
Frame(d) ==
  LET data == Join(d.lines)
      done == [d EXCEPT !.lines = <<>>]
  IN IF d.lines = <<>> THEN d
     ELSE IF Len(data) > MaxEvent THEN [done EXCEPT !.bad = TRUE]
     ELSE IF data = <<".">> THEN [done EXCEPT !.stopped = TRUE]
     ELSE [done EXCEPT !.frames = Append(@, data)]

Line(d, line) ==
  IF line = <<>> THEN Frame(d)
  ELSE IF line[1] = "d" THEN [d EXCEPT !.lines = Append(@, Tail(line))]
  ELSE d

Byte(d, b) ==
  IF d.half # (b = "v") THEN [d EXCEPT !.bad = TRUE]
  ELSE IF b = "v" THEN [d EXCEPT !.half = FALSE]
  ELSE IF d.stopped \/ d.bad THEN [d EXCEPT !.half = b = "u"]
  ELSE IF b = "n" THEN Line([d EXCEPT !.pending = <<>>], Chomp(d.pending))
  ELSE [d EXCEPT !.pending = Append(@, b), !.half = b = "u"]

Fresh(d) == [d EXCEPT !.frames = <<>>]

Decode(chunk) ==
  LET after[i \in 0 .. Len(chunk)] ==
        IF i = 0 THEN Fresh(decoder) ELSE Byte(after[i - 1], chunk[i])
  IN after[Len(chunk)]

\* finish: the last line needs no line feed, the last frame no blank line.
LastLines(d) ==
  IF d.half THEN [d EXCEPT !.bad = TRUE] ELSE Frame(Line([d EXCEPT !.pending = <<>>], Chomp(d.pending)))

\* Fragments of one tool call are put together by their index.
SlipFirst(table, ch) == [table EXCEPT ![0].name = IF ch = "z" THEN @ ELSE Append(@, ch)]
Fragment(table, ch) ==
  LET i == Tools[ch]
  IN IF ch = "z" THEN [table EXCEPT ![i].args = Append(@, ch)] ELSE [table EXCEPT ![i].name = Append(@, ch)]

Fragments(table, data) ==
  LET after[i \in 0 .. Len(data)] ==
        IF i = 0 THEN table
        ELSE IF data[i] \in DOMAIN Tools THEN Fragment(after[i - 1], data[i]) ELSE after[i - 1]
  IN after[Len(data)]

IsJson(data) == data # <<>> /\ \A i \in DOMAIN data : data[i] \in Texts \union DOMAIN Tools \union {"n"}

\* for await: each frame's text is an event and part of the content; a frame that
\* is not JSON ends the call after those before it.
Good(frames) == IF \A i \in DOMAIN frames : IsJson(frames[i]) THEN Len(frames)
                ELSE (CHOOSE i \in DOMAIN frames : ~IsJson(frames[i]) /\ \A j \in 1 .. i - 1 : IsJson(frames[j])) - 1

Take(frames) ==
  LET run[i \in 0 .. Len(frames)] ==
        IF i = 0 THEN [text |-> tokens, calls |-> toolCalls]
        ELSE [text |-> run[i - 1].text \o TextOf(frames[i]), calls |-> Fragments(run[i - 1].calls, frames[i])]
  IN run[Good(frames)]

Used(table) == {i \in DOMAIN table : table[i].name # <<>> \/ table[i].args # <<>>}
Named(table) == \A i \in Used(table) : table[i].name # <<>>

\* Arguments parse when there are none or they are a quoted string.
Parses(args) == Len(args) \in {0, 2}
Usable(table) == Named(table) /\ \A i \in Used(table) : Parses(table[i].args)
InOrder(table) == IF Used(table) = {0, 1} THEN <<table[0], table[1]>>
                  ELSE IF Used(table) = {} THEN <<>> ELSE <<table[CHOOSE i \in Used(table) : TRUE]>>

Answer(text, table) ==
  /\ stage' = "over"
  /\ IF Usable(table) THEN outcome' = "ok" /\ reply' = [content |-> text, calls |-> InOrder(table)]
     ELSE outcome' = Cause("invalid") /\ UNCHANGED reply

\* The done marker cancels the rest of the body, otherwise it was read to its end.
Closing(d) == IF d.stopped THEN "cancelled" ELSE "done"

Yield(d, last) ==
  LET got == Take(d.frames)
  IN /\ decoder' = d
     /\ IF d.bad THEN UNCHANGED <<tokens, toolCalls>> ELSE tokens' = got.text /\ toolCalls' = got.calls
     /\ IF d.bad \/ Good(d.frames) < Len(d.frames) THEN Fail("invalid") /\ reader' = "released"
        ELSE IF d.stopped \/ last THEN Answer(got.text, got.calls) /\ reader' = Closing(d)
        ELSE UNCHANGED <<stage, outcome, reply, reader>>

\* A chunk: the signal is looked at first, then the size.
TooLarge(n) == at + n > MaxResponse

Chunk(n) ==
  LET chunk == SubSeq(body, at + 1, at + n)
  IN /\ stage = "reading" /\ ~cancelled /\ ~timedOut /\ n > 0 /\ at + n <= Len(body)
     /\ at' = at + n
     /\ IF TooLarge(n)
        THEN Fail("large") /\ reader' = "cancelled" /\ UNCHANGED <<decoder, taken, tokens, toolCalls>>
        ELSE IF format = "json"
        THEN taken' = taken \o chunk /\ UNCHANGED <<decoder, tokens, toolCalls, reader, stage, outcome, reply>>
        ELSE Yield(Decode(chunk), FALSE) /\ UNCHANGED taken
     /\ UNCHANGED <<response, cancelled, timedOut>>

\* The end of the body: SSE needs no done marker; JSON is parsed as a whole.
Chars(bytes) == Pick(bytes, Bytes \ {"v"})
Utf8(bytes) == \A i \in DOMAIN bytes :
                 /\ bytes[i] = "u" => i < Len(bytes) /\ bytes[i + 1] = "v"
                 /\ bytes[i] = "v" => i > 1 /\ bytes[i - 1] = "u"

EndOfBody ==
  /\ stage = "reading" /\ ~cancelled /\ ~timedOut /\ at = Len(body)
  /\ IF format = "sse" THEN Yield(LastLines(Fresh(decoder)), TRUE) /\ UNCHANGED taken
     ELSE /\ reader' = "done" /\ UNCHANGED <<decoder, tokens, toolCalls, taken>>
          /\ IF Utf8(taken) /\ IsJson(Chars(taken))
             THEN Answer(TextOf(taken), Fragments(NoCalls, taken))
             ELSE Fail("invalid")
  /\ UNCHANGED <<response, cancelled, timedOut, at>>

\* The connection breaks, or the read loses the race against the signal: the
\* reader is cancelled when the signal is aborted, and released.
Break ==
  /\ stage = "reading"
  /\ Fail("network")
  /\ reader' = IF cancelled \/ timedOut THEN "cancelled" ELSE "released"
  /\ UNCHANGED <<response, cancelled, timedOut, parsed>>

Cancel ==
  /\ stage # "over" /\ ~cancelled
  /\ cancelled' = TRUE
  /\ UNCHANGED <<response, stage, timedOut, parsed, reader, outcome, reply>>

Sent == {"validating", "fetching", "responded", "reading"}
Timeout ==
  /\ stage \in Sent /\ ~timedOut /\ ~cancelled
  /\ timedOut' = TRUE
  /\ UNCHANGED <<response, stage, cancelled, parsed, reader, outcome, reply>>

HttpNext ==
  \/ \E yes \in BOOLEAN : Call(yes) \/ Transform(yes) \/ Reach(yes)
  \/ Respond \/ EndOfBody \/ Break \/ Cancel \/ Timeout
  \/ \E n \in 1 .. MaxResponse + 1 : Chunk(n)

\* The timer runs, and a read or a request whose signal is aborted is rejected.
Rejected == (cancelled \/ timedOut) /\ (Reach(FALSE) \/ Respond \/ Break)
HttpSpec == HttpInit /\ [][HttpNext]_httpVars
HttpFairSpec == HttpSpec /\ WF_httpVars(Timeout) /\ WF_httpVars(Rejected)

----------------------------------------------------------------------------
\* What a body means, read as a whole: the text as far as it is UTF-8, its lines, the
\* events between blank lines.
Readable(bytes) == CHOOSE n \in 0 .. Len(bytes) :
                     /\ Utf8(SubSeq(bytes, 1, n))
                     /\ \A m \in n + 1 .. Len(bytes) : ~Utf8(SubSeq(bytes, 1, m))
Text(bytes) == Chars(SubSeq(bytes, 1, Readable(bytes)))

Nth(S, k) == CHOOSE i \in S : Cardinality({j \in S : j <= i}) = k
Ends(text) == {i \in DOMAIN text : text[i] = "n"} \union {Len(text) + 1}
Lines(text) ==
  LET ends == Ends(text)
  IN [k \in 1 .. Cardinality(ends) |->
        Chomp(SubSeq(text, (IF k = 1 THEN 0 ELSE Nth(ends, k - 1)) + 1, Nth(ends, k) - 1))]

Blanks(lines) == {k \in DOMAIN lines : lines[k] = <<>>} \union {Len(lines) + 1}
DataLines(lines) == {line \in {lines[k] : k \in DOMAIN lines} : line # <<>> /\ line[1] = "d"}
DataOf(lines, b) ==
  LET blanks == Blanks(lines)
      before == Cardinality({k \in blanks : k < b})
      first == IF before = 0 THEN 1 ELSE Nth(blanks, before) + 1
  IN Pick(SubSeq(lines, first, b - 1), DataLines(lines))
Closes(lines) == {b \in Blanks(lines) : DataOf(lines, b) # <<>>}
Contents(data) == [i \in DOMAIN data |-> Tail(data[i])]
EventsOf(lines) ==
  LET closes == Closes(lines)
  IN [k \in 1 .. Cardinality(closes) |-> Join(Contents(DataOf(lines, Nth(closes, k))))]

UntilDone(events) ==
  IF \E i \in DOMAIN events : events[i] = <<".">>
  THEN SubSeq(events, 1, (CHOOSE i \in DOMAIN events : events[i] = <<".">>
                          /\ \A j \in 1 .. i - 1 : events[j] # <<".">>) - 1)
  ELSE events

Meaning == IF format = "json" THEN <<Text(body)>> ELSE UntilDone(EventsOf(Lines(Text(body))))

Whole(events) == Concat(events, <<>>)
ToolsAsked(text) ==
  LET Of(i, kind) == Pick(text, {ch \in kind : Tools[ch] = i})
  IN [i \in {0, 1} |-> [name |-> Of(i, {"p", "q"}), args |-> Of(i, {"z"})]]

\* The reply is what the body says, however it was cut into chunks: its text and
\* every tool call with its own fragments, lowest index first.
ReplyIsBody ==
  outcome = "ok" =>
    /\ reply.content = TextOf(Whole(Meaning))
    /\ reply.calls = InOrder(ToolsAsked(Whole(Meaning)))

\* In a stream, what onEvent was given is the text so far, and in the end the
\* whole content; a JSON reply gives no tokens.
TokensAreContent ==
  /\ Len(tokens) <= Len(TextOf(Whole(Meaning)))
  /\ tokens = SubSeq(TextOf(Whole(Meaning)), 1, Len(tokens))
  /\ outcome = "ok" => tokens = IF format = "sse" THEN reply.content ELSE <<>>

\* A well-formed body is never refused because of where it was cut.
NoFalseError ==
  outcome = "invalid" =>
    ~(/\ status = "ok" /\ Utf8(body)
      /\ \A i \in DOMAIN Meaning : IsJson(Meaning[i]) /\ Len(Meaning[i]) <= MaxEvent
      /\ Usable(ToolsAsked(Whole(Meaning))))

\* A call that was cancelled reports that, and only one that took too long is
\* reported as timed out.
CauseTold ==
  /\ outcome = "aborted" => cancelled
  /\ outcome = "timeout" => timedOut /\ ~cancelled
  /\ outcome \notin {"none", "ok", "transform"} => (cancelled <=> outcome = "aborted")

\* A reply leaves no body behind: it was read to its end or cancelled.
BodyLetGo == outcome = "ok" => reader \in {"done", "cancelled"}

\* Once the request is on its way the call ends, whatever the server does.
CallEnds == (stage \in Sent) ~> (stage = "over")

\* The outcome of a call is what the server said and the caller did: a body is read as a
\* whole, however it was cut; an error has its cause; and no body is left unread.
ReplyMeant == HttpTypeOK /\ ReplyIsBody /\ TokensAreContent /\ NoFalseError /\ CauseTold /\ BodyLetGo
=============================================================================
