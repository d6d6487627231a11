--------------------------- MODULE Runtime_proofs ---------------------------
(***************************************************************************)
(* Proofs about a run of the runtime: the stream of RuntimeRun, for any    *)
(* tokens, retries, tool calls and size of the queue, and the workers of   *)
(* PluginSandbox, for any number of calls and any limit.                   *)
(***************************************************************************)
EXTENDS RuntimeRun, PluginSandbox, Recursion, SequenceTheorems, TLAPS

-----------------------------------------------------------------------------
(* The bytes that wait in the queue of a run.                              *)

Sums(f, values) ==
  /\ f \in [0 .. Len(values) -> Nat] /\ f[0] = 0
  /\ \A i \in 1 .. Len(values) : f[i] = f[i - 1] + Len(values[i])

LEMMA WaitingExists ==
  ASSUME NEW X, NEW values \in Seq(Seq(X)) PROVE \E f : Sums(f, values)
<1> DEFINE n == Len(values)
           h == [x \in (1 .. n) \X Nat |-> x[2] + Len(values[x[1]])]
<1>1. n \in Nat /\ \A i \in 1 .. n : Len(values[i]) \in Nat
  <2>1. n \in Nat /\ \A i \in 1 .. n : values[i] \in Seq(X)
    BY LenProperties, ElementOfSeq
  <2>. QED  BY <2>1, LenProperties
<1>2. IsStep(h, n, Nat)
  BY <1>1 DEF IsStep
<1>3. PICK f : Follows(f, n, Nat, 0, h)
  <2>. HIDE DEF n, h
  <2>1. n \in Nat
    BY <1>1
  <2>. QED  BY <1>2, <2>1, RecursionExists
<1>4. ASSUME NEW i \in 1 .. n PROVE f[i] = f[i - 1] + Len(values[i])
  <2>1. f[i - 1] \in Nat
    <3>1. i - 1 \in 0 .. n
      BY <1>1
    <3>. HIDE DEF n, h
    <3>. QED  BY <1>3, <3>1 DEF Follows
  <2>2. h[<<i, f[i - 1]>>] = f[i - 1] + Len(values[i])
    BY <2>1
  <2>. QED  BY <1>3, <2>2 DEF Follows
<1>. QED  BY <1>3, <1>4 DEF Sums, Follows

LEMMA WaitingIs ==
  ASSUME NEW values, Len(values) \in Nat, NEW f, Sums(f, values) PROVE Waiting(values) = f[Len(values)]
<1> DEFINE n == Len(values)
           IsSum(g) == g = [i \in 0 .. n |-> IF i = 0 THEN 0 ELSE g[i - 1] + Len(values[i])]
           c == CHOOSE g : IsSum(g)
           S == {i \in 0 .. n : c[i] = f[i]}
<1>1. IsSum(f)
  BY DEF Sums
<1>2. IsSum(c)
  <2>. HIDE DEF IsSum
  <2>. QED  BY <1>1, Zenon
<1>3. Waiting(values) = c[n]
  BY Zenon DEF Waiting
<1>4. n \in Nat /\ 0 \in S
  <2>. HIDE DEF c
  <2>. QED  BY <1>2 DEF Sums
<1>5. ASSUME NEW i \in 0 .. n - 1, i \in S PROVE i + 1 \in S
  <2>1. c[i] = f[i] /\ i + 1 \in 1 .. n /\ i + 1 - 1 = i
    BY <1>5
  <2>2. c[i + 1] = c[i] + Len(values[i + 1])
    <3>. HIDE DEF c
    <3>. QED  BY <1>2, <2>1
  <2>3. f[i + 1] = f[i] + Len(values[i + 1])
    BY <2>1 DEF Sums
  <2>. QED  BY <2>1, <2>2, <2>3
<1>6. 0 .. n \subseteq S
  <2>. HIDE DEF S, n
  <2>. QED  BY <1>4, <1>5, UpTo
<1>. QED  BY <1>3, <1>4, <1>6

LEMMA WaitingEmpty == Waiting(<<>>) = 0
<1>1. Sums([i \in 0 .. 0 |-> 0], <<>>)
  BY DEF Sums
<1>. QED  BY <1>1, WaitingIs

LEMMA WaitingAppend ==
  ASSUME NEW X, NEW values \in Seq(Seq(X)), NEW x \in Seq(X)
  PROVE  Waiting(Append(values, x)) = Waiting(values) + Len(x)
<1> DEFINE n == Len(values)
<1>1. n \in Nat /\ Len(x) \in Nat /\ Len(Append(values, x)) = n + 1
  BY LenProperties
<1>2. PICK f : Sums(f, values)
  BY WaitingExists
<1> DEFINE g == [i \in 0 .. n + 1 |-> IF i = n + 1 THEN f[n] + Len(x) ELSE f[i]]
<1>3. Sums(g, Append(values, x))
  <2>1. g \in [0 .. n + 1 -> Nat] /\ g[0] = 0
    <3>1. f \in [0 .. n -> Nat] /\ f[0] = 0 /\ f[n] + Len(x) \in Nat /\ 0 # n + 1
      BY <1>1, <1>2 DEF Sums
    <3>. HIDE DEF n
    <3>. QED  BY <1>1, <3>1
  <2>2. ASSUME NEW i \in 1 .. n + 1 PROVE g[i] = g[i - 1] + Len(Append(values, x)[i])
    <3>1. CASE i = n + 1
      BY <1>1, <3>1
    <3>2. CASE i # n + 1
      <4>1. i \in 1 .. n /\ i - 1 \in 0 .. n /\ Append(values, x)[i] = values[i]
        BY <1>1, <3>2
      <4>2. g[i] = f[i] /\ g[i - 1] = f[i - 1]
        BY <1>1, <4>1
      <4>. QED  BY <1>2, <4>1, <4>2 DEF Sums
    <3>. QED  BY <3>1, <3>2
  <2>. QED  BY <1>1, <2>1, <2>2 DEF Sums
<1>4. Waiting(Append(values, x)) = g[n + 1]
  <2>1. Len(Append(values, x)) \in Nat
    BY <1>1
  <2>2. Waiting(Append(values, x)) = g[Len(Append(values, x))]
    <3>. HIDE DEF g
    <3>. QED  BY <1>3, <2>1, WaitingIs
  <2>. HIDE DEF g
  <2>. QED  BY <1>1, <2>2, Zenon
<1>5. Waiting(values) = f[n]
  BY <1>1, <1>2, WaitingIs
<1>. QED  BY <1>1, <1>4, <1>5

LEMMA WaitingTail ==
  ASSUME NEW X, NEW values \in Seq(Seq(X)), values # <<>>
  PROVE  Waiting(values) = Len(Head(values)) + Waiting(Tail(values)) /\ Waiting(Tail(values)) \in Nat
<1> DEFINE n == Len(values)
<1>1. /\ n \in Nat \ {0} /\ Tail(values) \in Seq(Seq(X)) /\ Len(Tail(values)) = n - 1
      /\ Head(values) = values[1] /\ Len(values[1]) \in Nat
      /\ \A i \in 1 .. n - 1 : Tail(values)[i] = values[i + 1]
  BY LenProperties, HeadTailProperties, ElementOfSeq
<1>2. PICK f : Sums(f, Tail(values))
  BY <1>1, WaitingExists
<1> DEFINE g == [i \in 0 .. n |-> IF i = 0 THEN 0 ELSE Len(values[1]) + f[i - 1]]
<1>3. Sums(g, values)
  <2>1. g \in [0 .. n -> Nat] /\ g[0] = 0
    BY <1>1, <1>2 DEF Sums
  <2>2. ASSUME NEW i \in 1 .. n PROVE g[i] = g[i - 1] + Len(values[i])
    <3>1. CASE i = 1
      BY <1>1, <1>2, <3>1 DEF Sums
    <3>2. CASE i # 1
      <4>1. i - 1 \in 1 .. n - 1 /\ i - 1 # 0 /\ i - 1 \in 0 .. n /\ i - 2 \in 0 .. n - 1
        BY <1>1, <3>2
      <4>2. f[i - 1] = f[i - 2] + Len(values[i]) /\ f[i - 2] \in Nat /\ f[i - 1] \in Nat
        <5>1. f[i - 1] = f[(i - 1) - 1] + Len(Tail(values)[i - 1])
          BY <1>1, <1>2, <4>1 DEF Sums
        <5>2. (i - 1) - 1 = i - 2 /\ (i - 1) + 1 = i
          BY <4>1
        <5>3. Tail(values)[i - 1] = values[i]
          BY <1>1, <4>1, <5>2
        <5>4. f \in [0 .. n - 1 -> Nat] /\ i - 1 \in 0 .. n - 1
          BY <1>1, <1>2, <4>1 DEF Sums
        <5>. QED  BY <4>1, <5>1, <5>2, <5>3, <5>4
      <4>3. g[i] = Len(values[1]) + f[i - 1] /\ g[i - 1] = Len(values[1]) + f[i - 2]
        BY <1>1, <4>1
      <4>4. Len(values[i]) \in Nat
        BY <1>1, LenProperties, ElementOfSeq
      <4>. QED  BY <1>1, <4>2, <4>3, <4>4
    <3>. QED  BY <3>1, <3>2
  <2>. QED  BY <2>1, <2>2 DEF Sums
<1>4. Waiting(values) = g[n]
  <2>. HIDE DEF g
  <2>. QED  BY <1>1, <1>3, WaitingIs
<1>5. Waiting(Tail(values)) = f[n - 1] /\ f[n - 1] \in Nat
  <2>0. Len(Tail(values)) \in Nat
    BY <1>1, LenProperties
  <2>1. Waiting(Tail(values)) = f[Len(Tail(values))]
    <3>. HIDE DEF n
    <3>. QED  BY <1>2, <2>0, WaitingIs
  <2>2. f[Len(Tail(values))] \in Nat
    <3> DEFINE l == Len(Tail(values))
    <3>1. f \in [0 .. l -> Nat] /\ l \in Nat
      BY <1>2, <2>0, Zenon DEF Sums
    <3>. HIDE DEF l
    <3>2. f[l] \in Nat
      BY <3>1
    <3>. QED  BY <3>2 DEF l
  <2>3. Len(Tail(values)) = n - 1
    BY <1>1
  <2>. HIDE DEF n
  <2>. QED  BY <2>1, <2>2, <2>3
<1>. QED  BY <1>1, <1>4, <1>5

\* The items of the queue: texts, or the one word of an event.
Kinds == {"run-start", "model-start", "model-event", "model-complete", "output-delta", "result", "error",
          "runtime-event"}
Symbols == Tokens \union Kinds
Items == Seq(Symbols)
Queues ==
  [values : Seq(Items), bytes : Nat, waiting : BOOLEAN, got : Items, state : {"open", "closed", "failed"},
   seen : {"items", "done", "error", "left"}, full : BOOLEAN]
QueueOK(q) ==
  /\ q \in Queues /\ q.bytes = Waiting(q.values) /\ q.bytes <= MaxBytes
  /\ q.waiting => q.values = <<>>

\* What a push does to the queue: nothing, hand the item over, refuse it or keep it.
Kept(q, r) ==
  r.state = q.state /\ r.seen = q.seen /\ (q.full => r.full)

Same(q, r) == r = q /\ (q.full \/ q.state # "open")
Handed(q, r, x) ==
  /\ q.waiting /\ ~r.waiting /\ r.got = Got(q.got, x) /\ q.values = <<>> /\ r.values = <<>>
  /\ ~q.full /\ ~r.full
Refused(q, r) == ~q.full /\ r.full /\ r.values = q.values /\ r.got = q.got
Stored(q, r, x) ==
  /\ r.values = Append(q.values, x) /\ r.got = q.got /\ ~q.full /\ ~r.full
  /\ ~q.waiting

LEMMA GotType == ASSUME NEW g \in Items, NEW x \in Items PROVE Got(g, x) \in Items
BY ConcatProperties DEF Got, Items

LEMMA PushCases ==
  ASSUME NEW q, QueueOK(q), NEW x \in Items
  PROVE  /\ QueueOK(Push(q, x)) /\ Kept(q, Push(q, x))
         /\ \/ Same(q, Push(q, x)) \/ Handed(q, Push(q, x), x)
            \/ Refused(q, Push(q, x)) \/ Stored(q, Push(q, x), x)
<1> DEFINE r == Push(q, x)
<1>0. /\ q \in Queues /\ q.bytes = Waiting(q.values) /\ q.bytes <= MaxBytes /\ q.bytes \in Nat
      /\ q.waiting \in BOOLEAN /\ q.full \in BOOLEAN
      /\ q.values \in Seq(Items) /\ q.got \in Items /\ Len(x) \in Nat
      /\ q.waiting => q.values = <<>>
  BY LenProperties DEF QueueOK, Queues, Items
<1>1. CASE q.full \/ q.state # "open"
  <2>1. r = q
    BY <1>1 DEF Push
  <2>. QED  BY <1>1, <2>1 DEF Kept, Same
<1>2. CASE ~(q.full \/ q.state # "open") /\ q.waiting
  <2>1. r = [q EXCEPT !.waiting = FALSE, !.got = Got(@, x)]
    BY <1>2 DEF Push
  <2>2. Got(q.got, x) \in Items
    BY <1>0, GotType
  <2>3. r \in Queues
    <3>. HIDE DEF r
    <3>. QED  BY <1>0, <2>1, <2>2 DEF Queues
  <2>4. /\ r.values = q.values /\ r.bytes = q.bytes /\ ~r.waiting /\ r.got = Got(q.got, x)
        /\ r.state = q.state /\ r.seen = q.seen /\ r.full = q.full
    <3>. HIDE DEF r
    <3>. QED  BY <1>0, <2>1 DEF Queues
  <2>. HIDE DEF r
  <2>5. QueueOK(r)
    BY <1>0, <2>3, <2>4 DEF QueueOK
  <2>6. Kept(q, r) /\ Handed(q, r, x)
    BY <1>0, <1>2, <2>4 DEF Kept, Handed
  <2>. QED  BY <2>5, <2>6 DEF r
<1>3. CASE ~(q.full \/ q.state # "open") /\ ~q.waiting /\ TooMuch(q, x)
  <2>1. r = [q EXCEPT !.full = TRUE]
    BY <1>3 DEF Push
  <2>3. r \in Queues
    <3>. HIDE DEF r
    <3>. QED  BY <1>0, <2>1 DEF Queues
  <2>4. /\ r.values = q.values /\ r.bytes = q.bytes /\ r.waiting = q.waiting /\ r.got = q.got
        /\ r.state = q.state /\ r.seen = q.seen /\ r.full
    <3>. HIDE DEF r
    <3>. QED  BY <1>0, <2>1 DEF Queues
  <2>. HIDE DEF r
  <2>5. QueueOK(r)
    BY <1>0, <2>3, <2>4 DEF QueueOK
  <2>6. Kept(q, r) /\ Refused(q, r)
    BY <1>0, <1>3, <2>4 DEF Kept, Refused
  <2>. QED  BY <2>5, <2>6 DEF r
<1>4. CASE ~(q.full \/ q.state # "open") /\ ~q.waiting /\ ~TooMuch(q, x)
  <2>1. r = [q EXCEPT !.values = Append(@, x), !.bytes = @ + Len(x)]
    BY <1>4 DEF Push
  <2>2. Append(q.values, x) \in Seq(Items) /\ q.bytes + Len(x) \in Nat
    BY <1>0, LenProperties
  <2>3. r \in Queues
    <3>. HIDE DEF r
    <3>. QED  BY <1>0, <2>1, <2>2 DEF Queues
  <2>4. /\ r.values = Append(q.values, x) /\ r.bytes = q.bytes + Len(x) /\ r.waiting = q.waiting
        /\ r.got = q.got /\ r.state = q.state /\ r.seen = q.seen /\ r.full = q.full
    <3>. HIDE DEF r
    <3>. QED  BY <1>0, <2>1 DEF Queues
  <2>5. Waiting(Append(q.values, x)) = q.bytes + Len(x)
    <3>. HIDE DEF r
    <3>. QED  BY <1>0, WaitingAppend DEF Items
  <2>6. q.bytes + Len(x) <= MaxBytes
    BY <1>0, <1>4, RunAssumption DEF TooMuch
  <2>. HIDE DEF r
  <2>7. QueueOK(r)
    BY <1>0, <1>4, <2>3, <2>4, <2>5, <2>6 DEF QueueOK
  <2>8. Kept(q, r) /\ Stored(q, r, x)
    BY <1>0, <1>4, <2>4 DEF Kept, Stored
  <2>. QED  BY <2>7, <2>8 DEF r
<1>. QED  BY <1>0, <1>1, <1>2, <1>3, <1>4

\* What holds of the queue before, and of each push if before it, holds of the queue after.
LEMMA PushAllInduction ==
  ASSUME NEW items \in Seq(Items), QueueOK(queue), NEW S, <<0, queue>> \in S,
         \A i \in 1 .. Len(items) : \A q \in Queues :
           QueueOK(q) /\ <<i - 1, q>> \in S => <<i, Push(q, items[i])>> \in S
  PROVE  QueueOK(PushAll(items)) /\ <<Len(items), PushAll(items)>> \in S
<1> DEFINE n == Len(items)
           Q == {q \in Queues : QueueOK(q)}
           h == [x \in (1 .. n) \X Q |-> Push(x[2], items[x[1]])]
           IsRun(f) == f = [i \in 0 .. n |-> IF i = 0 THEN queue ELSE Push(f[i - 1], items[i])]
           c == CHOOSE f : IsRun(f)
<1>1. n \in Nat /\ queue \in Q
  BY LenProperties DEF QueueOK
<1>2. \A i \in 1 .. n : items[i] \in Items
  BY ElementOfSeq
<1>3. \A i \in 1 .. n : \A q \in Q : Push(q, items[i]) \in Q
  <2>1. ASSUME NEW i \in 1 .. n, NEW q \in Q PROVE QueueOK(Push(q, items[i]))
    BY <1>2, PushCases
  <2>2. \A q : QueueOK(q) => q \in Queues
    BY DEF QueueOK
  <2>. QED  BY <2>1, <2>2
<1>4. IsStep(h, n, Q)
  <2>. HIDE DEF Q
  <2>. QED  BY <1>3 DEF IsStep
<1>5. PICK f : Follows(f, n, Q, queue, h)
  <2>. HIDE DEF n, h, Q
  <2>. QED  BY <1>1, <1>4, RecursionExists
<1>6. \A i \in 1 .. n : f[i - 1] \in Q /\ f[i] = Push(f[i - 1], items[i])
  <2>1. ASSUME NEW i \in 1 .. n PROVE f[i - 1] \in Q /\ f[i] = Push(f[i - 1], items[i])
    <3>1. f[i - 1] \in Q
      <4>1. i - 1 \in 0 .. n
        BY <1>1
      <4>. HIDE DEF n, h, Q
      <4>. QED  BY <1>5, <4>1 DEF Follows
    <3>2. h[<<i, f[i - 1]>>] = Push(f[i - 1], items[i])
      <4>. HIDE DEF Q
      <4>. QED  BY <3>1
    <3>. QED  BY <1>5, <3>1, <3>2 DEF Follows
  <2>. QED  BY <2>1
<1>7. f \in [0 .. n -> Q] /\ f[0] = queue
  <2>. HIDE DEF n, h, Q
  <2>. QED  BY <1>5 DEF Follows
<1>. HIDE DEF Q
<1>8. IsRun(f)
  BY <1>1, <1>6, <1>7
<1>9. IsRun(c)
  <2>. HIDE DEF IsRun
  <2>. QED  BY <1>8, Zenon
<1>10. PushAll(items) = c[n]
  BY Zenon DEF PushAll
<1> DEFINE T == {i \in 0 .. n : c[i] = f[i] /\ <<i, f[i]>> \in S}
<1>11. 0 \in T
  <2>. HIDE DEF c
  <2>1. c[0] = queue /\ 0 \in 0 .. n
    BY <1>1, <1>9
  <2>2. c[0] = f[0] /\ <<0, f[0]>> \in S
    BY <1>7, <2>1
  <2>. QED  BY <2>1, <2>2, Zenon
<1>12. ASSUME NEW i \in 0 .. n - 1, i \in T PROVE i + 1 \in T
  <2>1. c[i] = f[i] /\ <<i, f[i]>> \in S /\ i + 1 \in 1 .. n /\ (i + 1) - 1 = i
    BY <1>12
  <2>2. c[i + 1] = Push(c[i], items[i + 1])
    <3>. HIDE DEF c
    <3>. QED  BY <1>9, <2>1
  <2>3. f[i + 1] = Push(f[i], items[i + 1]) /\ f[i] \in Q
    BY <1>6, <2>1
  <2>4. f[i] \in Queues /\ QueueOK(f[i])
    BY <2>3 DEF Q
  <2>5. <<i + 1, Push(f[i], items[i + 1])>> \in S
    <3>. HIDE DEF c
    <3>. QED  BY <2>1, <2>4
  <2>. HIDE DEF c
  <2>6. c[i + 1] = f[i + 1] /\ <<i + 1, f[i + 1]>> \in S
    BY <2>1, <2>2, <2>3, <2>5
  <2>7. i + 1 \in 0 .. n
    BY <2>1
  <2>. QED  BY <2>6, <2>7, Zenon
<1>13. 0 .. n \subseteq T
  <2>. HIDE DEF T, n
  <2>. QED  BY <1>1, <1>11, <1>12, UpTo
<1>14. c[n] = f[n] /\ <<n, f[n]>> \in S /\ f[n] \in Q
  <2>1. n \in T /\ n \in 0 .. n
    BY <1>1, <1>13
  <2>. HIDE DEF c
  <2>. QED  BY <1>7, <2>1
<1>. HIDE DEF c
<1>. QED  BY <1>10, <1>14 DEF Q

\* What the consumer has got, with what waits for it, makes up the text.
Adds(f, got, values, text) ==
  /\ f \in [0 .. Len(values) -> Items] /\ f[0] = got /\ f[Len(values)] = text
  /\ \A i \in 1 .. Len(values) : f[i] = f[i - 1] \o values[i]
Joins(got, values, text) == \E f : Adds(f, got, values, text)
TextWaits(q, text) == ~q.full => Joins(q.got, q.values, text)

LEMMA JoinedEmpty ==
  ASSUME NEW got \in Items, NEW text PROVE Joins(got, <<>>, text) <=> got = text
<1>1. ASSUME got = text PROVE Adds([i \in 0 .. 0 |-> got], got, <<>>, text)
  BY <1>1 DEF Adds
<1>2. ASSUME NEW f, Adds(f, got, <<>>, text) PROVE got = text
  BY <1>2 DEF Adds
<1>. QED  BY <1>1, <1>2 DEF Joins

LEMMA JoinedAppend ==
  ASSUME NEW got, NEW values \in Seq(Items), NEW text, NEW x \in Items, Joins(got, values, text)
  PROVE  Joins(got, Append(values, x), text \o x)
<1> DEFINE n == Len(values)
           v == Append(values, x)
<1>1. n \in Nat /\ Len(v) = n + 1 /\ v[n + 1] = x /\ \A i \in 1 .. n : v[i] = values[i]
  BY LenProperties
<1>2. PICK f : Adds(f, got, values, text)
  BY DEF Joins
<1> DEFINE g == [i \in 0 .. n + 1 |-> IF i = n + 1 THEN text \o x ELSE f[i]]
<1>3. f \in [0 .. n -> Items] /\ f[0] = got /\ f[n] = text /\ text \in Items
  BY <1>1, <1>2 DEF Adds
<1>4. text \o x \in Items
  BY <1>3, ConcatProperties DEF Items
<1>. HIDE DEF n, v
<1>5. g \in [0 .. n + 1 -> Items] /\ g[0] = got /\ g[n + 1] = text \o x
  BY <1>1, <1>3, <1>4
<1>6. ASSUME NEW i \in 1 .. n + 1 PROVE g[i] = g[i - 1] \o v[i]
  <2>1. CASE i = n + 1
    <3>1. g[i] = text \o x /\ v[i] = x
      BY <1>1, <2>1
    <3>2. i - 1 = n /\ n \in 0 .. n + 1 /\ n # n + 1
      BY <1>1, <2>1
    <3>3. g[i - 1] = text
      BY <1>3, <3>2
    <3>. QED  BY <3>1, <3>3
  <2>2. CASE i # n + 1
    <3>1. i \in 1 .. n /\ i - 1 \in 0 .. n + 1 /\ i - 1 # n + 1
      BY <1>1, <2>2
    <3>2. g[i] = f[i] /\ g[i - 1] = f[i - 1] /\ v[i] = values[i]
      BY <1>1, <3>1
    <3>. QED  BY <1>2, <3>1, <3>2 DEF Adds, n
  <2>. QED  BY <2>1, <2>2
<1>. HIDE DEF g
<1>7. Adds(g, got, v, text \o x)
  BY <1>1, <1>5, <1>6 DEF Adds
<1>. QED  BY <1>7 DEF Joins, v

LEMMA JoinedTail ==
  ASSUME NEW got \in Items, NEW values \in Seq(Items), values # <<>>, NEW text, Joins(got, values, text)
  PROVE  Joins(got \o Head(values), Tail(values), text)
<1> DEFINE n == Len(values)
           v == Tail(values)
<1>1. /\ n \in Nat \ {0} /\ Len(v) = n - 1 /\ Head(values) = values[1]
      /\ \A i \in 1 .. n - 1 : v[i] = values[i + 1]
  BY LenProperties, HeadTailProperties, ElementOfSeq
<1>2. PICK f : Adds(f, got, values, text)
  BY DEF Joins
<1>3. f \in [0 .. n -> Items] /\ f[0] = got /\ f[n] = text
  BY <1>2 DEF Adds
<1>4. \A i \in 1 .. n : f[i] = f[i - 1] \o values[i]
  BY <1>2 DEF Adds
<1>. HIDE DEF n, v
<1> DEFINE g == [i \in 0 .. n - 1 |-> f[i + 1]]
<1>5. g \in [0 .. n - 1 -> Items] /\ g[0] = got \o values[1] /\ g[n - 1] = text
  <2>1. \A i \in 0 .. n - 1 : i + 1 \in 0 .. n
    BY <1>1
  <2>2. g \in [0 .. n - 1 -> Items]
    BY <1>3, <2>1
  <2>3. g[0] = f[1] /\ g[n - 1] = f[n]
    <3>1. 0 \in 0 .. n - 1 /\ n - 1 \in 0 .. n - 1 /\ 0 + 1 = 1 /\ (n - 1) + 1 = n
      BY <1>1
    <3>. QED  BY <3>1
  <2>4. f[1] = got \o values[1]
    <3>1. 1 \in 1 .. n /\ 1 - 1 = 0
      BY <1>1
    <3>2. f[1] = f[1 - 1] \o values[1]
      BY <1>4, <3>1
    <3>. QED  BY <1>3, <3>1, <3>2
  <2>. QED  BY <1>3, <2>2, <2>3, <2>4
<1>6. ASSUME NEW i \in 1 .. n - 1 PROVE g[i] = g[i - 1] \o v[i]
  <2>1. i \in 0 .. n - 1 /\ i - 1 \in 0 .. n - 1 /\ i + 1 \in 1 .. n /\ (i + 1) - 1 = i /\ (i - 1) + 1 = i
    BY <1>1
  <2>2. g[i] = f[i + 1] /\ g[i - 1] = f[i] /\ v[i] = values[i + 1]
    BY <1>1, <2>1
  <2>3. f[i + 1] = f[i] \o values[i + 1]
    BY <1>4, <2>1
  <2>. QED  BY <2>2, <2>3
<1>. HIDE DEF g
<1>7. Adds(g, got \o Head(values), v, text)
  BY <1>1, <1>5, <1>6 DEF Adds
<1>. QED  BY <1>7 DEF Joins, v

LEMMA PushText ==
  ASSUME mode = "text", NEW q, QueueOK(q), q.state = "open", NEW x \in Items, NEW text, TextWaits(q, text)
  PROVE  TextWaits(Push(q, x), text \o x)
<1> DEFINE r == Push(q, x)
<1>1. /\ Kept(q, r)
      /\ Same(q, r) \/ Handed(q, r, x) \/ Refused(q, r) \/ Stored(q, r, x)
  BY PushCases
<1>2. q.got \in Items /\ q.values \in Seq(Items)
  BY DEF QueueOK, Queues
<1>. HIDE DEF r
<1>3. CASE Same(q, r)
  BY <1>3 DEF Same, TextWaits, r
<1>4. CASE Handed(q, r, x)
  <2>1. Joins(q.got, <<>>, text) /\ r.values = <<>> /\ r.got = q.got \o x
    BY <1>4 DEF Handed, TextWaits, Got
  <2>2. q.got = text
    BY <1>2, <2>1, JoinedEmpty
  <2>3. q.got \o x \in Items
    BY <1>2, ConcatProperties DEF Items
  <2>4. Joins(q.got \o x, <<>>, text \o x)
    BY <2>2, <2>3, JoinedEmpty
  <2>. QED  BY <2>1, <2>4 DEF TextWaits, r
<1>5. CASE Refused(q, r)
  BY <1>5 DEF Refused, TextWaits, r
<1>6. CASE Stored(q, r, x)
  <2>1. Joins(q.got, q.values, text) /\ r.values = Append(q.values, x) /\ r.got = q.got
    BY <1>6 DEF Stored, TextWaits
  <2>2. Joins(q.got, Append(q.values, x), text \o x)
    BY <1>2, <2>1, JoinedAppend
  <2>. QED  BY <2>1, <2>2 DEF TextWaits, r
<1>. QED  BY <1>1, <1>3, <1>4, <1>5, <1>6 DEF r

LEMMA PushAllText ==
  ASSUME mode = "text", NEW items \in Seq(Items), QueueOK(queue), queue.state = "open",
         NEW t, TextWaits(queue, t[0]), \A i \in 1 .. Len(items) : t[i] = t[i - 1] \o items[i]
  PROVE  TextWaits(PushAll(items), t[Len(items)])
<1> DEFINE n == Len(items)
           S == {e \in (0 .. n) \X Queues : e[2].state = "open" /\ TextWaits(e[2], t[e[1]])}
<1>1. n \in Nat /\ queue \in Queues /\ \A i \in 1 .. n : items[i] \in Items
  BY LenProperties, ElementOfSeq DEF QueueOK
<1>2. <<0, queue>> \in S
  BY <1>1
<1>3. ASSUME NEW i \in 1 .. n, NEW q \in Queues, QueueOK(q), <<i - 1, q>> \in S
      PROVE  <<i, Push(q, items[i])>> \in S
  <2>1. q.state = "open" /\ TextWaits(q, t[i - 1]) /\ i \in 0 .. n /\ items[i] \in Items
    BY <1>1, <1>3
  <2>2. TextWaits(Push(q, items[i]), t[i - 1] \o items[i])
    BY <1>3, <2>1, PushText
  <2>3. QueueOK(Push(q, items[i])) /\ Kept(q, Push(q, items[i]))
    BY <1>3, <2>1, PushCases
  <2>4. Push(q, items[i]) \in Queues /\ Push(q, items[i]).state = "open"
    BY <2>1, <2>3 DEF QueueOK, Kept
  <2>5. TextWaits(Push(q, items[i]), t[i])
    BY <2>2
  <2>. QED  BY <2>1, <2>4, <2>5
<1>4. <<n, PushAll(items)>> \in S
  <2>. HIDE DEF S
  <2>. QED  BY <1>2, <1>3, PushAllInduction
<1>. QED  BY <1>4

\* What was there before stays; the states of the queue do not change.
LEMMA PushAllKept ==
  ASSUME NEW items \in Seq(Items), QueueOK(queue)
  PROVE  QueueOK(PushAll(items)) /\ Kept(queue, PushAll(items))
<1> DEFINE n == Len(items)
           S == {e \in (0 .. n) \X Queues : Kept(queue, e[2])}
<1>1. n \in Nat /\ queue \in Queues /\ \A i \in 1 .. n : items[i] \in Items
  BY LenProperties, ElementOfSeq DEF QueueOK
<1>2. <<0, queue>> \in S
  BY <1>1 DEF Kept
<1>3. ASSUME NEW i \in 1 .. n, NEW q \in Queues, QueueOK(q), <<i - 1, q>> \in S
      PROVE  <<i, Push(q, items[i])>> \in S
  <2>1. Kept(queue, q) /\ i \in 0 .. n /\ items[i] \in Items
    BY <1>1, <1>3
  <2>2. QueueOK(Push(q, items[i])) /\ Kept(q, Push(q, items[i]))
    BY <1>3, <2>1, PushCases
  <2>3. Push(q, items[i]) \in Queues /\ Kept(queue, Push(q, items[i]))
    BY <2>1, <2>2 DEF QueueOK, Kept
  <2>. QED  BY <2>1, <2>3
<1>4. QueueOK(PushAll(items)) /\ <<n, PushAll(items)>> \in S
  <2>. HIDE DEF S
  <2>. QED  BY <1>2, <1>3, PushAllInduction
<1>. QED  BY <1>4

\* Nothing but logs of plugins follows x, be it the item the consumer got last or one that waits.
Tells(q, x) ==
  \/ q.got = x /\ \A i \in 1 .. Len(q.values) : q.values[i] = Log
  \/ \E i \in 1 .. Len(q.values) : q.values[i] = x /\ \A j \in i + 1 .. Len(q.values) : q.values[j] = Log

LEMMA PushLast ==
  ASSUME mode = "events", NEW q, QueueOK(q), q.state = "open", NEW x \in Items, x # Log
  PROVE  Push(q, x).full \/ Tells(Push(q, x), x)
<1> DEFINE r == Push(q, x)
<1>1. Same(q, r) \/ Handed(q, r, x) \/ Refused(q, r) \/ Stored(q, r, x)
  BY PushCases
<1>2. q.values \in Seq(Items)
  BY DEF QueueOK, Queues
<1>. HIDE DEF r
<1>3. CASE Same(q, r)
  BY <1>3 DEF Same, r
<1>4. CASE Handed(q, r, x)
  <2>1. r.got = x /\ r.values = <<>>
    BY <1>4 DEF Handed, Got
  <2>. QED  BY <2>1 DEF Tells, r
<1>5. CASE Refused(q, r)
  BY <1>5 DEF Refused, r
<1>6. CASE Stored(q, r, x)
  <2>1. r.values = Append(q.values, x)
    BY <1>6 DEF Stored
  <2>2. Len(r.values) \in 1 .. Len(r.values) /\ r.values[Len(r.values)] = x
    BY <1>2, <2>1, LenProperties
  <2>3. \A j \in Len(r.values) + 1 .. Len(r.values) : r.values[j] = Log
    BY <2>2
  <2>. QED  BY <2>2, <2>3 DEF Tells, r
<1>. QED  BY <1>1, <1>3, <1>4, <1>5, <1>6

LEMMA PushAllLast ==
  ASSUME mode = "events", NEW items \in Seq(Items), items # <<>>, QueueOK(queue), queue.state = "open",
         \A i \in 1 .. Len(items) : items[i] # Log
  PROVE  PushAll(items).full \/ Tells(PushAll(items), items[Len(items)])
<1> DEFINE n == Len(items)
           S == {e \in (0 .. n) \X Queues :
                   e[2].state = "open" /\ (e[1] > 0 => e[2].full \/ Tells(e[2], items[e[1]]))}
<1>1. /\ n \in Nat /\ n > 0 /\ queue \in Queues
      /\ \A i \in 1 .. n : items[i] \in Items /\ items[i] # Log
  BY LenProperties, ElementOfSeq, EmptySeq DEF QueueOK
<1>2. <<0, queue>> \in S
  BY <1>1
<1>3. ASSUME NEW i \in 1 .. n, NEW q \in Queues, QueueOK(q), <<i - 1, q>> \in S
      PROVE  <<i, Push(q, items[i])>> \in S
  <2>1. q.state = "open" /\ i \in 0 .. n /\ items[i] \in Items /\ items[i] # Log
    BY <1>1, <1>3
  <2>2. Push(q, items[i]).full \/ Tells(Push(q, items[i]), items[i])
    BY <1>3, <2>1, PushLast
  <2>3. QueueOK(Push(q, items[i])) /\ Kept(q, Push(q, items[i]))
    BY <1>3, <2>1, PushCases
  <2>4. Push(q, items[i]) \in Queues /\ Push(q, items[i]).state = "open"
    BY <2>1, <2>3 DEF QueueOK, Kept
  <2>. QED  BY <2>1, <2>2, <2>4
<1>4. <<n, PushAll(items)>> \in S
  <2>. HIDE DEF S
  <2>. QED  BY <1>2, <1>3, PushAllInduction
<1>. QED  BY <1>1, <1>4

LEMMA LogIsItem == Log \in Items
BY DEF Log, Items, Symbols, Kinds

\* A log of a plugin, handed over, kept or refused, does not hide what was said before it.
LEMMA PushLog ==
  ASSUME mode = "events", NEW q, QueueOK(q), NEW x, Tells(q, x)
  PROVE  Tells(Push(q, Log), x)
<1> DEFINE r == Push(q, Log)
<1>1. Same(q, r) \/ Handed(q, r, Log) \/ Refused(q, r) \/ Stored(q, r, Log)
  BY PushCases, LogIsItem
<1>2. q.values \in Seq(Items)
  BY DEF QueueOK, Queues
<1>. HIDE DEF r
<1>3. CASE Same(q, r)
  BY <1>3 DEF Same, r
<1>4. CASE Handed(q, r, Log)
  <2>1. r.got = q.got /\ r.values = q.values
    BY <1>4 DEF Handed, Got
  <2>. QED  BY <2>1 DEF Tells, r
<1>5. CASE Refused(q, r)
  BY <1>5 DEF Refused, Tells, r
<1>6. CASE Stored(q, r, Log)
  <2> DEFINE n == Len(q.values)
  <2>1. r.values = Append(q.values, Log) /\ r.got = q.got
    BY <1>6 DEF Stored
  <2>2. /\ n \in Nat /\ Len(r.values) = n + 1 /\ r.values[n + 1] = Log
        /\ \A i \in 1 .. n : r.values[i] = q.values[i]
    BY <1>2, <2>1, LenProperties, LogIsItem
  <2>3. CASE q.got = x /\ \A i \in 1 .. n : q.values[i] = Log
    <3>1. \A i \in 1 .. n + 1 : r.values[i] = Log
      BY <2>2, <2>3
    <3>. QED  BY <2>1, <2>2, <2>3, <3>1 DEF Tells, r
  <2>4. ASSUME NEW i \in 1 .. n, q.values[i] = x, \A j \in i + 1 .. n : q.values[j] = Log
        PROVE  Tells(r, x)
    <3>1. i \in 1 .. n + 1 /\ r.values[i] = x
      BY <2>2, <2>4
    <3>2. \A j \in i + 1 .. n + 1 : r.values[j] = Log
      BY <2>2, <2>4
    <3>. QED  BY <2>2, <3>1, <3>2 DEF Tells
  <2>. QED  BY <2>3, <2>4 DEF Tells, r
<1>. QED  BY <1>1, <1>3, <1>4, <1>5, <1>6

LEMMA PushAllLogs ==
  ASSUME mode = "events", NEW items \in Seq(Items), QueueOK(queue),
         \A i \in 1 .. Len(items) : items[i] = Log, NEW x, Tells(queue, x)
  PROVE  Tells(PushAll(items), x)
<1> DEFINE n == Len(items)
           S == {e \in (0 .. n) \X Queues : Tells(e[2], x)}
<1>1. n \in Nat /\ queue \in Queues
  BY LenProperties DEF QueueOK
<1>2. <<0, queue>> \in S
  BY <1>1
<1>3. ASSUME NEW i \in 1 .. n, NEW q \in Queues, QueueOK(q), <<i - 1, q>> \in S
      PROVE  <<i, Push(q, items[i])>> \in S
  <2>1. Tells(q, x) /\ i \in 0 .. n /\ items[i] = Log
    BY <1>1, <1>3
  <2>2. Tells(Push(q, items[i]), x)
    BY <1>3, <2>1, PushLog
  <2>3. Push(q, items[i]) \in Queues
    BY <1>3, <2>1, PushCases, LogIsItem DEF QueueOK
  <2>. QED  BY <2>1, <2>2, <2>3
<1>4. <<n, PushAll(items)>> \in S
  <2>. HIDE DEF S
  <2>. QED  BY <1>2, <1>3, PushAllInduction
<1>. QED  BY <1>4

\* Nor does taking the first of the items that wait.
LEMMA TakeTells ==
  ASSUME mode = "events", NEW q, q.values \in Seq(Items), q.values # <<>>, NEW x, x # Log, Tells(q, x),
         NEW r, r.values = Tail(q.values), r.got = Got(q.got, Head(q.values))
  PROVE  Tells(r, x)
<1> DEFINE n == Len(q.values)
           v == Tail(q.values)
<1>1. /\ n \in Nat \ {0} /\ Len(v) = n - 1 /\ Head(q.values) = q.values[1]
      /\ \A i \in 1 .. n - 1 : v[i] = q.values[i + 1]
  BY LenProperties, HeadTailProperties, ElementOfSeq
<1>2. r.got = IF q.values[1] = Log THEN q.got ELSE q.values[1]
  BY <1>1 DEF Got
<1>. HIDE DEF n, v
<1>3. CASE q.got = x /\ \A i \in 1 .. n : q.values[i] = Log
  <2>1. \A i \in 1 .. n - 1 : v[i] = Log
    BY <1>1, <1>3
  <2>2. r.got = x
    BY <1>1, <1>2, <1>3
  <2>. QED  BY <1>1, <2>1, <2>2 DEF Tells, v
<1>4. ASSUME NEW i \in 1 .. n, q.values[i] = x, \A j \in i + 1 .. n : q.values[j] = Log
      PROVE  Tells(r, x)
  <2>1. CASE i = 1
    <3>1. r.got = x
      BY <1>2, <1>4, <2>1
    <3>2. \A j \in 1 .. n - 1 : v[j] = Log
      BY <1>1, <1>4, <2>1
    <3>. QED  BY <1>1, <3>1, <3>2 DEF Tells, v
  <2>2. CASE i # 1
    <3>1. i - 1 \in 1 .. n - 1 /\ v[i - 1] = x
      BY <1>1, <1>4, <2>2
    <3>2. \A j \in (i - 1) + 1 .. n - 1 : v[j] = Log
      BY <1>1, <1>4
    <3>. QED  BY <1>1, <3>1, <3>2 DEF Tells, v
  <2>. QED  BY <2>1, <2>2
<1>. QED  BY <1>3, <1>4 DEF Tells, n

-----------------------------------------------------------------------------
(* The items of each publication.                                          *)

LEMMA TokensAreItems == Seq(Tokens) \subseteq Items
<1>. SUFFICES ASSUME NEW s \in Seq(Tokens) PROVE s \in Seq(Symbols)
  BY DEF Items
<1>1. Len(s) \in Nat /\ s \in [1 .. Len(s) -> Tokens]
  BY LenProperties
<1>2. s \in [1 .. Len(s) -> Symbols]
  BY <1>1 DEF Symbols
<1>. QED  BY <1>1, <1>2

LEMMA EventItems ==
  ASSUME NEW type \in Kinds
  PROVE  /\ Event(type) \in Seq(Items)
         /\ mode = "text" => Event(type) = <<>>
         /\ mode = "events" /\ enabled => Event(type) = << <<type>> >>
<1>1. <<type>> \in Items
  BY DEF Items, Symbols
<1>2. << <<type>> >> \in Seq(Items) /\ <<>> \in Seq(Items)
  BY <1>1
<1>. QED  BY <1>2 DEF Event

LEMMA DeltaItems ==
  ASSUME NEW texts \in Seq(Items), mode \in {"text", "events"}
  PROVE  Deltas(texts) \in Seq(Items) /\ (mode = "text" => Deltas(texts) = texts)
<1>1. CASE mode = "text"
  BY <1>1 DEF Deltas
<1>2. CASE mode = "events" /\ ~enabled
  BY <1>2 DEF Deltas
<1>3. CASE mode = "events" /\ enabled
  <2>1. <<"output-delta">> \in Items
    BY DEF Items, Symbols, Kinds
  <2>2. Deltas(texts) = [i \in 1 .. Len(texts) |-> <<"output-delta">>]
    BY <1>3, <2>1, LenProperties DEF Deltas
  <2>3. Len(texts) \in Nat
    BY LenProperties
  <2>. HIDE DEF Items
  <2>4. [i \in 1 .. Len(texts) |-> <<"output-delta">>] \in Seq(Items)
    BY <2>1, <2>3
  <2>. QED  BY <1>3, <2>2, <2>4
<1>. QED  BY <1>1, <1>2, <1>3

LEMMA PiecesItems ==
  ASSUME NEW u \in Seq(Tokens)
  PROVE  /\ Pieces(u) \in Seq(Items) /\ Len(Pieces(u)) = Len(u)
         /\ \A i \in 1 .. Len(u) : Pieces(u)[i] = <<u[i]>>
<1>1. Len(u) \in Nat /\ DOMAIN u = 1 .. Len(u) /\ \A i \in 1 .. Len(u) : u[i] \in Tokens
  BY LenProperties, ElementOfSeq
<1>2. \A i \in 1 .. Len(u) : <<u[i]>> \in Items
  BY <1>1 DEF Items, Symbols
<1>3. Pieces(u) = [i \in 1 .. Len(u) |-> <<u[i]>>]
  BY <1>1, Zenon DEF Pieces
<1>4. [i \in 1 .. Len(u) |-> <<u[i]>>] \in [1 .. Len(u) -> Items]
  BY <1>2
<1>5. Pieces(u) \in Seq(Items)
  <2> DEFINE n == Len(u)
             p == Pieces(u)
  <2>1. n \in Nat /\ p \in [1 .. n -> Items]
    BY <1>1, <1>3, <1>4
  <2>. HIDE DEF n, p
  <2>2. p \in Seq(Items)
    BY <2>1
  <2>. QED  BY <2>2 DEF p
<1>6. Len(Pieces(u)) = Len(u)
  BY <1>1, <1>3
<1>. QED  BY <1>3, <1>5, <1>6

LEMMA JoinedOne ==
  ASSUME NEW s \in Items, NEW x \in Items PROVE Joins(s, <<x>>, s \o x)
<1>1. Joins(s, <<>>, s)
  BY JoinedEmpty
<1>2. Joins(s, Append(<<>>, x), s \o x)
  <2>1. <<>> \in Seq(Items)
    OBVIOUS
  <2>. QED  BY <1>1, <2>1, JoinedAppend
<1>3. Append(<<>>, x) = <<x>>
  OBVIOUS
<1>. QED  BY <1>2, <1>3

LEMMA ThreeTexts ==
  ASSUME NEW a \in Seq(Tokens), NEW b \in Seq(Tokens), NEW c \in Seq(Tokens)
  PROVE  (a \o b) \o c = a \o (b \o c)
BY ConcatAssociative

LEMMA JoinedPieces ==
  ASSUME NEW s \in Seq(Tokens), NEW u \in Seq(Tokens) PROVE Joins(s, Pieces(u), s \o u)
<1> DEFINE n == Len(u)
           t == [i \in 0 .. n |-> s \o SubSeq(u, 1, i)]
<1>1. n \in Nat /\ \A i \in 1 .. n : u[i] \in Tokens /\ <<u[i]>> \in Seq(Tokens)
  BY LenProperties, ElementOfSeq
<1>2. ASSUME NEW i \in 0 .. n PROVE SubSeq(u, 1, i) \in Seq(Tokens)
  <2>1. \A j \in 1 .. i : u[j] \in Tokens
    BY <1>1
  <2>. QED  BY <2>1, SubSeqProperties
<1>3. t \in [0 .. n -> Items]
  <2>1. \A i \in 0 .. n : s \o SubSeq(u, 1, i) \in Items
    BY <1>2, ConcatProperties, TokensAreItems
  <2>. HIDE DEF n
  <2>. QED  BY <2>1
<1>4. t[0] = s
  <2>1. SubSeq(u, 1, 0) = <<>> /\ s \o <<>> = s
    BY SubSeqEmpty, ConcatEmptySeq
  <2>2. t[0] = s \o SubSeq(u, 1, 0)
    BY <1>1
  <2>. HIDE DEF t
  <2>. QED  BY <2>1, <2>2
<1>5. t[n] = s \o u
  <2>1. SubSeq(u, 1, n) = u
    BY SubSeqFull
  <2>2. t[n] = s \o SubSeq(u, 1, n)
    BY <1>1
  <2>. QED  BY <2>1, <2>2
<1>6. ASSUME NEW i \in 1 .. n PROVE t[i] = t[i - 1] \o Pieces(u)[i]
  <2>1. SubSeq(u, 1, i) = SubSeq(u, 1, i - 1) \o <<u[i]>>
    <3>1. 1 \in 1 .. Len(u) /\ i \in 1 .. Len(u)
      BY <1>1
    <3>. QED  BY <3>1, SubSeqRecursiveSecond
  <2>2. i - 1 \in 0 .. n /\ i \in 0 .. n
    BY <1>1
  <2>3. (s \o SubSeq(u, 1, i - 1)) \o <<u[i]>> = s \o (SubSeq(u, 1, i - 1) \o <<u[i]>>)
    <3>1. SubSeq(u, 1, i - 1) \in Seq(Tokens) /\ <<u[i]>> \in Seq(Tokens)
      BY <1>1, <1>2, <2>2
    <3>. QED  BY <3>1, ThreeTexts
  <2>4. t[i] = s \o SubSeq(u, 1, i) /\ t[i - 1] = s \o SubSeq(u, 1, i - 1)
    BY <2>2
  <2>5. Pieces(u)[i] = <<u[i]>>
    BY PiecesItems
  <2>. HIDE DEF t
  <2>. QED  BY <2>1, <2>3, <2>4, <2>5
<1>. HIDE DEF t
<1>7. Adds(t, s, Pieces(u), s \o u)
  BY <1>3, <1>4, <1>5, <1>6, PiecesItems DEF Adds
<1>. QED  BY <1>7 DEF Joins

\* What the rest of the answer adds to its prefix is the answer.
LEMMA RestCompletes ==
  ASSUME NEW s \in Seq(Tokens), NEW u \in Seq(Tokens), Prefix(s, u)
  PROVE  /\ SubSeq(u, Len(s) + 1, Len(u)) \in Seq(Tokens)
         /\ s \o SubSeq(u, Len(s) + 1, Len(u)) = u
<1>1. Len(s) \in Nat /\ Len(u) \in Nat /\ Len(s) <= Len(u) /\ s = SubSeq(u, 1, Len(s))
      /\ \A i \in 1 .. Len(u) : u[i] \in Tokens
  BY LenProperties, ElementOfSeq DEF Prefix
<1>2. SubSeq(u, 1, Len(s)) \o SubSeq(u, Len(s) + 1, Len(u)) = SubSeq(u, 1, Len(u))
  <2>1. 1 \in 1 .. Len(u) + 1 /\ Len(s) \in 1 - 1 .. Len(u) /\ Len(u) \in Len(s) .. Len(u)
    BY <1>1
  <2>. QED  BY <2>1, ConcatAdjacentSubSeq
<1>3. SubSeq(u, 1, Len(u)) = u
  BY SubSeqFull
<1>4. SubSeq(u, Len(s) + 1, Len(u)) \in Seq(Tokens)
  <2>1. \A i \in Len(s) + 1 .. Len(u) : u[i] \in Tokens
    BY <1>1
  <2>2. Len(s) + 1 \in Int /\ Len(u) \in Int
    BY <1>1
  <2>. QED  BY <2>1, <2>2, SubSeqProperties
<1>. QED  BY <1>1, <1>2, <1>3, <1>4, Zenon

-----------------------------------------------------------------------------
(* The inductive invariant.                                                *)

Flow == InFlow \union {"created", "starting", "completing"}
Ok == {"closing", "settled", "ended"}

\* Until the flow has ended it has not failed.  A full queue has silenced the publisher and
\* aborted the run; in text mode, where no plugin writes to the stream, it has failed it.
PathInv ==
  /\ pc \in Flow => failure = "none"
  /\ enabled <=> ~queue.full
  /\ queue.full => aborted # "no" /\ (mode = "text" => failure = "overflow")
  /\ pc \in {"throwing", "failing"} => failure \notin {"none", "ok"}
  /\ pc \in Ok => failure # "none"
  /\ queue.state = "open" <=> pc # "ended"
  /\ queue.seen \in {"done", "error"} => queue.values = <<>> /\ pc = "ended"
  /\ queue.seen = "done" => queue.state = "closed"
  /\ queue.state = "closed" => failure = "ok" \/ mode = "events"

\* A call that may ask for tools has an iteration left, and an answered node its answer.
CallInv ==
  /\ pc = "calling" /\ call = "asking" => calls < MaxCalls
  /\ pc = "answered" => answer \in Seq(Tokens)
  /\ pc = "completing" \/ failure = "ok" => emitted = answer

TextInv == mode = "text" => TextWaits(queue, emitted)

LastInv ==
  mode = "events" =>
    /\ pc = "completing" \/ failure = "ok" => Tells(queue, <<"result">>)
    /\ pc \in Ok \union {"failing"} /\ failure # "ok" /\ ~queue.full => Tells(queue, <<"error">>)

\* In a first attempt of a skill the text let out is what the call under way has said.
FirstInv ==
  attempt = 1 /\ node # "agent" =>
    /\ pc # "tool" /\ call # "sub"
    /\ pc \in {"created", "starting", "input", "node"} => emitted = <<>>
    /\ pc = "calling" => emitted = IF call = "asking" THEN <<>> ELSE said
    /\ pc = "answered" => Prefix(emitted, answer)

ControlOK ==
  /\ mode \in Modes /\ node \in Nodes /\ pc \in Pcs
  /\ aborted \in {"no", "aborted", "overflow"} /\ enabled \in BOOLEAN
  /\ emitted \in Seq(Tokens) /\ said \in Seq(Tokens)
  /\ call \in {"none", "forced", "asking", "sub"}
  /\ calls \in 0 .. MaxCalls /\ attempt \in 1 .. MaxAttempts[node]
  /\ form \in {"fresh", "refused"} /\ answer \in Seq(Tokens) \union {NoText}
  /\ failure \in Failures

RunInv ==
  ControlOK /\ QueueOK(queue) /\ PathInv /\ CallInv /\ TextInv /\ LastInv /\ FirstInv /\ MismatchExplained

LEMMA RunInvInit == RunInit => RunInv
<1>. SUFFICES ASSUME RunInit PROVE RunInv
  OBVIOUS
<1>. USE DEF RunInit
<1>1. ControlOK
  <2>1. MaxAttempts[node] \in Nat \ {0} /\ MaxCalls \in Nat
    BY RunAssumption
  <2>. QED  BY <2>1 DEF ControlOK, Pcs, Failures
<1>2. queue \in Queues
  BY DEF Queues, Items
<1>3. QueueOK(queue)
  BY <1>2, WaitingEmpty, RunAssumption DEF QueueOK
<1>4. PathInv
  BY DEF PathInv, Flow, Ok, InFlow
<1>5. CallInv /\ LastInv /\ FirstInv /\ MismatchExplained
  BY DEF CallInv, LastInv, FirstInv, MismatchExplained, Ok
<1>6. Joins(<<>>, <<>>, <<>>)
  <2>1. <<>> \in Items
    BY DEF Items
  <2>. QED  BY <2>1, JoinedEmpty
<1>7. TextInv
  BY <1>6 DEF TextInv, TextWaits
<1>. QED  BY <1>1, <1>3, <1>4, <1>5, <1>7 DEF RunInv

\* Whatever leaves the queue and the text alone.
LEMMA StillText ==
  ASSUME RunInv, UNCHANGED <<queue, mode, emitted>> PROVE QueueOK(queue)' /\ TextInv'
BY DEF RunInv, QueueOK, TextInv, TextWaits

LEMMA RendererStartKeeps == ASSUME RunInv, RendererStart PROVE RunInv'
<1>. USE DEF RendererStart, Throw, flowVars
<1>1. ControlOK'
  BY DEF RunInv, ControlOK, Pcs, InFlow, Over, Failures
<1>2. QueueOK(queue)' /\ TextInv'
  BY StillText
<1>3. PathInv'
  BY DEF RunInv, PathInv, Flow, InFlow, Ok
<1>4. CallInv'
  BY DEF RunInv, CallInv, PathInv, Flow, InFlow
<1>5. LastInv'
  BY DEF RunInv, LastInv, PathInv, Flow, InFlow, Ok
<1>6. FirstInv'
  BY DEF RunInv, FirstInv, InFlow, ControlOK
<1>7. MismatchExplained'
  BY DEF RunInv, MismatchExplained, ControlOK
<1>. QED  BY <1>1, <1>2, <1>3, <1>4, <1>5, <1>6, <1>7 DEF RunInv

LEMMA SubmitKeeps == ASSUME RunInv, NEW valid \in BOOLEAN, Submit(valid) PROVE RunInv'
<1>. USE DEF Submit, flowVars
<1>1. ControlOK'
  BY DEF RunInv, ControlOK, Pcs, InFlow, Over, Failures
<1>2. QueueOK(queue)' /\ TextInv'
  BY StillText
<1>3. PathInv'
  BY DEF RunInv, PathInv, Flow, InFlow, Ok
<1>4. CallInv'
  BY DEF RunInv, CallInv, PathInv, Flow, InFlow
<1>5. LastInv'
  BY DEF RunInv, LastInv, PathInv, Flow, InFlow, Ok
<1>6. FirstInv'
  BY DEF RunInv, FirstInv, InFlow, ControlOK
<1>7. MismatchExplained'
  BY DEF RunInv, MismatchExplained, ControlOK
<1>. QED  BY <1>1, <1>2, <1>3, <1>4, <1>5, <1>6, <1>7 DEF RunInv

LEMMA PluginToolKeeps == ASSUME RunInv, PluginTool PROVE RunInv'
<1>. USE DEF PluginTool, flowVars
<1>1. ControlOK'
  BY DEF RunInv, ControlOK, Pcs, InFlow, Over, Failures
<1>2. QueueOK(queue)' /\ TextInv'
  BY StillText
<1>3. PathInv'
  BY DEF RunInv, PathInv, Flow, InFlow, Ok
<1>4. CallInv'
  BY DEF RunInv, CallInv, PathInv, Flow, InFlow
<1>5. LastInv'
  BY DEF RunInv, LastInv, PathInv, Flow, InFlow, Ok
<1>6. FirstInv'
  BY DEF RunInv, FirstInv, InFlow, ControlOK
<1>7. MismatchExplained'
  BY DEF RunInv, MismatchExplained, ControlOK
<1>. QED  BY <1>1, <1>2, <1>3, <1>4, <1>5, <1>6, <1>7 DEF RunInv

LEMMA AttemptFailsKeeps == ASSUME RunInv, AttemptFails PROVE RunInv'
<1>. USE DEF AttemptFails, Throw, flowVars
<1>1. ControlOK'
  <2>1. MaxAttempts[node] \in Nat /\ MaxCalls \in Nat
    BY RunAssumption DEF RunInv, ControlOK
  <2>2. attempt' \in 1 .. MaxAttempts[node] /\ calls' \in 0 .. MaxCalls /\ said' \in Seq(Tokens)
    BY <2>1 DEF RunInv, ControlOK
  <2>3. pc' \in Pcs /\ failure' \in Failures
    BY DEF RunInv, ControlOK, Pcs, InFlow, Failures
  <2>. QED  BY <2>2, <2>3 DEF RunInv, ControlOK
<1>2. QueueOK(queue)' /\ TextInv'
  BY StillText
<1>3. PathInv'
  BY DEF RunInv, PathInv, Flow, InFlow, Ok
<1>4. CallInv'
  BY DEF RunInv, CallInv, PathInv, Flow, InFlow
<1>5. LastInv'
  BY DEF RunInv, LastInv, PathInv, Flow, InFlow, Ok
<1>6. FirstInv'
  BY DEF RunInv, FirstInv, InFlow, ControlOK
<1>7. MismatchExplained'
  BY DEF RunInv, MismatchExplained, ControlOK
<1>. QED  BY <1>1, <1>2, <1>3, <1>4, <1>5, <1>6, <1>7 DEF RunInv

LEMMA FlowAbortedKeeps == ASSUME RunInv, FlowAborted PROVE RunInv'
<1>. USE DEF FlowAborted, Throw, Interrupted, flowVars
<1>1. ControlOK'
  BY DEF RunInv, ControlOK, Pcs, InFlow, Over, Failures
<1>2. QueueOK(queue)' /\ TextInv'
  BY StillText
<1>3. PathInv'
  BY DEF RunInv, PathInv, Flow, InFlow, Ok
<1>4. CallInv'
  BY DEF RunInv, CallInv, PathInv, Flow, InFlow
<1>5. LastInv'
  BY DEF RunInv, LastInv, PathInv, Flow, InFlow, Ok
<1>6. FirstInv'
  BY DEF RunInv, FirstInv, InFlow, ControlOK
<1>7. MismatchExplained'
  BY DEF RunInv, MismatchExplained, ControlOK
<1>. QED  BY <1>1, <1>2, <1>3, <1>4, <1>5, <1>6, <1>7 DEF RunInv

LEMMA RendererCompleteKeeps == ASSUME RunInv, RendererComplete PROVE RunInv'
<1>. USE DEF RendererComplete, Throw, flowVars
<1>1. ControlOK'
  BY DEF RunInv, ControlOK, Pcs, InFlow, Over, Failures
<1>2. QueueOK(queue)' /\ TextInv'
  BY StillText
<1>3. PathInv'
  BY DEF RunInv, PathInv, Flow, InFlow, Ok
<1>4. CallInv'
  BY DEF RunInv, CallInv, PathInv, Flow, InFlow
<1>5. LastInv'
  BY DEF RunInv, LastInv, PathInv, Flow, InFlow, Ok
<1>6. FirstInv'
  BY DEF RunInv, FirstInv, InFlow, ControlOK
<1>7. MismatchExplained'
  BY DEF RunInv, MismatchExplained, ControlOK
<1>. QED  BY <1>1, <1>2, <1>3, <1>4, <1>5, <1>6, <1>7 DEF RunInv

LEMMA FinishKeeps == ASSUME RunInv, Finish PROVE RunInv'
<1>. USE DEF Finish, flowVars
<1>1. ControlOK'
  BY DEF RunInv, ControlOK, Pcs, InFlow, Over, Failures
<1>2. QueueOK(queue)' /\ TextInv'
  BY StillText
<1>3. PathInv'
  BY DEF RunInv, PathInv, Flow, InFlow, Ok
<1>4. CallInv'
  BY DEF RunInv, CallInv, PathInv, Flow, InFlow
<1>5. LastInv'
  BY DEF RunInv, LastInv, PathInv, Flow, InFlow, Ok
<1>6. FirstInv'
  BY DEF RunInv, FirstInv, InFlow, ControlOK
<1>7. MismatchExplained'
  BY DEF RunInv, MismatchExplained, ControlOK
<1>. QED  BY <1>1, <1>2, <1>3, <1>4, <1>5, <1>6, <1>7 DEF RunInv

\* A publication ends in the step after it, or in a queue that it has filled.
Outcome(next) ==
  \/ pc' = next /\ failure' = "none" /\ (queue.full \/ ~queue.full')
  \/ pc' = "throwing" /\ failure' = "overflow"

LEMMA PublishKeeps ==
  ASSUME RunInv, pc \in Flow, NEW items \in Seq(Items), NEW next \in Flow, Publish(items, next), mode' = mode
  PROVE  /\ queue' = PushAll(items) /\ QueueOK(queue)' /\ PathInv' /\ Outcome(next)
         /\ aborted' \in {"no", "aborted", "overflow"} /\ enabled' \in BOOLEAN
         /\ pc' \in Pcs /\ failure' \in Failures
<1>1. QueueOK(queue) /\ PathInv
  BY DEF RunInv
<1>2. /\ queue' = PushAll(items) /\ QueueOK(PushAll(items)) /\ Kept(queue, PushAll(items))
  BY <1>1, PushAllKept DEF Publish
<1>3. QueueOK(queue)'
  BY <1>2 DEF QueueOK
<1>4. queue.full \in BOOLEAN /\ queue'.full \in BOOLEAN
  BY <1>1, <1>2 DEF QueueOK, Queues
<1>5. /\ failure = "none" /\ pc # "ended" /\ queue.state = "open"
      /\ queue.full => aborted # "no" /\ mode # "text"
      /\ queue.seen \notin {"done", "error"}
  BY <1>1 DEF PathInv, Flow, InFlow
<1>6. queue'.state = "open" /\ queue'.seen = queue.seen /\ (queue.full => queue'.full)
  BY <1>2, <1>5 DEF Kept
<1>7. CASE queue'.full /\ ~queue.full
  <2>1. /\ aborted' = IF aborted = "no" THEN "overflow" ELSE aborted
        /\ enabled' = FALSE /\ failure' = "overflow" /\ pc' = "throwing"
    BY <1>2, <1>5, <1>7 DEF Publish
  <2>2. PathInv'
    BY <1>5, <1>6, <1>7, <2>1 DEF PathInv, Flow, InFlow, Ok
  <2>3. aborted' \in {"no", "aborted", "overflow"}
    BY <2>1 DEF RunInv, ControlOK
  <2>. QED  BY <1>2, <1>3, <2>1, <2>2, <2>3 DEF Outcome, Pcs, Failures
<1>8. CASE ~(queue'.full /\ ~queue.full)
  <2>1. UNCHANGED <<aborted, enabled, failure>> /\ pc' = next
    BY <1>2, <1>8 DEF Publish
  <2>2. PathInv'
    BY <1>1, <1>4, <1>5, <1>6, <1>8, <2>1 DEF PathInv, Flow, InFlow, Ok
  <2>3. aborted' \in {"no", "aborted", "overflow"} /\ enabled' \in BOOLEAN
    BY <2>1 DEF RunInv, ControlOK
  <2>4. pc' \in Pcs /\ failure' \in Failures
    BY <1>5, <2>1 DEF Pcs, Failures, Flow, InFlow
  <2>. QED  BY <1>2, <1>3, <1>5, <1>8, <2>1, <2>2, <2>3, <2>4 DEF Outcome
<1>. QED  BY <1>4, <1>7, <1>8

\* What was let out is what the items add to the text.
LEMMA ItemsText ==
  ASSUME RunInv, pc # "ended", NEW items \in Seq(Items), queue' = PushAll(items), mode' = mode,
         mode = "text" => Joins(emitted, items, emitted')
  PROVE  TextInv'
<1>. SUFFICES ASSUME mode = "text" PROVE TextWaits(queue', emitted')
  BY DEF TextInv, TextWaits
<1>1. QueueOK(queue) /\ queue.state = "open" /\ TextWaits(queue, emitted)
  BY DEF RunInv, PathInv, TextInv
<1>2. PICK t : Adds(t, emitted, items, emitted')
  BY DEF Joins
<1>3. /\ TextWaits(queue, t[0]) /\ t[Len(items)] = emitted'
      /\ \A i \in 1 .. Len(items) : t[i] = t[i - 1] \o items[i]
  BY <1>1, <1>2 DEF Adds
<1>4. TextWaits(PushAll(items), t[Len(items)])
  BY <1>1, <1>3, PushAllText
<1>. QED  BY <1>3, <1>4

LEMMA PublishText ==
  ASSUME RunInv, pc \in Flow, NEW items \in Seq(Items), queue' = PushAll(items), mode' = mode,
         mode = "text" => Joins(emitted, items, emitted')
  PROVE  TextInv'
<1>1. pc # "ended"
  BY DEF Flow, InFlow
<1>. QED  BY <1>1, ItemsText

\* An event is no text, and the flow goes on as long as it has not failed.
LEMMA InFlowFacts ==
  ASSUME RunInv, pc \in Flow
  PROVE  /\ mode \in {"text", "events"} /\ failure = "none"
         /\ emitted \in Seq(Tokens) /\ emitted \in Items /\ said \in Seq(Tokens)
BY TokensAreItems, RunAssumption DEF RunInv, ControlOK, PathInv

LEMMA NoTextAdded == ASSUME NEW s \in Items PROVE Joins(s, <<>>, s)
BY JoinedEmpty

LEMMA EventKeeps ==
  ASSUME RunInv, pc \in Flow, NEW type \in Kinds, NEW next \in Flow, Publish(Event(type), next),
         UNCHANGED <<mode, emitted>>
  PROVE  /\ QueueOK(queue)' /\ PathInv' /\ TextInv' /\ Outcome(next)
         /\ aborted' \in {"no", "aborted", "overflow"} /\ enabled' \in BOOLEAN
         /\ pc' \in Pcs /\ failure' \in Failures
<1>1. Event(type) \in Seq(Items) /\ (mode = "text" => Event(type) = <<>>)
  BY EventItems
<1>2. emitted \in Items
  BY InFlowFacts
<1>3. mode = "text" => Joins(emitted, Event(type), emitted')
  BY <1>1, <1>2, NoTextAdded
<1>4. /\ queue' = PushAll(Event(type)) /\ QueueOK(queue)' /\ PathInv' /\ Outcome(next)
      /\ aborted' \in {"no", "aborted", "overflow"} /\ enabled' \in BOOLEAN
      /\ pc' \in Pcs /\ failure' \in Failures
  BY <1>1, PublishKeeps
<1>5. TextInv'
  BY <1>1, <1>3, <1>4, PublishText
<1>. QED  BY <1>4, <1>5

LEMMA StartKeeps == ASSUME RunInv, Start PROVE RunInv'
<1>1. /\ QueueOK(queue)' /\ PathInv' /\ TextInv' /\ Outcome("starting")
      /\ aborted' \in {"no", "aborted", "overflow"} /\ enabled' \in BOOLEAN
      /\ pc' \in Pcs /\ failure' \in Failures
  <2>1. pc \in Flow /\ "starting" \in Flow /\ "run-start" \in Kinds
    BY DEF Start, Flow, Kinds
  <2>2. Publish(Event("run-start"), "starting") /\ UNCHANGED <<mode, emitted>>
    BY DEF Start, flowVars
  <2>. QED  BY <2>1, <2>2, EventKeeps
<1>2. pc = "created" /\ UNCHANGED <<mode, node, flowVars>>
  BY DEF Start
<1>. USE DEF flowVars, Outcome
<1>3. ControlOK'
  BY <1>1, <1>2 DEF RunInv, ControlOK
<1>4. CallInv'
  BY <1>1, <1>2 DEF CallInv
<1>5. LastInv'
  BY <1>1, <1>2 DEF LastInv, Ok
<1>6. FirstInv'
  BY <1>1, <1>2 DEF RunInv, FirstInv
<1>7. MismatchExplained'
  BY <1>1, <1>2 DEF MismatchExplained
<1>. QED  BY <1>1, <1>3, <1>4, <1>5, <1>6, <1>7 DEF RunInv

LEMMA BeginCallKeeps ==
  ASSUME RunInv, NEW kind \in {"forced", "asking", "sub"}, BeginCall(kind) PROVE RunInv'
<1>0. /\ pc = IF kind = "sub" THEN "tool" ELSE "node"
      /\ kind # "sub" => kind = IF LastCall THEN "forced" ELSE "asking"
      /\ call' = kind /\ said' = <<>>
      /\ UNCHANGED <<mode, node, emitted, calls, attempt, form, answer>>
  BY DEF BeginCall
<1>1. /\ QueueOK(queue)' /\ PathInv' /\ TextInv' /\ Outcome("calling")
      /\ aborted' \in {"no", "aborted", "overflow"} /\ enabled' \in BOOLEAN
      /\ pc' \in Pcs /\ failure' \in Failures
  <2>1. pc \in Flow /\ "calling" \in Flow /\ "model-start" \in Kinds
    BY <1>0 DEF Flow, InFlow, Kinds
  <2>2. Publish(Event("model-start"), "calling") /\ UNCHANGED <<mode, emitted>>
    BY DEF BeginCall
  <2>. QED  BY <2>1, <2>2, EventKeeps
<1>. USE DEF Outcome
<1>3. ControlOK'
  BY <1>0, <1>1 DEF RunInv, ControlOK
<1>4. CallInv'
  <2>1. calls \in 0 .. MaxCalls /\ MaxCalls \in Nat
    BY RunAssumption DEF RunInv, ControlOK
  <2>2. call' = "asking" => calls < MaxCalls
    BY <1>0, <2>1 DEF LastCall
  <2>. QED  BY <1>0, <1>1, <2>2 DEF CallInv
<1>5. LastInv'
  BY <1>1 DEF LastInv, Ok
<1>6. FirstInv'
  BY <1>0, <1>1 DEF RunInv, FirstInv
<1>7. MismatchExplained'
  BY <1>1 DEF MismatchExplained
<1>. QED  BY <1>1, <1>3, <1>4, <1>5, <1>6, <1>7 DEF RunInv

LEMMA TokenKeeps == ASSUME RunInv, NEW t \in Tokens, Token(t) PROVE RunInv'
<1> DEFINE deltas == IF AtOnce THEN Deltas(<< <<t>> >>) ELSE <<>>
           items == deltas \o Event("model-event")
<1>0. /\ pc = "calling" /\ said' = Append(said, t)
      /\ emitted' = IF AtOnce THEN Append(emitted, t) ELSE emitted
      /\ Publish(items, "calling")
      /\ UNCHANGED <<mode, node, call, calls, attempt, form, answer>>
  BY DEF Token
<1>1. pc \in Flow /\ "calling" \in Flow /\ "model-event" \in Kinds
  BY <1>0 DEF Flow, InFlow, Kinds
<1>2. mode \in {"text", "events"} /\ emitted \in Seq(Tokens) /\ emitted \in Items /\ said \in Seq(Tokens)
  BY <1>1, InFlowFacts
<1>3. <<t>> \in Items /\ << <<t>> >> \in Seq(Items) /\ <<>> \in Seq(Items)
  BY DEF Items, Symbols
<1>4. deltas \in Seq(Items) /\ (mode = "text" => deltas = IF AtOnce THEN << <<t>> >> ELSE <<>>)
  BY <1>2, <1>3, DeltaItems
<1>5. Event("model-event") \in Seq(Items) /\ (mode = "text" => Event("model-event") = <<>>)
  BY <1>1, EventItems
<1>. HIDE DEF deltas
<1>6. items \in Seq(Items) /\ (mode = "text" => items = deltas)
  BY <1>4, <1>5, ConcatProperties, ConcatEmptySeq
<1>. HIDE DEF items
<1>7. /\ queue' = PushAll(items) /\ QueueOK(queue)' /\ PathInv' /\ Outcome("calling")
      /\ aborted' \in {"no", "aborted", "overflow"} /\ enabled' \in BOOLEAN
      /\ pc' \in Pcs /\ failure' \in Failures
  BY <1>0, <1>1, <1>6, PublishKeeps
<1>8. ASSUME mode = "text" PROVE Joins(emitted, items, emitted')
  <2>1. CASE AtOnce
    <3>1. items = << <<t>> >> /\ emitted' = Append(emitted, t)
      BY <1>0, <1>4, <1>6, <1>8, <2>1
    <3>2. Append(emitted, t) = emitted \o <<t>>
      BY <1>2, AppendIsConcat
    <3>. QED  BY <1>2, <1>3, <3>1, <3>2, JoinedOne
  <2>2. CASE ~AtOnce
    <3>1. items = <<>> /\ emitted' = emitted
      BY <1>0, <1>4, <1>6, <1>8, <2>2
    <3>. QED  BY <1>2, <3>1, NoTextAdded
  <2>. QED  BY <2>1, <2>2
<1>9. TextInv'
  BY <1>0, <1>1, <1>6, <1>7, <1>8, PublishText
<1>. USE DEF Outcome
<1>10. ControlOK'
  <2>1. Append(said, t) \in Seq(Tokens) /\ emitted' \in Seq(Tokens)
    BY <1>0, <1>2
  <2>. QED  BY <1>0, <1>7, <2>1 DEF RunInv, ControlOK
<1>11. CallInv'
  BY <1>0, <1>7 DEF RunInv, CallInv
<1>12. LastInv'
  BY <1>7 DEF LastInv, Ok
<1>13. FirstInv'
  <2>. SUFFICES ASSUME (attempt = 1 /\ node # "agent")' PROVE (emitted = IF call = "asking" THEN <<>> ELSE said)' /\ call # "sub"
    BY <1>0, <1>7 DEF FirstInv
  <2>1. emitted = (IF call = "asking" THEN <<>> ELSE said) /\ call # "sub"
    BY <1>0 DEF RunInv, FirstInv
  <2>. QED  BY <1>0, <2>1 DEF AtOnce
<1>14. MismatchExplained'
  BY <1>7 DEF MismatchExplained
<1>. QED  BY <1>7, <1>9, <1>10, <1>11, <1>12, <1>13, <1>14 DEF RunInv

LEMMA PrefixSelf == ASSUME NEW s \in Seq(Tokens) PROVE Prefix(s, s)
BY SubSeqFull, LenProperties DEF Prefix

LEMMA PrefixEmpty == ASSUME NEW s \in Seq(Tokens) PROVE Prefix(<<>>, s)
<1>1. SubSeq(s, 1, 0) = <<>>
  BY SubSeqEmpty
<1>. QED  BY <1>1, LenProperties DEF Prefix

LEMMA ReplyKeeps ==
  ASSUME RunInv, NEW tools \in BOOLEAN, NEW content \in Seq(Tokens), Reply(tools, content) PROVE RunInv'
<1> DEFINE out == Released(tools)
           deltas == Deltas(Pieces(out))
           items == deltas \o Event("model-complete")
           next == IF call = "sub" THEN "node"
                   ELSE IF ~tools THEN "answered" ELSE IF node = "agent" THEN "tool" ELSE "node"
<1>0. /\ pc = "calling" /\ (tools => call = "asking")
      /\ content = said \/ said = <<>>
      /\ emitted' = emitted \o out /\ said' = <<>> /\ call' = "none"
      /\ calls' = (IF tools THEN calls + 1 ELSE calls)
      /\ answer' = (IF tools \/ call = "sub" THEN answer ELSE content)
      /\ Publish(items, next)
      /\ UNCHANGED <<mode, node, attempt, form>>
  BY DEF Reply
<1>1. pc \in Flow /\ next \in Flow /\ "model-complete" \in Kinds
  BY <1>0 DEF Flow, InFlow, Kinds
<1>2. mode \in {"text", "events"} /\ emitted \in Seq(Tokens) /\ emitted \in Items /\ said \in Seq(Tokens)
  BY <1>1, InFlowFacts
<1>3. out \in Seq(Tokens)
  BY <1>2 DEF Released
<1>4. deltas \in Seq(Items) /\ (mode = "text" => deltas = Pieces(out))
  BY <1>2, <1>3, PiecesItems, DeltaItems
<1>5. Event("model-complete") \in Seq(Items) /\ (mode = "text" => Event("model-complete") = <<>>)
  BY <1>1, EventItems
<1>. HIDE DEF deltas, out
<1>6. items \in Seq(Items) /\ (mode = "text" => items = deltas)
  BY <1>4, <1>5, ConcatProperties, ConcatEmptySeq
<1>. HIDE DEF items
<1>7. /\ queue' = PushAll(items) /\ QueueOK(queue)' /\ PathInv' /\ Outcome(next)
      /\ aborted' \in {"no", "aborted", "overflow"} /\ enabled' \in BOOLEAN
      /\ pc' \in Pcs /\ failure' \in Failures
  <2>. HIDE DEF next
  <2>. QED  BY <1>0, <1>1, <1>6, PublishKeeps
<1>8. mode = "text" => Joins(emitted, items, emitted')
  BY <1>0, <1>2, <1>3, <1>4, <1>6, JoinedPieces
<1>9. TextInv'
  BY <1>0, <1>1, <1>6, <1>7, <1>8, PublishText
<1>. USE DEF Outcome
<1>10. ControlOK'
  <2>1. emitted' \in Seq(Tokens) /\ said' \in Seq(Tokens)
    BY <1>0, <1>2, <1>3, ConcatProperties
  <2>2. calls' \in 0 .. MaxCalls
    BY <1>0, RunAssumption DEF RunInv, ControlOK, CallInv
  <2>3. answer' \in Seq(Tokens) \union {NoText}
    BY <1>0 DEF RunInv, ControlOK
  <2>. QED  BY <1>0, <1>7, <2>1, <2>2, <2>3 DEF RunInv, ControlOK
<1>11. CallInv'
  BY <1>0, <1>7 DEF CallInv
<1>12. LastInv'
  BY <1>7 DEF LastInv, Ok
<1>13. FirstInv'
  <2>. SUFFICES ASSUME attempt = 1, node # "agent"
                PROVE  /\ pc' \in {"created", "starting", "input", "node"} => emitted' = <<>>
                       /\ pc' = "answered" => Prefix(emitted', answer')
                       /\ pc' # "tool" /\ pc' # "calling" /\ call' # "sub"
    BY <1>0 DEF FirstInv
  <2>1. call # "sub" /\ emitted = (IF call = "asking" THEN <<>> ELSE said)
    BY <1>0 DEF RunInv, FirstInv
  <2>2. pc' # "tool" /\ pc' # "calling" /\ call' # "sub"
    BY <1>0, <1>7
  <2>3. CASE tools
    <3>1. out = <<>> /\ emitted = <<>> /\ next = "node"
      BY <1>0, <2>1, <2>3 DEF out, Released
    <3>2. emitted' = <<>> /\ pc' # "answered"
      BY <1>0, <1>7, <3>1
    <3>. QED  BY <2>2, <3>2
  <2>4. CASE ~tools
    <3>1. next = "answered" /\ answer' = content
      BY <1>0, <2>1, <2>4
    <3>2. emitted' = said
      <4>1. CASE call = "asking"
        <5>1. emitted = <<>> /\ out = said
          BY <2>1, <2>4, <4>1 DEF out, Released, AtOnce
        <5>. QED  BY <1>0, <1>2, <5>1, ConcatEmptySeq
      <4>2. CASE call # "asking"
        <5>1. emitted = said /\ out = <<>>
          BY <2>1, <4>2 DEF out, Released, AtOnce
        <5>. QED  BY <1>0, <1>2, <5>1, ConcatEmptySeq
      <4>. QED  BY <4>1, <4>2
    <3>3. Prefix(said, content)
      BY <1>0, PrefixSelf, PrefixEmpty
    <3>4. pc' \in {"answered", "throwing"}
      BY <1>7, <3>1
    <3>. QED  BY <2>2, <3>1, <3>2, <3>3, <3>4
  <2>. QED  BY <2>3, <2>4
<1>14. MismatchExplained'
  BY <1>7 DEF MismatchExplained
<1>. QED  BY <1>7, <1>9, <1>10, <1>11, <1>12, <1>13, <1>14 DEF RunInv

LEMMA OutputKeeps == ASSUME RunInv, Output PROVE RunInv'
<1>0. /\ pc = "answered" /\ aborted = "no"
      /\ UNCHANGED <<mode, node, said, call, calls, attempt, form, answer>>
  BY DEF Output
<1>1. pc \in Flow /\ "completing" \in Flow /\ "result" \in Kinds
  BY <1>0 DEF Flow, InFlow, Kinds
<1>2. mode \in {"text", "events"} /\ emitted \in Seq(Tokens) /\ emitted \in Items /\ answer \in Seq(Tokens)
  BY <1>0, <1>1, InFlowFacts DEF RunInv, CallInv
<1>3. CASE Prefix(emitted, answer)
  <2> DEFINE deltas == IF Rest = <<>> THEN <<>> ELSE Deltas(<<Rest>>)
             items == deltas \o Event("result")
  <2>0. emitted' = answer /\ Publish(items, "completing")
    BY <1>3 DEF Output
  <2>1. Rest \in Seq(Tokens) /\ Rest \in Items /\ emitted \o Rest = answer
    BY <1>2, <1>3, RestCompletes, TokensAreItems DEF Rest
  <2>2. <<Rest>> \in Seq(Items) /\ <<>> \in Seq(Items)
    BY <2>1
  <2>3. deltas \in Seq(Items) /\ (mode = "text" => deltas = IF Rest = <<>> THEN <<>> ELSE <<Rest>>)
    BY <1>2, <2>2, DeltaItems
  <2>4. /\ Event("result") \in Seq(Items) /\ (mode = "text" => Event("result") = <<>>)
        /\ mode = "events" => Event("result") = << <<"result">> >>
    <3>1. enabled
      BY <1>0 DEF RunInv, PathInv
    <3>. QED  BY <1>1, <3>1, EventItems
  <2>. HIDE DEF deltas
  <2>5. items \in Seq(Items) /\ (mode = "text" => items = deltas)
    BY <2>3, <2>4, ConcatProperties, ConcatEmptySeq
  <2>6. mode = "events" => /\ items # <<>> /\ items[Len(items)] = <<"result">>
                            /\ \A i \in 1 .. Len(items) : items[i] # Log
    <3>. SUFFICES ASSUME mode = "events" PROVE /\ items # <<>> /\ items[Len(items)] = <<"result">>
                                               /\ \A i \in 1 .. Len(items) : items[i] # Log
      OBVIOUS
    <3> DEFINE r == << <<"result">> >>
    <3>1. deltas = <<>> \/ deltas = << <<"output-delta">> >>
      BY DEF deltas, Deltas
    <3>2. \A i \in 1 .. Len(deltas) : deltas[i] # Log
      BY <3>1 DEF Log
    <3>3. r \in Seq(Items) /\ Len(r) = 1 /\ r[1] = <<"result">> /\ r[1] # Log
      BY <2>4 DEF Log
    <3>. HIDE DEF r
    <3>4. items = deltas \o r
      BY <2>4 DEF r
    <3>. HIDE DEF items
    <3>5. /\ Len(items) = Len(deltas) + 1 /\ Len(deltas) \in Nat /\ items[Len(deltas) + 1] = r[1]
          /\ \A i \in 1 .. Len(items) : items[i] = IF i <= Len(deltas) THEN deltas[i] ELSE r[i - Len(deltas)]
      <4>1. Len(deltas) \in Nat
        BY <2>3, LenProperties
      <4>2. /\ Len(deltas \o r) = Len(deltas) + Len(r)
            /\ \A i \in 1 .. Len(deltas) + Len(r) :
                  (deltas \o r)[i] = IF i <= Len(deltas) THEN deltas[i] ELSE r[i - Len(deltas)]
        BY <2>3, <3>3, ConcatProperties
      <4>3. /\ Len(items) = Len(deltas) + 1
            /\ \A i \in 1 .. Len(items) : items[i] = IF i <= Len(deltas) THEN deltas[i] ELSE r[i - Len(deltas)]
        BY <3>3, <3>4, <4>2
      <4>. QED  BY <4>1, <4>3
    <3>6. items # <<>>
      BY <3>5
    <3>7. \A i \in 1 .. Len(items) : items[i] # Log
      <4>. SUFFICES ASSUME NEW i \in 1 .. Len(items) PROVE items[i] # Log
        OBVIOUS
      <4>1. i <= Len(deltas) \/ i = Len(deltas) + 1
        BY <3>5
      <4>. QED  BY <3>2, <3>3, <3>5, <4>1
    <3>. QED  BY <3>3, <3>5, <3>6, <3>7
  <2>. HIDE DEF items
  <2>7. /\ queue' = PushAll(items) /\ QueueOK(queue)' /\ PathInv' /\ Outcome("completing")
        /\ aborted' \in {"no", "aborted", "overflow"} /\ enabled' \in BOOLEAN
        /\ pc' \in Pcs /\ failure' \in Failures
    BY <1>0, <1>1, <2>0, <2>5, PublishKeeps
  <2>8. ASSUME mode = "text" PROVE Joins(emitted, items, emitted')
    <3>1. CASE Rest = <<>>
      <4>1. emitted = answer
        BY <1>2, <2>1, <3>1, ConcatEmptySeq
      <4>. QED  BY <1>2, <2>0, <2>3, <2>5, <2>8, <3>1, <4>1, NoTextAdded
    <3>2. CASE Rest # <<>>
      <4>1. items = <<Rest>>
        BY <2>3, <2>5, <2>8, <3>2
      <4>. QED  BY <1>2, <2>0, <2>1, <4>1, JoinedOne
    <3>. QED  BY <3>1, <3>2
  <2>9. TextInv'
    BY <1>0, <1>1, <2>5, <2>7, <2>8, PublishText
  <2>10. ASSUME mode = "events" PROVE queue.full' \/ Tells(queue', <<"result">>)
    <3>1. QueueOK(queue) /\ queue.state = "open"
      BY <1>0 DEF RunInv, PathInv
    <3>. QED  BY <2>5, <2>6, <2>7, <2>10, <3>1, PushAllLast
  <2>. USE DEF Outcome
  <2>11. ControlOK'
    BY <1>0, <1>2, <2>0, <2>7 DEF RunInv, ControlOK
  <2>12. CallInv'
    BY <1>0, <2>0, <2>7 DEF CallInv
  <2>13. LastInv'
    <3>1. ~queue.full
      BY <1>0 DEF RunInv, PathInv
    <3>. QED  BY <1>0, <2>7, <2>10, <3>1 DEF LastInv, Ok, Tells
  <2>14. FirstInv'
    BY <1>0, <2>7 DEF RunInv, FirstInv
  <2>15. MismatchExplained'
    BY <2>7 DEF MismatchExplained
  <2>. QED  BY <2>7, <2>9, <2>11, <2>12, <2>13, <2>14, <2>15 DEF RunInv
<1>4. CASE ~Prefix(emitted, answer)
  <2>0. pc' = "throwing" /\ failure' = "mismatch" /\ UNCHANGED <<queue, aborted, enabled, emitted>>
    BY <1>4 DEF Output, Throw
  <2>1. ControlOK'
    BY <1>0, <2>0 DEF RunInv, ControlOK, Pcs, Failures
  <2>2. QueueOK(queue)' /\ TextInv'
    BY <1>0, <2>0, StillText
  <2>3. PathInv'
    BY <1>0, <2>0 DEF RunInv, PathInv, Flow, InFlow, Ok
  <2>4. CallInv' /\ LastInv'
    BY <2>0 DEF CallInv, LastInv, Ok
  <2>5. FirstInv'
    BY <1>0, <2>0 DEF RunInv, FirstInv
  <2>6. MismatchExplained'
    <3>1. attempt = 1 => node = "agent"
      BY <1>0, <1>4 DEF RunInv, FirstInv
    <3>2. attempt \in Nat /\ attempt >= 1
      BY RunAssumption DEF RunInv, ControlOK
    <3>. QED  BY <1>0, <3>1, <3>2 DEF MismatchExplained
  <2>. QED  BY <2>1, <2>2, <2>3, <2>4, <2>5, <2>6 DEF RunInv
<1>. QED  BY <1>3, <1>4

LEMMA CatchKeeps == ASSUME RunInv, Catch PROVE RunInv'
<1> DEFINE why == IF aborted = "overflow" THEN "overflow" ELSE failure
           items == Event("error")
<1>0. /\ pc = "throwing" /\ queue' = PushAll(items) /\ pc' = "failing"
      /\ said' = <<>> /\ call' = "none" /\ calls' = 0 /\ form' = "fresh"
      /\ UNCHANGED <<mode, node, emitted, attempt, answer>>
  BY DEF Catch, ErrorEvent
<1>1. IF queue'.full /\ ~queue.full
      THEN /\ aborted' = (IF aborted = "no" THEN "overflow" ELSE aborted)
           /\ enabled' = FALSE /\ failure' = "overflow"
      ELSE failure' = why /\ UNCHANGED <<aborted, enabled>>
  BY <1>0 DEF Catch, ErrorEvent
<1>2. /\ QueueOK(queue) /\ queue.state = "open" /\ queue.seen \notin {"done", "error"}
      /\ mode \in {"text", "events"} /\ emitted \in Items
  BY <1>0, TokensAreItems, RunAssumption DEF RunInv, PathInv, ControlOK
<1>3. /\ items \in Seq(Items) /\ (mode = "text" => items = <<>>)
      /\ (mode = "events" /\ enabled => items = << <<"error">> >>)
  BY EventItems DEF Kinds
<1>. HIDE DEF items
<1>4. QueueOK(PushAll(items)) /\ Kept(queue, PushAll(items))
  BY <1>2, <1>3, PushAllKept
<1>5. QueueOK(queue)' /\ queue'.state = "open" /\ queue'.seen = queue.seen /\ (queue.full => queue'.full)
  BY <1>0, <1>2, <1>4 DEF QueueOK, Kept
<1>6. TextInv'
  <2>1. mode = "text" => Joins(emitted, items, emitted')
    BY <1>0, <1>2, <1>3, NoTextAdded
  <2>2. pc # "ended" /\ mode' = mode
    BY <1>0
  <2>. QED  BY <1>0, <1>3, <2>1, <2>2, ItemsText
<1>7. /\ enabled <=> ~queue.full
      /\ queue.full => aborted # "no" /\ (mode = "text" => failure = "overflow")
      /\ failure \notin {"none", "ok"}
  BY <1>0 DEF RunInv, PathInv
<1>8. queue.full \in BOOLEAN /\ queue'.full \in BOOLEAN /\ enabled \in BOOLEAN
  BY <1>2, <1>5 DEF RunInv, ControlOK, QueueOK, Queues
<1>9. /\ enabled' \in BOOLEAN
      /\ enabled' <=> ~queue'.full
      /\ queue'.full => aborted' # "no" /\ (mode = "text" => failure' = "overflow")
      /\ failure' \notin {"none", "ok"}
  BY <1>1, <1>5, <1>7, <1>8
<1>10. PathInv'
  BY <1>0, <1>2, <1>5, <1>9 DEF PathInv, Flow, InFlow, Ok
<1>11. ControlOK'
  <2>1. aborted' \in {"no", "aborted", "overflow"} /\ failure' \in Failures
    BY <1>1 DEF RunInv, ControlOK, Failures
  <2>2. said' \in Seq(Tokens) /\ calls' \in 0 .. MaxCalls
    BY <1>0, RunAssumption
  <2>3. enabled' \in BOOLEAN
    BY <1>9
  <2>. QED  BY <1>0, <2>1, <2>2, <2>3 DEF RunInv, ControlOK, Pcs
<1>12. CallInv'
  BY <1>0, <1>9 DEF CallInv
<1>13. LastInv'
  <2>. SUFFICES ASSUME mode = "events", ~queue'.full PROVE Tells(queue', <<"error">>)
    BY <1>0, <1>9 DEF LastInv, Ok, Tells
  <2>2. enabled
    BY <1>5, <1>7
  <2>3. items # <<>> /\ items[Len(items)] = <<"error">> /\ \A i \in 1 .. Len(items) : items[i] # Log
    <3>1. items = << <<"error">> >>
      BY <1>3, <2>2
    <3>. QED  BY <3>1 DEF Log
  <2>. QED  BY <1>0, <1>2, <1>3, <2>3, PushAllLast
<1>14. FirstInv'
  BY <1>0 DEF FirstInv
<1>15. MismatchExplained'
  BY <1>0, <1>1 DEF RunInv, MismatchExplained
<1>. QED  BY <1>5, <1>6, <1>10, <1>11, <1>12, <1>13, <1>14, <1>15 DEF RunInv

\* The consumer and the end: the text and the last event stay what they are.
LEMMA SameItems ==
  ASSUME RunInv, QueueOK(queue)', UNCHANGED <<mode, emitted, failure>>,
         pc' = pc \/ (pc = "settled" /\ pc' = "ended"),
         queue'.full = queue.full,
         mode = "text" => (TextWaits(queue, emitted) => TextWaits(queue', emitted)),
         mode = "events" => \A x \in Items : x # Log /\ Tells(queue, x) => Tells(queue', x)
  PROVE  TextInv' /\ LastInv'
<1>1. TextInv'
  BY DEF RunInv, TextInv, TextWaits
<1>2. LastInv'
  <2>. SUFFICES ASSUME mode = "events"
                PROVE  /\ (pc = "completing" \/ failure = "ok" => Tells(queue, <<"result">>))'
                       /\ (pc \in Ok \union {"failing"} /\ failure # "ok" /\ ~queue.full
                             => Tells(queue, <<"error">>))'
    BY DEF LastInv
  <2>1. <<"result">> \in Items /\ <<"error">> \in Items /\ <<"result">> # Log /\ <<"error">> # Log
    BY DEF Items, Symbols, Kinds, Log
  <2>2. /\ Tells(queue, <<"result">>) => Tells(queue', <<"result">>)
        /\ Tells(queue, <<"error">>) => Tells(queue', <<"error">>)
    BY <2>1
  <2>3. /\ pc = "completing" \/ failure = "ok" => Tells(queue, <<"result">>)
        /\ pc \in Ok \union {"failing"} /\ failure # "ok" /\ ~queue.full => Tells(queue, <<"error">>)
    BY DEF RunInv, LastInv
  <2>. HIDE DEF Tells
  <2>. QED  BY <2>2, <2>3 DEF Ok
<1>. QED  BY <1>1, <1>2

LEMMA SettleKeeps == ASSUME RunInv, Settle PROVE RunInv'
<1>0. /\ pc = "settled" /\ pc' = "ended"
      /\ queue' = [queue EXCEPT !.state = Ending, !.waiting = @ /\ ~Answered,
                                !.seen = IF Answered /\ @ = "items" THEN Seen(Ending) ELSE @]
      /\ UNCHANGED <<mode, node, aborted, enabled, failure, flowVars>>
  BY DEF Settle
<1>1. /\ queue \in Queues /\ QueueOK(queue) /\ queue.state = "open" /\ queue.seen \notin {"done", "error"}
      /\ (queue.waiting => queue.values = <<>>)
  BY <1>0 DEF RunInv, QueueOK, PathInv
<1>2. Ending \in {"closed", "failed"} /\ Seen(Ending) = (IF Ending = "closed" THEN "done" ELSE "error")
  BY DEF Ending, Seen
<1>3. /\ queue'.values = queue.values /\ queue'.bytes = queue.bytes /\ queue'.got = queue.got
      /\ queue'.full = queue.full /\ queue'.state = Ending /\ ~queue'.waiting
      /\ queue'.seen = IF queue.waiting /\ queue.seen = "items" THEN Seen(Ending) ELSE queue.seen
  BY <1>0, <1>1 DEF Queues, Answered
<1>4. queue' \in Queues
  <2> DEFINE w == queue.waiting /\ ~Answered
             s == IF Answered /\ queue.seen = "items" THEN Seen(Ending) ELSE queue.seen
  <2>1. w \in BOOLEAN /\ s \in {"items", "done", "error", "left"}
    BY <1>1, <1>2 DEF Queues
  <2>2. queue' = [queue EXCEPT !.state = Ending, !.waiting = w, !.seen = s]
    BY <1>0
  <2>. HIDE DEF w, s
  <2>. QED  BY <1>1, <1>2, <2>1, <2>2 DEF Queues
<1>5. QueueOK(queue)'
  BY <1>1, <1>3, <1>4 DEF QueueOK
<1>6. PathInv'
  <2>1. queue'.state # "open" /\ (queue'.state = "closed" => failure = "ok" \/ mode = "events")
    BY <1>2, <1>3 DEF Ending
  <2>2. queue'.seen \in {"done", "error"} => queue'.values = <<>>
    BY <1>1, <1>3
  <2>3. queue'.seen = "done" => queue'.state = "closed"
    BY <1>1, <1>2, <1>3
  <2>. QED  BY <1>0, <1>3, <2>1, <2>2, <2>3 DEF RunInv, PathInv, Flow, InFlow, Ok
<1>7. TextInv' /\ LastInv'
  BY <1>0, <1>3, <1>5, SameItems DEF TextWaits, Tells, flowVars
<1>8. ControlOK'
  BY <1>0 DEF RunInv, ControlOK, Pcs, Over, flowVars
<1>9. CallInv' /\ FirstInv'
  BY <1>0 DEF RunInv, CallInv, FirstInv, flowVars
<1>10. MismatchExplained'
  BY <1>0 DEF RunInv, MismatchExplained, flowVars
<1>. QED  BY <1>5, <1>6, <1>7, <1>8, <1>9, <1>10 DEF RunInv

\* Everything but the queue, when only the consumer moves.
LEMMA ConsumerKeeps ==
  ASSUME RunInv, UNCHANGED <<mode, node, pc, enabled, failure, flowVars>>,
         aborted' \in {"no", "aborted", "overflow"}, aborted' = "no" => aborted = "no",
         QueueOK(queue)', queue'.full = queue.full, queue'.state = queue.state,
         queue'.seen \in {"done", "error"} => queue'.values = <<>> /\ pc = "ended",
         queue'.seen = "done" => queue.state = "closed",
         mode = "text" => (TextWaits(queue, emitted) => TextWaits(queue', emitted)),
         mode = "events" => \A x \in Items : x # Log /\ Tells(queue, x) => Tells(queue', x)
  PROVE  RunInv'
<1>. USE DEF flowVars
<1>1. TextInv' /\ LastInv'
  BY SameItems
<1>2. ControlOK'
  BY DEF RunInv, ControlOK
<1>3. PathInv'
  BY DEF RunInv, PathInv, Flow, InFlow, Ok
<1>4. CallInv' /\ FirstInv'
  BY DEF RunInv, CallInv, FirstInv
<1>5. MismatchExplained'
  BY DEF RunInv, MismatchExplained
<1>. QED  BY <1>1, <1>2, <1>3, <1>4, <1>5 DEF RunInv

LEMMA PullKeeps == ASSUME RunInv, Pull PROVE RunInv'
<1>0. /\ queue.seen = "items" /\ ~queue.waiting
      /\ queue' = IF queue.values # <<>>
                  THEN [queue EXCEPT !.values = Tail(@), !.bytes = @ - Len(Head(queue.values)),
                                     !.got = Got(@, Head(queue.values))]
                  ELSE IF queue.state = "open" THEN [queue EXCEPT !.waiting = TRUE]
                  ELSE [queue EXCEPT !.seen = Seen(queue.state)]
      /\ UNCHANGED <<mode, node, pc, aborted, enabled, failure, flowVars>>
  BY DEF Pull
<1>1. /\ queue \in Queues /\ QueueOK(queue) /\ queue.bytes = Waiting(queue.values) /\ queue.bytes <= MaxBytes
      /\ queue.values \in Seq(Items) /\ queue.got \in Items
      /\ mode \in {"text", "events"} /\ aborted' \in {"no", "aborted", "overflow"}
  BY <1>0, RunAssumption DEF RunInv, ControlOK, QueueOK, Queues
<1>2. CASE queue.values # <<>>
  <2> DEFINE v == Tail(queue.values)
             x == Head(queue.values)
             g == Got(queue.got, x)
             b == queue.bytes - Len(x)
  <2>1. x \in Items /\ v \in Seq(Items) /\ g \in Items /\ Len(x) \in Nat
    <3>1. x \in Items /\ v \in Seq(Items)
      BY <1>1, <1>2, HeadTailProperties
    <3>. HIDE DEF x, v
    <3>. QED  BY <1>1, <3>1, GotType, LenProperties DEF Items
  <2>2. Waiting(queue.values) = Len(x) + Waiting(v) /\ Waiting(v) \in Nat
    BY <1>1, <1>2, WaitingTail DEF Items
  <2>3. b = Waiting(v) /\ b \in Nat /\ b <= MaxBytes
    <3>1. queue.bytes = Len(x) + Waiting(v) /\ MaxBytes \in Nat
      BY <1>1, <2>2, RunAssumption
    <3>. HIDE DEF x, v
    <3>. QED  BY <1>1, <2>1, <2>2, <3>1
  <2>4. queue' = [queue EXCEPT !.values = v, !.bytes = b, !.got = g]
    BY <1>0, <1>2
  <2>7. mode = "text" /\ Joins(queue.got, queue.values, emitted) => Joins(g, v, emitted)
    BY <1>1, <1>2, JoinedTail DEF Got
  <2>. HIDE DEF v, x, g, b
  <2>9. /\ queue' \in Queues
        /\ queue'.values = v /\ queue'.bytes = b /\ queue'.got = g /\ ~queue'.waiting
        /\ queue'.full = queue.full /\ queue'.state = queue.state /\ queue'.seen = "items"
    BY <1>0, <1>1, <2>1, <2>3, <2>4 DEF Queues
  <2>10. QueueOK(queue)'
    BY <2>3, <2>9 DEF QueueOK
  <2>11. mode = "text" => (TextWaits(queue, emitted) => TextWaits(queue', emitted))
    BY <2>7, <2>9 DEF TextWaits
  <2>12. mode = "events" => \A y \in Items : y # Log /\ Tells(queue, y) => Tells(queue', y)
    BY <1>1, <1>2, <2>9, TakeTells DEF v, g, x
  <2>. QED  BY <1>0, <1>1, <2>9, <2>10, <2>11, <2>12, ConsumerKeeps
<1>3. CASE queue.values = <<>> /\ queue.state = "open"
  <2>1. queue' = [queue EXCEPT !.waiting = TRUE]
    BY <1>0, <1>3
  <2>2. /\ queue' \in Queues
        /\ queue'.values = <<>> /\ queue'.bytes = queue.bytes /\ queue'.got = queue.got
        /\ queue'.full = queue.full /\ queue'.state = queue.state /\ queue'.seen = "items"
    BY <1>0, <1>1, <1>3, <2>1 DEF Queues
  <2>3. QueueOK(queue)'
    BY <1>1, <1>3, <2>2 DEF QueueOK
  <2>4. TextWaits(queue, emitted) => TextWaits(queue', emitted)
    BY <1>3, <2>2 DEF TextWaits
  <2>5. \A x \in Items : Tells(queue, x) => Tells(queue', x)
    BY <1>3, <2>2 DEF Tells
  <2>. QED  BY <1>0, <1>1, <2>2, <2>3, <2>4, <2>5, ConsumerKeeps
<1>4. CASE queue.values = <<>> /\ queue.state # "open"
  <2>1. queue' = [queue EXCEPT !.seen = Seen(queue.state)]
    BY <1>0, <1>4
  <2>2. queue.state \in {"closed", "failed"}
    BY <1>1, <1>4 DEF Queues
  <2>3. /\ queue' \in Queues
        /\ queue'.values = <<>> /\ queue'.bytes = queue.bytes /\ queue'.got = queue.got
        /\ queue'.waiting = queue.waiting
        /\ queue'.full = queue.full /\ queue'.state = queue.state
        /\ queue'.seen = IF queue.state = "closed" THEN "done" ELSE "error"
    BY <1>0, <1>1, <1>4, <2>1, <2>2 DEF Queues, Seen
  <2>4. QueueOK(queue)'
    BY <1>0, <1>1, <1>4, <2>3 DEF QueueOK
  <2>5. TextWaits(queue, emitted) => TextWaits(queue', emitted)
    BY <1>4, <2>3 DEF TextWaits
  <2>6. \A x \in Items : Tells(queue, x) => Tells(queue', x)
    BY <1>4, <2>3 DEF Tells
  <2>7. pc = "ended"
    BY <1>4 DEF RunInv, PathInv
  <2>8. queue'.seen = "done" => queue.state = "closed"
    BY <2>3
  <2>. QED  BY <1>0, <1>1, <2>3, <2>4, <2>5, <2>6, <2>7, <2>8, ConsumerKeeps
<1>. QED  BY <1>2, <1>3, <1>4

LEMMA AbortKeeps == ASSUME RunInv, NEW leaves \in BOOLEAN, Abort(leaves) PROVE RunInv'
<1>0. /\ queue.seen = "items" /\ queue' = (IF leaves THEN [queue EXCEPT !.seen = "left"] ELSE queue)
      /\ aborted' = (IF aborted = "no" THEN "aborted" ELSE aborted)
      /\ UNCHANGED <<mode, node, pc, enabled, failure, flowVars>>
  BY DEF Abort
<1>1. queue \in Queues /\ QueueOK(queue) /\ aborted' \in {"no", "aborted", "overflow"} /\ aborted' # "no"
  BY <1>0 DEF RunInv, ControlOK, QueueOK
<1>2. /\ queue' \in Queues
      /\ queue'.values = queue.values /\ queue'.bytes = queue.bytes /\ queue'.got = queue.got
      /\ queue'.waiting = queue.waiting /\ queue'.full = queue.full /\ queue'.state = queue.state
      /\ queue'.seen \in {"items", "left"}
  BY <1>0, <1>1 DEF Queues
<1>3. QueueOK(queue)'
  BY <1>1, <1>2 DEF QueueOK
<1>4. TextWaits(queue, emitted) => TextWaits(queue', emitted)
  BY <1>2 DEF TextWaits
<1>5. \A x \in Items : Tells(queue, x) => Tells(queue', x)
  BY <1>2 DEF Tells
<1>. QED  BY <1>0, <1>1, <1>2, <1>3, <1>4, <1>5, ConsumerKeeps

LEMMA PluginLogKeeps == ASSUME RunInv, PluginLog PROVE RunInv'
<1> DEFINE items == Event("runtime-event")
<1>0. /\ mode = "events" /\ pc \notin {"created", "starting", "ended", "dead"}
      /\ queue' = PushAll(items)
      /\ UNCHANGED <<mode, node, failure, flowVars>>
  BY DEF PluginLog, PluginsLive
<1>1. IF queue'.full /\ ~queue.full
      THEN /\ aborted' = (IF aborted = "no" THEN "overflow" ELSE aborted)
           /\ enabled' = FALSE /\ pc' \in {pc, "dead"}
      ELSE UNCHANGED <<aborted, enabled, pc>>
  BY <1>0 DEF PluginLog
<1>2. QueueOK(queue) /\ queue.state = "open" /\ queue.seen \notin {"done", "error"}
  BY <1>0 DEF RunInv, PathInv
<1>3. items \in Seq(Items) /\ \A i \in 1 .. Len(items) : items[i] = Log
  <2>1. items = << Log >> \/ items = <<>>
    BY DEF Event, Log
  <2>2. << Log >> \in Seq(Items) /\ <<>> \in Seq(Items)
    BY LogIsItem
  <2>3. ASSUME items = << Log >> PROVE \A i \in 1 .. Len(items) : items[i] = Log
    <3> DEFINE l == Log
    <3>1. items = << l >>
      BY <2>3
    <3>. HIDE DEF items, l
    <3>2. \A i \in 1 .. Len(items) : items[i] = l
      BY <3>1
    <3>. QED  BY <3>2 DEF l
  <2>4. ASSUME items = <<>> PROVE \A i \in 1 .. Len(items) : items[i] = Log
    <3>1. Len(items) = 0
      BY <2>4
    <3>. HIDE DEF items
    <3>. QED  BY <3>1
  <2>. HIDE DEF items
  <2>. QED  BY <2>1, <2>2, <2>3, <2>4
<1>. HIDE DEF items
<1>4. /\ QueueOK(queue)' /\ queue'.state = "open" /\ queue'.seen = queue.seen
      /\ queue.full => queue'.full
      /\ queue.full \in BOOLEAN /\ queue'.full \in BOOLEAN
  <2>1. QueueOK(PushAll(items)) /\ Kept(queue, PushAll(items))
    BY <1>2, <1>3, PushAllKept
  <2>2. QueueOK(queue)'
    BY <1>0, <2>1 DEF QueueOK
  <2>. QED  BY <1>0, <1>2, <2>1, <2>2 DEF Kept, QueueOK, Queues
<1>5. pc' \in {pc, "dead"}
  BY <1>1
<1>6. ControlOK'
  BY <1>0, <1>1, <1>5 DEF RunInv, ControlOK, Pcs, Over, flowVars
<1>7. PathInv'
  BY <1>0, <1>1, <1>2, <1>4, <1>5 DEF RunInv, PathInv, ControlOK, Flow, InFlow, Ok
<1>8. CallInv' /\ FirstInv' /\ MismatchExplained'
  BY <1>0, <1>5 DEF RunInv, CallInv, FirstInv, MismatchExplained, flowVars
<1>9. TextInv'
  BY <1>0 DEF TextInv
<1>10. LastInv'
  <2>1. \A x : Tells(queue, x) => Tells(queue', x)
    BY <1>0, <1>2, <1>3, PushAllLogs
  <2>2. /\ pc = "completing" \/ failure = "ok" => Tells(queue, <<"result">>)
        /\ pc \in Ok \union {"failing"} /\ failure # "ok" /\ ~queue.full => Tells(queue, <<"error">>)
    BY <1>0 DEF RunInv, LastInv
  <2>3. Tells(queue, <<"result">>)' = Tells(queue', <<"result">>)
        /\ Tells(queue, <<"error">>)' = Tells(queue', <<"error">>)
    BY DEF Tells
  <2>. QED  BY <1>0, <1>4, <1>5, <2>1, <2>2, <2>3 DEF LastInv, Ok
<1>. QED  BY <1>4, <1>6, <1>7, <1>8, <1>9, <1>10 DEF RunInv

LEMMA RunInvNext == RunInv /\ [RunNext]_runVars => RunInv'
<1>. SUFFICES ASSUME RunInv, [RunNext]_runVars PROVE RunInv'
  OBVIOUS
<1>1. CASE Goes
  BY <1>1, StartKeeps, RendererStartKeeps, OutputKeeps, FlowAbortedKeeps, RendererCompleteKeeps,
     CatchKeeps, FinishKeeps, SettleKeeps DEF Goes
<1>2. ASSUME NEW valid \in BOOLEAN, Submit(valid) PROVE RunInv'
  BY <1>2, SubmitKeeps
<1>3. ASSUME NEW kind \in {"forced", "asking", "sub"}, BeginCall(kind) PROVE RunInv'
  BY <1>3, BeginCallKeeps
<1>4. ASSUME NEW t \in Tokens, Token(t) PROVE RunInv'
  BY <1>4, TokenKeeps
<1>5. ASSUME NEW tools \in BOOLEAN, Reply(tools, said) PROVE RunInv'
  <2>1. said \in Seq(Tokens)
    BY DEF RunInv, ControlOK
  <2>. QED  BY <1>5, <2>1, ReplyKeeps
<1>6. ASSUME NEW tools \in BOOLEAN, NEW t \in Tokens, Reply(tools, <<t>>) PROVE RunInv'
  <2>1. <<t>> \in Seq(Tokens)
    OBVIOUS
  <2>. QED  BY <1>6, <2>1, ReplyKeeps
<1>7. CASE PluginTool
  BY <1>7, PluginToolKeeps
<1>8. CASE AttemptFails
  BY <1>8, AttemptFailsKeeps
<1>9. CASE Pull
  BY <1>9, PullKeeps
<1>10. ASSUME NEW leaves \in BOOLEAN, Abort(leaves) PROVE RunInv'
  BY <1>10, AbortKeeps
<1>11. CASE PluginLog
  BY <1>11, PluginLogKeeps
<1>12. CASE UNCHANGED runVars
  <2>. USE <1>12 DEF runVars
  <2>1. ControlOK' /\ QueueOK(queue)' /\ PathInv' /\ CallInv'
    BY DEF RunInv, ControlOK, QueueOK, PathInv, CallInv
  <2>2. TextInv' /\ LastInv' /\ FirstInv' /\ MismatchExplained'
    BY DEF RunInv, TextInv, TextWaits, LastInv, FirstInv, MismatchExplained
  <2>. QED  BY <2>1, <2>2 DEF RunInv
<1>. QED  BY <1>1, <1>2, <1>3, <1>4, <1>5, <1>6, <1>7, <1>8, <1>9, <1>10, <1>11, <1>12 DEF RunNext

LEMMA RunInvAlways == RunSpec => []RunInv
BY RunInvInit, RunInvNext, PTL DEF RunSpec

-----------------------------------------------------------------------------
(* What the consumer is told.                                              *)

\* The text a stream delivers is the output of its run: whatever was held back for a call that
\* may ask for tools, retried after a failed attempt, split into deltas or left in the queue,
\* a consumer that sees the stream of a text run end has got the final answer, and all of it.
THEOREM TextIsOutputAlways == RunSpec => []TextIsOutput
<1>1. RunInv => TextIsOutput
  <2>. SUFFICES ASSUME RunInv, mode = "text", queue.seen = "done"
                PROVE  failure = "ok" /\ queue.got = answer
    BY DEF TextIsOutput
  <2>1. queue.values = <<>> /\ queue.state = "closed" /\ failure = "ok"
    BY DEF RunInv, PathInv
  <2>2. ~queue.full /\ emitted = answer
    BY <2>1 DEF RunInv, PathInv, CallInv
  <2>3. queue.got \in Items
    BY DEF RunInv, QueueOK, Queues
  <2>4. Joins(queue.got, <<>>, emitted)
    BY <2>1, <2>2 DEF RunInv, TextInv, TextWaits
  <2>5. queue.got = emitted
    BY <2>3, <2>4, JoinedEmpty
  <2>. QED  BY <2>1, <2>2, <2>5
<1>. QED  BY <1>1, RunInvAlways, PTL

\* How a run ended is told by the last event its consumer sees that is no log of a plugin, a
\* full queue apart, however many logs plugins write while the renderer shows the end and while
\* they are disposed of; and the streamed text contradicts the output only after a failed
\* attempt or in a Workspace.
THEOREM EndIsTold == RunSpec => []EndTold
<1>1. RunInv => RunTypeOK
  <2>. SUFFICES ASSUME RunInv PROVE RunTypeOK
    OBVIOUS
  <2>1. /\ queue.state \in {"open", "closed", "failed"} /\ queue.seen \in {"items", "done", "error", "left"}
        /\ queue.bytes = Waiting(queue.values) /\ queue.bytes <= MaxBytes
        /\ queue.waiting => queue.values = <<>>
    BY DEF RunInv, QueueOK, Queues
  <2>. QED  BY <2>1 DEF RunInv, ControlOK, RunTypeOK
<1>2. RunInv => LastEventTells
  <2>. SUFFICES ASSUME RunInv, mode = "events", queue.seen = "done"
                PROVE  /\ failure = "ok" => queue.got[Len(queue.got)] = "result"
                       /\ failure # "ok" => queue.full \/ queue.got[Len(queue.got)] = "error"
    BY DEF LastEventTells
  <2>1. queue.values = <<>> /\ pc = "ended"
    BY DEF RunInv, PathInv
  <2>2. \A x : Tells(queue, x) => queue.got = x
    BY <2>1 DEF Tells
  <2>3. failure = "ok" => queue.got = <<"result">>
    BY <2>2 DEF RunInv, LastInv
  <2>4. failure # "ok" => queue.full \/ queue.got = <<"error">>
    BY <2>1, <2>2 DEF RunInv, LastInv, Ok
  <2>. QED  BY <2>3, <2>4
<1>3. RunInv => MismatchExplained
  BY DEF RunInv
<1>. QED  BY <1>1, <1>2, <1>3, RunInvAlways, PTL DEF EndTold

-----------------------------------------------------------------------------
(* The workers of a plugin.                                                *)

\* The promise of a start is kept exactly as long as its worker.
Joined == loading = worker
WorkerAlive == worker # NoWorker => Alive(worker)

\* A call that has not come to load() has started no worker.
Fresh == \A w \in Workers : st[w] \in {"idle", "verifying"} =>
  start[w] = "none" /\ thread[w] = "none" /\ w \notin term

OpenKnown == \A w \in Workers : start[w] = "open" => worker = w \/ w \in term
CatcherFailed ==
  \A w \in Workers : catcher[w] # NoWorker => start[catcher[w]] \in {"failing", "failed"}

\* A call that goes on after load() has the worker it waited for, or that one is ending.
LoadedKnown == \A i \in Invocations : st[i] = "loaded" =>
  of[i] # NoWorker /\ start[of[i]] = "ok" /\ Alive(of[i]) /\ (worker = of[i] \/ of[i] \in term)

WorkersInv ==
  Joined /\ WorkerAlive /\ Fresh /\ OpenKnown /\ CatcherFailed /\ ThreadsKnown /\ LoadedKnown
IInv == SandboxTypeOK /\ WorkersInv /\ PostedToReady /\ RegistryServed /\ RegistryWaits

-----------------------------------------------------------------------------
(* Type correctness.                                                       *)

LEMMA TypeInit == SandboxInit => SandboxTypeOK
BY DEF SandboxInit, SandboxTypeOK, Workers

LEMMA TypeNext == SandboxTypeOK /\ [SandboxNext]_sandboxVars => SandboxTypeOK'
<1>. SUFFICES ASSUME SandboxTypeOK, [SandboxNext]_sandboxVars PROVE SandboxTypeOK'
  OBVIOUS
<1>. USE DEF SandboxTypeOK, Workers, hostVars, callVars, workerVars
<1>1. CASE Verify
  BY <1>1 DEF Verify
<1>2. CASE DisposeSandbox
  BY <1>2 DEF DisposeSandbox, DisposeOf, Terminating, SettledCalls
<1>3. ASSUME NEW i \in Invocations, Refuse(i) PROVE SandboxTypeOK'
  BY <1>3 DEF Refuse, SettledCalls
<1>4. ASSUME NEW i \in Invocations, RunCall(i) PROVE SandboxTypeOK'
  BY <1>4 DEF RunCall, Loading, To, SettledCalls
<1>5. ASSUME NEW i \in Invocations, Post(i) PROVE SandboxTypeOK'
  BY <1>5 DEF Post, To, SettledCalls
<1>6. ASSUME NEW i \in Invocations, Request(i) PROVE SandboxTypeOK'
  BY <1>6 DEF Request, To, Verifying
<1>7. ASSUME NEW i \in Invocations, AbortCall(i) PROVE SandboxTypeOK'
  BY <1>7 DEF AbortCall, Forget, SettledCalls
<1>8. ASSUME NEW i \in Invocations, CallTimeout(i) PROVE SandboxTypeOK'
  BY <1>8 DEF CallTimeout, StopPlugin, DisposeOf, Terminating, SettledCalls
<1>9. ASSUME NEW i \in Invocations, HostResult(i) PROVE SandboxTypeOK'
  BY <1>9 DEF HostResult, SettledCalls
<1>10. ASSUME NEW i \in Invocations, WorkerRun(i) PROVE SandboxTypeOK'
  BY <1>10 DEF WorkerRun, At, WorkerOnly
<1>11. ASSUME NEW i \in Invocations, WorkerAnswer(i) PROVE SandboxTypeOK'
  BY <1>11 DEF WorkerAnswer, Running, At, WorkerOnly
<1>12. ASSUME NEW i \in Invocations, AskPermission(i) PROVE SandboxTypeOK'
  BY <1>12 DEF AskPermission, Running, At, WorkerOnly
<1>13. ASSUME NEW i \in Invocations, HostPermission(i) PROVE SandboxTypeOK'
  BY <1>13 DEF HostPermission, Denied, Replied, WorkerOnly
<1>14. ASSUME NEW i \in Invocations, HandlerDone(i) PROVE SandboxTypeOK'
  BY <1>14 DEF HandlerDone, Replied, WorkerOnly
<1>15. ASSUME NEW i \in Invocations, WorkerReply(i) PROVE SandboxTypeOK'
  BY <1>15 DEF WorkerReply, At, WorkerOnly
<1>16. ASSUME NEW w \in Workers, HostReady(w) PROVE SandboxTypeOK'
  BY <1>16 DEF HostReady, SettledCalls, AwaitStart
<1>17. ASSUME NEW w \in Workers, HostInitError(w) PROVE SandboxTypeOK'
  BY <1>17 DEF HostInitError, StartFails, DisposeOf, Terminating, Other, FailedNow, AwaitStart,
               SettledCalls
<1>18. ASSUME NEW w \in Workers, StartTimeout(w) PROVE SandboxTypeOK'
  BY <1>18 DEF StartTimeout, StartFails, DisposeOf, Terminating, Other, FailedNow, AwaitStart,
               SettledCalls
<1>19. ASSUME NEW w \in Workers, Exit(w) PROVE SandboxTypeOK'
  BY <1>19 DEF Exit, ExitFails, DisposeOf, Terminating, Other, AwaitStart, SettledCalls
<1>20. ASSUME NEW w \in Workers, Crash(w) PROVE SandboxTypeOK'
  BY <1>20 DEF Crash, SettledCalls
<1>21. ASSUME NEW w \in Workers, Evaluate(w) PROVE SandboxTypeOK'
  BY <1>21 DEF Evaluate, WorkerOnly
<1>22. CASE UNCHANGED sandboxVars
  BY <1>22 DEF sandboxVars
<1>. QED
  BY <1>1, <1>2, <1>3, <1>4, <1>5, <1>6, <1>7, <1>8, <1>9, <1>10, <1>11, <1>12, <1>13, <1>14,
     <1>15, <1>16, <1>17, <1>18, <1>19, <1>20, <1>21, <1>22
     DEF SandboxNext, Continuation, WorkerStep, Permission

-----------------------------------------------------------------------------
(* The workers.                                                            *)

LEMMA WorkersInit == SandboxInit => WorkersInv
BY SandboxAssumption
   DEF SandboxInit, Workers, Alive, WorkersInv, Joined, WorkerAlive, Fresh, OpenKnown, CatcherFailed,
       ThreadsKnown, LoadedKnown

LEMMA WorkersNext == SandboxTypeOK /\ WorkersInv /\ [SandboxNext]_sandboxVars => WorkersInv'
<1>. SUFFICES ASSUME SandboxTypeOK, WorkersInv, [SandboxNext]_sandboxVars PROVE WorkersInv'
  OBVIOUS
<1>. USE SandboxAssumption
     DEF SandboxTypeOK, Workers, hostVars, callVars, workerVars, Alive, WorkersInv, Joined, WorkerAlive,
         Fresh, OpenKnown, CatcherFailed, ThreadsKnown, LoadedKnown
<1>1. CASE Verify
  BY <1>1 DEF Verify, Drained
<1>2. CASE DisposeSandbox
  BY <1>2 DEF DisposeSandbox, DisposeOf, Terminating, SettledCalls, Drained
<1>3. ASSUME NEW i \in Invocations, Refuse(i) PROVE WorkersInv'
  BY <1>3 DEF Refuse, SettledCalls
<1>4. ASSUME NEW i \in Invocations, RunCall(i) PROVE WorkersInv'
  BY <1>4 DEF RunCall, Loading, To, SettledCalls
<1>5. ASSUME NEW i \in Invocations, Post(i) PROVE WorkersInv'
  BY <1>5 DEF Post, To, SettledCalls
<1>6. ASSUME NEW i \in Invocations, Request(i) PROVE WorkersInv'
  BY <1>6 DEF Request, To, Verifying
<1>7. ASSUME NEW i \in Invocations, AbortCall(i) PROVE WorkersInv'
  BY <1>7 DEF AbortCall, Forget, SettledCalls, Drained
<1>8. ASSUME NEW i \in Invocations, CallTimeout(i) PROVE WorkersInv'
  BY <1>8 DEF CallTimeout, StopPlugin, DisposeOf, Terminating, SettledCalls, Drained
<1>9. ASSUME NEW i \in Invocations, HostResult(i) PROVE WorkersInv'
  BY <1>9 DEF HostResult, SettledCalls, Drained
<1>10. ASSUME NEW i \in Invocations, WorkerRun(i) PROVE WorkersInv'
  BY <1>10 DEF WorkerRun, At, WorkerOnly
<1>11. ASSUME NEW i \in Invocations, WorkerAnswer(i) PROVE WorkersInv'
  BY <1>11 DEF WorkerAnswer, Running, At, WorkerOnly
<1>12. ASSUME NEW i \in Invocations, AskPermission(i) PROVE WorkersInv'
  BY <1>12 DEF AskPermission, Running, At, WorkerOnly
<1>13. ASSUME NEW i \in Invocations, HostPermission(i) PROVE WorkersInv'
  BY <1>13 DEF HostPermission, Denied, Replied, WorkerOnly, Drained
<1>14. ASSUME NEW i \in Invocations, HandlerDone(i) PROVE WorkersInv'
  BY <1>14 DEF HandlerDone, Replied, WorkerOnly, Drained
<1>15. ASSUME NEW i \in Invocations, WorkerReply(i) PROVE WorkersInv'
  BY <1>15 DEF WorkerReply, At, WorkerOnly
<1>16. ASSUME NEW w \in Workers, HostReady(w) PROVE WorkersInv'
  BY <1>16 DEF HostReady, SettledCalls, AwaitStart, Drained
<1>17. ASSUME NEW w \in Workers, HostInitError(w) PROVE WorkersInv'
  BY <1>17 DEF HostInitError, StartFails, DisposeOf, Terminating, Other, FailedNow, AwaitStart,
               SettledCalls, Drained
<1>18. ASSUME NEW w \in Workers, StartTimeout(w) PROVE WorkersInv'
  BY <1>18 DEF StartTimeout, StartFails, DisposeOf, Terminating, Other, FailedNow, AwaitStart,
               SettledCalls, Drained
<1>19. ASSUME NEW w \in Workers, Exit(w) PROVE WorkersInv'
  BY <1>19 DEF Exit, ExitFails, DisposeOf, Terminating, Other, AwaitStart, SettledCalls, Drained
<1>20. ASSUME NEW w \in Workers, Crash(w) PROVE WorkersInv'
  BY <1>20 DEF Crash, SettledCalls, Drained
<1>21. ASSUME NEW w \in Workers, Evaluate(w) PROVE WorkersInv'
  BY <1>21 DEF Evaluate, WorkerOnly
<1>22. CASE UNCHANGED sandboxVars
  BY <1>22 DEF sandboxVars
<1>. QED
  BY <1>1, <1>2, <1>3, <1>4, <1>5, <1>6, <1>7, <1>8, <1>9, <1>10, <1>11, <1>12, <1>13, <1>14,
     <1>15, <1>16, <1>17, <1>18, <1>19, <1>20, <1>21, <1>22
     DEF SandboxNext, Continuation, WorkerStep, Permission

-----------------------------------------------------------------------------
(* The registry.                                                           *)

LEMMA WaitsNext == IInv /\ [SandboxNext]_sandboxVars => RegistryWaits'
<1>. SUFFICES ASSUME SandboxTypeOK, WorkersInv, RegistryWaits, [SandboxNext]_sandboxVars PROVE RegistryWaits'
  BY DEF IInv
<1>. USE SandboxAssumption
     DEF SandboxTypeOK, Workers, hostVars, callVars, workerVars, Alive, RegistryWaits
<1>1. CASE Verify
  BY <1>1 DEF Verify
<1>2. CASE DisposeSandbox
  BY <1>2 DEF DisposeSandbox, DisposeOf, Terminating, SettledCalls
<1>3. ASSUME NEW i \in Invocations, Refuse(i) PROVE RegistryWaits'
  BY <1>3 DEF Refuse, SettledCalls
<1>4. ASSUME NEW i \in Invocations, RunCall(i) PROVE RegistryWaits'
  BY <1>4 DEF RunCall, Loading, To, SettledCalls
<1>5. ASSUME NEW i \in Invocations, Post(i) PROVE RegistryWaits'
  BY <1>5 DEF Post, To, SettledCalls
<1>6. ASSUME NEW i \in Invocations, Request(i) PROVE RegistryWaits'
  BY <1>6 DEF Request, To, Verifying
<1>7. ASSUME NEW i \in Invocations, AbortCall(i) PROVE RegistryWaits'
  BY <1>7 DEF AbortCall, Forget, SettledCalls
<1>8. ASSUME NEW i \in Invocations, CallTimeout(i) PROVE RegistryWaits'
  BY <1>8 DEF CallTimeout, StopPlugin, DisposeOf, Terminating, SettledCalls
<1>9. ASSUME NEW i \in Invocations, HostResult(i) PROVE RegistryWaits'
  BY <1>9 DEF HostResult, SettledCalls
<1>10. ASSUME NEW i \in Invocations, WorkerRun(i) PROVE RegistryWaits'
  BY <1>10 DEF WorkerRun, At, WorkerOnly
<1>11. ASSUME NEW i \in Invocations, WorkerAnswer(i) PROVE RegistryWaits'
  BY <1>11 DEF WorkerAnswer, Running, At, WorkerOnly
<1>12. ASSUME NEW i \in Invocations, AskPermission(i) PROVE RegistryWaits'
  BY <1>12 DEF AskPermission, Running, At, WorkerOnly
<1>13. ASSUME NEW i \in Invocations, HostPermission(i) PROVE RegistryWaits'
  BY <1>13 DEF HostPermission, Denied, Replied, WorkerOnly
<1>14. ASSUME NEW i \in Invocations, HandlerDone(i) PROVE RegistryWaits'
  BY <1>14 DEF HandlerDone, Replied, WorkerOnly
<1>15. ASSUME NEW i \in Invocations, WorkerReply(i) PROVE RegistryWaits'
  BY <1>15 DEF WorkerReply, At, WorkerOnly
<1>16. ASSUME NEW w \in Workers, HostReady(w) PROVE RegistryWaits'
  BY <1>16 DEF HostReady, SettledCalls, AwaitStart
<1>17. ASSUME NEW w \in Workers, HostInitError(w) PROVE RegistryWaits'
  BY <1>17 DEF HostInitError, StartFails, DisposeOf, Terminating, Other, FailedNow, AwaitStart,
               SettledCalls
<1>18. ASSUME NEW w \in Workers, StartTimeout(w) PROVE RegistryWaits'
  BY <1>18 DEF StartTimeout, StartFails, DisposeOf, Terminating, Other, FailedNow, AwaitStart,
               SettledCalls
<1>19. ASSUME NEW w \in Workers, Exit(w) PROVE RegistryWaits'
  BY <1>19 DEF Exit, ExitFails, DisposeOf, Terminating, Other, AwaitStart, SettledCalls
<1>20. ASSUME NEW w \in Workers, Crash(w) PROVE RegistryWaits'
  BY <1>20 DEF Crash, SettledCalls
<1>21. ASSUME NEW w \in Workers, Evaluate(w) PROVE RegistryWaits'
  BY <1>21 DEF Evaluate, WorkerOnly
<1>22. CASE UNCHANGED sandboxVars
  BY <1>22 DEF sandboxVars
<1>. QED
  BY <1>1, <1>2, <1>3, <1>4, <1>5, <1>6, <1>7, <1>8, <1>9, <1>10, <1>11, <1>12, <1>13, <1>14,
     <1>15, <1>16, <1>17, <1>18, <1>19, <1>20, <1>21, <1>22
     DEF SandboxNext, Continuation, WorkerStep, Permission

LEMMA ServedNext == IInv /\ [SandboxNext]_sandboxVars => RegistryServed'
<1>. SUFFICES ASSUME SandboxTypeOK, WorkersInv, RegistryWaits, RegistryServed, [SandboxNext]_sandboxVars
               PROVE  RegistryServed'
  BY DEF IInv
<1>. USE SandboxAssumption
     DEF SandboxTypeOK, Workers, hostVars, callVars, workerVars, Alive, RegistryServed
<1>1. CASE Verify
  BY <1>1 DEF Verify
<1>2. CASE DisposeSandbox
  BY <1>2 DEF DisposeSandbox, DisposeOf, Terminating, SettledCalls
<1>3. ASSUME NEW i \in Invocations, Refuse(i) PROVE RegistryServed'
  BY <1>3 DEF Refuse, SettledCalls
<1>4. ASSUME NEW i \in Invocations, RunCall(i) PROVE RegistryServed'
  BY <1>4 DEF RunCall, Loading, To, SettledCalls, RegistryWaits
<1>5. ASSUME NEW i \in Invocations, Post(i) PROVE RegistryServed'
  BY <1>5 DEF Post, To, SettledCalls, WorkersInv, Joined, WorkerAlive, LoadedKnown
<1>6. ASSUME NEW i \in Invocations, Request(i) PROVE RegistryServed'
  BY <1>6 DEF Request, To, Verifying
<1>7. ASSUME NEW i \in Invocations, AbortCall(i) PROVE RegistryServed'
  BY <1>7 DEF AbortCall, Forget, SettledCalls
<1>8. ASSUME NEW i \in Invocations, CallTimeout(i) PROVE RegistryServed'
  BY <1>8 DEF CallTimeout, StopPlugin, DisposeOf, Terminating, SettledCalls
<1>9. ASSUME NEW i \in Invocations, HostResult(i) PROVE RegistryServed'
  BY <1>9 DEF HostResult, SettledCalls
<1>10. ASSUME NEW i \in Invocations, WorkerRun(i) PROVE RegistryServed'
  BY <1>10 DEF WorkerRun, At, WorkerOnly
<1>11. ASSUME NEW i \in Invocations, WorkerAnswer(i) PROVE RegistryServed'
  BY <1>11 DEF WorkerAnswer, Running, At, WorkerOnly
<1>12. ASSUME NEW i \in Invocations, AskPermission(i) PROVE RegistryServed'
  BY <1>12 DEF AskPermission, Running, At, WorkerOnly
<1>13. ASSUME NEW i \in Invocations, HostPermission(i) PROVE RegistryServed'
  BY <1>13 DEF HostPermission, Denied, Replied, WorkerOnly
<1>14. ASSUME NEW i \in Invocations, HandlerDone(i) PROVE RegistryServed'
  BY <1>14 DEF HandlerDone, Replied, WorkerOnly
<1>15. ASSUME NEW i \in Invocations, WorkerReply(i) PROVE RegistryServed'
  BY <1>15 DEF WorkerReply, At, WorkerOnly
<1>16. ASSUME NEW w \in Workers, HostReady(w) PROVE RegistryServed'
  BY <1>16 DEF HostReady, SettledCalls, AwaitStart
<1>17. ASSUME NEW w \in Workers, HostInitError(w) PROVE RegistryServed'
  BY <1>17 DEF HostInitError, StartFails, DisposeOf, Terminating, Other, FailedNow, AwaitStart,
               SettledCalls
<1>18. ASSUME NEW w \in Workers, StartTimeout(w) PROVE RegistryServed'
  BY <1>18 DEF StartTimeout, StartFails, DisposeOf, Terminating, Other, FailedNow, AwaitStart,
               SettledCalls
<1>19. ASSUME NEW w \in Workers, Exit(w) PROVE RegistryServed'
  BY <1>19 DEF Exit, ExitFails, DisposeOf, Terminating, Other, AwaitStart, SettledCalls, Drained
<1>20. ASSUME NEW w \in Workers, Crash(w) PROVE RegistryServed'
  BY <1>20 DEF Crash, SettledCalls
<1>21. ASSUME NEW w \in Workers, Evaluate(w) PROVE RegistryServed'
  BY <1>21 DEF Evaluate, WorkerOnly
<1>22. CASE UNCHANGED sandboxVars
  BY <1>22 DEF sandboxVars
<1>. QED
  BY <1>1, <1>2, <1>3, <1>4, <1>5, <1>6, <1>7, <1>8, <1>9, <1>10, <1>11, <1>12, <1>13, <1>14,
     <1>15, <1>16, <1>17, <1>18, <1>19, <1>20, <1>21, <1>22
     DEF SandboxNext, Continuation, WorkerStep, Permission

LEMMA ReadyNext == IInv /\ [SandboxNext]_sandboxVars => PostedToReady'
<1>. SUFFICES ASSUME SandboxTypeOK, WorkersInv, RegistryWaits, PostedToReady, [SandboxNext]_sandboxVars
               PROVE  PostedToReady'
  BY DEF IInv
<1>. USE SandboxAssumption
     DEF SandboxTypeOK, Workers, hostVars, callVars, workerVars, Alive, PostedToReady
<1>1. CASE Verify
  BY <1>1 DEF Verify
<1>2. CASE DisposeSandbox
  BY <1>2 DEF DisposeSandbox, DisposeOf, Terminating, SettledCalls
<1>3. ASSUME NEW i \in Invocations, Refuse(i) PROVE PostedToReady'
  BY <1>3 DEF Refuse, SettledCalls
<1>4. ASSUME NEW i \in Invocations, RunCall(i) PROVE PostedToReady'
  BY <1>4 DEF RunCall, Loading, To, SettledCalls, RegistryWaits, WorkersInv, Fresh
<1>5. ASSUME NEW i \in Invocations, Post(i) PROVE PostedToReady'
  BY <1>5 DEF Post, To, SettledCalls, WorkersInv, Joined, WorkerAlive, LoadedKnown
<1>6. ASSUME NEW i \in Invocations, Request(i) PROVE PostedToReady'
  BY <1>6 DEF Request, To, Verifying
<1>7. ASSUME NEW i \in Invocations, AbortCall(i) PROVE PostedToReady'
  BY <1>7 DEF AbortCall, Forget, SettledCalls
<1>8. ASSUME NEW i \in Invocations, CallTimeout(i) PROVE PostedToReady'
  BY <1>8 DEF CallTimeout, StopPlugin, DisposeOf, Terminating, SettledCalls
<1>9. ASSUME NEW i \in Invocations, HostResult(i) PROVE PostedToReady'
  BY <1>9 DEF HostResult, SettledCalls
<1>10. ASSUME NEW i \in Invocations, WorkerRun(i) PROVE PostedToReady'
  BY <1>10 DEF WorkerRun, At, WorkerOnly
<1>11. ASSUME NEW i \in Invocations, WorkerAnswer(i) PROVE PostedToReady'
  BY <1>11 DEF WorkerAnswer, Running, At, WorkerOnly
<1>12. ASSUME NEW i \in Invocations, AskPermission(i) PROVE PostedToReady'
  BY <1>12 DEF AskPermission, Running, At, WorkerOnly
<1>13. ASSUME NEW i \in Invocations, HostPermission(i) PROVE PostedToReady'
  BY <1>13 DEF HostPermission, Denied, Replied, WorkerOnly
<1>14. ASSUME NEW i \in Invocations, HandlerDone(i) PROVE PostedToReady'
  BY <1>14 DEF HandlerDone, Replied, WorkerOnly
<1>15. ASSUME NEW i \in Invocations, WorkerReply(i) PROVE PostedToReady'
  BY <1>15 DEF WorkerReply, At, WorkerOnly
<1>16. ASSUME NEW w \in Workers, HostReady(w) PROVE PostedToReady'
  BY <1>16 DEF HostReady, SettledCalls, AwaitStart
<1>17. ASSUME NEW w \in Workers, HostInitError(w) PROVE PostedToReady'
  BY <1>17 DEF HostInitError, StartFails, DisposeOf, Terminating, Other, FailedNow, AwaitStart,
               SettledCalls
<1>18. ASSUME NEW w \in Workers, StartTimeout(w) PROVE PostedToReady'
  BY <1>18 DEF StartTimeout, StartFails, DisposeOf, Terminating, Other, FailedNow, AwaitStart,
               SettledCalls
<1>19. ASSUME NEW w \in Workers, Exit(w) PROVE PostedToReady'
  BY <1>19 DEF Exit, ExitFails, DisposeOf, Terminating, Other, AwaitStart, SettledCalls, WorkersInv,
               CatcherFailed
<1>20. ASSUME NEW w \in Workers, Crash(w) PROVE PostedToReady'
  BY <1>20 DEF Crash, SettledCalls
<1>21. ASSUME NEW w \in Workers, Evaluate(w) PROVE PostedToReady'
  BY <1>21 DEF Evaluate, WorkerOnly
<1>22. CASE UNCHANGED sandboxVars
  BY <1>22 DEF sandboxVars
<1>. QED
  BY <1>1, <1>2, <1>3, <1>4, <1>5, <1>6, <1>7, <1>8, <1>9, <1>10, <1>11, <1>12, <1>13, <1>14,
     <1>15, <1>16, <1>17, <1>18, <1>19, <1>20, <1>21, <1>22
     DEF SandboxNext, Continuation, WorkerStep, Permission

-----------------------------------------------------------------------------
(* The sandbox implements PluginCalls.                                     *)

CallerStep == Caller!Next \/ UNCHANGED <<Called, abortedCalls>>

\* How far the caller of one call sees it, when run() stands at `where`.
StageOf(where) == IF where = "idle" THEN "none" ELSE IF where = "posted" THEN "working"
                  ELSE IF where = "settled" THEN "answered" ELSE "asked"

LEMMA CalledIs == Called = [i \in Invocations |-> StageOf(st[i])] /\ Called' = [i \in Invocations |-> StageOf(st'[i])]
BY DEF Called, StageOf

\* A step that changes no call's stage, and steps that end one call or many.
LEMMA CalledStays ==
  ASSUME UNCHANGED abortedCalls, \A i \in Invocations : StageOf(st'[i]) = StageOf(st[i]) PROVE CallerStep
BY CalledIs DEF CallerStep

LEMMA CalledMoves ==
  ASSUME SandboxTypeOK, NEW i \in Invocations, NEW where, st' = [st EXCEPT ![i] = where]
  PROVE  Called' = [Called EXCEPT ![i] = StageOf(where)] /\ Called[i] = StageOf(st[i])
BY CalledIs DEF SandboxTypeOK

LEMMA CalledEnds ==
  ASSUME SandboxTypeOK, UNCHANGED abortedCalls, NEW i \in Invocations, st[i] \notin {"idle", "settled"},
         SettledCalls({i})
  PROVE  CallerStep
<1>1. st' = [st EXCEPT ![i] = "settled"]
  BY DEF SandboxTypeOK, SettledCalls
<1>2. Called' = [Called EXCEPT ![i] = "answered"] /\ Called[i] \in {"asked", "working"}
  BY <1>1, CalledMoves DEF StageOf, SandboxTypeOK
<1>3. Caller!End(i)
  BY <1>2 DEF Caller!End, Caller!Move
<1>. QED  BY <1>3 DEF CallerStep, Caller!Next

LEMMA AllEnd ==
  ASSUME SandboxTypeOK, RegistryWaits, UNCHANGED abortedCalls, NEW S \in SUBSET Invocations,
         \A i \in S : st[i] = "loading", SettledCalls(registry \union S)
  PROVE  CallerStep
<1>1. Caller!Works = registry /\ S \subseteq Caller!Waits
  BY CalledIs DEF Caller!Works, Caller!Waits, RegistryWaits, StageOf, SandboxTypeOK
<1>2. \A i \in Invocations : StageOf(st'[i]) = IF i \in registry \union S THEN "answered" ELSE StageOf(st[i])
  BY DEF SettledCalls, StageOf
<1>3. Called' = [i \in Invocations |-> IF i \in Caller!Works \union S THEN "answered" ELSE Called[i]]
  BY <1>1, <1>2, CalledIs
<1>4. Caller!EndAll(S)
  BY <1>3 DEF Caller!EndAll
<1>. QED  BY <1>1, <1>4 DEF CallerStep, Caller!Next

LEMMA NoneEnds ==
  ASSUME SandboxTypeOK, UNCHANGED abortedCalls, SettledCalls({}) PROVE CallerStep
<1>1. \A i \in Invocations : st'[i] = st[i]
  BY DEF SettledCalls
<1>. QED  BY <1>1, CalledStays

\* What the end of a worker or of its start ends: nobody, or every registered call and
\* those that wait for that start.
LEMMA StartEnds ==
  ASSUME SandboxTypeOK, RegistryWaits, UNCHANGED abortedCalls, NEW w \in Workers, SettledCalls(FailedNow(w))
  PROVE  CallerStep
<1>1. AwaitStart({w}) \in SUBSET Invocations /\ \A i \in AwaitStart({w}) : st[i] = "loading"
  BY DEF AwaitStart
<1>2. CASE FailedNow(w) = {}
  BY <1>2, NoneEnds
<1>3. CASE FailedNow(w) = registry \union AwaitStart({w})
  BY <1>1, <1>3, AllEnd
<1>. QED  BY <1>2, <1>3 DEF FailedNow

LEMMA CallerSteps == IInv /\ [SandboxNext]_sandboxVars => CallerStep
<1>. SUFFICES ASSUME SandboxTypeOK, WorkersInv, RegistryWaits, [SandboxNext]_sandboxVars PROVE CallerStep
  BY DEF IInv
<1>. USE SandboxAssumption DEF Workers, hostVars, callVars, workerVars
<1>1. ASSUME st' = st, UNCHANGED abortedCalls PROVE CallerStep
  BY <1>1, CalledStays
<1>2. CASE Verify
  BY <1>1, <1>2 DEF Verify
<1>3. CASE DisposeSandbox
  <2>1. CASE worker = NoWorker
    <3>1. registry = registry \union {}
      OBVIOUS
    <3>. QED  BY <1>3, <2>1, <3>1, AllEnd DEF DisposeSandbox
  <2>. QED  BY <1>1, <1>3, <2>1 DEF DisposeSandbox
<1>4. ASSUME NEW i \in Invocations, Refuse(i) PROVE CallerStep
  BY <1>4, CalledEnds DEF Refuse
<1>5. ASSUME NEW i \in Invocations, RunCall(i) PROVE CallerStep
  <2>1. CASE SettledCalls({i})
    BY <1>5, <2>1, CalledEnds DEF RunCall
  <2>2. CASE \E where \in {"loading", "loaded"} : To(i, where)
    BY <1>5, <2>2, CalledStays DEF RunCall, To, StageOf, SandboxTypeOK
  <2>. QED  BY <1>5, <2>1, <2>2 DEF RunCall
<1>6. ASSUME NEW i \in Invocations, Post(i) PROVE CallerStep
  <2>1. CASE i \in abortedCalls
    BY <1>6, <2>1, CalledEnds DEF Post
  <2>2. CASE i \notin abortedCalls
    <3>1. Called' = [Called EXCEPT ![i] = "working"] /\ Called[i] = "asked"
      BY <1>6, <2>2, CalledMoves DEF Post, To, StageOf
    <3>2. Caller!Begin(i)
      BY <1>6, <2>2, <3>1 DEF Post, Caller!Begin, Caller!Move
    <3>. QED  BY <3>2 DEF CallerStep, Caller!Next
  <2>. QED  BY <2>1, <2>2
<1>7. ASSUME NEW i \in Invocations, Request(i) PROVE CallerStep
  <2>1. Called' = [Called EXCEPT ![i] = "asked"] /\ Called[i] = "none"
    <3>1. st[i] = "idle" /\ st' = [st EXCEPT ![i] = "verifying"]
      BY <1>7 DEF Request, To, Verifying
    <3>2. StageOf("verifying") = "asked" /\ StageOf("idle") = "none"
      BY DEF StageOf
    <3>3. Called' = [Called EXCEPT ![i] = StageOf("verifying")] /\ Called[i] = StageOf(st[i])
      BY <3>1, CalledMoves
    <3>. QED  BY <3>1, <3>2, <3>3
  <2>2. Caller!Ask(i)
    BY <1>7, <2>1 DEF Request, Caller!Ask, Caller!Move
  <2>. QED  BY <2>2 DEF CallerStep, Caller!Next
<1>8. ASSUME NEW i \in Invocations, AbortCall(i) PROVE CallerStep
  <2>1. Called[i] = StageOf(st[i]) /\ i \in (Caller!Waits \union Caller!Works) \ abortedCalls
    BY <1>8, CalledIs DEF AbortCall, Caller!Waits, Caller!Works, StageOf
  <2>2. Called' = [Called EXCEPT ![i] = IF @ = "working" THEN "answered" ELSE @]
    <3>1. CASE st[i] = "posted"
      <4>1. st' = [st EXCEPT ![i] = "settled"]
        BY <1>8, <3>1 DEF AbortCall, SettledCalls, SandboxTypeOK
      <4>. QED  BY <2>1, <3>1, <4>1, CalledMoves DEF StageOf
    <3>2. CASE st[i] # "posted"
      <4>1. st' = st /\ Called' = Called /\ Called[i] = "asked"
        BY <1>8, <2>1, <3>2, CalledIs DEF AbortCall, StageOf
      <4>. QED  BY <4>1, CalledIs
    <3>. QED  BY <3>1, <3>2
  <2>3. Caller!Leave(i)
    BY <1>8, <2>1, <2>2 DEF AbortCall, Caller!Leave
  <2>. QED  BY <2>3 DEF CallerStep, Caller!Next
<1>9. ASSUME NEW i \in Invocations, CallTimeout(i) PROVE CallerStep
  <2>1. st[i] = "posted" /\ registry \union {i} = registry \union {} /\ UNCHANGED abortedCalls
    BY <1>9 DEF CallTimeout, RegistryWaits
  <2>2. CASE worker = NoWorker
    BY <1>9, <2>1, <2>2, AllEnd DEF CallTimeout
  <2>3. CASE worker # NoWorker
    BY <1>9, <2>1, <2>3, CalledEnds DEF CallTimeout
  <2>. QED  BY <2>2, <2>3
<1>10. ASSUME NEW i \in Invocations, HostResult(i) PROVE CallerStep
  <2>1. CASE i \in registry
    <3>1. registry \intersect {i} = {i} /\ st[i] = "posted"
      BY <2>1 DEF RegistryWaits
    <3>. QED  BY <1>10, <3>1, CalledEnds DEF HostResult
  <2>2. CASE i \notin registry
    <3>1. registry \intersect {i} = {}
      BY <2>2
    <3>. QED  BY <1>10, <3>1, NoneEnds DEF HostResult
  <2>. QED  BY <2>1, <2>2
<1>11. ASSUME NEW i \in Invocations, WorkerRun(i) PROVE CallerStep
  BY <1>1, <1>11 DEF WorkerRun, WorkerOnly
<1>12. ASSUME NEW i \in Invocations, WorkerAnswer(i) PROVE CallerStep
  BY <1>1, <1>12 DEF WorkerAnswer, WorkerOnly
<1>13. ASSUME NEW i \in Invocations, AskPermission(i) PROVE CallerStep
  BY <1>1, <1>13 DEF AskPermission, WorkerOnly
<1>14. ASSUME NEW i \in Invocations, Permission(i) PROVE CallerStep
  BY <1>1, <1>14 DEF Permission, HostPermission, HandlerDone, WorkerReply, WorkerOnly
<1>15. ASSUME NEW w \in Workers, HostReady(w) PROVE CallerStep
  BY <1>15, CalledStays DEF HostReady, AwaitStart, StageOf
<1>16. ASSUME NEW w \in Workers, HostInitError(w) PROVE CallerStep
  BY <1>16, StartEnds DEF HostInitError
<1>17. ASSUME NEW w \in Workers, StartTimeout(w) PROVE CallerStep
  BY <1>17, StartEnds DEF StartTimeout
<1>18. ASSUME NEW w \in Workers, Exit(w) PROVE CallerStep
  <2>1. PICK failed : SettledCalls(registry \union AwaitStart(failed)) /\ UNCHANGED abortedCalls
    BY <1>18 DEF Exit, ExitFails
  <2>2. AwaitStart(failed) \in SUBSET Invocations /\ \A i \in AwaitStart(failed) : st[i] = "loading"
    BY DEF AwaitStart
  <2>. QED  BY <2>1, <2>2, AllEnd
<1>19. ASSUME NEW w \in Workers, Crash(w) PROVE CallerStep
  <2>1. registry = registry \union {}
    OBVIOUS
  <2>. QED  BY <1>19, <2>1, AllEnd DEF Crash
<1>20. ASSUME NEW w \in Workers, Evaluate(w) PROVE CallerStep
  BY <1>1, <1>20 DEF Evaluate, WorkerOnly
<1>21. CASE UNCHANGED sandboxVars
  BY <1>1, <1>21 DEF sandboxVars
<1>. QED
  BY <1>2, <1>3, <1>4, <1>5, <1>6, <1>7, <1>8, <1>9, <1>10, <1>11, <1>12, <1>13, <1>14, <1>15, <1>16,
     <1>17, <1>18, <1>19, <1>20, <1>21 DEF SandboxNext, Continuation, WorkerStep

-----------------------------------------------------------------------------
(* The theorems.                                                           *)

LEMMA Inductive == SandboxSpec => []IInv
<1>1. SandboxInit => IInv
  <2>1. SandboxInit => PostedToReady /\ RegistryServed /\ RegistryWaits
    BY DEF SandboxInit, PostedToReady, RegistryServed, RegistryWaits
  <2>. QED
    BY <2>1, TypeInit, WorkersInit DEF IInv
<1>2. IInv /\ [SandboxNext]_sandboxVars => IInv'
  BY TypeNext, WorkersNext, WaitsNext, ServedNext, ReadyNext DEF IInv
<1>. QED
  BY <1>1, <1>2, PTL DEF SandboxSpec

\* The variables keep their types.
THEOREM TypeCorrect == SandboxSpec => []SandboxTypeOK
BY Inductive, PTL DEF IInv

\* Every thread is the sandbox's worker, is being terminated, has crashed, or belongs to a
\* failed start: dispose, the exit handler and the catch of load() lose no other.
THEOREM NoThreadLost == SandboxSpec => []ThreadsKnown
BY Inductive, PTL DEF IInv, WorkersInv

\* What maxConcurrency is compared with is the number of callers that wait for a result.
THEOREM RegistryIsWaiting == SandboxSpec => []RegistryWaits
BY Inductive, PTL DEF IInv

\* No registered invocation outlives its worker without someone to fail it.
THEOREM NobodyForgotten == SandboxSpec => []RegistryServed
BY Inductive, PTL DEF IInv

\* A message goes to a worker that is still loading only after another was disposed of.
THEOREM ReadyBeforePost == SandboxSpec => []PostedToReady
BY Inductive, PTL DEF IInv

\* For its callers the sandbox is PluginCalls: every step of the host, of a worker or of a timer
\* is one of its steps or nothing to them.  A call is answered once and stays answered, whatever
\* answers, timers and ends of workers come later; one that was given up before it was posted
\* never goes to the plugin; and failAll, which may be that of another worker, leaves no call
\* at work behind.
THEOREM CallsAreAnswered == SandboxSpec => CallsAnswered
<1>1. SandboxInit => Caller!Init
  BY CalledIs DEF SandboxInit, Caller!Init, StageOf
<1>2. IInv /\ [SandboxNext]_sandboxVars => [Caller!Next]_<<Called, abortedCalls>>
  BY CallerSteps DEF CallerStep
<1>. QED
  BY <1>1, <1>2, Inductive, PTL DEF SandboxSpec, CallsAnswered, Caller!Spec
=============================================================================
