------------------------ MODULE HttpModelCall_proofs ------------------------
(***************************************************************************)
(* Proofs about HttpModelCall, for any bodies, cut anywhere, any limits,   *)
(* and a signal at any await.  The text, the lines and the events are each *)
(* followed as far as the bytes read: a position of the body has its       *)
(* position in the text (CharAt), that its line (LineAt), that its event   *)
(* (EventAt), and DecoderAt says what the decoder holds there.             *)
(***************************************************************************)
EXTENDS HttpModelCall, Recursion, SequenceTheorems, FiniteSetTheorems, TLAPS

-----------------------------------------------------------------------------
(* What is picked from a sequence, and sequences put together.             *)

\* f picks, one element after the other, those of s that are in P.
Picks(f, s, P, S) ==
  /\ f \in [0 .. Len(s) -> Seq(S)] /\ f[0] = <<>>
  /\ \A i \in 1 .. Len(s) : f[i] = IF s[i] \in P THEN Append(f[i - 1], s[i]) ELSE f[i - 1]

LEMMA PicksExists ==
  ASSUME NEW S, NEW s \in Seq(S), NEW P
  PROVE  \E f : Picks(f, s, P, S) /\ Pick(s, P) = f[Len(s)]
<1> DEFINE n == Len(s)
           Q == Seq(S)
           Add(x) == IF s[x[1]] \in P THEN Append(x[2], s[x[1]]) ELSE x[2]
           h == [x \in (1 .. n) \X Q |-> Add(x)]
           IsRun(f) == f = [i \in 0 .. n |-> IF i = 0 THEN <<>> ELSE IF s[i] \in P THEN Append(f[i - 1], s[i]) ELSE f[i - 1]]
           c == CHOOSE f : IsRun(f)
<1>1. n \in Nat /\ <<>> \in Q
  BY LenProperties, EmptySeq
<1>2. \A i \in 1 .. n : s[i] \in S
  BY ElementOfSeq
<1>3. ASSUME NEW x \in (1 .. n) \X Q PROVE Add(x) \in Q
  BY <1>2
<1>4. IsStep(h, n, Q)
  <2>. HIDE DEF Q, n, Add
  <2>. QED  BY <1>3 DEF IsStep
<1>5. PICK f : Follows(f, n, Q, <<>>, h)
  <2>. HIDE DEF n, h, Q
  <2>. QED  BY <1>1, <1>4, RecursionExists
<1>6. f \in [0 .. n -> Q] /\ f[0] = <<>>
  <2>. HIDE DEF n, h, Q
  <2>. QED  BY <1>5 DEF Follows
<1>7. ASSUME NEW i \in 1 .. n
      PROVE  f[i - 1] \in Q /\ f[i] = IF s[i] \in P THEN Append(f[i - 1], s[i]) ELSE f[i - 1]
  <2>1. f[i] = h[<<i, f[i - 1]>>]
    <3>. HIDE DEF n, h, Q
    <3>. QED  BY <1>5 DEF Follows
  <2>2. f[i - 1] \in Q
    <3>1. i - 1 \in 0 .. n
      BY <1>1
    <3>. HIDE DEF n, h, Q
    <3>. QED  BY <1>6, <3>1
  <2>3. h[<<i, f[i - 1]>>] = Add(<<i, f[i - 1]>>)
    <3>. HIDE DEF Q, Add
    <3>. QED  BY <2>2
  <2>4. Add(<<i, f[i - 1]>>) = IF s[i] \in P THEN Append(f[i - 1], s[i]) ELSE f[i - 1]
    <3>. HIDE DEF Q, n, h
    <3>. QED  OBVIOUS
  <2>. HIDE DEF Q, n, h, Add
  <2>. QED  BY <2>1, <2>2, <2>3, <2>4
<1>. HIDE DEF h, Q
<1>8. IsRun(f)
  <2>1. ASSUME NEW i \in 0 .. n
        PROVE  f[i] = IF i = 0 THEN <<>> ELSE IF s[i] \in P THEN Append(f[i - 1], s[i]) ELSE f[i - 1]
    <3>1. CASE i = 0
      BY <1>6, <3>1
    <3>2. CASE i # 0
      <4>1. i \in 1 .. n
        BY <1>1, <3>2
      <4>. QED  BY <1>7, <3>2, <4>1
    <3>. QED  BY <3>1, <3>2
  <2>2. f = [i \in 0 .. n |-> f[i]]
    BY <1>6
  <2>. HIDE DEF n
  <2>. QED  BY <2>1, <2>2
<1>9. IsRun(c)
  <2>. HIDE DEF IsRun
  <2>. QED  BY <1>8, Zenon
<1>10. Pick(s, P) = c[n]
  BY Zenon DEF Pick
<1> DEFINE T == {i \in 0 .. n : c[i] = f[i]}
<1>11. c[0] = <<>> /\ 0 \in 0 .. n
  <2>1. 0 \in 0 .. n
    BY <1>1
  <2>. HIDE DEF c, n
  <2>. QED  BY <1>9, <2>1
<1>12. ASSUME NEW i \in 1 .. n PROVE c[i] = IF s[i] \in P THEN Append(c[i - 1], s[i]) ELSE c[i - 1]
  <2>1. i \in 0 .. n /\ i # 0
    BY <1>1
  <2>. HIDE DEF c, n
  <2>. QED  BY <1>9, <2>1
<1>. HIDE DEF c, IsRun
<1>13. 0 \in T
  BY <1>6, <1>11
<1>14. ASSUME NEW i \in 0 .. n - 1, i \in T PROVE i + 1 \in T
  <2>1. i + 1 \in 1 .. n /\ i + 1 \in 0 .. n /\ (i + 1) - 1 = i
    BY <1>1
  <2>. HIDE DEF n
  <2>. QED  BY <1>7, <1>12, <1>14, <2>1
<1>15. c[n] = f[n]
  <2>1. n \in 0 .. n
    BY <1>1
  <2>. HIDE DEF T, n
  <2>2. n \in T
    BY <1>1, <1>13, <1>14, <2>1, UpTo
  <2>. QED  BY <2>2 DEF T
<1>16. Picks(f, s, P, S)
  <2>1. f \in [0 .. n -> Seq(S)]
    BY <1>6 DEF Q
  <2>. QED  BY <1>6, <1>7, <2>1 DEF Picks
<1>. QED  BY <1>10, <1>15, <1>16

\* f puts the pieces together, one after the other.
Concats(f, pieces, between, S) ==
  /\ f \in [0 .. Len(pieces) -> Seq(S)] /\ f[0] = <<>>
  /\ \A i \in 1 .. Len(pieces) : f[i] = IF i = 1 THEN pieces[1] ELSE f[i - 1] \o between \o pieces[i]

LEMMA ConcatsExists ==
  ASSUME NEW S, NEW pieces \in Seq(Seq(S)), NEW between \in Seq(S)
  PROVE  \E f : Concats(f, pieces, between, S) /\ Concat(pieces, between) = f[Len(pieces)]
<1> DEFINE n == Len(pieces)
           Q == Seq(S)
           Add(x) == IF x[1] = 1 THEN pieces[1] ELSE x[2] \o between \o pieces[x[1]]
           h == [x \in (1 .. n) \X Q |-> Add(x)]
           IsRun(f) == f = [i \in 0 .. n |-> IF i = 0 THEN <<>> ELSE IF i = 1 THEN pieces[1] ELSE f[i - 1] \o between \o pieces[i]]
           c == CHOOSE f : IsRun(f)
<1>1. n \in Nat /\ <<>> \in Q
  BY LenProperties, EmptySeq
<1>2. \A i \in 1 .. n : pieces[i] \in Seq(S)
  BY ElementOfSeq
<1>3. ASSUME NEW x \in (1 .. n) \X Q PROVE Add(x) \in Q
  BY <1>2
<1>4. IsStep(h, n, Q)
  <2>. HIDE DEF Q, n, Add
  <2>. QED  BY <1>3 DEF IsStep
<1>5. PICK f : Follows(f, n, Q, <<>>, h)
  <2>. HIDE DEF n, h, Q
  <2>. QED  BY <1>1, <1>4, RecursionExists
<1>6. f \in [0 .. n -> Q] /\ f[0] = <<>>
  <2>. HIDE DEF n, h, Q
  <2>. QED  BY <1>5 DEF Follows
<1>7. ASSUME NEW i \in 1 .. n
      PROVE  f[i - 1] \in Q /\ f[i] = IF i = 1 THEN pieces[1] ELSE f[i - 1] \o between \o pieces[i]
  <2>1. f[i] = h[<<i, f[i - 1]>>]
    <3>. HIDE DEF n, h, Q
    <3>. QED  BY <1>5 DEF Follows
  <2>2. f[i - 1] \in Q
    <3>1. i - 1 \in 0 .. n
      BY <1>1
    <3>. HIDE DEF n, h, Q
    <3>. QED  BY <1>6, <3>1
  <2>3. h[<<i, f[i - 1]>>] = Add(<<i, f[i - 1]>>)
    <3>. HIDE DEF Q, Add
    <3>. QED  BY <2>2
  <2>4. Add(<<i, f[i - 1]>>) = IF i = 1 THEN pieces[1] ELSE f[i - 1] \o between \o pieces[i]
    <3>. HIDE DEF Q, n, h
    <3>. QED  OBVIOUS
  <2>. HIDE DEF Q, n, h, Add
  <2>. QED  BY <2>1, <2>2, <2>3, <2>4
<1>. HIDE DEF h, Q
<1>8. IsRun(f)
  <2>1. ASSUME NEW i \in 0 .. n
        PROVE  f[i] = IF i = 0 THEN <<>> ELSE IF i = 1 THEN pieces[1] ELSE f[i - 1] \o between \o pieces[i]
    <3>1. CASE i = 0
      BY <1>6, <3>1
    <3>2. CASE i # 0
      <4>1. i \in 1 .. n
        BY <1>1, <3>2
      <4>. QED  BY <1>7, <3>2, <4>1
    <3>. QED  BY <3>1, <3>2
  <2>2. f = [i \in 0 .. n |-> f[i]]
    BY <1>6
  <2>. HIDE DEF n
  <2>. QED  BY <2>1, <2>2
<1>9. IsRun(c)
  <2>. HIDE DEF IsRun
  <2>. QED  BY <1>8, Zenon
<1>10. Concat(pieces, between) = c[n]
  BY Zenon DEF Concat
<1> DEFINE T == {i \in 0 .. n : c[i] = f[i]}
<1>11. c[0] = <<>> /\ 0 \in 0 .. n
  <2>1. 0 \in 0 .. n
    BY <1>1
  <2>. HIDE DEF c, n
  <2>. QED  BY <1>9, <2>1
<1>12. ASSUME NEW i \in 1 .. n PROVE c[i] = IF i = 1 THEN pieces[1] ELSE c[i - 1] \o between \o pieces[i]
  <2>1. i \in 0 .. n /\ i # 0
    BY <1>1
  <2>. HIDE DEF c, n
  <2>. QED  BY <1>9, <2>1
<1>. HIDE DEF c, IsRun
<1>13. 0 \in T
  BY <1>6, <1>11
<1>14. ASSUME NEW i \in 0 .. n - 1, i \in T PROVE i + 1 \in T
  <2>1. i + 1 \in 1 .. n /\ i + 1 \in 0 .. n /\ (i + 1) - 1 = i
    BY <1>1
  <2>. HIDE DEF n
  <2>. QED  BY <1>7, <1>12, <1>14, <2>1
<1>15. c[n] = f[n]
  <2>1. n \in 0 .. n
    BY <1>1
  <2>. HIDE DEF T, n
  <2>2. n \in T
    BY <1>1, <1>13, <1>14, <2>1, UpTo
  <2>. QED  BY <2>2 DEF T
<1>16. Concats(f, pieces, between, S)
  <2>1. f \in [0 .. n -> Seq(S)]
    BY <1>6 DEF Q
  <2>. QED  BY <1>6, <1>7, <2>1 DEF Concats
<1>. QED  BY <1>10, <1>15, <1>16

\* A set with the empty sequence and with every longer one has all sequences over S.
LEMMA Grown ==
  ASSUME NEW S, NEW T, <<>> \in T, \A s \in Seq(S), x \in S : s \in T => Append(s, x) \in T
  PROVE  Seq(S) \subseteq T
<1> SUFFICES ASSUME NEW s \in Seq(S) PROVE s \in T
  OBVIOUS
<1> DEFINE n == Len(s)
           I == {i \in 0 .. n : SubSeq(s, 1, i) \in T}
<1>1. n \in Nat /\ 0 \in 0 .. n /\ n \in 0 .. n
  BY LenProperties
<1>2. 0 \in I
  <2>1. SubSeq(s, 1, 0) = <<>>
    BY SubSeqEmpty
  <2>. QED  BY <1>1, <2>1
<1>3. ASSUME NEW i \in 0 .. n - 1, i \in I PROVE i + 1 \in I
  <2>1. i + 1 \in 1 .. Len(s) /\ i \in Nat /\ i + 1 \in 0 .. n
    BY <1>1
  <2>2. SubSeq(s, 1, i) \in Seq(S) /\ s[i + 1] \in S
    BY <2>1, ElementOfSeq, SubSeqProperties
  <2>3. SubSeq(s, 1, i + 1) = Append(SubSeq(s, 1, i), s[i + 1])
    BY <2>1
  <2>. QED  BY <1>3, <2>1, <2>2, <2>3
<1>. HIDE DEF I
<1>4. 0 .. n \subseteq I
  BY <1>1, <1>2, <1>3, UpTo
<1>5. SubSeq(s, 1, n) = s
  BY <1>1, SubSeqFull
<1>. QED  BY <1>1, <1>4, <1>5 DEF I

\* What one more element does has a name: a step that cites a lemma below needs the
\* fact as it stands, and the provers would search in it for facts about Append.
PickGrows(s, x, P) == Pick(Append(s, x), P) = IF x \in P THEN Append(Pick(s, P), x) ELSE Pick(s, P)
ConcatGrows(ps, x, between) ==
  Concat(Append(ps, x), between) = IF ps = <<>> THEN x ELSE Concat(ps, between) \o between \o x
WholeGrows(ps, x) == Whole(Append(ps, x)) = Whole(ps) \o x
PickJoins(s, t, P) == Pick(s \o t, P) = Pick(s, P) \o Pick(t, P)
JoinGrows(s, t, x) == s \o Append(t, x) = Append(s \o t, x)

Regroups(s, t, u) == (s \o t) \o u = s \o (t \o u)

LEMMA Regroup ==
  ASSUME NEW S, NEW s \in Seq(S), NEW t \in Seq(S), NEW u \in Seq(S) PROVE Regroups(s, t, u)
BY DEF Regroups

LEMMA JoinAppend ==
  ASSUME NEW S, NEW s \in Seq(S), NEW t \in Seq(S), NEW x \in S
  PROVE  JoinGrows(s, t, x) /\ s \o t \in Seq(S) /\ Append(t, x) \in Seq(S)
BY ConcatProperties, AppendProperties DEF JoinGrows

LEMMA PickAppend ==
  ASSUME NEW S, NEW s \in Seq(S), NEW x \in S, NEW P
  PROVE  Pick(s, P) \in Seq(S) /\ PickGrows(s, x, P)
<1> DEFINE n == Len(s)
           t == Append(s, x)
<1>1. n \in Nat /\ t \in Seq(S) /\ Len(t) = n + 1 /\ t[n + 1] = x /\ \A i \in 1 .. n : t[i] = s[i]
  BY LenProperties, AppendProperties
<1>2. PICK f : Picks(f, s, P, S) /\ Pick(s, P) = f[n]
  BY PicksExists
<1>. HIDE DEF t
<1>3. PICK g : Picks(g, t, P, S) /\ Pick(t, P) = g[Len(t)]
  BY <1>1, PicksExists
<1> DEFINE T == {i \in 0 .. n : f[i] = g[i]}
<1>4. 0 \in T
  BY <1>1, <1>2, <1>3 DEF Picks
<1>5. ASSUME NEW i \in 0 .. n - 1, i \in T PROVE i + 1 \in T
  <2>1. i + 1 \in 1 .. n /\ i + 1 \in 1 .. n + 1 /\ i + 1 \in 0 .. n /\ (i + 1) - 1 = i
    BY <1>1
  <2>. HIDE DEF n
  <2>2. f[i + 1] = IF s[i + 1] \in P THEN Append(f[i], s[i + 1]) ELSE f[i]
    BY <1>2, <2>1 DEF Picks, n
  <2>3. g[i + 1] = IF t[i + 1] \in P THEN Append(g[i], t[i + 1]) ELSE g[i]
    BY <1>1, <1>3, <2>1 DEF Picks
  <2>. QED  BY <1>1, <1>5, <2>1, <2>2, <2>3
<1>. HIDE DEF T
<1>6. n \in T
  <2>1. n \in 0 .. n
    BY <1>1
  <2>2. 0 .. n \subseteq T
    BY <1>1, <1>4, <1>5, UpTo
  <2>. QED  BY <2>1, <2>2
<1>7. g[n + 1] = IF x \in P THEN Append(g[n], x) ELSE g[n]
  <2>1. n + 1 \in 1 .. n + 1 /\ (n + 1) - 1 = n
    BY <1>1
  <2>. HIDE DEF n
  <2>2. g[n + 1] = IF t[n + 1] \in P THEN Append(g[n], t[n + 1]) ELSE g[n]
    BY <1>1, <1>3, <2>1 DEF Picks
  <2>. QED  BY <1>1, <2>2
<1>8. f[n] \in Seq(S)
  BY <1>1, <1>2 DEF Picks
<1>. QED  BY <1>1, <1>2, <1>3, <1>6, <1>7, <1>8 DEF T, t, PickGrows

LEMMA PickNone == ASSUME NEW P PROVE Pick(<<>>, P) = <<>>
<1>1. <<>> \in Seq({}) /\ Len(<<>>) = 0
  OBVIOUS
<1>2. PICK f : Picks(f, <<>>, P, {}) /\ Pick(<<>>, P) = f[Len(<<>>)]
  BY <1>1, PicksExists
<1>. QED  BY <1>1, <1>2 DEF Picks

LEMMA PickType == ASSUME NEW S, NEW s \in Seq(S), NEW P PROVE Pick(s, P) \in Seq(S)
<1>1. PICK f : Picks(f, s, P, S) /\ Pick(s, P) = f[Len(s)]
  BY PicksExists
<1>2. Len(s) \in 0 .. Len(s)
  BY LenProperties
<1>. QED  BY <1>1, <1>2 DEF Picks

\* What is picked of two sequences, one after the other.
LEMMA PickConcat ==
  ASSUME NEW S, NEW s \in Seq(S), NEW t \in Seq(S), NEW P
  PROVE  PickJoins(s, t, P)
<1> DEFINE T == {u \in Seq(S) : Pick(s \o u, P) = Pick(s, P) \o Pick(u, P)}
<1>1. <<>> \in T
  BY PickNone, PickType, ConcatEmptySeq, EmptySeq
<1>2. ASSUME NEW u \in Seq(S), NEW x \in S, u \in T PROVE Append(u, x) \in T
  <2>1. JoinGrows(s, u, x) /\ s \o u \in Seq(S) /\ Append(u, x) \in Seq(S)
    BY JoinAppend
  <2>2. PickGrows(s \o u, x, P)
    <3>1. PICK w : w = s \o u
      OBVIOUS
    <3>2. w \in Seq(S)
      BY <2>1, <3>1
    <3>3. PickGrows(w, x, P)
      BY ONLY <3>2, x \in S, PickAppend
    <3>. QED  BY ONLY <3>1, <3>3
  <2>3. PickGrows(u, x, P) /\ Pick(s, P) \in Seq(S) /\ Pick(u, P) \in Seq(S)
    BY ONLY s \in Seq(S), u \in Seq(S), x \in S, PickAppend
  <2>4. JoinGrows(Pick(s, P), Pick(u, P), x)
    <3>1. PICK a : a = Pick(s, P)
      OBVIOUS
    <3>2. PICK b : b = Pick(u, P)
      OBVIOUS
    <3>3. JoinGrows(a, b, x)
      BY ONLY <2>3, <3>1, <3>2, x \in S, JoinAppend
    <3>. QED  BY ONLY <3>1, <3>2, <3>3
  <2>5. Pick(s \o u, P) = Pick(s, P) \o Pick(u, P)
    BY <1>2
  <2>6. Pick(s \o Append(u, x), P) = Pick(s, P) \o Pick(Append(u, x), P)
    BY ONLY <2>1, <2>2, <2>3, <2>4, <2>5, Zenon DEF PickGrows, JoinGrows
  <2>. QED  BY <2>1, <2>6
<1>. HIDE DEF T
<1>3. Seq(S) \subseteq T
  BY <1>1, <1>2, Grown
<1>. QED  BY <1>3 DEF T, PickJoins

\* Of what is in P, what is in a part of P.
LEMMA PickTwice ==
  ASSUME NEW S, NEW s \in Seq(S), NEW P, NEW R, R \subseteq P
  PROVE  Pick(Pick(s, P), R) = Pick(s, R)
<1> DEFINE T == {u \in Seq(S) : Pick(Pick(u, P), R) = Pick(u, R)}
<1>1. <<>> \in T
  BY PickNone, EmptySeq
<1>2. ASSUME NEW u \in Seq(S), NEW x \in S, u \in T PROVE Append(u, x) \in T
  <2>1. Append(u, x) \in Seq(S) /\ Pick(u, P) \in Seq(S)
    BY AppendProperties, PickType
  <2>2. PickGrows(u, x, P) /\ PickGrows(u, x, R)
    BY ONLY u \in Seq(S), x \in S, PickAppend
  <2>3. PickGrows(Pick(u, P), x, R)
    <3>1. PICK w : w = Pick(u, P)
      OBVIOUS
    <3>2. PickGrows(w, x, R)
      BY ONLY <2>1, <3>1, x \in S, PickAppend
    <3>. QED  BY ONLY <3>1, <3>2
  <2>4. Pick(Pick(u, P), R) = Pick(u, R) /\ (x \in R => x \in P)
    BY <1>2
  <2>5. Pick(Pick(Append(u, x), P), R) = Pick(Append(u, x), R)
    BY ONLY <2>2, <2>3, <2>4, Zenon DEF PickGrows
  <2>. QED  BY <2>1, <2>5
<1>. HIDE DEF T
<1>3. Seq(S) \subseteq T
  BY <1>1, <1>2, Grown
<1>. QED  BY <1>3 DEF T

LEMMA ConcatNone == ASSUME NEW S, NEW between \in Seq(S) PROVE Concat(<<>>, between) = <<>>
<1>1. <<>> \in Seq(Seq(S)) /\ Len(<<>>) = 0
  OBVIOUS
<1>2. PICK f : Concats(f, <<>>, between, S) /\ Concat(<<>>, between) = f[Len(<<>>)]
  BY <1>1, ConcatsExists
<1>. QED  BY <1>1, <1>2 DEF Concats

LEMMA ConcatAppend ==
  ASSUME NEW S, NEW ps \in Seq(Seq(S)), NEW x \in Seq(S), NEW between \in Seq(S)
  PROVE  Concat(ps, between) \in Seq(S) /\ ConcatGrows(ps, x, between)
<1> DEFINE n == Len(ps)
           t == Append(ps, x)
<1>1. n \in Nat /\ t \in Seq(Seq(S)) /\ Len(t) = n + 1 /\ t[n + 1] = x /\ \A i \in 1 .. n : t[i] = ps[i]
  BY LenProperties, AppendProperties
<1>2. PICK f : Concats(f, ps, between, S) /\ Concat(ps, between) = f[n]
  BY ConcatsExists
<1>. HIDE DEF t
<1>3. PICK g : Concats(g, t, between, S) /\ Concat(t, between) = g[Len(t)]
  BY <1>1, ConcatsExists
<1> DEFINE T == {i \in 0 .. n : f[i] = g[i]}
<1>4. 0 \in T
  BY <1>1, <1>2, <1>3 DEF Concats
<1>5. ASSUME NEW i \in 0 .. n - 1, i \in T PROVE i + 1 \in T
  <2>1. i + 1 \in 1 .. n /\ i + 1 \in 1 .. n + 1 /\ i + 1 \in 0 .. n /\ (i + 1) - 1 = i
    BY <1>1
  <2>. HIDE DEF n
  <2>2. f[i + 1] = IF i + 1 = 1 THEN ps[1] ELSE f[i] \o between \o ps[i + 1]
    BY <1>2, <2>1 DEF Concats, n
  <2>3. g[i + 1] = IF i + 1 = 1 THEN t[1] ELSE g[i] \o between \o t[i + 1]
    BY <1>1, <1>3, <2>1 DEF Concats
  <2>4. i + 1 = 1 => t[1] = ps[1]
    BY <1>1, <2>1
  <2>. QED  BY <1>1, <1>5, <2>1, <2>2, <2>3, <2>4
<1>. HIDE DEF T
<1>6. n \in T
  <2>1. n \in 0 .. n
    BY <1>1
  <2>2. 0 .. n \subseteq T
    BY <1>1, <1>4, <1>5, UpTo
  <2>. QED  BY <2>1, <2>2
<1>7. g[n + 1] = IF n = 0 THEN x ELSE g[n] \o between \o x
  <2>1. n + 1 \in 1 .. n + 1 /\ (n + 1) - 1 = n /\ (n + 1 = 1 <=> n = 0)
    BY <1>1
  <2>. HIDE DEF n
  <2>2. g[n + 1] = IF n + 1 = 1 THEN t[1] ELSE g[n] \o between \o t[n + 1]
    BY <1>1, <1>3, <2>1 DEF Concats
  <2>. QED  BY <1>1, <2>1, <2>2
<1>8. f[n] \in Seq(S)
  <2>1. n \in 0 .. n
    BY <1>1
  <2>2. f \in [0 .. n -> Seq(S)]
    BY <1>2 DEF Concats
  <2>. HIDE DEF n
  <2>. QED  BY <2>1, <2>2
<1>9. n = 0 <=> ps = <<>>
  BY <1>1, EmptySeq
<1>. QED  BY <1>1, <1>2, <1>3, <1>6, <1>7, <1>8, <1>9 DEF T, t, ConcatGrows

LEMMA ConcatType ==
  ASSUME NEW S, NEW ps \in Seq(Seq(S)), NEW between \in Seq(S) PROVE Concat(ps, between) \in Seq(S)
<1>1. PICK f : Concats(f, ps, between, S) /\ Concat(ps, between) = f[Len(ps)]
  BY ConcatsExists
<1>2. Len(ps) \in 0 .. Len(ps)
  BY LenProperties
<1>. QED  BY <1>1, <1>2 DEF Concats

\* The whole of two lists of events, one after the other.
LEMMA WholeAppend ==
  ASSUME NEW S, NEW ps \in Seq(Seq(S)), NEW x \in Seq(S)
  PROVE  Whole(ps) \in Seq(S) /\ WholeGrows(ps, x)
<1>1. PICK e : e = <<>>
  OBVIOUS
<1>2. e \in Seq(S)
  BY <1>1
<1>3. Concat(ps, e) \in Seq(S) /\ ConcatGrows(ps, x, e)
  BY ONLY <1>2, ps \in Seq(Seq(S)), x \in Seq(S), ConcatAppend
<1>4. Whole(ps) \in Seq(S) /\ Whole(Append(ps, x)) = IF ps = <<>> THEN x ELSE Whole(ps) \o <<>> \o x
  BY ONLY <1>1, <1>3, Zenon DEF Whole, ConcatGrows
<1>5. Whole(<<>>) = <<>>
  BY <1>1, <1>2, ConcatNone DEF Whole
<1>. QED  BY <1>4, <1>5, ConcatEmptySeq DEF WholeGrows

LEMMA WholeConcat ==
  ASSUME NEW S, NEW ps \in Seq(Seq(S)), NEW rs \in Seq(Seq(S))
  PROVE  Whole(ps) \in Seq(S) /\ Whole(ps \o rs) = Whole(ps) \o Whole(rs)
<1> DEFINE X == Seq(S)
           T == {u \in Seq(X) : Whole(ps \o u) = Whole(ps) \o Whole(u)}
<1>1. <<>> \in T
  <2>1. Whole(<<>>) = <<>> /\ Whole(ps) \in Seq(S)
    BY ConcatNone, ConcatType, EmptySeq DEF Whole
  <2>. QED  BY <2>1, ConcatEmptySeq, EmptySeq
<1>2. ASSUME NEW u \in Seq(X), NEW x \in X, u \in T PROVE Append(u, x) \in T
  <2>1. JoinGrows(ps, u, x) /\ ps \o u \in Seq(X) /\ Append(u, x) \in Seq(X)
    BY JoinAppend
  <2>2. WholeGrows(ps \o u, x) /\ WholeGrows(u, x) /\ Whole(u) \in Seq(S) /\ Whole(ps) \in Seq(S)
    <3>1. PICK w : w = ps \o u
      OBVIOUS
    <3>2. w \in Seq(Seq(S)) /\ u \in Seq(Seq(S)) /\ x \in Seq(S)
      BY <2>1, <3>1
    <3>3. WholeGrows(w, x) /\ WholeGrows(u, x) /\ Whole(u) \in Seq(S) /\ Whole(ps) \in Seq(S)
      BY ONLY <3>2, ps \in Seq(Seq(S)), WholeAppend
    <3>. QED  BY ONLY <3>1, <3>3
  <2>3. (Whole(ps) \o Whole(u)) \o x = Whole(ps) \o (Whole(u) \o x)
    <3>1. PICK a : a = Whole(ps)
      OBVIOUS
    <3>2. PICK b : b = Whole(u)
      OBVIOUS
    <3>3. a \in Seq(S) /\ b \in Seq(S) /\ x \in Seq(S)
      BY <2>2, <3>1, <3>2
    <3>4. Regroups(a, b, x)
      BY ONLY <3>3, Regroup
    <3>. QED  BY ONLY <3>1, <3>2, <3>4, Zenon DEF Regroups
  <2>4. Whole(ps \o u) = Whole(ps) \o Whole(u)
    BY <1>2
  <2>5. Whole(ps \o Append(u, x)) = Whole(ps) \o Whole(Append(u, x))
    BY ONLY <2>1, <2>2, <2>3, <2>4, Zenon DEF WholeGrows, JoinGrows
  <2>. QED  BY <2>1, <2>5
<1>. HIDE DEF T
<1>3. Seq(X) \subseteq T
  BY <1>1, <1>2, Grown
<1>4. Whole(ps) \in Seq(S)
  BY ConcatType, EmptySeq DEF Whole
<1>. QED  BY <1>3, <1>4 DEF T

-----------------------------------------------------------------------------
(* The members of a set of numbers, in their order.                        *)

\* The members of A up to i, and how many they are.
UpToIn(A, i) == {j \in A : j <= i}
Count(A, i) == Cardinality(UpToIn(A, i))

LEMMA Numbers ==
  ASSUME NEW N \in Nat, NEW A, A \subseteq 1 .. N, NEW j \in A PROVE j \in Nat /\ 1 <= j /\ j <= N
<1>1. j \in 1 .. N
  OBVIOUS
<1>. QED  BY <1>1

LEMMA UpToFinite ==
  ASSUME NEW N \in Nat, NEW A, A \subseteq 1 .. N, NEW i
  PROVE  IsFiniteSet(UpToIn(A, i)) /\ Count(A, i) \in Nat
<1>1. UpToIn(A, i) \subseteq 1 .. N
  BY Zenon DEF UpToIn
<1>2. IsFiniteSet(1 .. N)
  BY FS_Interval
<1>. QED  BY <1>1, <1>2, FS_Subset, FS_CardinalityType DEF Count

LEMMA CountNone == ASSUME NEW N \in Nat, NEW A, A \subseteq 1 .. N PROVE UpToIn(A, 0) = {} /\ Count(A, 0) = 0
<1>1. UpToIn(A, 0) = {}
  <2>1. \A j \in A : ~(j <= 0)
    BY Numbers
  <2>. QED  BY <2>1, Zenon DEF UpToIn
<1>. QED  BY <1>1, FS_EmptySet DEF Count

LEMMA CountNext ==
  ASSUME NEW N \in Nat, NEW A, A \subseteq 1 .. N, NEW i \in Nat
  PROVE  Count(A, i + 1) = IF i + 1 \in A THEN Count(A, i) + 1 ELSE Count(A, i)
<1>0. \A j \in A : j <= i + 1 <=> j <= i \/ j = i + 1
  <2>1. ASSUME NEW j \in A PROVE j <= i + 1 <=> j <= i \/ j = i + 1
    <3>1. j \in Nat
      BY Numbers
    <3>. QED  BY <3>1
  <2>. QED  BY <2>1
<1>1. CASE i + 1 \in A
  <2>0. ~(i + 1 <= i)
    OBVIOUS
  <2>1. UpToIn(A, i + 1) = UpToIn(A, i) \union {i + 1} /\ i + 1 \notin UpToIn(A, i)
    BY <1>0, <1>1, <2>0, Zenon DEF UpToIn
  <2>2. IsFiniteSet(UpToIn(A, i))
    BY UpToFinite
  <2>. QED  BY <1>1, <2>1, <2>2, FS_AddElement DEF Count
<1>2. CASE i + 1 \notin A
  <2>1. UpToIn(A, i + 1) = UpToIn(A, i)
    BY <1>0, <1>2, Zenon DEF UpToIn
  <2>. QED  BY <1>2, <2>1 DEF Count
<1>. QED  BY <1>1, <1>2

\* The count grows at each member, so a member is known by its count.
LEMMA CountGrows ==
  ASSUME NEW N \in Nat, NEW A, A \subseteq 1 .. N, NEW i \in A, NEW j \in A, i < j
  PROVE  Count(A, i) < Count(A, j)
<1>0. i \in Nat /\ j \in Nat /\ \A l \in A : l \in Nat
  BY Numbers
<1>1. UpToIn(A, i) \subseteq UpToIn(A, j) /\ j \in UpToIn(A, j) /\ j \notin UpToIn(A, i)
  <2>1. \A l \in A : l <= i => l <= j
    BY <1>0
  <2>2. j <= j /\ ~(j <= i)
    BY <1>0
  <2>. QED  BY <2>1, <2>2, Zenon DEF UpToIn
<1>2. IsFiniteSet(UpToIn(A, j)) /\ IsFiniteSet(UpToIn(A, i)) /\ Count(A, i) \in Nat /\ Count(A, j) \in Nat
  BY UpToFinite
<1>3. Count(A, i) <= Count(A, j) /\ (Count(A, i) = Count(A, j) => UpToIn(A, i) = UpToIn(A, j))
  BY <1>1, <1>2, FS_Subset DEF Count
<1>. QED  BY <1>1, <1>2, <1>3

LEMMA NthIs ==
  ASSUME NEW N \in Nat, NEW A, A \subseteq 1 .. N, NEW i \in A
  PROVE  Nth(A, Count(A, i)) = i
<1>1. \A j \in A : Count(A, j) = Count(A, i) => j = i
  <2>1. SUFFICES ASSUME NEW j \in A, Count(A, j) = Count(A, i), j # i PROVE FALSE
    OBVIOUS
  <2>2. i \in Nat /\ j \in Nat
    BY Numbers
  <2>4. Count(A, i) \in Nat
    BY UpToFinite
  <2>3. j < i \/ i < j
    BY <2>1, <2>2
  <2>5. CASE i < j
    <3>1. Count(A, i) < Count(A, j)
      BY <2>5, CountGrows
    <3>. QED  BY <2>1, <2>4, <3>1
  <2>6. CASE j < i
    <3>1. Count(A, j) < Count(A, i)
      BY <2>1, <2>6, CountGrows
    <3>. QED  BY <2>1, <2>4, <3>1
  <2>. QED  BY <2>3, <2>5, <2>6
<1>2. Nth(A, Count(A, i)) = CHOOSE j \in A : Count(A, j) = Count(A, i)
  BY Zenon DEF Nth, Count, UpToIn
<1>. QED  BY <1>1, <1>2

\* The last member up to i, if there is one.
LEMMA LastIn ==
  ASSUME NEW N \in Nat, NEW A, A \subseteq 1 .. N, NEW i \in Nat, Count(A, i) # 0
  PROVE  /\ Nth(A, Count(A, i)) \in A /\ Nth(A, Count(A, i)) <= i
         /\ \A j \in A : j <= i => j <= Nth(A, Count(A, i))
<1> DEFINE Last(n) == Count(A, n) # 0 => \E j \in A : j <= n /\ Count(A, j) = Count(A, n) /\ \A l \in A : l <= n => l <= j
           T == {n \in Nat : Last(n)}
<1>1. 0 \in T
  BY CountNone
<1>2. ASSUME NEW n \in Nat, n \in T PROVE n + 1 \in T
  <2>1. Count(A, n + 1) = IF n + 1 \in A THEN Count(A, n) + 1 ELSE Count(A, n)
    BY CountNext
  <2>2. CASE n + 1 \in A
    <3>1. \A l \in A : l <= n + 1 => l <= n + 1
      OBVIOUS
    <3>2. Last(n + 1)
      BY <2>2, <3>1
    <3>. QED  BY <3>2
  <2>3. CASE n + 1 \notin A
    <3>1. \A l \in A : l <= n + 1 => l <= n
      BY <2>3
    <3>2. Count(A, n + 1) = Count(A, n)
      BY <2>1, <2>3
    <3>3. Last(n)
      BY <1>2
    <3>4. \A j \in A : j <= n => j <= n + 1
      OBVIOUS
    <3>5. Last(n + 1)
      BY <3>1, <3>2, <3>3, <3>4
    <3>. QED  BY <3>5
  <2>. QED  BY <2>2, <2>3
<1>. HIDE DEF T
<1>3. Nat \subseteq T
  BY <1>1, <1>2, Induction
<1>4. PICK j \in A : j <= i /\ Count(A, j) = Count(A, i) /\ \A l \in A : l <= i => l <= j
  BY <1>3 DEF T
<1>5. Nth(A, Count(A, i)) = j
  BY <1>4, NthIs
<1>. QED  BY <1>4, <1>5

LEMMA CountTop == ASSUME NEW N \in Nat, NEW A, A \subseteq 1 .. N PROVE Cardinality(A) = Count(A, N) /\ Cardinality(A) \in Nat
<1>1. \A j \in A : j <= N
  BY Numbers
<1>2. UpToIn(A, N) = A
  BY <1>1, Zenon DEF UpToIn
<1>. QED  BY <1>2, UpToFinite DEF Count

\* Every number up to the size of the set counts one of its members.
LEMMA Counted ==
  ASSUME NEW N \in Nat, NEW A, A \subseteq 1 .. N, NEW k \in 1 .. Cardinality(A)
  PROVE  \E j \in A : Count(A, j) = k
<1> DEFINE T == {n \in Nat : \A l \in 1 .. Count(A, n) : \E j \in A : Count(A, j) = l}
<1>1. 0 \in T
  <2>1. Count(A, 0) = 0
    BY CountNone
  <2>2. \A l \in 1 .. Count(A, 0) : FALSE
    BY <2>1
  <2>. QED  BY <2>2
<1>2. ASSUME NEW n \in Nat, n \in T PROVE n + 1 \in T
  <2>1. Count(A, n + 1) = IF n + 1 \in A THEN Count(A, n) + 1 ELSE Count(A, n)
    BY CountNext
  <2>2. Count(A, n) \in Nat
    BY UpToFinite
  <2>3. ASSUME NEW l \in 1 .. Count(A, n + 1) PROVE \E j \in A : Count(A, j) = l
    <3>1. CASE l \in 1 .. Count(A, n)
      BY <1>2, <3>1
    <3>2. CASE l \notin 1 .. Count(A, n)
      <4>1. n + 1 \in A /\ l = Count(A, n + 1)
        BY <2>1, <2>2, <3>2
      <4>. QED  BY <4>1
    <3>. QED  BY <3>1, <3>2
  <2>. QED  BY <2>3
<1>. HIDE DEF T
<1>3. Nat \subseteq T
  BY <1>1, <1>2, Induction
<1>. QED  BY <1>3, CountTop DEF T

-----------------------------------------------------------------------------
(* The lines of a text, as far as position i.                              *)

\* The lines ended before position i, where the line begun starts, and its bytes.
LineAt(text, i) == Count(Ends(text), i)
LineStart(text, i) == IF LineAt(text, i) = 0 THEN 0 ELSE Nth(Ends(text), LineAt(text, i))
Raw(text, i) == SubSeq(text, LineStart(text, i) + 1, i)

LEMMA EndsFacts ==
  ASSUME NEW text \in Seq(Bytes)
  PROVE  /\ Len(text) \in Nat /\ Ends(text) \subseteq 1 .. Len(text) + 1 /\ Len(text) + 1 \in Ends(text)
         /\ \A i \in 1 .. Len(text) : i \in Ends(text) <=> text[i] = "n"
<1>1. Len(text) \in Nat /\ DOMAIN text = 1 .. Len(text)
  BY LenProperties
<1>2. ASSUME NEW i \in 1 .. Len(text) PROVE i # Len(text) + 1 /\ i \in 1 .. Len(text) + 1
  BY <1>1
<1>3. Len(text) + 1 \in 1 .. Len(text) + 1
  BY <1>1
<1>4. \A i \in 1 .. Len(text) : i \in Ends(text) <=> text[i] = "n"
  BY <1>1, <1>2 DEF Ends
<1>5. Ends(text) \subseteq 1 .. Len(text) + 1
  BY <1>1, <1>2, <1>3 DEF Ends
<1>6. Len(text) + 1 \in Ends(text)
  BY DEF Ends
<1>. QED  BY <1>1, <1>4, <1>5, <1>6

LEMMA LineStarts ==
  ASSUME NEW text \in Seq(Bytes), NEW i \in 0 .. Len(text)
  PROVE  LineStart(text, i) \in 0 .. i /\ LineAt(text, i) \in Nat
<1>1. Len(text) + 1 \in Nat /\ i \in Nat /\ Ends(text) \subseteq 1 .. Len(text) + 1
  BY EndsFacts
<1>2. LineAt(text, i) \in Nat
  BY <1>1, UpToFinite DEF LineAt
<1>3. CASE LineAt(text, i) = 0
  BY <1>1, <1>2, <1>3 DEF LineStart
<1>4. CASE LineAt(text, i) # 0
  <2>1. LineStart(text, i) \in Ends(text) /\ LineStart(text, i) <= i
    BY <1>1, <1>4, LastIn DEF LineStart, LineAt
  <2>2. LineStart(text, i) \in Nat
    BY <1>1, <2>1, Numbers
  <2>. QED  BY <1>1, <1>2, <2>1, <2>2
<1>. QED  BY <1>3, <1>4

LEMMA LineNone == ASSUME NEW text \in Seq(Bytes) PROVE LineAt(text, 0) = 0 /\ Raw(text, 0) = <<>>
<1>1. Len(text) + 1 \in Nat /\ Ends(text) \subseteq 1 .. Len(text) + 1
  BY EndsFacts
<1>2. LineAt(text, 0) = 0
  BY <1>1, CountNone DEF LineAt
<1>3. SubSeq(text, 1, 0) = <<>>
  BY SubSeqEmpty
<1>. QED  BY <1>2, <1>3 DEF Raw, LineStart

\* A byte that ends no line is the next of the line begun.
LEMMA RawGrows ==
  ASSUME NEW text \in Seq(Bytes), NEW i \in 0 .. Len(text) - 1, text[i + 1] # "n"
  PROVE  LineAt(text, i + 1) = LineAt(text, i) /\ Raw(text, i + 1) = Append(Raw(text, i), text[i + 1])
<1>1. Len(text) + 1 \in Nat /\ i \in Nat /\ Ends(text) \subseteq 1 .. Len(text) + 1 /\ i + 1 \in 1 .. Len(text) /\ i \in 0 .. Len(text)
  BY EndsFacts
<1>2. i + 1 \notin Ends(text)
  BY <1>1, EndsFacts
<1>3. LineAt(text, i + 1) = LineAt(text, i)
  BY <1>1, <1>2, CountNext DEF LineAt
<1>4. LineStart(text, i + 1) = LineStart(text, i) /\ LineStart(text, i) \in 0 .. i
  BY <1>1, <1>3, LineStarts DEF LineStart
<1>5. PICK b : b = LineStart(text, i)
  OBVIOUS
<1>6. SubSeq(text, b + 1, i + 1) = Append(SubSeq(text, b + 1, i), text[i + 1])
  <2>1. b + 1 \in 1 .. i + 1 /\ i + 1 <= Len(text) /\ i \in Nat /\ b \in Nat
    BY <1>1, <1>4, <1>5
  <2>. QED  BY <2>1
<1>. QED  BY <1>3, <1>4, <1>5, <1>6 DEF Raw

\* An end closes the line begun, which is the next of the lines.
LEMMA LineCloses ==
  ASSUME NEW text \in Seq(Bytes), NEW i \in 0 .. Len(text), i + 1 \in Ends(text)
  PROVE  /\ LineAt(text, i) + 1 \in 1 .. Len(Lines(text)) /\ LineAt(text, i + 1) = LineAt(text, i) + 1
         /\ Lines(text)[LineAt(text, i) + 1] = Chomp(Raw(text, i))
         /\ i < Len(text) => Raw(text, i + 1) = <<>>
         /\ i = Len(text) => Len(Lines(text)) = LineAt(text, i) + 1
<1> DEFINE k == LineAt(text, i) + 1
           A == Ends(text)
           N == Len(text) + 1
<1>1. N \in Nat /\ i \in Nat /\ A \subseteq 1 .. N /\ i <= Len(text)
  BY EndsFacts
<1>2. LineAt(text, i) \in Nat /\ k \in Nat /\ k - 1 = LineAt(text, i) /\ (k = 1 <=> LineAt(text, i) = 0)
  <2>1. LineAt(text, i) \in Nat
    BY LineStarts
  <2>. QED  BY <2>1
<1>3. Count(A, i + 1) = k
  BY <1>1, CountNext DEF LineAt
<1>4. Nth(A, k) = i + 1
  BY <1>1, <1>3, NthIs
<1>5. Cardinality(A) = Count(A, N)
  BY <1>1, CountTop
<1>6. k <= Cardinality(A) /\ Cardinality(A) \in Nat /\ (i = Len(text) => Cardinality(A) = k)
  <2>1. Cardinality(A) \in Nat
    BY <1>1, <1>5, UpToFinite
  <2>2. CASE i + 1 = N
    BY <1>2, <1>3, <1>5, <2>1, <2>2
  <2>3. CASE i + 1 # N
    <3>1. i + 1 < N /\ N \in A
      BY <1>1, <2>3, EndsFacts
    <3>2. Count(A, i + 1) < Count(A, N)
      BY <1>1, <3>1, CountGrows
    <3>3. i # Len(text)
      BY <2>3
    <3>. QED  BY <1>2, <1>3, <1>5, <2>1, <3>2, <3>3
  <2>. QED  BY <2>2, <2>3
<1>7. Lines(text) = [l \in 1 .. Cardinality(A) |-> Chomp(SubSeq(text, (IF l = 1 THEN 0 ELSE Nth(A, l - 1)) + 1, Nth(A, l) - 1))]
  BY Zenon DEF Lines
<1>8. Len(Lines(text)) = Cardinality(A) /\ k \in 1 .. Cardinality(A)
  BY <1>2, <1>6, <1>7
<1>9. Lines(text)[k] = Chomp(SubSeq(text, (IF k = 1 THEN 0 ELSE Nth(A, k - 1)) + 1, Nth(A, k) - 1))
  <2>. HIDE DEF k, A
  <2>. QED  BY <1>7, <1>8
<1>10. (IF k = 1 THEN 0 ELSE Nth(A, k - 1)) = LineStart(text, i)
  <2>. HIDE DEF k
  <2>. QED  BY <1>2 DEF LineStart, LineAt, Count, UpToIn
<1>11. (i + 1) - 1 = i
  BY <1>1
<1>12. Lines(text)[k] = Chomp(Raw(text, i))
  <2>. HIDE DEF k, A
  <2>. QED  BY <1>4, <1>9, <1>10, <1>11, Zenon DEF Raw
<1>13. i < Len(text) => Raw(text, i + 1) = <<>>
  <2>1. SUFFICES ASSUME i < Len(text) PROVE Raw(text, i + 1) = <<>>
    OBVIOUS
  <2>2. LineAt(text, i + 1) = k /\ k # 0
    BY <1>2, <1>3 DEF LineAt
  <2>3. LineStart(text, i + 1) = i + 1
    <3>. HIDE DEF k
    <3>. QED  BY <1>4, <2>2 DEF LineStart
  <2>4. (i + 1) + 1 > i + 1 /\ i + 1 \in Nat /\ (i + 1) + 1 \in Nat
    BY <1>1
  <2>5. SubSeq(text, (i + 1) + 1, i + 1) = <<>>
    BY <2>4, SubSeqEmpty
  <2>. QED  BY <2>3, <2>5 DEF Raw
<1>14. LineAt(text, i + 1) = LineAt(text, i) + 1
  BY <1>3 DEF LineAt
<1>. HIDE DEF A
<1>. QED  BY <1>6, <1>8, <1>12, <1>13, <1>14

LEMMA RawType == ASSUME NEW text \in Seq(Bytes), NEW i \in 0 .. Len(text) PROVE Raw(text, i) \in Seq(Bytes)
<1>1. LineStart(text, i) \in 0 .. i /\ Len(text) \in Nat
  BY LineStarts, EndsFacts
<1>2. PICK b : b = LineStart(text, i)
  OBVIOUS
<1>3. b + 1 \in Nat /\ b + 1 >= 1 /\ i \in Nat /\ i <= Len(text)
  BY <1>1, <1>2
<1>4. \A j \in b + 1 .. i : text[j] \in Bytes
  <2>1. ASSUME NEW j \in b + 1 .. i PROVE text[j] \in Bytes
    <3>1. j \in 1 .. Len(text)
      BY <1>1, <1>3
    <3>. QED  BY <3>1, ElementOfSeq
  <2>. QED  BY <2>1
<1>5. SubSeq(text, b + 1, i) \in Seq(Bytes)
  BY <1>3, <1>4, SubSeqProperties
<1>. QED  BY <1>2, <1>5 DEF Raw

LEMMA ChompType == ASSUME NEW u \in Seq(Bytes) PROVE Chomp(u) \in Seq(Bytes)
<1>1. CASE u # <<>>
  <2>1. Len(u) \in Nat /\ Len(u) - 1 \in Nat /\ Len(u) - 1 <= Len(u)
    BY <1>1, EmptySeq
  <2>2. SubSeq(u, 1, Len(u) - 1) \in Seq(Bytes)
    BY <2>1
  <2>. QED  BY <2>2 DEF Chomp
<1>. QED  BY <1>1 DEF Chomp

LEMMA LinesType == ASSUME NEW text \in Seq(Bytes) PROVE Lines(text) \in Seq(Seq(Bytes)) /\ Len(Lines(text)) = Cardinality(Ends(text))
<1> DEFINE A == Ends(text)
           N == Len(text) + 1
<1>1. N \in Nat /\ A \subseteq 1 .. N /\ Cardinality(A) \in Nat
  <2>1. N \in Nat /\ A \subseteq 1 .. N
    BY EndsFacts
  <2>. QED  BY <2>1, CountTop
<1>2. Lines(text) = [l \in 1 .. Cardinality(A) |-> Chomp(SubSeq(text, (IF l = 1 THEN 0 ELSE Nth(A, l - 1)) + 1, Nth(A, l) - 1))]
  BY Zenon DEF Lines
<1>3. ASSUME NEW k \in 1 .. Cardinality(A) PROVE Lines(text)[k] \in Seq(Bytes)
  <2>1. PICK j \in A : Count(A, j) = k
    BY <1>1, Counted
  <2>2. j - 1 \in 0 .. Len(text) /\ (j - 1) + 1 = j /\ j - 1 \in Nat
    BY <1>1, Numbers
  <2>3. Count(A, j) = Count(A, j - 1) + 1
    <3>1. Count(A, (j - 1) + 1) = IF (j - 1) + 1 \in A THEN Count(A, j - 1) + 1 ELSE Count(A, j - 1)
      BY <1>1, <2>2, CountNext
    <3>. QED  BY <2>1, <2>2, <3>1
  <2>4. Lines(text)[LineAt(text, j - 1) + 1] = Chomp(Raw(text, j - 1))
    BY <2>1, <2>2, LineCloses
  <2>5. Chomp(Raw(text, j - 1)) \in Seq(Bytes)
    BY <2>2, RawType, ChompType
  <2>. QED  BY <2>1, <2>3, <2>4, <2>5 DEF LineAt
<1>. HIDE DEF A
<1>4. Lines(text) \in [1 .. Cardinality(A) -> Seq(Bytes)]
  BY <1>2, <1>3
<1>. QED  BY <1>1, <1>4 DEF A


-----------------------------------------------------------------------------
(* The events of some lines, as far as line k.                             *)

\* The blank lines up to line k, where the event begun starts, its data lines and what they
\* say, and the events that have ended.
BlankAt(lines, k) == Count(Blanks(lines), k)
Since(lines, k) == IF BlankAt(lines, k) = 0 THEN 1 ELSE Nth(Blanks(lines), BlankAt(lines, k)) + 1
OpenData(lines, k) == Pick(SubSeq(lines, Since(lines, k), k), DataLines(lines))
OpenLines(lines, k) == Contents(OpenData(lines, k))
EventAt(lines, k) == Count(Closes(lines), k)

LEMMA PickedIn ==
  ASSUME NEW S, NEW s \in Seq(S), NEW P PROVE Pick(s, P) \in Seq(S \intersect P)
<1> DEFINE R == S \intersect P
           T == {u \in Seq(S) : Pick(u, P) \in Seq(R)}
<1>1. <<>> \in T
  BY PickNone, EmptySeq
<1>2. ASSUME NEW u \in Seq(S), NEW x \in S, u \in T PROVE Append(u, x) \in T
  <2>1. Append(u, x) \in Seq(S)
    BY AppendProperties
  <2>2. Pick(Append(u, x), P) = IF x \in P THEN Append(Pick(u, P), x) ELSE Pick(u, P)
    <3>1. PickGrows(u, x, P)
      BY ONLY u \in Seq(S), x \in S, PickAppend
    <3>. QED  BY ONLY <3>1 DEF PickGrows
  <2>3. Pick(u, P) \in Seq(R) /\ (x \in P => x \in R)
    BY <1>2
  <2>. HIDE DEF R
  <2>4. x \in P => Append(Pick(u, P), x) \in Seq(R)
    BY <2>3, AppendProperties
  <2>. QED  BY <2>1, <2>2, <2>3, <2>4
<1>. HIDE DEF T
<1>3. Seq(S) \subseteq T
  BY <1>1, <1>2, Grown
<1>. QED  BY <1>3 DEF T

LEMMA SeqPart == ASSUME NEW S, NEW R, R \subseteq S PROVE Seq(R) \subseteq Seq(S)
<1>1. SUFFICES ASSUME NEW s \in Seq(R) PROVE s \in Seq(S)
  OBVIOUS
<1>2. Len(s) \in Nat /\ s \in [1 .. Len(s) -> R]
  BY LenProperties
<1>3. s \in [1 .. Len(s) -> S]
  BY <1>2
<1>. QED  BY <1>2, <1>3

LEMMA ContentsFacts ==
  ASSUME NEW ds \in Seq({u \in Seq(Bytes) : u # <<>>}), NEW x \in Seq(Bytes), x # <<>>
  PROVE  /\ Contents(ds) \in Seq(Seq(Bytes)) /\ (Contents(ds) = <<>> <=> ds = <<>>)
         /\ Contents(Append(ds, x)) = Append(Contents(ds), Tail(x))
<1> DEFINE R == {u \in Seq(Bytes) : u # <<>>}
           t == Append(ds, x)
           n == Len(ds)
<1>1. n \in Nat /\ DOMAIN ds = 1 .. n /\ t \in Seq(R) /\ Len(t) = n + 1 /\ t[n + 1] = x
  BY LenProperties, AppendProperties
<1>2. \A i \in 1 .. n : t[i] = ds[i]
  BY AppendProperties
<1>3. \A u \in R : Tail(u) \in Seq(Bytes)
  BY HeadTailProperties
<1>4. \A i \in 1 .. n : ds[i] \in R
  BY ElementOfSeq
<1>5. Contents(ds) \in [1 .. n -> Seq(Bytes)]
  <2>. HIDE DEF n, R
  <2>. QED  BY <1>1, <1>3, <1>4 DEF Contents
<1>6. Contents(ds) \in Seq(Seq(Bytes)) /\ Len(Contents(ds)) = n
  <2>. HIDE DEF n
  <2>. QED  BY <1>1, <1>5
<1>7. Contents(ds) = <<>> <=> ds = <<>>
  BY <1>6, EmptySeq
<1>8. Tail(x) \in Seq(Bytes)
  BY <1>3
<1>9. Append(Contents(ds), Tail(x)) = [i \in 1 .. n + 1 |-> IF i = n + 1 THEN Tail(x) ELSE Contents(ds)[i]]
  <2>1. PICK w : w = Tail(x)
    OBVIOUS
  <2>2. PICK v : v = Contents(ds)
    OBVIOUS
  <2>3. v \in Seq(Seq(Bytes)) /\ Len(v) = n /\ w \in Seq(Bytes)
    BY <1>6, <1>8, <2>1, <2>2
  <2>4. PICK m : m = n
    OBVIOUS
  <2>5. m \in Nat /\ Len(v) = m
    BY <1>1, <2>3, <2>4
  <2>6. Len(Append(v, w)) = m + 1 /\ Append(v, w) \in Seq(Seq(Bytes))
    BY <2>3, <2>5
  <2>7. \A i \in 1 .. m + 1 : Append(v, w)[i] = IF i = m + 1 THEN w ELSE v[i]
    <3>1. PICK X : X = Seq(Bytes)
      OBVIOUS
    <3>2. w \in X /\ v \in Seq(X)
      BY <2>3, <3>1
    <3>3. Append(v, w)[m + 1] = w /\ \A i \in 1 .. m : Append(v, w)[i] = v[i]
      BY <2>5, <3>2, AppendProperties
    <3>4. ASSUME NEW i \in 1 .. m + 1, i # m + 1 PROVE i \in 1 .. m
      BY <2>5, <3>4
    <3>. QED  BY <3>3, <3>4
  <2>8. Append(v, w) = [i \in 1 .. m + 1 |-> Append(v, w)[i]]
    BY <2>6, LenProperties
  <2>9. Append(v, w) = [i \in 1 .. m + 1 |-> IF i = m + 1 THEN w ELSE v[i]]
    BY ONLY <2>7, <2>8
  <2>. HIDE DEF n
  <2>. QED  BY <2>1, <2>2, <2>4, <2>9, Zenon
<1>10. Contents(t) = [i \in 1 .. n + 1 |-> Tail(t[i])]
  <2>1. DOMAIN t = 1 .. n + 1
    BY <1>1, LenProperties
  <2>. HIDE DEF t, n
  <2>. QED  BY <2>1 DEF Contents
<1>11. ASSUME NEW i \in 1 .. n + 1 PROVE Tail(t[i]) = IF i = n + 1 THEN Tail(x) ELSE Contents(ds)[i]
  <2>1. CASE i = n + 1
    <3>. HIDE DEF t, n
    <3>. QED  BY <1>1, <2>1
  <2>2. CASE i # n + 1
    <3>1. i \in 1 .. n
      BY <1>1, <2>2
    <3>2. Contents(ds)[i] = Tail(ds[i])
      BY <1>1, <3>1 DEF Contents
    <3>. HIDE DEF t, n
    <3>. QED  BY <1>2, <2>2, <3>1, <3>2
  <2>. QED  BY <2>1, <2>2
<1>12. Contents(t) = Append(Contents(ds), Tail(x))
  <2>. HIDE DEF t, n
  <2>. QED  BY <1>9, <1>10, <1>11
<1>. QED  BY <1>6, <1>7, <1>12

LEMMA BlanksFacts ==
  ASSUME NEW lines \in Seq(Seq(Bytes))
  PROVE  /\ Len(lines) \in Nat /\ Blanks(lines) \subseteq 1 .. Len(lines) + 1 /\ Len(lines) + 1 \in Blanks(lines)
         /\ Closes(lines) \subseteq 1 .. Len(lines) + 1
         /\ \A k \in 1 .. Len(lines) : k \in Blanks(lines) <=> lines[k] = <<>>
         /\ \A k \in 1 .. Len(lines) : lines[k] # <<>> => (lines[k] \in DataLines(lines) <=> lines[k][1] = "d")
<1>1. Len(lines) \in Nat /\ DOMAIN lines = 1 .. Len(lines)
  BY LenProperties
<1>2. ASSUME NEW i \in 1 .. Len(lines) PROVE i # Len(lines) + 1 /\ i \in 1 .. Len(lines) + 1
  BY <1>1
<1>3. Len(lines) + 1 \in 1 .. Len(lines) + 1
  BY <1>1
<1>4. \A i \in 1 .. Len(lines) : i \in Blanks(lines) <=> lines[i] = <<>>
  BY <1>1, <1>2 DEF Blanks
<1>5. Blanks(lines) \subseteq 1 .. Len(lines) + 1
  BY <1>1, <1>2, <1>3 DEF Blanks
<1>6. Len(lines) + 1 \in Blanks(lines)
  BY DEF Blanks
<1>7. Closes(lines) \subseteq Blanks(lines)
  BY Zenon DEF Closes
<1>8. \A k \in 1 .. Len(lines) : lines[k] # <<>> => (lines[k] \in DataLines(lines) <=> lines[k][1] = "d")
  BY <1>1, Zenon DEF DataLines
<1>. QED  BY <1>1, <1>4, <1>5, <1>6, <1>7, <1>8

LEMMA OpenFacts ==
  ASSUME NEW lines \in Seq(Seq(Bytes)), NEW k \in 0 .. Len(lines)
  PROVE  /\ Since(lines, k) \in 1 .. k + 1
         /\ OpenData(lines, k) \in Seq({u \in Seq(Bytes) : u # <<>>})
         /\ OpenLines(lines, k) \in Seq(Seq(Bytes))
         /\ SubSeq(lines, Since(lines, k), k) \in Seq(Seq(Bytes))
         /\ DataOf(lines, k + 1) = OpenData(lines, k)
         /\ OpenLines(lines, k) = <<>> <=> OpenData(lines, k) = <<>>
<1> DEFINE A == Blanks(lines)
           N == Len(lines) + 1
           R == {u \in Seq(Bytes) : u # <<>>}
<1>1. N \in Nat /\ k \in Nat /\ A \subseteq 1 .. N /\ k <= Len(lines) /\ Len(lines) \in Nat
  BY BlanksFacts
<1>2. BlankAt(lines, k) \in Nat
  BY <1>1, UpToFinite DEF BlankAt
<1>3. Since(lines, k) \in 1 .. k + 1
  <2>1. CASE BlankAt(lines, k) = 0
    BY <1>1, <2>1 DEF Since
  <2>2. CASE BlankAt(lines, k) # 0
    <3>1. PICK j : j = Nth(A, BlankAt(lines, k))
      OBVIOUS
    <3>2. j \in A /\ j <= k
      BY <1>1, <2>2, <3>1, LastIn DEF BlankAt
    <3>3. j \in Nat /\ Since(lines, k) = j + 1
      BY <1>1, <2>2, <3>1, <3>2, Numbers DEF Since
    <3>. QED  BY <1>1, <3>2, <3>3
  <2>. QED  BY <2>1, <2>2
<1>4. PICK b : b = Since(lines, k)
  OBVIOUS
<1>5. SubSeq(lines, b, k) \in Seq(Seq(Bytes))
  <2>1. b \in Nat /\ b >= 1
    BY <1>1, <1>3, <1>4
  <2>2. ASSUME NEW j \in b .. k PROVE lines[j] \in Seq(Bytes)
    <3>1. j \in 1 .. Len(lines)
      BY <1>1, <2>1
    <3>. QED  BY <3>1, ElementOfSeq
  <2>. QED  BY <1>1, <2>1, <2>2, SubSeqProperties
<1>6. OpenData(lines, k) \in Seq(R)
  <2>1. OpenData(lines, k) \in Seq(Seq(Bytes) \intersect DataLines(lines))
    BY <1>4, <1>5, PickedIn, Zenon DEF OpenData
  <2>2. Seq(Bytes) \intersect DataLines(lines) \subseteq R
    BY Zenon DEF DataLines
  <2>. HIDE DEF R
  <2>. QED  BY <2>1, <2>2, SeqPart
<1>7. <<"d">> \in Seq(Bytes) /\ <<"d">> # <<>>
  BY DEF Bytes
<1>8. OpenLines(lines, k) \in Seq(Seq(Bytes)) /\ (OpenLines(lines, k) = <<>> <=> OpenData(lines, k) = <<>>)
  <2>1. PICK w : w = <<"d">>
    OBVIOUS
  <2>2. PICK ds : ds = OpenData(lines, k)
    OBVIOUS
  <2>3. Contents(ds) \in Seq(Seq(Bytes)) /\ (Contents(ds) = <<>> <=> ds = <<>>)
    BY <1>6, <1>7, <2>1, <2>2, ContentsFacts
  <2>. QED  BY <2>2, <2>3, Zenon DEF OpenLines
<1>9. DataOf(lines, k + 1) = OpenData(lines, k)
  <2>1. \A j \in A : j < k + 1 <=> j <= k
    <3>1. ASSUME NEW j \in A PROVE j < k + 1 <=> j <= k
      <4>1. j \in Nat
        BY <1>1, Numbers
      <4>. QED  BY <1>1, <4>1
    <3>. QED  BY <3>1
  <2>2. {j \in A : j < k + 1} = UpToIn(A, k)
    BY <2>1, Zenon DEF UpToIn
  <2>3. (k + 1) - 1 = k
    BY <1>1
  <2>4. Cardinality({j \in Blanks(lines) : j < k + 1}) = BlankAt(lines, k)
    BY <2>2, Zenon DEF BlankAt, Count
  <2>. QED  BY <2>3, <2>4, Zenon DEF DataOf, OpenData, Since
<1>. QED  BY <1>3, <1>4, <1>5, <1>6, <1>8, <1>9

LEMMA OpenNone ==
  ASSUME NEW lines \in Seq(Seq(Bytes)) PROVE OpenLines(lines, 0) = <<>> /\ EventAt(lines, 0) = 0
<1>1. Len(lines) + 1 \in Nat /\ Blanks(lines) \subseteq 1 .. Len(lines) + 1 /\ Closes(lines) \subseteq 1 .. Len(lines) + 1
  BY BlanksFacts
<1>2. BlankAt(lines, 0) = 0 /\ EventAt(lines, 0) = 0
  BY <1>1, CountNone DEF BlankAt, EventAt
<1>3. SubSeq(lines, Since(lines, 0), 0) = <<>>
  BY <1>2, SubSeqEmpty DEF Since
<1>4. OpenData(lines, 0) = <<>>
  BY <1>3, PickNone DEF OpenData
<1>. QED  BY <1>2, <1>4 DEF OpenLines, Contents

\* A line that is not blank is one more data line of the event begun, or none.
LEMMA LineFed ==
  ASSUME NEW lines \in Seq(Seq(Bytes)), NEW k \in 0 .. Len(lines) - 1, lines[k + 1] # <<>>
  PROVE  /\ EventAt(lines, k + 1) = EventAt(lines, k)
         /\ OpenLines(lines, k + 1) = IF lines[k + 1][1] = "d" THEN Append(OpenLines(lines, k), Tail(lines[k + 1]))
                                      ELSE OpenLines(lines, k)
<1>1. /\ Len(lines) + 1 \in Nat /\ k \in Nat /\ Blanks(lines) \subseteq 1 .. Len(lines) + 1
      /\ k + 1 \in 1 .. Len(lines) /\ k \in 0 .. Len(lines) /\ Closes(lines) \subseteq 1 .. Len(lines) + 1
  BY BlanksFacts
<1>2. k + 1 \notin Blanks(lines)
  BY <1>1, BlanksFacts
<1>3. k + 1 \notin Closes(lines)
  BY <1>2 DEF Closes
<1>4. BlankAt(lines, k + 1) = BlankAt(lines, k) /\ EventAt(lines, k + 1) = EventAt(lines, k)
  <2>1. PICK N : N = Len(lines) + 1
    OBVIOUS
  <2>2. PICK A : A = Blanks(lines)
    OBVIOUS
  <2>3. PICK B : B = Closes(lines)
    OBVIOUS
  <2>4. N \in Nat /\ k \in Nat /\ A \subseteq 1 .. N /\ B \subseteq 1 .. N /\ k + 1 \notin A /\ k + 1 \notin B
    BY <1>1, <1>2, <1>3, <2>1, <2>2, <2>3
  <2>5. Count(A, k + 1) = Count(A, k) /\ Count(B, k + 1) = Count(B, k)
    BY ONLY <2>4, CountNext
  <2>. QED  BY ONLY <2>2, <2>3, <2>5, Zenon DEF BlankAt, EventAt
<1>5. Since(lines, k + 1) = Since(lines, k)
  BY <1>4 DEF Since
<1>6. PICK b : b = Since(lines, k)
  OBVIOUS
<1>7. PICK x : x = lines[k + 1]
  OBVIOUS
<1>8. PICK sub : sub = SubSeq(lines, b, k)
  OBVIOUS
<1>9. x \in Seq(Bytes) /\ sub \in Seq(Seq(Bytes)) /\ b \in 1 .. k + 1
  BY <1>1, <1>6, <1>7, <1>8, OpenFacts, ElementOfSeq
<1>10. SubSeq(lines, b, k + 1) = Append(sub, x)
  <2>1. b \in 1 .. k + 1 /\ k + 1 <= Len(lines)
    BY <1>1, <1>9
  <2>2. SubSeq(lines, b, k + 1) = Append(SubSeq(lines, b, k), lines[k + 1])
    <3>1. PICK X : X = Seq(Bytes)
      OBVIOUS
    <3>2. lines \in Seq(X)
      BY <3>1
    <3>. QED  BY ONLY <2>1, <3>2, k \in 0 .. Len(lines) - 1
  <2>. QED  BY ONLY <1>7, <1>8, <2>2
<1>11. PickGrows(sub, x, DataLines(lines))
  <2>1. PICK P : P = DataLines(lines)
    OBVIOUS
  <2>2. PICK X : X = Seq(Bytes)
    OBVIOUS
  <2>3. x \in X /\ sub \in Seq(X)
    BY <1>9, <2>2
  <2>4. PickGrows(sub, x, P)
    BY ONLY <2>3, PickAppend
  <2>. QED  BY ONLY <2>1, <2>4
<1>12. PICK ds : ds = OpenData(lines, k)
  OBVIOUS
<1>13. OpenData(lines, k + 1) = IF x \in DataLines(lines) THEN Append(ds, x) ELSE ds
  BY <1>5, <1>6, <1>8, <1>10, <1>11, <1>12, Zenon DEF OpenData, PickGrows
<1>14. Contents(Append(ds, x)) = Append(Contents(ds), Tail(x))
  <2>1. ds \in Seq({u \in Seq(Bytes) : u # <<>>}) /\ x # <<>>
    BY <1>1, <1>7, <1>12, OpenFacts
  <2>. QED  BY <1>9, <2>1, ContentsFacts
<1>15. x \in DataLines(lines) <=> x[1] = "d"
  BY <1>1, <1>7, BlanksFacts
<1>16. OpenLines(lines, k + 1) = IF x[1] = "d" THEN Append(OpenLines(lines, k), Tail(x)) ELSE OpenLines(lines, k)
  <2>1. CASE x[1] = "d"
    <3>1. OpenData(lines, k + 1) = Append(ds, x)
      BY <1>13, <1>15, <2>1
    <3>. QED  BY <1>12, <1>14, <2>1, <3>1 DEF OpenLines
  <2>2. CASE x[1] # "d"
    <3>1. OpenData(lines, k + 1) = ds
      BY <1>13, <1>15, <2>2
    <3>. QED  BY <1>12, <2>2, <3>1 DEF OpenLines
  <2>. QED  BY <2>1, <2>2
<1>. QED  BY <1>4, <1>7, <1>16, Zenon

\* A blank line ends the event begun, if it has a data line; so does the end.
LEMMA BlankFed ==
  ASSUME NEW lines \in Seq(Seq(Bytes)), NEW k \in 0 .. Len(lines), k + 1 \in Blanks(lines)
  PROVE  /\ OpenLines(lines, k) = <<>> => EventAt(lines, k + 1) = EventAt(lines, k)
         /\ OpenLines(lines, k) # <<>> =>
              /\ EventAt(lines, k + 1) = EventAt(lines, k) + 1
              /\ EventAt(lines, k) + 1 \in 1 .. Len(EventsOf(lines))
              /\ EventsOf(lines)[EventAt(lines, k) + 1] = Join(OpenLines(lines, k))
         /\ k < Len(lines) => OpenLines(lines, k + 1) = <<>>
         /\ k = Len(lines) => Len(EventsOf(lines)) = EventAt(lines, k + 1)
<1> DEFINE A == Closes(lines)
           N == Len(lines) + 1
<1>1. N \in Nat /\ k \in Nat /\ A \subseteq 1 .. N /\ Blanks(lines) \subseteq 1 .. N /\ k <= Len(lines) /\ Len(lines) \in Nat
  BY BlanksFacts
<1>2. EventAt(lines, k) \in Nat /\ Count(A, k + 1) \in Nat /\ k + 1 \in Nat
  BY <1>1, UpToFinite DEF EventAt
<1>3. k + 1 \in A <=> OpenLines(lines, k) # <<>>
  BY OpenFacts DEF Closes
<1>4. Count(A, k + 1) = IF k + 1 \in A THEN EventAt(lines, k) + 1 ELSE EventAt(lines, k)
  BY <1>1, CountNext DEF EventAt
<1>5. EventsOf(lines) = [l \in 1 .. Cardinality(A) |-> Join(Contents(DataOf(lines, Nth(A, l))))]
  BY Zenon DEF EventsOf
<1>6. Cardinality(A) = Count(A, N) /\ Cardinality(A) \in Nat
  BY <1>1, CountTop
<1>7. Len(EventsOf(lines)) = Cardinality(A)
  <2>. HIDE DEF A
  <2>. QED  BY <1>5, <1>6
<1>8. ASSUME k + 1 \in A
      PROVE  /\ EventAt(lines, k) + 1 \in 1 .. Cardinality(A)
             /\ EventsOf(lines)[EventAt(lines, k) + 1] = Join(OpenLines(lines, k))
  <2>1. Count(A, k + 1) <= Cardinality(A)
    <3>1. UpToIn(A, k + 1) \subseteq A
      BY DEF UpToIn
    <3>2. IsFiniteSet(A)
      <4>1. IsFiniteSet(1 .. N)
        BY <1>1, FS_Interval
      <4>. HIDE DEF A
      <4>. QED  BY <1>1, <4>1, FS_Subset
    <3>. HIDE DEF A
    <3>. QED  BY <3>1, <3>2, FS_Subset DEF Count
  <2>2. PICK l : l = EventAt(lines, k) + 1
    OBVIOUS
  <2>3. l \in 1 .. Cardinality(A) /\ l = Count(A, k + 1)
    BY <1>2, <1>4, <1>6, <1>8, <2>1, <2>2
  <2>4. Nth(A, l) = k + 1
    BY <1>1, <1>8, <2>3, NthIs
  <2>5. EventsOf(lines)[l] = Join(Contents(DataOf(lines, Nth(A, l))))
    <3>. HIDE DEF A
    <3>. QED  BY <1>5, <2>3
  <2>6. DataOf(lines, k + 1) = OpenData(lines, k)
    BY OpenFacts
  <2>. QED  BY <2>2, <2>3, <2>4, <2>5, <2>6 DEF OpenLines
<1>9. ASSUME k < Len(lines) PROVE OpenLines(lines, k + 1) = <<>>
  <2>1. BlankAt(lines, k + 1) = BlankAt(lines, k) + 1 /\ BlankAt(lines, k) \in Nat
    BY <1>1, CountNext, UpToFinite DEF BlankAt
  <2>2. Nth(Blanks(lines), BlankAt(lines, k + 1)) = k + 1
    BY <1>1, NthIs DEF BlankAt
  <2>3. Since(lines, k + 1) = (k + 1) + 1
    BY <2>1, <2>2 DEF Since
  <2>4. (k + 1) + 1 > k + 1 /\ (k + 1) + 1 \in Nat
    BY <1>1
  <2>5. SubSeq(lines, (k + 1) + 1, k + 1) = <<>>
    BY <1>2, <2>4, SubSeqEmpty
  <2>6. OpenData(lines, k + 1) = <<>>
    BY <2>3, <2>5, PickNone DEF OpenData
  <2>. QED  BY <2>6 DEF OpenLines, Contents
<1>10. EventAt(lines, k + 1) = Count(A, k + 1)
  BY DEF EventAt
<1>. HIDE DEF A
<1>. QED  BY <1>3, <1>4, <1>6, <1>7, <1>8, <1>9, <1>10

LEMMA JoinType == ASSUME NEW ls \in Seq(Seq(Bytes)) PROVE Join(ls) \in Seq(Bytes)
<1>1. <<"n">> \in Seq(Bytes)
  BY DEF Bytes
<1>2. PICK w : w = <<"n">>
  OBVIOUS
<1>3. Concat(ls, w) \in Seq(Bytes)
  BY <1>1, <1>2, ConcatType
<1>. QED  BY <1>2, <1>3 DEF Join

LEMMA EventsType == ASSUME NEW lines \in Seq(Seq(Bytes)) PROVE EventsOf(lines) \in Seq(Seq(Bytes))
<1> DEFINE A == Closes(lines)
           N == Len(lines) + 1
<1>1. N \in Nat /\ A \subseteq 1 .. N /\ A \subseteq Blanks(lines)
  BY BlanksFacts DEF Closes
<1>2. Cardinality(A) \in Nat
  BY <1>1, CountTop
<1>3. EventsOf(lines) = [l \in 1 .. Cardinality(A) |-> Join(Contents(DataOf(lines, Nth(A, l))))]
  BY Zenon DEF EventsOf
<1>4. ASSUME NEW l \in 1 .. Cardinality(A) PROVE EventsOf(lines)[l] \in Seq(Bytes)
  <2>1. PICK j \in A : Count(A, j) = l
    BY <1>1, Counted
  <2>2. PICK k : k = j - 1
    OBVIOUS
  <2>3. k \in 0 .. Len(lines) /\ k + 1 = j
    BY <1>1, <2>2, Numbers
  <2>4. Nth(A, l) = k + 1
    BY <1>1, <2>1, <2>3, NthIs
  <2>5. EventsOf(lines)[l] = Join(Contents(DataOf(lines, Nth(A, l))))
    <3>. HIDE DEF A
    <3>. QED  BY <1>3
  <2>6. DataOf(lines, k + 1) = OpenData(lines, k) /\ OpenLines(lines, k) \in Seq(Seq(Bytes))
    BY <2>3, OpenFacts
  <2>. QED  BY <2>4, <2>5, <2>6, JoinType DEF OpenLines
<1>. HIDE DEF A
<1>5. EventsOf(lines) \in [1 .. Cardinality(A) -> Seq(Bytes)]
  BY <1>3, <1>4
<1>. QED  BY <1>2, <1>5

-----------------------------------------------------------------------------
(* What a stream means: its events up to the done marker.                  *)

\* The values of a decoder.
Decoders == [half : BOOLEAN, pending : Seq(Bytes), lines : Seq(Seq(Bytes)), stopped : BOOLEAN,
             frames : Seq(Seq(Bytes)), bad : BOOLEAN]

LEMMA First ==
  ASSUME NEW N \in Nat, NEW A, A \subseteq 1 .. N, A # {}
  PROVE  \E c \in A : \A j \in 1 .. c - 1 : j \notin A
<1> DEFINE T == {k \in Nat : (\A j \in 1 .. k : j \notin A) \/ \E c \in A : \A j \in 1 .. c - 1 : j \notin A}
<1>1. 0 \in T
  OBVIOUS
<1>2. ASSUME NEW k \in Nat, k \in T PROVE k + 1 \in T
  <2>1. CASE \E c \in A : \A j \in 1 .. c - 1 : j \notin A
    BY <2>1
  <2>2. CASE \A j \in 1 .. k : j \notin A
    <3>1. CASE k + 1 \in A
      <4>1. (k + 1) - 1 = k
        OBVIOUS
      <4>. QED  BY <2>2, <3>1, <4>1
    <3>2. CASE k + 1 \notin A
      <4>1. \A j \in 1 .. k + 1 : j = k + 1 \/ j \in 1 .. k
        OBVIOUS
      <4>. QED  BY <2>2, <3>2, <4>1
    <3>. QED  BY <3>1, <3>2
  <2>. QED  BY <1>2, <2>1, <2>2
<1>. HIDE DEF T
<1>3. N \in T
  BY <1>1, <1>2, Induction
<1>. QED  BY <1>3 DEF T

LEMMA SubSub ==
  ASSUME NEW S, NEW s \in Seq(S), NEW m \in 0 .. Len(s), NEW n \in 0 .. m
  PROVE  SubSeq(SubSeq(s, 1, m), 1, n) = SubSeq(s, 1, n) /\ SubSeq(s, 1, m) \in Seq(S) /\ Len(SubSeq(s, 1, m)) = m
<1>1. Len(s) \in Nat
  BY LenProperties
<1>. QED  BY <1>1

LEMMA SubNext ==
  ASSUME NEW S, NEW s \in Seq(S), NEW m \in 0 .. Len(s) - 1
  PROVE  SubSeq(s, 1, m + 1) = Append(SubSeq(s, 1, m), s[m + 1]) /\ s[m + 1] \in S
<1>1. Len(s) \in Nat /\ m + 1 \in 1 .. Len(s)
  BY LenProperties
<1>2. s[m + 1] \in S
  BY <1>1, ElementOfSeq
<1>. QED  BY <1>1, <1>2

LEMMA UntilFacts ==
  ASSUME NEW evs \in Seq(Seq(Bytes)), NEW n \in 0 .. Len(evs), \A j \in 1 .. n : evs[j] # <<".">>
  PROVE  /\ UntilDone(evs) \in Seq(Seq(Bytes)) /\ n <= Len(UntilDone(evs))
         /\ SubSeq(UntilDone(evs), 1, n) = SubSeq(evs, 1, n)
         /\ n = Len(evs) => UntilDone(evs) = SubSeq(evs, 1, n)
         /\ n < Len(evs) /\ evs[n + 1] = <<".">> => UntilDone(evs) = SubSeq(evs, 1, n)
         /\ n < Len(evs) /\ evs[n + 1] # <<".">> => n + 1 \in DOMAIN UntilDone(evs) /\ UntilDone(evs)[n + 1] = evs[n + 1]
<1> DEFINE A == {i \in DOMAIN evs : evs[i] = <<".">>}
<1>1. Len(evs) \in Nat /\ DOMAIN evs = 1 .. Len(evs) /\ n \in Nat
  BY LenProperties
<1>2. PICK X : X = Seq(Bytes)
  OBVIOUS
<1>3. evs \in Seq(X)
  BY <1>2
<1>4. SubSeq(evs, 1, Len(evs)) = evs
  BY <1>3, SubSeqFull
<1>5. CASE A = {}
  <2>1. UntilDone(evs) = evs
    BY <1>5, Zenon DEF UntilDone
  <2>2. n + 1 \in DOMAIN evs \/ n = Len(evs)
    <3>1. PICK m : m = Len(evs)
      OBVIOUS
    <3>2. n \in 0 .. m /\ m \in Nat
      BY <1>1, <3>1
    <3>3. n + 1 \in 1 .. m \/ n = m
      BY ONLY <3>2
    <3>. QED  BY <1>1, <3>1, <3>3, Zenon
  <2>3. \A i \in DOMAIN evs : evs[i] # <<".">>
    BY <1>5
  <2>. QED  BY <1>1, <1>4, <2>1, <2>2, <2>3
<1>6. CASE A # {}
  <2>1. \E c \in A : \A j \in 1 .. c - 1 : j \notin A
    <3>1. A \subseteq 1 .. Len(evs)
      BY <1>1
    <3>. HIDE DEF A
    <3>. QED  BY <1>1, <1>6, <3>1, First
  <2>2. PICK c : c = CHOOSE i \in DOMAIN evs : evs[i] = <<".">> /\ \A j \in 1 .. i - 1 : evs[j] # <<".">>
    OBVIOUS
  <2>3. \E i \in DOMAIN evs : evs[i] = <<".">> /\ \A j \in 1 .. i - 1 : evs[j] # <<".">>
    <3>1. PICK e \in A : \A j \in 1 .. e - 1 : j \notin A
      BY <2>1
    <3>2. e \in 1 .. Len(evs)
      BY <1>1, <3>1
    <3>3. \A j \in 1 .. e - 1 : j \in DOMAIN evs
      BY <1>1, <3>2
    <3>4. \A j \in 1 .. e - 1 : evs[j] # <<".">>
      BY <3>1, <3>3
    <3>. QED  BY <3>1, <3>4
  <2>4. c \in DOMAIN evs /\ evs[c] = <<".">> /\ \A j \in 1 .. c - 1 : evs[j] # <<".">>
    BY <2>2, <2>3, Zenon
  <2>5. c \in 1 .. Len(evs)
    BY <1>1, <2>4
  <2>6. UntilDone(evs) = SubSeq(evs, 1, c - 1)
    BY <2>2, <2>3, Zenon DEF UntilDone
  <2>7. n < c
    <3>1. c \notin 1 .. n
      BY <2>4
    <3>. QED  BY <1>1, <2>5, <3>1
  <2>8. PICK m : m = c - 1
    OBVIOUS
  <2>9. m \in 0 .. Len(evs) /\ n \in 0 .. m /\ m \in Nat /\ m < Len(evs) /\ c = m + 1
    BY <1>1, <2>5, <2>7, <2>8
  <2>10. SubSeq(SubSeq(evs, 1, m), 1, n) = SubSeq(evs, 1, n) /\ SubSeq(evs, 1, m) \in Seq(X) /\ Len(SubSeq(evs, 1, m)) = m
    BY <1>3, <2>9, SubSub
  <2>11. n < Len(evs) /\ evs[n + 1] = <<".">> => m = n
    <3>1. n + 1 \in 1 .. c - 1 \/ n = m
      BY <1>1, <2>5, <2>7, <2>8
    <3>. QED  BY <2>4, <3>1
  <2>12. evs[n + 1] # <<".">> => n + 1 \in 1 .. m
    <3>1. n + 1 = c \/ n + 1 \in 1 .. m
      BY <2>9
    <3>. QED  BY <2>4, <3>1
  <2>13. \A i \in 1 .. m : i \in DOMAIN SubSeq(evs, 1, m) /\ SubSeq(evs, 1, m)[i] = evs[i]
    BY <1>3, <2>9
  <2>. HIDE DEF A
  <2>14. PICK M : M = UntilDone(evs)
    OBVIOUS
  <2>15. M = SubSeq(evs, 1, m) /\ n <= m /\ n < Len(evs)
    BY <1>1, <2>6, <2>8, <2>9, <2>14
  <2>16. M \in Seq(Seq(Bytes)) /\ Len(M) = m /\ SubSeq(M, 1, n) = SubSeq(evs, 1, n)
    BY <1>2, <2>10, <2>15
  <2>17. evs[n + 1] = <<".">> => M = SubSeq(evs, 1, n)
    BY <2>11, <2>15
  <2>18. evs[n + 1] # <<".">> => n + 1 \in DOMAIN M /\ M[n + 1] = evs[n + 1]
    BY <2>12, <2>13, <2>15
  <2>19. n # Len(evs)
    BY <1>1, <2>15
  <2>. QED  BY <2>14, <2>15, <2>16, <2>17, <2>18, <2>19
<1>. QED  BY <1>5, <1>6

LEMMA EventBelow ==
  ASSUME NEW lines \in Seq(Seq(Bytes)), NEW k
  PROVE  EventAt(lines, k) \in 0 .. Len(EventsOf(lines)) /\ Len(EventsOf(lines)) \in Nat
<1> DEFINE A == Closes(lines)
           N == Len(lines) + 1
<1>1. N \in Nat /\ A \subseteq 1 .. N
  BY BlanksFacts
<1>2. IsFiniteSet(A)
  <2>1. IsFiniteSet(1 .. N)
    BY <1>1, FS_Interval
  <2>. HIDE DEF A
  <2>. QED  BY <1>1, <2>1, FS_Subset
<1>3. UpToIn(A, k) \subseteq A
  BY DEF UpToIn
<1>4. Cardinality(A) \in Nat /\ Count(A, k) \in Nat /\ Count(A, k) <= Cardinality(A)
  <2>1. Count(A, k) \in Nat
    BY <1>1, UpToFinite
  <2>. HIDE DEF A
  <2>. QED  BY <1>2, <1>3, <2>1, FS_Subset, FS_CardinalityType DEF Count
<1>5. EventsOf(lines) = [l \in 1 .. Cardinality(A) |-> Join(Contents(DataOf(lines, Nth(A, l))))]
  BY Zenon DEF EventsOf
<1>6. Len(EventsOf(lines)) = Cardinality(A)
  <2>. HIDE DEF A
  <2>. QED  BY <1>4, <1>5
<1>. HIDE DEF A
<1>. QED  BY <1>4, <1>6 DEF EventAt, A

-----------------------------------------------------------------------------
(* The decoder against the events of the lines it was given.               *)

\* An event is longer than the limit.
TooLong(lines) == \E i \in DOMAIN UntilDone(EventsOf(lines)) : Len(UntilDone(EventsOf(lines))[i]) > MaxEvent

\* With the frames taken before, those of the decoder are the events up to line k.
Fed(lines, d, prior, k) ==
  /\ d.bad => TooLong(lines)
  /\ ~d.bad /\ d.stopped => prior \o d.frames = UntilDone(EventsOf(lines))
  /\ ~d.bad /\ ~d.stopped =>
       /\ prior \o d.frames = SubSeq(EventsOf(lines), 1, EventAt(lines, k))
       /\ \A j \in 1 .. EventAt(lines, k) : EventsOf(lines)[j] # <<".">>
       /\ d.lines = OpenLines(lines, k)

LEMMA FrameIs ==
  ASSUME NEW d \in Decoders
  PROVE  LET f == Frame(d)
             data == Join(d.lines)
         IN /\ f \in Decoders /\ f.half = d.half /\ f.pending = d.pending /\ f.lines = <<>>
            /\ d.lines = <<>> => f = d
            /\ d.lines # <<>> /\ Len(data) > MaxEvent => f.bad /\ f.stopped = d.stopped
            /\ d.lines # <<>> /\ ~(Len(data) > MaxEvent) /\ data = <<".">> =>
                 f.bad = d.bad /\ f.stopped /\ f.frames = d.frames
            /\ d.lines # <<>> /\ ~(Len(data) > MaxEvent) /\ data # <<".">> =>
                 f.bad = d.bad /\ f.stopped = d.stopped /\ f.frames = Append(d.frames, data)
<1>1. PICK data : data = Join(d.lines)
  OBVIOUS
<1>2. data \in Seq(Bytes) /\ d.lines \in Seq(Seq(Bytes)) /\ d.frames \in Seq(Seq(Bytes))
  BY <1>1, JoinType DEF Decoders
<1>3. PICK fs : fs = Append(d.frames, data)
  OBVIOUS
<1>4. fs \in Seq(Seq(Bytes)) /\ <<>> \in Seq(Seq(Bytes))
  <2>1. PICK X : X = Seq(Bytes)
    OBVIOUS
  <2>2. data \in X /\ d.frames \in Seq(X)
    BY <1>2, <2>1
  <2>3. fs \in Seq(X) /\ <<>> \in Seq(X)
    BY ONLY <1>3, <2>2, AppendProperties
  <2>. QED  BY <2>1, <2>3
<1>5. PICK over : over = (Len(data) > MaxEvent)
  OBVIOUS
<1>6. Frame(d) = IF d.lines = <<>> THEN d
                 ELSE IF over THEN [d EXCEPT !.lines = <<>>, !.bad = TRUE]
                 ELSE IF data = <<".">> THEN [d EXCEPT !.lines = <<>>, !.stopped = TRUE]
                 ELSE [d EXCEPT !.lines = <<>>, !.frames = fs]
  <2>1. d.lines = <<>> => Frame(d) = d
    BY DEF Frame
  <2>2. d.lines # <<>> /\ over => Frame(d) = [d EXCEPT !.lines = <<>>, !.bad = TRUE]
    BY <1>1, <1>5 DEF Frame
  <2>3. d.lines # <<>> /\ ~over /\ data = <<".">> => Frame(d) = [d EXCEPT !.lines = <<>>, !.stopped = TRUE]
    BY <1>1, <1>5 DEF Frame
  <2>4. d.lines # <<>> /\ ~over /\ data # <<".">> => Frame(d) = [d EXCEPT !.lines = <<>>, !.frames = fs]
    BY <1>1, <1>3, <1>5 DEF Frame, Decoders
  <2>. QED  BY <2>1, <2>2, <2>3, <2>4
<1>7. d \in Decoders
  OBVIOUS
<1>8. PICK f : f = Frame(d)
  OBVIOUS
<1>9. f \in Decoders /\ f.half = d.half /\ f.pending = d.pending /\ f.lines = <<>>
  BY <1>4, <1>6, <1>7, <1>8 DEF Decoders
<1>10. /\ d.lines = <<>> => f = d
       /\ d.lines # <<>> /\ over => f.bad /\ f.stopped = d.stopped
  BY <1>6, <1>8 DEF Decoders
<1>11. d.lines # <<>> /\ ~over /\ data = <<".">> => f.bad = d.bad /\ f.stopped /\ f.frames = d.frames
  BY <1>6, <1>8 DEF Decoders
<1>12. d.lines # <<>> /\ ~over /\ data # <<".">> => f.bad = d.bad /\ f.stopped = d.stopped /\ f.frames = fs
  BY <1>6, <1>8 DEF Decoders
<1>. QED  BY <1>1, <1>3, <1>5, <1>8, <1>9, <1>10, <1>11, <1>12, Zenon

LEMMA DoneFits ==
  ASSUME NEW u, u = <<".">> PROVE ~(Len(u) > MaxEvent)
<1>1. MaxEvent \in Nat \ {0}
  BY HttpAssumption
<1>. QED  BY <1>1

\* A blank line, or the end: the frame made is the event that ends there.
LEMMA FrameFed ==
  ASSUME NEW lines \in Seq(Seq(Bytes)), NEW k \in 0 .. Len(lines), k + 1 \in Blanks(lines),
         NEW d \in Decoders, NEW prior \in Seq(Seq(Bytes)), ~d.bad, ~d.stopped, Fed(lines, d, prior, k)
  PROVE  /\ Frame(d) \in Decoders /\ Frame(d).half = d.half /\ Frame(d).pending = d.pending
         /\ Frame(d).lines = <<>>
         /\ k < Len(lines) => Fed(lines, Frame(d), prior, k + 1)
         /\ k = Len(lines) =>
              IF Frame(d).bad THEN TooLong(lines) ELSE prior \o Frame(d).frames = UntilDone(EventsOf(lines))
<1>1. PICK f : f = Frame(d)
  OBVIOUS
<1>2. PICK data : data = Join(d.lines)
  OBVIOUS
<1>3. /\ f \in Decoders /\ f.half = d.half /\ f.pending = d.pending /\ f.lines = <<>>
      /\ d.lines = <<>> => f = d
      /\ d.lines # <<>> /\ Len(data) > MaxEvent => f.bad /\ f.stopped = d.stopped
      /\ d.lines # <<>> /\ ~(Len(data) > MaxEvent) /\ data = <<".">> =>
           f.bad = d.bad /\ f.stopped /\ f.frames = d.frames
      /\ d.lines # <<>> /\ ~(Len(data) > MaxEvent) /\ data # <<".">> =>
           f.bad = d.bad /\ f.stopped = d.stopped /\ f.frames = Append(d.frames, data)
  BY <1>1, <1>2, FrameIs, Zenon
<1>4. PICK evs : evs = EventsOf(lines)
  OBVIOUS
<1>5. PICK n : n = EventAt(lines, k)
  OBVIOUS
<1>6. evs \in Seq(Seq(Bytes)) /\ n \in 0 .. Len(evs) /\ Len(evs) \in Nat
  BY <1>4, <1>5, EventBelow, EventsType
<1>7. prior \o d.frames = SubSeq(evs, 1, n) /\ (\A j \in 1 .. n : evs[j] # <<".">>) /\ d.lines = OpenLines(lines, k)
  BY <1>4, <1>5 DEF Fed
<1>8. /\ UntilDone(evs) \in Seq(Seq(Bytes)) /\ n <= Len(UntilDone(evs))
      /\ n = Len(evs) => UntilDone(evs) = SubSeq(evs, 1, n)
      /\ n < Len(evs) /\ evs[n + 1] = <<".">> => UntilDone(evs) = SubSeq(evs, 1, n)
      /\ n < Len(evs) /\ evs[n + 1] # <<".">> => n + 1 \in DOMAIN UntilDone(evs) /\ UntilDone(evs)[n + 1] = evs[n + 1]
  BY <1>6, <1>7, UntilFacts
<1>9. PICK top : top = EventAt(lines, k + 1)
  OBVIOUS
<1>10. /\ d.lines = <<>> => top = n
       /\ d.lines # <<>> => top = n + 1 /\ n + 1 \in 1 .. Len(evs) /\ evs[n + 1] = data
       /\ k < Len(lines) => OpenLines(lines, k + 1) = <<>>
       /\ k = Len(lines) => Len(evs) = top
  BY <1>2, <1>4, <1>5, <1>7, <1>9, BlankFed, Zenon
<1>11. \/ /\ f.bad /\ TooLong(lines)
       \/ /\ ~f.bad /\ f.stopped /\ prior \o f.frames = UntilDone(evs)
       \/ /\ ~f.bad /\ ~f.stopped /\ prior \o f.frames = SubSeq(evs, 1, top)
          /\ \A j \in 1 .. top : evs[j] # <<".">>
  <2>1. CASE d.lines = <<>>
    BY <1>3, <1>7, <1>10, <2>1
  <2>2. CASE d.lines # <<>>
    <3>1. top = n + 1 /\ n + 1 \in 1 .. Len(evs) /\ evs[n + 1] = data /\ n < Len(evs)
      <4>1. top = n + 1 /\ n + 1 \in 1 .. Len(evs) /\ evs[n + 1] = data
        BY <1>10, <2>2
      <4>2. PICK m : m = Len(evs)
        OBVIOUS
      <4>3. n \in 0 .. m /\ m \in Nat /\ n + 1 \in 1 .. m
        BY <1>6, <4>1, <4>2
      <4>4. n < m
        BY ONLY <4>3
      <4>. QED  BY <4>1, <4>2, <4>4
    <3>2. CASE Len(data) > MaxEvent
      <4>1. data # <<".">>
        BY <3>2, DoneFits
      <4>2. n + 1 \in DOMAIN UntilDone(evs) /\ UntilDone(evs)[n + 1] = data
        BY <1>8, <3>1, <4>1
      <4>3. TooLong(lines)
        BY <1>4, <3>2, <4>2, Zenon DEF TooLong
      <4>. QED  BY <1>3, <2>2, <3>2, <4>3
    <3>3. CASE ~(Len(data) > MaxEvent) /\ data = <<".">>
      <4>1. UntilDone(evs) = SubSeq(evs, 1, n)
        BY <1>8, <3>1, <3>3
      <4>. QED  BY <1>3, <1>7, <2>2, <3>3, <4>1
    <3>4. CASE ~(Len(data) > MaxEvent) /\ data # <<".">>
      <4>1. PICK X : X = Seq(Bytes)
        OBVIOUS
      <4>2. prior \in Seq(X) /\ d.frames \in Seq(X) /\ data \in X /\ evs \in Seq(X)
        BY <1>2, <1>6, <3>1, <4>1, JoinType DEF Decoders
      <4>3. PICK fs : fs = d.frames
        OBVIOUS
      <4>4. prior \o Append(fs, data) = Append(prior \o fs, data)
        <5>1. JoinGrows(prior, fs, data)
          BY ONLY <4>2, <4>3, JoinAppend
        <5>. QED  BY ONLY <5>1 DEF JoinGrows
      <4>5. PICK m : m = Len(evs)
        OBVIOUS
      <4>6. n \in 0 .. m - 1
        <5>1. m \in Nat /\ n \in 0 .. m /\ n < m
          BY <1>6, <3>1, <4>5
        <5>. QED  BY ONLY <5>1
      <4>7. SubSeq(evs, 1, n + 1) = Append(SubSeq(evs, 1, n), evs[n + 1])
        <5>1. n \in 0 .. Len(evs) - 1
          BY <4>5, <4>6
        <5>. QED  BY ONLY <4>2, <5>1, SubNext
      <4>8. prior \o f.frames = SubSeq(evs, 1, top)
        BY <1>3, <1>7, <2>2, <3>1, <3>4, <4>3, <4>4, <4>7
      <4>9. \A j \in 1 .. top : evs[j] # <<".">>
        <5>1. n \in Nat
          BY <1>6
        <5>2. \A j \in 1 .. n + 1 : j \in 1 .. n \/ j = n + 1
          BY ONLY <5>1
        <5>. QED  BY <1>7, <3>1, <3>4, <5>2
      <4>. QED  BY <1>3, <2>2, <3>4, <4>8, <4>9
    <3>. QED  BY <3>2, <3>3, <3>4
  <2>. QED  BY <2>1, <2>2
<1>12. k < Len(lines) => Fed(lines, f, prior, k + 1)
  <2>1. SUFFICES ASSUME k < Len(lines) PROVE Fed(lines, f, prior, k + 1)
    OBVIOUS
  <2>2. f.lines = OpenLines(lines, k + 1)
    BY <1>3, <1>10, <2>1
  <2>. QED  BY <1>4, <1>9, <1>11, <2>2, Zenon DEF Fed
<1>13. k = Len(lines) => IF f.bad THEN TooLong(lines) ELSE prior \o f.frames = UntilDone(evs)
  <2>1. SUFFICES ASSUME k = Len(lines), ~f.bad PROVE prior \o f.frames = UntilDone(evs)
    BY <1>11
  <2>2. CASE f.stopped
    BY <1>11, <2>1, <2>2
  <2>3. CASE ~f.stopped
    <3>1. top = Len(evs) /\ (\A j \in 1 .. top : evs[j] # <<".">>) /\ prior \o f.frames = SubSeq(evs, 1, top)
      BY <1>10, <1>11, <2>1, <2>3
    <3>2. top \in 0 .. Len(evs)
      BY <1>6, <3>1
    <3>3. UntilDone(evs) = SubSeq(evs, 1, top)
      BY <1>6, <3>1, <3>2, UntilFacts
    <3>. QED  BY <3>1, <3>3
  <2>. QED  BY <2>2, <2>3
<1>. QED  BY <1>1, <1>3, <1>4, <1>12, <1>13, Zenon

\* A line given to the decoder is the next of the lines.
LEMMA LineFedBy ==
  ASSUME NEW lines \in Seq(Seq(Bytes)), NEW k \in 0 .. Len(lines) - 1,
         NEW d \in Decoders, NEW prior \in Seq(Seq(Bytes)), ~d.bad, ~d.stopped, Fed(lines, d, prior, k),
         NEW u, u = lines[k + 1]
  PROVE  /\ Line(d, u) \in Decoders /\ Line(d, u).half = d.half /\ Line(d, u).pending = d.pending
         /\ Fed(lines, Line(d, u), prior, k + 1)
         /\ Line(d, u).bad \/ Line(d, u).stopped => Line(d, u).lines = <<>>
<1>1. Len(lines) \in Nat /\ k + 1 \in 1 .. Len(lines) /\ k \in 0 .. Len(lines) /\ k < Len(lines)
  BY BlanksFacts
<1>2. u \in Seq(Bytes)
  <2>1. PICK X : X = Seq(Bytes)
    OBVIOUS
  <2>2. lines \in Seq(X) /\ k + 1 \in 1 .. Len(lines)
    BY <1>1, <2>1
  <2>3. lines[k + 1] \in X
    BY ONLY <2>2, ElementOfSeq
  <2>. QED  BY <2>1, <2>3
<1>3. CASE u = <<>>
  <2>1. k + 1 \in Blanks(lines)
    BY <1>1, <1>3, BlanksFacts
  <2>2. Line(d, u) = Frame(d)
    BY <1>3 DEF Line
  <2>3. /\ Frame(d) \in Decoders /\ Frame(d).half = d.half /\ Frame(d).pending = d.pending
        /\ Frame(d).lines = <<>> /\ Fed(lines, Frame(d), prior, k + 1)
    BY <1>1, <2>1, FrameFed
  <2>. QED  BY <2>2, <2>3
<1>4. CASE u # <<>>
  <2>1. /\ EventAt(lines, k + 1) = EventAt(lines, k)
        /\ OpenLines(lines, k + 1) = IF u[1] = "d" THEN Append(OpenLines(lines, k), Tail(u)) ELSE OpenLines(lines, k)
    BY <1>4, LineFed
  <2>2. CASE u[1] = "d"
    <3>1. PICK ls : ls = Append(d.lines, Tail(u))
      OBVIOUS
    <3>2. Line(d, u) = [d EXCEPT !.lines = ls]
      BY <1>4, <2>2, <3>1 DEF Line, Decoders
    <3>3. ls \in Seq(Seq(Bytes))
      <4>1. PICK w : w = Tail(u)
        OBVIOUS
      <4>2. PICK X : X = Seq(Bytes)
        OBVIOUS
      <4>3. w \in X /\ d.lines \in Seq(X)
        BY <1>2, <1>4, <4>1, <4>2, HeadTailProperties DEF Decoders
      <4>4. Append(d.lines, w) \in Seq(X)
        BY ONLY <4>3, AppendProperties
      <4>. QED  BY <3>1, <4>1, <4>2, <4>4
    <3>4. PICK f : f = Line(d, u)
      OBVIOUS
    <3>5. /\ f \in Decoders /\ f.half = d.half /\ f.pending = d.pending /\ f.frames = d.frames
          /\ f.bad = d.bad /\ f.stopped = d.stopped /\ f.lines = ls
      BY <3>2, <3>3, <3>4 DEF Decoders
    <3>6. ls = OpenLines(lines, k + 1)
      BY <2>1, <2>2, <3>1 DEF Fed
    <3>7. Fed(lines, f, prior, k + 1)
      BY <2>1, <3>5, <3>6 DEF Fed
    <3>. QED  BY <3>4, <3>5, <3>7
  <2>3. CASE u[1] # "d"
    <3>1. Line(d, u) = d
      BY <1>4, <2>3 DEF Line
    <3>2. Fed(lines, d, prior, k + 1)
      BY <2>1, <2>3 DEF Fed
    <3>. QED  BY <3>1, <3>2
  <2>. QED  BY <2>2, <2>3
<1>. QED  BY <1>3, <1>4

-----------------------------------------------------------------------------
(* The characters of a body, as far as byte m.                             *)

\* The first m bytes are whole characters; how many characters they are.
Utf8To(bytes, m) ==
  \A i \in 1 .. m : /\ bytes[i] = "u" => i < m /\ bytes[i + 1] = "v"
                    /\ bytes[i] = "v" => i > 1 /\ bytes[i - 1] = "u"
CharAt(bytes, m) == Len(Chars(SubSeq(bytes, 1, m)))

LEMMA Utf8Prefix ==
  ASSUME NEW bytes \in Seq(Bytes), NEW m \in 0 .. Len(bytes)
  PROVE  Utf8(SubSeq(bytes, 1, m)) <=> Utf8To(bytes, m)
<1>1. PICK sub : sub = SubSeq(bytes, 1, m)
  OBVIOUS
<1>2. Len(bytes) \in Nat /\ m \in Nat
  BY LenProperties
<1>3. sub \in Seq(Bytes) /\ Len(sub) = m
  BY <1>1, <1>2, SubSub
<1>4. DOMAIN sub = 1 .. m
  BY <1>3, LenProperties
<1>5. \A i \in 1 .. m : sub[i] = bytes[i]
  BY <1>1, <1>2
<1>6. ASSUME NEW i \in 1 .. m
      PROVE  (sub[i] = "u" => i < Len(sub) /\ sub[i + 1] = "v") <=> (bytes[i] = "u" => i < m /\ bytes[i + 1] = "v")
  <2>1. i < m => i + 1 \in 1 .. m
    BY <1>2
  <2>. QED  BY <1>3, <1>5, <2>1
<1>7. ASSUME NEW i \in 1 .. m
      PROVE  (sub[i] = "v" => i > 1 /\ sub[i - 1] = "u") <=> (bytes[i] = "v" => i > 1 /\ bytes[i - 1] = "u")
  <2>1. i > 1 => i - 1 \in 1 .. m
    BY <1>2
  <2>. QED  BY <1>3, <1>5, <2>1
<1>. QED  BY <1>1, <1>4, <1>6, <1>7, Zenon DEF Utf8, Utf8To

LEMMA Utf8All == ASSUME NEW bytes \in Seq(Bytes) PROVE Utf8(bytes) <=> Utf8To(bytes, Len(bytes))
<1>1. DOMAIN bytes = 1 .. Len(bytes)
  BY LenProperties
<1>. QED  BY <1>1, Zenon DEF Utf8, Utf8To

LEMMA ReadableFacts ==
  ASSUME NEW bytes \in Seq(Bytes)
  PROVE  /\ Readable(bytes) \in 0 .. Len(bytes) /\ Utf8To(bytes, Readable(bytes))
         /\ \A m \in 0 .. Len(bytes) : Utf8To(bytes, m) => m <= Readable(bytes)
<1> DEFINE N == Len(bytes)
           A == {m \in 1 .. N : Utf8To(bytes, m)}
           Is(n) == Utf8(SubSeq(bytes, 1, n)) /\ \A m \in n + 1 .. Len(bytes) : ~Utf8(SubSeq(bytes, 1, m))
<1>1. N \in Nat
  BY LenProperties
<1>2. Utf8To(bytes, 0)
  BY DEF Utf8To
<1>3. \E n \in 0 .. N : Utf8To(bytes, n) /\ \A m \in 0 .. N : Utf8To(bytes, m) => m <= n
  <2>1. CASE A = {}
    <3>1. \A m \in 0 .. N : m = 0 \/ m \in 1 .. N
      BY <1>1
    <3>2. 0 \in 0 .. N /\ 0 <= 0
      BY <1>1
    <3>3. \A m \in 0 .. N : Utf8To(bytes, m) => m = 0
      BY <2>1, <3>1
    <3>. QED  BY <1>2, <3>2, <3>3
  <2>2. CASE A # {}
    <3>1. PICK l : l = Nth(A, Count(A, N))
      OBVIOUS
    <3>2. Count(A, N) # 0
      <4>1. Cardinality(A) = Count(A, N) /\ IsFiniteSet(UpToIn(A, N))
        <5>. HIDE DEF N
        <5>. QED  BY <1>1, CountTop, UpToFinite
      <4>2. UpToIn(A, N) = A
        <5>1. \A m \in A : m <= N
          BY <1>1
        <5>. QED  BY <5>1, Zenon DEF UpToIn
      <4>. HIDE DEF A
      <4>. QED  BY <2>2, <4>1, <4>2, FS_EmptySet
    <3>3. A \subseteq 1 .. N
      OBVIOUS
    <3>4. l \in A /\ l <= N /\ \A j \in A : j <= N => j <= l
      <4>. HIDE DEF A
      <4>. QED  BY <1>1, <3>1, <3>2, <3>3, LastIn
    <3>5. l \in 1 .. N /\ Utf8To(bytes, l) /\ l \in 0 .. N
      BY <1>1, <3>4
    <3>6. ASSUME NEW m \in 0 .. N, Utf8To(bytes, m) PROVE m <= l
      <4>1. m = 0 \/ (m \in 1 .. N /\ m <= N)
        BY <1>1
      <4>2. m = 0 => m <= l
        BY <1>1, <3>5
      <4>. QED  BY <3>4, <3>6, <4>1, <4>2
    <3>. QED  BY <3>5, <3>6
  <2>. QED  BY <2>1, <2>2
<1>4. PICK n \in 0 .. N : Utf8To(bytes, n) /\ \A m \in 0 .. N : Utf8To(bytes, m) => m <= n
  BY <1>3
<1>5. Is(n)
  <2>1. \A m \in n + 1 .. N : m \in 0 .. N /\ ~(m <= n)
    BY <1>1
  <2>. QED  BY <1>4, <2>1, Utf8Prefix
<1>6. PICK r : r = Readable(bytes)
  OBVIOUS
<1>7. r \in 0 .. N /\ Is(r)
  BY <1>5, <1>6, Zenon DEF Readable
<1>8. Utf8To(bytes, r)
  BY <1>7, Utf8Prefix
<1>9. ASSUME NEW m \in 0 .. N, Utf8To(bytes, m) PROVE m <= r
  <2>1. Utf8(SubSeq(bytes, 1, m))
    BY <1>9, Utf8Prefix
  <2>2. m \notin r + 1 .. N
    BY <1>7, <2>1
  <2>. QED  BY <1>1, <1>7, <2>2
<1>. QED  BY <1>6, <1>7, <1>8, <1>9

LEMMA CharsType == ASSUME NEW s \in Seq(Bytes) PROVE Chars(s) \in Seq(Bytes) /\ Len(Chars(s)) \in Nat
  BY PickType, LenProperties DEF Chars

LEMMA SubType ==
  ASSUME NEW S, NEW s \in Seq(S), NEW m \in 0 .. Len(s) PROVE SubSeq(s, 1, m) \in Seq(S)
<1>1. Len(s) \in Nat
  BY LenProperties
<1>. QED  BY <1>1

LEMMA TextType == ASSUME NEW bytes \in Seq(Bytes) PROVE Text(bytes) \in Seq(Bytes) /\ Len(Text(bytes)) \in Nat
  BY ReadableFacts, SubType, CharsType DEF Text

\* The characters read are the first of the text.
LEMMA TextPrefix ==
  ASSUME NEW bytes \in Seq(Bytes), NEW m \in 0 .. Len(bytes), Utf8To(bytes, m)
  PROVE  /\ CharAt(bytes, m) \in 0 .. Len(Text(bytes))
         /\ SubSeq(Text(bytes), 1, CharAt(bytes, m)) = Chars(SubSeq(bytes, 1, m))
         /\ m = Len(bytes) => CharAt(bytes, m) = Len(Text(bytes))
<1>1. PICK r : r = Readable(bytes)
  OBVIOUS
<1>2. r \in 0 .. Len(bytes) /\ m <= r /\ Len(bytes) \in Nat
  BY <1>1, ReadableFacts, LenProperties
<1>3. PICK a : a = SubSeq(bytes, 1, m)
  OBVIOUS
<1>4. PICK b : b = SubSeq(bytes, m + 1, r)
  OBVIOUS
<1>5. a \in Seq(Bytes) /\ b \in Seq(Bytes) /\ SubSeq(bytes, 1, r) = a \o b
  <2>1. a \in Seq(Bytes)
    BY <1>3, SubType
  <2>2. b \in Seq(Bytes)
    <3>1. \A i \in m + 1 .. r : bytes[i] \in Bytes
      <4>1. \A i \in m + 1 .. r : i \in 1 .. Len(bytes)
        BY <1>2
      <4>. QED  BY <4>1, ElementOfSeq
    <3>2. m + 1 \in Nat /\ r \in Nat /\ m + 1 >= 1
      BY <1>2
    <3>. QED  BY <1>4, <3>1, <3>2, SubSeqProperties
  <2>3. SubSeq(bytes, 1, r) = SubSeq(bytes, 1, m) \o SubSeq(bytes, m + 1, r)
    BY <1>2
  <2>. QED  BY <1>3, <1>4, <2>1, <2>2, <2>3
<1>6. Text(bytes) = Chars(a) \o Chars(b) /\ Chars(a) \in Seq(Bytes) /\ Chars(b) \in Seq(Bytes)
  <2>1. PICK P : P = Bytes \ {"v"}
    OBVIOUS
  <2>2. a \in Seq(Bytes) /\ b \in Seq(Bytes)
    BY <1>5
  <2>3. Pick(a \o b, P) = Pick(a, P) \o Pick(b, P)
    <3>1. PickJoins(a, b, P)
      BY ONLY <2>2, PickConcat
    <3>. QED  BY ONLY <3>1 DEF PickJoins
  <2>4. Pick(a, P) \in Seq(Bytes) /\ Pick(b, P) \in Seq(Bytes)
    BY ONLY <2>2, PickType
  <2>. QED  BY <1>1, <1>5, <2>1, <2>3, <2>4, Zenon DEF Text, Chars
<1>7. PICK x : x = Chars(a)
  OBVIOUS
<1>8. PICK y : y = Chars(b)
  OBVIOUS
<1>9. SubSeq(x \o y, 1, Len(x)) = x /\ Len(x) \in 0 .. Len(x \o y)
  <2>1. x \in Seq(Bytes) /\ y \in Seq(Bytes)
    BY <1>6, <1>7, <1>8
  <2>. QED  BY ONLY <2>1
<1>10. m = Len(bytes) => y = <<>>
  <2>1. SUFFICES ASSUME m = Len(bytes) PROVE y = <<>>
    OBVIOUS
  <2>2. r = m /\ m + 1 > m /\ m + 1 \in Nat /\ m \in Nat
    BY <1>2, <2>1
  <2>3. b = <<>>
    BY <1>4, <2>2, SubSeqEmpty
  <2>. QED  BY <1>8, <2>3, PickNone DEF Chars
<1>11. y = <<>> => Len(x \o y) = Len(x)
  BY <1>6, <1>7, ConcatEmptySeq
<1>. QED  BY <1>3, <1>6, <1>7, <1>8, <1>9, <1>10, <1>11 DEF CharAt

LEMMA CharNext ==
  ASSUME NEW bytes \in Seq(Bytes), NEW m \in 0 .. Len(bytes), Utf8To(bytes, m),
         NEW n \in 0 .. Len(bytes), Utf8To(bytes, n),
         NEW ch \in Bytes, Chars(SubSeq(bytes, 1, n)) = Append(Chars(SubSeq(bytes, 1, m)), ch)
  PROVE  /\ CharAt(bytes, n) = CharAt(bytes, m) + 1
         /\ CharAt(bytes, m) + 1 \in 1 .. Len(Text(bytes)) /\ Text(bytes)[CharAt(bytes, m) + 1] = ch
<1>1. PICK x : x = Chars(SubSeq(bytes, 1, m))
  OBVIOUS
<1>2. x \in Seq(Bytes)
  BY <1>1, SubType, CharsType
<1>3. CharAt(bytes, m) = Len(x) /\ CharAt(bytes, n) = Len(Append(x, ch))
  BY <1>1 DEF CharAt
<1>4. Len(Append(x, ch)) = Len(x) + 1 /\ Append(x, ch)[Len(x) + 1] = ch /\ Len(x) \in Nat
  BY <1>2, AppendProperties, LenProperties
<1>5. PICK text : text = Text(bytes)
  OBVIOUS
<1>6. SubSeq(text, 1, Len(x) + 1) = Append(x, ch) /\ Len(x) + 1 \in 0 .. Len(text) /\ text \in Seq(Bytes)
  <2>1. /\ CharAt(bytes, n) \in 0 .. Len(Text(bytes)) /\ Text(bytes) \in Seq(Bytes)
        /\ SubSeq(Text(bytes), 1, CharAt(bytes, n)) = Chars(SubSeq(bytes, 1, n))
    BY ONLY bytes \in Seq(Bytes), n \in 0 .. Len(bytes), Utf8To(bytes, n), TextPrefix, TextType
  <2>2. CharAt(bytes, n) = Len(x) + 1 /\ Chars(SubSeq(bytes, 1, n)) = Append(x, ch)
    BY ONLY <1>1, <1>3, <1>4, Chars(SubSeq(bytes, 1, n)) = Append(Chars(SubSeq(bytes, 1, m)), ch), Zenon
  <2>. QED  BY ONLY <1>5, <2>1, <2>2, Zenon
<1>7. text[Len(x) + 1] = ch
  <2>1. PICK l : l = Len(x) + 1
    OBVIOUS
  <2>2. l \in Nat /\ l >= 1 /\ l <= Len(text)
    BY <1>4, <1>6, <2>1
  <2>3. SubSeq(text, 1, l)[l] = text[l]
    BY ONLY <1>6, <2>2
  <2>. QED  BY <1>4, <1>6, <2>1, <2>3
<1>. QED  BY <1>3, <1>4, <1>5, <1>6, <1>7

\* The bytes read are characters, and half of one.
Clean(bytes, m, half) ==
  IF half THEN m > 0 /\ bytes[m] = "u" /\ Utf8To(bytes, m - 1) ELSE Utf8To(bytes, m)
Even(m, half) == IF half THEN m - 1 ELSE m

LEMMA ByteClean ==
  ASSUME NEW bytes \in Seq(Bytes), NEW m \in 0 .. Len(bytes) - 1, NEW half \in BOOLEAN, Clean(bytes, m, half)
  PROVE  /\ half # (bytes[m + 1] = "v") => ~Utf8(bytes)
         /\ half /\ bytes[m + 1] = "v" => Clean(bytes, m + 1, FALSE)
         /\ ~half /\ bytes[m + 1] # "v" => Clean(bytes, m + 1, bytes[m + 1] = "u")
<1>1. Len(bytes) \in Nat /\ m \in Nat /\ m + 1 \in 1 .. Len(bytes)
  BY LenProperties
<1>2. ASSUME half, bytes[m + 1] # "v" PROVE ~Utf8(bytes)
  <2>1. m \in 1 .. Len(bytes) /\ bytes[m] = "u"
    BY <1>1, <1>2 DEF Clean
  <2>2. ~Utf8To(bytes, Len(bytes))
    BY <1>2, <2>1 DEF Utf8To
  <2>. QED  BY <2>2, Utf8All
<1>3. ASSUME ~half, bytes[m + 1] = "v" PROVE ~Utf8(bytes)
  <2>1. m \in 1 .. m => bytes[m] # "u"
    <3>1. ~(m < m)
      BY <1>1
    <3>. QED  BY <1>3, <3>1 DEF Clean, Utf8To
  <2>2. ~(m + 1 > 1 /\ bytes[(m + 1) - 1] = "u")
    <3>1. (m + 1) - 1 = m /\ (m + 1 > 1 => m \in 1 .. m)
      BY <1>1
    <3>. QED  BY <2>1, <3>1
  <2>3. ~Utf8To(bytes, Len(bytes))
    BY <1>1, <1>3, <2>2 DEF Utf8To
  <2>. QED  BY <2>3, Utf8All
<1>4. ASSUME half, bytes[m + 1] = "v" PROVE Utf8To(bytes, m + 1)
  <2>1. m > 0 /\ bytes[m] = "u" /\ Utf8To(bytes, m - 1)
    BY <1>4 DEF Clean
  <2>2. ASSUME NEW i \in 1 .. m + 1
        PROVE  /\ bytes[i] = "u" => i < m + 1 /\ bytes[i + 1] = "v"
               /\ bytes[i] = "v" => i > 1 /\ bytes[i - 1] = "u"
    <3>1. CASE i = m + 1
      <4>1. i > 1 /\ i - 1 = m
        BY <1>1, <2>1, <3>1
      <4>. QED  BY <1>4, <2>1, <3>1, <4>1
    <3>2. CASE i = m
      <4>1. i < m + 1
        BY <1>1, <3>2
      <4>. QED  BY <1>4, <2>1, <3>2, <4>1
    <3>3. CASE i # m /\ i # m + 1
      <4>1. i \in 1 .. m - 1 /\ (i < m - 1 => i < m + 1)
        BY <1>1, <3>3
      <4>. QED  BY <2>1, <4>1 DEF Utf8To
    <3>. QED  BY <3>1, <3>2, <3>3
  <2>. QED  BY <2>2, Zenon DEF Utf8To
<1>5. ASSUME ~half, bytes[m + 1] # "v", bytes[m + 1] # "u" PROVE Utf8To(bytes, m + 1)
  <2>1. Utf8To(bytes, m)
    BY <1>5 DEF Clean
  <2>2. ASSUME NEW i \in 1 .. m + 1
        PROVE  /\ bytes[i] = "u" => i < m + 1 /\ bytes[i + 1] = "v"
               /\ bytes[i] = "v" => i > 1 /\ bytes[i - 1] = "u"
    <3>1. CASE i = m + 1
      BY <1>5, <3>1
    <3>3. CASE i # m + 1
      <4>1. i \in 1 .. m /\ (i < m => i < m + 1)
        BY <1>1, <3>3
      <4>. QED  BY <2>1, <4>1 DEF Utf8To
    <3>. QED  BY <3>1, <3>3
  <2>. QED  BY <2>2, Zenon DEF Utf8To
<1>6. ASSUME ~half, bytes[m + 1] = "u" PROVE m + 1 > 0 /\ Utf8To(bytes, (m + 1) - 1)
  <2>1. (m + 1) - 1 = m /\ m + 1 > 0
    BY <1>1
  <2>. QED  BY <1>6, <2>1 DEF Clean
<1>. QED  BY <1>2, <1>3, <1>4, <1>5, <1>6 DEF Clean

\* The characters of the next byte: none of the first half of one, one of the others.
LEMMA CharsNext ==
  ASSUME NEW bytes \in Seq(Bytes), NEW m \in 0 .. Len(bytes) - 1, NEW half \in BOOLEAN, Clean(bytes, m, half),
         half = (bytes[m + 1] = "v"), half \/ bytes[m + 1] # "u",
         NEW ch, ch = IF half THEN "u" ELSE bytes[m + 1]
  PROVE  /\ ch \in Bytes
         /\ Chars(SubSeq(bytes, 1, m + 1)) = Append(Chars(SubSeq(bytes, 1, Even(m, half))), ch)
<1>1. Len(bytes) \in Nat /\ m \in Nat /\ m + 1 \in 1 .. Len(bytes) /\ m \in 0 .. Len(bytes)
  BY LenProperties
<1>2. PICK P : P = Bytes \ {"v"}
  OBVIOUS
<1>3. bytes[m + 1] \in Bytes /\ SubSeq(bytes, 1, m) \in Seq(Bytes) /\
      SubSeq(bytes, 1, m + 1) = Append(SubSeq(bytes, 1, m), bytes[m + 1])
  BY <1>1, SubNext, SubType
<1>4. PICK a : a = SubSeq(bytes, 1, m)
  OBVIOUS
<1>5. PICK b : b = bytes[m + 1]
  OBVIOUS
<1>6. Pick(Append(a, b), P) = IF b \in P THEN Append(Pick(a, P), b) ELSE Pick(a, P)
  <2>1. a \in Seq(Bytes) /\ b \in Bytes
    BY <1>3, <1>4, <1>5
  <2>2. PickGrows(a, b, P)
    BY ONLY <2>1, PickAppend
  <2>. QED  BY ONLY <2>2 DEF PickGrows
<1>7. CASE ~half
  <2>1. b \in P /\ ch = b /\ Even(m, half) = m
    BY <1>2, <1>3, <1>5, <1>7 DEF Even
  <2>. QED  BY <1>2, <1>3, <1>4, <1>5, <1>6, <2>1 DEF Chars
<1>8. CASE half
  <2>1. b \notin P /\ ch = "u" /\ Even(m, half) = m - 1 /\ bytes[m] = "u" /\ m > 0
    BY <1>2, <1>5, <1>8 DEF Even, Clean
  <2>2. PICK l : l = m - 1
    OBVIOUS
  <2>3. l \in 0 .. Len(bytes) - 1 /\ l + 1 = m /\ l \in 0 .. Len(bytes)
    BY <1>1, <2>1, <2>2
  <2>4. SubSeq(bytes, 1, l) \in Seq(Bytes) /\ a = Append(SubSeq(bytes, 1, l), "u")
    <3>1. SubSeq(bytes, 1, l + 1) = Append(SubSeq(bytes, 1, l), bytes[l + 1])
      BY <2>3, SubNext
    <3>2. SubSeq(bytes, 1, l) \in Seq(Bytes)
      BY <2>3, SubType
    <3>. QED  BY <1>4, <2>1, <2>3, <3>1, <3>2
  <2>5. PICK c : c = SubSeq(bytes, 1, l)
    OBVIOUS
  <2>6. Pick(Append(c, "u"), P) = IF "u" \in P THEN Append(Pick(c, P), "u") ELSE Pick(c, P)
    <3>1. c \in Seq(Bytes) /\ "u" \in Bytes
      BY <2>4, <2>5 DEF Bytes
    <3>2. PickGrows(c, "u", P)
      BY ONLY <3>1, PickAppend
    <3>. QED  BY ONLY <3>2 DEF PickGrows
  <2>7. "u" \in P /\ "u" \in Bytes
    BY <1>2 DEF Bytes
  <2>. QED  BY <1>2, <1>3, <1>4, <1>5, <1>6, <2>1, <2>2, <2>4, <2>5, <2>6, <2>7 DEF Chars
<1>. QED  BY <1>7, <1>8

-----------------------------------------------------------------------------
(* The decoder against the body, as far as byte m.                         *)

\* The events of a body; a body that must be refused; the position in the text after m bytes,
\* of which the last may be half a character; and the line begun, with that half.
Stream(bytes) == UntilDone(EventsOf(Lines(Text(bytes))))
Unfit(bytes) == ~Utf8(bytes) \/ TooLong(Lines(Text(bytes)))
Where(bytes, m, half) == CharAt(bytes, Even(m, half))
Begun(text, i, half) == IF half THEN Append(Raw(text, i), "u") ELSE Raw(text, i)

\* After m bytes the decoder holds the line and the event begun there, and its frames with
\* those taken before are the events that ended; it is bad only if the body is unfit.
DecoderAt(bytes, d, prior, m) ==
  /\ d.bad => Unfit(bytes)
  /\ ~d.bad =>
       /\ Clean(bytes, m, d.half)
       /\ Fed(Lines(Text(bytes)), d, prior, LineAt(Text(bytes), Where(bytes, m, d.half)))
       /\ ~d.stopped => d.pending = Begun(Text(bytes), Where(bytes, m, d.half), d.half)

LEMMA LineType ==
  ASSUME NEW d \in Decoders, NEW u \in Seq(Bytes)
  PROVE  /\ Line(d, u) \in Decoders
         /\ Line(d, u).half = d.half /\ Line(d, u).pending = d.pending
<1>1. CASE u = <<>>
  BY <1>1, FrameIs DEF Line
<1>2. CASE u # <<>> /\ u[1] = "d"
  <2>1. PICK ls : ls = Append(d.lines, Tail(u))
    OBVIOUS
  <2>2. ls \in Seq(Seq(Bytes))
    <3>1. PICK w : w = Tail(u)
      OBVIOUS
    <3>2. PICK X : X = Seq(Bytes)
      OBVIOUS
    <3>3. w \in X /\ d.lines \in Seq(X)
      BY <1>2, <3>1, <3>2, HeadTailProperties DEF Decoders
    <3>4. Append(d.lines, w) \in Seq(X)
      BY ONLY <3>3, AppendProperties
    <3>. QED  BY <2>1, <3>1, <3>2, <3>4
  <2>3. Line(d, u) = [d EXCEPT !.lines = ls]
    BY <1>2, <2>1 DEF Line, Decoders
  <2>. QED  BY <2>2, <2>3 DEF Decoders
<1>3. CASE u # <<>> /\ u[1] # "d"
  BY <1>3 DEF Line
<1>. QED  BY <1>1, <1>2, <1>3

LEMMA PendingGone ==
  ASSUME NEW d \in Decoders, NEW g, g = [d EXCEPT !.pending = <<>>]
  PROVE  /\ g \in Decoders /\ g.half = d.half /\ g.pending = <<>> /\ g.lines = d.lines
         /\ g.stopped = d.stopped /\ g.frames = d.frames /\ g.bad = d.bad
<1>1. <<>> \in Seq(Bytes)
  OBVIOUS
<1>. QED  BY <1>1 DEF Decoders

\* f and d have done the same, but for the bytes that wait.
Same(f, d) == f.lines = d.lines /\ f.stopped = d.stopped /\ f.frames = d.frames /\ f.bad = d.bad

LEMMA ByteWrong ==
  ASSUME NEW d \in Decoders, NEW b \in Bytes, d.half # (b = "v")
  PROVE  Byte(d, b) \in Decoders /\ Byte(d, b).bad
<1>1. Byte(d, b) = [d EXCEPT !.bad = TRUE]
  BY DEF Byte
<1>. QED  BY <1>1 DEF Decoders

LEMMA ByteSecond ==
  ASSUME NEW d \in Decoders, NEW b \in Bytes, d.half, b = "v"
  PROVE  /\ Byte(d, b) \in Decoders /\ Same(Byte(d, b), d)
         /\ ~Byte(d, b).half /\ Byte(d, b).pending = d.pending
<1>0. d.half = (b = "v")
  BY DEF Decoders
<1>1. Byte(d, b) = [d EXCEPT !.half = FALSE]
  BY <1>0 DEF Byte
<1>. QED  BY <1>1 DEF Decoders, Same

LEMMA ByteSkipped ==
  ASSUME NEW d \in Decoders, NEW b \in Bytes, ~d.half, b # "v", d.stopped \/ d.bad
  PROVE  /\ Byte(d, b) \in Decoders /\ Same(Byte(d, b), d)
         /\ Byte(d, b).half <=> b = "u"
         /\ Byte(d, b).pending = d.pending
<1>0. d.half = (b = "v")
  BY DEF Decoders
<1>1. PICK h : h = (b = "u")
  OBVIOUS
<1>2. h \in BOOLEAN /\ (h <=> b = "u")
  BY <1>1
<1>3. PICK w : w = [d EXCEPT !.half = h]
  OBVIOUS
<1>4. Byte(d, b) = w
  BY <1>0, <1>1, <1>3 DEF Byte
<1>5. w \in Decoders /\ w.half = h /\ w.pending = d.pending /\ w.lines = d.lines
  BY <1>2, <1>3 DEF Decoders
<1>6. w.stopped = d.stopped /\ w.frames = d.frames /\ w.bad = d.bad
  BY <1>2, <1>3 DEF Decoders
<1>. QED  BY <1>2, <1>4, <1>5, <1>6 DEF Same

LEMMA ByteEnds ==
  ASSUME NEW d \in Decoders, NEW b \in Bytes, ~d.half, b = "n", ~d.stopped, ~d.bad
  PROVE  Byte(d, b) \in Decoders /\ Byte(d, b) = Line([d EXCEPT !.pending = <<>>], Chomp(d.pending))
<1>0. d.half = (b = "v")
  BY DEF Decoders
<1>1. Byte(d, b) = Line([d EXCEPT !.pending = <<>>], Chomp(d.pending))
  BY <1>0 DEF Byte
<1>2. PICK g : g = [d EXCEPT !.pending = <<>>]
  OBVIOUS
<1>3. Line(g, Chomp(d.pending)) \in Decoders
  BY <1>2, PendingGone, ChompType, LineType DEF Decoders
<1>. QED  BY <1>1, <1>2, <1>3

LEMMA ByteKept ==
  ASSUME NEW d \in Decoders, NEW b \in Bytes, ~d.half, b # "v", b # "n", ~d.stopped, ~d.bad
  PROVE  /\ Byte(d, b) \in Decoders /\ Same(Byte(d, b), d)
         /\ Byte(d, b).half <=> b = "u"
         /\ Byte(d, b).pending = Append(d.pending, b)
<1>0. d.half = (b = "v")
  BY DEF Decoders
<1>1. PICK h : h = (b = "u")
  OBVIOUS
<1>2. h \in BOOLEAN /\ (h <=> b = "u")
  BY <1>1
<1>3. PICK p : p = Append(d.pending, b)
  OBVIOUS
<1>4. p \in Seq(Bytes)
  BY <1>3, AppendProperties DEF Decoders
<1>5. PICK w : w = [d EXCEPT !.pending = p, !.half = h]
  OBVIOUS
<1>6. Byte(d, b) = w
  BY <1>0, <1>1, <1>3, <1>5 DEF Byte
<1>7. w \in Decoders /\ w.half = h /\ w.pending = p /\ w.lines = d.lines
  BY <1>2, <1>4, <1>5 DEF Decoders
<1>8. w.stopped = d.stopped /\ w.frames = d.frames /\ w.bad = d.bad
  BY <1>2, <1>4, <1>5 DEF Decoders
<1>. QED  BY <1>2, <1>3, <1>6, <1>7, <1>8 DEF Same

LEMMA ByteType ==
  ASSUME NEW d \in Decoders, NEW b \in Bytes
  PROVE  Byte(d, b) \in Decoders /\ (d.bad => Byte(d, b).bad)
<1>1. d.half \in BOOLEAN /\ d.bad \in BOOLEAN /\ d.stopped \in BOOLEAN
  BY DEF Decoders
<1>2. CASE d.half # (b = "v")
  BY <1>2, ByteWrong
<1>3. CASE d.half /\ b = "v"
  BY <1>3, ByteSecond DEF Same
<1>4. CASE ~d.half /\ b # "v" /\ (d.stopped \/ d.bad)
  BY <1>4, ByteSkipped DEF Same
<1>5. CASE ~d.half /\ b = "n" /\ ~d.stopped /\ ~d.bad
  BY <1>5, ByteEnds
<1>6. CASE ~d.half /\ b # "v" /\ b # "n" /\ ~d.stopped /\ ~d.bad
  BY <1>6, ByteKept
<1>. QED  BY <1>1, <1>2, <1>3, <1>4, <1>5, <1>6

LEMMA FedSame ==
  ASSUME NEW lines, NEW d, NEW f, NEW prior, NEW k, Fed(lines, d, prior, k), Same(f, d)
  PROVE  Fed(lines, f, prior, k)
  BY Zenon DEF Fed, Same

LEMMA FedStopped ==
  ASSUME NEW lines, NEW d, NEW prior, NEW k, NEW l, Fed(lines, d, prior, k), d.bad \/ d.stopped
  PROVE  Fed(lines, d, prior, l)
  BY Zenon DEF Fed

\* One more byte, and the decoder is where the text is.
LEMMA ByteFed ==
  ASSUME NEW bytes \in Seq(Bytes), NEW m \in 0 .. Len(bytes) - 1, NEW d \in Decoders,
         NEW prior \in Seq(Seq(Bytes)), DecoderAt(bytes, d, prior, m)
  PROVE  Byte(d, bytes[m + 1]) \in Decoders /\ DecoderAt(bytes, Byte(d, bytes[m + 1]), prior, m + 1)
<1>1. PICK b : b = bytes[m + 1]
  OBVIOUS
<1>2. PICK f : f = Byte(d, b)
  OBVIOUS
<1>3. Len(bytes) \in Nat /\ m \in Nat /\ m + 1 \in 1 .. Len(bytes) /\ m \in 0 .. Len(bytes) /\ m + 1 \in 0 .. Len(bytes)
  BY LenProperties
<1>4. b \in Bytes
  BY <1>1, <1>3, ElementOfSeq
<1>5. f \in Decoders /\ (d.bad => f.bad) /\ (d.half # (b = "v") => f.bad)
  BY <1>2, <1>4, ByteType, ByteWrong
<1>6. d.half \in BOOLEAN /\ d.bad \in BOOLEAN /\ d.stopped \in BOOLEAN
  BY DEF Decoders
<1>13. f.half \in BOOLEAN
  BY <1>5 DEF Decoders
<1>7. PICK text : text = Text(bytes)
  OBVIOUS
<1>8. PICK lines : lines = Lines(text)
  OBVIOUS
<1>9. text \in Seq(Bytes) /\ lines \in Seq(Seq(Bytes)) /\ Len(text) \in Nat
  BY <1>7, <1>8, TextType, LinesType
<1>10. CASE d.bad \/ d.half # (b = "v")
  <2>1. ~d.bad => Clean(bytes, m, d.half)
    BY DEF DecoderAt
  <2>2. Unfit(bytes)
    <3>1. CASE d.bad
      BY <3>1 DEF DecoderAt
    <3>2. CASE ~d.bad
      BY <1>1, <1>6, <1>10, <2>1, <3>2, ByteClean DEF Unfit
    <3>. QED  BY <3>1, <3>2
  <2>3. f.bad
    BY <1>5, <1>10
  <2>4. DecoderAt(bytes, f, prior, m + 1)
    BY <2>2, <2>3 DEF DecoderAt
  <2>. QED  BY <1>1, <1>2, <1>5, <2>4
<1>11. CASE ~d.bad /\ d.half = (b = "v")
  <2>1. PICK i : i = Where(bytes, m, d.half)
    OBVIOUS
  <2>2. PICK k : k = LineAt(text, i)
    OBVIOUS
  <2>3. Clean(bytes, m, d.half) /\ Fed(lines, d, prior, k) /\ (~d.stopped => d.pending = Begun(text, i, d.half))
    BY <1>7, <1>8, <1>11, <2>1, <2>2 DEF DecoderAt
  <2>4. Even(m, d.half) \in 0 .. Len(bytes) /\ Utf8To(bytes, Even(m, d.half))
    BY <1>3, <1>6, <2>3 DEF Clean, Even
  <2>5. i \in 0 .. Len(text)
    BY <1>7, <2>1, <2>4, TextPrefix DEF Where
  <2>6. PICK half : half = (~d.half /\ b = "u")
    OBVIOUS
  <2>17. half \in BOOLEAN /\ (half <=> ~d.half /\ b = "u") /\ (d.half <=> b = "v")
    BY <1>6, <1>11, <2>6
  <2>7. Clean(bytes, m + 1, half)
    BY <1>1, <1>6, <1>11, <2>3, <2>6, ByteClean
  <2>8. Even(m + 1, half) \in 0 .. Len(bytes) /\ Utf8To(bytes, Even(m + 1, half))
    BY <1>3, <2>6, <2>7 DEF Clean, Even
  <2>9. PICK ch : ch = IF d.half THEN "u" ELSE b
    OBVIOUS
  <2>10. PICK j : j = Where(bytes, m + 1, half)
    OBVIOUS
  \* A whole character, unless this is the first half of one.
  <2>11. ~half => j = i + 1 /\ i + 1 \in 1 .. Len(text) /\ text[i + 1] = ch
    <3>1. SUFFICES ASSUME ~half PROVE j = i + 1 /\ i + 1 \in 1 .. Len(text) /\ text[i + 1] = ch
      OBVIOUS
    <3>2. Even(m + 1, half) = m + 1
      BY <3>1 DEF Even
    <3>3. d.half \/ b # "u"
      BY <2>6, <3>1
    <3>4. ch \in Bytes /\ Chars(SubSeq(bytes, 1, m + 1)) = Append(Chars(SubSeq(bytes, 1, Even(m, d.half))), ch)
      BY <1>1, <1>6, <1>11, <2>3, <2>9, <3>3, CharsNext
    <3>5. PICK e : e = Even(m, d.half)
      OBVIOUS
    <3>6. /\ CharAt(bytes, m + 1) = CharAt(bytes, e) + 1
          /\ CharAt(bytes, e) + 1 \in 1 .. Len(text) /\ text[CharAt(bytes, e) + 1] = ch
      BY <1>3, <1>7, <2>4, <2>8, <3>2, <3>4, <3>5, CharNext
    <3>. QED  BY <2>1, <2>10, <3>2, <3>5, <3>6 DEF Where
  <2>12. half => j = i
    <3>1. SUFFICES ASSUME half PROVE j = i
      OBVIOUS
    <3>2. Even(m + 1, half) = m /\ Even(m, d.half) = m
      <4>1. ~d.half /\ (m + 1) - 1 = m
        BY <1>3, <2>17, <3>1
      <4>. QED  BY <3>1, <4>1 DEF Even
    <3>. QED  BY <2>1, <2>10, <3>2 DEF Where
  <2>13. SUFFICES DecoderAt(bytes, f, prior, m + 1)
    BY <1>1, <1>2, <1>5
  <2>14. CASE d.stopped
    <3>1. Same(f, d) /\ (f.half <=> half)
      <4>1. CASE d.half
        BY <1>2, <1>4, <2>17, <4>1, ByteSecond
      <4>2. CASE ~d.half
        BY <1>2, <1>4, <2>14, <2>17, <4>2, ByteSkipped
      <4>. QED  BY <4>1, <4>2
    <3>4. f.half = half
      BY <1>13, <2>17, <3>1
    <3>2. PICK l : l = LineAt(Text(bytes), Where(bytes, m + 1, f.half))
      OBVIOUS
    <3>3. Fed(lines, f, prior, l)
      BY <2>3, <2>14, <3>1, FedSame, FedStopped DEF Same
    <3>. QED  BY <1>7, <1>8, <1>11, <2>7, <2>14, <3>1, <3>2, <3>3, <3>4 DEF DecoderAt, Same
  \* A character that ends no line, or half of one.
  <2>15. CASE ~d.stopped /\ (b # "n" \/ d.half)
    <3>1. b # "n"
      BY <1>11, <2>15
    <3>2. Same(f, d) /\ (f.half <=> half) /\ f.pending = IF d.half THEN d.pending ELSE Append(d.pending, b)
      <4>1. CASE d.half
        BY <1>2, <1>4, <2>17, <4>1, ByteSecond
      <4>2. CASE ~d.half
        BY <1>2, <1>4, <1>11, <2>15, <2>17, <3>1, <4>2, ByteKept
      <4>. QED  BY <4>1, <4>2
    <3>6. f.half = half
      BY <1>13, <2>17, <3>2
    <3>3. d.pending = Begun(text, i, d.half)
      BY <2>3, <2>15
    <3>4. f.pending = Begun(text, j, half) /\ LineAt(text, j) = k
      <4>1. CASE half
        BY <2>2, <2>6, <2>12, <3>2, <3>3, <4>1 DEF Begun
      <4>2. CASE ~half
        <5>1. ch # "n"
          BY <2>9, <3>1
        <5>2. i \in 0 .. Len(text) - 1
          BY <1>9, <2>5, <2>11, <4>2
        <5>3. LineAt(text, i + 1) = LineAt(text, i) /\ Raw(text, i + 1) = Append(Raw(text, i), text[i + 1])
          BY <1>9, <2>11, <4>2, <5>1, <5>2, RawGrows
        <5>4. f.pending = Append(Raw(text, i), ch)
          BY <2>9, <3>2, <3>3 DEF Begun
        <5>. QED  BY <2>2, <2>11, <4>2, <5>3, <5>4 DEF Begun
      <4>. QED  BY <4>1, <4>2
    <3>5. Fed(lines, f, prior, k)
      BY <2>3, <3>2, FedSame
    <3>. QED  BY <1>7, <1>8, <1>11, <2>7, <2>10, <3>2, <3>4, <3>5, <3>6 DEF DecoderAt, Same
  \* The end of a line.
  <2>16. CASE ~d.stopped /\ b = "n" /\ ~d.half
    <3>1. ~half /\ ch = "n"
      BY <2>6, <2>9, <2>16
    <3>2. j = i + 1 /\ i + 1 \in 1 .. Len(text) /\ text[i + 1] = "n"
      BY <2>11, <3>1
    <3>3. i + 1 \in Ends(text) /\ i < Len(text)
      BY <1>9, <2>5, <3>2, EndsFacts
    <3>4. /\ k + 1 \in 1 .. Len(lines) /\ LineAt(text, i + 1) = k + 1
          /\ lines[k + 1] = Chomp(Raw(text, i)) /\ Raw(text, i + 1) = <<>>
      BY <1>8, <1>9, <2>2, <2>5, <3>3, LineCloses
    <3>5. PICK g : g = [d EXCEPT !.pending = <<>>]
      OBVIOUS
    <3>6. PICK u : u = Chomp(d.pending)
      OBVIOUS
    <3>7. f = Line(g, u)
      BY <1>2, <1>4, <1>11, <2>16, <3>5, <3>6, ByteEnds
    <3>8. u = lines[k + 1]
      BY <2>3, <2>16, <3>4, <3>6 DEF Begun
    <3>9. /\ g \in Decoders /\ g.half = d.half /\ g.pending = <<>> /\ g.lines = d.lines
          /\ g.stopped = d.stopped /\ g.frames = d.frames /\ g.bad = d.bad
      BY <3>5, PendingGone
    <3>10. Fed(lines, g, prior, k)
      BY <2>3, <3>9, FedSame DEF Same
    <3>11. k \in 0 .. Len(lines) - 1
      <4>1. k \in Nat
        BY <1>9, <2>2, <2>5, LineStarts
      <4>2. Len(lines) \in Nat
        BY <1>9, BlanksFacts
      <4>. QED  BY ONLY <3>4, <4>1, <4>2
    <3>12. f.half = g.half /\ f.pending = g.pending /\ Fed(lines, f, prior, k + 1)
      <4>1. ~g.bad /\ ~g.stopped
        BY <1>11, <2>16, <3>9
      <4>2. /\ Line(g, u).half = g.half /\ Line(g, u).pending = g.pending
            /\ Fed(lines, Line(g, u), prior, k + 1)
        BY ONLY <1>9, <3>8, <3>9, <3>10, <3>11, <4>1, prior \in Seq(Seq(Bytes)), LineFedBy
      <4>. QED  BY ONLY <3>7, <4>2
    <3>13. ~f.half /\ f.pending = <<>>
      BY <2>16, <3>9, <3>12
    <3>14. f.half = half
      BY <1>5, <2>6, <2>16, <3>13 DEF Decoders
    <3>15. f.bad => Unfit(bytes)
      BY <1>7, <1>8, <3>12 DEF Fed, Unfit
    <3>16. LineAt(text, j) = k + 1 /\ f.pending = Begun(text, j, half)
      BY <3>1, <3>2, <3>4, <3>13 DEF Begun
    <3>. QED  BY <1>7, <1>8, <2>7, <2>10, <3>12, <3>14, <3>15, <3>16 DEF DecoderAt
  <2>. QED  BY <1>6, <2>14, <2>15, <2>16
<1>. QED  BY <1>6, <1>10, <1>11

-----------------------------------------------------------------------------
(* A chunk, and the end of the body.                                       *)

LEMMA FreshIs ==
  ASSUME NEW d \in Decoders
  PROVE  /\ Fresh(d) \in Decoders /\ Fresh(d).half = d.half /\ Fresh(d).pending = d.pending /\ Fresh(d).lines = d.lines
         /\ Fresh(d).stopped = d.stopped /\ Fresh(d).frames = <<>> /\ Fresh(d).bad = d.bad
<1>1. <<>> \in Seq(Seq(Bytes))
  OBVIOUS
<1>. QED  BY <1>1 DEF Fresh, Decoders

\* f decodes the bytes of the chunk, one after the other.
Decodes(f, chunk) ==
  /\ f \in [0 .. Len(chunk) -> Decoders] /\ f[0] = Fresh(decoder)
  /\ \A i \in 1 .. Len(chunk) : f[i] = Byte(f[i - 1], chunk[i])

LEMMA DecodesExists ==
  ASSUME NEW chunk \in Seq(Bytes), decoder \in Decoders
  PROVE  \E f : Decodes(f, chunk) /\ Decode(chunk) = f[Len(chunk)]
<1> DEFINE n == Len(chunk)
           Q == Decoders
           Add(x) == Byte(x[2], chunk[x[1]])
           h == [x \in (1 .. n) \X Q |-> Add(x)]
           IsRun(f) == f = [i \in 0 .. n |-> IF i = 0 THEN Fresh(decoder) ELSE Byte(f[i - 1], chunk[i])]
           c == CHOOSE f : IsRun(f)
<1>1. n \in Nat /\ Fresh(decoder) \in Q
  BY LenProperties, FreshIs
<1>2. \A i \in 1 .. n : chunk[i] \in Bytes
  BY ElementOfSeq
<1>3. ASSUME NEW x \in (1 .. n) \X Q PROVE Add(x) \in Q
  BY <1>2, ByteType
<1>4. IsStep(h, n, Q)
  <2>. HIDE DEF Q, n, Add
  <2>. QED  BY <1>3 DEF IsStep
<1>5. PICK f : Follows(f, n, Q, Fresh(decoder), h)
  <2>. HIDE DEF n, h, Q
  <2>. QED  BY <1>1, <1>4, RecursionExists
<1>6. f \in [0 .. n -> Q] /\ f[0] = Fresh(decoder)
  <2>. HIDE DEF n, h, Q
  <2>. QED  BY <1>5 DEF Follows
<1>7. ASSUME NEW i \in 1 .. n
      PROVE  f[i - 1] \in Q /\ f[i] = Byte(f[i - 1], chunk[i])
  <2>1. f[i] = h[<<i, f[i - 1]>>]
    <3>. HIDE DEF n, h, Q
    <3>. QED  BY <1>5 DEF Follows
  <2>2. f[i - 1] \in Q
    <3>1. i - 1 \in 0 .. n
      BY <1>1
    <3>. HIDE DEF n, h, Q
    <3>. QED  BY <1>6, <3>1
  <2>3. h[<<i, f[i - 1]>>] = Add(<<i, f[i - 1]>>)
    <3>. HIDE DEF Q, Add
    <3>. QED  BY <2>2
  <2>4. Add(<<i, f[i - 1]>>) = Byte(f[i - 1], chunk[i])
    <3>. HIDE DEF Q, n, h
    <3>. QED  OBVIOUS
  <2>. HIDE DEF Q, n, h, Add
  <2>. QED  BY <2>1, <2>2, <2>3, <2>4
<1>. HIDE DEF h, Q
<1>8. IsRun(f)
  <2>1. ASSUME NEW i \in 0 .. n
        PROVE  f[i] = IF i = 0 THEN Fresh(decoder) ELSE Byte(f[i - 1], chunk[i])
    <3>1. CASE i = 0
      BY <1>6, <3>1
    <3>2. CASE i # 0
      <4>1. i \in 1 .. n
        BY <1>1, <3>2
      <4>. QED  BY <1>7, <3>2, <4>1
    <3>. QED  BY <3>1, <3>2
  <2>2. f = [i \in 0 .. n |-> f[i]]
    BY <1>6
  <2>. HIDE DEF n
  <2>. QED  BY <2>1, <2>2
<1>9. IsRun(c)
  <2>. HIDE DEF IsRun
  <2>. QED  BY <1>8, Zenon
<1>10. Decode(chunk) = c[n]
  BY Zenon DEF Decode
<1> DEFINE T == {i \in 0 .. n : c[i] = f[i]}
<1>11. c[0] = Fresh(decoder) /\ 0 \in 0 .. n
  <2>1. 0 \in 0 .. n
    BY <1>1
  <2>. HIDE DEF c, n
  <2>. QED  BY <1>9, <2>1
<1>12. ASSUME NEW i \in 1 .. n PROVE c[i] = Byte(c[i - 1], chunk[i])
  <2>1. i \in 0 .. n /\ i # 0
    BY <1>1
  <2>. HIDE DEF c, n
  <2>. QED  BY <1>9, <2>1
<1>. HIDE DEF c, IsRun
<1>13. 0 \in T
  BY <1>6, <1>11
<1>14. ASSUME NEW i \in 0 .. n - 1, i \in T PROVE i + 1 \in T
  <2>1. i + 1 \in 1 .. n /\ i + 1 \in 0 .. n /\ (i + 1) - 1 = i
    BY <1>1
  <2>. HIDE DEF n
  <2>. QED  BY <1>7, <1>12, <1>14, <2>1
<1>15. c[n] = f[n]
  <2>1. n \in 0 .. n
    BY <1>1
  <2>. HIDE DEF T, n
  <2>2. n \in T
    BY <1>1, <1>13, <1>14, <2>1, UpTo
  <2>. QED  BY <2>2 DEF T
<1>16. Decodes(f, chunk)
  <2>1. f \in [0 .. n -> Decoders]
    BY <1>6 DEF Q
  <2>. QED  BY <1>6, <1>7, <2>1 DEF Decodes
<1>. QED  BY <1>10, <1>15, <1>16

\* A chunk is decoded from where the last one ended.
LEMMA ChunkFed ==
  ASSUME NEW bytes \in Seq(Bytes), NEW m \in 0 .. Len(bytes), NEW n \in Nat, m + n <= Len(bytes),
         decoder \in Decoders, NEW prior \in Seq(Seq(Bytes)), DecoderAt(bytes, Fresh(decoder), prior, m),
         NEW chunk, chunk = SubSeq(bytes, m + 1, m + n)
  PROVE  Decode(chunk) \in Decoders /\ DecoderAt(bytes, Decode(chunk), prior, m + n)
<1>1. Len(bytes) \in Nat /\ m \in Nat
  BY LenProperties
<1>2. chunk \in Seq(Bytes) /\ Len(chunk) = n /\ \A i \in 1 .. n : chunk[i] = bytes[m + i]
  <2>1. \A i \in m + 1 .. m + n : bytes[i] \in Bytes
    <3>1. \A i \in m + 1 .. m + n : i \in 1 .. Len(bytes)
      BY <1>1
    <3>. QED  BY <3>1, ElementOfSeq
  <2>2. m + 1 \in Nat /\ m + n \in Nat /\ m + 1 >= 1
    BY <1>1
  <2>3. chunk \in Seq(Bytes)
    BY <2>1, <2>2, SubSeqProperties
  <2>4. PICK a : a = m + 1
    OBVIOUS
  <2>5. PICK e : e = m + n
    OBVIOUS
  <2>6. chunk = [i \in 1 .. 1 + e - a |-> bytes[i + a - 1]] /\ Len(chunk) = IF a <= e THEN e - a + 1 ELSE 0
    <3>1. a \in Nat /\ e \in Nat /\ a >= 1 /\ e <= Len(bytes)
      BY <1>1, <2>4, <2>5
    <3>. QED  BY <2>4, <2>5, <3>1
  <2>7. Len(chunk) = n /\ 1 .. 1 + e - a = 1 .. n
    BY <1>1, <2>4, <2>5, <2>6
  <2>8. \A i \in 1 .. n : i + a - 1 = m + i
    BY <1>1, <2>4
  <2>9. \A i \in 1 .. n : chunk[i] = bytes[m + i]
    BY <2>6, <2>7, <2>8
  <2>. QED  BY <2>3, <2>7, <2>9
<1>3. PICK f : Decodes(f, chunk) /\ Decode(chunk) = f[Len(chunk)]
  BY <1>2, DecodesExists
<1> DEFINE T == {i \in 0 .. n : f[i] \in Decoders /\ DecoderAt(bytes, f[i], prior, m + i)}
<1>4. 0 \in T
  <2>1. f[0] = Fresh(decoder) /\ m + 0 = m /\ 0 \in 0 .. n
    BY <1>1, <1>3 DEF Decodes
  <2>. QED  BY <2>1, FreshIs
<1>5. ASSUME NEW i \in 0 .. n - 1, i \in T PROVE i + 1 \in T
  <2>1. i + 1 \in 1 .. n /\ i + 1 \in 0 .. n /\ (i + 1) - 1 = i /\ m + i \in 0 .. Len(bytes) - 1 /\ m + (i + 1) = (m + i) + 1
    BY <1>1
  <2>7. f[i + 1] = Byte(f[(i + 1) - 1], chunk[i + 1])
    BY <1>2, <1>3, <2>1 DEF Decodes
  <2>8. chunk[i + 1] = bytes[(m + i) + 1]
    BY <1>2, <2>1
  <2>2. f[i + 1] = Byte(f[i], bytes[(m + i) + 1])
    BY <2>1, <2>7, <2>8
  <2>3. PICK l : l = m + i
    OBVIOUS
  <2>4. PICK d : d = f[i]
    OBVIOUS
  <2>5. l \in 0 .. Len(bytes) - 1 /\ d \in Decoders /\ DecoderAt(bytes, d, prior, l)
    BY <1>5, <2>1, <2>3, <2>4
  <2>6. Byte(d, bytes[l + 1]) \in Decoders /\ DecoderAt(bytes, Byte(d, bytes[l + 1]), prior, l + 1)
    BY <2>5, ByteFed
  <2>. QED  BY <2>1, <2>2, <2>3, <2>4, <2>6
<1>. HIDE DEF T
<1>6. n \in T
  <2>1. n \in 0 .. n
    OBVIOUS
  <2>. QED  BY <1>4, <1>5, <2>1, UpTo
<1>. QED  BY <1>2, <1>3, <1>6 DEF T

\* At the end of the body the last line and the last event are given out.
LEMMA EndFed ==
  ASSUME NEW bytes \in Seq(Bytes), NEW d \in Decoders, NEW prior \in Seq(Seq(Bytes)),
         DecoderAt(bytes, d, prior, Len(bytes)), ~d.bad, ~d.stopped
  PROVE  /\ LastLines(d) \in Decoders
         /\ IF LastLines(d).bad THEN Unfit(bytes) ELSE prior \o LastLines(d).frames = Stream(bytes)
<1>1. PICK text : text = Text(bytes)
  OBVIOUS
<1>2. PICK lines : lines = Lines(text)
  OBVIOUS
<1>3. text \in Seq(Bytes) /\ lines \in Seq(Seq(Bytes)) /\ Len(text) \in Nat /\ Len(bytes) \in Nat
  BY <1>1, <1>2, TextType, LinesType, LenProperties
<1>4. Clean(bytes, Len(bytes), d.half)
  BY DEF DecoderAt
<1>5. CASE d.half
  <2>1. LastLines(d) = [d EXCEPT !.bad = TRUE]
    BY <1>5 DEF LastLines
  <2>2. LastLines(d) \in Decoders /\ LastLines(d).bad
    BY <2>1 DEF Decoders
  <2>3. Len(bytes) \in 1 .. Len(bytes) /\ bytes[Len(bytes)] = "u" /\ ~(Len(bytes) < Len(bytes))
    BY <1>3, <1>4, <1>5 DEF Clean
  <2>4. ~Utf8(bytes)
    BY <2>3, Utf8All DEF Utf8To
  <2>. QED  BY <2>2, <2>4 DEF Unfit
<1>6. CASE ~d.half
  <2>1. PICK i : i = Where(bytes, Len(bytes), d.half)
    OBVIOUS
  <2>2. i = Len(text)
    <3>1. Len(bytes) \in 0 .. Len(bytes) /\ Utf8To(bytes, Len(bytes))
      BY <1>3, <1>4, <1>6 DEF Clean
    <3>2. CharAt(bytes, Len(bytes)) = Len(text)
      BY <1>1, <3>1, TextPrefix
    <3>. QED  BY <1>6, <2>1, <3>2 DEF Where, Even
  <2>3. PICK k : k = LineAt(text, i)
    OBVIOUS
  <2>4. d.pending = Raw(text, i) /\ Fed(lines, d, prior, k)
    BY <1>1, <1>2, <1>6, <2>1, <2>3 DEF DecoderAt, Begun
  <2>5. i \in 0 .. Len(text) /\ i + 1 \in Ends(text)
    BY <1>3, <2>2, EndsFacts
  <2>6. k + 1 \in 1 .. Len(lines) /\ lines[k + 1] = Chomp(Raw(text, i)) /\ Len(lines) = k + 1
    BY <1>2, <1>3, <2>2, <2>3, <2>5, LineCloses
  <2>7. k \in 0 .. Len(lines) - 1
    <3>1. k \in Nat
      BY <1>3, <2>3, <2>5, LineStarts
    <3>2. Len(lines) \in Nat
      BY <1>3, BlanksFacts
    <3>. QED  BY ONLY <2>6, <3>1, <3>2
  <2>8. PICK g : g = [d EXCEPT !.pending = <<>>]
    OBVIOUS
  <2>9. g \in Decoders /\ Same(g, d)
    BY <2>8, PendingGone DEF Same
  <2>10. PICK u : u = Chomp(d.pending)
    OBVIOUS
  <2>11. PICK h : h = Line(g, u)
    OBVIOUS
  <2>12. LastLines(d) = Frame(h)
    BY <1>6, <2>8, <2>10, <2>11 DEF LastLines
  <2>13. Fed(lines, g, prior, k) /\ ~g.bad /\ ~g.stopped /\ u = lines[k + 1]
    BY <2>4, <2>6, <2>9, <2>10, FedSame DEF Same
  <2>14. h \in Decoders /\ Fed(lines, h, prior, k + 1) /\ (h.bad \/ h.stopped => h.lines = <<>>)
    BY <1>3, <2>7, <2>9, <2>11, <2>13, LineFedBy
  <2>15. CASE h.bad \/ h.stopped
    <3>1. Frame(h) = h
      BY <2>14, <2>15, FrameIs
    <3>2. h.bad => Unfit(bytes)
      BY <1>1, <1>2, <2>14 DEF Fed, Unfit
    <3>3. ~h.bad => prior \o h.frames = Stream(bytes)
      BY <1>1, <1>2, <2>14, <2>15 DEF Fed, Stream
    <3>. QED  BY <2>12, <2>14, <3>1, <3>2, <3>3
  <2>16. CASE ~h.bad /\ ~h.stopped
    <3>1. PICK n : n = Len(lines)
      OBVIOUS
    <3>2. n \in 0 .. Len(lines) /\ n + 1 \in Blanks(lines) /\ Fed(lines, h, prior, n)
      <4>1. n + 1 \in Blanks(lines) /\ n \in Nat
        BY <1>3, <3>1, BlanksFacts
      <4>2. n \in 0 .. n
        BY ONLY <4>1
      <4>. QED  BY <2>6, <2>14, <3>1, <4>1, <4>2
    <3>3. /\ Frame(h) \in Decoders
          /\ IF Frame(h).bad THEN TooLong(lines) ELSE prior \o Frame(h).frames = UntilDone(EventsOf(lines))
      BY <1>3, <2>14, <2>16, <3>1, <3>2, FrameFed
    <3>. QED  BY <1>1, <1>2, <2>12, <3>3 DEF Unfit, Stream
  <2>. QED  BY <2>15, <2>16
<1>7. d.half \in BOOLEAN
  BY DEF Decoders
<1>. QED  BY <1>5, <1>6, <1>7

-----------------------------------------------------------------------------
(* Tokens and tool calls of the events taken.                              *)

\* The values of the table of tool calls.
Tables == [{0, 1} -> [name : Seq(Bytes), args : Seq(Bytes)]]

LEMMA ToolsAre ==
  /\ DOMAIN Tools = {"p", "q", "z"} /\ Tools["p"] = 0 /\ Tools["q"] = 1 /\ Tools["z"] = 0
  BY DEF Tools

LEMMA AskedIs ==
  ASSUME NEW s
  PROVE  ToolsAsked(s) = [i \in {0, 1} |-> IF i = 0 THEN [name |-> Pick(s, {"p"}), args |-> Pick(s, {"z"})]
                                       ELSE [name |-> Pick(s, {"q"}), args |-> Pick(s, {})]]
<1>1. /\ {ch \in {"p", "q"} : Tools[ch] = 0} = {"p"} /\ {ch \in {"z"} : Tools[ch] = 0} = {"z"}
      /\ {ch \in {"p", "q"} : Tools[ch] = 1} = {"q"} /\ {ch \in {"z"} : Tools[ch] = 1} = {}
  BY ToolsAre
<1>2. ToolsAsked(s) = [i \in {0, 1} |-> [name |-> Pick(s, {ch \in {"p", "q"} : Tools[ch] = i}),
                                     args |-> Pick(s, {ch \in {"z"} : Tools[ch] = i})]]
  BY DEF ToolsAsked
<1>3. ASSUME NEW i \in {0, 1}
      PROVE  [name |-> Pick(s, {ch \in {"p", "q"} : Tools[ch] = i}), args |-> Pick(s, {ch \in {"z"} : Tools[ch] = i})] =
             IF i = 0 THEN [name |-> Pick(s, {"p"}), args |-> Pick(s, {"z"})]
             ELSE [name |-> Pick(s, {"q"}), args |-> Pick(s, {})]
  <2>1. CASE i = 0
    BY <1>1, <2>1
  <2>2. CASE i = 1
    BY <1>1, <2>2
  <2>. QED  BY <2>1, <2>2
<1>. QED  BY <1>2, <1>3

LEMMA AskedType == ASSUME NEW s \in Seq(Bytes) PROVE ToolsAsked(s) \in Tables
<1>1. \A P : Pick(s, P) \in Seq(Bytes)
  BY PickType
<1>. QED  BY <1>1, AskedIs DEF Tables

LEMMA AskedNone == ToolsAsked(<<>>) = NoCalls
<1>1. PICK e : e = <<>>
  OBVIOUS
<1>2. \A P : Pick(e, P) = e
  BY <1>1, PickNone
<1>3. NoCalls = [i \in {0, 1} |-> [name |-> e, args |-> e]]
  BY <1>1 DEF NoCalls
<1>4. ToolsAsked(e) = [i \in {0, 1} |-> [name |-> e, args |-> e]]
  BY <1>2, AskedIs
<1>. QED  BY <1>1, <1>3, <1>4

\* One more fragment goes to the tool call it is of.
LEMMA AskedAppend ==
  ASSUME NEW s \in Seq(Bytes), NEW ch \in Bytes
  PROVE  ToolsAsked(Append(s, ch)) = IF ch \in DOMAIN Tools THEN Fragment(ToolsAsked(s), ch) ELSE ToolsAsked(s)
<1>1. PICK t : t = Append(s, ch)
  OBVIOUS
<1>2. \A P : Pick(t, P) = IF ch \in P THEN Append(Pick(s, P), ch) ELSE Pick(s, P)
  <2>1. ASSUME NEW P PROVE Pick(t, P) = IF ch \in P THEN Append(Pick(s, P), ch) ELSE Pick(s, P)
    <3>1. PickGrows(s, ch, P)
      BY ONLY s \in Seq(Bytes), ch \in Bytes, PickAppend
    <3>. QED  BY ONLY <1>1, <3>1, Zenon DEF PickGrows
  <2>. QED  BY <2>1
<1>3. /\ Pick(t, {"p"}) = IF ch = "p" THEN Append(Pick(s, {"p"}), ch) ELSE Pick(s, {"p"})
      /\ Pick(t, {"q"}) = IF ch = "q" THEN Append(Pick(s, {"q"}), ch) ELSE Pick(s, {"q"})
      /\ Pick(t, {"z"}) = IF ch = "z" THEN Append(Pick(s, {"z"}), ch) ELSE Pick(s, {"z"})
      /\ Pick(t, {}) = Pick(s, {})
  BY <1>2
<1>4. PICK p : p = Pick(s, {"p"})
  OBVIOUS
<1>5. PICK q : q = Pick(s, {"q"})
  OBVIOUS
<1>6. PICK z : z = Pick(s, {"z"})
  OBVIOUS
<1>7. PICK e : e = Pick(s, {})
  OBVIOUS
<1>8. PICK tab : tab = ToolsAsked(s)
  OBVIOUS
<1>9. tab = [i \in {0, 1} |-> IF i = 0 THEN [name |-> p, args |-> z] ELSE [name |-> q, args |-> e]]
  BY <1>4, <1>5, <1>6, <1>7, <1>8, AskedIs
<1>10. PICK new : new = ToolsAsked(t)
  OBVIOUS
<1>11. new = [i \in {0, 1} |-> IF i = 0 THEN [name |-> Pick(t, {"p"}), args |-> Pick(t, {"z"})]
                                 ELSE [name |-> Pick(t, {"q"}), args |-> e]]
  BY <1>3, <1>7, <1>10, AskedIs
<1>12. CASE ch = "p"
  <2>1. Fragment(tab, ch) = [tab EXCEPT ![0].name = Append(@, ch)]
    BY <1>12, ToolsAre DEF Fragment
  <2>2. new = [i \in {0, 1} |-> IF i = 0 THEN [name |-> Append(p, ch), args |-> z] ELSE [name |-> q, args |-> e]]
    BY <1>3, <1>4, <1>5, <1>6, <1>11, <1>12
  <2>3. Fragment(tab, ch) = new
    BY <1>9, <2>1, <2>2
  <2>. QED  BY <1>1, <1>8, <1>10, <1>12, <2>3, ToolsAre
<1>13. CASE ch = "q"
  <2>1. Fragment(tab, ch) = [tab EXCEPT ![1].name = Append(@, ch)]
    BY <1>13, ToolsAre DEF Fragment
  <2>2. new = [i \in {0, 1} |-> IF i = 0 THEN [name |-> p, args |-> z] ELSE [name |-> Append(q, ch), args |-> e]]
    BY <1>3, <1>4, <1>5, <1>6, <1>11, <1>13
  <2>4. PICK y : y = Append(q, ch)
    OBVIOUS
  <2>5. tab[1].name = q
    BY <1>9
  <2>6. Fragment(tab, ch) = [tab EXCEPT ![1].name = y]
    BY <1>9, <2>1, <2>4, <2>5
  <2>7. new = [i \in {0, 1} |-> IF i = 0 THEN [name |-> p, args |-> z] ELSE [name |-> y, args |-> e]]
    BY <2>2, <2>4
  <2>3. Fragment(tab, ch) = new
    BY <1>9, <2>6, <2>7
  <2>. QED  BY <1>1, <1>8, <1>10, <1>13, <2>3, ToolsAre
<1>14. CASE ch = "z"
  <2>1. Fragment(tab, ch) = [tab EXCEPT ![0].args = Append(@, ch)]
    BY <1>14, ToolsAre DEF Fragment
  <2>2. new = [i \in {0, 1} |-> IF i = 0 THEN [name |-> p, args |-> Append(z, ch)] ELSE [name |-> q, args |-> e]]
    BY <1>3, <1>4, <1>5, <1>6, <1>11, <1>14
  <2>3. Fragment(tab, ch) = new
    BY <1>9, <2>1, <2>2
  <2>. QED  BY <1>1, <1>8, <1>10, <1>14, <2>3, ToolsAre
<1>15. CASE ch \notin {"p", "q", "z"}
  <2>1. new = [i \in {0, 1} |-> IF i = 0 THEN [name |-> p, args |-> z] ELSE [name |-> q, args |-> e]]
    BY <1>3, <1>4, <1>5, <1>6, <1>11, <1>15
  <2>. QED  BY <1>1, <1>8, <1>9, <1>10, <1>15, <2>1, ToolsAre
<1>. QED  BY <1>12, <1>13, <1>14, <1>15

LEMMA FragmentType ==
  ASSUME NEW table \in Tables, NEW ch \in DOMAIN Tools PROVE Fragment(table, ch) \in Tables
<1>1. ch \in Bytes /\ Tools[ch] \in {0, 1}
  BY ToolsAre DEF Bytes
<1>2. PICK i : i = Tools[ch]
  OBVIOUS
<1>3. PICK p : p = Append(table[i].name, ch)
  OBVIOUS
<1>4. PICK z : z = Append(table[i].args, ch)
  OBVIOUS
<1>5. table[i] \in [name : Seq(Bytes), args : Seq(Bytes)]
  BY <1>1, <1>2 DEF Tables
<1>6. p \in Seq(Bytes) /\ z \in Seq(Bytes)
  BY <1>1, <1>3, <1>4, <1>5, AppendProperties
<1>7. [table EXCEPT ![i].args = z] \in Tables /\ [table EXCEPT ![i].name = p] \in Tables
  BY <1>1, <1>2, <1>6 DEF Tables
<1>8. Fragment(table, ch) = IF ch = "z" THEN [table EXCEPT ![i].args = z] ELSE [table EXCEPT ![i].name = p]
  <2>1. table \in Tables /\ i \in DOMAIN table
    BY <1>1, <1>2 DEF Tables
  <2>2. [table EXCEPT ![i].args = Append(@, ch)] = [table EXCEPT ![i].args = z]
    BY <1>4, <1>5, <2>1
  <2>3. [table EXCEPT ![i].name = Append(@, ch)] = [table EXCEPT ![i].name = p]
    BY <1>3, <1>5, <2>1
  <2>. QED  BY <1>2, <2>2, <2>3 DEF Fragment
<1>. QED  BY <1>7, <1>8

\* f gives the fragments of data to the table, one after the other.
FragmentRun(f, table, data) ==
  /\ f \in [0 .. Len(data) -> Tables] /\ f[0] = table
  /\ \A i \in 1 .. Len(data) : f[i] = IF data[i] \in DOMAIN Tools THEN Fragment(f[i - 1], data[i]) ELSE f[i - 1]

LEMMA FragmentRunExists ==
  ASSUME NEW table \in Tables, NEW data \in Seq(Bytes)
  PROVE  \E f : FragmentRun(f, table, data) /\ Fragments(table, data) = f[Len(data)]
<1> DEFINE n == Len(data)
           Q == Tables
           Add(x) == IF data[x[1]] \in DOMAIN Tools THEN Fragment(x[2], data[x[1]]) ELSE x[2]
           h == [x \in (1 .. n) \X Q |-> Add(x)]
           IsRun(f) == f = [i \in 0 .. n |-> IF i = 0 THEN table ELSE IF data[i] \in DOMAIN Tools THEN Fragment(f[i - 1], data[i]) ELSE f[i - 1]]
           c == CHOOSE f : IsRun(f)
<1>1. n \in Nat /\ table \in Q
  BY LenProperties, EmptySeq
<1>2. \A i \in 1 .. n : data[i] \in Bytes
  BY ElementOfSeq
<1>3. ASSUME NEW x \in (1 .. n) \X Q PROVE Add(x) \in Q
  BY <1>2, FragmentType
<1>4. IsStep(h, n, Q)
  <2>. HIDE DEF Q, n, Add
  <2>. QED  BY <1>3 DEF IsStep
<1>5. PICK f : Follows(f, n, Q, table, h)
  <2>. HIDE DEF n, h, Q
  <2>. QED  BY <1>1, <1>4, RecursionExists
<1>6. f \in [0 .. n -> Q] /\ f[0] = table
  <2>. HIDE DEF n, h, Q
  <2>. QED  BY <1>5 DEF Follows
<1>7. ASSUME NEW i \in 1 .. n
      PROVE  f[i - 1] \in Q /\ f[i] = IF data[i] \in DOMAIN Tools THEN Fragment(f[i - 1], data[i]) ELSE f[i - 1]
  <2>1. f[i] = h[<<i, f[i - 1]>>]
    <3>. HIDE DEF n, h, Q
    <3>. QED  BY <1>5 DEF Follows
  <2>2. f[i - 1] \in Q
    <3>1. i - 1 \in 0 .. n
      BY <1>1
    <3>. HIDE DEF n, h, Q
    <3>. QED  BY <1>6, <3>1
  <2>3. h[<<i, f[i - 1]>>] = Add(<<i, f[i - 1]>>)
    <3>. HIDE DEF Q, Add
    <3>. QED  BY <2>2
  <2>4. Add(<<i, f[i - 1]>>) = IF data[i] \in DOMAIN Tools THEN Fragment(f[i - 1], data[i]) ELSE f[i - 1]
    <3>. HIDE DEF Q, n, h
    <3>. QED  OBVIOUS
  <2>. HIDE DEF Q, n, h, Add
  <2>. QED  BY <2>1, <2>2, <2>3, <2>4
<1>. HIDE DEF h, Q
<1>8. IsRun(f)
  <2>1. ASSUME NEW i \in 0 .. n
        PROVE  f[i] = IF i = 0 THEN table ELSE IF data[i] \in DOMAIN Tools THEN Fragment(f[i - 1], data[i]) ELSE f[i - 1]
    <3>1. CASE i = 0
      BY <1>6, <3>1
    <3>2. CASE i # 0
      <4>1. i \in 1 .. n
        BY <1>1, <3>2
      <4>. QED  BY <1>7, <3>2, <4>1
    <3>. QED  BY <3>1, <3>2
  <2>2. f = [i \in 0 .. n |-> f[i]]
    BY <1>6
  <2>. HIDE DEF n
  <2>. QED  BY <2>1, <2>2
<1>9. IsRun(c)
  <2>. HIDE DEF IsRun
  <2>. QED  BY <1>8, Zenon
<1>10. Fragments(table, data) = c[n]
  BY Zenon DEF Fragments
<1> DEFINE T == {i \in 0 .. n : c[i] = f[i]}
<1>11. c[0] = table /\ 0 \in 0 .. n
  <2>1. 0 \in 0 .. n
    BY <1>1
  <2>. HIDE DEF c, n
  <2>. QED  BY <1>9, <2>1
<1>12. ASSUME NEW i \in 1 .. n PROVE c[i] = IF data[i] \in DOMAIN Tools THEN Fragment(c[i - 1], data[i]) ELSE c[i - 1]
  <2>1. i \in 0 .. n /\ i # 0
    BY <1>1
  <2>. HIDE DEF c, n
  <2>. QED  BY <1>9, <2>1
<1>. HIDE DEF c, IsRun
<1>13. 0 \in T
  BY <1>6, <1>11
<1>14. ASSUME NEW i \in 0 .. n - 1, i \in T PROVE i + 1 \in T
  <2>1. i + 1 \in 1 .. n /\ i + 1 \in 0 .. n /\ (i + 1) - 1 = i
    BY <1>1
  <2>. HIDE DEF n
  <2>. QED  BY <1>7, <1>12, <1>14, <2>1
<1>15. c[n] = f[n]
  <2>1. n \in 0 .. n
    BY <1>1
  <2>. HIDE DEF T, n
  <2>2. n \in T
    BY <1>1, <1>13, <1>14, <2>1, UpTo
  <2>. QED  BY <2>2 DEF T
<1>16. FragmentRun(f, table, data)
  <2>1. f \in [0 .. n -> Tables]
    BY <1>6 DEF Q
  <2>. QED  BY <1>6, <1>7, <2>1 DEF FragmentRun
<1>. QED  BY <1>10, <1>15, <1>16

\* The fragments of more text are added to the calls asked for by the text before.
LEMMA FragmentsAsked ==
  ASSUME NEW w \in Seq(Bytes), NEW data \in Seq(Bytes)
  PROVE  Fragments(ToolsAsked(w), data) = ToolsAsked(w \o data)
<1> DEFINE n == Len(data)
<1>1. n \in Nat /\ ToolsAsked(w) \in Tables
  BY LenProperties, AskedType
<1>2. PICK f : FragmentRun(f, ToolsAsked(w), data) /\ Fragments(ToolsAsked(w), data) = f[n]
  BY <1>1, FragmentRunExists
<1> DEFINE T == {i \in 0 .. n : f[i] = ToolsAsked(w \o SubSeq(data, 1, i))}
<1>3. 0 \in T
  <2>1. SubSeq(data, 1, 0) = <<>> /\ w \o <<>> = w /\ 0 \in 0 .. n
    BY <1>1, SubSeqEmpty, ConcatEmptySeq
  <2>2. f[0] = ToolsAsked(w)
    BY <1>2 DEF FragmentRun
  <2>. QED  BY <2>1, <2>2
<1>4. ASSUME NEW i \in 0 .. n - 1, i \in T PROVE i + 1 \in T
  <2>1. i + 1 \in 1 .. n /\ (i + 1) - 1 = i /\ i + 1 \in 0 .. n /\ i \in 0 .. Len(data)
    BY <1>1
  <2>2. PICK x : x = data[i + 1]
    OBVIOUS
  <2>3. PICK a : a = SubSeq(data, 1, i)
    OBVIOUS
  <2>4. x \in Bytes /\ a \in Seq(Bytes) /\ SubSeq(data, 1, i + 1) = Append(a, x)
    BY <2>1, <2>2, <2>3, SubNext, SubType
  <2>5. w \o Append(a, x) = Append(w \o a, x) /\ w \o a \in Seq(Bytes)
    BY ONLY <2>4, w \in Seq(Bytes), ConcatProperties
  <2>6. PICK s : s = w \o a
    OBVIOUS
  <2>7. ToolsAsked(Append(s, x)) = IF x \in DOMAIN Tools THEN Fragment(ToolsAsked(s), x) ELSE ToolsAsked(s)
    BY <2>4, <2>5, <2>6, AskedAppend
  <2>8. f[i + 1] = IF x \in DOMAIN Tools THEN Fragment(f[i], x) ELSE f[i]
    BY <1>2, <2>1, <2>2 DEF FragmentRun
  <2>9. f[i] = ToolsAsked(s)
    BY <1>4, <2>3, <2>6
  <2>. QED  BY <2>1, <2>4, <2>5, <2>6, <2>7, <2>8, <2>9
<1>. HIDE DEF T
<1>5. n \in T
  <2>1. n \in 0 .. n
    BY <1>1
  <2>. QED  BY <1>1, <1>3, <1>4, <2>1, UpTo
<1>6. SubSeq(data, 1, n) = data
  BY SubSeqFull
<1>. QED  BY <1>2, <1>5, <1>6 DEF T

LEMMA GoodFacts ==
  ASSUME NEW fs \in Seq(Seq(Bytes))
  PROVE  /\ Good(fs) \in 0 .. Len(fs) /\ Len(fs) \in Nat
         /\ \A i \in 1 .. Good(fs) : IsJson(fs[i])
         /\ Good(fs) < Len(fs) => ~IsJson(fs[Good(fs) + 1])
<1> DEFINE A == {i \in DOMAIN fs : ~IsJson(fs[i])}
<1>1. Len(fs) \in Nat /\ DOMAIN fs = 1 .. Len(fs)
  BY LenProperties
<1>2. CASE A = {}
  <2>1. \A i \in DOMAIN fs : IsJson(fs[i])
    BY <1>2
  <2>2. Good(fs) = Len(fs)
    BY <2>1, Zenon DEF Good
  <2>3. ~(Len(fs) < Len(fs)) /\ Len(fs) \in 0 .. Len(fs)
    BY <1>1
  <2>. QED  BY <1>1, <2>1, <2>2, <2>3
<1>3. CASE A # {}
  <2>1. \E c \in A : \A j \in 1 .. c - 1 : j \notin A
    <3>1. A \subseteq 1 .. Len(fs)
      BY <1>1
    <3>. HIDE DEF A
    <3>. QED  BY <1>1, <1>3, <3>1, First
  <2>2. \E i \in DOMAIN fs : ~IsJson(fs[i]) /\ \A j \in 1 .. i - 1 : IsJson(fs[j])
    <3>1. PICK e \in A : \A j \in 1 .. e - 1 : j \notin A
      BY <2>1
    <3>2. e \in 1 .. Len(fs)
      BY <1>1, <3>1
    <3>3. \A j \in 1 .. e - 1 : j \in DOMAIN fs
      BY <1>1, <3>2
    <3>4. \A j \in 1 .. e - 1 : IsJson(fs[j])
      BY <3>1, <3>3
    <3>. QED  BY <3>1, <3>4
  <2>3. PICK c : c = CHOOSE i \in DOMAIN fs : ~IsJson(fs[i]) /\ \A j \in 1 .. i - 1 : IsJson(fs[j])
    OBVIOUS
  <2>4. c \in DOMAIN fs /\ ~IsJson(fs[c]) /\ \A j \in 1 .. c - 1 : IsJson(fs[j])
    BY <2>2, <2>3, Zenon
  <2>5. ~(\A i \in DOMAIN fs : IsJson(fs[i]))
    BY <2>4
  <2>6. Good(fs) = c - 1
    BY <2>3, <2>5, Zenon DEF Good
  <2>7. c - 1 \in 0 .. Len(fs) /\ (c - 1) + 1 = c
    BY <1>1, <2>4
  <2>. QED  BY <1>1, <2>4, <2>6, <2>7
<1>. QED  BY <1>2, <1>3

LEMMA TextConcat ==
  ASSUME NEW s \in Seq(Bytes), NEW t \in Seq(Bytes)
  PROVE  TextOf(s) \in Seq(Bytes) /\ TextOf(s \o t) = TextOf(s) \o TextOf(t)
<1>1. PICK P : P = Texts
  OBVIOUS
<1>2. s \in Seq(Bytes) /\ t \in Seq(Bytes)
  OBVIOUS
<1>3. Pick(s \o t, P) = Pick(s, P) \o Pick(t, P)
  <2>1. PickJoins(s, t, P)
    BY ONLY <1>2, PickConcat
  <2>. QED  BY ONLY <2>1 DEF PickJoins
<1>4. Pick(s, P) \in Seq(Bytes)
  BY PickType
<1>. QED  BY <1>1, <1>3, <1>4 DEF TextOf

LEMMA FragmentsType ==
  ASSUME NEW table \in Tables, NEW data \in Seq(Bytes) PROVE Fragments(table, data) \in Tables
<1>1. PICK f : FragmentRun(f, table, data) /\ Fragments(table, data) = f[Len(data)]
  BY FragmentRunExists
<1>2. Len(data) \in 0 .. Len(data)
  BY LenProperties
<1>. QED  BY <1>1, <1>2 DEF FragmentRun

\* f takes the frames, one after the other.
Takes(f, fs) ==
  /\ f \in [0 .. Len(fs) -> [text : Seq(Bytes), calls : Tables]] /\ f[0] = [text |-> tokens, calls |-> toolCalls]
  /\ \A i \in 1 .. Len(fs) : f[i] = [text |-> f[i - 1].text \o TextOf(fs[i]), calls |-> Fragments(f[i - 1].calls, fs[i])]

LEMMA TakesExists ==
  ASSUME NEW fs \in Seq(Seq(Bytes)), tokens \in Seq(Bytes), toolCalls \in Tables
  PROVE  \E f : Takes(f, fs) /\ Take(fs) = f[Good(fs)]
<1> DEFINE n == Len(fs)
           Q == [text : Seq(Bytes), calls : Tables]
           Add(x) == [text |-> x[2].text \o TextOf(fs[x[1]]), calls |-> Fragments(x[2].calls, fs[x[1]])]
           h == [x \in (1 .. n) \X Q |-> Add(x)]
           IsRun(f) == f = [i \in 0 .. n |-> IF i = 0 THEN [text |-> tokens, calls |-> toolCalls] ELSE [text |-> f[i - 1].text \o TextOf(fs[i]), calls |-> Fragments(f[i - 1].calls, fs[i])]]
           c == CHOOSE f : IsRun(f)
<1>1. n \in Nat /\ [text |-> tokens, calls |-> toolCalls] \in Q
  BY LenProperties
<1>2. \A i \in 1 .. n : fs[i] \in Seq(Bytes)
  <2>1. PICK X : X = Seq(Bytes)
    OBVIOUS
  <2>2. fs \in Seq(X)
    BY <2>1
  <2>3. \A i \in 1 .. n : fs[i] \in X
    BY <2>2, ElementOfSeq
  <2>. QED  BY <2>1, <2>3
<1>3. ASSUME NEW x \in (1 .. n) \X Q PROVE Add(x) \in Q
  <2>1. fs[x[1]] \in Seq(Bytes) /\ x[2].text \in Seq(Bytes) /\ x[2].calls \in Tables
    BY <1>2
  <2>2. TextOf(fs[x[1]]) \in Seq(Bytes) /\ Fragments(x[2].calls, fs[x[1]]) \in Tables
    BY <2>1, PickType, FragmentsType DEF TextOf
  <2>3. x[2].text \o TextOf(fs[x[1]]) \in Seq(Bytes)
    BY <2>1, <2>2, ConcatProperties
  <2>. QED  BY <2>2, <2>3
<1>4. IsStep(h, n, Q)
  <2>. HIDE DEF Q, n, Add
  <2>. QED  BY <1>3 DEF IsStep
<1>5. PICK f : Follows(f, n, Q, [text |-> tokens, calls |-> toolCalls], h)
  <2>. HIDE DEF n, h, Q
  <2>. QED  BY <1>1, <1>4, RecursionExists
<1>6. f \in [0 .. n -> Q] /\ f[0] = [text |-> tokens, calls |-> toolCalls]
  <2>. HIDE DEF n, h, Q
  <2>. QED  BY <1>5 DEF Follows
<1>7. ASSUME NEW i \in 1 .. n
      PROVE  f[i - 1] \in Q /\ f[i] = [text |-> f[i - 1].text \o TextOf(fs[i]), calls |-> Fragments(f[i - 1].calls, fs[i])]
  <2>1. f[i] = h[<<i, f[i - 1]>>]
    <3>. HIDE DEF n, h, Q
    <3>. QED  BY <1>5 DEF Follows
  <2>2. f[i - 1] \in Q
    <3>1. i - 1 \in 0 .. n
      BY <1>1
    <3>. HIDE DEF n, h, Q
    <3>. QED  BY <1>6, <3>1
  <2>3. h[<<i, f[i - 1]>>] = Add(<<i, f[i - 1]>>)
    <3>. HIDE DEF Q, Add
    <3>. QED  BY <2>2
  <2>4. Add(<<i, f[i - 1]>>) = [text |-> f[i - 1].text \o TextOf(fs[i]), calls |-> Fragments(f[i - 1].calls, fs[i])]
    <3>. HIDE DEF Q, n, h
    <3>. QED  OBVIOUS
  <2>. HIDE DEF Q, n, h, Add
  <2>. QED  BY <2>1, <2>2, <2>3, <2>4
<1>. HIDE DEF h, Q
<1>8. IsRun(f)
  <2>1. ASSUME NEW i \in 0 .. n
        PROVE  f[i] = IF i = 0 THEN [text |-> tokens, calls |-> toolCalls] ELSE [text |-> f[i - 1].text \o TextOf(fs[i]), calls |-> Fragments(f[i - 1].calls, fs[i])]
    <3>1. CASE i = 0
      BY <1>6, <3>1
    <3>2. CASE i # 0
      <4>1. i \in 1 .. n
        BY <1>1, <3>2
      <4>. QED  BY <1>7, <3>2, <4>1
    <3>. QED  BY <3>1, <3>2
  <2>2. f = [i \in 0 .. n |-> f[i]]
    BY <1>6
  <2>. HIDE DEF n
  <2>. QED  BY <2>1, <2>2
<1>9. IsRun(c)
  <2>. HIDE DEF IsRun
  <2>. QED  BY <1>8, Zenon
<1>10. Take(fs) = c[Good(fs)]
  BY Zenon DEF Take
<1> DEFINE T == {i \in 0 .. n : c[i] = f[i]}
<1>11. c[0] = [text |-> tokens, calls |-> toolCalls] /\ 0 \in 0 .. n
  <2>1. 0 \in 0 .. n
    BY <1>1
  <2>. HIDE DEF c, n
  <2>. QED  BY <1>9, <2>1
<1>12. ASSUME NEW i \in 1 .. n PROVE c[i] = [text |-> c[i - 1].text \o TextOf(fs[i]), calls |-> Fragments(c[i - 1].calls, fs[i])]
  <2>1. i \in 0 .. n /\ i # 0
    BY <1>1
  <2>. HIDE DEF c, n
  <2>. QED  BY <1>9, <2>1
<1>. HIDE DEF c, IsRun
<1>13. 0 \in T
  BY <1>6, <1>11
<1>14. ASSUME NEW i \in 0 .. n - 1, i \in T PROVE i + 1 \in T
  <2>1. i + 1 \in 1 .. n /\ i + 1 \in 0 .. n /\ (i + 1) - 1 = i
    BY <1>1
  <2>. HIDE DEF n
  <2>. QED  BY <1>7, <1>12, <1>14, <2>1
<1>15. c[Good(fs)] = f[Good(fs)]
  <2>1. Good(fs) \in 0 .. n
    BY GoodFacts
  <2>. HIDE DEF T, n
  <2>2. Good(fs) \in T
    BY <1>1, <1>13, <1>14, <2>1, UpTo
  <2>. QED  BY <2>2 DEF T
<1>16. Takes(f, fs)
  <2>1. f \in [0 .. n -> [text : Seq(Bytes), calls : Tables]]
    BY <1>6 DEF Q
  <2>. QED  BY <1>6, <1>7, <2>1 DEF Takes
<1>. QED  BY <1>10, <1>15, <1>16

\* What is taken from the frames, after the events before.
LEMMA TakeFed ==
  ASSUME NEW prior \in Seq(Seq(Bytes)), NEW fs \in Seq(Seq(Bytes)),
         tokens = TextOf(Whole(prior)), toolCalls = ToolsAsked(Whole(prior)),
         NEW all, all = Whole(prior \o SubSeq(fs, 1, Good(fs)))
  PROVE  Take(fs) = [text |-> TextOf(all), calls |-> ToolsAsked(all)] /\ all \in Seq(Bytes)
<1> DEFINE n == Len(fs)
           To(i) == Whole(prior \o SubSeq(fs, 1, i))
<1>1. n \in Nat /\ Good(fs) \in 0 .. n
  BY GoodFacts
<1>2. Whole(prior) \in Seq(Bytes)
  BY ConcatType, EmptySeq DEF Whole
<1>3. tokens \in Seq(Bytes) /\ toolCalls \in Tables
  BY <1>2, AskedType, PickType DEF TextOf
<1>4. PICK f : Takes(f, fs) /\ Take(fs) = f[Good(fs)]
  BY <1>3, TakesExists
<1>5. PICK X : X = Seq(Bytes)
  OBVIOUS
<1>6. prior \in Seq(X) /\ fs \in Seq(X)
  BY <1>5
<1> DEFINE T == {i \in 0 .. n : f[i] = [text |-> TextOf(To(i)), calls |-> ToolsAsked(To(i))]}
<1>7. 0 \in T
  <2>1. SubSeq(fs, 1, 0) = <<>> /\ prior \o <<>> = prior /\ 0 \in 0 .. n
    BY <1>1, <1>6, SubSeqEmpty, ConcatEmptySeq
  <2>2. f[0] = [text |-> tokens, calls |-> toolCalls]
    BY <1>4 DEF Takes
  <2>. QED  BY <2>1, <2>2
<1>8. ASSUME NEW i \in 0 .. n - 1, i \in T PROVE i + 1 \in T
  <2>1. i + 1 \in 1 .. n /\ (i + 1) - 1 = i /\ i + 1 \in 0 .. n /\ i \in 0 .. n
    BY <1>1
  <2>2. PICK x : x = fs[i + 1]
    OBVIOUS
  <2>3. PICK a : a = SubSeq(fs, 1, i)
    OBVIOUS
  <2>4. x \in X /\ a \in Seq(X) /\ SubSeq(fs, 1, i + 1) = Append(a, x)
    <3>1. i \in 0 .. Len(fs) - 1 /\ i \in 0 .. Len(fs)
      BY <2>1
    <3>2. SubSeq(fs, 1, i + 1) = Append(SubSeq(fs, 1, i), fs[i + 1]) /\ fs[i + 1] \in X
      BY ONLY <1>6, <3>1, SubNext
    <3>3. SubSeq(fs, 1, i) \in Seq(X)
      BY ONLY <1>6, <3>1, SubType
    <3>. QED  BY <2>2, <2>3, <3>2, <3>3
  <2>5. prior \o Append(a, x) = Append(prior \o a, x) /\ prior \o a \in Seq(X)
    <3>1. JoinGrows(prior, a, x) /\ prior \o a \in Seq(X)
      BY ONLY <1>6, <2>4, JoinAppend
    <3>. QED  BY ONLY <3>1 DEF JoinGrows
  <2>6. PICK ps : ps = prior \o a
    OBVIOUS
  <2>7. ps \in Seq(Seq(Bytes)) /\ x \in Seq(Bytes)
    BY <1>5, <2>4, <2>5, <2>6
  <2>8. Whole(ps) \in Seq(Bytes) /\ Whole(Append(ps, x)) = Whole(ps) \o x
    <3>1. Whole(ps) \in Seq(Bytes) /\ WholeGrows(ps, x)
      BY ONLY <2>7, WholeAppend
    <3>. QED  BY ONLY <3>1 DEF WholeGrows
  <2>9. PICK w : w = Whole(ps)
    OBVIOUS
  <2>10. TextOf(w \o x) = TextOf(w) \o TextOf(x) /\ Fragments(ToolsAsked(w), x) = ToolsAsked(w \o x)
    BY <2>7, <2>8, <2>9, TextConcat, FragmentsAsked
  <2>11. f[i + 1] = [text |-> f[i].text \o TextOf(x), calls |-> Fragments(f[i].calls, x)]
    BY <1>4, <2>1, <2>2 DEF Takes
  <2>12. f[i] = [text |-> TextOf(w), calls |-> ToolsAsked(w)]
    BY <1>8, <2>3, <2>6, <2>9
  <2>13. f[i].text = TextOf(w) /\ f[i].calls = ToolsAsked(w)
    BY <2>12
  <2>14. To(i + 1) = w \o x
    BY <2>4, <2>5, <2>6, <2>8, <2>9
  <2>15. f[i + 1] = [text |-> TextOf(w \o x), calls |-> ToolsAsked(w \o x)]
    BY <2>10, <2>11, <2>13
  <2>. QED  BY <2>1, <2>14, <2>15
<1>. HIDE DEF T
<1>9. Good(fs) \in T
  BY <1>1, <1>7, <1>8, UpTo
<1>10. all \in Seq(Bytes)
  <2>1. PICK a : a = SubSeq(fs, 1, Good(fs))
    OBVIOUS
  <2>2. a \in Seq(X)
    <3>1. Good(fs) \in 0 .. Len(fs)
      BY <1>1
    <3>2. PICK g : g = Good(fs)
      OBVIOUS
    <3>3. g \in 0 .. Len(fs)
      BY <3>1, <3>2
    <3>4. SubSeq(fs, 1, g) \in Seq(X)
      BY ONLY <1>6, <3>3, SubType
    <3>. QED  BY <2>1, <3>2, <3>4
  <2>3. prior \o a \in Seq(X)
    BY ONLY <1>6, <2>2, ConcatProperties
  <2>4. PICK ps : ps = prior \o a
    OBVIOUS
  <2>5. ps \in Seq(Seq(Bytes))
    BY <1>5, <2>3, <2>4
  <2>6. Whole(ps) \in Seq(Bytes)
    <3>1. PICK e : e = <<>>
      OBVIOUS
    <3>2. e \in Seq(Bytes)
      BY <3>1
    <3>3. Concat(ps, e) \in Seq(Bytes)
      BY ONLY <2>5, <3>2, ConcatType
    <3>. QED  BY <3>1, <3>3 DEF Whole
  <2>. QED  BY <2>1, <2>4, <2>6
<1>. QED  BY <1>4, <1>9, <1>10 DEF T

-----------------------------------------------------------------------------
(* The call: its invariant.                                                *)

\* The decoder before the first byte.
NoDecoder == [half |-> FALSE, pending |-> <<>>, lines |-> <<>>, stopped |-> FALSE, frames |-> <<>>, bad |-> FALSE]

\* Before the body is read nothing of it is known.
Unread ==
  stage \notin {"reading", "over"} =>
    /\ decoder = NoDecoder /\ tokens = <<>> /\ toolCalls = NoCalls /\ taken = <<>> /\ at = 0
    /\ reader = "none"

\* The events the call has been given: those the bytes read close.
Given(bytes, d, m) ==
  LET text == Text(bytes)
      lines == Lines(text)
  IN SubSeq(EventsOf(lines), 1, EventAt(lines, LineAt(text, Where(bytes, m, d.half))))

\* While the body is read, what the call holds is what the part read means.
Reading ==
  stage = "reading" =>
    /\ reader = "open"
    /\ format = "json" => tokens = <<>> /\ toolCalls = NoCalls /\ taken = SubSeq(body, 1, at)
    /\ format = "sse" =>
         /\ ~decoder.bad /\ ~decoder.stopped
         /\ DecoderAt(body, Fresh(decoder), Given(body, decoder, at), at)
         /\ tokens = TextOf(Whole(Given(body, decoder, at)))
         /\ toolCalls = ToolsAsked(Whole(Given(body, decoder, at)))

HttpTypes ==
  /\ body \in Seq(Bytes) /\ decoder \in Decoders /\ tokens \in Seq(Bytes) /\ taken \in Seq(Bytes)
  /\ toolCalls \in Tables

HttpInv == ReplyMeant /\ HttpTypes /\ Unread /\ Reading

\* x is the beginning of y.
PrefixOf(x, y) == Len(x) <= Len(y) /\ x = SubSeq(y, 1, Len(x))

LEMMA WholeType == ASSUME NEW ps \in Seq(Seq(Bytes)) PROVE Whole(ps) \in Seq(Bytes)
<1>1. PICK e : e = <<>>
  OBVIOUS
<1>2. e \in Seq(Bytes)
  BY <1>1
<1>3. Concat(ps, e) \in Seq(Bytes)
  BY <1>2, ConcatType
<1>. QED  BY <1>1, <1>3 DEF Whole

LEMMA SubSplit ==
  ASSUME NEW S, NEW s \in Seq(S), NEW n \in 0 .. Len(s)
  PROVE  s = SubSeq(s, 1, n) \o SubSeq(s, n + 1, Len(s))
<1>1. Len(s) \in Nat
  BY LenProperties
<1>2. PICK l : l = Len(s)
  OBVIOUS
<1>3. l \in 0 .. Len(s) /\ n <= l /\ n \in 0 .. Len(s)
  BY <1>1, <1>2
<1>4. SubSeq(s, 1, l) = SubSeq(s, 1, n) \o SubSeq(s, n + 1, l)
  BY <1>1, <1>3
<1>. QED  BY <1>2, <1>4, SubSeqFull

\* The text of the first events is the first of the text.
LEMMA PrefixText ==
  ASSUME NEW all \in Seq(Seq(Bytes)), NEW n \in 0 .. Len(all), NEW ps, ps = SubSeq(all, 1, n)
  PROVE  /\ ps \in Seq(Seq(Bytes)) /\ TextOf(Whole(ps)) \in Seq(Bytes) /\ TextOf(Whole(all)) \in Seq(Bytes)
         /\ PrefixOf(TextOf(Whole(ps)), TextOf(Whole(all)))
<1>1. PICK X : X = Seq(Bytes)
  OBVIOUS
<1>2. PICK N : N = Len(all)
  OBVIOUS
<1>3. all \in Seq(X) /\ N \in Nat /\ n \in 0 .. N
  BY <1>1, <1>2, LenProperties
<1>4. PICK rs : rs = SubSeq(all, n + 1, N)
  OBVIOUS
<1>5. ps \in Seq(X) /\ rs \in Seq(X) /\ all = ps \o rs
  <2>1. ps \in Seq(X)
    BY <1>2, <1>3, SubType
  <2>2. rs \in Seq(X)
    <3>1. \A i \in n + 1 .. N : i \in 1 .. N
      BY ONLY <1>3
    <3>2. \A i \in n + 1 .. N : all[i] \in X
      BY <1>2, <1>3, <3>1, ElementOfSeq
    <3>3. n + 1 \in Int /\ N \in Int
      BY <1>3
    <3>. QED  BY <1>4, <3>2, <3>3, SubSeqProperties
  <2>3. n \in 0 .. Len(all)
    OBVIOUS
  <2>4. all = SubSeq(all, 1, n) \o SubSeq(all, n + 1, Len(all))
    BY ONLY <1>3, <2>3, SubSplit
  <2>. QED  BY <1>2, <1>4, <2>1, <2>2, <2>4
<1>6. ps \in Seq(Seq(Bytes)) /\ rs \in Seq(Seq(Bytes))
  BY <1>1, <1>5
<1>7. Whole(ps \o rs) = Whole(ps) \o Whole(rs)
  BY ONLY <1>6, WholeConcat
<1>8. PICK a : a = Whole(ps)
  OBVIOUS
<1>9. PICK b : b = Whole(rs)
  OBVIOUS
<1>10. a \in Seq(Bytes) /\ b \in Seq(Bytes)
  BY <1>6, <1>8, <1>9, WholeType
<1>11. TextOf(a \o b) = TextOf(a) \o TextOf(b) /\ TextOf(a) \in Seq(Bytes) /\ TextOf(b) \in Seq(Bytes)
  BY <1>10, TextConcat
<1>12. PICK x : x = TextOf(a)
  OBVIOUS
<1>13. PICK y : y = TextOf(b)
  OBVIOUS
<1>14. x \in Seq(Bytes) /\ y \in Seq(Bytes)
  BY <1>11, <1>12, <1>13
<1>15. SubSeq(x \o y, 1, Len(x)) = x /\ Len(x) <= Len(x \o y) /\ x \o y \in Seq(Bytes)
  BY ONLY <1>14
<1>. QED  BY <1>5, <1>6, <1>7, <1>8, <1>9, <1>11, <1>12, <1>13, <1>15 DEF PrefixOf

LEMMA StreamType == ASSUME NEW bytes \in Seq(Bytes) PROVE Stream(bytes) \in Seq(Seq(Bytes))
<1>1. PICK evs : evs = EventsOf(Lines(Text(bytes)))
  OBVIOUS
<1>2. evs \in Seq(Seq(Bytes))
  BY <1>1, TextType, LinesType, EventsType
<1>3. Len(evs) \in Nat /\ 0 \in 0 .. Len(evs) /\ \A j \in 1 .. 0 : evs[j] # <<".">>
  BY <1>2, LenProperties
<1>4. UntilDone(evs) \in Seq(Seq(Bytes))
  BY <1>2, <1>3, UntilFacts
<1>. QED  BY <1>1, <1>4 DEF Stream

\* What a decoder that is sound has given is the first of the stream's events.
FruitIs(bytes, d, prior, m) ==
  /\ \E n \in 0 .. Len(Stream(bytes)) : prior \o d.frames = SubSeq(Stream(bytes), 1, n)
  /\ d.stopped => prior \o d.frames = Stream(bytes)
  /\ ~d.stopped => prior \o d.frames = Given(bytes, d, m)

LEMMA Fruit ==
  ASSUME NEW bytes \in Seq(Bytes), NEW d \in Decoders, NEW prior \in Seq(Seq(Bytes)), NEW m,
         DecoderAt(bytes, d, prior, m), ~d.bad
  PROVE  FruitIs(bytes, d, prior, m)
<1>1. PICK lines : lines = Lines(Text(bytes))
  OBVIOUS
<1>2. lines \in Seq(Seq(Bytes))
  BY <1>1, TextType, LinesType
<1>3. PICK k : k = LineAt(Text(bytes), Where(bytes, m, d.half))
  OBVIOUS
<1>4. Fed(lines, d, prior, k)
  BY <1>1, <1>3 DEF DecoderAt
<1>5. PICK evs : evs = EventsOf(lines)
  OBVIOUS
<1>6. evs \in Seq(Seq(Bytes)) /\ Stream(bytes) \in Seq(Seq(Bytes)) /\ Stream(bytes) = UntilDone(evs)
  BY <1>1, <1>2, <1>5, EventsType, StreamType DEF Stream
<1>7. PICK all : all = Stream(bytes)
  OBVIOUS
<1>8. CASE d.stopped
  <2>1. prior \o d.frames = all
    BY <1>4, <1>5, <1>6, <1>7, <1>8 DEF Fed
  <2>2. all = SubSeq(all, 1, Len(all)) /\ Len(all) \in 0 .. Len(all)
    <3>1. PICK X : X = Seq(Bytes)
      OBVIOUS
    <3>2. all \in Seq(X)
      BY <1>6, <1>7, <3>1
    <3>3. Len(all) \in Nat
      BY <3>2, LenProperties
    <3>4. SubSeq(all, 1, Len(all)) = all
      BY ONLY <3>2, SubSeqFull
    <3>. QED  BY <3>3, <3>4
  <2>. QED  BY <1>7, <1>8, <2>1, <2>2 DEF FruitIs
<1>9. CASE ~d.stopped
  <2>1. PICK n : n = EventAt(lines, k)
    OBVIOUS
  <2>2. n \in 0 .. Len(evs) /\ prior \o d.frames = SubSeq(evs, 1, n) /\ \A j \in 1 .. n : evs[j] # <<".">>
    BY <1>2, <1>4, <1>5, <1>9, <2>1, EventBelow DEF Fed
  <2>3. n <= Len(UntilDone(evs)) /\ SubSeq(UntilDone(evs), 1, n) = SubSeq(evs, 1, n)
    BY <1>6, <2>2, UntilFacts
  <2>4. n \in 0 .. Len(all)
    <3>1. n \in Nat /\ n <= Len(all) /\ Len(all) \in Nat
      <4>1. PICK l : l = Len(evs)
        OBVIOUS
      <4>2. l \in Nat /\ n \in 0 .. l
        BY <1>6, <2>2, <4>1, LenProperties
      <4>3. n \in Nat
        BY ONLY <4>2
      <4>. QED  BY <1>6, <1>7, <2>3, <4>3, LenProperties
    <3>. QED  BY ONLY <3>1
  <2>5. Given(bytes, d, m) = SubSeq(evs, 1, n)
    BY <1>1, <1>3, <1>5, <2>1 DEF Given
  <2>. QED  BY <1>6, <1>7, <1>9, <2>2, <2>3, <2>4, <2>5 DEF FruitIs
<1>. QED  BY ONLY <1>8, <1>9

LEMMA MeaningType ==
  ASSUME body \in Seq(Bytes)
  PROVE  Meaning \in Seq(Seq(Bytes)) /\ TextOf(Whole(Meaning)) \in Seq(Bytes) /\ (format # "json" => Meaning = Stream(body))
<1>1. Text(body) \in Seq(Bytes) /\ Stream(body) \in Seq(Seq(Bytes))
  BY TextType, StreamType
<1>2. PICK w : w = Text(body)
  OBVIOUS
<1>3. <<w>> \in Seq(Seq(Bytes))
  BY <1>1, <1>2
<1>4. Meaning \in Seq(Seq(Bytes)) /\ (format # "json" => Meaning = Stream(body))
  BY <1>1, <1>2, <1>3 DEF Meaning, Stream
<1>5. PICK ps : ps = Meaning
  OBVIOUS
<1>6. Whole(ps) \in Seq(Bytes)
  BY <1>4, <1>5, WholeType
<1>7. PICK v : v = Whole(ps)
  OBVIOUS
<1>8. TextOf(v) \in Seq(Bytes)
  BY <1>6, <1>7, PickType DEF TextOf
<1>. QED  BY <1>4, <1>5, <1>7, <1>8

\* A step that gives no token and ends in no reply leaves what was said of them.
LEMMA Quiet ==
  ASSUME HttpInv, UNCHANGED <<format, body, tokens>>, outcome' # "ok", outcome' = "invalid" => status' # "ok"
  PROVE  ReplyIsBody' /\ TokensAreContent' /\ NoFalseError' /\ BodyLetGo'
<1>1. Meaning' = Meaning
  BY DEF Meaning
<1>2. ReplyIsBody' /\ NoFalseError' /\ BodyLetGo'
  BY DEF ReplyIsBody, NoFalseError, BodyLetGo
<1>3. TokensAreContent
  BY DEF HttpInv, ReplyMeant
<1>4. TokensAreContent'
  BY <1>1, <1>3 DEF TokensAreContent
<1>. QED  BY <1>2, <1>4

LEMMA FailTold ==
  ASSUME NEW error \in Outcomes \ {"none", "ok", "transform", "timeout"}, error = "aborted" => cancelled,
         Fail(error), UNCHANGED <<cancelled, timedOut>>, cancelled \in BOOLEAN, timedOut \in BOOLEAN
  PROVE  /\ stage' = "over" /\ outcome' \in Outcomes \ {"none", "ok"} /\ reply' = reply /\ CauseTold'
         /\ outcome' = "invalid" => error = "invalid"
<1>1. outcome' = Cause(error) /\ stage' = "over" /\ reply' = reply
  BY DEF Fail
<1>2. CASE cancelled
  <2>1. outcome' = "aborted"
    BY <1>1, <1>2 DEF Cause
  <2>. QED  BY <1>1, <1>2, <2>1 DEF CauseTold, Outcomes
<1>3. CASE ~cancelled /\ timedOut
  <2>1. outcome' = "timeout"
    BY <1>1, <1>3 DEF Cause
  <2>. QED  BY <1>1, <1>3, <2>1 DEF CauseTold, Outcomes
<1>4. CASE ~cancelled /\ ~timedOut
  <2>1. outcome' = error
    BY <1>1, <1>4 DEF Cause
  <2>. QED  BY <1>1, <1>4, <2>1 DEF CauseTold, Outcomes
<1>. QED  BY <1>2, <1>3, <1>4

-----------------------------------------------------------------------------
(* Its steps.                                                              *)

LEMMA GivenType == ASSUME NEW bytes \in Seq(Bytes), NEW d, NEW m PROVE Given(bytes, d, m) \in Seq(Seq(Bytes))
<1>1. PICK lines : lines = Lines(Text(bytes))
  OBVIOUS
<1>2. PICK k : k = LineAt(Text(bytes), Where(bytes, m, d.half))
  OBVIOUS
<1>3. PICK n : n = EventAt(lines, k)
  OBVIOUS
<1>4. PICK evs : evs = EventsOf(lines)
  OBVIOUS
<1>5. lines \in Seq(Seq(Bytes))
  BY <1>1, TextType, LinesType
<1>6. evs \in Seq(Seq(Bytes)) /\ n \in 0 .. Len(evs)
  BY <1>3, <1>4, <1>5, EventsType, EventBelow
<1>7. SubSeq(evs, 1, n) \in Seq(Seq(Bytes))
  BY ONLY <1>6, SubType
<1>8. Given(bytes, d, m) = SubSeq(evs, 1, n)
  BY <1>1, <1>2, <1>3, <1>4 DEF Given
<1>. QED  BY <1>7, <1>8

LEMMA EmptyRight == ASSUME NEW s \in Seq(Seq(Bytes)) PROVE s \o <<>> = s
<1>1. PICK X : X = Seq(Bytes)
  OBVIOUS
<1>2. s \in Seq(X)
  BY <1>1
<1>. QED  BY ONLY <1>2, ConcatEmptySeq

\* What was given goes to the call, and the decoder starts anew from there.
LEMMA FreshAt ==
  ASSUME NEW bytes \in Seq(Bytes), NEW d \in Decoders, NEW prior \in Seq(Seq(Bytes)), NEW m,
         DecoderAt(bytes, d, prior, m), ~d.bad, ~d.stopped
  PROVE  DecoderAt(bytes, Fresh(d), Given(bytes, d, m), m)
<1>1. PICK lines : lines = Lines(Text(bytes))
  OBVIOUS
<1>2. PICK k : k = LineAt(Text(bytes), Where(bytes, m, d.half))
  OBVIOUS
<1>3. Fed(lines, d, prior, k)
  BY <1>1, <1>2 DEF DecoderAt
<1>4. PICK f : f = Fresh(d)
  OBVIOUS
<1>5. /\ f \in Decoders /\ f.half = d.half /\ f.pending = d.pending /\ f.lines = d.lines
      /\ f.stopped = d.stopped /\ f.frames = <<>> /\ f.bad = d.bad
  BY <1>4, FreshIs
<1>6. PICK ps : ps = Given(bytes, d, m)
  OBVIOUS
<1>7. ps \o f.frames = SubSeq(EventsOf(lines), 1, EventAt(lines, k))
  <2>1. ps \in Seq(Seq(Bytes))
    BY <1>6, GivenType
  <2>2. ps \o f.frames = ps
    BY <1>5, <2>1, EmptyRight
  <2>. QED  BY <1>1, <1>2, <1>6, <2>2 DEF Given
<1>8. Fed(lines, f, ps, k)
  BY <1>3, <1>5, <1>7 DEF Fed
<1>. QED  BY <1>1, <1>2, <1>4, <1>5, <1>6, <1>8 DEF DecoderAt

LEMMA StartFed ==
  ASSUME NEW bytes \in Seq(Bytes)
  PROVE  /\ NoDecoder \in Decoders /\ ~NoDecoder.bad /\ ~NoDecoder.stopped
         /\ DecoderAt(bytes, Fresh(NoDecoder), Given(bytes, NoDecoder, 0), 0)
         /\ TextOf(Whole(Given(bytes, NoDecoder, 0))) = <<>> /\ ToolsAsked(Whole(Given(bytes, NoDecoder, 0))) = NoCalls
<1>0. PICK d : d = NoDecoder
  OBVIOUS
<1>1. <<>> \in Seq(Bytes) /\ <<>> \in Seq(Seq(Bytes))
  OBVIOUS
<1>2. d \in Decoders /\ ~d.bad /\ ~d.stopped /\ d.half = FALSE /\ d.pending = <<>> /\ d.lines = <<>> /\ d.frames = <<>>
  BY <1>0, <1>1 DEF NoDecoder, Decoders
<1>3. PICK text : text = Text(bytes)
  OBVIOUS
<1>4. PICK lines : lines = Lines(text)
  OBVIOUS
<1>5. text \in Seq(Bytes) /\ lines \in Seq(Seq(Bytes))
  BY <1>3, <1>4, TextType, LinesType
<1>6. Where(bytes, 0, d.half) = 0
  <2>1. SubSeq(bytes, 1, 0) = <<>>
    BY SubSeqEmpty
  <2>2. Chars(SubSeq(bytes, 1, 0)) = <<>>
    BY <2>1, PickNone DEF Chars
  <2>. QED  BY <1>2, <2>2 DEF Where, Even, CharAt
<1>7. LineAt(text, 0) = 0 /\ Raw(text, 0) = <<>>
  BY <1>5, LineNone
<1>8. OpenLines(lines, 0) = <<>> /\ EventAt(lines, 0) = 0
  BY <1>5, OpenNone
<1>9. SubSeq(EventsOf(lines), 1, 0) = <<>>
  BY SubSeqEmpty
<1>10. Given(bytes, d, 0) = <<>>
  BY <1>3, <1>4, <1>6, <1>7, <1>8, <1>9 DEF Given
<1>11. <<>> \o d.frames = <<>>
  BY <1>2
<1>12. Fed(lines, d, <<>>, 0)
  BY <1>2, <1>8, <1>9, <1>11 DEF Fed
<1>13. DecoderAt(bytes, d, <<>>, 0)
  BY <1>2, <1>3, <1>4, <1>6, <1>7, <1>12 DEF DecoderAt, Clean, Utf8To, Begun
<1>14. DecoderAt(bytes, Fresh(d), Given(bytes, d, 0), 0)
  <2>1. PICK e : e = <<>>
    OBVIOUS
  <2>2. e \in Seq(Seq(Bytes)) /\ DecoderAt(bytes, d, e, 0)
    BY <1>1, <1>13, <2>1
  <2>. QED  BY <1>2, <2>2, FreshAt
<1>15. Whole(<<>>) = <<>>
  BY <1>1, ConcatNone DEF Whole
<1>16. TextOf(<<>>) = <<>> /\ ToolsAsked(<<>>) = NoCalls
  BY PickNone, AskedNone DEF TextOf
<1>. QED  BY <1>0, <1>2, <1>10, <1>14, <1>15, <1>16

LEMMA NoTextYet ==
  ASSUME body \in Seq(Bytes), tokens = <<>>
  PROVE  Len(tokens) <= Len(TextOf(Whole(Meaning))) /\ tokens = SubSeq(TextOf(Whole(Meaning)), 1, Len(tokens))
<1>1. PICK t : t = TextOf(Whole(Meaning))
  OBVIOUS
<1>2. t \in Seq(Bytes) /\ Len(t) \in Nat
  BY <1>1, MeaningType, LenProperties
<1>3. SubSeq(t, 1, 0) = <<>> /\ 0 <= Len(t) /\ Len(<<>>) = 0
  BY <1>2, SubSeqEmpty
<1>. QED  BY <1>1, <1>3

LEMMA HttpInitInv == HttpInit => HttpInv
<1>1. SUFFICES ASSUME HttpInit PROVE HttpInv
  OBVIOUS
<1>2. body \in Seq(Bytes)
  BY <1>1, HttpAssumption DEF HttpInit
<1>3. decoder = NoDecoder /\ decoder \in Decoders
  BY <1>1, <1>2, StartFed DEF HttpInit, NoDecoder
<1>4. NoCalls \in Tables /\ <<>> \in Seq(Bytes)
  <2>1. PICK e : e = <<>>
    OBVIOUS
  <2>2. e \in Seq(Bytes)
    BY <2>1
  <2>3. ToolsAsked(e) \in Tables
    BY <2>2, AskedType
  <2>. QED  BY <2>1, <2>2, <2>3, AskedNone
<1>5. HttpTypes
  BY <1>1, <1>2, <1>3, <1>4 DEF HttpTypes, HttpInit
<1>6. Unread
  BY <1>1, <1>3 DEF Unread, HttpInit
<1>7. Reading
  BY <1>1 DEF Reading, HttpInit
<1>8. HttpTypeOK
  <2>1. MaxResponse \in Nat /\ Len(body) \in Nat /\ Len(<<>>) = 0
    BY <1>2, HttpAssumption, LenProperties
  <2>2. format \in {"sse", "json"} /\ status \in {"ok", "redirect", "error", "bodyless"} /\ reader = "none"
    BY <1>1 DEF HttpInit
  <2>3. cancelled \in BOOLEAN /\ timedOut \in BOOLEAN
    BY <1>1 DEF HttpInit
  <2>4. stage \in Stages /\ outcome \in Outcomes /\ (outcome = "none") = (stage # "over")
    <3>1. stage = "called" /\ outcome = "none"
      BY <1>1 DEF HttpInit
    <3>2. (outcome = "none") <=> (stage # "over")
      BY <3>1
    <3>. QED  BY <3>1, <3>2 DEF Stages, Outcomes
  <2>5. at \in 0 .. Len(body)
    <3>1. at = 0
      BY <1>1 DEF HttpInit
    <3>. QED  BY <2>1, <3>1
  <2>6. Len(taken) <= MaxResponse
    <3>1. taken = <<>>
      BY <1>1 DEF HttpInit
    <3>. QED  BY <2>1, <3>1
  <2>. QED  BY <2>2, <2>3, <2>4, <2>5, <2>6 DEF HttpTypeOK
<1>9. TokensAreContent
  BY <1>1, <1>2, NoTextYet DEF HttpInit, TokensAreContent
<1>10. ReplyIsBody /\ NoFalseError /\ CauseTold /\ BodyLetGo
  BY <1>1 DEF HttpInit, ReplyIsBody, NoFalseError, CauseTold, BodyLetGo
<1>. QED  BY <1>5, <1>6, <1>7, <1>8, <1>9, <1>10 DEF HttpInv, ReplyMeant

\* A step that reads nothing.
LEMMA ParsedSame ==
  ASSUME HttpInv, UNCHANGED response, UNCHANGED parsed, CauseTold', outcome' \in Outcomes \ {"ok"},
         outcome' = "invalid" => status # "ok", stage' \in Stages, (outcome' = "none") = (stage' # "over"), cancelled' \in BOOLEAN, timedOut' \in BOOLEAN,
         reader' \in {"none", "open", "done", "cancelled", "released"},
         stage' \notin {"reading", "over"} => stage \notin {"reading", "over"} /\ reader' = reader,
         stage' = "reading" => reader' = "open" /\ stage # "over"
  PROVE  HttpInv'
<1>1. /\ format' = format /\ body' = body /\ status' = status /\ at' = at /\ decoder' = decoder
      /\ taken' = taken /\ tokens' = tokens /\ toolCalls' = toolCalls
  BY DEF response, parsed
<1>2. HttpTypeOK /\ HttpTypes /\ Unread /\ Reading
  BY DEF HttpInv, ReplyMeant
<1>3. HttpTypeOK'
  BY <1>1, <1>2 DEF HttpTypeOK
<1>4. HttpTypes'
  BY <1>1, <1>2 DEF HttpTypes
<1>5. ReplyIsBody' /\ TokensAreContent' /\ NoFalseError' /\ BodyLetGo'
  BY <1>1, Quiet
<1>6. Unread'
  BY <1>1, <1>2 DEF Unread
<1>7. Reading'
  <2>1. CASE stage = "reading"
    BY <1>1, <1>2, <2>1 DEF Reading
  <2>2. CASE stage # "reading" /\ stage' = "reading"
    <3>1. decoder = NoDecoder /\ tokens = <<>> /\ toolCalls = NoCalls /\ taken = <<>> /\ at = 0 /\ body \in Seq(Bytes)
      BY <1>2, <2>2 DEF Unread, HttpTypes
    <3>2. SubSeq(body, 1, 0) = <<>>
      BY SubSeqEmpty
    <3>3. /\ ~NoDecoder.bad /\ ~NoDecoder.stopped
          /\ DecoderAt(body, Fresh(NoDecoder), Given(body, NoDecoder, 0), 0)
          /\ TextOf(Whole(Given(body, NoDecoder, 0))) = <<>> /\ ToolsAsked(Whole(Given(body, NoDecoder, 0))) = NoCalls
      BY <3>1, StartFed
    <3>. QED  BY <1>1, <2>2, <3>1, <3>2, <3>3 DEF Reading
  <2>3. CASE stage' # "reading"
    BY <2>3 DEF Reading
  <2>. QED  BY <2>1, <2>2, <2>3
<1>. QED  BY <1>3, <1>4, <1>5, <1>6, <1>7 DEF HttpInv, ReplyMeant

LEMMA Alive ==
  ASSUME HttpInv, stage # "over"
  PROVE  /\ outcome = "none" /\ cancelled \in BOOLEAN /\ timedOut \in BOOLEAN /\ stage \in Stages
         /\ reader \in {"none", "open", "done", "cancelled", "released"}
  BY DEF HttpInv, ReplyMeant, HttpTypeOK

LEMMA NothingTold == ASSUME outcome' = "none" PROVE CauseTold'
  BY DEF CauseTold

\* A call that fails before its body is looked at, or with the connection.
LEMMA FailStep ==
  ASSUME HttpInv, stage # "over", UNCHANGED response, UNCHANGED parsed, UNCHANGED <<cancelled, timedOut>>,
         NEW error \in Outcomes \ {"none", "ok", "transform", "timeout"}, error = "aborted" => cancelled,
         error = "invalid" => status # "ok",
         Fail(error), reader' \in {"none", "open", "done", "cancelled", "released"}
  PROVE  HttpInv'
<1>1. cancelled \in BOOLEAN /\ timedOut \in BOOLEAN
  BY Alive
<1>2. /\ stage' = "over" /\ outcome' \in Outcomes \ {"none", "ok"} /\ CauseTold'
      /\ outcome' = "invalid" => error = "invalid"
  BY <1>1, FailTold
<1>3. cancelled' \in BOOLEAN /\ timedOut' \in BOOLEAN /\ stage' \in Stages /\ (outcome' = "none") = (stage' # "over")
  BY <1>1, <1>2 DEF Stages
<1>4. outcome' \in Outcomes \ {"ok"} /\ (outcome' = "invalid" => status # "ok")
  BY <1>2
<1>. QED  BY <1>2, <1>3, <1>4, ParsedSame

LEMMA MoveStep ==
  ASSUME HttpInv, stage # "over", UNCHANGED response, UNCHANGED parsed, UNCHANGED outcome,
         cancelled' \in BOOLEAN, timedOut' \in BOOLEAN, stage' \in Stages \ {"over"},
         reader' = reader \/ reader' = "open",
         stage' # "reading" => stage # "reading" /\ reader' = reader, stage' = "reading" => reader' = "open"
  PROVE  HttpInv'
<1>1. outcome' = "none" /\ reader' \in {"none", "open", "done", "cancelled", "released"}
  BY Alive
<1>2. CauseTold' /\ outcome' \in Outcomes \ {"ok", "invalid"} /\ (outcome' = "none") = (stage' # "over")
  BY <1>1, NothingTold DEF Outcomes
<1>. QED  BY <1>1, <1>2, ParsedSame

LEMMA CallStep == ASSUME HttpInv, NEW yes \in BOOLEAN, Call(yes) PROVE HttpInv'
<1>1. /\ stage = "called" /\ UNCHANGED response /\ UNCHANGED parsed /\ UNCHANGED <<cancelled, timedOut>> /\ reader' = reader
  BY DEF Call
<1>2. /\ outcome = "none" /\ cancelled \in BOOLEAN /\ timedOut \in BOOLEAN
      /\ reader \in {"none", "open", "done", "cancelled", "released"}
  BY <1>1, Alive
<1>3. CASE cancelled
  <2>1. Fail("aborted")
    BY <1>3 DEF Call
  <2>2. "aborted" \in Outcomes \ {"none", "ok", "transform", "timeout", "invalid"}
    BY DEF Outcomes
  <2>. QED  BY <1>1, <1>2, <1>3, <2>1, <2>2, FailStep
<1>4. CASE ~cancelled /\ ~yes
  <2>1. Fail("unsupported")
    BY <1>4 DEF Call
  <2>2. "unsupported" \in Outcomes \ {"none", "ok", "transform", "timeout", "invalid"}
    BY DEF Outcomes
  <2>. QED  BY <1>1, <1>2, <2>1, <2>2, FailStep
<1>5. CASE ~cancelled /\ yes
  <2>1. stage' = "transforming" /\ UNCHANGED outcome
    BY <1>5 DEF Call
  <2>. QED  BY <1>1, <1>2, <2>1, MoveStep DEF Stages
<1>. QED  BY <1>3, <1>4, <1>5

LEMMA TransformStep == ASSUME HttpInv, NEW yes \in BOOLEAN, Transform(yes) PROVE HttpInv'
<1>1. /\ stage = "transforming" /\ UNCHANGED response /\ UNCHANGED parsed /\ UNCHANGED <<cancelled, timedOut>> /\ reader' = reader
  BY DEF Transform
<1>2. /\ outcome = "none" /\ cancelled \in BOOLEAN /\ timedOut \in BOOLEAN
      /\ reader \in {"none", "open", "done", "cancelled", "released"}
  BY <1>1, Alive
<1>3. CASE yes
  <2>1. stage' = "validating" /\ UNCHANGED outcome
    BY <1>3 DEF Transform
  <2>. QED  BY <1>1, <1>2, <2>1, MoveStep DEF Stages
<1>4. CASE ~yes
  <2>1. stage' = "over" /\ outcome' = "transform"
    BY <1>4 DEF Transform
  <2>2. CauseTold' /\ outcome' \in Outcomes \ {"ok", "invalid"} /\ (outcome' = "none") = (stage' # "over")
    BY <2>1 DEF CauseTold, Outcomes
  <2>3. cancelled' \in BOOLEAN /\ timedOut' \in BOOLEAN /\ stage' \in Stages
        /\ reader' \in {"none", "open", "done", "cancelled", "released"}
    BY <1>1, <1>2, <2>1 DEF Stages
  <2>. QED  BY <1>1, <2>1, <2>2, <2>3, ParsedSame
<1>. QED  BY <1>3, <1>4

LEMMA ReachStep == ASSUME HttpInv, NEW yes \in BOOLEAN, Reach(yes) PROVE HttpInv'
<1>1. /\ stage \in {"validating", "fetching"} /\ UNCHANGED response /\ UNCHANGED parsed
      /\ UNCHANGED <<cancelled, timedOut>> /\ reader' = reader
  BY DEF Reach, Moves
<1>2. /\ outcome = "none" /\ cancelled \in BOOLEAN /\ timedOut \in BOOLEAN
      /\ reader \in {"none", "open", "done", "cancelled", "released"}
  BY <1>1, Alive
<1>3. CASE yes /\ ~cancelled /\ ~timedOut
  <2>1. stage' \in {"fetching", "responded"} /\ UNCHANGED outcome
    BY <1>3 DEF Reach, Moves
  <2>. QED  BY <1>1, <1>2, <2>1, MoveStep DEF Stages
<1>4. CASE ~(yes /\ ~cancelled /\ ~timedOut)
  <2>1. Fail("rejected") \/ Fail("network")
    BY <1>4 DEF Reach
  <2>2. {"rejected", "network"} \subseteq Outcomes \ {"none", "ok", "transform", "timeout", "invalid"}
    BY DEF Outcomes
  <2>. QED  BY <1>1, <1>2, <2>1, <2>2, FailStep
<1>. QED  BY <1>3, <1>4

LEMMA RespondStep == ASSUME HttpInv, Respond PROVE HttpInv'
<1>1. /\ stage = "responded" /\ UNCHANGED response /\ UNCHANGED parsed /\ UNCHANGED <<cancelled, timedOut>>
  BY DEF Respond
<1>2. /\ outcome = "none" /\ cancelled \in BOOLEAN /\ timedOut \in BOOLEAN
      /\ reader \in {"none", "open", "done", "cancelled", "released"}
  BY <1>1, Alive
<1>3. CASE status \in {"redirect", "error"}
  <2>1. (Fail("redirect") \/ Fail("status")) /\ reader' = reader
    BY <1>3 DEF Respond
  <2>2. {"redirect", "status"} \subseteq Outcomes \ {"none", "ok", "transform", "timeout", "invalid"}
    BY DEF Outcomes
  <2>. QED  BY <1>1, <1>2, <2>1, <2>2, FailStep
<1>4. CASE status = "bodyless"
  <2>1. (Fail("invalid") \/ Fail("large")) /\ reader' = reader
    BY <1>4 DEF Respond, NoBody, DeclaresTooMuch
  <2>2. {"invalid", "large"} \subseteq Outcomes \ {"none", "ok", "transform", "timeout"}
    BY DEF Outcomes
  <2>. QED  BY <1>1, <1>2, <1>4, <2>1, <2>2, FailStep
<1>5. CASE status \notin {"redirect", "error", "bodyless"}
  <2>1. CASE DeclaresTooMuch
    <3>1. Fail("large") /\ reader' = reader
      BY <2>1 DEF DeclaresTooMuch
    <3>2. "large" \in Outcomes \ {"none", "ok", "transform", "timeout", "invalid"}
      BY DEF Outcomes
    <3>. QED  BY <1>1, <1>2, <3>1, <3>2, FailStep
  <2>2. CASE ~DeclaresTooMuch
    <3>1. stage' = "reading" /\ reader' = "open" /\ UNCHANGED outcome
      BY <1>5, <2>2 DEF Respond
    <3>. QED  BY <1>1, <1>2, <3>1, MoveStep DEF Stages
  <2>. QED  BY <2>1, <2>2
<1>. QED  BY <1>3, <1>4, <1>5

LEMMA BreakStep == ASSUME HttpInv, Break PROVE HttpInv'
<1>1. /\ stage = "reading" /\ UNCHANGED response /\ UNCHANGED parsed /\ UNCHANGED <<cancelled, timedOut>>
      /\ Fail("network") /\ reader' \in {"cancelled", "released"}
  BY DEF Break
<1>2. "network" \in Outcomes \ {"none", "ok", "transform", "timeout", "invalid"}
  BY DEF Outcomes
<1>. QED  BY <1>1, <1>2, FailStep

LEMMA SignalStep == ASSUME HttpInv, Cancel \/ Timeout PROVE HttpInv'
<1>1. /\ stage # "over" /\ UNCHANGED response /\ UNCHANGED parsed /\ stage' = stage /\ reader' = reader /\ outcome' = outcome
      /\ cancelled' \in {cancelled, TRUE} /\ timedOut' \in {timedOut, TRUE}
  BY DEF Cancel, Timeout, Sent
<1>2. cancelled \in BOOLEAN /\ timedOut \in BOOLEAN /\ stage \in Stages
  BY <1>1, Alive
<1>3. stage = "reading" => reader = "open"
  BY DEF HttpInv, Reading
<1>4. cancelled' \in BOOLEAN /\ timedOut' \in BOOLEAN
  BY <1>1, <1>2
<1>. QED  BY <1>1, <1>2, <1>3, <1>4, MoveStep

-----------------------------------------------------------------------------
(* The steps that read the body.                                           *)

\* What is said of a call, but for its types.
Told == ReplyIsBody /\ TokensAreContent /\ NoFalseError /\ CauseTold /\ BodyLetGo

\* The server sent what is no reply.
Refused ==
  ~(/\ Utf8(body)
    /\ \A i \in DOMAIN Meaning : IsJson(Meaning[i]) /\ Len(Meaning[i]) <= MaxEvent
    /\ Usable(ToolsAsked(Whole(Meaning))))

\* An event is one of the stream's.
Within(x, all) == \E j \in DOMAIN all : all[j] = x

LEMMA BothParts ==
  ASSUME NEW S, NEW s \in Seq(S), NEW t \in Seq(S), NEW m, m = Len(s), NEW n, n = Len(t)
  PROVE  s \o t \in Seq(S) /\ Len(s \o t) = m + n /\ \A i \in 1 .. n : (s \o t)[m + i] = t[i]
<1>1. m \in Nat /\ n \in Nat
  BY LenProperties
<1>2. PICK w : w = s \o t
  OBVIOUS
<1>3. w \in Seq(S) /\ Len(w) = m + n
  BY <1>2
<1>4. \A i \in 1 .. n : w[m + i] = t[i]
  BY <1>1, <1>2
<1>. QED  BY <1>2, <1>3, <1>4

\* The first frames, taken after those before, are the first of the stream.
CutIs(all, prior, fs, g) ==
  Len(prior) + g \in 0 .. Len(all) /\ prior \o SubSeq(fs, 1, g) = SubSeq(all, 1, Len(prior) + g)

LEMMA CutAt ==
  ASSUME NEW X, NEW all \in Seq(X), NEW prior \in Seq(X), NEW fs \in Seq(X),
         NEW n \in 0 .. Len(all), prior \o fs = SubSeq(all, 1, n), NEW g \in 0 .. Len(fs)
  PROVE  /\ CutIs(all, prior, fs, g)
         /\ \A i \in 1 .. Len(fs) : Within(fs[i], all)
<1>1. PICK p : p = Len(prior)
  OBVIOUS
<1>2. PICK q : q = Len(fs)
  OBVIOUS
<1>3. PICK l : l = Len(all)
  OBVIOUS
<1>4. p \in Nat /\ q \in Nat /\ l \in Nat /\ n \in 0 .. l /\ g \in 0 .. q
  BY <1>1, <1>2, <1>3, LenProperties
<1>5. PICK w : w = prior \o fs
  OBVIOUS
<1>6. w \in Seq(X) /\ Len(w) = p + q /\ \A i \in 1 .. q : w[p + i] = fs[i]
  BY ONLY <1>1, <1>2, <1>4, <1>5, prior \in Seq(X), fs \in Seq(X)
<1>7. SubSeq(all, 1, n) \in Seq(X) /\ Len(SubSeq(all, 1, n)) = n /\ \A i \in 1 .. n : SubSeq(all, 1, n)[i] = all[i]
  BY ONLY <1>3, <1>4, all \in Seq(X)
<1>8. n = p + q /\ \A i \in 1 .. n : w[i] = all[i]
  BY <1>5, <1>6, <1>7
<1>9. p + g \in 0 .. n /\ p + g \in 0 .. l
  BY ONLY <1>4, <1>8
<1>10. SubSeq(w, 1, p + g) = SubSeq(all, 1, p + g)
  <2>1. n \in 0 .. Len(all) /\ p + g \in 0 .. n
    BY <1>9
  <2>2. SubSeq(SubSeq(all, 1, n), 1, p + g) = SubSeq(all, 1, p + g)
    BY ONLY <2>1, all \in Seq(X), SubSub
  <2>. QED  BY <1>5, <2>2
<1>11. SubSeq(prior \o fs, 1, p + g) = prior \o SubSeq(fs, 1, g)
  <2>1. PICK v : v = SubSeq(fs, 1, g)
    OBVIOUS
  <2>2. v \in Seq(X) /\ Len(v) = g /\ \A i \in 1 .. g : v[i] = fs[i]
    BY ONLY <2>1, <1>2, <1>4, fs \in Seq(X)
  <2>3. PICK x : x = prior \o v
    OBVIOUS
  <2>4. x \in Seq(X) /\ Len(x) = p + g /\ \A i \in 1 .. g : x[p + i] = v[i]
    <3>1. g = Len(v) /\ v \in Seq(X)
      BY <2>2
    <3>2. prior \o v \in Seq(X) /\ Len(prior \o v) = p + g /\ \A i \in 1 .. g : (prior \o v)[p + i] = v[i]
      BY ONLY <1>1, <3>1, prior \in Seq(X), BothParts
    <3>. QED  BY <2>3, <3>2
  <2>41. \A i \in 1 .. p : x[i] = prior[i]
    BY ONLY <1>1, <1>4, <2>2, <2>3, prior \in Seq(X)
  <2>5. PICK y : y = SubSeq(w, 1, p + g)
    OBVIOUS
  <2>6. y \in Seq(X) /\ Len(y) = p + g /\ \A i \in 1 .. p + g : y[i] = w[i]
    BY ONLY <1>4, <1>6, <2>5
  <2>7. \A i \in 1 .. p : w[i] = prior[i]
    BY ONLY <1>1, <1>2, <1>4, <1>5, prior \in Seq(X), fs \in Seq(X)
  <2>8. \A i \in 1 .. p + g : x[i] = y[i]
    <3>1. TAKE i \in 1 .. p + g
    <3>2. CASE i \in 1 .. p
      BY <2>41, <2>6, <2>7, <3>2
    <3>3. CASE i \notin 1 .. p
      <4>1. PICK j : j = i - p
        OBVIOUS
      <4>2. j \in 1 .. g /\ j \in 1 .. q /\ i = p + j
        BY ONLY <1>4, <3>3, <4>1, i \in 1 .. p + g
      <4>. QED  BY <1>6, <2>2, <2>4, <2>6, <4>2
    <3>. QED  BY <3>2, <3>3
  <2>9. x = y
    BY ONLY <1>4, <2>4, <2>6, <2>8, SeqEqual
  <2>. QED  BY <1>5, <2>1, <2>3, <2>5, <2>9
<1>12. \A i \in 1 .. q : \E j \in 1 .. l : all[j] = fs[i]
  <2>1. \A i \in 1 .. q : p + i \in 1 .. n /\ p + i \in 1 .. l
    BY ONLY <1>4, <1>8
  <2>. QED  BY <1>6, <1>8, <2>1
<1>13. \A i \in 1 .. q : Within(fs[i], all)
  <2>1. DOMAIN all = 1 .. l
    BY <1>3, LenProperties
  <2>. QED  BY <1>12, <2>1 DEF Within
<1>. QED  BY <1>1, <1>2, <1>3, <1>5, <1>9, <1>10, <1>11, <1>13 DEF CutIs

LEMMA InvalidTold ==
  ASSUME HttpInv, stage = "reading", Fail("invalid"), UNCHANGED <<format, body, cancelled, timedOut>>, Refused,
         Len(tokens') <= Len(TextOf(Whole(Meaning))), tokens' = SubSeq(TextOf(Whole(Meaning)), 1, Len(tokens'))
  PROVE  Told' /\ stage' = "over" /\ outcome' \in Outcomes \ {"none"}
<1>1. cancelled \in BOOLEAN /\ timedOut \in BOOLEAN
  BY Alive
<1>2. "invalid" \in Outcomes \ {"none", "ok", "transform", "timeout"}
  BY DEF Outcomes
<1>3. stage' = "over" /\ outcome' \in Outcomes \ {"none", "ok"} /\ CauseTold'
  BY <1>1, <1>2, FailTold
<1>4. Meaning' = Meaning
  BY DEF Meaning
<1>5. ReplyIsBody' /\ BodyLetGo'
  BY <1>3 DEF ReplyIsBody, BodyLetGo
<1>6. TokensAreContent'
  BY <1>3, <1>4 DEF TokensAreContent
<1>7. NoFalseError'
  BY <1>4 DEF NoFalseError, Refused
<1>. QED  BY <1>3, <1>5, <1>6, <1>7 DEF Told

LEMMA AnswerTold ==
  ASSUME HttpInv, stage = "reading", NEW text, NEW table, Answer(text, table),
         UNCHANGED <<format, body, cancelled, timedOut>>,
         text = TextOf(Whole(Meaning)), table = ToolsAsked(Whole(Meaning)),
         tokens' = IF format = "sse" THEN text ELSE <<>>, reader' \in {"done", "cancelled"}
  PROVE  Told' /\ stage' = "over" /\ outcome' \in Outcomes \ {"none"}
<1>1. text \in Seq(Bytes) /\ body \in Seq(Bytes)
  BY MeaningType DEF HttpInv, HttpTypes
<1>2. Len(tokens') <= Len(text) /\ tokens' = SubSeq(text, 1, Len(tokens'))
  <2>1. Len(text) \in Nat /\ SubSeq(text, 1, Len(text)) = text /\ SubSeq(text, 1, 0) = <<>> /\ Len(<<>>) = 0
    BY <1>1, LenProperties, SubSeqFull, SubSeqEmpty
  <2>2. CASE tokens' = text
    BY <2>1, <2>2
  <2>3. CASE tokens' = <<>>
    BY <2>1, <2>3
  <2>. QED  BY <2>2, <2>3
<1>3. CASE Usable(table)
  <2>1. stage' = "over" /\ outcome' = "ok" /\ reply' = [content |-> text, calls |-> InOrder(table)]
    BY <1>3 DEF Answer
  <2>2. Meaning' = Meaning
    BY DEF Meaning
  <2>3. reply'.content = text /\ reply'.calls = InOrder(table)
    BY <2>1
  <2>4. ReplyIsBody' /\ BodyLetGo' /\ NoFalseError' /\ CauseTold'
    BY <2>1, <2>2, <2>3 DEF ReplyIsBody, BodyLetGo, NoFalseError, CauseTold
  <2>5. TokensAreContent'
    BY <1>2, <2>2, <2>3 DEF TokensAreContent
  <2>. QED  BY <2>1, <2>4, <2>5 DEF Told, Outcomes
<1>4. CASE ~Usable(table)
  <2>1. Fail("invalid")
    BY <1>4 DEF Answer, Fail
  <2>2. Refused
    BY <1>4 DEF Refused
  <2>. QED  BY <1>2, <2>1, <2>2, InvalidTold
<1>. QED  BY <1>3, <1>4

\* What is taken of the frames given is what the first of the stream's events say.
LEMMA YieldMeant ==
  ASSUME HttpInv, stage = "reading", format = "sse", NEW d \in Decoders, NEW last \in BOOLEAN, Yield(d, last),
         UNCHANGED <<format, body, cancelled, timedOut>>,
         NEW prior \in Seq(Seq(Bytes)), tokens = TextOf(Whole(prior)), toolCalls = ToolsAsked(Whole(prior)),
         d.bad => Unfit(body),
         ~d.bad => \E n \in 0 .. Len(Stream(body)) : prior \o d.frames = SubSeq(Stream(body), 1, n),
         ~d.bad /\ (d.stopped \/ last) => prior \o d.frames = Stream(body)
  PROVE  /\ Told' /\ decoder' = d /\ tokens' \in Seq(Bytes) /\ toolCalls' \in Tables /\ outcome' \in Outcomes
         /\ reader' \in {"open", "done", "cancelled", "released"}
         /\ \/ stage' = "over" /\ outcome' # "none"
            \/ /\ stage' = "reading" /\ outcome' = "none" /\ reader' = "open" /\ ~d.bad /\ ~d.stopped /\ ~last
               /\ tokens' = TextOf(Whole(prior \o d.frames)) /\ toolCalls' = ToolsAsked(Whole(prior \o d.frames))
<1>1. body \in Seq(Bytes) /\ tokens \in Seq(Bytes) /\ toolCalls \in Tables /\ TokensAreContent
  BY DEF HttpInv, HttpTypes, ReplyMeant
<1>2. PICK all : all = Stream(body)
  OBVIOUS
<1>3. Meaning = all /\ all \in Seq(Seq(Bytes))
  BY <1>1, <1>2, MeaningType
<1>4. PICK fs : fs = d.frames
  OBVIOUS
<1>5. fs \in Seq(Seq(Bytes))
  BY <1>4 DEF Decoders
<1>6. PICK g : g = Good(fs)
  OBVIOUS
<1>7. /\ g \in 0 .. Len(fs) /\ Len(fs) \in Nat /\ (g < Len(fs) => ~IsJson(fs[g + 1]))
      /\ (~(g < Len(fs)) => g = Len(fs))
  <2>1. PICK k : k = Len(fs)
    OBVIOUS
  <2>2. g \in 0 .. k /\ k \in Nat /\ (g < k => ~IsJson(fs[g + 1]))
    BY <1>5, <1>6, <2>1, GoodFacts
  <2>3. ~(g < k) => g = k
    BY ONLY <2>2
  <2>. QED  BY <2>1, <2>2, <2>3
<1>8. /\ decoder' = d /\ (d.bad => tokens' = tokens /\ toolCalls' = toolCalls)
      /\ (~d.bad => tokens' = Take(fs).text /\ toolCalls' = Take(fs).calls)
      /\ (d.bad \/ g < Len(fs) => Fail("invalid") /\ reader' = "released")
      /\ (~d.bad /\ ~(g < Len(fs)) /\ (d.stopped \/ last) =>
            Answer(Take(fs).text, Take(fs).calls) /\ reader' = Closing(d))
      /\ (~d.bad /\ ~(g < Len(fs)) /\ ~(d.stopped \/ last) =>
            stage' = stage /\ outcome' = outcome /\ reader' = reader)
  BY <1>4, <1>6 DEF Yield
<1>9. CASE d.bad
  <2>1. Refused
    <3>1. CASE ~Utf8(body)
      BY <3>1 DEF Refused
    <3>2. CASE TooLong(Lines(Text(body)))
      <4>1. \E i \in DOMAIN all : Len(all[i]) > MaxEvent
        BY <1>2, <3>2 DEF TooLong, Stream
      <4>2. PICK i \in DOMAIN all : Len(all[i]) > MaxEvent
        BY <4>1
      <4>3. Len(all[i]) \in Nat /\ MaxEvent \in Nat
        <5>1. all[i] \in Seq(Bytes)
          BY <1>3, <4>2, ElementOfSeq
        <5>. QED  BY <5>1, LenProperties, HttpAssumption
      <4>4. ~(Len(all[i]) <= MaxEvent)
        BY <4>2, <4>3
      <4>. QED  BY <1>3, <4>2, <4>4 DEF Refused
    <3>. QED  BY <1>9, <3>1, <3>2 DEF Unfit
  <2>2. Len(tokens') <= Len(TextOf(Whole(Meaning))) /\ tokens' = SubSeq(TextOf(Whole(Meaning)), 1, Len(tokens'))
    BY <1>1, <1>8, <1>9 DEF TokensAreContent
  <2>3. Told' /\ stage' = "over" /\ outcome' \in Outcomes \ {"none"}
    BY <1>8, <1>9, <2>1, <2>2, InvalidTold
  <2>. QED  BY <1>1, <1>8, <1>9, <2>3
<1>10. CASE ~d.bad
  <2>1. PICK n \in 0 .. Len(all) : prior \o fs = SubSeq(all, 1, n)
    BY <1>2, <1>4, <1>10
  <2>2. PICK p : p = Len(prior)
    OBVIOUS
  <2>3. /\ p + g \in 0 .. Len(all) /\ prior \o SubSeq(fs, 1, g) = SubSeq(all, 1, p + g)
        /\ g < Len(fs) => \E i \in DOMAIN all : all[i] = fs[g + 1]
    <3>1. PICK X : X = Seq(Bytes)
      OBVIOUS
    <3>2. /\ all \in Seq(X) /\ prior \in Seq(X) /\ fs \in Seq(X) /\ n \in 0 .. Len(all)
          /\ prior \o fs = SubSeq(all, 1, n) /\ g \in 0 .. Len(fs)
      BY <1>3, <1>5, <1>7, <2>1, <3>1
    <3>3. CutIs(all, prior, fs, g)
      BY ONLY <3>2, CutAt
    <3>4. /\ Len(prior) + g \in 0 .. Len(all)
          /\ prior \o SubSeq(fs, 1, g) = SubSeq(all, 1, Len(prior) + g)
      BY ONLY <3>3 DEF CutIs
    <3>5. \A i \in 1 .. Len(fs) : Within(fs[i], all)
      BY ONLY <3>2, CutAt
    <3>8. g < Len(fs) => g + 1 \in 1 .. Len(fs)
      <4>1. PICK q : q = Len(fs)
        OBVIOUS
      <4>2. q \in Nat /\ g \in 0 .. q
        BY <1>7, <4>1
      <4>3. g < q => g + 1 \in 1 .. q
        BY ONLY <4>2
      <4>. QED  BY <4>1, <4>3
    <3>. QED  BY <2>2, <3>4, <3>5, <3>8 DEF Within
  <2>4. PICK ps : ps = prior \o SubSeq(fs, 1, g)
    OBVIOUS
  <2>5. PICK v : v = Whole(ps)
    OBVIOUS
  <2>6. Take(fs) = [text |-> TextOf(v), calls |-> ToolsAsked(v)] /\ v \in Seq(Bytes)
    BY <1>5, <1>6, <2>4, <2>5, TakeFed
  <2>7. tokens' = TextOf(v) /\ toolCalls' = ToolsAsked(v) /\ Take(fs).text = TextOf(v) /\ Take(fs).calls = ToolsAsked(v)
    BY <1>8, <1>10, <2>6
  <2>8. tokens' \in Seq(Bytes) /\ toolCalls' \in Tables
    BY <2>6, <2>7, TextConcat, AskedType
  <2>9. Len(tokens') <= Len(TextOf(Whole(Meaning))) /\ tokens' = SubSeq(TextOf(Whole(Meaning)), 1, Len(tokens'))
    <3>1. PICK k : k = p + g
      OBVIOUS
    <3>2. k \in 0 .. Len(all) /\ ps = SubSeq(all, 1, k)
      BY <2>3, <2>4, <3>1
    <3>3. PrefixOf(TextOf(Whole(ps)), TextOf(Whole(all)))
      BY <1>3, <3>2, PrefixText
    <3>. QED  BY <1>3, <2>5, <2>7, <3>3 DEF PrefixOf
  <2>10. CASE g < Len(fs)
    <3>1. \E i \in DOMAIN Meaning : ~IsJson(Meaning[i])
      BY <1>3, <1>7, <2>3, <2>10
    <3>2. Refused
      BY <3>1 DEF Refused
    <3>3. Told' /\ stage' = "over" /\ outcome' \in Outcomes \ {"none"}
      BY <1>8, <2>9, <2>10, <3>2, InvalidTold
    <3>. QED  BY <1>8, <2>8, <2>10, <3>3
  <2>11. CASE ~(g < Len(fs))
    <3>1. ps = prior \o fs
      <4>1. PICK X : X = Seq(Bytes)
        OBVIOUS
      <4>2. fs \in Seq(X)
        BY <1>5, <4>1
      <4>3. SubSeq(fs, 1, Len(fs)) = fs
        BY ONLY <4>2, SubSeqFull
      <4>. QED  BY <1>7, <2>4, <2>11, <4>3
    <3>2. CASE d.stopped \/ last
      <4>1. ps = Meaning
        BY <1>2, <1>3, <1>4, <1>10, <3>1, <3>2
      <4>2. PICK text : text = Take(fs).text
        OBVIOUS
      <4>3. PICK table : table = Take(fs).calls
        OBVIOUS
      <4>4. text = TextOf(Whole(Meaning)) /\ table = ToolsAsked(Whole(Meaning)) /\ tokens' = text
        BY <2>5, <2>7, <4>1, <4>2, <4>3
      <4>5. Answer(text, table) /\ reader' \in {"done", "cancelled"}
        BY <1>8, <1>10, <2>11, <3>2, <4>2, <4>3 DEF Closing
      <4>6. Told' /\ stage' = "over" /\ outcome' \in Outcomes \ {"none"}
        BY <4>4, <4>5, AnswerTold
      <4>. QED  BY <1>8, <2>8, <4>5, <4>6
    <3>3. CASE ~(d.stopped \/ last)
      <4>1. stage' = "reading" /\ outcome' = outcome /\ reader' = reader
        BY <1>8, <1>10, <2>11, <3>3
      <4>2. outcome = "none" /\ reader = "open"
        BY Alive DEF HttpInv, Reading
      <4>3. Meaning' = Meaning
        BY DEF Meaning
      <4>4. ReplyIsBody' /\ NoFalseError' /\ CauseTold' /\ BodyLetGo'
        BY <4>1, <4>2 DEF ReplyIsBody, NoFalseError, CauseTold, BodyLetGo
      <4>5. TokensAreContent'
        BY <2>9, <4>1, <4>2, <4>3 DEF TokensAreContent
      <4>6. Told' /\ outcome' \in Outcomes
        BY <4>1, <4>2, <4>4, <4>5 DEF Told, Outcomes
      <4>. QED  BY <1>4, <1>8, <1>10, <2>5, <2>7, <2>8, <3>1, <3>3, <4>1, <4>2, <4>6
    <3>. QED  BY <3>2, <3>3
  <2>. QED  BY <2>10, <2>11
<1>. QED  BY <1>9, <1>10

LEMMA WholeOne == ASSUME NEW s \in Seq(Bytes) PROVE Whole(<<s>>) = s
<1>1. PICK X : X = Seq(Bytes)
  OBVIOUS
<1>2. PICK e : e = <<>>
  OBVIOUS
<1>3. e \in Seq(Seq(Bytes)) /\ e \in Seq(Bytes)
  BY <1>2
<1>4. Whole(Append(e, s)) = Whole(e) \o s
  <2>1. WholeGrows(e, s)
    BY ONLY <1>3, s \in Seq(Bytes), WholeAppend
  <2>. QED  BY ONLY <2>1 DEF WholeGrows
<1>5. Whole(e) = <<>>
  BY <1>2, <1>3, ConcatNone DEF Whole
<1>6. Append(e, s) = <<s>>
  BY <1>2
<1>7. <<>> \o s = s
  OBVIOUS
<1>. QED  BY <1>4, <1>5, <1>6, <1>7

\* A character's second byte says nothing.
LEMMA CharsSay ==
  ASSUME NEW s \in Seq(Bytes)
  PROVE  Chars(s) \in Seq(Bytes) /\ TextOf(Chars(s)) = TextOf(s) /\ ToolsAsked(Chars(s)) = ToolsAsked(s)
<1>1. PICK P : P = Bytes \ {"v"}
  OBVIOUS
<1>2. Texts \subseteq P /\ {"p"} \subseteq P /\ {"q"} \subseteq P /\ {"z"} \subseteq P /\ {} \subseteq P
  BY <1>1 DEF Texts, Bytes
<1>3. Chars(s) = Pick(s, P)
  BY <1>1 DEF Chars
<1>4. \A R : R \subseteq P => Pick(Pick(s, P), R) = Pick(s, R)
  BY PickTwice
<1>5. PICK t : t = Pick(s, P)
  OBVIOUS
<1>6. /\ Pick(t, Texts) = Pick(s, Texts) /\ Pick(t, {"p"}) = Pick(s, {"p"}) /\ Pick(t, {"q"}) = Pick(s, {"q"})
      /\ Pick(t, {"z"}) = Pick(s, {"z"}) /\ Pick(t, {}) = Pick(s, {})
  BY <1>2, <1>4, <1>5
<1>7. TextOf(t) = TextOf(s)
  BY <1>6 DEF TextOf
<1>8. ToolsAsked(t) = ToolsAsked(s)
  BY <1>6, AskedIs
<1>. QED  BY <1>3, <1>5, <1>7, <1>8, CharsType

\* A body that is UTF-8 is text to its end.
LEMMA TextAll == ASSUME NEW bytes \in Seq(Bytes), Utf8(bytes) PROVE Text(bytes) = Chars(bytes)
<1>1. PICK m : m = Len(bytes)
  OBVIOUS
<1>2. m \in Nat /\ m \in 0 .. Len(bytes)
  BY <1>1, LenProperties
<1>3. PICK n : n = Readable(bytes)
  OBVIOUS
<1>4. n \in 0 .. m /\ m <= n
  BY <1>1, <1>2, <1>3, ReadableFacts, Utf8All
<1>5. n = m
  BY ONLY <1>2, <1>4
<1>6. SubSeq(bytes, 1, m) = bytes
  BY <1>1, SubSeqFull
<1>. QED  BY <1>3, <1>5, <1>6 DEF Text

\* A step that reads leads to a state of the invariant.
LEMMA ReadStep ==
  ASSUME HttpInv, stage = "reading", UNCHANGED <<format, body, status, cancelled, timedOut>>, Told',
         outcome' \in Outcomes, reader' \in {"none", "open", "done", "cancelled", "released"},
         (stage' = "over" /\ outcome' # "none") \/ (stage' = "reading" /\ outcome' = "none"),
         at' \in 0 .. Len(body), taken' \in Seq(Bytes), Len(taken') <= MaxResponse,
         decoder' \in Decoders, tokens' \in Seq(Bytes), toolCalls' \in Tables,
         stage' = "reading" => Reading'
  PROVE  HttpInv'
<1>1. HttpTypeOK /\ HttpTypes
  BY DEF HttpInv, ReplyMeant
<1>2. stage' \in Stages
  BY DEF Stages
<1>3. (outcome' = "none") = (stage' # "over")
  <2>1. (outcome' = "none") <=> (stage' # "over")
    OBVIOUS
  <2>. QED  BY <2>1
<1>4. /\ format' \in {"sse", "json"} /\ status' \in {"ok", "redirect", "error", "bodyless"}
      /\ cancelled' \in BOOLEAN /\ timedOut' \in BOOLEAN /\ at' \in 0 .. Len(body')
  BY <1>1 DEF HttpTypeOK
<1>5. HttpTypeOK'
  BY <1>2, <1>3, <1>4 DEF HttpTypeOK
<1>6. HttpTypes'
  BY <1>1 DEF HttpTypes
<1>7. Unread'
  BY DEF Unread
<1>8. Reading'
  BY DEF Reading
<1>. QED  BY <1>5, <1>6, <1>7, <1>8 DEF HttpInv, ReplyMeant, Told

\* A chunk that is within the limit is read where the last one ended.
LEMMA ChunkBounds ==
  ASSUME HttpInv, NEW n \in 1 .. MaxResponse + 1, at + n <= Len(body)
  PROVE  /\ Len(body) \in Nat /\ n \in Nat /\ at \in 0 .. Len(body) /\ at + n \in 0 .. Len(body)
         /\ SubSeq(body, 1, at) \o SubSeq(body, at + 1, at + n) = SubSeq(body, 1, at + n)
         /\ SubSeq(body, 1, at + n) \in Seq(Bytes) /\ Len(SubSeq(body, 1, at + n)) = at + n
         /\ ~TooLarge(n) => at + n <= MaxResponse
<1>1. body \in Seq(Bytes) /\ at \in 0 .. Len(body)
  BY DEF HttpInv, HttpTypes, ReplyMeant, HttpTypeOK
<1>2. PICK s : s = body
  OBVIOUS
<1>3. PICK m : m = at
  OBVIOUS
<1>4. s \in Seq(Bytes) /\ m \in 0 .. Len(s) /\ Len(s) \in Nat /\ m + n <= Len(s) /\ MaxResponse \in Nat
  BY <1>1, <1>2, <1>3, LenProperties, HttpAssumption
<1>5. PICK l : l = Len(s)
  OBVIOUS
<1>6. m \in 0 .. l /\ l \in Nat /\ m + n <= l /\ n \in 1 .. MaxResponse + 1
  BY <1>4, <1>5
<1>7. n \in Nat /\ m \in Nat /\ m + n \in 0 .. l /\ (~(m + n > MaxResponse) => m + n <= MaxResponse)
  BY ONLY <1>4, <1>6
<1>8. PICK k : k = m + n
  OBVIOUS
<1>9. k \in 0 .. Len(s) /\ k \in Nat /\ m <= k
  BY ONLY <1>5, <1>6, <1>7, <1>8
<1>10. SubSeq(s, 1, m) \o SubSeq(s, m + 1, k) = SubSeq(s, 1, k)
  BY ONLY <1>4, <1>9
<1>11. SubSeq(s, 1, k) \in Seq(Bytes) /\ Len(SubSeq(s, 1, k)) = k
  BY ONLY <1>4, <1>9
<1>. QED  BY <1>2, <1>3, <1>4, <1>5, <1>7, <1>8, <1>10, <1>11 DEF TooLarge

LEMMA ChunkStep == ASSUME HttpInv, NEW n \in 1 .. MaxResponse + 1, Chunk(n) PROVE HttpInv'
<1>1. /\ stage = "reading" /\ at + n <= Len(body) /\ at' = at + n
      /\ UNCHANGED <<format, body, status, cancelled, timedOut>>
  BY DEF Chunk, response
<1>2. /\ body \in Seq(Bytes) /\ decoder \in Decoders /\ tokens \in Seq(Bytes) /\ taken \in Seq(Bytes)
      /\ toolCalls \in Tables /\ Len(taken) <= MaxResponse /\ format \in {"sse", "json"} /\ Reading
  BY DEF HttpInv, HttpTypes, ReplyMeant, HttpTypeOK
<1>3. outcome = "none" /\ reader = "open" /\ cancelled \in BOOLEAN /\ timedOut \in BOOLEAN
  BY <1>1, <1>2, Alive DEF Reading
<1>4. at' \in 0 .. Len(body)
  BY <1>1, ChunkBounds
<1>5. CASE TooLarge(n)
  <2>1. Fail("large") /\ reader' = "cancelled" /\ UNCHANGED <<decoder, taken, tokens, toolCalls>>
    BY <1>5 DEF Chunk
  <2>2. "large" \in Outcomes \ {"none", "ok", "transform", "timeout"}
    BY DEF Outcomes
  <2>3. stage' = "over" /\ outcome' \in Outcomes \ {"none", "ok"} /\ CauseTold' /\ outcome' # "invalid"
    BY <1>1, <1>3, <2>1, <2>2, FailTold
  <2>4. Told'
    BY <1>1, <2>1, <2>3, Quiet DEF Told
  <2>5. /\ taken' \in Seq(Bytes) /\ Len(taken') <= MaxResponse /\ decoder' \in Decoders
        /\ tokens' \in Seq(Bytes) /\ toolCalls' \in Tables
    BY <1>2, <2>1
  <2>6. /\ outcome' \in Outcomes /\ outcome' # "none" /\ stage' # "reading"
        /\ reader' \in {"none", "open", "done", "cancelled", "released"}
    BY <2>1, <2>3
  <2>. QED  BY <1>1, <1>4, <2>3, <2>4, <2>5, <2>6, ReadStep
<1>6. CASE ~TooLarge(n) /\ format = "json"
  <2>1. /\ taken' = taken \o SubSeq(body, at + 1, at + n)
        /\ UNCHANGED <<decoder, tokens, toolCalls, reader, stage, outcome, reply>>
    BY <1>6 DEF Chunk
  <2>2. tokens = <<>> /\ toolCalls = NoCalls /\ taken = SubSeq(body, 1, at)
    BY <1>1, <1>2, <1>6 DEF Reading
  <2>3. taken' = SubSeq(body, 1, at') /\ taken' \in Seq(Bytes) /\ Len(taken') <= MaxResponse
    BY <1>1, <1>6, <2>1, <2>2, ChunkBounds
  <2>4. Told'
    BY <1>1, <1>3, <2>1, Quiet, NothingTold DEF Told
  <2>5. Reading'
    BY <1>1, <1>3, <1>6, <2>1, <2>2, <2>3 DEF Reading
  <2>. QED  BY <1>1, <1>2, <1>3, <1>4, <2>1, <2>3, <2>4, <2>5, ReadStep DEF Outcomes
<1>7. CASE ~TooLarge(n) /\ format = "sse"
  <2>1. PICK d : d = Decode(SubSeq(body, at + 1, at + n))
    OBVIOUS
  <2>2. Yield(d, FALSE) /\ taken' = taken
    BY <1>7, <2>1 DEF Chunk
  <2>3. PICK prior : prior = Given(body, decoder, at)
    OBVIOUS
  <2>4. /\ prior \in Seq(Seq(Bytes)) /\ ~decoder.bad /\ ~decoder.stopped /\ DecoderAt(body, Fresh(decoder), prior, at)
        /\ tokens = TextOf(Whole(prior)) /\ toolCalls = ToolsAsked(Whole(prior))
    BY <1>1, <1>2, <1>7, <2>3, GivenType DEF Reading
  <2>5. d \in Decoders /\ DecoderAt(body, d, prior, at')
    <3>1. n \in Nat /\ at \in 0 .. Len(body)
      BY <1>1, ChunkBounds
    <3>2. body \in Seq(Bytes) /\ decoder \in Decoders /\ at + n <= Len(body) /\ at' = at + n
      BY <1>1, <1>2, <2>4, <3>1
    <3>3. PICK chunk : chunk = SubSeq(body, at + 1, at + n)
      OBVIOUS
    <3>4. prior \in Seq(Seq(Bytes)) /\ DecoderAt(body, Fresh(decoder), prior, at)
      BY ONLY <2>4
    <3>5. Decode(chunk) \in Decoders /\ DecoderAt(body, Decode(chunk), prior, at + n)
      BY ONLY <3>1, <3>2, <3>3, <3>4, ChunkFed
    <3>6. d = Decode(chunk)
      BY ONLY <2>1, <3>3
    <3>. QED  BY ONLY <3>2, <3>5, <3>6
  <2>6. d.bad => Unfit(body)
    BY <2>5 DEF DecoderAt
  <2>7. ~d.bad => /\ \E k \in 0 .. Len(Stream(body)) : prior \o d.frames = SubSeq(Stream(body), 1, k)
                  /\ d.stopped => prior \o d.frames = Stream(body)
                  /\ ~d.stopped => prior \o d.frames = Given(body, d, at')
    <3>1. SUFFICES ASSUME ~d.bad PROVE FruitIs(body, d, prior, at')
      BY Zenon DEF FruitIs
    <3>2. prior \in Seq(Seq(Bytes))
      BY <2>4
    <3>. QED  BY ONLY <1>2, <2>5, <3>1, <3>2, Fruit
  <2>8. /\ Told' /\ decoder' = d /\ tokens' \in Seq(Bytes) /\ toolCalls' \in Tables /\ outcome' \in Outcomes
        /\ reader' \in {"open", "done", "cancelled", "released"}
        /\ \/ stage' = "over" /\ outcome' # "none"
           \/ /\ stage' = "reading" /\ outcome' = "none" /\ reader' = "open" /\ ~d.bad /\ ~d.stopped
              /\ tokens' = TextOf(Whole(prior \o d.frames)) /\ toolCalls' = ToolsAsked(Whole(prior \o d.frames))
    BY <1>1, <1>7, <2>2, <2>4, <2>5, <2>6, <2>7, YieldMeant
  <2>9. stage' = "reading" => Reading'
    <3>1. SUFFICES ASSUME stage' = "reading" PROVE Reading'
      OBVIOUS
    <3>2. /\ reader' = "open" /\ ~d.bad /\ ~d.stopped /\ prior \o d.frames = Given(body, d, at')
          /\ tokens' = TextOf(Whole(prior \o d.frames)) /\ toolCalls' = ToolsAsked(Whole(prior \o d.frames))
      BY <2>7, <2>8, <3>1
    <3>3. DecoderAt(body, Fresh(d), Given(body, d, at'), at')
      BY <1>2, <2>4, <2>5, <3>2, FreshAt
    <3>. QED  BY <1>1, <1>7, <2>8, <3>2, <3>3 DEF Reading
  <2>10. taken' \in Seq(Bytes) /\ Len(taken') <= MaxResponse /\ decoder' \in Decoders
    BY <1>2, <2>2, <2>5, <2>8
  <2>11. reader' \in {"none", "open", "done", "cancelled", "released"}
    BY <2>8
  <2>12. (stage' = "over" /\ outcome' # "none") \/ (stage' = "reading" /\ outcome' = "none")
    BY <2>8
  <2>. QED  BY <1>1, <1>4, <2>8, <2>9, <2>10, <2>11, <2>12, ReadStep
<1>. QED  BY <1>2, <1>5, <1>6, <1>7

LEMMA EndOfBodyStep == ASSUME HttpInv, EndOfBody PROVE HttpInv'
<1>1. /\ stage = "reading" /\ at = Len(body) /\ at' = at
      /\ UNCHANGED <<format, body, status, cancelled, timedOut>>
  BY DEF EndOfBody, response
<1>2. /\ body \in Seq(Bytes) /\ decoder \in Decoders /\ tokens \in Seq(Bytes) /\ taken \in Seq(Bytes)
      /\ toolCalls \in Tables /\ Len(taken) <= MaxResponse /\ format \in {"sse", "json"} /\ Reading
      /\ at \in 0 .. Len(body)
  BY DEF HttpInv, HttpTypes, ReplyMeant, HttpTypeOK
<1>3. CASE format = "sse"
  <2>1. PICK f : f = Fresh(decoder)
    OBVIOUS
  <2>2. PICK d : d = LastLines(f)
    OBVIOUS
  <2>3. Yield(d, TRUE) /\ taken' = taken
    BY <1>3, <2>1, <2>2 DEF EndOfBody
  <2>4. PICK prior : prior = Given(body, decoder, at)
    OBVIOUS
  <2>5. /\ prior \in Seq(Seq(Bytes)) /\ f \in Decoders /\ ~f.bad /\ ~f.stopped /\ DecoderAt(body, f, prior, Len(body))
        /\ tokens = TextOf(Whole(prior)) /\ toolCalls = ToolsAsked(Whole(prior))
    <3>1. /\ ~decoder.bad /\ ~decoder.stopped /\ DecoderAt(body, f, prior, Len(body))
          /\ tokens = TextOf(Whole(prior)) /\ toolCalls = ToolsAsked(Whole(prior))
      BY <1>1, <1>2, <1>3, <2>1, <2>4 DEF Reading
    <3>. QED  BY <1>2, <2>1, <2>4, <3>1, GivenType, FreshIs
  <2>6. d \in Decoders /\ (d.bad => Unfit(body)) /\ (~d.bad => prior \o d.frames = Stream(body))
    BY <1>2, <2>2, <2>5, EndFed
  <2>7. \E k \in 0 .. Len(Stream(body)) : Stream(body) = SubSeq(Stream(body), 1, k)
    <3>1. PICK X : X = Seq(Bytes)
      OBVIOUS
    <3>2. PICK all : all = Stream(body)
      OBVIOUS
    <3>3. all \in Seq(X)
      BY <1>2, <3>1, <3>2, StreamType
    <3>4. SubSeq(all, 1, Len(all)) = all /\ Len(all) \in Nat
      BY ONLY <3>3, SubSeqFull, LenProperties
    <3>5. Len(all) \in 0 .. Len(all)
      BY <3>4
    <3>. QED  BY <3>2, <3>4, <3>5
  <2>8. ~d.bad => \E k \in 0 .. Len(Stream(body)) : prior \o d.frames = SubSeq(Stream(body), 1, k)
    BY <2>6, <2>7
  <2>9. /\ Told' /\ decoder' = d /\ tokens' \in Seq(Bytes) /\ toolCalls' \in Tables /\ outcome' \in Outcomes
        /\ reader' \in {"open", "done", "cancelled", "released"} /\ stage' = "over" /\ outcome' # "none"
    BY <1>1, <1>3, <2>3, <2>5, <2>6, <2>8, YieldMeant
  <2>10. taken' \in Seq(Bytes) /\ Len(taken') <= MaxResponse /\ decoder' \in Decoders /\ at' \in 0 .. Len(body)
    BY <1>1, <1>2, <2>3, <2>6, <2>9
  <2>11. reader' \in {"none", "open", "done", "cancelled", "released"} /\ stage' # "reading"
    BY <2>9
  <2>. QED  BY <1>1, <2>9, <2>10, <2>11, ReadStep
<1>4. CASE format = "json"
  <2>1. /\ reader' = "done" /\ UNCHANGED <<decoder, tokens, toolCalls, taken>>
        /\ (Utf8(taken) /\ IsJson(Chars(taken)) => Answer(TextOf(taken), Fragments(NoCalls, taken)))
        /\ (~(Utf8(taken) /\ IsJson(Chars(taken))) => Fail("invalid"))
    BY <1>4 DEF EndOfBody
  <2>2. tokens = <<>> /\ taken = body
    BY <1>1, <1>2, <1>4, SubSeqFull DEF Reading
  <2>3. Len(tokens') <= Len(TextOf(Whole(Meaning))) /\ tokens' = SubSeq(TextOf(Whole(Meaning)), 1, Len(tokens'))
    BY <1>2, <2>1, <2>2, NoTextYet
  <2>4. Meaning = <<Text(body)>>
    BY <1>4 DEF Meaning
  <2>5. Told' /\ stage' = "over" /\ outcome' \in Outcomes \ {"none"}
    <3>1. CASE Utf8(body) /\ IsJson(Chars(body))
      <4>1. PICK text : text = TextOf(body)
        OBVIOUS
      <4>2. PICK table : table = Fragments(NoCalls, body)
        OBVIOUS
      <4>3. Answer(text, table)
        BY <2>1, <2>2, <3>1, <4>1, <4>2
      <4>4. Whole(Meaning) = Chars(body)
        BY <1>2, <2>4, <3>1, TextAll, TextType, WholeOne
      <4>5. text = TextOf(Whole(Meaning))
        BY <1>2, <4>1, <4>4, CharsSay
      <4>6. table = ToolsAsked(Whole(Meaning))
        <5>1. PICK e : e = <<>>
          OBVIOUS
        <5>2. e \in Seq(Bytes) /\ e \o body = body
          BY <1>2, <5>1
        <5>3. Fragments(ToolsAsked(e), body) = ToolsAsked(e \o body)
          BY <1>2, <5>2, FragmentsAsked
        <5>4. ToolsAsked(e) = NoCalls
          BY <5>1, AskedNone
        <5>. QED  BY <1>2, <4>2, <4>4, <5>2, <5>3, <5>4, CharsSay
      <4>. QED  BY <1>1, <1>4, <2>1, <2>2, <4>3, <4>5, <4>6, AnswerTold
    <3>2. CASE ~(Utf8(body) /\ IsJson(Chars(body)))
      <4>1. Fail("invalid")
        BY <2>1, <2>2, <3>2
      <4>2. Refused
        <5>1. CASE ~Utf8(body)
          BY <5>1 DEF Refused
        <5>2. CASE Utf8(body)
          <6>1. PICK w : w = Text(body)
            OBVIOUS
          <6>2. ~IsJson(w)
            BY <1>2, <3>2, <5>2, <6>1, TextAll
          <6>3. 1 \in DOMAIN <<w>> /\ <<w>>[1] = w
            OBVIOUS
          <6>. QED  BY <2>4, <6>1, <6>2, <6>3 DEF Refused
        <5>. QED  BY <5>1, <5>2
      <4>. QED  BY <1>1, <2>3, <4>1, <4>2, InvalidTold
    <3>. QED  BY <3>1, <3>2
  <2>6. /\ taken' \in Seq(Bytes) /\ Len(taken') <= MaxResponse /\ decoder' \in Decoders
        /\ tokens' \in Seq(Bytes) /\ toolCalls' \in Tables /\ at' \in 0 .. Len(body)
    BY <1>1, <1>2, <2>1
  <2>7. /\ outcome' \in Outcomes /\ outcome' # "none" /\ stage' # "reading"
        /\ reader' \in {"none", "open", "done", "cancelled", "released"}
    BY <2>1, <2>5
  <2>. QED  BY <1>1, <2>5, <2>6, <2>7, ReadStep
<1>. QED  BY <1>2, <1>3, <1>4

LEMMA HttpSame == HttpInv /\ UNCHANGED httpVars => HttpInv'
<1>1. SUFFICES ASSUME HttpInv, UNCHANGED httpVars PROVE HttpInv'
  OBVIOUS
<1>2. /\ format' = format /\ body' = body /\ status' = status /\ stage' = stage /\ cancelled' = cancelled
      /\ timedOut' = timedOut /\ at' = at /\ decoder' = decoder /\ taken' = taken /\ tokens' = tokens
      /\ toolCalls' = toolCalls /\ reader' = reader /\ outcome' = outcome /\ reply' = reply
  BY <1>1 DEF httpVars
<1>3. Meaning' = Meaning
  BY <1>2 DEF Meaning
<1>4. HttpTypeOK' /\ HttpTypes' /\ Unread' /\ Reading'
  BY <1>1, <1>2 DEF HttpInv, ReplyMeant, HttpTypeOK, HttpTypes, Unread, Reading
<1>5. ReplyIsBody' /\ TokensAreContent' /\ NoFalseError' /\ CauseTold' /\ BodyLetGo'
  BY <1>1, <1>2, <1>3 DEF HttpInv, ReplyMeant, ReplyIsBody, TokensAreContent, NoFalseError, CauseTold, BodyLetGo
<1>. QED  BY <1>4, <1>5 DEF HttpInv, ReplyMeant

\* However the body is cut into chunks and whenever the caller or the time limit ends the
\* call: a reply is what the body says read as a whole, tokens are a part of its text, a
\* well-formed body is not refused, an error has its cause and no body is left unread.
THEOREM ReplyIsMeant == HttpSpec => []ReplyMeant
<1>1. HttpInit => HttpInv
  BY HttpInitInv
<1>2. HttpInv /\ [HttpNext]_httpVars => HttpInv'
  <2>1. SUFFICES ASSUME HttpInv, HttpNext PROVE HttpInv'
    BY HttpSame
  <2>2. CASE \E yes \in BOOLEAN : Call(yes) \/ Transform(yes) \/ Reach(yes)
    BY <2>1, <2>2, CallStep, TransformStep, ReachStep
  <2>3. CASE Respond
    BY <2>1, <2>3, RespondStep
  <2>4. CASE EndOfBody
    BY <2>1, <2>4, EndOfBodyStep
  <2>5. CASE Break
    BY <2>1, <2>5, BreakStep
  <2>6. CASE Cancel \/ Timeout
    BY <2>1, <2>6, SignalStep
  <2>7. CASE \E n \in 1 .. MaxResponse + 1 : Chunk(n)
    BY <2>1, <2>7, ChunkStep
  <2>. QED  BY <2>1, <2>2, <2>3, <2>4, <2>5, <2>6, <2>7 DEF HttpNext
<1>3. HttpInv => ReplyMeant
  BY DEF HttpInv
<1>. QED  BY <1>1, <1>2, <1>3, PTL DEF HttpSpec
=============================================================================
