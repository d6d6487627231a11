-------------------------- MODULE LocalFiles_proofs --------------------------
(***************************************************************************)
(* Proofs about the files of one user's machine, for any number of         *)
(* processes, operations, bundles, calls, uses and failures: the trust     *)
(* records and the configuration of LocalConfig, HostFiles,                *)
(* KnowledgeIndex, and the sessions of SessionStore.                       *)
(***************************************************************************)
EXTENDS LocalConfig, HostFiles, KnowledgeIndex, SessionStore, SequenceTheorems, FiniteSetTheorems, Recursion, TLAPS

-----------------------------------------------------------------------------
(* The trust records.                                                      *)

\* A record that the user decided for the request it names, within what that declares.
Decided(r) ==
  /\ r = [key |-> r.key, grants |-> r.grants, unsigned |-> r.unsigned] /\ r \in said
  /\ r.grants \subseteq Declared[r.key] /\ (r.unsigned => r.key \notin Signed)

\* The records in trust.json, in the copies of it, and in the answers to callers.
TrustInv ==
  /\ DOMAIN edit = Edits
  /\ \A r \in trust : Decided(r)
  /\ \A e \in Edits : \A r \in edit[e].records \union edit[e].answer : Decided(r)

LEMMA HoldsKeeps ==
  ASSUME TrustInv, NEW e \in Edits, NEW what, NEW at, NEW on, NEW doc, NEW records, NEW answer,
         edit' = [edit EXCEPT ![e] = [what |-> what, at |-> at, on |-> on, doc |-> doc,
                                      records |-> records, answer |-> answer]],
         \A r \in trust' \union records \union answer : Decided(r)', said \subseteq said'
  PROVE  TrustInv'
<1>1. DOMAIN edit' = Edits
  BY DEF TrustInv
<1>2. edit'[e].records = records /\ edit'[e].answer = answer /\ \A d \in Edits \ {e} : edit'[d] = edit[d]
  BY DEF TrustInv
<1>3. \A r : Decided(r) => Decided(r)'
  BY DEF Decided
<1>. QED  BY <1>1, <1>2, <1>3 DEF TrustInv

LEMMA TrustNext == ASSUME TrustInv, [ConfigNext]_configVars PROVE TrustInv'
<1>1. (said' = said) => \A r : Decided(r)' <=> Decided(r)
  BY DEF Decided
<1>2. ASSUME NEW e \in Edits, Begins(e) PROVE TrustInv'
  <2>1. ASSUME NEW what, NEW on, NEW at, StartEdit(e, what, on, at) PROVE TrustInv'
    BY <1>1, <2>1, HoldsKeeps DEF StartEdit, TrustInv
  <2>. QED  BY <1>2, <2>1 DEF Begins
<1>3. ASSUME NEW e \in Edits, StoreSecret(e) \/ RemoveSecret(e) PROVE TrustInv'
  BY <1>1, <1>3, HoldsKeeps DEF StoreSecret, RemoveSecret, Onto, Holds, TrustInv
<1>4. ASSUME NEW e \in Edits, LoadConfig(e) PROVE TrustInv'
  BY <1>1, <1>4, HoldsKeeps DEF LoadConfig, EditEnds, Holds, TrustInv
<1>5. ASSUME NEW e \in Edits, WriteConfig(e) \/ BreaksOff(e) PROVE TrustInv'
  BY <1>1, <1>5, HoldsKeeps DEF WriteConfig, BreaksOff, Renamed, EditEnds, Holds, TrustInv
<1>6. ASSUME NEW e \in Edits, LoadTrust(e) PROVE TrustInv'
  <2>1. trust' = trust /\ said' = said
    BY <1>6 DEF LoadTrust
  <2>2. CASE Holds(e, "write", NoDoc, Others(edit[e].on), {})
    BY <1>1, <2>1, <2>2, HoldsKeeps DEF Holds, Others, TrustInv
  <2>3. CASE Onto(e, "asking")
    BY <1>1, <2>1, <2>3, HoldsKeeps DEF Onto, Holds, TrustInv
  <2>4. ASSUME NEW r \in trust, r.key = edit[e].on, EditEnds(e, {[r EXCEPT !.key = edit[e].on]}) PROVE TrustInv'
    <3>1. [r EXCEPT !.key = edit[e].on] = r
      BY <2>4 DEF TrustInv, Decided
    <3>2. EditEnds(e, {r})
      BY <2>4, <3>1
    <3>. QED  BY <1>1, <2>1, <3>2, HoldsKeeps DEF EditEnds, Holds, TrustInv
  <2>. QED  BY <1>6, <2>2, <2>3, <2>4 DEF LoadTrust, Matches
<1>7. ASSUME NEW e \in Edits, Decide(e) PROVE TrustInv'
  <2>1. trust' = trust
    BY <1>7 DEF Decide
  <2>2. CASE EditEnds(e, {}) /\ UNCHANGED said
    BY <1>1, <2>1, <2>2, HoldsKeeps DEF EditEnds, Holds, TrustInv
  <2>3. ASSUME NEW grants \in SUBSET Permissions, NEW allow \in BOOLEAN, NEW r,
               r = [key |-> edit[e].on, grants |-> grants, unsigned |-> edit[e].on \notin Signed /\ allow],
               grants \subseteq Declared[edit[e].on], said' = said \union {r}, Holds(e, "reload", NoDoc, {}, {r})
        PROVE  TrustInv'
    <3>1. Decided(r)'
      BY <2>3 DEF Decided
    <3>2. \A q \in trust : Decided(q)'
      BY <2>3 DEF Decided, TrustInv
    <3>3. said \subseteq said' /\ \A q \in trust' \union {} \union {r} : Decided(q)'
      BY <2>1, <2>3, <3>1, <3>2
    <3>. HIDE DEF Decided
    <3>4. edit' = [edit EXCEPT ![e] = [what |-> edit[e].what, at |-> "reload", on |-> edit[e].on,
                                       doc |-> NoDoc, records |-> {}, answer |-> {r}]]
      BY <2>3 DEF Holds
    <3>. QED  BY <3>3, <3>4, HoldsKeeps
  <2>4. ASSUME NEW grants \in SUBSET Permissions, NEW allow \in BOOLEAN,
               IF Declares(edit[e].on, grants)
                 THEN /\ said' = said \union {[key |-> edit[e].on, grants |-> grants,
                                              unsigned |-> edit[e].on \notin Signed /\ allow]}
                      /\ Holds(e, "reload", NoDoc, {}, {[key |-> edit[e].on, grants |-> grants,
                                                        unsigned |-> edit[e].on \notin Signed /\ allow]})
                 ELSE EditEnds(e, {}) /\ UNCHANGED said
        PROVE  TrustInv'
    <3>1. CASE Declares(edit[e].on, grants)
      BY <2>3, <2>4, <3>1 DEF Declares
    <3>2. CASE ~Declares(edit[e].on, grants)
      BY <2>2, <2>4, <3>2
    <3>. QED  BY <3>1, <3>2
  <2>. QED  BY <1>7, <2>2, <2>4, Zenon DEF Decide
<1>8. ASSUME NEW e \in Edits, Reload(e) PROVE TrustInv'
  BY <1>1, <1>8, HoldsKeeps DEF Reload, Holds, Others, TrustInv
<1>9. ASSUME NEW e \in Edits, WriteTrust(e) PROVE TrustInv'
  BY <1>1, <1>9, HoldsKeeps DEF WriteTrust, Renamed, EditEnds, Holds, TrustInv
<1>10. ASSUME UNCHANGED configVars PROVE TrustInv'
  BY <1>1, <1>10 DEF configVars, TrustInv
<1>. QED  BY <1>2, <1>3, <1>4, <1>5, <1>6, <1>7, <1>8, <1>9, <1>10 DEF ConfigNext

\* Nothing is trusted but what the user decided, for exactly that package, bundle and
\* permissions, whatever operations cross, fail or die (local-config.ts, trustKey).
THEOREM TrustDecided == ConfigSpec => []TrustIsDecision
<1>1. ConfigInit => TrustInv
  <2>. SUFFICES ASSUME ConfigInit PROVE TrustInv
    OBVIOUS
  <2>0. trust \in {{}} \union {{[key |-> k, grants |-> {}, unsigned |-> FALSE]} : k \in Bundles} /\ said = trust
    BY Zenon DEF ConfigInit
  <2>1. \A r \in trust : Decided(r)
    BY <2>0 DEF Decided
  <2>2. DOMAIN edit = Edits /\ \A e \in Edits : edit[e].records = {} /\ edit[e].answer = {}
    BY DEF ConfigInit, Unused
  <2>. QED  BY <2>1, <2>2 DEF TrustInv
<1>2. TrustInv => TrustIsDecision
  BY DEF TrustInv, Decided, TrustIsDecision
<1>. QED  BY <1>1, <1>2, TrustNext, PTL DEF ConfigSpec

-----------------------------------------------------------------------------
(* The configuration.                                                      *)

TrustEdit == {"authorize", "revoke"}
Docs == [providers : Seq(Profiles), selected : Profiles \union {NoProfile}, keys : SUBSET Publishers]
EditRecords ==
  [what : ConfigEdit \union TrustEdit \union {"none"},
   at : {"idle", "secret", "load", "unsecret", "asking", "reload", "write", "over"},
   on : Profiles \union Publishers \union Bundles \union {NoProfile},
   doc : Docs, records : SUBSET Decisions, answer : SUBSET Decisions]

\* A document whose selection is one of its profiles, if it has any.
GoodDoc(doc) ==
  /\ doc \in Docs /\ IsInjective(doc.providers)
  /\ doc.selected = NoProfile <=> doc.providers = <<>>
  /\ doc.selected # NoProfile => doc.selected \in InList(doc)

ConfigTyped ==
  /\ GoodDoc(config) /\ secrets \subseteq Profiles /\ trust \subseteq Decisions
  /\ edit \in [Edits -> EditRecords] /\ crossing \subseteq {"config", "trust"} /\ partial \subseteq Profiles
  /\ said \subseteq Decisions /\ granted \subseteq Bundles /\ breaks \in 0 .. MaxBreaks

\* What each edit is about, and at which steps it can be.
Concerns(o) ==
  /\ o.what \in {"save", "select", "delete"} => o.on \in Profiles
  /\ o.what \in {"key", "unkey"} => o.on \in Publishers
  /\ o.what \in TrustEdit => o.on \in Bundles
  /\ o.what = "none" <=> o.at = "idle"
  /\ o.at = "secret" => o.what = "save"
  /\ o.at = "unsecret" => o.what = "delete"
  /\ o.at \in {"asking", "reload"} => o.what = "authorize"
  /\ o.at = "reload" => \E r \in Decisions : o.answer = {r} /\ r.key = o.on

\* As long as no two edits of a document crossed: one is under way, and what it holds is
\* the document as it is now, changed.
Same(d, e) == edit[d].what \in ConfigEdit <=> edit[e].what \in ConfigEdit
Alone ==
  \A d, e \in Edits : Busy(d) /\ Busy(e) /\ Same(d, e) /\ Doc(edit[e].what) \notin crossing => d = e
Keys(records) == {r.key : r \in records}
ConfigHeld(o) ==
  (o.at \in {"unsecret", "write"} /\ o.what \in ConfigEdit) =>
    /\ GoodDoc(o.doc)
    /\ "config" \notin crossing => /\ o.doc = Changed(config, o.what, o.on)
                                   /\ o.what = "select" => o.on \in InList(config)
TrustHeld(o) ==
  (o.at = "write" /\ o.what \in TrustEdit /\ "trust" \notin crossing) =>
    Keys(o.records) = IF o.what = "revoke" THEN Keys(trust) \ {o.on} ELSE Keys(trust) \union {o.on}
SecretHeld(o) ==
  "config" \notin crossing =>
    /\ (o.what = "save" /\ o.at \in {"load", "write"} /\ o.on \notin partial) => o.on \in secrets
    /\ (o.what = "delete" /\ o.at = "write") => o.on \notin secrets
EditHeld(o) == Concerns(o) /\ ConfigHeld(o) /\ TrustHeld(o) /\ SecretHeld(o)

\* The secrets are those of the listed profiles, but for the one whose secret an edit has
\* changed before the document.
Early(o) == o.at = "secret" \/ (o.what = "delete" /\ o.at \in {"load", "unsecret"})
Untouched(p) ==
  \A e \in Edits : Busy(e) /\ edit[e].what \in {"save", "delete"} /\ edit[e].on = p => Early(edit[e])
SecretInv ==
  "config" \notin crossing =>
    \A p \in Profiles \ partial : Untouched(p) => (p \in InList(config) <=> p \in secrets)

ConfigInv ==
  /\ ConfigTyped /\ (\A e \in Edits : EditHeld(edit[e])) /\ Alone /\ SecretInv
  /\ NothingLost /\ GrantsKept

\* The members of a list.
Listing(seq) == {seq[i] : i \in DOMAIN seq}

LEMMA AppendLists ==
  ASSUME NEW S, NEW seq \in Seq(S), IsInjective(seq), NEW p \in S, p \notin Listing(seq)
  PROVE  /\ Append(seq, p) \in Seq(S) /\ IsInjective(Append(seq, p))
         /\ \A q : q \in Listing(Append(seq, p)) <=> q \in Listing(seq) \/ q = p
<1> DEFINE n == Len(seq)
           new == Append(seq, p)
<1>1. n \in Nat /\ DOMAIN seq = 1 .. n
  BY LenProperties
<1>2. new \in Seq(S) /\ DOMAIN new = 1 .. n + 1 /\ new[n + 1] = p /\ \A i \in 1 .. n : new[i] = seq[i]
  BY <1>1
<1>3. \A i \in 1 .. n : seq[i] # p
  BY <1>1 DEF Listing
<1>. HIDE DEF new, n
<1>4. ASSUME NEW i \in 1 .. n + 1, NEW j \in 1 .. n + 1, new[i] = new[j] PROVE i = j
  <2>1. i \in 1 .. n \/ i = n + 1
    BY <1>1
  <2>2. j \in 1 .. n \/ j = n + 1
    BY <1>1
  <2>3. \A k, l \in 1 .. n : seq[k] = seq[l] => k = l
    BY <1>1 DEF IsInjective
  <2>. QED  BY <1>2, <1>3, <1>4, <2>1, <2>2, <2>3
<1>5. IsInjective(new)
  BY <1>2, <1>4 DEF IsInjective
<1>6. ASSUME NEW q PROVE q \in Listing(new) <=> q \in Listing(seq) \/ q = p
  <2>1. q \in Listing(new) <=> \E i \in 1 .. n + 1 : new[i] = q
    BY <1>2 DEF Listing
  <2>2. q \in Listing(seq) <=> \E i \in 1 .. n : seq[i] = q
    BY <1>1 DEF Listing
  <2>3. \A i : i \in 1 .. n + 1 <=> i \in 1 .. n \/ i = n + 1
    BY <1>1
  <2>. QED  BY <1>2, <2>1, <2>2, <2>3
<1>. QED  BY <1>2, <1>5, <1>6 DEF new

\* What is left of a list of profiles without one of them.
LEMMA LackingLeaves ==
  ASSUME NEW seq \in Seq(Profiles), IsInjective(seq), NEW p
  PROVE  /\ Lacking(seq, p) \in Seq(Profiles) /\ IsInjective(Lacking(seq, p))
         /\ \A q : q \in Listing(Lacking(seq, p)) <=> q \in Listing(seq) /\ q # p
<1> DEFINE n == Len(seq)
           Q == Seq(Profiles)
           Add(x) == IF seq[x[1]] = p THEN x[2] ELSE Append(x[2], seq[x[1]])
           h == [x \in (1 .. n) \X Q |-> Add(x)]
           IsRun(f) == f = [i \in 0 .. n |-> IF i = 0 THEN <<>> ELSE IF seq[i] = p THEN f[i - 1] ELSE Append(f[i - 1], seq[i])]
           c == CHOOSE f : IsRun(f)
<1>1. n \in Nat /\ <<>> \in Q
  BY LenProperties, EmptySeq
<1>2. \A i \in 1 .. n : seq[i] \in Profiles
  BY ElementOfSeq
<1>3. ASSUME NEW x \in (1 .. n) \X Q PROVE Add(x) \in Q
  BY <1>2
<1>4. IsStep(h, n, Q)
  <2>. HIDE DEF Q, n, Add
  <2>. QED  BY <1>3 DEF IsStep
<1>5. PICK f : Follows(f, n, Q, <<>>, h)
  <2>. HIDE DEF n, h, Q
  <2>. QED  BY <1>1, <1>4, RecursionExists
<1>6. f \in [0 .. n -> Q] /\ f[0] = <<>>
  <2>. HIDE DEF n, h, Q
  <2>. QED  BY <1>5 DEF Follows
<1>7. ASSUME NEW i \in 1 .. n
      PROVE  f[i - 1] \in Q /\ f[i] = IF seq[i] = p THEN f[i - 1] ELSE Append(f[i - 1], seq[i])
  <2>1. f[i] = h[<<i, f[i - 1]>>]
    <3>. HIDE DEF n, h, Q
    <3>. QED  BY <1>5 DEF Follows
  <2>2. f[i - 1] \in Q
    <3>1. i - 1 \in 0 .. n
      BY <1>1
    <3>. HIDE DEF n, h, Q
    <3>. QED  BY <1>6, <3>1
  <2>3. h[<<i, f[i - 1]>>] = Add(<<i, f[i - 1]>>)
    <3>. HIDE DEF Q, Add
    <3>. QED  BY <2>2
  <2>4. Add(<<i, f[i - 1]>>) = IF seq[i] = p THEN f[i - 1] ELSE Append(f[i - 1], seq[i])
    <3>. HIDE DEF Q, n, h
    <3>. QED  OBVIOUS
  <2>. HIDE DEF Q, n, h, Add
  <2>. QED  BY <2>1, <2>2, <2>3, <2>4
<1>. HIDE DEF h, Q
<1>8. IsRun(f)
  <2>1. ASSUME NEW i \in 0 .. n
        PROVE  f[i] = IF i = 0 THEN <<>> ELSE IF seq[i] = p THEN f[i - 1] ELSE Append(f[i - 1], seq[i])
    <3>1. CASE i = 0
      BY <1>6, <3>1
    <3>2. CASE i # 0
      <4>1. i \in 1 .. n
        BY <1>1, <3>2
      <4>. QED  BY <1>7, <3>2, <4>1
    <3>. QED  BY <3>1, <3>2
  <2>2. f = [i \in 0 .. n |-> f[i]]
    BY <1>6
  <2>. HIDE DEF n
  <2>. QED  BY <2>1, <2>2
<1>9. IsRun(c)
  <2>. HIDE DEF IsRun
  <2>. QED  BY <1>8, Zenon
<1>10. Lacking(seq, p) = c[n]
  BY Zenon DEF Lacking
<1> DEFINE Left(i) == /\ c[i] \in Seq(Profiles) /\ IsInjective(c[i])
                      /\ \A q : q \in Listing(c[i]) <=> (\E j \in 1 .. i : seq[j] = q) /\ q # p
           T == {i \in 0 .. n : Left(i)}
<1>. HIDE DEF c
<1>11. 0 \in T
  <2>1. c[0] = <<>> /\ 0 \in 0 .. n
    BY <1>1, <1>9
  <2>2. <<>> \in Seq(Profiles) /\ IsInjective(<<>>) /\ \A q : q \notin Listing(<<>>)
    BY DEF IsInjective, Listing
  <2>3. Left(0)
    BY <2>1, <2>2
  <2>. HIDE DEF Left
  <2>. QED  BY <2>1, <2>3
<1>12. ASSUME NEW i \in 0 .. n - 1, i \in T PROVE i + 1 \in T
  <2>1. i + 1 \in 1 .. n /\ (i + 1) - 1 = i /\ i \in Nat /\ i + 1 \in 0 .. n
    BY <1>1
  <2>2. c[i + 1] = IF seq[i + 1] = p THEN c[i] ELSE Append(c[i], seq[i + 1])
    <3>1. c[i + 1] = IF i + 1 = 0 THEN <<>> ELSE IF seq[i + 1] = p THEN c[(i + 1) - 1] ELSE Append(c[(i + 1) - 1], seq[i + 1])
      BY <1>9, <2>1
    <3>. QED  BY <2>1, <3>1
  <2>3. Left(i) /\ seq[i + 1] \in Profiles
    BY <1>2, <1>12, <2>1
  <2>4. \A q : (\E j \in 1 .. i + 1 : seq[j] = q) <=> (\E j \in 1 .. i : seq[j] = q) \/ seq[i + 1] = q
    BY <2>1
  <2>5. CASE seq[i + 1] = p
    <3>1. c[i + 1] = c[i]
      BY <2>2, <2>5
    <3>2. Left(i + 1)
      BY <2>3, <2>4, <2>5, <3>1
    <3>. HIDE DEF Left
    <3>. QED  BY <2>1, <3>2
  <2>6. CASE seq[i + 1] # p
    <3>1. c[i + 1] = Append(c[i], seq[i + 1])
      BY <2>2, <2>6
    <3>2. seq[i + 1] \notin Listing(c[i])
      <4>1. \A j \in 1 .. i : seq[j] # seq[i + 1]
        <5>1. DOMAIN seq = 1 .. n
          BY LenProperties
        <5>. QED  BY <2>1, <5>1 DEF IsInjective
      <4>. QED  BY <2>3, <4>1
    <3>3. /\ c[i + 1] \in Seq(Profiles) /\ IsInjective(c[i + 1])
          /\ \A q : q \in Listing(c[i + 1]) <=> q \in Listing(c[i]) \/ q = seq[i + 1]
      BY <2>3, <3>1, <3>2, AppendLists
    <3>4. Left(i + 1)
      BY <2>3, <2>4, <2>6, <3>3
    <3>. HIDE DEF Left
    <3>. QED  BY <2>1, <3>4
  <2>. QED  BY <2>5, <2>6
<1>13. n \in T
  <2>1. 0 .. n \subseteq T
    <3>. HIDE DEF T, n
    <3>. QED  BY <1>1, <1>11, <1>12, UpTo
  <2>. HIDE DEF T
  <2>. QED  BY <1>1, <2>1
<1>14. Left(n)
  <2>. HIDE DEF Left
  <2>. QED  BY <1>13
<1>15. \A q : (\E j \in 1 .. n : seq[j] = q) <=> q \in Listing(seq)
  <2>1. DOMAIN seq = 1 .. n
    BY LenProperties
  <2>. QED  BY <2>1 DEF Listing
<1>. QED  BY <1>10, <1>14, <1>15

\* What a change makes of a document.
LEMMA ChangedGood ==
  ASSUME NEW doc, GoodDoc(doc), NEW what \in ConfigEdit, NEW on,
         what \in {"save", "select", "delete"} => on \in Profiles, what \in {"key", "unkey"} => on \in Publishers,
         what = "select" => on \in InList(doc)
  PROVE  /\ GoodDoc(Changed(doc, what, on))
         /\ \A q : q \in InList(Changed(doc, what, on)) <=>
                     (what = "save" /\ q = on) \/ (q \in InList(doc) /\ ~(what = "delete" /\ q = on))
         /\ Changed(doc, what, on).keys = IF what = "key" THEN doc.keys \union {on}
                                          ELSE IF what = "unkey" THEN doc.keys \ {on} ELSE doc.keys
<1> DEFINE fewer == Lacking(doc.providers, on)
<1>1. /\ doc.providers \in Seq(Profiles) /\ doc.selected \in Profiles \union {NoProfile} /\ doc.keys \subseteq Publishers
      /\ IsInjective(doc.providers) /\ NoProfile \notin Profiles
  BY ConfigAssumption DEF GoodDoc, Docs
<1>2. /\ doc.selected = NoProfile <=> doc.providers = <<>>
      /\ doc.selected # NoProfile => doc.selected \in Listing(doc.providers)
  BY DEF GoodDoc, InList, Listing
<1>3. \A d : InList(d) = Listing(d.providers)
  BY DEF InList, Listing
<1>4. fewer \in Seq(Profiles) /\ IsInjective(fewer) /\ \A q : q \in Listing(fewer) <=> q \in Listing(doc.providers) /\ q # on
  BY <1>1, LackingLeaves
<1>. HIDE DEF fewer
<1>5. CASE what = "save"
  <2> DEFINE new == Append(fewer, on)
  <2>1. on \in Profiles /\ on \notin Listing(fewer)
    BY <1>4, <1>5
  <2>2. /\ new \in Seq(Profiles) /\ IsInjective(new) /\ new # <<>>
        /\ \A q : q \in Listing(new) <=> q \in Listing(fewer) \/ q = on
    BY <1>4, <2>1, AppendLists, AppendProperties
  <2>. HIDE DEF new
  <2>3. Changed(doc, what, on) = [doc EXCEPT !.providers = new, !.selected = on]
    BY <1>5 DEF Changed, Saved, new, fewer
  <2>4. /\ Changed(doc, what, on) \in Docs /\ Changed(doc, what, on).providers = new
        /\ Changed(doc, what, on).selected = on /\ Changed(doc, what, on).keys = doc.keys
    BY <2>1, <2>2, <2>3 DEF GoodDoc, Docs
  <2>5. GoodDoc(Changed(doc, what, on))
    BY <1>1, <1>3, <2>1, <2>2, <2>4 DEF GoodDoc
  <2>. QED  BY <1>3, <1>4, <1>5, <2>2, <2>4, <2>5
<1>6. CASE what = "delete"
  <2> DEFINE next == IF doc.selected # on THEN doc.selected ELSE IF fewer = <<>> THEN NoProfile ELSE fewer[1]
  <2>1. Changed(doc, what, on) = [doc EXCEPT !.providers = fewer, !.selected = next]
    BY <1>6 DEF Changed, Deleted, fewer
  <2>2. fewer # <<>> => fewer[1] \in Listing(fewer) /\ fewer[1] \in Profiles
    <3>1. fewer # <<>> => 1 \in DOMAIN fewer
      BY <1>4
    <3>. QED  BY <1>4, <3>1, ElementOfSeq DEF Listing
  <2>3. fewer = <<>> <=> Listing(fewer) = {}
    <3>1. fewer # <<>> => 1 \in DOMAIN fewer
      BY <1>4
    <3>. QED  BY <3>1 DEF Listing
  <2>4. next \in Profiles \union {NoProfile} /\ (next = NoProfile <=> fewer = <<>>) /\ (next # NoProfile => next \in Listing(fewer))
    <3>1. CASE doc.selected # on
      <4>1. doc.selected = NoProfile => Listing(doc.providers) = {}
        BY <1>2 DEF Listing
      <4>. QED  BY <1>1, <1>2, <1>4, <2>3, <3>1, <4>1
    <3>2. CASE doc.selected = on
      BY <1>1, <2>2, <3>2
    <3>. QED  BY <3>1, <3>2
  <2>. HIDE DEF next
  <2>5. /\ Changed(doc, what, on) \in Docs /\ Changed(doc, what, on).providers = fewer
        /\ Changed(doc, what, on).selected = next /\ Changed(doc, what, on).keys = doc.keys
    BY <1>4, <2>1, <2>4 DEF GoodDoc, Docs
  <2>6. GoodDoc(Changed(doc, what, on))
    BY <1>3, <1>4, <2>4, <2>5 DEF GoodDoc
  <2>. QED  BY <1>3, <1>4, <1>6, <2>5, <2>6
<1>7. CASE what = "select"
  <2>1. Changed(doc, what, on) = [doc EXCEPT !.selected = on]
    BY <1>7 DEF Changed
  <2>2. on \in Profiles /\ on \in Listing(doc.providers)
    BY <1>3, <1>7
  <2>3. /\ Changed(doc, what, on) \in Docs /\ Changed(doc, what, on).providers = doc.providers
        /\ Changed(doc, what, on).selected = on /\ Changed(doc, what, on).keys = doc.keys
    BY <2>1, <2>2 DEF GoodDoc, Docs
  <2>4. doc.providers # <<>>
    BY <2>2 DEF Listing
  <2>5. GoodDoc(Changed(doc, what, on))
    BY <1>1, <1>3, <2>2, <2>3, <2>4 DEF GoodDoc
  <2>. QED  BY <1>3, <1>7, <2>3, <2>5
<1>8. CASE what \in {"key", "unkey"}
  <2> DEFINE keys == IF what = "key" THEN doc.keys \union {on} ELSE doc.keys \ {on}
  <2>1. Changed(doc, what, on) = [doc EXCEPT !.keys = keys]
    BY <1>8 DEF Changed
  <2>2. keys \subseteq Publishers
    BY <1>1, <1>8
  <2>3. /\ Changed(doc, what, on) \in Docs /\ Changed(doc, what, on).providers = doc.providers
        /\ Changed(doc, what, on).selected = doc.selected /\ Changed(doc, what, on).keys = keys
    <3>. HIDE DEF keys
    <3>. QED  BY <2>1, <2>2 DEF GoodDoc, Docs
  <2>4. GoodDoc(Changed(doc, what, on))
    BY <1>1, <1>2, <1>3, <2>3 DEF GoodDoc
  <2>. QED  BY <1>3, <1>8, <2>3, <2>4
<1>. QED  BY <1>5, <1>6, <1>7, <1>8 DEF ConfigEdit

\* An edit that goes on: the others hold what they held.
Moves(e, o) ==
  /\ o \in EditRecords /\ edit' = [edit EXCEPT ![e] = o] /\ crossing' = crossing
  /\ Busy(e) /\ o.what = edit[e].what /\ o.on = edit[e].on /\ o.at # "idle"
Elsewhere(e) == IF edit[e].what \in ConfigEdit THEN trust' = trust ELSE UNCHANGED <<config, secrets, partial>>

LEMMA MovesKeeps ==
  ASSUME ConfigInv, NEW e \in Edits, NEW o, Moves(e, o), EditHeld(o)', Elsewhere(e)
  PROVE  /\ edit' \in [Edits -> EditRecords] /\ Alone' /\ \A d \in Edits : EditHeld(edit[d])'
         /\ edit'[e] = o /\ \A d \in Edits \ {e} : edit'[d] = edit[d]
<1>1. edit \in [Edits -> EditRecords]
  BY DEF ConfigInv, ConfigTyped
<1>2. edit' \in [Edits -> EditRecords] /\ edit'[e] = o /\ \A d \in Edits \ {e} : edit'[d] = edit[d]
  BY <1>1 DEF Moves
<1>3. crossing' = crossing /\ Busy(e) /\ o.what = edit[e].what
  BY DEF Moves
<1>4. Alone'
  <2>1. \A d \in Edits : Busy(d)' => Busy(d)
    BY <1>2, <1>3 DEF Busy
  <2>2. \A d \in Edits : edit'[d].what = edit[d].what
    BY <1>2, <1>3
  <2>. QED  BY <1>3, <2>1, <2>2 DEF Alone, ConfigInv, Same
<1>5. ASSUME NEW d \in Edits, d # e PROVE EditHeld(edit[d])'
  <2>1. edit'[d] = edit[d] /\ EditHeld(edit[d])
    BY <1>2, <1>5 DEF ConfigInv
  <2>2. Concerns(edit[d])'
    BY <2>1 DEF EditHeld, Concerns, Decisions
  <2>3. CASE ~Busy(d)
    BY <2>1, <2>2, <2>3 DEF Busy, EditHeld, ConfigHeld, TrustHeld, SecretHeld
  <2>4. CASE Busy(d) /\ Same(d, e)
    <3>1. Doc(edit[e].what) \in crossing
      BY <1>3, <1>5, <2>4 DEF ConfigInv, Alone
    <3>. QED  BY <1>3, <2>1, <2>2, <2>4, <3>1
              DEF EditHeld, ConfigHeld, TrustHeld, SecretHeld, GoodDoc, Docs, InList, Same, Doc, ConfigEdit, TrustEdit
  <2>5. CASE ~Same(d, e) /\ edit[e].what \in ConfigEdit
    <3>1. trust' = trust /\ edit[d].what \notin ConfigEdit
      BY <2>5 DEF Elsewhere, Same
    <3>. QED  BY <1>3, <2>1, <2>2, <3>1 DEF EditHeld, ConfigHeld, TrustHeld, SecretHeld, ConfigEdit
  <2>6. CASE ~Same(d, e) /\ edit[e].what \notin ConfigEdit
    <3>1. UNCHANGED <<config, secrets, partial>> /\ edit[d].what \in ConfigEdit
      BY <2>6 DEF Elsewhere, Same
    <3>2. ConfigHeld(edit[d])'
      BY <1>3, <2>1, <3>1 DEF EditHeld, ConfigHeld
    <3>3. SecretHeld(edit[d])' /\ TrustHeld(edit[d])'
      BY <1>3, <2>1, <3>1 DEF EditHeld, TrustHeld, SecretHeld, ConfigEdit, TrustEdit
    <3>. QED  BY <2>2, <3>2, <3>3 DEF EditHeld
  <2>. QED  BY <2>3, <2>4, <2>5, <2>6
<1>6. EditHeld(edit[e])'
  BY <1>2
<1>. QED  BY <1>2, <1>4, <1>5, <1>6

\* The rest of the invariant: the secrets, and what the finished edits left.
LEMMA EndHeld ==
  ASSUME ConfigInv, NEW e \in Edits, NEW o, Moves(e, o), o.at = "over"
  PROVE  EditHeld(o)'
<1>1. Concerns(edit[e]) /\ edit[e].at # "idle"
  BY DEF ConfigInv, EditHeld, Moves, Busy
<1>2. Concerns(o)'
  BY <1>1 DEF Moves, Concerns
<1>. QED  BY <1>2 DEF EditHeld, ConfigHeld, TrustHeld, SecretHeld

LEMMA SecretBegins ==
  ASSUME ConfigInv, NEW e \in Edits, StoreSecret(e) \/ RemoveSecret(e)
  PROVE  ConfigInv'
<1>. USE DEF ConfigInv
<1>1. PICK o : o = [what |-> edit[e].what, at |-> IF edit[e].at = "secret" THEN "load" ELSE "write", on |-> edit[e].on,
                    doc |-> edit[e].doc, records |-> edit[e].records, answer |-> edit[e].answer]
  OBVIOUS
<1>2. /\ edit' = [edit EXCEPT ![e] = o] /\ edit[e].at \in {"secret", "unsecret"}
      /\ secrets' = IF edit[e].at = "secret" THEN secrets \union {edit[e].on} ELSE secrets \ {edit[e].on}
      /\ UNCHANGED <<config, trust, crossing, partial, said, granted, kept, breaks>>
  BY <1>1 DEF StoreSecret, RemoveSecret, Onto, Holds
<1>3. edit[e] \in EditRecords /\ EditHeld(edit[e])
  BY DEF ConfigTyped
<1>4. edit[e].what = (IF edit[e].at = "secret" THEN "save" ELSE "delete") /\ edit[e].on \in Profiles
  BY <1>2, <1>3 DEF EditHeld, Concerns
<1>5. Moves(e, o)
  BY <1>1, <1>2, <1>3 DEF Moves, EditRecords, Busy
<1>6. Concerns(o)'
  BY <1>1, <1>2, <1>3, <1>4 DEF EditHeld, Concerns, TrustEdit
<1>7. ConfigHeld(o)' /\ TrustHeld(o)'
  BY <1>1, <1>2, <1>3, <1>4 DEF EditHeld, ConfigHeld, TrustHeld, TrustEdit
<1>8. SecretHeld(o)'
  BY <1>1, <1>2, <1>4 DEF SecretHeld
<1>9. Elsewhere(e)
  BY <1>2, <1>4 DEF Elsewhere, ConfigEdit
<1>10. /\ edit' \in [Edits -> EditRecords] /\ Alone' /\ \A d \in Edits : EditHeld(edit[d])'
       /\ edit'[e] = o /\ \A d \in Edits \ {e} : edit'[d] = edit[d]
  BY <1>5, <1>6, <1>7, <1>8, <1>9, MovesKeeps DEF EditHeld
<1>11. ConfigTyped'
  BY <1>2, <1>4, <1>10 DEF ConfigTyped, GoodDoc, Docs, InList
<1>12. SecretInv'
  <2>. SUFFICES ASSUME "config" \notin crossing', NEW p \in Profiles \ partial', Untouched(p)'
                PROVE  p \in InList(config)' <=> p \in secrets'
    BY DEF SecretInv
  <2>1. p # edit[e].on
    BY <1>1, <1>4, <1>10 DEF Untouched, Busy, Early
  <2>2. Untouched(p)
    BY <1>10, <2>1 DEF Untouched, Busy, Early
  <2>. QED  BY <1>2, <2>1, <2>2 DEF SecretInv, InList
<1>13. NothingLost' /\ GrantsKept'
  BY <1>2 DEF NothingLost, GrantsKept, InList
<1>. QED  BY <1>10, <1>11, <1>12, <1>13

LEMMA LoadKeeps == ASSUME ConfigInv, NEW e \in Edits, LoadConfig(e) PROVE ConfigInv'
<1>. USE DEF ConfigInv
<1>0. /\ edit[e].at = "load" /\ edit[e].what \in ConfigEdit
      /\ UNCHANGED <<config, secrets, trust, crossing, partial, said, granted, kept, breaks>>
  BY DEF LoadConfig
<1>1. edit[e] \in EditRecords /\ EditHeld(edit[e]) /\ GoodDoc(config)
  BY DEF ConfigTyped
<1>2. Concerns(edit[e])
  BY <1>1 DEF EditHeld
<1>3. NoDoc \in Docs /\ {} \subseteq Decisions
  BY DEF NoDoc, Docs
<1>4. \E o : Moves(e, o) /\ EditHeld(o)' /\ (Early(o) => Early(edit[e]))
             /\ (o.at = "over" => edit[e].what = "select")
  <2>1. CASE edit[e].what = "select" /\ edit[e].on \notin InList(config)
    <3>1. PICK o : o = [what |-> edit[e].what, at |-> "over", on |-> edit[e].on, doc |-> NoDoc, records |-> {}, answer |-> {}]
      OBVIOUS
    <3>2. edit' = [edit EXCEPT ![e] = o]
      BY <2>1, <3>1 DEF LoadConfig, EditEnds, Holds
    <3>3. Moves(e, o)
      BY <1>0, <1>1, <1>3, <3>1, <3>2 DEF Moves, EditRecords, Busy
    <3>. QED  BY <2>1, <3>1, <3>3, EndHeld DEF Early
  <2>2. CASE ~(edit[e].what = "select" /\ edit[e].on \notin InList(config))
    <3> DEFINE doc == Changed(config, edit[e].what, edit[e].on)
    <3>1. PICK o : o = [what |-> edit[e].what, at |-> IF edit[e].what = "delete" THEN "unsecret" ELSE "write",
                        on |-> edit[e].on, doc |-> doc, records |-> {}, answer |-> {}]
      OBVIOUS
    <3>2. edit' = [edit EXCEPT ![e] = o]
      BY <2>2, <3>1 DEF LoadConfig, Holds
    <3>3. GoodDoc(doc)
      BY <1>0, <1>1, <1>2, <2>2, ChangedGood DEF Concerns
    <3>. HIDE DEF doc
    <3>4. Moves(e, o)
      BY <1>0, <1>1, <1>3, <3>1, <3>2, <3>3 DEF Moves, EditRecords, Busy, GoodDoc
    <3>5. Concerns(o)'
      BY <1>0, <1>2, <3>1 DEF Concerns, ConfigEdit, TrustEdit
    <3>6. o.doc = Changed(config', o.what, o.on)
      BY <1>0, <3>1 DEF doc
    <3>7. GoodDoc(o.doc)' /\ (o.what = "select" => o.on \in InList(config)')
      BY <1>0, <2>2, <3>1, <3>3 DEF GoodDoc, Docs, InList
    <3>8. ConfigHeld(o)'
      BY <3>6, <3>7 DEF ConfigHeld
    <3>9. TrustHeld(o)' /\ SecretHeld(o)'
      BY <1>0, <1>1, <3>1 DEF EditHeld, SecretHeld, TrustHeld, TrustEdit, ConfigEdit
    <3>10. Early(o) => Early(edit[e])
      BY <1>0, <3>1 DEF Early
    <3>. QED  BY <3>1, <3>4, <3>5, <3>8, <3>9, <3>10 DEF EditHeld
  <2>. QED  BY <2>1, <2>2
<1>5. PICK o : Moves(e, o) /\ EditHeld(o)' /\ (Early(o) => Early(edit[e]))
               /\ (o.at = "over" => edit[e].what = "select")
  BY <1>4
<1>6. Elsewhere(e)
  BY <1>0 DEF Elsewhere
<1>7. /\ edit' \in [Edits -> EditRecords] /\ Alone' /\ \A d \in Edits : EditHeld(edit[d])'
      /\ edit'[e] = o /\ \A d \in Edits \ {e} : edit'[d] = edit[d]
  BY <1>5, <1>6, MovesKeeps
<1>8. ConfigTyped'
  BY <1>0, <1>7 DEF ConfigTyped, GoodDoc, Docs, InList
<1>9. SecretInv'
  <2>. SUFFICES ASSUME "config" \notin crossing', NEW p \in Profiles \ partial', Untouched(p)'
                PROVE  p \in InList(config)' <=> p \in secrets'
    BY DEF SecretInv
  <2>1. ASSUME edit[e].what \in {"save", "delete"}, edit[e].on = p PROVE Early(edit[e])
    <3>1. o.what = edit[e].what /\ o.on = p /\ o.at \notin {"idle", "over"}
      BY <1>5, <2>1 DEF Moves
    <3>2. Early(o)
      BY <1>7, <2>1, <3>1 DEF Untouched, Busy, Early
    <3>. QED  BY <1>5, <3>2
  <2>2. Untouched(p)
    BY <1>7, <2>1 DEF Untouched, Busy, Early
  <2>. QED  BY <1>0, <2>2 DEF SecretInv, InList
<1>10. NothingLost' /\ GrantsKept'
  BY <1>0 DEF NothingLost, GrantsKept, InList
<1>. QED  BY <1>7, <1>8, <1>9, <1>10

LEMMA WriteKeeps == ASSUME ConfigInv, NEW e \in Edits, WriteConfig(e) PROVE ConfigInv'
<1>. USE DEF ConfigInv
<1>1. PICK o : o = [what |-> edit[e].what, at |-> "over", on |-> edit[e].on, doc |-> NoDoc, records |-> {}, answer |-> {}]
  OBVIOUS
<1>2. /\ edit[e].at = "write" /\ edit[e].what \in ConfigEdit /\ config' = edit[e].doc /\ edit' = [edit EXCEPT ![e] = o]
      /\ partial' = IF edit[e].what = "save" /\ edit[e].on \in secrets THEN partial \ {edit[e].on} ELSE partial
      /\ kept' = IF edit[e].what \in {"save", "key"} THEN kept \union {edit[e].on}
                 ELSE IF edit[e].what \in {"delete", "unkey"} THEN kept \ {edit[e].on} ELSE kept
      /\ UNCHANGED <<secrets, trust, crossing, said, granted, breaks>>
  BY <1>1 DEF WriteConfig, Renamed, EditEnds, Holds
<1>3. edit[e] \in EditRecords /\ Concerns(edit[e]) /\ ConfigHeld(edit[e]) /\ SecretHeld(edit[e]) /\ GoodDoc(config)
  BY DEF ConfigTyped, EditHeld
<1>4. Moves(e, o)
  BY <1>1, <1>2, <1>3 DEF Moves, EditRecords, Busy, NoDoc, Docs
<1>5. EditHeld(o)'
  BY <1>1, <1>4, EndHeld
<1>6. Elsewhere(e)
  BY <1>2 DEF Elsewhere
<1>7. /\ edit' \in [Edits -> EditRecords] /\ Alone' /\ \A d \in Edits : EditHeld(edit[d])'
      /\ edit'[e] = o /\ \A d \in Edits \ {e} : edit'[d] = edit[d]
  BY <1>4, <1>5, <1>6, MovesKeeps
<1>8. GoodDoc(edit[e].doc)
  BY <1>2, <1>3 DEF ConfigHeld
<1>9. GoodDoc(config)'
  BY <1>2, <1>8 DEF GoodDoc, Docs, InList
<1>10. ConfigTyped'
  BY <1>2, <1>7, <1>9 DEF ConfigTyped
<1>11. ASSUME "config" \notin crossing
       PROVE  /\ \A q : q \in InList(config)' <=> (edit[e].what = "save" /\ q = edit[e].on)
                                                  \/ (q \in InList(config) /\ ~(edit[e].what = "delete" /\ q = edit[e].on))
              /\ config'.keys = IF edit[e].what = "key" THEN config.keys \union {edit[e].on}
                                ELSE IF edit[e].what = "unkey" THEN config.keys \ {edit[e].on} ELSE config.keys
  <2> DEFINE new == Changed(config, edit[e].what, edit[e].on)
  <2>1. config' = new /\ (edit[e].what = "select" => edit[e].on \in InList(config))
    BY <1>2, <1>3, <1>11 DEF ConfigHeld
  <2>2. /\ \A q : q \in InList(new) <=> (edit[e].what = "save" /\ q = edit[e].on)
                                        \/ (q \in InList(config) /\ ~(edit[e].what = "delete" /\ q = edit[e].on))
        /\ new.keys = IF edit[e].what = "key" THEN config.keys \union {edit[e].on}
                      ELSE IF edit[e].what = "unkey" THEN config.keys \ {edit[e].on} ELSE config.keys
    <3>1. /\ edit[e].what \in {"save", "select", "delete"} => edit[e].on \in Profiles
          /\ edit[e].what \in {"key", "unkey"} => edit[e].on \in Publishers
      BY <1>3 DEF Concerns
    <3>2. GoodDoc(config) /\ edit[e].what \in ConfigEdit
      BY <1>2, <1>3
    <3>3. edit[e].what = "select" => edit[e].on \in InList(config)
      BY <2>1
    <3>4. PICK d, w, x : d = config /\ w = edit[e].what /\ x = edit[e].on
      OBVIOUS
    <3>5. /\ GoodDoc(d) /\ w \in ConfigEdit
          /\ w \in {"save", "select", "delete"} => x \in Profiles
          /\ w \in {"key", "unkey"} => x \in Publishers
          /\ w = "select" => x \in InList(d)
      BY ONLY <3>1, <3>2, <3>3, <3>4
    <3>6. /\ \A q : q \in InList(Changed(d, w, x)) <=> (w = "save" /\ q = x) \/ (q \in InList(d) /\ ~(w = "delete" /\ q = x))
          /\ Changed(d, w, x).keys = IF w = "key" THEN d.keys \union {x} ELSE IF w = "unkey" THEN d.keys \ {x} ELSE d.keys
      BY ONLY <3>5, ChangedGood
    <3>7. new = Changed(d, w, x)
      BY ONLY <3>4
    <3>. HIDE DEF new
    <3>. QED  BY ONLY <3>4, <3>6, <3>7
  <2>. HIDE DEF new
  <2>3. \A q : q \in InList(config)' <=> q \in InList(new)
    BY <2>1 DEF InList
  <2>. QED  BY <2>1, <2>2, <2>3
<1>12. SecretInv'
  <2>. SUFFICES ASSUME "config" \notin crossing', NEW p \in Profiles \ partial', Untouched(p)'
                PROVE  p \in InList(config)' <=> p \in secrets'
    BY DEF SecretInv
  <2>1. CASE edit[e].what = "save" /\ edit[e].on = p
    BY <1>2, <1>3, <1>11, <2>1 DEF SecretHeld
  <2>2. CASE edit[e].what = "delete" /\ edit[e].on = p
    BY <1>2, <1>3, <1>11, <2>2 DEF SecretHeld
  <2>3. CASE ~(edit[e].what \in {"save", "delete"} /\ edit[e].on = p)
    <3>1. Untouched(p)
      BY <1>7, <2>3 DEF Untouched, Busy, Early
    <3>2. p \notin partial /\ "config" \notin crossing
      BY <1>2, <2>3
    <3>3. p \in InList(config) <=> p \in secrets
      BY <3>1, <3>2 DEF SecretInv
    <3>4. p \in InList(config)' <=> p \in InList(config)
      BY <1>11, <2>3, <3>2
    <3>. QED  BY <1>2, <3>3, <3>4
  <2>. QED  BY <2>1, <2>2, <2>3
<1>13. NothingLost'
  <2>. SUFFICES ASSUME "config" \notin crossing' PROVE kept' = InList(config)' \union config'.keys
    BY DEF NothingLost
  <2>1. kept = InList(config) \union config.keys
    BY <1>2 DEF NothingLost
  <2>2. config.keys \subseteq Publishers /\ Profiles \intersect Publishers = {}
    BY <1>3, ConfigAssumption DEF GoodDoc, Docs
  <2>3. InList(config) \subseteq Profiles
    <3>1. config.providers \in Seq(Profiles)
      BY <1>3 DEF GoodDoc, Docs
    <3>. QED  BY <3>1, ElementOfSeq, LenProperties DEF InList
  <2>4. /\ edit[e].what \in {"save", "delete"} => edit[e].on \in Profiles
        /\ edit[e].what \in {"key", "unkey"} => edit[e].on \in Publishers
    BY <1>3 DEF Concerns
  <2>5. ASSUME NEW q PROVE q \in kept' <=> q \in InList(config)' \/ q \in config'.keys
    BY <1>2, <1>11, <2>1, <2>2, <2>3, <2>4 DEF ConfigEdit
  <2>. QED  BY <2>5
<1>14. GrantsKept'
  BY <1>2 DEF GrantsKept
<1>. QED  BY <1>7, <1>10, <1>12, <1>13, <1>14

LEMMA BreakKeeps == ASSUME ConfigInv, NEW e \in Edits, BreaksOff(e) PROVE ConfigInv'
<1>. USE DEF ConfigInv
<1>1. PICK o : o = [what |-> edit[e].what, at |-> "over", on |-> edit[e].on, doc |-> NoDoc, records |-> {}, answer |-> {}]
  OBVIOUS
<1>2. /\ Busy(e) /\ breaks < MaxBreaks /\ breaks' = breaks + 1 /\ edit' = [edit EXCEPT ![e] = o]
      /\ partial' = IF edit[e].what \in {"save", "delete"} THEN partial \union {edit[e].on} ELSE partial
      /\ UNCHANGED <<config, secrets, trust, crossing, said, granted, kept>>
  BY <1>1 DEF BreaksOff, EditEnds, Holds
<1>3. edit[e] \in EditRecords /\ Concerns(edit[e])
  BY DEF ConfigTyped, EditHeld
<1>4. Moves(e, o)
  BY <1>1, <1>2, <1>3 DEF Moves, EditRecords, Busy, NoDoc, Docs
<1>5. EditHeld(o)'
  BY <1>1, <1>4, EndHeld
<1>6. Elsewhere(e)
  BY <1>2 DEF Elsewhere, ConfigEdit
<1>7. /\ edit' \in [Edits -> EditRecords] /\ Alone' /\ \A d \in Edits : EditHeld(edit[d])'
      /\ edit'[e] = o /\ \A d \in Edits \ {e} : edit'[d] = edit[d]
  BY <1>4, <1>5, <1>6, MovesKeeps
<1>8. breaks' \in 0 .. MaxBreaks
  BY <1>2, ConfigAssumption DEF ConfigTyped
<1>9. ConfigTyped'
  BY <1>2, <1>3, <1>7, <1>8 DEF ConfigTyped, GoodDoc, Docs, InList, Concerns
<1>10. SecretInv'
  <2>. SUFFICES ASSUME "config" \notin crossing', NEW p \in Profiles \ partial', Untouched(p)'
                PROVE  p \in InList(config)' <=> p \in secrets'
    BY DEF SecretInv
  <2>1. p \notin partial /\ ~(edit[e].what \in {"save", "delete"} /\ edit[e].on = p)
    BY <1>2
  <2>2. Untouched(p)
    BY <1>7, <2>1 DEF Untouched, Busy, Early
  <2>. QED  BY <1>2, <2>1, <2>2 DEF SecretInv, InList
<1>11. NothingLost' /\ GrantsKept'
  BY <1>2 DEF NothingLost, GrantsKept, InList
<1>. QED  BY <1>7, <1>9, <1>10, <1>11

\* An edit of the trust records leaves the configuration alone.
LEMMA TrustAlone ==
  ASSUME ConfigInv, NEW e \in Edits, NEW o, Moves(e, o), EditHeld(o)', edit[e].what \in TrustEdit,
         UNCHANGED <<config, secrets, partial, kept, breaks>>,
         trust' \subseteq Decisions, said' \subseteq Decisions, granted' \subseteq Bundles, GrantsKept'
  PROVE  ConfigInv'
<1>. USE DEF ConfigInv
<1>1. Elsewhere(e)
  BY DEF Elsewhere, TrustEdit, ConfigEdit
<1>2. /\ edit' \in [Edits -> EditRecords] /\ Alone' /\ \A d \in Edits : EditHeld(edit[d])'
      /\ edit'[e] = o /\ \A d \in Edits \ {e} : edit'[d] = edit[d]
  BY <1>1, MovesKeeps
<1>3. crossing' = crossing
  BY DEF Moves
<1>4. ConfigTyped'
  BY <1>2, <1>3 DEF ConfigTyped, GoodDoc, Docs, InList
<1>5. SecretInv'
  <2>1. ASSUME NEW p PROVE Untouched(p)' => Untouched(p)
    BY <1>2 DEF Untouched, Busy, Early, TrustEdit
  <2>. QED  BY <1>3, <2>1 DEF SecretInv, InList
<1>6. NothingLost'
  BY <1>3 DEF NothingLost, InList
<1>. QED  BY <1>2, <1>4, <1>5, <1>6

LEMMA LoadTrustKeeps == ASSUME ConfigInv, NEW e \in Edits, LoadTrust(e) PROVE ConfigInv'
<1>. USE DEF ConfigInv
<1>1. /\ edit[e].at = "load" /\ edit[e].what \in TrustEdit
      /\ UNCHANGED <<config, secrets, trust, crossing, partial, said, granted, kept, breaks>>
  BY DEF LoadTrust, TrustEdit
<1>2. edit[e] \in EditRecords /\ Concerns(edit[e]) /\ trust \subseteq Decisions /\ said \subseteq Decisions /\ granted \subseteq Bundles
  BY DEF ConfigTyped, EditHeld
<1>3. NoDoc \in Docs
  BY DEF NoDoc, Docs
<1>4. GrantsKept'
  BY <1>1 DEF GrantsKept
<1>5. \E o : Moves(e, o) /\ EditHeld(o)'
  <2>1. CASE edit[e].what = "revoke"
    <3>1. PICK o : o = [what |-> edit[e].what, at |-> "write", on |-> edit[e].on, doc |-> NoDoc,
                        records |-> Others(edit[e].on), answer |-> {}]
      OBVIOUS
    <3>2. edit' = [edit EXCEPT ![e] = o]
      BY <2>1, <3>1 DEF LoadTrust, Holds
    <3>3. Others(edit[e].on) \subseteq Decisions
      BY <1>2 DEF Others
    <3>4. Moves(e, o)
      BY <1>1, <1>2, <1>3, <3>1, <3>2, <3>3 DEF Moves, EditRecords, Busy
    <3>5. Keys(Others(edit[e].on)) = Keys(trust) \ {edit[e].on}
      BY DEF Keys, Others
    <3>6. TrustHeld(o)'
      BY <1>1, <2>1, <3>1, <3>5 DEF TrustHeld, Keys
    <3>7. Concerns(o)' /\ ConfigHeld(o)' /\ SecretHeld(o)'
      BY <1>1, <1>2, <2>1, <3>1 DEF Concerns, ConfigHeld, SecretHeld, TrustEdit, ConfigEdit
    <3>. QED  BY <3>4, <3>6, <3>7 DEF EditHeld
  <2>2. CASE edit[e].what # "revoke" /\ Onto(e, "asking")
    <3>1. PICK o : o = [what |-> edit[e].what, at |-> "asking", on |-> edit[e].on, doc |-> edit[e].doc,
                        records |-> edit[e].records, answer |-> edit[e].answer]
      OBVIOUS
    <3>2. edit' = [edit EXCEPT ![e] = o]
      BY <2>2, <3>1 DEF Onto, Holds
    <3>3. Moves(e, o)
      BY <1>1, <1>2, <3>1, <3>2 DEF Moves, EditRecords, Busy
    <3>4. EditHeld(o)'
      BY <1>1, <1>2, <2>2, <3>1 DEF EditHeld, Concerns, ConfigHeld, TrustHeld, SecretHeld, TrustEdit
    <3>. QED  BY <3>3, <3>4
  <2>3. ASSUME edit[e].what # "revoke", NEW r \in trust, r.key = edit[e].on, EditEnds(e, {[r EXCEPT !.key = edit[e].on]})
        PROVE  \E o : Moves(e, o) /\ EditHeld(o)'
    <3>1. PICK o : o = [what |-> edit[e].what, at |-> "over", on |-> edit[e].on, doc |-> NoDoc,
                        records |-> {}, answer |-> {[r EXCEPT !.key = edit[e].on]}]
      OBVIOUS
    <3>2. edit' = [edit EXCEPT ![e] = o]
      BY <2>3, <3>1 DEF EditEnds, Holds
    <3>3. [r EXCEPT !.key = edit[e].on] \in Decisions
      BY <1>2, <2>3 DEF Decisions
    <3>4. Moves(e, o)
      BY <1>1, <1>2, <1>3, <3>1, <3>2, <3>3 DEF Moves, EditRecords, Busy
    <3>. QED  BY <3>1, <3>4, EndHeld
  <2>. QED  BY <2>1, <2>2, <2>3 DEF LoadTrust, Matches
<1>6. PICK o : Moves(e, o) /\ EditHeld(o)'
  BY <1>5
<1>. QED  BY <1>1, <1>2, <1>4, <1>6, TrustAlone

LEMMA DecideKeeps == ASSUME ConfigInv, NEW e \in Edits, Decide(e) PROVE ConfigInv'
<1>. USE DEF ConfigInv
<1>1. /\ edit[e].at = "asking"
      /\ UNCHANGED <<config, secrets, trust, crossing, partial, granted, kept, breaks>>
  BY DEF Decide
<1>2. edit[e] \in EditRecords /\ Concerns(edit[e]) /\ trust \subseteq Decisions /\ said \subseteq Decisions /\ granted \subseteq Bundles
  BY DEF ConfigTyped, EditHeld
<1>3. edit[e].what = "authorize" /\ edit[e].on \in Bundles
  BY <1>1, <1>2 DEF Concerns, TrustEdit
<1>4. NoDoc \in Docs
  BY DEF NoDoc, Docs
<1>5. GrantsKept'
  BY <1>1 DEF GrantsKept
<1>6. \E o : Moves(e, o) /\ EditHeld(o)' /\ said' \subseteq Decisions
  <2>1. CASE EditEnds(e, {}) /\ UNCHANGED said
    <3>1. PICK o : o = [what |-> edit[e].what, at |-> "over", on |-> edit[e].on, doc |-> NoDoc, records |-> {}, answer |-> {}]
      OBVIOUS
    <3>2. edit' = [edit EXCEPT ![e] = o]
      BY <2>1, <3>1 DEF EditEnds, Holds
    <3>3. Moves(e, o)
      BY <1>1, <1>2, <1>4, <3>1, <3>2 DEF Moves, EditRecords, Busy
    <3>. QED  BY <1>2, <2>1, <3>1, <3>3, EndHeld
  <2>2. ASSUME NEW r \in Decisions, r.key = edit[e].on, said' = said \union {r}, Holds(e, "reload", NoDoc, {}, {r})
        PROVE  \E o : Moves(e, o) /\ EditHeld(o)' /\ said' \subseteq Decisions
    <3>1. PICK o : o = [what |-> edit[e].what, at |-> "reload", on |-> edit[e].on, doc |-> NoDoc, records |-> {}, answer |-> {r}]
      OBVIOUS
    <3>2. edit' = [edit EXCEPT ![e] = o]
      BY <2>2, <3>1 DEF Holds
    <3>3. Moves(e, o)
      BY <1>1, <1>2, <1>4, <3>1, <3>2 DEF Moves, EditRecords, Busy
    <3>4. EditHeld(o)'
      BY <1>3, <2>2, <3>1 DEF EditHeld, Concerns, ConfigHeld, TrustHeld, SecretHeld, TrustEdit
    <3>. QED  BY <1>2, <2>2, <3>3, <3>4
  <2>3. ASSUME NEW grants \in SUBSET Permissions, NEW allow \in BOOLEAN
        PROVE  [key |-> edit[e].on, grants |-> grants, unsigned |-> edit[e].on \notin Signed /\ allow] \in Decisions
    <3>1. (edit[e].on \notin Signed /\ allow) \in BOOLEAN
      OBVIOUS
    <3>. QED  BY <1>3, <3>1 DEF Decisions
  <2>4. \/ EditEnds(e, {}) /\ UNCHANGED said
        \/ \E r \in Decisions : r.key = edit[e].on /\ said' = said \union {r} /\ Holds(e, "reload", NoDoc, {}, {r})
    BY <2>3 DEF Decide
  <2>. QED  BY <2>1, <2>2, <2>4
<1>7. PICK o : Moves(e, o) /\ EditHeld(o)' /\ said' \subseteq Decisions
  BY <1>6
<1>. QED  BY <1>1, <1>2, <1>3, <1>5, <1>7, TrustAlone DEF TrustEdit

LEMMA ReloadKeeps == ASSUME ConfigInv, NEW e \in Edits, Reload(e) PROVE ConfigInv'
<1>. USE DEF ConfigInv
<1>1. PICK o : o = [what |-> edit[e].what, at |-> "write", on |-> edit[e].on, doc |-> NoDoc,
                    records |-> Others(edit[e].on) \union edit[e].answer, answer |-> edit[e].answer]
  OBVIOUS
<1>2. /\ edit[e].at = "reload" /\ edit' = [edit EXCEPT ![e] = o]
      /\ UNCHANGED <<config, secrets, trust, crossing, partial, said, granted, kept, breaks>>
  BY <1>1 DEF Reload, Holds
<1>3. edit[e] \in EditRecords /\ Concerns(edit[e]) /\ trust \subseteq Decisions /\ said \subseteq Decisions /\ granted \subseteq Bundles
  BY DEF ConfigTyped, EditHeld
<1>4. edit[e].what = "authorize"
  BY <1>2, <1>3 DEF Concerns
<1>5. PICK r \in Decisions : edit[e].answer = {r} /\ r.key = edit[e].on
  BY <1>2, <1>3 DEF Concerns
<1>6. o.records \subseteq Decisions /\ Keys(o.records) = Keys(trust) \union {edit[e].on}
  BY <1>1, <1>3, <1>5 DEF Others, Keys
<1>7. Moves(e, o)
  BY <1>1, <1>2, <1>3, <1>6 DEF Moves, EditRecords, Busy, NoDoc, Docs
<1>8. TrustHeld(o)'
  BY <1>1, <1>2, <1>4, <1>6 DEF TrustHeld, Keys
<1>9. Concerns(o)' /\ ConfigHeld(o)' /\ SecretHeld(o)'
  BY <1>1, <1>2, <1>3, <1>4 DEF Concerns, ConfigHeld, SecretHeld, TrustEdit, ConfigEdit
<1>10. GrantsKept'
  BY <1>2 DEF GrantsKept
<1>. QED  BY <1>2, <1>3, <1>4, <1>7, <1>8, <1>9, <1>10, TrustAlone DEF EditHeld, TrustEdit

LEMMA WriteTrustKeeps == ASSUME ConfigInv, NEW e \in Edits, WriteTrust(e) PROVE ConfigInv'
<1>. USE DEF ConfigInv
<1>0. PICK a \in {edit[e].answer, {}} : EditEnds(e, a)
  BY DEF WriteTrust, Renamed
<1>1. PICK o : o = [what |-> edit[e].what, at |-> "over", on |-> edit[e].on, doc |-> NoDoc, records |-> {}, answer |-> a]
  OBVIOUS
<1>2. /\ edit[e].at = "write" /\ edit[e].what \notin ConfigEdit /\ trust' = edit[e].records /\ edit' = [edit EXCEPT ![e] = o]
      /\ granted' = IF edit[e].what = "revoke" THEN granted \ {edit[e].on} ELSE granted \union {edit[e].on}
      /\ UNCHANGED <<config, secrets, crossing, partial, said, kept, breaks>>
  BY <1>0, <1>1 DEF WriteTrust, EditEnds, Holds
<1>3. edit[e] \in EditRecords /\ Concerns(edit[e]) /\ TrustHeld(edit[e]) /\ said \subseteq Decisions /\ granted \subseteq Bundles
  BY DEF ConfigTyped, EditHeld
<1>4. edit[e].what \in TrustEdit /\ edit[e].on \in Bundles
  BY <1>2, <1>3 DEF Concerns, EditRecords
<1>5. edit[e].answer \subseteq Decisions /\ a \subseteq Decisions
  BY <1>3 DEF EditRecords
<1>6. Moves(e, o)
  BY <1>1, <1>2, <1>3, <1>5 DEF Moves, EditRecords, Busy, NoDoc, Docs
<1>7. EditHeld(o)'
  BY <1>1, <1>6, EndHeld
<1>8. trust' \subseteq Decisions /\ granted' \subseteq Bundles
  BY <1>2, <1>3, <1>4 DEF EditRecords
<1>9. GrantsKept'
  <2>. SUFFICES ASSUME "trust" \notin crossing' PROVE Keys(trust') = granted'
    BY DEF GrantsKept, Keys
  <2>1. Keys(trust) = granted
    BY <1>2 DEF GrantsKept, Keys
  <2>2. Keys(trust') = IF edit[e].what = "revoke" THEN Keys(trust) \ {edit[e].on} ELSE Keys(trust) \union {edit[e].on}
    BY <1>2, <1>3, <1>4 DEF TrustHeld
  <2>. QED  BY <1>2, <2>1, <2>2
<1>. QED  BY <1>2, <1>3, <1>4, <1>6, <1>7, <1>8, <1>9, TrustAlone

LEMMA BeginsKeeps ==
  ASSUME ConfigInv, NEW e \in Edits, NEW what \in ConfigEdit \union TrustEdit, NEW on, NEW at, StartEdit(e, what, on, at),
         what \in {"save", "select", "delete"} => on \in Profiles, what \in {"key", "unkey"} => on \in Publishers,
         what \in TrustEdit => on \in Bundles,
         at = "load" \/ (at = "secret" /\ what = "save"),
         what = "save" /\ at = "load" => on \in InList(config)
  PROVE  ConfigInv'
<1>. USE DEF ConfigInv
<1>1. PICK o : o = [what |-> what, at |-> at, on |-> on, doc |-> NoDoc, records |-> {}, answer |-> {}]
  OBVIOUS
<1>2. /\ edit[e].at = "idle" /\ edit' = [edit EXCEPT ![e] = o]
      /\ crossing' = crossing \union {Doc(what) : d \in {d \in Edits : Busy(d) /\ Doc(edit[d].what) = Doc(what)}}
      /\ UNCHANGED <<config, secrets, trust, partial, said, granted, kept, breaks>>
  BY <1>1 DEF StartEdit
<1>3. edit \in [Edits -> EditRecords] /\ ~Busy(e)
  BY <1>2 DEF ConfigTyped, Busy
<1>4. o \in EditRecords
  <2>1. on \in Profiles \union Publishers \union Bundles
    BY DEF ConfigEdit, TrustEdit
  <2>2. NoDoc \in Docs
    BY DEF NoDoc, Docs
  <2>. QED  BY <1>1, <2>1, <2>2 DEF EditRecords
<1>5. edit' \in [Edits -> EditRecords] /\ edit'[e] = o /\ \A d \in Edits \ {e} : edit'[d] = edit[d]
  BY <1>2, <1>3, <1>4
<1>6. /\ crossing \subseteq crossing' /\ crossing' \subseteq {"config", "trust"}
      /\ Doc(what) \notin crossing' => \A d \in Edits : Busy(d) => Doc(edit[d].what) # Doc(what)
  BY <1>2 DEF ConfigTyped, Doc
<1>7. Alone'
  <2>1. ASSUME NEW d \in Edits \ {e}, Busy(d), edit[d].what \in ConfigEdit <=> what \in ConfigEdit PROVE Doc(what) \in crossing'
    BY <1>6, <2>1 DEF Doc
  <2>2. \A d \in Edits \ {e} : Busy(d)' <=> Busy(d)
    BY <1>5 DEF Busy
  <2>3. edit'[e].what = what
    BY <1>1, <1>5
  <2>4. ASSUME NEW c \in Edits, NEW d \in Edits, Busy(c)', Busy(d)', Same(c, d)', Doc(edit[d].what)' \notin crossing' PROVE c = d
    <3>1. CASE c # e /\ d # e
      BY <1>5, <1>6, <2>2, <2>4, <3>1 DEF Alone, Same
    <3>2. CASE c = e /\ d # e
      <4>1. Busy(d) /\ (edit[d].what \in ConfigEdit <=> what \in ConfigEdit) /\ edit'[d] = edit[d]
        BY <1>5, <2>2, <2>3, <2>4, <3>2 DEF Same
      <4>2. Doc(edit'[d].what) = Doc(what)
        BY <4>1 DEF Doc
      <4>. QED  BY <2>1, <2>4, <3>2, <4>1, <4>2
    <3>3. CASE c # e /\ d = e
      <4>1. Busy(c) /\ (edit[c].what \in ConfigEdit <=> what \in ConfigEdit)
        BY <1>5, <2>2, <2>3, <2>4, <3>3 DEF Same
      <4>. QED  BY <2>1, <2>3, <2>4, <3>3, <4>1
    <3>. QED  BY <3>1, <3>2, <3>3
  <2>. QED  BY <2>4 DEF Alone
<1>8. ASSUME NEW d \in Edits \ {e} PROVE EditHeld(edit[d])'
  <2>1. EditHeld(edit[d]) /\ edit'[d] = edit[d]
    BY <1>5
  <2>2. Concerns(edit[d])'
    BY <2>1 DEF EditHeld, Concerns, Decisions
  <2>3. ConfigHeld(edit[d])'
    BY <1>2, <1>6, <2>1 DEF EditHeld, ConfigHeld
  <2>4. TrustHeld(edit[d])' /\ SecretHeld(edit[d])'
    BY <1>2, <1>6, <2>1 DEF EditHeld, TrustHeld, SecretHeld
  <2>. QED  BY <2>2, <2>3, <2>4 DEF EditHeld
<1>9. ASSUME NEW p, Untouched(p)' PROVE Untouched(p)
  BY <1>3, <1>5, <1>9 DEF Untouched, Busy, Early
<1>10. EditHeld(o)'
  <2>1. Concerns(o)'
    BY <1>1 DEF Concerns, ConfigEdit, TrustEdit
  <2>2. ConfigHeld(o)' /\ TrustHeld(o)'
    BY <1>1 DEF ConfigHeld, TrustHeld
  <2>3. ASSUME "config" \notin crossing', what = "save", at = "load", on \notin partial PROVE on \in secrets
    <3>1. "config" \notin crossing /\ \A d \in Edits : Busy(d) => edit[d].what \notin ConfigEdit
      BY <1>6, <2>3 DEF Doc, ConfigEdit
    <3>2. Untouched(on)
      BY <3>1 DEF Untouched, ConfigEdit
    <3>. QED  BY <2>3, <3>1, <3>2 DEF SecretInv
  <2>4. SecretHeld(o)'
    BY <1>1, <1>2, <2>3 DEF SecretHeld
  <2>. QED  BY <2>1, <2>2, <2>4 DEF EditHeld
<1>11. \A d \in Edits : EditHeld(edit[d])'
  <2>1. EditHeld(edit[e])'
    BY <1>5, <1>10
  <2>. QED  BY <1>8, <2>1
<1>12. ConfigTyped'
  BY <1>2, <1>5, <1>6 DEF ConfigTyped, GoodDoc, Docs, InList
<1>13. SecretInv'
  BY <1>2, <1>6, <1>9 DEF SecretInv, InList
<1>14. NothingLost' /\ GrantsKept'
  BY <1>2, <1>6 DEF NothingLost, GrantsKept, InList
<1>. QED  BY <1>7, <1>11, <1>12, <1>13, <1>14

LEMMA ConfigInvInit == ConfigInit => ConfigInv
<1>. SUFFICES ASSUME ConfigInit PROVE ConfigInv
  OBVIOUS
<1>1. GoodDoc(config)
  <2>1. CASE config = NoDoc
    BY <2>1 DEF GoodDoc, Docs, NoDoc, IsInjective, InList
  <2>2. ASSUME NEW p \in Profiles, config = [NoDoc EXCEPT !.providers = <<p>>, !.selected = p] PROVE GoodDoc(config)
    <3>1. config = [providers |-> <<p>>, selected |-> p, keys |-> {}]
      BY <2>2 DEF NoDoc
    <3>2. <<p>> \in Seq(Profiles) /\ IsInjective(<<p>>) /\ <<p>> # <<>> /\ p \in {<<p>>[i] : i \in DOMAIN <<p>>}
      BY DEF IsInjective
    <3>. QED  BY <3>1, <3>2, ConfigAssumption DEF GoodDoc, Docs, InList
  <2>. QED  BY <2>1, <2>2 DEF ConfigInit
<1>2. InList(config) \subseteq Profiles /\ config.keys = {}
  <2>1. config.providers \in Seq(Profiles)
    BY <1>1 DEF GoodDoc, Docs
  <2>2. InList(config) \subseteq Profiles
    BY <2>1, LenProperties DEF InList
  <2>3. config.keys = {}
    <3>1. NoDoc.keys = {} /\ \A p : [NoDoc EXCEPT !.providers = <<p>>, !.selected = p].keys = {}
      BY DEF NoDoc
    <3>. QED  BY <3>1 DEF ConfigInit
  <2>. QED  BY <2>2, <2>3
<1>3. trust \subseteq Decisions
  <2>1. \A k \in Bundles : [key |-> k, grants |-> {}, unsigned |-> FALSE] \in Decisions
    BY DEF Decisions
  <2>. QED  BY <2>1 DEF ConfigInit
<1>4. edit = [e \in Edits |-> Unused]
  BY DEF ConfigInit
<1>5. edit \in [Edits -> EditRecords]
  <2>1. Unused \in EditRecords
    BY DEF Unused, EditRecords, NoDoc, Docs
  <2>. QED  BY <1>4, <2>1
<1>6. granted \subseteq Bundles
  BY <1>3 DEF ConfigInit, Decisions
<1>7. ConfigTyped
  <2>1. secrets = InList(config) /\ said = trust /\ crossing = {} /\ partial = {} /\ breaks = 0
    BY DEF ConfigInit
  <2>2. 0 \in 0 .. MaxBreaks
    BY ConfigAssumption
  <2>. QED  BY <1>1, <1>2, <1>3, <1>5, <1>6, <2>1, <2>2 DEF ConfigTyped
<1>8. \A e \in Edits : EditHeld(edit[e]) /\ ~Busy(e)
  <2>1. \A e \in Edits : edit[e] = Unused
    BY <1>4
  <2>2. EditHeld(Unused)
    BY DEF EditHeld, Concerns, ConfigHeld, TrustHeld, SecretHeld, Unused, TrustEdit
  <2>. QED  BY <2>1, <2>2 DEF Busy, Unused
<1>9. Alone /\ SecretInv
  BY <1>8 DEF Alone, SecretInv, ConfigInit
<1>10. NothingLost /\ GrantsKept
  BY <1>2 DEF ConfigInit, NothingLost, GrantsKept
<1>. QED  BY <1>7, <1>8, <1>9, <1>10 DEF ConfigInv

LEMMA ConfigKeeps == ASSUME ConfigInv, [ConfigNext]_configVars PROVE ConfigInv'
<1>1. ASSUME NEW e \in Edits, Begins(e) PROVE ConfigInv'
  <2>1. CASE \E p \in Profiles : \/ StartEdit(e, "save", p, "secret") \/ StartEdit(e, "delete", p, "load")
                                 \/ (p \in InList(config) /\ StartEdit(e, "save", p, "load"))
                                 \/ StartEdit(e, "select", p, "load")
    BY <2>1, BeginsKeeps DEF ConfigEdit, TrustEdit
  <2>2. CASE \E i \in Publishers : StartEdit(e, "key", i, "load") \/ StartEdit(e, "unkey", i, "load")
    BY <2>2, BeginsKeeps DEF ConfigEdit, TrustEdit
  <2>3. CASE \E k \in Bundles : StartEdit(e, "authorize", k, "load") \/ StartEdit(e, "revoke", k, "load")
    BY <2>3, BeginsKeeps DEF ConfigEdit, TrustEdit
  <2>. QED  BY <1>1, <2>1, <2>2, <2>3 DEF Begins
<1>2. CASE UNCHANGED configVars
  <2>1. UNCHANGED <<config, secrets, trust, edit, crossing, partial, said, granted, kept, breaks>>
    BY <1>2 DEF configVars
  <2>2. ASSUME NEW e \in Edits, EditHeld(edit[e]) PROVE EditHeld(edit[e])'
    BY <2>1, <2>2 DEF EditHeld, Concerns, ConfigHeld, TrustHeld, SecretHeld
  <2>3. ConfigTyped' /\ Alone' /\ SecretInv' /\ NothingLost' /\ GrantsKept'
    BY <2>1 DEF ConfigInv, ConfigTyped, GoodDoc, Docs, InList, Alone, Same, Busy, SecretInv, Untouched, Early, NothingLost,
                GrantsKept
  <2>. QED  BY <2>2, <2>3 DEF ConfigInv
<1>. QED  BY <1>1, <1>2, SecretBegins, LoadKeeps, WriteKeeps, LoadTrustKeeps, DecideKeeps, ReloadKeeps, WriteTrustKeeps,
             BreakKeeps DEF ConfigNext

\* Whatever edits cross and wherever they break off, config.json selects one of its
\* profiles; and as long as none crossed, the profiles, their secrets, the publishers and
\* the grants are those that the finished edits left.
THEOREM ConfigIsKept == ConfigSpec => []ConfigKept
<1>1. ConfigInv => ConfigKept
  <2>. SUFFICES ASSUME ConfigInv PROVE ConfigKept
    OBVIOUS
  <2>1. ConfigTyped /\ (\A e \in Edits : edit[e] \in EditRecords)
    BY DEF ConfigInv, ConfigTyped
  <2>2. ConfigTypeOK
    BY <2>1 DEF ConfigTyped, GoodDoc, Docs, EditRecords, ConfigEdit, TrustEdit, ConfigTypeOK
  <2>3. SelectedListed
    BY <2>1 DEF ConfigTyped, GoodDoc, SelectedListed
  <2>4. SecretsKept
    <3>. SUFFICES ASSUME "config" \notin crossing, NEW p \in Profiles \ partial, \A e \in Edits : Busy(e) => edit[e].on # p
                  PROVE  p \in InList(config) <=> p \in secrets
      BY DEF SecretsKept
    <3>1. Untouched(p)
      BY DEF Untouched
    <3>. QED  BY <3>1 DEF ConfigInv, SecretInv
  <2>. QED  BY <2>2, <2>3, <2>4 DEF ConfigKept, ConfigInv
<1>2. ConfigInv /\ [ConfigNext]_configVars => ConfigInv'
  BY ConfigKeeps
<1>. QED  BY <1>1, <1>2, ConfigInvInit, PTL DEF ConfigSpec

-----------------------------------------------------------------------------
(* The files of plugins.                                                   *)

At == {"idle", "choosing", "chosen", "sized", "bytes", "temp", "over"}
UseRecords == [op : Written \union {"read", "none"}, at : At, path : Files \union {Absent},
               bytes : Seq({0} \union Uses), ok : BOOLEAN]
Unplaced == {"idle", "choosing"}
Placed == {"chosen", "sized", "bytes", "temp"}
Composed == {"bytes", "temp"}

Typed ==
  /\ use \in [Uses -> UseRecords] /\ DOMAIN disk = Files /\ handles \in [Uses -> Files \union {Absent}]
  /\ \A f \in Files : disk[f] = Gone \/ (disk[f] \in Seq({0} \union Uses) /\ Len(disk[f]) <= MaxFileLen)
  /\ temps \subseteq Uses /\ picked \subseteq Files /\ lost \subseteq Files /\ refused \in 0 .. MaxRefused

\* The texts of s are of uses that were directed to the selected file f.
TextsFor(s, f) == \A v \in Uses : v \in Range(s) => use[v].path = f /\ use[v].at \notin Unplaced
Succeeded(v, f) == use[v].op = "append" /\ use[v].ok /\ use[v].path = f

PathInv ==
  /\ \A t \in Uses : handles[t] # Absent => handles[t] \in picked
  /\ \A u \in Uses : use[u].at \in Placed => use[u].path \in picked
DiskInv ==
  \A f \in Files : /\ TextsFor(disk[f], f)
                   /\ (\E v \in Uses : v \in Range(disk[f])) => f \in picked
                   /\ f \notin lost => \A v \in Uses : Succeeded(v, f) => v \in Range(disk[f])
BytesOf(u, what, path, bytes) ==
  /\ what \in Written /\ u \in Range(bytes) /\ Len(bytes) <= MaxFileLen
  /\ what = "append" /\ path \notin lost => \A v \in Uses : Succeeded(v, path) => v \in Range(bytes)
BytesInv ==
  \A u \in Uses : use[u].at \in Composed =>
    BytesOf(u, use[u].op, use[u].path, use[u].bytes) /\ TextsFor(use[u].bytes, use[u].path)
OkInv == \A u \in Uses : use[u].ok => use[u].path \in Files
ReadInv == \A u \in Uses : use[u].at = "sized" => use[u].op = "read"

HostInv == Typed /\ PathInv /\ DiskInv /\ BytesInv /\ OkInv /\ ReadInv

\* What use u may hold before it renames: those bytes, of uses directed to its path.
Fits(u, what, at, path, bytes) ==
  at \in Composed =>
    /\ BytesOf(u, what, path, bytes)
    /\ \A v \in Uses \ {u} : v \in Range(bytes) => use[v].path = path /\ use[v].at \notin Unplaced

LEMMA HostImplies == HostInv => HostTypeOK /\ OnlyPicked /\ AppendKeeps
<1>. SUFFICES ASSUME HostInv PROVE HostTypeOK /\ OnlyPicked /\ AppendKeeps
  OBVIOUS
<1>1. HostTypeOK
  BY DEF HostInv, Typed, UseRecords, At, HostTypeOK
<1>2. OnlyPicked
  BY DEF HostInv, DiskInv, TextsFor, OnlyPicked
<1>3. AppendKeeps
  BY DEF HostInv, DiskInv, OkInv, Succeeded, AppendKeeps
<1>. QED  BY <1>1, <1>2, <1>3

\* A step of one use that leaves the files alone.
LEMMA StepKeeps ==
  ASSUME HostInv, NEW u \in Uses, NEW what, NEW at, NEW path, NEW bytes, NEW ok,
         Goes(u, what, at, path, bytes, ok), UNCHANGED <<disk, lost>>,
         [op |-> what, at |-> at, path |-> path, bytes |-> bytes, ok |-> ok] \in UseRecords,
         picked \subseteq picked', picked' \subseteq Files, temps' \subseteq Uses, refused' \in 0 .. MaxRefused,
         handles' \in [Uses -> Files \union {Absent}],
         \A t \in Uses : handles'[t] # Absent => handles'[t] \in picked',
         use[u].at \notin Unplaced => path = use[u].path /\ at \notin Unplaced,
         at \in Placed => path \in picked',
         Fits(u, what, at, path, bytes),
         ok => what = "read" /\ path \in Files, at = "sized" => what = "read"
  PROVE  HostInv'
<1>1. /\ use'[u] = [op |-> what, at |-> at, path |-> path, bytes |-> bytes, ok |-> ok]
      /\ \A v \in Uses \ {u} : use'[v] = use[v]
      /\ use' \in [Uses -> UseRecords]
  BY DEF HostInv, Typed, Goes
<1>2. /\ use'[u].op = what /\ use'[u].at = at /\ use'[u].path = path /\ use'[u].bytes = bytes /\ use'[u].ok = ok
  BY <1>1
<1>3. \A v \in Uses : \A f : Succeeded(v, f)' => Succeeded(v, f)
  BY <1>1, <1>2 DEF Succeeded
<1>4. \A s, f : TextsFor(s, f) => TextsFor(s, f)'
  BY <1>1, <1>2 DEF TextsFor
<1>5. Typed'
  BY <1>1 DEF HostInv, Typed
<1>6. PathInv'
  BY <1>1, <1>2 DEF HostInv, PathInv
<1>7. DiskInv'
  <2>. SUFFICES ASSUME NEW f \in Files
                PROVE  /\ TextsFor(disk[f], f)' /\ ((\E v \in Uses : v \in Range(disk'[f])) => f \in picked')
                       /\ (f \notin lost' => \A v \in Uses : Succeeded(v, f)' => v \in Range(disk'[f]))
    BY DEF DiskInv
  <2>0. TextsFor(disk[f], f) /\ disk'[f] = disk[f] /\ ((\E v \in Uses : v \in Range(disk[f])) => f \in picked)
    BY DEF HostInv, DiskInv
  <2>1. TextsFor(disk[f], f)' /\ ((\E v \in Uses : v \in Range(disk'[f])) => f \in picked')
    BY <1>4, <2>0
  <2>2. f \notin lost' => \A v \in Uses : Succeeded(v, f)' => v \in Range(disk'[f])
    BY <1>3 DEF HostInv, DiskInv
  <2>. QED  BY <2>1, <2>2
<1>8. BytesInv'
  <2>. SUFFICES ASSUME NEW w \in Uses, use'[w].at \in Composed
                PROVE  BytesOf(w, use[w].op, use[w].path, use[w].bytes)' /\ TextsFor(use[w].bytes, use[w].path)'
    BY DEF BytesInv
  <2>1. CASE w = u
    <3>1. BytesOf(u, what, path, bytes)'
      BY <1>2, <1>3, <2>1 DEF BytesOf, Fits
    <3>2. TextsFor(bytes, path)'
      BY <1>1, <1>2, <2>1 DEF TextsFor, Fits, Composed, Unplaced
    <3>. QED  BY <1>2, <2>1, <3>1, <3>2
  <2>2. CASE w # u
    <3>1. BytesOf(w, use[w].op, use[w].path, use[w].bytes) /\ TextsFor(use[w].bytes, use[w].path)
      BY <1>1, <2>2 DEF HostInv, BytesInv
    <3>2. BytesOf(w, use[w].op, use[w].path, use[w].bytes)'
      BY <1>1, <1>3, <2>2, <3>1 DEF BytesOf
    <3>3. TextsFor(use[w].bytes, use[w].path)'
      BY <1>1, <1>4, <2>2, <3>1
    <3>. QED  BY <3>2, <3>3
  <2>. QED  BY <2>1, <2>2
<1>9. OkInv'
  BY <1>1, <1>2 DEF HostInv, OkInv
<1>10. ReadInv'
  BY <1>1, <1>2 DEF HostInv, ReadInv
<1>. QED  BY <1>5, <1>6, <1>7, <1>8, <1>9, <1>10 DEF HostInv

\* A step that composes the bytes of a use, or puts them into its temporary file.
LEMMA BytesKeeps ==
  ASSUME HostInv, NEW u \in Uses, NEW what, NEW at, NEW path, NEW bytes,
         Goes(u, what, at, path, bytes, FALSE), Fits(u, what, at, path, bytes),
         [op |-> what, at |-> at, path |-> path, bytes |-> bytes, ok |-> FALSE] \in UseRecords,
         at \notin Unplaced, at # "sized", path = use[u].path, path \in picked,
         temps' \subseteq Uses, UNCHANGED <<disk, handles, picked, lost, refused>>
  PROVE  HostInv'
BY StepKeeps DEF HostInv, Typed, PathInv

\* The rename: the file becomes the bytes of the use, and a write that replaces the file
\* or crosses another marks the file as lost.
LEMMA RenameKeeps == ASSUME HostInv, NEW u \in Uses, RenameTemp(u) PROVE HostInv'
<1>. DEFINE f == use[u].path  o == use[u]
<1>0. /\ use[u] \in UseRecords /\ use[u].at = "temp" /\ f \in picked /\ f \in Files
      /\ BytesOf(u, o.op, f, o.bytes) /\ TextsFor(o.bytes, f)
  BY DEF HostInv, Typed, PathInv, BytesInv, RenameTemp, Placed, Composed, UseRecords
<1>1. /\ use' = [use EXCEPT ![u] = [op |-> o.op, at |-> "over", path |-> f, bytes |-> <<>>, ok |-> TRUE]]
      /\ disk' = [disk EXCEPT ![f] = o.bytes] /\ temps' = temps \ {u} /\ UNCHANGED <<handles, picked, refused>>
      /\ lost' = IF o.op = "replace" \/ Crossed(u) # {} THEN lost \union {f} ELSE lost
  BY DEF RenameTemp, Returns, Goes
<1>2. /\ \A v \in Uses \ {u} : use'[v] = use[v]
      /\ use'[u].op = o.op /\ use'[u].at = "over" /\ use'[u].path = f /\ use'[u].ok
  BY <1>1 DEF HostInv, Typed
<1>3. disk'[f] = o.bytes /\ \A g \in Files \ {f} : disk'[g] = disk[g]
  BY <1>0, <1>1 DEF HostInv, Typed
<1>4. \A s, g : TextsFor(s, g) => TextsFor(s, g)'
  BY <1>0, <1>2 DEF TextsFor, Unplaced
<1>5. \A v \in Uses : \A g : Succeeded(v, g)' => Succeeded(v, g) \/ (v = u /\ g = f)
  BY <1>2 DEF Succeeded
<1>6. Typed'
  <2>1. [op |-> o.op, at |-> "over", path |-> f, bytes |-> <<>>, ok |-> TRUE] \in UseRecords
    BY <1>0 DEF UseRecords, At
  <2>2. use' \in [Uses -> UseRecords]
    BY <1>1, <2>1 DEF HostInv, Typed
  <2>3. o.bytes \in Seq({0} \union Uses) /\ Len(o.bytes) <= MaxFileLen
    BY <1>0 DEF UseRecords, BytesOf
  <2>4. DOMAIN disk' = Files
    BY <1>1 DEF HostInv, Typed
  <2>5. \A g \in Files : disk'[g] = Gone \/ (disk'[g] \in Seq({0} \union Uses) /\ Len(disk'[g]) <= MaxFileLen)
    BY <1>3, <2>3 DEF HostInv, Typed
  <2>. QED  BY <1>0, <1>1, <2>2, <2>4, <2>5 DEF HostInv, Typed
<1>7. PathInv'
  BY <1>1, <1>2 DEF HostInv, PathInv, Placed
<1>8. DiskInv'
  <2>. SUFFICES ASSUME NEW g \in Files
                PROVE  /\ TextsFor(disk[g], g)' /\ ((\E v \in Uses : v \in Range(disk'[g])) => g \in picked')
                       /\ (g \notin lost' => \A v \in Uses : Succeeded(v, g)' => v \in Range(disk'[g]))
    BY DEF DiskInv
  <2>1. CASE g = f
    <3>1. g \notin lost' => g \notin lost /\ o.op = "append"
      BY <1>0, <1>1, <2>1 DEF BytesOf, Written
    <3>2. TextsFor(disk[g], g)'
      BY <1>0, <1>3, <1>4, <2>1
    <3>3. g \notin lost' => \A v \in Uses : Succeeded(v, g)' => v \in Range(disk'[g])
      BY <1>0, <1>3, <1>5, <2>1, <3>1 DEF BytesOf
    <3>. QED  BY <1>0, <1>1, <2>1, <3>2, <3>3
  <2>2. CASE g # f
    <3>1. TextsFor(disk[g], g) /\ disk'[g] = disk[g]
      BY <1>3, <2>2 DEF HostInv, DiskInv
    <3>2. TextsFor(disk[g], g)'
      BY <1>4, <3>1
    <3>3. g \notin lost' => g \notin lost
      BY <1>1
    <3>4. g \notin lost' => \A v \in Uses : Succeeded(v, g)' => v \in Range(disk'[g])
      BY <1>5, <2>2, <3>1, <3>3 DEF HostInv, DiskInv
    <3>5. (\E v \in Uses : v \in Range(disk'[g])) => g \in picked'
      BY <1>1, <3>1 DEF HostInv, DiskInv
    <3>. QED  BY <3>2, <3>4, <3>5
  <2>. QED  BY <2>1, <2>2
<1>9. BytesInv'
  <2>. SUFFICES ASSUME NEW w \in Uses, use'[w].at \in Composed
                PROVE  BytesOf(w, use[w].op, use[w].path, use[w].bytes)' /\ TextsFor(use[w].bytes, use[w].path)'
    BY DEF BytesInv
  <2>1. w # u /\ use'[w] = use[w]
    BY <1>2 DEF Composed
  <2>2. BytesOf(w, use[w].op, use[w].path, use[w].bytes) /\ TextsFor(use[w].bytes, use[w].path)
    BY <2>1 DEF HostInv, BytesInv
  <2>3. use[w].path \notin lost' => use[w].path # f /\ use[w].path \notin lost
    BY <1>1, <2>1 DEF Crossed, Composed
  <2>4. BytesOf(w, use[w].op, use[w].path, use[w].bytes)'
    BY <1>5, <2>1, <2>2, <2>3 DEF BytesOf
  <2>. QED  BY <1>4, <2>1, <2>2, <2>4
<1>10. OkInv'
  BY <1>0, <1>2 DEF HostInv, OkInv
<1>11. ReadInv'
  BY <1>1, <1>2 DEF HostInv, ReadInv
<1>. QED  BY <1>6, <1>7, <1>8, <1>9, <1>10, <1>11 DEF HostInv

\* Append reads the whole file and adds its text.
LEMMA AppendRange ==
  ASSUME NEW S, NEW s \in Seq(S), NEW u \in S
  PROVE  s \o <<u>> \in Seq(S) /\ Range(s \o <<u>>) = Range(s) \union {u}
<1>1. <<u>> \in Seq(S) /\ Len(<<u>>) = 1 /\ <<u>>[1] = u
  OBVIOUS
<1>2. /\ s \o <<u>> \in Seq(S) /\ Len(s \o <<u>>) = Len(s) + 1
      /\ \A i \in 1 .. Len(s) + 1 : (s \o <<u>>)[i] = IF i <= Len(s) THEN s[i] ELSE u
  BY <1>1
<1>3. Len(s) \in Nat /\ DOMAIN s = 1 .. Len(s) /\ DOMAIN (s \o <<u>>) = 1 .. Len(s) + 1
  BY <1>2, LenProperties
<1>4. Range(s \o <<u>>) \subseteq Range(s) \union {u}
  BY <1>2, <1>3 DEF Range
<1>5. ASSUME NEW i \in 1 .. Len(s) PROVE s[i] \in Range(s \o <<u>>)
  <2>1. i \in 1 .. Len(s) + 1 /\ (s \o <<u>>)[i] = s[i]
    BY <1>2, <1>3
  <2>. QED  BY <1>3, <2>1 DEF Range
<1>6. u \in Range(s \o <<u>>)
  <2>1. Len(s) + 1 \in 1 .. Len(s) + 1 /\ (s \o <<u>>)[Len(s) + 1] = u
    BY <1>2, <1>3
  <2>. QED  BY <1>3, <2>1 DEF Range
<1>. QED  BY <1>2, <1>3, <1>4, <1>5, <1>6 DEF Range

LEMMA ComposeKeeps == ASSUME HostInv, NEW u \in Uses, Compose(u) PROVE HostInv'
<1>. DEFINE o == use[u]
            old == IF o.op = "append" THEN OldText(o.path) ELSE <<>>
            bytes == old \o <<u>>
<1>0. /\ o \in UseRecords /\ o.at = "chosen" /\ o.op \in Written /\ o.path \in picked /\ o.path \in Files
      /\ UNCHANGED <<disk, handles, temps, picked, lost, refused>>
  BY DEF HostInv, Typed, PathInv, Compose, Placed
<1>1. old \in Seq({0} \union Uses) /\ \A v \in Uses : v \in Range(old) => o.op = "append" /\ v \in Range(disk[o.path])
  <2>1. CASE o.op = "append" /\ disk[o.path] # Gone
    <3>1. old = disk[o.path]
      BY <2>1 DEF OldText
    <3>2. disk[o.path] \in Seq({0} \union Uses)
      BY <1>0, <2>1 DEF HostInv, Typed
    <3>. QED  BY <2>1, <3>1, <3>2
  <2>2. CASE ~(o.op = "append" /\ disk[o.path] # Gone)
    <3>1. old = <<>>
      BY <2>2 DEF OldText
    <3>2. <<>> \in Seq({0} \union Uses)
      OBVIOUS
    <3>3. \A v : v \notin Range(<<>>)
      BY DEF Range
    <3>. QED  BY <3>1, <3>2, <3>3
  <2>. QED  BY <2>1, <2>2
<1>. HIDE DEF old
<1>2. bytes \in Seq({0} \union Uses) /\ Range(bytes) = Range(old) \union {u}
  <2>1. u \in {0} \union Uses
    OBVIOUS
  <2>2. old \o <<u>> \in Seq({0} \union Uses) /\ Range(old \o <<u>>) = Range(old) \union {u}
    BY <1>1, <2>1, AppendRange
  <2>. QED  BY <2>2
<1>. HIDE DEF bytes
<1>3. CASE OverLimit(bytes)
  <2>1. Goes(u, o.op, "over", o.path, <<>>, FALSE)
    BY <1>3 DEF Compose, Returns, bytes, old
  <2>2. [op |-> o.op, at |-> "over", path |-> o.path, bytes |-> <<>>, ok |-> FALSE] \in UseRecords
    BY <1>0 DEF UseRecords, At
  <2>. QED  BY <1>0, <2>1, <2>2, StepKeeps DEF HostInv, Typed, PathInv, Unplaced, Placed, Composed, Fits
<1>4. CASE ~OverLimit(bytes)
  <2>1. Goes(u, o.op, "bytes", o.path, bytes, FALSE)
    BY <1>4 DEF Compose, bytes, old
  <2>2. [op |-> o.op, at |-> "bytes", path |-> o.path, bytes |-> bytes, ok |-> FALSE] \in UseRecords
    BY <1>0, <1>2 DEF UseRecords, At
  <2>3. Len(bytes) <= MaxFileLen
    <3>1. Len(bytes) \in Nat
      BY <1>2, LenProperties
    <3>. QED  BY <1>4, <3>1, HostAssumption DEF OverLimit
  <2>4. ASSUME NEW v \in Uses, o.op = "append", o.path \notin lost, Succeeded(v, o.path) PROVE v \in Range(bytes)
    <3>1. v \in Range(disk[o.path])
      BY <1>0, <2>4 DEF HostInv, DiskInv
    <3>2. disk[o.path] # Gone
      BY <3>1, HostAssumption DEF Gone, Range
    <3>3. old = disk[o.path]
      BY <2>4, <3>2 DEF old, OldText
    <3>. QED  BY <1>2, <3>1, <3>3
  <2>5. BytesOf(u, o.op, o.path, bytes)
    BY <1>0, <1>2, <2>3, <2>4 DEF BytesOf
  <2>6. \A v \in Uses \ {u} : v \in Range(bytes) => use[v].path = o.path /\ use[v].at \notin Unplaced
    BY <1>0, <1>1, <1>2 DEF HostInv, DiskInv, TextsFor
  <2>7. Fits(u, o.op, "bytes", o.path, bytes)
    BY <2>5, <2>6 DEF Fits
  <2>8. PICK at : at = "bytes"
    OBVIOUS
  <2>9. /\ Goes(u, o.op, at, o.path, bytes, FALSE) /\ Fits(u, o.op, at, o.path, bytes)
        /\ [op |-> o.op, at |-> at, path |-> o.path, bytes |-> bytes, ok |-> FALSE] \in UseRecords
    BY <2>1, <2>2, <2>7, <2>8
  <2>10. at \notin Unplaced /\ at # "sized"
    BY <2>8 DEF Unplaced
  <2>. QED  BY <1>0, <2>9, <2>10, BytesKeeps DEF HostInv, Typed
<1>. QED  BY <1>3, <1>4

LEMMA HostNextKeeps == ASSUME HostInv, [HostNext]_hostVars PROVE HostInv'
<1>. USE DEF Unplaced, Placed, Composed, Fits
<1>0. \A u \in Uses : use[u] \in UseRecords /\ (use[u].at \in Placed => use[u].path \in picked /\ use[u].path \in Files)
  BY DEF HostInv, Typed, PathInv
<1>1. ASSUME NEW u \in Uses, NEW what \in Written \union {"read"}, AskUser(u, what) PROVE HostInv'
  <2>1. [op |-> what, at |-> "choosing", path |-> Absent, bytes |-> <<>>, ok |-> FALSE] \in UseRecords
    BY DEF UseRecords, At
  <2>. QED  BY <1>1, <2>1, StepKeeps DEF AskUser, HostInv, Typed, PathInv
<1>2. ASSUME NEW u \in Uses, NEW what \in Written \union {"read"}, NEW t \in Uses, UseHandle(u, what, t) PROVE HostInv'
  <2>0. UNCHANGED <<disk, handles, temps, picked, lost, refused>> /\ use[u].at = "idle"
    BY <1>2 DEF UseHandle
  <2>1. CASE handles[t] = Absent
    <3>1. [op |-> what, at |-> "over", path |-> Absent, bytes |-> <<>>, ok |-> FALSE] \in UseRecords
      BY DEF UseRecords, At
    <3>2. Goes(u, what, "over", Absent, <<>>, FALSE)
      BY <1>2, <2>1 DEF UseHandle
    <3>. QED  BY <2>0, <3>1, <3>2, StepKeeps DEF HostInv, Typed, PathInv
  <2>2. CASE handles[t] # Absent
    <3>0. handles[t] \in picked /\ handles[t] \in Files
      BY <2>2 DEF HostInv, Typed, PathInv
    <3>1. [op |-> what, at |-> "chosen", path |-> handles[t], bytes |-> <<>>, ok |-> FALSE] \in UseRecords
      BY <3>0 DEF UseRecords, At
    <3>2. Goes(u, what, "chosen", handles[t], <<>>, FALSE)
      BY <1>2, <2>2 DEF UseHandle
    <3>. QED  BY <2>0, <3>0, <3>1, <3>2, StepKeeps DEF HostInv, Typed, PathInv
  <2>. QED  BY <2>1, <2>2
<1>3. ASSUME NEW u \in Uses, Selects(u) PROVE HostInv'
  <2>0. UNCHANGED <<disk, temps, lost, refused>> /\ use[u].at = "choosing"
    BY <1>3 DEF Selects
  <2>1. [op |-> use[u].op, at |-> "over", path |-> use[u].path, bytes |-> <<>>, ok |-> FALSE] \in UseRecords
    BY <1>0 DEF UseRecords, At
  <2>2. CASE Returns(u, FALSE) /\ UNCHANGED <<handles, picked>>
    BY <2>0, <2>1, <2>2, StepKeeps DEF Returns, HostInv, Typed, PathInv
  <2>3. ASSUME NEW f \in Files, picked' = picked \union {f}, ~Selectable(u, f),
               Returns(u, FALSE) /\ UNCHANGED handles PROVE HostInv'
    BY <2>0, <2>1, <2>3, StepKeeps DEF Returns, HostInv, Typed, PathInv
  <2>4. ASSUME NEW f \in Files, picked' = picked \union {f}, handles' = [handles EXCEPT ![u] = f],
               Goes(u, use[u].op, "chosen", f, <<>>, FALSE) PROVE HostInv'
    <3>1. [op |-> use[u].op, at |-> "chosen", path |-> f, bytes |-> <<>>, ok |-> FALSE] \in UseRecords
      BY <1>0 DEF UseRecords, At
    <3>2. handles' \in [Uses -> Files \union {Absent}] /\ \A t \in Uses : handles'[t] # Absent => handles'[t] \in picked'
      BY <2>4 DEF HostInv, Typed, PathInv
    <3>. QED  BY <2>0, <2>4, <3>1, <3>2, StepKeeps DEF HostInv, Typed
  <2>. QED  BY <1>3, <2>2, <2>3, <2>4 DEF Selects
<1>4. ASSUME NEW u \in Uses, SizeOf(u) \/ ReadAll(u) \/ Refuses(u) PROVE HostInv'
  <2>0. /\ UNCHANGED <<disk, handles, temps, picked, lost>> /\ refused' \in 0 .. MaxRefused
        /\ use[u].at \in {"chosen", "sized", "bytes", "temp"} /\ use[u].path \in Files /\ use[u].path \in picked
    <3>1. UNCHANGED <<disk, handles, temps, picked, lost>> /\ use[u].at \in {"chosen", "sized", "bytes", "temp"}
      BY <1>4 DEF SizeOf, ReadAll, Refuses
    <3>2. refused' = refused \/ (refused < MaxRefused /\ refused' = refused + 1)
      BY <1>4 DEF SizeOf, ReadAll, Refuses
    <3>3. refused' \in 0 .. MaxRefused
      BY <3>2, HostAssumption DEF HostInv, Typed
    <3>. QED  BY <1>0, <3>1, <3>3
  <2>1. CASE StepTo(u, "sized") /\ use[u].op = "read"
    <3>1. [op |-> use[u].op, at |-> "sized", path |-> use[u].path, bytes |-> use[u].bytes, ok |-> FALSE] \in UseRecords
      BY <1>0 DEF UseRecords, At
    <3>. QED  BY <2>0, <2>1, <3>1, StepKeeps DEF StepTo, HostInv, Typed, PathInv
  <2>2. ASSUME NEW ok \in BOOLEAN, Returns(u, ok), ok => use[u].op = "read" PROVE HostInv'
    <3>1. [op |-> use[u].op, at |-> "over", path |-> use[u].path, bytes |-> <<>>, ok |-> ok] \in UseRecords
      <4>1. use[u].op \in Written \union {"read", "none"} /\ use[u].path \in Files \union {Absent} /\ ok \in BOOLEAN
        BY <1>0 DEF UseRecords
      <4>. QED  BY <4>1 DEF UseRecords, At
    <3>. QED  BY <2>0, <2>2, <3>1, StepKeeps DEF Returns, HostInv, Typed, PathInv
  <2>3. CASE ReadAll(u)
    <3>1. use[u].op = "read"
      BY <2>3 DEF ReadAll, HostInv, ReadInv
    <3>2. (disk[use[u].path] # Gone) \in BOOLEAN /\ Returns(u, disk[use[u].path] # Gone)
      BY <2>3 DEF ReadAll
    <3>. QED  BY <2>2, <3>1, <3>2, Zenon
  <2>4. CASE Returns(u, FALSE)
    BY <2>2, <2>4
  <2>. QED  BY <1>4, <2>1, <2>3, <2>4 DEF SizeOf, Refuses
<1>5. ASSUME NEW u \in Uses, WriteTemp(u) PROVE HostInv'
  <2>1. [op |-> use[u].op, at |-> "temp", path |-> use[u].path, bytes |-> use[u].bytes, ok |-> FALSE] \in UseRecords
    BY <1>0 DEF UseRecords, At
  <2>2. /\ BytesOf(u, use[u].op, use[u].path, use[u].bytes) /\ TextsFor(use[u].bytes, use[u].path)
        /\ Goes(u, use[u].op, "temp", use[u].path, use[u].bytes, FALSE) /\ temps' \subseteq Uses
        /\ UNCHANGED <<disk, handles, picked, lost, refused>> /\ use[u].at = "bytes" /\ use[u].path \in picked
    BY <1>0, <1>5 DEF WriteTemp, StepTo, HostInv, BytesInv, Typed
  <2>3. \A v \in Uses \ {u} : v \in Range(use[u].bytes) => use[v].path = use[u].path /\ use[v].at \notin Unplaced
    BY <2>2 DEF TextsFor
  <2>4. Fits(u, use[u].op, "temp", use[u].path, use[u].bytes)
    BY <2>2, <2>3
  <2>5. PICK at : at = "temp"
    OBVIOUS
  <2>6. /\ Goes(u, use[u].op, at, use[u].path, use[u].bytes, FALSE) /\ Fits(u, use[u].op, at, use[u].path, use[u].bytes)
        /\ [op |-> use[u].op, at |-> at, path |-> use[u].path, bytes |-> use[u].bytes, ok |-> FALSE] \in UseRecords
    BY <2>1, <2>2, <2>4, <2>5
  <2>7. at \notin Unplaced /\ at # "sized"
    BY <2>5
  <2>. HIDE DEF Fits
  <2>. QED  BY <2>2, <2>6, <2>7, BytesKeeps
<1>6. ASSUME UNCHANGED hostVars PROVE HostInv'
  BY <1>6 DEF hostVars, HostInv, Typed, PathInv, DiskInv, BytesInv, OkInv, ReadInv, TextsFor, Succeeded, BytesOf
<1>. QED  BY <1>1, <1>2, <1>3, <1>4, <1>5, <1>6, ComposeKeeps, RenameKeeps DEF HostNext

\* Plugins write only into files the user selected, and no text of an append that
\* succeeded gets lost but by a write that replaces the file or crosses the append
\* (host-permissions.ts, choose, readFile and atomicBytes).
THEOREM HostFilesAreKept == HostSpec => []HostFilesKept
<1>1. HostInit => HostInv
  <2>. SUFFICES ASSUME HostInit PROVE HostInv
    OBVIOUS
  <2>1. Typed
    <3>1. NoUse \in UseRecords
      BY DEF NoUse, UseRecords, At
    <3>2. ASSUME NEW f \in Files, disk = [g \in Files |-> IF g = f THEN Gone ELSE << 0 >>] PROVE
            DOMAIN disk = Files /\ \A g \in Files : disk[g] = Gone \/ (disk[g] \in Seq({0} \union Uses) /\ Len(disk[g]) <= MaxFileLen)
      <4>1. << 0 >> \in Seq({0} \union Uses) /\ Len(<< 0 >>) <= MaxFileLen
        BY HostAssumption
      <4>2. DOMAIN disk = Files /\ \A g \in Files : disk[g] = Gone \/ disk[g] = << 0 >>
        BY <3>2
      <4>. QED  BY <4>1, <4>2
    <3>. QED  BY <3>1, <3>2, HostAssumption DEF HostInit, Typed
  <2>2. \A f \in Files : Range(disk[f]) \subseteq {0, Absent} /\ \A v \in Uses : v \notin Range(disk[f])
    <3>1. \A f \in Files : disk[f] = Gone \/ disk[f] = << 0 >>
      BY DEF HostInit
    <3>2. Range(Gone) = {Absent} /\ Range(<< 0 >>) = {0}
      BY DEF Gone, Range
    <3>. QED  BY <3>1, <3>2, HostAssumption
  <2>3. \A u \in Uses : use[u].at = "idle" /\ ~use[u].ok /\ handles[u] = Absent
    BY DEF HostInit, NoUse
  <2>. QED  BY <2>1, <2>2, <2>3 DEF HostInv, PathInv, DiskInv, BytesInv, OkInv, ReadInv, TextsFor, Succeeded, Placed, Composed
<1>2. HostInv => HostFilesKept
  BY HostImplies DEF HostFilesKept
<1>. QED  BY <1>1, <1>2, HostNextKeeps, PTL DEF HostSpec

-----------------------------------------------------------------------------
(* The knowledge of a scope.                                               *)

Statuses == {"none", "failed", "ready"}
Removing == {"unvector", "unindex", "unfile", "unlist"}
Importing == {"copy", "read", "embed", "vectors", "index", "fail"}
OpRecords ==
  [at : {"idle", "copied", "next", "save", "over", "threw"} \union Removing \union Importing,
   job : {"import", "remove", "reindex"}, todo : Seq(Paths), sel : SUBSET Ids, vals : [Ids -> Statuses],
   idx : Seq(Ids), vec : Seq(Ids)]

KnowledgeTyped ==
  /\ docs \in [Ids -> Statuses] /\ idx \in Seq(Ids) /\ vec \in Seq(Ids) /\ copies \subseteq Ids
  /\ op \in [Ops -> OpRecords] /\ host \in {"up", "scan", "unindex", "unvector"}
  /\ cuts \in 0 .. MaxCuts /\ crossed \in BOOLEAN

\* Operations begin in order, none is under way while the host scans, each has the paths
\* it has not imported yet, and a removal as many vectors as chunks.
TodoOK(x) ==
  /\ IsInjective(x.todo)
  /\ x.at \in Importing \union {"save"} => x.todo # <<>>
  /\ x.at \in {"copied"} \union Removing => x.job # "import"
  /\ x.at = "unvector" => Len(x.idx) = Len(x.vec)
  /\ x.at \in {"idle", "over", "threw"} => x.todo = <<>>
TurnsInv ==
  /\ \A o, p \in Ops : o < p /\ op[o].at = "idle" => op[p].at = "idle"
  /\ host # "up" => \A o \in Ops : ~UnderWay(o)
  /\ cuts = 0 => host = "up"
  /\ \A o \in Ops : TodoOK(op[o])

\* As long as no two operations crossed: the one under way is the last that began, its
\* list is the list as it is now, changed, and its index is the index as it is now.
LastAtWork == \A o, p \in Ops : UnderWay(o) /\ o < p => op[p].at = "idle"
ListHeld(o, x) ==
  /\ x.at \in Removing \union {"next"} => x.vals = docs
  /\ x.at \in Importing => x.vals = [docs EXCEPT ![<<o, Head(x.todo)>>] = "failed"]
  /\ x.at = "save" => x.vals = [docs EXCEPT ![<<o, Head(x.todo)>>] = "ready"]
  /\ x.at \in Importing \union {"save"} =>
       (\A i \in ReadyIn(docs) : i[2] # Head(x.todo)) /\ Cardinality(Listed(docs)) < MaxSources
  /\ \A p \in Chunks(x.todo) : docs[<<o, p>>] = "none"
IndexHeld(o, x) ==
  /\ x.at \in {"unvector", "unindex", "embed", "vectors", "index"} => x.idx = idx /\ x.vec = idx
  /\ x.at \in {"unvector", "embed", "vectors"} => vec = idx
  /\ x.at = "unindex" => vec = Kept(idx, x.sel, idx)
  /\ x.at = "index" => vec = Append(idx, <<o, Head(x.todo)>>)
OpHeld(o, x) == ListHeld(o, x) /\ IndexHeld(o, x)
Unbegun == \A o \in Ops : op[o].at = "idle" => \A p \in Paths : docs[<<o, p>>] = "none"
Few == IsFiniteSet(Listed(docs)) /\ Cardinality(Listed(docs)) <= MaxSources
FilesInv == Few /\ VectorsMatch /\ ReadyOnce
AloneInv ==
  ~crossed => LastAtWork /\ Unbegun /\ FilesInv /\ \A o \in Ops : UnderWay(o) => OpHeld(o, op[o])

\* And as long as nothing was cut short: the index is of the sources that are ready, and
\* every source has its copy, but for those under way.
Indexed(ready, listed) == IsInjective(idx) /\ Chunks(idx) = ready /\ listed \subseteq copies
Named(S, p) == \E i \in S : i[2] = p
InIndex(o, x) ==
  CASE x.at \in {"unfile", "unlist"} -> ReadyIn(docs) \ x.sel
    [] x.at = "save" -> ReadyIn(docs) \union {<<o, Head(x.todo)>>}
    [] OTHER -> ReadyIn(docs)
InCopies(o, x) ==
  CASE x.at = "unlist" -> Listed(docs) \ x.sel
    [] x.at \in (Importing \ {"copy"}) \union {"save"} -> Listed(docs) \union {<<o, Head(x.todo)>>}
    [] OTHER -> Listed(docs)
WholeHeld(o, x) ==
  /\ x.at \notin {"unindex", "index"} => idx = vec
  /\ Indexed(InIndex(o, x), InCopies(o, x))
  /\ x.job = "reindex" =>
       \A i \in x.sel : i[2] \in Chunks(x.todo) \/ (x.at \notin {"copied"} \union Removing /\ Named(Listed(docs), i[2]))
Whole == idx = vec /\ Indexed(ReadyIn(docs), Listed(docs))
WholeInv ==
  ~crossed /\ cuts = 0 => /\ \A o \in Ops : UnderWay(o) => WholeHeld(o, op[o])
                          /\ (\A o \in Ops : ~UnderWay(o)) => Whole

KnowledgeInv == KnowledgeTyped /\ TurnsInv /\ AloneInv /\ WholeInv /\ ReindexKeeps

\* What stays of a list, step by step.
Leaves(c, chunks, sel, s, S) ==
  /\ c \in [0 .. Len(s) -> Seq(S)] /\ c[0] = <<>>
  /\ \A i \in 1 .. Len(s) : c[i] = IF chunks[i] \in sel THEN c[i - 1] ELSE Append(c[i - 1], s[i])

LEMMA KeptLeaves ==
  ASSUME NEW S, NEW s \in Seq(S), NEW chunks, Len(chunks) = Len(s), NEW sel
  PROVE  \E c : Leaves(c, chunks, sel, s, S) /\ Kept(chunks, sel, s) = c[Len(s)]
<1> DEFINE n == Len(s)
           Q == Seq(S)
           Add(x) == IF chunks[x[1]] \in sel THEN x[2] ELSE Append(x[2], s[x[1]])
           h == [x \in (1 .. n) \X Q |-> Add(x)]
           IsRun(f) == f = [i \in 0 .. n |-> IF i = 0 THEN <<>> ELSE IF chunks[i] \in sel THEN f[i - 1] ELSE Append(f[i - 1], s[i])]
           c == CHOOSE f : IsRun(f)
<1>1. n \in Nat /\ <<>> \in Q
  BY LenProperties, EmptySeq
<1>2. \A i \in 1 .. n : s[i] \in S
  BY ElementOfSeq
<1>3. ASSUME NEW x \in (1 .. n) \X Q PROVE Add(x) \in Q
  BY <1>2
<1>4. IsStep(h, n, Q)
  <2>. HIDE DEF Q, n, Add
  <2>. QED  BY <1>3 DEF IsStep
<1>5. PICK f : Follows(f, n, Q, <<>>, h)
  <2>. HIDE DEF n, h, Q
  <2>. QED  BY <1>1, <1>4, RecursionExists
<1>6. f \in [0 .. n -> Q] /\ f[0] = <<>>
  <2>. HIDE DEF n, h, Q
  <2>. QED  BY <1>5 DEF Follows
<1>7. ASSUME NEW i \in 1 .. n
      PROVE  f[i - 1] \in Q /\ f[i] = IF chunks[i] \in sel THEN f[i - 1] ELSE Append(f[i - 1], s[i])
  <2>1. f[i] = h[<<i, f[i - 1]>>]
    <3>. HIDE DEF n, h, Q
    <3>. QED  BY <1>5 DEF Follows
  <2>2. f[i - 1] \in Q
    <3>1. i - 1 \in 0 .. n
      BY <1>1
    <3>. HIDE DEF n, h, Q
    <3>. QED  BY <1>6, <3>1
  <2>3. h[<<i, f[i - 1]>>] = Add(<<i, f[i - 1]>>)
    <3>. HIDE DEF Q, Add
    <3>. QED  BY <2>2
  <2>4. Add(<<i, f[i - 1]>>) = IF chunks[i] \in sel THEN f[i - 1] ELSE Append(f[i - 1], s[i])
    <3>. HIDE DEF Q, n, h
    <3>. QED  OBVIOUS
  <2>. HIDE DEF Q, n, h, Add
  <2>. QED  BY <2>1, <2>2, <2>3, <2>4
<1>. HIDE DEF h, Q
<1>8. IsRun(f)
  <2>1. ASSUME NEW i \in 0 .. n
        PROVE  f[i] = IF i = 0 THEN <<>> ELSE IF chunks[i] \in sel THEN f[i - 1] ELSE Append(f[i - 1], s[i])
    <3>1. CASE i = 0
      BY <1>6, <3>1
    <3>2. CASE i # 0
      <4>1. i \in 1 .. n
        BY <1>1, <3>2
      <4>. QED  BY <1>7, <3>2, <4>1
    <3>. QED  BY <3>1, <3>2
  <2>2. f = [i \in 0 .. n |-> f[i]]
    BY <1>6
  <2>. HIDE DEF n
  <2>. QED  BY <2>1, <2>2
<1>9. IsRun(c)
  <2>. HIDE DEF IsRun
  <2>. QED  BY <1>8, Zenon
<1>10. Kept(chunks, sel, s) = c[n]
  BY Zenon DEF Kept
<1> DEFINE T == {i \in 0 .. n : c[i] = f[i]}
<1>11. c[0] = <<>> /\ 0 \in 0 .. n
  <2>1. 0 \in 0 .. n
    BY <1>1
  <2>. HIDE DEF c, n
  <2>. QED  BY <1>9, <2>1
<1>12. ASSUME NEW i \in 1 .. n PROVE c[i] = IF chunks[i] \in sel THEN c[i - 1] ELSE Append(c[i - 1], s[i])
  <2>1. i \in 0 .. n /\ i # 0
    BY <1>1
  <2>. HIDE DEF c, n
  <2>. QED  BY <1>9, <2>1
<1>. HIDE DEF c, IsRun
<1>13. 0 \in T
  BY <1>6, <1>11
<1>14. ASSUME NEW i \in 0 .. n - 1, i \in T PROVE i + 1 \in T
  <2>1. i + 1 \in 1 .. n /\ i + 1 \in 0 .. n /\ (i + 1) - 1 = i
    BY <1>1
  <2>. HIDE DEF n
  <2>. QED  BY <1>7, <1>12, <1>14, <2>1
<1>15. c[n] = f[n]
  <2>1. n \in 0 .. n
    BY <1>1
  <2>. HIDE DEF T, n
  <2>2. n \in T
    BY <1>1, <1>13, <1>14, <2>1, UpTo
  <2>. QED  BY <2>2 DEF T
<1>16. Leaves(f, chunks, sel, s, S)
  <2>1. f \in [0 .. n -> Seq(S)]
    BY <1>6 DEF Q
  <2>. QED  BY <1>6, <1>7, <2>1 DEF Leaves
<1>. QED  BY <1>10, <1>15, <1>16

\* What stays of a list, in its order, without some of its members.
LEMMA KeptStays ==
  ASSUME NEW S, NEW s \in Seq(S), NEW sel
  PROVE  /\ Kept(s, sel, s) \in Seq(S) /\ Chunks(Kept(s, sel, s)) = Chunks(s) \ sel
         /\ IsInjective(s) => IsInjective(Kept(s, sel, s))
         /\ Len(Kept(s, sel, s)) = Len(s) => Kept(s, sel, s) = s
<1> DEFINE n == Len(s)
<1>1. n \in Nat
  BY LenProperties
<1>2. \A i \in 1 .. n : s[i] \in S
  BY ElementOfSeq
<1>9. PICK c : Leaves(c, s, sel, s, S) /\ Kept(s, sel, s) = c[n]
  BY KeptLeaves
<1>10. /\ Kept(s, sel, s) = c[n] /\ c[0] = <<>>
       /\ \A i \in 1 .. n : c[i] = IF s[i] \in sel THEN c[i - 1] ELSE Append(c[i - 1], s[i])
  BY <1>9 DEF Leaves
\* After i members: those of them that stay, and all of them only if nothing was left out.
<1> DEFINE Stays(i) == /\ c[i] \in Seq(S) /\ Len(c[i]) <= i
                       /\ \A q : q \in Chunks(c[i]) <=> (\E j \in 1 .. i : s[j] = q) /\ q \notin sel
                       /\ IsInjective(s) => IsInjective(c[i])
                       /\ Len(c[i]) = i => \A j \in 1 .. i : c[i][j] = s[j]
           T == {i \in 0 .. n : Stays(i)}
<1>11. 0 \in T
  <2>1. c[0] = <<>> /\ 0 \in 0 .. n
    BY <1>1, <1>10
  <2>2. <<>> \in Seq(S) /\ Len(<<>>) = 0 /\ IsInjective(<<>>) /\ \A q : q \notin Chunks(<<>>)
    BY DEF IsInjective, Chunks
  <2>3. Stays(0)
    BY <2>1, <2>2
  <2>. HIDE DEF Stays
  <2>. QED  BY <2>1, <2>3
<1>12. ASSUME NEW i \in 0 .. n - 1, i \in T PROVE i + 1 \in T
  <2> DEFINE old == c[i]
             m == Len(old)
  <2>1. i \in Nat /\ i + 1 \in 1 .. n /\ i + 1 \in 0 .. n /\ i + 1 # 0 /\ (i + 1) - 1 = i
    BY <1>1
  <2>2. c[i + 1] = IF s[i + 1] \in sel THEN old ELSE Append(old, s[i + 1])
    <3>. HIDE DEF n
    <3>. QED  BY <1>10, <2>1
  <2>3. Stays(i)
    <3>. HIDE DEF Stays
    <3>. QED  BY <1>12
  <2>4. \A j : j \in 1 .. i + 1 <=> j \in 1 .. i \/ j = i + 1
    BY <2>1
  <2>5. old \in Seq(S) /\ m \in Nat /\ m <= i
    BY <2>3, LenProperties
  <2>6. CASE s[i + 1] \in sel
    <3>1. c[i + 1] = old /\ Len(old) # i + 1
      BY <2>1, <2>2, <2>5, <2>6
    <3>2. \A q : ((\E j \in 1 .. i + 1 : s[j] = q) /\ q \notin sel) <=> ((\E j \in 1 .. i : s[j] = q) /\ q \notin sel)
      BY <2>4, <2>6
    <3>3. Len(old) <= i + 1
      BY <2>1, <2>5
    <3>4. Stays(i + 1)
      BY <2>3, <3>1, <3>2, <3>3
    <3>. HIDE DEF Stays
    <3>. QED  BY <2>1, <3>4
  <2>7. CASE s[i + 1] \notin sel
    <3> DEFINE new == Append(old, s[i + 1])
    <3>1. new \in Seq(S) /\ Len(new) = m + 1 /\ new[m + 1] = s[i + 1] /\ \A j \in 1 .. m : new[j] = old[j]
      BY <1>2, <2>1, <2>5
    <3>2. DOMAIN new = 1 .. m + 1 /\ DOMAIN old = 1 .. m
      BY <2>5, <3>1
    <3>3. \A j : j \in 1 .. m + 1 <=> j \in 1 .. m \/ j = m + 1
      BY <2>5
    <3>4. c[i + 1] = new
      BY <2>2, <2>7
    <3>5. ASSUME NEW q PROVE q \in Chunks(new) <=> (\E j \in 1 .. i + 1 : s[j] = q) /\ q \notin sel
      <4>1. q \in Chunks(new) <=> \E j \in 1 .. m + 1 : new[j] = q
        <5>. HIDE DEF new, m
        <5>. QED  BY <3>2 DEF Chunks
      <4>2. q \in Chunks(old) <=> \E j \in 1 .. m : old[j] = q
        <5>. HIDE DEF old, m
        <5>. QED  BY <3>2 DEF Chunks
      <4>3. q \in Chunks(old) <=> (\E j \in 1 .. i : s[j] = q) /\ q \notin sel
        BY <2>3
      <4>. HIDE DEF new, old, m
      <4>. QED  BY <2>4, <2>7, <3>1, <3>3, <4>1, <4>2, <4>3
    <3>6. ASSUME IsInjective(s) PROVE IsInjective(new)
      <4>1. \A j \in 1 .. m : old[j] # s[i + 1]
        <5>. SUFFICES ASSUME NEW j \in 1 .. m, old[j] = s[i + 1] PROVE FALSE
          OBVIOUS
        <5>1. s[i + 1] \in Chunks(old)
          BY <3>2 DEF Chunks
        <5>2. PICK k \in 1 .. i : s[k] = s[i + 1]
          BY <2>3, <5>1
        <5>3. k = i + 1
          BY <2>1, <3>6, <5>2 DEF IsInjective
        <5>. QED  BY <2>1, <5>3
      <4>2. \A j, k \in 1 .. m : old[j] = old[k] => j = k
        BY <2>3, <3>2, <3>6 DEF IsInjective
      <4>3. \A j, k \in 1 .. m + 1 : new[j] = new[k] => j = k
        <5>. HIDE DEF new, old, m
        <5>. QED  BY <3>1, <3>3, <4>1, <4>2
      <4>. HIDE DEF new, old, m
      <4>. QED  BY <3>2, <4>3 DEF IsInjective
    <3>7. ASSUME Len(new) = i + 1 PROVE \A j \in 1 .. i + 1 : new[j] = s[j]
      <4>1. m = i
        BY <2>1, <2>5, <3>1, <3>7
      <4>2. \A j \in 1 .. i : old[j] = s[j]
        BY <2>3, <4>1
      <4>. HIDE DEF new, old, m
      <4>. QED  BY <2>4, <3>1, <4>1, <4>2
    <3>8. Len(new) <= i + 1
      BY <2>1, <2>5, <3>1
    <3>. HIDE DEF new
    <3>9. Stays(i + 1)
      BY <3>1, <3>4, <3>5, <3>6, <3>7, <3>8
    <3>. HIDE DEF Stays
    <3>. QED  BY <2>1, <3>9
  <2>. QED  BY <2>6, <2>7
<1>13. n \in T
  <2>. HIDE DEF T, n
  <2>1. n \in 0 .. n
    BY <1>1
  <2>. QED  BY <1>1, <1>11, <1>12, <2>1, UpTo
<1>14. Stays(n)
  <2>. HIDE DEF Stays, n
  <2>. QED  BY <1>13
<1>15. Chunks(c[n]) = Chunks(s) \ sel
  <2>1. \A q : q \in Chunks(s) <=> \E j \in 1 .. n : s[j] = q
    BY DEF Chunks
  <2>. HIDE DEF n
  <2>. QED  BY <1>14, <2>1
<1>16. Len(c[n]) = n => c[n] = s
  <2>. SUFFICES ASSUME Len(c[n]) = n PROVE c[n] = s
    OBVIOUS
  <2>1. \A j \in 1 .. n : c[n][j] = s[j]
    BY <1>14
  <2>. QED  BY <1>14, <2>1, SeqEqual
<1>. QED  BY <1>10, <1>14, <1>15, <1>16

\* What an operation's step on its own establishes.
WorkDone(o) ==
  /\ TodoOK(op[o])
  /\ ~crossed =>
       /\ FilesInv
       /\ UnderWay(o) => OpHeld(o, op[o])
       /\ cuts = 0 =>
            /\ IF UnderWay(o) THEN WholeHeld(o, op[o]) ELSE Whole
            /\ op[o].at = "over" /\ op[o].job = "reindex" => \A i \in op[o].sel : Named(Listed(docs), i[2])

\* While operations do not cross, no other one is under way.
LEMMA OthersRest ==
  ASSUME KnowledgeInv, ~crossed, NEW o \in Ops, UnderWay(o)
  PROVE  \A p \in Ops \ {o} : ~UnderWay(p) /\ (o < p => op[p].at = "idle") /\ (op[p].at = "idle" => o < p)
<1>. SUFFICES ASSUME NEW p \in Ops \ {o}
              PROVE  ~UnderWay(p) /\ (o < p => op[p].at = "idle") /\ (op[p].at = "idle" => o < p)
  OBVIOUS
<1>1. (o < p \/ p < o) /\ ~(o < p /\ p < o)
  BY KnowledgeAssumption
<1>2. op[o].at # "idle"
  BY DEF UnderWay
<1>. QED  BY <1>1, <1>2 DEF KnowledgeInv, TurnsInv, AloneInv, LastAtWork, UnderWay

LEMMA WorkKeeps ==
  ASSUME KnowledgeInv, NEW o \in Ops, UnderWay(o), KnowledgeTyped', crossed' = crossed, host' = host,
         cuts' >= cuts, op'[o].at # "idle", \A p \in Ops \ {o} : op'[p] = op[p],
         ~crossed => \A p \in Ops \ {o} : p > o => \A q \in Paths : docs'[<<p, q>>] = docs[<<p, q>>],
         WorkDone(o)'
  PROVE  KnowledgeInv'
<1>0. cuts \in Nat /\ (cuts' = 0 => cuts = 0)
  BY DEF KnowledgeInv, KnowledgeTyped
<1>1. host = "up"
  BY DEF KnowledgeInv, TurnsInv
<1>2. TurnsInv'
  <2>1. ASSUME NEW a \in Ops, NEW b \in Ops, a < b, op'[a].at = "idle" PROVE op'[b].at = "idle"
    <3>1. a # o /\ op[a].at = "idle"
      BY <2>1
    <3>2. op[b].at = "idle"
      BY <2>1, <3>1 DEF KnowledgeInv, TurnsInv
    <3>3. b # o
      BY <3>2 DEF UnderWay
    <3>. QED  BY <3>2, <3>3
  <2>2. ASSUME NEW a \in Ops PROVE TodoOK(op[a])'
    <3>1. CASE a = o
      BY <3>1 DEF WorkDone
    <3>2. CASE a # o
      <4>1. op'[a] = op[a] /\ TodoOK(op[a])
        BY <3>2 DEF KnowledgeInv, TurnsInv
      <4>. QED  BY <4>1 DEF TodoOK
    <3>. QED  BY <3>1, <3>2
  <2>. QED  BY <1>1, <2>1, <2>2 DEF TurnsInv
<1>3. AloneInv'
  <2>. SUFFICES ASSUME ~crossed PROVE (LastAtWork /\ Unbegun /\ FilesInv /\ \A a \in Ops : UnderWay(a) => OpHeld(a, op[a]))'
    BY DEF AloneInv
  <2>1. \A p \in Ops \ {o} : ~UnderWay(p) /\ (o < p => op[p].at = "idle") /\ (op[p].at = "idle" => o < p)
    BY OthersRest
  <2>2. \A p \in Ops \ {o} : ~UnderWay(p)'
    BY <2>1 DEF UnderWay
  <2>3. LastAtWork'
    BY <2>1, <2>2, KnowledgeAssumption DEF LastAtWork
  <2>4. Unbegun'
    <3>. SUFFICES ASSUME NEW p \in Ops, op'[p].at = "idle", NEW q \in Paths PROVE docs'[<<p, q>>] = "none"
      BY DEF Unbegun
    <3>1. p # o /\ op[p].at = "idle" /\ o < p
      BY <2>1
    <3>2. docs[<<p, q>>] = "none"
      BY <3>1 DEF KnowledgeInv, AloneInv, Unbegun
    <3>3. p > o
      BY <3>1
    <3>. QED  BY <3>1, <3>2, <3>3
  <2>. QED  BY <2>2, <2>3, <2>4 DEF WorkDone
<1>4. WholeInv'
  <2>. SUFFICES ASSUME ~crossed', cuts' = 0
                PROVE  /\ \A a \in Ops : UnderWay(a)' => WholeHeld(a, op[a])'
                       /\ (\A a \in Ops : ~UnderWay(a)') => Whole'
    BY DEF WholeInv
  <2>1. \A p \in Ops \ {o} : ~UnderWay(p)'
    BY OthersRest DEF UnderWay
  <2>. QED  BY <2>1 DEF WorkDone
<1>5. ReindexKeeps'
  <2>. SUFFICES ASSUME ~crossed', cuts' = 0, NEW a \in Ops, op'[a].at = "over", op'[a].job = "reindex",
                       \A p \in Ops : p > a => op'[p].at = "idle", NEW i \in op'[a].sel
                PROVE  \E j \in Listed(docs)' : j[2] = i[2]
    BY DEF ReindexKeeps
  <2>1. a = o
    <3>. SUFFICES ASSUME a # o PROVE FALSE
      OBVIOUS
    <3>1. op[a].at = "over" /\ (a < o \/ o < a)
      BY KnowledgeAssumption
    <3>2. a < o => op'[o].at = "idle"
      BY KnowledgeAssumption
    <3>3. o < a => op[a].at = "idle"
      BY OthersRest
    <3>. QED  BY <3>1, <3>2, <3>3
  <2>. QED  BY <2>1 DEF WorkDone, Named
<1>. QED  BY <1>2, <1>3, <1>4, <1>5 DEF KnowledgeInv

LEMMA WorkAsIs ==
  ASSUME KnowledgeInv, NEW o \in Ops, UnderWay(o)
  PROVE  /\ op[o] \in OpRecords /\ TodoOK(op[o])
         /\ ~crossed => FilesInv /\ OpHeld(o, op[o])
         /\ ~crossed /\ cuts = 0 => WholeHeld(o, op[o])
BY DEF KnowledgeInv, KnowledgeTyped, TurnsInv, AloneInv, WholeInv

LEMMA FirstPath ==
  ASSUME NEW s \in Seq(Paths), s # <<>>
  PROVE  /\ Head(s) \in Paths /\ Tail(s) \in Seq(Paths)
         /\ Chunks(s) = Chunks(Tail(s)) \union {Head(s)}
         /\ IsInjective(s) => IsInjective(Tail(s)) /\ Head(s) \notin Chunks(Tail(s))
<1> DEFINE n == Len(s)
           t == Tail(s)
<1>1. n \in Nat /\ n > 0 /\ DOMAIN s = 1 .. n
  BY LenProperties, EmptySeq
<1>2. Head(s) = s[1] /\ t \in Seq(Paths) /\ Len(t) = n - 1 /\ \A i \in 1 .. n - 1 : t[i] = s[i + 1]
  BY <1>1
<1>3. DOMAIN t = 1 .. n - 1
  BY <1>2, LenProperties
<1>4. s[1] \in Paths
  BY <1>1
<1>. HIDE DEF t, n
<1>5. ASSUME NEW q PROVE q \in Chunks(s) <=> q \in Chunks(t) \/ q = s[1]
  <2>1. q \in Chunks(s) <=> \E i \in 1 .. n : s[i] = q
    BY <1>1 DEF Chunks
  <2>2. q \in Chunks(t) <=> \E i \in 1 .. n - 1 : t[i] = q
    BY <1>3 DEF Chunks
  <2>3. \A i \in 1 .. n : i = 1 \/ (i - 1 \in 1 .. n - 1 /\ t[i - 1] = s[i])
    BY <1>1, <1>2
  <2>4. \A i \in 1 .. n - 1 : i + 1 \in 1 .. n
    BY <1>1
  <2>5. ASSUME q \in Chunks(s), q # s[1] PROVE q \in Chunks(t)
    <3>1. PICK i \in 1 .. n : s[i] = q
      BY <2>1, <2>5
    <3>2. i - 1 \in 1 .. n - 1 /\ t[i - 1] = q
      BY <2>3, <2>5, <3>1
    <3>. QED  BY <2>2, <3>2
  <2>6. ASSUME q \in Chunks(t) PROVE q \in Chunks(s)
    <3>1. PICK i \in 1 .. n - 1 : t[i] = q
      BY <2>2, <2>6
    <3>2. i + 1 \in 1 .. n /\ s[i + 1] = q
      BY <1>2, <2>4, <3>1
    <3>. QED  BY <2>1, <3>2
  <2>7. s[1] \in Chunks(s)
    <3>1. 1 \in 1 .. n
      BY <1>1
    <3>. QED  BY <1>1, <3>1 DEF Chunks
  <2>. QED  BY <2>5, <2>6, <2>7
<1>6. ASSUME IsInjective(s) PROVE IsInjective(t) /\ s[1] \notin Chunks(t)
  <2>1. \A i, j \in 1 .. n : s[i] = s[j] => i = j
    BY <1>1, <1>6 DEF IsInjective
  <2>2. \A i, j \in 1 .. n - 1 : t[i] = t[j] => i = j
    BY <1>1, <1>2, <2>1
  <2>3. \A i \in 1 .. n - 1 : t[i] # s[1]
    BY <1>1, <1>2, <2>1
  <2>. QED  BY <1>3, <2>2, <2>3 DEF IsInjective, Chunks
<1>. QED  BY <1>2, <1>4, <1>5, <1>6 DEF t

\* A list with one source marked.
LEMMA MarkedList ==
  ASSUME NEW d \in [Ids -> Statuses], NEW n \in Ids
  PROVE  /\ Listed([d EXCEPT ![n] = "failed"]) = Listed(d) \union {n}
         /\ Listed([d EXCEPT ![n] = "ready"]) = Listed(d) \union {n}
         /\ ReadyIn([d EXCEPT ![n] = "failed"]) = ReadyIn(d) \ {n}
         /\ ReadyIn([d EXCEPT ![n] = "ready"]) = ReadyIn(d) \union {n}
BY DEF Listed, ReadyIn

\* The operation ends.
LEMMA EndRecord ==
  ASSUME KnowledgeTyped, NEW o \in Ops, NEW at \in {"over", "threw"}, Ends(o, at)
  PROVE  /\ op' \in [Ops -> OpRecords] /\ op'[o].at = at /\ op'[o].job = op[o].job /\ op'[o].sel = op[o].sel
         /\ \A p \in Ops \ {o} : op'[p] = op[p]
         /\ TodoOK(op[o])' /\ ~UnderWay(o)'
<1>1. op \in [Ops -> OpRecords]
  BY DEF KnowledgeTyped
<1>2. op[o].job \in {"import", "remove", "reindex"} /\ op[o].sel \in SUBSET Ids
  BY <1>1 DEF OpRecords
<1>3. None \in [Ids -> Statuses] /\ <<>> \in Seq(Paths) /\ <<>> \in Seq(Ids)
  BY DEF None, Statuses
<1>4. [Idle EXCEPT !.at = at, !.job = op[o].job, !.sel = op[o].sel] \in OpRecords
  BY <1>2, <1>3 DEF Idle, OpRecords
<1>5. op' \in [Ops -> OpRecords] /\ \A p \in Ops \ {o} : op'[p] = op[p]
  BY <1>1, <1>4 DEF Ends
<1>6. op'[o].at = at /\ op'[o].job = op[o].job /\ op'[o].sel = op[o].sel /\ op'[o].todo = <<>>
  BY <1>1 DEF Ends, Idle
<1>7. IsInjective(<<>>)
  BY DEF IsInjective
<1>. QED  BY <1>5, <1>6, <1>7 DEF TodoOK, UnderWay, Importing, Removing

\* It ends and leaves the files alone.
LEMMA EndsKeeps ==
  ASSUME KnowledgeInv, NEW o \in Ops, UnderWay(o), NEW at \in {"over", "threw"}, Ends(o, at),
         UNCHANGED <<files, host, crossed>>, cuts' \in cuts .. MaxCuts,
         ~crossed /\ cuts' = 0 => Whole,
         ~crossed /\ cuts' = 0 /\ at = "over" /\ op[o].job = "reindex" => \A i \in op[o].sel : Named(Listed(docs), i[2])
  PROVE  KnowledgeInv'
<1>. USE DEF files
<1>1. KnowledgeTyped /\ cuts \in Nat
  BY DEF KnowledgeInv, KnowledgeTyped
<1>2. /\ op' \in [Ops -> OpRecords] /\ op'[o].at = at /\ op'[o].job = op[o].job /\ op'[o].sel = op[o].sel
      /\ \A p \in Ops \ {o} : op'[p] = op[p]
      /\ TodoOK(op[o])' /\ ~UnderWay(o)'
  BY <1>1, EndRecord
<1>3. KnowledgeTyped'
  BY <1>1, <1>2 DEF KnowledgeTyped
<1>4. ~crossed => FilesInv'
  BY WorkAsIs DEF FilesInv, Few, VectorsMatch, Accepts, ReadyOnce
<1>5. WorkDone(o)'
  BY <1>2, <1>4 DEF WorkDone, Whole, Indexed
<1>. QED  BY <1>1, <1>2, <1>3, <1>5, WorkKeeps

\* It goes on and leaves the files alone.
LEMMA GoesOn ==
  ASSUME KnowledgeInv, NEW o \in Ops, UnderWay(o), UNCHANGED <<files, rest>>,
         op'[o] \in OpRecords, op' = [op EXCEPT ![o] = op'[o]], op'[o].at # "idle", UnderWay(o)', TodoOK(op[o])',
         ~crossed => OpHeld(o, op[o])' /\ (cuts = 0 => WholeHeld(o, op[o])')
  PROVE  KnowledgeInv'
<1>. USE DEF files, rest
<1>1. KnowledgeTyped /\ cuts \in Nat
  BY DEF KnowledgeInv, KnowledgeTyped
<1>2. op' \in [Ops -> OpRecords] /\ \A p \in Ops \ {o} : op'[p] = op[p]
  BY <1>1 DEF KnowledgeTyped
<1>3. KnowledgeTyped'
  BY <1>1, <1>2 DEF KnowledgeTyped
<1>4. ~crossed => FilesInv'
  BY WorkAsIs DEF FilesInv, Few, VectorsMatch, Accepts, ReadyOnce
<1>5. WorkDone(o)'
  BY <1>4 DEF WorkDone, UnderWay
<1>. QED  BY <1>1, <1>2, <1>3, <1>5, WorkKeeps

\* The steps of a removal.
LEMMA RemoveReadKeeps ==
  ASSUME KnowledgeInv, NEW o \in Ops, RemoveRead(o) PROVE KnowledgeInv'
<1>. USE DEF RemoveRead
<1>1. UnderWay(o) /\ UNCHANGED <<files, rest>>
  BY DEF UnderWay
<1>2. /\ op[o] \in OpRecords /\ TodoOK(op[o])
      /\ ~crossed => FilesInv /\ OpHeld(o, op[o])
      /\ ~crossed /\ cuts = 0 => WholeHeld(o, op[o])
  BY <1>1, WorkAsIs
<1>3. KnowledgeTyped
  BY DEF KnowledgeInv
<1>4. CASE Accepts
  <2>1. op' = [op EXCEPT ![o] = op'[o]] /\ op'[o] = [op[o] EXCEPT !.at = "unvector", !.vals = docs, !.idx = idx, !.vec = vec]
    BY <1>3, <1>4 DEF KnowledgeTyped
  <2>2. op'[o] \in OpRecords
    BY <1>2, <1>3, <2>1 DEF KnowledgeTyped, OpRecords, Removing
  <2>3. /\ op'[o].at = "unvector" /\ op'[o].vals = docs /\ op'[o].idx = idx /\ op'[o].vec = vec
        /\ op'[o].todo = op[o].todo /\ op'[o].sel = op[o].sel /\ op'[o].job = op[o].job
    BY <1>2, <2>1 DEF OpRecords
  <2>4. TodoOK(op[o])'
    BY <1>2, <1>4, <2>3 DEF Accepts, TodoOK, Importing, Removing
  <2>5. ~crossed => OpHeld(o, op[o])'
    BY <1>1, <1>2, <1>4, <2>3 DEF files, FilesInv, VectorsMatch, OpHeld, ListHeld, IndexHeld, Importing, Removing
  <2>6. ~crossed /\ cuts = 0 => WholeHeld(o, op[o])'
    BY <1>1, <1>2, <2>3 DEF files, WholeHeld, Indexed, InIndex, InCopies, Importing, Removing
  <2>. QED  BY <1>1, <2>1, <2>2, <2>3, <2>4, <2>5, <2>6, GoesOn DEF UnderWay
<1>5. CASE ~Accepts
  <2>1. Ends(o, "threw")
    BY <1>5
  <2>2. ~crossed /\ cuts = 0 => Whole
    BY <1>2 DEF WholeHeld, Whole, InIndex, InCopies, Importing
  <2>. QED  BY <1>1, <1>3, <2>1, <2>2, EndsKeeps DEF rest, KnowledgeTyped
<1>. QED  BY <1>4, <1>5

LEMMA KeptTyped ==
  ASSUME NEW S, NEW s \in Seq(S), NEW chunks, Len(chunks) = Len(s), NEW sel
  PROVE  Kept(chunks, sel, s) \in Seq(S)
<1>1. PICK c : Leaves(c, chunks, sel, s, S) /\ Kept(chunks, sel, s) = c[Len(s)]
  BY KeptLeaves
<1>2. Len(s) \in 0 .. Len(s)
  BY LenProperties
<1>. QED  BY <1>1, <1>2 DEF Leaves

\* A step to another point of the operation that changes nothing else of it.
LEMMA OnlyAt ==
  ASSUME KnowledgeTyped, NEW o \in Ops, NEW at, Goto(o, at)
  PROVE  /\ op' = [op EXCEPT ![o] = op'[o]] /\ \A p \in Ops \ {o} : op'[p] = op[p]
         /\ op'[o].at = at /\ op'[o].vals = op[o].vals /\ op'[o].idx = op[o].idx /\ op'[o].vec = op[o].vec
         /\ op'[o].todo = op[o].todo /\ op'[o].sel = op[o].sel /\ op'[o].job = op[o].job
         /\ at \in {"save"} \union Removing \union Importing => op'[o] \in OpRecords /\ op' \in [Ops -> OpRecords]
<1>1. op'[o] = [op[o] EXCEPT !.at = at] /\ op[o] \in OpRecords
  BY DEF KnowledgeTyped, Goto
<1>2. op' = [op EXCEPT ![o] = op'[o]] /\ \A p \in Ops \ {o} : op'[p] = op[p]
  BY <1>1 DEF KnowledgeTyped, Goto
<1>3. at \in {"save"} \union Removing \union Importing => op'[o] \in OpRecords
  BY <1>1 DEF OpRecords
<1>4. op'[o] \in OpRecords => op' \in [Ops -> OpRecords]
  BY <1>2 DEF KnowledgeTyped
<1>. QED  BY <1>1, <1>2, <1>3, <1>4 DEF OpRecords

LEMMA RemoveVectorsKeeps ==
  ASSUME KnowledgeInv, NEW o \in Ops, RemoveVectors(o) PROVE KnowledgeInv'
<1>1. UnderWay(o) /\ op[o].at = "unvector" /\ vec' = KeptVectors(o) /\ UNCHANGED <<docs, idx, copies, host, cuts, crossed>>
  BY DEF RemoveVectors, UnderWay, rest
<1>2. /\ op[o] \in OpRecords /\ TodoOK(op[o])
      /\ ~crossed => FilesInv /\ OpHeld(o, op[o])
      /\ ~crossed /\ cuts = 0 => WholeHeld(o, op[o])
  BY <1>1, WorkAsIs
<1>3. KnowledgeTyped /\ cuts \in Nat
  BY DEF KnowledgeInv, KnowledgeTyped
<1>4. /\ \A p \in Ops \ {o} : op'[p] = op[p]
      /\ op'[o].at = "unindex" /\ op'[o].vals = op[o].vals /\ op'[o].idx = op[o].idx /\ op'[o].vec = op[o].vec
      /\ op'[o].todo = op[o].todo /\ op'[o].sel = op[o].sel /\ op'[o].job = op[o].job
      /\ op' \in [Ops -> OpRecords]
  BY <1>3, OnlyAt DEF RemoveVectors, Removing
<1>5. vec' \in Seq(Ids)
  <2>1. op[o].vec \in Seq(Ids) /\ Len(op[o].idx) = Len(op[o].vec)
    BY <1>1, <1>2 DEF TodoOK, OpRecords
  <2>. QED  BY <1>1, <2>1, KeptTyped DEF KeptVectors
<1>6. KnowledgeTyped'
  BY <1>1, <1>3, <1>4, <1>5 DEF KnowledgeTyped
<1>7. ASSUME ~crossed
      PROVE  /\ vec' = Kept(idx, op[o].sel, idx) /\ op[o].idx = idx /\ op[o].vec = idx
             /\ Len(vec') = Len(idx) => vec' = idx
  <2>1. op[o].idx = idx /\ op[o].vec = idx
    BY <1>1, <1>2, <1>7 DEF OpHeld, IndexHeld
  <2>2. idx \in Seq(Ids)
    BY <1>3 DEF KnowledgeTyped
  <2>. QED  BY <1>1, <2>1, <2>2, KeptStays DEF KeptVectors
<1>8. TodoOK(op[o])'
  BY <1>1, <1>2, <1>4 DEF TodoOK, Importing, Removing
<1>9. ~crossed => FilesInv'
  BY <1>1, <1>2, <1>7 DEF FilesInv, Few, VectorsMatch, Accepts, ReadyOnce
<1>10. ~crossed => OpHeld(o, op[o])'
  BY <1>1, <1>2, <1>4, <1>7 DEF OpHeld, ListHeld, IndexHeld, Importing, Removing
<1>11. ~crossed /\ cuts = 0 => WholeHeld(o, op[o])'
  BY <1>1, <1>2, <1>4 DEF WholeHeld, Indexed, InIndex, InCopies, Importing, Removing
<1>12. WorkDone(o)'
  BY <1>1, <1>4, <1>8, <1>9, <1>10, <1>11 DEF WorkDone, UnderWay
<1>. QED  BY <1>1, <1>3, <1>4, <1>6, <1>12, WorkKeeps

LEMMA RemoveIndexKeeps ==
  ASSUME KnowledgeInv, NEW o \in Ops, RemoveIndex(o) PROVE KnowledgeInv'
<1>1. UnderWay(o) /\ op[o].at = "unindex" /\ idx' = KeptChunks(o) /\ UNCHANGED <<docs, vec, copies, host, cuts, crossed>>
  BY DEF RemoveIndex, UnderWay, rest
<1>2. /\ op[o] \in OpRecords /\ TodoOK(op[o])
      /\ ~crossed => FilesInv /\ OpHeld(o, op[o])
      /\ ~crossed /\ cuts = 0 => WholeHeld(o, op[o])
  BY <1>1, WorkAsIs
<1>3. KnowledgeTyped /\ cuts \in Nat
  BY DEF KnowledgeInv, KnowledgeTyped
<1>4. /\ \A p \in Ops \ {o} : op'[p] = op[p]
      /\ op'[o].at = "unfile" /\ op'[o].vals = op[o].vals
      /\ op'[o].todo = op[o].todo /\ op'[o].sel = op[o].sel /\ op'[o].job = op[o].job
      /\ op' \in [Ops -> OpRecords]
  BY <1>3, OnlyAt DEF RemoveIndex, Removing
<1>5. idx' \in Seq(Ids)
  <2>1. op[o].idx \in Seq(Ids)
    BY <1>2 DEF OpRecords
  <2>. QED  BY <1>1, <2>1, KeptTyped DEF KeptChunks
<1>6. KnowledgeTyped'
  BY <1>1, <1>3, <1>4, <1>5 DEF KnowledgeTyped
<1>7. ASSUME ~crossed
      PROVE  /\ idx' = vec /\ Chunks(idx') = Chunks(idx) \ op[o].sel
             /\ IsInjective(idx) => IsInjective(idx')
  <2>1. op[o].idx = idx /\ vec = Kept(idx, op[o].sel, idx)
    BY <1>1, <1>2, <1>7 DEF OpHeld, IndexHeld
  <2>2. idx \in Seq(Ids)
    BY <1>3 DEF KnowledgeTyped
  <2>. QED  BY <1>1, <2>1, <2>2, KeptStays DEF KeptChunks
<1>8. TodoOK(op[o])'
  BY <1>1, <1>2, <1>4 DEF TodoOK, Importing, Removing
<1>9. ~crossed => FilesInv'
  BY <1>1, <1>2, <1>7 DEF FilesInv, Few, VectorsMatch, Accepts, ReadyOnce
<1>10. ~crossed => OpHeld(o, op[o])'
  BY <1>1, <1>2, <1>4 DEF OpHeld, ListHeld, IndexHeld, Importing, Removing
<1>11. ~crossed /\ cuts = 0 => WholeHeld(o, op[o])'
  BY <1>1, <1>2, <1>4, <1>7 DEF WholeHeld, Indexed, InIndex, InCopies, Importing, Removing
<1>12. WorkDone(o)'
  BY <1>1, <1>4, <1>8, <1>9, <1>10, <1>11 DEF WorkDone, UnderWay
<1>. QED  BY <1>1, <1>3, <1>4, <1>6, <1>12, WorkKeeps

LEMMA RemoveFilesKeeps ==
  ASSUME KnowledgeInv, NEW o \in Ops, RemoveFiles(o) PROVE KnowledgeInv'
<1>1. UnderWay(o) /\ op[o].at = "unfile" /\ copies' = copies \ op[o].sel /\ UNCHANGED <<docs, idx, vec, host, cuts, crossed>>
  BY DEF RemoveFiles, UnderWay, rest
<1>2. /\ op[o] \in OpRecords /\ TodoOK(op[o])
      /\ ~crossed => FilesInv /\ OpHeld(o, op[o])
      /\ ~crossed /\ cuts = 0 => WholeHeld(o, op[o])
  BY <1>1, WorkAsIs
<1>3. KnowledgeTyped /\ cuts \in Nat
  BY DEF KnowledgeInv, KnowledgeTyped
<1>4. /\ \A p \in Ops \ {o} : op'[p] = op[p]
      /\ op'[o].at = "unlist" /\ op'[o].vals = op[o].vals
      /\ op'[o].todo = op[o].todo /\ op'[o].sel = op[o].sel /\ op'[o].job = op[o].job
      /\ op' \in [Ops -> OpRecords]
  BY <1>3, OnlyAt DEF RemoveFiles, Removing
<1>6. KnowledgeTyped'
  BY <1>1, <1>3, <1>4 DEF KnowledgeTyped
<1>8. TodoOK(op[o])'
  BY <1>1, <1>2, <1>4 DEF TodoOK, Importing, Removing
<1>9. ~crossed => FilesInv'
  BY <1>1, <1>2 DEF FilesInv, Few, VectorsMatch, Accepts, ReadyOnce
<1>10. ~crossed => OpHeld(o, op[o])'
  BY <1>1, <1>2, <1>4 DEF OpHeld, ListHeld, IndexHeld, Importing, Removing
<1>11. ~crossed /\ cuts = 0 => WholeHeld(o, op[o])'
  BY <1>1, <1>2, <1>4 DEF WholeHeld, Indexed, InIndex, InCopies, Importing, Removing
<1>12. WorkDone(o)'
  BY <1>1, <1>4, <1>8, <1>9, <1>10, <1>11 DEF WorkDone, UnderWay
<1>. QED  BY <1>1, <1>3, <1>4, <1>6, <1>12, WorkKeeps

LEMMA RemoveListKeeps ==
  ASSUME KnowledgeInv, NEW o \in Ops, RemoveList(o) PROVE KnowledgeInv'
<1>1. UnderWay(o) /\ op[o].at = "unlist" /\ docs' = Without(o) /\ UNCHANGED <<idx, vec, copies, host, cuts, crossed>>
  BY DEF RemoveList, UnderWay, rest
<1>2. /\ op[o] \in OpRecords /\ TodoOK(op[o])
      /\ ~crossed => FilesInv /\ OpHeld(o, op[o])
      /\ ~crossed /\ cuts = 0 => WholeHeld(o, op[o])
  BY <1>1, WorkAsIs
<1>3. KnowledgeTyped /\ cuts \in Nat
  BY DEF KnowledgeInv, KnowledgeTyped
<1>4. Without(o) \in [Ids -> Statuses]
  BY <1>2 DEF Without, OpRecords, Statuses
<1>5. ASSUME ~crossed
      PROVE  /\ ReadyIn(docs)' = ReadyIn(docs) \ op[o].sel /\ Listed(docs)' = Listed(docs) \ op[o].sel
             /\ \A i \in Ids : docs[i] = "none" => docs'[i] = "none"
  <2>1. op[o].vals = docs
    BY <1>1, <1>2, <1>5 DEF OpHeld, ListHeld, Removing
  <2>. QED  BY <1>1, <2>1 DEF Without, ReadyIn, Listed
<1>6. ~crossed => FilesInv'
  <2>. SUFFICES ASSUME ~crossed PROVE FilesInv'
    OBVIOUS
  <2>1. Few /\ Listed(docs)' \subseteq Listed(docs)
    BY <1>2, <1>5 DEF FilesInv
  <2>2. IsFiniteSet(Listed(docs)') /\ Cardinality(Listed(docs)') <= Cardinality(Listed(docs))
    BY <2>1, FS_Subset DEF Few
  <2>3. Cardinality(Listed(docs)') \in Nat /\ Cardinality(Listed(docs)) \in Nat /\ MaxSources \in Nat
    BY <2>1, <2>2, FS_CardinalityType, KnowledgeAssumption DEF Few
  <2>4. Few'
    BY <2>1, <2>2, <2>3 DEF Few
  <2>5. ReadyOnce' /\ VectorsMatch'
    BY <1>1, <1>2, <1>5 DEF FilesInv, ReadyOnce, VectorsMatch, Accepts
  <2>. QED  BY <2>4, <2>5 DEF FilesInv
<1>7. ~crossed => \A p \in Ops \ {o} : p > o => \A q \in Paths : docs'[<<p, q>>] = docs[<<p, q>>]
  <2>. SUFFICES ASSUME ~crossed, NEW p \in Ops \ {o}, p > o, NEW q \in Paths PROVE docs'[<<p, q>>] = docs[<<p, q>>]
    OBVIOUS
  <2>1. op[p].at = "idle"
    BY <1>1, OthersRest, KnowledgeAssumption
  <2>2. docs[<<p, q>>] = "none" /\ <<p, q>> \in Ids
    BY <2>1 DEF KnowledgeInv, AloneInv, Unbegun, Ids
  <2>. QED  BY <1>5, <2>2
<1>8. CASE op[o].job = "reindex"
  <2>1. op' = [op EXCEPT ![o].at = "next", ![o].vals = Without(o)]
    BY <1>8 DEF RemoveList
  <2>2. op'[o] = [op[o] EXCEPT !.at = "next", !.vals = Without(o)] /\ \A p \in Ops \ {o} : op'[p] = op[p]
    BY <1>3, <2>1 DEF KnowledgeTyped
  <2>3. op'[o] \in OpRecords
    BY <1>2, <1>4, <2>2 DEF OpRecords
  <2>4. /\ op'[o].at = "next" /\ op'[o].vals = Without(o)
        /\ op'[o].todo = op[o].todo /\ op'[o].sel = op[o].sel /\ op'[o].job = op[o].job
    BY <1>2, <2>2 DEF OpRecords
  <2>5. KnowledgeTyped'
    BY <1>1, <1>3, <1>4, <2>1, <2>2, <2>3 DEF KnowledgeTyped
  <2>6. TodoOK(op[o])'
    BY <1>2, <2>4 DEF TodoOK, Importing, Removing
  <2>7. ~crossed => OpHeld(o, op[o])'
    <3>. SUFFICES ASSUME ~crossed PROVE OpHeld(o, op[o])'
      OBVIOUS
    <3>1. \A p \in Chunks(op[o].todo) : docs[<<o, p>>] = "none" /\ p \in Paths
      <4>1. op[o].todo \in Seq(Paths)
        BY <1>2 DEF OpRecords
      <4>2. \A p \in Chunks(op[o].todo) : p \in Paths
        BY <4>1 DEF Chunks
      <4>. QED  BY <1>2, <4>2 DEF OpHeld, ListHeld
    <3>2. \A p \in Chunks(op[o].todo) : docs'[<<o, p>>] = "none"
      BY <1>5, <3>1 DEF Ids
    <3>. QED  BY <1>1, <2>4, <3>2 DEF OpHeld, ListHeld, IndexHeld, Importing, Removing
  <2>8. ~crossed /\ cuts = 0 => WholeHeld(o, op[o])'
    BY <1>1, <1>2, <1>5, <2>4 DEF WholeHeld, Indexed, InIndex, InCopies, Importing, Removing
  <2>9. WorkDone(o)'
    BY <1>1, <1>6, <2>4, <2>6, <2>7, <2>8 DEF WorkDone, UnderWay
  <2>10. op'[o].at # "idle" /\ \A p \in Ops \ {o} : op'[p] = op[p]
    BY <2>2, <2>4
  <2>. QED  BY ONLY KnowledgeInv, <1>1, <1>3, <1>7, <2>5, <2>9, <2>10, WorkKeeps
<1>9. CASE op[o].job # "reindex"
  <2>1. Ends(o, "over")
    BY <1>9 DEF RemoveList
  <2>2. /\ op' \in [Ops -> OpRecords] /\ op'[o].at = "over" /\ op'[o].job = op[o].job /\ op'[o].sel = op[o].sel
        /\ \A p \in Ops \ {o} : op'[p] = op[p]
        /\ TodoOK(op[o])' /\ ~UnderWay(o)'
    BY <1>3, <2>1, EndRecord
  <2>3. KnowledgeTyped'
    BY <1>1, <1>3, <1>4, <2>2 DEF KnowledgeTyped
  <2>4. ~crossed /\ cuts = 0 => Whole'
    BY <1>1, <1>2, <1>5 DEF WholeHeld, Whole, Indexed, InIndex, InCopies, Importing, Removing
  <2>5. WorkDone(o)'
    BY <1>1, <1>6, <1>9, <2>2, <2>4 DEF WorkDone
  <2>. QED  BY <1>1, <1>3, <1>7, <2>2, <2>3, <2>5, WorkKeeps
<1>. QED  BY <1>8, <1>9

\* The steps of an import.
LEMMA ImportNextKeeps ==
  ASSUME KnowledgeInv, NEW o \in Ops, ImportNext(o) PROVE KnowledgeInv'
<1>1. UnderWay(o) /\ op[o].at = "next" /\ UNCHANGED <<files, rest>>
  BY DEF ImportNext, UnderWay
<1>2. /\ op[o] \in OpRecords /\ TodoOK(op[o])
      /\ ~crossed => FilesInv /\ OpHeld(o, op[o])
      /\ ~crossed /\ cuts = 0 => WholeHeld(o, op[o])
  BY <1>1, WorkAsIs
<1>3. KnowledgeTyped /\ cuts \in Nat /\ cuts \in cuts .. MaxCuts
  BY KnowledgeAssumption DEF KnowledgeInv, KnowledgeTyped
<1>4. ~crossed => op[o].vals = docs
  BY <1>1, <1>2 DEF OpHeld, ListHeld, Removing
<1>5. ~crossed /\ cuts = 0 => Whole
  BY <1>1, <1>2 DEF WholeHeld, Whole, InIndex, InCopies, Importing
<1>6. op[o].todo \in Seq(Paths) /\ op[o].vals \in [Ids -> Statuses]
  BY <1>2 DEF OpRecords
<1>7. CASE op[o].todo = <<>>
  <2>1. Ends(o, "over")
    BY <1>7 DEF ImportNext
  <2>2. Chunks(op[o].todo) = {}
    BY <1>7 DEF Chunks
  <2>3. ~crossed /\ cuts = 0 /\ op[o].job = "reindex" => \A i \in op[o].sel : Named(Listed(docs), i[2])
    BY <1>2, <2>2 DEF WholeHeld
  <2>. QED  BY <1>1, <1>3, <1>5, <2>1, <2>3, EndsKeeps DEF rest
<1>8. CASE op[o].todo # <<>> /\ Duplicate(o)
  <2>1. op'[o] = [op[o] EXCEPT !.todo = Tail(op[o].todo)] /\ op' = [op EXCEPT ![o] = op'[o]]
    BY <1>3, <1>8 DEF ImportNext, KnowledgeTyped
  <2>2. /\ Tail(op[o].todo) \in Seq(Paths) /\ Chunks(op[o].todo) = Chunks(Tail(op[o].todo)) \union {Path(o)}
        /\ IsInjective(Tail(op[o].todo))
    BY <1>2, <1>6, <1>8, FirstPath DEF TodoOK, Path
  <2>3. op'[o] \in OpRecords
    BY <1>2, <2>1, <2>2 DEF OpRecords
  <2>4. /\ op'[o].at = "next" /\ op'[o].vals = op[o].vals /\ op'[o].todo = Tail(op[o].todo)
        /\ op'[o].sel = op[o].sel /\ op'[o].job = op[o].job
    BY <1>1, <1>2, <2>1 DEF OpRecords
  <2>5. TodoOK(op[o])' /\ UnderWay(o)'
    BY <2>2, <2>4 DEF TodoOK, UnderWay, Importing, Removing
  <2>6. ~crossed => OpHeld(o, op[o])'
    BY <1>1, <1>2, <2>2, <2>4 DEF files, OpHeld, ListHeld, IndexHeld, Importing, Removing
  <2>7. ASSUME ~crossed, cuts = 0 PROVE WholeHeld(o, op[o])'
    <3>1. Named(Listed(docs), Path(o))
      BY <1>4, <1>8, <2>7 DEF Duplicate, Named, ReadyIn, Listed
    <3>2. WholeHeld(o, op[o])
      BY <1>2, <2>7
    <3>. QED  BY <1>1, <2>2, <2>4, <3>1, <3>2 DEF files, WholeHeld, Indexed, InIndex, InCopies, Importing, Removing
  <2>. QED  BY <1>1, <2>1, <2>3, <2>4, <2>5, <2>6, <2>7, GoesOn
<1>9. CASE op[o].todo # <<>> /\ ~Duplicate(o) /\ AtLimit(o)
  <2>1. Ends(o, "threw")
    BY <1>9 DEF ImportNext
  <2>. QED  BY <1>1, <1>3, <1>5, <2>1, EndsKeeps DEF rest
<1>10. CASE op[o].todo # <<>> /\ ~Duplicate(o) /\ ~AtLimit(o)
  <2>1. Path(o) \in Paths /\ New(o) \in Ids
    BY <1>6, <1>10, FirstPath DEF Path, New, Ids
  <2> DEFINE marked == [op[o].vals EXCEPT ![New(o)] = "failed"]
  <2>2. op' = [op EXCEPT ![o].vals[New(o)] = "failed", ![o].at = "copy"]
    BY <1>10 DEF ImportNext
  <2>3. op'[o] = [op[o] EXCEPT !.vals = marked, !.at = "copy"] /\ op' = [op EXCEPT ![o] = op'[o]]
    BY <1>2, <1>3, <2>2 DEF KnowledgeTyped, OpRecords
  <2>4. marked \in [Ids -> Statuses]
    BY <1>6 DEF Statuses
  <2>. HIDE DEF marked
  <2>5. op'[o] \in OpRecords
    BY <1>2, <2>3, <2>4 DEF OpRecords, Importing
  <2>6. /\ op'[o].at = "copy" /\ op'[o].vals = marked /\ op'[o].todo = op[o].todo
        /\ op'[o].sel = op[o].sel /\ op'[o].job = op[o].job
    BY <1>2, <2>3 DEF OpRecords
  <2>7. TodoOK(op[o])' /\ UnderWay(o)'
    BY <1>2, <1>10, <2>6 DEF TodoOK, UnderWay, Importing, Removing
  <2>8. ASSUME ~crossed PROVE OpHeld(o, op[o])'
    <3>1. (\A i \in ReadyIn(docs) : i[2] # Path(o)) /\ marked = [docs EXCEPT ![New(o)] = "failed"]
      BY <1>4, <1>10, <2>8 DEF Duplicate, marked
    <3>2. Cardinality(Listed(docs)) < MaxSources
      <4>1. Cardinality(Listed(docs)) \in Nat
        BY <1>2, <2>8, FS_CardinalityType DEF FilesInv, Few
      <4>2. ~(Cardinality(Listed(docs)) >= MaxSources)
        BY <1>4, <1>10, <2>8 DEF AtLimit
      <4>. QED  BY <4>1, <4>2, KnowledgeAssumption
    <3>3. OpHeld(o, op[o])
      BY <1>2, <2>8
    <3>. QED  BY <1>1, <2>6, <3>1, <3>2, <3>3 DEF files, OpHeld, ListHeld, IndexHeld, Importing, Removing, Path, New
  <2>9. ~crossed /\ cuts = 0 => WholeHeld(o, op[o])'
    BY <1>1, <1>2, <2>6 DEF files, WholeHeld, Indexed, InIndex, InCopies, Importing, Removing
  <2>. QED  BY <1>1, <2>3, <2>5, <2>6, <2>7, <2>8, <2>9, GoesOn
<1>. QED  BY <1>7, <1>8, <1>9, <1>10

LEMMA ImportAbortedKeeps ==
  ASSUME KnowledgeInv, NEW o \in Ops, ImportAborted(o) PROVE KnowledgeInv'
<1>1. UnderWay(o) /\ op[o].at = "next" /\ UNCHANGED <<files, rest>> /\ Ends(o, "threw")
  BY DEF ImportAborted, UnderWay
<1>2. ~crossed /\ cuts = 0 => WholeHeld(o, op[o])
  BY <1>1, WorkAsIs
<1>3. cuts \in cuts .. MaxCuts
  BY KnowledgeAssumption DEF KnowledgeInv, KnowledgeTyped
<1>4. ~crossed /\ cuts = 0 => Whole
  BY <1>1, <1>2 DEF WholeHeld, Whole, InIndex, InCopies, Importing
<1>. QED  BY <1>1, <1>3, <1>4, EndsKeeps DEF rest

LEMMA CopySourceKeeps ==
  ASSUME KnowledgeInv, NEW o \in Ops, CopySource(o) PROVE KnowledgeInv'
<1>1. /\ UnderWay(o) /\ op[o].at = "copy" /\ copies' = copies \union {New(o)}
      /\ UNCHANGED <<docs, idx, vec, host, cuts, crossed>>
  BY DEF CopySource, UnderWay, rest
<1>2. /\ op[o] \in OpRecords /\ TodoOK(op[o])
      /\ ~crossed => FilesInv /\ OpHeld(o, op[o])
      /\ ~crossed /\ cuts = 0 => WholeHeld(o, op[o])
  BY <1>1, WorkAsIs
<1>3. KnowledgeTyped /\ cuts \in Nat
  BY DEF KnowledgeInv, KnowledgeTyped
<1>4. /\ \A p \in Ops \ {o} : op'[p] = op[p]
      /\ op'[o].at = "read" /\ op'[o].vals = op[o].vals
      /\ op'[o].todo = op[o].todo /\ op'[o].sel = op[o].sel /\ op'[o].job = op[o].job
      /\ op' \in [Ops -> OpRecords]
  BY <1>3, OnlyAt DEF CopySource, Importing
<1>5. New(o) \in Ids
  <2>1. op[o].todo \in Seq(Paths) /\ op[o].todo # <<>>
    BY <1>1, <1>2 DEF OpRecords, TodoOK, Importing
  <2>. QED  BY <2>1, FirstPath DEF New, Path, Ids
<1>6. KnowledgeTyped'
  BY <1>1, <1>3, <1>4, <1>5 DEF KnowledgeTyped
<1>8. TodoOK(op[o])'
  BY <1>1, <1>2, <1>4 DEF TodoOK, Importing, Removing
<1>9. ~crossed => FilesInv'
  BY <1>1, <1>2 DEF FilesInv, Few, VectorsMatch, Accepts, ReadyOnce
<1>10. ~crossed => OpHeld(o, op[o])'
  BY <1>1, <1>2, <1>4 DEF OpHeld, ListHeld, IndexHeld, Importing, Removing
<1>11. ~crossed /\ cuts = 0 => WholeHeld(o, op[o])'
  BY <1>1, <1>2, <1>4 DEF WholeHeld, Indexed, InIndex, InCopies, Importing, Removing, New, Path
<1>12. WorkDone(o)'
  BY <1>1, <1>4, <1>8, <1>9, <1>10, <1>11 DEF WorkDone, UnderWay
<1>. QED  BY <1>1, <1>3, <1>4, <1>6, <1>12, WorkKeeps

LEMMA IndexReadKeeps ==
  ASSUME KnowledgeInv, NEW o \in Ops, IndexRead(o) PROVE KnowledgeInv'
<1>1. UnderWay(o) /\ op[o].at = "read" /\ UNCHANGED <<files, rest>>
  BY DEF IndexRead, UnderWay
<1>2. /\ op[o] \in OpRecords /\ TodoOK(op[o])
      /\ ~crossed => FilesInv /\ OpHeld(o, op[o])
      /\ ~crossed /\ cuts = 0 => WholeHeld(o, op[o])
  BY <1>1, WorkAsIs
<1>3. KnowledgeTyped
  BY DEF KnowledgeInv
<1> DEFINE at == IF Accepts THEN "embed" ELSE "fail"
<1>4. op'[o] = [op[o] EXCEPT !.at = at, !.idx = idx, !.vec = vec] /\ op' = [op EXCEPT ![o] = op'[o]]
  BY <1>3 DEF IndexRead, KnowledgeTyped
<1>5. at \in {"embed", "fail"} /\ (at = "embed" => Accepts)
  OBVIOUS
<1>. HIDE DEF at
<1>6. op'[o] \in OpRecords
  BY <1>2, <1>3, <1>4, <1>5 DEF OpRecords, Importing, KnowledgeTyped
<1>7. /\ op'[o].at = at /\ op'[o].vals = op[o].vals /\ op'[o].todo = op[o].todo /\ op'[o].idx = idx /\ op'[o].vec = vec
      /\ op'[o].sel = op[o].sel /\ op'[o].job = op[o].job
  BY <1>2, <1>4 DEF OpRecords
<1>8. TodoOK(op[o])' /\ UnderWay(o)'
  BY <1>1, <1>2, <1>5, <1>7 DEF TodoOK, UnderWay, Importing, Removing
<1>9. ~crossed => OpHeld(o, op[o])'
  BY <1>1, <1>2, <1>5, <1>7 DEF files, OpHeld, ListHeld, IndexHeld, FilesInv, VectorsMatch, Importing, Removing
<1>10. ~crossed /\ cuts = 0 => WholeHeld(o, op[o])'
  BY <1>1, <1>2, <1>5, <1>7 DEF files, WholeHeld, Indexed, InIndex, InCopies, Importing, Removing
<1>. QED  BY <1>1, <1>4, <1>5, <1>6, <1>7, <1>8, <1>9, <1>10, GoesOn

LEMMA EmbeddedKeeps ==
  ASSUME KnowledgeInv, NEW o \in Ops, Embedded(o) PROVE KnowledgeInv'
<1>1. UnderWay(o) /\ op[o].at = "embed" /\ UNCHANGED <<files, rest>>
  BY DEF Embedded, UnderWay
<1>2. /\ op[o] \in OpRecords /\ TodoOK(op[o])
      /\ ~crossed => FilesInv /\ OpHeld(o, op[o])
      /\ ~crossed /\ cuts = 0 => WholeHeld(o, op[o])
  BY <1>1, WorkAsIs
<1>3. PICK at \in {"vectors", "fail"} : Goto(o, at)
  BY DEF Embedded
<1>4. /\ op' = [op EXCEPT ![o] = op'[o]]
      /\ op'[o].at = at /\ op'[o].vals = op[o].vals /\ op'[o].idx = op[o].idx /\ op'[o].vec = op[o].vec
      /\ op'[o].todo = op[o].todo /\ op'[o].sel = op[o].sel /\ op'[o].job = op[o].job
      /\ op'[o] \in OpRecords
  BY <1>3, OnlyAt DEF Importing, KnowledgeInv
<1>8. TodoOK(op[o])' /\ UnderWay(o)'
  BY <1>1, <1>2, <1>4 DEF TodoOK, UnderWay, Importing, Removing
<1>9. ~crossed => OpHeld(o, op[o])'
  BY <1>1, <1>2, <1>4 DEF files, OpHeld, ListHeld, IndexHeld, Importing, Removing
<1>10. ~crossed /\ cuts = 0 => WholeHeld(o, op[o])'
  BY <1>1, <1>2, <1>4 DEF files, WholeHeld, Indexed, InIndex, InCopies, Importing, Removing
<1>. QED  BY <1>1, <1>4, <1>8, <1>9, <1>10, GoesOn

LEMMA WriteVectorsKeeps ==
  ASSUME KnowledgeInv, NEW o \in Ops, WriteVectors(o) PROVE KnowledgeInv'
<1>1. /\ UnderWay(o) /\ op[o].at = "vectors" /\ vec' = Append(op[o].vec, New(o))
      /\ UNCHANGED <<docs, idx, copies, host, cuts, crossed>>
  BY DEF WriteVectors, UnderWay, rest
<1>2. /\ op[o] \in OpRecords /\ TodoOK(op[o])
      /\ ~crossed => FilesInv /\ OpHeld(o, op[o])
      /\ ~crossed /\ cuts = 0 => WholeHeld(o, op[o])
  BY <1>1, WorkAsIs
<1>3. KnowledgeTyped /\ cuts \in Nat
  BY DEF KnowledgeInv, KnowledgeTyped
<1>4. /\ \A p \in Ops \ {o} : op'[p] = op[p]
      /\ op'[o].at = "index" /\ op'[o].vals = op[o].vals /\ op'[o].idx = op[o].idx /\ op'[o].vec = op[o].vec
      /\ op'[o].todo = op[o].todo /\ op'[o].sel = op[o].sel /\ op'[o].job = op[o].job
      /\ op' \in [Ops -> OpRecords]
  BY <1>3, OnlyAt DEF WriteVectors, Importing
<1>5. New(o) \in Ids /\ op[o].vec \in Seq(Ids)
  <2>1. op[o].todo \in Seq(Paths) /\ op[o].todo # <<>>
    BY <1>1, <1>2 DEF OpRecords, TodoOK, Importing
  <2>. QED  BY <1>2, <2>1, FirstPath DEF New, Path, Ids, OpRecords
<1>6. vec' \in Seq(Ids) /\ Len(vec') = Len(op[o].vec) + 1 /\ Len(op[o].vec) \in Nat
  BY <1>1, <1>5
<1>7. KnowledgeTyped'
  BY <1>1, <1>3, <1>4, <1>6 DEF KnowledgeTyped
<1>8. TodoOK(op[o])'
  BY <1>1, <1>2, <1>4 DEF TodoOK, Importing, Removing
<1>9. ~crossed => op[o].idx = idx /\ op[o].vec = idx
  BY <1>1, <1>2 DEF OpHeld, IndexHeld
<1>10. ~crossed => FilesInv'
  BY <1>1, <1>2, <1>6, <1>9 DEF FilesInv, Few, VectorsMatch, Accepts, ReadyOnce
<1>11. ~crossed => OpHeld(o, op[o])'
  BY <1>1, <1>2, <1>4, <1>9 DEF OpHeld, ListHeld, IndexHeld, Importing, Removing, New, Path
<1>12. ~crossed /\ cuts = 0 => WholeHeld(o, op[o])'
  BY <1>1, <1>2, <1>4 DEF WholeHeld, Indexed, InIndex, InCopies, Importing, Removing
<1>13. WorkDone(o)'
  BY <1>1, <1>4, <1>8, <1>10, <1>11, <1>12 DEF WorkDone, UnderWay
<1>. QED  BY <1>1, <1>3, <1>4, <1>7, <1>13, WorkKeeps

LEMMA WriteIndexKeeps ==
  ASSUME KnowledgeInv, NEW o \in Ops, WriteIndex(o) PROVE KnowledgeInv'
<1>1. /\ UnderWay(o) /\ op[o].at = "index" /\ idx' = Append(op[o].idx, New(o))
      /\ UNCHANGED <<docs, vec, copies, host, cuts, crossed>>
  BY DEF WriteIndex, UnderWay, rest
<1>2. /\ op[o] \in OpRecords /\ TodoOK(op[o])
      /\ ~crossed => FilesInv /\ OpHeld(o, op[o])
      /\ ~crossed /\ cuts = 0 => WholeHeld(o, op[o])
  BY <1>1, WorkAsIs
<1>3. KnowledgeTyped /\ cuts \in Nat
  BY DEF KnowledgeInv, KnowledgeTyped
<1>4. New(o) \in Ids /\ op[o].idx \in Seq(Ids) /\ op[o].vals \in [Ids -> Statuses]
  <2>1. op[o].todo \in Seq(Paths) /\ op[o].todo # <<>>
    BY <1>1, <1>2 DEF OpRecords, TodoOK, Importing
  <2>. QED  BY <1>2, <2>1, FirstPath DEF New, Path, Ids, OpRecords
<1>5. Marked(o) \in [Ids -> Statuses]
  BY <1>4 DEF Marked, Statuses
<1>6. op'[o] = [op[o] EXCEPT !.at = "save", !.vals = Marked(o)] /\ \A p \in Ops \ {o} : op'[p] = op[p]
  BY <1>3 DEF WriteIndex, KnowledgeTyped
<1>7. op'[o] \in OpRecords /\ op' \in [Ops -> OpRecords]
  <2>1. op'[o] \in OpRecords
    BY <1>2, <1>5, <1>6 DEF OpRecords
  <2>2. op' = [op EXCEPT ![o] = op'[o]]
    BY <1>3, <1>6 DEF WriteIndex, KnowledgeTyped
  <2>. QED  BY <1>3, <2>1, <2>2 DEF KnowledgeTyped
<1>8. /\ op'[o].at = "save" /\ op'[o].vals = Marked(o) /\ op'[o].todo = op[o].todo
      /\ op'[o].sel = op[o].sel /\ op'[o].job = op[o].job
  BY <1>2, <1>6 DEF OpRecords
<1>9. idx' \in Seq(Ids)
  BY <1>1, <1>4
<1>10. KnowledgeTyped'
  BY <1>1, <1>3, <1>7, <1>9 DEF KnowledgeTyped
<1>11. TodoOK(op[o])'
  BY <1>1, <1>2, <1>8 DEF TodoOK, Importing, Removing
<1>12. ~crossed => op[o].idx = idx /\ idx' = vec
  BY <1>1, <1>2 DEF OpHeld, IndexHeld, New, Path
<1>13. ~crossed => FilesInv'
  BY <1>1, <1>2, <1>12 DEF FilesInv, Few, VectorsMatch, Accepts, ReadyOnce
<1>14. ~crossed => OpHeld(o, op[o])'
  <2>. SUFFICES ASSUME ~crossed PROVE OpHeld(o, op[o])'
    OBVIOUS
  <2>1. op[o].vals = [docs EXCEPT ![New(o)] = "failed"]
    BY <1>1, <1>2 DEF OpHeld, ListHeld, Importing, New, Path
  <2>2. Marked(o) = [docs EXCEPT ![New(o)] = "ready"]
    BY <1>3, <1>4, <2>1 DEF Marked, KnowledgeTyped
  <2>. QED  BY <1>1, <1>2, <1>8, <2>2 DEF OpHeld, ListHeld, IndexHeld, Importing, Removing, New, Path
<1>15. ASSUME ~crossed, cuts = 0 PROVE WholeHeld(o, op[o])'
  <2>1. IsInjective(idx) /\ Chunks(idx) = ReadyIn(docs) /\ Listed(docs) \union {New(o)} \subseteq copies
    BY <1>1, <1>2, <1>15 DEF WholeHeld, Indexed, InIndex, InCopies, Importing, New, Path
  <2>2. New(o) \notin Chunks(idx)
    BY <1>1, <1>2, <1>15, <2>1 DEF OpHeld, ListHeld, Importing, New, Path
  <2>3. idx \in Seq(Ids) /\ idx' = Append(idx, New(o))
    BY <1>1, <1>3, <1>12, <1>15 DEF KnowledgeTyped
  <2>4. IsInjective(idx') /\ \A q : q \in Chunks(idx') <=> q \in Chunks(idx) \/ q = New(o)
    BY <1>4, <2>1, <2>2, <2>3, AppendLists, SMTT(20) DEF Listing, Chunks
  <2>5. Chunks(idx') = ReadyIn(docs) \union {New(o)}
    BY <2>1, <2>4
  <2>6. WholeHeld(o, op[o])
    BY <1>2, <1>15
  <2>. QED  BY <1>1, <1>8, <1>12, <1>15, <2>1, <2>4, <2>5, <2>6
            DEF WholeHeld, Indexed, InIndex, InCopies, Importing, Removing, New, Path
<1>16. WorkDone(o)'
  BY <1>1, <1>8, <1>11, <1>13, <1>14, <1>15 DEF WorkDone, UnderWay
<1>17. op'[o].at # "idle" /\ cuts' >= cuts /\ crossed' = crossed /\ host' = host /\ docs' = docs
  BY <1>1, <1>3, <1>8
<1>. QED  BY ONLY KnowledgeInv, <1>1, <1>6, <1>10, <1>16, <1>17, WorkKeeps

\* The list as it was when the import began, with the source marked.
LEMMA ListSaved ==
  ASSUME KnowledgeInv, NEW o \in Ops, UnderWay(o), op[o].at \in {"save", "fail"}, docs' = op[o].vals,
         UNCHANGED <<idx, vec, crossed>>
  PROVE  /\ New(o) \in Ids /\ docs' \in [Ids -> Statuses]
         /\ ~crossed => /\ FilesInv'
                        /\ Listed(docs)' = Listed(docs) \union {New(o)}
                        /\ ReadyIn(docs)' = IF op[o].at = "save" THEN ReadyIn(docs) \union {New(o)} ELSE ReadyIn(docs)
                        /\ \A i \in Ids \ {New(o)} : docs'[i] = docs[i]
<1>1. /\ op[o] \in OpRecords /\ TodoOK(op[o])
      /\ ~crossed => FilesInv /\ OpHeld(o, op[o])
  BY WorkAsIs
<1>2. docs \in [Ids -> Statuses]
  BY DEF KnowledgeInv, KnowledgeTyped
<1>3. op[o].todo \in Seq(Paths) /\ op[o].todo # <<>> /\ op[o].vals \in [Ids -> Statuses]
  BY <1>1 DEF OpRecords, TodoOK, Importing
<1>4. New(o) \in Ids /\ New(o)[2] = Path(o)
  BY <1>3, FirstPath DEF New, Path, Ids
<1>5. ASSUME ~crossed
      PROVE  /\ docs' = IF op[o].at = "save" THEN [docs EXCEPT ![New(o)] = "ready"] ELSE [docs EXCEPT ![New(o)] = "failed"]
             /\ (\A i \in ReadyIn(docs) : i[2] # Path(o)) /\ Cardinality(Listed(docs)) < MaxSources
  BY <1>1, <1>5 DEF OpHeld, ListHeld, Importing, New, Path
<1>6. ASSUME ~crossed
      PROVE  /\ Listed(docs)' = Listed(docs) \union {New(o)}
             /\ ReadyIn(docs)' = IF op[o].at = "save" THEN ReadyIn(docs) \union {New(o)} ELSE ReadyIn(docs)
             /\ \A i \in Ids \ {New(o)} : docs'[i] = docs[i]
  <2>1. New(o) \notin ReadyIn(docs)
    BY <1>4, <1>5, <1>6
  <2>2. CASE op[o].at = "save"
    <3>1. docs' = [docs EXCEPT ![New(o)] = "ready"]
      BY <1>5, <1>6, <2>2
    <3>. QED  BY <1>2, <1>4, <2>2, <3>1 DEF Listed, ReadyIn
  <2>3. CASE op[o].at # "save"
    <3>1. docs' = [docs EXCEPT ![New(o)] = "failed"]
      BY <1>5, <1>6, <2>3
    <3>. QED  BY <1>2, <1>4, <2>1, <2>3, <3>1 DEF Listed, ReadyIn
  <2>. QED  BY <2>2, <2>3
<1>7. ASSUME ~crossed PROVE FilesInv'
  <2>1. Few
    BY <1>1, <1>7 DEF FilesInv
  <2>2. /\ IsFiniteSet(Listed(docs)') /\ Cardinality(Listed(docs)) \in Nat
        /\ Cardinality(Listed(docs)') = IF New(o) \in Listed(docs) THEN Cardinality(Listed(docs)) ELSE Cardinality(Listed(docs)) + 1
    BY <1>6, <1>7, <2>1, FS_AddElement, FS_CardinalityType DEF Few
  <2>3. Cardinality(Listed(docs)') <= MaxSources
    BY <1>5, <1>7, <2>2, KnowledgeAssumption
  <2>4. ReadyOnce'
    <3>. SUFFICES ASSUME NEW i \in ReadyIn(docs)', NEW j \in ReadyIn(docs)', i[2] = j[2] PROVE i = j
      BY DEF ReadyOnce
    <3>1. \A k, l \in ReadyIn(docs) : k[2] = l[2] => k = l
      BY <1>1, <1>7 DEF FilesInv, ReadyOnce
    <3>. QED  BY <1>4, <1>5, <1>6, <1>7, <3>1
  <2>5. VectorsMatch'
    BY <1>1, <1>7 DEF FilesInv, VectorsMatch, Accepts
  <2>. QED  BY <2>2, <2>3, <2>4, <2>5 DEF FilesInv, Few
<1>. QED  BY <1>3, <1>4, <1>6, <1>7

LEMMA SaveDocumentsKeeps ==
  ASSUME KnowledgeInv, NEW o \in Ops, SaveDocuments(o) PROVE KnowledgeInv'
<1>1. /\ UnderWay(o) /\ op[o].at = "save" /\ docs' = op[o].vals
      /\ UNCHANGED <<idx, vec, copies, host, cuts, crossed>>
  BY DEF SaveDocuments, UnderWay, rest
<1>2. /\ op[o] \in OpRecords /\ TodoOK(op[o])
      /\ ~crossed => FilesInv /\ OpHeld(o, op[o])
      /\ ~crossed /\ cuts = 0 => WholeHeld(o, op[o])
  BY <1>1, WorkAsIs
<1>3. KnowledgeTyped /\ cuts \in Nat
  BY DEF KnowledgeInv, KnowledgeTyped
<1>4. /\ New(o) \in Ids /\ docs' \in [Ids -> Statuses]
      /\ ~crossed => /\ FilesInv'
                     /\ Listed(docs)' = Listed(docs) \union {New(o)}
                     /\ ReadyIn(docs)' = ReadyIn(docs) \union {New(o)}
                     /\ \A i \in Ids \ {New(o)} : docs'[i] = docs[i]
  BY <1>1, ListSaved
<1>5. /\ op[o].todo \in Seq(Paths) /\ Tail(op[o].todo) \in Seq(Paths)
      /\ Chunks(op[o].todo) = Chunks(Tail(op[o].todo)) \union {Path(o)}
      /\ IsInjective(Tail(op[o].todo)) /\ Path(o) \notin Chunks(Tail(op[o].todo))
  <2>1. op[o].todo \in Seq(Paths) /\ op[o].todo # <<>> /\ IsInjective(op[o].todo)
    BY <1>1, <1>2 DEF OpRecords, TodoOK, Importing
  <2>. QED  BY <2>1, FirstPath DEF Path
<1>6. op'[o] = [op[o] EXCEPT !.at = "next", !.todo = Tail(op[o].todo)] /\ \A p \in Ops \ {o} : op'[p] = op[p]
  BY <1>3 DEF SaveDocuments, KnowledgeTyped
<1>7. op'[o] \in OpRecords /\ op' \in [Ops -> OpRecords]
  <2>1. op'[o] \in OpRecords
    BY <1>2, <1>5, <1>6 DEF OpRecords
  <2>2. op' = [op EXCEPT ![o] = op'[o]]
    BY <1>3, <1>6 DEF SaveDocuments, KnowledgeTyped
  <2>. QED  BY <1>3, <2>1, <2>2 DEF KnowledgeTyped
<1>8. /\ op'[o].at = "next" /\ op'[o].vals = op[o].vals /\ op'[o].todo = Tail(op[o].todo)
      /\ op'[o].sel = op[o].sel /\ op'[o].job = op[o].job
  BY <1>2, <1>6 DEF OpRecords
<1>9. KnowledgeTyped'
  BY <1>1, <1>3, <1>4, <1>7 DEF KnowledgeTyped
<1>10. TodoOK(op[o])'
  BY <1>5, <1>8 DEF TodoOK, Importing, Removing
<1>11. ASSUME ~crossed PROVE OpHeld(o, op[o])'
  <2>1. \A p \in Chunks(op[o].todo) : p \in Paths /\ docs[<<o, p>>] = "none"
    <3>1. \A p \in Chunks(op[o].todo) : p \in Paths
      BY <1>5 DEF Chunks
    <3>. QED  BY <1>2, <1>11, <3>1 DEF OpHeld, ListHeld
  <2>2. ASSUME NEW p \in Chunks(Tail(op[o].todo)) PROVE docs'[<<o, p>>] = "none"
    <3>1. p \in Chunks(op[o].todo) /\ p # Path(o)
      BY <1>5
    <3>2. <<o, p>> \in Ids \ {New(o)}
      BY <2>1, <3>1 DEF Ids, New
    <3>. QED  BY <1>4, <1>11, <2>1, <3>1, <3>2
  <2>. QED  BY <1>1, <1>8, <2>2 DEF OpHeld, ListHeld, IndexHeld, Importing, Removing
<1>12. ASSUME ~crossed, cuts = 0 PROVE WholeHeld(o, op[o])'
  <2>1. WholeHeld(o, op[o]) /\ New(o)[2] = Path(o)
    BY <1>2, <1>12 DEF New
  <2>2. idx = vec /\ IsInjective(idx) /\ Chunks(idx) = ReadyIn(docs) \union {New(o)} /\ Listed(docs) \union {New(o)} \subseteq copies
    BY <1>1, <2>1 DEF WholeHeld, Indexed, InIndex, InCopies, New, Path
  <2>3. op[o].job = "reindex" => \A i \in op[o].sel : i[2] \in Chunks(Tail(op[o].todo)) \/ Named(Listed(docs)', i[2])
    BY <1>1, <1>4, <1>5, <1>12, <2>1 DEF WholeHeld, Named
  <2>4. Indexed(ReadyIn(docs), Listed(docs))'
    BY <1>1, <1>4, <1>12, <2>2 DEF Indexed
  <2>. QED  BY <1>1, <1>8, <2>2, <2>3, <2>4 DEF WholeHeld, InIndex, InCopies, Importing, Removing
<1>13. WorkDone(o)'
  BY <1>1, <1>4, <1>8, <1>10, <1>11, <1>12 DEF WorkDone, UnderWay
<1>14. ~crossed => \A p \in Ops \ {o} : p > o => \A q \in Paths : docs'[<<p, q>>] = docs[<<p, q>>]
  BY <1>4 DEF Ids, New
<1>15. op'[o].at # "idle" /\ (\A p \in Ops \ {o} : op'[p] = op[p]) /\ cuts' >= cuts /\ crossed' = crossed /\ host' = host
  BY <1>1, <1>3, <1>6, <1>8
<1>. QED  BY ONLY KnowledgeInv, <1>1, <1>9, <1>13, <1>14, <1>15, WorkKeeps

LEMMA SaveFailedKeeps ==
  ASSUME KnowledgeInv, NEW o \in Ops, SaveFailed(o) PROVE KnowledgeInv'
<1>1. /\ UnderWay(o) /\ op[o].at = "fail" /\ docs' = op[o].vals /\ Ends(o, "threw")
      /\ UNCHANGED <<idx, vec, copies, host, cuts, crossed>>
  BY DEF SaveFailed, UnderWay, rest
<1>2. ~crossed /\ cuts = 0 => WholeHeld(o, op[o])
  BY <1>1, WorkAsIs
<1>3. KnowledgeTyped /\ cuts \in Nat
  BY DEF KnowledgeInv, KnowledgeTyped
<1>4. /\ New(o) \in Ids /\ docs' \in [Ids -> Statuses]
      /\ ~crossed => /\ FilesInv'
                     /\ Listed(docs)' = Listed(docs) \union {New(o)} /\ ReadyIn(docs)' = ReadyIn(docs)
                     /\ \A i \in Ids \ {New(o)} : docs'[i] = docs[i]
  BY <1>1, ListSaved
<1>5. /\ op' \in [Ops -> OpRecords] /\ op'[o].at = "threw" /\ op'[o].job = op[o].job /\ op'[o].sel = op[o].sel
      /\ \A p \in Ops \ {o} : op'[p] = op[p]
      /\ TodoOK(op[o])' /\ ~UnderWay(o)'
  BY <1>1, <1>3, EndRecord
<1>6. KnowledgeTyped'
  BY <1>1, <1>3, <1>4, <1>5 DEF KnowledgeTyped
<1>7. ASSUME ~crossed, cuts = 0 PROVE Whole'
  <2>1. idx = vec /\ IsInjective(idx) /\ Chunks(idx) = ReadyIn(docs) /\ Listed(docs) \union {New(o)} \subseteq copies
    BY <1>1, <1>2, <1>7 DEF WholeHeld, Indexed, InIndex, InCopies, Importing, New, Path
  <2>. QED  BY <1>1, <1>4, <1>7, <2>1 DEF Whole, Indexed
<1>8. WorkDone(o)'
  BY <1>1, <1>4, <1>5, <1>7 DEF WorkDone
<1>9. ~crossed => \A p \in Ops \ {o} : p > o => \A q \in Paths : docs'[<<p, q>>] = docs[<<p, q>>]
  BY <1>4 DEF Ids, New
<1>. QED  BY <1>1, <1>3, <1>5, <1>6, <1>8, <1>9, WorkKeeps

\* A failing write leaves what the files hold; then only the parts that say nothing of
\* uncut operations are left.
LEMMA WriteFailsKeeps ==
  ASSUME KnowledgeInv, NEW o \in Ops, WriteFails(o) PROVE KnowledgeInv'
<1>1. UnderWay(o) /\ UNCHANGED <<files, host, crossed>> /\ cuts < MaxCuts /\ cuts' = cuts + 1
  BY DEF WriteFails, UnderWay
<1>2. /\ op[o] \in OpRecords /\ TodoOK(op[o])
      /\ ~crossed => FilesInv /\ OpHeld(o, op[o])
  BY <1>1, WorkAsIs
<1>3. KnowledgeTyped /\ cuts \in Nat /\ cuts' \in cuts .. MaxCuts /\ cuts' # 0 /\ cuts' >= cuts /\ cuts' \in 0 .. MaxCuts
  BY <1>1, KnowledgeAssumption DEF KnowledgeInv, KnowledgeTyped
<1>4. CASE op[o].at \in {"vectors", "index"}
  <2>1. Goto(o, "fail")
    BY <1>4 DEF WriteFails
  <2>2. /\ \A p \in Ops \ {o} : op'[p] = op[p]
        /\ op'[o].at = "fail" /\ op'[o].vals = op[o].vals /\ op'[o].todo = op[o].todo
        /\ op'[o].sel = op[o].sel /\ op'[o].job = op[o].job
        /\ op' \in [Ops -> OpRecords]
    BY <1>3, <2>1, OnlyAt DEF Importing
  <2>3. KnowledgeTyped'
    BY <1>1, <1>3, <2>2 DEF KnowledgeTyped, files
  <2>4. TodoOK(op[o])'
    BY <1>2, <1>4, <2>2 DEF TodoOK, Importing, Removing
  <2>5. ~crossed => FilesInv' /\ OpHeld(o, op[o])'
    BY <1>1, <1>2, <1>4, <2>2
       DEF files, FilesInv, Few, VectorsMatch, Accepts, ReadyOnce, OpHeld, ListHeld, IndexHeld, Importing, Removing
  <2>6. WorkDone(o)'
    BY <1>1, <1>3, <2>4, <2>5 DEF WorkDone
  <2>7. op'[o].at # "idle" /\ docs' = docs
    BY <1>1, <2>2 DEF files
  <2>. QED  BY ONLY KnowledgeInv, <1>1, <1>3, <2>2, <2>3, <2>6, <2>7, WorkKeeps
<1>5. CASE op[o].at \notin {"vectors", "index"}
  <2>1. Ends(o, "threw")
    BY <1>5 DEF WriteFails
  <2>. QED  BY <1>1, <1>3, <2>1, EndsKeeps
<1>. QED  BY <1>4, <1>5

\* The operations begin.
LEMMA StartsKeeps ==
  ASSUME KnowledgeInv, NEW o \in Ops, NEW start \in OpRecords, Starts(o, start),
         start.at \in {"next", "copied"}, TodoOK(start), \A p \in Chunks(start.todo) : p \in Paths,
         start.at = "next" => start.vals = docs /\ start.job = "import",
         start.at = "copied" /\ start.job = "reindex" /\ ~crossed /\ cuts = 0 => \A i \in start.sel : i[2] \in Chunks(start.todo) \/ i \notin copies,
         start.sel \subseteq Listed(docs)
  PROVE  KnowledgeInv'
<1>1. /\ op[o].at = "idle" /\ op' = [op EXCEPT ![o] = start] /\ host = "up"
      /\ crossed' = (crossed \/ \E p \in Ops : UnderWay(p))
      /\ UNCHANGED <<docs, idx, vec, copies, host, cuts>>
      /\ \A p \in Ops : p < o => op[p].at # "idle"
  BY DEF Starts, files
<1>2. KnowledgeTyped /\ TurnsInv
  BY DEF KnowledgeInv
<1>3. op'[o] = start /\ (\A p \in Ops \ {o} : op'[p] = op[p]) /\ op' \in [Ops -> OpRecords]
  BY <1>1, <1>2 DEF KnowledgeTyped
<1>4. KnowledgeTyped'
  BY <1>1, <1>2, <1>3 DEF KnowledgeTyped
<1>5. TurnsInv'
  <2>1. \A a, b \in Ops : a < b /\ op'[a].at = "idle" => op'[b].at = "idle"
    <3>. SUFFICES ASSUME NEW a \in Ops, NEW b \in Ops, a < b, op'[a].at = "idle" PROVE op'[b].at = "idle"
      OBVIOUS
    <3>1. a # o /\ op[a].at = "idle"
      BY <1>3
    <3>2. b # o
      BY <1>1, <3>1
    <3>. QED  BY <1>2, <1>3, <3>1, <3>2 DEF TurnsInv
  <2>2. \A a \in Ops : TodoOK(op'[a])
    BY <1>2, <1>3 DEF TurnsInv
  <2>. QED  BY <1>1, <1>2, <2>1, <2>2 DEF TurnsInv
<1>6. ASSUME ~crossed'
      PROVE  /\ ~crossed /\ \A p \in Ops : ~UnderWay(p)
             /\ \A p \in Ops \ {o} : ~UnderWay(p)' /\ (o < p => op'[p].at = "idle")
             /\ Unbegun /\ FilesInv /\ (cuts = 0 => Whole)
  <2>1. ~crossed /\ \A p \in Ops : ~UnderWay(p)
    BY <1>1, <1>6
  <2>2. \A p \in Ops \ {o} : ~UnderWay(p)' /\ (o < p => op'[p].at = "idle")
    BY <1>1, <1>2, <1>3, <2>1 DEF UnderWay, TurnsInv
  <2>. QED  BY <2>1, <2>2 DEF KnowledgeInv, AloneInv, WholeInv
<1>7. AloneInv'
  <2>. SUFFICES ASSUME ~crossed'
                PROVE  (LastAtWork /\ Unbegun /\ FilesInv /\ \A a \in Ops : UnderWay(a) => OpHeld(a, op[a]))'
    BY DEF AloneInv
  <2>1. LastAtWork'
    BY <1>6, KnowledgeAssumption DEF LastAtWork
  <2>2. Unbegun'
    BY <1>1, <1>3, <1>6 DEF Unbegun
  <2>3. FilesInv'
    BY <1>1, <1>6 DEF FilesInv, Few, VectorsMatch, Accepts, ReadyOnce
  <2>4. \A p \in Chunks(start.todo) : docs[<<o, p>>] = "none"
    BY <1>1, <1>6 DEF Unbegun
  <2>5. OpHeld(o, op[o])'
    BY <1>1, <1>3, <2>4 DEF OpHeld, ListHeld, IndexHeld, Removing, Importing
  <2>. QED  BY <1>6, <2>1, <2>2, <2>3, <2>5
<1>8. WholeInv'
  <2>. SUFFICES ASSUME ~crossed', cuts' = 0
                PROVE  (\A a \in Ops : UnderWay(a) => WholeHeld(a, op[a]))' /\ ((\A a \in Ops : ~UnderWay(a)) => Whole)'
    BY DEF WholeInv
  <2>1. Whole /\ cuts = 0
    BY <1>1, <1>6
  <2>2. \A i \in start.sel : i \in copies
    BY <2>1 DEF Whole, Indexed
  <2>3. start.job = "reindex" => \A i \in start.sel : i[2] \in Chunks(start.todo)
    BY <1>6, <2>1, <2>2
  <2>4. WholeHeld(o, op[o])'
    BY <1>1, <1>3, <2>1, <2>3 DEF WholeHeld, Whole, Indexed, InIndex, InCopies, Removing, Importing
  <2>5. UnderWay(o)'
    BY <1>3 DEF UnderWay
  <2>. QED  BY <1>6, <2>4, <2>5
<1>9. ReindexKeeps'
  <2>. SUFFICES ASSUME NEW a \in Ops, op'[a].at = "over", \A p \in Ops : p > a => op'[p].at = "idle" PROVE FALSE
    BY DEF ReindexKeeps
  <2>1. a # o /\ op[a].at = "over"
    BY <1>3
  <2>2. ~(o < a)
    BY <1>1, <1>2, <2>1 DEF TurnsInv
  <2>3. o \in Nat /\ a \in Nat
    BY KnowledgeAssumption
  <2>4. o > a
    BY <2>1, <2>2, <2>3
  <2>. QED  BY <1>3, <2>4
<1>. QED  BY <1>4, <1>5, <1>7, <1>8, <1>9 DEF KnowledgeInv

LEMMA OrderLists ==
  ASSUME NEW S, NEW s \in Orders(S) PROVE s \in Seq(S) /\ IsInjective(s) /\ \A p \in Chunks(s) : p \in S
<1>1. PICK n \in 0 .. Cardinality(S) : s \in [1 .. n -> S]
  BY DEF Orders
<1>2. n \in Nat
  BY <1>1
<1>3. s \in Seq(S)
  BY <1>1, <1>2
<1>. QED  BY <1>1, <1>3 DEF Orders, IsInjective, Chunks

LEMMA BeginKeeps ==
  ASSUME KnowledgeInv, NEW o \in Ops, BeginImport(o) \/ BeginRemove(o) \/ BeginReindex(o) PROVE KnowledgeInv'
<1>1. KnowledgeTyped
  BY DEF KnowledgeInv
<1>2. None \in [Ids -> Statuses] /\ <<>> \in Seq(Paths) /\ <<>> \in Seq(Ids)
  BY DEF None, Statuses
<1>3. CASE BeginImport(o)
  <2>1. PICK s \in Orders(Paths) \ {<<>>} : Starts(o, [Idle EXCEPT !.at = "next", !.todo = s, !.vals = docs])
    BY <1>3 DEF BeginImport
  <2>2. s \in Seq(Paths) /\ IsInjective(s) /\ \A p \in Chunks(s) : p \in Paths
    BY <2>1, OrderLists
  <2>3. PICK start : start = [Idle EXCEPT !.at = "next", !.todo = s, !.vals = docs]
    OBVIOUS
  <2>4. /\ start.at = "next" /\ start.job = "import" /\ start.todo = s /\ start.vals = docs /\ start.sel = {}
        /\ start \in OpRecords
    BY <1>1, <1>2, <2>2, <2>3 DEF Idle, OpRecords, KnowledgeTyped
  <2>5. TodoOK(start)
    BY <2>2, <2>4 DEF TodoOK, Removing, Importing
  <2>. QED  BY <2>1, <2>2, <2>3, <2>4, <2>5, StartsKeeps
<1>4. CASE BeginRemove(o)
  <2>1. PICK ids \in SUBSET Listed(docs) \ {{}} : Starts(o, [Idle EXCEPT !.at = "copied", !.job = "remove", !.sel = ids])
    BY <1>4 DEF BeginRemove
  <2>2. ids \subseteq Ids /\ ids \subseteq Listed(docs)
    BY <2>1 DEF Listed
  <2>3. PICK start : start = [Idle EXCEPT !.at = "copied", !.job = "remove", !.sel = ids]
    OBVIOUS
  <2>4. start.at = "copied" /\ start.job = "remove" /\ start.todo = <<>> /\ start.sel = ids /\ start \in OpRecords
    BY <1>2, <2>2, <2>3 DEF Idle, OpRecords
  <2>5. TodoOK(start) /\ Chunks(start.todo) = {}
    BY <2>4 DEF TodoOK, Removing, Importing, IsInjective, Chunks
  <2>. QED  BY <2>1, <2>2, <2>3, <2>4, <2>5, StartsKeeps
<1>5. CASE BeginReindex(o)
  <2>1. PICK ids \in SUBSET Listed(docs) \ {{}} :
          \E s \in Orders({i[2] : i \in ids \cap copies}) :
            /\ Chunks(s) = {i[2] : i \in ids \cap copies}
            /\ Starts(o, [Idle EXCEPT !.at = "copied", !.job = "reindex", !.sel = ids, !.todo = s])
    BY <1>5 DEF BeginReindex
  <2> DEFINE names == {i[2] : i \in ids \cap copies}
  <2>2. PICK s \in Orders(names) :
          /\ Chunks(s) = names /\ Starts(o, [Idle EXCEPT !.at = "copied", !.job = "reindex", !.sel = ids, !.todo = s])
    BY <2>1
  <2>3. ids \subseteq Ids /\ ids \subseteq Listed(docs) /\ names \subseteq Paths
    BY <2>1 DEF Listed, Ids
  <2>4. \A i \in ids : i[2] \in names \/ i \notin copies
    OBVIOUS
  <2>. HIDE DEF names
  <2>5. s \in Seq(names) /\ IsInjective(s)
    BY <2>2, OrderLists
  <2>6. s \in Seq(Paths)
    BY <2>3, <2>5
  <2>7. PICK start : start = [Idle EXCEPT !.at = "copied", !.job = "reindex", !.sel = ids, !.todo = s]
    OBVIOUS
  <2>8. start.at = "copied" /\ start.job = "reindex" /\ start.todo = s /\ start.sel = ids /\ start \in OpRecords
    BY <1>2, <2>3, <2>6, <2>7 DEF Idle, OpRecords
  <2>9. TodoOK(start)
    BY <2>5, <2>8 DEF TodoOK, Removing, Importing
  <2>. QED  BY <2>2, <2>3, <2>4, <2>7, <2>8, <2>9, StartsKeeps
<1>. QED  BY <1>3, <1>4, <1>5

\* The daemon dies, and the next one scans.
LEMMA CrashKeeps ==
  ASSUME KnowledgeInv, KnowledgeCrash PROVE KnowledgeInv'
<1>1. /\ UNCHANGED <<docs, idx, vec, copies, crossed>> /\ host' = "scan" /\ cuts < MaxCuts /\ cuts' = cuts + 1
      /\ op' = [o \in Ops |-> IF UnderWay(o) THEN [Idle EXCEPT !.at = "threw"] ELSE op[o]]
  BY DEF KnowledgeCrash, files
<1>2. KnowledgeTyped /\ TurnsInv
  BY DEF KnowledgeInv
<1>3. cuts' \in 0 .. MaxCuts /\ cuts' # 0
  BY <1>1, <1>2, KnowledgeAssumption DEF KnowledgeTyped
<1>4. PICK dead : dead = [Idle EXCEPT !.at = "threw"]
  OBVIOUS
<1>5. dead \in OpRecords /\ TodoOK(dead) /\ dead.at = "threw"
  <2>1. None \in [Ids -> Statuses] /\ <<>> \in Seq(Paths) /\ <<>> \in Seq(Ids)
    BY DEF None, Statuses
  <2>2. dead.at = "threw" /\ dead.todo = <<>> /\ dead \in OpRecords
    BY <1>4, <2>1 DEF Idle, OpRecords
  <2>3. IsInjective(<<>>)
    BY DEF IsInjective
  <2>. QED  BY <2>2, <2>3 DEF TodoOK, Removing, Importing
<1>6. \A o \in Ops : op'[o] = IF UnderWay(o) THEN dead ELSE op[o]
  BY <1>1, <1>4
<1>7. op' \in [Ops -> OpRecords]
  BY <1>1, <1>2, <1>4, <1>5 DEF KnowledgeTyped
<1>8. KnowledgeTyped'
  BY <1>1, <1>2, <1>3, <1>7 DEF KnowledgeTyped
<1>9. \A o \in Ops : ~UnderWay(o)' /\ TodoOK(op[o])' /\ (op'[o].at = "idle" <=> op[o].at = "idle")
  <2>. SUFFICES ASSUME NEW o \in Ops PROVE ~UnderWay(o)' /\ TodoOK(op[o])' /\ (op'[o].at = "idle" <=> op[o].at = "idle")
    OBVIOUS
  <2>1. CASE UnderWay(o)
    <3>1. op'[o] = dead /\ op[o].at # "idle"
      BY <1>6, <2>1 DEF UnderWay
    <3>. QED  BY <1>5, <3>1 DEF UnderWay, TodoOK
  <2>2. CASE ~UnderWay(o)
    <3>1. op'[o] = op[o] /\ TodoOK(op[o])
      BY <1>2, <1>6, <2>2 DEF TurnsInv
    <3>. QED  BY <2>2, <3>1 DEF UnderWay, TodoOK
  <2>. QED  BY <2>1, <2>2
<1>10. TurnsInv'
  BY <1>2, <1>3, <1>9 DEF TurnsInv
<1>11. AloneInv'
  <2>. SUFFICES ASSUME ~crossed PROVE (LastAtWork /\ Unbegun /\ FilesInv)'
    BY <1>1, <1>9 DEF AloneInv
  <2>1. Unbegun /\ FilesInv
    BY DEF KnowledgeInv, AloneInv
  <2>2. LastAtWork' /\ Unbegun'
    BY <1>1, <1>9, <2>1 DEF LastAtWork, Unbegun
  <2>. QED  BY <1>1, <2>1, <2>2 DEF FilesInv, Few, VectorsMatch, Accepts, ReadyOnce
<1>12. WholeInv' /\ ReindexKeeps'
  BY <1>3 DEF WholeInv, ReindexKeeps
<1>. QED  BY <1>8, <1>10, <1>11, <1>12 DEF KnowledgeInv

\* The scan works while no operation does.
LEMMA ScanKeeps ==
  ASSUME KnowledgeInv, ScanList \/ ScanIndex \/ ScanVectors PROVE KnowledgeInv'
<1>1. KnowledgeTyped /\ TurnsInv
  BY DEF KnowledgeInv
<1>2. host # "up" /\ UNCHANGED <<op, copies, cuts, crossed>> /\ host' \in {"up", "unindex", "unvector"}
  BY DEF ScanList, ScanIndex, ScanVectors
<1>3. cuts # 0 /\ \A o \in Ops : ~UnderWay(o) /\ ~UnderWay(o)'
  BY <1>1, <1>2 DEF TurnsInv, UnderWay
<1>4. /\ docs' = docs \/ docs' = [i \in Ids |-> IF docs[i] = "none" THEN "none" ELSE "failed"]
      /\ (idx' = idx /\ vec' = vec) \/ (idx' = <<>> /\ vec' = vec) \/ (idx' = idx /\ vec' = <<>>)
  BY DEF ScanList, ScanIndex, ScanVectors
<1>5. docs' \in [Ids -> Statuses] /\ idx' \in Seq(Ids) /\ vec' \in Seq(Ids)
  <2>1. docs \in [Ids -> Statuses] /\ idx \in Seq(Ids) /\ vec \in Seq(Ids) /\ <<>> \in Seq(Ids)
    BY <1>1 DEF KnowledgeTyped
  <2>2. [i \in Ids |-> IF docs[i] = "none" THEN "none" ELSE "failed"] \in [Ids -> Statuses]
    BY DEF Statuses
  <2>. QED  BY <1>4, <2>1, <2>2
<1>6. KnowledgeTyped' /\ TurnsInv'
  <2>1. KnowledgeTyped'
    BY <1>1, <1>2, <1>5 DEF KnowledgeTyped
  <2>2. TurnsInv'
    BY <1>1, <1>2, <1>3 DEF TurnsInv, TodoOK
  <2>. QED  BY <2>1, <2>2
<1>7. Listed(docs)' = Listed(docs) /\ ReadyIn(docs)' \subseteq ReadyIn(docs) /\ \A i \in Ids : docs[i] = "none" => docs'[i] = "none"
  BY <1>4 DEF Listed, ReadyIn
<1>8. AloneInv'
  <2>. SUFFICES ASSUME ~crossed PROVE (LastAtWork /\ Unbegun /\ FilesInv)'
    BY <1>2, <1>3 DEF AloneInv
  <2>1. LastAtWork /\ Unbegun /\ FilesInv
    BY DEF KnowledgeInv, AloneInv
  <2>2. LastAtWork' /\ Unbegun'
    BY <1>2, <1>3, <1>7, <2>1 DEF LastAtWork, Unbegun, Ids
  <2>3. Few' /\ ReadyOnce'
    BY <1>2, <1>7, <2>1 DEF FilesInv, Few, ReadyOnce
  <2>4. VectorsMatch'
    <3>1. \A s \in Seq(Ids) : Len(s) = Len(<<>>) => s = <<>>
      BY EmptySeq
    <3>2. idx \in Seq(Ids) /\ vec \in Seq(Ids)
      BY <1>1 DEF KnowledgeTyped
    <3>3. Len(idx) = Len(vec) => idx = vec
      BY <2>1 DEF FilesInv, VectorsMatch, Accepts
    <3>4. Len(idx') = Len(vec') => idx' = vec'
      BY <1>4, <3>1, <3>2, <3>3
    <3>. QED  BY <3>4 DEF VectorsMatch, Accepts
  <2>. QED  BY <2>2, <2>3, <2>4 DEF FilesInv
<1>9. WholeInv' /\ ReindexKeeps'
  BY <1>2, <1>3 DEF WholeInv, ReindexKeeps
<1>. QED  BY <1>6, <1>8, <1>9 DEF KnowledgeInv

LEMMA KnowledgeStays ==
  ASSUME KnowledgeInv, UNCHANGED knowledgeVars PROVE KnowledgeInv'
<1>1. UNCHANGED <<docs, idx, vec, copies, op, host, cuts, crossed>>
  BY DEF knowledgeVars
<1>2. KnowledgeTyped' /\ TurnsInv' /\ ReindexKeeps'
  BY <1>1 DEF KnowledgeInv, KnowledgeTyped, TurnsInv, TodoOK, UnderWay, ReindexKeeps, Listed
<1>3. AloneInv'
  BY <1>1 DEF KnowledgeInv, AloneInv, LastAtWork, Unbegun, FilesInv, Few, VectorsMatch, Accepts, ReadyOnce, Listed, ReadyIn,
              UnderWay, OpHeld, ListHeld, IndexHeld
<1>4. WholeInv'
  BY <1>1 DEF KnowledgeInv, WholeInv, WholeHeld, Whole, Indexed, InIndex, InCopies, Listed, ReadyIn, UnderWay
<1>. QED  BY <1>2, <1>3, <1>4 DEF KnowledgeInv

LEMMA KnowledgeStarts == KnowledgeInit => KnowledgeInv
<1>. SUFFICES ASSUME KnowledgeInit PROVE KnowledgeInv
  OBVIOUS
<1>1. /\ docs = None /\ idx = <<>> /\ vec = <<>> /\ copies = {}
      /\ op = [o \in Ops |-> Idle] /\ host = "up" /\ cuts = 0 /\ crossed = FALSE
  BY DEF KnowledgeInit
<1>2. None \in [Ids -> Statuses] /\ <<>> \in Seq(Paths) /\ <<>> \in Seq(Ids)
  BY DEF None, Statuses
<1>3. Idle \in OpRecords /\ TodoOK(Idle) /\ Idle.at = "idle"
  BY <1>2 DEF Idle, OpRecords, TodoOK, Removing, Importing, IsInjective
<1>4. \A o \in Ops : op[o] = Idle /\ ~UnderWay(o)
  BY <1>1, <1>3 DEF UnderWay
<1>5. Listed(docs) = {} /\ ReadyIn(docs) = {} /\ Chunks(idx) = {} /\ IsInjective(idx)
  BY <1>1 DEF Listed, ReadyIn, None, Chunks, IsInjective
<1>6. KnowledgeTyped
  <2>1. 0 \in 0 .. MaxCuts /\ op \in [Ops -> OpRecords]
    BY <1>1, <1>3, KnowledgeAssumption
  <2>. QED  BY <1>1, <1>2, <2>1 DEF KnowledgeTyped
<1>7. TurnsInv /\ LastAtWork /\ ReindexKeeps
  BY <1>1, <1>3, <1>4 DEF TurnsInv, LastAtWork, ReindexKeeps
<1>8. Unbegun
  BY <1>1 DEF Unbegun, None, Ids
<1>9. Few
  BY <1>5, FS_EmptySet, KnowledgeAssumption DEF Few
<1>10. VectorsMatch /\ ReadyOnce /\ Whole
  BY <1>1, <1>5 DEF VectorsMatch, ReadyOnce, Whole, Indexed
<1>. QED  BY <1>4, <1>6, <1>7, <1>8, <1>9, <1>10 DEF KnowledgeInv, AloneInv, FilesInv, WholeInv

LEMMA KnowledgeKeeps == KnowledgeInv /\ [KnowledgeNext]_knowledgeVars => KnowledgeInv'
<1>. SUFFICES ASSUME KnowledgeInv, [KnowledgeNext]_knowledgeVars PROVE KnowledgeInv'
  OBVIOUS
<1>1. ASSUME NEW o \in Ops, BeginImport(o) \/ BeginRemove(o) \/ BeginReindex(o) PROVE KnowledgeInv'
  BY <1>1, BeginKeeps
<1>2. ASSUME NEW o \in Ops, KnowledgeStep(o) PROVE KnowledgeInv'
  BY <1>2, RemoveReadKeeps, RemoveVectorsKeeps, RemoveIndexKeeps, RemoveFilesKeeps, RemoveListKeeps,
     ImportNextKeeps, ImportAbortedKeeps, CopySourceKeeps, IndexReadKeeps, EmbeddedKeeps, WriteVectorsKeeps,
     WriteIndexKeeps, SaveDocumentsKeeps, SaveFailedKeeps, WriteFailsKeeps DEF KnowledgeStep
<1>3. ASSUME KnowledgeCrash \/ ScanList \/ ScanIndex \/ ScanVectors PROVE KnowledgeInv'
  BY <1>3, CrashKeeps, ScanKeeps
<1>4. ASSUME UNCHANGED knowledgeVars PROVE KnowledgeInv'
  BY <1>4, KnowledgeStays
<1>. QED  BY <1>1, <1>2, <1>3, <1>4 DEF KnowledgeNext

\* As many places as members.
LEMMA OnceEach ==
  ASSUME NEW S, NEW s \in Seq(S), IsInjective(s) PROVE Len(s) = Cardinality(Chunks(s))
<1>1. Len(s) \in Nat /\ DOMAIN s = 1 .. Len(s) /\ IsFiniteSet(1 .. Len(s)) /\ Cardinality(1 .. Len(s)) = Len(s)
  <2>1. Len(s) \in Nat /\ DOMAIN s = 1 .. Len(s)
    BY LenProperties
  <2>2. IsFiniteSet(1 .. Len(s)) /\ Cardinality(1 .. Len(s)) = IF 1 > Len(s) THEN 0 ELSE Len(s) - 1 + 1
    BY <2>1, FS_Interval
  <2>. QED  BY <2>1, <2>2
<1>2. s \in [1 .. Len(s) -> Chunks(s)] /\ \A q \in Chunks(s) : \E i \in 1 .. Len(s) : s[i] = q
  BY <1>1 DEF Chunks
<1>3. s \in Bijection(1 .. Len(s), Chunks(s))
  BY <1>1, <1>2 DEF IsInjective, Bijection, Injection, Surjection
<1>. QED  BY <1>1, <1>3, FS_Bijection DEF ExistsBijection

\* IndexKept: whatever was imported, removed or reindexed, and whatever was cut short,
\* the list, the index and the vectors of a scope go together; for any number of
\* operations, paths and failures, and any limit of sources.
THEOREM IndexIsKept == KnowledgeSpec => []IndexKept
<1>1. KnowledgeInv => IndexKept
  <2>. SUFFICES ASSUME KnowledgeInv PROVE IndexKept
    OBVIOUS
  <2>1. KnowledgeTypeOK
    BY DEF KnowledgeInv, KnowledgeTyped, KnowledgeTypeOK, OpRecords, Removing, Importing, AloneInv, FilesInv, Few, Statuses
  <2>2. VectorsMatch /\ ReadyOnce /\ ReindexKeeps
    BY DEF KnowledgeInv, AloneInv, FilesInv, VectorsMatch, ReadyOnce
  <2>3. ReadyIsIndexed
    <3>. SUFFICES ASSUME Quiet, ~crossed, cuts = 0
                  PROVE  /\ ReadyIn(docs) = Chunks(idx) /\ Len(idx) = Cardinality(Chunks(idx))
                         /\ Listed(docs) \subseteq copies
      BY DEF ReadyIsIndexed
    <3>1. Whole
      BY DEF KnowledgeInv, WholeInv, Quiet
    <3>2. idx \in Seq(Ids)
      BY DEF KnowledgeInv, KnowledgeTyped
    <3>. QED  BY <3>1, <3>2, OnceEach DEF Whole, Indexed
  <2>. QED  BY <2>1, <2>2, <2>3 DEF IndexKept
<1>. QED  BY <1>1, KnowledgeStarts, KnowledgeKeeps, PTL DEF KnowledgeSpec

-----------------------------------------------------------------------------
(* The sessions and their locks.                                           *)

\* A call whose run has ended, or is about to, has a record to put its entry into.
ReferenceInv ==
  \A c \in Calls : /\ st[c] = "idle" => outcome[c] = "none"
                   /\ st[c] = "running" \/ outcome[c] # "none" => current[of[c]] \in Calls

\* Whoever is inside the lock has created the lock file that is there.
HolderInv == ~stolen => \A c \in Calls : st[c] \in Holding => lock = c

Locking == {c \in Calls : st[c] \notin Over \union {"idle"}}
Deleting == \E d \in Calls : kind[d] = "delete" /\ st[d] # "idle"
Answered == {c \in Calls : kind[c] = "turn" /\ st[c] \in {"resolved", "recorded"}}

\* A record has the entries of all the turns that were answered, and that of one that is saved.
HasAll(r) == \A c \in Answered : Has(r, <<c, IF st[c] = "resolved" THEN "ok" ELSE "failed">>)
HasOwn(r, c) == kind[c] = "turn" => Has(r, <<c, IF outcome[c] = "ok" THEN "ok" ELSE "failed">>)

\* Without overlaps a call works on the record it read, which had everything.
CallInv(c) ==
  /\ st[c] \in {"running"} \union Saving => current[of[c]] = c /\ obj[c] = c /\ HasAll(heap[c])
  /\ st[c] \in Saving => HasOwn(heap[c], c)
  /\ st[c] = "writing" => HasAll(text[c]) /\ HasOwn(text[c], c)
  /\ st[c] = "leaving" => HasOwn(file, c)
SoloInv == ~mixed => \A c, d \in Locking : c = d
PresentInv == ~mixed /\ ~Deleting => file # Missing /\ HasAll(file) /\ \A c \in Calls : CallInv(c)
\* After a deletion no call holds a record it could write.
GoneInv ==
  ~mixed => \A d \in Calls : kind[d] = "delete" =>
    /\ st[d] \notin {"reading", "running"}
    /\ st[d] = "leaving" => file = Missing
    /\ st[d] = "resolved" => file = Missing /\ \A c \in Locking : kind[c] = "delete" \/ st[c] = "reading"
HistoryInv == SoloInv /\ PresentInv /\ GoneInv

IInv == SessionTypeOK /\ ReferenceInv /\ HolderInv /\ LockAccounted

-----------------------------------------------------------------------------
(* Type correctness.                                                       *)

LEMMA EntryTypes == ASSUME NEW r \in Records, NEW c \in Calls, NEW how \in {"ok", "failed", "title"}
                    PROVE  Append(r, <<c, how>>) \in Records
BY DEF Records, Updates

LEMMA SaveThrowsTypes ==
  ASSUME SessionTypeOK, ReferenceInv, NEW c \in Calls, SaveThrows(c)
  PROVE  /\ heap' \in [Calls -> Records] /\ obj' \in [Calls -> Calls] /\ tries' \in [Calls -> 0 .. MaxTries]
         /\ outcome' \in [Calls -> {"none", "ok", "failed", "both"}] /\ st' \in [Calls -> States]
<1>1. obj' \in [Calls -> Calls] /\ outcome' \in [Calls -> {"none", "ok", "failed", "both"}]
  BY DEF SessionTypeOK, ReferenceInv, SaveThrows
<1>2. st' \in [Calls -> States]
  BY DEF SessionTypeOK, SaveThrows, States, Saving, Over
<1>3. heap' \in [Calls -> Records]
  BY EntryTypes DEF SessionTypeOK, ReferenceInv, SaveThrows
<1>4. tries' \in [Calls -> 0 .. MaxTries]
  BY SessionAssumption DEF SessionTypeOK, SaveThrows
<1>. QED  BY <1>1, <1>2, <1>3, <1>4

LEMMA AgainTypes ==
  ASSUME SessionTypeOK, ReferenceInv, NEW c \in Calls, Again(c)
  PROVE  /\ heap' \in [Calls -> Records] /\ obj' \in [Calls -> Calls] /\ tries' \in [Calls -> 0 .. MaxTries]
         /\ outcome' \in [Calls -> {"none", "ok", "failed", "both"}] /\ st' \in [Calls -> States]
<1>1. CASE LastTry(c)
  BY <1>1, SaveThrowsTypes DEF Again
<1>2. CASE ~LastTry(c)
  BY <1>2, SessionAssumption DEF Again, LastTry, SessionTypeOK, States, Saving
<1>. QED  BY <1>1, <1>2

LEMMA NoEntries == <<>> \in Records
BY DEF Records

LEMMA TypeInit == SessionInit => SessionTypeOK
<1>1. (CHOOSE h \in Handles : TRUE) \in Handles
  BY SessionAssumption
<1>2. SessionInit => file \in Records /\ heap \in [Calls -> Records] /\ text \in [Calls -> Records]
  BY NoEntries DEF SessionInit
<1>3. SessionInit => of \in [Calls -> Handles] /\ obj \in [Calls -> Calls] /\ st \in [Calls -> States]
  BY <1>1 DEF SessionInit, States
<1>4. SessionInit => /\ tries \in [Calls -> 0 .. MaxTries] /\ faults \in 0 .. MaxFaults
                     /\ kind \in [Calls -> {"turn", "rename", "delete"}]
                     /\ outcome \in [Calls -> {"none", "ok", "failed", "both"}]
  BY SessionAssumption DEF SessionInit
<1>5. SessionInit => /\ current \in [Handles -> Calls \union {NoCall}] /\ closed \in [Handles -> BOOLEAN]
                     /\ lock = NoCall /\ stale = FALSE /\ mixed = FALSE /\ left = {} /\ stolen = FALSE
  BY DEF SessionInit
<1>. QED  BY <1>2, <1>3, <1>4, <1>5 DEF SessionTypeOK

LEMMA TypeNext == SessionTypeOK /\ ReferenceInv /\ [SessionNext]_sessionVars => SessionTypeOK'
<1>. SUFFICES ASSUME SessionTypeOK, ReferenceInv, [SessionNext]_sessionVars PROVE SessionTypeOK'
  OBVIOUS
<1>. USE SessionAssumption
<1>1. ASSUME NEW c \in Calls, NEW h \in Handles, NEW k \in Kinds, Begin(c, h, k) PROVE SessionTypeOK'
  BY <1>1 DEF Begin, SessionTypeOK, States, Saving, lockVars
<1>2. ASSUME NEW c \in Calls, ReadDone(c) PROVE SessionTypeOK'
  <2>1. Fresh(c) \in Records /\ Append(Fresh(c), <<c, "title">>) \in Records
    BY <1>2, EntryTypes DEF ReadDone, Found, Fresh, SessionTypeOK
  <2>2. heap' \in [Calls -> Records]
    BY <1>2, <2>1 DEF ReadDone, SessionTypeOK
  <2>3. st' \in [Calls -> States]
    BY <1>2 DEF ReadDone, SessionTypeOK, States, Saving, Over
  <2>4. current' \in [Handles -> Calls \union {NoCall}] /\ obj' \in [Calls -> Calls]
    BY <1>2 DEF ReadDone, SessionTypeOK
  <2>. QED  BY <1>2, <2>2, <2>3, <2>4 DEF ReadDone, SessionTypeOK, lockVars
<1>3. ASSUME NEW c \in Calls, ReadFails(c) PROVE SessionTypeOK'
  BY <1>3 DEF ReadFails, SessionTypeOK, States, Over, lockVars, held
<1>4. ASSUME NEW c \in Calls, NEW how \in {"ok", "failed"}, RunEnds(c, how) PROVE SessionTypeOK'
  <2>1. current[of[c]] \in Calls
    BY <1>4 DEF RunEnds, ReferenceInv
  <2>2. heap' \in [Calls -> Records]
    BY <1>4, <2>1, EntryTypes DEF RunEnds, SessionTypeOK
  <2>3. st' \in [Calls -> States]
    BY <1>4 DEF RunEnds, SessionTypeOK, States, Saving, Over
  <2>4. obj' \in [Calls -> Calls] /\ outcome' \in [Calls -> {"none", "ok", "failed", "both"}]
    BY <1>4, <2>1 DEF RunEnds, SessionTypeOK
  <2>. QED  BY <1>4, <2>2, <2>3, <2>4 DEF RunEnds, SessionTypeOK, lockVars
<1>5. ASSUME NEW c \in Calls, Open(c) \/ Exists(c) \/ StatStale(c) PROVE SessionTypeOK'
  BY <1>5, ZenonT(30) DEF Open, Exists, StatStale, SessionTypeOK, States, Saving, Holding, held, lockVars
<1>6. ASSUME NEW c \in Calls, Mark(c) \/ Write(c) \/ SessionWriteFails(c) PROVE SessionTypeOK'
  <2>1. st' \in [Calls -> States]
    BY <1>6 DEF Mark, Write, SessionWriteFails, SessionTypeOK, States, Saving, Holding
  <2>2. text' \in [Calls -> Records]
    <3>1. CASE Mark(c)
      BY <3>1 DEF Mark, SessionTypeOK
    <3>2. CASE text' = [text EXCEPT ![c] = <<>>]
      BY <3>2, NoEntries DEF SessionTypeOK
    <3>. QED  BY <1>6, <3>1, <3>2 DEF Write, SessionWriteFails
  <2>3. file' \in Records \union {Missing} /\ faults' \in 0 .. MaxFaults
    BY <1>6 DEF Mark, Write, SessionWriteFails, SessionTypeOK
  <2>. QED  BY <1>6, <2>1, <2>2, <2>3 DEF Mark, Write, SessionWriteFails, SessionTypeOK, lockVars
<1>7. ASSUME NEW c \in Calls, MarkFails(c) PROVE SessionTypeOK'
  <2>1. SaveThrows(c) /\ faults' \in 0 .. MaxFaults /\ left' \subseteq Calls
    BY <1>7 DEF MarkFails, SessionTypeOK
  <2>2. UNCHANGED <<file, lock, stale, stolen, current, closed, kind, of, text, mixed>>
    BY <1>7, Zenon DEF MarkFails
  <2>. QED  BY <2>1, <2>2, SaveThrowsTypes DEF SessionTypeOK
<1>8. ASSUME NEW c \in Calls, Leave(c) PROVE SessionTypeOK'
  <2>1. st' \in [Calls -> States] /\ outcome' \in [Calls -> {"none", "ok", "failed", "both"}]
    BY <1>8 DEF Leave, Ending, SessionTypeOK, States, Over
  <2>2. obj' \in [Calls -> Calls] /\ tries' \in [Calls -> 0 .. MaxTries]
    BY <1>8 DEF Leave, SessionTypeOK
  <2>3. lock' = NoCall /\ stale' = FALSE /\ stolen' \in BOOLEAN
    BY <1>8 DEF Leave, Unlock, SessionTypeOK
  <2>. QED  BY <1>8, <2>1, <2>2, <2>3 DEF Leave, SessionTypeOK, held
<1>9. ASSUME NEW c \in Calls, LeaveBroken(c) PROVE SessionTypeOK'
  <2>1. SaveThrows(c) /\ lock' = NoCall /\ stale' = FALSE /\ stolen' \in BOOLEAN
    BY <1>9 DEF LeaveBroken, Unlock, SessionTypeOK
  <2>. QED  BY <1>9, <2>1, SaveThrowsTypes DEF LeaveBroken, SessionTypeOK
<1>10. ASSUME NEW c \in Calls, Stat(c) PROVE SessionTypeOK'
  <2>1. Again(c)
    BY <1>10 DEF Stat
  <2>. QED  BY <1>10, <2>1, AgainTypes DEF Stat, SessionTypeOK, lockVars
<1>11. ASSUME NEW c \in Calls, Break(c) PROVE SessionTypeOK'
  <2>1. Again(c) /\ lock' = NoCall /\ stale' = FALSE /\ stolen' \in BOOLEAN
    BY <1>11 DEF Break, SessionTypeOK
  <2>. QED  BY <1>11, <2>1, AgainTypes DEF Break, SessionTypeOK
<1>12. ASSUME NEW h \in Handles, Close(h) PROVE SessionTypeOK'
  BY <1>12 DEF Close, SessionTypeOK, lockVars
<1>13. ASSUME NEW h \in Handles, Crash(h) PROVE SessionTypeOK'
  <2>1. /\ st' \in [Calls -> States] /\ outcome' \in [Calls -> {"none", "ok", "failed", "both"}]
        /\ obj' \in [Calls -> Calls] /\ tries' \in [Calls -> 0 .. MaxTries]
    BY <1>13 DEF Crash, SessionTypeOK, States, Over
  <2>2. text' \in [Calls -> Records]
    BY <1>13 DEF Crash, SessionTypeOK, Records
  <2>3. faults' \in 0 .. MaxFaults /\ closed' \in [Handles -> BOOLEAN]
    BY <1>13 DEF Crash, SessionTypeOK
  <2>. QED  BY <1>13, <2>1, <2>2, <2>3 DEF Crash, SessionTypeOK, lockVars
<1>14. CASE GoStale
  BY <1>14 DEF GoStale, SessionTypeOK, held
<1>15. CASE UNCHANGED sessionVars
  BY <1>15 DEF sessionVars, SessionTypeOK
<1>. QED  BY <1>1, <1>2, <1>3, <1>4, <1>5, <1>6, <1>7, <1>8, <1>9, <1>10, <1>11, <1>12, <1>13, <1>14, <1>15
     DEF SessionNext, SaveStep

-----------------------------------------------------------------------------
(* The record of a call, and who is inside the lock.                       *)

LEMMA SaveThrowsKeeps ==
  ASSUME SessionTypeOK, ReferenceInv, NEW c \in Calls, SaveThrows(c)
  PROVE  /\ st'[c] \in {"opening", "rejected"} /\ \A d \in Calls \ {c} : st'[d] = st[d]
         /\ \A d \in Calls \ {c} : outcome'[d] = outcome[d]
         /\ outcome'[c] # "none" => outcome[c] # "none"
BY DEF SaveThrows, SessionTypeOK

LEMMA AgainKeeps ==
  ASSUME SessionTypeOK, ReferenceInv, NEW c \in Calls, Again(c)
  PROVE  /\ st'[c] \in {"opening", "rejected"} /\ \A d \in Calls \ {c} : st'[d] = st[d]
         /\ \A d \in Calls \ {c} : outcome'[d] = outcome[d]
         /\ outcome'[c] # "none" => outcome[c] # "none"
<1>1. CASE LastTry(c)
  BY <1>1, SaveThrowsKeeps DEF Again
<1>2. CASE ~LastTry(c)
  BY <1>2 DEF Again, SessionTypeOK
<1>. QED  BY <1>1, <1>2

LEMMA ReferenceNext == SessionTypeOK /\ ReferenceInv /\ [SessionNext]_sessionVars => ReferenceInv'
<1>. SUFFICES ASSUME SessionTypeOK, ReferenceInv, [SessionNext]_sessionVars PROVE ReferenceInv'
  OBVIOUS
<1>. USE SessionAssumption
<1>1. ASSUME NEW c \in Calls, NEW h \in Handles, NEW k \in Kinds, Begin(c, h, k) PROVE ReferenceInv'
  BY <1>1 DEF Begin, SessionTypeOK, ReferenceInv
<1>2. ASSUME NEW c \in Calls, ReadDone(c) \/ ReadFails(c) PROVE ReferenceInv'
  <2>1. st[c] = "reading" /\ st'[c] # "idle" /\ UNCHANGED <<of, outcome>> /\ \A d \in Calls \ {c} : st'[d] = st[d]
    BY <1>2 DEF ReadDone, ReadFails, Found, SessionTypeOK, held
  <2>2. CASE ReadDone(c)
    <3>1. /\ of[c] \in Handles /\ \A d \in Calls : of[d] \in Handles
          /\ \A h \in Handles : current'[h] = IF h = of[c] THEN c ELSE current[h]
      BY <2>2 DEF ReadDone, SessionTypeOK
    <3>. QED  BY <2>1, <3>1 DEF ReferenceInv
  <2>3. CASE ReadFails(c)
    <3>1. UNCHANGED current /\ st'[c] = "rejected"
      BY <2>3 DEF ReadFails, SessionTypeOK, held
    <3>. QED  BY <2>1, <3>1 DEF ReferenceInv
  <2>. QED  BY <1>2, <2>2, <2>3
<1>3. ASSUME NEW c \in Calls, NEW how \in {"ok", "failed"}, RunEnds(c, how) PROVE ReferenceInv'
  BY <1>3 DEF RunEnds, SessionTypeOK, ReferenceInv
<1>4. ASSUME NEW c \in Calls, Open(c) \/ Exists(c) \/ StatStale(c) \/ Mark(c) \/ Write(c) \/ SessionWriteFails(c) PROVE ReferenceInv'
  <2>1. UNCHANGED <<current, of, outcome>> /\ st'[c] \notin {"idle", "running"}
        /\ \A d \in Calls \ {c} : st'[d] = st[d]
    BY <1>4 DEF Open, Exists, StatStale, Mark, Write, SessionWriteFails, SessionTypeOK, held
  <2>. QED  BY <2>1 DEF ReferenceInv
<1>5. ASSUME NEW c \in Calls, MarkFails(c) \/ LeaveBroken(c) PROVE ReferenceInv'
  <2>1. SaveThrows(c) /\ UNCHANGED <<current, of>>
    BY <1>5 DEF MarkFails, LeaveBroken
  <2>. QED  BY <2>1, SaveThrowsKeeps DEF ReferenceInv
<1>6. ASSUME NEW c \in Calls, Stat(c) \/ Break(c) PROVE ReferenceInv'
  <2>1. Again(c) /\ UNCHANGED <<current, of>>
    BY <1>6 DEF Stat, Break
  <2>. QED  BY <2>1, AgainKeeps DEF ReferenceInv
<1>7. ASSUME NEW c \in Calls, Leave(c) PROVE ReferenceInv'
  BY <1>7 DEF Leave, Ending, SessionTypeOK, ReferenceInv, held
<1>8. ASSUME NEW h \in Handles, Close(h) PROVE ReferenceInv'
  BY <1>8 DEF Close, ReferenceInv
<1>9. ASSUME NEW h \in Handles, Crash(h) PROVE ReferenceInv'
  <2>1. \A d \in Calls : \/ st'[d] = "crashed" /\ outcome'[d] = "none"
                         \/ st'[d] = st[d] /\ outcome'[d] = outcome[d]
    BY <1>9 DEF Crash
  <2>2. UNCHANGED <<current, of>>
    BY <1>9 DEF Crash
  <2>. QED  BY <2>1, <2>2 DEF ReferenceInv
<1>10. CASE GoStale \/ UNCHANGED sessionVars
  BY <1>10 DEF GoStale, sessionVars, held, ReferenceInv
<1>. QED  BY <1>1, <1>2, <1>3, <1>4, <1>5, <1>6, <1>7, <1>8, <1>9, <1>10 DEF SessionNext, SaveStep

LEMMA LockNext == IInv /\ [SessionNext]_sessionVars => HolderInv' /\ LockAccounted'
<1>. SUFFICES ASSUME IInv, [SessionNext]_sessionVars PROVE HolderInv' /\ LockAccounted'
  OBVIOUS
<1>. USE SessionAssumption DEF Holding
<1>. USE DEF IInv, HolderInv, LockAccounted
<1>1. ASSUME NEW c \in Calls, NEW h \in Handles, NEW k \in Kinds, Begin(c, h, k) PROVE HolderInv' /\ LockAccounted'
  BY <1>1 DEF Begin, SessionTypeOK, lockVars
<1>2. ASSUME NEW c \in Calls, ReadDone(c) \/ ReadFails(c) PROVE HolderInv' /\ LockAccounted'
  BY <1>2 DEF ReadDone, ReadFails, Found, SessionTypeOK, lockVars
<1>3. ASSUME NEW c \in Calls, NEW how \in {"ok", "failed"}, RunEnds(c, how) PROVE HolderInv' /\ LockAccounted'
  BY <1>3 DEF RunEnds, SessionTypeOK, lockVars
<1>4. ASSUME NEW c \in Calls, Open(c) PROVE HolderInv' /\ LockAccounted'
  BY <1>4 DEF Open, CanCreate, SessionTypeOK
<1>5. ASSUME NEW c \in Calls, Exists(c) \/ StatStale(c) \/ Mark(c) \/ Write(c) \/ SessionWriteFails(c)
      PROVE  HolderInv' /\ LockAccounted'
  BY <1>5 DEF Exists, StatStale, Mark, Write, SessionWriteFails, SessionTypeOK, lockVars
<1>6. ASSUME NEW c \in Calls, MarkFails(c) PROVE HolderInv' /\ LockAccounted'
  <2>1. SaveThrows(c) /\ UNCHANGED <<lock, stolen>> /\ left' = left \union {c}
    BY <1>6 DEF MarkFails
  <2>. QED  BY <2>1, SaveThrowsKeeps DEF SessionTypeOK
<1>7. ASSUME NEW c \in Calls, LeaveBroken(c) PROVE HolderInv' /\ LockAccounted'
  <2>1. SaveThrows(c) /\ Unlock(c) /\ st[c] = "broken"
    BY <1>7 DEF LeaveBroken
  <2>. QED  BY <2>1, SaveThrowsKeeps DEF SessionTypeOK, Unlock
<1>8. ASSUME NEW c \in Calls, Stat(c) PROVE HolderInv' /\ LockAccounted'
  <2>1. Again(c) /\ UNCHANGED lockVars /\ st[c] = "stating"
    BY <1>8 DEF Stat
  <2>. QED  BY <2>1, AgainKeeps DEF SessionTypeOK, lockVars
<1>9. ASSUME NEW c \in Calls, Break(c) PROVE HolderInv' /\ LockAccounted'
  <2>1. Again(c) /\ lock' = NoCall /\ stolen' = (stolen \/ (lock # NoCall /\ st[lock] \in Holding))
    BY <1>9 DEF Break
  <2>. QED  BY <2>1, AgainKeeps DEF SessionTypeOK
<1>10. ASSUME NEW c \in Calls, Leave(c) PROVE HolderInv' /\ LockAccounted'
  BY <1>10 DEF Leave, Unlock, Ending, SessionTypeOK
<1>11. ASSUME NEW h \in Handles, Close(h) PROVE HolderInv' /\ LockAccounted'
  BY <1>11 DEF Close, lockVars
<1>12. ASSUME NEW h \in Handles, Crash(h) PROVE HolderInv' /\ LockAccounted'
  BY <1>12 DEF Crash, Dies, SessionTypeOK, lockVars, Over
<1>13. CASE GoStale \/ UNCHANGED sessionVars
  BY <1>13 DEF GoStale, sessionVars, lockVars
<1>. QED  BY <1>1, <1>2, <1>3, <1>4, <1>5, <1>6, <1>7, <1>8, <1>9, <1>10, <1>11, <1>12, <1>13
     DEF SessionNext, SaveStep

-----------------------------------------------------------------------------
(* What is in the file when no two calls overlapped.                       *)

LEMMA HasAppend ==
  ASSUME NEW r \in Records, NEW c \in Calls, NEW how \in {"ok", "failed", "title"}
  PROVE  /\ Has(Append(r, <<c, how>>), <<c, how>>)
         /\ \A u \in Updates : Has(r, u) => Has(Append(r, <<c, how>>), u)
<1>. DEFINE e == <<c, how>>
            s == Append(r, e)
<1>1. s \in Records /\ s # Missing
  BY EntryTypes, SessionAssumption DEF Records, Updates
<1>2. r \in Seq(Updates) /\ e \in Updates
  BY DEF Records, Updates
<1>3. DOMAIN r = 1 .. Len(r) /\ DOMAIN s = 1 .. Len(r) + 1 /\ Len(r) \in Nat
  BY <1>2
<1>4. s[Len(r) + 1] = e /\ \A i \in 1 .. Len(r) : s[i] = r[i]
  BY <1>2
<1>. QED  BY <1>1, <1>3, <1>4 DEF Has

\* The step of a call that is under way and not answered by it.
Onward(c) ==
  /\ c \in Locking /\ UNCHANGED <<kind, of, mixed>>
  /\ \A d \in Calls \ {c} : st'[d] = st[d]
  /\ st'[c] \in Saving \union {"running", "rejected", "crashed"}

LEMMA OnwardSolo ==
  ASSUME SessionTypeOK, SoloInv, NEW c \in Calls, Onward(c)
  PROVE  /\ SoloInv' /\ Answered' = Answered /\ (Deleting => Deleting')
         /\ \A d \in Answered : st'[d] = st[d]
         /\ ~mixed => \A d \in Calls \ {c} : st'[d] \in Over \union {"idle"}
<1>1. Locking' \subseteq Locking
  BY DEF Onward, Locking
<1>2. \A d \in Calls : d \in Answered' <=> d \in Answered
  BY DEF Onward, Answered, Locking, Over, Saving, Holding
<1>3. \A d \in Answered : d # c
  BY DEF Onward, Answered, Locking, Over
<1>4. SoloInv'
  BY <1>1 DEF Onward, SoloInv
<1>5. Answered' = Answered
  BY <1>2 DEF Answered
<1>6. Deleting => Deleting'
  BY DEF Onward, Deleting, Saving, Holding, Over
<1>7. ~mixed => \A d \in Calls \ {c} : st'[d] \in Over \union {"idle"}
  BY DEF Onward, SoloInv, Locking
<1>8. \A d \in Answered : st'[d] = st[d]
  BY <1>3 DEF Onward, Answered
<1>. QED  BY <1>4, <1>5, <1>6, <1>7, <1>8

\* What is left to show of such a step: the file, and what the call itself holds.
LEMMA OnwardPresent ==
  ASSUME SessionTypeOK, SoloInv, PresentInv, NEW c \in Calls, Onward(c),
         ~mixed /\ ~Deleting => file' # Missing /\ HasAll(file') /\ CallInv(c)'
  PROVE  PresentInv'
<1>1. /\ Answered' = Answered /\ \A d \in Answered : st'[d] = st[d]
      /\ ~mixed => \A d \in Calls \ {c} : st'[d] \in Over \union {"idle"}
      /\ mixed' = mixed /\ (Deleting => Deleting')
  BY OnwardSolo, Zenon DEF Onward
<1>2. SUFFICES ASSUME ~mixed, ~Deleting PROVE file' # Missing /\ HasAll(file)' /\ \A d \in Calls : CallInv(d)'
  BY <1>1 DEF PresentInv
<1>3. HasAll(file)'
  BY <1>1, <1>2 DEF HasAll
<1>4. ASSUME NEW d \in Calls, d # c PROVE CallInv(d)'
  <2>1. st'[d] \notin Saving \union {"running", "writing", "leaving"}
    BY <1>1, <1>2, <1>4 DEF Over, Saving, Holding
  <2>. QED  BY <2>1 DEF CallInv
<1>. QED  BY <1>2, <1>3, <1>4

LEMMA OnwardHasAll ==
  ASSUME SessionTypeOK, SoloInv, NEW c \in Calls, Onward(c), NEW r
  PROVE  HasAll(r)' <=> HasAll(r)
BY OnwardSolo DEF HasAll, Onward

LEMMA OnwardGone ==
  ASSUME SessionTypeOK, SoloInv, GoneInv, NEW c \in Calls, Onward(c),
         kind[c] = "delete" => st'[c] \notin {"reading", "running"} /\ (st'[c] = "leaving" => file' = Missing),
         file = Missing /\ (kind[c] = "delete" \/ st[c] = "reading")
           => file' = Missing /\ (kind[c] = "delete" \/ st'[c] \in Over)
  PROVE  GoneInv'
<1>. SUFFICES ASSUME ~mixed, NEW d \in Calls, kind[d] = "delete"
              PROVE  /\ st'[d] \notin {"reading", "running"}
                     /\ st'[d] = "leaving" => file' = Missing
                     /\ st'[d] = "resolved" => /\ file' = Missing
                                               /\ \A b \in Locking' : kind[b] = "delete" \/ st'[b] = "reading"
  BY DEF GoneInv, Onward
<1>1. CASE d = c
  <2>1. st'[c] # "resolved"
    BY DEF Onward, Saving, Holding
  <2>2. st'[c] \notin {"reading", "running"} /\ (st'[c] = "leaving" => file' = Missing)
    BY <1>1
  <2>. QED  BY <1>1, <2>1, <2>2
<1>2. CASE d # c
  <2>1. st'[d] = st[d] /\ st[d] \in Over \union {"idle"}
    BY <1>2, OnwardSolo DEF Onward
  <2>2. CASE st[d] = "resolved"
    <3>1. file = Missing /\ (kind[c] = "delete" \/ st[c] = "reading")
      BY <2>2 DEF GoneInv, Onward
    <3>2. \A b \in Locking' : b = c
      BY OnwardSolo DEF Locking
    <3>3. \A b \in Locking' : st'[b] \notin Over
      BY DEF Locking
    <3>. QED  BY <2>1, <2>2, <3>1, <3>2, <3>3
  <2>. QED  BY <2>1, <2>2 DEF Over
<1>. QED  BY <1>1, <1>2

LEMMA SaveThrowsRecords ==
  ASSUME SessionTypeOK, ReferenceInv, SoloInv, PresentInv, NEW c \in Calls, Onward(c), st[c] \in Saving, SaveThrows(c),
         UNCHANGED <<current, of>>, ~mixed, ~Deleting, st'[c] \notin {"writing", "leaving"}
  PROVE  CallInv(c)'
<1>1. current[of[c]] = c /\ obj[c] = c /\ HasAll(heap[c]) /\ heap[c] \in Records
  BY DEF PresentInv, CallInv, SessionTypeOK
<1>2. CASE kind[c] = "turn" /\ outcome[c] = "ok"
  <2>1. heap'[c] = Append(heap[c], <<c, "failed">>) /\ obj'[c] = c /\ outcome'[c] = "both"
    BY <1>1, <1>2 DEF SaveThrows, SessionTypeOK
  <2>2. HasAll(heap'[c])
    BY <1>1, <2>1, HasAppend DEF HasAll, Updates, Answered
  <2>3. HasOwn(heap[c], c)'
    BY <1>1, <2>1, HasAppend DEF HasOwn
  <2>4. HasAll(heap[c])'
    BY <2>2, OnwardSolo DEF HasAll, Onward
  <2>. QED  BY <1>1, <2>1, <2>3, <2>4 DEF CallInv
<1>3. CASE ~(kind[c] = "turn" /\ outcome[c] = "ok")
  <2>1. st'[c] = "rejected"
    BY <1>3 DEF SaveThrows, SessionTypeOK
  <2>. QED  BY <2>1 DEF CallInv, Saving, Holding
<1>. QED  BY <1>2, <1>3

LEMMA SaveHistory ==
  ASSUME SessionTypeOK, ReferenceInv, HistoryInv, NEW c \in Calls,
         \/ Open(c) \/ Exists(c) \/ StatStale(c) \/ Mark(c) \/ Write(c) \/ SessionWriteFails(c)
         \/ MarkFails(c) \/ LeaveBroken(c) \/ Stat(c) \/ Break(c)
  PROVE  HistoryInv'
<1>1. st[c] \in Saving /\ c \in Locking
  BY DEF Open, CanCreate, Exists, StatStale, Mark, Write, SessionWriteFails, MarkFails, LeaveBroken, Stat, Break,
     Saving, Holding, Locking, Over
<1>2. UNCHANGED <<kind, of, mixed, current>>
  BY DEF Open, Exists, StatStale, Mark, Write, SessionWriteFails, MarkFails, LeaveBroken, Stat, Break, held
<1>3. \/ st'[c] \in Saving /\ \A d \in Calls \ {c} : st'[d] = st[d]
      \/ st'[c] = "rejected" /\ \A d \in Calls \ {c} : st'[d] = st[d]
  <2>1. CASE MarkFails(c) \/ LeaveBroken(c)
    BY <2>1, SaveThrowsKeeps DEF MarkFails, LeaveBroken, Saving
  <2>2. CASE Stat(c) \/ Break(c)
    BY <2>2, AgainKeeps DEF Stat, Break, Saving
  <2>3. CASE Open(c) \/ Exists(c) \/ StatStale(c) \/ Mark(c) \/ Write(c) \/ SessionWriteFails(c)
    BY <2>3 DEF Open, Exists, StatStale, Mark, Write, SessionWriteFails, SessionTypeOK, Saving, Holding
  <2>. QED  BY <2>1, <2>2, <2>3
<1>4. Onward(c)
  BY <1>1, <1>2, <1>3 DEF Onward
<1>5. SoloInv'
  BY <1>4, OnwardSolo DEF HistoryInv
<1>6. GoneInv'
  <2>1. (file' = file /\ st'[c] # "leaving") \/ Write(c)
    <3>1. CASE MarkFails(c) \/ LeaveBroken(c)
      BY <3>1, SaveThrowsKeeps DEF MarkFails, LeaveBroken
    <3>2. CASE Stat(c) \/ Break(c)
      BY <3>2, AgainKeeps DEF Stat, Break
    <3>3. CASE Open(c) \/ Exists(c) \/ StatStale(c) \/ Mark(c) \/ SessionWriteFails(c)
      BY <3>3 DEF Open, Exists, StatStale, Mark, SessionWriteFails, SessionTypeOK, held
    <3>. QED  BY <3>1, <3>2, <3>3
  <2>2. Write(c) /\ kind[c] = "delete" => file' = Missing
    BY DEF Write
  <2>3. kind[c] = "delete" => st'[c] \notin {"reading", "running"} /\ (st'[c] = "leaving" => file' = Missing)
    BY <1>3, <2>1, <2>2 DEF Saving, Holding
  <2>4. st[c] # "reading"
    BY <1>1 DEF Saving, Holding
  <2>. QED  BY <1>4, <2>1, <2>2, <2>3, <2>4, OnwardGone DEF HistoryInv
<1>7. PresentInv'
  <2>1. SUFFICES ASSUME ~mixed, ~Deleting PROVE file' # Missing /\ HasAll(file') /\ CallInv(c)'
    BY <1>4, OnwardPresent DEF HistoryInv
  <2>2. /\ file # Missing /\ HasAll(file) /\ current[of[c]] = c /\ obj[c] = c
        /\ HasAll(heap[c]) /\ HasOwn(heap[c], c) /\ heap[c] \in Records
    BY <1>1, <2>1 DEF HistoryInv, PresentInv, CallInv, SessionTypeOK
  <2>3. \A r : HasAll(r)' <=> HasAll(r)
    BY <1>4, OnwardHasAll DEF HistoryInv
  <2>4. CASE Open(c) \/ Exists(c) \/ StatStale(c) \/ SessionWriteFails(c)
    <3>1. UNCHANGED <<file, heap, obj, outcome>> /\ st'[c] \notin {"writing", "leaving"}
      BY <2>4 DEF Open, Exists, StatStale, SessionWriteFails, SessionTypeOK, held
    <3>2. HasAll(heap[c])' /\ HasOwn(heap[c], c)'
      BY <1>2, <2>2, <2>3, <3>1 DEF HasOwn
    <3>. QED  BY <1>2, <2>2, <3>1, <3>2 DEF CallInv
  <2>5. CASE Mark(c)
    <3>1. /\ UNCHANGED <<file, heap, obj, outcome>> /\ st'[c] = "writing"
          /\ text'[c] = heap[c]
      BY <2>2, <2>5 DEF Mark, SessionTypeOK
    <3>2. HasAll(heap[c])' /\ HasOwn(heap[c], c)' /\ HasAll(text[c])' /\ HasOwn(text[c], c)'
      BY <1>2, <2>2, <2>3, <3>1 DEF HasOwn
    <3>. QED  BY <1>2, <2>2, <3>1, <3>2 DEF CallInv
  <2>6. CASE Write(c)
    <3>1. HasAll(text[c]) /\ HasOwn(text[c], c) /\ kind[c] # "delete" /\ text[c] \in Records
      BY <1>1, <2>1, <2>6 DEF Write, HistoryInv, PresentInv, CallInv, SessionTypeOK, Deleting
    <3>2. UNCHANGED <<heap, obj, outcome>> /\ st'[c] = "leaving" /\ file' = text[c]
      BY <2>6, <3>1 DEF Write, SessionTypeOK
    <3>3. file' # Missing
      BY <3>1, <3>2, SessionAssumption DEF Records, Updates
    <3>4. HasAll(heap[c])' /\ HasOwn(heap[c], c)' /\ HasOwn(file, c)'
      BY <1>2, <2>2, <2>3, <3>1, <3>2 DEF HasOwn
    <3>. QED  BY <1>2, <2>2, <3>1, <3>2, <3>3, <3>4 DEF CallInv
  <2>7. CASE MarkFails(c) \/ LeaveBroken(c)
    <3>1. SaveThrows(c) /\ file' = file
      BY <2>7 DEF MarkFails, LeaveBroken
    <3>. QED  BY <1>1, <1>2, <1>4, <2>1, <2>2, <3>1, SaveThrowsKeeps, SaveThrowsRecords DEF HistoryInv
  <2>8. CASE Stat(c) \/ Break(c)
    <3>1. Again(c) /\ file' = file
      BY <2>8 DEF Stat, Break
    <3>2. CASE LastTry(c)
      BY <1>1, <1>2, <1>4, <2>1, <2>2, <3>1, <3>2, SaveThrowsKeeps, SaveThrowsRecords DEF HistoryInv, Again
    <3>3. CASE ~LastTry(c)
      <4>1. UNCHANGED <<heap, obj, outcome>> /\ st'[c] = "opening"
        BY <3>1, <3>3 DEF Again, SessionTypeOK
      <4>2. HasAll(heap[c])' /\ HasOwn(heap[c], c)'
        BY <1>2, <2>2, <2>3, <4>1 DEF HasOwn
      <4>. QED  BY <1>2, <2>2, <3>1, <4>1, <4>2 DEF CallInv
    <3>. QED  BY <3>2, <3>3
  <2>. QED  BY <2>4, <2>5, <2>6, <2>7, <2>8
<1>. QED  BY <1>5, <1>6, <1>7 DEF HistoryInv

LEMMA ReadHistory ==
  ASSUME SessionTypeOK, ReferenceInv, HistoryInv, NEW c \in Calls, ReadDone(c) \/ ReadFails(c)
  PROVE  HistoryInv'
<1>1. /\ st[c] = "reading" /\ c \in Locking /\ UNCHANGED <<file, kind, of, mixed>>
      /\ st'[c] \in {"running", "opening", "rejected"} /\ \A d \in Calls \ {c} : st'[d] = st[d]
      /\ st'[c] = "running" => kind[c] = "turn"
  BY DEF ReadDone, ReadFails, Found, SessionTypeOK, held, Locking, Over
<1>2. Onward(c)
  BY <1>1 DEF Onward, Saving
<1>3. SoloInv'
  BY <1>2, OnwardSolo DEF HistoryInv
<1>4. GoneInv'
  <2>1. file = Missing => st'[c] = "rejected"
    BY DEF ReadDone, ReadFails, Found, SessionTypeOK
  <2>2. "rejected" \in Over
    BY DEF Over
  <2>. QED  BY <1>1, <1>2, <2>1, <2>2, OnwardGone DEF HistoryInv
<1>5. PresentInv'
  <2>1. SUFFICES ASSUME ~mixed, ~Deleting PROVE file' # Missing /\ HasAll(file') /\ CallInv(c)'
    BY <1>2, OnwardPresent DEF HistoryInv
  <2>2. file # Missing /\ HasAll(file) /\ file \in Records
    BY <2>1 DEF HistoryInv, PresentInv, SessionTypeOK
  <2>3. \A r : HasAll(r)' <=> HasAll(r)
    BY <1>2, OnwardHasAll DEF HistoryInv
  <2>4. CASE ReadFails(c)
    <3>1. st'[c] = "rejected"
      BY <2>4 DEF ReadFails, SessionTypeOK
    <3>. QED  BY <1>1, <2>2, <3>1 DEF CallInv, Saving, Holding
  <2>5. CASE ReadDone(c)
    <3>1. current'[of'[c]] = c /\ obj'[c] = c /\ st'[c] \notin {"writing", "leaving"}
      BY <1>1, <2>5 DEF ReadDone, SessionTypeOK
    <3>2. /\ heap'[c] = IF kind[c] = "turn" THEN file ELSE Append(file, <<c, "title">>)
          /\ kind[c] = "turn" => st'[c] = "running"
      BY <2>2, <2>5 DEF ReadDone, Fresh, SessionTypeOK
    <3>3. HasAll(heap'[c])
      BY <2>2, <3>2, HasAppend DEF HasAll, Updates, Answered
    <3>4. HasAll(heap[c])'
      BY <2>3, <3>3
    <3>5. st'[c] \in Saving => HasOwn(heap[c], c)'
      BY <1>1, <3>2 DEF HasOwn, Saving, Holding
    <3>. QED  BY <1>1, <2>2, <3>1, <3>4, <3>5 DEF CallInv
  <2>. QED  BY <2>4, <2>5
<1>. QED  BY <1>3, <1>4, <1>5 DEF HistoryInv

LEMMA RunHistory ==
  ASSUME SessionTypeOK, ReferenceInv, HistoryInv, NEW c \in Calls, NEW how \in {"ok", "failed"}, RunEnds(c, how)
  PROVE  HistoryInv'
<1>1. /\ st[c] = "running" /\ c \in Locking /\ UNCHANGED <<file, kind, of, mixed, current>>
      /\ st'[c] \in {"opening", "rejected"} /\ \A d \in Calls \ {c} : st'[d] = st[d]
  BY DEF RunEnds, SessionTypeOK, Locking, Over
<1>2. Onward(c)
  BY <1>1 DEF Onward, Saving
<1>3. SoloInv'
  BY <1>2, OnwardSolo DEF HistoryInv
<1>4. GoneInv'
  BY <1>1, <1>2, OnwardGone DEF HistoryInv
<1>5. PresentInv'
  <2>1. SUFFICES ASSUME ~mixed, ~Deleting PROVE file' # Missing /\ HasAll(file') /\ CallInv(c)'
    BY <1>2, OnwardPresent DEF HistoryInv
  <2>2. /\ file # Missing /\ HasAll(file) /\ current[of[c]] = c /\ HasAll(heap[c]) /\ heap[c] \in Records
    BY <1>1, <2>1 DEF HistoryInv, PresentInv, CallInv, SessionTypeOK
  <2>3. CASE closed[of[c]]
    <3>1. st'[c] = "rejected"
      BY <2>3 DEF RunEnds, SessionTypeOK
    <3>. QED  BY <1>1, <2>2, <3>1 DEF CallInv, Saving, Holding
  <2>4. CASE ~closed[of[c]]
    <3>1. heap'[c] = Append(heap[c], <<c, how>>) /\ obj'[c] = c /\ outcome'[c] = how /\ st'[c] = "opening"
      BY <2>2, <2>4 DEF RunEnds, SessionTypeOK
    <3>2. HasAll(heap'[c])
      BY <2>2, <3>1, HasAppend DEF HasAll, Updates, Answered
    <3>3. HasAll(heap[c])'
      BY <1>2, <3>2, OnwardHasAll DEF HistoryInv
    <3>4. HasOwn(heap[c], c)'
      BY <2>2, <3>1, HasAppend DEF HasOwn
    <3>. QED  BY <1>1, <2>2, <3>1, <3>3, <3>4 DEF CallInv
  <2>. QED  BY <2>3, <2>4
<1>. QED  BY <1>3, <1>4, <1>5 DEF HistoryInv

LEMMA LeaveHistory ==
  ASSUME SessionTypeOK, ReferenceInv, HistoryInv, NEW c \in Calls, Leave(c)
  PROVE  HistoryInv'
<1>1. /\ st[c] = "leaving" /\ c \in Locking /\ UNCHANGED <<file, kind, of, mixed>>
      /\ st'[c] = Ending(c) /\ \A d \in Calls \ {c} : st'[d] = st[d]
  BY DEF Leave, SessionTypeOK, held, Locking, Over
<1>2. Ending(c) \in {"resolved", "recorded"}
  BY DEF Ending
<1>3. ~mixed => Locking' = {} /\ \A d \in Calls : st'[d] \in Over \union {"idle"}
  BY <1>1, <1>2 DEF HistoryInv, SoloInv, Locking, Over
<1>4. SoloInv'
  BY <1>1, <1>3 DEF SoloInv
<1>5. GoneInv'
  <2>. SUFFICES ASSUME ~mixed, NEW d \in Calls, kind[d] = "delete"
                PROVE  st'[d] \notin {"reading", "running", "leaving"} /\ (st'[d] = "resolved" => file = Missing)
    BY <1>1, <1>3 DEF GoneInv
  <2>1. st'[d] \in Over \union {"idle"}
    BY <1>3
  <2>2. st'[d] = "resolved" => st[d] \in {"leaving", "resolved"}
    BY <1>1
  <2>. QED  BY <2>1, <2>2 DEF HistoryInv, GoneInv, Over
<1>6. PresentInv'
  <2>1. SUFFICES ASSUME ~mixed, ~Deleting PROVE HasAll(file)' /\ \A d \in Calls : CallInv(d)'
    <3>1. Deleting => Deleting'
      BY <1>1, <1>2 DEF Deleting
    <3>. QED  BY <1>1, <2>1, <3>1 DEF PresentInv, HistoryInv
  <2>2. HasAll(file) /\ HasOwn(file, c)
    BY <1>1, <2>1 DEF HistoryInv, PresentInv, CallInv
  <2>3. HasAll(file)'
    <3>. SUFFICES ASSUME NEW d \in Calls, kind[d] = "turn", st'[d] \in {"resolved", "recorded"}
                  PROVE  Has(file, <<d, IF st'[d] = "resolved" THEN "ok" ELSE "failed">>)
      BY <1>1 DEF HasAll, Answered
    <3>1. CASE d = c
      BY <1>1, <2>2, <3>1 DEF HasOwn, Ending
    <3>2. CASE d # c
      BY <1>1, <2>2, <3>2 DEF HasAll, Answered
    <3>. QED  BY <3>1, <3>2
  <2>4. \A d \in Calls : st'[d] \notin Saving \union {"running", "writing", "leaving"}
    BY <1>3, <2>1 DEF Over, Saving, Holding
  <2>. QED  BY <2>3, <2>4 DEF CallInv
<1>. QED  BY <1>4, <1>5, <1>6 DEF HistoryInv

LEMMA BeginHistory ==
  ASSUME SessionTypeOK, ReferenceInv, HistoryInv,
         NEW c \in Calls, NEW h \in Handles, NEW k \in Kinds, Begin(c, h, k)
  PROVE  HistoryInv'
<1>1. /\ st[c] = "idle" /\ file' = file /\ (~mixed' => ~mixed)
      /\ st'[c] = IF k = "delete" THEN "opening" ELSE "reading"
      /\ kind'[c] = k /\ \A d \in Calls \ {c} : st'[d] = st[d] /\ kind'[d] = kind[d]
  BY DEF Begin, SessionTypeOK
<1>2. ~mixed' => \A d \in Calls \ {c} : st[d] \in Over \union {"idle"}
  BY DEF Begin
<1>3. ~mixed' => \A d \in Locking' : d = c
  BY <1>1, <1>2 DEF Locking
<1>4. SoloInv'
  BY <1>3 DEF SoloInv
<1>5. GoneInv'
  <2>. SUFFICES ASSUME ~mixed', NEW d \in Calls, kind'[d] = "delete"
                PROVE  /\ st'[d] \notin {"reading", "running", "leaving"}
                       /\ st'[d] = "resolved" => file = Missing /\ (kind'[c] = "delete" \/ st'[c] = "reading")
    BY <1>1, <1>3 DEF GoneInv
  <2>1. CASE d = c
    BY <1>1, <2>1
  <2>2. CASE d # c
    BY <1>1, <1>2, <2>2 DEF HistoryInv, GoneInv, Over
  <2>. QED  BY <2>1, <2>2
<1>6. PresentInv'
  <2>1. SUFFICES ASSUME ~mixed', ~Deleting' PROVE file' # Missing /\ HasAll(file)' /\ \A d \in Calls : CallInv(d)'
    BY DEF PresentInv
  <2>2. ~Deleting /\ st'[c] = "reading"
    BY <1>1, <2>1 DEF Deleting
  <2>3. file # Missing /\ HasAll(file)
    BY <1>1, <2>1, <2>2 DEF HistoryInv, PresentInv
  <2>4. \A d \in Answered' : d \in Answered /\ st'[d] = st[d]
    BY <1>1, <2>2 DEF Answered
  <2>5. HasAll(file)'
    BY <1>1, <2>3, <2>4 DEF HasAll
  <2>6. \A d \in Calls : st'[d] \notin Saving \union {"running", "writing", "leaving"}
    BY <1>1, <1>2, <2>1, <2>2 DEF Over, Saving, Holding
  <2>. QED  BY <1>1, <2>3, <2>5, <2>6 DEF CallInv
<1>. QED  BY <1>4, <1>5, <1>6 DEF HistoryInv

LEMMA CrashHistory ==
  ASSUME SessionTypeOK, ReferenceInv, HistoryInv, NEW h \in Handles, Crash(h)
  PROVE  HistoryInv'
<1>1. UNCHANGED <<file, heap, current, kind, of, mixed>>
  BY DEF Crash
<1>2. ASSUME NEW c \in Calls
      PROVE  (st'[c] = "crashed" /\ st[c] \notin Over \union {"idle"})
             \/ (st'[c] = st[c] /\ UNCHANGED <<outcome[c], obj[c], text[c]>>)
  <2>1. CASE Dies(c, h)
    BY <2>1 DEF Crash, Dies
  <2>2. CASE ~Dies(c, h)
    BY <2>2 DEF Crash
  <2>. QED  BY <2>1, <2>2
<1>3. Locking' \subseteq Locking
  BY <1>2 DEF Locking, Over
<1>4. SoloInv'
  BY <1>1, <1>3 DEF HistoryInv, SoloInv
<1>5. GoneInv'
  <2>. SUFFICES ASSUME ~mixed, NEW d \in Calls, kind[d] = "delete"
                PROVE  /\ st'[d] \notin {"reading", "running"}
                       /\ st'[d] = "leaving" => file = Missing
                       /\ st'[d] = "resolved" =>
                            file = Missing /\ \A c \in Locking' : kind[c] = "delete" \/ st'[c] = "reading"
    BY <1>1 DEF GoneInv
  <2>1. st'[d] = "crashed" \/ st'[d] = st[d]
    BY <1>2
  <2>2. \A c \in Locking' : c \in Calls /\ st'[c] = st[c]
    BY <1>2 DEF Locking, Over
  <2>. QED  BY <1>3, <2>1, <2>2 DEF HistoryInv, GoneInv
<1>6. PresentInv'
  <2>1. (Deleting => Deleting') /\ \A c \in Answered' : c \in Answered /\ st'[c] = st[c]
    BY <1>1, <1>2 DEF Deleting, Answered
  <2>2. SUFFICES ASSUME ~mixed, ~Deleting PROVE HasAll(file)' /\ \A c \in Calls : CallInv(c)'
    BY <1>1, <2>1 DEF PresentInv, HistoryInv
  <2>3. \A r : HasAll(r) => HasAll(r)'
    BY <2>1 DEF HasAll
  <2>4. ASSUME NEW c \in Calls PROVE CallInv(c)'
    <3>1. CallInv(c)
      BY <2>2 DEF HistoryInv, PresentInv
    <3>2. CASE st'[c] = "crashed"
      BY <3>2 DEF CallInv, Saving, Holding
    <3>3. CASE st'[c] = st[c] /\ UNCHANGED <<outcome[c], obj[c], text[c]>>
      BY <1>1, <2>3, <3>1, <3>3 DEF CallInv, HasOwn
    <3>. QED  BY <1>2, <3>2, <3>3
  <2>5. HasAll(file)'
    BY <1>1, <2>2, <2>3 DEF HistoryInv, PresentInv
  <2>. QED  BY <2>4, <2>5
<1>. QED  BY <1>4, <1>5, <1>6 DEF HistoryInv

LEMMA QuietHistory ==
  ASSUME HistoryInv, UNCHANGED <<file, heap, current, st, kind, of, outcome, obj, text, mixed>>
  PROVE  HistoryInv'
<1>1. Locking' = Locking /\ Answered' = Answered /\ Deleting' = Deleting
  BY DEF Locking, Answered, Deleting
<1>2. \A r : HasAll(r)' = HasAll(r)
  BY <1>1 DEF HasAll
<1>3. \A c \in Calls : CallInv(c) => CallInv(c)'
  BY <1>2 DEF CallInv, HasOwn
<1>. QED  BY <1>1, <1>2, <1>3 DEF HistoryInv, SoloInv, PresentInv, GoneInv

LEMMA HistoryNext == IInv /\ HistoryInv /\ [SessionNext]_sessionVars => HistoryInv'
<1>. SUFFICES ASSUME SessionTypeOK, ReferenceInv, HistoryInv, [SessionNext]_sessionVars PROVE HistoryInv'
  BY DEF IInv
<1>1. CASE GoStale \/ (\E h \in Handles : Close(h)) \/ UNCHANGED sessionVars
  <2>1. UNCHANGED <<file, heap, current, st, kind, of, outcome, obj, text, mixed>>
    BY <1>1 DEF GoStale, Close, sessionVars, held
  <2>. QED  BY <2>1, QuietHistory
<1>2. CASE \E h \in Handles : Crash(h)
  BY <1>2, CrashHistory
<1>3. ASSUME NEW c \in Calls, SaveStep(c) PROVE HistoryInv'
  BY <1>3, SaveHistory, LeaveHistory DEF SaveStep
<1>4. ASSUME NEW c \in Calls, ReadDone(c) \/ ReadFails(c) PROVE HistoryInv'
  BY <1>4, ReadHistory
<1>5. ASSUME NEW c \in Calls, NEW how \in {"ok", "failed"}, RunEnds(c, how) PROVE HistoryInv'
  BY <1>5, RunHistory
<1>6. ASSUME NEW c \in Calls, NEW h \in Handles, NEW k \in Kinds, Begin(c, h, k) PROVE HistoryInv'
  BY <1>6, BeginHistory
<1>. QED  BY <1>1, <1>2, <1>3, <1>4, <1>5, <1>6 DEF SessionNext

-----------------------------------------------------------------------------
LEMMA Inductive == SessionSpec => []IInv
<1>1. SessionInit => IInv
  BY TypeInit DEF SessionInit, IInv, ReferenceInv, HolderInv, LockAccounted, Holding
<1>2. IInv /\ [SessionNext]_sessionVars => IInv'
  BY TypeNext, ReferenceNext, LockNext DEF IInv
<1>. QED  BY <1>1, <1>2, PTL DEF SessionSpec

\* Every variable of the store keeps its type.
THEOREM TypeCorrect == SessionSpec => []SessionTypeOK
BY Inductive, PTL DEF IInv

\* Every lock file there is belongs to a save under way, to a process that died inside
\* it, or to a save that could not write its pid (LocalFileLock.ts, acquire).
THEOREM LocksAccounted == SessionSpec => []LockAccounted
BY Inductive, PTL DEF IInv

\* Two saves are never inside the lock together unless one of them lost its file to
\* the removal of a stale lock or to another one's finally.
THEOREM OneInside == SessionSpec => []OneWriter
<1>1. IInv => OneWriter
  BY DEF IInv, HolderInv, OneWriter
<1>. QED  BY <1>1, Inductive, PTL

\* A turn that was answered stays in the session and a deleted session stays deleted,
\* whatever fails and whoever crashes, as long as no two calls overlap.
THEOREM HistoryStays == SessionSpec => []HistoryKept
<1>1. SessionInit => HistoryInv
  <2>1. SessionInit => Locking = {} /\ Answered = {} /\ ~Deleting /\ \A c \in Calls : CallInv(c)
    BY DEF SessionInit, Locking, Answered, Deleting, CallInv, Over, Saving, Holding
  <2>2. SessionInit => file # Missing
    BY NoEntries, SessionAssumption DEF SessionInit, Records, Updates
  <2>3. SessionInit => GoneInv
    BY DEF SessionInit, GoneInv
  <2>. QED  BY <2>1, <2>2, <2>3 DEF HistoryInv, SoloInv, PresentInv, HasAll
<1>2. IInv /\ HistoryInv => HistoryKept
  <2>1. PresentInv => TurnsKept
    BY DEF PresentInv, TurnsKept, HasAll, Answered, Deleting
  <2>2. GoneInv => DeletedStays
    BY DEF GoneInv, DeletedStays
  <2>. QED  BY <2>1, <2>2 DEF HistoryInv, HistoryKept
<1>. QED  BY <1>1, <1>2, Inductive, HistoryNext, PTL DEF SessionSpec
=============================================================================
