--------------------------- MODULE KnowledgeIndex ---------------------------
(***************************************************************************)
(* The knowledge of one scope of an application: the list of sources       *)
(* (sources.json), the chunk index (index.json), its vectors (vectors.f32) *)
(* and the copies of the source files, under imports, removals and         *)
(* reindexing.  No lock guards them, and no two files change together.     *)
(* Every source is one chunk, named like the source: <<operation, path>>.  *)
(***************************************************************************)
EXTENDS Integers, Sequences, FiniteSets

CONSTANTS Ops,          \* 1 .. n: the operations of one behaviour, in order
          Paths,        \* files that can be imported; a path stands for its hash
          MaxSources,   \* MAX_SOURCES
          MaxCuts       \* failing writes and crashes of one behaviour

ASSUME KnowledgeAssumption == Ops \subseteq Nat /\ MaxSources \in Nat /\ MaxCuts \in Nat

VARIABLES docs,     \* sources.json: the status of each source
          idx, vec, \* chunks of index.json, vectors of vectors.f32, both in file order
          copies,   \* the source files kept
          op,       \* op[o]: where the operation stands and what it read
          host,     \* "up", or the step initialize has reached
          cuts,
          crossed   \* history: two operations were under way together

knowledgeVars == <<docs, idx, vec, copies, op, host, cuts, crossed>>

Ids == Ops \X Paths
Listed(d) == {i \in Ids : d[i] # "none"}
ReadyIn(d) == {i \in Ids : d[i] = "ready"}
Chunks(s) == {s[k] : k \in DOMAIN s}
None == [i \in Ids |-> "none"]
Orders(S) == {s \in UNION {[1 .. n -> S] : n \in 0 .. Cardinality(S)} :
                \A j, k \in DOMAIN s : s[j] = s[k] => j = k}
Idle == [at |-> "idle", job |-> "import", todo |-> <<>>, sel |-> {}, vals |-> None, idx |-> <<>>, vec |-> <<>>]
UnderWay(o) == op[o].at \notin {"idle", "over", "threw"}
Quiet == host = "up" /\ \A o \in Ops : ~UnderWay(o)

KnowledgeTypeOK ==
  /\ docs \in [Ids -> {"none", "failed", "ready"}]
  /\ idx \in Seq(Ids) /\ vec \in Seq(Ids) /\ copies \subseteq Ids
  /\ \A o \in Ops : /\ op[o].job \in {"import", "remove", "reindex"}
                    /\ op[o].at \in {"idle", "copied", "unvector", "unindex", "unfile", "unlist", "next",
                                     "copy", "read", "embed", "vectors", "index", "save", "fail", "over", "threw"}
                    /\ op[o].todo \in Seq(Paths) /\ op[o].sel \subseteq Ids
  /\ ~crossed => Cardinality(Listed(docs)) <= MaxSources
  /\ host \in {"up", "scan", "unindex", "unvector"}
  /\ cuts \in 0 .. MaxCuts /\ crossed \in BOOLEAN

KnowledgeInit ==
  /\ docs = None /\ idx = <<>> /\ vec = <<>> /\ copies = {}
  /\ op = [o \in Ops |-> Idle] /\ host = "up" /\ cuts = 0 /\ crossed = FALSE

\* readIndex: the offsets of the chunks must add up to the number of vectors.
Accepts == Len(idx) = Len(vec)

Goto(o, at) == op' = [op EXCEPT ![o].at = at]
Ends(o, at) == op' = [op EXCEPT ![o] = [Idle EXCEPT !.at = at, !.job = op[o].job, !.sel = op[o].sel]]
files == <<docs, idx, vec, copies>>
rest == <<host, cuts, crossed>>

----------------------------------------------------------------------------
Starts(o, start) ==
  /\ host = "up" /\ op[o].at = "idle" /\ \A p \in Ops : p < o => op[p].at # "idle"
  /\ op' = [op EXCEPT ![o] = start]
  /\ crossed' = (crossed \/ \E p \in Ops : UnderWay(p))
  /\ UNCHANGED <<files, host, cuts>>

\* documents(): sources.json is read once, before the first path.
BeginImport(o) ==
  \E s \in Orders(Paths) \ {<<>>} : Starts(o, [Idle EXCEPT !.at = "next", !.todo = s, !.vals = docs])

BeginRemove(o) ==
  \E ids \in SUBSET Listed(docs) \ {{}} : Starts(o, [Idle EXCEPT !.at = "copied", !.job = "remove", !.sel = ids])

\* reindexKnowledge copies the selected sources aside, in the order of the list.
BeginReindex(o) ==
  \E ids \in SUBSET Listed(docs) \ {{}} :
    LET kept == {i[2] : i \in ids \cap copies}
    IN \E s \in Orders(kept) : /\ Chunks(s) = kept
                               /\ Starts(o, [Idle EXCEPT !.at = "copied", !.job = "reindex", !.sel = ids, !.todo = s])

\* removeKnowledge: the index without the removed sources, its files, then the list.
RemoveRead(o) ==
  /\ op[o].at = "copied"
  /\ IF Accepts THEN op' = [op EXCEPT ![o].at = "unvector", ![o].vals = docs, ![o].idx = idx, ![o].vec = vec]
                ELSE Ends(o, "threw")
  /\ UNCHANGED <<files, rest>>

\* What stays of s, chunk by chunk: a chunk's vectors stay with it.
Kept(chunks, sel, s) ==
  LET stay[n \in 0 .. Len(chunks)] ==
        IF n = 0 THEN <<>> ELSE IF chunks[n] \in sel THEN stay[n - 1] ELSE Append(stay[n - 1], s[n])
  IN stay[Len(chunks)]
KeptChunks(o) == Kept(op[o].idx, op[o].sel, op[o].idx)
SlipFromStart(o) == SubSeq(op[o].vec, 1, Len(KeptChunks(o)))
KeptVectors(o) == Kept(op[o].idx, op[o].sel, op[o].vec)

RemoveVectors(o) ==
  /\ op[o].at = "unvector"
  /\ vec' = KeptVectors(o)
  /\ Goto(o, "unindex")
  /\ UNCHANGED <<docs, idx, copies, rest>>

RemoveIndex(o) ==
  /\ op[o].at = "unindex"
  /\ idx' = KeptChunks(o)
  /\ Goto(o, "unfile")
  /\ UNCHANGED <<docs, vec, copies, rest>>

RemoveFiles(o) ==
  /\ op[o].at = "unfile"
  /\ copies' = copies \ op[o].sel
  /\ Goto(o, "unlist")
  /\ UNCHANGED <<docs, idx, vec, rest>>

\* The list as it was read, without the sources; a reindex reads it again to import.
Without(o) == [i \in Ids |-> IF i \in op[o].sel THEN "none" ELSE op[o].vals[i]]

RemoveList(o) ==
  /\ op[o].at = "unlist"
  /\ docs' = Without(o)
  /\ IF op[o].job = "reindex" THEN op' = [op EXCEPT ![o].at = "next", ![o].vals = Without(o)]
                               ELSE Ends(o, "over")
  /\ UNCHANGED <<idx, vec, copies, rest>>

----------------------------------------------------------------------------
\* The next path: a source with the same hash that is ready is not imported again.
Path(o) == Head(op[o].todo)
New(o) == <<o, Path(o)>>
Duplicate(o) == \E i \in ReadyIn(op[o].vals) : i[2] = Path(o)

AtLimit(o) == Cardinality(Listed(op[o].vals)) >= MaxSources

ImportNext(o) ==
  /\ op[o].at = "next"
  /\ IF op[o].todo = <<>> THEN Ends(o, "over")
     ELSE IF Duplicate(o) THEN op' = [op EXCEPT ![o].todo = Tail(@)]
     ELSE IF AtLimit(o) THEN Ends(o, "threw")
     ELSE op' = [op EXCEPT ![o].vals[New(o)] = "failed", ![o].at = "copy"]
  /\ UNCHANGED <<files, rest>>

\* The caller's signal is looked at before each path.
ImportAborted(o) ==
  /\ op[o].at = "next" /\ op[o].todo # <<>>
  /\ Ends(o, "threw")
  /\ UNCHANGED <<files, rest>>

CopySource(o) ==
  /\ op[o].at = "copy"
  /\ copies' = copies \union {New(o)}
  /\ Goto(o, "read")
  /\ UNCHANGED <<docs, idx, vec, rest>>

IndexRead(o) ==
  /\ op[o].at = "read"
  /\ op' = [op EXCEPT ![o].at = IF Accepts THEN "embed" ELSE "fail", ![o].idx = idx, ![o].vec = vec]
  /\ UNCHANGED <<files, rest>>

\* The provider's vectors, or any error of parser, provider and model check.
Embedded(o) ==
  /\ op[o].at = "embed"
  /\ \E at \in {"vectors", "fail"} : Goto(o, at)
  /\ UNCHANGED <<files, rest>>

WriteVectors(o) ==
  /\ op[o].at = "vectors"
  /\ vec' = Append(op[o].vec, New(o))
  /\ Goto(o, "index")
  /\ UNCHANGED <<docs, idx, copies, rest>>

Marked(o) == [op[o].vals EXCEPT ![New(o)] = "ready"]

WriteIndex(o) ==
  /\ op[o].at = "index"
  /\ idx' = Append(op[o].idx, New(o))
  /\ op' = [op EXCEPT ![o].at = "save", ![o].vals = Marked(o)]
  /\ UNCHANGED <<docs, vec, copies, rest>>

SaveDocuments(o) ==
  /\ op[o].at = "save"
  /\ docs' = op[o].vals
  /\ op' = [op EXCEPT ![o].at = "next", ![o].todo = Tail(@)]
  /\ UNCHANGED <<idx, vec, copies, rest>>

\* The catch: the list is saved with the source as failed, the rest is not imported.
SaveFailed(o) ==
  /\ op[o].at = "fail"
  /\ docs' = op[o].vals
  /\ Ends(o, "threw")
  /\ UNCHANGED <<idx, vec, copies, rest>>

\* A read or write throws: inside the try of an import the source is marked failed.
WriteFails(o) ==
  /\ op[o].at \in {"unvector", "unindex", "unfile", "unlist", "copy", "vectors", "index", "save", "fail"}
  /\ cuts < MaxCuts /\ cuts' = cuts + 1
  /\ IF op[o].at \in {"vectors", "index"} THEN Goto(o, "fail") ELSE Ends(o, "threw")
  /\ UNCHANGED <<files, host, crossed>>

----------------------------------------------------------------------------
KnowledgeCrash ==
  /\ cuts < MaxCuts /\ cuts' = cuts + 1
  /\ op' = [o \in Ops |-> IF UnderWay(o) THEN [Idle EXCEPT !.at = "threw"] ELSE op[o]]
  /\ host' = "scan"
  /\ UNCHANGED <<files, crossed>>

\* scanKnowledge: a listed scope whose index is refused is marked failed and emptied.
Rebuild == Listed(docs) # {} /\ ~Accepts

ScanList ==
  /\ host = "scan"
  /\ IF Rebuild THEN /\ docs' = [i \in Ids |-> IF docs[i] = "none" THEN "none" ELSE "failed"]
                     /\ host' = "unindex"
     ELSE host' = "up" /\ docs' = docs
  /\ UNCHANGED <<idx, vec, copies, op, cuts, crossed>>

ScanIndex == /\ host = "unindex" /\ idx' = <<>> /\ host' = "unvector"
             /\ UNCHANGED <<docs, vec, copies, op, cuts, crossed>>
ScanVectors == host = "unvector" /\ vec' = <<>> /\ host' = "up" /\ UNCHANGED <<docs, idx, copies, op, cuts, crossed>>

KnowledgeStep(o) ==
  \/ RemoveRead(o) \/ RemoveVectors(o) \/ RemoveIndex(o) \/ RemoveFiles(o) \/ RemoveList(o)
  \/ ImportNext(o) \/ ImportAborted(o) \/ CopySource(o) \/ IndexRead(o) \/ Embedded(o)
  \/ WriteVectors(o) \/ WriteIndex(o) \/ SaveDocuments(o) \/ SaveFailed(o) \/ WriteFails(o)

KnowledgeNext ==
  \/ \E o \in Ops : BeginImport(o) \/ BeginRemove(o) \/ BeginReindex(o) \/ KnowledgeStep(o)
  \/ KnowledgeCrash \/ ScanList \/ ScanIndex \/ ScanVectors

KnowledgeSpec == KnowledgeInit /\ [][KnowledgeNext]_knowledgeVars

----------------------------------------------------------------------------
\* An index that readIndex accepts has each chunk's own vector at its place, after
\* any crash or failing write, as long as two operations did not cross.
VectorsMatch == ~crossed /\ Accepts => idx = vec

\* When nothing is under way and nothing was cut short, the sources shown as ready
\* are those in the index, once each, and every listed source has its file.
ReadyIsIndexed ==
  Quiet /\ ~crossed /\ cuts = 0 =>
    /\ ReadyIn(docs) = Chunks(idx) /\ Len(idx) = Cardinality(Chunks(idx))
    /\ Listed(docs) \subseteq copies

\* No source is imported twice: at most one ready source per content.
ReadyOnce == ~crossed => \A i, j \in ReadyIn(docs) : i[2] = j[2] => i = j

\* A reindex that returns has every source it was asked for in the list again.  (One
\* that throws, or whose signal is aborted, has removed those it did not reach.)
ReindexKeeps ==
  ~crossed /\ cuts = 0 => \A o \in Ops :
    op[o].at = "over" /\ op[o].job = "reindex" /\ (\A p \in Ops : p > o => op[p].at = "idle")
      => \A i \in op[o].sel : \E j \in Listed(docs) : j[2] = i[2]

\* The list, the index and the vectors of a scope go together, whatever was imported,
\* removed or reindexed, and whatever was cut short.
IndexKept == KnowledgeTypeOK /\ VectorsMatch /\ ReadyIsIndexed /\ ReadyOnce /\ ReindexKeeps
=============================================================================
