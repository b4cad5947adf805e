----------------------------- MODULE CourseIndex -----------------------------
(***************************************************************************)
(* The vector index of each course: a thread of ingestion replaces the     *)
(* chunks of a document in two calls, a deletion removes them, and a       *)
(* retrieval reads the whole collection, then asks it for the nearest      *)
(* chunks, and fuses that ranking with its own.                            *)
(*                                                                         *)
(* Every document here belongs to the collection "slides" of its course;   *)
(* rows, files and the jobs behind the threads are DocumentLifecycle's.    *)
(***************************************************************************)
EXTENDS Chunking, Sequences, SequencesExt

CONSTANTS
  Courses, Docs,
  CourseOf,    \* the course of each document
  Texts,       \* for each document, what extraction may make of its file: a
               \* set of sequences of sections
  Chapter,     \* the <<document, section>>s whose names have a chapter's number
  Scores,      \* the values BM25 and cosine scores are compared by
  TopK,        \* chunks returned (3)
  RankConstant,\* of reciprocal rank fusion (60)
  Asked,       \* the courses questions are asked about
  MaxEdits     \* bound: ingestions and deletions

ASSUME IndexAssumption ==
  /\ CourseOf \in [Docs -> Courses] /\ Asked \subseteq Courses /\ Scores \subseteq Int
  /\ TopK \in Nat /\ RankConstant \in Nat /\ MaxEdits \in Nat
  /\ \A d \in Docs : Texts[d] \subseteq Seq(Section)
  /\ \A d \in Docs : \A t \in Texts[d] : \A i \in 1..Len(t) : t[i].body > 0

VARIABLES
  live,       \* the documents that have a row
  index,      \* course -> its chunks, in the order the collection returns them
  job,        \* document -> its ingestion: idle, read, or past the purge
  text,       \* document -> the sections it was last ingested with; NoText
              \* if a failure or a deletion has taken their chunks since
  removing,   \* the deletion between its two writes, if there is one
  withdrawn,  \* history: deleted while no ingestion of theirs was under way
  edits,      \* counts ingestions and deletions
  reader      \* the question being answered

indexVars == <<live, index, job, text, removing, withdrawn, edits, reader>>

NoText   == "none"
NoReader == [pc |-> "idle"]

-----------------------------------------------------------------------------
(* Writing the index                                                       *)

\* The elements of a set in an order: sorting and filtering without recursion,
\* so that proofs can be about it.
InOrder(S, Op(_, _)) ==
  [n \in 1..Cardinality(S) |-> CHOOSE x \in S : Cardinality({y \in S : Op(y, x)}) = n - 1]

\* What a sequence has at some positions.
Picked(s, positions) ==
  LET at == InOrder(positions, <) IN [n \in DOMAIN at |-> s[at[n]]]

\* The chunks of a document: their ids count through all its sections.
Places(sections) ==
  UNION {{<<i, s>> : s \in {x \in Starts(sections[i]) :
                              LongEnough(sections[i], Piece(sections[i], x))}} :
           i \in 1..Len(sections)}

Earlier(p, q) == p[1] < q[1] \/ (p[1] = q[1] /\ p[2] < q[2])

Chunks(d, sections) ==
  LET at == InOrder(Places(sections), Earlier) IN
    [n \in DOMAIN at |->
      [doc |-> d, n |-> n, section |-> at[n][1], piece |-> Piece(sections[at[n][1]], at[n][2])]]

ChunksOf(d) == {i \in DOMAIN index[CourseOf[d]] : index[CourseOf[d]][i].doc = d}

\* Mutant of Without: only the chunk with the first id is deleted.
WithoutFirst(d) ==
  LET old == index[CourseOf[d]] IN
    Picked(old, {i \in DOMAIN old : old[i].doc # d \/ old[i].n > 1})

Without(d) ==
  LET old == index[CourseOf[d]] IN Picked(old, {i \in DOMAIN old : old[i].doc # d})

\* upsert: a chunk whose id the collection has replaces it where it is.
SameId(a, b) == a.doc = b.doc /\ a.n = b.n
With(d) ==
  LET old   == index[CourseOf[d]]
      new   == Chunks(d, text[d])
      fresh == Picked(new, {k \in DOMAIN new : \A i \in DOMAIN old : ~SameId(old[i], new[k])})
  IN [i \in DOMAIN old |->
        IF \E k \in DOMAIN new : SameId(new[k], old[i])
        THEN new[old[i].n] ELSE old[i]] \o fresh

\* ingest_document in three steps: the file is read and cut; the old chunks
\* are deleted, and that is all if there are no new ones; these are written.
\* Once the first is done, deleting the document does not stop the others.
ReadFile(d) ==
  /\ d \in live /\ job[d] = "idle" /\ edits < MaxEdits
  /\ job' = [job EXCEPT ![d] = "read"] /\ edits' = edits + 1
  /\ removing' = {[r EXCEPT !.clean = @ /\ r.doc # d] : r \in removing}
  /\ UNCHANGED <<live, index, text, withdrawn, reader>>

Purge(d, sections) ==
  /\ job[d] = "read"
  /\ index' = [index EXCEPT ![CourseOf[d]] = Without(d)]
  /\ text' = [text EXCEPT ![d] = sections]
  /\ job' = [job EXCEPT ![d] = IF Chunks(d, sections) = <<>> THEN "idle" ELSE "purged"]
  /\ UNCHANGED <<live, removing, withdrawn, edits, reader>>

Upsert(d) ==
  /\ job[d] = "purged"
  /\ index' = [index EXCEPT ![CourseOf[d]] = With(d)]
  /\ job' = [job EXCEPT ![d] = "idle"]
  /\ UNCHANGED <<live, text, removing, withdrawn, edits, reader>>

\* Reading, embedding or writing fails, or the process stops.
IngestFails(d) ==
  /\ job[d] # "idle"
  /\ job' = [job EXCEPT ![d] = "idle"]
  /\ text' = IF job[d] = "purged" THEN [text EXCEPT ![d] = NoText] ELSE text
  /\ UNCHANGED <<live, index, removing, withdrawn, edits, reader>>

\* delete_document, which nothing else of the event loop comes between: the
\* chunks go first, but for a failure that is swallowed, and then the row.  An
\* ingestion past the purge still writes its chunks.
RemoveChunks(d, ok) ==
  /\ d \in live /\ removing = {} /\ edits < MaxEdits
  /\ index' = IF ok THEN [index EXCEPT ![CourseOf[d]] = Without(d)] ELSE index
  /\ text' = IF ok /\ job[d] # "purged" THEN [text EXCEPT ![d] = NoText] ELSE text
  /\ removing' = {[doc |-> d, clean |-> ok /\ job[d] = "idle"]}
  /\ edits' = edits + 1
  /\ UNCHANGED <<live, job, withdrawn, reader>>

RemoveRow ==
  \E r \in removing :
    /\ live' = live \ {r.doc}
    /\ withdrawn' = IF r.clean THEN withdrawn \cup {r.doc} ELSE withdrawn
    /\ removing' = {}
    /\ UNCHANGED <<index, job, text, edits, reader>>

\* The commit fails, or the process stops: the document stays without chunks.
RemoveFails ==
  /\ removing # {} /\ removing' = {}
  /\ UNCHANGED <<live, index, job, text, withdrawn, edits, reader>>

-----------------------------------------------------------------------------
(* Reading it                                                              *)

\* The records a query is ranked over: those of the chapter it names, if any.
InChapter(ch) == <<ch.doc, ch.section>> \in Chapter
Records(snapshot, chapter) ==
  LET matching == {i \in DOMAIN snapshot : InChapter(snapshot[i])} IN
    IF chapter /\ matching # {} THEN Picked(snapshot, matching) ELSE snapshot

Fetch(c, chapter) ==
  /\ reader.pc = "idle"
  /\ reader' =
       IF index[c] = <<>> THEN NoReader
       ELSE [pc |-> "fetched", course |-> c, gone |-> withdrawn,
             records |-> Records(index[c], chapter)]
  /\ UNCHANGED <<live, index, job, text, removing, withdrawn, edits>>

\* The rank of record i by BM25: by score, then by the order of the records.
LexicalRank(lexical, i) ==
  1 + Cardinality({j \in DOMAIN lexical :
        lexical[j] > lexical[i] \/ (lexical[j] = lexical[i] /\ j < i)})

\* What the collection may answer: its n nearest chunks with their scores, in
\* their order, or nothing if the query fails.
NearestOf(chunks, n) ==
  LET m == IF n < Len(chunks) THEN n ELSE Len(chunks) IN
    {near \in [1..m -> {[chunk |-> chunks[i], score |-> s] :
                          i \in DOMAIN chunks, s \in Scores}] :
       \A i, j \in 1..m : i < j =>
         near[i].chunk # near[j].chunk /\ near[i].score >= near[j].score}

DenseRank(dense, ch) ==
  {r \in DOMAIN dense : SameId(dense[r].chunk, ch)}

\* Reciprocal rank fusion: the sum of at most two unit fractions, as a
\* numerator and a denominator.
Reciprocals(ranks) ==
  LET a == RankConstant + ranks[1]
      b == RankConstant + ranks[2]
  IN IF ranks[2] = 0 THEN [num |-> 1, den |-> a] ELSE [num |-> a + b, den |-> a * b]

\* Mutant of Fused: the second ranking overwrites the first.
FusedLast(lexicalRank, denseRanks) ==
  IF denseRanks = {} THEN Reciprocals(<<lexicalRank, 0>>)
  ELSE Reciprocals(<<CHOOSE r \in denseRanks : TRUE, 0>>)

Fused(lexicalRank, denseRanks) ==
  IF denseRanks = {} THEN Reciprocals(<<lexicalRank, 0>>)
  ELSE Reciprocals(<<lexicalRank, CHOOSE r \in denseRanks : TRUE>>)

\* The records in the order of the final sort: fused score, BM25 score,
\* cosine score, order of the records.
Cosine(dense, ch) ==
  LET ranks == DenseRank(dense, ch) IN
    IF ranks = {} THEN 0 ELSE dense[CHOOSE r \in ranks : TRUE].score

Keys(records, lexical, dense) ==
  [i \in DOMAIN records |->
    [fused   |-> Fused(LexicalRank(lexical, i), DenseRank(dense, records[i])),
     lexical |-> lexical[i], cosine |-> Cosine(dense, records[i]), at |-> i]]

Before(k, l) ==
  LET x == k.fused.num * l.fused.den
      y == l.fused.num * k.fused.den
  IN \/ x > y
     \/ x = y /\ k.lexical > l.lexical
     \/ x = y /\ k.lexical = l.lexical /\ k.cosine > l.cosine
     \/ x = y /\ k.lexical = l.lexical /\ k.cosine = l.cosine /\ k.at < l.at

Selected(records, lexical, dense) ==
  LET keys         == Keys(records, lexical, dense)
      Sooner(i, j) == Before(keys[i], keys[j])
      sorted       == InOrder(DOMAIN records, Sooner)
      n            == IF TopK < Len(records) THEN TopK ELSE Len(records)
  IN [i \in 1..n |-> sorted[i]]

Query(lexical, dense) ==
  /\ reader.pc = "fetched"
  /\ reader' = [pc |-> "answered", course |-> reader.course, gone |-> reader.gone,
                records |-> reader.records, lexical |-> lexical, dense |-> dense,
                result |-> Selected(reader.records, lexical, dense)]
  /\ UNCHANGED <<live, index, job, text, removing, withdrawn, edits>>

\* The answer and its citations are sent.
Answered ==
  /\ reader.pc = "answered"
  /\ reader' = NoReader
  /\ UNCHANGED <<live, index, job, text, removing, withdrawn, edits>>

-----------------------------------------------------------------------------

IndexInit ==
  /\ live = Docs /\ index = [c \in Courses |-> <<>>]
  /\ job = [d \in Docs |-> "idle"] /\ text = [d \in Docs |-> NoText]
  /\ removing = {} /\ withdrawn = {} /\ edits = 0 /\ reader = NoReader

Write ==
  \/ \E d \in Docs :
       \/ ReadFile(d) \/ Upsert(d) \/ IngestFails(d)
       \/ \E sections \in Texts[d] : Purge(d, sections)
       \/ \E ok \in BOOLEAN : RemoveChunks(d, ok)
  \/ RemoveRow \/ RemoveFails

Read ==
  \/ \E c \in Asked, chapter \in BOOLEAN : Fetch(c, chapter)
  \/ /\ reader.pc = "fetched"
     /\ LET n == Len(reader.records) IN
          \E dense \in NearestOf(index[reader.course], n) \cup {<<>>},
             lexical \in [1..n -> Scores] : Query(lexical, dense)
  \/ Answered

-----------------------------------------------------------------------------
(* Properties *)

\* What ingestion left behind is the document: exactly the chunks of its
\* last text, whatever was indexed before or failed, and every word of every
\* section long enough to be worth a piece is in one of them, unless a
\* deletion has removed the chunks since: if its second write fails, the
\* document is there without them until it is ingested again.
FullyIndexed ==
  \A d \in live :
    job[d] = "idle" /\ text[d] # NoText =>
      /\ {index[CourseOf[d]][i] : i \in ChunksOf(d)} = ToSet(Chunks(d, text[d]))
      /\ \A s \in 1..Len(text[d]) : Worthwhile(text[d][s]) =>
           \A item \in 0..(Items(text[d][s]) - 1) :
             \E i \in ChunksOf(d) :
               LET ch == index[CourseOf[d]][i] IN
                 ch.section = s /\ Holds(ch.piece, item)

\* Ranking by fusion respects agreement: a chunk both rankings put ahead of
\* another is returned before it, also if the index changed in between and
\* the nearest chunks are partly of other chapters.
Ahead(i, j) ==
  /\ LexicalRank(reader.lexical, i) < LexicalRank(reader.lexical, j)
  /\ \E r \in DenseRank(reader.dense, reader.records[i]) :
       \A q \in DenseRank(reader.dense, reader.records[j]) : r < q
RankingRespected ==
  reader.pc = "answered" =>
    \A i, j \in DOMAIN reader.records : Ahead(i, j) =>
      \A n \in DOMAIN reader.result : reader.result[n] = j =>
        \E m \in 1..(n - 1) : reader.result[m] = i

\* A question asked after a document was deleted, with no ingestion of it
\* under way, never quotes that document.
RemovedNotCited ==
  reader.pc = "answered" =>
    \A n \in DOMAIN reader.result :
      reader.records[reader.result[n]].doc \notin reader.gone
=============================================================================
