--------------------------- MODULE LibraryProofs ---------------------------
(***************************************************************************)
(* Proofs about Library and the operators it is built from, for any        *)
(* documents, users, texts, scores and windows.                            *)
(***************************************************************************)
EXTENDS Library, ChunkerProofs

(***************************************************************************)
(* The scope of a search.  It is resolved in two reads of the registry,    *)
(* between which the user may switch documents.  "off" are the documents   *)
(* that were off when the search began and have been ever since: the first *)
(* or the second read sees every one of them.                              *)
(***************************************************************************)
Resolved == Searching("recall") \/ Searching("rank")

ScopeRecord ==
    [name : {"search"}, stage : {"members", "disabled", "library", "records", "recall"},
     seen : SUBSET Doc, scope : SUBSET Doc, off : SUBSET Doc]

StillOff(t) ==
    /\ t.stage \in {"members", "disabled", "library"} => t.off \subseteq DisabledDocuments
    /\ t.stage = "records" => t.off \subseteq t.seen
    /\ t.stage = "recall" => t.scope \cap t.off = {}

ScopeInv ==
    /\ Resolving \/ Searching("recall") => tool \in ScopeRecord /\ StillOff(tool)
    /\ Searching("rank") => tool.scope \cap tool.off = {}

RegistryTyped == registry \in [Doc -> {"on", "off", "deleted"}]

OffOutOfScope == Resolved => tool.scope \cap tool.off = {}

\* What it takes for a tool to be as ScopeInv asks: nothing if it is no search.
LEMMA NoSearch ==
  ASSUME tool = None \/ tool.name # "search" \/ tool.stage = "hits"
  PROVE  ScopeInv
BY DEF ScopeInv, Resolving, Searching

LEMMA RegistryStep == RegistryTyped /\ [Next]_vars => RegistryTyped'
<1> SUFFICES ASSUME RegistryTyped, [Next]_vars PROVE RegistryTyped'
  OBVIOUS
<1> USE DEF RegistryTyped
<1>1. ASSUME NEW d \in Unsettled, Switch(d) \/ Delete(d) PROVE RegistryTyped'
  BY <1>1 DEF Switch, Delete
<1>2. CASE UNCHANGED registry
  BY <1>2
<1> QED
  BY <1>1, <1>2 DEF Next, Publish, Search, ReadMembers, ReadDisabled, ReadDisabledFirst,
     ReadRecords, Recall, KnowledgeBaseEmpty, Rank, Answered, ReadPage, ReadChunk, ReadOn,
     EndRead, vars

LEMMA ScopeStep ==
  ASSUME RegistryTyped, ScopeInv, [Next]_vars
  PROVE  ScopeInv'
<1> USE DEF ScopeInv, Resolving, Searching
<1>1. ASSUME tool' \in ScopeRecord, StillOff(tool)' PROVE ScopeInv'
  BY <1>1 DEF ScopeRecord
<1>2. ASSUME \/ tool' = None \/ tool'.name # "search" \/ tool'.stage = "hits" PROVE ScopeInv'
  BY <1>2
<1>3. ASSUME Searching("members") \/ Searching("disabled") \/ Searching("library")
             \/ Searching("records") \/ Searching("recall")
      PROVE  tool \in ScopeRecord /\ StillOff(tool)
  BY <1>3
<1>4. ASSUME NEW bound \in BOOLEAN, Search(bound) PROVE ScopeInv'
  BY <1>1, <1>4 DEF Search, ScopeRecord, StillOff, DisabledDocuments
<1>5. CASE ReadMembers
  BY <1>1, <1>3, <1>5, LibraryConstants DEF ReadMembers, ScopeRecord, StillOff, DisabledDocuments
<1>6. CASE ReadDisabled
  <2> DEFINE docs == tool.seen \ DisabledDocuments
  <2>1. tool \in ScopeRecord /\ tool.off \subseteq DisabledDocuments /\ docs \subseteq Doc
    BY <1>3, <1>6 DEF ReadDisabled, ScopeRecord, StillOff
  <2>2. CASE docs = {}
    BY <1>2, <1>6, <2>2 DEF ReadDisabled, Scoped
  <2>3. CASE docs # {}
    <3>1. tool' = [tool EXCEPT !.stage = "recall", !.scope = docs, !.seen = {}]
      BY <1>6, <2>3 DEF ReadDisabled, Scoped
    <3> QED
      BY <1>1, <2>1, <3>1 DEF ScopeRecord, StillOff
  <2> QED
    BY <2>2, <2>3
<1>7. CASE ReadDisabledFirst
  BY <1>1, <1>3, <1>7 DEF ReadDisabledFirst, ScopeRecord, StillOff, DisabledDocuments
<1>8. CASE ReadRecords
  <2> DEFINE docs == LibraryScope(tool.seen)
  <2>1. tool \in ScopeRecord /\ tool.off \subseteq tool.seen /\ docs \subseteq Doc \ tool.seen
    BY <1>3, <1>8 DEF ReadRecords, ScopeRecord, StillOff, LibraryScope, Records
  <2>2. CASE docs = {}
    BY <1>2, <1>8, <2>2 DEF ReadRecords, Scoped
  <2>3. CASE docs # {}
    <3>1. tool' = [tool EXCEPT !.stage = "recall", !.scope = docs, !.seen = {}]
      BY <1>8, <2>3 DEF ReadRecords, Scoped
    <3> HIDE DEF docs
    <3> QED
      BY <1>1, <2>1, <3>1 DEF ScopeRecord, StillOff
  <2> QED
    BY <2>2, <2>3
\* The user switches a document on or deletes it, and it leaves "off"; what he
\* switches off was not in it.
<1>9. ASSUME NEW d, NEW state, registry' = [registry EXCEPT ![d] = state], Resolving,
             tool' = [tool EXCEPT !.off = @ \ {d}]
      PROVE  ScopeInv'
  <2>1. \A e \in DisabledDocuments \ {d} : e \in DisabledDocuments'
    BY <1>9 DEF DisabledDocuments, RegistryTyped
  <2> QED
    BY <1>1, <1>9, <2>1 DEF ScopeRecord, StillOff
<1>10. ASSUME NEW d \in Unsettled, Switch(d) \/ Delete(d) PROVE ScopeInv'
  BY <1>9, <1>10 DEF Switch, Delete
<1>11. ASSUME NEW texts \in 1..MaxTexts, NEW where \in BOOLEAN, Recall(texts, where)
       PROVE  ScopeInv'
  <2>1. tool'.stage = "rank" /\ tool'.scope = tool.scope /\ tool'.off = tool.off
    BY <1>11 DEF Recall
  <2>2. tool.scope \cap tool.off = {}
    BY <1>3, <1>11 DEF Recall, StillOff
  <2> QED
    BY <2>1, <2>2
<1>12. ASSUME NEW wants \in BOOLEAN, Rank(wants) PROVE ScopeInv'
  <2>1. tool'.stage = "hits"
    BY <1>12 DEF Rank
  <2> QED
    BY <1>2, <2>1
<1>13. CASE KnowledgeBaseEmpty \/ Answered \/ EndRead
  BY <1>2, <1>13 DEF KnowledgeBaseEmpty, Answered, EndRead
<1>14. ASSUME NEW rows, NEW whole, NEW text, NEW offset, NEW got,
              tool' = ReadWindow(rows, whole, text, offset, got)
       PROVE  ScopeInv'
  <2>1. tool'.name = "read"
    BY <1>14 DEF ReadWindow
  <2> QED
    BY <1>2, <2>1
<1>15. CASE ReadOn \/ (\E id : ReadChunk(id)) \/ \E d, page : ReadPage(d, page)
  BY <1>14, <1>15 DEF ReadOn, ReadChunk, ReadPage
<1>16. CASE Publish \/ UNCHANGED vars
  BY <1>16 DEF Publish, vars, StillOff, DisabledDocuments
<1> QED
  BY <1>4, <1>5, <1>6, <1>7, <1>8, <1>10, <1>11, <1>12, <1>13, <1>15, <1>16 DEF Next

LEMMA ScopeHolds == Spec => []ScopeInv
<1>1. Init => RegistryTyped /\ ScopeInv
  BY NoSearch DEF Init, RegistryTyped
<1> QED
  BY <1>1, RegistryStep, ScopeStep, PTL DEF Spec

\* What OffMeansOff rests on: once its scope is resolved, no document that was
\* off when the search began, and still is, is in it, however the user's switches
\* fall between the reads (ReadMembers and ReadDisabled, or ReadDisabledFirst and
\* ReadRecords).  The hits are of the scope, by the last filter of Rank.
THEOREM ScopeLeavesOffOut == Spec => []OffOutOfScope
<1>1. ScopeInv => OffOutOfScope
  BY DEF ScopeInv, OffOutOfScope, Resolved, Searching, StillOff
<1> QED
  BY <1>1, ScopeHolds, PTL

(***************************************************************************)
(* The prose beside a table or a figure                                    *)
(***************************************************************************)
IsProse(chunks) == {p \in DOMAIN chunks : chunks[p].kind = "prose"}

\* In any order "Earlier" makes of a document's chunks, what lies between a
\* chunk and one of those nearest to it is among the nearest too.
LEMMA LastOfIsClosed ==
  ASSUME NEW chunks, NEW S, IsFiniteSet(S), \A s \in S : Anchor(chunks[s]) \in Int /\ s \in Int,
         NEW n \in LastOf(S, chunks), NEW p \in S, Earlier(chunks, n, p)
  PROVE  p \in LastOf(S, chunks)
<1> DEFINE After(x) == {q \in S : Earlier(chunks, x, q)}
<1>1. n \in S /\ Cardinality(After(n)) < MaxNeighbors
  BY DEF LastOf
<1>2. After(p) \subseteq After(n)
  BY <1>1 DEF Earlier
<1>3. IsFiniteSet(After(n)) /\ IsFiniteSet(After(p))
  BY FS_Subset
<1>4. Cardinality(After(p)) <= Cardinality(After(n))
  BY <1>2, <1>3, FS_Subset
<1>5. Cardinality(After(p)) \in Nat /\ Cardinality(After(n)) \in Nat
  BY <1>3, FS_CardinalityType
<1>6. Cardinality(After(p)) < MaxNeighbors
  BY <1>1, <1>4, <1>5 DEF MaxNeighbors
<1> QED
  BY <1>6 DEF LastOf

LEMMA FirstOfIsClosed ==
  ASSUME NEW chunks, NEW S, IsFiniteSet(S), \A s \in S : Anchor(chunks[s]) \in Int /\ s \in Int,
         NEW n \in FirstOf(S, chunks), NEW p \in S, Earlier(chunks, p, n)
  PROVE  p \in FirstOf(S, chunks)
<1> DEFINE Until(x) == {q \in S : Earlier(chunks, q, x)}
<1>1. n \in S /\ Cardinality(Until(n)) < MaxNeighbors
  BY DEF FirstOf
<1>2. Until(p) \subseteq Until(n)
  BY <1>1 DEF Earlier
<1>3. IsFiniteSet(Until(n)) /\ IsFiniteSet(Until(p))
  BY FS_Subset
<1>4. Cardinality(Until(p)) <= Cardinality(Until(n))
  BY <1>2, <1>3, FS_Subset
<1>5. Cardinality(Until(p)) \in Nat /\ Cardinality(Until(n)) \in Nat
  BY <1>3, FS_CardinalityType
<1>6. Cardinality(Until(p)) < MaxNeighbors
  BY <1>1, <1>4, <1>5 DEF MaxNeighbors
<1> QED
  BY <1>6 DEF FirstOf

\* A document's chunks before their neighbors are bound.
Unbound(chunks) ==
    /\ \E n \in Nat : DOMAIN chunks = 1..n
    /\ \A k \in DOMAIN chunks :
          /\ DOMAIN chunks[k] = {"kind", "els", "pages", "path", "words", "pack", "before", "after"}
          /\ chunks[k].before = {} /\ chunks[k].after = {}
          /\ Anchor(chunks[k]) \in Int

\* What NeighborsSurround rests on (_bind_neighbors), for a document of any
\* chunks: of the prose before a table or a figure, none that is nearer than a
\* bound chunk is left out, and of the prose after it none either.  The order is
\* that of the anchors, then of the chunks.
THEOREM NearestProseIsBound ==
  ASSUME NEW chunks, Unbound(chunks), NEW k \in DOMAIN chunks,
         NEW p \in IsProse(chunks)
  PROVE  LET bound == BindNeighbors(chunks)
             anchor == Anchor(chunks[k])
         IN  /\ \A n \in bound[k].before :
                   /\ n \in IsProse(chunks) /\ Anchor(chunks[n]) < anchor
                   /\ Anchor(chunks[p]) < anchor /\ Earlier(chunks, n, p) => p \in bound[k].before
             /\ \A n \in bound[k].after :
                   /\ n \in IsProse(chunks) /\ Anchor(chunks[n]) > anchor
                   /\ Anchor(chunks[p]) > anchor /\ Earlier(chunks, p, n) => p \in bound[k].after
<1> DEFINE bound == BindNeighbors(chunks)
           anchor == Anchor(chunks[k])
           front == {q \in IsProse(chunks) : Anchor(chunks[q]) < anchor}
           rear == {q \in IsProse(chunks) : Anchor(chunks[q]) > anchor}
<1>1. IsFiniteSet(front) /\ IsFiniteSet(rear)
  <2> PICK n \in Nat : DOMAIN chunks = 1..n
    BY DEF Unbound
  <2>1. 1 \in Int /\ n \in Int
    OBVIOUS
  <2>2. IsFiniteSet(1..n)
    BY <2>1, FS_Interval
  <2> QED
    BY <2>2, FS_Subset DEF IsProse
<1>2. \A q \in front \cup rear : Anchor(chunks[q]) \in Int /\ q \in Int
  BY DEF Unbound, IsProse
<1>3. \/ bound[k].before = {} /\ bound[k].after = {}
      \/ bound[k].before = LastOf(front, chunks) /\ bound[k].after = FirstOf(rear, chunks)
  BY DEF BindNeighbors, Bound, IsProse, Unbound
<1>4. ASSUME NEW n \in LastOf(front, chunks), Anchor(chunks[p]) < anchor, Earlier(chunks, n, p)
      PROVE  p \in LastOf(front, chunks)
  BY <1>1, <1>2, <1>4, LastOfIsClosed
<1>5. ASSUME NEW n \in FirstOf(rear, chunks), Anchor(chunks[p]) > anchor, Earlier(chunks, p, n)
      PROVE  p \in FirstOf(rear, chunks)
  BY <1>1, <1>2, <1>5, FirstOfIsClosed
<1>6. LastOf(front, chunks) \subseteq front /\ FirstOf(rear, chunks) \subseteq rear
  BY DEF LastOf, FirstOf
<1> QED
  BY <1>3, <1>4, <1>5, <1>6

(***************************************************************************)
(* Reading on                                                              *)
(***************************************************************************)
\* What ReadsWalkOn rests on (_read), for a text and budgets of any length: a
\* window that begins where the ones before it have ended leaves nothing out,
\* moves on, and gives no hint only at the end.
THEOREM WindowsJoin ==
  ASSUME NEW rows, NEW whole \in Nat, NEW offset \in 0..whole
  PROVE  LET read == ReadWindow(rows, whole, whole, offset, 1..offset)
         IN  /\ read.got = 1..(IF read.hint = 0 THEN whole ELSE read.hint)
             /\ read.hint = 0 \/ (offset < read.hint /\ read.hint < whole)
<1> DEFINE budget == IF IsTable(index[rows[1]]) THEN ReadTable ELSE ReadText
           given == Larger(0, Smaller(budget, whole - offset))
           left == Larger(0, whole - offset - given)
           hint == IF whole - whole > left THEN whole ELSE NextHint(whole, offset, given)
           got == 1..offset \cup (offset + 1)..(offset + given)
<1>1. budget \in Nat /\ budget > 0
  BY LibraryConstants
<1>2. given \in Nat /\ offset + given <= whole /\ (given = 0 => offset = whole)
  BY <1>1 DEF Larger, Smaller
<1>3. left = whole - offset - given
  BY <1>2 DEF Larger
<1>4. hint = IF offset + given < whole THEN offset + given ELSE 0
  BY <1>2, <1>3 DEF NextHint
<1>5. got = 1..(offset + given)
  BY <1>2
<1>6. ReadWindow(rows, whole, whole, offset, 1..offset).got = got
      /\ ReadWindow(rows, whole, whole, offset, 1..offset).hint = hint
  BY DEF ReadWindow
<1> HIDE DEF got, hint, given
<1> QED
  BY <1>2, <1>4, <1>5, <1>6

(***************************************************************************)
(* The index                                                               *)
(***************************************************************************)
Chunks(d) == ChunkDocument(papers[d])

Published ==
    /\ papers \in [Doc -> Seq(Element)]
    /\ index = None \/ index = Store(papers)

LEMMA PublishedStep == Published /\ [Next]_vars => Published'
<1> SUFFICES ASSUME Published, [Next]_vars PROVE Published'
  OBVIOUS
<1>1. CASE Publish
  BY <1>1 DEF Publish, Published
<1>2. CASE UNCHANGED <<papers, index>>
  BY <1>2 DEF Published
<1> QED
  BY <1>1, <1>2 DEF Next, Search, ReadMembers, ReadDisabled, ReadDisabledFirst,
     ReadRecords, Switch, Delete, Recall, KnowledgeBaseEmpty, Rank, Answered, ReadPage, ReadChunk,
     ReadOn, EndRead, vars

\* The snapshot has each document's chunks, by the document and their places.
LEMMA StoreIs ==
  ASSUME Published, index # None
  PROVE  /\ \A id \in DOMAIN index : /\ id[1] \in Doc /\ id[2] \in DOMAIN Chunks(id[1])
                                     /\ id = <<id[1], id[2]>>
         /\ \A d \in Doc : papers[d] \in Seq(Element)
         /\ \A d \in Doc : \A k \in DOMAIN Chunks(d) :
               /\ <<d, k>> \in DOMAIN index
               /\ index[<<d, k>>].doc = d
               /\ index[<<d, k>>].kind = Chunks(d)[k].kind
               /\ index[<<d, k>>].els = Chunks(d)[k].els
               /\ index[<<d, k>>].pages = Chunks(d)[k].pages
               /\ index[<<d, k>>].path = Chunks(d)[k].path
               /\ index[<<d, k>>].words = Chunks(d)[k].words
               /\ index[<<d, k>>].pack = Chunks(d)[k].pack
               /\ index[<<d, k>>].before = {<<d, j>> : j \in Chunks(d)[k].before}
               /\ index[<<d, k>>].after = {<<d, j>> : j \in Chunks(d)[k].after}
<1> DEFINE chunks == [d \in Doc |-> ChunkDocument(papers[d])]
           Ids == UNION {{<<d, k>> : k \in DOMAIN chunks[d]} : d \in Doc}
           Row(id) ==
               LET c == chunks[id[1]][id[2]]
               IN  [doc |-> id[1], kind |-> c.kind, els |-> c.els, pages |-> c.pages,
                    path |-> c.path, words |-> c.words, pack |-> c.pack,
                    before |-> {<<id[1], k>> : k \in c.before},
                    after |-> {<<id[1], k>> : k \in c.after}]
<1>1. index = [id \in Ids |-> Row(id)]
  BY DEF Published, Store
<1>2. \A d \in Doc : chunks[d] = Chunks(d)
  BY DEF Chunks
<1>3. \A id \in Ids : id[1] \in Doc /\ id[2] \in DOMAIN chunks[id[1]] /\ id = <<id[1], id[2]>>
  OBVIOUS
<1>4. \A d \in Doc : \A k \in DOMAIN chunks[d] : <<d, k>> \in Ids
  OBVIOUS
<1> HIDE DEF chunks, Ids
<1>5. DOMAIN index = Ids /\ \A id \in Ids : index[id] = Row(id)
  BY <1>1
<1>6. \A d \in Doc : papers[d] \in Seq(Element)
  BY DEF Published
<1>7. ASSUME NEW d \in Doc, NEW k \in DOMAIN Chunks(d)
      PROVE  /\ <<d, k>> \in Ids
             /\ index[<<d, k>>] =
                  [doc |-> d, kind |-> Chunks(d)[k].kind, els |-> Chunks(d)[k].els,
                   pages |-> Chunks(d)[k].pages, path |-> Chunks(d)[k].path,
                   words |-> Chunks(d)[k].words, pack |-> Chunks(d)[k].pack,
                   before |-> {<<d, j>> : j \in Chunks(d)[k].before},
                   after |-> {<<d, j>> : j \in Chunks(d)[k].after}]
  <2>1. chunks[d] = Chunks(d) /\ <<d, k>> \in Ids /\ <<d, k>>[1] = d /\ <<d, k>>[2] = k
    BY <1>2, <1>4
  <2>2. index[<<d, k>>] = Row(<<d, k>>)
    BY <1>5, <2>1
  <2> QED
    BY <2>1, <2>2
<1> HIDE DEF Row
<1>8. \A id \in DOMAIN index : /\ id[1] \in Doc /\ id[2] \in DOMAIN Chunks(id[1])
                               /\ id = <<id[1], id[2]>>
  BY <1>2, <1>3, <1>5
<1>9. ASSUME NEW d \in Doc, NEW k \in DOMAIN Chunks(d)
      PROVE  /\ <<d, k>> \in DOMAIN index
             /\ index[<<d, k>>].doc = d
             /\ index[<<d, k>>].kind = Chunks(d)[k].kind
             /\ index[<<d, k>>].els = Chunks(d)[k].els
             /\ index[<<d, k>>].pages = Chunks(d)[k].pages
             /\ index[<<d, k>>].path = Chunks(d)[k].path
             /\ index[<<d, k>>].words = Chunks(d)[k].words
             /\ index[<<d, k>>].pack = Chunks(d)[k].pack
             /\ index[<<d, k>>].before = {<<d, j>> : j \in Chunks(d)[k].before}
             /\ index[<<d, k>>].after = {<<d, j>> : j \in Chunks(d)[k].after}
  <2> DEFINE c == Chunks(d)[k]
             before == {<<d, j>> : j \in c.before}
             after == {<<d, j>> : j \in c.after}
             row == index[<<d, k>>]
  <2>1. /\ <<d, k>> \in Ids
        /\ row = [doc |-> d, kind |-> c.kind, els |-> c.els, pages |-> c.pages, path |-> c.path,
                  words |-> c.words, pack |-> c.pack, before |-> before, after |-> after]
    BY <1>7
  <2> HIDE DEF c, before, after, row
  <2>2. /\ row.doc = d /\ row.kind = c.kind /\ row.els = c.els /\ row.pages = c.pages
        /\ row.path = c.path /\ row.words = c.words /\ row.pack = c.pack
        /\ row.before = before /\ row.after = after
    BY <2>1
  <2> QED
    BY <1>5, <2>1, <2>2 DEF c, before, after, row
<1> QED
  BY <1>6, <1>8, <1>9

LEMMA ChunksAre ==
  ASSUME Published, NEW d \in Doc
  PROVE  /\ papers[d] \in Seq(Element)
         /\ Chunks(d) \in Seq(ChunkOf(papers[d]))
         /\ InReadingOrder(Chunks(d)) /\ Surrounded(Chunks(d))
         /\ \A k \in DOMAIN Chunks(d) : OfOneElement(Chunks(d)[k], papers[d])
         /\ HoldsAll(Chunks(d), papers[d], Prose(papers[d]), 0)
         /\ HoldsAll(Chunks(d), papers[d], Kept(papers[d], {"table"}), CaptionCost)
<1>1. papers[d] \in Seq(Element)
  BY DEF Published
<1> QED
  BY <1>1, ChunkDocumentIs DEF Chunks

LEMMA WordsAreIndexed == Published => EveryWordIsIndexed
<1> SUFFICES ASSUME Published, index # None, NEW d \in Doc,
                    NEW i \in Prose(papers[d]) \cup Kept(papers[d], {"table"}),
                    NEW k \in DOMAIN Words(papers[d], i),
                    NEW word, word = Words(papers[d], i)[k],
                    Fits(d, i, papers[d][i].sizes[word.part])
             PROVE  Indexed(d, word)
  BY DEF EveryWordIsIndexed
<1> DEFINE doc == papers[d]
<1>1. doc \in Seq(Element) /\ i \in DOMAIN doc
  BY ChunksAre DEF Prose, Kept
<1>2. word.el = i /\ SizeOf(word, doc) = doc[i].sizes[word.part] /\ SizeOf(word, doc) \in Nat
  <2>1. word.el = i /\ SizeOf(word, doc) \in Nat
    BY <1>1, WordIsOf
  <2> QED
    BY <2>1 DEF SizeOf
<1>3. Holds(Chunks(d), word)
  <2>1. CASE i \in Prose(doc)
    <3>1. doc[i].type = "prose"
      BY <2>1 DEF Prose, Kept
    <3>2. FitsAlone(word, doc, 0)
      BY <1>2, <3>1 DEF FitsAlone, Fits
    <3> QED
      BY <2>1, <3>2, ChunksAre DEF HoldsAll
  <2>2. CASE i \in Kept(doc, {"table"})
    <3>1. doc[i].type = "table"
      BY <2>2 DEF Kept
    <3>2. FitsAlone(word, doc, CaptionCost)
      BY <1>2, <3>1 DEF FitsAlone, Fits
    <3> QED
      BY <2>2, <3>2, ChunksAre DEF HoldsAll
  <2> QED
    BY <2>1, <2>2
<1>4. PICK m \in DOMAIN Chunks(d) : word \in Range(Chunks(d)[m].words)
  BY <1>3 DEF Holds
<1>5. <<d, m>> \in DOMAIN index /\ index[<<d, m>>].doc = d /\ index[<<d, m>>].words = Chunks(d)[m].words
  BY <1>4, StoreIs
<1>6. Contains(Chunks(d)[m].words, word)
  <2>1. Chunks(d)[m].words \in Seq(Word)
    <3>1. Chunks(d)[m] \in ChunkOf(papers[d])
      BY <1>4, ChunksAre
    <3> QED
      BY <3>1 DEF ChunkOf
  <2> QED
    BY <1>4, <2>1 DEF Contains, Range
<1> QED
  BY <1>5, <1>6 DEF Indexed

LEMMA PagesAreCovered == Published => PagesCoverText
<1> SUFFICES ASSUME Published, index # None, NEW id \in DOMAIN index, NEW i \in index[id].els
             PROVE  papers[index[id].doc][i].pages \subseteq index[id].pages
  BY DEF PagesCoverText
<1> DEFINE d == id[1]
           k == id[2]
<1>1. d \in Doc /\ k \in DOMAIN Chunks(d) /\ id = <<d, k>>
  BY StoreIs
<1> HIDE DEF d, k
<1>2. /\ index[id].doc = d /\ index[id].els = Chunks(d)[k].els
      /\ index[id].pages = Chunks(d)[k].pages
  BY <1>1, StoreIs
<1>3. Chunks(d)[k] \in ChunkOf(papers[d])
  BY <1>1, ChunksAre
<1> QED
  BY <1>2, <1>3 DEF ChunkOf

LEMMA NeighborsAreNearest == Published => NeighborsSurround
<1> SUFFICES ASSUME Published, index # None, NEW id \in DOMAIN index,
                    NEW n \in index[id].before \cup index[id].after, NEW p \in DOMAIN index,
                    p[1] = id[1], index[p].kind = "prose",
                    (n[2] < p[2] /\ p[2] < id[2]) \/ (id[2] < p[2] /\ p[2] < n[2])
             PROVE  p \in index[id].before \cup index[id].after
  BY DEF NeighborsSurround
<1> DEFINE d == id[1]
           k == id[2]
           m == p[2]
           j == n[2]
           chunks == Chunks(d)
           front == Ahead(chunks, k)
           rear == Behind(chunks, k)
<1>1. /\ d \in Doc /\ k \in DOMAIN chunks /\ id = <<d, k>>
      /\ m \in DOMAIN chunks /\ p = <<d, m>>
  BY StoreIs
<1>2. /\ index[id].before = {<<d, i>> : i \in chunks[k].before}
      /\ index[id].after = {<<d, i>> : i \in chunks[k].after}
      /\ chunks[m].kind = "prose"
  <2> HIDE DEF d, k, m
  <2> QED
    BY <1>1, StoreIs
<1>3. j \in chunks[k].before \cup chunks[k].after
  <2> HIDE DEF chunks
  <2> QED
    BY <1>2
<1>4. (j < m /\ m < k) \/ (k < m /\ m < j)
  OBVIOUS
<1> HIDE DEF d, k, m, j
<1>5. /\ chunks \in Seq(ChunkOf(papers[d])) /\ InReadingOrder(chunks) /\ Surrounded(chunks)
      /\ papers[d] \in Seq(Element)
  BY <1>1, ChunksAre
<1> HIDE DEF chunks
<1> DEFINE L == Len(chunks)
<1>6. L \in Nat /\ DOMAIN chunks = 1..L /\ IsFiniteSet(1..L)
  <2>1. L \in Nat /\ DOMAIN chunks = 1..L
    BY <1>5
  <2>2. 1 \in Int /\ L \in Int
    BY <2>1
  <2> QED
    BY <2>1, <2>2, FS_Interval
<1>7. \A i \in 1..L : Anchor(chunks[i]) \in Int
  <2> TAKE i \in 1..L
  <2>1. chunks[i] \in ChunkOf(papers[d])
    BY <1>5, <1>6
  <2>2. chunks[i].els \in SUBSET DOMAIN papers[d] /\ chunks[i].els # {}
    BY <2>1 DEF ChunkOf
  <2>3. chunks[i].els \subseteq Nat
    BY <1>5, <2>2, ElementsAre
  <2> QED
    BY <2>2, <2>3, MinIs DEF Anchor
<1>8. front \subseteq 1..L /\ rear \subseteq 1..L
  BY <1>6 DEF Ahead, Behind, ProseIn
<1>9. IsFiniteSet(front) /\ IsFiniteSet(rear)
  BY <1>6, <1>8, FS_Subset
<1>10. \A s \in front \cup rear : Anchor(chunks[s]) \in Int /\ s \in Int
  BY <1>7, <1>8
<1>11. /\ chunks[k].before \in {{}, LastOf(front, chunks)} /\ chunks[k].after \in {{}, FirstOf(rear, chunks)}
       /\ chunks[k].kind # "prose"
  BY <1>1, <1>3, <1>5 DEF Surrounded
<1>12. LastOf(front, chunks) \subseteq front /\ FirstOf(rear, chunks) \subseteq rear
  BY DEF LastOf, FirstOf
<1>13. k \in 1..L /\ m \in 1..L /\ k \in Int /\ m \in Int
  BY <1>1, <1>6
<1>14. ASSUME NEW a \in 1..L, NEW b \in 1..L, a < b, chunks[a].kind = "prose" \/ chunks[b].kind = "prose"
       PROVE  /\ chunks[a].kind = chunks[b].kind => Anchor(chunks[a]) <= Anchor(chunks[b])
              /\ chunks[a].kind # chunks[b].kind => Anchor(chunks[a]) < Anchor(chunks[b])
  <2>1. /\ chunks[a].kind = "prose" /\ chunks[b].kind = "prose" => Anchor(chunks[a]) <= Anchor(chunks[b])
        /\ (chunks[a].kind = "prose") # (chunks[b].kind = "prose") => Anchor(chunks[a]) < Anchor(chunks[b])
    BY <1>5, <1>6, <1>14 DEF InReadingOrder
  <2> QED
    BY <1>14, <2>1
<1>15. CASE j \in chunks[k].before
  <2>1. j \in LastOf(front, chunks) /\ chunks[k].before = LastOf(front, chunks)
    BY <1>11, <1>15
  <2>2. /\ j \in front /\ j \in 1..L /\ j \in Int /\ chunks[j].kind = "prose"
        /\ Anchor(chunks[j]) < Anchor(chunks[k])
    BY <1>8, <1>12, <2>1 DEF Ahead, ProseIn
  <2>3. ~(k < j)
    <3> SUFFICES ASSUME k < j PROVE FALSE
      OBVIOUS
    <3>1. Anchor(chunks[k]) < Anchor(chunks[j])
      BY <1>11, <1>13, <1>14, <2>2
    <3> QED
      BY <1>7, <1>13, <2>2, <3>1
  <2>4. j < m /\ m < k
    BY <1>4, <1>13, <2>2, <2>3
  <2>5. Anchor(chunks[m]) < Anchor(chunks[k])
    BY <1>2, <1>11, <1>13, <1>14, <2>4
  <2>6. m \in front
    BY <1>2, <1>6, <1>13, <2>5 DEF Ahead, ProseIn
  <2>7. Anchor(chunks[j]) <= Anchor(chunks[m])
    BY <1>2, <1>13, <1>14, <2>2, <2>4
  <2>8. Earlier(chunks, j, m)
    BY <1>7, <1>13, <2>2, <2>4, <2>7 DEF Earlier
  <2> HIDE DEF front
  <2>9. m \in LastOf(front, chunks)
    BY <1>9, <1>10, <2>1, <2>6, <2>8, LastOfIsClosed
  <2> QED
    BY <1>1, <1>2, <2>1, <2>9
<1>16. CASE j \in chunks[k].after
  <2>1. j \in FirstOf(rear, chunks) /\ chunks[k].after = FirstOf(rear, chunks)
    BY <1>11, <1>16
  <2>2. /\ j \in rear /\ j \in 1..L /\ j \in Int /\ chunks[j].kind = "prose"
        /\ Anchor(chunks[j]) > Anchor(chunks[k])
    BY <1>8, <1>12, <2>1 DEF Behind, ProseIn
  <2>3. ~(j < k)
    <3> SUFFICES ASSUME j < k PROVE FALSE
      OBVIOUS
    <3>1. Anchor(chunks[j]) < Anchor(chunks[k])
      BY <1>11, <1>13, <1>14, <2>2
    <3> QED
      BY <1>7, <1>13, <2>2, <3>1
  <2>4. k < m /\ m < j
    BY <1>4, <1>13, <2>2, <2>3
  <2>5. Anchor(chunks[k]) < Anchor(chunks[m])
    BY <1>2, <1>11, <1>13, <1>14, <2>4
  <2>6. m \in rear
    BY <1>2, <1>6, <1>7, <1>13, <2>5 DEF Behind, ProseIn
  <2>7. Anchor(chunks[m]) <= Anchor(chunks[j])
    BY <1>2, <1>13, <1>14, <2>2, <2>4
  <2>8. Earlier(chunks, m, j)
    BY <1>7, <1>13, <2>2, <2>4, <2>7 DEF Earlier
  <2> HIDE DEF rear
  <2>9. m \in FirstOf(rear, chunks)
    BY <1>9, <1>10, <2>1, <2>6, <2>8, FirstOfIsClosed
  <2> QED
    BY <1>1, <1>2, <2>1, <2>9
<1> QED
  BY <1>3, <1>15, <1>16

LEMMA PublishedHolds == Spec => []Published
<1>1. Init => Published
  BY LibraryConstants DEF Init, Published
<1> QED
  BY <1>1, PublishedStep, PTL DEF Spec

\* For any document: every word of its prose and tables that is to be embedded,
\* and is in a sentence or a row that fits a chunk by itself, is in a chunk of
\* the index, however runs are merged, split, overlapped, packed and truncated
\* (chunk_ordered_document).
THEOREM NoWordIsLost == Spec => []EveryWordIsIndexed
BY PublishedHolds, WordsAreIndexed, PTL

\* For any document: a chunk names all the pages of every element it is made
\* from, so a citation of what it quotes is right (merge_piece, _split_piece).
THEOREM CitationsNameThePages == Spec => []PagesCoverText
BY PublishedHolds, PagesAreCovered, PTL

\* For any document: no chunk of prose lies between a table or a figure and the
\* prose it is shown with but what is shown too (_bind_neighbors, and the order
\* merge_by_reading_order leaves its input in).
THEOREM NearestProseIsShown == Spec => []NeighborsSurround
BY PublishedHolds, NeighborsAreNearest, PTL

(***************************************************************************)
(* Retrieval: filters, tops and folds                                      *)
(***************************************************************************)
\* t is what is left of s when some of it is taken out.
LeftOf(t, s) ==
    \E pos \in [DOMAIN t -> DOMAIN s] :
        /\ \A m \in DOMAIN t : t[m] = s[pos[m]]
        /\ \A m, n \in DOMAIN t : m < n => pos[m] < pos[n]

LEMMA LeftOfLeft ==
  ASSUME NEW r, NEW s, NEW t, LeftOf(t, s), LeftOf(s, r), DOMAIN t \subseteq Int, DOMAIN s \subseteq Int,
         DOMAIN r \subseteq Int
  PROVE  LeftOf(t, r)
<1>1. PICK f \in [DOMAIN t -> DOMAIN s] : /\ \A m \in DOMAIN t : t[m] = s[f[m]]
                                          /\ \A m, n \in DOMAIN t : m < n => f[m] < f[n]
  BY DEF LeftOf
<1>2. PICK g \in [DOMAIN s -> DOMAIN r] : /\ \A m \in DOMAIN s : s[m] = r[g[m]]
                                          /\ \A m, n \in DOMAIN s : m < n => g[m] < g[n]
  BY DEF LeftOf
<1> DEFINE h == [m \in DOMAIN t |-> g[f[m]]]
<1>3. h \in [DOMAIN t -> DOMAIN r]
  BY <1>1, <1>2
<1>4. \A m \in DOMAIN t : t[m] = r[h[m]]
  BY <1>1, <1>2
<1>5. \A m, n \in DOMAIN t : m < n => h[m] < h[n]
  BY <1>1, <1>2
<1> HIDE DEF h
<1> QED
  BY <1>3, <1>4, <1>5 DEF LeftOf

LEMMA PlacesAre ==
  ASSUME NEW X, NEW s \in Seq(X), NEW at, at \subseteq 1..Len(s), NEW t, t = Places(s, at)
  PROVE  t \in Seq(X) /\ LeftOf(t, s) /\ Range(t) = {s[k] : k \in at}
<1>1. t \in Seq(X) /\ \E pos : Picks(t, pos, s, at)
  BY PlacesPick
<1>2. PICK pos : Picks(t, pos, s, at)
  BY <1>1
<1> DEFINE f == [m \in DOMAIN t |-> pos[m]]
<1>3. DOMAIN s = 1..Len(s)
  OBVIOUS
<1>4. f \in [DOMAIN t -> DOMAIN s]
  BY <1>2, <1>3 DEF Picks
<1>5. /\ \A m \in DOMAIN t : t[m] = s[f[m]]
      /\ \A m, n \in DOMAIN t : m < n => f[m] < f[n]
  BY <1>2 DEF Picks
<1> HIDE DEF f
<1>6. LeftOf(t, s)
  BY <1>4, <1>5 DEF LeftOf
<1>7. Range(t) = {s[k] : k \in at}
  <2>1. \A m \in DOMAIN t : t[m] \in {s[k] : k \in at}
    BY <1>2 DEF Picks
  <2>2. \A k \in at : \E m \in DOMAIN t : t[m] = s[k]
    BY <1>2 DEF Picks
  <2> QED
    BY <2>1, <2>2 DEF Range
<1> QED
  BY <1>1, <1>6, <1>7

LEMMA ContainsIs ==
  ASSUME NEW X, NEW s \in Seq(X), NEW x
  PROVE  Contains(s, x) <=> x \in Range(s)
<1>1. DOMAIN s = 1..Len(s)
  OBVIOUS
<1> QED
  BY <1>1 DEF Contains, Range

LEMMA WithoutIs ==
  ASSUME NEW X, NEW s \in Seq(X), NEW taken \in Seq(X), NEW t, t = Without(s, taken)
  PROVE  t \in Seq(X) /\ LeftOf(t, s) /\ Range(t) = Range(s) \ Range(taken)
<1> DEFINE at == {k \in DOMAIN s : ~Contains(taken, s[k])}
<1>1. t = Places(s, at)
  BY DEF Without, Only
<1>2. DOMAIN s = 1..Len(s) /\ at \subseteq 1..Len(s)
  OBVIOUS
<1>3. at = {k \in DOMAIN s : s[k] \notin Range(taken)}
  BY ContainsIs
<1> HIDE DEF at
<1>4. t \in Seq(X) /\ LeftOf(t, s) /\ Range(t) = {s[k] : k \in at}
  BY <1>1, <1>2, PlacesAre
<1>5. {s[k] : k \in at} = Range(s) \ Range(taken)
  BY <1>3 DEF Range
<1> QED
  BY <1>4, <1>5

LEMMA TakeIs ==
  ASSUME NEW X, NEW s \in Seq(X), NEW n \in Nat, NEW t, t = Take(s, n)
  PROVE  /\ t \in Seq(X) /\ LeftOf(t, s) /\ Range(t) \subseteq Range(s)
         /\ Len(t) = Smaller(n, Len(s)) /\ \A k \in DOMAIN t : k \in DOMAIN s /\ t[k] = s[k]
<1> DEFINE m == Smaller(n, Len(s))
<1>1. Len(s) \in Nat /\ m \in Nat /\ m <= Len(s) /\ DOMAIN s = 1..Len(s)
  BY DEF Smaller
<1>2. t = SubSeq(s, 1, m)
  BY DEF Take
<1> HIDE DEF m
<1>3. 1 \in Nat /\ 1 > 0 /\ 1 <= m + 1
  BY <1>1
<1>4. /\ SubSeq(s, 1, m) \in Seq(X) /\ Len(SubSeq(s, 1, m)) = m + 1 - 1
      /\ \A i \in 1..m : i - 1 + 1 \in 1..(m + 1 - 1) /\ SubSeq(s, 1, m)[i - 1 + 1] = s[i]
  BY <1>1, <1>3, SubSeqIs
<1>5. \A i \in 1..m : i - 1 + 1 = i
  OBVIOUS
<1>6. t \in Seq(X) /\ Len(t) = m /\ \A i \in 1..m : t[i] = s[i]
  BY <1>1, <1>2, <1>4, <1>5
<1>7. DOMAIN t = 1..m /\ \A i \in 1..m : i \in DOMAIN s
  BY <1>1, <1>6
<1> DEFINE f == [i \in DOMAIN t |-> i]
<1>8. f \in [DOMAIN t -> DOMAIN s]
  BY <1>7
<1>9. /\ \A i \in DOMAIN t : t[i] = s[f[i]]
      /\ \A i, j \in DOMAIN t : i < j => f[i] < f[j]
  BY <1>6, <1>7
<1> HIDE DEF f
<1>10. LeftOf(t, s)
  BY <1>8, <1>9 DEF LeftOf
<1>11. Range(t) \subseteq Range(s)
  BY <1>6, <1>7 DEF Range
<1> QED
  BY <1>6, <1>7, <1>10, <1>11 DEF m

\* A fold stays where its steps stay.
LEMMA FoldLeftIn ==
  ASSUME NEW N, NEW V, NEW base, NEW F, CanFoldLeft(N, V, base, F),
         NEW it, Unfolds(N, V, base, F, it)
  PROVE  it[1..N] \in V
<1>1. PICK run : IsRun(N, V, base, F, run) /\ run[N] = it[1..N]
  BY FoldLeftRuns
<1>2. N \in 0..N
  BY DEF CanFoldLeft
<1> QED
  BY <1>1, <1>2 DEF IsRun

Readable(at) == \A id \in DOMAIN at : Len(at[id].words) \in Nat

LEMMA LengthIs ==
  ASSUME NEW at, Readable(at), NEW ids \in Seq(DOMAIN at)
  PROVE  Length(ids, at) \in Nat
<1> DEFINE N == Len(ids)
           One(v, id) == v + 1 + Len(at[id].words)
           F == [p \in (1..N) \X Nat |-> One(p[2], ids[p[1]])]
           Add(S, v) == One(v, ids[Max(S)])
           Eq(it) == it = [S \in SUBSET DOMAIN ids |->
                              IF S = {} THEN 0 ELSE Add(S, it[S \ {Max(S)}])]
<1>1. DOMAIN ids = 1..N /\ N \in Nat /\ \A k \in 1..N : ids[k] \in DOMAIN at
  OBVIOUS
<1>2. \A S, v : Max(S) \in 1..N /\ v \in Nat => F[<<Max(S), v>>] = Add(S, v)
  OBVIOUS
<1>3. CanFoldLeft(N, Nat, 0, F)
  BY <1>1 DEF CanFoldLeft, Readable
<1>4. PICK it : IsFoldLeft(N, Nat, 0, F, it)
  <2> HIDE DEF N, F
  <2> QED
    BY <1>3, FoldLeftExists
<1>5. Eq(it)
  <2> HIDE DEF N, F, Add
  <2>1. \A S \in SUBSET (1..N) : S # {} => it[S] = Add(S, it[S \ {Max(S)}])
    BY <1>2, <1>4 DEF IsFoldLeft
  <2> QED
    BY <1>1, <1>4, <2>1 DEF IsFoldLeft
<1>6. PICK jt : Eq(jt) /\ Length(ids, at) = jt[DOMAIN ids]
  BY <1>5 DEF Length, FoldLeft, MapThenFoldSet
<1>7. Unfolds(N, Nat, 0, F, jt)
  <2> HIDE DEF N, F, Add
  <2>1. jt[{}] = 0 /\ \A S \in SUBSET (1..N) : S # {} => jt[S] = Add(S, jt[S \ {Max(S)}])
    BY <1>1, <1>6
  <2> HIDE DEF Eq
  <2> QED
    BY <1>2, <2>1 DEF Unfolds
<1> HIDE DEF N, F, Add, Eq
<1>8. jt[1..N] \in Nat
  BY <1>3, <1>7, FoldLeftIn
<1> QED
  BY <1>1, <1>6, <1>8

(***************************************************************************)
(* What the index is                                                       *)
(***************************************************************************)
LEMMA ImageIsFinite ==
  ASSUME NEW S, IsFiniteSet(S), NEW f, NEW T, T = {f[x] : x \in S}
  PROVE  IsFiniteSet(T)
<1> DEFINE g == [x \in S |-> f[x]]
<1>1. g \in [S -> T] /\ \A t \in T : \E x \in S : g[x] = t
  OBVIOUS
<1>2. g \in Surjection(S, T)
  BY <1>1 DEF Surjection
<1> QED
  BY <1>2, FS_Surjection

\* A chunk as the searches need it.
Stored(id) ==
    /\ id = <<id[1], id[2]>> /\ id[1] \in Int /\ id[2] \in Int /\ index[id].doc = id[1]
    /\ Len(index[id].words) \in Nat /\ Anchor(index[id]) \in Int /\ index[id].pack \in Int
    /\ index[id].kind # "prose" => index[id].els = {Anchor(index[id])}
    /\ \A n \in index[id].before \cup index[id].after : n \in DOMAIN index /\ n[1] = id[1]

StoredIndex == index # None => IsFiniteSet(DOMAIN index) /\ \A id \in DOMAIN index : Stored(id)

LEMMA IndexIsFinite ==
  ASSUME Published, index # None
  PROVE  IsFiniteSet(DOMAIN index)
<1> DEFINE Of(d) == {<<d, k>> : k \in DOMAIN Chunks(d)}
           f == [d \in Doc |-> Of(d)]
           T == {f[d] : d \in Doc}
<1>1. ASSUME NEW d \in Doc PROVE IsFiniteSet(Of(d))
  <2> DEFINE g == [k \in DOMAIN Chunks(d) |-> <<d, k>>]
             D == DOMAIN Chunks(d)
  <2>1. IsFiniteSet(D)
    <3>1. Chunks(d) \in Seq(ChunkOf(papers[d]))
      BY ChunksAre
    <3>2. Len(Chunks(d)) \in Int /\ D = 1..Len(Chunks(d)) /\ 1 \in Int
      BY <3>1
    <3> QED
      BY <3>2, FS_Interval
  <2>2. Of(d) = {g[k] : k \in D}
    OBVIOUS
  <2> HIDE DEF g, D
  <2> QED
    BY <2>1, <2>2, ImageIsFinite
<1>2. IsFiniteSet(T)
  <2> HIDE DEF f
  <2> QED
    BY LibraryConstants, ImageIsFinite
<1>3. \A S \in T : IsFiniteSet(S)
  BY <1>1
<1>4. IsFiniteSet(UNION T)
  <2> HIDE DEF T
  <2> QED
    BY <1>2, <1>3, FS_UNION
<1>5. DOMAIN index \in SUBSET UNION T
  <2>1. \A id \in DOMAIN index : id[1] \in Doc /\ id[2] \in DOMAIN Chunks(id[1]) /\ id = <<id[1], id[2]>>
    BY StoreIs
  <2>2. \A id \in DOMAIN index : id \in Of(id[1]) /\ f[id[1]] = Of(id[1]) /\ f[id[1]] \in T
    BY <2>1
  <2> QED
    BY <2>2
<1> QED
  BY <1>4, <1>5, FS_Subset

LEMMA IndexIsStored ==
  ASSUME Published
  PROVE  StoredIndex
<1> SUFFICES ASSUME index # None, NEW id \in DOMAIN index PROVE Stored(id)
  BY IndexIsFinite DEF StoredIndex
<1> DEFINE d == id[1]
           k == id[2]
           chunks == Chunks(d)
           c == chunks[k]
<1>1. d \in Doc /\ k \in DOMAIN chunks /\ id = <<d, k>>
  BY StoreIs
<1> HIDE DEF d, k
<1>2. /\ index[id].doc = d /\ index[id].kind = c.kind /\ index[id].els = c.els
      /\ index[id].words = c.words /\ index[id].pack = c.pack
      /\ index[id].before = {<<d, j>> : j \in c.before} /\ index[id].after = {<<d, j>> : j \in c.after}
  BY <1>1, StoreIs
<1>3. /\ chunks \in Seq(ChunkOf(papers[d])) /\ Surrounded(chunks) /\ OfOneElement(c, papers[d])
      /\ papers[d] \in Seq(Element)
  BY <1>1, ChunksAre
<1> HIDE DEF chunks
<1>4. c \in ChunkOf(papers[d]) /\ k \in Int
  BY <1>1, <1>3
<1>5. d \in Int
  BY <1>1, LibraryConstants
<1>6. Len(c.words) \in Nat /\ c.pack \in Int
  BY <1>4 DEF ChunkOf
<1>7. Anchor(c) \in Int
  <2>1. c.els \in SUBSET DOMAIN papers[d] /\ c.els # {}
    BY <1>4 DEF ChunkOf
  <2>2. c.els \subseteq Nat
    BY <1>3, <2>1, ElementsAre
  <2> QED
    BY <2>1, <2>2, MinIs DEF Anchor
<1>8. Anchor(index[id]) = Anchor(c)
  BY <1>2 DEF Anchor
<1>9. c.kind # "prose" => c.els = {Anchor(c)}
  BY <1>3 DEF OfOneElement
<1>10. c.before \subseteq DOMAIN chunks /\ c.after \subseteq DOMAIN chunks
  <2>1. LastOf(Ahead(chunks, k), chunks) \subseteq DOMAIN chunks
    BY DEF LastOf, Ahead, ProseIn
  <2>2. FirstOf(Behind(chunks, k), chunks) \subseteq DOMAIN chunks
    BY DEF FirstOf, Behind, ProseIn
  <2> QED
    BY <1>1, <1>3, <2>1, <2>2 DEF Surrounded
<1>11. \A j \in DOMAIN chunks : <<d, j>> \in DOMAIN index /\ <<d, j>>[1] = d
  BY <1>1, StoreIs DEF chunks
<1>12. ASSUME NEW n \in index[id].before \cup index[id].after PROVE n \in DOMAIN index /\ n[1] = d
  <2>1. PICK j \in c.before \cup c.after : n = <<d, j>>
    <3> HIDE DEF c
    <3> QED
      BY <1>2
  <2>2. j \in DOMAIN chunks
    BY <1>10, <2>1
  <2> QED
    BY <1>11, <2>1, <2>2
<1>13. id[1] = d /\ id[2] = k
  BY DEF d, k
<1> HIDE DEF c
<1> QED
  BY <1>1, <1>2, <1>4, <1>5, <1>6, <1>7, <1>8, <1>9, <1>12, <1>13 DEF Stored

\* An order by three numbers of each element that tell them apart.
ByNumbers(R, S, f, g, h) ==
    /\ \A x \in S : f[x] \in Int /\ g[x] \in Int /\ h[x] \in Int
    /\ \A x, y \in S : f[x] = f[y] /\ g[x] = g[y] /\ h[x] = h[y] => x = y
    /\ \A x, y \in S : R[<<x, y>>] <=> \/ f[x] < f[y]
                                       \/ f[x] = f[y] /\ g[x] < g[y]
                                       \/ f[x] = f[y] /\ g[x] = g[y] /\ h[x] < h[y]

LEMMA ByThree ==
  ASSUME NEW R, NEW S, NEW f, NEW g, NEW h, ByNumbers(R, S, f, g, h)
  PROVE  IsOrder(R, S)
<1> USE DEF ByNumbers
<1>1. \A x \in S : ~R[<<x, x>>]
  OBVIOUS
<1>2. \A x, y \in S : x # y => R[<<x, y>>] \/ R[<<y, x>>]
  OBVIOUS
<1>3. \A x, y, z \in S : R[<<x, y>>] /\ R[<<y, z>>] => R[<<x, z>>]
  OBVIOUS
<1> QED
  BY <1>1, <1>2, <1>3 DEF IsOrder

\* A page is read in order, and every row of it is a chunk of the index.
LEMMA PageRowsAre ==
  ASSUME StoredIndex, index # None, NEW d, NEW page
  PROVE  PageRows(d, page) \in Seq(DOMAIN index)
<1> DEFINE Key(id) == IF index[id].kind = "prose" \/ Anchor(index[id]) = 1 THEN 1000
                      ELSE Anchor(index[id])
           Pack0(id) == IF index[id].pack = 0 THEN -1 ELSE index[id].pack
           Less(a, b) == \/ Key(a) < Key(b)
                         \/ Key(a) = Key(b) /\ Pack0(a) < Pack0(b)
                         \/ Key(a) = Key(b) /\ Pack0(a) = Pack0(b) /\ a[2] < b[2]
           S == {id \in DOMAIN index : index[id].doc = d /\ page \in index[id].pages}
           R == [p \in S \X S |-> Less(p[1], p[2])]
           f == [id \in S |-> Key(id)]
           g == [id \in S |-> Pack0(id)]
           h == [id \in S |-> id[2]]
<1>1. PageRows(d, page) = InOrder(S, R)
  BY DEF PageRows, Sorted
<1>2. \A id \in S : Stored(id) /\ index[id].doc = d
  BY DEF StoredIndex
<1>3. \A id \in S : f[id] \in Int /\ g[id] \in Int /\ h[id] \in Int
  BY <1>2 DEF Stored
<1>4. \A x, y \in S : h[x] = h[y] => x = y
  BY <1>2 DEF Stored
<1>5. \A x, y \in S : R[<<x, y>>] <=> \/ f[x] < f[y]
                                      \/ f[x] = f[y] /\ g[x] < g[y]
                                      \/ f[x] = f[y] /\ g[x] = g[y] /\ h[x] < h[y]
  <2> HIDE DEF Key, Pack0
  <2> QED
    OBVIOUS
<1>6. IsFiniteSet(S) /\ S \subseteq DOMAIN index
  BY FS_Subset DEF StoredIndex
<1> HIDE DEF R, f, g, h, S
<1>7. IsOrder(R, S)
  <2>1. \A x, y \in S : f[x] = f[y] /\ g[x] = g[y] /\ h[x] = h[y] => x = y
    BY <1>4
  <2>2. ByNumbers(R, S, f, g, h)
    BY <1>3, <1>5, <2>1 DEF ByNumbers
  <2> QED
    BY <2>2, ByThree
<1>8. InOrder(S, R) \in Seq(S)
  BY <1>6, <1>7, InOrderLists
<1> QED
  BY <1>1, <1>6, <1>8

(***************************************************************************)
(* Reads                                                                   *)
(***************************************************************************)
\* What has been read of a text that is not longer than the adapter hands over.
WalksOn(t) ==
    t.whole = t.text =>
        /\ t.whole \in Nat /\ t.hint \in 0..t.whole
        /\ t.got = 1..(IF t.hint = 0 THEN t.whole ELSE t.hint)

ReadInv == tool # None /\ tool.name = "read" => WalksOn(tool)

LEMMA WindowWalksOn ==
  ASSUME NEW rows, NEW whole, NEW text, NEW offset, NEW got,
         whole = text => whole \in Nat /\ offset \in 0..whole /\ got = 1..offset,
         NEW t, t = ReadWindow(rows, whole, text, offset, got)
  PROVE  t.name = "read" /\ WalksOn(t)
<1>1. t.name = "read" /\ t.whole = whole /\ t.text = text
  BY DEF ReadWindow
<1>2. ASSUME whole = text PROVE WalksOn(t)
  <2>1. t = ReadWindow(rows, whole, whole, offset, 1..offset) /\ whole \in Nat /\ offset \in 0..whole
    BY <1>2
  <2>2. /\ t.got = 1..(IF t.hint = 0 THEN whole ELSE t.hint)
        /\ t.hint = 0 \/ (offset < t.hint /\ t.hint < whole)
    BY <2>1, WindowsJoin
  <2>3. t.hint \in Int
    <3> DEFINE budget == IF IsTable(index[rows[1]]) THEN ReadTable ELSE ReadText
               given == Larger(0, Smaller(budget, whole - offset))
               left == Larger(0, whole - offset - given)
    <3>1. budget \in Nat
      BY LibraryConstants
    <3>2. given \in Int /\ left \in Int
      BY <2>1, <3>1 DEF Larger, Smaller
    <3>3. t.hint = IF whole - whole > left THEN whole ELSE NextHint(whole, offset, given)
      BY <2>1 DEF ReadWindow
    <3> HIDE DEF given, left
    <3> QED
      BY <2>1, <3>2, <3>3 DEF NextHint
  <2>4. t.hint \in 0..whole
    BY <2>1, <2>2, <2>3
  <2> QED
    BY <1>1, <2>1, <2>2, <2>4 DEF WalksOn
<1> QED
  BY <1>1, <1>2 DEF WalksOn

LEMMA ReadStep == Published /\ ScopeInv /\ ReadInv /\ [Next]_vars => ReadInv'
<1> SUFFICES ASSUME Published, ScopeInv, ReadInv, [Next]_vars PROVE ReadInv'
  OBVIOUS
<1>1. index # None => Readable(index)
  BY IndexIsStored DEF StoredIndex, Stored, Readable
<1>2. ASSUME NEW rows, NEW whole, NEW text, NEW offset, NEW got,
             whole = text => whole \in Nat /\ offset \in 0..whole /\ got = 1..offset,
             tool' = ReadWindow(rows, whole, text, offset, got)
      PROVE  ReadInv'
  BY <1>2, WindowWalksOn DEF ReadInv, WalksOn
<1>3. ASSUME NEW id, ReadChunk(id) PROVE ReadInv'
  <2>1. index # None /\ <<id>> \in Seq(DOMAIN index)
    BY <1>3 DEF ReadChunk
  <2>2. Length(<<id>>, index) \in Nat
    BY <1>1, <2>1, LengthIs
  <2> DEFINE n == Length(<<id>>, index)
  <2>3. n \in Nat /\ 0 \in 0..n /\ {} = 1..0 /\ tool' = ReadWindow(<<id>>, n, n, 0, {})
    BY <1>3, <2>2 DEF ReadChunk
  <2> HIDE DEF n
  <2> QED
    BY <1>2, <2>3
<1>4. ASSUME NEW d, NEW page, ReadPage(d, page) PROVE ReadInv'
  <2> DEFINE rows == PageRows(d, page)
             whole == Length(rows, index)
  <2>1. index # None /\ rows \in Seq(DOMAIN index)
    BY <1>4, IndexIsStored, PageRowsAre DEF ReadPage
  <2>2. whole \in Nat
    BY <1>1, <2>1, LengthIs
  <2>3. tool' = ReadWindow(rows, whole, Smaller(whole, PageChars), 0, {})
    BY <1>4 DEF ReadPage
  <2> HIDE DEF whole
  <2>4. 0 \in 0..whole /\ {} = 1..0
    BY <2>2
  <2> QED
    BY <1>2, <2>2, <2>3, <2>4
<1>5. CASE ReadOn
  <2>1. tool # None /\ tool.name = "read" /\ tool.hint # 0
        /\ tool' = ReadWindow(tool.rows, tool.whole, tool.text, tool.hint, tool.got)
    BY <1>5 DEF ReadOn
  <2>2. WalksOn(tool)
    BY <2>1 DEF ReadInv
  <2> QED
    BY <1>2, <2>1, <2>2 DEF WalksOn
<1>6. CASE tool' = None \/ tool'.name = "search" \/ UNCHANGED tool
  BY <1>6 DEF ReadInv, WalksOn
<1>7. CASE ReadMembers \/ ReadDisabled \/ ReadDisabledFirst \/ ReadRecords
  <2>1. tool \in ScopeRecord
    BY <1>7 DEF ScopeInv, Resolving, Searching, ReadMembers, ReadDisabled, ReadDisabledFirst, ReadRecords
  <2>2. ASSUME NEW docs, tool' = Scoped(docs) PROVE tool' = None \/ tool'.name = "search"
    BY <2>1, <2>2 DEF Scoped, ScopeRecord
  <2>3. CASE ReadMembers \/ ReadDisabledFirst
    BY <1>6, <2>1, <2>3 DEF ReadMembers, ReadDisabledFirst, ScopeRecord
  <2>4. CASE ReadDisabled \/ ReadRecords
    BY <1>6, <2>2, <2>4 DEF ReadDisabled, ReadRecords
  <2> QED
    BY <1>7, <2>3, <2>4
<1>8. ASSUME NEW d, Switch(d) \/ Delete(d) PROVE ReadInv'
  <2>1. tool \in ScopeRecord
    BY <1>8 DEF ScopeInv, Resolving, Switch, Delete
  <2>2. tool' = [tool EXCEPT !.off = @ \ {d}]
    BY <1>8 DEF Switch, Delete
  <2> QED
    BY <1>6, <2>1, <2>2 DEF ScopeRecord
<1>9. ASSUME NEW texts, NEW where, Recall(texts, where) PROVE ReadInv'
  <2>1. tool'.name = "search"
    BY <1>9 DEF Recall
  <2> QED
    BY <1>6, <2>1
<1>10. ASSUME NEW wants, Rank(wants) PROVE ReadInv'
  <2>1. tool'.name = "search"
    BY <1>10 DEF Rank
  <2> QED
    BY <1>6, <2>1
<1>11. CASE Publish \/ (\E bound : Search(bound)) \/ KnowledgeBaseEmpty \/ Answered \/ EndRead \/ UNCHANGED vars
  BY <1>6, <1>11 DEF Publish, Search, KnowledgeBaseEmpty, Answered, EndRead, vars
<1> QED
  BY <1>3, <1>4, <1>5, <1>7, <1>8, <1>9, <1>10, <1>11 DEF Next

\* For texts and budgets of any length: the windows a read is led through by its
\* hints leave nothing out and end at the end (_read, next_offset).
THEOREM ReadsMissNothing == Spec => []ReadsWalkOn
<1>1. Init => ReadInv
  BY DEF Init, ReadInv
<1>2. ReadInv => ReadsWalkOn
  BY DEF ReadInv, WalksOn, ReadsWalkOn
<1> QED
  BY <1>1, <1>2, PublishedHolds, ScopeHolds, ReadStep, PTL DEF Spec


(***************************************************************************)
(* Recall                                                                  *)
(***************************************************************************)
LEMMA WindowIs == Window \in Nat /\ PoolSize \in Nat \ {0}
<1>1. /\ CandidateK \in Nat \ {0} /\ FinalK \in Nat \ {0} /\ WindowFactor \in Nat /\ MaxWindow \in Nat
  BY RetrievalConstants
<1>2. Larger(CandidateK, FinalK) \in Nat \ {0}
  BY <1>1 DEF Larger
<1>3. Larger(CandidateK, FinalK) * WindowFactor \in Nat
  BY <1>1, <1>2
<1> QED
  BY <1>1, <1>2, <1>3 DEF Window, PoolSize, Smaller

\* What one text finds among the chunks "there".
ChannelOf(c, there) ==
    c.ids \in Seq(there) /\ Len(c.ids) <= Window /\ c.score \in [there -> Int]

LEMMA ChannelIs ==
  ASSUME StoredIndex, index # None, NEW there \in SUBSET DOMAIN index, NEW score \in [there -> Int]
  PROVE  ChannelOf(Channel(score), there)
<1> DEFINE Closer(a, b) == score[a] > score[b] \/ (score[a] = score[b] /\ Precedes(a, b))
           R == [p \in there \X there |-> Closer(p[1], p[2])]
           f == [id \in there |-> 0 - score[id]]
           g == [id \in there |-> id[1]]
           h == [id \in there |-> id[2]]
<1>1. DOMAIN score = there /\ IsFiniteSet(there)
  BY FS_Subset DEF StoredIndex
<1>2. Channel(score) = [ids |-> Take(InOrder(there, R), Window), score |-> score]
  <2>1. Sorted(DOMAIN score, Closer) = InOrder(there, R)
    BY <1>1 DEF Sorted
  <2> QED
    BY <1>1 DEF Channel, Sorted
<1>3. ByNumbers(R, there, f, g, h)
  <2>1. \A x \in there : Stored(x)
    BY DEF StoredIndex
  <2>2. \A x \in there : f[x] \in Int /\ g[x] \in Int /\ h[x] \in Int
    BY <2>1 DEF Stored
  <2>3. \A x, y \in there : f[x] = f[y] /\ g[x] = g[y] /\ h[x] = h[y] => x = y
    BY <2>1 DEF Stored
  <2>4. ASSUME NEW x \in there, NEW y \in there
        PROVE  R[<<x, y>>] <=> \/ f[x] < f[y]
                               \/ f[x] = f[y] /\ g[x] < g[y]
                               \/ f[x] = f[y] /\ g[x] = g[y] /\ h[x] < h[y]
    <3>1. R[<<x, y>>] <=> Closer(x, y)
      OBVIOUS
    <3>2. score[x] \in Int /\ score[y] \in Int
      OBVIOUS
    <3>3. f[x] = 0 - score[x] /\ f[y] = 0 - score[y] /\ g[x] = x[1] /\ g[y] = y[1] /\ h[x] = x[2] /\ h[y] = y[2]
      OBVIOUS
    <3> HIDE DEF R, f, g, h
    <3> QED
      BY <3>1, <3>2, <3>3 DEF Precedes
  <2> HIDE DEF R, f, g, h
  <2> QED
    BY <2>2, <2>3, <2>4 DEF ByNumbers
<1> HIDE DEF R, f, g, h
<1>4. InOrder(there, R) \in Seq(there)
  BY <1>1, <1>3, ByThree, InOrderLists
<1> DEFINE t == Take(InOrder(there, R), Window)
<1>5. t \in Seq(there) /\ Len(t) = Smaller(Window, Len(InOrder(there, R)))
  BY <1>4, WindowIs, TakeIs
<1>6. Len(InOrder(there, R)) \in Nat
  BY <1>4
<1> HIDE DEF t
<1>7. Channel(score).ids = t /\ Channel(score).score = score
  BY <1>2 DEF t
<1> QED
  BY <1>5, <1>6, <1>7, WindowIs DEF ChannelOf, Smaller

LEMMA VoteIs ==
  ASSUME NEW rank \in 1..Window
  PROVE  Vote[rank] \in Nat
<1> DEFINE N == Window
           s == [r \in 1..Window |-> r]
           One(v, r) == IF r = rank THEN v ELSE v * (RrfK + r)
           F == [p \in (1..N) \X Nat |-> One(p[2], s[p[1]])]
           Add(S, v) == One(v, s[Max(S)])
           Eq(it) == it = [S \in SUBSET DOMAIN s |->
                              IF S = {} THEN 1 ELSE Add(S, it[S \ {Max(S)}])]
<1>1. DOMAIN s = 1..N /\ N \in Nat /\ RrfK \in Nat
  BY WindowIs, RetrievalConstants
<1>2. \A S, v : Max(S) \in 1..N /\ v \in Nat => F[<<Max(S), v>>] = Add(S, v)
  OBVIOUS
<1>3. CanFoldLeft(N, Nat, 1, F)
  <2>1. \A k \in 1..N : \A v \in Nat : F[<<k, v>>] = One(v, k)
    OBVIOUS
  <2>2. \A k \in 1..N : \A v \in Nat : One(v, k) \in Nat
    <3>1. \A k \in 1..N : \A v \in Nat : v * (RrfK + k) \in Nat
      BY <1>1
    <3> QED
      BY <3>1
  <2> HIDE DEF F, One, N
  <2> QED
    BY <1>1, <2>1, <2>2 DEF CanFoldLeft
<1>4. PICK it : IsFoldLeft(N, Nat, 1, F, it)
  <2> HIDE DEF N, F
  <2> QED
    BY <1>3, FoldLeftExists
<1>5. Eq(it)
  <2> HIDE DEF N, F, Add, s
  <2>1. \A S \in SUBSET (1..N) : S # {} => it[S] = Add(S, it[S \ {Max(S)}])
    BY <1>2, <1>4 DEF IsFoldLeft
  <2> QED
    BY <1>1, <1>4, <2>1 DEF IsFoldLeft
<1>6. PICK jt : Eq(jt) /\ Vote[rank] = jt[DOMAIN s]
  <2> DEFINE W(r1) == FoldLeft(LAMBDA product, r : IF r = r1 THEN product ELSE product * (RrfK + r), 1,
                               [r \in 1..Window |-> r])
  <2>1. Vote = [r1 \in 1..Window |-> W(r1)]
    BY DEF Vote
  <2>2. W(rank) = (CHOOSE jt : Eq(jt))[DOMAIN s]
    BY Zenon DEF FoldLeft, MapThenFoldSet
  <2> HIDE DEF W, Eq
  <2>3. Eq(CHOOSE jt : Eq(jt))
    BY <1>5
  <2> QED
    BY <2>1, <2>2, <2>3
<1>7. Unfolds(N, Nat, 1, F, jt)
  <2> HIDE DEF N, F, Add, s
  <2>1. jt[{}] = 1 /\ \A S \in SUBSET (1..N) : S # {} => jt[S] = Add(S, jt[S \ {Max(S)}])
    BY <1>1, <1>6
  <2> HIDE DEF Eq
  <2> QED
    BY <1>2, <2>1 DEF Unfolds
<1> HIDE DEF N, F, Add, Eq, s
<1>8. jt[1..N] \in Nat
  BY <1>3, <1>7, FoldLeftIn
<1> QED
  BY <1>1, <1>6, <1>8

\* What the texts find.
ChannelsOf(channels, there) ==
    /\ IsFiniteSet(there) /\ DOMAIN channels = 1..Len(channels) /\ Len(channels) \in Nat
    /\ \A q \in DOMAIN channels : ChannelOf(channels[q], there)

Voted(v, c, id) ==
    v + IF Contains(c.ids, id) THEN Vote[CHOOSE r \in DOMAIN c.ids : c.ids[r] = id] ELSE 0

LEMMA VotesAre ==
  ASSUME NEW there, NEW channels, ChannelsOf(channels, there), NEW id
  PROVE  Votes(channels, id) \in Nat
<1> DEFINE N == Len(channels)
           One(v, c) == Voted(v, c, id)
           F == [p \in (1..N) \X Nat |-> One(p[2], channels[p[1]])]
           Add(S, v) == One(v, channels[Max(S)])
           Eq(it) == it = [S \in SUBSET DOMAIN channels |->
                              IF S = {} THEN 0 ELSE Add(S, it[S \ {Max(S)}])]
<1>1. DOMAIN channels = 1..N /\ N \in Nat
  BY DEF ChannelsOf
<1>2. \A S, v : Max(S) \in 1..N /\ v \in Nat => F[<<Max(S), v>>] = Add(S, v)
  OBVIOUS
<1>3. CanFoldLeft(N, Nat, 0, F)
  <2>1. \A k \in 1..N : \A v \in Nat : F[<<k, v>>] = One(v, channels[k])
    OBVIOUS
  <2>2. ASSUME NEW k \in 1..N, NEW v \in Nat PROVE One(v, channels[k]) \in Nat
    <3> DEFINE c == channels[k]
               r == CHOOSE r \in DOMAIN c.ids : c.ids[r] = id
    <3>1. ChannelOf(c, there)
      BY <1>1 DEF ChannelsOf
    <3> HIDE DEF c
    <3>2. c.ids \in Seq(there) /\ Len(c.ids) <= Window /\ DOMAIN c.ids = 1..Len(c.ids) /\ Len(c.ids) \in Nat
      BY <3>1 DEF ChannelOf
    <3>3. CASE Contains(c.ids, id)
      <4>1. \E x \in DOMAIN c.ids : c.ids[x] = id
        BY <3>2, <3>3 DEF Contains
      <4>2. r \in DOMAIN c.ids
        BY <4>1
      <4>3. r \in 1..Window
        BY <3>2, <4>2, WindowIs
      <4> HIDE DEF r
      <4>4. Vote[r] \in Nat
        BY <4>3, VoteIs
      <4>5. One(v, c) = v + Vote[r]
        BY <3>3 DEF r, Voted
      <4> HIDE DEF One
      <4> QED
        BY <4>4, <4>5 DEF c
    <3>4. CASE ~Contains(c.ids, id)
      BY <3>4 DEF c, Voted
    <3> QED
      BY <3>3, <3>4
  <2> HIDE DEF F, One, N
  <2> QED
    BY <1>1, <2>1, <2>2 DEF CanFoldLeft
<1>4. PICK it : IsFoldLeft(N, Nat, 0, F, it)
  <2> HIDE DEF N, F
  <2> QED
    BY <1>3, FoldLeftExists
<1>5. Eq(it)
  <2> HIDE DEF N, F, Add
  <2>1. \A S \in SUBSET (1..N) : S # {} => it[S] = Add(S, it[S \ {Max(S)}])
    BY <1>2, <1>4 DEF IsFoldLeft
  <2> QED
    BY <1>1, <1>4, <2>1 DEF IsFoldLeft
<1>6. PICK jt : Eq(jt) /\ Votes(channels, id) = jt[DOMAIN channels]
  BY <1>5 DEF Votes, Voted, FoldLeft, MapThenFoldSet
<1>7. Unfolds(N, Nat, 0, F, jt)
  <2> HIDE DEF N, F, Add
  <2>1. jt[{}] = 0 /\ \A S \in SUBSET (1..N) : S # {} => jt[S] = Add(S, jt[S \ {Max(S)}])
    BY <1>1, <1>6
  <2> HIDE DEF Eq
  <2> QED
    BY <1>2, <2>1 DEF Unfolds
<1> HIDE DEF N, F, Add, Eq
<1>8. jt[1..N] \in Nat
  BY <1>3, <1>7, FoldLeftIn
<1> QED
  BY <1>1, <1>6, <1>8

LEMMA FoundIs ==
  ASSUME NEW there, NEW channels, ChannelsOf(channels, there)
  PROVE  /\ Found(channels) \subseteq there /\ Found(channels) = UNION {Range(channels[q].ids) : q \in 1..Len(channels)}
         /\ \A q \in DOMAIN channels : channels[q].ids \in Seq(Found(channels))
         /\ \A id \in Found(channels) : \E q \in DOMAIN channels : Contains(channels[q].ids, id)
<1>1. \A q \in DOMAIN channels : /\ channels[q].ids \in Seq(there)
                                 /\ DOMAIN channels[q].ids = 1..Len(channels[q].ids)
  BY DEF ChannelsOf, ChannelOf
<1>2. \A q \in DOMAIN channels : Range(channels[q].ids) \subseteq there
  BY <1>1 DEF Range
<1>3. \A q \in DOMAIN channels : \A k \in DOMAIN channels[q].ids : channels[q].ids[k] \in Found(channels)
  BY DEF Found, Range
<1>4. ASSUME NEW q \in DOMAIN channels PROVE channels[q].ids \in Seq(Found(channels))
  <2> DEFINE c == channels[q].ids
  <2>1. c \in Seq(there) /\ \A k \in 1..Len(c) : c[k] \in Found(channels)
    BY <1>1, <1>3
  <2> HIDE DEF c
  <2>2. c \in Seq(Found(channels))
    BY <2>1
  <2> QED
    BY <2>2 DEF c
<1>5. \A id \in Found(channels) : \E q \in DOMAIN channels : id \in Range(channels[q].ids)
  BY DEF Found
<1>6. \A q \in DOMAIN channels : \A id : id \in Range(channels[q].ids) => Contains(channels[q].ids, id)
  BY <1>1, ContainsIs
<1> QED
  BY <1>2, <1>4, <1>5, <1>6 DEF Found, ChannelsOf

\* Reading the channels one after another, and leaving out what was seen.
SeenOf(channels) == FoldLeft(LAMBDA s, c : s \o Without(c.ids, s), <<>>, channels)
SeenOne(s, c) == s \o Without(c.ids, s)

LEMMA SeenIs ==
  ASSUME NEW there, NEW channels, ChannelsOf(channels, there)
  PROVE  SeenOf(channels) \in Seq(Found(channels))
<1> DEFINE N == Len(channels)
           V == Seq(Found(channels))
           F == [p \in (1..N) \X V |-> SeenOne(p[2], channels[p[1]])]
           Add(S, v) == SeenOne(v, channels[Max(S)])
           Eq(it) == it = [S \in SUBSET DOMAIN channels |->
                              IF S = {} THEN <<>> ELSE Add(S, it[S \ {Max(S)}])]
<1>1. DOMAIN channels = 1..N /\ N \in Nat
  BY DEF ChannelsOf
<1>2. \A S, v : Max(S) \in 1..N /\ v \in V => F[<<Max(S), v>>] = Add(S, v)
  <2> HIDE DEF V
  <2> QED
    OBVIOUS
<1>3. CanFoldLeft(N, V, <<>>, F)
  <2>1. \A k \in 1..N : \A v \in V : F[<<k, v>>] = SeenOne(v, channels[k])
    <3> HIDE DEF V
    <3> QED
      OBVIOUS
  <2>2. ASSUME NEW k \in 1..N, NEW v \in V PROVE SeenOne(v, channels[k]) \in V
    <3> DEFINE t == Without(channels[k].ids, v)
    <3>1. channels[k].ids \in V
      BY <1>1, FoundIs
    <3>2. t \in V
      BY <3>1, WithoutIs
    <3> HIDE DEF t
    <3>3. v \o t \in V
      BY <3>2
    <3> QED
      BY <3>3 DEF SeenOne, t
  <2>3. <<>> \in V
    OBVIOUS
  <2> HIDE DEF F, N, V
  <2> QED
    BY <1>1, <2>1, <2>2, <2>3 DEF CanFoldLeft
<1>4. PICK it : IsFoldLeft(N, V, <<>>, F, it)
  <2> HIDE DEF N, F, V
  <2> QED
    BY <1>3, FoldLeftExists
<1>5. Eq(it)
  <2> HIDE DEF N, F, Add, V
  <2>1. \A S \in SUBSET (1..N) : S # {} => it[S] = Add(S, it[S \ {Max(S)}])
    BY <1>2, <1>4 DEF IsFoldLeft
  <2> QED
    BY <1>1, <1>4, <2>1 DEF IsFoldLeft
<1>6. PICK jt : Eq(jt) /\ SeenOf(channels) = jt[DOMAIN channels]
  BY <1>5 DEF SeenOf, SeenOne, FoldLeft, MapThenFoldSet
<1>7. Unfolds(N, V, <<>>, F, jt)
  <2> HIDE DEF N, F, Add, V
  <2>1. jt[{}] = <<>> /\ \A S \in SUBSET (1..N) : S # {} => jt[S] = Add(S, jt[S \ {Max(S)}])
    BY <1>1, <1>6
  <2> HIDE DEF Eq
  <2> QED
    BY <1>2, <2>1 DEF Unfolds
<1> HIDE DEF N, F, Add, Eq, V
<1>8. jt[1..N] \in V
  BY <1>3, <1>7, FoldLeftIn
<1> QED
  BY <1>1, <1>6, <1>8 DEF V

LEMMA FuseIs ==
  ASSUME NEW there, NEW channels, ChannelsOf(channels, there)
  PROVE  Fuse(channels) \in Seq(Found(channels))
<1> DEFINE X == Found(channels)
           seen == SeenOf(channels)
           D == DOMAIN seen
           ranked == [k \in D |-> <<Votes(channels, seen[k]), k>>]
           S == {ranked[k] : k \in D}
           R == [p \in S \X S |-> p[1][1] > p[2][1] \/ (p[1][1] = p[2][1] /\ p[1][2] < p[2][2])]
           order == InOrder(S, R)
           f == [a \in S |-> 0 - a[1]]
           g == [a \in S |-> a[2]]
<1>1. Fuse(channels) = [k \in DOMAIN order |-> seen[order[k][2]]]
  <2>1. S = {<<Votes(channels, seen[k]), k>> : k \in DOMAIN seen}
    OBVIOUS
  <2> QED
    BY <2>1 DEF Fuse, SeenOf, Sorted
<1>2. seen \in Seq(X) /\ D = 1..Len(seen) /\ Len(seen) \in Nat
  BY SeenIs
<1>3. IsFiniteSet(S)
  <2>1. Len(seen) \in Int /\ 1 \in Int
    BY <1>2
  <2>2. IsFiniteSet(D)
    BY <1>2, <2>1, FS_Interval
  <2> HIDE DEF ranked, D
  <2> QED
    BY <2>2, ImageIsFinite
<1>4. \A a \in S : a = <<a[1], a[2]>> /\ a[1] \in Nat /\ a[2] \in Int /\ a[2] \in D
  <2>1. \A k \in D : Votes(channels, seen[k]) \in Nat /\ k \in Int
    BY <1>2, VotesAre
  <2> QED
    BY <2>1
<1>5. ByNumbers(R, S, f, g, g)
  <2>1. ASSUME NEW x \in S, NEW y \in S
        PROVE  R[<<x, y>>] <=> (x[1] > y[1] \/ (x[1] = y[1] /\ x[2] < y[2]))
    <3> HIDE DEF S
    <3> QED
      OBVIOUS
  <2>2. \A a \in S : f[a] = 0 - a[1] /\ g[a] = a[2]
    OBVIOUS
  <2> HIDE DEF R, f, g, S
  <2>3. ASSUME NEW x \in S, NEW y \in S
        PROVE  R[<<x, y>>] <=> \/ f[x] < f[y]
                               \/ f[x] = f[y] /\ g[x] < g[y]
                               \/ f[x] = f[y] /\ g[x] = g[y] /\ g[x] < g[y]
    BY <1>4, <2>1, <2>2
  <2>4. \A x \in S : f[x] \in Int /\ g[x] \in Int
    BY <1>4, <2>2
  <2>5. \A x, y \in S : f[x] = f[y] /\ g[x] = g[y] => x = y
    BY <1>4, <2>2
  <2> QED
    BY <2>3, <2>4, <2>5 DEF ByNumbers
<1> HIDE DEF R, f, g, S, seen
<1>6. order \in Seq(S)
  BY <1>3, <1>5, ByThree, InOrderLists
<1> HIDE DEF order, X
<1>7. DOMAIN order = 1..Len(order) /\ Len(order) \in Nat /\ \A k \in 1..Len(order) : order[k] \in S
  BY <1>6
<1>8. \A k \in 1..Len(order) : seen[order[k][2]] \in X
  BY <1>2, <1>4, <1>7
<1>9. Fuse(channels) = [k \in 1..Len(order) |-> seen[order[k][2]]]
  BY <1>1, <1>7
<1>10. Fuse(channels) \in Seq(X)
  BY <1>7, <1>8, <1>9
<1> QED
  BY <1>10 DEF X

\* What the channels own in the pool.
OwedOne(pool, c, fused) ==
    pool \o Take(Without(Only(c.ids, LAMBDA id : Contains(fused, id)), pool),
                 Smaller(Quota, PoolSize - Len(pool)))
OwedOf(fused, channels) ==
    FoldLeft(LAMBDA pool, c :
                pool \o Take(Without(Only(c.ids, LAMBDA id : Contains(fused, id)), pool),
                             Smaller(Quota, PoolSize - Len(pool))),
             <<>>, channels)

LEMMA OwedIs ==
  ASSUME NEW there, NEW channels, ChannelsOf(channels, there), NEW fused \in Seq(there)
  PROVE  OwedOf(fused, channels) \in Seq(Range(fused))
<1> DEFINE N == Len(channels)
           Y == Range(fused)
           V == {p \in Seq(Y) : Len(p) <= PoolSize}
           F == [p \in (1..N) \X V |-> OwedOne(p[2], channels[p[1]], fused)]
           Add(S, v) == OwedOne(v, channels[Max(S)], fused)
           Eq(it) == it = [S \in SUBSET DOMAIN channels |->
                              IF S = {} THEN <<>> ELSE Add(S, it[S \ {Max(S)}])]
<1>1. DOMAIN channels = 1..N /\ N \in Nat
  BY DEF ChannelsOf
<1>2. \A S, v : Max(S) \in 1..N /\ v \in V => F[<<Max(S), v>>] = Add(S, v)
  <2> HIDE DEF V
  <2> QED
    OBVIOUS
<1>3. CanFoldLeft(N, V, <<>>, F)
  <2>1. \A k \in 1..N : \A v \in V : F[<<k, v>>] = OwedOne(v, channels[k], fused)
    <3> HIDE DEF V
    <3> QED
      OBVIOUS
  <2>2. ASSUME NEW k \in 1..N, NEW v \in V PROVE OwedOne(v, channels[k], fused) \in V
    <3> DEFINE ids == channels[k].ids
               at == {n \in DOMAIN ids : Contains(fused, ids[n])}
               own == Places(ids, at)
               new == Without(own, v)
               n == Smaller(Quota, PoolSize - Len(v))
               t == Take(new, n)
    <3>1. ids \in Seq(there) /\ DOMAIN ids = 1..Len(ids)
      BY <1>1 DEF ChannelsOf, ChannelOf
    <3>2. \A x : Contains(fused, x) <=> x \in Y
      <4> HIDE DEF Y
      <4> QED
        BY ContainsIs DEF Y
    <3> HIDE DEF ids
    <3>3. at \subseteq 1..Len(ids) /\ \A m \in at : ids[m] \in Y
      BY <3>1, <3>2
    <3> HIDE DEF at
    <3>4. own \in Seq(there) /\ Range(own) = {ids[m] : m \in at}
      BY <3>1, <3>3, PlacesAre
    <3> HIDE DEF own
    <3>5. own \in Seq(Y)
      <4> HIDE DEF Y
      <4>1. \A m \in 1..Len(own) : own[m] \in Range(own)
        BY <3>4 DEF Range
      <4>2. \A m \in 1..Len(own) : own[m] \in Y
        BY <3>3, <3>4, <4>1
      <4> QED
        BY <3>4, <4>2
    <3>6. v \in Seq(Y) /\ Len(v) \in Nat /\ Len(v) <= PoolSize
      OBVIOUS
    <3>7. n \in Nat /\ Len(v) + n <= PoolSize
      <4>1. Quota \in Nat /\ PoolSize \in Nat
        BY WindowIs, RetrievalConstants
      <4> QED
        BY <3>6, <4>1 DEF Smaller
    <3> HIDE DEF Y
    <3>8. new \in Seq(Y)
      BY <3>5, <3>6, WithoutIs
    <3> HIDE DEF new, n
    <3>9. t \in Seq(Y) /\ Len(t) = Smaller(n, Len(new))
      BY <3>7, <3>8, TakeIs
    <3> HIDE DEF t
    <3>10. Len(t) <= n /\ Len(t) \in Nat
      BY <3>7, <3>8, <3>9 DEF Smaller
    <3>11. v \o t \in Seq(Y) /\ Len(v \o t) = Len(v) + Len(t)
      BY <3>6, <3>9
    <3>12. Len(v \o t) <= PoolSize
      BY <3>6, <3>7, <3>10, <3>11, WindowIs
    <3>13. OwedOne(v, channels[k], fused) = v \o t
      BY DEF OwedOne, Only, t, new, n, own, at, ids
    <3> QED
      BY <3>11, <3>12, <3>13
  <2>3. <<>> \in V
    <3>1. <<>> \in Seq(Y) /\ Len(<<>>) = 0
      OBVIOUS
    <3> HIDE DEF Y
    <3> QED
      BY <3>1, WindowIs
  <2> HIDE DEF F, N, V
  <2> QED
    BY <1>1, <2>1, <2>2, <2>3 DEF CanFoldLeft
<1>4. PICK it : IsFoldLeft(N, V, <<>>, F, it)
  <2> HIDE DEF N, F, V
  <2> QED
    BY <1>3, FoldLeftExists
<1>5. Eq(it)
  <2> HIDE DEF N, F, Add, V
  <2>1. \A S \in SUBSET (1..N) : S # {} => it[S] = Add(S, it[S \ {Max(S)}])
    BY <1>2, <1>4 DEF IsFoldLeft
  <2> QED
    BY <1>1, <1>4, <2>1 DEF IsFoldLeft
<1>6. PICK jt : Eq(jt) /\ OwedOf(fused, channels) = jt[DOMAIN channels]
  <2>1. OwedOf(fused, channels) = (CHOOSE jt : Eq(jt))[DOMAIN channels]
    BY Zenon DEF OwedOf, OwedOne, FoldLeft, MapThenFoldSet
  <2> HIDE DEF Eq
  <2>2. Eq(CHOOSE jt : Eq(jt))
    BY <1>5
  <2> QED
    BY <2>1, <2>2
<1>7. Unfolds(N, V, <<>>, F, jt)
  <2> HIDE DEF N, F, Add, V
  <2>1. jt[{}] = <<>> /\ \A S \in SUBSET (1..N) : S # {} => jt[S] = Add(S, jt[S \ {Max(S)}])
    BY <1>1, <1>6
  <2> HIDE DEF Eq
  <2> QED
    BY <1>2, <2>1 DEF Unfolds
<1> HIDE DEF N, F, Add, Eq, V, Y
<1>8. jt[1..N] \in V
  BY <1>3, <1>7, FoldLeftIn
<1> QED
  BY <1>1, <1>6, <1>8 DEF V, Y

LEMMA QuotaIs ==
  ASSUME NEW there, NEW channels, ChannelsOf(channels, there), NEW fused \in Seq(there)
  PROVE  SelectWithQuota(fused, channels) \in Seq(Range(fused))
<1> DEFINE Y == Range(fused)
           owed == OwedOf(fused, channels)
           rest == Without(fused, owed)
           all == owed \o rest
           t == Take(all, PoolSize)
<1>1. fused \in Seq(Y)
  <2>1. \A k \in 1..Len(fused) : fused[k] \in Y
    BY DEF Range
  <2> HIDE DEF Y
  <2> QED
    BY <2>1
<1>2. owed \in Seq(Y)
  BY OwedIs
<1>3. SelectWithQuota(fused, channels) = t
  BY DEF SelectWithQuota, OwedOf
<1> HIDE DEF Y, owed
<1>4. rest \in Seq(Y)
  BY <1>1, <1>2, WithoutIs
<1> HIDE DEF rest
<1>5. all \in Seq(Y)
  BY <1>2, <1>4
<1> HIDE DEF all
<1>6. t \in Seq(Y)
  BY <1>5, WindowIs, TakeIs
<1> QED
  BY <1>3, <1>6 DEF Y

LEMMA BestIs ==
  ASSUME NEW there, NEW channels, ChannelsOf(channels, there), NEW id \in Found(channels)
  PROVE  BestDense(channels, id) \in Int
<1> DEFINE Q == {q \in DOMAIN channels : Contains(channels[q].ids, id)}
           f == [q \in Q |-> channels[q].score[id]]
           T == {f[q] : q \in Q}
<1>1. Q # {} /\ id \in there
  BY FoundIs
<1>2. IsFiniteSet(Q)
  <2>1. Len(channels) \in Int /\ 1 \in Int /\ Q \subseteq 1..Len(channels)
    BY DEF ChannelsOf
  <2> HIDE DEF Q
  <2> QED
    BY <2>1, FS_Interval, FS_Subset
<1>3. \A q \in Q : f[q] \in Int
  <2>1. \A q \in Q : channels[q].score \in [there -> Int]
    BY DEF ChannelsOf, ChannelOf
  <2>2. \A q \in Q : channels[q].score[id] \in Int
    BY <1>1, <2>1
  <2> QED
    BY <2>2
<1>4. BestDense(channels, id) = Max(T)
  <2>1. T = {channels[q].score[id] : q \in Q}
    OBVIOUS
  <2> QED
    BY <2>1 DEF BestDense
<1> HIDE DEF Q, f
<1>5. IsFiniteSet(T) /\ T # {} /\ T \subseteq Int
  BY <1>1, <1>2, <1>3, ImageIsFinite
<1> HIDE DEF T
<1> QED
  BY <1>4, <1>5, MaxIs


\* What Rank is given: chunks of the scope, each with its best score.
PoolSound(pool, score, scope) ==
    /\ pool \in Seq(DOMAIN index)
    /\ \A id \in Range(pool) : index[id].doc \in scope /\ score[id] \in Int

RankInv == Searching("rank") => index # None /\ PoolSound(tool.pool, tool.score, tool.scope)

LEMMA RecallPools ==
  ASSUME StoredIndex, index # None, NEW scope, NEW there \in SUBSET DOMAIN index,
         NEW texts \in Nat,
         NEW channels \in [1..texts -> {Channel(score) : score \in [there -> Score]}],
         NEW fused, fused = Only(Fuse(channels), LAMBDA id : index[id].doc \in scope),
         NEW pool, pool = SelectWithQuota(fused, channels)
  PROVE  PoolSound(pool, [id \in Range(pool) |-> BestDense(channels, id)], scope)
<1> DEFINE X == Found(channels)
           seq == Fuse(channels)
           at == {k \in DOMAIN seq : index[seq[k]].doc \in scope}
<1>1. ChannelsOf(channels, there)
  <2>1. \A q \in 1..texts : ChannelOf(channels[q], there)
    <3>1. \A score \in [there -> Score] : score \in [there -> Int]
      BY LibraryConstants
    <3>2. \A score \in [there -> Score] : ChannelOf(Channel(score), there)
      BY <3>1, ChannelIs
    <3> QED
      BY <3>2
  <2>2. DOMAIN channels = 1..texts /\ Len(channels) = texts
    OBVIOUS
  <2>3. IsFiniteSet(there)
    BY FS_Subset DEF StoredIndex
  <2> QED
    BY <2>1, <2>2, <2>3 DEF ChannelsOf
<1>2. Found(channels) \subseteq there
  BY <1>1, FoundIs
<1>3. seq \in Seq(X)
  BY <1>1, FuseIs
<1>4. fused = Places(seq, at)
  BY DEF Only
<1> HIDE DEF seq, X
<1>5. at \subseteq 1..Len(seq) /\ \A k \in at : index[seq[k]].doc \in scope
  BY <1>3
<1> HIDE DEF at
<1>6. fused \in Seq(X) /\ Range(fused) = {seq[k] : k \in at}
  BY <1>3, <1>4, <1>5, PlacesAre
<1>7. fused \in Seq(there)
  BY <1>2, <1>6 DEF X
<1>8. pool \in Seq(Range(fused))
  BY <1>1, <1>7, QuotaIs
<1>9. \A id \in Range(fused) : id \in Found(channels) /\ index[id].doc \in scope
  <2>1. \A id \in Range(fused) : index[id].doc \in scope
    BY <1>5, <1>6
  <2>2. \A k \in at : seq[k] \in X
    BY <1>3, <1>5
  <2>3. \A id \in Range(fused) : id \in X
    BY <1>6, <2>2
  <2> QED
    BY <2>1, <2>3 DEF X
<1> DEFINE Y == Range(fused)
<1>10. Range(pool) \subseteq Y /\ pool \in Seq(Y)
  <2>1. pool \in Seq(Y)
    BY <1>8
  <2> HIDE DEF Y
  <2>2. \A k \in DOMAIN pool : pool[k] \in Y
    BY <2>1
  <2> QED
    BY <2>1, <2>2 DEF Range
<1>11. Y \subseteq DOMAIN index
  BY <1>2, <1>9
<1>12. pool \in Seq(DOMAIN index)
  <2> HIDE DEF Y
  <2> QED
    BY <1>10, <1>11
<1>13. \A id \in Range(pool) : BestDense(channels, id) \in Int
  BY <1>1, <1>9, <1>10, BestIs
<1> QED
  BY <1>9, <1>10, <1>12, <1>13 DEF PoolSound

LEMMA RankStep == Published /\ ScopeInv /\ RankInv /\ [Next]_vars => RankInv'
<1> SUFFICES ASSUME Published, ScopeInv, RankInv, [Next]_vars, Searching("rank")'
             PROVE  (index # None /\ PoolSound(tool.pool, tool.score, tool.scope))'
  BY DEF RankInv
<1>1. ASSUME NEW texts \in 1..MaxTexts, NEW where \in BOOLEAN, Recall(texts, where)
      PROVE  (index # None /\ PoolSound(tool.pool, tool.score, tool.scope))'
  <2> DEFINE there == {id \in DOMAIN index : where => index[id].doc \in tool.scope}
  <2>1. PICK channels \in [1..texts -> {Channel(score) : score \in [there -> Score]}] :
           LET fused == Only(Fuse(channels), LAMBDA id : index[id].doc \in tool.scope)
               pool == SelectWithQuota(fused, channels)
           IN  tool' = [name |-> "search", stage |-> "rank",
                        scope |-> tool.scope, off |-> tool.off, pool |-> pool,
                        score |-> [id \in Range(pool) |-> BestDense(channels, id)]]
    BY <1>1 DEF Recall
  <2> DEFINE fused == Only(Fuse(channels), LAMBDA id : index[id].doc \in tool.scope)
             pool == SelectWithQuota(fused, channels)
             score == [id \in Range(pool) |-> BestDense(channels, id)]
  <2>2. tool' = [name |-> "search", stage |-> "rank",
                 scope |-> tool.scope, off |-> tool.off, pool |-> pool, score |-> score]
    BY <2>1
  <2>4. index # None /\ index' = index /\ there \subseteq DOMAIN index /\ StoredIndex /\ texts \in Nat
    <3>1. texts \in Nat
      BY LibraryConstants
    <3> QED
      BY <1>1, <3>1, IndexIsStored DEF Recall
  <2> HIDE DEF there
  <2>5. PoolSound(pool, score, tool.scope)
    BY <2>4, RecallPools
  <2> HIDE DEF pool, score
  <2> QED
    BY <2>2, <2>4, <2>5 DEF PoolSound
<1>2. CASE UNCHANGED tool
  <2>1. Searching("rank") /\ index # None /\ PoolSound(tool.pool, tool.score, tool.scope)
    BY <1>2 DEF Searching, RankInv
  <2>2. index' = index
    BY <2>1 DEF Next, Publish, Search, ReadMembers, ReadDisabled, ReadDisabledFirst, ReadRecords,
       Switch, Delete, Recall, KnowledgeBaseEmpty, Rank, Answered, ReadPage, ReadChunk,
       ReadOn, EndRead, vars
  <2> QED
    BY <1>2, <2>1, <2>2 DEF PoolSound
<1>3. CASE Publish
  BY <1>2, <1>3 DEF Publish
<1>4. ASSUME NEW bound \in BOOLEAN, Search(bound) PROVE FALSE
  BY <1>4 DEF Search, Searching
<1>5. CASE ReadMembers \/ ReadDisabled \/ ReadDisabledFirst \/ ReadRecords
  <2>1. tool \in ScopeRecord
    BY <1>5 DEF ReadMembers, ReadDisabled, ReadDisabledFirst, ReadRecords, Searching, Resolving, ScopeInv
  <2>2. tool' = None \/ tool'.stage \in {"disabled", "records", "recall"}
    BY <1>5, <2>1 DEF ReadMembers, ReadDisabled, ReadDisabledFirst, ReadRecords, Scoped, ScopeRecord
  <2> QED
    BY <2>2 DEF Searching
<1>6. CASE KnowledgeBaseEmpty \/ Answered \/ EndRead
  BY <1>6, NoSearch DEF KnowledgeBaseEmpty, Answered, EndRead, Searching
<1>7. ASSUME NEW wants \in BOOLEAN, Rank(wants) PROVE FALSE
  BY <1>7 DEF Rank, Searching
<1>8. ASSUME NEW d \in Unsettled, Switch(d) \/ Delete(d) PROVE FALSE
  <2>1. Resolving /\ tool' = [tool EXCEPT !.off = @ \ {d}]
    BY <1>8 DEF Switch, Delete
  <2>2. tool \in ScopeRecord
    BY <2>1 DEF ScopeInv
  <2>3. tool'.stage = tool.stage
    BY <2>1, <2>2 DEF ScopeRecord
  <2> QED
    BY <2>1, <2>3 DEF Resolving, Searching
<1>9. ASSUME NEW d \in Doc, NEW page \in Pages(d), ReadPage(d, page) PROVE FALSE
  BY <1>9 DEF ReadPage, ReadWindow, Searching
<1>10. ASSUME NEW id \in DOMAIN index, ReadChunk(id) PROVE FALSE
  BY <1>10 DEF ReadChunk, ReadWindow, Searching
<1>11. CASE ReadOn
  BY <1>11 DEF ReadOn, ReadWindow, Searching
<1> QED
  BY <1>1, <1>2, <1>3, <1>4, <1>5, <1>6, <1>7, <1>8, <1>9, <1>10, <1>11 DEF Next, vars


(***************************************************************************)
(* Ranking                                                                 *)
(***************************************************************************)
LEMMA OrderIs ==
  ASSUME NEW X, IsFiniteSet(X), NEW order \in SetToSeqs(X)
  PROVE  order \in Seq(X) /\ Range(order) = X
<1> DEFINE n == Cardinality(X)
           D == 1..n
<1>1. n \in Nat
  BY FS_CardinalityType
<1>2. order \in [D -> X] /\ \A i, j \in D : i # j => order[i] # order[j]
  BY DEF SetToSeqs
<1>3. IsFiniteSet(D) /\ Cardinality(D) = n
  <2>1. 1 \in Int /\ n \in Int
    BY <1>1
  <2> HIDE DEF n
  <2> QED
    BY <1>1, <2>1, FS_Interval
<1>4. order \in Injection(D, X)
  <2> HIDE DEF D
  <2> QED
    BY <1>2 DEF Injection, IsInjective
<1>5. order \in Surjection(D, X)
  <2> HIDE DEF D
  <2> QED
    BY <1>3, <1>4, FS_Injection DEF n
<1>6. \A x \in X : \E k \in D : order[k] = x
  BY <1>5 DEF Surjection
<1>7. order \in Seq(X)
  <2> HIDE DEF n
  <2> QED
    BY <1>1, <1>2
<1> HIDE DEF D
<1> QED
  BY <1>2, <1>6, <1>7 DEF Range

\* A pool's chunks, each with a score.
Scored(X, score) == IsFiniteSet(X) /\ \A x \in X : score[x] \in Int

TopOf(X, score) == Max({score[id] : id \in X})

LEMMA TopIs ==
  ASSUME NEW X, NEW score, Scored(X, score), X # {}
  PROVE  /\ TopOf(X, score) \in Int /\ \A x \in X : score[x] <= TopOf(X, score)
         /\ \E x \in X : score[x] = TopOf(X, score)
<1> DEFINE T == {score[id] : id \in X}
<1>1. IsFiniteSet(T)
  BY ImageIsFinite DEF Scored
<1>2. T \subseteq Int /\ T # {}
  BY DEF Scored
<1>3. \A x \in X : score[x] \in T
  OBVIOUS
<1>4. TopOf(X, score) = Max(T)
  BY DEF TopOf
<1> HIDE DEF T
<1>5. Max(T) \in T /\ \A v \in T : v <= Max(T)
  BY <1>1, <1>2, MaxIs
<1>6. \E x \in X : score[x] = Max(T)
  BY <1>5 DEF T
<1> QED
  BY <1>2, <1>3, <1>4, <1>5, <1>6

\* What of X is near enough to the best of it.
Near(X, score) ==
    IF FloorPercent = 0 \/ TopOf(X, score) <= 0 THEN X
    ELSE {id \in X : 100 * score[id] >= TopOf(X, score) * FloorPercent}

\* hits has all of X.
HasAllOf(hits, X) == Range(hits) = X

LEMMA AboveFloorIs ==
  ASSUME NEW X, NEW hits \in Seq(X), HasAllOf(hits, X), NEW score, Scored(X, score)
  PROVE  /\ AboveFloor(hits, score) \in Seq(X)
         /\ Range(AboveFloor(hits, score)) = Near(X, score)
<1> DEFINE top == TopOf(X, score)
           at == {k \in DOMAIN hits : 100 * score[hits[k]] >= top * FloorPercent}
           t == AboveFloor(hits, score)
<1>1. DOMAIN hits = 1..Len(hits) /\ Len(hits) \in Nat
  OBVIOUS
<1>2. t = IF hits = <<>> \/ FloorPercent = 0 \/ top <= 0 THEN hits ELSE Places(hits, at)
  BY DEF AboveFloor, Only, TopOf, HasAllOf
<1> HIDE DEF t
<1>3. CASE hits = <<>> \/ FloorPercent = 0 \/ top <= 0
  <2>1. t = hits
    BY <1>2, <1>3
  <2>2. hits = <<>> => X = {}
    BY DEF Range, HasAllOf
  <2> HIDE DEF top
  <2>3. Near(X, score) = X
    BY <1>3, <2>2 DEF Near, top
  <2> QED
    BY <2>1, <2>3 DEF t, HasAllOf
<1>4. CASE ~(hits = <<>> \/ FloorPercent = 0 \/ top <= 0)
  <2>1. t = Places(hits, at) /\ at \subseteq 1..Len(hits)
    BY <1>1, <1>2, <1>4
  <2>2. t \in Seq(X) /\ Range(t) = {hits[k] : k \in at}
    <3> HIDE DEF at
    <3> QED
      BY <2>1, PlacesAre
  <2>3. {hits[k] : k \in at} = {id \in X : 100 * score[id] >= top * FloorPercent}
    <3>1. \A k \in DOMAIN hits : hits[k] \in X
      OBVIOUS
    <3>2. \A x \in X : \E k \in DOMAIN hits : hits[k] = x
      BY DEF Range, HasAllOf
    <3> HIDE DEF top
    <3> QED
      BY <3>1, <3>2
  <2>4. Near(X, score) = {id \in X : 100 * score[id] >= top * FloorPercent}
    BY <1>4 DEF Near
  <2> QED
    BY <2>2, <2>3, <2>4 DEF t
<1> QED
  BY <1>3, <1>4

LEMMA NearIs ==
  ASSUME NEW X, NEW score, Scored(X, score), X # {}
  PROVE  /\ Near(X, score) \subseteq X /\ Near(X, score) # {}
         /\ FloorPercent # 0 /\ TopOf(X, score) > 0 => \A id \in Near(X, score) : score[id] > 0
         /\ \A id \in X \ Near(X, score) : 100 * score[id] < FloorPercent * TopOf(X, score)
<1> DEFINE top == TopOf(X, score)
<1>1. FloorPercent \in 0..100
  BY RetrievalConstants
<1>2. /\ top \in Int /\ \A x \in X : score[x] <= top /\ score[x] \in Int
      /\ \E x \in X : score[x] = top
  BY TopIs DEF Scored
<1>3. PICK best \in X : score[best] = top
  BY <1>2
<1> HIDE DEF top
<1>4. Near(X, score) = IF FloorPercent = 0 \/ top <= 0 THEN X
                       ELSE {id \in X : 100 * score[id] >= top * FloorPercent}
  BY DEF Near, top
<1>5. top > 0 => 100 * top >= top * FloorPercent
  <2>1. FloorPercent <= 100 /\ FloorPercent >= 0 /\ FloorPercent \in Int
    BY <1>1
  <2> QED
    BY <1>2, <2>1
<1>6. top > 0 /\ FloorPercent # 0 => top * FloorPercent > 0
  <2>1. FloorPercent >= 0 /\ FloorPercent \in Int
    BY <1>1
  <2> QED
    BY <1>2, <2>1
<1>7. top * FloorPercent \in Int /\ top * FloorPercent = FloorPercent * top
  BY <1>1, <1>2
<1>8. best \in Near(X, score)
  BY <1>2, <1>3, <1>4, <1>5
<1>9. \A id \in X \ Near(X, score) : 100 * score[id] < top * FloorPercent
  <2>1. \A id \in X : 100 * score[id] \in Int
    BY <1>2
  <2> QED
    BY <1>4, <1>7, <2>1
<1>10. FloorPercent # 0 /\ top > 0 => \A id \in Near(X, score) : score[id] > 0
  BY <1>2, <1>4, <1>6, <1>7
<1> QED
  BY <1>4, <1>7, <1>8, <1>9, <1>10 DEF top

\* What the table gate lets through.
Opens(X, at, allow) == {x \in X : allow \/ ~IsTable(at[x])}
KeyOf(x, at) == CollapseKey(x, at[x])
OneEach(kept, at) ==
    \A m, n \in DOMAIN kept : m < n => KeyOf(kept[m], at) # KeyOf(kept[n], at)
Selections(O, at) == {kept \in Seq(O) : Len(kept) <= FinalK /\ OneEach(kept, at)}

DiversifyOne(kept, id, at, allow) ==
    LET same == {k \in DOMAIN kept : CollapseKey(kept[k], at[kept[k]]) = CollapseKey(id, at[id])}
    IN  IF Len(kept) >= FinalK \/ (IsTable(at[id]) /\ ~allow) THEN kept
        ELSE IF same = {} THEN Append(kept, id)
        ELSE [k \in DOMAIN kept |->
                IF k \in same /\ PrefersOver(at[id], at[kept[k]]) THEN id ELSE kept[k]]

LEMMA DiversifyOneIs ==
  ASSUME NEW A, NEW at, NEW allow \in BOOLEAN, NEW O, O = Opens(A, at, allow),
         NEW kept \in Selections(O, at), NEW id \in A
  PROVE  /\ DiversifyOne(kept, id, at, allow) \in Selections(O, at)
         /\ kept # <<>> \/ id \in O => DiversifyOne(kept, id, at, allow) # <<>>
<1> DEFINE same == {k \in DOMAIN kept : KeyOf(kept[k], at) = KeyOf(id, at)}
           f == [k \in DOMAIN kept |->
                    IF k \in same /\ PrefersOver(at[id], at[kept[k]]) THEN id ELSE kept[k]]
           L == Len(kept)
           r == DiversifyOne(kept, id, at, allow)
<1>1. /\ kept \in Seq(O) /\ L \in Nat /\ L <= FinalK /\ DOMAIN kept = 1..L
      /\ \A m, n \in 1..L : m < n => KeyOf(kept[m], at) # KeyOf(kept[n], at)
  BY DEF Selections, OneEach
<1>2. r = IF Len(kept) >= FinalK \/ (IsTable(at[id]) /\ ~allow) THEN kept
          ELSE IF same = {} THEN Append(kept, id) ELSE f
  BY DEF DiversifyOne, KeyOf
<1>3. FinalK \in Nat /\ FinalK > 0
  BY RetrievalConstants
<1> HIDE DEF r
<1>4. CASE Len(kept) >= FinalK \/ (IsTable(at[id]) /\ ~allow)
  <2>1. r = kept
    BY <1>2, <1>4
  <2>2. kept # <<>> \/ id \in O => kept # <<>>
    <3>1. id \in O => ~(IsTable(at[id]) /\ ~allow)
      BY DEF Opens
    <3>2. L >= FinalK => kept # <<>>
      BY <1>1, <1>3
    <3> QED
      BY <1>4, <3>1, <3>2
  <2> QED
    BY <2>1, <2>2 DEF r
<1>5. CASE ~(Len(kept) >= FinalK \/ (IsTable(at[id]) /\ ~allow)) /\ same = {}
  <2>1. r = Append(kept, id) /\ L < FinalK
    BY <1>1, <1>2, <1>3, <1>5
  <2>2. id \in O
    BY <1>5 DEF Opens
  <2>3. \A m \in 1..L : KeyOf(kept[m], at) # KeyOf(id, at)
    BY <1>1, <1>5
  <2> HIDE DEF same, f
  <2>4. /\ r \in Seq(O) /\ Len(r) = L + 1 /\ r # <<>> /\ DOMAIN r = 1..(L + 1)
        /\ \A m \in 1..L : r[m] = kept[m]
    BY <1>1, <2>1, <2>2
  <2>5. r[L + 1] = id
    BY <1>1, <2>1
  <2>6. \A m, n \in 1..(L + 1) : m < n => KeyOf(r[m], at) # KeyOf(r[n], at)
    <3> TAKE m, n \in 1..(L + 1)
    <3> HAVE m < n
    <3>1. m \in 1..L /\ (n \in 1..L \/ n = L + 1)
      BY <1>1
    <3> QED
      BY <1>1, <2>3, <2>4, <2>5, <3>1
  <2>7. Len(r) <= FinalK
    BY <1>1, <1>3, <2>1, <2>4
  <2>8. OneEach(r, at)
    BY <2>4, <2>6 DEF OneEach
  <2> QED
    BY <2>4, <2>7, <2>8 DEF Selections, r
<1>6. CASE ~(Len(kept) >= FinalK \/ (IsTable(at[id]) /\ ~allow)) /\ same # {}
  <2>1. r = f
    BY <1>2, <1>6
  <2>2. id \in O
    BY <1>6 DEF Opens
  <2>3. kept # <<>>
    BY <1>1, <1>6
  <2>4. \A k \in 1..L : f[k] \in O /\ KeyOf(f[k], at) = KeyOf(kept[k], at)
    <3>1. \A k \in 1..L : kept[k] \in O
      BY <1>1
    <3>2. \A k \in same : KeyOf(kept[k], at) = KeyOf(id, at)
      OBVIOUS
    <3> HIDE DEF same
    <3> QED
      BY <1>1, <2>2, <3>1, <3>2
  <2>5. f = [k \in 1..L |-> f[k]]
    BY <1>1
  <2> HIDE DEF f, same
  <2>6. f \in Seq(O) /\ Len(f) = L /\ DOMAIN f = 1..L
    BY <1>1, <2>4, <2>5
  <2>7. OneEach(f, at)
    BY <1>1, <2>4, <2>6 DEF OneEach
  <2>8. f # <<>>
    <3>1. L # 0
      BY <1>1, <2>3
    <3> QED
      BY <1>1, <2>6, <3>1
  <2> QED
    BY <1>1, <2>1, <2>6, <2>7, <2>8 DEF Selections, r
<1> QED
  BY <1>4, <1>5, <1>6

LEMMA DiversifyIs ==
  ASSUME NEW A, NEW hits, NEW score, NEW s \in Seq(A), HasAllOf(s, A), s = AboveFloor(hits, score),
         NEW at, NEW allow \in BOOLEAN, NEW O, O = Opens(A, at, allow)
  PROVE  /\ DiversifyHits(hits, score, at, allow) \in Selections(O, at)
         /\ DiversifyHits(hits, score, at, allow) = <<>> => O = {}
<1> DEFINE N == Len(s)
           V == Selections(O, at)
           F == [p \in (1..N) \X V |-> DiversifyOne(p[2], s[p[1]], at, allow)]
           Add(S, v) == DiversifyOne(v, s[Max(S)], at, allow)
           Eq(it) == it = [S \in SUBSET DOMAIN s |->
                              IF S = {} THEN <<>> ELSE Add(S, it[S \ {Max(S)}])]
           result == DiversifyHits(hits, score, at, allow)
<1>1. DOMAIN s = 1..N /\ N \in Nat /\ \A k \in 1..N : s[k] \in A
  OBVIOUS
<1>2. \A S, v : Max(S) \in 1..N /\ v \in V => F[<<Max(S), v>>] = Add(S, v)
  <2> HIDE DEF V
  <2> QED
    OBVIOUS
<1>3. \A k \in 1..N : \A v \in V : F[<<k, v>>] = DiversifyOne(v, s[k], at, allow)
  <2> HIDE DEF V
  <2> QED
    OBVIOUS
<1>4. <<>> \in V
  <2>1. <<>> \in Seq(O) /\ Len(<<>>) = 0 /\ DOMAIN <<>> = {}
    OBVIOUS
  <2>2. 0 <= FinalK
    BY RetrievalConstants
  <2> QED
    BY <2>1, <2>2 DEF Selections, OneEach
<1> HIDE DEF F
<1>5. CanFoldLeft(N, V, <<>>, F)
  <2>1. \A k \in 1..N : \A v \in V : DiversifyOne(v, s[k], at, allow) \in V
    BY <1>1, DiversifyOneIs
  <2> HIDE DEF N, V
  <2> QED
    BY <1>1, <1>3, <1>4, <2>1 DEF CanFoldLeft
<1>6. PICK it : IsFoldLeft(N, V, <<>>, F, it)
  <2> HIDE DEF N, V
  <2> QED
    BY <1>5, FoldLeftExists
<1>7. Eq(it)
  <2> HIDE DEF N, Add, V
  <2>1. \A S \in SUBSET (1..N) : S # {} => it[S] = Add(S, it[S \ {Max(S)}])
    BY <1>2, <1>6 DEF IsFoldLeft
  <2> QED
    BY <1>1, <1>6, <2>1 DEF IsFoldLeft
<1>8. PICK jt : Eq(jt) /\ result = jt[DOMAIN s]
  <2> DEFINE W(t) ==
               FoldLeft(LAMBDA kept, id :
                   LET same == {k \in DOMAIN kept : CollapseKey(kept[k], at[kept[k]]) = CollapseKey(id, at[id])}
                   IN  IF Len(kept) >= FinalK \/ (IsTable(at[id]) /\ ~allow) THEN kept
                       ELSE IF same = {} THEN Append(kept, id)
                       ELSE [k \in DOMAIN kept |->
                               IF k \in same /\ PrefersOver(at[id], at[kept[k]]) THEN id ELSE kept[k]],
                   <<>>, t)
  <2>3. result = W(AboveFloor(hits, score))
    BY Zenon DEF DiversifyHits
  <2>4. W(s) = (CHOOSE jt : Eq(jt))[DOMAIN s]
    BY Zenon DEF DiversifyOne, FoldLeft, MapThenFoldSet
  <2> HIDE DEF W
  <2>1. result = (CHOOSE jt : Eq(jt))[DOMAIN s]
    BY <2>3, <2>4
  <2> HIDE DEF Eq, result
  <2>2. Eq(CHOOSE jt : Eq(jt))
    BY <1>7
  <2> QED
    BY <2>1, <2>2
<1>9. Unfolds(N, V, <<>>, F, jt)
  <2> HIDE DEF N, Add, V, result
  <2>1. jt[{}] = <<>> /\ \A S \in SUBSET (1..N) : S # {} => jt[S] = Add(S, jt[S \ {Max(S)}])
    BY <1>1, <1>8
  <2> HIDE DEF Eq
  <2> QED
    BY <1>2, <2>1 DEF Unfolds
<1> HIDE DEF N, Add, Eq, V, result
<1>10. PICK run : IsRun(N, V, <<>>, F, run) /\ run[N] = jt[1..N]
  BY <1>5, <1>9, FoldLeftRuns
<1>11. result = run[N]
  BY <1>1, <1>8, <1>10
<1>12. /\ run \in [0..N -> V] /\ run[0] = <<>>
       /\ \A k \in 1..N : run[k] = F[<<k, run[k - 1]>>]
  BY <1>10 DEF IsRun
\* As long as nothing is kept, nothing open has come by.
<1>13. ASSUME run[N] = <<>> PROVE O = {}
  <2> DEFINE G == {k \in 0..N : run[k] = <<>> => \A j \in 1..k : s[j] \notin O}
  <2>1. 0 \in G
    BY <1>1
  <2>2. ASSUME NEW k \in 1..N, k - 1 \in G PROVE k \in G
    <3>1. k - 1 \in 0..N /\ run[k - 1] \in V /\ k \in 0..N
      BY <1>1, <1>12
    <3>2. run[k] = DiversifyOne(run[k - 1], s[k], at, allow)
      BY <1>3, <1>12, <3>1
    <3>3. run[k - 1] # <<>> \/ s[k] \in O => run[k] # <<>>
      BY <1>1, <3>1, <3>2, DiversifyOneIs DEF V
    <3>4. \A j \in 1..k : j \in 1..(k - 1) \/ j = k
      BY <1>1
    <3> QED
      BY <2>2, <3>1, <3>3, <3>4
  <2> HIDE DEF G
  <2>3. N \in G
    <3>1. \A i \in 0..N : i \in G
      BY <1>1, <2>1, <2>2, UpTo
    <3> QED
      BY <1>1, <3>1
  <2>4. \A j \in 1..N : s[j] \notin O
    BY <1>13, <2>3 DEF G
  <2>5. O \subseteq A /\ \A a \in A : \E j \in 1..N : s[j] = a
    BY <1>1 DEF Opens, HasAllOf, Range
  <2> QED
    BY <2>4, <2>5
<1>14. result \in V
  BY <1>1, <1>11, <1>12
<1> QED
  BY <1>11, <1>13, <1>14 DEF result, V


\* "top" has the best that is open, if anything is.
Tops(top, O, score) ==
    /\ top \in Seq(O) /\ Len(top) <= 1
    /\ O # {} => Len(top) = 1
    /\ \A k \in DOMAIN top : \A o \in O : score[o] <= score[top[k]]

LEMMA DenseTopIs ==
  ASSUME NEW X, NEW pool \in Seq(X), HasAllOf(pool, X), NEW score, Scored(X, score), NEW at,
         NEW allow \in BOOLEAN, NEW O, O = Opens(X, at, allow)
  PROVE  Tops(DenseTop(pool, score, at, allow), O, score)
<1> DEFINE here == {k \in DOMAIN pool : allow \/ ~IsTable(at[pool[k]])}
           open == Places(pool, here)
           best == {k \in DOMAIN open : \A o \in Range(open) : score[o] <= score[open[k]]}
           tops == Places(open, best)
           top == Take(tops, 1)
<1>1. DenseTop(pool, score, at, allow) = top
  BY DEF DenseTop, Only
<1>2. here \subseteq 1..Len(pool) /\ \A k \in DOMAIN pool : pool[k] \in X
  OBVIOUS
<1>3. {pool[k] : k \in here} = O
  <2>1. \A x \in X : \E k \in DOMAIN pool : pool[k] = x
    BY DEF HasAllOf, Range
  <2> QED
    BY <1>2, <2>1 DEF Opens
<1> HIDE DEF here
<1>4. open \in Seq(X) /\ Range(open) = {pool[k] : k \in here}
  BY <1>2, PlacesAre
<1>5. Range(open) = O /\ O \subseteq X
  BY <1>3, <1>4 DEF Opens
<1> HIDE DEF open
<1>6. open \in Seq(O) /\ best \subseteq 1..Len(open) /\ DOMAIN open = 1..Len(open)
  <2>1. \A k \in 1..Len(open) : open[k] \in O
    BY <1>4, <1>5 DEF Range
  <2> QED
    BY <1>4, <2>1
<1>7. \A k \in best : \A o \in O : score[o] <= score[open[k]]
  BY <1>5
<1>8. O # {} => best # {}
  <2> SUFFICES ASSUME O # {} PROVE best # {}
    OBVIOUS
  <2>1. Scored(O, score)
    BY <1>5, FS_Subset DEF Scored
  <2>2. /\ TopOf(O, score) \in Int /\ \A x \in O : score[x] <= TopOf(O, score)
        /\ \E x \in O : score[x] = TopOf(O, score)
    BY <2>1, TopIs
  <2>3. \A x \in O : \E k \in DOMAIN open : open[k] = x
    BY <1>5 DEF Range
  <2> QED
    BY <1>5, <2>2, <2>3
<1> HIDE DEF best
<1>9. tops \in Seq(O) /\ Range(tops) = {open[k] : k \in best}
  BY <1>6, PlacesAre
<1> HIDE DEF tops
<1>10. \A x \in Range(tops) : \A o \in O : score[o] <= score[x]
  BY <1>7, <1>9
<1>11. O # {} => Len(tops) # 0
  <2>1. O # {} => Range(tops) # {}
    BY <1>8, <1>9
  <2>2. tops = <<>> => Range(tops) = {}
    BY DEF Range
  <2>3. tops \in Seq(O)
    BY <1>9
  <2>4. Len(tops) = 0 => tops = <<>>
    BY <2>3
  <2> QED
    BY <2>1, <2>2, <2>4
<1>12. top \in Seq(O) /\ Len(top) = Smaller(1, Len(tops)) /\ Range(top) \subseteq Range(tops)
  BY <1>9, TakeIs
<1> HIDE DEF top
<1>13. Len(top) <= 1 /\ (O # {} => Len(top) = 1)
  <2> DEFINE n == Len(tops)
  <2>1. n \in Nat
    BY <1>9
  <2>2. Len(top) = Smaller(1, n) /\ (O # {} => n # 0)
    BY <1>11, <1>12
  <2> HIDE DEF n
  <2>3. Smaller(1, n) <= 1 /\ (n # 0 => Smaller(1, n) = 1)
    BY <2>1 DEF Smaller
  <2> QED
    BY <2>2, <2>3
<1>14. \A k \in DOMAIN top : top[k] \in Range(tops)
  BY <1>12 DEF Range
<1> QED
  BY <1>1, <1>10, <1>12, <1>13, <1>14 DEF Tops

LEMMA CatIs ==
  ASSUME NEW X, NEW s \in Seq(X), NEW t \in Seq(X), NEW u, u = s \o t
  PROVE  /\ u \in Seq(X) /\ Len(u) = Len(s) + Len(t)
         /\ \A n \in 1..Len(s) : u[n] = s[n]
         /\ \A n \in 1..Len(t) : u[Len(s) + n] = t[n]
<1>1. u \in Seq(X) /\ Len(u) = Len(s) + Len(t) /\ Len(s) \in Nat /\ Len(t) \in Nat
  OBVIOUS
<1>2. \A n \in 1..(Len(s) + Len(t)) : u[n] = IF n <= Len(s) THEN s[n] ELSE t[n - Len(s)]
  OBVIOUS
<1>3. \A n \in 1..Len(t) : Len(s) + n \in 1..(Len(s) + Len(t)) /\ Len(s) + n - Len(s) = n /\ ~(Len(s) + n <= Len(s))
  BY <1>1
<1>4. \A n \in 1..Len(s) : n \in 1..(Len(s) + Len(t)) /\ n <= Len(s)
  BY <1>1
<1> QED
  BY <1>1, <1>2, <1>3, <1>4

\* The selection with the insured hit: it is there, and it is the only one that
\* may share a slot, from the first place.
Insured(sel, chosen, top, O, at) ==
    /\ sel \in Seq(O) /\ Len(sel) <= FinalK
    /\ \A k \in DOMAIN top : top[k] \in Range(sel)
    /\ chosen # <<>> \/ top # <<>> => sel # <<>>
    /\ \A m, n \in DOMAIN sel :
          m < n /\ KeyOf(sel[m], at) = KeyOf(sel[n], at) => m = 1 /\ top # <<>> /\ sel[1] = top[1]

LEMMA TakeAll ==
  ASSUME NEW X, NEW s \in Seq(X), NEW n \in Nat, Len(s) <= n
  PROVE  Take(s, n) = s
<1>1. Len(s) \in Nat
  OBVIOUS
<1>2. Take(s, n) = SubSeq(s, 1, Len(s))
  BY <1>1 DEF Take, Smaller
<1> QED
  BY <1>2

LEMMA EnsureIs ==
  ASSUME NEW A, NEW O, A \subseteq O, NEW at, NEW score, NEW chosen \in Selections(A, at), NEW top,
         Tops(top, O, score)
  PROVE  Insured(EnsureHitPresent(chosen, top), chosen, top, O, at)
<1> DEFINE L == Len(chosen)
           new == Without(top, chosen)
           all == new \o chosen
           sel == Take(all, FinalK)
<1>1. FinalK \in Nat /\ FinalK > 0
  BY RetrievalConstants
<1>2. /\ chosen \in Seq(O) /\ L \in Nat /\ L <= FinalK /\ DOMAIN chosen = 1..L
      /\ \A m, n \in 1..L : m < n => KeyOf(chosen[m], at) # KeyOf(chosen[n], at)
  BY DEF Selections, OneEach
<1>3. top \in Seq(O) /\ Len(top) \in Nat /\ Len(top) <= 1 /\ DOMAIN top = 1..Len(top)
  <2>1. top \in Seq(O) /\ Len(top) <= 1
    BY DEF Tops
  <2> QED
    BY <2>1
<1>4. EnsureHitPresent(chosen, top) = sel
  BY DEF EnsureHitPresent
<1>5. new \in Seq(O) /\ Range(new) = Range(top) \ Range(chosen)
  BY <1>2, <1>3, WithoutIs
<1> HIDE DEF new
<1>6. Len(new) \in Nat /\ DOMAIN new = 1..Len(new)
  BY <1>5
<1>7. CASE Range(new) = {}
  <2>1. new = <<>>
    <3>1. \A k \in 1..Len(new) : new[k] \in Range(new)
      BY <1>6 DEF Range
    <3>2. Len(new) = 0
      BY <1>6, <1>7, <3>1
    <3> QED
      BY <1>5, <3>2
  <2>2. all = chosen
    BY <1>2, <2>1
  <2> HIDE DEF all
  <2>3. sel = chosen
    BY <1>1, <1>2, <2>2, TakeAll
  <2> HIDE DEF sel
  <2>4. \A k \in DOMAIN top : top[k] \in Range(chosen)
    BY <1>5, <1>7 DEF Range
  <2>5. top # <<>> => chosen # <<>>
    <3>1. top # <<>> => 1 \in DOMAIN top
      BY <1>3
    <3>2. chosen = <<>> => Range(chosen) = {}
      BY DEF Range
    <3> QED
      BY <2>4, <3>1, <3>2
  <2> QED
    BY <1>2, <1>4, <2>3, <2>4, <2>5 DEF Insured
<1>8. CASE Range(new) # {}
  <2>1. PICK k \in 1..Len(new) : TRUE
    BY <1>6, <1>8 DEF Range
  <2>2. new[1] \in Range(new)
    BY <1>6, <2>1 DEF Range
  <2>3. PICK j \in DOMAIN top : top[j] = new[1]
    BY <1>5, <2>2 DEF Range
  <2>4. j = 1 /\ Len(top) = 1 /\ top[1] = new[1] /\ top # <<>>
    BY <1>3, <2>3
  <2>5. /\ all \in Seq(O) /\ Len(all) = Len(new) + L
        /\ \A n \in 1..Len(new) : all[n] = new[n]
        /\ \A n \in 1..L : all[Len(new) + n] = chosen[n]
    BY <1>2, <1>5, CatIs
  <2> HIDE DEF all
  <2>6. all[1] = new[1] /\ Len(all) > 0
    BY <1>2, <1>6, <2>1, <2>5
  <2>7. Len(new) = 1
    <3>1. LeftOf(new, top)
      BY <1>2, <1>3, WithoutIs DEF new
    <3>2. PICK pos \in [DOMAIN new -> DOMAIN top] :
             \A m, n \in DOMAIN new : m < n => pos[m] < pos[n]
      BY <3>1 DEF LeftOf
    <3>3. \A m \in 1..Len(new) : pos[m] = 1
      BY <1>3, <1>6, <3>2
    <3> QED
      BY <1>6, <2>1, <3>2, <3>3
  <2>8. \A n \in 2..(L + 1) : all[n] = chosen[n - 1]
    <3> TAKE n \in 2..(L + 1)
    <3>1. n - 1 \in 1..L /\ 1 + (n - 1) = n
      BY <1>2
    <3> QED
      BY <2>5, <2>7, <3>1
  <2>9. /\ sel \in Seq(O) /\ Len(sel) = Smaller(FinalK, Len(all))
        /\ \A m \in DOMAIN sel : m \in DOMAIN all /\ sel[m] = all[m]
    BY <1>1, <2>5, TakeIs
  <2> HIDE DEF sel
  <2>10. /\ Len(sel) \in Nat /\ Len(sel) <= FinalK /\ Len(sel) > 0 /\ DOMAIN sel = 1..Len(sel)
         /\ Len(sel) <= L + 1
    <3>1. Len(all) = 1 + L
      BY <2>5, <2>7
    <3>2. DOMAIN sel = 1..Len(sel)
      BY <2>9
    <3> QED
      BY <1>1, <1>2, <2>9, <3>1, <3>2 DEF Smaller
  <2>11. sel[1] = top[1] /\ 1 \in DOMAIN sel /\ sel # <<>>
    BY <2>4, <2>6, <2>9, <2>10
  <2>12. \A m \in DOMAIN top : top[m] \in Range(sel)
    BY <1>3, <2>4, <2>11 DEF Range
  <2>13. ASSUME NEW m \in DOMAIN sel, NEW n \in DOMAIN sel, m < n, m # 1
         PROVE  KeyOf(sel[m], at) # KeyOf(sel[n], at)
    <3>1. m \in 2..(L + 1) /\ n \in 2..(L + 1) /\ sel[m] = all[m] /\ sel[n] = all[n]
      BY <1>2, <2>9, <2>10, <2>13
    <3>2. sel[m] = chosen[m - 1] /\ sel[n] = chosen[n - 1] /\ m - 1 \in 1..L /\ n - 1 \in 1..L /\ m - 1 < n - 1
      BY <1>2, <2>8, <2>13, <3>1
    <3> QED
      BY <1>2, <3>2
  <2> QED
    BY <1>4, <2>4, <2>9, <2>10, <2>11, <2>12, <2>13 DEF Insured
<1> QED
  BY <1>7, <1>8


\* A selection that the gate let through, or that it was opened for because
\* nothing near the top would have come through.
SelectedBy(sel, chosen, top, allow, X, score, at, wants) ==
    /\ Tops(top, Opens(X, at, allow), score)
    /\ Insured(sel, chosen, top, Opens(X, at, allow), at)
    /\ chosen \in Selections(Opens(Near(X, score), at, allow), at)
    /\ X # {} => chosen # <<>>
    /\ wants => allow
    /\ allow /\ ~wants => Opens(Near(X, score), at, FALSE) = {}

LEMMA SelectIs ==
  ASSUME NEW X, NEW pool \in Seq(X), HasAllOf(pool, X), NEW order \in Seq(X), HasAllOf(order, X),
         NEW score, Scored(X, score), NEW at, NEW wants \in BOOLEAN
  PROVE  \E allow \in BOOLEAN : \E top, chosen :
            SelectedBy(Select(order, pool, score, at, wants), chosen, top, allow, X, score, at, wants)
<1> DEFINE A == Near(X, score)
           s == AboveFloor(order, score)
           D(allow) == DiversifyHits(order, score, at, allow)
           first == D(wants)
           blanked == first = <<>> /\ pool # <<>>
           allow == blanked \/ wants
           chosen == D(allow)
           top == DenseTop(pool, score, at, allow)
<1>1. Select(order, pool, score, at, wants) = EnsureHitPresent(chosen, top)
  <2>1. chosen = IF blanked THEN D(TRUE) ELSE first
    <3>1. CASE blanked
      <4>1. allow = TRUE
        BY <3>1
      <4> QED
        BY <3>1, <4>1
    <3>2. CASE ~blanked
      <4>1. allow = wants
        BY <3>2
      <4> QED
        BY <3>2, <4>1
    <3> QED
      BY <3>1, <3>2
  <2> QED
    BY <2>1 DEF Select
<1>2. s \in Seq(A) /\ HasAllOf(s, A)
  <2>1. s \in Seq(X) /\ Range(s) = A
    BY AboveFloorIs
  <2> HIDE DEF s
  <2>2. DOMAIN s = 1..Len(s) /\ \A k \in DOMAIN s : s[k] \in Range(s)
    BY <2>1 DEF Range
  <2> HIDE DEF A
  <2> QED
    BY <2>1, <2>2 DEF HasAllOf
<1> HIDE DEF A
<1>3. ASSUME NEW any \in BOOLEAN
      PROVE  D(any) \in Selections(Opens(A, at, any), at) /\ (D(any) = <<>> => Opens(A, at, any) = {})
  <2>1. s = AboveFloor(order, score)
    OBVIOUS
  <2> HIDE DEF s
  <2> QED
    BY <1>2, <2>1, DiversifyIs
<1> HIDE DEF D, s
<1>4. allow \in BOOLEAN
  OBVIOUS
<1>5. Tops(top, Opens(X, at, allow), score)
  <2> HIDE DEF allow
  <2> QED
    BY <1>4, DenseTopIs
<1>6. A \subseteq X /\ (X # {} => A # {})
  <2>1. CASE X = {}
    BY <2>1 DEF A, Near
  <2>2. CASE X # {}
    BY <2>2, NearIs DEF A
  <2> QED
    BY <2>1, <2>2
<1>7. Opens(A, at, allow) \subseteq Opens(X, at, allow)
  BY <1>6 DEF Opens
<1>8. chosen \in Selections(Opens(A, at, allow), at)
  <2> HIDE DEF allow
  <2> QED
    BY <1>3, <1>4
<1>9. pool = <<>> <=> X = {}
  <2>1. pool = <<>> => X = {}
    BY DEF HasAllOf, Range
  <2>2. X = {} => Len(pool) = 0
    <3>1. \A k \in 1..Len(pool) : pool[k] \in X
      OBVIOUS
    <3>2. Len(pool) \in Nat
      OBVIOUS
    <3> QED
      BY <3>1, <3>2
  <2>3. Len(pool) = 0 => pool = <<>>
    OBVIOUS
  <2> QED
    BY <2>1, <2>2, <2>3
<1>10. X # {} => chosen # <<>>
  <2> SUFFICES ASSUME X # {} PROVE chosen # <<>>
    OBVIOUS
  <2>1. CASE blanked
    <3>1. Opens(A, at, TRUE) = A
      BY DEF Opens
    <3>2. D(TRUE) # <<>>
      BY <1>3, <1>6, <3>1
    <3>3. allow = TRUE
      BY <2>1
    <3> HIDE DEF allow
    <3> QED
      BY <3>2, <3>3
  <2>2. CASE ~blanked
    <3>1. allow = wants /\ first # <<>>
      BY <1>9, <2>2
    <3> HIDE DEF allow
    <3> QED
      BY <3>1
  <2> QED
    BY <2>1, <2>2
<1>11. allow /\ ~wants => Opens(A, at, FALSE) = {}
  <2> SUFFICES ASSUME allow, ~wants PROVE Opens(A, at, FALSE) = {}
    OBVIOUS
  <2>1. D(wants) = <<>> /\ wants = FALSE
    OBVIOUS
  <2>2. Opens(A, at, wants) = {}
    BY <1>3, <2>1
  <2> QED
    BY <2>1, <2>2
<1>12. wants => allow
  OBVIOUS
<1> HIDE DEF allow, top, chosen
<1>13. Insured(EnsureHitPresent(chosen, top), chosen, top, Opens(X, at, allow), at)
  BY <1>5, <1>7, <1>8, EnsureIs
<1>14. SelectedBy(EnsureHitPresent(chosen, top), chosen, top, allow, X, score, at, wants)
  BY <1>5, <1>8, <1>10, <1>11, <1>12, <1>13 DEF SelectedBy, A
<1> QED
  BY <1>1, <1>4, <1>14

\* A filter that keeps what scores as high as something it keeps.
Upward(kept, sel, score) ==
    \A x \in Range(sel), y \in Range(kept) : score[y] <= score[x] => x \in Range(kept)

LEMMA LeftOfSelf ==
  ASSUME NEW X, NEW s \in Seq(X)
  PROVE  LeftOf(s, s)
<1> DEFINE f == [k \in DOMAIN s |-> k]
<1>1. /\ f \in [DOMAIN s -> DOMAIN s]
      /\ \A m \in DOMAIN s : s[m] = s[f[m]]
      /\ \A m, n \in DOMAIN s : m < n => f[m] < f[n]
  OBVIOUS
<1> HIDE DEF f
<1> QED
  BY <1>1 DEF LeftOf

\* A filter that leaves something of what scores above zero.
Leaves(kept, sel, score) ==
    sel # <<>> /\ (FloorPercent = 0 \/ \E x \in Range(sel) : score[x] > 0) => kept # <<>>

LEMMA SufficientIs ==
  ASSUME NEW X, NEW sel \in Seq(X), NEW score, Scored(X, score), NEW kept, kept = Sufficient(sel, score)
  PROVE  /\ kept \in Seq(X) /\ LeftOf(kept, sel) /\ Upward(kept, sel, score)
         /\ Range(kept) \subseteq Range(sel) /\ Leaves(kept, sel, score)
<1> DEFINE Y == Range(sel)
           good == {k \in DOMAIN sel : score[sel[k]] >= MinScore}
           first == Places(sel, good)
           top == TopOf(Y, score)
           near == {k \in DOMAIN sel : 100 * score[sel[k]] >= top * FloorPercent}
           second == Places(sel, near)
<1>1. kept = IF MinScore = 0 \/ sel = <<>> \/ (first = <<>> /\ FloorPercent = 0) THEN sel
             ELSE IF first # <<>> THEN first ELSE second
  BY DEF Sufficient, Only, TopOf
<1>2. good \subseteq 1..Len(sel) /\ near \subseteq 1..Len(sel) /\ DOMAIN sel = 1..Len(sel)
  OBVIOUS
<1>3. Y \subseteq X /\ \A k \in DOMAIN sel : sel[k] \in Y
  BY DEF Range
<1>4. Scored(Y, score) /\ \A y \in Y : score[y] \in Int
  BY <1>3, FS_Subset DEF Scored
<1>5. FloorPercent \in Int /\ FloorPercent >= 0 /\ FloorPercent <= 100 /\ MinScore \in Int
  <2>1. FloorPercent \in 0..100 /\ MinScore \in Nat
    BY RetrievalConstants
  <2> QED
    BY <2>1
<1>6. Y # {} => top \in Int /\ \E y \in Y : score[y] = top
  BY <1>4, TopIs
<1>7. Y # {} => \A y \in Y : score[y] <= top
  BY <1>4, TopIs
<1> HIDE DEF top
<1>8. \A x \in Y : \E k \in DOMAIN sel : sel[k] = x
  BY DEF Range
<1>9. {sel[k] : k \in good} = {y \in Y : score[y] >= MinScore}
  BY <1>3, <1>8
<1>10. {sel[k] : k \in near} = {y \in Y : 100 * score[y] >= top * FloorPercent}
  BY <1>3, <1>8
<1> HIDE DEF good, near
<1>11. first \in Seq(X) /\ LeftOf(first, sel) /\ Range(first) = {sel[k] : k \in good}
  BY <1>2, PlacesAre
<1>12. second \in Seq(X) /\ LeftOf(second, sel) /\ Range(second) = {sel[k] : k \in near}
  BY <1>2, PlacesAre
<1> HIDE DEF first, second, Y
<1>13. CASE kept = sel
  BY <1>13, LeftOfSelf DEF Upward, Y, Leaves
<1>14. CASE kept = first /\ first # <<>>
  <2>1. Range(first) = {y \in Y : score[y] >= MinScore}
    BY <1>9, <1>11
  <2>2. \A x \in Y, y \in Range(first) : score[y] <= score[x] => x \in Range(first)
    BY <1>4, <1>5, <2>1
  <2> QED
    BY <1>11, <1>14, <2>1, <2>2 DEF Upward, Y, Leaves
<1>15. CASE kept = second /\ FloorPercent # 0 /\ sel # <<>>
  <2>1. Range(second) = {y \in Y : 100 * score[y] >= top * FloorPercent}
    BY <1>10, <1>12
  <2>2. Y # {}
    <3>1. 1 \in DOMAIN sel
      BY <1>15
    <3> QED
      BY <1>3, <3>1
  <2>3. top * FloorPercent \in Int
    BY <1>5, <1>6, <2>2
  <2>4. \A x \in Y, y \in Range(second) : score[y] <= score[x] => x \in Range(second)
    BY <1>4, <2>1, <2>3
  <2>5. ASSUME NEW x \in Y, score[x] > 0 PROVE second # <<>>
    <3>1. top \in Int /\ top > 0
      BY <1>4, <1>6, <1>7, <2>2, <2>5
    <3>2. 100 * top >= top * FloorPercent
      BY <1>5, <3>1
    <3>3. \E y \in Y : y \in Range(second)
      BY <1>6, <2>1, <2>2, <3>2
    <3>4. second = <<>> => Range(second) = {}
      BY DEF Range
    <3> QED
      BY <3>3, <3>4
  <2> QED
    BY <1>12, <1>15, <2>1, <2>4, <2>5 DEF Upward, Y, Leaves
<1> QED
  BY <1>1, <1>13, <1>14, <1>15


\* What a search has found of a pool of chunks X.
Gated(hits, X, score, wants) ==
    /\ X # {} /\ TopOf(X, score) > 0 => hits # <<>>
    /\ ~wants /\ (\E id \in Range(hits) : IsTable(index[id])) =>
          \A id \in X : IsTable(index[id]) \/ 100 * score[id] < FloorPercent * TopOf(X, score)

TopInsured(hits, X, score, wants) ==
    LET best == TopOf({id \in X : wants \/ ~IsTable(index[id])} \cup Range(hits), score)
    IN  hits # <<>> =>
          /\ FinalK <= MaxHits => \E id \in Range(hits) : score[id] = best
          /\ \A m, n \in DOMAIN hits :
                m < n /\ KeyOf(hits[m], index) = KeyOf(hits[n], index) => m = 1 /\ score[hits[1]] = best

\* The first of what was found.
FirstOnes(hits, found) == hits = Take(found, MaxHits)

\* A sequence over O, as a fact that the provers need not look into.
IsSeq(s, O) == s \in Seq(O)

LEMMA FirstOnesAre ==
  ASSUME NEW O, NEW found, IsSeq(found, O), NEW hits, FirstOnes(hits, found)
  PROVE  /\ IsSeq(hits, O) /\ LeftOf(hits, found) /\ Range(hits) \subseteq Range(found)
         /\ Len(hits) = Smaller(MaxHits, Len(found)) /\ Len(found) \in Nat /\ Len(hits) \in Nat
         /\ DOMAIN hits = 1..Len(hits) /\ DOMAIN found = 1..Len(found)
         /\ \A k \in DOMAIN found : found[k] \in O
         /\ \A k \in DOMAIN hits : hits[k] \in O /\ k \in DOMAIN found /\ hits[k] = found[k]
         /\ Len(found) <= MaxHits => hits = found
         /\ found # <<>> <=> Len(found) # 0
         /\ hits # <<>> <=> Len(hits) # 0
<1>1. found \in Seq(O) /\ MaxHits \in Nat
  BY LibraryConstants DEF IsSeq
<1>2. PICK t : t = Take(found, MaxHits)
  OBVIOUS
<1>3. t \in Seq(O)
  BY <1>1, <1>2, TakeIs
<1>4. LeftOf(t, found) /\ Range(t) \subseteq Range(found) /\ Len(t) = Smaller(MaxHits, Len(found))
  BY <1>1, <1>2, TakeIs
<1>5. \A k \in DOMAIN t : k \in DOMAIN found /\ t[k] = found[k]
  BY <1>1, <1>2, TakeIs
<1>6. Len(found) <= MaxHits => t = found
  BY <1>1, <1>2, TakeAll
<1>7. /\ Len(found) \in Nat /\ DOMAIN found = 1..Len(found)
      /\ \A k \in DOMAIN found : found[k] \in O
      /\ found # <<>> <=> Len(found) # 0
  BY <1>1
<1>8. /\ Len(t) \in Nat /\ DOMAIN t = 1..Len(t)
      /\ \A k \in DOMAIN t : t[k] \in O
      /\ t # <<>> <=> Len(t) # 0
  BY <1>3
<1>9. hits = t
  BY <1>2 DEF FirstOnes
<1> QED
  BY <1>3, <1>4, <1>5, <1>6, <1>7, <1>8, <1>9 DEF IsSeq

LEMMA LeftOfShorter ==
  ASSUME NEW X, NEW s, IsSeq(s, X), NEW t, IsSeq(t, X), LeftOf(t, s)
  PROVE  Len(t) <= Len(s)
<1>1. DOMAIN s = 1..Len(s) /\ DOMAIN t = 1..Len(t) /\ Len(s) \in Nat /\ Len(t) \in Nat
  BY DEF IsSeq
<1>2. PICK pos \in [DOMAIN t -> DOMAIN s] : \A m, n \in DOMAIN t : m < n => pos[m] < pos[n]
  BY DEF LeftOf
<1>3. \A m \in 1..Len(t) : pos[m] \in Int /\ pos[m] >= 1 /\ pos[m] <= Len(s)
  BY <1>1, <1>2
<1>4. \A m, n \in 1..Len(t) : m < n => pos[m] < pos[n]
  BY <1>1, <1>2
<1>5. Len(t) > 0 => pos[1] >= 1
  BY <1>1, <1>3
<1> DEFINE L == Len(t)
<1>6. \A m \in 1..L : m <= pos[m]
  <2> HIDE DEF L
  <2>1. L \in Nat /\ (\A m \in 1..L : pos[m] \in Int) /\ (L > 0 => pos[1] >= 1)
        /\ (\A m, n \in 1..L : m < n => pos[m] < pos[n])
    BY <1>1, <1>3, <1>4, <1>5 DEF L
  <2> QED
    BY <2>1, Climbs
<1> QED
  BY <1>1, <1>3, <1>6

\* O is what the gate lets through.
AllOpen(O, X, allow) == O = Opens(X, index, allow)

\* "hits" are what is left of a selection with its best in it, cut at the end.
LEMMA KeptAreInsured ==
  ASSUME NEW X, NEW score, Scored(X, score), X # {}, NEW wants \in BOOLEAN, NEW allow \in BOOLEAN,
         NEW sel, NEW chosen, NEW top, SelectedBy(sel, chosen, top, allow, X, score, index, wants),
         NEW O, AllOpen(O, X, allow),
         NEW found, IsSeq(found, O), NEW hits, IsSeq(hits, O), LeftOf(found, sel), Upward(found, sel, score),
         Range(found) \subseteq Range(sel), Leaves(found, sel, score),
         FirstOnes(hits, found), LeftOf(hits, found)
  PROVE  Gated(hits, X, score, wants) /\ TopInsured(hits, X, score, wants)
<1>1. /\ Tops(top, O, score) /\ Insured(sel, chosen, top, O, index)
      /\ chosen \in Selections(Opens(Near(X, score), index, allow), index)
      /\ chosen # <<>> /\ (wants => allow)
      /\ allow /\ ~wants => Opens(Near(X, score), index, FALSE) = {}
  BY DEF SelectedBy, AllOpen
<1>2. MaxHits \in Nat /\ MaxHits > 0 /\ FinalK \in Nat
  BY LibraryConstants, RetrievalConstants
<1>3. O \subseteq X /\ \A x \in X : score[x] \in Int
  BY DEF Opens, Scored, AllOpen
<1>4. Near(X, score) \subseteq X
  BY NearIs
<1>5. chosen \in Seq(Opens(Near(X, score), index, allow))
  BY <1>1 DEF Selections
<1>6. chosen[1] \in Opens(Near(X, score), index, allow)
  <2> DEFINE C == Opens(Near(X, score), index, allow)
  <2> HIDE DEF C
  <2>1. chosen \in Seq(C) /\ chosen # <<>>
    BY <1>1, <1>5 DEF C
  <2>2. chosen[1] \in C
    BY <2>1
  <2> QED
    BY <2>2 DEF C
<1>7. chosen[1] \in O /\ chosen[1] \in Near(X, score)
  BY <1>4, <1>6 DEF Opens, AllOpen
<1> DEFINE t == top[1]
<1>8. t \in O /\ t \in Range(sel) /\ \A o \in O : score[o] <= score[t]
  <2>1. top \in Seq(O) /\ Len(top) = 1
    BY <1>1, <1>7 DEF Tops
  <2>2. 1 \in DOMAIN top
    BY <2>1
  <2>3. t \in O
    BY <2>1, <2>2
  <2>4. t \in Range(sel)
    BY <1>1, <2>2 DEF Insured
  <2>5. \A o \in O : score[o] <= score[t]
    BY <1>1, <2>2 DEF Tops
  <2> QED
    BY <2>3, <2>4, <2>5
<1>9. sel \in Seq(O) /\ Len(sel) <= FinalK /\ sel # <<>>
  BY <1>1 DEF Insured
<1> HIDE DEF t
<1>10. /\ Len(hits) = Smaller(MaxHits, Len(found)) /\ Range(hits) \subseteq Range(found)
       /\ \A k \in DOMAIN hits : k \in DOMAIN found /\ hits[k] = found[k]
  BY FirstOnesAre
<1>11. /\ Len(found) \in Nat /\ Len(hits) \in Nat /\ DOMAIN hits = 1..Len(hits)
       /\ DOMAIN sel = 1..Len(sel) /\ DOMAIN found = 1..Len(found) /\ Len(sel) \in Nat
       /\ \A k \in DOMAIN found : found[k] \in O
       /\ \A k \in DOMAIN hits : hits[k] \in O
       /\ found # <<>> <=> Len(found) # 0
       /\ hits # <<>> <=> Len(hits) # 0
  BY <1>9, FirstOnesAre
<1>12. found # <<>> => hits # <<>>
  <2>1. found # <<>> => Len(found) # 0
    BY <1>11
  <2>2. Len(found) # 0 => Len(hits) # 0
    BY <1>2, <1>10, <1>11 DEF Smaller
  <2>3. hits = <<>> => Len(hits) = 0
    BY <1>11
  <2> QED
    BY <2>1, <2>2, <2>3
<1>13. Gated(hits, X, score, wants)
  <2>1. ASSUME TopOf(X, score) > 0 PROVE hits # <<>>
    <3>1. FloorPercent = 0 \/ score[t] > 0
      <4>1. FloorPercent # 0 => score[chosen[1]] > 0
        BY <1>7, <2>1, NearIs
      <4>2. score[chosen[1]] <= score[t] /\ score[t] \in Int /\ score[chosen[1]] \in Int
        BY <1>3, <1>7, <1>8
      <4> QED
        BY <4>1, <4>2
    <3> QED
      BY <1>8, <1>9, <1>12, <3>1 DEF Leaves
  <2>2. ASSUME ~wants, NEW id \in Range(hits), IsTable(index[id]), NEW x \in X
        PROVE  IsTable(index[x]) \/ 100 * score[x] < FloorPercent * TopOf(X, score)
    <3>1. id \in O
      BY <1>11 DEF Range
    <3>2. allow
      BY <2>2, <3>1 DEF Opens, AllOpen
    <3>3. Opens(Near(X, score), index, FALSE) = {}
      BY <1>1, <2>2, <3>2
    <3>4. IsTable(index[x]) \/ x \notin Near(X, score)
      BY <3>3 DEF Opens
    <3> QED
      BY <3>4, NearIs
  <2> QED
    BY <2>1, <2>2 DEF Gated
<1> DEFINE S == {id \in X : wants \/ ~IsTable(index[id])} \cup Range(hits)
           best == TopOf(S, score)
<1>14. ASSUME hits # <<>> PROVE t \in Range(found)
  <2>1. found # <<>>
    <3>1. Len(hits) # 0
      BY <1>11, <1>14
    <3>2. Len(found) # 0
      BY <1>10, <1>11, <3>1 DEF Smaller
    <3> QED
      BY <1>11, <3>2
  <2>2. found[1] \in Range(found) /\ found[1] \in O
    <3>1. 1 \in DOMAIN found
      BY <1>11, <2>1
    <3> QED
      BY <1>11, <3>1 DEF Range
  <2> QED
    BY <1>8, <2>2 DEF Upward
<1>15. S \subseteq O
  <2>1. Range(hits) \subseteq O
    BY <1>11 DEF Range
  <2>2. {id \in X : wants \/ ~IsTable(index[id])} \subseteq O
    BY <1>1 DEF Opens, AllOpen
  <2> QED
    BY <2>1, <2>2
<1>16. ASSUME t \in Range(hits) PROVE score[t] = best
  <2>1. t \in S
    BY <1>16
  <2> HIDE DEF S
  <2>2. Scored(S, score) /\ S # {}
    BY <1>3, <1>15, <2>1, FS_Subset DEF Scored
  <2>3. /\ TopOf(S, score) \in Int /\ \A x \in S : score[x] <= TopOf(S, score)
        /\ \E x \in S : score[x] = TopOf(S, score)
    BY <2>2, TopIs
  <2>4. score[t] \in Int /\ \A x \in S : score[x] <= score[t]
    BY <1>3, <1>8, <1>15
  <2> QED
    BY <2>1, <2>3, <2>4
<1>17. ASSUME FinalK <= MaxHits, hits # <<>> PROVE \E id \in Range(hits) : score[id] = best
  <2>1. Len(found) <= Len(sel)
    <3>1. IsSeq(sel, O)
      BY <1>9 DEF IsSeq
    <3> QED
      BY <1>11, <3>1, LeftOfShorter
  <2>2. Len(found) <= MaxHits
    BY <1>2, <1>9, <1>11, <1>17, <2>1
  <2>3. hits = found
    BY <2>2, FirstOnesAre
  <2>4. t \in Range(hits)
    BY <1>14, <1>17, <2>3
  <2> HIDE DEF best
  <2> QED
    BY <1>16, <2>4
<1>18. ASSUME NEW m \in DOMAIN hits, NEW n \in DOMAIN hits, m < n,
              KeyOf(hits[m], index) = KeyOf(hits[n], index)
       PROVE  m = 1 /\ score[hits[1]] = best
  <2>1. LeftOf(hits, sel)
    BY <1>11, LeftOfLeft
  <2>2. PICK pos \in [DOMAIN hits -> DOMAIN sel] :
           /\ \A j \in DOMAIN hits : hits[j] = sel[pos[j]]
           /\ \A i, j \in DOMAIN hits : i < j => pos[i] < pos[j]
    BY <2>1 DEF LeftOf
  <2>3. pos[m] \in DOMAIN sel /\ pos[n] \in DOMAIN sel /\ pos[m] < pos[n]
    BY <1>18, <2>2
  <2>4. KeyOf(sel[pos[m]], index) = KeyOf(sel[pos[n]], index)
    BY <1>18, <2>2
  <2>5. pos[m] = 1 /\ sel[1] = t
    BY <1>1, <2>3, <2>4 DEF Insured, t
  <2>6. m = 1
    <3>1. 1 \in DOMAIN hits /\ m \in Int /\ m >= 1
      BY <1>11
    <3>2. 1 < m => pos[1] < pos[m] /\ pos[1] >= 1 /\ pos[1] \in Int
      BY <1>11, <2>2, <3>1
    <3> QED
      BY <2>5, <3>1, <3>2
  <2>7. hits[1] = t /\ t \in Range(hits)
    BY <2>2, <2>5, <2>6 DEF Range
  <2> HIDE DEF best
  <2> QED
    BY <1>16, <2>6, <2>7
<1>19. TopInsured(hits, X, score, wants)
  BY <1>17, <1>18 DEF TopInsured
<1> QED
  BY <1>13, <1>19


\* What Rank makes of a selection.
FoundOf(sel, score, scope) == Only(Sufficient(sel, score), LAMBDA id : index[id].doc \in scope)

\* The filter by the scope has nothing left to do.
LEMMA ScopeKeeps ==
  ASSUME NEW O, NEW score, Scored(O, score), NEW scope, \A x \in O : index[x].doc \in scope,
         NEW sel, IsSeq(sel, O), NEW found, found = FoundOf(sel, score, scope)
  PROVE  /\ IsSeq(found, O) /\ LeftOf(found, sel) /\ Upward(found, sel, score)
         /\ Range(found) \subseteq Range(sel) /\ Leaves(found, sel, score)
<1> DEFINE kept == Sufficient(sel, score)
           at == {k \in DOMAIN kept : index[kept[k]].doc \in scope}
<1>1. sel \in Seq(O)
  BY DEF IsSeq
<1>2. /\ kept \in Seq(O) /\ LeftOf(kept, sel) /\ Upward(kept, sel, score)
      /\ Range(kept) \subseteq Range(sel) /\ Leaves(kept, sel, score)
  BY <1>1, SufficientIs
<1>3. found = Places(kept, at)
  BY DEF FoundOf, Only
<1> HIDE DEF kept
<1>4. at = 1..Len(kept) /\ DOMAIN kept = 1..Len(kept)
  BY <1>2
<1> HIDE DEF at
<1>5. found \in Seq(O) /\ LeftOf(found, kept) /\ Range(found) = {kept[k] : k \in at}
  BY <1>2, <1>3, <1>4, PlacesAre
<1>6. Range(found) = Range(kept)
  BY <1>4, <1>5 DEF Range
<1>7. kept # <<>> => found # <<>>
  <2>1. kept # <<>> => 1 \in DOMAIN kept
    BY <1>2
  <2>2. kept # <<>> => \E x : x \in Range(found)
    BY <1>6, <2>1 DEF Range
  <2>3. found = <<>> => Range(found) = {}
    BY DEF Range
  <2> QED
    BY <2>2, <2>3
<1>8. LeftOf(found, sel)
  <2>1. DOMAIN found \subseteq Int /\ DOMAIN kept \subseteq Int /\ DOMAIN sel \subseteq Int
    BY <1>1, <1>2, <1>5
  <2> QED
    BY <1>2, <1>5, <2>1, LeftOfLeft
<1>9. Upward(found, sel, score) /\ Range(found) \subseteq Range(sel)
  BY <1>2, <1>6 DEF Upward
<1>10. Leaves(found, sel, score)
  BY <1>2, <1>7 DEF Leaves
<1> QED
  BY <1>5, <1>8, <1>9, <1>10 DEF IsSeq

InScope(X, scope) == \A id \in X : index[id].doc \in scope

\* A pool, and what the reranker makes of it.
LEMMA PoolIs ==
  ASSUME NEW scope, NEW score, NEW pool, PoolSound(pool, score, scope),
         NEW X, X = Range(pool), NEW order \in SetToSeqs(X)
  PROVE  /\ pool \in Seq(X) /\ HasAllOf(pool, X) /\ order \in Seq(X) /\ HasAllOf(order, X)
         /\ Scored(X, score) /\ InScope(X, scope) /\ X \subseteq DOMAIN index
<1>1. pool \in Seq(DOMAIN index)
  BY DEF PoolSound
<1>2. DOMAIN pool = 1..Len(pool) /\ Len(pool) \in Int /\ 1 \in Int
  BY <1>1
<1>3. X = {pool[k] : k \in DOMAIN pool}
  BY DEF Range
<1>4. pool \in Seq(X) /\ X \subseteq DOMAIN index
  BY <1>1, <1>2, <1>3
<1>5. IsFiniteSet(X)
  <2>1. IsFiniteSet(DOMAIN pool)
    BY <1>2, FS_Interval
  <2> QED
    BY <1>3, <2>1, ImageIsFinite
<1>6. Scored(X, score) /\ InScope(X, scope) /\ HasAllOf(pool, X)
  BY <1>5 DEF PoolSound, Scored, InScope, HasAllOf
<1>7. order \in Seq(X) /\ HasAllOf(order, X)
  BY <1>5, OrderIs DEF HasAllOf
<1> QED
  BY <1>4, <1>6, <1>7

\* What a search finds of a pool.
LEMMA RankFinds ==
  ASSUME NEW scope, NEW score, NEW pool, PoolSound(pool, score, scope),
         NEW order \in SetToSeqs(Range(pool)), NEW wants \in BOOLEAN,
         NEW sel, sel = Select(order, pool, score, index, wants),
         NEW hits, FirstOnes(hits, FoundOf(sel, score, scope))
  PROVE  /\ Gated(hits, Range(pool), score, wants) /\ TopInsured(hits, Range(pool), score, wants)
         /\ InScope(Range(hits), scope)
<1> DEFINE X == Range(pool)
<1>1. /\ pool \in Seq(X) /\ HasAllOf(pool, X) /\ order \in Seq(X) /\ HasAllOf(order, X)
      /\ Scored(X, score) /\ InScope(X, scope)
  BY PoolIs
<1> HIDE DEF X
<1>2. PICK allow \in BOOLEAN :
         \E top, chosen : SelectedBy(sel, chosen, top, allow, X, score, index, wants)
  BY <1>1, SelectIs
<1>3. PICK top, chosen : SelectedBy(sel, chosen, top, allow, X, score, index, wants)
  BY <1>2
<1> DEFINE O == Opens(X, index, allow)
           found == FoundOf(sel, score, scope)
<1>4. O \subseteq X /\ Scored(O, score) /\ \A x \in O : index[x].doc \in scope
  <2>1. O \subseteq X
    BY DEF Opens
  <2> QED
    BY <1>1, <2>1, FS_Subset DEF Scored, InScope
<1>5. IsSeq(sel, O) /\ AllOpen(O, X, allow)
  BY <1>3 DEF SelectedBy, Insured, IsSeq, AllOpen
<1> HIDE DEF O
<1>6. /\ IsSeq(found, O) /\ LeftOf(found, sel) /\ Upward(found, sel, score)
      /\ Range(found) \subseteq Range(sel) /\ Leaves(found, sel, score)
  BY <1>4, <1>5, ScopeKeeps
<1>7. FirstOnes(hits, found)
  OBVIOUS
<1> HIDE DEF found
<1>8. IsSeq(hits, O) /\ LeftOf(hits, found) /\ \A k \in DOMAIN hits : hits[k] \in O
  BY <1>6, <1>7, FirstOnesAre
<1>9. InScope(Range(hits), scope)
  BY <1>4, <1>8 DEF InScope, Range
<1>10. Gated(hits, X, score, wants) /\ TopInsured(hits, X, score, wants)
  <2>1. CASE X # {}
    BY <1>1, <1>3, <1>5, <1>6, <1>7, <1>8, <2>1, KeptAreInsured
  <2>2. CASE X = {}
    <3>1. hits = <<>> /\ Range(hits) = {}
      <4>1. DOMAIN hits = 1..Len(hits) /\ Len(hits) \in Nat /\ (hits # <<>> <=> Len(hits) # 0)
        BY <1>6, <1>7, FirstOnesAre
      <4>2. DOMAIN hits = {}
        BY <1>4, <1>8, <2>2
      <4>3. Len(hits) = 0
        BY <4>1, <4>2
      <4> QED
        BY <4>1, <4>2, <4>3 DEF Range
    <3> QED
      BY <2>2, <3>1 DEF Gated, TopInsured
  <2> QED
    BY <2>1, <2>2
<1> QED
  BY <1>9, <1>10 DEF X

(***************************************************************************)
(* Presentation                                                            *)
(***************************************************************************)
\* A document's shards of one table have different packs.
TablesApart ==
    \A x, y \in DOMAIN index :
        /\ IsTable(index[x]) /\ IsTable(index[y]) /\ index[x].doc = index[y].doc
        /\ Anchor(index[x]) = Anchor(index[y]) /\ index[x].pack = index[y].pack
        => x = y

LEMMA TablesAreApart ==
  ASSUME Published, index # None
  PROVE  TablesApart
<1> SUFFICES ASSUME NEW x \in DOMAIN index, NEW y \in DOMAIN index,
                    IsTable(index[x]), IsTable(index[y]), index[x].doc = index[y].doc,
                    Anchor(index[x]) = Anchor(index[y]), index[x].pack = index[y].pack
             PROVE  x = y
  BY DEF TablesApart
<1> DEFINE d == x[1]
           m == x[2]
           n == y[2]
           chunks == Chunks(d)
<1>1. Stored(x) /\ Stored(y) /\ y[1] = d
  BY IndexIsStored DEF StoredIndex, Stored
<1>2. d \in Doc /\ m \in DOMAIN chunks /\ x = <<d, m>>
  BY StoreIs
<1>3. y = <<d, n>> /\ n \in DOMAIN chunks
  BY <1>1, StoreIs
<1> HIDE DEF d, m, n
<1>4. /\ index[x].kind = chunks[m].kind /\ index[x].els = chunks[m].els /\ index[x].pack = chunks[m].pack
      /\ index[y].kind = chunks[n].kind /\ index[y].els = chunks[n].els /\ index[y].pack = chunks[n].pack
  BY <1>2, <1>3, StoreIs
<1>5. chunks[m].kind # "prose" /\ chunks[n].kind # "prose"
  BY <1>4 DEF IsTable
<1>6. chunks[m].els = chunks[n].els /\ chunks[m].pack = chunks[n].pack /\ chunks[m].pack \in Int
  BY <1>1, <1>4, <1>5 DEF Stored
<1>7. chunks \in Seq(ChunkOf(papers[d])) /\ InReadingOrder(chunks)
  BY <1>2, ChunksAre
<1> HIDE DEF chunks
<1>8. \A a, b \in DOMAIN chunks : a < b /\ chunks[a].kind # "prose" /\ chunks[a].els = chunks[b].els =>
         chunks[a].pack < chunks[b].pack
  BY <1>7 DEF InReadingOrder
<1>9. m \in Int /\ n \in Int
  BY <1>2, <1>3, <1>7
<1>10. ~(m < n) /\ ~(n < m)
  BY <1>2, <1>3, <1>5, <1>6, <1>8
<1>11. m = n
  BY <1>9, <1>10
<1> QED
  BY <1>2, <1>3, <1>11

\* Every shard that is stored under the table id of a chunk.
Shards(id) == {s \in DOMAIN index : IsTable(index[s]) /\ Anchor(index[s]) = Anchor(index[id])}
ByPack(id) ==
    [p \in Shards(id) \X Shards(id) |->
        \/ index[p[1]].pack < index[p[2]].pack
        \/ index[p[1]].pack = index[p[2]].pack /\ p[1][1] < p[2][1]]

LEMMA SiblingsAre ==
  ASSUME StoredIndex, index # None, TablesApart, NEW id
  PROVE  /\ SiblingsByTable(id, index) \in Seq(Shards(id))
         /\ Lists(SiblingsByTable(id, index), Shards(id), ByPack(id))
<1> DEFINE S == Shards(id)
           R == ByPack(id)
           f == [s \in S |-> index[s].pack]
           g == [s \in S |-> s[1]]
<1>1. SiblingsByTable(id, index) = InOrder(S, R)
  BY DEF SiblingsByTable, Sorted, Shards, ByPack
<1>2. IsFiniteSet(S) /\ S \subseteq DOMAIN index
  BY FS_Subset DEF StoredIndex, Shards
<1>3. \A s \in S : Stored(s) /\ IsTable(index[s]) /\ Anchor(index[s]) = Anchor(index[id])
  BY DEF Shards, StoredIndex
<1>4. \A x, y \in S : R[<<x, y>>] <=> \/ index[x].pack < index[y].pack
                                      \/ index[x].pack = index[y].pack /\ x[1] < y[1]
  BY DEF ByPack
<1> HIDE DEF S, R
<1>5. \A x \in S : f[x] \in Int /\ g[x] \in Int
  BY <1>3 DEF Stored
<1>6. \A x, y \in S : f[x] = f[y] /\ g[x] = g[y] => x = y
  <2> TAKE x \in S, y \in S
  <2>1. f[x] = f[y] /\ g[x] = g[y] => index[x].pack = index[y].pack /\ index[x].doc = index[y].doc
    BY <1>3 DEF Stored
  <2> QED
    BY <1>2, <1>3, <2>1 DEF TablesApart
<1>7. \A x, y \in S : R[<<x, y>>] <=> \/ f[x] < f[y]
                                      \/ f[x] = f[y] /\ g[x] < g[y]
                                      \/ f[x] = f[y] /\ g[x] = g[y] /\ g[x] < g[y]
  BY <1>4
<1> HIDE DEF f, g
<1>8. IsOrder(R, S)
  <2>1. ByNumbers(R, S, f, g, g)
    BY <1>5, <1>6, <1>7 DEF ByNumbers
  <2> QED
    BY <2>1, ByThree
<1>9. InOrder(S, R) \in Seq(S) /\ Lists(InOrder(S, R), S, R)
  BY <1>2, <1>8, InOrderLists
<1> QED
  BY <1>1, <1>9 DEF S, R

\* What a table's window has of the table's own document: all of the table, in
\* the order of its packs.
WholeTable(id, body, at) ==
    LET own == Only(body, LAMBDA s : at[s].doc = at[id].doc)
    IN  /\ Range(own) = {s \in DOMAIN at : /\ at[s].doc = at[id].doc /\ IsTable(at[s])
                                              /\ at[s].els = at[id].els}
        /\ \A m, n \in DOMAIN own : m < n => at[own[m]].pack < at[own[n]].pack

LEMMA TableIsWhole ==
  ASSUME StoredIndex, index # None, TablesApart, NEW id \in DOMAIN index, IsTable(index[id])
  PROVE  WholeTable(id, SiblingsByTable(id, index), index)
<1> DEFINE S == Shards(id)
           R == ByPack(id)
           body == SiblingsByTable(id, index)
           at == {k \in DOMAIN body : index[body[k]].doc = index[id].doc}
           own == Places(body, at)
           T == {s \in DOMAIN index : /\ index[s].doc = index[id].doc /\ IsTable(index[s])
                                      /\ index[s].els = index[id].els}
<1>1. body \in Seq(S) /\ Lists(body, S, R)
  BY SiblingsAre
<1> HIDE DEF body
<1>2. at \subseteq 1..Len(body)
  BY <1>1
<1>3. own \in Seq(S) /\ LeftOf(own, body) /\ Range(own) = {body[k] : k \in at}
  BY <1>1, <1>2, PlacesAre
<1> HIDE DEF own
<1>4. \A s \in DOMAIN index : Stored(s)
  BY DEF StoredIndex
<1>5. T = {s \in S : index[s].doc = index[id].doc}
  <2>1. ASSUME NEW s \in DOMAIN index, IsTable(index[s])
        PROVE  index[s].els = index[id].els <=> Anchor(index[s]) = Anchor(index[id])
    <3>1. index[s].kind # "prose" /\ index[id].kind # "prose"
      BY <2>1 DEF IsTable
    <3>2. index[s].els = {Anchor(index[s])} /\ index[id].els = {Anchor(index[id])}
      BY <1>4, <3>1 DEF Stored
    <3> QED
      BY <3>2
  <2> QED
    BY <2>1 DEF Shards
<1>6. Range(own) = T
  <2>1. \A s \in S : \E k \in DOMAIN body : body[k] = s
    BY <1>1 DEF Lists
  <2>2. \A k \in DOMAIN body : body[k] \in S
    BY <1>1 DEF Lists
  <2> HIDE DEF T
  <2> QED
    BY <1>3, <1>5, <2>1, <2>2
<1>7. ASSUME NEW m \in DOMAIN own, NEW n \in DOMAIN own, m < n
      PROVE  index[own[m]].pack < index[own[n]].pack
  <2>1. PICK pos \in [DOMAIN own -> DOMAIN body] :
           /\ \A j \in DOMAIN own : own[j] = body[pos[j]]
           /\ \A i, j \in DOMAIN own : i < j => pos[i] < pos[j]
    BY <1>3 DEF LeftOf
  <2>2. R[<<own[m], own[n]>>]
    BY <1>1, <1>7, <2>1 DEF Lists, InLine
  <2>3. own[m] \in S /\ own[n] \in S /\ own[m] \in T /\ own[n] \in T
    BY <1>3, <1>6 DEF Range
  <2>4. \/ index[own[m]].pack < index[own[n]].pack
        \/ index[own[m]].pack = index[own[n]].pack /\ own[m][1] < own[n][1]
    BY <2>2, <2>3 DEF ByPack
  <2>5. own[m][1] = own[n][1] /\ own[m][1] \in Int
    BY <1>4, <2>3 DEF Stored
  <2> QED
    BY <2>4, <2>5
<1>8. WholeTable(id, body, index)
  BY <1>6, <1>7 DEF WholeTable, Only, own
<1> QED
  BY <1>8 DEF body


\* A window that had to be cut has no room for a neighbor.
CutAlone(w) == w.cut => w.context = <<>>

\* BuildPresentation takes one neighbor more.
Beside(w, id, room) ==
    LET left == room - w.used
        n == Smaller(Length(<<id>>, index), left)
    IN  IF left < NeighborMin \/ n = 0 THEN w
        ELSE [w EXCEPT !.used = @ + n, !.context = Append(@, id)]

LEMMA PresentationIs ==
  ASSUME StoredIndex, index # None, NEW body \in Seq(DOMAIN index), NEW context \in Seq(DOMAIN index),
         NEW room \in Nat
  PROVE  /\ BuildPresentation(body, context, index, room).body = body
         /\ CutAlone(BuildPresentation(body, context, index, room))
<1> DEFINE N == Len(context)
           fit == Smaller(Length(body, index), room)
           cut == fit < Length(body, index)
           first == [body |-> body, cut |-> cut, used |-> fit, context |-> <<>>]
           W == [body : {body}, cut : {cut}, used : Int, context : Seq(DOMAIN index)]
           V == {w \in W : w.cut => w.used = room /\ w.context = <<>>}
           F == [p \in (1..N) \X V |-> Beside(p[2], context[p[1]], room)]
           Add(S, v) == Beside(v, context[Max(S)], room)
           Eq(it) == it = [S \in SUBSET DOMAIN context |->
                              IF S = {} THEN first ELSE Add(S, it[S \ {Max(S)}])]
           built == BuildPresentation(body, context, index, room)
<1>1. DOMAIN context = 1..N /\ N \in Nat /\ \A k \in 1..N : context[k] \in DOMAIN index
  OBVIOUS
<1>2. Readable(index)
  BY DEF StoredIndex, Stored, Readable
<1>3. \A S, v : Max(S) \in 1..N /\ v \in V => F[<<Max(S), v>>] = Add(S, v)
  OBVIOUS
<1>4. Length(body, index) \in Nat
  BY <1>2, LengthIs
<1>5. first \in V
  <2> DEFINE n == Length(body, index)
  <2>1. fit \in Int /\ (cut => fit = room)
    BY <1>4 DEF Smaller
  <2>2. <<>> \in Seq(DOMAIN index)
    OBVIOUS
  <2> HIDE DEF fit, cut
  <2> QED
    BY <2>1, <2>2
<1>6. ASSUME NEW k \in 1..N, NEW w \in V PROVE Beside(w, context[k], room) \in V
  <2> DEFINE id == context[k]
             n == Length(<<id>>, index)
             left == room - w.used
             m == Smaller(n, left)
  <2>1. id \in DOMAIN index
    BY <1>1
  <2>2. n \in Nat
    <3>1. <<id>> \in Seq(DOMAIN index)
      BY <2>1
    <3> QED
      BY <1>2, <3>1, LengthIs
  <2>3. w \in W /\ (w.cut => w.used = room /\ w.context = <<>>)
    OBVIOUS
  <2> HIDE DEF id, n, cut
  <2>4. left \in Int /\ m \in Int /\ (w.cut => m = 0)
    BY <2>2, <2>3 DEF Smaller
  <2>5. Beside(w, id, room) =
           IF left < NeighborMin \/ m = 0 THEN w
           ELSE [w EXCEPT !.used = @ + m, !.context = Append(@, id)]
    BY DEF Beside, n
  <2> HIDE DEF left, m
  <2>6. CASE left < NeighborMin \/ m = 0
    BY <2>3, <2>5, <2>6 DEF id
  <2>7. CASE ~(left < NeighborMin \/ m = 0)
    <3> DEFINE u == [w EXCEPT !.used = @ + m, !.context = Append(@, id)]
    <3>1. ~w.cut
      BY <2>4, <2>7
    <3>2. w.used + m \in Int /\ Append(w.context, id) \in Seq(DOMAIN index)
      BY <2>1, <2>3, <2>4
    <3>3. u \in W /\ u.cut = w.cut
      BY <2>3, <3>2
    <3> QED
      BY <2>5, <2>7, <3>1, <3>3 DEF id
  <2> QED
    BY <2>6, <2>7
<1> HIDE DEF W
<1>7. CanFoldLeft(N, V, first, F)
  <2>1. \A k \in 1..N : \A v \in V : F[<<k, v>>] = Beside(v, context[k], room)
    OBVIOUS
  <2> HIDE DEF F, N, V, first
  <2> QED
    BY <1>1, <1>5, <1>6, <2>1 DEF CanFoldLeft
<1>8. PICK it : IsFoldLeft(N, V, first, F, it)
  <2> HIDE DEF N, F, V, first
  <2> QED
    BY <1>7, FoldLeftExists
<1>9. Eq(it)
  <2> HIDE DEF N, F, Add, V, first
  <2>1. \A S \in SUBSET (1..N) : S # {} => it[S] = Add(S, it[S \ {Max(S)}])
    BY <1>3, <1>8 DEF IsFoldLeft
  <2> QED
    BY <1>1, <1>8, <2>1 DEF IsFoldLeft
<1>10. PICK jt : Eq(jt) /\ built = jt[DOMAIN context]
  <2>1. built = (CHOOSE jt : Eq(jt))[DOMAIN context]
    BY Zenon DEF BuildPresentation, Beside, FoldLeft, MapThenFoldSet
  <2> HIDE DEF Eq, built
  <2>2. Eq(CHOOSE jt : Eq(jt))
    BY <1>9
  <2> QED
    BY <2>1, <2>2
<1>11. Unfolds(N, V, first, F, jt)
  <2> HIDE DEF N, F, Add, V, first, built
  <2>1. jt[{}] = first /\ \A S \in SUBSET (1..N) : S # {} => jt[S] = Add(S, jt[S \ {Max(S)}])
    BY <1>1, <1>10
  <2> HIDE DEF Eq
  <2> QED
    BY <1>3, <2>1 DEF Unfolds
<1> HIDE DEF N, F, Add, Eq, V, first, built
<1>12. jt[1..N] \in V
  BY <1>7, <1>11, FoldLeftIn
<1>13. built \in V
  BY <1>1, <1>10, <1>12
<1>14. built.body = body /\ CutAlone(built)
  BY <1>13 DEF V, W, CutAlone
<1> QED
  BY <1>14 DEF built

LEMMA CutIs ==
  ASSUME NEW X, NEW s \in Seq(X), NEW n \in 1..2
  PROVE  SubSeq(s, n, Smaller(n, Len(s))) \in Seq(X)
<1>1. CASE n <= Len(s)
  <2>1. Smaller(n, Len(s)) = n
    BY <1>1 DEF Smaller
  <2> QED
    BY <1>1, <2>1, SubSeqIs
<1>2. CASE ~(n <= Len(s))
  <2>1. Smaller(n, Len(s)) = Len(s)
    BY <1>2 DEF Smaller
  <2> QED
    BY <1>2, <2>1
<1> QED
  BY <1>1, <1>2

\* The prose around a table or a figure is of the index.
LEMMA ContextIs ==
  ASSUME StoredIndex, index # None, NEW id \in DOMAIN index
  PROVE  Context(id, index) \in Seq(DOMAIN index)
<1> DEFINE X == DOMAIN index
           By(S) == [p \in S \X S |-> p[1][2] < p[2][2]]
           prev == InOrder(index[id].before, By(index[id].before))
           next == InOrder(index[id].after, By(index[id].after))
           Nth(s, n) == SubSeq(s, n, Smaller(n, Len(s)))
<1>1. ASSUME NEW S, S \subseteq X, \A n \in S : n[1] = id[1] PROVE InOrder(S, By(S)) \in Seq(X)
  <2> DEFINE R == By(S)
  <2>1. IsFiniteSet(S)
    BY <1>1, FS_Subset DEF StoredIndex
  <2>2. \A n \in S : n = <<id[1], n[2]>> /\ n[2] \in Int
    BY <1>1 DEF StoredIndex, Stored
  <2>3. \A x, y \in S : R[<<x, y>>] <=> x[2] < y[2]
    OBVIOUS
  <2> HIDE DEF R
  <2>4. IsOrder(R, S)
    <3>1. \A x, y \in S : x # y => x[2] # y[2]
      BY <2>2
    <3> QED
      BY <2>2, <2>3, <3>1 DEF IsOrder
  <2>5. InOrder(S, R) \in Seq(S)
    BY <2>1, <2>4, InOrderLists
  <2> QED
    BY <1>1, <2>5 DEF R
<1>2. /\ index[id].before \subseteq X /\ \A n \in index[id].before : n[1] = id[1]
      /\ index[id].after \subseteq X /\ \A n \in index[id].after : n[1] = id[1]
  BY DEF StoredIndex, Stored
<1>3. prev \in Seq(X) /\ next \in Seq(X)
  BY <1>1, <1>2
<1>4. Context(id, index) = Nth(prev, 1) \o Nth(next, 1) \o Nth(prev, 2) \o Nth(next, 2)
  BY Zenon DEF Context, Sorted
<1> HIDE DEF prev, next, X
<1>5. Nth(prev, 1) \in Seq(X) /\ Nth(next, 1) \in Seq(X) /\ Nth(prev, 2) \in Seq(X) /\ Nth(next, 2) \in Seq(X)
  BY <1>3, CutIs
<1> HIDE DEF Nth
<1>6. Nth(prev, 1) \o Nth(next, 1) \o Nth(prev, 2) \o Nth(next, 2) \in Seq(X)
  BY <1>5
<1> QED
  BY <1>4, <1>6 DEF X


\* What the window of a hit is to show.
ShownFor(id, w, at) ==
    /\ IsTable(at[id]) => WholeTable(id, w.body, at)
    /\ CutAlone(w)

LEMMA ExpandIs ==
  ASSUME StoredIndex, index # None, TablesApart, NEW hits \in Seq(DOMAIN index)
  PROVE  /\ DOMAIN ExpandStructureNeighbors(hits, index) = DOMAIN hits
         /\ \A k \in DOMAIN hits : ShownFor(hits[k], ExpandStructureNeighbors(hits, index)[k], index)
<1> DEFINE Again(k) == \E j \in 1..(k - 1) :
                          IsTable(index[hits[j]])
                          /\ CollapseKey(hits[j], index[hits[j]]) = CollapseKey(hits[k], index[hits[k]])
           Alone(k) == [body |-> <<hits[k]>>, cut |-> FALSE, used |-> Length(<<hits[k]>>, index),
                        context |-> <<>>]
           Around(k) == IF Again(k) THEN <<>> ELSE Context(hits[k], index)
           Room(k) == IF IsTable(index[hits[k]]) THEN TableBudget ELSE Budget
           Built(k) == BuildPresentation(MergedTablePrimary(hits[k], index), Around(k), index, Room(k))
           shown == ExpandStructureNeighbors(hits, index)
<1>1. shown = [k \in DOMAIN hits |->
                  IF index[hits[k]].kind \in {"prose", "formula"} THEN Alone(k) ELSE Built(k)]
  BY DEF ExpandStructureNeighbors
<1>2. ASSUME NEW k \in DOMAIN hits PROVE ShownFor(hits[k], shown[k], index)
  <2> DEFINE id == hits[k]
             body == MergedTablePrimary(id, index)
  <2>1. id \in DOMAIN index
    OBVIOUS
  <2>2. CASE index[id].kind \in {"prose", "formula"}
    <3>1. shown[k] = Alone(k)
      BY <1>1, <2>2
    <3> QED
      BY <2>2, <3>1 DEF ShownFor, IsTable, CutAlone
  <2>3. CASE index[id].kind \notin {"prose", "formula"}
    <3>1. shown[k] = BuildPresentation(body, Around(k), index, Room(k))
      BY <1>1, <2>3
    <3>2. Around(k) \in Seq(DOMAIN index)
      <4>1. Context(id, index) \in Seq(DOMAIN index)
        BY <2>1, ContextIs
      <4>2. <<>> \in Seq(DOMAIN index)
        OBVIOUS
      <4>3. Around(k) \in {<<>>, Context(id, index)}
        OBVIOUS
      <4> HIDE DEF Around
      <4> QED
        BY <4>1, <4>2, <4>3
    <3>3. Room(k) \in Nat
      BY RetrievalConstants
    <3> HIDE DEF Around, Room, shown, id
    <3>4. body \in Seq(DOMAIN index)
      <4>1. CASE IsTable(index[id])
        <5>1. body = SiblingsByTable(id, index)
          BY <4>1 DEF MergedTablePrimary
        <5>2. Shards(id) \subseteq DOMAIN index
          BY DEF Shards
        <5> QED
          BY <5>1, <5>2, SiblingsAre
      <4>2. CASE ~IsTable(index[id])
        <5>1. body = <<id>>
          BY <4>2 DEF MergedTablePrimary
        <5> QED
          BY <2>1, <5>1
      <4> QED
        BY <4>1, <4>2
    <3>5. IsTable(index[id]) => WholeTable(id, body, index)
      BY <2>1, TableIsWhole DEF MergedTablePrimary
    <3> HIDE DEF body
    <3>6. shown[k].body = body /\ CutAlone(shown[k])
      BY <3>1, <3>2, <3>3, <3>4, PresentationIs
    <3>7. ShownFor(id, shown[k], index)
      BY <3>5, <3>6 DEF ShownFor
    <3> QED
      BY <3>7 DEF id
  <2> QED
    BY <2>2, <2>3
<1>3. DOMAIN shown = DOMAIN hits
  BY <1>1
<1> QED
  BY <1>2, <1>3

\* What is found of a pool is of the index.
LEMMA FoundIsStored ==
  ASSUME NEW scope, NEW score, NEW pool, PoolSound(pool, score, scope),
         NEW order \in SetToSeqs(Range(pool)), NEW wants \in BOOLEAN,
         NEW sel, sel = Select(order, pool, score, index, wants)
  PROVE  FoundOf(sel, score, scope) \in Seq(DOMAIN index)
<1> DEFINE X == Range(pool)
<1>1. pool \in Seq(X) /\ HasAllOf(pool, X) /\ Scored(X, score) /\ InScope(X, scope) /\ X \subseteq DOMAIN index
      /\ order \in Seq(X) /\ HasAllOf(order, X)
  BY PoolIs
<1> HIDE DEF X
<1>2. PICK allow \in BOOLEAN :
         \E top, chosen : SelectedBy(sel, chosen, top, allow, X, score, index, wants)
  BY <1>1, SelectIs
<1>3. PICK top, chosen : SelectedBy(sel, chosen, top, allow, X, score, index, wants)
  BY <1>2
<1> DEFINE O == Opens(X, index, allow)
<1>4. O \subseteq X
  BY DEF Opens
<1>5. Scored(O, score) /\ \A x \in O : index[x].doc \in scope
  BY <1>1, <1>4, FS_Subset DEF Scored, InScope
<1>6. IsSeq(sel, O)
  BY <1>3 DEF SelectedBy, Insured, IsSeq
<1> HIDE DEF O
<1>7. IsSeq(FoundOf(sel, score, scope), O)
  BY <1>5, <1>6, ScopeKeeps
<1> QED
  BY <1>1, <1>4, <1>7 DEF IsSeq


\* A tool shows no more windows than it gives hits.
LEMMA WindowsOfHits ==
  ASSUME StoredIndex, index # None, TablesApart, NEW found \in Seq(DOMAIN index),
         NEW hits, hits = Take(found, MaxHits),
         NEW shown, shown = Take(ExpandStructureNeighbors(found, index), MaxHits)
  PROVE  \A k \in DOMAIN hits : ShownFor(hits[k], shown[k], index)
<1> DEFINE all == ExpandStructureNeighbors(found, index)
           Y == {all[k] : k \in DOMAIN found}
<1>1. DOMAIN all = DOMAIN found /\ \A k \in DOMAIN found : ShownFor(found[k], all[k], index)
  BY ExpandIs
<1>2. all = [k \in DOMAIN all |-> all[k]]
  BY DEF ExpandStructureNeighbors
<1> HIDE DEF all
<1>3. DOMAIN found = 1..Len(found) /\ Len(found) \in Nat
  OBVIOUS
<1>4. all \in Seq(Y) /\ Len(all) = Len(found)
  BY <1>1, <1>2, <1>3
<1>5. MaxHits \in Nat
  BY LibraryConstants
<1> HIDE DEF Y
<1>6. /\ hits \in Seq(DOMAIN index) /\ Len(hits) = Smaller(MaxHits, Len(found))
      /\ \A k \in DOMAIN hits : k \in DOMAIN found /\ hits[k] = found[k]
  BY <1>5, TakeIs
<1>7. /\ shown \in Seq(Y) /\ Len(shown) = Smaller(MaxHits, Len(all))
      /\ \A k \in DOMAIN shown : shown[k] = all[k]
  BY <1>4, <1>5, TakeIs DEF all
<1>8. DOMAIN hits = DOMAIN shown
  BY <1>4, <1>6, <1>7
<1> QED
  BY <1>1, <1>6, <1>7, <1>8

(***************************************************************************)
(* What a search answers with                                              *)
(***************************************************************************)
HitsSound ==
    /\ IsSeq(tool.pool, DOMAIN index)
    /\ Gated(tool.hits, Range(tool.pool), tool.score, tool.wants)
    /\ TopInsured(tool.hits, Range(tool.pool), tool.score, tool.wants)
    /\ \A id \in Range(tool.hits) : index[id].doc \notin tool.off
    /\ \A k \in DOMAIN tool.hits : ShownFor(tool.hits[k], tool.shown[k], index)

HitsInv == Searching("hits") => index # None /\ HitsSound

LEMMA HitsStep == Published /\ ScopeInv /\ RankInv /\ HitsInv /\ [Next]_vars => HitsInv'
<1> SUFFICES ASSUME Published, ScopeInv, RankInv, HitsInv, [Next]_vars, Searching("hits")'
             PROVE  (index # None /\ HitsSound)'
  BY DEF HitsInv
<1>1. ASSUME NEW wants \in BOOLEAN, Rank(wants)
      PROVE  (index # None /\ HitsSound)'
  <2>1. /\ index # None /\ PoolSound(tool.pool, tool.score, tool.scope)
        /\ tool.scope \cap tool.off = {} /\ index' = index
    BY <1>1 DEF Rank, RankInv, ScopeInv
  <2>2. PICK order \in SetToSeqs(Range(tool.pool)) :
           LET selected == Select(order, tool.pool, tool.score, index, wants)
               hits == Only(Sufficient(selected, tool.score), LAMBDA id : index[id].doc \in tool.scope)
           IN  tool' = [name |-> "search", stage |-> "hits", wants |-> wants, off |-> tool.off,
                        pool |-> tool.pool, score |-> tool.score, hits |-> Take(hits, MaxHits),
                        shown |-> Take(ExpandStructureNeighbors(hits, index), MaxHits)]
    BY <1>1 DEF Rank
  <2> DEFINE sel == Select(order, tool.pool, tool.score, index, wants)
             found == FoundOf(sel, tool.score, tool.scope)
             hits == Take(found, MaxHits)
             shown == Take(ExpandStructureNeighbors(found, index), MaxHits)
  <2>3. /\ tool'.wants = wants /\ tool'.off = tool.off /\ tool'.pool = tool.pool
        /\ tool'.score = tool.score /\ tool'.hits = hits /\ tool'.shown = shown
    BY <2>2 DEF FoundOf
  <2>4. FirstOnes(hits, found)
    BY DEF FirstOnes
  <2>5. \A k \in DOMAIN hits : ShownFor(hits[k], shown[k], index)
    <3>1. found \in Seq(DOMAIN index)
      BY <2>1, FoundIsStored
    <3>2. StoredIndex /\ TablesApart
      BY <2>1, IndexIsStored, TablesAreApart
    <3> HIDE DEF found
    <3> QED
      BY <2>1, <3>1, <3>2, WindowsOfHits
  <2> HIDE DEF hits, shown
  <2>6. /\ Gated(hits, Range(tool.pool), tool.score, wants)
        /\ TopInsured(hits, Range(tool.pool), tool.score, wants)
        /\ InScope(Range(hits), tool.scope)
    BY <2>1, <2>4, RankFinds
  <2> HIDE DEF found, sel
  <2>7. (\A k \in DOMAIN tool.hits : ShownFor(tool.hits[k], tool.shown[k], index))'
    BY <2>1, <2>3, <2>5
  <2>8. IsSeq(tool.pool, DOMAIN index)'
    BY <2>1, <2>3 DEF PoolSound, IsSeq
  <2>9. HitsSound'
    BY <2>1, <2>3, <2>6, <2>7, <2>8 DEF HitsSound, Gated, TopInsured, InScope, KeyOf
  <2> QED
    BY <2>1, <2>9
<1>2. CASE UNCHANGED tool
  <2>1. Searching("hits") /\ index # None /\ HitsSound
    BY <1>2 DEF Searching, HitsInv
  <2>2. index' = index
    BY <2>1 DEF Next, Publish, Search, ReadMembers, ReadDisabled, ReadDisabledFirst, ReadRecords,
       Switch, Delete, Recall, KnowledgeBaseEmpty, Rank, Answered, ReadPage, ReadChunk,
       ReadOn, EndRead, vars
  <2> QED
    <3>1. IsSeq(tool.pool, DOMAIN index)'
      BY <1>2, <2>1, <2>2 DEF HitsSound, IsSeq
    <3>2. (\A k \in DOMAIN tool.hits : ShownFor(tool.hits[k], tool.shown[k], index))'
      BY <1>2, <2>1, <2>2 DEF HitsSound
    <3> QED
      BY <1>2, <2>1, <2>2, <3>1, <3>2 DEF HitsSound, Gated, TopInsured, KeyOf
<1>3. CASE Publish
  BY <1>2, <1>3 DEF Publish
<1>4. ASSUME NEW bound \in BOOLEAN, Search(bound) PROVE FALSE
  BY <1>4 DEF Search, Searching
<1>5. CASE ReadMembers \/ ReadDisabled \/ ReadDisabledFirst \/ ReadRecords
  <2>1. tool \in ScopeRecord
    BY <1>5 DEF ReadMembers, ReadDisabled, ReadDisabledFirst, ReadRecords, Searching, Resolving, ScopeInv
  <2>2. tool' = None \/ tool'.stage \in {"disabled", "records", "recall"}
    BY <1>5, <2>1 DEF ReadMembers, ReadDisabled, ReadDisabledFirst, ReadRecords, Scoped, ScopeRecord
  <2> QED
    BY <2>2 DEF Searching
<1>6. CASE KnowledgeBaseEmpty \/ Answered \/ EndRead
  BY <1>6 DEF KnowledgeBaseEmpty, Answered, EndRead, Searching
<1>7. ASSUME NEW texts \in 1..MaxTexts, NEW where \in BOOLEAN, Recall(texts, where) PROVE FALSE
  <2>1. tool'.stage = "rank"
    BY <1>7 DEF Recall
  <2> QED
    BY <2>1 DEF Searching
<1>8. ASSUME NEW d \in Unsettled, Switch(d) \/ Delete(d) PROVE FALSE
  <2>1. Resolving /\ tool' = [tool EXCEPT !.off = @ \ {d}]
    BY <1>8 DEF Switch, Delete
  <2>2. tool \in ScopeRecord
    BY <2>1 DEF ScopeInv
  <2>3. tool'.stage = tool.stage
    BY <2>1, <2>2 DEF ScopeRecord
  <2> QED
    BY <2>1, <2>3 DEF Resolving, Searching
<1>9. ASSUME NEW d \in Doc, NEW page \in Pages(d), ReadPage(d, page) PROVE FALSE
  BY <1>9 DEF ReadPage, ReadWindow, Searching
<1>10. ASSUME NEW id \in DOMAIN index, ReadChunk(id) PROVE FALSE
  BY <1>10 DEF ReadChunk, ReadWindow, Searching
<1>11. CASE ReadOn
  BY <1>11 DEF ReadOn, ReadWindow, Searching
<1> QED
  BY <1>1, <1>2, <1>3, <1>4, <1>5, <1>6, <1>7, <1>8, <1>9, <1>10, <1>11 DEF Next, vars

LEMMA HitsHold == Spec => []HitsInv
<1>1. Init => RankInv /\ HitsInv
  BY DEF Init, RankInv, HitsInv, Searching
<1> QED
  BY <1>1, PublishedHolds, ScopeHolds, RankStep, HitsStep, PTL DEF Spec

\* A document that was switched off when a search began, and stayed so, is not
\* among the hits, whatever the channels found and whichever way the reranker
\* put it (document_ids, library_document_ids, the filters of retrieve_multi).
THEOREM SwitchedOffIsNotFound == Spec => []OffMeansOff
<1>1. HitsInv => OffMeansOff
  BY DEF HitsInv, HitsSound, OffMeansOff
<1> QED
  BY <1>1, HitsHold, PTL

\* For any scores, orders and limits: the table gate and the two score gates
\* leave something of a pool that has something above zero, and a table nobody
\* asked for is found only if no prose came near the best (diversify_hits,
\* filter_sufficient).
THEOREM GateNeverBlanks == Spec => []GateDemotes
<1>1. HitsInv => GateDemotes
  <2> SUFFICES ASSUME HitsInv, Searching("hits") PROVE GateDemotes
    BY DEF GateDemotes
  <2>1. Gated(tool.hits, Range(tool.pool), tool.score, tool.wants) /\ tool.pool \in Seq(DOMAIN index)
    BY DEF HitsInv, HitsSound, IsSeq
  <2>2. tool.pool # <<>> => Range(tool.pool) # {}
    <3>1. tool.pool # <<>> => 1 \in DOMAIN tool.pool
      BY <2>1
    <3> QED
      BY <3>1 DEF Range
  <2> QED
    BY <2>1, <2>2 DEF GateDemotes, Gated, TopOf
<1> QED
  BY <1>1, HitsHold, PTL

\* Whatever the reranker does, the best of the pool that the gate lets through
\* is among the hits, and nothing but it shares a slot (ensure_hit_present).
THEOREM BestIsInsured == Spec => []DenseTopInsured
<1>1. HitsInv => DenseTopInsured
  BY DEF HitsInv, HitsSound, DenseTopInsured, TopInsured, TopOf, KeyOf
<1> QED
  BY <1>1, HitsHold, PTL

\* For any library: a table that is found is shown whole, the rows of its
\* document in the order of its packs, and what had to be cut is shown without
\* its neighbors (merged_table_primary, build_presentation).
THEOREM TablesAreShownWhole == Spec => []TableComesWhole
<1>1. HitsInv => TableComesWhole
  BY DEF HitsInv, HitsSound, ShownFor, WholeTable, CutAlone, TableComesWhole
<1> QED
  BY <1>1, HitsHold, PTL

=============================================================================
