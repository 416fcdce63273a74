------------------------------ MODULE Library ------------------------------
(***************************************************************************)
(* The library as the agent's tools see it: documents are chunked and      *)
(* published (Chunker), a search resolves its scope against the registry,  *)
(* which the user may change meanwhile, and is answered from the snapshot  *)
(* (Retrieval); a read walks a chunk or a page by the offsets it is told.  *)
(* The tools of a turn run one at a time: "tool" is the one at work.       *)
(***************************************************************************)
EXTENDS Retrieval

CONSTANTS
    Doc,           \* documents, by number
    Libraries,     \* what may be in the library: a set of functions from Doc
    Members,       \* the documents of the collection a session may be bound to
    Score,         \* cosine similarities, times a hundred
    MaxTexts,      \* max_query_texts
    MaxHits,       \* tool_max_hits
    ReadText,      \* tool_text_chars
    ReadTable,     \* tool_table_chars
    PageChars,     \* adapter_page_chars
    SearchBound,   \* bound: only papers of at most this many elements are searched
    Unsettled,     \* bound: the documents the user switches or deletes
    None

\* A score of exactly zero is taken for none.
ASSUME LibraryConstants ==
    /\ Doc \subseteq Nat /\ IsFiniteSet(Doc) /\ Members \subseteq Doc
    /\ Libraries \subseteq [Doc -> Seq(Element)]
    /\ Score \subseteq Int \ {0}
    /\ {MaxTexts, MaxHits, ReadText, ReadTable, PageChars} \subseteq Nat \ {0}

VARIABLES
    papers,     \* the parsed documents
    index,      \* the published snapshot: id -> chunk, or None
    registry,   \* each document is "on", switched "off" or "deleted"
    tool        \* the tool call at work, or None

vars == <<papers, index, registry, tool>>

(***************************************************************************)
(* The published snapshot                                                  *)
(***************************************************************************)
Store(library) ==
    LET chunks == [d \in Doc |-> ChunkDocument(library[d])]
        Ids == UNION {{<<d, k>> : k \in DOMAIN chunks[d]} : d \in Doc}
        InDoc(d, ks) == {<<d, k>> : k \in ks}
    IN  [id \in Ids |->
            LET c == chunks[id[1]][id[2]]
            IN  [doc |-> id[1], kind |-> c.kind, els |-> c.els, pages |-> c.pages, path |-> c.path,
                 words |-> c.words, pack |-> c.pack,
                 before |-> InDoc(id[1], c.before), after |-> InDoc(id[1], c.after)]]

Init ==
    /\ papers \in Libraries
    /\ index = None
    /\ registry = [d \in Doc |-> "on"]
    /\ tool = None

Publish ==
    /\ index = None
    /\ index' = Store(papers)
    /\ UNCHANGED <<papers, registry, tool>>

(***************************************************************************)
(* The scope of a search                                                   *)
(***************************************************************************)
DisabledDocuments == {d \in Doc : registry[d] = "off"}
Records == {d \in Doc : registry[d] # "deleted"}

\* A session bound to the collection looks its members up, one bound to nothing
\* takes the whole library; "off" are the documents that have been switched off
\* ever since.
Search(bound) ==
    /\ tool = None
    /\ \A d \in Doc : Len(papers[d]) <= SearchBound
    /\ tool' = [name |-> "search", stage |-> IF bound THEN "members" ELSE "library",
                seen |-> {}, scope |-> {}, off |-> DisabledDocuments]
    /\ UNCHANGED <<papers, index, registry>>

Searching(stage) == tool # None /\ tool.name = "search" /\ tool.stage = stage

\* document_ids: the members, then the disabled among them.
ReadMembers ==
    /\ Searching("members")
    /\ tool' = [tool EXCEPT !.stage = "disabled", !.seen = Members]
    /\ UNCHANGED <<papers, index, registry>>

\* An empty scope ends the search with collection_empty.
Scoped(docs) ==
    IF docs = {} THEN None ELSE [tool EXCEPT !.stage = "recall", !.scope = docs, !.seen = {}]

ReadDisabled ==
    /\ Searching("disabled")
    /\ tool' = Scoped(tool.seen \ DisabledDocuments)
    /\ UNCHANGED <<papers, index, registry>>

\* library_document_ids: the disabled first, then the records.
ReadDisabledFirst ==
    /\ Searching("library")
    /\ tool' = [tool EXCEPT !.stage = "records", !.seen = DisabledDocuments]
    /\ UNCHANGED <<papers, index, registry>>

\* Mutant of LibraryScope: every record is in.
LibraryScopeWhole(disabled) == Records

LibraryScope(disabled) == Records \ disabled

ReadRecords ==
    /\ Searching("records")
    /\ tool' = Scoped(LibraryScope(tool.seen))
    /\ UNCHANGED <<papers, index, registry>>

\* The user switches a document or deletes it.  Nothing else reads the registry:
\* what changes after this scope is resolved is what the next search begins with.
Resolving == tool # None /\ tool.name = "search" /\ tool.stage \notin {"recall", "rank", "hits"}

Switch(d) ==
    /\ Resolving
    /\ registry[d] # "deleted"
    /\ registry' = [registry EXCEPT ![d] = IF @ = "on" THEN "off" ELSE "on"]
    /\ tool' = [tool EXCEPT !.off = @ \ {d}]
    /\ UNCHANGED <<papers, index>>

Delete(d) ==
    /\ Resolving
    /\ registry[d] # "deleted"
    /\ registry' = [registry EXCEPT ![d] = "deleted"]
    /\ tool' = [tool EXCEPT !.off = @ \ {d}]
    /\ UNCHANGED <<papers, index>>

(***************************************************************************)
(* Recall and ranking                                                      *)
(***************************************************************************)
Precedes(a, b) == a[1] < b[1] \/ (a[1] = b[1] /\ a[2] < b[2])

Channel(score) ==
    LET Closer(a, b) == score[a] > score[b] \/ (score[a] = score[b] /\ Precedes(a, b))
    IN  [ids |-> Take(Sorted(DOMAIN score, Closer), Window), score |-> score]

\* One channel for each text.  A store that honors "where" searches the scope
\* only; what another finds outside is filtered after the fusion.
Recall(texts, where) ==
    /\ Searching("recall") /\ index # None
    /\ LET there == {id \in DOMAIN index : where => index[id].doc \in tool.scope}
       IN  \E channels \in [1..texts -> {Channel(score) : score \in [there -> Score]}] :
              LET fused == Only(Fuse(channels), LAMBDA id : index[id].doc \in tool.scope)
                  pool == SelectWithQuota(fused, channels)
              IN  tool' = [name |-> "search", stage |-> "rank",
                           scope |-> tool.scope, off |-> tool.off, pool |-> pool,
                           score |-> [id \in Range(pool) |-> BestDense(channels, id)]]
    /\ UNCHANGED <<papers, index, registry>>

KnowledgeBaseEmpty ==
    /\ Searching("recall") /\ index = None
    /\ tool' = None
    /\ UNCHANGED <<papers, index, registry>>

\* The reranker orders the pool as it likes; when it fails, or is switched off,
\* the pool stays as it is.
Rank(wants) ==
    /\ Searching("rank")
    /\ \E order \in SetToSeqs(Range(tool.pool)) :
          LET selected == Select(order, tool.pool, tool.score, index, wants)
              hits == Only(Sufficient(selected, tool.score), LAMBDA id : index[id].doc \in tool.scope)
          IN  tool' = [name |-> "search", stage |-> "hits", wants |-> wants, off |-> tool.off,
                       pool |-> tool.pool, score |-> tool.score, hits |-> Take(hits, MaxHits),
                       shown |-> Take(ExpandStructureNeighbors(hits, index), MaxHits)]
    /\ UNCHANGED <<papers, index, registry>>

Answered ==
    /\ Searching("hits")
    /\ tool' = None
    /\ UNCHANGED <<papers, index, registry>>

(***************************************************************************)
(* Reading                                                                 *)
(***************************************************************************)
\* The chunks of a page, structural ones by ordinal first, then the prose; the
\* first pack of a table sorts with its summary.
PageRows(d, page) ==
    LET Key(id) == IF index[id].kind = "prose" \/ Anchor(index[id]) = 1 THEN 1000 ELSE Anchor(index[id])
        Pack0(id) == IF index[id].pack = 0 THEN -1 ELSE index[id].pack
        Less(a, b) == \/ Key(a) < Key(b)
                      \/ Key(a) = Key(b) /\ Pack0(a) < Pack0(b)
                      \/ Key(a) = Key(b) /\ Pack0(a) = Pack0(b) /\ a[2] < b[2]
    IN  Sorted({id \in DOMAIN index : index[id].doc = d /\ page \in index[id].pages}, Less)

\* Mutant of NextHint: the hint counts from the start of the window.
HintFromWindow(text, offset, given) == IF given < text - offset THEN given ELSE 0

\* Where to go on when "given" characters have been given from "offset" on.
NextHint(text, offset, given) == IF offset + given < text THEN offset + given ELSE 0

\* _read: a window of the text the adapter hands over, which is a page's first
\* PageChars.  What the adapter cut outweighs what the window leaves; a hint of
\* zero is none.
ReadWindow(rows, whole, text, offset, got) ==
    LET budget == IF IsTable(index[rows[1]]) THEN ReadTable ELSE ReadText
        given == Larger(0, Smaller(budget, text - offset))
        left == Larger(0, text - offset - given)
    IN  [name |-> "read", rows |-> rows, whole |-> whole, text |-> text,
         got |-> got \cup (offset + 1)..(offset + given),
         hint |-> IF whole - text > left THEN text ELSE NextHint(text, offset, given)]

ReadChunk(id) ==
    /\ tool = None /\ index # None /\ id \in DOMAIN index
    /\ LET n == Length(<<id>>, index) IN tool' = ReadWindow(<<id>>, n, n, 0, {})
    /\ UNCHANGED <<papers, index, registry>>

ReadPage(d, page) ==
    /\ tool = None /\ index # None
    /\ LET rows == PageRows(d, page)
           whole == Length(rows, index)
       IN  rows # <<>> /\ tool' = ReadWindow(rows, whole, Smaller(whole, PageChars), 0, {})
    /\ UNCHANGED <<papers, index, registry>>

ReadOn ==
    /\ tool # None /\ tool.name = "read" /\ tool.hint # 0
    /\ tool' = ReadWindow(tool.rows, tool.whole, tool.text, tool.hint, tool.got)
    /\ UNCHANGED <<papers, index, registry>>

EndRead ==
    /\ tool # None /\ tool.name = "read"
    /\ tool' = None
    /\ UNCHANGED <<papers, index, registry>>

Pages(d) == UNION {papers[d][i].pages : i \in DOMAIN papers[d]}

Next ==
    \/ Publish
    \/ \E bound \in BOOLEAN : Search(bound)
    \/ ReadMembers \/ ReadDisabled \/ ReadDisabledFirst \/ ReadRecords
    \/ \E texts \in 1..MaxTexts, where \in BOOLEAN : Recall(texts, where)
    \/ KnowledgeBaseEmpty \/ (\E wants \in BOOLEAN : Rank(wants)) \/ Answered
    \/ (\E d \in Unsettled : Switch(d) \/ Delete(d))
    \/ \E d \in Doc : \E page \in Pages(d) : ReadPage(d, page)
    \/ index # None /\ \E id \in DOMAIN index : ReadChunk(id)
    \/ ReadOn \/ EndRead

Spec == Init /\ [][Next]_vars

(***************************************************************************)
(* The index holds the documents                                           *)
(***************************************************************************)
Indexed(d, word) == \E id \in DOMAIN index : index[id].doc = d /\ Contains(index[id].words, word)

\* A sentence, or a row, of document d that fits a chunk by itself.
Fits(d, i, n) ==
    n <= Limit - PrefixCost(papers[d][i].path) - IF papers[d][i].type = "table" THEN CaptionCost ELSE 0

\* Nothing of a document is lost on its way through merging, splitting, packing
\* and truncation: every word of the prose and of the tables that are to be
\* embedded is in a chunk, sentences and rows too long for one excepted.
EveryWordIsIndexed ==
    index # None =>
        \A d \in Doc : \A i \in Prose(papers[d]) \cup Kept(papers[d], {"table"}) :
            \A k \in DOMAIN Words(papers[d], i) :
                LET word == Words(papers[d], i)[k]
                IN  Fits(d, i, papers[d][i].sizes[word.part]) => Indexed(d, word)

\* A citation names the pages a quote is on: of the chunks that hold a word,
\* those made from the word's element name every page of the element.
PagesCoverText ==
    index # None =>
        \A id \in DOMAIN index : \A k \in DOMAIN index[id].words :
            LET i == index[id].words[k].el
            IN  i \in index[id].els => papers[index[id].doc][i].pages \subseteq index[id].pages

\* The prose that is shown with a table or a figure is what surrounds it: of its
\* document's chunks of prose in reading order, no other lies nearer.
NeighborsSurround ==
    index # None =>
        \A id \in DOMAIN index : \A n \in index[id].before \cup index[id].after :
            \A p \in DOMAIN index :
                /\ p[1] = id[1] /\ index[p].kind = "prose"
                /\ (n[2] < p[2] /\ p[2] < id[2]) \/ (id[2] < p[2] /\ p[2] < n[2])
                => p \in index[id].before \cup index[id].after

(***************************************************************************)
(* Searches                                                                *)
(***************************************************************************)
\* A document that was switched off when the search began, and stayed so, is
\* not among the hits, whatever the store returns.
OffMeansOff ==
    Searching("hits") => \A id \in Range(tool.hits) : index[id].doc \notin tool.off

\* The table gate demotes and never blanks: something above zero in the pool is
\* something in the hits; and a table nobody asked for is there only if no
\* prose of the pool came near the best.
GateDemotes ==
    Searching("hits") =>
        LET top == Max({tool.score[id] : id \in Range(tool.pool)})
        IN  /\ tool.pool # <<>> /\ top > 0 => tool.hits # <<>>
            /\ (~tool.wants /\ \E id \in Range(tool.hits) : IsTable(index[id])) =>
                   \A id \in Range(tool.pool) :
                       IsTable(index[id]) \/ 100 * tool.score[id] < FloorPercent * top

\* Whatever order the reranker made of the pool, the best score among what the
\* gate lets through is in the hits, and no table has two of them, but for the
\* insured one.  Insured is what is selected: a tool that cuts its selection
\* shorter may cut the best, which stays where the reranker put it.
DenseTopInsured ==
    Searching("hits") /\ tool.hits # <<>> =>
        LET best == Max({tool.score[id] : id \in {id \in Range(tool.pool) : tool.wants \/ ~IsTable(index[id])}
                                                  \cup Range(tool.hits)})
        IN  /\ FinalK <= MaxHits => \E id \in Range(tool.hits) : tool.score[id] = best
            /\ \A m, n \in DOMAIN tool.hits :
                   m < n /\ CollapseKey(tool.hits[m], index[tool.hits[m]])
                             = CollapseKey(tool.hits[n], index[tool.hits[n]])
                   => m = 1 /\ tool.score[tool.hits[1]] = best

\* One slot carries the whole table: all its rows' packs, in order, go with the
\* hit, and no neighbor is shown beside a body that had to be cut.
TableComesWhole ==
    Searching("hits") =>
        \A k \in DOMAIN tool.hits :
            LET hit == index[tool.hits[k]]
                body == tool.shown[k].body
                own == Only(body, LAMBDA id : index[id].doc = hit.doc)
            IN  /\ IsTable(hit) =>
                       /\ Range(own) = {id \in DOMAIN index : /\ index[id].doc = hit.doc /\ IsTable(index[id])
                                                              /\ index[id].els = hit.els}
                       /\ \A m, n \in DOMAIN own : m < n => index[own[m]].pack < index[own[n]].pack
                /\ tool.shown[k].cut => tool.shown[k].context = <<>>

\* siblings_by_table: "Every chunk of one table" -- what is shown as the body of
\* a table is of that table.  It is not: the id of a table is the number of its
\* element, which begins anew in every document.
TableStandsAlone ==
    Searching("hits") =>
        \A k \in DOMAIN tool.hits : \A id \in Range(tool.shown[k].body) :
            index[id].doc = index[tool.hits[k]].doc

(***************************************************************************)
(* Reads                                                                   *)
(***************************************************************************)
\* Following the hints, a read leaves nothing out on its way, and no hint means
\* that everything has been read.  A page longer than the adapter's ceiling is
\* excepted: its hint jumps to the ceiling and stays there.
ReadsWalkOn ==
    tool # None /\ tool.name = "read" /\ tool.whole = tool.text =>
        tool.got = 1..(IF tool.hint = 0 THEN tool.whole ELSE tool.hint)

=============================================================================
