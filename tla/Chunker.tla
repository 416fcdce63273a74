------------------------------ MODULE Chunker ------------------------------
(***************************************************************************)
(* From a parsed document to the chunks that are embedded:                 *)
(* ordered_chunker.chunk_ordered_document.  A document is the sequence of  *)
(* its elements in reading order.  A text is a sequence of words, each     *)
(* known by the element, sentence (or table row) and place it comes from   *)
(* and each of cost one; a heading path costs HeadingCost, a table's       *)
(* caption and header line CaptionCost.                                    *)
(***************************************************************************)
EXTENDS Integers, SequencesExt, FiniteSetsExt

CONSTANTS
    Target,        \* PROSE_TARGET_TOKENS
    Limit,         \* PROSE_MAX_TOKENS, TABLE_PACK_MAX_TOKENS
    Overlap,       \* PROSE_OVERLAP_TOKENS
    Slack,         \* tokens a finished chunk may be over Limit
    HeadingCost,
    CaptionCost

\* A heading path that fills a chunk by itself would never let a long sentence
\* be cut into windows that get shorter.
ASSUME ChunkerConstants ==
    /\ {Target, Limit, Overlap, Slack, HeadingCost, CaptionCost} \subseteq Nat
    /\ Overlap < Target /\ Target <= Limit /\ HeadingCost + CaptionCost < Limit

MaxNeighbors == 2

\* Sequences are sorted and filtered here, and not by SortSeq and SelectSeq, so
\* that the provers can look into it.  Insert puts x into t, which is sorted by R,
\* a function of pairs to BOOLEAN.
Insert(x, t, R) ==
    LET n == Cardinality({k \in DOMAIN t : R[<<t[k], x>>]})
    IN  SubSeq(t, 1, n) \o <<x>> \o SubSeq(t, n + 1, Len(t))
InOrder(S, R) == FoldSet(LAMBDA x, t : Insert(x, t, R), <<>>, S)

\* The elements of S by a strict order.
Sorted(S, Less(_, _)) == InOrder(S, [p \in S \X S |-> Less(p[1], p[2])])
Ascending(S) == Sorted(S, LAMBDA a, b : a < b)

\* What s has at the places in "at", in order; the elements of s that pass.
Places(s, at) ==
    FoldLeft(LAMBDA t, k : IF k \in at THEN Append(t, s[k]) ELSE t, <<>>, [k \in DOMAIN s |-> k])
Only(s, Test(_)) == Places(s, {k \in DOMAIN s : Test(s[k])})

(***************************************************************************)
(* Elements.  "sizes" are the lengths of the sentences, or of what a table *)
(* is packed from: its rows, or without rows its facts, or without facts   *)
(* the text of the element, so that a table always has one.  "mark" is     *)
(* what the refiner and the byline patterns see in the element.            *)
(***************************************************************************)
Element ==
    {e \in [type: {"heading", "prose", "table", "figure", "formula"},
            policy: {"embed", "skip", "drop"},
            mark: {"body", "section", "byline", "authorish"},
            path: Nat, pages: SUBSET Nat, sizes: Seq(Nat)] :
        e.type = "table" => e.sizes # <<>>}

Words(doc, i) ==
    FlattenSeq([s \in DOMAIN doc[i].sizes |->
        [w \in 1..doc[i].sizes[s] |->
            [el |-> i, part |-> s, nth |-> w, last |-> w = doc[i].sizes[s]]]])

PrefixCost(path) == IF path = 0 THEN 0 ELSE HeadingCost

\* A line that looks like an author's is one only before the first numbered
\* heading or the abstract.
Demoted(doc, i) ==
    \/ doc[i].mark = "byline"
    \/ /\ doc[i].mark = "authorish"
       /\ \A j \in 1..(i - 1) : ~(doc[j].type = "heading" /\ doc[j].mark = "section")

Kept(doc, type) == {i \in DOMAIN doc : doc[i].policy = "embed" /\ doc[i].type \in type}
Prose(doc) == {i \in Kept(doc, {"prose"}) : ~Demoted(doc, i)}
Breaks(doc) == Kept(doc, {"heading", "table", "figure", "formula"})

(***************************************************************************)
(* Prose                                                                   *)
(***************************************************************************)
\* A run of prose ends at a heading, at a structural element and where the
\* heading path changes; what was dropped in between does not end it.
Before(doc, i) == {j \in Prose(doc) : j < i}
Starts(doc) ==
    {i \in Prose(doc) :
        \/ Before(doc, i) = {}
        \/ LET p == Max(Before(doc, i))
           IN  doc[p].path # doc[i].path \/ \E b \in Breaks(doc) : p < b /\ b < i}

Run(doc, i) ==
    Ascending({j \in Prose(doc) : i <= j /\ \A s \in Starts(doc) : s <= i \/ j < s})

Piece(words, els, pages) == [words |-> words, els |-> els, pages |-> pages]
Unit(doc, i) == Piece(Words(doc, i), {i}, doc[i].pages)

\* Mutant of Join: the first element's pages stand for all.
JoinFirstPages(p, q) == Piece(p.words \o q.words, p.els \cup q.els, p.pages)

Join(p, q) == Piece(p.words \o q.words, p.els \cup q.els, p.pages \cup q.pages)

\* Mutant of Pack: the unit that overflows is not carried over.
PackDropping(units, room) ==
    FoldLeft(LAMBDA done, u :
                IF done = <<>> \/ Len(Last(done).words) = 0 THEN <<u>>
                ELSE IF Len(Last(done).words) + Len(u.words) <= room
                THEN Append(Front(done), Join(Last(done), u))
                ELSE Append(done, Piece(<<>>, u.els, u.pages)),
             <<>>, units)

\* Units are joined as long as the result fits; one too long stays alone.
Pack(units, room) ==
    FoldLeft(LAMBDA done, u :
                IF done # <<>> /\ Len(Last(done).words) + Len(u.words) <= room
                THEN Append(Front(done), Join(Last(done), u))
                ELSE Append(done, u),
             <<>>, units)

Sentences(p) ==
    LET ends == Ascending({n \in DOMAIN p.words : p.words[n].last})
    IN  [k \in DOMAIN ends |->
            Piece(SubSeq(p.words, IF k = 1 THEN 1 ELSE ends[k - 1] + 1, ends[k]),
                  p.els, p.pages)]

Windows(p, room) ==
    [k \in 1..((Len(p.words) + room - 1) \div room) |->
        Piece(SubSeq(p.words, (k - 1) * room + 1,
                     Min({k * room, Len(p.words)})), p.els, p.pages)]

\* A long text is cut between sentences; windows of a sentence are cut only
\* when it is the last.
Split(p, room) ==
    IF Len(p.words) <= room THEN <<p>>
    ELSE LET packed == Pack(Sentences(p), room)
         IN  Front(packed) \o Windows(Last(packed), room)

Ending(words, n) == SubSeq(words, IF Len(words) > n THEN Len(words) - n + 1 ELSE 1, Len(words))

\* Each piece but the first begins with the end of the one before, if it fits.
Overlapped(pieces, room) ==
    [k \in DOMAIN pieces |->
        LET tail == IF k = 1 THEN <<>> ELSE Ending(pieces[k - 1].words, Overlap)
        IN  IF Len(tail) + Len(pieces[k].words) <= room
            THEN [pieces[k] EXCEPT !.words = tail \o @] ELSE pieces[k]]

Chunk(kind, p, path, pack) ==
    [kind |-> kind, els |-> p.els, pages |-> p.pages, path |-> path, words |-> p.words,
     pack |-> pack, before |-> {}, after |-> {}]

RunChunks(doc, i) ==
    LET path == doc[i].path
        run == Run(doc, i)
        merged == Pack([k \in DOMAIN run |-> Unit(doc, run[k])], Target - PrefixCost(path))
        room == Limit - PrefixCost(path)
        pieces == FlattenSeq([k \in DOMAIN merged |-> Split(merged[k], room)])
        whole == Overlapped(pieces, room)
    IN  [k \in DOMAIN whole |-> Chunk("prose", whole[k], path, -1)]

ProseChunks(doc) ==
    LET starts == Ascending(Starts(doc))
    IN  FlattenSeq([k \in DOMAIN starts |-> RunChunks(doc, starts[k])])

(***************************************************************************)
(* Tables, figures, formulas                                               *)
(***************************************************************************)
\* A summary without rows, then packs of whole rows; a row too long for a pack
\* of its own is cut.
TableChunks(doc, i) ==
    LET path == doc[i].path
        room == Limit - PrefixCost(path) - CaptionCost
        rows == [s \in DOMAIN doc[i].sizes |->
                    Piece(Only(Words(doc, i), LAMBDA w : w.part = s), {i}, doc[i].pages)]
        packs == Pack(rows, room)
        Cut(p) == [p EXCEPT !.words = SubSeq(@, 1, Min({Len(@), room}))]
    IN  <<Chunk("table_summary", Piece(<<>>, {i}, doc[i].pages), path, -1)>>
        \o [k \in DOMAIN packs |-> Chunk("table_pack", Cut(packs[k]), path, k - 1)]

StructuralChunks(doc) ==
    LET jobs == Ascending(Kept(doc, {"table", "figure", "formula"}))
    IN  FlattenSeq([k \in DOMAIN jobs |->
            LET i == jobs[k]
            IN  IF doc[i].type = "table" THEN TableChunks(doc, i)
                ELSE <<Chunk(doc[i].type, Unit(doc, i), doc[i].path, -1)>>])

(***************************************************************************)
(* The document's chunks                                                   *)
(***************************************************************************)
\* Prose sorts by the number in its element id, which is its ordinal plus one,
\* the rest by its ordinal; an ordinal of zero is taken for none.
SortKey(c) ==
    LET i == Min(c.els) IN IF c.kind = "prose" \/ i = 1 THEN i ELSE i - 1

MergeByReadingOrder(prose, structural) ==
    LET all == prose \o structural
        Less(a, b) ==
            \/ SortKey(all[a]) < SortKey(all[b])
            \/ /\ SortKey(all[a]) = SortKey(all[b])
               /\ \/ all[a].pack < all[b].pack
                  \/ all[a].pack = all[b].pack /\ a < b
        order == Sorted(DOMAIN all, Less)
    IN  [k \in DOMAIN all |-> all[order[k]]]

Anchor(c) == Min(c.els)

\* Prose chunk p of "chunks" comes before q: prose_sorted.
Earlier(chunks, p, q) ==
    \/ Anchor(chunks[p]) < Anchor(chunks[q])
    \/ Anchor(chunks[p]) = Anchor(chunks[q]) /\ p < q

FirstOf(S, chunks) ==
    {p \in S : Cardinality({q \in S : Earlier(chunks, q, p)}) < MaxNeighbors}
LastOf(S, chunks) ==
    {p \in S : Cardinality({q \in S : Earlier(chunks, p, q)}) < MaxNeighbors}

Bound(chunks, Lower(_, _), Upper(_, _)) ==
    LET prose == {k \in DOMAIN chunks : chunks[k].kind = "prose"}
    IN  [k \in DOMAIN chunks |->
            IF chunks[k].kind \notin {"table_summary", "table_pack", "figure"} THEN chunks[k]
            ELSE [chunks[k] EXCEPT
                    !.before = Lower({p \in prose : Anchor(chunks[p]) < Anchor(chunks[k])}, chunks),
                    !.after = Upper({p \in prose : Anchor(chunks[p]) > Anchor(chunks[k])}, chunks)]]

\* Mutant of BindNeighbors: the first chunks before it, not the last.
BindFirst(chunks) == Bound(chunks, FirstOf, FirstOf)

\* The chunks of prose on either side of a table or a figure.
BindNeighbors(chunks) == Bound(chunks, LastOf, FirstOf)

Truncated(c) ==
    LET room == Limit - PrefixCost(c.path)
    IN  IF Len(c.words) > room + Slack THEN [c EXCEPT !.words = SubSeq(@, 1, room)] ELSE c

ChunkDocument(doc) ==
    LET bound == BindNeighbors(MergeByReadingOrder(ProseChunks(doc), StructuralChunks(doc)))
    IN  [k \in DOMAIN bound |-> Truncated(bound[k])]

=============================================================================
