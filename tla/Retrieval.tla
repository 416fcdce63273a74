----------------------------- MODULE Retrieval -----------------------------
(***************************************************************************)
(* From the vector search's answers to the evidence the model reads: the   *)
(* fusion of the queries' channels, the pool, the selection, the score     *)
(* gate and the presentation window of                                     *)
(* persistent_retriever.retrieve_multi.  A channel is what one query       *)
(* found: "ids", best first, and the cosine "score" of each, times a       *)
(* hundred.  "at" maps the id of a chunk to the chunk.                     *)
(***************************************************************************)
EXTENDS Chunker

CONSTANTS
    CandidateK,    \* candidate_k
    FinalK,        \* final_k: the top_k of the tool call
    WindowFactor,  \* filtered_window_multiplier
    MaxWindow,     \* max_filtered_window
    Quota,         \* quota_per_query
    RrfK,          \* rrf_k
    FloorPercent,  \* score_floor_ratio
    MinScore,      \* min_score, times a hundred
    Budget,        \* characters of a presentation window
    TableBudget,   \* characters of a table's
    NeighborMin    \* neighbor_min_chars

ASSUME RetrievalConstants ==
    /\ {CandidateK, FinalK, WindowFactor, MaxWindow, RrfK, Budget, TableBudget}
           \subseteq Nat \ {0}
    /\ {Quota, MinScore, NeighborMin} \subseteq Nat
    /\ FloorPercent \in 0..100

Larger(a, b) == IF a < b THEN b ELSE a
Smaller(a, b) == IF a < b THEN a ELSE b
Take(s, n) == SubSeq(s, 1, Smaller(n, Len(s)))
Without(s, taken) == Only(s, LAMBDA id : ~Contains(taken, id))

\* A query in a scope asks for more than the window.
Window == Smaller(Larger(CandidateK, FinalK) * WindowFactor, MaxWindow)
PoolSize == Larger(CandidateK, FinalK)

(***************************************************************************)
(* Fusion                                                                  *)
(***************************************************************************)
Found(channels) == UNION {Range(channels[q].ids) : q \in DOMAIN channels}

BestDense(channels, id) ==
    Max({channels[q].score[id] : q \in {q \in DOMAIN channels : Contains(channels[q].ids, id)}})

\* 1 / (RrfK + rank), times a common denominator.
Vote == [rank \in 1..Window |->
            FoldLeft(LAMBDA product, r : IF r = rank THEN product ELSE product * (RrfK + r), 1,
                     [r \in 1..Window |-> r])]

Votes(channels, id) ==
    FoldLeft(LAMBDA sum, c : sum + IF Contains(c.ids, id)
                                   THEN Vote[CHOOSE r \in DOMAIN c.ids : c.ids[r] = id] ELSE 0,
             0, channels)

\* reciprocal_rank_fusion: most votes first, then whichever was seen first.
Fuse(channels) ==
    LET seen == FoldLeft(LAMBDA s, c : s \o Without(c.ids, s), <<>>, channels)
        Ahead(a, b) == a[1] > b[1] \/ (a[1] = b[1] /\ a[2] < b[2])
        order == Sorted({<<Votes(channels, seen[k]), k>> : k \in DOMAIN seen}, Ahead)
    IN  [k \in DOMAIN order |-> seen[order[k][2]]]

\* Every query owns a place in the pool for the best it found that is not in
\* it yet; the fused order fills the rest.
SelectWithQuota(fused, channels) ==
    LET owed == FoldLeft(LAMBDA pool, c :
                            pool \o Take(Without(Only(c.ids, LAMBDA id : Contains(fused, id)), pool),
                                         Smaller(Quota, PoolSize - Len(pool))),
                         <<>>, channels)
    IN  Take(owed \o Without(fused, owed), PoolSize)

(***************************************************************************)
(* Selection                                                               *)
(***************************************************************************)
IsTable(c) == c.kind \in {"table_summary", "table_pack"}

\* Hits far below the best are dropped, unless nothing scores above zero.
AboveFloor(hits, score) ==
    LET top == Max({score[id] : id \in Range(hits)})
    IN  IF hits = <<>> \/ FloorPercent = 0 \/ top <= 0 THEN hits
        ELSE Only(hits, LAMBDA id : 100 * score[id] >= top * FloorPercent)

\* One slot for a table or a figure, by the id of its element, one for the
\* formulas of a page, and one for each chunk of prose.
CollapseKey(id, c) ==
    CASE IsTable(c) -> <<"table", Anchor(c)>>
      [] c.kind = "figure" -> <<"figure", Anchor(c)>>
      [] c.kind = "formula" -> <<"formula", <<c.doc, Min(c.pages)>>>>
      [] OTHER -> <<"prose", id>>

PrefersOver(c, old) == c.kind = "table_pack" /\ old.kind = "table_summary"

DiversifyHits(hits, score, at, allow) ==
    FoldLeft(LAMBDA kept, id :
        LET same == {k \in DOMAIN kept : CollapseKey(kept[k], at[kept[k]]) = CollapseKey(id, at[id])}
        IN  IF Len(kept) >= FinalK \/ (IsTable(at[id]) /\ ~allow) THEN kept
            ELSE IF same = {} THEN Append(kept, id)
            ELSE [k \in DOMAIN kept |->
                    IF k \in same /\ PrefersOver(at[id], at[kept[k]]) THEN id ELSE kept[k]],
        <<>>, AboveFloor(hits, score))

\* The best score of the pool among what the table gate lets through, as a
\* sequence of at most one.
DenseTop(pool, score, at, allow) ==
    LET open == Only(pool, LAMBDA id : allow \/ ~IsTable(at[id]))
    IN  Take(Only(open, LAMBDA id : \A o \in Range(open) : score[o] <= score[id]), 1)

\* Mutant of EnsureHitPresent: what is insured goes last.
EnsureHitLast(selected, required) ==
    Take(selected \o Without(required, selected), FinalK)

EnsureHitPresent(selected, required) ==
    Take(Without(required, selected) \o selected, FinalK)

\* Mutant of Select: a closed gate may leave nothing.
SelectGated(order, pool, score, at, wants) ==
    LET first == DiversifyHits(order, score, at, wants)
    IN  EnsureHitPresent(first, DenseTop(pool, score, at, wants))

\* If the closed table gate leaves nothing, it is opened.
Select(order, pool, score, at, wants) ==
    LET first == DiversifyHits(order, score, at, wants)
        blanked == first = <<>> /\ pool # <<>>
        chosen == IF blanked THEN DiversifyHits(order, score, at, TRUE) ELSE first
    IN  EnsureHitPresent(chosen, DenseTop(pool, score, at, blanked \/ wants))

\* The absolute gate; when it would leave nothing, the relative one.
Sufficient(hits, score) ==
    LET kept == Only(hits, LAMBDA id : score[id] >= MinScore)
        top == Max({score[id] : id \in Range(hits)})
    IN  IF MinScore = 0 \/ hits = <<>> \/ (kept = <<>> /\ FloorPercent = 0) THEN hits
        ELSE IF kept # <<>> THEN kept
        ELSE Only(hits, LAMBDA id : 100 * score[id] >= top * FloorPercent)

(***************************************************************************)
(* Presentation                                                            *)
(***************************************************************************)
\* What is stored under the same table id, in pack order, or the chunk alone.
SiblingsByTable(id, at) ==
    LET shards == {s \in DOMAIN at : IsTable(at[s]) /\ Anchor(at[s]) = Anchor(at[id])}
    IN  Sorted(shards, LAMBDA s, t : at[s].pack < at[t].pack \/ (at[s].pack = at[t].pack /\ s[1] < t[1]))

\* Mutant of MergedTablePrimary: the chunk that was found stands for its table.
OwnShard(id, at) == <<id>>

MergedTablePrimary(id, at) == IF IsTable(at[id]) THEN SiblingsByTable(id, at) ELSE <<id>>

Length(ids, at) == FoldLeft(LAMBDA n, id : n + 1 + Len(at[id].words), 0, ids)

\* build_presentation: the body first, then the neighbors the rest has room
\* for, nearest the front of each side first.
BuildPresentation(body, context, at, room) ==
    LET fit == Smaller(Length(body, at), room)
        Add(w, id) ==
            LET left == room - w.used
                n == Smaller(Length(<<id>>, at), left)
            IN  IF left < NeighborMin \/ n = 0 THEN w
                ELSE [w EXCEPT !.used = @ + n, !.context = Append(@, id)]
    IN  FoldLeft(Add, [body |-> body, cut |-> fit < Length(body, at), used |-> fit, context |-> <<>>],
                 context)

Context(id, at) ==
    LET prev == Sorted(at[id].before, LAMBDA a, b : a[2] < b[2])
        next == Sorted(at[id].after, LAMBDA a, b : a[2] < b[2])
        Nth(s, n) == SubSeq(s, n, Smaller(n, Len(s)))
    IN  Nth(prev, 1) \o Nth(next, 1) \o Nth(prev, 2) \o Nth(next, 2)

\* Prose and formulas are shown as they are, a table or a figure with the prose
\* around it, once for a table.
ExpandStructureNeighbors(hits, at) ==
    [k \in DOMAIN hits |->
        LET id == hits[k]
            again == \E j \in 1..(k - 1) :
                        IsTable(at[hits[j]]) /\ CollapseKey(hits[j], at[hits[j]]) = CollapseKey(id, at[id])
        IN  IF at[id].kind \in {"prose", "formula"}
            THEN [body |-> <<id>>, cut |-> FALSE, used |-> Length(<<id>>, at), context |-> <<>>]
            ELSE BuildPresentation(MergedTablePrimary(id, at), IF again THEN <<>> ELSE Context(id, at),
                                   at, IF IsTable(at[id]) THEN TableBudget ELSE Budget)]

=============================================================================
