--------------------------- MODULE ChunkerProofs ---------------------------
(***************************************************************************)
(* Proofs about Chunker, for any document and any limits.  Its operators   *)
(* are folds, sorts and filters: the first sections say what these compute.*)
(* Induction is by the least counterexample: WFMin says that a nonempty    *)
(* set of numbers has a least one.                                         *)
(***************************************************************************)
EXTENDS Chunker, FiniteSetTheorems, SequenceTheorems, TLAPS

(***************************************************************************)
(* Induction                                                               *)
(***************************************************************************)
Smaller2 == OpToRel(<, Nat)

LEMMA LeastOfNat ==
  ASSUME NEW T, T \subseteq Nat, T # {}
  PROVE  \E n \in T : \A m \in T : n <= m
<1>1. IsWellFoundedOn(Smaller2, Nat)
  BY NatLessThanWellFounded DEF Smaller2
<1>2. PICK n \in T : \A m \in T : ~ (<<m, n>> \in Smaller2)
  BY <1>1, WFMin
<1>3. \A m, k \in Nat : <<m, k>> \in Smaller2 <=> m < k
  BY DEF Smaller2, OpToRel
<1>4. ASSUME NEW m \in T PROVE n <= m
  <2>1. m \in Nat /\ n \in Nat /\ ~(m < n)
    BY <1>2, <1>3
  <2> QED
    BY <2>1
<1> QED
  BY <1>4

LEMMA UpTo ==
  ASSUME NEW N \in Nat, NEW G, 0 \in G, \A i \in 1..N : i - 1 \in G => i \in G
  PROVE  \A i \in 0..N : i \in G
<1> SUFFICES ASSUME (0..N) \ G # {} PROVE FALSE
  OBVIOUS
<1> DEFINE Bad == (0..N) \ G
<1>1. PICK n \in Bad : \A m \in Bad : n <= m
  <2>1. Bad \subseteq Nat /\ Bad # {}
    OBVIOUS
  <2> HIDE DEF Bad
  <2> QED
    BY <2>1, LeastOfNat
<1>2. n \in 1..N /\ n - 1 \in 0..N
  BY <1>1
<1>3. n - 1 \in G
  BY <1>1, <1>2
<1> QED
  BY <1>1, <1>2, <1>3

LEMMA ByRemoving ==
  ASSUME NEW S, IsFiniteSet(S), NEW G, {} \in G,
         \A T \in SUBSET S : T # {} => \E x \in T : T \ {x} \in G => T \in G
  PROVE  \A T \in SUBSET S : T \in G
<1> DEFINE N == Cardinality(S)
           Good == {n \in 0..N : \A T \in SUBSET S : Cardinality(T) = n => T \in G}
<1>1. N \in Nat
  BY FS_CardinalityType
<1>2. \A T \in SUBSET S : IsFiniteSet(T) /\ Cardinality(T) \in 0..N
  BY <1>1, FS_Subset, FS_CardinalityType
<1>3. 0 \in Good
  BY <1>1, <1>2, FS_EmptySet
<1>4. ASSUME NEW i \in 1..N, i - 1 \in Good PROVE i \in Good
  <2> SUFFICES ASSUME NEW T \in SUBSET S, Cardinality(T) = i PROVE T \in G
    BY <1>1
  <2>1. T # {}
    <3>1. Cardinality({}) = 0 /\ i # 0
      BY <1>1, FS_EmptySet
    <3> QED
      BY <3>1
  <2>2. PICK x \in T : T \ {x} \in G => T \in G
    BY <2>1
  <2>3. Cardinality(T \ {x}) = i - 1
    BY <1>2, FS_RemoveElement
  <2>4. T \ {x} \in G
    BY <1>4, <2>3
  <2> QED
    BY <2>2, <2>4
<1> HIDE DEF Good
<1>5. \A i \in 0..N : i \in Good
  BY <1>1, <1>3, <1>4, UpTo
<1> QED
  BY <1>2, <1>5 DEF Good

LEMMA ByAdding ==
  ASSUME NEW S, IsFiniteSet(S), NEW G, {} \in G,
         \A T \in SUBSET S : \A x \in S \ T : T \in G => T \cup {x} \in G
  PROVE  \A T \in SUBSET S : T \in G
<1>1. ASSUME NEW T \in SUBSET S, T # {} PROVE \E x \in T : T \ {x} \in G => T \in G
  <2>1. PICK x \in T : TRUE
    BY <1>1
  <2>2. T = (T \ {x}) \cup {x} /\ x \in S \ (T \ {x}) /\ T \ {x} \in SUBSET S
    OBVIOUS
  <2>3. T \ {x} \in G => (T \ {x}) \cup {x} \in G
    BY <2>2
  <2> QED
    BY <2>2, <2>3
<1> QED
  BY <1>1, ByRemoving

(***************************************************************************)
(* Largest and smallest elements                                           *)
(***************************************************************************)
LEMMA MaxIs ==
  ASSUME NEW S, IsFiniteSet(S), S \subseteq Int, S # {}
  PROVE  Max(S) \in S /\ \A x \in S : x <= Max(S)
<1> DEFINE G == {T \in SUBSET S : T = {} \/ \E m \in T : \A x \in T : x <= m}
<1>1. {} \in G
  OBVIOUS
<1>2. ASSUME NEW T \in SUBSET S, NEW x \in S \ T, T \in G PROVE T \cup {x} \in G
  <2>1. CASE T = {}
    BY <2>1
  <2>2. ASSUME NEW m \in T, \A y \in T : y <= m PROVE T \cup {x} \in G
    <3>1. CASE m <= x
      <4>1. \A y \in T \cup {x} : y <= x
        BY <2>2, <3>1
      <4> QED
        BY <4>1
    <3>2. CASE x <= m
      <4>1. \A y \in T \cup {x} : y <= m
        BY <2>2, <3>2
      <4> QED
        BY <4>1
    <3> QED
      BY <3>1, <3>2
  <2> QED
    BY <1>2, <2>1, <2>2
<1> HIDE DEF G
<1>3. S \in G
  BY <1>1, <1>2, ByAdding
<1>4. \E m \in S : \A x \in S : m >= x
  BY <1>3 DEF G
<1> QED
  BY <1>4 DEF Max

LEMMA MinIs ==
  ASSUME NEW S, S \subseteq Nat, S # {}
  PROVE  Min(S) \in S /\ \A x \in S : Min(S) <= x
BY LeastOfNat DEF Min

LEMMA MaxUpTo ==
  ASSUME NEW i \in Nat, i # 0
  PROVE  Max(1..i) = i /\ (1..i) \ {i} = 1..(i - 1)
<1>1. IsFiniteSet(1..i) /\ 1..i \subseteq Int /\ i \in 1..i
  BY FS_Interval
<1>2. Max(1..i) \in 1..i /\ \A x \in 1..i : x <= Max(1..i)
  BY <1>1, MaxIs
<1> QED
  BY <1>1, <1>2

(***************************************************************************)
(* Folds                                                                   *)
(***************************************************************************)
\* The function "it" that MapThenFoldSet defines recursively: c chooses the next
\* element, F folds an element into a value.
CanFold(S, c, V, base, F) ==
    /\ IsFiniteSet(S) /\ base \in V
    /\ \A s \in SUBSET S : s # {} => c[s] \in s
    /\ \A x \in S : \A v \in V : F[<<x, v>>] \in V
IsFold(S, c, V, base, F, it) ==
    /\ it \in [SUBSET S -> V]
    /\ \A s \in SUBSET S : it[s] = IF s = {} THEN base ELSE F[<<c[s], it[s \ {c[s]}]>>]

LEMMA FoldExists ==
  ASSUME NEW S, NEW c, NEW V, NEW base, NEW F, CanFold(S, c, V, base, F)
  PROVE  \E it : IsFold(S, c, V, base, F, it)
<1> USE DEF CanFold
<1> DEFINE Step(g) == [s \in SUBSET S |-> IF s = {} THEN base ELSE F[<<c[s], g[s \ {c[s]}]>>]]
           Fits(g, n) == \A s \in SUBSET S : Cardinality(s) <= n => g[s] = Step(g)[s]
           Good(N) == {n \in 0..N : \E g \in [SUBSET S -> V] : Fits(g, n)}
<1>1. PICK N \in Nat : N = Cardinality(S)
  BY FS_CardinalityType
<1>2. \A s \in SUBSET S : IsFiniteSet(s) /\ Cardinality(s) \in Nat /\ Cardinality(s) <= N
  BY <1>1, FS_Subset, FS_CardinalityType
<1>3. \A s \in SUBSET S : Cardinality(s) <= 0 => s = {}
  <2> SUFFICES ASSUME NEW s \in SUBSET S, Cardinality(s) <= 0 PROVE s = {}
    OBVIOUS
  <2>1. Cardinality(s) = 0 /\ IsFiniteSet(s)
    BY <1>2
  <2> QED
    BY <2>1, FS_EmptySet
<1>4. 0 \in Good(N)
  <2> DEFINE g == [s \in SUBSET S |-> base]
  <2>1. g \in [SUBSET S -> V]
    OBVIOUS
  <2>2. Fits(g, 0)
    BY <1>3
  <2> HIDE DEF Fits, g
  <2> QED
    BY <2>1, <2>2
<1>5. ASSUME NEW i \in 1..N, i - 1 \in Good(N) PROVE i \in Good(N)
  <2>1. PICK g \in [SUBSET S -> V] : Fits(g, i - 1)
    BY <1>5
  <2>2. Step(g) \in [SUBSET S -> V]
    <3>1. ASSUME NEW s \in SUBSET S, s # {} PROVE F[<<c[s], g[s \ {c[s]}]>>] \in V
      <4>1. c[s] \in S /\ g[s \ {c[s]}] \in V
        BY <3>1
      <4> QED
        BY <4>1
    <3> QED
      BY <3>1
  <2>3. ASSUME NEW s \in SUBSET S, Cardinality(s) <= i, s # {}
        PROVE  Step(g)[s] = F[<<c[s], Step(g)[s \ {c[s]}]>>]
    <3> DEFINE t == s \ {c[s]}
    <3>1. c[s] \in s /\ t \in SUBSET S
      BY <2>3
    <3>2. Cardinality(t) = Cardinality(s) - 1
      BY <1>2, <3>1, FS_RemoveElement
    <3>3. Cardinality(t) <= i - 1
      <4>1. Cardinality(s) \in Nat /\ i \in Nat
        BY <1>2
      <4> HIDE DEF t
      <4> QED
        BY <2>3, <3>2, <4>1
    <3>4. Step(g)[t] = g[t]
      BY <2>1, <3>1, <3>3
    <3> QED
      BY <2>3, <3>4
  <2>4. Fits(Step(g), i)
    <3> SUFFICES ASSUME NEW s \in SUBSET S, Cardinality(s) <= i
                 PROVE  Step(g)[s] = Step(Step(g))[s]
      OBVIOUS
    <3>1. CASE s = {}
      BY <3>1
    <3>2. CASE s # {}
      BY <2>3, <3>2
    <3> QED
      BY <3>1, <3>2
  <2> HIDE DEF Fits, Step
  <2> QED
    BY <2>2, <2>4
<1>6. N \in Good(N)
  <2> HIDE DEF Good
  <2> QED
    BY <1>4, <1>5, UpTo
<1> QED
  BY <1>2, <1>6 DEF IsFold

\* For a fold over a sequence of N, from its front.
CanFoldLeft(N, V, base, F) ==
    N \in Nat /\ base \in V /\ \A k \in 1..N : \A v \in V : F[<<k, v>>] \in V

IsFoldLeft(N, V, base, F, it) ==
    /\ it \in [SUBSET (1..N) -> V] /\ it[{}] = base
    /\ \A s \in SUBSET (1..N) :
          s # {} => Max(s) \in 1..N /\ it[s] = F[<<Max(s), it[s \ {Max(s)}]>>]

LEMMA FoldLeftExists ==
  ASSUME NEW N, NEW V, NEW base, NEW F, CanFoldLeft(N, V, base, F)
  PROVE  \E it : IsFoldLeft(N, V, base, F, it)
<1> DEFINE c == [s \in SUBSET (1..N) |-> Max(s)]
<1>1. IsFiniteSet(1..N) /\ 1..N \subseteq Int
  <2>1. 1 \in Int /\ N \in Int
    BY DEF CanFoldLeft
  <2> QED
    BY <2>1, FS_Interval
<1>2. ASSUME NEW s \in SUBSET (1..N), s # {} PROVE c[s] \in s
  <2>1. IsFiniteSet(s) /\ s \subseteq Int
    BY <1>1, FS_Subset
  <2> QED
    BY <1>2, <2>1, MaxIs
<1>3. CanFold(1..N, c, V, base, F)
  BY <1>1, <1>2 DEF CanFold, CanFoldLeft
<1>4. \E it : IsFold(1..N, c, V, base, F, it)
  <2> HIDE DEF c
  <2> QED
    BY <1>3, FoldExists
<1> QED
  BY <1>2, <1>4 DEF IsFold, IsFoldLeft

\* What a fold has computed after each of its first elements.
IsRun(N, V, base, F, run) ==
    /\ run \in [0..N -> V] /\ run[0] = base
    /\ \A k \in 1..N : run[k] = F[<<k, run[k - 1]>>]

\* A function defined by recursion on the sets of places as FoldLeft's is, for
\* the values that F covers.
Unfolds(N, V, base, F, it) ==
    /\ it[{}] = base
    /\ \A S \in SUBSET (1..N) :
          S # {} /\ Max(S) \in 1..N /\ it[S \ {Max(S)}] \in V =>
              it[S] = F[<<Max(S), it[S \ {Max(S)}]>>]

LEMMA FoldLeftRuns ==
  ASSUME NEW N, NEW V, NEW base, NEW F, CanFoldLeft(N, V, base, F),
         NEW it, Unfolds(N, V, base, F, it)
  PROVE  \E run : IsRun(N, V, base, F, run) /\ run[N] = it[1..N]
<1> USE DEF CanFoldLeft
<1> DEFINE run == [k \in 0..N |-> it[1..k]]
           Good == {k \in 0..N : run[k] \in V}
<1>1. run[0] = base
  BY DEF Unfolds
<1>2. ASSUME NEW k \in 1..N, run[k - 1] \in V
      PROVE  run[k] = F[<<k, run[k - 1]>>]
  <2>1. Max(1..k) = k /\ (1..k) \ {k} = 1..(k - 1)
    BY MaxUpTo
  <2>2. run[k] = it[1..k] /\ run[k - 1] = it[1..(k - 1)]
    OBVIOUS
  <2>3. 1..k \in SUBSET (1..N) /\ 1..k # {}
    OBVIOUS
  <2> HIDE DEF run
  <2> QED
    BY <1>2, <2>1, <2>2, <2>3 DEF Unfolds
<1>3. \A k \in 0..N : k \in Good
  <2>1. 0 \in Good
    BY <1>1
  <2>2. ASSUME NEW k \in 1..N, k - 1 \in Good PROVE k \in Good
    <3>1. run[k - 1] \in V /\ k \in 0..N
      BY <2>2
    <3>2. run[k] = F[<<k, run[k - 1]>>]
      BY <1>2, <3>1
    <3> HIDE DEF run
    <3> QED
      BY <3>1, <3>2
  <2> HIDE DEF Good
  <2> QED
    BY <2>1, <2>2, UpTo
<1>4. run[N] = it[1..N]
  OBVIOUS
<1> HIDE DEF run
<1>5. \A k \in 0..N : run[k] \in V
  BY <1>3
<1>6. ASSUME NEW k \in 1..N PROVE run[k] = F[<<k, run[k - 1]>>]
  BY <1>2, <1>5
<1>7. run \in [0..N -> V]
  BY <1>5 DEF run
<1> QED
  BY <1>1, <1>4, <1>6, <1>7 DEF IsRun

(***************************************************************************)
(* Filters                                                                 *)
(***************************************************************************)
\* t is what s has at the places in "at", which are pos[1] < pos[2] < ...
Picks(t, pos, s, at) ==
    /\ DOMAIN pos = DOMAIN t
    /\ \A m \in DOMAIN t : pos[m] \in at /\ t[m] = s[pos[m]]
    /\ \A m, n \in DOMAIN t : m < n => pos[m] < pos[n]
    /\ \A k \in at : \E m \in DOMAIN t : pos[m] = k

\* Places after the first elements of s.
PlacesStep(X, s, at) ==
    [p \in (1..Len(s)) \X Seq(X) |-> IF p[1] \in at THEN Append(p[2], s[p[1]]) ELSE p[2]]

LEMMA PlacesRun ==
  ASSUME NEW X, NEW s \in Seq(X), NEW at
  PROVE  \E run : /\ IsRun(Len(s), Seq(X), <<>>, PlacesStep(X, s, at), run)
                  /\ run[Len(s)] = Places(s, at)
<1> DEFINE N == Len(s)
           V == Seq(X)
           seq == [k \in DOMAIN s |-> k]
           F == PlacesStep(X, s, at)
           Add(S, v) == IF seq[Max(S)] \in at THEN Append(v, s[seq[Max(S)]]) ELSE v
           Eq(it) == it = [S \in SUBSET DOMAIN seq |->
                              IF S = {} THEN <<>> ELSE Add(S, it[S \ {Max(S)}])]
<1>1. DOMAIN seq = 1..N /\ CanFoldLeft(N, V, <<>>, F)
  BY DEF CanFoldLeft, PlacesStep
<1>2. \A S, v : Max(S) \in 1..N /\ v \in V => F[<<Max(S), v>>] = Add(S, v)
  BY DEF PlacesStep
<1>3. PICK it : IsFoldLeft(N, V, <<>>, F, it)
  <2> HIDE DEF N, V, F
  <2> QED
    BY <1>1, FoldLeftExists
<1>4. Eq(it)
  <2> HIDE DEF N, V, F, Add, seq
  <2>1. \A S \in SUBSET (1..N) : S # {} => it[S] = Add(S, it[S \ {Max(S)}])
    BY <1>2, <1>3 DEF IsFoldLeft
  <2> QED
    BY <1>1, <1>3, <2>1 DEF IsFoldLeft
<1>5. PICK jt : Eq(jt) /\ Places(s, at) = jt[DOMAIN seq]
  BY <1>4 DEF Places, FoldLeft, MapThenFoldSet
<1>6. Unfolds(N, V, <<>>, F, jt)
  <2> HIDE DEF N, V, F, Add, seq
  <2>1. jt[{}] = <<>> /\ \A S \in SUBSET (1..N) : S # {} => jt[S] = Add(S, jt[S \ {Max(S)}])
    BY <1>1, <1>5
  <2> HIDE DEF Eq
  <2> QED
    BY <1>2, <2>1 DEF Unfolds
<1> HIDE DEF N, V, F, Add, seq, Eq
<1>7. \E run : IsRun(N, V, <<>>, F, run) /\ run[N] = jt[1..N]
  BY <1>1, <1>6, FoldLeftRuns
<1> QED
  BY <1>1, <1>5, <1>7 DEF N, V, F

LEMMA PlacesPick ==
  ASSUME NEW X, NEW s \in Seq(X), NEW at, at \subseteq 1..Len(s)
  PROVE  /\ Places(s, at) \in Seq(X)
         /\ \E pos : Picks(Places(s, at), pos, s, at)
<1> DEFINE N == Len(s)
           To(k) == at \cap 1..k
<1>1. PICK run : IsRun(N, Seq(X), <<>>, PlacesStep(X, s, at), run) /\ run[N] = Places(s, at)
  BY PlacesRun
<1>2. N \in Nat /\ run \in [0..N -> Seq(X)] /\ run[0] = <<>>
  BY <1>1 DEF IsRun
<1>3. \A k \in 1..N : run[k] = IF k \in at THEN Append(run[k - 1], s[k]) ELSE run[k - 1]
  <2> SUFFICES ASSUME NEW k \in 1..N
               PROVE  run[k] = IF k \in at THEN Append(run[k - 1], s[k]) ELSE run[k - 1]
    OBVIOUS
  <2>1. run[k - 1] \in Seq(X) /\ run[k] = PlacesStep(X, s, at)[<<k, run[k - 1]>>]
    <3>1. k - 1 \in 0..N
      BY <1>2
    <3> QED
      BY <1>1, <3>1 DEF IsRun
  <2> QED
    BY <2>1 DEF PlacesStep
<1> DEFINE Good == {k \in 0..N : \E pos : Picks(run[k], pos, s, To(k))}
<1>4. 0 \in Good
  <2>1. Picks(<<>>, <<>>, s, To(0))
    BY DEF Picks
  <2> QED
    BY <1>2, <2>1
<1>5. ASSUME NEW k \in 1..N, k - 1 \in Good PROVE k \in Good
  <2> DEFINE t == run[k - 1]
             L == Len(t)
  <2>1. PICK pos : Picks(t, pos, s, To(k - 1))
    BY <1>5
  <2>2. t \in Seq(X) /\ L \in Nat /\ DOMAIN t = 1..L /\ s[k] \in X
    BY <1>2
  <2>3. CASE k \notin at
    <3>1. To(k) = To(k - 1) /\ run[k] = t /\ k \in 0..N
      BY <1>2, <1>3, <2>3
    <3> HIDE DEF To, t
    <3> QED
      BY <2>1, <3>1
  <2>4. CASE k \in at
    <3> DEFINE u == Append(t, s[k])
               wider == [m \in 1..(L + 1) |-> IF m = L + 1 THEN k ELSE pos[m]]
    <3>1. run[k] = u
      BY <1>3, <2>4
    <3>2. DOMAIN u = 1..(L + 1) /\ u[L + 1] = s[k] /\ \A m \in 1..L : u[m] = t[m]
      BY <2>2, AppendProperties
    <3>3. To(k) = To(k - 1) \cup {k} /\ \A j \in To(k - 1) : j < k
      BY <1>2, <2>4
    <3> HIDE DEF u, t, L, To
    <3>4. Picks(u, wider, s, To(k))
      <4>1. \A m \in 1..L : pos[m] \in To(k - 1) /\ t[m] = s[pos[m]]
        BY <2>1, <2>2 DEF Picks
      <4>2. \A m, n \in 1..(L + 1) : m < n => wider[m] < wider[n]
        <5> SUFFICES ASSUME NEW m \in 1..(L + 1), NEW n \in 1..(L + 1), m < n
                     PROVE  wider[m] < wider[n]
          OBVIOUS
        <5>1. m \in 1..L /\ (n = L + 1 \/ n \in 1..L)
          BY <2>2
        <5>2. wider[m] = pos[m]
          BY <2>2, <5>1
        <5> QED
          BY <2>1, <2>2, <3>3, <4>1, <5>1, <5>2 DEF Picks
      <4>3. \A j \in To(k) : \E m \in 1..(L + 1) : wider[m] = j
        BY <2>1, <2>2, <3>3 DEF Picks
      <4>4. \A m \in 1..(L + 1) : wider[m] \in To(k) /\ u[m] = s[wider[m]]
        BY <2>2, <3>2, <3>3, <4>1
      <4> QED
        BY <3>2, <4>2, <4>3, <4>4 DEF Picks
    <3> QED
      BY <3>1, <3>4
  <2> QED
    BY <2>3, <2>4
<1> HIDE DEF Good
<1>6. \A k \in 0..N : k \in Good
  BY <1>2, <1>4, <1>5, UpTo
<1>7. To(N) = at
  OBVIOUS
<1> QED
  BY <1>1, <1>2, <1>6, <1>7 DEF Good

(***************************************************************************)
(* Sorts                                                                   *)
(***************************************************************************)
IsOrder(R, S) ==
    /\ \A x \in S : ~R[<<x, x>>]
    /\ \A x, y \in S : x # y => R[<<x, y>>] \/ R[<<y, x>>]
    /\ \A x, y, z \in S : R[<<x, y>>] /\ R[<<y, z>>] => R[<<x, z>>]

InLine(t, R) == \A m, n \in DOMAIN t : m < n => R[<<t[m], t[n]>>]

\* A set of places that has every place before one it has.
LEMMA FrontSet ==
  ASSUME NEW L \in Nat, NEW K \in SUBSET (1..L), \A k \in K : \A j \in 1..k : j \in K
  PROVE  Cardinality(K) \in 0..L /\ K = 1..Cardinality(K)
<1>1. CASE K = {}
  BY <1>1, FS_EmptySet
<1>2. CASE K # {}
  <2>1. 1 \in Int /\ L \in Int
    OBVIOUS
  <2>2. IsFiniteSet(1..L)
    BY <2>1, FS_Interval
  <2>3. IsFiniteSet(K) /\ K \subseteq Int
    <3>1. IsFiniteSet(K)
      BY <2>2, FS_Subset
    <3> QED
      BY <3>1
  <2> DEFINE M == Max(K)
  <2>4. M \in K /\ \A x \in K : x <= M
    BY <1>2, <2>3, MaxIs
  <2> HIDE DEF M
  <2>5. M \in 1..L /\ \A j \in 1..M : j \in K
    BY <2>4
  <2>6. K = 1..M
    <3>1. \A j \in K : j \in 1..M
      BY <2>4, <2>5
    <3> QED
      BY <2>5, <3>1
  <2>7. Cardinality(1..M) = M
    <3>1. M \in Int /\ ~(1 > M) /\ M - 1 + 1 = M
      BY <2>5
    <3> QED
      BY <2>1, <3>1, FS_Interval
  <2> QED
    BY <2>5, <2>6, <2>7
<1> QED
  BY <1>1, <1>2

Below(x, t, R) == {k \in DOMAIN t : R[<<t[k], x>>]}

LEMMA InsertIs ==
  ASSUME NEW S, NEW t \in Seq(S), NEW x \in S, NEW R,
         NEW n, n = Cardinality(Below(x, t, R)), NEW u, u = Insert(x, t, R)
  PROVE  /\ n \in 0..Len(t) /\ u \in Seq(S) /\ Len(u) = Len(t) + 1
         /\ \A m \in 1..(Len(t) + 1) :
               u[m] = IF m <= n THEN t[m] ELSE IF m = n + 1 THEN x ELSE t[m - 1]
<1> DEFINE K == Below(x, t, R)
           L == Len(t)
           front == SubSeq(t, 1, n)
           rear == SubSeq(t, n + 1, L)
<1>1. L \in Nat /\ DOMAIN t = 1..L
  OBVIOUS
<1>2. n \in 0..L
  <2>1. 1 \in Int /\ L \in Int
    BY <1>1
  <2>2. IsFiniteSet(1..L) /\ Cardinality(1..L) = L
    <3>1. Cardinality(1..L) = IF 1 > L THEN 0 ELSE L - 1 + 1
      BY <2>1, FS_Interval
    <3> QED
      BY <1>1, <2>1, <3>1, FS_Interval
  <2>3. K \in SUBSET (1..L)
    BY <1>1 DEF Below
  <2> HIDE DEF K
  <2>4. IsFiniteSet(K) /\ Cardinality(K) <= L
    BY <2>2, <2>3, FS_Subset
  <2> QED
    BY <1>1, <2>4, FS_CardinalityType DEF K
<1>3. \A i \in 1..n : t[i] \in S
  BY <1>1, <1>2
<1>4. \A i \in (n + 1)..L : t[i] \in S
  BY <1>1, <1>2
<1>5. front \in Seq(S) /\ Len(front) = n /\ \A i \in 1..n : front[i] = t[i]
  BY <1>2, <1>3, SubSeqProperties
<1>6. rear \in Seq(S) /\ Len(rear) = L - n /\ \A i \in 1..(L - n) : rear[i] = t[n + i]
  <2>1. n + 1 \in Int /\ L \in Int /\ (IF n + 1 <= L THEN L - (n + 1) + 1 ELSE 0) = L - n
    <3>1. n \in Int /\ L \in Int /\ n <= L
      BY <1>1, <1>2
    <3> HIDE DEF L
    <3> QED
      BY <3>1
  <2>2. /\ rear \in Seq(S) /\ Len(rear) = IF n + 1 <= L THEN L - (n + 1) + 1 ELSE 0
        /\ \A i \in 1..(L - (n + 1) + 1) : rear[i] = t[n + 1 + i - 1]
    BY <1>4, <2>1, SubSeqProperties
  <2>3. \A i \in 1..(L - n) : n + 1 + i - 1 = n + i /\ i \in 1..(L - (n + 1) + 1)
    BY <1>1, <1>2
  <2> HIDE DEF rear
  <2> QED
    BY <2>1, <2>2, <2>3
<1> HIDE DEF front, rear, L
<1>7a. u = front \o <<x>> \o rear
  BY DEF Insert, Below, front, rear, L
<1>7. front \o <<x>> \in Seq(S) /\ Len(front \o <<x>>) = n + 1
      /\ \A i \in 1..(n + 1) : (front \o <<x>>)[i] = IF i <= n THEN front[i] ELSE x
  BY <1>2, <1>5
<1>8. u \in Seq(S) /\ Len(u) = L + 1
      /\ \A i \in 1..(L + 1) :
            u[i] = IF i <= n + 1 THEN (front \o <<x>>)[i] ELSE rear[i - (n + 1)]
  <2> DEFINE f == front \o <<x>>
  <2>1. f \in Seq(S) /\ Len(f) = n + 1
    BY <1>7
  <2> HIDE DEF f
  <2>2. /\ f \o rear \in Seq(S) /\ Len(f \o rear) = n + 1 + (L - n)
        /\ \A i \in 1..(n + 1 + (L - n)) : (f \o rear)[i] =
                IF i <= n + 1 THEN f[i] ELSE rear[i - (n + 1)]
    <3>1. /\ f \o rear \in Seq(S) /\ Len(f \o rear) = Len(f) + Len(rear)
          /\ \A i \in 1..(Len(f) + Len(rear)) : (f \o rear)[i] =
                  IF i <= Len(f) THEN f[i] ELSE rear[i - Len(f)]
      BY <1>6, <2>1, ConcatProperties
    <3> QED
      BY <1>6, <2>1, <3>1
  <2>3. n + 1 + (L - n) = L + 1
    BY <1>1, <1>2
  <2> QED
    BY <1>7a, <2>2, <2>3 DEF f
<1>9. ASSUME NEW m \in 1..(L + 1)
      PROVE  u[m] = IF m <= n THEN t[m] ELSE IF m = n + 1 THEN x ELSE t[m - 1]
  <2>1. CASE m <= n + 1
    BY <1>1, <1>2, <1>5, <1>7, <1>8, <2>1
  <2>2. CASE m > n + 1
    <3>1. m - (n + 1) \in 1..(L - n) /\ n + (m - (n + 1)) = m - 1
      BY <1>1, <1>2, <2>2
    <3>2. rear[m - (n + 1)] = t[n + (m - (n + 1))]
      BY <1>6, <3>1
    <3> QED
      BY <1>1, <1>2, <1>8, <2>2, <3>1, <3>2
  <2> QED
    BY <1>1, <1>2, <2>1, <2>2
<1> QED
  BY <1>2, <1>8, <1>9 DEF L

\* t lists the elements of T in the order R, each once.
Lists(t, T, R) ==
    /\ InLine(t, R)
    /\ \A k \in DOMAIN t : t[k] \in T
    /\ \A y \in T : \E k \in DOMAIN t : t[k] = y

LEMMA InsertLists ==
  ASSUME NEW S, NEW R, IsOrder(R, S), NEW T \in SUBSET S, NEW t \in Seq(S), Lists(t, T, R),
         NEW x \in S \ T
  PROVE  Lists(Insert(x, t, R), T \cup {x}, R)
<1> DEFINE K == Below(x, t, R)
           n == Cardinality(K)
           L == Len(t)
           u == Insert(x, t, R)
<1>1. L \in Nat /\ DOMAIN t = 1..L /\ \A k \in 1..L : t[k] \in S
  OBVIOUS
<1>2. /\ n \in 0..L /\ u \in Seq(S) /\ Len(u) = L + 1
      /\ \A m \in 1..(L + 1) :
            u[m] = IF m <= n THEN t[m] ELSE IF m = n + 1 THEN x ELSE t[m - 1]
  <2>1. x \in S
    OBVIOUS
  <2> QED
    BY <2>1, InsertIs
<1>3. DOMAIN u = 1..(L + 1)
  BY <1>2
<1>4. \A k \in 1..L : \A j \in 1..L : j < k => R[<<t[j], t[k]>>]
  BY <1>1 DEF Lists, InLine
<1>5. \A k \in 1..L : t[k] \in T /\ t[k] # x
  BY <1>1 DEF Lists
<1> USE DEF Below
<1>6. K = 1..n
  <2>1. ASSUME NEW k \in K, NEW j \in 1..k PROVE j \in K
    <3>1. k \in 1..L /\ j \in 1..L /\ R[<<t[k], x>>]
      BY <1>1, <2>1
    <3>2. CASE j = k
      BY <3>2
    <3>3. CASE j < k
      <4>1. R[<<t[j], t[k]>>]
        BY <1>4, <3>1, <3>3
      <4>2. R[<<t[j], x>>]
        BY <1>1, <3>1, <4>1 DEF IsOrder
      <4> QED
        BY <1>1, <3>1, <4>2
    <3> QED
      BY <1>1, <3>1, <3>2, <3>3
  <2>2. K \in SUBSET (1..L)
    BY <1>1
  <2> HIDE DEF K, L
  <2> QED
    BY <1>1, <2>1, <2>2, FrontSet
<1>7. \A k \in 1..L : k <= n => R[<<t[k], x>>]
  BY <1>2, <1>6
<1>8. ASSUME NEW k \in 1..L, k > n PROVE R[<<x, t[k]>>]
  <2>1. k \notin K
    <3> HIDE DEF K
    <3>1. n \in Nat
      BY <1>1, <1>2
    <3> QED
      BY <1>6, <1>8, <3>1
  <2>2. ~R[<<t[k], x>>]
    BY <1>1, <2>1
  <2> QED
    BY <1>1, <1>5, <2>2 DEF IsOrder
<1> HIDE DEF u, n, L
<1>9. ASSUME NEW i \in 1..(L + 1), NEW j \in 1..(L + 1), i < j PROVE R[<<u[i], u[j]>>]
  <2>0. n \in Nat /\ n <= L
    BY <1>1, <1>2
  <2>1. CASE j <= n
    <3>1. u[i] = t[i] /\ u[j] = t[j] /\ i \in 1..L /\ j \in 1..L
      BY <1>1, <1>2, <1>9, <2>0, <2>1
    <3> QED
      BY <1>4, <1>9, <3>1
  <2>2. CASE j = n + 1
    <3>1. u[i] = t[i] /\ u[j] = x /\ i \in 1..L /\ i <= n
      BY <1>1, <1>2, <1>9, <2>0, <2>2
    <3> QED
      BY <1>7, <3>1
  <2>3. CASE j > n + 1
    <3>1. u[j] = t[j - 1] /\ j - 1 \in 1..L /\ j - 1 > n
      BY <1>1, <1>2, <1>9, <2>0, <2>3
    <3>2. CASE i <= n
      <4>1. u[i] = t[i] /\ i \in 1..L /\ i < j - 1
        BY <1>1, <1>2, <1>9, <2>0, <3>1, <3>2
      <4> QED
        BY <1>4, <3>1, <4>1
    <3>3. CASE i = n + 1
      <4>1. u[i] = x
        BY <1>1, <1>2, <1>9, <2>0, <3>3
      <4> QED
        BY <1>8, <3>1, <4>1
    <3>4. CASE i > n + 1
      <4>1. u[i] = t[i - 1] /\ i - 1 \in 1..L /\ i - 1 < j - 1
        BY <1>1, <1>2, <1>9, <2>0, <3>1, <3>4
      <4> QED
        BY <1>4, <3>1, <4>1
    <3> QED
      BY <1>1, <2>0, <3>2, <3>3, <3>4
  <2> QED
    BY <1>1, <2>0, <2>1, <2>2, <2>3
<1>10. \A m \in 1..(L + 1) : u[m] \in T \cup {x}
  BY <1>1, <1>2, <1>5
<1>11. ASSUME NEW y \in T \cup {x} PROVE \E m \in 1..(L + 1) : u[m] = y
  <2>0. n \in Nat /\ n <= L
    BY <1>1, <1>2
  <2>1. CASE y = x
    <3>1. n + 1 \in 1..(L + 1) /\ u[n + 1] = x
      BY <1>1, <1>2, <2>0
    <3> QED
      BY <2>1, <3>1
  <2>2. CASE y \in T
    <3>1. PICK k \in 1..L : t[k] = y
      BY <1>1, <2>2 DEF Lists
    <3>2. CASE k <= n
      <4>1. k \in 1..(L + 1) /\ u[k] = t[k]
        BY <1>1, <1>2, <2>0, <3>2
      <4> QED
        BY <3>1, <4>1
    <3>3. CASE k > n
      <4>1. k + 1 \in 1..(L + 1) /\ u[k + 1] = t[k]
        BY <1>1, <1>2, <2>0, <3>3
      <4> QED
        BY <3>1, <4>1
    <3> QED
      BY <1>1, <2>0, <3>2, <3>3
  <2> QED
    BY <2>1, <2>2
<1> QED
  BY <1>3, <1>9, <1>10, <1>11 DEF Lists, InLine, u

LEMMA InOrderLists ==
  ASSUME NEW S, IsFiniteSet(S), NEW R, IsOrder(R, S)
  PROVE  InOrder(S, R) \in Seq(S) /\ Lists(InOrder(S, R), S, R)
<1> DEFINE V == Seq(S)
           c == [T \in SUBSET S |-> CHOOSE x \in T : TRUE]
           F == [p \in S \X V |-> Insert(p[1], p[2], R)]
           Eq(it) == it = [T \in SUBSET S |->
                              IF T = {} THEN <<>>
                              ELSE Insert(CHOOSE x \in T : TRUE, it[T \ {CHOOSE x \in T : TRUE}], R)]
<1>1. ASSUME NEW x \in S, NEW t \in V PROVE Insert(x, t, R) \in V
  BY InsertIs
<1>2. \A T \in SUBSET S : T # {} => c[T] \in T
  OBVIOUS
<1>3. CanFold(S, c, V, <<>>, F)
  <2> HIDE DEF c
  <2> QED
    BY <1>1, <1>2 DEF CanFold
<1>4. PICK it : IsFold(S, c, V, <<>>, F, it)
  <2> HIDE DEF c, F, V
  <2> QED
    BY <1>3, FoldExists
<1>5. Eq(it)
  <2>1. ASSUME NEW T \in SUBSET S, T # {} PROVE it[T] = Insert(c[T], it[T \ {c[T]}], R)
    <3>1. it[T] = F[<<c[T], it[T \ {c[T]}]>>] /\ it[T \ {c[T]}] \in V /\ c[T] \in S
      <4> HIDE DEF c, F, V
      <4> QED
        BY <1>2, <1>4, <2>1 DEF IsFold
    <3> HIDE DEF c
    <3> QED
      BY <3>1
  <2> QED
    BY <1>4, <2>1 DEF IsFold
<1>6. PICK jt : Eq(jt) /\ InOrder(S, R) = jt[S]
  BY <1>5 DEF InOrder, FoldSet, MapThenFoldSet
<1> DEFINE Good == {T \in SUBSET S : jt[T] \in V /\ Lists(jt[T], T, R)}
<1>7. {} \in Good
  <2>1. jt[{}] = <<>>
    BY <1>6
  <2>2. Lists(<<>>, {}, R) /\ <<>> \in V
    BY DEF Lists, InLine
  <2>3. Lists(jt[{}], {}, R) /\ jt[{}] \in V
    BY <2>1, <2>2
  <2> QED
    BY <2>3
<1>8. ASSUME NEW T \in SUBSET S, T # {} PROVE \E x \in T : T \ {x} \in Good => T \in Good
  <2> DEFINE y == CHOOSE x \in T : TRUE
             t == jt[T \ {y}]
  <2>1. y \in T
    BY <1>8
  <2>2. jt[T] = Insert(y, t, R)
    BY <1>6, <1>8
  <2> HIDE DEF y
  <2>3. ASSUME T \ {y} \in Good PROVE T \in Good
    <3>1. t \in V /\ Lists(t, T \ {y}, R)
      BY <2>3
    <3> HIDE DEF t
    <3>2. Lists(Insert(y, t, R), (T \ {y}) \cup {y}, R)
      BY <2>1, <3>1, InsertLists
    <3>3. (T \ {y}) \cup {y} = T /\ Insert(y, t, R) \in V
      BY <1>1, <2>1, <3>1
    <3> QED
      BY <2>2, <3>2, <3>3
  <2> QED
    BY <2>1, <2>3
<1>9. S \in Good
  <2> HIDE DEF Good
  <2> QED
    BY <1>7, <1>8, ByRemoving
<1> QED
  BY <1>6, <1>9

(***************************************************************************)
(* Flattening                                                              *)
(***************************************************************************)
LEMMA RunExists ==
  ASSUME NEW N, NEW V, NEW base, NEW F, CanFoldLeft(N, V, base, F)
  PROVE  \E run : IsRun(N, V, base, F, run)
<1>1. PICK it : IsFoldLeft(N, V, base, F, it)
  BY FoldLeftExists
<1>2. Unfolds(N, V, base, F, it)
  BY <1>1 DEF IsFoldLeft, Unfolds
<1> QED
  BY <1>2, FoldLeftRuns

\* The provers expand \o where they see it.
Cat(s, t) == s \o t

\* What FlattenSeq has joined after each of the first sequences.
Joins(X, N, s, run) ==
    /\ run \in [0..N -> Seq(X)] /\ run[0] = <<>>
    /\ \A k \in 1..N : run[k] = Cat(run[k - 1], s[k])

LEMMA FlattenRuns ==
  ASSUME NEW X, NEW N \in Nat, NEW s \in [1..N -> Seq(X)]
  PROVE  \E run : Joins(X, N, s, run) /\ run[N] = FlattenSeq(s)
<1> DEFINE F == [p \in (1..N) \X Seq(X) |-> Cat(p[2], s[p[1]])]
           Next2(g, i) == IF i = 1 THEN s[i] ELSE Cat(g[i - 1], s[i])
           Eq(g) == g = [i \in 1..N |-> Next2(g, i)]
<1>0. Len(s) = N
  OBVIOUS
<1>1. CanFoldLeft(N, Seq(X), <<>>, F)
  <2>1. \A k \in 1..N : \A v \in Seq(X) : Cat(v, s[k]) \in Seq(X)
    BY ConcatProperties DEF Cat
  <2>2. <<>> \in Seq(X) /\ \A k \in 1..N : \A v \in Seq(X) : F[<<k, v>>] = Cat(v, s[k])
    OBVIOUS
  <2> HIDE DEF F
  <2> QED
    BY <2>1, <2>2 DEF CanFoldLeft
<1>2. PICK run : IsRun(N, Seq(X), <<>>, F, run)
  <2> HIDE DEF F
  <2> QED
    BY <1>1, RunExists
<1>3. Joins(X, N, s, run)
  <2> SUFFICES ASSUME NEW k \in 1..N PROVE run[k] = Cat(run[k - 1], s[k])
    BY <1>2 DEF IsRun, Joins
  <2>1. run[k - 1] \in Seq(X) /\ run[k] = F[<<k, run[k - 1]>>]
    <3>1. k - 1 \in 0..N
      OBVIOUS
    <3> QED
      BY <1>2, <3>1 DEF IsRun
  <2> QED
    BY <2>1
<1>6. ASSUME 1 \in 1..N PROVE run[1] = s[1]
  <2>1. \A j : j = 1 - 1 => run[1] = Cat(run[j], s[1])
    BY <1>3, <1>6 DEF Joins
  <2>2. run[1] = Cat(run[0], s[1])
    BY <2>1
  <2>3. run[0] = <<>> /\ s[1] \in Seq(X)
    BY <1>3, <1>6 DEF Joins
  <2> QED
    BY <2>2, <2>3, ConcatEmptySeq DEF Cat
<1>4. CASE N = 0
  <2>1. s = <<>> /\ FlattenSeq(s) = s
    BY <1>0, <1>4 DEF FlattenSeq
  <2> QED
    BY <1>3, <1>4, <2>1 DEF Joins
<1>5. CASE N # 0
  <2> DEFINE g == [i \in 1..N |-> run[i]]
  <2>1. Eq(g)
    <3> SUFFICES ASSUME NEW i \in 1..N PROVE run[i] = Next2(g, i)
      OBVIOUS
    <3>1. run[i] = Cat(run[i - 1], s[i]) /\ s[i] \in Seq(X)
      BY <1>3 DEF Joins
    <3>2. CASE i = 1
      BY <1>6, <3>1, <3>2
    <3>3. CASE i # 1
      <4>1. i - 1 \in 1..N
        BY <3>3
      <4>2. g[i - 1] = run[i - 1]
        BY <4>1
      <4> HIDE DEF g
      <4> QED
        BY <3>1, <3>3, <4>2
    <3> QED
      BY <3>2, <3>3
  <2>2. PICK h : Eq(h) /\ FlattenSeq(s) = h[N]
    <3> HIDE DEF g
    <3> QED
      BY <1>0, <1>5, <2>1 DEF FlattenSeq, Cat
  <2> DEFINE Good == {i \in 0..N : i = 0 \/ h[i] = run[i]}
  <2>3. ASSUME NEW i \in 1..N, i - 1 \in Good PROVE i \in Good
    <3>1. run[i] = Cat(run[i - 1], s[i]) /\ s[i] \in Seq(X)
      BY <1>3 DEF Joins
    <3>2. h[i] = Next2(h, i)
      BY <2>2
    <3>3. CASE i = 1
      BY <1>6, <3>1, <3>2, <3>3
    <3>4. CASE i # 1
      <4>1. h[i - 1] = run[i - 1]
        BY <2>3, <3>4
      <4>2. h[i] = Cat(h[i - 1], s[i])
        BY <3>2, <3>4
      <4> HIDE DEF Eq
      <4> QED
        BY <3>1, <4>1, <4>2
    <3> QED
      BY <3>3, <3>4
  <2> HIDE DEF Good
  <2>4. \A i \in 0..N : i \in Good
    <3>1. 0 \in Good
      BY DEF Good
    <3> QED
      BY <2>3, <3>1, UpTo
  <2>5. h[N] = run[N]
    BY <1>5, <2>4 DEF Good
  <2> QED
    BY <1>3, <2>2, <2>5
<1> QED
  BY <1>4, <1>5

\* Element n of "flat" is element col[n] of s[row[n]]; the sequences of s follow
\* one another, and none of their elements is missing.
Lays(flat, row, col, s, N) ==
    /\ \A n \in DOMAIN flat :
          row[n] \in 1..N /\ col[n] \in DOMAIN s[row[n]] /\ flat[n] = s[row[n]][col[n]]
    /\ \A m, n \in DOMAIN flat : m < n => row[m] < row[n] \/ (row[m] = row[n] /\ col[m] < col[n])
    /\ \A k \in 1..N : \A c \in DOMAIN s[k] : \E n \in DOMAIN flat : row[n] = k /\ col[n] = c

LEMMA LaysOneMore ==
  ASSUME NEW X, NEW s, NEW k \in Nat, k > 0, NEW t \in Seq(X), s[k] \in Seq(X),
         NEW row, NEW col, Lays(t, row, col, s, k - 1)
  PROVE  \E row2, col2 : Lays(Cat(t, s[k]), row2, col2, s, k)
<1> DEFINE L == Len(t)
           v == s[k]
           M == Len(v)
           u == Cat(t, v)
           row2 == [n \in 1..(L + M) |-> IF n <= L THEN row[n] ELSE k]
           col2 == [n \in 1..(L + M) |-> IF n <= L THEN col[n] ELSE n - L]
<1>1. L \in Nat /\ M \in Nat /\ DOMAIN t = 1..L /\ DOMAIN v = 1..M
  OBVIOUS
<1>2. DOMAIN u = 1..(L + M) /\ \A n \in 1..(L + M) : u[n] = IF n <= L THEN t[n] ELSE v[n - L]
  <2>1. u \in Seq(X) /\ Len(u) = L + M
        /\ \A n \in 1..(L + M) : u[n] = IF n <= L THEN t[n] ELSE v[n - L]
    BY ConcatProperties DEF Cat
  <2> QED
    BY <2>1
<1>3. \A n \in 1..(L + M) : n <= L => n \in 1..L /\ row2[n] = row[n] /\ col2[n] = col[n]
  OBVIOUS
<1>4. \A n \in 1..(L + M) : n > L => n - L \in 1..M /\ row2[n] = k /\ col2[n] = n - L
  BY <1>1
<1>5. \A n \in 1..L : row[n] \in 1..(k - 1) /\ col[n] \in DOMAIN s[row[n]]
                      /\ t[n] = s[row[n]][col[n]]
  BY <1>1 DEF Lays
<1>6. \A m, n \in 1..L : m < n => row[m] < row[n] \/ (row[m] = row[n] /\ col[m] < col[n])
  BY <1>1 DEF Lays
<1>7. \A j \in 1..(k - 1) : \A c \in DOMAIN s[j] : \E n \in 1..L : row[n] = j /\ col[n] = c
  BY <1>1 DEF Lays
<1>8. v = s[k]
  OBVIOUS
<1> HIDE DEF L, M, v, u, row2, col2
<1>9. ASSUME NEW n \in 1..(L + M)
      PROVE  row2[n] \in 1..k /\ col2[n] \in DOMAIN s[row2[n]] /\ u[n] = s[row2[n]][col2[n]]
  <2>1. CASE n <= L
    BY <1>2, <1>3, <1>5, <2>1
  <2>2. CASE n > L
    BY <1>1, <1>2, <1>4, <1>8, <2>2
  <2> QED
    BY <1>1, <2>1, <2>2
<1>10. ASSUME NEW m \in 1..(L + M), NEW n \in 1..(L + M), m < n
       PROVE  row2[m] < row2[n] \/ (row2[m] = row2[n] /\ col2[m] < col2[n])
  <2>1. CASE n <= L
    <3>1. m <= L
      BY <1>1, <1>10, <2>1
    <3> QED
      BY <1>3, <1>6, <1>10, <2>1, <3>1
  <2>2. CASE m <= L /\ n > L
    <3>1. row2[m] \in 1..(k - 1) /\ row2[n] = k
      BY <1>3, <1>4, <1>5, <2>2
    <3> QED
      BY <3>1
  <2>3. CASE m > L
    <3>1. n > L
      BY <1>1, <1>10, <2>3
    <3>2. row2[m] = k /\ row2[n] = k /\ col2[m] = m - L /\ col2[n] = n - L
      BY <1>4, <2>3, <3>1
    <3> QED
      BY <1>1, <1>10, <3>2
  <2> QED
    BY <1>1, <2>1, <2>2, <2>3
<1>11. ASSUME NEW j \in 1..k, NEW c \in DOMAIN s[j]
       PROVE  \E n \in 1..(L + M) : row2[n] = j /\ col2[n] = c
  <2>1. CASE j = k
    <3>1. c \in 1..M
      BY <1>1, <1>8, <2>1
    <3> DEFINE n == L + c
    <3>2. n \in 1..(L + M) /\ n > L /\ n - L = c
      BY <1>1, <3>1
    <3> HIDE DEF n
    <3>3. row2[n] = k /\ col2[n] = c
      BY <1>4, <3>2
    <3> QED
      BY <2>1, <3>2, <3>3
  <2>2. CASE j # k
    <3>1. PICK n \in 1..L : row[n] = j /\ col[n] = c
      <4>1. j \in 1..(k - 1)
        BY <2>2
      <4> QED
        BY <1>7, <4>1
    <3>2. n \in 1..(L + M) /\ n <= L
      BY <1>1
    <3> QED
      BY <1>3, <3>1, <3>2
  <2> QED
    BY <2>1, <2>2
<1>12. Lays(u, row2, col2, s, k)
  BY <1>2, <1>9, <1>10, <1>11 DEF Lays
<1> QED
  BY <1>12 DEF u, v

LEMMA FlattenLays ==
  ASSUME NEW X, NEW N \in Nat, NEW s \in [1..N -> Seq(X)]
  PROVE  /\ FlattenSeq(s) \in Seq(X)
         /\ \E row, col : Lays(FlattenSeq(s), row, col, s, N)
<1>1. PICK run : Joins(X, N, s, run) /\ run[N] = FlattenSeq(s)
  BY FlattenRuns
<1> DEFINE Good == {k \in 0..N : \E row, col : Lays(run[k], row, col, s, k)}
<1>2. 0 \in Good
  <2>1. Lays(<<>>, <<>>, <<>>, s, 0)
    BY DEF Lays
  <2> QED
    BY <1>1, <2>1 DEF Joins
<1>3. ASSUME NEW k \in 1..N, k - 1 \in Good PROVE k \in Good
  <2>1. PICK row, col : Lays(run[k - 1], row, col, s, k - 1)
    BY <1>3
  <2>2. run[k - 1] \in Seq(X) /\ s[k] \in Seq(X) /\ run[k] = Cat(run[k - 1], s[k])
    <3>1. k - 1 \in 0..N
      OBVIOUS
    <3> QED
      BY <1>1, <3>1 DEF Joins
  <2>3. k \in Nat /\ k > 0 /\ k \in 0..N
    OBVIOUS
  <2>4. \E row2, col2 : Lays(Cat(run[k - 1], s[k]), row2, col2, s, k)
    BY <2>1, <2>2, <2>3, LaysOneMore
  <2> QED
    BY <2>2, <2>3, <2>4
<1> HIDE DEF Good
<1>4. \A k \in 0..N : k \in Good
  BY <1>2, <1>3, UpTo
<1>5. N \in Good /\ N \in 0..N
  BY <1>4
<1>6. run[N] \in Seq(X)
  BY <1>1, <1>5 DEF Joins
<1> QED
  BY <1>1, <1>5, <1>6 DEF Good

(***************************************************************************)
(* The words of an element                                                 *)
(***************************************************************************)
Word == [el : Nat, part : Nat, nth : Nat, last : BOOLEAN]

WordOf(w, doc) ==
    /\ w \in Word /\ w.el \in DOMAIN doc /\ w.part \in DOMAIN doc[w.el].sizes
    /\ w.nth \in 1..doc[w.el].sizes[w.part]
    /\ w.last <=> w.nth = doc[w.el].sizes[w.part]

\* "words" are the words of element i of the document, in order.
WordsOf(words, doc, i) ==
    /\ words \in Seq(Word)
    /\ \A n \in DOMAIN words : WordOf(words[n], doc) /\ words[n].el = i
    /\ \A m, n \in DOMAIN words :
          m < n => \/ words[m].part < words[n].part
                   \/ words[m].part = words[n].part /\ words[m].nth < words[n].nth
    /\ \A s \in DOMAIN doc[i].sizes : \A w \in 1..doc[i].sizes[s] :
          \E n \in DOMAIN words : words[n].part = s /\ words[n].nth = w

LEMMA WordsAre ==
  ASSUME NEW doc \in Seq(Element), NEW i \in DOMAIN doc
  PROVE  WordsOf(Words(doc, i), doc, i)
<1> DEFINE sizes == doc[i].sizes
           N == Len(sizes)
           At(s, w) == [el |-> i, part |-> s, nth |-> w, last |-> w = sizes[s]]
           rows == [s \in DOMAIN sizes |-> [w \in 1..sizes[s] |-> At(s, w)]]
           words == Words(doc, i)
<1>1. i \in Nat /\ doc[i] \in Element
  OBVIOUS
<1>2. sizes \in Seq(Nat)
  BY <1>1 DEF Element
<1>3. N \in Nat /\ DOMAIN sizes = 1..N /\ \A s \in 1..N : sizes[s] \in Nat
  BY <1>2
<1>4. \A s \in 1..N : \A w \in 1..sizes[s] : At(s, w) \in Word
  BY <1>1, <1>3 DEF Word
<1>5. rows \in [1..N -> Seq(Word)]
  <2> HIDE DEF N
  <2>1. \A s \in 1..N : rows[s] = [w \in 1..sizes[s] |-> At(s, w)]
    BY <1>3
  <2>2. ASSUME NEW s \in 1..N PROVE [w \in 1..sizes[s] |-> At(s, w)] \in Seq(Word)
    <3> HIDE DEF At, sizes
    <3> QED
      BY <1>3, <1>4
  <2> QED
    BY <1>3, <2>1, <2>2
<1>6. words = FlattenSeq(rows)
  BY DEF Words
<1> HIDE DEF words, rows
<1>7. PICK row, col : words \in Seq(Word) /\ Lays(words, row, col, rows, N)
  BY <1>3, <1>5, <1>6, FlattenLays
<1>8. \A s \in 1..N : DOMAIN rows[s] = 1..sizes[s]
                      /\ \A w \in 1..sizes[s] : rows[s][w] = At(s, w)
  BY <1>3 DEF rows
<1>9. ASSUME NEW n \in DOMAIN words
      PROVE  row[n] \in 1..N /\ col[n] \in 1..sizes[row[n]] /\ words[n] = At(row[n], col[n])
  <2> HIDE DEF At, N, sizes
  <2>1. row[n] \in 1..N /\ col[n] \in DOMAIN rows[row[n]] /\ words[n] = rows[row[n]][col[n]]
    BY <1>7 DEF Lays
  <2> QED
    BY <1>8, <2>1
<1>10. ASSUME NEW n \in DOMAIN words PROVE WordOf(words[n], doc) /\ words[n].el = i
  <2> DEFINE s == row[n]
             w == col[n]
  <2>1. s \in 1..N /\ w \in 1..sizes[s] /\ words[n] = At(s, w) /\ sizes[s] \in Nat
    BY <1>3, <1>9
  <2>2. words[n] \in Word
    BY <1>4, <2>1
  <2> HIDE DEF s, w, N
  <2>3. words[n].el = i /\ words[n].part = s /\ words[n].nth = w /\ words[n].last = (w = sizes[s])
    BY <2>1
  <2> QED
    BY <1>3, <2>1, <2>2, <2>3 DEF WordOf
<1>11. \A n \in DOMAIN words : words[n].part = row[n] /\ words[n].nth = col[n]
  BY <1>9
<1>12. \A m, n \in DOMAIN words :
          m < n => \/ words[m].part < words[n].part
                   \/ words[m].part = words[n].part /\ words[m].nth < words[n].nth
  BY <1>7, <1>11 DEF Lays
<1>13. \A s \in DOMAIN sizes : \A w \in 1..sizes[s] :
          \E n \in DOMAIN words : words[n].part = s /\ words[n].nth = w
  <2> SUFFICES ASSUME NEW s \in DOMAIN sizes, NEW w \in 1..sizes[s]
               PROVE  \E n \in DOMAIN words : words[n].part = s /\ words[n].nth = w
    OBVIOUS
  <2> HIDE DEF At, N, sizes
  <2>1. s \in 1..N /\ w \in DOMAIN rows[s]
    BY <1>3, <1>8
  <2>2. \E n \in DOMAIN words : row[n] = s /\ col[n] = w
    BY <1>7, <2>1 DEF Lays
  <2> QED
    BY <1>11, <2>2
<1> HIDE DEF N, At
<1> QED
  BY <1>7, <1>10, <1>12, <1>13 DEF WordsOf, words

\* A sequence of whole sentences: each word but a last one is followed by the
\* next of its sentence.
Follows(v, w) ==
    IF v.last THEN w.nth = 1
    ELSE w.el = v.el /\ w.part = v.part /\ w.nth = v.nth + 1

Whole(words, doc) ==
    /\ words \in Seq(Word)
    /\ \A n \in 1..Len(words) :
          /\ WordOf(words[n], doc)
          /\ n = 1 => words[n].nth = 1
          /\ n = Len(words) => words[n].last
          /\ n # Len(words) => Follows(words[n], words[n + 1])

LEMMA WordsAreWhole ==
  ASSUME NEW doc \in Seq(Element), NEW i \in DOMAIN doc
  PROVE  Whole(Words(doc, i), doc)
<1> DEFINE words == Words(doc, i)
           sizes == doc[i].sizes
           L == Len(words)
<1>1. WordsOf(words, doc, i)
  BY WordsAre
<1> HIDE DEF words
<1>2. words \in Seq(Word) /\ L \in Nat /\ DOMAIN words = 1..L
  BY <1>1 DEF WordsOf
<1>3. sizes \in Seq(Nat)
  <2>1. doc[i] \in Element
    OBVIOUS
  <2> QED
    BY <2>1 DEF Element
<1> HIDE DEF L
<1>4. ASSUME NEW n \in 1..L
      PROVE  /\ WordOf(words[n], doc) /\ words[n].el = i /\ words[n].part \in Nat /\ words[n].nth \in Nat
             /\ words[n].part \in DOMAIN sizes /\ words[n].nth \in 1..sizes[words[n].part]
             /\ words[n].last <=> words[n].nth = sizes[words[n].part]
  BY <1>1, <1>2 DEF WordsOf, WordOf, Word
<1>5. \A m, n \in 1..L :
         m < n => \/ words[m].part < words[n].part
                  \/ words[m].part = words[n].part /\ words[m].nth < words[n].nth
  BY <1>1, <1>2 DEF WordsOf
<1>6. \A s \in DOMAIN sizes : \A w \in 1..sizes[s] :
          \E n \in 1..L : words[n].part = s /\ words[n].nth = w
  BY <1>1, <1>2 DEF WordsOf
<1>7. DOMAIN sizes \subseteq Nat /\ \A s \in DOMAIN sizes : sizes[s] \in Nat
  BY <1>3
<1> HIDE DEF sizes
<1>8. ASSUME NEW n \in 1..L, words[n].nth # 1
      PROVE  n # 1 /\ words[n - 1].part = words[n].part /\ words[n - 1].nth = words[n].nth - 1
  <2> DEFINE w == words[n].nth
             s == words[n].part
  <2>1. w \in 1..sizes[s] /\ w - 1 \in 1..sizes[s] /\ s \in DOMAIN sizes
    BY <1>4, <1>7, <1>8
  <2>2. PICK m \in 1..L : words[m].part = s /\ words[m].nth = w - 1
    BY <1>6, <2>1
  <2>3. m < n
    <3>1. m = n \/ n < m \/ m < n
      BY <1>2
    <3>2. ~(n < m)
      <4> SUFFICES ASSUME n < m PROVE FALSE
        OBVIOUS
      <4>1. s < words[m].part \/ (s = words[m].part /\ w < words[m].nth)
        BY <1>5
      <4> QED
        BY <1>4, <2>2, <4>1
    <3>3. m # n
      BY <1>4, <2>2
    <3> QED
      BY <3>1, <3>2, <3>3
  <2>4. m = n - 1
    <3> SUFFICES ASSUME m # n - 1 PROVE FALSE
      OBVIOUS
    <3>1. n - 1 \in 1..L /\ m < n - 1 /\ n - 1 < n
      BY <1>2, <2>3
    <3> DEFINE v == words[n - 1]
    <3>2. s < v.part \/ (s = v.part /\ w - 1 < v.nth)
      BY <1>5, <2>2, <3>1
    <3>3. v.part < s \/ (v.part = s /\ v.nth < w)
      BY <1>5, <3>1
    <3>4. v.part \in Nat /\ v.nth \in Nat /\ w \in Nat /\ s \in Nat
      BY <1>4, <3>1
    <3> HIDE DEF v, s, w
    <3> QED
      BY <3>2, <3>3, <3>4
  <2> QED
    BY <1>2, <2>2, <2>3, <2>4
<1>9. ASSUME NEW n \in 1..L, ~words[n].last
      PROVE  n + 1 \in 1..L /\ words[n + 1].part = words[n].part
             /\ words[n + 1].nth = words[n].nth + 1
  <2> DEFINE w == words[n].nth
             s == words[n].part
  <2>1. w \in 1..sizes[s] /\ w + 1 \in 1..sizes[s] /\ s \in DOMAIN sizes
    BY <1>4, <1>7, <1>9
  <2>2. PICK m \in 1..L : words[m].part = s /\ words[m].nth = w + 1
    BY <1>6, <2>1
  <2>3. m # 1 /\ words[m - 1].part = s /\ words[m - 1].nth = w
    <3>1. words[m].nth # 1
      BY <2>1, <2>2
    <3> QED
      BY <1>4, <1>8, <2>2, <3>1
  <2>4. m - 1 \in 1..L
    BY <1>2, <2>3
  <2>5. m - 1 = n
    <3> SUFFICES ASSUME m - 1 < n \/ n < m - 1 PROVE FALSE
      BY <1>2, <2>4
    <3> QED
      BY <1>4, <1>5, <2>3, <2>4
  <2> QED
    BY <1>2, <2>2, <2>5
<1>10. ASSUME NEW n \in 1..L
       PROVE  /\ WordOf(words[n], doc)
              /\ n = 1 => words[n].nth = 1
              /\ n = L => words[n].last
              /\ n # L => Follows(words[n], words[n + 1])
  <2>1. n = 1 => words[n].nth = 1
    BY <1>8
  <2>2. n = L => words[n].last
    BY <1>2, <1>9
  <2>3. ASSUME n # L, words[n].last PROVE words[n + 1].nth = 1
    <3>1. n + 1 \in 1..L
      BY <1>2, <2>3
    <3> SUFFICES ASSUME words[n + 1].nth # 1 PROVE FALSE
      OBVIOUS
    <3>2. words[n + 1 - 1].part = words[n + 1].part /\ words[n + 1 - 1].nth = words[n + 1].nth - 1
      BY <1>8, <3>1
    <3>3. n + 1 - 1 = n
      BY <1>2
    <3>4. words[n].part = words[n + 1].part /\ words[n].nth = words[n + 1].nth - 1
      BY <3>2, <3>3
    <3>5. words[n].nth = sizes[words[n].part] /\ words[n + 1].nth \in 1..sizes[words[n + 1].part]
          /\ sizes[words[n].part] \in Nat
      BY <1>4, <1>7, <2>3, <3>1
    <3> QED
      BY <3>4, <3>5
  <2>4. ASSUME n # L, ~words[n].last
        PROVE  words[n + 1].el = words[n].el /\ words[n + 1].part = words[n].part
               /\ words[n + 1].nth = words[n].nth + 1
    BY <1>4, <1>9, <2>4
  <2> QED
    BY <1>4, <2>1, <2>2, <2>3, <2>4 DEF Follows
<1> QED
  BY <1>2, <1>10 DEF Whole, words, L

(***************************************************************************)
(* Pieces                                                                  *)
(***************************************************************************)
\* A piece made from elements in S names every page of each of them.
PieceOf(doc, S) ==
    {p \in [words : Seq(Word), els : (SUBSET S) \ {{}}, pages : SUBSET Nat] :
        \A i \in p.els : doc[i].pages \subseteq p.pages}

WholeOf(doc, S) == {p \in PieceOf(doc, S) : Whole(p.words, doc)}

LEMMA UnitIsWhole ==
  ASSUME NEW doc \in Seq(Element), NEW S \in SUBSET DOMAIN doc, NEW i \in S
  PROVE  Unit(doc, i) \in WholeOf(doc, S)
<1>1. Whole(Words(doc, i), doc)
  BY WordsAreWhole
<1>2. Words(doc, i) \in Seq(Word)
  BY <1>1 DEF Whole
<1>3. doc[i].pages \in SUBSET Nat
  <2>1. doc[i] \in Element
    OBVIOUS
  <2> QED
    BY <2>1 DEF Element
<1> QED
  BY <1>1, <1>2, <1>3 DEF Unit, Piece, WholeOf, PieceOf

LEMMA WholeJoins ==
  ASSUME NEW doc, NEW s, Whole(s, doc), NEW t, Whole(t, doc)
  PROVE  Whole(s \o t, doc)
<1> DEFINE u == s \o t
           L == Len(s)
           M == Len(t)
<1>1. s \in Seq(Word) /\ t \in Seq(Word) /\ L \in Nat /\ M \in Nat
  BY DEF Whole
<1>2. u \in Seq(Word) /\ Len(u) = L + M
      /\ \A n \in 1..(L + M) : u[n] = IF n <= L THEN s[n] ELSE t[n - L]
  BY <1>1, ConcatProperties
<1> HIDE DEF u
<1>3. \A n \in 1..L : n \in 1..(L + M) /\ u[n] = s[n]
  BY <1>1, <1>2
<1>4. ASSUME NEW n \in 1..M PROVE L + n \in 1..(L + M) /\ u[L + n] = t[n]
  <2>1. L + n \in 1..(L + M) /\ ~(L + n <= L) /\ L + n - L = n
    BY <1>1
  <2>2. u[L + n] = t[L + n - L]
    BY <1>2, <2>1
  <2> QED
    BY <2>1, <2>2
<1> DEFINE Here(n) == /\ WordOf(u[n], doc)
                      /\ n = 1 => u[n].nth = 1
                      /\ n = L + M => u[n].last
                      /\ n # L + M => Follows(u[n], u[n + 1])
<1>5. ASSUME NEW n \in 1..L PROVE Here(n)
  <2>1. /\ WordOf(s[n], doc)
        /\ n = 1 => s[n].nth = 1
        /\ n = L => s[n].last
        /\ n # L => Follows(s[n], s[n + 1])
    BY DEF Whole
  <2>2. CASE n = L
    <3>1. CASE M = 0
      BY <1>1, <1>3, <2>1, <2>2, <3>1
    <3>2. CASE M # 0
      <4>1. 1 \in 1..M
        BY <1>1, <3>2
      <4>2. u[L + 1] = t[1] /\ t[1].nth = 1
        BY <1>4, <4>1 DEF Whole
      <4>3. s[n].last /\ u[n] = s[n] /\ n # L + M /\ u[n + 1].nth = 1
        BY <1>1, <1>3, <2>1, <2>2, <3>2, <4>2
      <4> QED
        BY <1>3, <2>1, <4>3 DEF Follows
    <3> QED
      BY <3>1, <3>2
  <2>3. CASE n # L
    <3>1. n + 1 \in 1..L /\ n # L + M
      BY <1>1, <2>3
    <3> QED
      BY <1>3, <2>1, <2>3, <3>1
  <2> QED
    BY <2>2, <2>3
<1>6. ASSUME NEW k \in 1..M PROVE Here(L + k)
  <2>1. /\ WordOf(t[k], doc)
        /\ k = 1 => t[k].nth = 1
        /\ k = M => t[k].last
        /\ k # M => Follows(t[k], t[k + 1])
    BY DEF Whole
  <2>2. u[L + k] = t[k]
    BY <1>4
  <2>3. L + k = 1 => k = 1
    BY <1>1
  <2>4. L + k = L + M => k = M
    BY <1>1
  <2>5. L + k # L + M => Follows(u[L + k], u[L + k + 1])
    <3> SUFFICES ASSUME L + k # L + M PROVE Follows(t[k], u[L + k + 1])
      BY <2>2
    <3>1. k # M /\ k + 1 \in 1..M
      BY <1>1
    <3>2. u[L + (k + 1)] = t[k + 1]
      BY <1>4, <3>1
    <3>3. L + (k + 1) = L + k + 1
      BY <1>1
    <3> QED
      BY <2>1, <3>1, <3>2, <3>3
  <2> QED
    BY <2>1, <2>2, <2>3, <2>4, <2>5
<1>7. ASSUME NEW n \in 1..(L + M) PROVE Here(n)
  <2>1. CASE n <= L
    BY <1>1, <1>5, <2>1
  <2>2. CASE n > L
    <3> DEFINE k == n - L
    <3>1. k \in 1..M /\ L + k = n
      BY <1>1, <2>2
    <3> HIDE DEF k, Here
    <3>2. Here(L + k)
      BY <1>6, <3>1
    <3> QED
      BY <3>1, <3>2
  <2> QED
    BY <1>1, <2>1, <2>2
<1> QED
  BY <1>2, <1>7 DEF Whole, u

LEMMA JoinIsWhole ==
  ASSUME NEW doc, NEW S, NEW p \in WholeOf(doc, S), NEW q \in WholeOf(doc, S)
  PROVE  Join(p, q) \in WholeOf(doc, S)
<1>1. Whole(p.words \o q.words, doc)
  BY WholeJoins DEF WholeOf
<1>2. p.words \o q.words \in Seq(Word)
  BY <1>1 DEF Whole
<1> QED
  BY <1>1, <1>2 DEF Join, Piece, WholeOf, PieceOf

LEMMA JoinIsPiece ==
  ASSUME NEW doc, NEW S, NEW p \in PieceOf(doc, S), NEW q \in PieceOf(doc, S)
  PROVE  Join(p, q) \in PieceOf(doc, S)
<1>1. p.words \o q.words \in Seq(Word)
  BY ConcatProperties DEF PieceOf
<1> QED
  BY <1>1 DEF Join, Piece, PieceOf

(***************************************************************************)
(* Packing                                                                 *)
(***************************************************************************)
JoinClosed(X) ==
    /\ \A p \in X : p.words \in Seq(Word)
    /\ \A p, q \in X : Join(p, q) \in X

PackOne(done, u, room) ==
    IF done # <<>> /\ Len(Last(done).words) + Len(u.words) <= room
    THEN Append(Front(done), Join(Last(done), u))
    ELSE Append(done, u)

PackStep(X, units, room) ==
    [p \in (1..Len(units)) \X Seq(X) |-> PackOne(p[2], units[p[1]], room)]

\* The first k units are in the packs, each whole: what is joined has room, what
\* has not is a pack of its own.
Carried(units, packs, room, k) ==
    \A j \in 1..k : \E m \in DOMAIN packs :
        /\ packs[m] = units[j] \/ Len(packs[m].words) <= room
        /\ Range(units[j].words) \subseteq Range(packs[m].words)

LEMMA LastAndFront ==
  ASSUME NEW X, NEW s \in Seq(X), s # <<>>
  PROVE  /\ Len(s) \in Nat \ {0} /\ Last(s) \in X /\ Front(s) \in Seq(X) /\ Len(Front(s)) = Len(s) - 1
         /\ \A i \in 1..(Len(s) - 1) : Front(s)[i] = s[i]
<1>1. Len(s) \in Nat \ {0}
  BY EmptySeq
<1> DEFINE L == Len(s)
<1>2. 1 \in Int /\ L - 1 \in Int /\ \A i \in 1..(L - 1) : s[i] \in X
  BY <1>1
<1>3. L - 1 - 1 + 1 = L - 1 /\ (IF 1 <= L - 1 THEN L - 1 ELSE 0) = L - 1
  BY <1>1
<1>4. /\ SubSeq(s, 1, L - 1) \in Seq(X)
      /\ Len(SubSeq(s, 1, L - 1)) = IF 1 <= L - 1 THEN L - 1 - 1 + 1 ELSE 0
      /\ \A i \in 1..(L - 1 - 1 + 1) : SubSeq(s, 1, L - 1)[i] = s[1 + i - 1]
  <2> HIDE DEF L
  <2> QED
    BY <1>2, SubSeqProperties
<1>5. \A i \in 1..(L - 1) : 1 + i - 1 = i
  OBVIOUS
<1>6. s[L] \in X
  BY <1>1, ElementOfSeq
<1> QED
  BY <1>1, <1>3, <1>4, <1>5, <1>6 DEF Front, Last

LEMMA PackOneCarries ==
  ASSUME NEW X, JoinClosed(X), NEW units, NEW done \in Seq(X), NEW room \in Int, NEW k \in Nat,
         k > 0, units[k] \in X, Carried(units, done, room, k - 1)
  PROVE  /\ PackOne(done, units[k], room) \in Seq(X)
         /\ Carried(units, PackOne(done, units[k], room), room, k)
<1> DEFINE u == units[k]
           new == PackOne(done, u, room)
           L == Len(done)
<1>1. u \in X /\ u.words \in Seq(Word) /\ L \in Nat /\ DOMAIN done = 1..L
  BY DEF JoinClosed
<1> DEFINE Ends(front, p, M) ==
               /\ front \in Seq(X) /\ p \in X /\ M = Len(front) /\ new = Append(front, p)
               /\ Range(u.words) \subseteq Range(p.words) /\ (p = u \/ Len(p.words) <= room)
               /\ \A m \in 1..L :
                     \/ m \in 1..M /\ front[m] = done[m]
                     \/ Range(done[m].words) \subseteq Range(p.words) /\ Len(p.words) <= room
<1>2. ASSUME NEW front, NEW p, NEW M, Ends(front, p, M)
      PROVE  new \in Seq(X) /\ Carried(units, new, room, k)
  <2>1. M \in Nat /\ new \in Seq(X) /\ DOMAIN new = 1..(M + 1) /\ new[M + 1] = p
        /\ \A i \in 1..M : new[i] = front[i]
    BY <1>2, AppendProperties
  <2> HIDE DEF new, u
  <2>2. ASSUME NEW j \in 1..k
        PROVE  \E m \in DOMAIN new : /\ new[m] = units[j] \/ Len(new[m].words) <= room
                                     /\ Range(units[j].words) \subseteq Range(new[m].words)
    <3>1. CASE j = k
      <4>1. M + 1 \in DOMAIN new /\ new[M + 1] = p
        BY <2>1
      <4> QED
        BY <1>2, <3>1, <4>1 DEF u
    <3>2. CASE j # k
      <4>1. PICK m \in 1..L : /\ done[m] = units[j] \/ Len(done[m].words) <= room
                              /\ Range(units[j].words) \subseteq Range(done[m].words)
        <5>1. j \in 1..(k - 1)
          BY <3>2
        <5> QED
          BY <1>1, <5>1 DEF Carried
      <4>2. CASE m \in 1..M /\ front[m] = done[m]
        <5>1. m \in DOMAIN new /\ new[m] = done[m]
          BY <2>1, <4>2
        <5> QED
          BY <4>1, <5>1
      <4>3. CASE Range(done[m].words) \subseteq Range(p.words) /\ Len(p.words) <= room
        <5>1. M + 1 \in DOMAIN new /\ new[M + 1] = p
          BY <2>1
        <5> QED
          BY <4>1, <4>3, <5>1
      <4> QED
        BY <1>2, <4>2, <4>3
    <3> QED
      BY <3>1, <3>2
  <2> QED
    BY <2>1, <2>2 DEF Carried
<1>3. CASE done # <<>> /\ Len(Last(done).words) + Len(u.words) <= room
  <2> DEFINE p == Join(Last(done), u)
  <2>1. L \in Nat \ {0} /\ Last(done) \in X /\ Front(done) \in Seq(X) /\ Len(Front(done)) = L - 1
        /\ \A i \in 1..(L - 1) : Front(done)[i] = done[i]
    BY <1>3, LastAndFront
  <2>2. p \in X /\ new = Append(Front(done), p)
    BY <1>1, <1>3, <2>1 DEF JoinClosed, PackOne
  <2>3. Last(done).words \in Seq(Word) /\ p.words = Last(done).words \o u.words
    BY <2>1 DEF JoinClosed, Join, Piece
  <2>4. Range(p.words) = Range(Last(done).words) \cup Range(u.words)
    BY <1>1, <2>3, RangeConcatenation
  <2>5. Len(p.words) <= room
    <3>1. Len(p.words) = Len(Last(done).words) + Len(u.words)
      BY <1>1, <2>3, ConcatProperties
    <3> QED
      BY <1>3, <3>1
  <2>6. ASSUME NEW m \in 1..L
        PROVE  \/ m \in 1..(L - 1) /\ Front(done)[m] = done[m]
               \/ Range(done[m].words) \subseteq Range(p.words) /\ Len(p.words) <= room
    <3>1. CASE m = L
      BY <2>4, <2>5, <3>1 DEF Last
    <3>2. CASE m # L
      BY <2>1, <3>2
    <3> QED
      BY <3>1, <3>2
  <2> HIDE DEF p, new, u, L
  <2>7. Ends(Front(done), p, L - 1)
    BY <2>1, <2>2, <2>4, <2>5, <2>6
  <2> HIDE DEF Ends
  <2> QED
    BY <1>2, <2>7 DEF new, u
<1>4. CASE ~(done # <<>> /\ Len(Last(done).words) + Len(u.words) <= room)
  <2>1. new = Append(done, u)
    BY <1>4 DEF PackOne
  <2> HIDE DEF new, u
  <2>2. Ends(done, u, L)
    BY <1>1, <2>1
  <2> HIDE DEF Ends
  <2> QED
    BY <1>2, <2>2 DEF new, u
<1> QED
  BY <1>3, <1>4

LEMMA PackRun ==
  ASSUME NEW X, JoinClosed(X), NEW units \in Seq(X), NEW room \in Int
  PROVE  \E run : /\ IsRun(Len(units), Seq(X), <<>>, PackStep(X, units, room), run)
                  /\ run[Len(units)] = Pack(units, room)
<1> DEFINE N == Len(units)
           V == Seq(X)
           F == PackStep(X, units, room)
           Add(S, v) == PackOne(v, units[Max(S)], room)
           Eq(it) == it = [S \in SUBSET DOMAIN units |->
                              IF S = {} THEN <<>> ELSE Add(S, it[S \ {Max(S)}])]
<1>1. DOMAIN units = 1..N /\ N \in Nat
  OBVIOUS
<1>2. \A S, v : Max(S) \in 1..N /\ v \in V => F[<<Max(S), v>>] = Add(S, v)
  BY DEF PackStep
<1>3. CanFoldLeft(N, V, <<>>, F)
  <2> SUFFICES ASSUME NEW k \in 1..N, NEW v \in V PROVE F[<<k, v>>] \in V
    BY <1>1 DEF CanFoldLeft
  <2>1. F[<<k, v>>] = PackOne(v, units[k], room)
    BY DEF PackStep
  <2>2. units[k] \in X
    BY ElementOfSeq
  <2>3. Append(v, units[k]) \in V
    BY <2>2, AppendProperties
  <2>4. v # <<>> => Append(Front(v), Join(Last(v), units[k])) \in V
    <3> SUFFICES ASSUME v # <<>> PROVE Append(Front(v), Join(Last(v), units[k])) \in V
      OBVIOUS
    <3>1. Front(v) \in V /\ Last(v) \in X
      BY LastAndFront
    <3>2. Join(Last(v), units[k]) \in X
      BY <2>2, <3>1 DEF JoinClosed
    <3> QED
      BY <3>1, <3>2, AppendProperties
  <2> HIDE DEF F, V
  <2> QED
    BY <2>1, <2>3, <2>4 DEF PackOne
<1>4. PICK it : IsFoldLeft(N, V, <<>>, F, it)
  <2> HIDE DEF N, V, F
  <2> QED
    BY <1>3, FoldLeftExists
<1>5. Eq(it)
  <2> HIDE DEF N, V, F, Add
  <2>1. \A S \in SUBSET (1..N) : S # {} => it[S] = Add(S, it[S \ {Max(S)}])
    BY <1>2, <1>4 DEF IsFoldLeft
  <2> QED
    BY <1>1, <1>4, <2>1 DEF IsFoldLeft
<1>6. PICK jt : Eq(jt) /\ Pack(units, room) = jt[DOMAIN units]
  BY <1>5 DEF Pack, PackOne, FoldLeft, MapThenFoldSet
<1>7. Unfolds(N, V, <<>>, F, jt)
  <2> HIDE DEF N, V, F, Add
  <2>1. jt[{}] = <<>> /\ \A S \in SUBSET (1..N) : S # {} => jt[S] = Add(S, jt[S \ {Max(S)}])
    BY <1>1, <1>6
  <2> HIDE DEF Eq
  <2> QED
    BY <1>2, <2>1 DEF Unfolds
<1> HIDE DEF N, V, F, Add, Eq
<1>8. \E run : IsRun(N, V, <<>>, F, run) /\ run[N] = jt[1..N]
  BY <1>3, <1>7, FoldLeftRuns
<1> QED
  BY <1>1, <1>6, <1>8 DEF N, V, F

\* What Pack promises: no unit is lost, and one that fits is in a pack that fits.
LEMMA PackCarries ==
  ASSUME NEW X, JoinClosed(X), NEW units \in Seq(X), NEW room \in Int
  PROVE  /\ Pack(units, room) \in Seq(X)
         /\ Carried(units, Pack(units, room), room, Len(units))
<1> DEFINE N == Len(units)
           Good(run) == {k \in 0..N : Carried(units, run[k], room, k)}
<1>1. PICK run : /\ IsRun(N, Seq(X), <<>>, PackStep(X, units, room), run)
                 /\ run[N] = Pack(units, room)
  BY PackRun
<1>2. N \in Nat /\ run \in [0..N -> Seq(X)] /\ run[0] = <<>>
  BY <1>1 DEF IsRun
<1>3. 0 \in Good(run)
  BY <1>2 DEF Carried
<1>4. ASSUME NEW k \in 1..N, k - 1 \in Good(run) PROVE k \in Good(run)
  <2>1. run[k - 1] \in Seq(X) /\ run[k] = PackStep(X, units, room)[<<k, run[k - 1]>>]
    <3>1. k - 1 \in 0..N
      BY <1>2
    <3> QED
      BY <1>1, <3>1 DEF IsRun
  <2>2. run[k] = PackOne(run[k - 1], units[k], room)
    BY <2>1 DEF PackStep
  <2>3. units[k] \in X /\ k \in Nat /\ k > 0 /\ k \in 0..N
    BY <1>2, ElementOfSeq
  <2>4. Carried(units, run[k - 1], room, k - 1)
    BY <1>4
  <2>5. Carried(units, run[k], room, k)
    BY <2>1, <2>2, <2>3, <2>4, PackOneCarries
  <2> QED
    BY <2>3, <2>5
<1> HIDE DEF Good
<1>5. \A k \in 0..N : k \in Good(run)
  BY <1>2, <1>3, <1>4, UpTo
<1>6. N \in Good(run) /\ run[N] \in Seq(X)
  BY <1>2, <1>5
<1> QED
  BY <1>1, <1>6 DEF Good

(***************************************************************************)
(* Splitting                                                               *)
(***************************************************************************)
LEMMA SubSeqIs ==
  ASSUME NEW X, NEW s \in Seq(X), NEW m \in Nat, m > 0, NEW n \in Nat, n <= Len(s), m <= n + 1
  PROVE  /\ SubSeq(s, m, n) \in Seq(X) /\ Len(SubSeq(s, m, n)) = n + 1 - m
         /\ \A i \in m..n : i - m + 1 \in 1..(n + 1 - m) /\ SubSeq(s, m, n)[i - m + 1] = s[i]
<1>1. \A i \in m..n : s[i] \in X
  OBVIOUS
<1>2. m \in Int /\ n \in Int
  OBVIOUS
<1>3. /\ SubSeq(s, m, n) \in Seq(X) /\ Len(SubSeq(s, m, n)) = IF m <= n THEN n - m + 1 ELSE 0
      /\ \A i \in 1..(n - m + 1) : SubSeq(s, m, n)[i] = s[m + i - 1]
  BY <1>1, <1>2, SubSeqProperties
<1>4. (IF m <= n THEN n - m + 1 ELSE 0) = n + 1 - m
  OBVIOUS
<1>5. ASSUME NEW i \in m..n PROVE i - m + 1 \in 1..(n + 1 - m) /\ SubSeq(s, m, n)[i - m + 1] = s[i]
  <2> DEFINE j == i - m + 1
  <2>1. j \in 1..(n - m + 1) /\ j \in 1..(n + 1 - m) /\ m + j - 1 = i
    OBVIOUS
  <2> HIDE DEF j
  <2>2. SubSeq(s, m, n)[j] = s[i]
    BY <1>3, <2>1
  <2> QED
    BY <2>1, <2>2 DEF j
<1> QED
  BY <1>3, <1>4, <1>5

LEMMA AscendingLists ==
  ASSUME NEW S, IsFiniteSet(S), S \subseteq Int
  PROVE  /\ Ascending(S) \in Seq(S)
         /\ \A m, n \in DOMAIN Ascending(S) : m < n => Ascending(S)[m] < Ascending(S)[n]
         /\ \A x \in S : \E k \in DOMAIN Ascending(S) : Ascending(S)[k] = x
<1> DEFINE R == [p \in S \X S |-> p[1] < p[2]]
<1>1. Ascending(S) = InOrder(S, R)
  BY DEF Ascending, Sorted
<1>2. \A x, y \in S : R[<<x, y>>] <=> x < y
  OBVIOUS
<1>3. IsOrder(R, S)
  <2> HIDE DEF R
  <2> QED
    BY <1>2 DEF IsOrder
<1> HIDE DEF R
<1>4. InOrder(S, R) \in Seq(S) /\ Lists(InOrder(S, R), S, R)
  BY <1>3, InOrderLists
<1>5. \A k \in DOMAIN InOrder(S, R) : InOrder(S, R)[k] \in S
  BY <1>4 DEF Lists
<1> QED
  BY <1>1, <1>2, <1>4, <1>5 DEF Lists, InLine

LastWords(p) == {n \in DOMAIN p.words : p.words[n].last}

SizeOf(w, doc) == doc[w.el].sizes[w.part]

\* The sentences of a piece are those of its elements: they have all its words,
\* and each has the size the element gives it.
LEMMA SentencesAre ==
  ASSUME NEW doc, NEW S, NEW p \in WholeOf(doc, S)
  PROVE  /\ Sentences(p) \in Seq(PieceOf(doc, S))
         /\ \A n \in 1..Len(p.words) : \E k \in DOMAIN Sentences(p) :
               /\ p.words[n] \in Range(Sentences(p)[k].words)
               /\ Len(Sentences(p)[k].words) = SizeOf(p.words[n], doc)
<1> DEFINE words == p.words
           L == Len(words)
           E == LastWords(p)
           ends == Ascending(E)
           N == Len(ends)
           From(k) == IF k = 1 THEN 1 ELSE ends[k - 1] + 1
<1>1. words \in Seq(Word) /\ L \in Nat /\ DOMAIN words = 1..L /\ Whole(words, doc)
  BY DEF WholeOf, PieceOf
<1>2. E \subseteq 1..L /\ IsFiniteSet(E) /\ E \subseteq Int
  <2>1. E \subseteq 1..L
    BY <1>1 DEF LastWords
  <2>2. 1 \in Int /\ L \in Int
    BY <1>1
  <2>3. IsFiniteSet(1..L)
    BY <2>2, FS_Interval
  <2>4. IsFiniteSet(E)
    <3> HIDE DEF E
    <3> QED
      BY <2>1, <2>3, FS_Subset
  <2> QED
    BY <2>1, <2>4
<1>3. /\ ends \in Seq(E)
      /\ \A m, n \in DOMAIN ends : m < n => ends[m] < ends[n]
      /\ \A x \in E : \E k \in DOMAIN ends : ends[k] = x
  <2> HIDE DEF E
  <2> QED
    BY <1>2, AscendingLists
<1>4. Sentences(p) = [k \in DOMAIN ends |-> Piece(SubSeq(words, From(k), ends[k]), p.els, p.pages)]
  BY DEF Sentences, LastWords
<1> HIDE DEF ends, E
<1>5. N \in Nat /\ DOMAIN ends = 1..N /\ \A k \in 1..N : ends[k] \in E /\ ends[k] \in 1..L
  <2>1. N \in Nat /\ DOMAIN ends = 1..N /\ \A k \in 1..N : ends[k] \in E
    BY <1>3
  <2> HIDE DEF N, L
  <2> QED
    BY <1>2, <2>1
<1>6. ASSUME NEW k \in 1..N
      PROVE  From(k) \in Nat /\ From(k) > 0 /\ From(k) <= ends[k] /\ ends[k] \in Nat /\ ends[k] <= L
  <2>1. CASE k = 1
    BY <1>5, <2>1
  <2>2. CASE k # 1
    <3>1. k - 1 \in 1..N /\ k - 1 < k
      BY <1>5, <2>2
    <3>2. ends[k - 1] < ends[k] /\ ends[k - 1] \in 1..L /\ ends[k] \in 1..L
      BY <1>3, <1>5, <3>1
    <3> QED
      BY <1>1, <2>2, <3>2
  <2> QED
    BY <2>1, <2>2
<1> DEFINE Sub(k) == SubSeq(words, From(k), ends[k])
<1>7. ASSUME NEW k \in 1..N
      PROVE  /\ Sub(k) \in Seq(Word) /\ Len(Sub(k)) = ends[k] + 1 - From(k)
             /\ \A i \in From(k)..ends[k] :
                   i - From(k) + 1 \in 1..(ends[k] + 1 - From(k)) /\ Sub(k)[i - From(k) + 1] = words[i]
  <2> DEFINE a == From(k)
             b == ends[k]
  <2>1. a \in Nat /\ a > 0 /\ b \in Nat /\ b <= L /\ a <= b + 1
    BY <1>6
  <2> HIDE DEF a, b, words
  <2>2. /\ SubSeq(words, a, b) \in Seq(Word) /\ Len(SubSeq(words, a, b)) = b + 1 - a
        /\ \A i \in a..b : i - a + 1 \in 1..(b + 1 - a) /\ SubSeq(words, a, b)[i - a + 1] = words[i]
    BY <1>1, <2>1, SubSeqIs
  <2> QED
    BY <2>2 DEF a, b
<1>8. Sentences(p) \in Seq(PieceOf(doc, S))
  <2>1. ASSUME NEW k \in 1..N PROVE Piece(Sub(k), p.els, p.pages) \in PieceOf(doc, S)
    <3>1. Sub(k) \in Seq(Word)
      BY <1>7
    <3> HIDE DEF Sub
    <3> QED
      BY <3>1 DEF Piece, PieceOf, WholeOf
  <2> HIDE DEF Sub, From, N
  <2> QED
    BY <1>4, <1>5, <2>1 DEF Sub
<1>9. ASSUME NEW n \in 1..L
      PROVE  \E k \in DOMAIN Sentences(p) : /\ words[n] \in Range(Sentences(p)[k].words)
                                            /\ Len(Sentences(p)[k].words) = SizeOf(words[n], doc)
  <2>1. PICK k \in 1..N : n <= ends[k] /\ \A j \in 1..N : n <= ends[j] => k <= j
    <3> DEFINE T == {j \in 1..N : n <= ends[j]}
    <3>1. L \in E
      <4>1. L \in 1..L
        BY <1>1
      <4> QED
        BY <1>1, <4>1 DEF Whole, E, LastWords
    <3>2. \E j \in 1..N : ends[j] = L
      BY <1>3, <1>5, <3>1
    <3>3. T # {} /\ T \subseteq Nat
      BY <1>1, <3>2
    <3> HIDE DEF T
    <3>4. PICK j \in T : \A i \in T : j <= i
      BY <3>3, LeastOfNat
    <3> QED
      BY <3>4 DEF T
  <2> DEFINE a == From(k)
             b == ends[k]
  <2>2. a \in Nat /\ a > 0 /\ a <= b /\ b \in 1..L
    BY <1>5, <1>6
  <2>3. a <= n
    <3>1. CASE k = 1
      BY <3>1
    <3>2. CASE k # 1
      <4>1. k - 1 \in 1..N /\ ~(k <= k - 1)
        BY <1>5, <3>2
      <4>2. ~(n <= ends[k - 1]) /\ ends[k - 1] \in 1..L
        BY <1>5, <2>1, <4>1
      <4> QED
        BY <3>2, <4>2
    <3> QED
      BY <3>1, <3>2
  <2>4. ASSUME NEW m \in a..(b - 1) PROVE m \in 1..L /\ m + 1 \in 1..L /\ ~words[m].last
    <3>1. m \in 1..L /\ m + 1 \in 1..L
      BY <1>1, <2>2
    <3> SUFFICES ASSUME words[m].last PROVE FALSE
      BY <3>1
    <3>2. m \in E
      BY <1>1, <3>1 DEF E, LastWords
    <3>3. PICK j \in 1..N : ends[j] = m
      BY <1>3, <1>5, <3>2
    <3>4. j < k
      <4>1. ~(k < j) /\ k # j
        <5>1. ends[j] < ends[k]
          BY <2>2, <3>3
        <5>2. k < j => ends[k] < ends[j]
          BY <1>3, <1>5
        <5> QED
          BY <1>5, <5>1, <5>2
      <4> QED
        BY <1>5, <4>1
    <3>5. k # 1 /\ k - 1 \in 1..N /\ j <= k - 1
      BY <1>5, <3>4
    <3>6. ends[j] <= ends[k - 1]
      <4>1. j = k - 1 \/ j < k - 1
        BY <3>5
      <4>2. j < k - 1 => ends[j] < ends[k - 1]
        BY <1>3, <1>5, <3>5
      <4> QED
        BY <1>5, <3>5, <4>1, <4>2
    <3> QED
      BY <1>5, <2>2, <3>3, <3>5, <3>6
  <2>5. a \in 1..L /\ words[a].nth = 1
    <3>0. a \in 1..L
      BY <1>1, <2>2
    <3>1. CASE k = 1
      BY <1>1, <3>0, <3>1 DEF Whole
    <3>2. CASE k # 1
      <4> DEFINE e == ends[k - 1]
      <4>1. e \in E /\ e \in 1..L /\ a = e + 1
        <5>1. k - 1 \in 1..N
          BY <1>5, <3>2
        <5> QED
          BY <1>5, <3>2, <5>1
      <4> HIDE DEF e, a
      <4>2. words[e].last /\ e # L
        BY <1>1, <3>0, <4>1 DEF E, LastWords
      <4>3. Follows(words[e], words[e + 1])
        BY <1>1, <4>1, <4>2 DEF Whole
      <4> QED
        BY <3>0, <4>1, <4>2, <4>3 DEF Follows
    <3> QED
      BY <3>1, <3>2
  <2> DEFINE Good == {j \in 0..(b - a) : /\ words[a + j].nth = 1 + j /\ words[a + j].el = words[a].el
                                         /\ words[a + j].part = words[a].part}
  <2> HIDE DEF a, b
  <2>6. 0 \in Good
    <3>1. a + 0 = a /\ 1 + 0 = 1 /\ 0 \in 0..(b - a)
      BY <2>2
    <3> QED
      BY <2>5, <3>1
  <2>7. ASSUME NEW j \in 1..(b - a), j - 1 \in Good PROVE j \in Good
    <3> DEFINE m == a + (j - 1)
    <3>1. m \in a..(b - 1) /\ m + 1 = a + j /\ j \in 0..(b - a)
      BY <2>2
    <3>2. words[m].nth = 1 + (j - 1) /\ words[m].el = words[a].el /\ words[m].part = words[a].part
      BY <2>7
    <3> HIDE DEF m
    <3>3. m \in 1..L /\ m # L /\ ~words[m].last
      BY <1>1, <2>4, <3>1
    <3>4. Follows(words[m], words[m + 1])
      BY <1>1, <3>3 DEF Whole
    <3>5. /\ words[a + j].el = words[a].el /\ words[a + j].part = words[a].part
          /\ words[a + j].nth = 1 + (j - 1) + 1
      BY <3>1, <3>2, <3>3, <3>4 DEF Follows
    <3>6. 1 + (j - 1) + 1 = 1 + j
      OBVIOUS
    <3> QED
      BY <3>1, <3>5, <3>6
  <2>8. \A j \in 0..(b - a) : j \in Good
    <3>1. b - a \in Nat
      BY <2>2
    <3> HIDE DEF Good
    <3> QED
      BY <2>6, <2>7, <3>1, UpTo
  <2>9. ASSUME NEW m \in a..b
        PROVE  words[m].nth = m + 1 - a /\ words[m].el = words[a].el /\ words[m].part = words[a].part
    <3> DEFINE j == m - a
    <3>1. j \in 0..(b - a) /\ a + j = m /\ 1 + j = m + 1 - a
      BY <2>2
    <3> HIDE DEF j
    <3> QED
      BY <2>8, <3>1
  <2>10. SizeOf(words[n], doc) = b + 1 - a
    <3>1. n \in a..b /\ b \in a..b
      BY <2>1, <2>2, <2>3 DEF b
    <3>2. words[b].last /\ WordOf(words[b], doc)
      <4>1. words[b].last
        BY <1>5, <2>2 DEF E, LastWords, b
      <4> QED
        BY <1>1, <2>2, <4>1 DEF Whole
    <3>3. SizeOf(words[b], doc) = words[b].nth
      BY <3>2 DEF SizeOf, WordOf
    <3>4. SizeOf(words[b], doc) = SizeOf(words[n], doc)
      BY <2>9, <3>1 DEF SizeOf
    <3> QED
      BY <2>9, <3>1, <3>3, <3>4
  <2>11. words[n] \in Range(Sub(k)) /\ Len(Sub(k)) = b + 1 - a
    <3>1. Sub(k) \in Seq(Word) /\ Len(Sub(k)) = b + 1 - a
      BY <1>7 DEF a, b
    <3>2. n \in a..b
      BY <2>1, <2>3 DEF b
    <3>3. n - a + 1 \in 1..(b + 1 - a) /\ Sub(k)[n - a + 1] = words[n]
      BY <1>7, <3>2 DEF a, b
    <3> HIDE DEF Sub
    <3>4. n - a + 1 \in DOMAIN Sub(k)
      BY <3>1, <3>3
    <3>5. words[n] \in Range(Sub(k))
      BY <3>3, <3>4 DEF Range
    <3> QED
      BY <3>1, <3>5
  <2>12. k \in DOMAIN Sentences(p) /\ Sentences(p)[k].words = Sub(k)
    <3>1. Sentences(p) = [i \in DOMAIN ends |-> Piece(Sub(i), p.els, p.pages)]
      BY <1>4
    <3> HIDE DEF Sub
    <3> QED
      BY <1>5, <3>1 DEF Piece
  <2> HIDE DEF Sub
  <2> QED
    BY <2>10, <2>11, <2>12
<1> QED
  BY <1>8, <1>9

LEMMA OneWindow ==
  ASSUME NEW room \in Nat, room > 0, NEW L \in Nat
  PROVE  /\ (L + room - 1) \div room \in Nat
         /\ L \in 1..room => (L + room - 1) \div room = 1
<1> DEFINE x == L + room - 1
           q == x \div room
<1>1. x \in Nat /\ q \in Int /\ room * q <= x /\ x < room * q + room
  OBVIOUS
<1>2. q >= 0
  BY <1>1
<1>3. ASSUME L \in 1..room PROVE q = 1
  <2>1. x >= room /\ x < room + room
    BY <1>3
  <2> HIDE DEF x, q
  <2> QED
    BY <1>1, <2>1
<1> QED
  BY <1>1, <1>2, <1>3

LEMMA WindowsAre ==
  ASSUME NEW doc, NEW S, NEW p \in PieceOf(doc, S), NEW room \in Nat, room > 0
  PROVE  /\ Windows(p, room) \in Seq(PieceOf(doc, S))
         /\ Len(p.words) \in 1..room => 1 \in DOMAIN Windows(p, room) /\ Windows(p, room)[1].words = p.words
<1> DEFINE L == Len(p.words)
           N == (L + room - 1) \div room
           Sub(k) == SubSeq(p.words, (k - 1) * room + 1, Min({k * room, L}))
<1>1. p.words \in Seq(Word) /\ L \in Nat
  BY DEF PieceOf
<1>2. N \in Nat /\ (L \in 1..room => N = 1)
  <2> HIDE DEF L
  <2> QED
    BY <1>1, OneWindow
<1>3. ASSUME NEW k \in 1..N PROVE Sub(k) \in Seq(Word)
  <2> DEFINE a == (k - 1) * room
             b == Min({k * room, L})
  <2>1. a \in Nat /\ k * room \in Nat
    <3>1. k \in Nat /\ k - 1 \in Nat
      BY <1>2
    <3> HIDE DEF N
    <3> QED
      BY <3>1
  <2>2. b \in Nat /\ b <= L
    <3>1. {k * room, L} \subseteq Nat /\ {k * room, L} # {}
      BY <1>1, <2>1
    <3>2. b \in {k * room, L} /\ \A x \in {k * room, L} : b <= x
      BY <3>1, MinIs
    <3> QED
      BY <1>1, <2>1, <3>2
  <2> HIDE DEF a, b
  <2>3. \A i \in (a + 1)..b : p.words[i] \in Word
    BY <1>1, <2>1, <2>2
  <2>4. SubSeq(p.words, a + 1, b) \in Seq(Word)
    <3>1. a + 1 \in Int /\ b \in Int
      BY <2>1, <2>2
    <3> QED
      BY <2>3, <3>1, SubSeqProperties
  <2> QED
    BY <2>4 DEF a, b
<1>4. Windows(p, room) = [k \in 1..N |-> Piece(Sub(k), p.els, p.pages)]
  BY DEF Windows
<1>5. \A k \in 1..N : Piece(Sub(k), p.els, p.pages) \in PieceOf(doc, S)
  <2> SUFFICES ASSUME NEW k \in 1..N PROVE Piece(Sub(k), p.els, p.pages) \in PieceOf(doc, S)
    OBVIOUS
  <2>1. Sub(k) \in Seq(Word)
    BY <1>3
  <2> HIDE DEF Sub
  <2> QED
    BY <2>1 DEF Piece, PieceOf
<1>6. ASSUME L \in 1..room PROVE 1 \in 1..N /\ Sub(1) = p.words
  <2>1. (1 - 1) * room + 1 = 1 /\ 1 * room = room /\ 1 \in 1..N
    <3>1. N = 1
      BY <1>2, <1>6
    <3> HIDE DEF N, L
    <3> QED
      BY <3>1
  <2>2. Min({room, L}) = L
    <3>1. {room, L} \subseteq Nat /\ {room, L} # {}
      BY <1>1
    <3>2. Min({room, L}) \in {room, L} /\ \A x \in {room, L} : Min({room, L}) <= x
      BY <3>1, MinIs
    <3> QED
      BY <1>6, <3>2
  <2>3. SubSeq(p.words, 1, L) = p.words
    BY <1>1, SubSeqFull
  <2> HIDE DEF L, N
  <2> QED
    BY <2>1, <2>2, <2>3
<1> HIDE DEF Sub, N, L
<1>7. Windows(p, room) \in Seq(PieceOf(doc, S)) /\ DOMAIN Windows(p, room) = 1..N
  BY <1>2, <1>4, <1>5
<1>8. ASSUME L \in 1..room PROVE 1 \in 1..N /\ Windows(p, room)[1].words = p.words
  BY <1>4, <1>6, <1>8 DEF Piece
<1> QED
  BY <1>7, <1>8 DEF L

LEMMA SplitKeeps ==
  ASSUME NEW doc, NEW S, NEW p \in WholeOf(doc, S), NEW room \in Nat, room > 0
  PROVE  /\ Split(p, room) \in Seq(PieceOf(doc, S))
         /\ \A n \in 1..Len(p.words) : SizeOf(p.words[n], doc) <= room =>
               \E m \in DOMAIN Split(p, room) : /\ p.words[n] \in Range(Split(p, room)[m].words)
                                                /\ Len(Split(p, room)[m].words) <= room
<1> DEFINE X == PieceOf(doc, S)
           L == Len(p.words)
<1>1. p \in X /\ p.words \in Seq(Word) /\ L \in Nat /\ DOMAIN p.words = 1..L
  BY DEF WholeOf, PieceOf
<1>2. CASE L <= room
  <2>1. Split(p, room) = <<p>>
    BY <1>2 DEF Split
  <2>2. \A n \in 1..L : p.words[n] \in Range(p.words)
    BY <1>1 DEF Range
  <2>3. <<p>> \in Seq(X) /\ 1 \in DOMAIN <<p>> /\ <<p>>[1] = p
    BY <1>1
  <2> QED
    BY <1>2, <2>1, <2>2, <2>3
<1>3. CASE ~(L <= room)
  <2> DEFINE units == Sentences(p)
             packed == Pack(units, room)
             P == Len(packed)
             wins == Windows(Last(packed), room)
  <2>1. JoinClosed(X)
    <3>1. \A q \in X : q.words \in Seq(Word)
      BY DEF PieceOf
    <3> QED
      BY <3>1, JoinIsPiece DEF JoinClosed
  <2>2. /\ units \in Seq(X)
        /\ \A n \in 1..L : \E k \in DOMAIN units : /\ p.words[n] \in Range(units[k].words)
                                                   /\ Len(units[k].words) = SizeOf(p.words[n], doc)
    BY SentencesAre
  <2> HIDE DEF units
  <2>3. packed \in Seq(X) /\ Carried(units, packed, room, Len(units))
    <3>1. room \in Int
      OBVIOUS
    <3> HIDE DEF X
    <3> QED
      BY <2>1, <2>2, <3>1, PackCarries
  <2>4. Split(p, room) = Front(packed) \o wins
    BY <1>3 DEF Split, units
  <2> HIDE DEF packed
  <2>5. ASSUME NEW n \in 1..L
        PROVE  \E m \in DOMAIN packed :
                  /\ p.words[n] \in Range(packed[m].words)
                  /\ SizeOf(p.words[n], doc) <= room => Len(packed[m].words) <= room
    <3>1. PICK k \in DOMAIN units : /\ p.words[n] \in Range(units[k].words)
                                    /\ Len(units[k].words) = SizeOf(p.words[n], doc)
      BY <2>2
    <3>2. k \in 1..Len(units)
      BY <2>2
    <3>3. PICK m \in DOMAIN packed : /\ packed[m] = units[k] \/ Len(packed[m].words) <= room
                                     /\ Range(units[k].words) \subseteq Range(packed[m].words)
      BY <2>3, <3>2 DEF Carried
    <3> QED
      BY <3>1, <3>3
  <2>6. packed # <<>>
    <3>1. 1 \in 1..L
      BY <1>1, <1>3
    <3>2. \E m \in DOMAIN packed : TRUE
      BY <2>5, <3>1
    <3>3. DOMAIN <<>> = {}
      OBVIOUS
    <3> QED
      BY <3>2, <3>3
  <2>7. /\ P \in Nat \ {0} /\ DOMAIN packed = 1..P /\ Last(packed) \in X /\ Front(packed) \in Seq(X)
        /\ Len(Front(packed)) = P - 1 /\ \A i \in 1..(P - 1) : Front(packed)[i] = packed[i]
        /\ Last(packed) = packed[P]
    <3> HIDE DEF X
    <3>1. DOMAIN packed = 1..P /\ Last(packed) = packed[P]
      BY <2>3 DEF Last
    <3> QED
      BY <2>3, <2>6, <3>1, LastAndFront
  <2>8. /\ wins \in Seq(X)
        /\ Len(Last(packed).words) \in 1..room => 1 \in DOMAIN wins /\ wins[1].words = Last(packed).words
    BY <2>7, WindowsAre
  <2> HIDE DEF wins, P, X
  <2> DEFINE all == Front(packed) \o wins
             M == Len(wins)
  <2>9. /\ all \in Seq(X) /\ DOMAIN all = 1..(P - 1 + M) /\ M \in Nat
        /\ \A i \in 1..(P - 1 + M) : all[i] = IF i <= P - 1 THEN packed[i] ELSE wins[i - (P - 1)]
    <3>1. /\ all \in Seq(X) /\ Len(all) = Len(Front(packed)) + M
          /\ \A i \in 1..(Len(Front(packed)) + M) :
                all[i] = IF i <= Len(Front(packed)) THEN Front(packed)[i] ELSE wins[i - Len(Front(packed))]
      BY <2>7, <2>8, ConcatProperties
    <3>2. M \in Nat
      BY <2>8
    <3> HIDE DEF all, M
    <3>3. all \in Seq(X) /\ DOMAIN all = 1..(P - 1 + M)
      BY <2>7, <3>1
    <3>4. ASSUME NEW i \in 1..(P - 1 + M)
          PROVE  all[i] = IF i <= P - 1 THEN packed[i] ELSE wins[i - (P - 1)]
      <4>1. i <= P - 1 => i \in 1..(P - 1)
        BY <2>7
      <4> QED
        BY <2>7, <3>1, <4>1
    <3> QED
      BY <3>2, <3>3, <3>4
  <2> HIDE DEF all, M
  <2>10. ASSUME NEW n \in 1..L, SizeOf(p.words[n], doc) <= room
         PROVE  \E m \in DOMAIN all : p.words[n] \in Range(all[m].words) /\ Len(all[m].words) <= room
    <3>1. PICK m \in 1..P : p.words[n] \in Range(packed[m].words) /\ Len(packed[m].words) <= room
      BY <2>5, <2>7, <2>10
    <3>2. CASE m <= P - 1
      <4>1. m \in 1..(P - 1 + M) /\ all[m] = packed[m]
        BY <2>7, <2>9, <3>2
      <4> QED
        BY <2>9, <3>1, <4>1
    <3>3. CASE m = P
      <4>1. Last(packed).words \in Seq(Word) /\ Len(Last(packed).words) <= room
            /\ p.words[n] \in Range(Last(packed).words)
        BY <2>7, <3>1, <3>3 DEF X, PieceOf
      <4>2. Len(Last(packed).words) \in 1..room
        <5>1. \E i \in DOMAIN Last(packed).words : TRUE
          BY <4>1 DEF Range
        <5> QED
          BY <4>1, <5>1
      <4>3. 1 \in 1..M /\ wins[1].words = Last(packed).words
        BY <2>8, <4>2 DEF M
      <4>4. P \in 1..(P - 1 + M) /\ ~(P <= P - 1) /\ P - (P - 1) = 1
        BY <2>7, <2>9, <4>3
      <4>5. all[P] = wins[1]
        BY <2>9, <4>4
      <4> QED
        BY <2>9, <4>1, <4>3, <4>4, <4>5
    <3> QED
      BY <2>7, <3>1, <3>2, <3>3
  <2>11. Split(p, room) = all
    BY <2>4 DEF all
  <2> QED
    BY <2>9, <2>10, <2>11 DEF X
<1> QED
  BY <1>1, <1>2, <1>3

LEMMA OverlapKeeps ==
  ASSUME NEW doc, NEW S, NEW pieces \in Seq(PieceOf(doc, S)), NEW room \in Nat
  PROVE  /\ Overlapped(pieces, room) \in Seq(PieceOf(doc, S))
         /\ Len(Overlapped(pieces, room)) = Len(pieces)
         /\ \A k \in 1..Len(pieces) :
               /\ Range(pieces[k].words) \subseteq Range(Overlapped(pieces, room)[k].words)
               /\ Len(pieces[k].words) <= room => Len(Overlapped(pieces, room)[k].words) <= room
<1> DEFINE X == PieceOf(doc, S)
           N == Len(pieces)
           Tail2(k) == IF k = 1 THEN <<>> ELSE Ending(pieces[k - 1].words, Overlap)
           New(k) == IF Len(Tail2(k)) + Len(pieces[k].words) <= room
                     THEN [pieces[k] EXCEPT !.words = Tail2(k) \o @] ELSE pieces[k]
<1>1. N \in Nat /\ DOMAIN pieces = 1..N /\ \A k \in 1..N : pieces[k] \in X
  OBVIOUS
<1>2. \A k \in 1..N : pieces[k].words \in Seq(Word)
  BY <1>1 DEF PieceOf
<1>3. Overlapped(pieces, room) = [k \in 1..N |-> New(k)]
  BY <1>1 DEF Overlapped
<1>4. ASSUME NEW k \in 1..N PROVE Tail2(k) \in Seq(Word)
  <2>1. CASE k = 1
    BY <2>1
  <2>2. CASE k # 1
    <3> DEFINE w == pieces[k - 1].words
               a == IF Len(w) > Overlap THEN Len(w) - Overlap + 1 ELSE 1
    <3>1. k - 1 \in 1..N
      BY <1>1, <2>2
    <3>2. w \in Seq(Word) /\ Len(w) \in Nat /\ Overlap \in Nat
      BY <1>2, <3>1, ChunkerConstants
    <3> HIDE DEF w
    <3>3. a \in Int /\ a > 0 /\ Len(w) \in Int
      BY <3>2
    <3>4. \A i \in a..Len(w) : w[i] \in Word
      BY <3>2, <3>3
    <3> HIDE DEF a
    <3>5. SubSeq(w, a, Len(w)) \in Seq(Word)
      BY <3>3, <3>4, SubSeqProperties
    <3> QED
      BY <2>2, <3>5 DEF Ending, a, w
  <2> QED
    BY <2>1, <2>2
<1> HIDE DEF Tail2, N
<1>5. ASSUME NEW k \in 1..N
      PROVE  /\ New(k) \in X /\ Range(pieces[k].words) \subseteq Range(New(k).words)
             /\ Len(pieces[k].words) <= room => Len(New(k).words) <= room
  <2> DEFINE w == pieces[k].words
             t == Tail2(k)
  <2>1. w \in Seq(Word) /\ t \in Seq(Word) /\ pieces[k] \in X
    BY <1>1, <1>2, <1>4
  <2> HIDE DEF t
  <2>2. t \o w \in Seq(Word) /\ Len(t \o w) = Len(t) + Len(w)
        /\ Range(t \o w) = Range(t) \cup Range(w)
    BY <2>1, ConcatProperties, RangeConcatenation
  <2>3. CASE Len(t) + Len(w) <= room
    <3> DEFINE q == [pieces[k] EXCEPT !.words = t \o w]
    <3>1. q \in X /\ q.words = t \o w
      BY <2>1, <2>2 DEF PieceOf
    <3>2. New(k) = q
      BY <2>3 DEF t
    <3> HIDE DEF q, New, w
    <3> QED
      BY <2>2, <2>3, <3>1, <3>2 DEF w
  <2>4. CASE ~(Len(t) + Len(w) <= room)
    BY <2>1, <2>4 DEF t
  <2> QED
    BY <2>3, <2>4
<1> HIDE DEF New, X
<1>6. Overlapped(pieces, room) \in Seq(X) /\ Len(Overlapped(pieces, room)) = N
  BY <1>1, <1>3, <1>5
<1>7. \A k \in 1..N : Overlapped(pieces, room)[k] = New(k)
  BY <1>3
<1> QED
  BY <1>5, <1>6, <1>7 DEF N, X

(***************************************************************************)
(* Runs of prose                                                           *)
(***************************************************************************)
HasAll(flat, s, N) ==
    \A k \in 1..N : \A c \in DOMAIN s[k] : \E n \in DOMAIN flat : flat[n] = s[k][c]

LEMMA FlattenMembers ==
  ASSUME NEW X, NEW N \in Nat, NEW s \in [1..N -> Seq(X)]
  PROVE  FlattenSeq(s) \in Seq(X) /\ HasAll(FlattenSeq(s), s, N)
<1>1. FlattenSeq(s) \in Seq(X)
  BY FlattenLays
<1>2. PICK row, col : Lays(FlattenSeq(s), row, col, s, N)
  BY FlattenLays
<1>3. ASSUME NEW k \in 1..N, NEW c \in DOMAIN s[k]
      PROVE  \E n \in DOMAIN FlattenSeq(s) : FlattenSeq(s)[n] = s[k][c]
  <2>1. PICK n \in DOMAIN FlattenSeq(s) : row[n] = k /\ col[n] = c
    BY <1>2 DEF Lays
  <2>2. FlattenSeq(s)[n] = s[row[n]][col[n]]
    BY <1>2 DEF Lays
  <2> QED
    BY <2>1, <2>2
<1> QED
  BY <1>1, <1>3 DEF HasAll

LEMMA ElementsAre ==
  ASSUME NEW doc \in Seq(Element)
  PROVE  /\ Len(doc) \in Nat /\ DOMAIN doc = 1..Len(doc)
         /\ \A S \in SUBSET DOMAIN doc : IsFiniteSet(S) /\ S \subseteq Int /\ S \subseteq Nat
         /\ \A i \in DOMAIN doc : doc[i] \in Element /\ doc[i].path \in Nat /\ doc[i].pages \subseteq Nat
         /\ Prose(doc) \subseteq DOMAIN doc /\ Starts(doc) \subseteq Prose(doc)
<1>1. Len(doc) \in Nat /\ DOMAIN doc = 1..Len(doc)
  OBVIOUS
<1>2. IsFiniteSet(1..Len(doc))
  <2>1. 1 \in Int /\ Len(doc) \in Int
    BY <1>1
  <2> QED
    BY <2>1, FS_Interval
<1>3. ASSUME NEW S \in SUBSET DOMAIN doc PROVE IsFiniteSet(S) /\ S \subseteq Int /\ S \subseteq Nat
  <2>1. IsFiniteSet(S)
    BY <1>1, <1>2, FS_Subset
  <2> QED
    BY <1>1, <2>1
<1>4. \A i \in DOMAIN doc : doc[i] \in Element
  OBVIOUS
<1>5. \A i \in DOMAIN doc : doc[i].path \in Nat /\ doc[i].pages \subseteq Nat
  BY <1>4 DEF Element
<1>6. Prose(doc) \subseteq DOMAIN doc /\ Starts(doc) \subseteq Prose(doc)
  BY DEF Prose, Kept, Starts
<1> QED
  BY <1>1, <1>3, <1>4, <1>5, <1>6

RunSet(doc, i) == {j \in Prose(doc) : i <= j /\ \A s \in Starts(doc) : s <= i \/ j < s}

\* A run of prose is under one heading path.
LEMMA RunPath ==
  ASSUME NEW doc \in Seq(Element), NEW i \in Prose(doc), NEW j \in RunSet(doc, i)
  PROVE  doc[j].path = doc[i].path
<1> DEFINE T == {k \in RunSet(doc, i) : doc[k].path # doc[i].path}
<1>1. Prose(doc) \subseteq Nat
  BY ElementsAre
<1> SUFFICES ASSUME T # {} PROVE FALSE
  OBVIOUS
<1>2. PICK k \in T : \A m \in T : k <= m
  <2>1. T \subseteq Nat
    BY <1>1 DEF RunSet
  <2> HIDE DEF T
  <2> QED
    BY <2>1, LeastOfNat
<1>3. k \in Prose(doc) /\ i <= k /\ k # i /\ doc[k].path # doc[i].path
      /\ \A s \in Starts(doc) : s <= i \/ k < s
  BY <1>2 DEF RunSet
<1>4. k \in Nat /\ i \in Nat /\ i < k /\ k \notin Starts(doc)
  BY <1>1, <1>3
<1> DEFINE B == Before(doc, k)
           p == Max(B)
<1>5. i \in B /\ B \subseteq Prose(doc) /\ \A x \in B : x < k
  BY <1>4 DEF Before
<1>6. p \in B /\ \A x \in B : x <= p
  <2>1. B \in SUBSET DOMAIN doc
    BY <1>5, ElementsAre
  <2>2. IsFiniteSet(B) /\ B \subseteq Int /\ B # {}
    BY <1>5, <2>1, ElementsAre
  <2> HIDE DEF B
  <2> QED
    BY <2>2, MaxIs
<1>7. doc[p].path = doc[k].path
  <2> HIDE DEF B
  <2>1. B # {} /\ k \in Prose(doc)
    BY <1>3, <1>5
  <2> QED
    BY <1>4, <2>1 DEF Starts, B
<1> HIDE DEF p, B
<1>8. p \in Prose(doc) /\ i <= p /\ p < k
  BY <1>5, <1>6
<1>9. p \in RunSet(doc, i)
  <2>1. \A s \in Starts(doc) : s \in Nat
    BY <1>1, ElementsAre
  <2>2. \A s \in Starts(doc) : s <= i \/ p < s
    BY <1>1, <1>3, <1>4, <1>8, <2>1
  <2> QED
    BY <1>8, <2>2 DEF RunSet
<1>10. p \in T
  BY <1>3, <1>7, <1>9
<1> QED
  BY <1>1, <1>2, <1>4, <1>8, <1>10

\* No prose is outside the runs.
LEMMA ProseIsInARun ==
  ASSUME NEW doc \in Seq(Element), NEW i \in Prose(doc)
  PROVE  \E s \in Starts(doc) : i \in RunSet(doc, s)
<1> DEFINE T == {s \in Starts(doc) : s <= i}
<1>1. Prose(doc) \subseteq Nat /\ Starts(doc) \subseteq Prose(doc)
  BY ElementsAre
<1>2. T # {}
  <2>1. PICK k \in Prose(doc) : \A m \in Prose(doc) : k <= m
    BY <1>1, LeastOfNat
  <2>2. Before(doc, k) = {}
    BY <1>1, <2>1 DEF Before
  <2>3. k \in Starts(doc) /\ k <= i
    BY <2>1, <2>2 DEF Starts
  <2> QED
    BY <2>3
<1>3. PICK s \in T : \A x \in T : x <= s
  <2>1. T \in SUBSET DOMAIN doc
    BY ElementsAre
  <2>2. IsFiniteSet(T) /\ T \subseteq Int
    BY <2>1, ElementsAre
  <2> HIDE DEF T
  <2> QED
    BY <1>2, <2>2, MaxIs
<1>4. s \in Starts(doc) /\ s <= i /\ \A x \in Starts(doc) : x <= s \/ i < x
  <2>1. \A x \in Starts(doc) : x \in Nat
    BY <1>1
  <2> QED
    BY <1>1, <1>3, <2>1
<1> QED
  BY <1>4 DEF RunSet

LEMMA RunLists ==
  ASSUME NEW doc \in Seq(Element), NEW i \in Prose(doc)
  PROVE  /\ Run(doc, i) \in Seq(RunSet(doc, i)) /\ RunSet(doc, i) \subseteq Prose(doc)
         /\ \A j \in RunSet(doc, i) : \E k \in DOMAIN Run(doc, i) : Run(doc, i)[k] = j
<1>1. RunSet(doc, i) \subseteq Prose(doc)
  BY DEF RunSet
<1>2. RunSet(doc, i) \in SUBSET DOMAIN doc
  BY <1>1, ElementsAre
<1>3. IsFiniteSet(RunSet(doc, i)) /\ RunSet(doc, i) \subseteq Int
  BY <1>2, ElementsAre
<1>4. Run(doc, i) = Ascending(RunSet(doc, i))
  BY DEF Run, RunSet
<1> QED
  BY <1>1, <1>3, <1>4, AscendingLists

(***************************************************************************)
(* Chunks                                                                  *)
(***************************************************************************)
Structural(doc) == Kept(doc, {"table", "figure", "formula"})

\* A chunk of a document names every page of each of its elements.
ChunkOf(doc) ==
    {c \in [kind : {"prose", "table_summary", "table_pack", "figure", "formula"},
            els : (SUBSET DOMAIN doc) \ {{}}, pages : SUBSET Nat, path : Nat,
            words : Seq(Word), pack : Int, before : SUBSET Nat, after : SUBSET Nat] :
        \A i \in c.els : doc[i].pages \subseteq c.pages}

ProseChunk(doc) ==
    {c \in ChunkOf(doc) : /\ c.kind = "prose" /\ c.els \subseteq Prose(doc) /\ c.pack = -1
                          /\ c.before = {} /\ c.after = {}}

\* "w" is in a chunk that is not truncated.
Holds(chunks, w) ==
    \E m \in DOMAIN chunks : /\ w \in Range(chunks[m].words)
                             /\ Len(chunks[m].words) <= Limit - PrefixCost(chunks[m].path)

LEMMA PrefixFits ==
  ASSUME NEW path
  PROVE  /\ PrefixCost(path) \in Nat /\ Limit - PrefixCost(path) \in Nat
         /\ Limit - PrefixCost(path) > 0 /\ Limit - PrefixCost(path) - CaptionCost \in Nat
         /\ Limit - PrefixCost(path) - CaptionCost > 0
         /\ Target - PrefixCost(path) \in Int
BY ChunkerConstants DEF PrefixCost

LEMMA RunChunksAre ==
  ASSUME NEW doc \in Seq(Element), NEW i \in Prose(doc)
  PROVE  /\ RunChunks(doc, i) \in Seq(ProseChunk(doc))
         /\ \A j \in RunSet(doc, i) : \A n \in DOMAIN Words(doc, j) :
               SizeOf(Words(doc, j)[n], doc) <= Limit - PrefixCost(doc[j].path) =>
                   Holds(RunChunks(doc, i), Words(doc, j)[n])
<1> DEFINE P == Prose(doc)
           X == PieceOf(doc, P)
           W == WholeOf(doc, P)
           path == doc[i].path
           run == Run(doc, i)
           units == [k \in DOMAIN run |-> Unit(doc, run[k])]
           merged == Pack(units, Target - PrefixCost(path))
           room == Limit - PrefixCost(path)
           split == [k \in DOMAIN merged |-> Split(merged[k], room)]
           pieces == FlattenSeq(split)
           whole == Overlapped(pieces, room)
<1>1. P \in SUBSET DOMAIN doc /\ path \in Nat /\ room \in Nat /\ room > 0
      /\ Target - PrefixCost(path) \in Int
  BY ElementsAre, PrefixFits
<1>2. RunChunks(doc, i) = [k \in DOMAIN whole |-> Chunk("prose", whole[k], path, -1)]
  BY DEF RunChunks
<1>3. /\ run \in Seq(RunSet(doc, i)) /\ RunSet(doc, i) \subseteq P
      /\ \A j \in RunSet(doc, i) : \E k \in DOMAIN run : run[k] = j
  BY RunLists
<1> HIDE DEF run
<1>4. units \in Seq(W) /\ DOMAIN units = DOMAIN run
  <2>1. ASSUME NEW k \in DOMAIN run PROVE Unit(doc, run[k]) \in W
    <3>1. run[k] \in P
      BY <1>3
    <3> HIDE DEF P
    <3> QED
      BY <1>1, <3>1, UnitIsWhole
  <2>2. Len(run) \in Nat /\ DOMAIN run = 1..Len(run)
    BY <1>3
  <2> HIDE DEF W
  <2> QED
    BY <2>1, <2>2
<1>5. JoinClosed(W)
  <2>1. \A p \in W : p.words \in Seq(Word)
    BY DEF WholeOf, PieceOf
  <2> QED
    BY <2>1, JoinIsWhole DEF JoinClosed
<1> HIDE DEF units
<1>6. merged \in Seq(W) /\ Carried(units, merged, Target - PrefixCost(path), Len(units))
  <2> HIDE DEF W, path
  <2> QED
    BY <1>1, <1>4, <1>5, PackCarries
<1> HIDE DEF merged, room
<1> DEFINE M == Len(merged)
<1>7. M \in Nat /\ DOMAIN merged = 1..M /\ \A k \in 1..M : merged[k] \in W
  BY <1>6
<1>8. ASSUME NEW k \in 1..M
      PROVE  /\ Split(merged[k], room) \in Seq(X)
             /\ \A n \in 1..Len(merged[k].words) : SizeOf(merged[k].words[n], doc) <= room =>
                   \E m \in DOMAIN Split(merged[k], room) :
                      /\ merged[k].words[n] \in Range(Split(merged[k], room)[m].words)
                      /\ Len(Split(merged[k], room)[m].words) <= room
  BY <1>1, <1>7, SplitKeeps
<1>9. split \in [1..M -> Seq(X)]
  BY <1>7, <1>8
<1>10. \A k \in 1..M : split[k] = Split(merged[k], room)
  BY <1>7
<1> HIDE DEF split, M
<1>11. /\ pieces \in Seq(X)
       /\ \A k \in 1..M : \A c \in DOMAIN split[k] : \E n \in DOMAIN pieces : pieces[n] = split[k][c]
  <2> HIDE DEF X
  <2>1. FlattenSeq(split) \in Seq(X) /\ HasAll(FlattenSeq(split), split, M)
    BY <1>7, <1>9, FlattenMembers
  <2> QED
    BY <2>1 DEF HasAll
<1> HIDE DEF pieces
<1>12. /\ whole \in Seq(X) /\ Len(whole) = Len(pieces)
       /\ \A k \in 1..Len(pieces) :
             /\ Range(pieces[k].words) \subseteq Range(whole[k].words)
             /\ Len(pieces[k].words) <= room => Len(whole[k].words) <= room
  BY <1>1, <1>11, OverlapKeeps
<1> HIDE DEF whole
<1> DEFINE N == Len(whole)
           chunks == RunChunks(doc, i)
<1>13. N \in Nat /\ DOMAIN whole = 1..N /\ \A k \in 1..N : whole[k] \in X
  BY <1>12
<1>14. ASSUME NEW k \in 1..N PROVE Chunk("prose", whole[k], path, -1) \in ProseChunk(doc)
  <2>1. whole[k] \in X
    BY <1>13
  <2> HIDE DEF path
  <2> QED
    BY <1>1, <2>1 DEF Chunk, ProseChunk, ChunkOf, PieceOf
<1>15. chunks \in Seq(ProseChunk(doc)) /\ DOMAIN chunks = 1..N
  <2> HIDE DEF N
  <2> QED
    BY <1>2, <1>13, <1>14
<1>16. \A k \in 1..N : chunks[k].words = whole[k].words /\ chunks[k].path = path
  BY <1>2, <1>13 DEF Chunk
<1> HIDE DEF chunks, N
<1>17. ASSUME NEW j \in RunSet(doc, i), NEW n \in DOMAIN Words(doc, j),
              SizeOf(Words(doc, j)[n], doc) <= Limit - PrefixCost(doc[j].path)
       PROVE  Holds(chunks, Words(doc, j)[n])
  <2> DEFINE w == Words(doc, j)[n]
  <2>1. SizeOf(w, doc) <= room
    BY <1>17, RunPath DEF room
  <2>2. PICK k \in DOMAIN run : run[k] = j
    BY <1>3
  <2>3. k \in 1..Len(units) /\ units[k].words = Words(doc, j) /\ w \in Range(units[k].words)
    <3>1. k \in 1..Len(units)
      BY <1>4
    <3>2. units[k] = Unit(doc, j)
      BY <2>2 DEF units
    <3>3. units[k].words = Words(doc, j)
      BY <3>2 DEF Unit, Piece
    <3> QED
      BY <3>1, <3>3 DEF Range
  <2> HIDE DEF w
  <2>4. PICK m \in 1..M : w \in Range(merged[m].words)
    BY <1>6, <1>7, <2>3 DEF Carried
  <2>5. PICK q \in 1..Len(merged[m].words) : merged[m].words[q] = w
    <3>1. merged[m].words \in Seq(Word)
      BY <1>7 DEF WholeOf, PieceOf
    <3> QED
      BY <2>4, <3>1 DEF Range
  <2>6. PICK c \in DOMAIN Split(merged[m], room) :
           w \in Range(Split(merged[m], room)[c].words) /\ Len(Split(merged[m], room)[c].words) <= room
    BY <1>8, <2>1, <2>5
  <2>7. PICK x \in DOMAIN pieces : w \in Range(pieces[x].words) /\ Len(pieces[x].words) <= room
    BY <1>10, <1>11, <2>6
  <2>8. x \in 1..N /\ w \in Range(whole[x].words) /\ Len(whole[x].words) <= room
    <3>1. x \in 1..Len(pieces)
      BY <1>11, <2>7
    <3> QED
      BY <1>12, <2>7, <3>1 DEF N
  <2> QED
    BY <1>15, <1>16, <2>8 DEF Holds, room, w
<1> QED
  BY <1>15, <1>17 DEF chunks

\* "w", a word of an element under "path", fits a chunk by itself, beside "extra".
FitsAlone(w, doc, extra) == SizeOf(w, doc) <= Limit - PrefixCost(doc[w.el].path) - extra

\* Every word of the elements S that can be held is.
HoldsAll(chunks, doc, S, extra) ==
    \A j \in S : \A n \in DOMAIN Words(doc, j) :
        FitsAlone(Words(doc, j)[n], doc, extra) => Holds(chunks, Words(doc, j)[n])

LEMMA WordIsOf ==
  ASSUME NEW doc \in Seq(Element), NEW j \in DOMAIN doc, NEW n \in DOMAIN Words(doc, j)
  PROVE  /\ WordOf(Words(doc, j)[n], doc) /\ Words(doc, j)[n].el = j
         /\ SizeOf(Words(doc, j)[n], doc) \in Nat
<1>1. WordOf(Words(doc, j)[n], doc) /\ Words(doc, j)[n].el = j
  BY WordsAre DEF WordsOf
<1>2. doc[j].sizes \in Seq(Nat)
  BY ElementsAre DEF Element
<1> QED
  BY <1>1, <1>2 DEF WordOf, SizeOf

\* What is held by one of the sequences is held by all of them joined.
LEMMA HeldByAll ==
  ASSUME NEW flat, NEW s, NEW N, HasAll(flat, s, N), NEW k \in 1..N, NEW w, Holds(s[k], w)
  PROVE  Holds(flat, w)
<1>1. PICK c \in DOMAIN s[k] : /\ w \in Range(s[k][c].words)
                               /\ Len(s[k][c].words) <= Limit - PrefixCost(s[k][c].path)
  BY DEF Holds
<1>2. PICK n \in DOMAIN flat : flat[n] = s[k][c]
  BY DEF HasAll
<1> QED
  BY <1>1, <1>2 DEF Holds

LEMMA ProseChunksAre ==
  ASSUME NEW doc \in Seq(Element)
  PROVE  ProseChunks(doc) \in Seq(ProseChunk(doc)) /\ HoldsAll(ProseChunks(doc), doc, Prose(doc), 0)
<1> DEFINE starts == Ascending(Starts(doc))
           N == Len(starts)
           s == [k \in DOMAIN starts |-> RunChunks(doc, starts[k])]
           X == ProseChunk(doc)
<1>1. /\ starts \in Seq(Starts(doc))
      /\ \A x \in Starts(doc) : \E k \in DOMAIN starts : starts[k] = x
  BY ElementsAre, AscendingLists
<1>2. N \in Nat /\ DOMAIN starts = 1..N /\ \A k \in 1..N : starts[k] \in Prose(doc)
  BY <1>1, ElementsAre
<1>3. ProseChunks(doc) = FlattenSeq(s)
  BY DEF ProseChunks
<1> HIDE DEF starts, N
<1>4. \A k \in 1..N : RunChunks(doc, starts[k]) \in Seq(X)
  BY <1>2, RunChunksAre
<1>5. s \in [1..N -> Seq(X)] /\ \A k \in 1..N : s[k] = RunChunks(doc, starts[k])
  BY <1>2, <1>4
<1> HIDE DEF s, X
<1>6. FlattenSeq(s) \in Seq(X) /\ HasAll(FlattenSeq(s), s, N)
  BY <1>2, <1>5, FlattenMembers
<1>7. ASSUME NEW j \in Prose(doc), NEW n \in DOMAIN Words(doc, j), FitsAlone(Words(doc, j)[n], doc, 0)
      PROVE  Holds(FlattenSeq(s), Words(doc, j)[n])
  <2>1. PICK i \in Starts(doc) : j \in RunSet(doc, i)
    BY ProseIsInARun
  <2>2. PICK k \in 1..N : starts[k] = i
    BY <1>1, <1>2
  <2>3. j \in DOMAIN doc /\ i \in Prose(doc)
    BY ElementsAre
  <2>4. SizeOf(Words(doc, j)[n], doc) <= Limit - PrefixCost(doc[j].path)
    BY <1>7, <2>3, WordIsOf, PrefixFits DEF FitsAlone
  <2>5. Holds(RunChunks(doc, i), Words(doc, j)[n])
    BY <2>1, <2>3, <2>4, RunChunksAre
  <2>6. Holds(s[k], Words(doc, j)[n])
    BY <1>5, <2>2, <2>5
  <2> QED
    BY <1>6, <2>6, HeldByAll
<1> QED
  BY <1>3, <1>6, <1>7 DEF HoldsAll, X

(***************************************************************************)
(* Tables                                                                  *)
(***************************************************************************)
LEMMA Climbs ==
  ASSUME NEW L \in Nat, NEW f, \A m \in 1..L : f[m] \in Int,
         L > 0 => f[1] >= 1, \A m, n \in 1..L : m < n => f[m] < f[n]
  PROVE  \A m \in 1..L : m <= f[m]
<1> DEFINE G == {m \in 0..L : m = 0 \/ m <= f[m]}
<1>1. 0 \in G
  OBVIOUS
<1>2. ASSUME NEW i \in 1..L, i - 1 \in G PROVE i \in G
  <2>1. CASE i = 1
    BY <2>1
  <2>2. CASE i # 1
    <3>1. i - 1 \in 1..L /\ i - 1 < i
      BY <2>2
    <3>2. f[i - 1] < f[i] /\ i - 1 <= f[i - 1] /\ f[i] \in Int /\ f[i - 1] \in Int
      BY <1>2, <3>1
    <3> QED
      BY <3>2
  <2> QED
    BY <2>1, <2>2
<1> HIDE DEF G
<1>3. \A i \in 0..L : i \in G
  BY <1>1, <1>2, UpTo
<1> QED
  BY <1>3 DEF G

RowWords(doc, i, s) == Only(Words(doc, i), LAMBDA w : w.part = s)

\* A row has the words of its part, and is no longer than the element says.
LEMMA RowsAre ==
  ASSUME NEW doc \in Seq(Element), NEW i \in DOMAIN doc, NEW s \in DOMAIN doc[i].sizes
  PROVE  /\ RowWords(doc, i, s) \in Seq(Word) /\ Len(RowWords(doc, i, s)) <= doc[i].sizes[s]
         /\ \A n \in DOMAIN Words(doc, i) :
               Words(doc, i)[n].part = s => Words(doc, i)[n] \in Range(RowWords(doc, i, s))
<1> DEFINE words == Words(doc, i)
           at == {k \in DOMAIN words : words[k].part = s}
           t == Places(words, at)
           size == doc[i].sizes[s]
<1>1. RowWords(doc, i, s) = t
  BY DEF RowWords, Only
<1>2. WordsOf(words, doc, i)
  BY WordsAre
<1>3. words \in Seq(Word) /\ at \subseteq 1..Len(words)
  BY <1>2 DEF WordsOf
<1>4. size \in Nat
  BY ElementsAre DEF Element
<1>5. \A k \in at : words[k].part = s /\ words[k].nth \in 1..size /\ k \in DOMAIN words
  <2> HIDE DEF words
  <2> QED
    BY <1>2 DEF WordsOf, WordOf
<1>6. \A k, m \in at : k < m => words[k].nth < words[m].nth
  <2> HIDE DEF words
  <2> TAKE k, m \in at
  <2> HAVE k < m
  <2>1. words[k].part = s /\ words[m].part = s /\ k \in DOMAIN words /\ m \in DOMAIN words
    BY <1>5
  <2>2. s \in Nat
    <3>1. words[k] \in Word
      BY <1>3, <2>1
    <3> QED
      BY <2>1, <3>1 DEF Word
  <2>3. \/ words[k].part < words[m].part
        \/ words[k].part = words[m].part /\ words[k].nth < words[m].nth
    BY <1>2, <2>1 DEF WordsOf
  <2> QED
    BY <2>1, <2>2, <2>3
<1> HIDE DEF words, at, size
<1>7. t \in Seq(Word) /\ \E pos : Picks(t, pos, words, at)
  BY <1>3, PlacesPick
<1> HIDE DEF t
<1>8. PICK pos : Picks(t, pos, words, at)
  BY <1>7
<1> DEFINE L == Len(t)
           f == [m \in 1..L |-> t[m].nth]
<1>9. L \in Nat /\ DOMAIN t = 1..L
  BY <1>7
<1>10. \A m \in 1..L : f[m] \in 1..size
  BY <1>5, <1>8, <1>9 DEF Picks
<1>11. \A m, n \in 1..L : m < n => f[m] < f[n]
  BY <1>6, <1>8, <1>9 DEF Picks
<1>12. L <= size
  <2> HIDE DEF L, f
  <2>1. (\A m \in 1..L : f[m] \in Int /\ f[m] >= 1) /\ (L > 0 => f[1] >= 1)
    BY <1>4, <1>9, <1>10
  <2>2. \A m \in 1..L : m <= f[m]
    BY <1>9, <1>11, <2>1, Climbs
  <2>3. CASE L = 0
    BY <1>4, <2>3
  <2>4. CASE L # 0
    <3>1. L \in 1..L
      BY <1>9, <2>4
    <3>2. L <= f[L] /\ f[L] <= size /\ f[L] \in Int
      BY <1>4, <1>10, <2>1, <2>2, <3>1
    <3> QED
      BY <1>4, <1>9, <3>2
  <2> QED
    BY <2>3, <2>4
<1>13. \A n \in DOMAIN words : words[n].part = s => words[n] \in Range(t)
  <2> TAKE n \in DOMAIN words
  <2> HAVE words[n].part = s
  <2>1. n \in at
    BY DEF at, words
  <2>2. PICK m \in DOMAIN t : pos[m] = n
    BY <1>8, <2>1 DEF Picks
  <2>3. t[m] = words[n]
    BY <1>8, <2>2 DEF Picks
  <2> QED
    BY <2>3 DEF Range
<1> QED
  BY <1>1, <1>7, <1>12, <1>13 DEF size, words

\* What is made from the structural element i: one chunk, or a table's shards.
ShardOf(doc, i) ==
    {c \in ChunkOf(doc) : /\ c.els = {i} /\ c.kind # "prose" /\ c.pack >= -1
                          /\ c.kind \in {"table_summary", "table_pack"} <=> doc[i].type = "table"
                          /\ c.before = {} /\ c.after = {}}

PacksRise(chunks) == \A m, n \in DOMAIN chunks : m < n => chunks[m].pack < chunks[n].pack

\* A pack is cut to its room.
CutTo(p, room) == [p EXCEPT !.words = SubSeq(@, 1, Min({Len(@), room}))]

LEMMA CutToIs ==
  ASSUME NEW doc, NEW S, NEW p \in PieceOf(doc, S), NEW room \in Nat
  PROVE  /\ CutTo(p, room) \in PieceOf(doc, S) /\ CutTo(p, room).els = p.els
         /\ Len(p.words) <= room => CutTo(p, room).words = p.words
<1> DEFINE n == Min({Len(p.words), room})
<1>1. p.words \in Seq(Word) /\ Len(p.words) \in Nat
  BY DEF PieceOf
<1>2. n \in {Len(p.words), room} /\ n <= Len(p.words) /\ n <= room
  <2>1. {Len(p.words), room} \subseteq Nat /\ {Len(p.words), room} # {}
    BY <1>1
  <2> QED
    BY <2>1, MinIs
<1>3. n \in Nat
  BY <1>1, <1>2
<1> HIDE DEF n
<1>4. SubSeq(p.words, 1, n) \in Seq(Word)
  BY <1>1, <1>2, <1>3, SubSeqIs
<1>5. Len(p.words) <= room => n = Len(p.words)
  BY <1>1, <1>2, <1>3
<1>6. SubSeq(p.words, 1, Len(p.words)) = p.words
  BY <1>1
<1>7. CutTo(p, room) = [p EXCEPT !.words = SubSeq(p.words, 1, n)]
  BY DEF CutTo, n
<1> QED
  BY <1>4, <1>5, <1>6, <1>7 DEF PieceOf

LEMMA TableChunksAre ==
  ASSUME NEW doc \in Seq(Element), NEW i \in Kept(doc, {"table"})
  PROVE  /\ TableChunks(doc, i) \in Seq(ShardOf(doc, i)) /\ PacksRise(TableChunks(doc, i))
         /\ HoldsAll(TableChunks(doc, i), doc, {i}, CaptionCost)
<1> DEFINE path == doc[i].path
           sizes == doc[i].sizes
           pages == doc[i].pages
           room == Limit - PrefixCost(path) - CaptionCost
           rows == [s \in DOMAIN sizes |-> Piece(RowWords(doc, i, s), {i}, pages)]
           packs == Pack(rows, room)
           N == Len(packs)
           first == Chunk("table_summary", Piece(<<>>, {i}, pages), path, -1)
           rest == [k \in DOMAIN packs |-> Chunk("table_pack", CutTo(packs[k], room), path, k - 1)]
           X == PieceOf(doc, {i})
           Y == ShardOf(doc, i)
           chunks == <<first>> \o rest
<1>1. TableChunks(doc, i) = chunks
  BY DEF TableChunks, RowWords, CutTo
<1>2. i \in DOMAIN doc /\ doc[i].type = "table"
  BY DEF Kept
<1>3. path \in Nat /\ pages \subseteq Nat /\ sizes \in Seq(Nat)
  BY <1>2, ElementsAre DEF Element
<1>4. room \in Nat /\ room > 0 /\ room <= Limit - PrefixCost(path) /\ Limit - PrefixCost(path) \in Nat
  BY PrefixFits, ChunkerConstants
<1>5. rows \in Seq(X) /\ DOMAIN rows = DOMAIN sizes /\ Len(rows) = Len(sizes)
  <2>1. ASSUME NEW s \in DOMAIN sizes PROVE Piece(RowWords(doc, i, s), {i}, pages) \in X
    <3>1. RowWords(doc, i, s) \in Seq(Word)
      BY <1>2, RowsAre
    <3> QED
      BY <1>3, <3>1 DEF Piece, PieceOf
  <2>2. Len(sizes) \in Nat /\ DOMAIN sizes = 1..Len(sizes)
    BY <1>3
  <2> HIDE DEF X, sizes
  <2>3. rows = [s \in 1..Len(sizes) |-> rows[s]] /\ \A s \in 1..Len(sizes) : rows[s] \in X
    BY <2>1, <2>2
  <2> HIDE DEF rows
  <2>4. rows \in Seq(X) /\ DOMAIN rows = 1..Len(sizes)
    BY <2>2, <2>3
  <2> QED
    BY <2>2, <2>4
<1>6. JoinClosed(X)
  BY JoinIsPiece DEF JoinClosed, PieceOf
<1>7. \A s \in DOMAIN sizes : rows[s].words = RowWords(doc, i, s)
  BY DEF Piece
<1> HIDE DEF rows, sizes
<1>8. packs \in Seq(X) /\ Carried(rows, packs, room, Len(rows))
  <2> HIDE DEF X
  <2> QED
    BY <1>4, <1>5, <1>6, PackCarries
<1> HIDE DEF packs
<1>9. N \in Nat /\ DOMAIN packs = 1..N /\ \A k \in 1..N : packs[k] \in X
  BY <1>8
<1>10. \A k \in 1..N : /\ CutTo(packs[k], room) \in X /\ CutTo(packs[k], room).els = packs[k].els
                       /\ Len(packs[k].words) <= room => CutTo(packs[k], room).words = packs[k].words
  <2> HIDE DEF room
  <2> TAKE k \in 1..N
  <2> DEFINE p == packs[k]
  <2>1. p \in PieceOf(doc, {i}) /\ room \in Nat
    BY <1>4, <1>9
  <2> HIDE DEF p
  <2>2. /\ CutTo(p, room) \in PieceOf(doc, {i}) /\ CutTo(p, room).els = p.els
        /\ Len(p.words) <= room => CutTo(p, room).words = p.words
    BY <2>1, CutToIs
  <2> QED
    BY <2>2 DEF p
<1>11. first \in Y /\ first.pack = -1 /\ first.els = {i}
  BY <1>2, <1>3 DEF first, Chunk, Piece, ShardOf, ChunkOf
<1>12. ASSUME NEW k \in 1..N
       PROVE  /\ rest[k] \in Y /\ rest[k].pack = k - 1 /\ rest[k].path = path
              /\ rest[k].words = CutTo(packs[k], room).words
  <2>1. rest[k] = Chunk("table_pack", CutTo(packs[k], room), path, k - 1)
    BY <1>9
  <2>2. CutTo(packs[k], room) \in X
    BY <1>10
  <2>3. CutTo(packs[k], room).els = {i}
    BY <2>2 DEF PieceOf
  <2>4. k - 1 \in Int /\ k - 1 >= -1
    BY <1>9
  <2> DEFINE q == CutTo(packs[k], room)
             g == k - 1
  <2>5. q \in X /\ q.els = {i} /\ g \in Int /\ g >= -1 /\ rest[k] = Chunk("table_pack", q, path, g)
    BY <2>1, <2>2, <2>3, <2>4
  <2> HIDE DEF q, g, rest, path
  <2>6. Chunk("table_pack", q, path, g) \in Y
    BY <1>2, <1>3, <2>5 DEF Chunk, PieceOf, ShardOf, ChunkOf
  <2>7. rest[k] \in Y /\ rest[k].pack = g /\ rest[k].path = path /\ rest[k].words = q.words
    BY <2>5, <2>6 DEF Chunk
  <2> QED
    BY <2>7 DEF q, g
<1>13. rest \in Seq(Y) /\ Len(rest) = N
  <2> HIDE DEF Y, N
  <2>1. rest = [k \in 1..N |-> rest[k]]
    BY <1>9
  <2> HIDE DEF rest
  <2> QED
    BY <1>9, <1>12, <2>1
<1> HIDE DEF rest, first, Y, N
<1>14. chunks \in Seq(Y) /\ DOMAIN chunks = 1..(N + 1) /\ chunks[1] = first
       /\ \A k \in 1..N : k + 1 \in DOMAIN chunks /\ chunks[k + 1] = rest[k]
  BY <1>9, <1>11, <1>13
<1> HIDE DEF chunks
<1>15. \A m \in DOMAIN chunks : chunks[m].pack = m - 2
  <2> TAKE m \in DOMAIN chunks
  <2>1. CASE m = 1
    BY <1>11, <1>14, <2>1
  <2>2. CASE m # 1
    <3>1. m - 1 \in 1..N /\ (m - 1) + 1 = m
      BY <1>9, <1>14, <2>2
    <3>2. chunks[m] = rest[m - 1] /\ rest[m - 1].pack = (m - 1) - 1
      BY <1>12, <1>14, <3>1
    <3> QED
      BY <1>9, <3>1, <3>2
  <2> QED
    BY <2>1, <2>2
<1>16. PacksRise(chunks)
  <2>1. \A m \in DOMAIN chunks : m \in Int
    BY <1>14
  <2> QED
    BY <1>15, <2>1 DEF PacksRise
<1>17. ASSUME NEW n \in DOMAIN Words(doc, i), FitsAlone(Words(doc, i)[n], doc, CaptionCost)
       PROVE  Holds(chunks, Words(doc, i)[n])
  <2> DEFINE w == Words(doc, i)[n]
             s == w.part
  <2>1. WordOf(w, doc) /\ w.el = i
    BY <1>2, WordIsOf
  <2>2. s \in DOMAIN sizes /\ SizeOf(w, doc) = sizes[s] /\ sizes[s] <= room
    BY <1>17, <2>1 DEF WordOf, SizeOf, FitsAlone, sizes, room, path
  <2>3. /\ RowWords(doc, i, s) \in Seq(Word) /\ Len(RowWords(doc, i, s)) <= sizes[s]
        /\ w \in Range(RowWords(doc, i, s))
    BY <1>2, <2>2, RowsAre DEF sizes
  <2> HIDE DEF w, s
  <2>4. s \in 1..Len(rows)
    BY <1>3, <1>5, <2>2
  <2>5. PICK m \in DOMAIN packs : /\ packs[m] = rows[s] \/ Len(packs[m].words) <= room
                                  /\ Range(rows[s].words) \subseteq Range(packs[m].words)
    BY <1>8, <2>4 DEF Carried
  <2>6. Len(packs[m].words) <= room
    <3>1. Len(rows[s].words) <= room
      <4>1. rows[s].words = RowWords(doc, i, s)
        BY <1>7, <2>2
      <4>2. Len(RowWords(doc, i, s)) \in Nat /\ sizes[s] \in Nat
        BY <1>3, <2>2, <2>3
      <4> HIDE DEF room
      <4> QED
        BY <1>4, <2>2, <2>3, <4>1, <4>2
    <3> QED
      BY <2>5, <3>1
  <2>7. m \in 1..N /\ m + 1 \in DOMAIN chunks /\ chunks[m + 1] = rest[m]
    BY <1>9, <1>14
  <2>8. chunks[m + 1].words = packs[m].words /\ chunks[m + 1].path = path
    BY <1>10, <1>12, <2>6, <2>7
  <2>9. w \in Range(packs[m].words)
    BY <1>7, <2>2, <2>3, <2>5
  <2>10. Len(packs[m].words) <= Limit - PrefixCost(path)
    <3>1. Len(packs[m].words) \in Nat
      BY <1>9, <2>7 DEF PieceOf
    <3> DEFINE top == Limit - PrefixCost(path)
    <3> HIDE DEF room, path
    <3>2. room \in Nat /\ top \in Nat /\ room <= top
      BY <1>4
    <3> HIDE DEF top
    <3>3. Len(packs[m].words) <= top
      BY <2>6, <3>1, <3>2
    <3> QED
      BY <3>3 DEF top
  <2> QED
    BY <2>7, <2>8, <2>9, <2>10 DEF Holds, w
<1> QED
  BY <1>1, <1>14, <1>16, <1>17 DEF Y, HoldsAll

StructChunk(doc) == UNION {ShardOf(doc, i) : i \in Structural(doc)}

\* Shards of one element follow one another by their packs.
Apart(chunks) ==
    \A m, n \in DOMAIN chunks :
        m < n /\ chunks[m].els = chunks[n].els => chunks[m].pack < chunks[n].pack

ShardsOf(doc, i) ==
    IF doc[i].type = "table" THEN TableChunks(doc, i)
    ELSE <<Chunk(doc[i].type, Unit(doc, i), doc[i].path, -1)>>

LEMMA ShardsAre ==
  ASSUME NEW doc \in Seq(Element), NEW i \in Structural(doc)
  PROVE  ShardsOf(doc, i) \in Seq(ShardOf(doc, i)) /\ PacksRise(ShardsOf(doc, i))
<1>1. i \in DOMAIN doc /\ doc[i].type \in {"table", "figure", "formula"} /\ doc[i].policy = "embed"
  BY DEF Structural, Kept
<1>2. CASE doc[i].type = "table"
  <2>1. i \in Kept(doc, {"table"})
    BY <1>1, <1>2 DEF Kept
  <2> QED
    BY <1>2, <2>1, TableChunksAre DEF ShardsOf
<1>3. CASE doc[i].type # "table"
  <2> DEFINE c == Chunk(doc[i].type, Unit(doc, i), doc[i].path, -1)
  <2>1. Unit(doc, i) \in PieceOf(doc, {i})
    <3>1. {i} \in SUBSET DOMAIN doc /\ i \in {i}
      BY <1>1
    <3>2. Unit(doc, i) \in WholeOf(doc, {i})
      BY <3>1, UnitIsWhole
    <3> QED
      BY <3>2 DEF WholeOf
  <2>2. Unit(doc, i).els = {i}
    BY DEF Unit, Piece
  <2>3. doc[i].path \in Nat
    BY <1>1, ElementsAre
  <2> DEFINE p == Unit(doc, i)
             path == doc[i].path
             kind == doc[i].type
  <2>4. p \in PieceOf(doc, {i}) /\ p.els = {i} /\ path \in Nat /\ kind \in {"figure", "formula"}
    BY <1>1, <1>3, <2>1, <2>2, <2>3
  <2> HIDE DEF p, path
  <2>5. Chunk(kind, p, path, -1) \in ShardOf(doc, i)
    BY <1>1, <1>3, <2>4 DEF Chunk, PieceOf, ShardOf, ChunkOf
  <2>6. c \in ShardOf(doc, i)
    BY <2>5 DEF p, path
  <2>7. ShardsOf(doc, i) = <<c>>
    BY <1>3 DEF ShardsOf
  <2> HIDE DEF c
  <2> QED
    BY <2>6, <2>7 DEF PacksRise
<1> QED
  BY <1>2, <1>3

LEMMA StructuralChunksAre ==
  ASSUME NEW doc \in Seq(Element)
  PROVE  /\ StructuralChunks(doc) \in Seq(StructChunk(doc)) /\ Apart(StructuralChunks(doc))
         /\ HoldsAll(StructuralChunks(doc), doc, Kept(doc, {"table"}), CaptionCost)
<1> DEFINE jobs == Ascending(Structural(doc))
           N == Len(jobs)
           s == [k \in DOMAIN jobs |-> ShardsOf(doc, jobs[k])]
           X == StructChunk(doc)
           flat == FlattenSeq(s)
<1>1. /\ jobs \in Seq(Structural(doc))
      /\ \A m, n \in DOMAIN jobs : m < n => jobs[m] < jobs[n]
      /\ \A x \in Structural(doc) : \E k \in DOMAIN jobs : jobs[k] = x
  <2>1. Structural(doc) \in SUBSET DOMAIN doc
    BY DEF Structural, Kept
  <2>2. IsFiniteSet(Structural(doc)) /\ Structural(doc) \subseteq Int
    BY <2>1, ElementsAre
  <2> QED
    BY <2>2, AscendingLists
<1>2. N \in Nat /\ DOMAIN jobs = 1..N /\ \A k \in 1..N : jobs[k] \in Structural(doc) /\ jobs[k] \in Int
  <2>1. Structural(doc) \subseteq Int
    <3>1. Structural(doc) \in SUBSET DOMAIN doc
      BY DEF Structural, Kept
    <3> QED
      BY <3>1, ElementsAre
  <2> HIDE DEF jobs
  <2> QED
    BY <1>1, <2>1
<1>3. StructuralChunks(doc) = flat
  BY DEF StructuralChunks, ShardsOf, Structural
<1> HIDE DEF jobs, N
<1>4. \A k \in 1..N : /\ ShardsOf(doc, jobs[k]) \in Seq(ShardOf(doc, jobs[k]))
                      /\ PacksRise(ShardsOf(doc, jobs[k]))
  BY <1>2, ShardsAre
<1>5. ASSUME NEW k \in 1..N PROVE ShardsOf(doc, jobs[k]) \in Seq(X)
  <2>1. ShardOf(doc, jobs[k]) \subseteq X
    BY <1>2 DEF StructChunk
  <2> HIDE DEF X
  <2> QED
    BY <1>4, <2>1
<1>6. s \in [1..N -> Seq(X)] /\ \A k \in 1..N : s[k] = ShardsOf(doc, jobs[k])
  BY <1>2, <1>5
<1> HIDE DEF s, X
<1>7. flat \in Seq(X) /\ HasAll(flat, s, N)
  BY <1>2, <1>6, FlattenMembers
<1>8. PICK row, col : Lays(flat, row, col, s, N)
  BY <1>2, <1>6, FlattenLays
<1>9. Apart(flat)
  <2> SUFFICES ASSUME NEW m \in DOMAIN flat, NEW n \in DOMAIN flat, m < n,
                      flat[m].els = flat[n].els
               PROVE  flat[m].pack < flat[n].pack
    BY DEF Apart
  <2>1. \A k \in DOMAIN flat : /\ row[k] \in 1..N /\ col[k] \in DOMAIN s[row[k]]
                               /\ flat[k] = s[row[k]][col[k]]
    BY <1>8 DEF Lays
  <2>2. \A k \in DOMAIN flat : flat[k].els = {jobs[row[k]]}
    <3> TAKE k \in DOMAIN flat
    <3>1. s[row[k]] \in Seq(ShardOf(doc, jobs[row[k]]))
      BY <1>4, <1>6, <2>1
    <3>2. flat[k] \in ShardOf(doc, jobs[row[k]])
      BY <2>1, <3>1
    <3> QED
      BY <3>2 DEF ShardOf
  <2>3. row[m] < row[n] \/ (row[m] = row[n] /\ col[m] < col[n])
    BY <1>8 DEF Lays
  <2>4. CASE row[m] < row[n]
    <3>1. jobs[row[m]] = jobs[row[n]]
      BY <2>2
    <3>2. jobs[row[m]] < jobs[row[n]]
      BY <1>1, <1>2, <2>1, <2>4
    <3> QED
      BY <1>2, <2>1, <3>1, <3>2
  <2>5. CASE row[m] = row[n] /\ col[m] < col[n]
    <3>1. PacksRise(s[row[n]])
      BY <1>4, <1>6, <2>1
    <3> QED
      BY <2>1, <2>5, <3>1 DEF PacksRise
  <2> QED
    BY <2>3, <2>4, <2>5
<1>10. ASSUME NEW j \in Kept(doc, {"table"}), NEW n \in DOMAIN Words(doc, j),
              FitsAlone(Words(doc, j)[n], doc, CaptionCost)
       PROVE  Holds(flat, Words(doc, j)[n])
  <2>1. j \in Structural(doc) /\ doc[j].type = "table"
    BY DEF Structural, Kept
  <2>2. PICK k \in 1..N : jobs[k] = j
    BY <1>1, <1>2, <2>1
  <2>3. s[k] = TableChunks(doc, j)
    BY <1>6, <2>1, <2>2 DEF ShardsOf
  <2>4. Holds(TableChunks(doc, j), Words(doc, j)[n])
    BY <1>10, TableChunksAre DEF HoldsAll
  <2> HIDE DEF flat
  <2> QED
    BY <1>7, <2>3, <2>4, HeldByAll
<1> QED
  BY <1>3, <1>7, <1>9, <1>10 DEF HoldsAll, X

(***************************************************************************)
(* Reading order                                                           *)
(***************************************************************************)
\* A sort loses nothing and doubles nothing.
LEMMA InOrderLength ==
  ASSUME NEW S, IsFiniteSet(S), NEW R, IsOrder(R, S)
  PROVE  Len(InOrder(S, R)) = Cardinality(S)
<1> DEFINE t == InOrder(S, R)
           L == Len(t)
<1>1. t \in Seq(S) /\ Lists(t, S, R)
  BY InOrderLists
<1> HIDE DEF t
<1>2. L \in Nat /\ DOMAIN t = 1..L /\ t \in [1..L -> S]
  BY <1>1
<1>3. ASSUME NEW a \in 1..L, NEW b \in 1..L, t[a] = t[b] PROVE a = b
  <2>1. a < b => R[<<t[a], t[b]>>]
    BY <1>1, <1>2 DEF Lists, InLine
  <2>2. b < a => R[<<t[b], t[a]>>]
    BY <1>1, <1>2 DEF Lists, InLine
  <2>3. ~R[<<t[a], t[b]>>] /\ ~R[<<t[b], t[a]>>]
    BY <1>2, <1>3 DEF IsOrder
  <2> QED
    BY <1>2, <2>1, <2>2, <2>3
<1>4. \A x \in S : \E k \in 1..L : t[k] = x
  BY <1>1, <1>2 DEF Lists
<1> HIDE DEF L
<1>5. t \in Bijection(1..L, S)
  BY <1>2, <1>3, <1>4 DEF Bijection, Injection, Surjection, IsInjective
<1>6. Cardinality(S) = L
  BY <1>2, <1>5, FS_CountingElements DEF ExistsBijection
<1> QED
  BY <1>6 DEF L, t

Raw(doc) == ProseChunk(doc) \cup StructChunk(doc)

\* Where a chunk is anchored, and what sorts it.
LEMMA RawIs ==
  ASSUME NEW doc \in Seq(Element), NEW c \in Raw(doc)
  PROVE  /\ c \in ChunkOf(doc) /\ Anchor(c) \in c.els /\ Anchor(c) \in Nat /\ Anchor(c) > 0
         /\ c.pack \in Int /\ SortKey(c) \in Int
         /\ c.kind = "prose" => /\ c.pack = -1 /\ SortKey(c) = Anchor(c)
                                /\ Anchor(c) \in Prose(doc) /\ c \in ProseChunk(doc)
         /\ c.kind # "prose" =>
               /\ c.els = {Anchor(c)} /\ Anchor(c) \in Structural(doc) /\ c.pack >= -1
               /\ SortKey(c) = IF Anchor(c) = 1 THEN 1 ELSE Anchor(c) - 1
               /\ c \in ShardOf(doc, Anchor(c)) /\ c \in StructChunk(doc)
<1>1. c \in ChunkOf(doc) /\ c.els \in SUBSET DOMAIN doc /\ c.els # {} /\ c.pack \in Int
  BY DEF Raw, ProseChunk, StructChunk, ShardOf, ChunkOf
<1>2. DOMAIN doc \subseteq Nat /\ \A i \in DOMAIN doc : i > 0
  BY ElementsAre
<1>3. Anchor(c) \in c.els
  BY <1>1, <1>2, MinIs DEF Anchor
<1>4. Anchor(c) \in Nat /\ Anchor(c) > 0
  BY <1>1, <1>2, <1>3
<1>5. SortKey(c) = IF c.kind = "prose" \/ Anchor(c) = 1 THEN Anchor(c) ELSE Anchor(c) - 1
  BY DEF SortKey, Anchor
<1>6. CASE c.kind = "prose"
  <2>1. c \in ProseChunk(doc)
    BY <1>6 DEF Raw, StructChunk, ShardOf
  <2>2. c.pack = -1 /\ c.els \subseteq Prose(doc)
    BY <2>1 DEF ProseChunk
  <2> QED
    BY <1>1, <1>3, <1>4, <1>5, <1>6, <2>1, <2>2
<1>7. CASE c.kind # "prose"
  <2>1. c \in StructChunk(doc)
    BY <1>7 DEF Raw, ProseChunk
  <2>2. PICK i \in Structural(doc) : c \in ShardOf(doc, i)
    BY <2>1 DEF StructChunk
  <2>3. c.els = {i} /\ c.pack >= -1
    BY <2>2 DEF ShardOf
  <2>4. Anchor(c) = i
    BY <1>3, <2>3
  <2> QED
    BY <1>1, <1>3, <1>4, <1>5, <1>7, <2>1, <2>2, <2>3, <2>4
<1> QED
  BY <1>6, <1>7

LEMMA ProseIsNotStructural ==
  ASSUME NEW doc
  PROVE  Prose(doc) \cap Structural(doc) = {}
BY DEF Prose, Structural, Kept

\* The chunks stand in reading order: prose by its anchor, a table's shards by
\* their packs, and prose beside what it surrounds.
InReadingOrder(chunks) ==
    \A m, n \in DOMAIN chunks : m < n =>
        /\ chunks[m].kind = "prose" /\ chunks[n].kind = "prose" => Anchor(chunks[m]) <= Anchor(chunks[n])
        /\ (chunks[m].kind = "prose") # (chunks[n].kind = "prose") => Anchor(chunks[m]) < Anchor(chunks[n])
        /\ chunks[m].kind # "prose" /\ chunks[m].els = chunks[n].els => chunks[m].pack < chunks[n].pack

HasEvery(chunks, s) == \A k \in DOMAIN s : \E n \in DOMAIN chunks : chunks[n] = s[k]

\* MergeByReadingOrder's order of the places of "all".
Sooner(all, a, b) ==
    \/ SortKey(all[a]) < SortKey(all[b])
    \/ /\ SortKey(all[a]) = SortKey(all[b])
       /\ \/ all[a].pack < all[b].pack
          \/ all[a].pack = all[b].pack /\ a < b

LEMMA SoonerIsOrder ==
  ASSUME NEW all, NEW S, S \subseteq Int,
         \A k \in S : SortKey(all[k]) \in Int /\ all[k].pack \in Int
  PROVE  IsOrder([p \in S \X S |-> Sooner(all, p[1], p[2])], S)
<1> DEFINE R == [p \in S \X S |-> Sooner(all, p[1], p[2])]
<1>1. \A x, y \in S : R[<<x, y>>] <=> Sooner(all, x, y)
  OBVIOUS
<1> HIDE DEF R
<1>2. \A x \in S : ~Sooner(all, x, x)
  BY DEF Sooner
<1>3. \A x, y \in S : x # y => Sooner(all, x, y) \/ Sooner(all, y, x)
  BY DEF Sooner
<1>4. \A x, y, z \in S : Sooner(all, x, y) /\ Sooner(all, y, z) => Sooner(all, x, z)
  BY DEF Sooner
<1>5. IsOrder(R, S)
  BY <1>1, <1>2, <1>3, <1>4 DEF IsOrder
<1> QED
  BY <1>5 DEF R

LEMMA MergeIs ==
  ASSUME NEW doc \in Seq(Element), NEW prose \in Seq(ProseChunk(doc)),
         NEW structural \in Seq(StructChunk(doc)), Apart(structural),
         NEW merged, merged = MergeByReadingOrder(prose, structural)
  PROVE  /\ merged \in Seq(Raw(doc)) /\ InReadingOrder(merged)
         /\ HasEvery(merged, prose) /\ HasEvery(merged, structural)
<1> DEFINE all == prose \o structural
           P == Len(prose)
           L == Len(all)
           D == 1..L
           R == [p \in D \X D |-> Sooner(all, p[1], p[2])]
           order == InOrder(D, R)
           X == Raw(doc)
<1>1. prose \in Seq(X) /\ structural \in Seq(X)
  <2>1. ProseChunk(doc) \subseteq X /\ StructChunk(doc) \subseteq X
    BY DEF Raw
  <2> HIDE DEF X
  <2> QED
    BY <2>1
<1> HIDE DEF X
<1>2. /\ all \in Seq(X) /\ P \in Nat /\ L \in Nat /\ L = P + Len(structural) /\ Len(structural) \in Nat
      /\ DOMAIN all = D /\ P <= L
  BY <1>1
<1>3. \A k \in D : all[k] = IF k <= P THEN prose[k] ELSE structural[k - P]
  BY <1>1, <1>2
<1>4. \A k \in D : IF k <= P THEN all[k].kind = "prose"
                   ELSE k - P \in DOMAIN structural /\ all[k].kind # "prose"
  <2> TAKE k \in D
  <2>1. CASE k <= P
    <3>1. k \in DOMAIN prose
      BY <1>2, <2>1
    <3>2. all[k] \in ProseChunk(doc)
      BY <1>3, <2>1, <3>1
    <3> QED
      BY <2>1, <3>2 DEF ProseChunk
  <2>2. CASE ~(k <= P)
    <3>1. k - P \in DOMAIN structural
      BY <1>2, <2>2
    <3>2. all[k] \in StructChunk(doc)
      BY <1>3, <2>2, <3>1
    <3> QED
      BY <2>2, <3>1, <3>2 DEF StructChunk, ShardOf
  <2> QED
    BY <2>1, <2>2
<1>5. merged = [k \in D |-> all[order[k]]]
  BY <1>2 DEF MergeByReadingOrder, Sorted, Sooner
<1> HIDE DEF all, L
<1>6. \A k \in D : all[k] \in X
  BY <1>2
<1>7. \A k \in D : SortKey(all[k]) \in Int /\ all[k].pack \in Int
  BY <1>6, RawIs DEF X
<1>8. IsFiniteSet(D) /\ Cardinality(D) = L
  <2>1. 1 \in Int /\ L \in Int
    BY <1>2
  <2> QED
    BY <1>2, <2>1, FS_Interval
<1>9. IsOrder(R, D)
  <2>1. D \subseteq Int
    OBVIOUS
  <2> HIDE DEF D
  <2> QED
    BY <1>7, <2>1, SoonerIsOrder
<1>10. \A x, y \in D : R[<<x, y>>] <=> Sooner(all, x, y)
  OBVIOUS
<1> HIDE DEF R
<1>11. order \in Seq(D) /\ Lists(order, D, R) /\ Len(order) = L
  <2> HIDE DEF D
  <2> QED
    BY <1>8, <1>9, InOrderLists, InOrderLength
<1> HIDE DEF order
<1>12. DOMAIN order = D /\ \A k \in D : order[k] \in D
  BY <1>11
<1>13. /\ \A x \in D : \E k \in D : order[k] = x
       /\ \A m, n \in D : m < n => Sooner(all, order[m], order[n])
  BY <1>10, <1>11, <1>12 DEF Lists, InLine
<1>14. DOMAIN merged = D /\ \A k \in D : merged[k] = all[order[k]] /\ merged[k] \in X
  BY <1>5, <1>6, <1>12
<1>15. merged \in Seq(X)
  <2>1. merged = [k \in 1..L |-> merged[k]]
    BY <1>5, <1>14
  <2> QED
    BY <1>2, <1>14, <2>1
<1>16. \A x \in D : \E k \in D : merged[k] = all[x]
  BY <1>13, <1>14
<1>17. HasEvery(merged, prose)
  <2> SUFFICES ASSUME NEW k \in DOMAIN prose PROVE \E n \in DOMAIN merged : merged[n] = prose[k]
    BY DEF HasEvery
  <2>1. k \in D /\ k <= P
    BY <1>2
  <2> QED
    BY <1>3, <1>14, <1>16, <2>1
<1>18. HasEvery(merged, structural)
  <2> SUFFICES ASSUME NEW k \in DOMAIN structural
               PROVE  \E n \in DOMAIN merged : merged[n] = structural[k]
    BY DEF HasEvery
  <2>1. k + P \in D /\ ~(k + P <= P) /\ (k + P) - P = k
    BY <1>2
  <2> HIDE DEF P, D
  <2>2. all[k + P] = structural[k]
    BY <1>3, <2>1
  <2> QED
    BY <1>14, <1>16, <2>1, <2>2
<1>19. InReadingOrder(merged)
  <2> SUFFICES ASSUME NEW m \in D, NEW n \in D, m < n, NEW a, NEW b, a = merged[m], b = merged[n]
               PROVE  /\ a.kind = "prose" /\ b.kind = "prose" => Anchor(a) <= Anchor(b)
                      /\ (a.kind = "prose") # (b.kind = "prose") => Anchor(a) < Anchor(b)
                      /\ a.kind # "prose" /\ a.els = b.els => a.pack < b.pack
    BY <1>14 DEF InReadingOrder
  <2> DEFINE p == order[m]
             q == order[n]
  <2>1. a \in Raw(doc) /\ b \in Raw(doc) /\ a = all[p] /\ b = all[q] /\ p \in D /\ q \in D
    BY <1>12, <1>14 DEF X
  <2>2. Sooner(all, p, q)
    BY <1>13
  <2> HIDE DEF p, q
  <2>3. \/ SortKey(a) < SortKey(b)
        \/ SortKey(a) = SortKey(b) /\ a.pack < b.pack
        \/ SortKey(a) = SortKey(b) /\ a.pack = b.pack /\ p < q
    BY <2>1, <2>2 DEF Sooner
  <2>4. /\ Anchor(a) \in Nat /\ Anchor(b) \in Nat /\ Anchor(a) > 0 /\ Anchor(b) > 0
        /\ a.pack \in Int /\ b.pack \in Int /\ Anchor(a) \in a.els /\ Anchor(b) \in b.els
    BY <2>1, RawIs
  <2>5. a.kind = "prose" => SortKey(a) = Anchor(a) /\ a.pack = -1 /\ Anchor(a) \in Prose(doc)
    BY <2>1, RawIs
  <2>6. b.kind = "prose" => SortKey(b) = Anchor(b) /\ b.pack = -1 /\ Anchor(b) \in Prose(doc)
    BY <2>1, RawIs
  <2>7. a.kind # "prose" => /\ a.els = {Anchor(a)} /\ Anchor(a) \in Structural(doc) /\ a.pack >= -1
                            /\ SortKey(a) = IF Anchor(a) = 1 THEN 1 ELSE Anchor(a) - 1
    BY <2>1, RawIs
  <2>8. b.kind # "prose" => /\ b.els = {Anchor(b)} /\ Anchor(b) \in Structural(doc) /\ b.pack >= -1
                            /\ SortKey(b) = IF Anchor(b) = 1 THEN 1 ELSE Anchor(b) - 1
    BY <2>1, RawIs
  <2>9. (a.kind = "prose") # (b.kind = "prose") => Anchor(a) # Anchor(b)
    BY <2>5, <2>6, <2>7, <2>8, ProseIsNotStructural
  <2>10. /\ a.kind = "prose" <=> p <= P
         /\ b.kind = "prose" <=> q <= P
    BY <1>4, <2>1
  <2>11. p \in Int /\ q \in Int
    BY <2>1
  <2>12. a.kind # "prose" /\ b.kind = "prose" => ~(p < q)
    BY <1>2, <2>10, <2>11
  <2>13. ASSUME a.kind = "prose", b.kind = "prose" PROVE Anchor(a) <= Anchor(b)
    BY <2>3, <2>4, <2>5, <2>6, <2>13
  <2>14. ASSUME a.kind = "prose", b.kind # "prose" PROVE Anchor(a) < Anchor(b)
    BY <2>3, <2>4, <2>5, <2>8, <2>9, <2>14
  <2>15. ASSUME a.kind # "prose", b.kind = "prose" PROVE Anchor(a) < Anchor(b)
    <3>1. ~(a.pack < b.pack)
      BY <2>4, <2>6, <2>7, <2>15
    <3>2. SortKey(a) < SortKey(b)
      BY <2>3, <2>12, <2>15, <3>1
    <3>3. SortKey(b) = Anchor(b) /\ SortKey(a) = IF Anchor(a) = 1 THEN 1 ELSE Anchor(a) - 1
      BY <2>6, <2>7, <2>15
    <3> QED
      BY <2>4, <2>9, <2>15, <3>2, <3>3
  <2>16. ASSUME a.kind # "prose", a.els = b.els PROVE a.pack < b.pack
    <3>1. b.kind # "prose"
      BY <2>4, <2>6, <2>7, <2>16, ProseIsNotStructural
    <3>2. Anchor(a) = Anchor(b)
      BY <2>16 DEF Anchor
    <3>3. SortKey(a) = SortKey(b)
      BY <2>7, <2>8, <2>16, <3>1, <3>2
    <3>4. a.pack < b.pack \/ (a.pack = b.pack /\ p < q)
      <4>1. SortKey(a) \in Int
        BY <2>1, RawIs
      <4> QED
        BY <2>3, <3>3, <4>1
    <3>5. ASSUME a.pack = b.pack, p < q PROVE FALSE
      <4>1. ~(p <= P) /\ ~(q <= P)
        BY <2>10, <2>16, <3>1
      <4>2. /\ p - P \in DOMAIN structural /\ q - P \in DOMAIN structural
            /\ structural[p - P] = a /\ structural[q - P] = b
        BY <1>3, <1>4, <2>1, <4>1
      <4>3. p - P < q - P
        BY <1>2, <2>11, <3>5
      <4>4. a.pack < b.pack
        BY <2>16, <4>2, <4>3 DEF Apart
      <4> QED
        BY <2>4, <3>5, <4>4
    <3> QED
      BY <3>4, <3>5
  <2> QED
    BY <2>13, <2>14, <2>15, <2>16
<1> QED
  BY <1>15, <1>17, <1>18, <1>19 DEF X

(***************************************************************************)
(* A document's chunks                                                     *)
(***************************************************************************)
ProseIn(chunks) == {k \in DOMAIN chunks : chunks[k].kind = "prose"}
Ahead(chunks, k) == {p \in ProseIn(chunks) : Anchor(chunks[p]) < Anchor(chunks[k])}
Behind(chunks, k) == {p \in ProseIn(chunks) : Anchor(chunks[p]) > Anchor(chunks[k])}

\* Tables and figures are shown with the prose nearest to them.
Surrounded(chunks) ==
    \A k \in DOMAIN chunks :
        IF chunks[k].kind \in {"table_summary", "table_pack", "figure"}
        THEN /\ chunks[k].before = LastOf(Ahead(chunks, k), chunks)
             /\ chunks[k].after = FirstOf(Behind(chunks, k), chunks)
        ELSE chunks[k].before = {} /\ chunks[k].after = {}

\* What is made of each chunk when neighbors are bound and texts truncated.
Finished(chunks, raw) ==
    /\ DOMAIN chunks = DOMAIN raw
    /\ \A k \in DOMAIN raw :
          /\ chunks[k].kind = raw[k].kind /\ chunks[k].els = raw[k].els
          /\ chunks[k].pages = raw[k].pages /\ chunks[k].path = raw[k].path
          /\ chunks[k].pack = raw[k].pack

LEMMA NearestAreSame ==
  ASSUME NEW chunks, NEW raw, Finished(chunks, raw), NEW S, S \subseteq DOMAIN raw
  PROVE  LastOf(S, chunks) = LastOf(S, raw) /\ FirstOf(S, chunks) = FirstOf(S, raw)
<1>1. \A p, q \in S : Earlier(chunks, p, q) <=> Earlier(raw, p, q)
  <2>1. \A p \in S : Anchor(chunks[p]) = Anchor(raw[p])
    BY DEF Finished, Anchor
  <2> QED
    BY <2>1 DEF Earlier
<1>2. \A p \in S : {q \in S : Earlier(chunks, p, q)} = {q \in S : Earlier(raw, p, q)}
  BY <1>1
<1>3. \A p \in S : {q \in S : Earlier(chunks, q, p)} = {q \in S : Earlier(raw, q, p)}
  BY <1>1
<1>4. LastOf(S, chunks) = LastOf(S, raw)
  BY <1>2 DEF LastOf
<1>5. FirstOf(S, chunks) = FirstOf(S, raw)
  BY <1>3 DEF FirstOf
<1> QED
  BY <1>4, <1>5

LEMMA BoundIs ==
  ASSUME NEW raw
  PROVE  /\ DOMAIN BindNeighbors(raw) = DOMAIN raw
         /\ \A k \in DOMAIN raw : BindNeighbors(raw)[k] =
                IF raw[k].kind \notin {"table_summary", "table_pack", "figure"} THEN raw[k]
                ELSE [raw[k] EXCEPT !.before = LastOf(Ahead(raw, k), raw),
                                    !.after = FirstOf(Behind(raw, k), raw)]
BY DEF BindNeighbors, Bound, Ahead, Behind, ProseIn

LEMMA TruncatedIs ==
  ASSUME NEW doc, NEW c \in ChunkOf(doc)
  PROVE  /\ Truncated(c) \in ChunkOf(doc)
         /\ Truncated(c) = [c EXCEPT !.words = Truncated(c).words]
         /\ Len(c.words) <= Limit - PrefixCost(c.path) => Truncated(c) = c
<1> DEFINE room == Limit - PrefixCost(c.path)
           cut == SubSeq(c.words, 1, room)
<1>1. room \in Nat /\ room > 0 /\ Slack \in Nat
  BY PrefixFits, ChunkerConstants
<1>2. c.words \in Seq(Word) /\ Len(c.words) \in Nat
  BY DEF ChunkOf
<1>3. Truncated(c) = IF Len(c.words) > room + Slack THEN [c EXCEPT !.words = cut] ELSE c
  BY DEF Truncated
<1> HIDE DEF room
<1>4. Len(c.words) > room + Slack => cut \in Seq(Word)
  <2> HAVE Len(c.words) > room + Slack
  <2>1. 1 \in Nat /\ 1 > 0 /\ room <= Len(c.words) /\ 1 <= room + 1
    BY <1>1, <1>2
  <2> QED
    BY <1>1, <1>2, <2>1, SubSeqIs
<1> HIDE DEF cut
<1>5. CASE Len(c.words) > room + Slack
  <2>1. Truncated(c) = [c EXCEPT !.words = cut]
    BY <1>3, <1>5
  <2>2. Truncated(c) \in ChunkOf(doc) /\ Truncated(c).words = cut
    BY <1>4, <1>5, <2>1 DEF ChunkOf
  <2>3. ~(Len(c.words) <= room)
    BY <1>1, <1>2, <1>5
  <2> QED
    BY <2>1, <2>2, <2>3 DEF room
<1>6. CASE ~(Len(c.words) > room + Slack)
  <2>1. c = [c EXCEPT !.words = c.words]
    BY DEF ChunkOf
  <2> QED
    BY <1>3, <1>6, <2>1
<1> QED
  BY <1>5, <1>6

\* Shards of a table, a figure and a formula are of one element, which tells
\* tables from the rest.
OfOneElement(c, doc) ==
    c.kind # "prose" =>
        /\ c.els = {Anchor(c)} /\ Anchor(c) \in DOMAIN doc
        /\ c.kind \in {"table_summary", "table_pack"} <=> doc[Anchor(c)].type = "table"

LEMMA HeldAfterMerge ==
  ASSUME NEW merged, NEW s, HasEvery(merged, s), NEW doc, NEW S, NEW extra, HoldsAll(s, doc, S, extra)
  PROVE  HoldsAll(merged, doc, S, extra)
<1> SUFFICES ASSUME NEW w, Holds(s, w) PROVE Holds(merged, w)
  BY DEF HoldsAll
<1>1. PICK k \in DOMAIN s : /\ w \in Range(s[k].words)
                            /\ Len(s[k].words) <= Limit - PrefixCost(s[k].path)
  BY DEF Holds
<1>2. PICK n \in DOMAIN merged : merged[n] = s[k]
  BY DEF HasEvery
<1> QED
  BY <1>1, <1>2 DEF Holds

\* What chunk_ordered_document promises for any document: its chunks are of the
\* document and in reading order, neighbors are the nearest, and no word that
\* fits a chunk is lost.
LEMMA ChunkDocumentIs ==
  ASSUME NEW doc \in Seq(Element), NEW chunks, chunks = ChunkDocument(doc)
  PROVE  /\ chunks \in Seq(ChunkOf(doc))
         /\ InReadingOrder(chunks) /\ Surrounded(chunks)
         /\ \A k \in DOMAIN chunks : OfOneElement(chunks[k], doc)
         /\ HoldsAll(chunks, doc, Prose(doc), 0)
         /\ HoldsAll(chunks, doc, Kept(doc, {"table"}), CaptionCost)
<1> DEFINE prose == ProseChunks(doc)
           structural == StructuralChunks(doc)
           raw == MergeByReadingOrder(prose, structural)
           bound == BindNeighbors(raw)
           L == Len(raw)
           D == 1..L
           X == ChunkOf(doc)
<1>1. /\ prose \in Seq(ProseChunk(doc)) /\ HoldsAll(prose, doc, Prose(doc), 0)
      /\ structural \in Seq(StructChunk(doc)) /\ Apart(structural)
      /\ HoldsAll(structural, doc, Kept(doc, {"table"}), CaptionCost)
  BY ProseChunksAre, StructuralChunksAre
<1>2. chunks = [k \in DOMAIN bound |-> Truncated(bound[k])]
  BY DEF ChunkDocument
<1> HIDE DEF prose, structural
<1>3. /\ raw \in Seq(Raw(doc)) /\ InReadingOrder(raw)
      /\ HasEvery(raw, prose) /\ HasEvery(raw, structural)
  BY <1>1, MergeIs
<1> HIDE DEF raw
<1>4. L \in Nat /\ DOMAIN raw = D /\ \A k \in D : raw[k] \in Raw(doc)
  BY <1>3
<1>5. /\ HoldsAll(raw, doc, Prose(doc), 0)
      /\ HoldsAll(raw, doc, Kept(doc, {"table"}), CaptionCost)
  BY <1>1, <1>3, HeldAfterMerge
<1>6. \A k \in D : /\ raw[k] \in X /\ raw[k].before = {} /\ raw[k].after = {}
                   /\ OfOneElement(raw[k], doc)
  <2> TAKE k \in D
  <2>1. raw[k] \in Raw(doc) /\ raw[k] \in X
    BY <1>4, RawIs
  <2>2. CASE raw[k].kind = "prose"
    <3>1. raw[k] \in ProseChunk(doc)
      BY <2>1, <2>2, RawIs
    <3> QED
      BY <2>1, <2>2, <3>1 DEF ProseChunk, OfOneElement
  <2>3. CASE raw[k].kind # "prose"
    <3> DEFINE i == Anchor(raw[k])
    <3>1. i \in Structural(doc) /\ raw[k].els = {i} /\ raw[k] \in ShardOf(doc, i)
      BY <2>1, <2>3, RawIs
    <3> HIDE DEF i
    <3>2. i \in DOMAIN doc
      BY <3>1 DEF Structural, Kept
    <3>3. /\ raw[k].before = {} /\ raw[k].after = {}
          /\ raw[k].kind \in {"table_summary", "table_pack"} <=> doc[i].type = "table"
      BY <3>1 DEF ShardOf
    <3> QED
      BY <2>1, <3>1, <3>2, <3>3 DEF OfOneElement, i
  <2> QED
    BY <2>2, <2>3
<1>7. /\ DOMAIN bound = D
      /\ \A k \in D : bound[k] = IF raw[k].kind \notin {"table_summary", "table_pack", "figure"} THEN raw[k]
                                 ELSE [raw[k] EXCEPT !.before = LastOf(Ahead(raw, k), raw),
                                                     !.after = FirstOf(Behind(raw, k), raw)]
  BY <1>4, BoundIs
<1> HIDE DEF bound
<1>8. \A k \in D : /\ Ahead(raw, k) \subseteq D /\ Behind(raw, k) \subseteq D
                   /\ LastOf(Ahead(raw, k), raw) \subseteq Nat /\ FirstOf(Behind(raw, k), raw) \subseteq Nat
  <2> TAKE k \in D
  <2>1. Ahead(raw, k) \subseteq D /\ Behind(raw, k) \subseteq D
    BY <1>4 DEF Ahead, Behind, ProseIn
  <2>2. LastOf(Ahead(raw, k), raw) \subseteq D /\ FirstOf(Behind(raw, k), raw) \subseteq D
    BY <2>1 DEF LastOf, FirstOf
  <2> QED
    BY <2>1, <2>2
<1> HIDE DEF L, D
<1>9. ASSUME NEW k \in D
      PROVE  /\ bound[k] \in X
             /\ bound[k] = [raw[k] EXCEPT !.before = bound[k].before, !.after = bound[k].after]
             /\ IF raw[k].kind \in {"table_summary", "table_pack", "figure"}
                THEN /\ bound[k].before = LastOf(Ahead(raw, k), raw)
                     /\ bound[k].after = FirstOf(Behind(raw, k), raw)
                ELSE bound[k].before = {} /\ bound[k].after = {}
  <2> DEFINE r == raw[k]
             before == LastOf(Ahead(raw, k), raw)
             after == FirstOf(Behind(raw, k), raw)
  <2>1. r \in X /\ before \subseteq Nat /\ after \subseteq Nat /\ r.before = {} /\ r.after = {}
    BY <1>6, <1>8
  <2>2. bound[k] = IF r.kind \notin {"table_summary", "table_pack", "figure"} THEN r
                   ELSE [r EXCEPT !.before = before, !.after = after]
    BY <1>7
  <2> HIDE DEF r, before, after
  <2>3. /\ bound[k] \in X
        /\ bound[k] = [r EXCEPT !.before = bound[k].before, !.after = bound[k].after]
        /\ IF r.kind \in {"table_summary", "table_pack", "figure"}
           THEN bound[k].before = before /\ bound[k].after = after
           ELSE bound[k].before = {} /\ bound[k].after = {}
    BY <2>1, <2>2 DEF ChunkOf
  <2> QED
    BY <2>3 DEF r, before, after
<1>10. DOMAIN chunks = D /\ \A k \in D : chunks[k] = Truncated(bound[k])
  BY <1>2, <1>7
<1>11. ASSUME NEW k \in D
       PROVE  /\ chunks[k] \in X /\ chunks[k] = [bound[k] EXCEPT !.words = chunks[k].words]
              /\ Len(bound[k].words) <= Limit - PrefixCost(bound[k].path) => chunks[k] = bound[k]
  <2> DEFINE b == bound[k]
  <2>1. b \in ChunkOf(doc) /\ chunks[k] = Truncated(b)
    BY <1>9, <1>10
  <2> HIDE DEF b
  <2>2. /\ chunks[k] \in ChunkOf(doc) /\ chunks[k] = [b EXCEPT !.words = chunks[k].words]
        /\ Len(b.words) <= Limit - PrefixCost(b.path) => chunks[k] = b
    BY <2>1, TruncatedIs
  <2> QED
    BY <2>2 DEF b
<1>12. ASSUME NEW k \in D
       PROVE  /\ chunks[k].kind = raw[k].kind /\ chunks[k].els = raw[k].els
              /\ chunks[k].pages = raw[k].pages /\ chunks[k].path = raw[k].path
              /\ chunks[k].pack = raw[k].pack
              /\ chunks[k].before = bound[k].before /\ chunks[k].after = bound[k].after
              /\ bound[k].words = raw[k].words /\ bound[k].path = raw[k].path
  <2> DEFINE r == raw[k]
             b == bound[k]
             c == chunks[k]
  <2>1. /\ r \in X /\ b \in X /\ c \in X
        /\ b = [r EXCEPT !.before = b.before, !.after = b.after] /\ c = [b EXCEPT !.words = c.words]
    BY <1>6, <1>9, <1>11
  <2> HIDE DEF r, b, c
  <2>2. b.kind = r.kind /\ b.els = r.els /\ b.pages = r.pages /\ b.path = r.path /\ b.pack = r.pack
        /\ b.words = r.words
    BY <2>1 DEF ChunkOf
  <2>3. c.kind = b.kind /\ c.els = b.els /\ c.pages = b.pages /\ c.path = b.path /\ c.pack = b.pack
        /\ c.before = b.before /\ c.after = b.after
    BY <2>1 DEF ChunkOf
  <2> QED
    BY <2>2, <2>3 DEF r, b, c
<1>13. Finished(chunks, raw)
  BY <1>4, <1>10, <1>12 DEF Finished
<1>14. \A k \in D : Anchor(chunks[k]) = Anchor(raw[k])
  BY <1>12 DEF Anchor
<1>15. chunks \in Seq(X)
  <2>1. chunks = [k \in 1..L |-> chunks[k]] /\ L \in Nat
    BY <1>2, <1>4, <1>7, <1>10 DEF D
  <2>2. \A k \in 1..L : chunks[k] \in X
    BY <1>11 DEF D
  <2> HIDE DEF X
  <2> QED
    BY <2>1, <2>2
<1>16. InReadingOrder(chunks)
  BY <1>3, <1>4, <1>10, <1>12, <1>14 DEF InReadingOrder
<1>17. \A k \in D : OfOneElement(chunks[k], doc)
  BY <1>6, <1>12, <1>14 DEF OfOneElement
<1>18. Surrounded(chunks)
  <2> SUFFICES ASSUME NEW k \in D
               PROVE  IF chunks[k].kind \in {"table_summary", "table_pack", "figure"}
                      THEN /\ chunks[k].before = LastOf(Ahead(chunks, k), chunks)
                           /\ chunks[k].after = FirstOf(Behind(chunks, k), chunks)
                      ELSE chunks[k].before = {} /\ chunks[k].after = {}
    BY <1>10 DEF Surrounded
  <2>1. ProseIn(chunks) = ProseIn(raw) /\ ProseIn(raw) \subseteq D
    BY <1>4, <1>10, <1>12 DEF ProseIn
  <2>2. Ahead(chunks, k) = Ahead(raw, k) /\ Behind(chunks, k) = Behind(raw, k)
    BY <1>14, <2>1 DEF Ahead, Behind
  <2>3. Ahead(raw, k) \subseteq DOMAIN raw /\ Behind(raw, k) \subseteq DOMAIN raw
    BY <1>4, <1>8
  <2>4. /\ LastOf(Ahead(chunks, k), chunks) = LastOf(Ahead(raw, k), raw)
        /\ FirstOf(Behind(chunks, k), chunks) = FirstOf(Behind(raw, k), raw)
    BY <1>13, <2>2, <2>3, NearestAreSame
  <2> QED
    BY <1>9, <1>12, <2>4
<1>19. ASSUME NEW w, Holds(raw, w) PROVE Holds(chunks, w)
  <2>1. PICK k \in D : /\ w \in Range(raw[k].words)
                       /\ Len(raw[k].words) <= Limit - PrefixCost(raw[k].path)
    BY <1>4, <1>19 DEF Holds
  <2>2. Len(bound[k].words) <= Limit - PrefixCost(bound[k].path)
    BY <1>12, <2>1
  <2>3. chunks[k].words = raw[k].words /\ chunks[k].path = raw[k].path
    BY <1>11, <1>12, <2>2
  <2> QED
    BY <1>10, <2>1, <2>3 DEF Holds
<1> QED
  BY <1>5, <1>10, <1>15, <1>16, <1>17, <1>18, <1>19 DEF HoldsAll, X

=============================================================================
