---------------------------- MODULE MCIngestion ----------------------------
(* Instances of Ingestion for TLC. *)
EXTENDS Ingestion, TLC

\* Contents that the number of chunks cannot tell apart, and contents it can.
SameCount == [r \in Rev |-> 1]
OwnCount == [r \in Rev |-> r]
\* The first content is all headings: the chunker makes nothing of it.
FirstEmpty == [r \in Rev |-> r - 1]

Symmetric == Permutations(Doc) \cup Permutations(Job) \cup Permutations(Req)

=============================================================================
