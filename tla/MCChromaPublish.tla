-------------------------- MODULE MCChromaPublish --------------------------
(* Instances of ChromaPublish for TLC. *)
EXTENDS ChromaPublish, TLC

Symmetric == Permutations(Version) \cup Permutations(Reader)

=============================================================================
