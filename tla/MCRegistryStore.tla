-------------------------- MODULE MCRegistryStore --------------------------
(* Instances of RegistryStore for TLC. *)
EXTENDS RegistryStore, TLC

Symmetry == Permutations(Process) \cup Permutations(Format)

=============================================================================
