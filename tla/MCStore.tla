------------------------------ MODULE MCStore ------------------------------
(* Instances of Store for TLC. *)
EXTENDS Store, TLC

Symmetry == Permutations(Names) \cup Permutations(Folders) \cup Permutations(Msgs)
=============================================================================
