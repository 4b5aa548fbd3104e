----------------------------- MODULE MCMboxLock -----------------------------
(* Small instance of MboxLock: processes are interchangeable.              *)
EXTENDS MboxLock, TLC

Symmetry == Permutations(Procs) \cup Permutations(Inodes)
=============================================================================
