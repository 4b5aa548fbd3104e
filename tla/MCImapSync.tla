----------------------------- MODULE MCImapSync -----------------------------
(* Small instances of ImapSync: messages of one account or of two.         *)
EXTENDS ImapSync, TLC
CONSTANTS r1, r2, l1
OneHome  == [m \in Remote |-> 1]
TwoHomes == [m \in Remote |-> IF m = r1 THEN 1 ELSE 2]
Symmetry == Permutations(Remote)
=============================================================================
