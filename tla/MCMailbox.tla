------------------------------ MODULE MCMailbox ------------------------------
(* Small instances of Mailbox.  All sizes are given by the cfg through     *)
(* Short and Long: two messages of one length are what offsets and lengths *)
(* alone cannot tell apart.                                                *)
EXTENDS Mailbox, TLC

CONSTANTS Short, Long   \* the messages of three and of four cells

ASSUME ShapeAssumption == Msgs = Short \cup Long

SizeDef == [m \in Short |-> 3] @@ [m \in Long |-> 4]

\* Messages of one length are interchangeable when all of them have a Message-ID
\* or none has.
Symmetry == Permutations(Short)
=============================================================================
