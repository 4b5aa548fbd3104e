-------------------------- MODULE MCIdleScheduler --------------------------
(* An IMAP account and a POP account, and a message that may come to each. *)
EXTENDS IdleScheduler

CONSTANTS p1, i1

HomeDef == (i1 :> 1) @@ (p1 :> 2)
=============================================================================
