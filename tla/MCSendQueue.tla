---------------------------- MODULE MCSendQueue ----------------------------
(* Small instances of SendQueue: Tagged are queued for account 1.          *)
EXTENDS SendQueue

CONSTANT Tagged

ASSUME TaggedAssumption == Tagged \subseteq Msgs

FromDef == [m \in Msgs |-> IF m \in Tagged THEN 1 ELSE 0]
=============================================================================
