----------------------------- MODULE MCPopCheck -----------------------------
(* Small instances of PopCheck: Twins share a Message-ID, Plain have none. *)
EXTENDS PopCheck

CONSTANTS Twins, Plain

ASSUME KindAssumption == Msgs = Twins \cup Plain

IdDef == [n \in Msgs |-> IF n \in Plain THEN NoId ELSE CHOOSE t \in Twins : TRUE]
=============================================================================
