---------------------------- MODULE MessageStore ----------------------------
(***************************************************************************)
(* What a mailbox promises to the rest of the program, with no file, no    *)
(* offset and no table of contents in it.  Mailbox implements it.          *)
(*                                                                         *)
(* A message is stored the moment it is delivered and leaves only by an    *)
(* expunge that finds it marked deleted.  Marks live in memory; saving     *)
(* makes them durable, and a mailbox that is opened again shows, message   *)
(* by message, the saved mark or none.                                     *)
(***************************************************************************)
CONSTANTS Msgs, Closed

VARIABLES stored,   \* the messages in the mailbox
          view,     \* open: message -> is it marked deleted
          saved     \* the view that was last made durable

vars == <<stored, view, saved>>

Init ==
    /\ stored = {}
    /\ view = Closed
    /\ saved = [m \in {} |-> FALSE]

\* A mark that was never saved may be lost, none is made up.
Open ==
    /\ view = Closed
    /\ view' \in [stored -> BOOLEAN]
    /\ \A m \in stored : view'[m] => m \in DOMAIN saved /\ saved[m]
    /\ UNCHANGED <<stored, saved>>

\* With or without a save, on purpose or in a crash.
Close ==
    /\ view # Closed
    /\ view' = Closed
    /\ saved' \in {saved, view}
    /\ UNCHANGED stored

Deliver(m) ==
    /\ view # Closed
    /\ m \notin stored
    /\ stored' = stored \cup {m}
    /\ view' = [n \in stored' |-> IF n = m THEN FALSE ELSE view[n]]
    /\ UNCHANGED saved

Mark(m, deleted) ==
    /\ view # Closed
    /\ m \in stored
    /\ view' = [view EXCEPT ![m] = deleted]
    /\ UNCHANGED <<stored, saved>>

Expunge ==
    /\ view # Closed
    /\ stored' = {m \in stored : ~view[m]}
    /\ view' = [m \in stored' |-> FALSE]
    /\ UNCHANGED saved

Save ==
    /\ view # Closed
    /\ saved' = view
    /\ UNCHANGED <<stored, view>>

Next ==
    \/ Open \/ Close \/ Save \/ Expunge
    \/ \E m \in Msgs : Deliver(m)
    \/ \E m \in Msgs, deleted \in BOOLEAN : Mark(m, deleted)

Spec == Init /\ [][Next]_vars
=============================================================================
