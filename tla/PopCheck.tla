------------------------------ MODULE PopCheck ------------------------------
(***************************************************************************)
(* Checking a POP account: macmbx_mailer_check_account downloads the       *)
(* maildrop of a server into the In mailbox (macmbx/macmbx_mailer.c, over  *)
(* crispy/crispy_pop3.c), leaving the mail on the server and noting what   *)
(* it has seen in the LMOS file, or deleting it there.                     *)
(*                                                                         *)
(* Three things survive a crash: the mbox file of In, its .toc file and    *)
(* the LMOS file; the server keeps its maildrop and carries out deletions  *)
(* only when QUIT reaches it.  A check changes them one after the other,   *)
(* so each change is a step of its own and the connection may break, the   *)
(* program may die and the user may work on In between any two of them.    *)
(*                                                                         *)
(* In is modelled message by message (Mailbox has the file in detail): the *)
(* .toc file is valid exactly when it was saved after the last append, and *)
(* a rebuild keeps the summaries that were saved and reads the others from *)
(* the mbox file, which is the only time msg_id_hash is computed.          *)
(***************************************************************************)
EXTENDS Integers, Sequences, FiniteSets, SequencesExt, Subsequences

CONSTANTS Msgs,        \* messages that may reach the server, with one UIDL each
          Id,          \* message -> its Message-ID, or NoId
          NoId,
          DiskFaults,  \* may the disk refuse an append or an LMOS mark?
          MaxEvents    \* bound on faults, marks of the user and changes of the
                       \* leave-on-server setting together

ASSUME FlagAssumption  == DiskFaults \in BOOLEAN
ASSUME BoundAssumption == MaxEvents \in Nat

VARIABLES drop,       \* external: the maildrop, in the server's order
          list,       \* the messages of this session, by number
          dele,       \* external: messages marked deleted in this session
          up,         \* the connection works
          leave,      \* use_lmos of this session, or of the last one
          uidl,       \* UIDL was answered in this session
          pc, i,      \* where the check is, number of the message
          open,       \* In is in the registry
          toc,        \* its table: [msg, hashed, deleted]
          file,       \* its mbox file
          saved,      \* its .toc file
          lmos,       \* the LMOS file
          faults,     \* crashes, broken connections and refusals so far
          clean,      \* history: none of them in this session
          marks,      \* marks set and taken back so far
          changes,    \* changes of the setting between checks so far
          arrived,    \* history: messages that have reached the server
          compacted,  \* history: messages a compaction has dropped
          refused     \* history: messages the disk refused in a session that deletes

server == <<drop, dele>>
inbox  == <<open, toc, file, saved>>
check  == <<list, up, uidl, pc, i>>
setting == <<leave, changes, marks>>
hist   == <<arrived, compacted, refused>>
vars   == <<server, inbox, check, lmos, faults, clean, setting, hist>>

Entry == [msg : Msgs, hashed : BOOLEAN, deleted : BOOLEAN]

TypeOK ==
    /\ drop \in Seq(Msgs) /\ IsInjective(drop)
    /\ list \in Seq(Msgs)
    /\ dele \subseteq ToSet(list)
    /\ up \in BOOLEAN /\ uidl \in BOOLEAN
    /\ pc \in {"idle", "fetch", "mark", "dele", "save"}
    /\ i \in 1 .. Len(list) + 1
    /\ open \in BOOLEAN
    /\ toc \in Seq(Entry) /\ saved \in Seq(Entry)
    /\ file \in Seq(Msgs)
    /\ lmos \subseteq Msgs
    /\ faults \in 0 .. MaxEvents
    /\ clean \in BOOLEAN
    /\ marks \in 0 .. MaxEvents
    /\ arrived \subseteq Msgs
    /\ compacted \subseteq arrived /\ refused \subseteq arrived
    /\ leave \in BOOLEAN /\ changes \in 0 .. MaxEvents
    \* a check works on an open mailbox, and the table of an open mailbox has
    \* a summary for every message of the mbox file
    /\ pc # "idle" => open
    /\ pc = "idle" => clean /\ list = <<>> /\ dele = {} /\ ~up
    /\ open => [k \in DOMAIN toc |-> toc[k].msg] = file

Init ==
    /\ drop = <<>> /\ dele = {}
    /\ open = FALSE /\ toc = <<>> /\ file = <<>> /\ saved = <<>>
    /\ list = <<>> /\ up = FALSE /\ uidl = FALSE /\ pc = "idle" /\ i = 1
    /\ lmos = {} /\ faults = 0 /\ clean = TRUE
    /\ leave \in BOOLEAN /\ changes = 0 /\ marks = 0
    /\ arrived = {} /\ compacted = {} /\ refused = {}

Events == faults + changes + marks
Fault  == Events < MaxEvents /\ faults' = faults + 1 /\ clean' = FALSE
NoFault == UNCHANGED <<faults, clean>>

\* No check is going on: its locals are gone.
NoCheck ==
    /\ list' = <<>> /\ up' = FALSE /\ uidl' = FALSE /\ pc' = "idle" /\ i' = 1
    /\ clean' = TRUE

-----------------------------------------------------------------------------
(* The In mailbox                                                          *)

\* macmbx_toc_rebuild reads message m from the mbox file: it computes the hash,
\* and a saved summary with that hash lends it its flags.
Rebuilt(m) ==
    LET same == {j \in DOMAIN saved : saved[j].hashed /\ Id[saved[j].msg] = Id[m]}
    IN  [msg     |-> m,
         hashed  |-> TRUE,
         deleted |-> Id[m] # NoId /\ \E j \in same : saved[j].deleted /\ \A k \in same : j <= k]

\* Mutant: the .toc file is taken as it is (macmbx.c:425 is dropped).
OpenedUnchecked == IF open THEN toc ELSE saved

\* macmbx_toc_open: the table of the registry, the .toc file if it is valid,
\* or a rebuild of it.
Opened ==
    IF open THEN toc
    ELSE saved \o [k \in 1 .. Len(file) - Len(saved) |-> Rebuilt(file[Len(saved) + k])]

\* macmbx_is_duplicate: a summary that is not deleted has the hash of the
\* Message-ID; messages without one are never duplicates.
IsDuplicate(m) ==
    /\ Id[m] # NoId
    /\ \E k \in DOMAIN toc : toc[k].hashed /\ ~toc[k].deleted /\ Id[toc[k].msg] = Id[m]

-----------------------------------------------------------------------------
(* The check                                                               *)

\* A message reaches the server.
Receive(m) ==
    /\ m \notin arrived
    /\ drop' = Append(drop, m)
    /\ arrived' = arrived \cup {m}
    /\ UNCHANGED <<dele, inbox, check, lmos, faults, clean, setting, compacted, refused>>

\* connect_pop3, STAT and, to leave mail on the server, crispy_pop3_list; then
\* macmbx_toc_open.  With an empty maildrop or no connection nothing happens.
\* A server may not know UIDL: the check goes on without unique ids.
StartCheck ==
    /\ pc = "idle"
    /\ drop # <<>>
    /\ leave' \in BOOLEAN
    /\ changes' = IF leave' = leave THEN changes ELSE changes + 1
    /\ faults + changes' + marks <= MaxEvents
    /\ list' = drop /\ dele' = {} /\ up' = TRUE
    /\ \/ uidl' = leave' /\ NoFault
       \/ leave' /\ uidl' = FALSE /\ Fault
    /\ pc' = "fetch" /\ i' = 1
    /\ open' = TRUE /\ toc' = Opened
    /\ UNCHANGED <<drop, file, saved, lmos, marks, hist>>

cur == list[i]
Fetching == pc = "fetch" /\ i <= Len(list)
NextMessage == pc' = "fetch" /\ i' = i + 1 /\ UNCHANGED <<list, up, uidl>>

\* Mutant: as many messages as were ever seen are skipped, from the first one.
SkipSeenByCount ==
    /\ Fetching
    /\ uidl /\ (cur \in lmos \/ i <= Cardinality(lmos))
    /\ NextMessage
    /\ UNCHANGED <<server, inbox, lmos, setting, hist>> /\ NoFault

\* Already in the LMOS file.
SkipSeen ==
    /\ Fetching
    /\ uidl /\ cur \in lmos
    /\ NextMessage
    /\ UNCHANGED <<server, inbox, lmos, setting, hist>> /\ NoFault

Unseen == ~(uidl /\ cur \in lmos)

\* Mutant: the failed RETR is tried again.
RetrRetried ==
    /\ Fetching /\ Unseen
    /\ IF up THEN Fault ELSE NoFault
    /\ UNCHANGED <<server, check, inbox, lmos, setting, hist>>

\* Mutant: a failed RETR skips the append and not the rest of the turn.
RetrFailsThenDele ==
    /\ Fetching /\ Unseen
    /\ IF up THEN Fault ELSE NoFault
    /\ IF leave THEN NextMessage ELSE pc' = "dele" /\ UNCHANGED <<list, up, uidl, i>>
    /\ UNCHANGED <<server, inbox, lmos, setting, hist>>

\* RETR fails, or its answer breaks off: the message is skipped.
RetrFails ==
    /\ Fetching /\ Unseen
    /\ IF up THEN Fault ELSE NoFault
    /\ NextMessage
    /\ UNCHANGED <<server, inbox, lmos, setting, hist>>

\* Downloaded, and In has its Message-ID: noted as seen, and never deleted
\* from the server.
SkipDuplicate ==
    /\ Fetching /\ Unseen /\ up
    /\ IsDuplicate(cur)
    /\ lmos' = IF uidl THEN lmos \cup {cur} ELSE lmos
    /\ NextMessage
    /\ UNCHANGED <<server, inbox, setting, hist>> /\ NoFault

\* Where the loop goes after macmbx_append_message.
AfterAppend(appended) ==
    IF ~leave THEN /\ pc' = "dele"
                  /\ UNCHANGED <<list, up, uidl, i>>
    ELSE IF uidl /\ appended THEN /\ pc' = "mark"
                                  /\ UNCHANGED <<list, up, uidl, i>>
    ELSE NextMessage

\* Downloaded and appended to the mbox file.  The summary has no msg_id_hash.
Download ==
    /\ Fetching /\ Unseen /\ up
    /\ ~IsDuplicate(cur)
    /\ file' = Append(file, cur)
    /\ toc' = Append(toc, [msg |-> cur, hashed |-> FALSE, deleted |-> FALSE])
    /\ AfterAppend(TRUE)
    /\ UNCHANGED <<server, open, saved, lmos, setting, hist>> /\ NoFault

\* Downloaded, but the mbox file cannot be opened for append.
AppendFails ==
    /\ DiskFaults
    /\ Fetching /\ Unseen /\ up
    /\ ~IsDuplicate(cur)
    /\ Fault
    /\ AfterAppend(FALSE)
    /\ refused' = IF leave THEN refused ELSE refused \cup {cur}
    /\ UNCHANGED <<server, inbox, lmos, setting, arrived, compacted>>

\* macmbx_mailer_lmos_mark.
Mark ==
    /\ pc = "mark"
    /\ lmos' = lmos \cup {cur}
    /\ NextMessage
    /\ UNCHANGED <<server, inbox, setting, hist>> /\ NoFault

MarkFails ==
    /\ DiskFaults
    /\ pc = "mark"
    /\ Fault
    /\ NextMessage
    /\ UNCHANGED <<server, inbox, lmos, setting, hist>>

\* crispy_pop3_dele, whose result is ignored.
Dele ==
    /\ pc = "dele"
    /\ dele' = IF up THEN dele \cup {cur} ELSE dele
    /\ NextMessage
    /\ UNCHANGED <<drop, inbox, lmos, setting, hist>> /\ NoFault

\* Mutant: the connection is closed without QUIT.
QuitUnsent ==
    /\ pc = "fetch" /\ i > Len(list)
    /\ dele' = {} /\ up' = FALSE
    /\ pc' = "save"
    /\ UNCHANGED <<drop, list, uidl, i, inbox, lmos, setting, hist>> /\ NoFault

\* crispy_pop3_close: if QUIT reaches the server, it deletes what was marked.
Quit ==
    /\ pc = "fetch" /\ i > Len(list)
    /\ IF up THEN drop' = Kept(drop, {k \in DOMAIN drop : drop[k] \notin dele})
             ELSE drop' = drop
    /\ dele' = {} /\ up' = FALSE
    /\ pc' = "save"
    /\ UNCHANGED <<list, uidl, i, inbox, lmos, setting, hist>> /\ NoFault

\* The macmbx_toc_save that ends the check.
SaveToc ==
    /\ pc = "save"
    /\ saved' = toc
    /\ NoCheck
    /\ UNCHANGED <<server, open, toc, file, lmos, faults, setting, hist>>

-----------------------------------------------------------------------------
(* Everything else                                                         *)

\* The connection breaks: the server forgets the session's deletions.
LoseConnection ==
    /\ up
    /\ up' = FALSE /\ dele' = {}
    /\ Fault
    /\ UNCHANGED <<drop, list, uidl, pc, i, inbox, lmos, setting, hist>>

\* The program dies or is quit; nothing saves the tables on the way out.
Crash ==
    /\ open
    /\ open' = FALSE /\ toc' = <<>>
    /\ dele' = {}
    /\ Events < MaxEvents /\ faults' = faults + 1
    /\ NoCheck
    /\ UNCHANGED <<drop, file, saved, lmos, setting, hist>>

\* The user marks a message in In, or takes the mark back.
Flag(k, deleted) ==
    /\ open
    /\ toc[k].deleted # deleted
    /\ Events < MaxEvents /\ marks' = marks + 1
    /\ toc' = [toc EXCEPT ![k].deleted = deleted]
    /\ UNCHANGED <<server, open, file, saved, check, lmos, leave, changes, hist>> /\ NoFault

\* The window of In saves its table, whatever the check is doing.
Save ==
    /\ open
    /\ saved' = toc
    /\ UNCHANGED <<server, open, toc, file, check, lmos, setting, hist>> /\ NoFault

\* macmbx_compact of In.
Compact ==
    /\ open
    /\ \E k \in DOMAIN toc : toc[k].deleted
    /\ toc' = Kept(toc, {k \in DOMAIN toc : ~toc[k].deleted})
    /\ file' = [k \in DOMAIN toc' |-> toc'[k].msg]
    /\ saved' = toc'
    /\ compacted' = compacted \cup {toc[k].msg : k \in {n \in DOMAIN toc : toc[n].deleted}}
    /\ UNCHANGED <<server, open, check, lmos, setting, arrived, refused>> /\ NoFault

CheckStep ==
    \/ SkipSeen \/ RetrFails \/ SkipDuplicate \/ Download \/ AppendFails
    \/ Mark \/ MarkFails \/ Dele \/ Quit \/ SaveToc

Next ==
    \/ \E n \in Msgs : Receive(n)
    \/ StartCheck \/ CheckStep
    \/ LoseConnection \/ Crash
    \/ \E k \in DOMAIN toc, deleted \in BOOLEAN : Flag(k, deleted)
    \/ Save \/ Compact

\* The thread of a check is scheduled until it ends.
Spec == Init /\ [][Next]_vars /\ WF_vars(CheckStep)

-----------------------------------------------------------------------------
(* Properties                                                              *)

SameMail(n, p) == n = p \/ (Id[n] # NoId /\ Id[n] = Id[p])

\* The mail of n is in In, or was until the user had it compacted away.
Received(n) == \E p \in ToSet(file) \cup compacted : SameMail(n, p)

\* Mail is never lost between the server and In: what is neither received nor
\* gone for good will be downloaded by the next check, since it is still on
\* the server and not in the LMOS file.  Append, mark, DELE and QUIT are in
\* this order in the loop for that reason.
NothingLost ==
    \A n \in arrived \ refused : Received(n) \/ (n \in ToSet(drop) /\ ~(leave /\ n \in lmos))

\* A message comes twice only through a fault: each further copy of it in the
\* mbox file costs a crash, a broken connection, a refusal or a change of the
\* leave-on-server setting.
Copies(n) == Cardinality({k \in DOMAIN file : file[k] = n})
RedeliveryNeedsFault == \A n \in Msgs : Copies(n) <= 1 + faults + changes

\* A check without a fault receives everything it listed, whatever earlier
\* checks left behind in In, in the LMOS file and on the server, and whatever
\* the user does to In meanwhile.
CleanCheckReceivesAll ==
    [][pc = "save" /\ SaveToc /\ clean => \A k \in DOMAIN list : Received(list[k])]_vars

\* A check ends: the loop goes on when the connection is gone.
CheckEnds == pc # "idle" ~> pc = "idle"

=============================================================================
