----------------------------- MODULE SendQueue -----------------------------
(***************************************************************************)
(* Sending the queue: macmbx_mailer_queue puts a message into the Out      *)
(* mailbox, a request wakes the idle scheduler, and the thread it starts   *)
(* runs macmbx_mailer_send, which takes the accounts one after the other   *)
(* and hands every queued message to the SMTP server                       *)
(* (macmbx/macmbx_mailer.c, crispy/crispy_smtp.c, src/idle_scheduler.c).   *)
(*                                                                         *)
(* The main thread goes on queueing, cancelling and flagging in Out while  *)
(* the sender waits for a server or writes the .toc file.  What it writes  *)
(* is the table as it was when the writing began, and a save that finds    *)
(* another one under way (being_written) gives up.                         *)
(*                                                                         *)
(* Out only grows here: nothing in the program compacts or sorts it.  Its  *)
(* .toc file is valid exactly when it covers the mbox file; otherwise a    *)
(* rebuild keeps the saved summaries and makes the others UNREAD.          *)
(***************************************************************************)
EXTENDS Integers, Sequences, FiniteSets, SequencesExt

CONSTANTS Msgs,       \* messages the user writes
          Accts,      \* accounts are 0 .. Accts, 0 is the dominant one
          From,       \* message -> the account it is queued for
          MaxFaults,  \* bound on crashes, refusals and broken connections
          MaxMarks    \* bound on messages the user cancels or flags

ASSUME AccountAssumption == Accts \in Nat /\ From \in [Msgs -> 0 .. Accts]
ASSUME BoundAssumption   == MaxFaults \in Nat /\ MaxMarks \in Nat

VARIABLES out,        \* the table of Out: [msg, state, deleted, pers]
          file,       \* its mbox file
          saved,      \* its .toc file
          ui,         \* the main thread inside macmbx_mailer_queue_as
          need_send,  \* a send was requested
          pc, acct, i, up,  \* the sender, its account, message and connection
          image,      \* the summaries macmbx_toc_save is writing
          accepted,   \* external: how often a server took the message
          faults,     \* faults so far
          queued,     \* history: messages macmbx_mailer_queue returned for
          recorded,   \* history: those its macmbx_toc_save has written
          withdrawn   \* history: messages the user cancelled or flagged

disk   == <<file, saved>>
sender == <<pc, acct, i, up, image>>
hist   == <<queued, recorded, withdrawn>>
vars   == <<out, disk, ui, need_send, sender, accepted, faults, hist>>

Entry == [msg : Msgs, state : {"QUEUED", "SENT", "READ", "UNREAD"},
          deleted : BOOLEAN, pers : 0 .. Accts]

TypeOK ==
    /\ out \in Seq(Entry) /\ saved \in Seq(Entry) /\ image \in Seq(Entry)
    /\ file \in Seq(Msgs) /\ IsInjective(file)
    /\ ui \in {"idle", "save", "tag"}
    /\ need_send \in BOOLEAN /\ up \in BOOLEAN
    /\ pc \in {"idle", "account", "loop", "reply", "save"}
    /\ acct \in 0 .. Accts
    /\ i \in 0 .. Len(out) + 1
    /\ accepted \in [Msgs -> Nat]
    /\ faults \in 0 .. MaxFaults
    /\ recorded \subseteq queued /\ queued \subseteq ToSet(file)
    /\ withdrawn \subseteq ToSet(file) /\ Cardinality(withdrawn) <= MaxMarks
    \* the table covers the mbox file, and what is saved is a part of it
    /\ [k \in DOMAIN out |-> out[k].msg] = file
    /\ Len(saved) <= Len(file)
    /\ pc = "reply" => i \in DOMAIN out

Init ==
    /\ out = <<>> /\ file = <<>> /\ saved = <<>> /\ ui = "idle"
    /\ need_send = FALSE
    /\ pc = "idle" /\ acct = 0 /\ i = 0 /\ up = FALSE /\ image = <<>>
    /\ accepted = [m \in Msgs |-> 0]
    /\ faults = 0
    /\ queued = {} /\ recorded = {} /\ withdrawn = {}

Fault   == faults < MaxFaults /\ faults' = faults + 1
NoFault == UNCHANGED faults

-----------------------------------------------------------------------------
(* The main thread                                                         *)

\* toc->being_written: the sender is inside macmbx_toc_save.
BeingWritten == pc = "save"

\* macmbx_mailer_queue: macmbx_append_message.
Queue(m) ==
    /\ ui = "idle"
    /\ m \notin ToSet(file)
    /\ file' = Append(file, m)
    /\ out' = Append(out, [msg |-> m, state |-> "QUEUED", deleted |-> FALSE, pers |-> 0])
    /\ ui' = "save"
    /\ UNCHANGED <<saved, need_send, sender, accepted, hist>> /\ NoFault

\* macmbx_mailer_queue: its macmbx_toc_save, and the return.  A save that
\* gives up is not noticed.
QueueSave ==
    /\ ui = "save"
    /\ saved' = IF BeingWritten THEN saved ELSE out
    /\ queued' = queued \cup {Last(file)}
    /\ recorded' = IF BeingWritten THEN recorded ELSE recorded \cup {Last(file)}
    /\ ui' = IF From[Last(file)] = 0 THEN "idle" ELSE "tag"
    /\ UNCHANGED <<out, file, need_send, sender, accepted, withdrawn>> /\ NoFault

\* macmbx_mailer_queue_as: macmbx_tag_sending_personality, which nothing saves.
QueueTag ==
    /\ ui = "tag"
    /\ out' = [out EXCEPT ![Len(out)].pers = From[Last(file)]]
    /\ ui' = "idle"
    /\ UNCHANGED <<disk, need_send, sender, accepted, hist>> /\ NoFault

\* idle_scheduler_request_send, while online.
RequestSend ==
    /\ ui = "idle"
    /\ ~need_send
    /\ need_send' = TRUE
    /\ UNCHANGED <<out, disk, ui, sender, accepted, hist>> /\ NoFault

\* macmbx_mailer_cancel, or a status chosen in the menu of the list; either
\* is followed by macmbx_toc_save.
Withdraw(k) ==
    /\ ui = "idle"
    /\ Cardinality(withdrawn \cup {out[k].msg}) <= MaxMarks
    /\ \/ out' = [out EXCEPT ![k].deleted = TRUE]
       \/ out' = [out EXCEPT ![k].state = "READ"]
    /\ saved' = IF BeingWritten THEN saved ELSE out'
    /\ withdrawn' = withdrawn \cup {out[k].msg}
    /\ UNCHANGED <<file, ui, need_send, sender, accepted, queued, recorded>> /\ NoFault

-----------------------------------------------------------------------------
(* The sender                                                              *)

\* process_send, called by idle_scheduler_tick.
SendStart ==
    /\ need_send
    /\ pc = "idle"
    /\ need_send' = FALSE
    /\ pc' = "account" /\ acct' = 0
    /\ UNCHANGED <<out, disk, ui, i, up, image, accepted, hist>> /\ NoFault

\* Mutant: the hash of the dominant account's name is compared too, and no
\* message without a tag has it (macmbx_mailer.c:426).
EligibleByTag(k) ==
    /\ out[k].state = "QUEUED"
    /\ ~out[k].deleted
    /\ acct # 0 /\ out[k].pers = acct

\* The three tests of both loops of macmbx_mailer_send_account.  The dominant
\* account has no personality hash and passes over no message.
Eligible(k) ==
    /\ out[k].state = "QUEUED"
    /\ ~out[k].deleted
    /\ acct # 0 => out[k].pers = acct

\* The loop of macmbx_mailer_send; after the last account the thread ends and
\* clears send_in_progress.
NextAccount ==
    /\ IF acct < Accts THEN pc' = "account" /\ acct' = acct + 1
                       ELSE pc' = "idle" /\ acct' = 0
    /\ i' = 0 /\ up' = FALSE /\ image' = <<>>

NoneQueued ==
    /\ pc = "account"
    /\ ~\E k \in DOMAIN out : Eligible(k)
    /\ NextAccount
    /\ UNCHANGED <<out, disk, ui, need_send, accepted, hist>> /\ NoFault

ConnectFails ==
    /\ pc = "account"
    /\ \E k \in DOMAIN out : Eligible(k)
    /\ Fault
    /\ NextAccount
    /\ UNCHANGED <<out, disk, ui, need_send, accepted, hist>>

Connect ==
    /\ pc = "account"
    /\ \E k \in DOMAIN out : Eligible(k)
    /\ pc' = "loop" /\ i' = 1 /\ up' = TRUE
    /\ UNCHANGED <<out, disk, ui, need_send, acct, image, accepted, hist>> /\ NoFault

Skip ==
    /\ pc = "loop" /\ i \in DOMAIN out
    /\ ~Eligible(i)
    /\ i' = i + 1
    /\ UNCHANGED <<out, disk, ui, need_send, pc, acct, up, image, accepted, hist>> /\ NoFault

\* crispy_smtp_send up to the end of DATA: the server has the message.
Transmit ==
    /\ pc = "loop" /\ i \in DOMAIN out
    /\ Eligible(i) /\ up
    /\ accepted' = [accepted EXCEPT ![out[i].msg] = @ + 1]
    /\ pc' = "reply"
    /\ UNCHANGED <<out, disk, ui, need_send, acct, i, up, image, hist>> /\ NoFault

\* Mutant: the result of crispy_smtp_send is not looked at.
SendFailsUnnoticed ==
    /\ pc = "loop" /\ i \in DOMAIN out
    /\ Eligible(i)
    /\ IF up THEN Fault /\ up' \in BOOLEAN ELSE NoFault /\ UNCHANGED up
    /\ out' = [out EXCEPT ![i].state = "SENT"]
    /\ i' = i + 1
    /\ UNCHANGED <<disk, ui, need_send, pc, acct, image, accepted, hist>>

\* The message cannot be read, is refused, or the connection breaks before the
\* end of DATA or has broken before: the message stays queued.
SendFails ==
    /\ pc = "loop" /\ i \in DOMAIN out
    /\ Eligible(i)
    /\ IF up THEN Fault /\ up' \in BOOLEAN ELSE NoFault /\ UNCHANGED up
    /\ i' = i + 1
    /\ UNCHANGED <<out, disk, ui, need_send, pc, acct, image, accepted, hist>>

\* Mutant: the state stays QUEUED.
MarkSentForgotten ==
    /\ pc = "reply"
    /\ pc' = "loop" /\ i' = i + 1
    /\ UNCHANGED <<out, disk, ui, need_send, acct, up, image, accepted, hist>> /\ NoFault

\* The reply to the end of DATA arrives.
MarkSent ==
    /\ pc = "reply"
    /\ out' = [out EXCEPT ![i].state = "SENT"]
    /\ pc' = "loop" /\ i' = i + 1
    /\ UNCHANGED <<disk, ui, need_send, acct, up, image, accepted, hist>> /\ NoFault

\* The reply is lost with the connection: the message stays queued.
ReplyLost ==
    /\ pc = "reply"
    /\ Fault
    /\ up' = FALSE
    /\ pc' = "loop" /\ i' = i + 1
    /\ UNCHANGED <<out, disk, ui, need_send, acct, image, accepted, hist>>

\* Past the last message: QUIT, and macmbx_toc_save begins.
SaveBegin ==
    /\ pc = "loop" /\ i > Len(out)
    /\ pc' = "save" /\ image' = out
    /\ up' = FALSE
    /\ UNCHANGED <<out, disk, ui, need_send, acct, i, accepted, hist>> /\ NoFault

SaveEnd ==
    /\ pc = "save"
    /\ saved' = image
    /\ NextAccount
    /\ UNCHANGED <<out, file, ui, need_send, accepted, hist>> /\ NoFault

-----------------------------------------------------------------------------

\* Mutant: the table is built from scratch, without salvage.
ReloadedWithoutSalvage ==
    IF Len(saved) = Len(file) THEN saved
    ELSE [k \in DOMAIN file |->
             [msg |-> file[k], state |-> "UNREAD", deleted |-> FALSE, pers |-> 0]]

\* Mutant: the size check of the .toc file is dropped (macmbx.c:488).
ReloadedUnchecked == saved

\* macmbx_toc_open after a restart: the .toc file, or a rebuild that salvages
\* what is in it and finds the other messages UNREAD.
Reloaded ==
    saved \o [k \in 1 .. Len(file) - Len(saved) |->
                 [msg |-> file[Len(saved) + k], state |-> "UNREAD", deleted |-> FALSE, pers |-> 0]]

\* The program dies, or is quit: nothing is saved on the way out.
Crash ==
    /\ Fault
    /\ out' = Reloaded
    /\ ui' = "idle" /\ need_send' = FALSE
    /\ pc' = "idle" /\ acct' = 0 /\ i' = 0 /\ up' = FALSE /\ image' = <<>>
    /\ UNCHANGED <<disk, accepted, hist>>

SenderStep ==
    \/ NoneQueued \/ ConnectFails \/ Connect
    \/ Skip \/ Transmit \/ SendFails \/ MarkSent \/ ReplyLost
    \/ SaveBegin \/ SaveEnd

Next ==
    \/ \E m \in Msgs : Queue(m)
    \/ QueueSave \/ QueueTag \/ RequestSend
    \/ \E k \in DOMAIN out : Withdraw(k)
    \/ SendStart \/ SenderStep
    \/ Crash

\* The timer of the idle scheduler keeps ticking, its thread is scheduled, and
\* servers answer or break the connection.
Spec == Init /\ [][Next]_vars /\ WF_vars(SendStart) /\ WF_vars(SenderStep)

-----------------------------------------------------------------------------
(* Properties                                                              *)

\* A message is shown as sent only if a server has taken it, in the table and
\* in the .toc file, whatever the user did to Out during the transaction.
SentMeansAccepted ==
    \A e \in ToSet(out) \cup ToSet(saved) : e.state = "SENT" => accepted[e.msg] > 0

\* A message goes out twice only through a fault: every further copy costs a
\* lost reply or a crash before the table was saved.
ResendNeedsFault == \A m \in Msgs : accepted[m] <= 1 + faults

\* What a restart would make of message m.
AfterRestart(m) == {e \in ToSet(Reloaded) : e.msg = m}
StillQueued(m) == \A e \in AfterRestart(m) : e.state = "QUEUED" /\ ~e.deleted

\* A message that was recorded in the .toc file is still queued after a
\* restart, until a server has taken it or the user has withdrawn it: no image
\* the sender writes later is too old to have it.
RecordedStayQueued ==
    \A m \in recorded \ withdrawn : accepted[m] = 0 => StillQueued(m)

\* A request sends everything that is queued when it is made, unless a fault
\* intervenes or the user withdraws it, also when the request comes while the
\* sender is in the middle of the queue.
Waiting(m) == \E e \in ToSet(out) : e.msg = m /\ e.state = "QUEUED" /\ ~e.deleted
RequestedIsSent ==
    \A m \in Msgs, f \in 0 .. MaxFaults :
        need_send /\ Waiting(m) /\ faults = f ~> ~Waiting(m) \/ faults > f

\* macmbx_mailer.h:79: queueing writes the message with state QUEUED, so that
\* it is there to be sent later.
QueuedStayQueued ==
    \A m \in queued \ withdrawn : accepted[m] = 0 => StillQueued(m)

=============================================================================
