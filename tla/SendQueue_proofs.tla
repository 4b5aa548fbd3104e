--------------------------- MODULE SendQueue_proofs ---------------------------
(***************************************************************************)
(* Proofs about SendQueue, for any messages, accounts and bounds.          *)
(***************************************************************************)
EXTENDS SendQueue, SequenceTheorems, FiniteSetTheorems, TLAPS

-----------------------------------------------------------------------------
(* The tables and the mbox file                                            *)

\* The summaries s are those of the first messages of the mbox file.
Covers(s) ==
    /\ s \in Seq(Entry) /\ Len(s) <= Len(file)
    /\ \A k \in DOMAIN s : s[k].msg = file[k]

Tables ==
    /\ file \in Seq(Msgs) /\ IsInjective(file)
    /\ Covers(out) /\ Len(out) = Len(file)
    /\ Covers(saved) /\ Covers(image)
    /\ ui # "idle" => Len(file) > 0

\* The rest of TypeOK: where the threads are, and what was done so far.
Flags == need_send \in BOOLEAN /\ up \in BOOLEAN
Places ==
    /\ ui \in {"idle", "save", "tag"}
    /\ pc \in {"idle", "account", "loop", "reply", "save"}
    /\ acct \in 0 .. Accts
    /\ i \in 0 .. Len(out) + 1
    /\ pc = "reply" => i \in DOMAIN out
Books ==
    /\ accepted \in [Msgs -> Nat]
    /\ faults \in 0 .. MaxFaults
    /\ recorded \subseteq queued /\ queued \subseteq ToSet(file)
    /\ withdrawn \subseteq ToSet(file) /\ Cardinality(withdrawn) <= MaxMarks

TypeInv == Tables /\ Flags /\ Places /\ Books

LEMMA TypeInvTypeOK == TypeInv => TypeOK
<1> SUFFICES ASSUME TypeInv PROVE TypeOK
  OBVIOUS
<1>1. [k \in DOMAIN out |-> out[k].msg] = file
  <2>1. DOMAIN out = DOMAIN file /\ \A k \in DOMAIN out : out[k].msg = file[k]
    BY DEF TypeInv, Tables, Covers
  <2>2. file = [k \in DOMAIN file |-> file[k]]
    BY DEF TypeInv, Tables
  <2>3. QED
    BY <2>1, <2>2
<1>2. QED
  BY <1>1 DEF TypeInv, Tables, Covers, Flags, Places, Books, TypeOK

\* The new message of macmbx_mailer_queue.
Fresh(m) == [msg |-> m, state |-> "QUEUED", deleted |-> FALSE, pers |-> 0]

\* A message at k found again by a rebuild, without its summary.
Found(k) == [msg |-> file[k], state |-> "UNREAD", deleted |-> FALSE, pers |-> 0]

\* Something is done to the message at k.
Edited(k, e) ==
    /\ e \in Entry /\ e.msg = out[k].msg
    /\ out' = [out EXCEPT ![k] = e]
    /\ UNCHANGED file

\* A rebuild keeps what was saved and finds the rest of the file.
LEMMA ReloadedTable ==
    ASSUME Tables
    PROVE  /\ Reloaded \in Seq(Entry) /\ Len(Reloaded) = Len(file)
           /\ \A k \in DOMAIN Reloaded :
                 Reloaded[k] = IF k <= Len(saved) THEN saved[k] ELSE Found(k)
<1> DEFINE n == Len(file) - Len(saved)
           rest == [k \in 1 .. n |-> Found(Len(saved) + k)]
<1>1. n \in Nat /\ Len(saved) \in Nat /\ Len(file) \in Nat
  BY DEF Tables, Covers
<1>2. \A k \in 1 .. n : Found(Len(saved) + k) \in Entry
  <2> SUFFICES ASSUME NEW k \in 1 .. n PROVE Found(Len(saved) + k) \in Entry
    OBVIOUS
  <2>1. Len(saved) + k \in DOMAIN file
    BY <1>1 DEF Tables
  <2>2. file[Len(saved) + k] \in Msgs
    BY <2>1 DEF Tables
  <2>3. QED
    BY <2>2, AccountAssumption DEF Found, Entry
<1>3. rest \in Seq(Entry) /\ Len(rest) = n /\ \A k \in 1 .. n : rest[k] = Found(Len(saved) + k)
  <2>1. rest \in [1 .. n -> Entry]
    BY <1>2
  <2>2. \A k \in 1 .. n : rest[k] = Found(Len(saved) + k)
    OBVIOUS
  <2> HIDE DEF rest, n
  <2>3. rest \in Seq(Entry)
    BY <1>1, <2>1, SeqDef
  <2>4. Len(rest) = n
    BY <1>1, <2>1, <2>3, LenProperties
  <2>5. QED
    BY <2>2, <2>3, <2>4
<1>4. Reloaded = saved \o rest
  BY DEF Reloaded, Found
<1> HIDE DEF rest
<1>5. saved \in Seq(Entry)
  BY DEF Tables, Covers
<1>6. QED
  BY <1>1, <1>3, <1>4, <1>5, ConcatProperties

\* What a step does to the table: nothing, a new message at its end, something
\* to one message, or a restart.
LEMMA OutSteps ==
    ASSUME TypeInv, [Next]_vars
    PROVE  \/ UNCHANGED <<out, file>>
           \/ \E m \in Msgs : Queue(m)
           \/ \E k \in DOMAIN out, e \in Entry : Edited(k, e)
           \/ Crash
<1> USE DEF TypeInv, Tables, Places, Covers
<1>1. CASE QueueTag
  <2> DEFINE k == Len(out)
             e == [out[k] EXCEPT !.pers = From[Last(file)]]
  <2>1. k \in DOMAIN out /\ out[k] \in Entry /\ Last(file) \in Msgs
    BY <1>1 DEF QueueTag, Last
  <2>2. From[Last(file)] \in 0 .. Accts
    BY <2>1, AccountAssumption
  <2>3. e \in Entry /\ e.msg = out[k].msg
    BY <2>1, <2>2 DEF Entry
  <2>4. Edited(k, e)
    BY <1>1, <2>1, <2>3 DEF QueueTag, Edited, disk
  <2>5. QED
    BY <2>1, <2>3, <2>4
<1>2. ASSUME NEW k \in DOMAIN out, Withdraw(k)
      PROVE  \E e \in Entry : Edited(k, e)
  <2>1. out[k] \in Entry
    OBVIOUS
  <2>2. CASE out' = [out EXCEPT ![k].deleted = TRUE]
    <3> DEFINE e == [out[k] EXCEPT !.deleted = TRUE]
    <3>1. e \in Entry /\ e.msg = out[k].msg
      BY <2>1 DEF Entry
    <3>2. QED
      BY <1>2, <2>2, <3>1 DEF Withdraw, Edited
  <2>3. CASE out' = [out EXCEPT ![k].state = "READ"]
    <3> DEFINE e == [out[k] EXCEPT !.state = "READ"]
    <3>1. e \in Entry /\ e.msg = out[k].msg
      BY <2>1 DEF Entry
    <3>2. QED
      BY <1>2, <2>3, <3>1 DEF Withdraw, Edited
  <2>4. QED
    BY <1>2, <2>2, <2>3 DEF Withdraw
<1>3. CASE MarkSent
  <2> DEFINE e == [out[i] EXCEPT !.state = "SENT"]
  <2>1. i \in DOMAIN out /\ out[i] \in Entry
    BY <1>3 DEF MarkSent
  <2>2. e \in Entry /\ e.msg = out[i].msg
    BY <2>1 DEF Entry
  <2>3. Edited(i, e)
    BY <1>3, <2>2 DEF MarkSent, Edited, disk
  <2>4. QED
    BY <2>1, <2>2, <2>3
<1>4. CASE QueueSave \/ RequestSend \/ SendStart
  BY <1>4 DEF QueueSave, RequestSend, SendStart, disk
<1>5. CASE NoneQueued \/ ConnectFails \/ Connect \/ Skip \/ Transmit \/ SendFails \/ ReplyLost \/ SaveBegin \/ SaveEnd
  BY <1>5 DEF NoneQueued, ConnectFails, Connect, Skip, Transmit, SendFails, ReplyLost, SaveBegin, SaveEnd, disk
<1>6. CASE UNCHANGED vars
  BY <1>6 DEF vars, disk
<1>7. QED
  BY <1>1, <1>2, <1>3, <1>4, <1>5, <1>6 DEF Next, SenderStep

\* A message of macmbx_mailer_queue goes to the end of the file and the table.
LEMMA QueuedTable ==
    ASSUME TypeInv, NEW m \in Msgs, Queue(m)
    PROVE  /\ file' \in Seq(Msgs) /\ out' \in Seq(Entry) /\ IsInjective(file')
           /\ Len(file') = Len(file) + 1 /\ Len(out') = Len(file) + 1
           /\ \A k \in DOMAIN file : file'[k] = file[k] /\ out'[k] = out[k]
           /\ file'[Len(file) + 1] = m /\ out'[Len(file) + 1] = Fresh(m)
<1>1. Fresh(m) \in Entry /\ out' = Append(out, Fresh(m)) /\ file' = Append(file, m)
  BY AccountAssumption DEF Fresh, Entry, Queue
<1>2. /\ out \in Seq(Entry) /\ file \in Seq(Msgs) /\ Len(out) = Len(file)
  BY DEF TypeInv, Tables, Covers
<1> HIDE DEF Fresh
<1>3. /\ file' \in Seq(Msgs) /\ out' \in Seq(Entry)
      /\ Len(file') = Len(file) + 1 /\ Len(out') = Len(file) + 1
      /\ \A k \in DOMAIN file : file'[k] = file[k] /\ out'[k] = out[k]
      /\ file'[Len(file) + 1] = m /\ out'[Len(file) + 1] = Fresh(m)
  BY <1>1, <1>2, AppendProperties
<1>4. \A k \in DOMAIN file : file[k] # m
  BY DEF Queue, ToSet
<1>5. IsInjective(file')
  <2>1. \A a, b \in DOMAIN file : file[a] = file[b] => a = b
    BY DEF TypeInv, Tables, IsInjective
  <2>2. DOMAIN file' = DOMAIN file \cup {Len(file) + 1}
    BY <1>2, <1>3
  <2>3. QED
    BY <1>3, <1>4, <2>1, <2>2 DEF IsInjective
<1>6. QED
  BY <1>3, <1>5

\* A step covers the file with its table, and never shortens the file.
LEMMA OutTable ==
    ASSUME TypeInv, [Next]_vars
    PROVE  /\ file' \in Seq(Msgs) /\ IsInjective(file') /\ Len(file') >= Len(file)
           /\ \A k \in DOMAIN file : file'[k] = file[k]
           /\ out' \in Seq(Entry) /\ Len(out') = Len(file')
           /\ \A k \in DOMAIN out' : out'[k].msg = file'[k]
<1> USE DEF TypeInv, Tables, Covers
<1>1. CASE UNCHANGED <<out, file>>
  BY <1>1 DEF IsInjective
<1>2. ASSUME NEW m \in Msgs, Queue(m)
      PROVE  /\ file' \in Seq(Msgs) /\ IsInjective(file') /\ Len(file') >= Len(file)
             /\ \A k \in DOMAIN file : file'[k] = file[k]
             /\ out' \in Seq(Entry) /\ Len(out') = Len(file')
             /\ \A k \in DOMAIN out' : out'[k].msg = file'[k]
  <2>1. Fresh(m).msg = m
    BY DEF Fresh
  <2>2. DOMAIN out' = DOMAIN file \cup {Len(file) + 1}
    <3>1. out' \in Seq(Entry) /\ Len(out') = Len(file) + 1
      BY <1>2, QueuedTable
    <3>2. QED
      BY <3>1
  <2>3. \A k \in DOMAIN out' : out'[k].msg = file'[k]
    BY <1>2, <2>1, <2>2, QueuedTable
  <2>4. QED
    BY <1>2, <2>3, QueuedTable
<1>3. ASSUME NEW k \in DOMAIN out, NEW e \in Entry, Edited(k, e)
      PROVE  /\ UNCHANGED file
             /\ out' \in Seq(Entry) /\ Len(out') = Len(file)
             /\ \A j \in DOMAIN out' : out'[j].msg = file[j]
  BY <1>3 DEF Edited
<1>4. CASE Crash
  <2>1. out' = Reloaded /\ UNCHANGED file
    BY <1>4 DEF Crash, disk
  <2>2. \A k \in DOMAIN Reloaded : Reloaded[k].msg = file[k]
    BY ReloadedTable DEF Found
  <2>3. QED
    BY <2>1, <2>2, ReloadedTable DEF IsInjective
<1>5. QED
  BY <1>1, <1>2, <1>3, <1>4, OutSteps DEF IsInjective

\* What a save writes is the table or the image taken of it.
LEMMA SavedSteps ==
    ASSUME [Next]_vars
    PROVE  saved' \in {saved, out', image} /\ image' \in {image, out', <<>>}
<1> USE DEF disk, sender, NextAccount
<1>1. CASE \E m \in Msgs : Queue(m)
  BY <1>1 DEF Queue
<1>2. CASE QueueSave \/ QueueTag \/ RequestSend \/ SendStart
  BY <1>2 DEF QueueSave, QueueTag, RequestSend, SendStart
<1>3. CASE \E k \in DOMAIN out : Withdraw(k)
  BY <1>3 DEF Withdraw
<1>4. CASE SenderStep
  BY <1>4 DEF SenderStep, NoneQueued, ConnectFails, Connect, Skip, Transmit, SendFails, MarkSent, ReplyLost,
     SaveBegin, SaveEnd
<1>5. CASE Crash \/ UNCHANGED vars
  BY <1>5 DEF Crash, vars
<1>6. QED
  BY <1>1, <1>2, <1>3, <1>4, <1>5 DEF Next

LEMMA TablesInductive == ASSUME TypeInv, [Next]_vars PROVE Tables'
<1>1. /\ file' \in Seq(Msgs) /\ IsInjective(file') /\ Len(file') >= Len(file)
      /\ \A k \in DOMAIN file : file'[k] = file[k]
      /\ out' \in Seq(Entry) /\ Len(out') = Len(file')
      /\ \A k \in DOMAIN out' : out'[k].msg = file'[k]
  BY OutTable
<1>2. file \in Seq(Msgs) /\ Covers(saved) /\ Covers(image)
  BY DEF TypeInv, Tables
<1>3. ASSUME NEW s, s \in {saved, image, out', <<>>}
      PROVE  s \in Seq(Entry) /\ Len(s) <= Len(file') /\ \A k \in DOMAIN s : s[k].msg = file'[k]
  <2>1. CASE s = out'
    BY <1>1, <2>1
  <2>2. CASE s = <<>>
    BY <1>1, <2>2
  <2>3. CASE Covers(s)
    <3>1. s \in Seq(Entry) /\ Len(s) <= Len(file) /\ \A k \in DOMAIN s : s[k].msg = file[k]
      BY <2>3 DEF Covers
    <3>2. DOMAIN s \subseteq DOMAIN file
      BY <1>2, <3>1
    <3>3. QED
      BY <1>1, <1>2, <3>1, <3>2
  <2>4. QED
    BY <1>2, <1>3, <2>1, <2>2, <2>3
<1>4. Covers(saved)' /\ Covers(image)'
  BY <1>3, SavedSteps DEF Covers
<1>5. ui' # "idle" => Len(file') > 0
  <2>1. CASE \E m \in Msgs : Queue(m)
    BY <1>1, <1>2, <2>1, QueuedTable
  <2>2. CASE ~\E m \in Msgs : Queue(m)
    <3>1. ui' # "idle" => ui # "idle"
      BY <2>2 DEF Next, QueueSave, QueueTag, RequestSend, Withdraw, SendStart, SenderStep, NoneQueued,
         ConnectFails, Connect, Skip, Transmit, SendFails, MarkSent, ReplyLost, SaveBegin, SaveEnd, Crash, vars
    <3>2. QED
      BY <1>1, <1>2, <3>1 DEF TypeInv, Tables
  <2>3. QED
    BY <2>1, <2>2
<1>6. QED
  BY <1>1, <1>4, <1>5 DEF Tables, Covers

LEMMA FlagsInductive == ASSUME TypeInv, [Next]_vars PROVE Flags'
<1> USE DEF Flags, sender, NextAccount
<1>1. Flags
  BY DEF TypeInv
<1>2. CASE (\E m \in Msgs : Queue(m)) \/ QueueSave \/ QueueTag \/ RequestSend \/ \E k \in DOMAIN out : Withdraw(k)
  BY <1>1, <1>2 DEF Queue, QueueSave, QueueTag, RequestSend, Withdraw
<1>3. CASE SendStart \/ SenderStep
  BY <1>1, <1>3 DEF SendStart, SenderStep, NoneQueued, ConnectFails, Connect, Skip, Transmit, SendFails, MarkSent,
     ReplyLost, SaveBegin, SaveEnd
<1>4. CASE Crash \/ UNCHANGED vars
  BY <1>1, <1>4 DEF Crash, vars
<1>5. QED
  BY <1>2, <1>3, <1>4 DEF Next

LEMMA PlacesInductive == ASSUME TypeInv, [Next]_vars PROVE Places'
<1>1. /\ Places /\ out \in Seq(Entry) /\ out' \in Seq(Entry) /\ Len(out') >= Len(out)
  BY OutTable DEF TypeInv, Tables, Covers
<1>2. /\ Len(out) \in Nat /\ Len(out') \in Nat /\ Len(out') >= Len(out)
      /\ DOMAIN out \subseteq DOMAIN out'
  BY <1>1
<1> USE AccountAssumption DEF Places, disk, sender
<1>3. CASE \E m \in Msgs : Queue(m)
  BY <1>1, <1>2, <1>3 DEF Queue
<1>4. CASE QueueSave \/ QueueTag
  BY <1>1, <1>2, <1>4 DEF QueueSave, QueueTag
<1>5. CASE RequestSend \/ SendStart
  BY <1>1, <1>2, <1>5 DEF RequestSend, SendStart
<1>6. CASE \E k \in DOMAIN out : Withdraw(k)
  BY <1>1, <1>2, <1>6 DEF Withdraw
<1>7. CASE NoneQueued \/ ConnectFails \/ SaveEnd
  BY <1>1, <1>2, <1>7 DEF NoneQueued, ConnectFails, SaveEnd, NextAccount
<1>8. CASE Connect \/ Skip
  BY <1>1, <1>2, <1>8 DEF Connect, Skip
<1>9. CASE SendFails
  BY <1>1, <1>2, <1>9 DEF SendFails
<1>10. CASE Transmit
  BY <1>1, <1>2, <1>10 DEF Transmit
<1>11. CASE MarkSent \/ ReplyLost \/ SaveBegin
  BY <1>1, <1>2, <1>11 DEF MarkSent, ReplyLost, SaveBegin
<1>12. CASE Crash
  BY <1>1, <1>2, <1>12 DEF Crash
<1>13. CASE UNCHANGED vars
  BY <1>1, <1>2, <1>13 DEF vars
<1>14. QED
  BY <1>3, <1>4, <1>5, <1>6, <1>7, <1>8, <1>9, <1>10, <1>11, <1>12, <1>13 DEF Next, SenderStep

LEMMA BooksInductive == ASSUME TypeInv, [Next]_vars PROVE Books'
<1>1. /\ Books
      /\ pc = "reply" => i \in DOMAIN out
      /\ ToSet(file) \subseteq ToSet(file')
      /\ ui # "idle" => Last(file) \in ToSet(file)
      /\ \A k \in DOMAIN out : out[k].msg \in Msgs /\ out[k].msg \in ToSet(file)
  <2>1. /\ Books /\ Places /\ file \in Seq(Msgs) /\ out \in Seq(Entry) /\ Len(out) = Len(file)
        /\ ui # "idle" => Len(file) > 0
        /\ \A k \in DOMAIN out : out[k].msg = file[k]
    BY DEF TypeInv, Tables, Covers
  <2>2. /\ file' \in Seq(Msgs) /\ Len(file') >= Len(file)
        /\ \A k \in DOMAIN file : file'[k] = file[k]
    BY OutTable
  <2>3. DOMAIN file \subseteq DOMAIN file' /\ DOMAIN out = DOMAIN file
    BY <2>1, <2>2
  <2>4. ToSet(file) \subseteq ToSet(file')
    BY <2>2, <2>3 DEF ToSet
  <2>5. ui # "idle" => Last(file) \in ToSet(file)
    BY <2>1 DEF ToSet, Last
  <2>6. \A k \in DOMAIN out : out[k].msg \in Msgs /\ out[k].msg \in ToSet(file)
    BY <2>1, <2>3 DEF ToSet
  <2>7. QED
    BY <2>1, <2>4, <2>5, <2>6 DEF Places
<1> USE BoundAssumption DEF Books, hist, Fault, NoFault, ToSet
<1>2. CASE UNCHANGED <<accepted, hist>> /\ (Fault \/ NoFault)
  BY <1>1, <1>2
<1>3. CASE QueueSave
  BY <1>1, <1>3 DEF QueueSave
<1>4. CASE \E k \in DOMAIN out : Withdraw(k)
  BY <1>1, <1>4 DEF Withdraw
<1>5. CASE Transmit
  <2>1. out[i].msg \in Msgs /\ accepted' = [accepted EXCEPT ![out[i].msg] = @ + 1]
    BY <1>1, <1>5 DEF Transmit
  <2>2. accepted' \in [Msgs -> Nat]
    BY <1>1, <2>1
  <2>3. UNCHANGED <<faults, hist>>
    BY <1>5 DEF Transmit
  <2>4. QED
    BY <1>1, <2>2, <2>3
<1>6. CASE \/ \E m \in Msgs : Queue(m)
           \/ QueueTag \/ RequestSend \/ SendStart
           \/ NoneQueued \/ ConnectFails \/ Connect \/ Skip \/ SendFails \/ MarkSent
           \/ ReplyLost \/ SaveBegin \/ SaveEnd \/ Crash
  BY <1>2, <1>6 DEF Queue, QueueTag, RequestSend, SendStart, NoneQueued, ConnectFails, Connect, Skip,
     SendFails, MarkSent, ReplyLost, SaveBegin, SaveEnd, Crash
<1>7. CASE UNCHANGED vars
  BY <1>2, <1>7 DEF vars
<1>8. QED
  BY <1>3, <1>4, <1>5, <1>6, <1>7 DEF Next, SenderStep

LEMMA TypeInductive == TypeInv /\ [Next]_vars => TypeInv'
BY TablesInductive, FlagsInductive, PlacesInductive, BooksInductive DEF TypeInv

LEMMA InitTypeInv == Init => TypeInv
<1> SUFFICES ASSUME Init PROVE TypeInv
  OBVIOUS
<1>1. Tables
  BY DEF Init, Tables, Covers, IsInjective
<1>2. Flags /\ Places /\ Books
  <2>1. Cardinality(withdrawn) = 0
    BY FS_EmptySet DEF Init
  <2>2. i \in 0 .. Len(out) + 1
    BY DEF Init
  <2>3. accepted \in [Msgs -> Nat]
    BY DEF Init
  <2>4. /\ acct \in 0 .. Accts /\ faults \in 0 .. MaxFaults
    BY AccountAssumption, BoundAssumption DEF Init
  <2>5. /\ ui \in {"idle", "save", "tag"}
        /\ need_send \in BOOLEAN /\ up \in BOOLEAN
        /\ pc \in {"idle", "account", "loop", "reply", "save"}
    BY DEF Init
  <2>6. /\ recorded \subseteq queued /\ queued \subseteq ToSet(file)
        /\ withdrawn \subseteq ToSet(file) /\ Cardinality(withdrawn) <= MaxMarks
    BY <2>1, BoundAssumption DEF Init
  <2>7. QED
    BY <2>2, <2>3, <2>4, <2>5, <2>6 DEF Init, Flags, Places, Books
<1>3. QED
  BY <1>1, <1>2 DEF TypeInv

\* Types, the bounds of the sender's index, and that the table always has the
\* messages of the mbox file and the .toc file never more.
THEOREM SendTypeOK == Spec => []TypeOK
<1>1. Spec => []TypeInv
  BY InitTypeInv, TypeInductive, PTL DEF Spec
<1>2. QED
  BY <1>1, TypeInvTypeOK, PTL

-----------------------------------------------------------------------------
(* What is SENT was accepted                                               *)

\* The summary e is not SENT for nothing.
Honest(e, taken) == e.state = "SENT" => taken[e.msg] > 0

\* The image being written is included, and the message whose reply is awaited.
SentInv ==
    /\ \A k \in DOMAIN out : Honest(out[k], accepted)
    /\ \A k \in DOMAIN saved : Honest(saved[k], accepted)
    /\ \A k \in DOMAIN image : Honest(image[k], accepted)
    /\ pc = "reply" => accepted[out[i].msg] > 0

\* The servers never give a message back.
LEMMA AcceptedGrows ==
    ASSUME TypeInv, [Next]_vars
    PROVE  \A m \in Msgs : accepted'[m] >= accepted[m] /\ accepted'[m] \in Nat /\ accepted[m] \in Nat
<1>1. accepted \in [Msgs -> Nat]
  BY DEF TypeInv, Books
<1>2. CASE UNCHANGED accepted
  BY <1>1, <1>2
<1>3. CASE Transmit
  BY <1>1, <1>3 DEF Transmit
<1>4. QED
  BY <1>2, <1>3 DEF Next, Queue, QueueSave, QueueTag, RequestSend, Withdraw, SendStart, SenderStep,
     NoneQueued, ConnectFails, Connect, Skip, SendFails, MarkSent, ReplyLost, SaveBegin, SaveEnd, Crash, vars

\* What a step does to the message at k of a table that is not built anew: the
\* user cancels or flags it, or the reply makes it SENT.
LEMMA Edits ==
    ASSUME TypeInv, [Next]_vars, UNCHANGED file, ~Crash, NEW k \in DOMAIN out
    PROVE  \/ out'[k].state = out[k].state /\ out'[k].deleted = out[k].deleted
           \/ Withdraw(k) /\ out'[k].state \in {out[k].state, "READ"}
           \/ MarkSent /\ k = i /\ out'[k].state = "SENT"
<1>1. /\ out \in Seq(Entry)
      /\ pc = "reply" => i \in DOMAIN out
  BY DEF TypeInv, Tables, Covers, Places
<1>2. CASE QueueTag
  <2>1. out[Len(out)] \in Entry \/ k # Len(out)
    BY <1>1
  <2>2. out' = [out EXCEPT ![Len(out)] = [out[Len(out)] EXCEPT !.pers = From[Last(file)]]]
    BY <1>2 DEF QueueTag
  <2>3. QED
    BY <1>1, <2>1, <2>2 DEF Entry
<1>3. ASSUME NEW j \in DOMAIN out, Withdraw(j)
      PROVE  \/ out'[k].state = out[k].state /\ out'[k].deleted = out[k].deleted
             \/ Withdraw(k) /\ out'[k].state \in {out[k].state, "READ"}
  <2>1. out[j] \in Entry /\ out[k] \in Entry
    BY <1>1
  <2>2. CASE out' = [out EXCEPT ![j].deleted = TRUE]
    <3>1. [out[j] EXCEPT !.deleted = TRUE].state = out[j].state
      BY <2>1 DEF Entry
    <3>2. QED
      BY <1>1, <1>3, <2>2, <3>1
  <2>3. CASE out' = [out EXCEPT ![j].state = "READ"]
    <3>1. [out[j] EXCEPT !.state = "READ"].state = "READ"
      BY <2>1 DEF Entry
    <3>2. QED
      BY <1>1, <1>3, <2>3, <3>1
  <2>4. QED
    BY <1>3, <2>2, <2>3 DEF Withdraw
<1>4. CASE MarkSent
  <2>1. i \in DOMAIN out /\ out[i] \in Entry /\ out' = [out EXCEPT ![i].state = "SENT"]
    BY <1>1, <1>4 DEF MarkSent
  <2>2. [out[i] EXCEPT !.state = "SENT"].state = "SENT"
    BY <2>1 DEF Entry
  <2>3. QED
    BY <1>1, <1>4, <2>1, <2>2
<1>5. CASE \E m \in Msgs : Queue(m)
  <2>1. file \in Seq(Msgs) /\ Len(file') = Len(file) + 1
    BY <1>5, QueuedTable DEF TypeInv, Tables
  <2>2. QED
    BY <2>1
<1>6. CASE UNCHANGED out
  BY <1>6
<1>7. QED
  BY <1>2, <1>3, <1>4, <1>5, <1>6 DEF Next, QueueSave, RequestSend, SendStart, SenderStep,
     NoneQueued, ConnectFails, Connect, Skip, Transmit, SendFails, ReplyLost, SaveBegin, SaveEnd, vars

\* The message whose reply is awaited, or has just come, was transmitted.
LEMMA ReplySteps ==
    ASSUME TypeInv, [Next]_vars, pc' = "reply"
    PROVE  i' = i /\ ((pc = "reply" /\ UNCHANGED accepted) \/ Transmit)
<1> USE DEF sender, NextAccount
<1>1. CASE Transmit
  BY <1>1 DEF Transmit
<1>2. CASE (\E m \in Msgs : Queue(m)) \/ QueueSave \/ QueueTag \/ RequestSend \/ \E k \in DOMAIN out : Withdraw(k)
  BY <1>2 DEF Queue, QueueSave, QueueTag, RequestSend, Withdraw
<1>3. CASE NoneQueued \/ ConnectFails \/ Connect \/ Skip \/ SendFails \/ MarkSent
  BY <1>3 DEF NoneQueued, ConnectFails, Connect, Skip, SendFails, MarkSent
<1>4. CASE SendStart \/ ReplyLost \/ SaveBegin \/ SaveEnd \/ Crash \/ UNCHANGED vars
  BY <1>4 DEF SendStart, ReplyLost, SaveBegin, SaveEnd, Crash, vars
<1>5. QED
  BY <1>1, <1>2, <1>3, <1>4 DEF Next, SenderStep

\* What is honest stays so.
LEMMA HonestStays ==
    ASSUME TypeInv, [Next]_vars, NEW e \in Entry, Honest(e, accepted)
    PROVE  Honest(e, accepted')
<1>1. e.msg \in Msgs
  BY DEF Entry
<1>2. QED
  BY <1>1, AcceptedGrows DEF Honest

LEMMA OutHonest ==
    ASSUME TypeInv, SentInv, [Next]_vars
    PROVE  \A k \in DOMAIN out' : Honest(out'[k], accepted')
<1>1. /\ out \in Seq(Entry) /\ saved \in Seq(Entry) /\ file \in Seq(Msgs) /\ Len(out) = Len(file)
      /\ \A k \in DOMAIN out : out[k].msg = file[k] /\ out[k].msg \in Msgs
      /\ Places
  BY DEF TypeInv, Tables, Covers
<1>2. CASE \E m \in Msgs : Queue(m)
  <2> PICK m \in Msgs : Queue(m)
    BY <1>2
  <2>1. Honest(Fresh(m), accepted')
    BY DEF Honest, Fresh
  <2>2. out' \in Seq(Entry) /\ Len(out') = Len(out) + 1
    BY <1>1, QueuedTable
  <2>3. DOMAIN out' = DOMAIN out \cup {Len(out) + 1}
    BY <1>1, <2>2
  <2>4. \A k \in DOMAIN out : out'[k] = out[k] /\ out[k] \in Entry /\ Honest(out[k], accepted)
    <3>1. DOMAIN out = DOMAIN file
      BY <1>1
    <3>2. QED
      BY <1>1, <3>1, QueuedTable DEF SentInv
  <2>5. \A k \in DOMAIN out : Honest(out'[k], accepted')
    BY <2>4, HonestStays
  <2>6. QED
    BY <1>1, <2>1, <2>3, <2>5, QueuedTable
<1>3. CASE Crash
  <2>1. out' = Reloaded
    BY <1>3 DEF Crash
  <2>2. \A k \in DOMAIN Reloaded : k <= Len(saved) => k \in DOMAIN saved
    BY <1>1, ReloadedTable DEF TypeInv
  <2>3. \A k \in DOMAIN saved : saved[k] \in Entry /\ Honest(saved[k], accepted')
    BY <1>1, HonestStays DEF SentInv
  <2>4. \A k \in DOMAIN Reloaded : k > Len(saved) => Honest(Found(k), accepted')
    BY DEF Found, Honest
  <2>5. \A k \in DOMAIN Reloaded : k > Len(saved) \/ k <= Len(saved)
    BY <1>1, ReloadedTable DEF TypeInv
  <2>6. QED
    BY <2>1, <2>2, <2>3, <2>4, <2>5, ReloadedTable DEF TypeInv, Honest
<1>4. CASE ~Crash /\ ~\E m \in Msgs : Queue(m)
  <2>1. UNCHANGED file /\ DOMAIN out' = DOMAIN out /\ \A k \in DOMAIN out : out'[k].msg = out[k].msg
    BY <1>1, <1>4, OutSteps DEF Edited
  <2>2. ASSUME NEW k \in DOMAIN out, out'[k].state = "SENT"
        PROVE  accepted'[out[k].msg] > 0
    <3>1. CASE out[k].state = "SENT"
      BY <1>1, <3>1, AcceptedGrows DEF SentInv, Honest
    <3>2. CASE MarkSent /\ k = i
      BY <1>1, <3>2, AcceptedGrows DEF SentInv, MarkSent
    <3>3. QED
      BY <1>4, <2>1, <2>2, <3>1, <3>2, Edits
  <2>3. QED
    BY <2>1, <2>2 DEF Honest
<1>5. QED
  BY <1>2, <1>3, <1>4

LEMMA SentInductive == TypeInv /\ SentInv /\ [Next]_vars => SentInv'
<1> SUFFICES ASSUME TypeInv, SentInv, [Next]_vars PROVE SentInv'
  OBVIOUS
<1>1. \A k \in DOMAIN out' : Honest(out'[k], accepted')
  BY OutHonest
<1>2. saved \in Seq(Entry) /\ image \in Seq(Entry)
  BY DEF TypeInv, Tables, Covers
<1>3. \A k \in DOMAIN saved : Honest(saved[k], accepted')
  BY <1>2, HonestStays DEF SentInv
<1>4. \A k \in DOMAIN image : Honest(image[k], accepted')
  BY <1>2, HonestStays DEF SentInv
<1>5. \A k \in DOMAIN saved' : Honest(saved'[k], accepted')
  BY <1>1, <1>3, <1>4, SavedSteps
<1>6. \A k \in DOMAIN image' : Honest(image'[k], accepted')
  BY <1>1, <1>4, SavedSteps
<1>7. pc' = "reply" => accepted'[out'[i'].msg] > 0
  <2> SUFFICES ASSUME pc' = "reply" PROVE accepted'[out'[i].msg] > 0
    BY ReplySteps
  <2>1. i \in DOMAIN out /\ out \in Seq(Entry)
    BY ReplySteps DEF TypeInv, Tables, Covers, Places, Transmit
  <2>2. out'[i].msg = out[i].msg /\ out[i].msg \in Msgs
    <3>1. out[i].msg = file[i] /\ i \in DOMAIN file /\ file[i] \in Msgs
      BY <2>1 DEF TypeInv, Tables, Covers
    <3>2. out'[i].msg = file'[i] /\ file'[i] = file[i]
      BY <2>1, <3>1, OutTable DEF TypeInv, Tables
    <3>3. QED
      BY <3>1, <3>2
  <2>3. CASE pc = "reply" /\ UNCHANGED accepted
    BY <2>2, <2>3 DEF SentInv
  <2>4. CASE Transmit
    BY <2>2, <2>4 DEF Transmit, TypeInv, Books
  <2>5. QED
    BY <2>3, <2>4, ReplySteps
<1>8. QED
  BY <1>1, <1>5, <1>6, <1>7 DEF SentInv, Honest

\* The table and the .toc file never claim a message was sent that no server
\* has taken.
THEOREM SendHonest == Spec => []SentMeansAccepted
<1>1. Init => SentInv
  BY DEF Init, SentInv
<1>2. SentInv => SentMeansAccepted
  BY DEF SentInv, Honest, SentMeansAccepted, ToSet
<1>3. Spec => []TypeInv
  BY InitTypeInv, TypeInductive, PTL DEF Spec
<1>4. QED
  BY <1>1, <1>2, <1>3, SentInductive, PTL DEF Spec

-----------------------------------------------------------------------------
(* Every further copy costs a fault                                        *)

\* A message that is in the queue and not in the hands of the server has been
\* taken at most once for each fault.
ResendInv ==
    /\ \A m \in Msgs : accepted[m] <= 1 + faults
    /\ \A m \in Msgs \ ToSet(file) : accepted[m] = 0
    /\ \A k \in DOMAIN out :
          out[k].state = "QUEUED" /\ ~(pc = "reply" /\ i = k) => accepted[file[k]] <= faults

LEMMA FaultsGrow ==
    ASSUME TypeInv, [Next]_vars
    PROVE  faults \in Nat /\ faults' \in Nat /\ faults' >= faults
<1>1. faults \in Nat
  BY BoundAssumption DEF TypeInv, Books
<1>2. CASE Fault \/ NoFault
  BY <1>1, <1>2 DEF Fault, NoFault
<1>3. CASE UNCHANGED vars
  BY <1>1, <1>3 DEF vars
<1>4. QED
  BY <1>2, <1>3 DEF Next, Queue, QueueSave, QueueTag, RequestSend, Withdraw, SendStart, SenderStep,
     NoneQueued, ConnectFails, Connect, Skip, Transmit, SendFails, MarkSent, ReplyLost, SaveBegin, SaveEnd, Crash

\* Only a transmission, the reply and its loss, and a crash touch the message
\* whose reply is awaited.
LEMMA OtherSteps ==
    ASSUME [Next]_vars, ~Transmit, ~MarkSent, ~ReplyLost, ~Crash
    PROVE  UNCHANGED accepted /\ (pc = "reply" => pc' = "reply" /\ i' = i)
<1> USE DEF sender
<1>1. CASE (\E m \in Msgs : Queue(m)) \/ QueueSave \/ QueueTag \/ RequestSend
  BY <1>1 DEF Queue, QueueSave, QueueTag, RequestSend
<1>2. CASE \E k \in DOMAIN out : Withdraw(k)
  BY <1>2 DEF Withdraw
<1>3. CASE SendStart \/ NoneQueued \/ ConnectFails \/ Connect
  BY <1>3 DEF SendStart, NoneQueued, ConnectFails, Connect
<1>4. CASE Skip \/ SendFails \/ SaveBegin \/ SaveEnd \/ UNCHANGED vars
  BY <1>4 DEF Skip, SendFails, SaveBegin, SaveEnd, vars
<1>5. QED
  BY <1>1, <1>2, <1>3, <1>4 DEF Next, SenderStep

LEMMA ResendInductive == TypeInv /\ ResendInv /\ [Next]_vars => ResendInv'
<1> SUFFICES ASSUME TypeInv, ResendInv, [Next]_vars PROVE ResendInv'
  OBVIOUS
<1>1. /\ out \in Seq(Entry) /\ file \in Seq(Msgs) /\ Len(out) = Len(file) /\ IsInjective(file)
      /\ \A k \in DOMAIN out : out[k].msg = file[k] /\ file[k] \in Msgs
      /\ DOMAIN out = DOMAIN file
      /\ accepted \in [Msgs -> Nat]
      /\ pc = "reply" => i \in DOMAIN out
  BY DEF TypeInv, Tables, Covers, Books, Places
<1>2. faults \in Nat /\ faults' \in Nat /\ faults' >= faults
  BY FaultsGrow
<1>3. /\ \A m \in Msgs : accepted[m] <= 1 + faults
      /\ \A m \in Msgs : accepted[m] = 0 \/ m \in ToSet(file)
      /\ \A k \in DOMAIN out :
            out[k].state = "QUEUED" /\ ~(pc = "reply" /\ i = k) => accepted[file[k]] <= faults
  BY DEF ResendInv
<1>4. CASE \E m \in Msgs : Queue(m)
  <2> PICK m \in Msgs : Queue(m)
    BY <1>4
  <2>1. UNCHANGED <<accepted, faults, pc, i>>
    BY DEF Queue, NoFault, sender
  <2>2. accepted[m] = 0
    BY <1>3 DEF Queue
  <2>3. /\ DOMAIN file' = DOMAIN file \cup {Len(file) + 1} /\ DOMAIN out' = DOMAIN file'
        /\ \A k \in DOMAIN file : file'[k] = file[k] /\ out'[k] = out[k]
        /\ file'[Len(file) + 1] = m
    <3>1. file' \in Seq(Msgs) /\ out' \in Seq(Entry) /\ Len(file') = Len(file) + 1 /\ Len(out') = Len(file) + 1
      BY QueuedTable
    <3>2. DOMAIN file' = DOMAIN file \cup {Len(file) + 1} /\ DOMAIN out' = DOMAIN file'
      BY <1>1, <3>1
    <3>3. QED
      BY <3>2, QueuedTable
  <2>4. ToSet(file) \subseteq ToSet(file')
    BY <2>3 DEF ToSet
  <2>5. \A k \in DOMAIN out' :
            out'[k].state = "QUEUED" /\ ~(pc = "reply" /\ i = k) => accepted[file'[k]] <= faults
    BY <1>1, <1>2, <1>3, <2>2, <2>3
  <2>6. QED
    BY <1>3, <2>1, <2>4, <2>5 DEF ResendInv
<1>5. CASE Crash
  <2>1. UNCHANGED <<accepted, file>> /\ faults' = faults + 1 /\ out' = Reloaded
    BY <1>5 DEF Crash, Fault, disk
  <2>2. DOMAIN out' = DOMAIN file
    BY <1>1, <2>1, ReloadedTable DEF TypeInv
  <2>3. QED
    BY <1>1, <1>2, <1>3, <2>1, <2>2 DEF ResendInv
<1>6. CASE ~Crash /\ ~\E m \in Msgs : Queue(m)
  <2>1. UNCHANGED file /\ DOMAIN out' = DOMAIN out
    BY <1>1, <1>6, OutSteps DEF Edited
  <2>2. \A k \in DOMAIN out : out'[k].state = "QUEUED" => out[k].state = "QUEUED" /\ ~(MarkSent /\ k = i)
    <3> SUFFICES ASSUME NEW k \in DOMAIN out, out'[k].state = "QUEUED"
                 PROVE  out[k].state = "QUEUED" /\ ~(MarkSent /\ k = i)
      OBVIOUS
    <3>1. MarkSent => out'[i].state = "SENT"
      <4> SUFFICES ASSUME MarkSent PROVE out'[i].state = "SENT"
        OBVIOUS
      <4>1. i \in DOMAIN out /\ out[i] \in Entry /\ out' = [out EXCEPT ![i].state = "SENT"]
        BY <1>1 DEF MarkSent
      <4>2. QED
        BY <1>1, <4>1 DEF Entry
    <3>2. QED
      BY <1>6, <2>1, <3>1, Edits
  <2>3. CASE Transmit
    <3>1. /\ i \in DOMAIN out /\ out[i].state = "QUEUED" /\ pc = "loop" /\ pc' = "reply"
          /\ accepted' = [accepted EXCEPT ![out[i].msg] = @ + 1]
          /\ UNCHANGED <<faults, out, i>>
      BY <2>3 DEF Transmit, Eligible, NoFault
    <3>2. accepted[file[i]] <= faults /\ file[i] \in ToSet(file)
      BY <1>1, <1>3, <3>1 DEF ToSet
    <3>3. \A m \in Msgs : accepted'[m] = IF m = file[i] THEN accepted[m] + 1 ELSE accepted[m]
      BY <1>1, <3>1
    <3>4. \A k \in DOMAIN out : k # i => file[k] # file[i]
      BY <1>1, <3>1 DEF IsInjective
    <3>5. \A m \in Msgs : accepted'[m] <= 1 + faults
      BY <1>1, <1>2, <1>3, <3>2, <3>3
    <3>6. \A m \in Msgs : accepted'[m] = 0 \/ m \in ToSet(file)
      BY <1>1, <1>3, <3>2, <3>3
    <3>7. \A k \in DOMAIN out : out[k].state = "QUEUED" /\ k # i => accepted'[file[k]] <= faults
      BY <1>1, <1>3, <3>1, <3>3, <3>4
    <3>8. QED
      BY <2>1, <3>1, <3>5, <3>6, <3>7 DEF ResendInv
  <2>4. CASE MarkSent
    <3>1. UNCHANGED <<accepted, faults>> /\ pc' = "loop"
      BY <2>4 DEF MarkSent, NoFault
    <3>2. QED
      BY <1>3, <2>1, <2>2, <2>4, <3>1 DEF ResendInv
  <2>5. CASE ReplyLost
    <3>1. UNCHANGED accepted /\ faults' = faults + 1
      BY <2>5 DEF ReplyLost, Fault
    <3>2. QED
      BY <1>1, <1>2, <1>3, <2>1, <3>1 DEF ResendInv
  <2>6. CASE ~Transmit /\ ~MarkSent /\ ~ReplyLost
    <3>1. UNCHANGED accepted /\ (pc = "reply" => pc' = "reply" /\ i' = i)
      BY <1>6, <2>6, OtherSteps
    <3>2. QED
      BY <1>1, <1>2, <1>3, <2>1, <2>2, <3>1 DEF ResendInv
  <2>7. QED
    BY <2>3, <2>4, <2>5, <2>6
<1>7. QED
  BY <1>4, <1>5, <1>6

\* For any bounds, a message goes out twice only through a fault.
THEOREM SendOnce == Spec => []ResendNeedsFault
<1>1. Init => ResendInv
  <2> SUFFICES ASSUME Init PROVE ResendInv
    OBVIOUS
  <2>1. faults = 0 /\ out = <<>> /\ \A m \in Msgs : accepted[m] = 0
    BY DEF Init
  <2>2. QED
    BY <2>1 DEF ResendInv
<1>2. ResendInv => ResendNeedsFault
  BY DEF ResendInv, ResendNeedsFault
<1>3. Spec => []TypeInv
  BY InitTypeInv, TypeInductive, PTL DEF Spec
<1>4. QED
  BY <1>1, <1>2, <1>3, ResendInductive, PTL DEF Spec

-----------------------------------------------------------------------------
(* What was recorded stays queued                                          *)

Waits(s, k) == k \in DOMAIN s /\ s[k].state = "QUEUED" /\ ~s[k].deleted

\* The message at k was recorded, and nothing has happened to it since.
Owed(k) == file[k] \in recorded \ withdrawn /\ accepted[file[k]] = 0

\* The table, the .toc file and the image that may replace it all have it
\* queued; and so has the table what is about to be recorded.
RecordInv ==
    /\ \A k \in DOMAIN file :
          Owed(k) => Waits(out, k) /\ Waits(saved, k) /\ (pc = "save" => Waits(image, k))
    /\ ui = "save" => (accepted[Last(file)] = 0 => Waits(out, Len(file)))

\* A message no server has taken stays queued in the table, unless the user
\* withdraws it or the table is built anew.
LEMMA WaitsStays ==
    ASSUME TypeInv, SentInv, [Next]_vars, UNCHANGED file, ~Crash,
           NEW k \in DOMAIN out, Waits(out, k), accepted'[file[k]] = 0, ~Withdraw(k)
    PROVE  Waits(out', k)
<1>1. /\ DOMAIN out' = DOMAIN out
      /\ out[k].msg = file[k] /\ file[k] \in Msgs
  <2>1. /\ out \in Seq(Entry) /\ out' \in Seq(Entry) /\ Len(out) = Len(file) /\ Len(out') = Len(file)
        /\ out[k].msg = file[k] /\ file \in Seq(Msgs)
    BY OutTable DEF TypeInv, Tables, Covers
  <2>2. QED
    BY <2>1
<1>2. accepted[file[k]] = 0
  BY <1>1, AcceptedGrows
<1>3. ~(MarkSent /\ k = i)
  BY <1>1, <1>2 DEF MarkSent, SentInv
<1>4. QED
  BY <1>1, <1>3, Edits DEF Waits

\* What a step does to the .toc file, the image and the record.
LEMMA RecordSteps ==
    ASSUME [Next]_vars
    PROVE  /\ withdrawn \subseteq withdrawn'
           /\ recorded' = recorded \/ (QueueSave /\ pc # "save" /\ recorded' = recorded \cup {Last(file)})
           /\ saved' \in {saved, out'} \/ (pc = "save" /\ saved' = image)
           /\ pc' = "save" => image' = out' \/ (pc = "save" /\ image' = image)
           /\ ui' = "save" => ui = "save" \/ \E m \in Msgs : Queue(m)
<1> USE DEF disk, sender, hist, NextAccount, BeingWritten
<1>1. CASE \E m \in Msgs : Queue(m)
  BY <1>1 DEF Queue
<1>2. CASE QueueSave
  BY <1>2 DEF QueueSave
<1>3. CASE QueueTag \/ RequestSend \/ SendStart
  BY <1>3 DEF QueueTag, RequestSend, SendStart
<1>4. CASE \E k \in DOMAIN out : Withdraw(k)
  BY <1>4 DEF Withdraw
<1>5. CASE NoneQueued \/ ConnectFails \/ Connect
  BY <1>5 DEF NoneQueued, ConnectFails, Connect
<1>6. CASE Skip \/ SendFails \/ Transmit \/ MarkSent
  BY <1>6 DEF Skip, SendFails, Transmit, MarkSent
<1>7. CASE ReplyLost \/ SaveBegin \/ SaveEnd
  BY <1>7 DEF ReplyLost, SaveBegin, SaveEnd
<1>8. CASE Crash \/ UNCHANGED vars
  BY <1>8 DEF Crash, vars
<1>9. QED
  BY <1>1, <1>2, <1>3, <1>4, <1>5, <1>6, <1>7, <1>8 DEF Next, SenderStep

LEMMA RecordInductive == TypeInv /\ SentInv /\ RecordInv /\ [Next]_vars => RecordInv'
<1> SUFFICES ASSUME TypeInv, SentInv, RecordInv, [Next]_vars PROVE RecordInv'
  OBVIOUS
<1>1. /\ out \in Seq(Entry) /\ saved \in Seq(Entry) /\ file \in Seq(Msgs)
      /\ Len(out) = Len(file) /\ Len(saved) <= Len(file) /\ IsInjective(file)
      /\ DOMAIN out = DOMAIN file
      /\ \A k \in DOMAIN file : out[k].msg = file[k] /\ file[k] \in Msgs
      /\ \A m \in recorded : m \in ToSet(file)
      /\ ui # "idle" => Len(file) \in DOMAIN file
  BY DEF TypeInv, Tables, Covers, Books
<1>2. CASE \E m \in Msgs : Queue(m)
  <2> PICK m \in Msgs : Queue(m)
    BY <1>2
  <2>1. UNCHANGED <<accepted, saved, image, pc, recorded, withdrawn>>
    BY DEF Queue, sender, hist
  <2>2. m \notin recorded
    BY <1>1 DEF Queue
  <2>3. /\ Len(file') = Len(file) + 1 /\ DOMAIN file' = DOMAIN file \cup {Len(file) + 1}
        /\ DOMAIN out' = DOMAIN file'
        /\ \A k \in DOMAIN file : file'[k] = file[k] /\ out'[k] = out[k]
        /\ file'[Len(file) + 1] = m /\ out'[Len(file) + 1] = Fresh(m)
    <3>1. file' \in Seq(Msgs) /\ out' \in Seq(Entry) /\ Len(file') = Len(file) + 1 /\ Len(out') = Len(file) + 1
      BY QueuedTable
    <3>2. DOMAIN file' = DOMAIN file \cup {Len(file) + 1} /\ DOMAIN out' = DOMAIN file'
      BY <1>1, <3>1
    <3>3. QED
      BY <3>1, <3>2, QueuedTable
  <2>4. Waits(out', Len(file'))
    BY <2>3 DEF Waits, Fresh
  <2>5. \A k \in DOMAIN file' : Owed(k)' => k \in DOMAIN file /\ Owed(k)
    BY <2>1, <2>2, <2>3 DEF Owed
  <2>6. \A k \in DOMAIN file : Waits(out, k) => Waits(out', k)
    BY <1>1, <2>3 DEF Waits
  <2>7. QED
    BY <2>1, <2>4, <2>5, <2>6 DEF RecordInv
<1>3. CASE Crash
  <2>1. UNCHANGED <<accepted, saved, file, recorded, withdrawn>> /\ out' = Reloaded /\ pc' = "idle" /\ ui' = "idle"
    BY <1>3 DEF Crash, disk, hist
  <2>2. \A k \in DOMAIN saved : k \in DOMAIN Reloaded /\ Reloaded[k] = saved[k]
    <3>1. Reloaded \in Seq(Entry) /\ Len(Reloaded) = Len(file)
      BY ReloadedTable DEF TypeInv
    <3>2. \A k \in DOMAIN saved : k \in DOMAIN Reloaded /\ k <= Len(saved)
      BY <1>1, <3>1
    <3>3. QED
      BY <3>2, ReloadedTable DEF TypeInv
  <2>3. \A k \in DOMAIN file : Waits(saved, k) => Waits(Reloaded, k)
    BY <2>2 DEF Waits
  <2>4. QED
    BY <2>1, <2>3 DEF RecordInv, Owed
<1>4. CASE ~Crash /\ ~\E m \in Msgs : Queue(m)
  <2>1. UNCHANGED file
    BY <1>4, OutSteps DEF Edited
  <2>2. ASSUME NEW k \in DOMAIN file, accepted'[file[k]] = 0, Waits(out, k), ~Withdraw(k)
        PROVE  Waits(out', k)
    BY <1>1, <1>4, <2>1, <2>2, WaitsStays
  <2>3. ASSUME NEW k \in DOMAIN file, accepted'[file[k]] = 0
        PROVE  accepted[file[k]] = 0
    BY <1>1, <2>3, AcceptedGrows
  <2>4. ASSUME NEW k \in DOMAIN file, Owed(k)'
        PROVE  Waits(out', k) /\ Waits(saved', k) /\ (pc' = "save" => Waits(image', k))
    <3>1. accepted'[file[k]] = 0 /\ accepted[file[k]] = 0 /\ file[k] \notin withdrawn /\ file[k] \notin withdrawn'
          /\ file[k] \in recorded'
      BY <2>1, <2>3, <2>4, RecordSteps DEF Owed
    <3>2. ~Withdraw(k)
      BY <1>1, <3>1 DEF Withdraw
    <3>3. CASE file[k] \in recorded
      <4>1. Owed(k)
        BY <3>1, <3>3 DEF Owed
      <4>2. Waits(out, k) /\ Waits(saved, k) /\ (pc = "save" => Waits(image, k))
        BY <4>1 DEF RecordInv
      <4>3. Waits(out', k)
        BY <2>2, <3>1, <3>2, <4>2
      <4>4. QED
        BY <4>2, <4>3, RecordSteps
    <3>4. CASE file[k] \notin recorded
      <4>1. QueueSave /\ pc # "save" /\ file[k] = Last(file)
        BY <3>1, <3>4, RecordSteps
      <4>2. k = Len(file)
        BY <1>1, <4>1 DEF QueueSave, Last, IsInjective
      <4>3. Waits(out, k)
        BY <3>1, <4>1, <4>2 DEF RecordInv, QueueSave
      <4>4. Waits(out', k) /\ saved' = out /\ out' = out /\ pc' = pc
        BY <4>1, <4>3 DEF QueueSave, BeingWritten, sender
      <4>5. QED
        BY <4>1, <4>3, <4>4
    <3>5. QED
      BY <3>3, <3>4
  <2>5. ASSUME ui' = "save", accepted'[Last(file)] = 0
        PROVE  Waits(out', Len(file))
    <3>1. ui = "save"
      BY <1>4, <2>5, RecordSteps
    <3>2. Len(file) \in DOMAIN file
      BY <1>1, <3>1
    <3>3. accepted[Last(file)] = 0 /\ accepted'[file[Len(file)]] = 0
      BY <2>3, <2>5, <3>2 DEF Last
    <3>4. Waits(out, Len(file)) /\ ~Withdraw(Len(file))
      BY <3>1, <3>3 DEF RecordInv, Withdraw
    <3>5. QED
      BY <2>2, <3>2, <3>3, <3>4
  <2>6. QED
    BY <2>1, <2>4, <2>5 DEF RecordInv
<1>5. QED
  BY <1>2, <1>3, <1>4

LEMMA RecordInvStays == TypeInv /\ RecordInv => RecordedStayQueued
<1> SUFFICES ASSUME TypeInv, RecordInv, NEW m \in recorded \ withdrawn, accepted[m] = 0,
                    NEW e \in AfterRestart(m)
             PROVE  e.state = "QUEUED" /\ ~e.deleted
  BY DEF RecordedStayQueued, StillQueued
<1>1. PICK k \in DOMAIN Reloaded : e = Reloaded[k] /\ e.msg = m
  BY DEF AfterRestart, ToSet
<1>2. /\ k \in DOMAIN file
      /\ k <= Len(saved) => k \in DOMAIN saved
      /\ Reloaded[k] = IF k <= Len(saved) THEN saved[k] ELSE Found(k)
  <2>1. Reloaded \in Seq(Entry) /\ Len(Reloaded) = Len(file) /\ file \in Seq(Msgs) /\ saved \in Seq(Entry)
    BY ReloadedTable DEF TypeInv, Tables, Covers
  <2>2. k \in DOMAIN file /\ (k <= Len(saved) => k \in DOMAIN saved)
    BY <2>1
  <2>3. QED
    BY <2>2, ReloadedTable DEF TypeInv
<1>3. file[k] = m
  <2>1. \A j \in DOMAIN saved : saved[j].msg = file[j]
    BY DEF TypeInv, Tables, Covers
  <2>2. QED
    BY <1>1, <1>2, <2>1 DEF Found
<1>4. Waits(saved, k)
  BY <1>2, <1>3 DEF RecordInv, Owed
<1>5. k <= Len(saved)
  BY <1>4 DEF Waits, TypeInv, Tables, Covers
<1>6. QED
  BY <1>1, <1>2, <1>4, <1>5 DEF Waits

\* A message that was recorded in the .toc file is still queued after any
\* restart, until a server has taken it or the user has withdrawn it.
THEOREM SendKeepsRecorded == Spec => []RecordedStayQueued
<1>1. Init => TypeInv /\ SentInv /\ RecordInv
  BY InitTypeInv DEF Init, SentInv, RecordInv
<1>2. TypeInv /\ SentInv /\ RecordInv /\ [Next]_vars => (TypeInv /\ SentInv /\ RecordInv)'
  BY TypeInductive, SentInductive, RecordInductive
<1>3. QED
  BY <1>1, <1>2, RecordInvStays, PTL DEF Spec
===============================================================================
