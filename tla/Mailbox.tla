------------------------------- MODULE Mailbox -------------------------------
(***************************************************************************)
(* One mailbox of the macmbx store: the mbox file, its table of contents   *)
(* on disk ("<mbox>.toc") and the table in memory that every operation     *)
(* works on (macmbx/macmbx.c, macmbx_build.c, macmbx_compact.c).           *)
(*                                                                         *)
(* The mbox file is a sequence of cells, the unit offsets and lengths are  *)
(* counted in.  Message m takes Size[m] cells <<m, 1>> .. <<m, Size[m]>>;  *)
(* the first one is its "From " line and headers, all that a scan of the   *)
(* file can recognise.                                                     *)
(*                                                                         *)
(* Appending and compacting change the mbox file at once, everything else  *)
(* changes only the table in memory until macmbx_toc_save writes it.  The  *)
(* loops of the scan and of the compaction are one step per turn, and the  *)
(* program may die between any two steps.                                  *)
(***************************************************************************)
EXTENDS Integers, Sequences, FiniteSets

CONSTANTS Msgs,         \* messages that may arrive, each at most once
          Size,         \* cells a message takes in the mbox file
          WithId,       \* messages that carry a Message-ID header
          NoId,         \* msg_id_hash of a summary that has none
          NoToc,        \* there is no .toc file
          Closed,       \* the view of a mailbox that is not open
          TornCompact   \* may the program die, or the save fail, between the
                        \* rename and the toc save of macmbx_compact?

\* The size check of macmbx_toc_validate forgives one byte either way, and
\* macmbx_toc_save stores the size plus one: anything from three bytes on is
\* noticed.  A real message has at least a "From " line of 39.
ASSUME SizeAssumption == Size \in [Msgs -> Nat \ (0 .. 2)]
ASSUME IdAssumption   == WithId \subseteq Msgs /\ NoId \notin Msgs
ASSUME TornAssumption == TornCompact \in BOOLEAN

Cell == UNION { {m} \X (1 .. Size[m]) : m \in Msgs }

\* MacmbxMsgSum.  id stands for what the list shows of a message (from,
\* subject, date), deleted for the flags; body_offset is left out.
Summary == [offset  : Nat,
            length  : Nat,
            id      : Msgs,
            hash    : Msgs \cup {NoId},
            deleted : BOOLEAN,
            serial  : Nat]

\* What macmbx_toc_save writes: count and summaries, boxSize, nextSerialNum.
TocFile == [msgs : Seq(Summary), box : Nat, next : Nat]

\* No file and no view are not a file and a view.
ASSUME NoTocAssumption  == NoToc \notin TocFile
ASSUME ClosedAssumption == \A S \in SUBSET Msgs : Closed \notin [S -> BOOLEAN]

VARIABLES mbox,     \* the mbox file
          disk,     \* the .toc file, or NoToc
          pc,       \* where the program is, see Phases
          msgs,     \* toc->msgs
          next,     \* toc->next_serial
          dirty,    \* toc->dirty
          old,      \* summaries of the rejected .toc file, to salvage from
          at,       \* loop index: cells scanned, or summaries copied
          start,    \* scan: offset of the message being read, or -1
          out,      \* compaction: the temporary file
          new,      \* compaction: new_msgs
          arrived,  \* history: messages appended so far
          discarded \* history: messages the user has ever deleted

file == <<mbox, disk>>
toc  == <<msgs, next, dirty>>
work == <<old, at, start, out, new>>
hist == <<arrived, discarded>>
vars == <<file, pc, toc, work, hist>>

\* shut: closed after a save; down: closed without one, or crashed; renamed:
\* the compacted mbox file is in place and the .toc file is not written yet.
Phases == {"shut", "down", "scan", "open", "copy", "renamed"}

TypeOK ==
    /\ mbox \in Seq(Cell)
    /\ disk \in TocFile \cup {NoToc}
    /\ pc \in Phases
    /\ msgs \in Seq(Summary)
    /\ next \in Nat
    /\ dirty \in BOOLEAN
    /\ old \in Seq(Summary)
    /\ at \in Nat
    /\ start \in Nat \cup {-1}
    /\ out \in Seq(Cell)
    /\ new \in Seq(Summary)
    /\ arrived \subseteq Msgs
    /\ discarded \subseteq Msgs
    \* indices stay inside the arrays they index, and the locals of a loop
    \* have their initial values outside it
    /\ pc = "scan" => at <= Len(mbox) /\ start < at
    /\ pc = "copy" => at <= Len(msgs)
    /\ pc \notin {"scan", "copy"} => at = 0
    /\ pc # "scan" => start = -1

-----------------------------------------------------------------------------
(* The .toc file                                                           *)

\* macmbx_toc_save: boxSize is the size of the mbox file now, plus one.
Saved == [msgs |-> msgs, box |-> Len(mbox) + 1, next |-> next]

\* Mutant: the size check is dropped (macmbx.c:488).
ValidWithoutSize(t) ==
    Len(mbox) > 0 =>
        \A i \in DOMAIN t.msgs : t.msgs[i].offset + t.msgs[i].length <= Len(mbox)

\* macmbx_toc_validate.  Both checks are skipped when the mbox file is empty.
Valid(t) ==
    Len(mbox) > 0 =>
        /\ t.box - Len(mbox) \in -1 .. 1
        /\ \A i \in DOMAIN t.msgs : t.msgs[i].offset + t.msgs[i].length <= Len(mbox)

Loadable == disk # NoToc /\ Valid(disk)

\* The binary search of macmbx_toc_rebuild, in C's indices: the index of a
\* summary with this offset, -1 if the search does not come across one (it
\* may miss one when old is not in mbox order).
Search(s, offset) ==
    LET probe[lo \in 0 .. Len(s), hi \in -1 .. Len(s) - 1] ==
            IF lo > hi THEN -1
            ELSE LET mid == (lo + hi) \div 2
                 IN  IF s[mid + 1].offset < offset THEN probe[mid + 1, hi]
                     ELSE IF s[mid + 1].offset > offset THEN probe[lo, mid - 1]
                     ELSE mid
    IN  probe[0, Len(s) - 1]

\* Mutant: the salvaged summary keeps its old serial number.
SalvagedWithOldSerial(n, s) ==
    LET i    == Search(s, n.offset) + 1
        same == {j \in DOMAIN s : s[j].hash = n.hash /\ s[j].length = n.length}
    IN  IF i \in DOMAIN s /\ s[i].offset = n.offset /\ s[i].length = n.length
        THEN s[i]
        ELSE IF n.hash # NoId /\ same # {}
        THEN [n EXCEPT !.deleted = \E j \in same : s[j].deleted /\ \A k \in same : j <= k]
        ELSE n

\* What macmbx_toc_rebuild makes of the freshly built summary n: the whole old
\* summary if one has its offset and length, else the flags of the first one
\* with its Message-ID and length, else n as it is.
Salvaged(n, s) ==
    LET i    == Search(s, n.offset) + 1
        same == {j \in DOMAIN s : s[j].hash = n.hash /\ s[j].length = n.length}
    IN  IF i \in DOMAIN s /\ s[i].offset = n.offset /\ s[i].length = n.length
        THEN [s[i] EXCEPT !.serial = n.serial]
        ELSE IF n.hash # NoId /\ same # {}
        THEN [n EXCEPT !.deleted = \E j \in same : s[j].deleted /\ \A k \in same : j <= k]
        ELSE n

-----------------------------------------------------------------------------
(* Opening and closing                                                     *)

\* macmbx_create leaves an empty mbox file with an empty .toc; a mailbox put
\* there by another program has none.
Init ==
    /\ mbox = <<>>
    /\ disk \in {NoToc, [msgs |-> <<>>, box |-> 1, next |-> 1]}
    /\ pc = "down"
    /\ msgs = <<>> /\ next = 0 /\ dirty = FALSE
    /\ old = <<>> /\ at = 0 /\ start = -1 /\ out = <<>> /\ new = <<>>
    /\ arrived = {} /\ discarded = {}

\* macmbx_toc_open, the .toc file is there and passes validation.
OpenLoad ==
    /\ pc \in {"shut", "down"}
    /\ Loadable
    /\ pc' = "open"
    /\ msgs' = disk.msgs
    /\ next' = disk.next
    /\ dirty' = FALSE
    /\ UNCHANGED <<file, work, hist>>

\* macmbx_toc_open, no .toc file or a rejected one: scan the mbox file.
OpenRebuild ==
    /\ pc \in {"shut", "down"}
    /\ ~Loadable
    /\ pc' = "scan"
    /\ msgs' = <<>>
    /\ next' = 1
    /\ dirty' = TRUE
    /\ old' = IF disk = NoToc THEN <<>> ELSE disk.msgs
    /\ UNCHANGED <<file, at, start, out, new, hist>>

\* Mutant: the two ends of the message are swapped (macmbx_build.c:330).
ScannedBackwards ==
    LET m == mbox[start + 1][1]
    IN  [offset  |-> start,
         length  |-> start - at,
         id      |-> m,
         hash    |-> IF m \in WithId THEN m ELSE NoId,
         deleted |-> FALSE,
         serial  |-> next]

\* The summary of the message that began at start and ends where the scan is.
Scanned ==
    LET m == mbox[start + 1][1]
    IN  [offset  |-> start,
         length  |-> at - start,
         id      |-> m,
         hash    |-> IF m \in WithId THEN m ELSE NoId,
         deleted |-> FALSE,
         serial  |-> next]

\* Mutant: next_serial is read and not incremented (macmbx_build.c:333).
PushScannedUncounted ==
    IF start = -1 THEN UNCHANGED <<msgs, next>>
    ELSE /\ msgs' = Append(msgs, Scanned)
         /\ next' = next

\* Save the message that has just ended, if there is one.
PushScanned ==
    IF start = -1 THEN UNCHANGED <<msgs, next>>
    ELSE /\ msgs' = Append(msgs, Scanned)
         /\ next' = next + 1

\* One turn of the loop of macmbx_toc_build.
ScanLine ==
    /\ pc = "scan"
    /\ at < Len(mbox)
    /\ IF mbox[at + 1][2] = 1
       THEN PushScanned /\ start' = at
       ELSE UNCHANGED <<msgs, next, start>>
    /\ at' = at + 1
    /\ UNCHANGED <<file, pc, dirty, old, out, new, hist>>

\* Mutant: the message that ends with the file is not saved.
ScanEndWithoutLast ==
    /\ pc = "scan"
    /\ at = Len(mbox)
    /\ msgs' = [i \in DOMAIN msgs |-> Salvaged(msgs[i], old)]
    /\ UNCHANGED next
    /\ pc' = "open"
    /\ old' = <<>> /\ at' = 0 /\ start' = -1
    /\ UNCHANGED <<file, dirty, out, new, hist>>

\* The end of macmbx_toc_build, then the salvage loop of macmbx_toc_rebuild.
ScanEnd ==
    /\ pc = "scan"
    /\ at = Len(mbox)
    /\ LET built == IF start = -1 THEN msgs ELSE Append(msgs, Scanned)
       IN  /\ msgs' = [i \in DOMAIN built |-> Salvaged(built[i], old)]
           /\ next' = IF start = -1 THEN next ELSE next + 1
    /\ pc' = "open"
    /\ old' = <<>> /\ at' = 0 /\ start' = -1
    /\ UNCHANGED <<file, dirty, out, new, hist>>

\* macmbx_registry_close_all: save if dirty, then free.  The freed table is
\* kept in msgs, as a record of what the user saw last.
CloseAll ==
    /\ pc = "open"
    /\ disk' = IF dirty THEN Saved ELSE disk
    /\ pc' = "shut"
    /\ dirty' = FALSE
    /\ UNCHANGED <<mbox, msgs, next, work, hist>>

\* Memory is gone: macmbx_toc_close does not save, and nor does a crash.
Forget ==
    /\ pc' = "down"
    /\ msgs' = <<>> /\ next' = 0 /\ dirty' = FALSE
    /\ old' = <<>> /\ at' = 0 /\ start' = -1 /\ out' = <<>> /\ new' = <<>>
    /\ UNCHANGED <<file, hist>>

\* macmbx_toc_close.
Close == pc = "open" /\ Forget

\* The program dies, in any step of a loop too.
Crash ==
    /\ pc \in {"scan", "open", "copy"} \/ (pc = "renamed" /\ TornCompact)
    /\ Forget

-----------------------------------------------------------------------------
(* Operations on the open mailbox                                          *)

Cells(m) == [k \in 1 .. Size[m] |-> <<m, k>>]

\* Mutant: the offset is taken before the file is opened for append, from the
\* last summary instead of the end of the file.
AppendAfterLastSummary(m) ==
    /\ pc = "open"
    /\ m \notin arrived
    /\ mbox' = mbox \o Cells(m)
    /\ msgs' = Append(msgs,
                 [offset  |-> IF msgs = <<>> THEN 0
                              ELSE msgs[Len(msgs)].offset + msgs[Len(msgs)].length,
                  length  |-> Size[m],
                  id      |-> m,
                  hash    |-> NoId,
                  deleted |-> FALSE,
                  serial  |-> next])
    /\ next' = next + 1
    /\ dirty' = TRUE
    /\ arrived' = arrived \cup {m}
    /\ UNCHANGED <<disk, pc, work, discarded>>

\* macmbx_append_message.  It does not compute msg_id_hash.
AppendMessage(m) ==
    /\ pc = "open"
    /\ m \notin arrived
    /\ mbox' = mbox \o Cells(m)
    /\ msgs' = Append(msgs,
                 [offset  |-> Len(mbox') - Size[m],
                  length  |-> Size[m],
                  id      |-> m,
                  hash    |-> NoId,
                  deleted |-> FALSE,
                  serial  |-> next])
    /\ next' = next + 1
    /\ dirty' = TRUE
    /\ arrived' = arrived \cup {m}
    /\ UNCHANGED <<disk, pc, work, discarded>>

\* Mutant: the flag is set but the table is not marked dirty.
DeleteNotDirty(i) ==
    /\ pc = "open"
    /\ msgs' = [msgs EXCEPT ![i].deleted = TRUE]
    /\ discarded' = discarded \cup {msgs[i].id}
    /\ UNCHANGED <<file, pc, next, dirty, work, arrived>>

\* macmbx_delete_message.
DeleteMessage(i) ==
    /\ pc = "open"
    /\ msgs' = [msgs EXCEPT ![i].deleted = TRUE]
    /\ discarded' = discarded \cup {msgs[i].id}
    /\ dirty' = TRUE
    /\ UNCHANGED <<file, pc, next, work, arrived>>

\* macmbx_undelete_message.
UndeleteMessage(i) ==
    /\ pc = "open"
    /\ msgs' = [msgs EXCEPT ![i].deleted = FALSE]
    /\ dirty' = TRUE
    /\ UNCHANGED <<file, pc, next, work, hist>>

\* macmbx_sort: some order of the summaries, by whatever field and data.
Sort ==
    /\ pc = "open"
    /\ Len(msgs) > 1
    /\ \E p \in [DOMAIN msgs -> DOMAIN msgs] :
          /\ \A i, j \in DOMAIN msgs : p[i] = p[j] => i = j
          /\ msgs' = [i \in DOMAIN msgs |-> msgs[p[i]]]
    /\ dirty' = TRUE
    /\ UNCHANGED <<file, pc, next, work, hist>>

\* macmbx_toc_save: temporary file, then rename.
Save ==
    /\ pc = "open"
    /\ disk' = Saved
    /\ dirty' = FALSE
    /\ UNCHANGED <<mbox, pc, msgs, next, work, hist>>

-----------------------------------------------------------------------------
(* Compaction                                                              *)

\* macmbx_compact, past the early return for a mailbox with nothing deleted.
CompactStart ==
    /\ pc = "open"
    /\ \E i \in DOMAIN msgs : msgs[i].deleted
    /\ pc' = "copy"
    /\ UNCHANGED <<file, toc, work, hist>>

\* Mutant: the copied summary keeps the offset it had in the old file.
CopyKeepingOffset ==
    /\ pc = "copy"
    /\ at < Len(msgs)
    /\ LET s == msgs[at + 1]
       IN  IF s.deleted THEN UNCHANGED <<out, new>>
           ELSE /\ s.offset + s.length <= Len(mbox)
                /\ out' = out \o SubSeq(mbox, s.offset + 1, s.offset + s.length)
                /\ new' = Append(new, s)
    /\ at' = at + 1
    /\ UNCHANGED <<file, pc, toc, old, start, hist>>

\* One turn of the copy loop: a deleted message is skipped, a live one goes to
\* the temporary file and its summary gets the offset it has there.
CopyMessage ==
    /\ pc = "copy"
    /\ at < Len(msgs)
    /\ LET s == msgs[at + 1]
       IN  IF s.deleted THEN UNCHANGED <<out, new>>
           ELSE /\ s.offset + s.length <= Len(mbox)
                /\ out' = out \o SubSeq(mbox, s.offset + 1, s.offset + s.length)
                /\ new' = Append(new, [s EXCEPT !.offset = Len(out)])
    /\ at' = at + 1
    /\ UNCHANGED <<file, pc, toc, old, start, hist>>

\* A read or a write fails (a message beyond the end of the file always does):
\* the temporary file is removed and nothing has changed.
CopyFails ==
    /\ pc = "copy"
    /\ pc' = "open"
    /\ at' = 0 /\ out' = <<>> /\ new' = <<>>
    /\ UNCHANGED <<file, toc, old, start, hist>>

\* The temporary file replaces the mbox file and the table its summaries.
CompactRename ==
    /\ pc = "copy"
    /\ at = Len(msgs)
    /\ mbox' = out
    /\ msgs' = new
    /\ dirty' = TRUE
    /\ pc' = "renamed"
    /\ at' = 0 /\ out' = <<>> /\ new' = <<>>
    /\ UNCHANGED <<disk, next, old, start, hist>>

\* The macmbx_toc_save that ends macmbx_compact.
CompactSave ==
    /\ pc = "renamed"
    /\ disk' = Saved
    /\ dirty' = FALSE
    /\ pc' = "open"
    /\ UNCHANGED <<mbox, msgs, next, work, hist>>

\* It fails; macmbx_compact ignores its result and reports success.
CompactSaveFails ==
    /\ pc = "renamed"
    /\ TornCompact
    /\ pc' = "open"
    /\ UNCHANGED <<file, toc, work, hist>>

-----------------------------------------------------------------------------

Next ==
    \/ OpenLoad \/ OpenRebuild \/ ScanLine \/ ScanEnd
    \/ CloseAll \/ Close \/ Crash
    \/ \E m \in Msgs : AppendMessage(m)
    \/ \E i \in DOMAIN msgs : DeleteMessage(i) \/ UndeleteMessage(i)
    \/ Sort \/ Save
    \/ CompactStart \/ CopyMessage \/ CopyFails
    \/ CompactRename \/ CompactSave \/ CompactSaveFails

Spec == Init /\ [][Next]_vars

-----------------------------------------------------------------------------
(* Properties                                                              *)

\* The cells from offset + 1 on are the whole message m.
Holds(f, offset, m) ==
    /\ offset + Size[m] <= Len(f)
    /\ \A k \in 1 .. Size[m] : f[offset + k] = <<m, k>>

\* The messages that are whole in the mbox file.
Stored == {m \in Msgs : \E j \in DOMAIN mbox : mbox[j] = <<m, 1>> /\ Holds(mbox, j - 1, m)}

Usable == pc \in {"open", "copy", "renamed"}

\* The table of an open mailbox describes the mbox file: each summary spans
\* exactly the message it shows, no message is listed twice and none is
\* missing, through every append, sort, compaction, crash and rebuild.
TocDescribesMbox ==
    Usable =>
        /\ \A i \in DOMAIN msgs : /\ msgs[i].length = Size[msgs[i].id]
                                  /\ Holds(mbox, msgs[i].offset, msgs[i].id)
        /\ \A i, j \in DOMAIN msgs : msgs[i].id = msgs[j].id => i = j
        /\ Stored \subseteq {msgs[i].id : i \in DOMAIN msgs}

\* A message the user never deleted stays in the mbox file: no interleaving of
\* saves, crashes and rebuilds makes a compaction drop it.
UndeletedStay == arrived \ discarded \subseteq Stored

\* Serial numbers name exported files and must not repeat: a rebuild deals
\* them out anew, whatever it salvages.
SerialsUnique ==
    Usable =>
        /\ \A i, j \in DOMAIN msgs : msgs[i].serial = msgs[j].serial => i = j
        /\ \A i \in DOMAIN msgs : msgs[i].serial < next

\* A mailbox closed by macmbx_registry_close_all opens again without a
\* rebuild and with the table the user last saw: every change marked the
\* table dirty, and what was saved passes validation.
CleanCloseReopens == pc = "shut" => Loadable /\ disk.msgs = msgs

\* A rebuild lists the whole file whatever is in it: from the first "From "
\* line to the end, every line belongs to exactly one summary and every
\* summary begins at a "From " line.
Rebuilt(t) ==
    LET froms == {k \in DOMAIN mbox : mbox[k][2] = 1}
    IN  /\ {t[i].offset + 1 : i \in DOMAIN t} = froms
        /\ \A i \in DOMAIN t :
              t[i].offset + t[i].length =
                  IF i = Len(t) THEN Len(mbox) ELSE t[i + 1].offset
RebuildCoversFile == [][pc = "scan" /\ pc' = "open" => Rebuilt(msgs')]_vars

-----------------------------------------------------------------------------
(* Mailbox implements MessageStore                                         *)

MarksOf(t) ==
    [m \in {t[i].id : i \in DOMAIN t} |-> \E i \in DOMAIN t : t[i].id = m /\ t[i].deleted]

Store == INSTANCE MessageStore WITH
            stored <- Stored,
            view   <- IF Usable THEN MarksOf(msgs) ELSE Closed,
            saved  <- IF disk = NoToc THEN [m \in {} |-> FALSE] ELSE MarksOf(disk.msgs)

\* Seen through the messages whole in the mbox file and the deleted flags of
\* the two tables, every step of the mailbox is one the store allows: append,
\* flag, save and compaction are its operations, loops are invisible, and
\* reopening after a crash shows saved marks or none.
ImplementsStore == Store!Spec

=============================================================================
