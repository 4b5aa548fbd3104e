--------------------------- MODULE Mailbox_proofs ---------------------------
(***************************************************************************)
(* Proofs about Mailbox, for any set of messages of any sizes.             *)
(***************************************************************************)
EXTENDS Mailbox, SequenceTheorems, FiniteSetTheorems, TLAPS

\* A summary of the scan is a Summary while the scan is inside the file.
LEMMA ScannedType ==
    ASSUME TypeOK, pc = "scan", start # -1
    PROVE  Scanned \in Summary
<1>1. start \in Nat /\ at \in Nat /\ start < at /\ at <= Len(mbox)
  BY DEF TypeOK
<1>2. start + 1 \in DOMAIN mbox
  BY <1>1 DEF TypeOK
<1>3. mbox[start + 1] \in Cell
  BY <1>2 DEF TypeOK
<1>4. mbox[start + 1][1] \in Msgs
  BY <1>3 DEF Cell
<1>5. at - start \in Nat
  BY <1>1
<1>6. next \in Nat
  BY DEF TypeOK
<1>7. QED
  BY <1>1, <1>4, <1>5, <1>6 DEF Scanned, Summary

\* Salvaging from a table of summaries yields a summary with the serial number
\* it had before.
LEMMA SalvagedType ==
    ASSUME NEW n \in Summary, NEW s \in Seq(Summary)
    PROVE  Salvaged(n, s) \in Summary /\ Salvaged(n, s).serial = n.serial
<1> DEFINE i    == Search(s, n.offset) + 1
           same == {j \in DOMAIN s : s[j].hash = n.hash /\ s[j].length = n.length}
           mark == \E j \in same : s[j].deleted /\ \A k \in same : j <= k
<1> HIDE DEF i
<1>1. CASE i \in DOMAIN s /\ s[i].offset = n.offset /\ s[i].length = n.length
  <2>1. s[i] \in Summary
    BY <1>1
  <2>2. /\ [s[i] EXCEPT !.serial = n.serial] \in Summary
        /\ [s[i] EXCEPT !.serial = n.serial].serial = n.serial
    BY <2>1 DEF Summary
  <2>3. Salvaged(n, s) = [s[i] EXCEPT !.serial = n.serial]
    BY <1>1 DEF Salvaged, i
  <2>4. QED
    BY <2>2, <2>3
<1>2. CASE /\ ~(i \in DOMAIN s /\ s[i].offset = n.offset /\ s[i].length = n.length)
           /\ n.hash # NoId /\ same # {}
  <2>1. Salvaged(n, s) = [n EXCEPT !.deleted = mark]
    BY <1>2 DEF Salvaged, i
  <2>2. mark \in BOOLEAN
    OBVIOUS
  <2> HIDE DEF mark
  <2>3. QED
    BY <2>1, <2>2 DEF Summary
<1>3. CASE /\ ~(i \in DOMAIN s /\ s[i].offset = n.offset /\ s[i].length = n.length)
           /\ ~(n.hash # NoId /\ same # {})
  BY <1>3 DEF Salvaged, i
<1>4. QED
  BY <1>1, <1>2, <1>3

\* Appending, and copying a stretch of the mbox file, in terms of types.
LEMMA AppendType ==
    ASSUME NEW S, NEW s \in Seq(S), NEW e \in S
    PROVE  Append(s, e) \in Seq(S)
BY AppendProperties

LEMMA CellsType ==
    ASSUME NEW m \in Msgs
    PROVE  Cells(m) \in Seq(Cell) /\ Len(Cells(m)) = Size[m]
<1>1. Size[m] \in Nat
  BY SizeAssumption
<1>2. \A k \in 1 .. Size[m] : <<m, k>> \in Cell
  BY DEF Cell
<1>3. Cells(m) \in [1 .. Size[m] -> Cell]
  BY <1>2 DEF Cells
<1>4. QED
  BY <1>1, <1>3, SeqDef, LenProperties, SMTT(30) DEF Cells

\* A table mapped summary by summary is a table of the same length.
LEMMA MapType ==
    ASSUME NEW s \in Seq(Summary), NEW t \in Seq(Summary)
    PROVE  /\ [i \in DOMAIN s |-> Salvaged(s[i], t)] \in Seq(Summary)
           /\ Len([i \in DOMAIN s |-> Salvaged(s[i], t)]) = Len(s)
<1>1. DOMAIN s = 1 .. Len(s) /\ Len(s) \in Nat
  OBVIOUS
<1>2. \A i \in DOMAIN s : Salvaged(s[i], t) \in Summary
  BY SalvagedType
<1>3. [i \in DOMAIN s |-> Salvaged(s[i], t)] \in [1 .. Len(s) -> Summary]
  BY <1>1, <1>2
<1>4. QED
  BY <1>1, <1>3, SeqDef

\* The next state of the scan's table after a message ended.
LEMMA PushType ==
    ASSUME TypeOK, pc = "scan", PushScanned
    PROVE  msgs' \in Seq(Summary) /\ next' \in Nat
<1>1. CASE start = -1
  BY <1>1 DEF PushScanned, TypeOK
<1>2. CASE start # -1
  <2>1. msgs' = Append(msgs, Scanned) /\ next' = next + 1
    BY <1>2 DEF PushScanned
  <2>2. Scanned \in Summary
    BY <1>2, ScannedType
  <2>3. msgs \in Seq(Summary) /\ next \in Nat
    BY DEF TypeOK
  <2>4. QED
    BY <2>1, <2>2, <2>3, AppendType
<1>3. QED
  BY <1>1, <1>2

-----------------------------------------------------------------------------

\* Initially every variable has its type.
LEMMA TypeOKInit == Init => TypeOK
<1> SUFFICES ASSUME Init PROVE TypeOK
  OBVIOUS
<1>1. [msgs |-> <<>>, box |-> 1, next |-> 1] \in TocFile
  BY DEF TocFile
<1>2. <<>> \in Seq(Cell) /\ <<>> \in Seq(Summary)
  OBVIOUS
<1>3. QED
  BY <1>1, <1>2 DEF Init, TypeOK, Phases

\* Every step keeps the types: one step of the proof per action.
LEMMA TypeOKNext == TypeOK /\ [Next]_vars => TypeOK'
<1> SUFFICES ASSUME TypeOK, [Next]_vars PROVE TypeOK'
  OBVIOUS
<1> USE DEF file, toc, work, hist, Phases
<1>1. CASE OpenLoad
  BY <1>1 DEF OpenLoad, Loadable, TypeOK, TocFile
<1>2. CASE OpenRebuild
  BY <1>2 DEF OpenRebuild, TypeOK, TocFile
<1>3. CASE ScanLine
  <2>1. CASE mbox[at + 1][2] = 1
    <3>1. msgs' \in Seq(Summary) /\ next' \in Nat
      BY <1>3, <2>1, PushType DEF ScanLine
    <3>2. QED
      BY <1>3, <2>1, <3>1 DEF ScanLine, TypeOK
  <2>2. CASE mbox[at + 1][2] # 1
    BY <1>3, <2>2 DEF ScanLine, TypeOK
  <2>3. QED
    BY <2>1, <2>2
<1>4. CASE ScanEnd
  <2> DEFINE built == IF start = -1 THEN msgs ELSE Append(msgs, Scanned)
  <2>1. built \in Seq(Summary)
    BY <1>4, ScannedType, AppendType DEF ScanEnd, TypeOK
  <2>2. msgs' \in Seq(Summary)
    BY <1>4, <2>1, MapType DEF ScanEnd, TypeOK
  <2>3. next' \in Nat
    BY <1>4 DEF ScanEnd, TypeOK
  <2>4. old' \in Seq(Summary)
    BY <1>4 DEF ScanEnd
  <2>5. UNCHANGED <<mbox, disk, dirty, out, new, arrived, discarded>>
    BY <1>4 DEF ScanEnd
  <2>6. pc' = "open" /\ at' = 0 /\ start' = -1
    BY <1>4 DEF ScanEnd
  <2>7. QED
    BY <2>2, <2>3, <2>4, <2>5, <2>6 DEF TypeOK
<1>5. CASE CloseAll
  <2>1. Saved \in TocFile
    BY DEF Saved, TocFile, TypeOK
  <2>2. QED
    BY <1>5, <2>1 DEF CloseAll, TypeOK
<1>6. CASE Forget
  <2>1. msgs' \in Seq(Summary) /\ old' \in Seq(Summary) /\ new' \in Seq(Summary)
    BY <1>6 DEF Forget
  <2>2. out' \in Seq(Cell)
    BY <1>6 DEF Forget
  <2>3. UNCHANGED <<mbox, disk, arrived, discarded>>
    BY <1>6 DEF Forget
  <2>4. pc' = "down" /\ next' = 0 /\ dirty' = FALSE /\ at' = 0 /\ start' = -1
    BY <1>6 DEF Forget
  <2>5. QED
    BY <2>1, <2>2, <2>3, <2>4 DEF TypeOK
<1>7. ASSUME NEW m \in Msgs, AppendMessage(m) PROVE TypeOK'
  <2>1. mbox' \in Seq(Cell) /\ Len(mbox') - Size[m] \in Nat
    BY <1>7, CellsType, ConcatProperties, SizeAssumption DEF AppendMessage, TypeOK
  <2> DEFINE n == [offset |-> Len(mbox') - Size[m], length |-> Size[m], id |-> m,
                   hash |-> NoId, deleted |-> FALSE, serial |-> next]
  <2>2. n \in Summary
    BY <2>1, SizeAssumption DEF Summary, TypeOK
  <2>3. msgs' \in Seq(Summary)
    BY <1>7, <2>2, AppendType DEF AppendMessage, TypeOK
  <2>4. QED
    BY <1>7, <2>1, <2>3 DEF AppendMessage, TypeOK
<1>8. ASSUME NEW i \in DOMAIN msgs, DeleteMessage(i) \/ UndeleteMessage(i) PROVE TypeOK'
  <2>1. \A b \in BOOLEAN : [msgs EXCEPT ![i].deleted = b] \in Seq(Summary)
    <3>1. ASSUME NEW b \in BOOLEAN PROVE [msgs[i] EXCEPT !.deleted = b] \in Summary
      <4>1. msgs[i] \in Summary
        BY DEF TypeOK
      <4>2. QED
        BY <4>1 DEF Summary
    <3>2. msgs \in Seq(Summary) /\ i \in 1 .. Len(msgs)
      BY DEF TypeOK
    <3>3. QED
      BY <3>1, <3>2, ExceptSeq
  <2>2. msgs' \in Seq(Summary)
    <3>1. CASE DeleteMessage(i)
      BY <3>1, <2>1, Zenon DEF DeleteMessage
    <3>2. CASE UndeleteMessage(i)
      BY <3>2, <2>1, Zenon DEF UndeleteMessage
    <3>3. QED
      BY <1>8, <3>1, <3>2
  <2>3. msgs[i].id \in Msgs
    <3>1. msgs[i] \in Summary
      BY DEF TypeOK
    <3>2. QED
      BY <3>1 DEF Summary
  <2>4. QED
    BY <1>8, <2>2, <2>3 DEF DeleteMessage, UndeleteMessage, TypeOK
<1>9. CASE Sort
  <2>1. PICK p \in [DOMAIN msgs -> DOMAIN msgs] : msgs' = [i \in DOMAIN msgs |-> msgs[p[i]]]
    BY <1>9 DEF Sort
  <2>2. msgs' \in [1 .. Len(msgs) -> Summary] /\ Len(msgs) \in Nat
    BY <2>1 DEF TypeOK
  <2>3. msgs' \in Seq(Summary)
    BY <2>2, SeqDef
  <2>4. QED
    BY <1>9, <2>3 DEF Sort, TypeOK
<1>10. CASE Save \/ CompactSave
  <2>1. Saved \in TocFile
    BY DEF Saved, TocFile, TypeOK
  <2>2. QED
    BY <1>10, <2>1 DEF Save, CompactSave, TypeOK
<1>11. CASE CompactStart
  BY <1>11 DEF CompactStart, TypeOK
<1>12. CASE CopyMessage
  <2> DEFINE s == msgs[at + 1]
  <2>1. s \in Summary /\ at + 1 <= Len(msgs)
    BY <1>12 DEF CopyMessage, TypeOK
  <2> HIDE DEF s
  <2>2. out' \in Seq(Cell) /\ new' \in Seq(Summary)
    <3>1. CASE s.deleted
      BY <1>12, <3>1 DEF CopyMessage, TypeOK, s
    <3>2. CASE ~s.deleted
      <4>1. s.offset \in Nat /\ s.length \in Nat /\ s.offset + s.length <= Len(mbox)
        BY <1>12, <2>1, <3>2 DEF CopyMessage, Summary, s
      <4>2. \A k \in s.offset + 1 .. s.offset + s.length : mbox[k] \in Cell
        BY <4>1, SMTT(30) DEF TypeOK
      <4>3. SubSeq(mbox, s.offset + 1, s.offset + s.length) \in Seq(Cell)
        BY <4>1, <4>2, SubSeqProperties
      <4>4. [s EXCEPT !.offset = Len(out)] \in Summary
        <5>1. Len(out) \in Nat
          BY DEF TypeOK
        <5>2. QED
          BY <2>1, <5>1 DEF Summary
      <4>5. /\ out' = out \o SubSeq(mbox, s.offset + 1, s.offset + s.length)
            /\ new' = Append(new, [s EXCEPT !.offset = Len(out)])
        BY <1>12, <3>2 DEF CopyMessage, s
      <4>6. out \in Seq(Cell) /\ new \in Seq(Summary)
        BY DEF TypeOK
      <4>7. QED
        BY <4>3, <4>4, <4>5, <4>6, ConcatProperties, AppendType
    <3>3. QED
      BY <3>1, <3>2
  <2>3. QED
    BY <1>12, <2>1, <2>2 DEF CopyMessage, TypeOK
<1>13. CASE CopyFails \/ CompactRename \/ CompactSaveFails
  <2>1. out' \in Seq(Cell) /\ new' \in Seq(Summary)
    <3>1. out' \in {out, <<>>} /\ new' \in {new, <<>>}
      BY <1>13 DEF CopyFails, CompactRename, CompactSaveFails
    <3>2. out' \in Seq(Cell)
      BY <3>1, EmptySeq, Zenon DEF TypeOK
    <3>3. new' \in Seq(Summary)
      BY <3>1, EmptySeq, Zenon DEF TypeOK
    <3>4. QED
      BY <3>2, <3>3
  <2>2. mbox' \in Seq(Cell) /\ msgs' \in Seq(Summary)
    BY <1>13 DEF CopyFails, CompactRename, CompactSaveFails, TypeOK
  <2>3. /\ pc \in {"copy", "renamed"} /\ pc' \in {"open", "renamed"}
        /\ at' = 0 /\ start' = start /\ dirty' \in {dirty, TRUE}
    <3>1. CASE CopyFails
      BY <3>1 DEF CopyFails
    <3>2. CASE CompactRename
      BY <3>2 DEF CompactRename
    <3>3. CASE CompactSaveFails
      BY <3>3 DEF CompactSaveFails, TypeOK
    <3>4. QED
      BY <1>13, <3>1, <3>2, <3>3
  <2>4. UNCHANGED <<disk, next, old, arrived, discarded>>
    BY <1>13 DEF CopyFails, CompactRename, CompactSaveFails
  <2>5. QED
    BY <2>1, <2>2, <2>3, <2>4 DEF TypeOK
<1>14. CASE UNCHANGED vars
  BY <1>14 DEF vars, TypeOK
<1>15. QED
  BY <1>1, <1>2, <1>3, <1>4, <1>5, <1>6, <1>7, <1>8, <1>9, <1>10, <1>11, <1>12,
     <1>13, <1>14 DEF Next, Close, Crash

\* Every variable of the mailbox keeps its type, and every loop index stays
\* inside the array it indexes, whatever the order of the operations.
THEOREM MailboxTypeOK == Spec => []TypeOK
BY TypeOKInit, TypeOKNext, PTL DEF Spec

-----------------------------------------------------------------------------
(* Serial numbers                                                          *)

\* The serial numbers of table t differ and are below n.
Numbered(t, n) ==
    /\ \A i, j \in DOMAIN t : t[i].serial = t[j].serial => i = j
    /\ \A i \in DOMAIN t : t[i].serial < n

\* SerialsUnique is not inductive: a table that is closed comes back from its
\* .toc file, so that one must be numbered too, and the new table of a
\* compaction must be made of summaries that the loop has already passed, or
\* the next one it copies could repeat a number.
SerialInv ==
    /\ TypeOK
    /\ Numbered(msgs, next)
    /\ disk # NoToc => Numbered(disk.msgs, disk.next)
    /\ pc # "copy" => new = <<>>
    /\ Numbered(new, next)
    /\ \A i \in DOMAIN new : \E j \in 1 .. at : new[i].serial = msgs[j].serial

LEMMA NumberedEmpty == \A n : Numbered(<<>>, n)
BY DEF Numbered

\* A message numbered with next, which is then incremented.
LEMMA NumberedAppend ==
    ASSUME NEW t \in Seq(Summary), NEW n \in Nat, Numbered(t, n),
           NEW e \in Summary, e.serial = n
    PROVE  Numbered(Append(t, e), n + 1)
<1> DEFINE u == Append(t, e)
<1>1. /\ u \in Seq(Summary) /\ Len(u) = Len(t) + 1
      /\ \A i \in 1 .. Len(t) : u[i] = t[i]
      /\ u[Len(t) + 1] = e
  BY AppendProperties
<1>2. \A i \in 1 .. Len(t) : t[i].serial \in Nat /\ t[i].serial < n
  <2>1. \A i \in 1 .. Len(t) : t[i] \in Summary
    OBVIOUS
  <2>2. QED
    BY <2>1, SMTT(30) DEF Numbered, Summary
<1>3. Len(t) \in Nat /\ DOMAIN t = 1 .. Len(t) /\ DOMAIN u = 1 .. Len(t) + 1
  BY <1>1
<1> HIDE DEF u
<1>4. \A i \in DOMAIN u : u[i].serial < n + 1
  BY <1>1, <1>2, <1>3
<1>5. \A i, j \in DOMAIN u : u[i].serial = u[j].serial => i = j
  BY <1>1, <1>2, <1>3 DEF Numbered
<1>6. QED
  BY <1>4, <1>5 DEF Numbered, u

\* A table with the same serial numbers in the same places.
LEMMA NumberedSame ==
    ASSUME NEW t, NEW u, NEW n, Numbered(t, n), DOMAIN u = DOMAIN t,
           \A i \in DOMAIN t : u[i].serial = t[i].serial
    PROVE  Numbered(u, n)
BY DEF Numbered

\* The same serial numbers in another order.
LEMMA NumberedSorted ==
    ASSUME NEW t, NEW n, Numbered(t, n), NEW p \in [DOMAIN t -> DOMAIN t],
           \A i, j \in DOMAIN t : p[i] = p[j] => i = j
    PROVE  Numbered([i \in DOMAIN t |-> t[p[i]]], n)
BY DEF Numbered

\* A copied summary has a number no summary copied before it has.
LEMMA NumberedCopy ==
    ASSUME SerialInv, CopyMessage
    PROVE  /\ Numbered(new', next')
           /\ \A i \in DOMAIN new' : \E j \in 1 .. at' : new'[i].serial = msgs'[j].serial
<1> DEFINE s == msgs[at + 1]
           c == [s EXCEPT !.offset = Len(out)]
<1>1. /\ msgs \in Seq(Summary) /\ new \in Seq(Summary) /\ at \in Nat
      /\ at + 1 \in DOMAIN msgs /\ Len(out) \in Nat
  BY DEF SerialInv, TypeOK, CopyMessage
<1>2. s \in Summary /\ c \in Summary /\ c.serial = s.serial
  <2>1. s \in Summary
    BY <1>1
  <2>2. QED
    BY <1>1, <2>1 DEF Summary
<1> HIDE DEF c
<1>3. at' = at + 1 /\ msgs' = msgs /\ next' = next
  BY DEF CopyMessage, toc
<1>4. CASE new' = new
  <2>1. \A i \in DOMAIN new : \E j \in 1 .. at + 1 : new[i].serial = msgs[j].serial
    BY <1>1 DEF SerialInv
  <2>2. QED
    BY <1>3, <1>4, <2>1 DEF SerialInv
<1>5. CASE new' = Append(new, c)
  <2>1. /\ new' \in Seq(Summary) /\ Len(new') = Len(new) + 1 /\ Len(new) \in Nat
        /\ \A i \in 1 .. Len(new) : new'[i] = new[i]
        /\ new'[Len(new) + 1] = c
    BY <1>1, <1>2, <1>5, AppendProperties
  <2>2. DOMAIN new' = 1 .. Len(new) + 1 /\ DOMAIN new = 1 .. Len(new)
    BY <1>1, <2>1
  <2>3. \A i \in DOMAIN new : \E j \in 1 .. at : new[i].serial = msgs[j].serial
    BY DEF SerialInv
  <2>4. \A i \in 1 .. Len(new) : new[i].serial # s.serial
    <3>1. ASSUME NEW i \in 1 .. Len(new), new[i].serial = s.serial PROVE FALSE
      <4>1. PICK j \in 1 .. at : new[i].serial = msgs[j].serial
        BY <2>2, <2>3
      <4>2. j \in DOMAIN msgs /\ j # at + 1
        BY <1>1
      <4>3. QED
        BY <1>1, <3>1, <4>1, <4>2 DEF SerialInv, Numbered
    <3>2. QED
      BY <3>1
  <2>5. s.serial < next
    BY <1>1 DEF SerialInv, Numbered
  <2>6. Numbered(new', next)
    BY <1>2, <2>1, <2>2, <2>4, <2>5 DEF SerialInv, Numbered
  <2>7. \A i \in DOMAIN new' : \E j \in 1 .. at + 1 : new'[i].serial = msgs[j].serial
    <3>1. ASSUME NEW i \in 1 .. Len(new)
          PROVE  \E j \in 1 .. at + 1 : new'[i].serial = msgs[j].serial
      <4>1. PICK j \in 1 .. at : new[i].serial = msgs[j].serial
        BY <2>2, <2>3
      <4>2. j \in 1 .. at + 1
        BY <1>1
      <4>3. QED
        BY <2>1, <4>1, <4>2
    <3>2. at + 1 \in 1 .. at + 1 /\ new'[Len(new) + 1].serial = msgs[at + 1].serial
      BY <1>1, <1>2, <2>1
    <3>3. QED
      BY <2>1, <2>2, <3>1, <3>2
  <2>8. QED
    BY <1>3, <2>6, <2>7
<1>6. QED
  BY <1>4, <1>5 DEF CopyMessage, c

LEMMA SerialInvNext == SerialInv /\ [Next]_vars => SerialInv'
<1> SUFFICES ASSUME SerialInv, [Next]_vars PROVE SerialInv'
  OBVIOUS
<1> USE DEF file, toc, work, hist
<1>0. TypeOK /\ TypeOK'
  BY TypeOKNext DEF SerialInv
<1>1. CASE OpenLoad
  <2>1. /\ UNCHANGED <<disk, new>> /\ new = <<>>
        /\ disk # NoToc /\ msgs' = disk.msgs /\ next' = disk.next
    BY <1>1 DEF OpenLoad, Loadable, SerialInv
  <2>2. QED
    BY <1>0, <2>1, NumberedEmpty DEF SerialInv
<1>2. CASE OpenRebuild
  BY <1>0, <1>2, NumberedEmpty DEF OpenRebuild, SerialInv
<1>3. CASE ScanLine
  <2>1. Numbered(msgs', next')
    <3>1. CASE UNCHANGED <<msgs, next>>
      BY <3>1 DEF SerialInv
    <3>2. CASE msgs' = Append(msgs, Scanned) /\ next' = next + 1 /\ start # -1
      <4>1. Scanned \in Summary /\ Scanned.serial = next
        BY <1>0, <1>3, <3>2, ScannedType DEF ScanLine, Scanned
      <4>2. msgs \in Seq(Summary) /\ next \in Nat
        BY <1>0 DEF TypeOK
      <4>3. QED
        BY <3>2, <4>1, <4>2, NumberedAppend DEF SerialInv
    <3>3. QED
      BY <1>3, <3>1, <3>2 DEF ScanLine, PushScanned
  <2>2. new = <<>> /\ new' = <<>> /\ disk' = disk
    BY <1>3 DEF ScanLine, SerialInv
  <2>3. QED
    BY <1>0, <2>1, <2>2, NumberedEmpty DEF SerialInv
<1>4. CASE ScanEnd
  <2> DEFINE built == IF start = -1 THEN msgs ELSE Append(msgs, Scanned)
  <2>1. built \in Seq(Summary) /\ Numbered(built, next')
    <3>1. CASE start = -1
      BY <1>0, <1>4, <3>1 DEF ScanEnd, SerialInv, TypeOK
    <3>2. CASE start # -1
      <4>1. Scanned \in Summary /\ Scanned.serial = next
        BY <1>0, <1>4, <3>2, ScannedType DEF ScanEnd, Scanned
      <4>2. msgs \in Seq(Summary) /\ next \in Nat
        BY <1>0 DEF TypeOK
      <4>3. next' = next + 1 /\ built = Append(msgs, Scanned)
        BY <1>4, <3>2 DEF ScanEnd
      <4>4. QED
        BY <4>1, <4>2, <4>3, AppendType, NumberedAppend DEF SerialInv
    <3>3. QED
      BY <3>1, <3>2
  <2>2. msgs' = [i \in DOMAIN built |-> Salvaged(built[i], old)]
    BY <1>4 DEF ScanEnd
  <2> HIDE DEF built
  <2>3. \A i \in DOMAIN built : msgs'[i].serial = built[i].serial
    <3>1. old \in Seq(Summary)
      BY <1>0 DEF TypeOK
    <3>2. QED
      BY <2>1, <2>2, <3>1, SalvagedType
  <2>4. Numbered(msgs', next')
    BY <2>1, <2>2, <2>3, NumberedSame
  <2>5. new' = <<>> /\ disk' = disk
    BY <1>4 DEF ScanEnd, SerialInv
  <2>6. QED
    BY <1>0, <2>4, <2>5, NumberedEmpty DEF SerialInv
<1>5. CASE CloseAll \/ Save \/ CompactSave
  <2>1. disk' = disk \/ disk' = Saved
    BY <1>5 DEF CloseAll, Save, CompactSave
  <2>2. Saved.msgs = msgs /\ Saved.next = next
    BY DEF Saved
  <2>3. disk' # NoToc => Numbered(disk'.msgs, disk'.next)
    BY <2>1, <2>2 DEF SerialInv
  <2>4. UNCHANGED <<msgs, next, new, at>> /\ new = <<>>
    BY <1>5 DEF CloseAll, Save, CompactSave, SerialInv
  <2>5. QED
    BY <1>0, <2>3, <2>4 DEF SerialInv
<1>6. CASE Forget
  BY <1>0, <1>6, NumberedEmpty DEF Forget, SerialInv
<1>7. ASSUME NEW m \in Msgs, AppendMessage(m) PROVE SerialInv'
  <2> DEFINE n == [offset |-> Len(mbox') - Size[m], length |-> Size[m], id |-> m,
                   hash |-> NoId, deleted |-> FALSE, serial |-> next]
  <2>1. msgs' = Append(msgs, n) /\ next' = next + 1 /\ n.serial = next
    BY <1>7 DEF AppendMessage
  <2>2. msgs \in Seq(Summary) /\ msgs' \in Seq(Summary) /\ next \in Nat
    BY <1>0 DEF TypeOK
  <2>3. n \in Summary
    <3>1. msgs'[Len(msgs) + 1] \in Summary /\ msgs'[Len(msgs) + 1] = n
      BY <2>1, <2>2
    <3>2. QED
      BY <3>1
  <2> HIDE DEF n
  <2>4. Numbered(msgs', next')
    BY <2>1, <2>2, <2>3, NumberedAppend DEF SerialInv
  <2>5. new' = <<>> /\ disk' = disk
    BY <1>7 DEF AppendMessage, SerialInv
  <2>6. QED
    BY <1>0, <2>4, <2>5, NumberedEmpty DEF SerialInv
<1>8. ASSUME NEW i \in DOMAIN msgs, DeleteMessage(i) \/ UndeleteMessage(i) PROVE SerialInv'
  <2>1. PICK b \in BOOLEAN : msgs' = [msgs EXCEPT ![i].deleted = b]
    BY <1>8, Zenon DEF DeleteMessage, UndeleteMessage
  <2>2. DOMAIN msgs' = DOMAIN msgs /\ \A j \in DOMAIN msgs : msgs'[j].serial = msgs[j].serial
    <3>1. ASSUME NEW j \in DOMAIN msgs PROVE msgs'[j].serial = msgs[j].serial
      <4>1. msgs[j] \in Summary
        BY <1>0 DEF TypeOK
      <4>2. msgs'[j] = IF i = j THEN [msgs[j] EXCEPT !.deleted = b] ELSE msgs[j]
        BY <2>1
      <4>3. QED
        BY <4>1, <4>2 DEF Summary
    <3>2. QED
      BY <2>1, <3>1
  <2>3. UNCHANGED <<disk, next, new>> /\ new = <<>>
    BY <1>8 DEF DeleteMessage, UndeleteMessage, SerialInv
  <2>4. Numbered(msgs', next')
    BY <2>2, <2>3, NumberedSame DEF SerialInv
  <2>5. QED
    BY <1>0, <2>3, <2>4, NumberedEmpty DEF SerialInv
<1>9. CASE Sort
  <2>1. PICK p \in [DOMAIN msgs -> DOMAIN msgs] :
           /\ \A i, j \in DOMAIN msgs : p[i] = p[j] => i = j
           /\ msgs' = [i \in DOMAIN msgs |-> msgs[p[i]]]
    BY <1>9 DEF Sort
  <2>2. UNCHANGED <<disk, next, new>> /\ new = <<>>
    BY <1>9 DEF Sort, SerialInv
  <2>3. Numbered(msgs', next')
    BY <2>1, <2>2, NumberedSorted DEF SerialInv
  <2>4. QED
    BY <1>0, <2>2, <2>3, NumberedEmpty DEF SerialInv
<1>10. CASE CompactStart \/ CompactSaveFails
  BY <1>0, <1>10, NumberedEmpty DEF CompactStart, CompactSaveFails, SerialInv
<1>11. CASE CopyMessage
  BY <1>0, <1>11, NumberedCopy DEF CopyMessage, SerialInv
<1>12. CASE CopyFails \/ CompactRename
  <2>1. /\ UNCHANGED <<disk, next>> /\ new' = <<>>
        /\ msgs' \in {msgs, new}
    BY <1>12 DEF CopyFails, CompactRename
  <2>2. Numbered(msgs', next')
    BY <2>1 DEF SerialInv
  <2>3. QED
    BY <1>0, <2>1, <2>2, NumberedEmpty DEF SerialInv
<1>13. CASE UNCHANGED vars
  BY <1>0, <1>13 DEF vars, SerialInv
<1>14. QED
  BY <1>1, <1>2, <1>3, <1>4, <1>5, <1>6, <1>7, <1>8, <1>9, <1>10, <1>11, <1>12, <1>13
     DEF Next, Close, Crash

\* No two messages of an open mailbox share a serial number, and the next one
\* is larger: macmbx_append_message, the scan, the salvage of a rebuild, the
\* copy loop of a compaction and every crash between them.
THEOREM MailboxSerials == Spec => []SerialsUnique
<1>1. Init => SerialInv
  BY TypeOKInit, NumberedEmpty DEF Init, SerialInv
<1>2. SerialInv => SerialsUnique
  BY DEF SerialInv, SerialsUnique, Numbered
<1>3. QED
  BY <1>1, <1>2, SerialInvNext, PTL DEF Spec

-----------------------------------------------------------------------------
(* What the mbox file and its tables describe                              *)

\* The file f is made of whole messages, each of them once.
Whole(f) ==
    /\ \A k \in DOMAIN f : f[k][2] <= k /\ Holds(f, k - f[k][2], f[k][1])
    /\ \A j, k \in DOMAIN f : f[j] = f[k] => j = k

\* The message m is in f.
Within(f, m) == \E k \in DOMAIN f : f[k][1] = m

\* Each summary of the table t spans the message it shows, within the first n
\* cells of f.
Spans(t, f, n) ==
    \A i \in DOMAIN t : /\ t[i].length = Size[t[i].id]
                        /\ t[i].offset + t[i].length <= n
                        /\ Holds(f, t[i].offset, t[i].id)

\* The table t shows the message m.
Shows(t, m) == \E i \in DOMAIN t : t[i].id = m

\* The table t is the contents of the first n cells of f.
Lists(t, f, n) ==
    /\ Spans(t, f, n)
    /\ \A i, j \in DOMAIN t : t[i].id = t[j].id => i = j
    /\ \A k \in 1 .. n : Shows(t, f[k][1])

\* A summary carries the hash of its own message or none, and is marked only
\* if the user has marked the message.
Honest(t, D) ==
    \A i \in DOMAIN t : t[i].hash \in {NoId, t[i].id} /\ (t[i].deleted => t[i].id \in D)

\* Appends are whole, and a compaction copies whole messages.
FileInv ==
    /\ Whole(mbox)
    /\ \A k \in DOMAIN mbox : mbox[k][1] \in arrived
    /\ \A m \in arrived \ discarded : Within(mbox, m)

\* A saved table lists the file as it was then, which has only grown since: by
\* a whole message, which validation notices, or not at all.
SavedInv ==
    disk # NoToc =>
        /\ Honest(disk.msgs, discarded)
        /\ pc # "renamed" => /\ disk.box >= 1
                             /\ disk.box = Len(mbox) + 1 \/ disk.box + 3 <= Len(mbox) + 1
                             /\ Lists(disk.msgs, mbox, disk.box - 1)

\* The table in memory lists the file, and is the saved one unless it is dirty.
TableInv ==
    /\ Honest(msgs, discarded)
    /\ pc \in {"open", "copy", "renamed", "shut"} => Lists(msgs, mbox, Len(mbox))
    /\ pc = "shut" => ~dirty
    /\ pc \in {"open", "copy", "shut"} /\ ~dirty =>
           disk # NoToc /\ disk.msgs = msgs /\ disk.box = Len(mbox) + 1

\* The scan has listed the cells before the message it is in, unmarked.
ScanInv ==
    pc = "scan" =>
        /\ dirty
        /\ old = IF disk = NoToc THEN <<>> ELSE disk.msgs
        /\ \A i \in DOMAIN msgs : ~msgs[i].deleted
        /\ start = -1 => at = 0 /\ msgs = <<>>
        /\ start # -1 => /\ mbox[start + 1][2] = 1
                         /\ \A k \in start + 1 .. at : mbox[k][1] = mbox[start + 1][1]
                         /\ Lists(msgs, mbox, start)

\* The file f with the table t is a file of its own, of the messages that are
\* not marked among the first n of the table s.
CopyOf(f, t, s, n, D) ==
    /\ Whole(f)
    /\ Lists(t, f, Len(f))
    /\ Honest(t, D)
    /\ \A i \in DOMAIN t : \E j \in 1 .. n : t[i].id = s[j].id /\ ~s[j].deleted
    /\ \A j \in 1 .. n : ~s[j].deleted => Shows(t, s[j].id)
    /\ \A i \in DOMAIN t : ~t[i].deleted

\* A compaction copies the messages that its loop has passed.
CopyInv ==
    /\ pc = "copy" => CopyOf(out, new, msgs, at, discarded)
    /\ pc # "copy" => out = <<>> /\ new = <<>>

MailboxInv == TypeOK /\ FileInv /\ SavedInv /\ TableInv /\ ScanInv /\ CopyInv

\* A cell of a file is a message and a place in it.
LEMMA CellFacts ==
    ASSUME NEW f \in Seq(Cell), NEW k \in DOMAIN f
    PROVE  /\ f[k][1] \in Msgs /\ f[k][2] \in 1 .. Size[f[k][1]]
           /\ f[k] = <<f[k][1], f[k][2]>>
           /\ Size[f[k][1]] \in Nat /\ Size[f[k][1]] >= 3
<1>1. f[k] \in Cell
  OBVIOUS
<1>2. PICK m \in Msgs : f[k] \in {m} \X (1 .. Size[m])
  BY <1>1 DEF Cell
<1>3. Size[m] \in Nat /\ Size[m] >= 3
  BY SizeAssumption
<1>4. f[k][1] = m /\ f[k][2] \in 1 .. Size[m] /\ f[k] = <<f[k][1], f[k][2]>>
  BY <1>2
<1>5. QED
  BY <1>3, <1>4

LEMMA SizeFacts == \A m \in Msgs : Size[m] \in Nat /\ Size[m] >= 3
BY SizeAssumption

LEMMA SummaryFacts ==
    ASSUME NEW t \in Seq(Summary), NEW i \in DOMAIN t
    PROVE  /\ t[i].offset \in Nat /\ t[i].length \in Nat /\ t[i].id \in Msgs
           /\ t[i].deleted \in BOOLEAN /\ t[i] \in Summary
<1>1. t[i] \in Summary
  OBVIOUS
<1>2. QED
  BY <1>1 DEF Summary

\* What Holds says of the cells of a message.
LEMMA HoldsCells ==
    ASSUME NEW f \in Seq(Cell), NEW o \in Nat, NEW m \in Msgs, Holds(f, o, m)
    PROVE  /\ o + Size[m] <= Len(f)
           /\ \A k \in 1 .. Size[m] : o + k \in DOMAIN f /\ f[o + k] = <<m, k>>
           /\ o + 1 \in DOMAIN f /\ f[o + 1] = <<m, 1>>
<1>1. Size[m] \in Nat /\ Size[m] >= 3
  BY SizeFacts
<1>2. o + Size[m] <= Len(f) /\ \A k \in 1 .. Size[m] : f[o + k] = <<m, k>>
  BY DEF Holds
<1>3. Len(f) \in Nat /\ DOMAIN f = 1 .. Len(f)
  BY LenProperties
<1>4. \A k \in 1 .. Size[m] : o + k \in DOMAIN f
  BY <1>1, <1>2, <1>3
<1>5. 1 \in 1 .. Size[m]
  BY <1>1
<1>6. QED
  BY <1>2, <1>4, <1>5

\* A message of a file of whole messages is whole in it, in one place.
LEMMA WholeMessage ==
    ASSUME NEW f \in Seq(Cell), Whole(f), NEW k \in DOMAIN f
    PROVE  /\ k - f[k][2] \in Nat
           /\ Holds(f, k - f[k][2], f[k][1])
<1>1. f[k][2] <= k /\ Holds(f, k - f[k][2], f[k][1])
  BY DEF Whole
<1>2. f[k][2] \in Nat /\ k \in Nat
  BY CellFacts
<1>3. QED
  BY <1>1, <1>2

LEMMA OnePlace ==
    ASSUME NEW f \in Seq(Cell), Whole(f), NEW m \in Msgs, NEW o \in Nat, NEW q \in Nat,
           Holds(f, o, m), Holds(f, q, m)
    PROVE  o = q
<1>1. o + 1 \in DOMAIN f /\ f[o + 1] = <<m, 1>>
  BY HoldsCells
<1>2. q + 1 \in DOMAIN f /\ f[q + 1] = <<m, 1>>
  BY HoldsCells
<1>3. o + 1 = q + 1
  BY <1>1, <1>2 DEF Whole
<1>4. QED
  BY <1>3

\* Two messages that begin at one place are one.
LEMMA OneMessage ==
    ASSUME NEW f \in Seq(Cell), NEW m \in Msgs, NEW n \in Msgs, NEW o \in Nat,
           Holds(f, o, m), Holds(f, o, n)
    PROVE  m = n
<1>1. f[o + 1] = <<m, 1>> /\ f[o + 1] = <<n, 1>>
  BY HoldsCells
<1>2. QED
  BY <1>1

\* The messages whole in f, for any file f.
StoredOf(f) == {m \in Msgs : \E j \in DOMAIN f : f[j] = <<m, 1>> /\ Holds(f, j - 1, m)}

\* The messages whole in a file of whole messages are those with a cell in it.
LEMMA StoredWithin ==
    ASSUME NEW f \in Seq(Cell), Whole(f)
    PROVE  StoredOf(f) = {m \in Msgs : Within(f, m)}
<1>1. ASSUME NEW m \in StoredOf(f) PROVE m \in Msgs /\ Within(f, m)
  <2>1. PICK j \in DOMAIN f : f[j] = <<m, 1>>
    BY DEF StoredOf
  <2>2. QED
    BY <2>1 DEF StoredOf, Within
<1>2. ASSUME NEW m \in Msgs, Within(f, m) PROVE m \in StoredOf(f)
  <2>1. PICK k \in DOMAIN f : f[k][1] = m
    BY <1>2 DEF Within
  <2> DEFINE o == k - f[k][2]
  <2>2. o \in Nat /\ Holds(f, o, m)
    BY <2>1, WholeMessage
  <2> HIDE DEF o
  <2>3. o + 1 \in DOMAIN f /\ f[o + 1] = <<m, 1>>
    BY <2>2, HoldsCells
  <2>4. (o + 1) - 1 = o
    BY <2>2
  <2>5. QED
    BY <2>2, <2>3, <2>4 DEF StoredOf
<1>3. QED
  BY <1>1, <1>2 DEF StoredOf

\* A whole message put at the end of a file of others.
LEMMA WholeAppend ==
    ASSUME NEW f \in Seq(Cell), Whole(f), NEW m \in Msgs, ~Within(f, m),
           NEW c \in Seq(Cell), Len(c) = Size[m],
           \A k \in 1 .. Size[m] : c[k] = <<m, k>>
    PROVE  /\ f \o c \in Seq(Cell) /\ Len(f \o c) = Len(f) + Size[m]
           /\ \A k \in 1 .. Len(f) : (f \o c)[k] = f[k]
           /\ Whole(f \o c)
           /\ Holds(f \o c, Len(f), m)
<1> DEFINE g == f \o c
<1>1. /\ g \in Seq(Cell) /\ Len(g) = Len(f) + Size[m]
      /\ \A k \in 1 .. Len(f) + Size[m] : g[k] = IF k <= Len(f) THEN f[k] ELSE c[k - Len(f)]
  BY ConcatProperties
<1>2. Len(f) \in Nat /\ Size[m] \in Nat /\ Size[m] >= 3
  BY SizeFacts, LenProperties
<1> HIDE DEF g
<1>3. \A k \in 1 .. Len(f) : g[k] = f[k]
  <2> SUFFICES ASSUME NEW k \in 1 .. Len(f) PROVE g[k] = f[k]
    OBVIOUS
  <2>1. k \in 1 .. Len(f) + Size[m] /\ k <= Len(f)
    BY <1>2
  <2>2. QED
    BY <1>1, <2>1
<1>4. \A k \in 1 .. Size[m] : g[Len(f) + k] = <<m, k>>
  <2> SUFFICES ASSUME NEW k \in 1 .. Size[m] PROVE g[Len(f) + k] = <<m, k>>
    OBVIOUS
  <2>1. Len(f) + k \in 1 .. Len(f) + Size[m] /\ ~(Len(f) + k <= Len(f)) /\ (Len(f) + k) - Len(f) = k
    BY <1>2
  <2>2. QED
    BY <1>1, <2>1
<1>5. Holds(g, Len(f), m)
  BY <1>1, <1>2, <1>4 DEF Holds
<1>6. DOMAIN g = 1 .. Len(f) + Size[m] /\ DOMAIN f = 1 .. Len(f)
  BY <1>1, <1>2, LenProperties
<1>7. \A k \in DOMAIN g : \/ k \in DOMAIN f
                          \/ k - Len(f) \in 1 .. Size[m] /\ g[k] = <<m, k - Len(f)>>
  <2> SUFFICES ASSUME NEW k \in DOMAIN g, k \notin DOMAIN f
               PROVE  k - Len(f) \in 1 .. Size[m] /\ g[k] = <<m, k - Len(f)>>
    OBVIOUS
  <2>1. k - Len(f) \in 1 .. Size[m] /\ Len(f) + (k - Len(f)) = k
    BY <1>2, <1>6
  <2>2. QED
    BY <1>4, <2>1
<1>8. ASSUME NEW k \in DOMAIN g PROVE g[k][2] <= k /\ Holds(g, k - g[k][2], g[k][1])
  <2>1. CASE k \in DOMAIN f
    <3>1. g[k] = f[k]
      BY <1>3, <1>6, <2>1
    <3> DEFINE o == k - f[k][2]
               n == f[k][1]
    <3>2. o \in Nat /\ Holds(f, o, n)
      BY <2>1, WholeMessage
    <3>3. n \in Msgs /\ f[k][2] <= k /\ Size[n] \in Nat
      BY <2>1, CellFacts DEF Whole
    <3> HIDE DEF o, n
    <3>4. /\ o + Size[n] <= Len(f)
          /\ \A j \in 1 .. Size[n] : o + j \in DOMAIN f /\ f[o + j] = <<n, j>>
      BY <3>2, <3>3, HoldsCells
    <3>5. Holds(g, o, n)
      <4>1. o + Size[n] <= Len(g)
        BY <1>1, <1>2, <3>2, <3>3, <3>4, SMTT(30)
      <4>2. \A j \in 1 .. Size[n] : g[o + j] = <<n, j>>
        BY <1>3, <1>6, <3>4
      <4>3. QED
        BY <4>1, <4>2 DEF Holds
    <3>6. QED
      BY <3>1, <3>3, <3>5 DEF o, n
  <2>2. CASE k - Len(f) \in 1 .. Size[m] /\ g[k] = <<m, k - Len(f)>>
    <3>1. k - (k - Len(f)) = Len(f) /\ k - Len(f) <= k
      BY <1>2, <1>6, <2>2
    <3>2. QED
      BY <1>5, <2>2, <3>1
  <2>3. QED
    BY <1>7, <2>1, <2>2
<1>9. ASSUME NEW j \in DOMAIN g, NEW k \in DOMAIN g, g[j] = g[k] PROVE j = k
  <2>1. ASSUME NEW i \in DOMAIN f, NEW q, g[i] = <<m, q>> PROVE FALSE
    <3>1. f[i][1] = m
      BY <1>3, <1>6, <2>1
    <3>2. QED
      BY <3>1 DEF Within
  <2>2. CASE j \in DOMAIN f /\ k \in DOMAIN f
    BY <1>3, <1>6, <1>9, <2>2 DEF Whole
  <2>3. CASE j \notin DOMAIN f /\ k \notin DOMAIN f
    <3>1. j - Len(f) = k - Len(f) /\ j \in Nat /\ k \in Nat
      BY <1>6, <1>7, <1>9, <2>3
    <3>2. QED
      BY <1>2, <3>1
  <2>4. QED
    BY <1>7, <1>9, <2>1, <2>2, <2>3
<1>10. Whole(g)
  BY <1>8, <1>9 DEF Whole
<1>11. QED
  BY <1>1, <1>3, <1>5, <1>10 DEF g

\* A table of the first n cells, followed by a summary of the message that
\* begins there, is a table of the cells up to the end of that message.
LEMMA ListsPush ==
    ASSUME NEW f \in Seq(Cell), Whole(f), NEW t \in Seq(Summary), NEW n \in Nat,
           Lists(t, f, n), NEW e \in Summary,
           e.offset = n, e.length = Size[e.id], Holds(f, n, e.id)
    PROVE  Lists(Append(t, e), f, n + Size[e.id])
<1> DEFINE u == Append(t, e)
           m == e.id
<1>1. /\ u \in Seq(Summary) /\ Len(u) = Len(t) + 1
      /\ \A i \in 1 .. Len(t) : u[i] = t[i]
      /\ u[Len(t) + 1] = e
  BY AppendProperties
<1>2. m \in Msgs /\ Size[m] \in Nat /\ Size[m] >= 3
  <2>1. m \in Msgs
    BY DEF Summary
  <2>2. QED
    BY <2>1, SizeFacts
<1>3. /\ n + Size[m] <= Len(f)
      /\ \A k \in 1 .. Size[m] : f[n + k] = <<m, k>>
  BY <1>2, HoldsCells
<1>4. Len(t) \in Nat /\ DOMAIN t = 1 .. Len(t) /\ DOMAIN u = 1 .. Len(t) + 1
  BY <1>1
<1> HIDE DEF u
<1>5. ASSUME NEW i \in DOMAIN t
      PROVE  /\ t[i].length = Size[t[i].id] /\ t[i].offset + t[i].length <= n
             /\ Holds(f, t[i].offset, t[i].id)
             /\ t[i].offset \in Nat /\ t[i].length \in Nat /\ t[i].id \in Msgs
             /\ t[i].id # m
  <2>1. /\ t[i].length = Size[t[i].id] /\ t[i].offset + t[i].length <= n
        /\ Holds(f, t[i].offset, t[i].id)
    BY DEF Lists, Spans
  <2>2. t[i].offset \in Nat /\ t[i].length \in Nat /\ t[i].id \in Msgs
    BY SummaryFacts
  <2>3. ASSUME t[i].id = m PROVE FALSE
    <3>1. t[i].offset = n
      BY <1>2, <2>1, <2>2, <2>3, OnePlace
    <3>2. t[i].length >= 3
      BY <1>2, <2>1, <2>3
    <3>3. QED
      BY <2>1, <2>2, <3>1, <3>2
  <2>4. QED
    BY <2>1, <2>2, <2>3
<1>6. Spans(u, f, n + Size[m])
  <2> SUFFICES ASSUME NEW i \in DOMAIN u
               PROVE  /\ u[i].length = Size[u[i].id]
                      /\ u[i].offset + u[i].length <= n + Size[m]
                      /\ Holds(f, u[i].offset, u[i].id)
    BY DEF Spans
  <2>1. CASE i \in DOMAIN t
    <3>1. u[i] = t[i]
      BY <1>1, <1>4, <2>1
    <3>2. t[i].offset + t[i].length <= n + Size[m]
      BY <1>2, <1>5, <2>1
    <3>3. QED
      BY <1>5, <2>1, <3>1, <3>2
  <2>2. CASE i = Len(t) + 1
    BY <1>1, <1>2, <2>2
  <2>3. QED
    BY <1>4, <2>1, <2>2
<1>7. ASSUME NEW i \in DOMAIN u, NEW j \in DOMAIN u, u[i].id = u[j].id PROVE i = j
  <2>1. \A k \in DOMAIN u : k \in DOMAIN t \/ k = Len(t) + 1
    BY <1>4
  <2>2. \A k \in DOMAIN t : u[k] = t[k] /\ t[k].id # m
    BY <1>1, <1>4, <1>5
  <2>3. QED
    BY <1>1, <1>7, <2>1, <2>2 DEF Lists
<1>8. ASSUME NEW k \in 1 .. n + Size[m] PROVE Shows(u, f[k][1])
  <2>1. CASE k \in 1 .. n
    <3>1. PICK i \in DOMAIN t : t[i].id = f[k][1]
      BY <2>1 DEF Lists, Shows
    <3>2. i \in DOMAIN u /\ u[i] = t[i]
      BY <1>1, <1>4
    <3>3. QED
      BY <3>1, <3>2 DEF Shows
  <2>2. CASE k \notin 1 .. n
    <3>1. k - n \in 1 .. Size[m] /\ n + (k - n) = k
      BY <1>2, <2>2
    <3>2. f[k] = <<m, k - n>>
      BY <1>3, <3>1
    <3>3. Len(t) + 1 \in DOMAIN u /\ u[Len(t) + 1].id = f[k][1]
      BY <1>1, <1>4, <3>2
    <3>4. QED
      BY <3>3 DEF Shows
  <2>3. QED
    BY <2>1, <2>2
<1>9. QED
  BY <1>6, <1>7, <1>8 DEF Lists, u

\* A table of a whole file shows the messages that are in it.
LEMMA ShowsWithin ==
    ASSUME NEW f \in Seq(Cell), NEW t \in Seq(Summary), Lists(t, f, Len(f)), NEW m
    PROVE  Within(f, m) <=> Shows(t, m)
<1>1. DOMAIN f = 1 .. Len(f)
  BY LenProperties
<1>2. ASSUME Within(f, m) PROVE Shows(t, m)
  BY <1>1, <1>2 DEF Lists, Within
<1>3. ASSUME NEW i \in DOMAIN t, t[i].id = m PROVE Within(f, m)
  <2>1. Holds(f, t[i].offset, t[i].id)
    BY DEF Lists, Spans
  <2>2. t[i].offset \in Nat /\ t[i].id \in Msgs
    BY SummaryFacts
  <2> DEFINE o == t[i].offset
  <2> HIDE DEF o
  <2>3. o + 1 \in DOMAIN f /\ f[o + 1] = <<m, 1>>
    BY <1>3, <2>1, <2>2, HoldsCells DEF o
  <2>4. QED
    BY <2>3 DEF Within
<1>4. QED
  BY <1>2, <1>3 DEF Shows

\* Cells put after the first n do not matter to a table of these.
LEMMA ListsLonger ==
    ASSUME NEW f \in Seq(Cell), NEW g \in Seq(Cell), NEW t \in Seq(Summary), NEW n \in Nat,
           Lists(t, f, n), n <= Len(f), Len(f) <= Len(g),
           \A k \in 1 .. Len(f) : g[k] = f[k]
    PROVE  Lists(t, g, n)
<1>1. Len(f) \in Nat /\ Len(g) \in Nat /\ DOMAIN f = 1 .. Len(f)
  BY LenProperties
<1>2. Spans(t, g, n)
  <2> SUFFICES ASSUME NEW i \in DOMAIN t
               PROVE  /\ t[i].length = Size[t[i].id] /\ t[i].offset + t[i].length <= n
                      /\ Holds(g, t[i].offset, t[i].id)
    BY DEF Spans
  <2>1. /\ t[i].length = Size[t[i].id] /\ t[i].offset + t[i].length <= n
        /\ Holds(f, t[i].offset, t[i].id)
    BY DEF Lists, Spans
  <2> DEFINE o == t[i].offset
             m == t[i].id
  <2>2. o \in Nat /\ m \in Msgs /\ Size[m] \in Nat
    BY SummaryFacts, SizeFacts
  <2> HIDE DEF o, m
  <2>3. Holds(f, o, m)
    BY <2>1 DEF o, m
  <2>4. /\ o + Size[m] <= Len(f)
        /\ \A j \in 1 .. Size[m] : o + j \in DOMAIN f /\ f[o + j] = <<m, j>>
    BY <2>2, <2>3, HoldsCells
  <2>5. \A j \in 1 .. Size[m] : g[o + j] = <<m, j>>
    BY <1>1, <2>4
  <2>6. o + Size[m] <= Len(g)
    BY <1>1, <2>2, <2>4
  <2>7. Holds(g, o, m)
    BY <2>5, <2>6 DEF Holds
  <2>8. QED
    BY <2>1, <2>7 DEF o, m
<1>3. \A k \in 1 .. n : g[k] = f[k]
  BY <1>1
<1>4. QED
  BY <1>2, <1>3 DEF Lists

\* A table without summaries, and a file without cells.
LEMMA ListsNothing == \A f : Lists(<<>>, f, 0)
BY DEF Lists, Spans, Shows

LEMMA WholeNothing == Whole(<<>>) /\ \A m : ~Within(<<>>, m)
BY DEF Whole, Within

\* The same messages at the same places.
LEMMA ListsAlike ==
    ASSUME NEW t, NEW u, NEW f, NEW n, Lists(t, f, n), DOMAIN u = DOMAIN t,
           \A i \in DOMAIN t : /\ u[i].offset = t[i].offset /\ u[i].length = t[i].length
                               /\ u[i].id = t[i].id
    PROVE  Lists(u, f, n)
BY DEF Lists, Spans, Shows

\* The same summaries in another order.
LEMMA ListsSorted ==
    ASSUME NEW t \in Seq(Summary), NEW f, NEW n, Lists(t, f, n),
           NEW p \in [DOMAIN t -> DOMAIN t], \A i, j \in DOMAIN t : p[i] = p[j] => i = j
    PROVE  /\ Lists([i \in DOMAIN t |-> t[p[i]]], f, n)
           /\ \A k \in DOMAIN t : \E i \in DOMAIN t : p[i] = k
<1>1. \A k \in DOMAIN t : \E i \in DOMAIN t : p[i] = k
  <2> DEFINE S == DOMAIN t
  <2>1. IsFiniteSet(S)
    BY FS_Interval, LenProperties
  <2>2. p \in Injection(S, S)
    BY DEF Injection, IsInjective
  <2>3. p \in Surjection(S, S)
    BY <2>1, <2>2, FS_Injection
  <2>4. QED
    BY <2>3 DEF Surjection
<1> DEFINE u == [i \in DOMAIN t |-> t[p[i]]]
<1>2. DOMAIN u = DOMAIN t /\ \A i \in DOMAIN t : u[i] = t[p[i]] /\ p[i] \in DOMAIN t
  OBVIOUS
<1> HIDE DEF u
<1>3. Spans(u, f, n)
  BY <1>2 DEF Lists, Spans
<1>4. \A i, j \in DOMAIN u : u[i].id = u[j].id => i = j
  BY <1>2 DEF Lists
<1>5. ASSUME NEW k \in 1 .. n PROVE Shows(u, f[k][1])
  <2>1. PICK i \in DOMAIN t : t[i].id = f[k][1]
    BY DEF Lists, Shows
  <2>2. PICK j \in DOMAIN t : p[j] = i
    BY <1>1
  <2>3. QED
    BY <1>2, <2>1, <2>2 DEF Shows
<1>6. QED
  BY <1>1, <1>3, <1>4, <1>5 DEF Lists, u

\* A summary added to a table of honest ones.
LEMMA HonestAppend ==
    ASSUME NEW t \in Seq(Summary), NEW D, Honest(t, D), NEW e \in Summary,
           e.hash \in {NoId, e.id}, e.deleted => e.id \in D
    PROVE  Honest(Append(t, e), D)
<1> DEFINE u == Append(t, e)
<1>1. /\ u \in Seq(Summary) /\ Len(u) = Len(t) + 1
      /\ \A i \in 1 .. Len(t) : u[i] = t[i]
      /\ u[Len(t) + 1] = e
  BY AppendProperties
<1>2. Len(t) \in Nat /\ DOMAIN t = 1 .. Len(t) /\ DOMAIN u = 1 .. Len(t) + 1
  BY <1>1
<1> HIDE DEF u
<1>3. ASSUME NEW i \in DOMAIN u
      PROVE  u[i].hash \in {NoId, u[i].id} /\ (u[i].deleted => u[i].id \in D)
  <2>1. CASE i \in DOMAIN t
    <3>1. u[i] = t[i]
      BY <1>1, <1>2, <2>1
    <3>2. QED
      BY <2>1, <3>1 DEF Honest
  <2>2. CASE i = Len(t) + 1
    BY <1>1, <2>2
  <2>3. QED
    BY <1>2, <2>1, <2>2
<1>4. QED
  BY <1>3 DEF Honest, u

LEMMA HonestAlike ==
    ASSUME NEW t, NEW u, NEW D, Honest(t, D), DOMAIN u = DOMAIN t,
           \A i \in DOMAIN t : /\ u[i].id = t[i].id /\ u[i].hash = t[i].hash
                               /\ u[i].deleted => t[i].deleted \/ t[i].id \in D
    PROVE  Honest(u, D)
BY DEF Honest

LEMMA HonestMore ==
    ASSUME NEW t, NEW D, NEW E, Honest(t, D), D \subseteq E
    PROVE  Honest(t, E)
BY DEF Honest

LEMMA HonestNothing == \A D : Honest(<<>>, D)
BY DEF Honest

-----------------------------------------------------------------------------
(* The scan                                                                *)

\* The scan is at the end of the message it is in when it finds the first cell
\* of another or the end of the file.
LEMMA ScanMessageEnds ==
    ASSUME TypeOK, FileInv, ScanInv, pc = "scan", start # -1,
           at < Len(mbox) => mbox[at + 1][2] = 1
    PROVE  /\ start \in Nat /\ start + 1 \in DOMAIN mbox
           /\ Holds(mbox, start, mbox[start + 1][1])
           /\ at = start + Size[mbox[start + 1][1]]
<1> DEFINE m == mbox[start + 1][1]
<1>1. /\ mbox \in Seq(Cell) /\ Len(mbox) \in Nat /\ DOMAIN mbox = 1 .. Len(mbox)
      /\ start \in Nat /\ at \in Nat /\ start < at /\ at <= Len(mbox)
  BY LenProperties DEF TypeOK
<1>2. /\ mbox[start + 1][2] = 1
      /\ \A k \in start + 1 .. at : mbox[k][1] = m
  BY DEF ScanInv
<1>3. start + 1 \in DOMAIN mbox
  BY <1>1
<1>4. m \in Msgs /\ Size[m] \in Nat /\ Size[m] >= 3
  BY <1>1, <1>3, CellFacts
<1>5. Holds(mbox, start, m)
  <2>1. (start + 1) - 1 = start
    BY <1>1
  <2>2. Holds(mbox, (start + 1) - mbox[start + 1][2], m)
    BY <1>1, <1>3, WholeMessage DEF FileInv
  <2>3. QED
    BY <1>2, <2>1, <2>2
<1> HIDE DEF m
<1>6. /\ start + Size[m] <= Len(mbox)
      /\ \A k \in 1 .. Size[m] : start + k \in DOMAIN mbox /\ mbox[start + k] = <<m, k>>
  BY <1>1, <1>4, <1>5, HoldsCells
<1>7. ASSUME at < start + Size[m] PROVE FALSE
  <2>1. at < Len(mbox)
    BY <1>1, <1>4, <1>6, <1>7
  <2>2. (at + 1) - start \in 2 .. Size[m] /\ start + ((at + 1) - start) = at + 1
    BY <1>1, <1>4, <1>7
  <2> DEFINE k == (at + 1) - start
  <2> HIDE DEF k
  <2>3. k \in 1 .. Size[m] /\ k # 1 /\ start + k = at + 1
    BY <2>2 DEF k
  <2>4. mbox[at + 1] = <<m, k>>
    BY <1>6, <2>3
  <2>5. QED
    BY <2>1, <2>3, <2>4
<1>8. ASSUME at > start + Size[m] PROVE FALSE
  <2> DEFINE k == start + Size[m] + 1
  <2>1. k \in start + 1 .. at /\ k \in DOMAIN mbox /\ k > start + Size[m]
    BY <1>1, <1>4, <1>8
  <2> HIDE DEF k
  <2>2. mbox[k][1] = m
    BY <1>2, <2>1
  <2> DEFINE j == mbox[k][2]
  <2>3. j \in 1 .. Size[m] /\ mbox[k] = <<m, j>>
    BY <1>1, <2>1, <2>2, CellFacts
  <2> HIDE DEF j
  <2>4. start + j \in DOMAIN mbox /\ mbox[start + j] = mbox[k]
    BY <1>6, <2>3
  <2>5. start + j = k
    BY <2>1, <2>4 DEF FileInv, Whole
  <2>6. QED
    BY <1>1, <1>4, <2>1, <2>3, <2>5
<1>9. at = start + Size[m]
  BY <1>1, <1>4, <1>7, <1>8
<1>10. QED
  BY <1>1, <1>3, <1>5, <1>9 DEF m

\* The summary that is then made describes it, and the table is complete up to
\* the place of the scan.
LEMMA ScannedListed ==
    ASSUME TypeOK, FileInv, TableInv, ScanInv, pc = "scan", start # -1,
           at < Len(mbox) => mbox[at + 1][2] = 1
    PROVE  /\ Append(msgs, Scanned) \in Seq(Summary)
           /\ Lists(Append(msgs, Scanned), mbox, at)
           /\ Honest(Append(msgs, Scanned), discarded)
           /\ \A i \in DOMAIN Append(msgs, Scanned) : ~Append(msgs, Scanned)[i].deleted
<1> DEFINE m == mbox[start + 1][1]
           e == Scanned
<1>1. start \in Nat /\ Holds(mbox, start, m) /\ at = start + Size[m]
  BY ScanMessageEnds
<1>2. e \in Summary
  BY ScannedType
<1>3. mbox \in Seq(Cell) /\ msgs \in Seq(Summary)
  BY DEF TypeOK
<1>4. m \in Msgs /\ Size[m] \in Nat
  BY <1>3, ScanMessageEnds, CellFacts
<1>5. /\ e.offset = start /\ e.length = at - start /\ e.id = m
      /\ e.hash \in {NoId, m} /\ e.deleted = FALSE
  BY DEF Scanned
<1> HIDE DEF e, m
<1>6. e.length = Size[e.id]
  BY <1>1, <1>4, <1>5
<1>7. Append(msgs, e) \in Seq(Summary)
  BY <1>2, <1>3, AppendType
<1>8. Lists(msgs, mbox, start)
  BY DEF ScanInv
<1>9. Lists(Append(msgs, e), mbox, start + Size[e.id])
  <2>1. Holds(mbox, start, e.id)
    BY <1>1, <1>5
  <2>2. Whole(mbox)
    BY DEF FileInv
  <2>3. QED
    BY <1>1, <1>2, <1>3, <1>5, <1>6, <1>8, <2>1, <2>2, ListsPush
<1>10. Lists(Append(msgs, e), mbox, at)
  BY <1>1, <1>5, <1>9
<1>11. Honest(Append(msgs, e), discarded)
  BY <1>2, <1>3, <1>5, HonestAppend DEF TableInv
<1>12. ASSUME NEW i \in DOMAIN Append(msgs, e) PROVE ~Append(msgs, e)[i].deleted
  <2>1. /\ Len(Append(msgs, e)) = Len(msgs) + 1
        /\ \A k \in 1 .. Len(msgs) : Append(msgs, e)[k] = msgs[k]
        /\ Append(msgs, e)[Len(msgs) + 1] = e
    BY <1>2, <1>3, AppendProperties
  <2>2. DOMAIN Append(msgs, e) = 1 .. Len(msgs) + 1 /\ DOMAIN msgs = 1 .. Len(msgs)
    BY <1>3, <1>7, <2>1, LenProperties
  <2>3. \A k \in DOMAIN msgs : ~msgs[k].deleted
    BY DEF ScanInv
  <2>4. i \in DOMAIN msgs \/ i = Len(msgs) + 1
    BY <1>3, <2>2
  <2>5. QED
    BY <1>5, <2>1, <2>2, <2>3, <2>4
<1>13. QED
  BY <1>7, <1>10, <1>11, <1>12 DEF e

\* A cell that is not the first of its message belongs to the one before it.
LEMMA ScanInside ==
    ASSUME TypeOK, FileInv, ScanInv, pc = "scan", at < Len(mbox), mbox[at + 1][2] # 1
    PROVE  start # -1 /\ mbox[at + 1][1] = mbox[start + 1][1]
<1>1. /\ mbox \in Seq(Cell) /\ Len(mbox) \in Nat /\ DOMAIN mbox = 1 .. Len(mbox) /\ at \in Nat
      /\ start \in Nat \cup {-1} /\ start < at
  BY LenProperties DEF TypeOK
<1> DEFINE n == mbox[at + 1][1]
           j == mbox[at + 1][2]
<1>2. at + 1 \in DOMAIN mbox
  BY <1>1
<1>3. j \in 1 .. Size[n] /\ n \in Msgs /\ Size[n] \in Nat
  BY <1>1, <1>2, CellFacts
<1>4. (at + 1) - j \in Nat /\ Holds(mbox, (at + 1) - j, n)
  BY <1>1, <1>2, WholeMessage DEF FileInv
<1>5. j # 1
  OBVIOUS
<1> HIDE DEF n, j
<1>6. j - 1 \in 1 .. Size[n] /\ ((at + 1) - j) + (j - 1) = at
  BY <1>1, <1>3, <1>5
<1>7. at \in DOMAIN mbox /\ mbox[at] = <<n, j - 1>>
  <2> DEFINE o == (at + 1) - j
  <2>1. o \in Nat /\ Holds(mbox, o, n) /\ o + (j - 1) = at
    BY <1>4, <1>6
  <2> HIDE DEF o
  <2>2. \A k \in 1 .. Size[n] : o + k \in DOMAIN mbox /\ mbox[o + k] = <<n, k>>
    BY <1>1, <1>3, <2>1, HoldsCells
  <2>3. QED
    BY <1>6, <2>1, <2>2
<1>8. start # -1
  BY <1>1, <1>7 DEF ScanInv
<1>9. at \in start + 1 .. at
  BY <1>1, <1>8
<1>10. mbox[at][1] = mbox[start + 1][1]
  BY <1>8, <1>9 DEF ScanInv
<1>11. QED
  BY <1>7, <1>8, <1>10 DEF n

\* What a rebuild makes of a summary is the same message at the same place; it
\* is marked only if the rejected table had marked that message.
LEMMA SalvagedSame ==
    ASSUME NEW f \in Seq(Cell), NEW n \in Summary, NEW s \in Seq(Summary), NEW D, NEW z,
           Honest(s, D), Spans(s, f, z),
           Holds(f, n.offset, n.id), n.hash \in {NoId, n.id}, ~n.deleted
    PROVE  /\ Salvaged(n, s).offset = n.offset /\ Salvaged(n, s).length = n.length
           /\ Salvaged(n, s).id = n.id /\ Salvaged(n, s).hash \in {NoId, n.id}
           /\ Salvaged(n, s).deleted => \E j \in DOMAIN s : s[j].id = n.id /\ s[j].deleted
<1> DEFINE i    == Search(s, n.offset) + 1
           same == {j \in DOMAIN s : s[j].hash = n.hash /\ s[j].length = n.length}
           mark == \E j \in same : s[j].deleted /\ \A k \in same : j <= k
<1> HIDE DEF i
<1>0. n.offset \in Nat /\ n.id \in Msgs
  BY DEF Summary
<1>1. CASE i \in DOMAIN s /\ s[i].offset = n.offset /\ s[i].length = n.length
  <2>1. s[i] \in Summary /\ s[i].id \in Msgs
    BY <1>1, SummaryFacts
  <2>2. Holds(f, n.offset, s[i].id)
    BY <1>1 DEF Spans
  <2>3. s[i].id = n.id
    BY <1>0, <2>1, <2>2, OneMessage
  <2>4. Salvaged(n, s) = [s[i] EXCEPT !.serial = n.serial]
    BY <1>1 DEF Salvaged, i
  <2> DEFINE e == [s[i] EXCEPT !.serial = n.serial]
  <2>5. /\ e.offset = s[i].offset /\ e.length = s[i].length /\ e.id = s[i].id
        /\ e.hash = s[i].hash /\ e.deleted = s[i].deleted
    BY <2>1 DEF Summary
  <2> HIDE DEF e
  <2>6. s[i].hash \in {NoId, n.id}
    BY <1>1, <2>3 DEF Honest
  <2>7. Salvaged(n, s) = e
    BY <2>4 DEF e
  <2>8. QED
    BY <1>1, <2>3, <2>5, <2>6, <2>7
<1>2. CASE /\ ~(i \in DOMAIN s /\ s[i].offset = n.offset /\ s[i].length = n.length)
           /\ n.hash # NoId /\ same # {}
  <2>1. Salvaged(n, s) = [n EXCEPT !.deleted = mark]
    BY <1>2 DEF Salvaged, i
  <2>2. mark => \E j \in DOMAIN s : s[j].id = n.id /\ s[j].deleted
    <3> SUFFICES ASSUME NEW j \in same, s[j].deleted
                 PROVE  \E k \in DOMAIN s : s[k].id = n.id /\ s[k].deleted
      OBVIOUS
    <3>1. j \in DOMAIN s /\ s[j].hash = n.hash
      OBVIOUS
    <3>2. s[j].hash = s[j].id
      BY <1>2, <3>1 DEF Honest
    <3>3. s[j].id = n.id
      BY <1>2, <3>1, <3>2
    <3>4. QED
      BY <3>1, <3>3
  <2> HIDE DEF mark
  <2> DEFINE e == [n EXCEPT !.deleted = mark]
  <2>3. /\ e.offset = n.offset /\ e.length = n.length /\ e.id = n.id
        /\ e.hash = n.hash /\ e.deleted = mark
    BY DEF Summary
  <2> HIDE DEF e
  <2>4. Salvaged(n, s) = e
    BY <2>1 DEF e
  <2>5. QED
    BY <2>2, <2>3, <2>4
<1>3. CASE /\ ~(i \in DOMAIN s /\ s[i].offset = n.offset /\ s[i].length = n.length)
           /\ ~(n.hash # NoId /\ same # {})
  <2>1. Salvaged(n, s) = n
    BY <1>3 DEF Salvaged, i
  <2>2. QED
    BY <2>1
<1>4. QED
  BY <1>1, <1>2, <1>3

\* The table a rebuild ends with, before and after the salvage.
Rescued == IF start = -1 THEN msgs ELSE Append(msgs, Scanned)

LEMMA RescuedListed ==
    ASSUME MailboxInv, pc = "scan", at = Len(mbox)
    PROVE  /\ Rescued \in Seq(Summary) /\ Lists(Rescued, mbox, Len(mbox))
           /\ Honest(Rescued, discarded)
           /\ \A i \in DOMAIN Rescued : ~Rescued[i].deleted
<1> USE DEF MailboxInv
<1>1. CASE start = -1
  <2>1. at = 0 /\ msgs = <<>>
    BY <1>1 DEF ScanInv
  <2>2. Rescued = <<>>
    BY <1>1, <2>1 DEF Rescued
  <2>3. QED
    BY <2>1, <2>2, ListsNothing, HonestNothing
<1>2. CASE start # -1
  <2>1. ~(at < Len(mbox))
    BY DEF TypeOK
  <2>2. Rescued = Append(msgs, Scanned)
    BY <1>2 DEF Rescued
  <2>3. QED
    BY <1>2, <2>1, <2>2, ScannedListed
<1>3. QED
  BY <1>1, <1>2

\* What the scan salvages from lists messages of the file.
LEMMA OldSpans ==
    ASSUME MailboxInv, pc = "scan"
    PROVE  old \in Seq(Summary) /\ Honest(old, discarded) /\ \E z : Spans(old, mbox, z)
<1> USE DEF MailboxInv
<1>1. CASE disk = NoToc
  <2>1. old = <<>>
    BY <1>1 DEF ScanInv
  <2>2. Spans(old, mbox, 0)
    BY <2>1, ListsNothing DEF Lists
  <2>3. QED
    BY <2>1, <2>2, HonestNothing
<1>2. CASE disk # NoToc
  <2>1. old = disk.msgs
    BY <1>2 DEF ScanInv
  <2>2. Lists(disk.msgs, mbox, disk.box - 1) /\ Honest(disk.msgs, discarded)
    BY <1>2 DEF SavedInv
  <2>3. old \in Seq(Summary)
    BY DEF TypeOK
  <2>4. QED
    BY <2>1, <2>2, <2>3 DEF Lists
<1>3. QED
  BY <1>1, <1>2

LEMMA RebuiltListed ==
    ASSUME MailboxInv, ScanEnd
    PROVE  /\ Lists(msgs', mbox, Len(mbox)) /\ Honest(msgs', discarded)
           /\ \A i \in DOMAIN msgs' : msgs'[i].deleted =>
                  \E j \in DOMAIN old : old[j].id = msgs'[i].id /\ old[j].deleted
<1> USE DEF MailboxInv
<1> DEFINE b == Rescued
<1>1. /\ b \in Seq(Summary) /\ Lists(b, mbox, Len(mbox)) /\ Honest(b, discarded)
      /\ \A i \in DOMAIN b : ~b[i].deleted
  BY RescuedListed DEF ScanEnd
<1>2. msgs' = [i \in DOMAIN b |-> Salvaged(b[i], old)]
  BY DEF ScanEnd, Rescued
<1> HIDE DEF b
<1>3. old \in Seq(Summary) /\ Honest(old, discarded)
  BY OldSpans DEF ScanEnd
<1>4. PICK z : Spans(old, mbox, z)
  BY OldSpans DEF ScanEnd
<1>5. ASSUME NEW i \in DOMAIN b
      PROVE  /\ msgs'[i].offset = b[i].offset /\ msgs'[i].length = b[i].length
             /\ msgs'[i].id = b[i].id /\ msgs'[i].hash \in {NoId, b[i].id}
             /\ msgs'[i].deleted => \E j \in DOMAIN old : old[j].id = b[i].id /\ old[j].deleted
  <2>1. b[i] \in Summary
    BY <1>1
  <2>2. Holds(mbox, b[i].offset, b[i].id) /\ b[i].hash \in {NoId, b[i].id} /\ ~b[i].deleted
    BY <1>1 DEF Lists, Spans, Honest
  <2>3. mbox \in Seq(Cell)
    BY DEF TypeOK
  <2>4. msgs'[i] = Salvaged(b[i], old)
    BY <1>2
  <2>5. QED
    BY <1>3, <1>4, <2>1, <2>2, <2>3, <2>4, SalvagedSame
<1>6. DOMAIN msgs' = DOMAIN b
  BY <1>2
<1>7. Lists(msgs', mbox, Len(mbox))
  BY <1>1, <1>5, <1>6, ListsAlike
<1>8. Honest(msgs', discarded)
  BY <1>3, <1>5, <1>6 DEF Honest
<1>9. QED
  BY <1>5, <1>6, <1>7, <1>8

-----------------------------------------------------------------------------
(* Appending and copying                                                   *)

\* A whole message put at the end of a file, and its summary at the end of the
\* table of the file.
LEMMA PutAtEnd ==
    ASSUME NEW f \in Seq(Cell), Whole(f), NEW m \in Msgs, ~Within(f, m),
           NEW c \in Seq(Cell), Len(c) = Size[m],
           \A k \in 1 .. Size[m] : c[k] = <<m, k>>,
           NEW t \in Seq(Summary), Lists(t, f, Len(f)),
           NEW e \in Summary, e.offset = Len(f), e.length = Size[m], e.id = m
    PROVE  /\ f \o c \in Seq(Cell) /\ Len(f \o c) = Len(f) + Size[m]
           /\ \A k \in 1 .. Len(f) : (f \o c)[k] = f[k]
           /\ Whole(f \o c)
           /\ Append(t, e) \in Seq(Summary)
           /\ Lists(Append(t, e), f \o c, Len(f \o c))
           /\ \A n : Within(f \o c, n) <=> n = m \/ Within(f, n)
<1> DEFINE g == f \o c
<1>1. /\ g \in Seq(Cell) /\ Len(g) = Len(f) + Size[m]
      /\ \A k \in 1 .. Len(f) : g[k] = f[k]
      /\ Whole(g) /\ Holds(g, Len(f), m)
  BY WholeAppend, ZenonT(40)
<1>2. \A k \in 1 .. Len(f) + Size[m] : g[k] = IF k <= Len(f) THEN f[k] ELSE c[k - Len(f)]
  BY ConcatProperties
<1> HIDE DEF g
<1>3. Len(f) \in Nat /\ Size[m] \in Nat /\ Size[m] >= 3 /\ DOMAIN f = 1 .. Len(f)
  BY SizeFacts, LenProperties
<1>4. Lists(t, g, Len(f))
  <2>1. Len(f) <= Len(f) /\ Len(f) <= Len(g)
    BY <1>1, <1>3
  <2>2. g \in Seq(Cell) /\ Len(f) \in Nat /\ \A k \in 1 .. Len(f) : g[k] = f[k]
    BY <1>1, <1>3
  <2>3. QED
    BY <2>1, <2>2, ListsLonger
<1>5. Lists(Append(t, e), g, Len(f) + Size[e.id])
  <2>1. e.length = Size[e.id] /\ Holds(g, Len(f), e.id) /\ g \in Seq(Cell) /\ Len(f) \in Nat
    BY <1>1, <1>3
  <2>2. QED
    BY <1>1, <1>4, <2>1, ListsPush
<1>6. Append(t, e) \in Seq(Summary)
  BY AppendType
<1>7. DOMAIN g = 1 .. Len(f) + Size[m]
  BY <1>1, LenProperties
<1>8. ASSUME NEW n PROVE Within(g, n) <=> n = m \/ Within(f, n)
  <2>1. ASSUME NEW k \in DOMAIN g, g[k][1] = n PROVE n = m \/ Within(f, n)
    <3>1. CASE k <= Len(f)
      <4>1. k \in DOMAIN f /\ g[k] = f[k]
        BY <1>1, <1>3, <1>7, <3>1
      <4>2. QED
        BY <2>1, <4>1 DEF Within
    <3>2. CASE ~(k <= Len(f))
      <4>1. k - Len(f) \in 1 .. Size[m] /\ g[k] = c[k - Len(f)]
        BY <1>2, <1>3, <1>7, <3>2
      <4>2. g[k] = <<m, k - Len(f)>>
        BY <4>1
      <4>3. QED
        BY <2>1, <4>2
    <3>3. QED
      BY <3>1, <3>2
  <2>2. ASSUME Within(f, n) PROVE Within(g, n)
    <3>1. PICK k \in DOMAIN f : f[k][1] = n
      BY <2>2 DEF Within
    <3>2. k \in DOMAIN g /\ g[k] = f[k]
      BY <1>1, <1>3, <1>7
    <3>3. QED
      BY <3>1, <3>2 DEF Within
  <2>3. Within(g, m)
    <3>1. Len(f) + 1 \in DOMAIN g /\ g[Len(f) + 1] = <<m, 1>>
      <4>1. Len(f) \in Nat
        BY <1>3
      <4>2. QED
        BY <1>1, <4>1, HoldsCells
    <3>2. QED
      BY <3>1 DEF Within
  <2>4. QED
    BY <2>1, <2>2, <2>3 DEF Within
<1>9. QED
  BY <1>1, <1>5, <1>6, <1>8 DEF g

\* macmbx_append_message: the file and its table grow by one message.
LEMMA AppendedListed ==
    ASSUME MailboxInv, NEW m \in Msgs, AppendMessage(m)
    PROVE  /\ mbox' \in Seq(Cell) /\ Len(mbox') = Len(mbox) + Size[m]
           /\ \A k \in 1 .. Len(mbox) : mbox'[k] = mbox[k]
           /\ Whole(mbox') /\ Lists(msgs', mbox', Len(mbox'))
           /\ Honest(msgs', discarded)
           /\ \A n : Within(mbox', n) <=> n = m \/ Within(mbox, n)
           /\ ~Within(mbox, m)
<1> USE DEF MailboxInv
<1> DEFINE c == Cells(m)
           g == mbox \o c
           e == [offset |-> Len(mbox), length |-> Size[m], id |-> m,
                 hash |-> NoId, deleted |-> FALSE, serial |-> next]
<1>1. mbox' = g /\ Len(mbox') - Size[m] = Len(mbox)
  <2>1. mbox' = g
    BY DEF AppendMessage
  <2>2. Len(g) = Len(mbox) + Size[m]
    <3>1. mbox \in Seq(Cell) /\ c \in Seq(Cell) /\ Len(c) = Size[m]
      BY CellsType DEF TypeOK
    <3> HIDE DEF c
    <3>2. Len(mbox \o c) = Len(mbox) + Len(c)
      BY <3>1, ConcatProperties
    <3>3. QED
      BY <3>1, <3>2
  <2>3. Len(mbox) \in Nat /\ Size[m] \in Nat
    <3>1. mbox \in Seq(Cell)
      BY DEF TypeOK
    <3>2. QED
      BY <3>1, SizeFacts, LenProperties
  <2>4. QED
    BY <2>1, <2>2, <2>3
<1>2. msgs' = Append(msgs, e)
  <2>1. msgs' = Append(msgs, [offset |-> Len(mbox') - Size[m], length |-> Size[m], id |-> m,
                              hash |-> NoId, deleted |-> FALSE, serial |-> next])
    BY DEF AppendMessage
  <2>2. QED
    BY <1>1, <2>1
<1>3. e \in Summary
  BY SizeFacts, LenProperties DEF Summary, TypeOK
<1>4. /\ e.offset = Len(mbox) /\ e.length = Size[m] /\ e.id = m
      /\ e.hash = NoId /\ e.deleted = FALSE
  OBVIOUS
<1> HIDE DEF e
<1>5. c \in Seq(Cell) /\ Len(c) = Size[m] /\ \A k \in 1 .. Size[m] : c[k] = <<m, k>>
  BY CellsType DEF Cells
<1> HIDE DEF c
<1>6. ~Within(mbox, m)
  BY DEF AppendMessage, FileInv, Within
<1>7. mbox \in Seq(Cell) /\ msgs \in Seq(Summary) /\ Whole(mbox)
  BY DEF TypeOK, FileInv
<1>8. Lists(msgs, mbox, Len(mbox)) /\ Honest(msgs, discarded)
  BY DEF AppendMessage, TableInv
<1>9. Honest(Append(msgs, e), discarded)
  BY <1>3, <1>4, <1>7, <1>8, HonestAppend
<1>10. QED
  BY <1>1, <1>2, <1>3, <1>4, <1>5, <1>6, <1>7, <1>8, <1>9, PutAtEnd, SMTT(30)

\* One turn of the copy loop.
LEMMA CopiedListed ==
    ASSUME MailboxInv, CopyMessage
    PROVE  CopyOf(out', new', msgs, at + 1, discarded)
<1> USE DEF MailboxInv
<1> DEFINE s == msgs[at + 1]
<1>1. /\ msgs \in Seq(Summary) /\ new \in Seq(Summary) /\ out \in Seq(Cell) /\ mbox \in Seq(Cell)
      /\ at \in Nat /\ Len(out) \in Nat /\ Len(msgs) \in Nat
      /\ DOMAIN msgs = 1 .. Len(msgs) /\ DOMAIN new = 1 .. Len(new) /\ Len(new) \in Nat
  BY LenProperties DEF TypeOK
<1>2. at + 1 \in DOMAIN msgs
  BY <1>1 DEF CopyMessage
<1>3. s \in Summary /\ s.offset \in Nat /\ s.length \in Nat /\ s.id \in Msgs
  BY <1>1, <1>2, SummaryFacts
<1>4. CopyOf(out, new, msgs, at, discarded)
  BY DEF CopyMessage, CopyInv
<1>5. Lists(msgs, mbox, Len(mbox)) /\ Honest(msgs, discarded)
  BY DEF CopyMessage, TableInv
<1>6. s.length = Size[s.id] /\ Holds(mbox, s.offset, s.id) /\ s.hash \in {NoId, s.id}
  BY <1>2, <1>5 DEF Lists, Spans, Honest
<1>7. \A j \in 1 .. at : j \in 1 .. at + 1 /\ j \in DOMAIN msgs /\ j # at + 1
  BY <1>1, <1>2
<1>8. \A j \in 1 .. at + 1 : j \in 1 .. at \/ j = at + 1
  BY <1>1
<1>9. CASE s.deleted
  <2>1. out' = out /\ new' = new
    BY <1>9 DEF CopyMessage
  <2>2. \A i \in DOMAIN new : \E j \in 1 .. at + 1 : new[i].id = msgs[j].id /\ ~msgs[j].deleted
    BY <1>4, <1>7 DEF CopyOf
  <2>3. \A j \in 1 .. at + 1 : ~msgs[j].deleted => Shows(new, msgs[j].id)
    BY <1>4, <1>8, <1>9 DEF CopyOf
  <2>4. QED
    BY <1>4, <2>1, <2>2, <2>3 DEF CopyOf
<1>10. CASE ~s.deleted
  <2> DEFINE c == SubSeq(mbox, s.offset + 1, s.offset + s.length)
             e == [s EXCEPT !.offset = Len(out)]
  <2>1. out' = out \o c /\ new' = Append(new, e)
    BY <1>10 DEF CopyMessage
  <2>2. /\ e \in Summary /\ e.offset = Len(out) /\ e.length = Size[s.id] /\ e.id = s.id
        /\ e.hash \in {NoId, s.id} /\ ~e.deleted
    BY <1>1, <1>3, <1>6, <1>10 DEF Summary
  <2>3. c \in Seq(Cell) /\ Len(c) = Size[s.id] /\ \A k \in 1 .. Size[s.id] : c[k] = <<s.id, k>>
    <3> DEFINE o == s.offset
               m == s.id
    <3>1. /\ o \in Nat /\ m \in Msgs /\ s.length = Size[m]
          /\ Size[m] \in Nat /\ Size[m] >= 3
      BY <1>3, <1>6, SizeFacts
    <3>2. \A k \in 1 .. Size[m] : o + k \in DOMAIN mbox /\ mbox[o + k] = <<m, k>>
      BY <1>1, <1>3, <1>6, HoldsCells
    <3> HIDE DEF o, m
    <3>3. \A k \in o + 1 .. o + Size[m] : mbox[k] \in Cell
      <4> SUFFICES ASSUME NEW k \in o + 1 .. o + Size[m] PROVE mbox[k] \in Cell
        OBVIOUS
      <4>1. k - o \in 1 .. Size[m] /\ o + (k - o) = k
        BY <3>1
      <4>2. k \in DOMAIN mbox
        BY <3>2, <4>1
      <4>3. QED
        BY <1>1, <4>2
    <3> DEFINE d == SubSeq(mbox, o + 1, o + Size[m])
    <3>4. o + 1 \in Int /\ o + Size[m] \in Int
      BY <3>1
    <3>5. /\ d \in Seq(Cell)
          /\ Len(d) = IF o + 1 <= o + Size[m] THEN (o + Size[m]) - (o + 1) + 1 ELSE 0
          /\ \A k \in 1 .. (o + Size[m]) - (o + 1) + 1 : d[k] = mbox[(o + 1) + k - 1]
      BY <3>3, <3>4, SubSeqProperties
    <3> HIDE DEF d
    <3>6. Len(d) = Size[m]
      BY <3>1, <3>5
    <3>7. \A k \in 1 .. Size[m] : d[k] = <<m, k>>
      <4> SUFFICES ASSUME NEW k \in 1 .. Size[m] PROVE d[k] = <<m, k>>
        OBVIOUS
      <4>1. k \in 1 .. (o + Size[m]) - (o + 1) + 1 /\ (o + 1) + k - 1 = o + k
        BY <3>1
      <4>2. QED
        BY <3>2, <3>5, <4>1
    <3>8. c = d
      BY <3>1 DEF d, o, m
    <3>9. QED
      BY <3>5, <3>6, <3>7, <3>8 DEF m
  <2>4. ~Within(out, s.id)
    <3> SUFFICES ASSUME NEW k \in DOMAIN out, out[k][1] = s.id PROVE FALSE
      BY DEF Within
    <3>1. k \in 1 .. Len(out)
      BY <1>1, LenProperties
    <3>2. PICK i \in DOMAIN new : new[i].id = s.id
      BY <1>4, <3>1 DEF CopyOf, Lists, Shows
    <3>3. PICK j \in 1 .. at : new[i].id = msgs[j].id
      BY <1>4 DEF CopyOf
    <3>4. msgs[j].id = msgs[at + 1].id /\ j \in DOMAIN msgs /\ j # at + 1
      BY <1>7, <3>2, <3>3
    <3>5. QED
      BY <1>2, <1>5, <3>4 DEF Lists
  <2> HIDE DEF c, e
  <2>5. /\ Whole(out') /\ Lists(new', out', Len(out')) /\ new' \in Seq(Summary)
    <3> DEFINE m == s.id
    <3>1. m \in Msgs /\ ~Within(out, m) /\ e.length = Size[m] /\ e.id = m /\ e.offset = Len(out)
      BY <1>3, <2>2, <2>4
    <3>2. c \in Seq(Cell) /\ Len(c) = Size[m] /\ \A k \in 1 .. Size[m] : c[k] = <<m, k>>
      BY <2>3
    <3>3. Whole(out) /\ Lists(new, out, Len(out)) /\ e \in Summary
      BY <1>4, <2>2 DEF CopyOf
    <3> HIDE DEF m
    <3>4. /\ Whole(out \o c) /\ Append(new, e) \in Seq(Summary)
          /\ Lists(Append(new, e), out \o c, Len(out \o c))
      BY <1>1, <3>1, <3>2, <3>3, PutAtEnd, ZenonT(40)
    <3>5. QED
      BY <2>1, <3>4
  <2>6. Honest(new', discarded)
    BY <1>1, <1>4, <2>1, <2>2, HonestAppend DEF CopyOf
  <2>7. /\ Len(new') = Len(new) + 1 /\ new'[Len(new) + 1] = e
        /\ \A i \in 1 .. Len(new) : new'[i] = new[i]
    BY <1>1, <2>1, <2>2, AppendProperties
  <2>8. DOMAIN new' = 1 .. Len(new) + 1
    BY <2>5, <2>7, LenProperties
  <2>9. \A i \in DOMAIN new : i \in DOMAIN new' /\ new'[i] = new[i]
    BY <1>1, <2>7, <2>8
  <2>10. Len(new) + 1 \in DOMAIN new' /\ \A i \in DOMAIN new' : i \in DOMAIN new \/ i = Len(new) + 1
    BY <1>1, <2>8
  <2>11. at + 1 \in 1 .. at + 1
    BY <1>1
  <2>12. ASSUME NEW i \in DOMAIN new'
         PROVE  \E j \in 1 .. at + 1 : new'[i].id = msgs[j].id /\ ~msgs[j].deleted
    <3>1. CASE i \in DOMAIN new
      <4>1. PICK j \in 1 .. at : new[i].id = msgs[j].id /\ ~msgs[j].deleted
        BY <1>4, <3>1 DEF CopyOf
      <4>2. QED
        BY <1>7, <2>9, <3>1, <4>1
    <3>2. CASE i = Len(new) + 1
      BY <1>10, <2>2, <2>7, <2>11, <3>2
    <3>3. QED
      BY <2>10, <3>1, <3>2
  <2>13. ASSUME NEW j \in 1 .. at + 1, ~msgs[j].deleted PROVE Shows(new', msgs[j].id)
    <3>1. CASE j \in 1 .. at
      <4>1. PICK i \in DOMAIN new : new[i].id = msgs[j].id
        BY <1>4, <2>13, <3>1 DEF CopyOf, Shows
      <4>2. QED
        BY <2>9, <4>1 DEF Shows
    <3>2. CASE j = at + 1
      BY <2>2, <2>7, <2>10, <3>2 DEF Shows
    <3>3. QED
      BY <1>8, <3>1, <3>2
  <2>14. \A i \in DOMAIN new' : ~new'[i].deleted
    BY <1>4, <2>2, <2>7, <2>9, <2>10 DEF CopyOf
  <2>15. QED
    BY <2>5, <2>6, <2>12, <2>13, <2>14 DEF CopyOf
<1>11. QED
  BY <1>9, <1>10

-----------------------------------------------------------------------------
(* The invariant                                                           *)

LEMMA MailboxInvInit == Init => MailboxInv
<1> SUFFICES ASSUME Init PROVE MailboxInv
  OBVIOUS
<1>1. TypeOK
  BY TypeOKInit
<1>2. /\ mbox = <<>> /\ Len(mbox) = 0 /\ pc = "down" /\ msgs = <<>> /\ arrived = {}
      /\ out = <<>> /\ new = <<>> /\ disk \in {NoToc, [msgs |-> <<>>, box |-> 1, next |-> 1]}
  BY DEF Init
<1>3. FileInv
  BY <1>2, WholeNothing DEF FileInv
<1>4. SavedInv
  BY <1>2, ListsNothing, HonestNothing DEF SavedInv
<1>5. TableInv /\ ScanInv /\ CopyInv
  BY <1>2, HonestNothing DEF TableInv, ScanInv, CopyInv
<1>6. QED
  BY <1>1, <1>3, <1>4, <1>5 DEF MailboxInv

LEMMA FileFrame ==
    ASSUME FileInv, UNCHANGED <<mbox, arrived>>, discarded \subseteq discarded'
    PROVE  FileInv'
<1>1. mbox' = mbox /\ arrived' = arrived /\ arrived' \ discarded' \subseteq arrived \ discarded
  OBVIOUS
<1>2. QED
  BY <1>1 DEF FileInv

LEMMA SavedFrame ==
    ASSUME SavedInv, UNCHANGED file, discarded \subseteq discarded', pc # "renamed"
    PROVE  SavedInv'
<1>1. mbox' = mbox /\ disk' = disk
  BY DEF file
<1>2. QED
  BY <1>1, HonestMore DEF SavedInv

\* A table that lists the file now, saved now.
LEMMA SavedNow ==
    ASSUME TypeOK, TableInv, pc \in {"open", "renamed"}, disk' = Saved,
           UNCHANGED <<mbox, discarded>>
    PROVE  SavedInv'
<1>1. /\ Saved.msgs = msgs /\ Saved.box = Len(mbox) + 1
  BY DEF Saved
<1>2. Len(mbox) \in Nat
  BY DEF TypeOK
<1>3. Saved.box - 1 = Len(mbox) /\ Saved.box >= 1
  BY <1>1, <1>2
<1>4. Honest(msgs, discarded) /\ Lists(msgs, mbox, Len(mbox))
  BY DEF TableInv
<1>5. QED
  BY <1>1, <1>3, <1>4 DEF SavedInv

\* Validation accepts only a table of the whole file.
LEMMA LoadableFresh ==
    ASSUME TypeOK, SavedInv, pc # "renamed", Loadable
    PROVE  /\ disk # NoToc /\ disk.box = Len(mbox) + 1
           /\ Lists(disk.msgs, mbox, Len(mbox)) /\ Honest(disk.msgs, discarded)
           /\ disk.msgs \in Seq(Summary)
<1>1. /\ disk # NoToc /\ disk.box >= 1 /\ Honest(disk.msgs, discarded)
      /\ disk.box = Len(mbox) + 1 \/ disk.box + 3 <= Len(mbox) + 1
      /\ Lists(disk.msgs, mbox, disk.box - 1)
  BY DEF SavedInv, Loadable
<1>2. disk.msgs \in Seq(Summary) /\ disk.box \in Nat /\ Len(mbox) \in Nat
  BY <1>1 DEF TypeOK, TocFile
<1>3. Len(mbox) > 0 => disk.box - Len(mbox) \in -1 .. 1
  BY DEF Loadable, Valid
<1>4. disk.box = Len(mbox) + 1
  BY <1>1, <1>2, <1>3
<1>5. disk.box - 1 = Len(mbox)
  BY <1>2, <1>4
<1>6. QED
  BY <1>1, <1>2, <1>4, <1>5

\* A table of the whole file passes it.
LEMMA FreshLoadable ==
    ASSUME TypeOK, disk # NoToc, disk.box = Len(mbox) + 1, Lists(disk.msgs, mbox, Len(mbox))
    PROVE  Loadable
<1>1. Len(mbox) \in Nat
  BY DEF TypeOK
<1>2. disk.box - Len(mbox) \in -1 .. 1
  BY <1>1
<1>3. QED
  BY <1>2 DEF Loadable, Valid, Lists, Spans

\* Opening.
LEMMA OpenLoadInv == MailboxInv /\ OpenLoad => FileInv' /\ SavedInv' /\ TableInv' /\ ScanInv' /\ CopyInv'
<1> SUFFICES ASSUME MailboxInv, OpenLoad
             PROVE  FileInv' /\ SavedInv' /\ TableInv' /\ ScanInv' /\ CopyInv'
  OBVIOUS
<1> USE DEF MailboxInv
<1>1. /\ UNCHANGED file /\ UNCHANGED work /\ UNCHANGED hist
      /\ pc' = "open" /\ msgs' = disk.msgs /\ ~dirty' /\ pc # "renamed" /\ pc # "copy"
  BY DEF OpenLoad
<1>2. UNCHANGED <<mbox, disk, out, new, arrived, discarded>>
  BY <1>1 DEF file, work, hist
<1>3. /\ disk # NoToc /\ disk.box = Len(mbox) + 1
      /\ Lists(disk.msgs, mbox, Len(mbox)) /\ Honest(disk.msgs, discarded)
  BY <1>1, LoadableFresh DEF OpenLoad
<1>4. FileInv' /\ SavedInv'
  BY <1>1, <1>2, FileFrame, SavedFrame
<1>5. TableInv'
  BY <1>1, <1>2, <1>3 DEF TableInv
<1>6. ScanInv' /\ CopyInv'
  BY <1>1, <1>2 DEF ScanInv, CopyInv
<1>7. QED
  BY <1>4, <1>5, <1>6

LEMMA OpenRebuildInv == MailboxInv /\ OpenRebuild => FileInv' /\ SavedInv' /\ TableInv' /\ ScanInv' /\ CopyInv'
<1> SUFFICES ASSUME MailboxInv, OpenRebuild
             PROVE  FileInv' /\ SavedInv' /\ TableInv' /\ ScanInv' /\ CopyInv'
  OBVIOUS
<1> USE DEF MailboxInv
<1>1. /\ UNCHANGED file /\ UNCHANGED hist /\ UNCHANGED <<at, start, out, new>>
      /\ pc' = "scan" /\ msgs' = <<>> /\ dirty' /\ pc # "renamed" /\ pc # "copy"
      /\ old' = IF disk = NoToc THEN <<>> ELSE disk.msgs
      /\ pc \in {"shut", "down"}
  BY DEF OpenRebuild
<1>2. UNCHANGED <<mbox, disk, arrived, discarded>>
  BY <1>1 DEF file, hist
<1>3. at = 0 /\ start = -1
  BY <1>1 DEF TypeOK
<1>4. FileInv' /\ SavedInv'
  BY <1>1, <1>2, FileFrame, SavedFrame
<1>5. TableInv'
  BY <1>1, HonestNothing DEF TableInv
<1>6. ScanInv' /\ CopyInv'
  BY <1>1, <1>2, <1>3 DEF ScanInv, CopyInv
<1>7. QED
  BY <1>4, <1>5, <1>6

\* Scanning.
LEMMA ScanLineInv == MailboxInv /\ ScanLine => FileInv' /\ SavedInv' /\ TableInv' /\ ScanInv' /\ CopyInv'
<1> SUFFICES ASSUME MailboxInv, ScanLine
             PROVE  FileInv' /\ SavedInv' /\ TableInv' /\ ScanInv' /\ CopyInv'
  OBVIOUS
<1> USE DEF MailboxInv
<1>1. /\ UNCHANGED file /\ UNCHANGED hist /\ UNCHANGED <<pc, dirty, old, out, new>>
      /\ pc = "scan" /\ at < Len(mbox) /\ at' = at + 1
  BY DEF ScanLine
<1>2. UNCHANGED <<mbox, disk, arrived, discarded>>
  BY <1>1 DEF file, hist
<1>3. FileInv' /\ SavedInv'
  BY <1>1, <1>2, FileFrame, SavedFrame
<1>4. CopyInv'
  BY <1>1 DEF CopyInv
<1>5. at \in Nat /\ start \in Nat \cup {-1} /\ start < at
  BY <1>1 DEF TypeOK
<1>6. dirty /\ old = IF disk = NoToc THEN <<>> ELSE disk.msgs
  BY <1>1 DEF ScanInv
<1>7. CASE mbox[at + 1][2] = 1
  <2>1. PushScanned /\ start' = at
    BY <1>7 DEF ScanLine
  <2>2. /\ Lists(msgs', mbox, at) /\ Honest(msgs', discarded)
        /\ \A i \in DOMAIN msgs' : ~msgs'[i].deleted
    <3>1. CASE start = -1
      <4>1. msgs' = <<>> /\ at = 0
        BY <1>1, <2>1, <3>1 DEF PushScanned, ScanInv
      <4>2. QED
        BY <4>1, ListsNothing, HonestNothing
    <3>2. CASE start # -1
      <4>1. msgs' = Append(msgs, Scanned)
        BY <2>1, <3>2 DEF PushScanned
      <4>2. QED
        BY <1>1, <1>7, <3>2, <4>1, ScannedListed
    <3>3. QED
      BY <3>1, <3>2
  <2>3. TableInv'
    BY <1>1, <1>2, <2>2 DEF TableInv
  <2>4. \A k \in at + 1 .. at + 1 : k = at + 1
    BY <1>5
  <2>5. ScanInv'
    BY <1>1, <1>2, <1>5, <1>6, <1>7, <2>1, <2>2, <2>4 DEF ScanInv
  <2>6. QED
    BY <1>3, <1>4, <2>3, <2>5
<1>8. CASE mbox[at + 1][2] # 1
  <2>1. UNCHANGED <<msgs, start>>
    BY <1>8 DEF ScanLine
  <2>2. start # -1 /\ mbox[at + 1][1] = mbox[start + 1][1]
    BY <1>1, <1>8, ScanInside
  <2>3. TableInv'
    BY <1>1, <1>2, <2>1 DEF TableInv
  <2>4. \A k \in start + 1 .. at + 1 : k \in start + 1 .. at \/ k = at + 1
    BY <1>5, <2>2
  <2>5. \A k \in start + 1 .. at : mbox[k][1] = mbox[start + 1][1]
    BY <1>1, <2>2 DEF ScanInv
  <2>6. ScanInv'
    BY <1>1, <1>2, <1>6, <2>1, <2>2, <2>4, <2>5 DEF ScanInv
  <2>7. QED
    BY <1>3, <1>4, <2>3, <2>6
<1>9. QED
  BY <1>7, <1>8

LEMMA ScanEndInv == MailboxInv /\ ScanEnd => FileInv' /\ SavedInv' /\ TableInv' /\ ScanInv' /\ CopyInv'
<1> SUFFICES ASSUME MailboxInv, ScanEnd
             PROVE  FileInv' /\ SavedInv' /\ TableInv' /\ ScanInv' /\ CopyInv'
  OBVIOUS
<1> USE DEF MailboxInv
<1>1. /\ UNCHANGED file /\ UNCHANGED hist /\ UNCHANGED <<dirty, out, new>>
      /\ pc = "scan" /\ pc' = "open"
  BY DEF ScanEnd
<1>2. UNCHANGED <<mbox, disk, arrived, discarded>>
  BY <1>1 DEF file, hist
<1>3. dirty
  BY <1>1 DEF ScanInv
<1>4. Lists(msgs', mbox, Len(mbox)) /\ Honest(msgs', discarded)
  BY RebuiltListed
<1>5. FileInv' /\ SavedInv'
  BY <1>1, <1>2, FileFrame, SavedFrame
<1>6. TableInv'
  BY <1>1, <1>2, <1>3, <1>4 DEF TableInv
<1>7. ScanInv' /\ CopyInv'
  BY <1>1 DEF ScanInv, CopyInv
<1>8. QED
  BY <1>5, <1>6, <1>7

\* Closing, with and without a save, and dying.
LEMMA CloseAllInv == MailboxInv /\ CloseAll => FileInv' /\ SavedInv' /\ TableInv' /\ ScanInv' /\ CopyInv'
<1> SUFFICES ASSUME MailboxInv, CloseAll
             PROVE  FileInv' /\ SavedInv' /\ TableInv' /\ ScanInv' /\ CopyInv'
  OBVIOUS
<1> USE DEF MailboxInv
<1>1. /\ UNCHANGED <<mbox, msgs, next>> /\ UNCHANGED work /\ UNCHANGED hist
      /\ pc = "open" /\ pc' = "shut" /\ ~dirty'
      /\ disk' = IF dirty THEN Saved ELSE disk
  BY DEF CloseAll
<1>2. UNCHANGED <<out, new, arrived, discarded>>
  BY <1>1 DEF work, hist
<1>3. SavedInv'
  <2>1. CASE dirty
    BY <1>1, <1>2, <2>1, SavedNow
  <2>2. CASE ~dirty
    BY <1>1, <1>2, <2>2, SavedFrame DEF file
  <2>3. QED
    BY <2>1, <2>2
<1>4. FileInv'
  BY <1>1, <1>2, FileFrame
<1>5. TableInv'
  <2>1. disk' # NoToc /\ disk'.msgs = msgs /\ disk'.box = Len(mbox) + 1
    <3>1. CASE dirty
      <4>1. Saved.msgs = msgs /\ Saved.box = Len(mbox) + 1
        BY DEF Saved
      <4>2. disk' = Saved
        BY <1>1, <3>1
      <4>3. Saved # NoToc
        BY NoTocAssumption DEF Saved, TypeOK, TocFile
      <4>4. QED
        BY <4>1, <4>2, <4>3
    <3>2. CASE ~dirty
      BY <1>1, <3>2 DEF TableInv
    <3>3. QED
      BY <3>1, <3>2
  <2>2. Honest(msgs, discarded) /\ Lists(msgs, mbox, Len(mbox))
    BY <1>1 DEF TableInv
  <2>3. QED
    BY <1>1, <1>2, <2>1, <2>2 DEF TableInv
<1>6. ScanInv' /\ CopyInv'
  BY <1>1, <1>2 DEF ScanInv, CopyInv
<1>7. QED
  BY <1>3, <1>4, <1>5, <1>6

LEMMA ForgetInv ==
    MailboxInv /\ Forget /\ pc # "renamed" => FileInv' /\ SavedInv' /\ TableInv' /\ ScanInv' /\ CopyInv'
<1> SUFFICES ASSUME MailboxInv, Forget, pc # "renamed"
             PROVE  FileInv' /\ SavedInv' /\ TableInv' /\ ScanInv' /\ CopyInv'
  OBVIOUS
<1> USE DEF MailboxInv
<1>1. /\ UNCHANGED file /\ UNCHANGED hist
      /\ pc' = "down" /\ msgs' = <<>> /\ out' = <<>> /\ new' = <<>>
  BY DEF Forget
<1>2. UNCHANGED <<mbox, arrived, discarded>>
  BY <1>1 DEF file, hist
<1>3. FileInv' /\ SavedInv'
  BY <1>1, <1>2, FileFrame, SavedFrame
<1>4. TableInv' /\ ScanInv' /\ CopyInv'
  BY <1>1, HonestNothing DEF TableInv, ScanInv, CopyInv
<1>5. QED
  BY <1>3, <1>4

\* Appending.
LEMMA AppendInv ==
    ASSUME MailboxInv, NEW m \in Msgs, AppendMessage(m)
    PROVE  FileInv' /\ SavedInv' /\ TableInv' /\ ScanInv' /\ CopyInv'
<1> USE DEF MailboxInv
<1>1. /\ UNCHANGED <<disk, pc, discarded>> /\ UNCHANGED work
      /\ pc = "open" /\ dirty' /\ arrived' = arrived \cup {m}
  BY DEF AppendMessage
<1>2. out' = out /\ new' = new
  BY <1>1 DEF work
<1>3. /\ mbox' \in Seq(Cell) /\ Len(mbox') = Len(mbox) + Size[m]
      /\ \A k \in 1 .. Len(mbox) : mbox'[k] = mbox[k]
      /\ Whole(mbox') /\ Lists(msgs', mbox', Len(mbox')) /\ Honest(msgs', discarded)
      /\ \A n : Within(mbox', n) <=> n = m \/ Within(mbox, n)
  BY AppendedListed
<1>4. mbox \in Seq(Cell) /\ Len(mbox) \in Nat /\ Size[m] \in Nat /\ Size[m] >= 3
  BY SizeFacts DEF TypeOK
<1>5. FileInv'
  <2>1. ASSUME NEW k \in DOMAIN mbox' PROVE mbox'[k][1] \in arrived'
    <3>1. Within(mbox', mbox'[k][1])
      BY DEF Within
    <3>2. mbox'[k][1] = m \/ Within(mbox, mbox'[k][1])
      BY <1>3, <3>1
    <3>3. \A n : Within(mbox, n) => n \in arrived
      BY DEF FileInv, Within
    <3>4. QED
      BY <1>1, <3>2, <3>3
  <2>2. ASSUME NEW n \in arrived' \ discarded' PROVE Within(mbox', n)
    <3>1. n = m \/ n \in arrived \ discarded
      BY <1>1, <2>2
    <3>2. QED
      BY <1>3, <3>1 DEF FileInv
  <2>3. \A k \in DOMAIN mbox' : mbox'[k][1] \in arrived'
    BY <2>1
  <2>4. QED
    BY <1>3, <2>2, <2>3 DEF FileInv
<1>6. SavedInv'
  <2> SUFFICES ASSUME disk # NoToc
               PROVE  /\ Honest(disk.msgs, discarded) /\ disk.box >= 1
                      /\ disk.box = Len(mbox') + 1 \/ disk.box + 3 <= Len(mbox') + 1
                      /\ Lists(disk.msgs, mbox', disk.box - 1)
    BY <1>1 DEF SavedInv
  <2>1. /\ Honest(disk.msgs, discarded) /\ disk.box >= 1
        /\ disk.box = Len(mbox) + 1 \/ disk.box + 3 <= Len(mbox) + 1
        /\ Lists(disk.msgs, mbox, disk.box - 1)
    BY <1>1 DEF SavedInv
  <2>2. disk.box \in Nat /\ disk.msgs \in Seq(Summary)
    BY DEF TypeOK, TocFile
  <2> DEFINE n == disk.box - 1
  <2>3. n \in Nat /\ n <= Len(mbox) /\ Len(mbox) <= Len(mbox')
    BY <1>3, <1>4, <2>1, <2>2, SMTT(30)
  <2>4. disk.box + 3 <= Len(mbox') + 1
    BY <1>3, <1>4, <2>1, <2>2, SMTT(30)
  <2> HIDE DEF n
  <2>5. Lists(disk.msgs, mbox, n)
    BY <2>1 DEF n
  <2>6. Lists(disk.msgs, mbox', n)
    BY <1>3, <1>4, <2>2, <2>3, <2>5, ListsLonger
  <2>7. QED
    BY <2>1, <2>4, <2>6 DEF n
<1>7. TableInv'
  BY <1>1, <1>3 DEF TableInv
<1>8. ScanInv' /\ CopyInv'
  BY <1>1, <1>2 DEF ScanInv, CopyInv
<1>9. QED
  BY <1>5, <1>6, <1>7, <1>8

\* Flagging: the summaries but for their marks.
LEMMA FlagAlike ==
    ASSUME TypeOK, NEW i \in DOMAIN msgs, NEW b \in BOOLEAN, msgs' = [msgs EXCEPT ![i].deleted = b]
    PROVE  /\ DOMAIN msgs' = DOMAIN msgs
           /\ \A k \in DOMAIN msgs :
                 /\ msgs'[k].offset = msgs[k].offset /\ msgs'[k].length = msgs[k].length
                 /\ msgs'[k].id = msgs[k].id /\ msgs'[k].hash = msgs[k].hash
                 /\ msgs'[k].deleted = IF k = i THEN b ELSE msgs[k].deleted
<1>1. DOMAIN msgs' = DOMAIN msgs
  OBVIOUS
<1>2. ASSUME NEW k \in DOMAIN msgs
      PROVE  /\ msgs'[k].offset = msgs[k].offset /\ msgs'[k].length = msgs[k].length
             /\ msgs'[k].id = msgs[k].id /\ msgs'[k].hash = msgs[k].hash
             /\ msgs'[k].deleted = IF k = i THEN b ELSE msgs[k].deleted
  <2>1. msgs[k] \in Summary
    BY DEF TypeOK
  <2>2. msgs'[k] = IF i = k THEN [msgs[k] EXCEPT !.deleted = b] ELSE msgs[k]
    OBVIOUS
  <2>3. QED
    BY <2>1, <2>2 DEF Summary
<1>3. QED
  BY <1>1, <1>2

LEMMA FlagInv ==
    ASSUME MailboxInv, NEW i \in DOMAIN msgs, DeleteMessage(i) \/ UndeleteMessage(i)
    PROVE  FileInv' /\ SavedInv' /\ TableInv' /\ ScanInv' /\ CopyInv'
<1> USE DEF MailboxInv
<1>1. /\ UNCHANGED file /\ UNCHANGED work /\ UNCHANGED <<pc, arrived>>
      /\ pc = "open" /\ dirty'
  BY DEF DeleteMessage, UndeleteMessage, hist
<1>2. PICK b \in BOOLEAN : /\ msgs' = [msgs EXCEPT ![i].deleted = b]
                           /\ discarded' = IF b THEN discarded \cup {msgs[i].id} ELSE discarded
  <2>1. CASE DeleteMessage(i)
    BY <2>1, Zenon DEF DeleteMessage
  <2>2. CASE UndeleteMessage(i)
    BY <2>2, Zenon DEF UndeleteMessage, hist
  <2>3. QED
    BY <2>1, <2>2
<1>3. UNCHANGED <<mbox, disk, out, new>> /\ discarded \subseteq discarded'
  BY <1>1, <1>2 DEF file, work
<1>4. FileInv' /\ SavedInv'
  BY <1>1, <1>3, FileFrame, SavedFrame
<1>5. /\ DOMAIN msgs' = DOMAIN msgs
      /\ \A k \in DOMAIN msgs :
            /\ msgs'[k].offset = msgs[k].offset /\ msgs'[k].length = msgs[k].length
            /\ msgs'[k].id = msgs[k].id /\ msgs'[k].hash = msgs[k].hash
            /\ msgs'[k].deleted = IF k = i THEN b ELSE msgs[k].deleted
  BY <1>2, FlagAlike
<1>6. Lists(msgs', mbox, Len(mbox))
  <2>1. Lists(msgs, mbox, Len(mbox))
    BY <1>1 DEF TableInv
  <2>2. QED
    BY <1>5, <2>1, ListsAlike
<1>7. Honest(msgs', discarded')
  <2>1. Honest(msgs, discarded')
    BY <1>3, HonestMore DEF TableInv
  <2>2. \A k \in DOMAIN msgs : msgs'[k].deleted => msgs[k].deleted \/ msgs[k].id \in discarded'
    BY <1>2, <1>5
  <2>3. QED
    BY <1>5, <2>1, <2>2, HonestAlike
<1>8. TableInv'
  BY <1>1, <1>3, <1>6, <1>7 DEF TableInv
<1>9. ScanInv' /\ CopyInv'
  BY <1>1, <1>3 DEF ScanInv, CopyInv
<1>10. QED
  BY <1>4, <1>8, <1>9

\* Sorting.
LEMMA SortInv == MailboxInv /\ Sort => FileInv' /\ SavedInv' /\ TableInv' /\ ScanInv' /\ CopyInv'
<1> SUFFICES ASSUME MailboxInv, Sort
             PROVE  FileInv' /\ SavedInv' /\ TableInv' /\ ScanInv' /\ CopyInv'
  OBVIOUS
<1> USE DEF MailboxInv
<1>1. /\ UNCHANGED file /\ UNCHANGED work /\ UNCHANGED hist /\ pc' = pc
      /\ pc = "open" /\ dirty'
  BY DEF Sort
<1>2. UNCHANGED <<mbox, disk, out, new, arrived, discarded>>
  BY <1>1 DEF file, work, hist
<1>3. PICK p \in [DOMAIN msgs -> DOMAIN msgs] :
          /\ \A i, j \in DOMAIN msgs : p[i] = p[j] => i = j
          /\ msgs' = [i \in DOMAIN msgs |-> msgs[p[i]]]
  BY DEF Sort
<1>4. Lists(msgs, mbox, Len(mbox)) /\ Honest(msgs, discarded) /\ msgs \in Seq(Summary)
  BY <1>1 DEF TableInv, TypeOK
<1>5. Lists(msgs', mbox, Len(mbox))
  BY <1>3, <1>4, ListsSorted
<1>6. Honest(msgs', discarded)
  BY <1>3, <1>4 DEF Honest
<1>7. FileInv' /\ SavedInv'
  BY <1>1, <1>2, FileFrame, SavedFrame
<1>8. TableInv' /\ ScanInv' /\ CopyInv'
  BY <1>1, <1>2, <1>5, <1>6 DEF TableInv, ScanInv, CopyInv
<1>9. QED
  BY <1>7, <1>8

\* Saving, at the end of a compaction too.
LEMMA SaveInv == MailboxInv /\ (Save \/ CompactSave) => FileInv' /\ SavedInv' /\ TableInv' /\ ScanInv' /\ CopyInv'
<1> SUFFICES ASSUME MailboxInv, Save \/ CompactSave
             PROVE  FileInv' /\ SavedInv' /\ TableInv' /\ ScanInv' /\ CopyInv'
  OBVIOUS
<1> USE DEF MailboxInv
<1>1. /\ UNCHANGED <<mbox, msgs>> /\ UNCHANGED work /\ UNCHANGED hist
      /\ pc \in {"open", "renamed"} /\ pc' = "open" /\ disk' = Saved
  BY DEF Save, CompactSave
<1>2. UNCHANGED <<out, new, arrived, discarded>>
  BY <1>1 DEF work, hist
<1>3. SavedInv'
  BY <1>1, <1>2, SavedNow
<1>4. FileInv'
  BY <1>1, <1>2, FileFrame
<1>5. Saved.msgs = msgs /\ Saved.box = Len(mbox) + 1
  BY DEF Saved
<1>6. Saved # NoToc
  BY NoTocAssumption DEF Saved, TypeOK, TocFile
<1>7. Honest(msgs, discarded) /\ Lists(msgs, mbox, Len(mbox))
  BY <1>1 DEF TableInv
<1>8. TableInv'
  BY <1>1, <1>2, <1>5, <1>6, <1>7 DEF TableInv
<1>9. ScanInv' /\ CopyInv'
  BY <1>1, <1>2 DEF ScanInv, CopyInv
<1>10. QED
  BY <1>3, <1>4, <1>8, <1>9

\* Compacting.
LEMMA CompactStartInv == MailboxInv /\ CompactStart => FileInv' /\ SavedInv' /\ TableInv' /\ ScanInv' /\ CopyInv'
<1> SUFFICES ASSUME MailboxInv, CompactStart
             PROVE  FileInv' /\ SavedInv' /\ TableInv' /\ ScanInv' /\ CopyInv'
  OBVIOUS
<1> USE DEF MailboxInv
<1>1. /\ UNCHANGED file /\ UNCHANGED toc /\ UNCHANGED work /\ UNCHANGED hist
      /\ pc = "open" /\ pc' = "copy"
  BY DEF CompactStart
<1>2. UNCHANGED <<mbox, disk, msgs, dirty, at, out, new, arrived, discarded>>
  BY <1>1 DEF file, toc, work, hist
<1>3. at = 0 /\ out = <<>> /\ new = <<>>
  BY <1>1 DEF TypeOK, CopyInv
<1>4. CopyOf(<<>>, <<>>, msgs, 0, discarded)
  BY WholeNothing, ListsNothing, HonestNothing DEF CopyOf
<1>5. FileInv' /\ SavedInv'
  BY <1>1, <1>2, FileFrame, SavedFrame
<1>6. TableInv' /\ ScanInv'
  BY <1>1, <1>2 DEF TableInv, ScanInv
<1>7. CopyInv'
  BY <1>1, <1>2, <1>3, <1>4 DEF CopyInv
<1>8. QED
  BY <1>5, <1>6, <1>7

LEMMA CopyMessageInv == MailboxInv /\ CopyMessage => FileInv' /\ SavedInv' /\ TableInv' /\ ScanInv' /\ CopyInv'
<1> SUFFICES ASSUME MailboxInv, CopyMessage
             PROVE  FileInv' /\ SavedInv' /\ TableInv' /\ ScanInv' /\ CopyInv'
  OBVIOUS
<1> USE DEF MailboxInv
<1>1. /\ UNCHANGED file /\ UNCHANGED toc /\ UNCHANGED hist /\ pc' = pc
      /\ pc = "copy" /\ at' = at + 1
  BY DEF CopyMessage
<1>2. UNCHANGED <<mbox, disk, msgs, dirty, arrived, discarded>>
  BY <1>1 DEF file, toc, hist
<1>3. FileInv' /\ SavedInv'
  BY <1>1, <1>2, FileFrame, SavedFrame
<1>4. TableInv' /\ ScanInv'
  BY <1>1, <1>2 DEF TableInv, ScanInv
<1>5. CopyInv'
  BY <1>1, <1>2, CopiedListed DEF CopyInv
<1>6. QED
  BY <1>3, <1>4, <1>5

LEMMA CopyFailsInv == MailboxInv /\ CopyFails => FileInv' /\ SavedInv' /\ TableInv' /\ ScanInv' /\ CopyInv'
<1> SUFFICES ASSUME MailboxInv, CopyFails
             PROVE  FileInv' /\ SavedInv' /\ TableInv' /\ ScanInv' /\ CopyInv'
  OBVIOUS
<1> USE DEF MailboxInv
<1>1. /\ UNCHANGED file /\ UNCHANGED toc /\ UNCHANGED hist
      /\ pc = "copy" /\ pc' = "open" /\ out' = <<>> /\ new' = <<>>
  BY DEF CopyFails
<1>2. UNCHANGED <<mbox, disk, msgs, dirty, arrived, discarded>>
  BY <1>1 DEF file, toc, hist
<1>3. FileInv' /\ SavedInv'
  BY <1>1, <1>2, FileFrame, SavedFrame
<1>4. TableInv' /\ ScanInv' /\ CopyInv'
  BY <1>1, <1>2 DEF TableInv, ScanInv, CopyInv
<1>5. QED
  BY <1>3, <1>4

\* What a compaction leaves: the messages that are not marked, and no others.
LEMMA CompactedMail ==
    ASSUME MailboxInv, CompactRename
    PROVE  /\ CopyOf(out, new, msgs, Len(msgs), discarded) /\ mbox' = out /\ msgs' = new
           /\ \A m : Within(out, m) <=> \E j \in DOMAIN msgs : msgs[j].id = m /\ ~msgs[j].deleted
           /\ \A m : Within(mbox, m) <=> Shows(msgs, m)
<1> USE DEF MailboxInv
<1>1. /\ pc = "copy" /\ at = Len(msgs) /\ mbox' = out /\ msgs' = new
  BY DEF CompactRename
<1>2. CopyOf(out, new, msgs, Len(msgs), discarded)
  BY <1>1 DEF CopyInv
<1>3. /\ mbox \in Seq(Cell) /\ out \in Seq(Cell) /\ msgs \in Seq(Summary) /\ new \in Seq(Summary)
      /\ DOMAIN msgs = 1 .. Len(msgs) /\ DOMAIN mbox = 1 .. Len(mbox) /\ DOMAIN out = 1 .. Len(out)
  BY LenProperties DEF TypeOK
<1>4. Lists(msgs, mbox, Len(mbox))
  BY <1>1 DEF TableInv
<1>6. ASSUME NEW m PROVE Within(mbox, m) <=> Shows(msgs, m)
  BY <1>3, <1>4, ShowsWithin
<1>7. ASSUME NEW m
      PROVE  Within(out, m) <=> \E j \in DOMAIN msgs : msgs[j].id = m /\ ~msgs[j].deleted
  <2>1. Within(out, m) <=> Shows(new, m)
    BY <1>2, <1>3, ShowsWithin DEF CopyOf
  <2>2. Shows(new, m) <=> \E j \in DOMAIN msgs : msgs[j].id = m /\ ~msgs[j].deleted
    <3>1. ASSUME Shows(new, m) PROVE \E j \in DOMAIN msgs : msgs[j].id = m /\ ~msgs[j].deleted
      BY <1>2, <1>3, <3>1 DEF CopyOf, Shows
    <3>2. ASSUME NEW j \in DOMAIN msgs, msgs[j].id = m, ~msgs[j].deleted PROVE Shows(new, m)
      BY <1>2, <1>3, <3>2 DEF CopyOf
    <3>3. QED
      BY <3>1, <3>2
  <2>3. QED
    BY <2>1, <2>2
<1>8. QED
  BY <1>1, <1>2, <1>6, <1>7

LEMMA CompactRenameInv == MailboxInv /\ CompactRename => FileInv' /\ SavedInv' /\ TableInv' /\ ScanInv' /\ CopyInv'
<1> SUFFICES ASSUME MailboxInv, CompactRename
             PROVE  FileInv' /\ SavedInv' /\ TableInv' /\ ScanInv' /\ CopyInv'
  OBVIOUS
<1> USE DEF MailboxInv
<1>1. /\ UNCHANGED disk /\ UNCHANGED hist
      /\ pc = "copy" /\ pc' = "renamed" /\ dirty' /\ out' = <<>> /\ new' = <<>>
  BY DEF CompactRename
<1>2. UNCHANGED <<arrived, discarded>>
  BY <1>1 DEF hist
<1>3. /\ CopyOf(out, new, msgs, Len(msgs), discarded) /\ mbox' = out /\ msgs' = new
      /\ \A m : Within(out, m) <=> \E j \in DOMAIN msgs : msgs[j].id = m /\ ~msgs[j].deleted
      /\ \A m : Within(mbox, m) <=> Shows(msgs, m)
  BY CompactedMail
<1>4. Honest(msgs, discarded)
  BY DEF TableInv
<1>5. FileInv'
  <2>1. ASSUME NEW k \in DOMAIN out PROVE out[k][1] \in arrived
    <3>1. Within(out, out[k][1])
      BY DEF Within
    <3>2. Shows(msgs, out[k][1])
      BY <1>3, <3>1 DEF Shows
    <3>3. Within(mbox, out[k][1])
      BY <1>3, <3>2
    <3>4. QED
      BY <3>3 DEF FileInv, Within
  <2>2. ASSUME NEW m \in arrived \ discarded PROVE Within(out, m)
    <3>1. Within(mbox, m)
      BY DEF FileInv
    <3>2. PICK j \in DOMAIN msgs : msgs[j].id = m
      BY <1>3, <3>1 DEF Shows
    <3>3. ~msgs[j].deleted
      BY <1>4, <3>2 DEF Honest
    <3>4. QED
      BY <1>3, <3>2, <3>3
  <2>3. Whole(out)
    BY <1>3 DEF CopyOf
  <2>4. QED
    BY <1>2, <1>3, <2>1, <2>2, <2>3 DEF FileInv
<1>6. SavedInv'
  <2>1. disk # NoToc => Honest(disk.msgs, discarded)
    BY DEF SavedInv
  <2>2. QED
    BY <1>1, <1>2, <2>1 DEF SavedInv
<1>7. TableInv'
  BY <1>1, <1>2, <1>3 DEF TableInv, CopyOf
<1>8. ScanInv' /\ CopyInv'
  BY <1>1 DEF ScanInv, CopyInv
<1>9. QED
  BY <1>5, <1>6, <1>7, <1>8

-----------------------------------------------------------------------------

\* Every step keeps the invariant, when nothing tears the rename of a
\* compaction from its save.
LEMMA MailboxInvNext == ~TornCompact /\ MailboxInv /\ [Next]_vars => MailboxInv'
<1> SUFFICES ASSUME ~TornCompact, MailboxInv, [Next]_vars PROVE MailboxInv'
  OBVIOUS
<1>1. TypeOK'
  BY TypeOKNext DEF MailboxInv
<1> DEFINE Rest == FileInv' /\ SavedInv' /\ TableInv' /\ ScanInv' /\ CopyInv'
<1>2. CASE OpenLoad \/ OpenRebuild \/ ScanLine \/ ScanEnd
  <2>1. Rest
    BY <1>2, OpenLoadInv, OpenRebuildInv, ScanLineInv, ScanEndInv
  <2>2. QED
    BY <1>1, <2>1 DEF MailboxInv
<1>3. CASE CloseAll \/ Close \/ Crash
  <2>1. CloseAll \/ (Forget /\ pc # "renamed")
    BY <1>3 DEF Close, Crash
  <2>2. Rest
    BY <2>1, CloseAllInv, ForgetInv
  <2>3. QED
    BY <1>1, <2>2 DEF MailboxInv
<1>4. ASSUME NEW m \in Msgs, AppendMessage(m) PROVE MailboxInv'
  <2>1. Rest
    BY <1>4, AppendInv
  <2>2. QED
    BY <1>1, <2>1 DEF MailboxInv
<1>5. ASSUME NEW i \in DOMAIN msgs, DeleteMessage(i) \/ UndeleteMessage(i) PROVE MailboxInv'
  <2>1. Rest
    BY <1>5, FlagInv
  <2>2. QED
    BY <1>1, <2>1 DEF MailboxInv
<1>6. CASE Sort \/ Save \/ CompactSave
  <2>1. Rest
    BY <1>6, SortInv, SaveInv
  <2>2. QED
    BY <1>1, <2>1 DEF MailboxInv
<1>7. CASE CompactStart \/ CopyMessage \/ CopyFails \/ CompactRename
  <2>1. Rest
    BY <1>7, CompactStartInv, CopyMessageInv, CopyFailsInv, CompactRenameInv
  <2>2. QED
    BY <1>1, <2>1 DEF MailboxInv
<1>8. CASE CompactSaveFails
  BY <1>8 DEF CompactSaveFails
<1>9. CASE UNCHANGED vars
  <2>1. /\ UNCHANGED <<mbox, disk, pc, msgs, next, dirty>>
        /\ UNCHANGED <<old, at, start, out, new, arrived, discarded>>
    BY <1>9 DEF vars, file, toc, work, hist
  <2>2. FileInv' /\ SavedInv'
    BY <2>1 DEF MailboxInv, FileInv, SavedInv
  <2>3. TableInv' /\ ScanInv' /\ CopyInv'
    BY <2>1 DEF MailboxInv, TableInv, ScanInv, CopyInv
  <2>4. QED
    BY <1>1, <2>2, <2>3 DEF MailboxInv
<1>10. QED
  BY <1>2, <1>3, <1>4, <1>5, <1>6, <1>7, <1>8, <1>9 DEF Next

\* The table of an open mailbox describes the mbox file: each summary spans
\* exactly the message it shows, none is listed twice and none is missing,
\* whatever the order of appends, marks, sorts, saves, compactions, crashes
\* and rebuilds of macmbx.c, macmbx_build.c and macmbx_compact.c.
THEOREM TableDescribesFile == ASSUME ~TornCompact PROVE Spec => []TocDescribesMbox
<1>1. MailboxInv => TocDescribesMbox
  <2> SUFFICES ASSUME MailboxInv, Usable PROVE TocDescribesMbox
    BY DEF TocDescribesMbox
  <2>1. Lists(msgs, mbox, Len(mbox)) /\ mbox \in Seq(Cell) /\ Whole(mbox)
    BY DEF MailboxInv, TypeOK, FileInv, TableInv, Usable
  <2>2. Stored = {m \in Msgs : Within(mbox, m)}
    BY <2>1, StoredWithin DEF Stored, StoredOf
  <2>3. Stored \subseteq {msgs[i].id : i \in DOMAIN msgs}
    <3> SUFFICES ASSUME NEW m \in Stored PROVE \E i \in DOMAIN msgs : msgs[i].id = m
      OBVIOUS
    <3>1. PICK k \in DOMAIN mbox : mbox[k][1] = m
      BY <2>2 DEF Within
    <3>2. k \in 1 .. Len(mbox)
      BY <2>1, LenProperties
    <3>3. QED
      BY <2>1, <3>1, <3>2 DEF Lists, Shows
  <2>4. QED
    BY <2>1, <2>3 DEF TocDescribesMbox, Lists, Spans
<1>2. QED
  BY <1>1, MailboxInvInit, MailboxInvNext, PTL DEF Spec

\* A message that the user never deleted stays in the mbox file: no order of
\* saves, crashes, salvaging rebuilds and compactions drops it.
THEOREM UndeletedMailStays == ASSUME ~TornCompact PROVE Spec => []UndeletedStay
<1>1. MailboxInv => UndeletedStay
  <2> SUFFICES ASSUME MailboxInv, NEW m \in arrived \ discarded PROVE m \in Stored
    BY DEF UndeletedStay
  <2>1. mbox \in Seq(Cell) /\ Whole(mbox) /\ Within(mbox, m) /\ m \in Msgs
    BY DEF MailboxInv, TypeOK, FileInv
  <2>2. QED
    BY <2>1, StoredWithin DEF Stored, StoredOf
<1>2. QED
  BY <1>1, MailboxInvInit, MailboxInvNext, PTL DEF Spec

\* A mailbox closed by macmbx_registry_close_all opens again without a rebuild
\* and with the table the user last saw.
THEOREM CleanCloseKeeps == ASSUME ~TornCompact PROVE Spec => []CleanCloseReopens
<1>1. MailboxInv => CleanCloseReopens
  <2> SUFFICES ASSUME MailboxInv, pc = "shut" PROVE Loadable /\ disk.msgs = msgs
    BY DEF CleanCloseReopens
  <2>1. /\ disk # NoToc /\ disk.msgs = msgs /\ disk.box = Len(mbox) + 1
        /\ Lists(msgs, mbox, Len(mbox)) /\ TypeOK
    BY DEF MailboxInv, TableInv
  <2>2. QED
    BY <2>1, FreshLoadable
<1>2. QED
  BY <1>1, MailboxInvInit, MailboxInvNext, PTL DEF Spec

-----------------------------------------------------------------------------
(* Mailbox implements MessageStore                                         *)

Ids(t) == {t[i].id : i \in DOMAIN t}

IsMarked(t, m) == \E i \in DOMAIN t : t[i].id = m /\ t[i].deleted

\* What Mailbox puts for the variables of MessageStore.
View  == IF Usable THEN MarksOf(msgs) ELSE Closed
Saves == IF disk = NoToc THEN [m \in {} |-> FALSE] ELSE MarksOf(disk.msgs)

LEMMA Marks == \A t : MarksOf(t) = [m \in Ids(t) |-> IsMarked(t, m)]
BY DEF MarksOf, Ids, IsMarked

LEMMA IsMarkedType == \A t, m : IsMarked(t, m) \in BOOLEAN
BY DEF IsMarked

LEMMA MarksType ==
    ASSUME NEW t \in Seq(Summary)
    PROVE  MarksOf(t) \in [Ids(t) -> BOOLEAN] /\ MarksOf(t) # Closed /\ Ids(t) \subseteq Msgs
<1>1. MarksOf(t) \in [Ids(t) -> BOOLEAN]
  BY Marks, IsMarkedType
<1>2. Ids(t) \subseteq Msgs
  BY SummaryFacts DEF Ids
<1>3. QED
  BY <1>1, <1>2, ClosedAssumption

\* Tables with the same messages marked look the same.
LEMMA MarksAlike ==
    ASSUME NEW t, NEW u, Ids(t) = Ids(u), \A m \in Ids(t) : IsMarked(t, m) <=> IsMarked(u, m)
    PROVE  MarksOf(t) = MarksOf(u)
<1>1. \A m \in Ids(t) : IsMarked(t, m) = IsMarked(u, m)
  BY IsMarkedType
<1>2. QED
  BY <1>1, Marks

\* A table of the whole file shows what is stored.
LEMMA StoredIds ==
    ASSUME NEW f \in Seq(Cell), Whole(f), NEW t \in Seq(Summary), Lists(t, f, Len(f))
    PROVE  StoredOf(f) = Ids(t)
<1>1. \A m : Within(f, m) <=> m \in Ids(t)
  BY ShowsWithin DEF Shows, Ids
<1>2. Ids(t) \subseteq Msgs
  BY MarksType
<1>3. QED
  BY <1>1, <1>2, StoredWithin

LEMMA UsableStored ==
    ASSUME MailboxInv, Usable
    PROVE  /\ msgs \in Seq(Summary) /\ Lists(msgs, mbox, Len(mbox)) /\ Stored = Ids(msgs)
           /\ View = MarksOf(msgs) /\ View # Closed
<1>1. /\ mbox \in Seq(Cell) /\ Whole(mbox) /\ msgs \in Seq(Summary)
      /\ Lists(msgs, mbox, Len(mbox))
  BY DEF MailboxInv, TypeOK, FileInv, TableInv, Usable
<1>2. Stored = Ids(msgs)
  BY <1>1, StoredIds DEF Stored, StoredOf
<1>3. QED
  BY <1>1, <1>2, MarksType DEF View

\* A summary added to a table adds its message and mark.
LEMMA MarksAppend ==
    ASSUME NEW t \in Seq(Summary), NEW e \in Summary
    PROVE  /\ Ids(Append(t, e)) = Ids(t) \cup {e.id}
           /\ \A m : IsMarked(Append(t, e), m) <=> IsMarked(t, m) \/ (m = e.id /\ e.deleted)
<1> DEFINE u == Append(t, e)
<1>1. /\ u \in Seq(Summary) /\ Len(u) = Len(t) + 1
      /\ \A i \in 1 .. Len(t) : u[i] = t[i]
      /\ u[Len(t) + 1] = e
  BY AppendProperties
<1>2. Len(t) \in Nat /\ DOMAIN t = 1 .. Len(t) /\ DOMAIN u = 1 .. Len(t) + 1
  BY <1>1
<1> HIDE DEF u
<1>3. \A i \in DOMAIN t : i \in DOMAIN u /\ u[i] = t[i]
  BY <1>1, <1>2
<1>4. Len(t) + 1 \in DOMAIN u /\ \A i \in DOMAIN u : i \in DOMAIN t \/ i = Len(t) + 1
  BY <1>2
<1>5. Ids(u) = Ids(t) \cup {e.id}
  BY <1>1, <1>3, <1>4 DEF Ids
<1>6. \A m : IsMarked(u, m) <=> IsMarked(t, m) \/ (m = e.id /\ e.deleted)
  BY <1>1, <1>3, <1>4 DEF IsMarked
<1>7. QED
  BY <1>5, <1>6 DEF u

\* The operations of the store, in terms of the mailbox.
LEMMA ShowsOpen ==
    ASSUME ~Usable, Usable', UNCHANGED <<mbox, disk>>, msgs' \in Seq(Summary), Ids(msgs') = Stored,
           \A m : IsMarked(msgs', m) => disk # NoToc /\ IsMarked(disk.msgs, m)
    PROVE  Store!Open
<1>1. View = Closed /\ View' = MarksOf(msgs')
  BY DEF View
<1>2. Stored' = Stored /\ Saves' = Saves
  BY DEF Stored, Holds, Saves
<1>3. View' \in [Stored -> BOOLEAN]
  BY <1>1, MarksType
<1>4. disk # NoToc => Saves = MarksOf(disk.msgs)
  BY DEF Saves
<1>5. ASSUME NEW m \in Stored, View'[m] PROVE m \in DOMAIN Saves /\ Saves[m]
  <2>1. disk # NoToc /\ IsMarked(disk.msgs, m)
    BY <1>1, <1>5, Marks
  <2>2. m \in Ids(disk.msgs)
    BY <2>1 DEF IsMarked, Ids
  <2>3. QED
    BY <1>4, <2>1, <2>2, Marks
<1>6. QED
  BY <1>1, <1>2, <1>3, <1>5 DEF Store!Open, View, Saves

\* The table in memory and what is stored look as they did.
LEMMA ShowsSame ==
    ASSUME UNCHANGED <<disk, mbox>>,
           \/ ~Usable /\ ~Usable'
           \/ Usable /\ Usable' /\ MarksOf(msgs') = MarksOf(msgs)
    PROVE  UNCHANGED Store!vars
<1>1. View' = View
  BY DEF View
<1>2. Stored' = Stored /\ Saves' = Saves
  BY DEF Stored, Holds, Saves
<1>3. QED
  BY <1>1, <1>2 DEF Store!vars, View, Saves

LEMMA ShowsClose ==
    ASSUME MailboxInv, Usable, ~Usable', mbox' = mbox,
           disk' = disk \/ (disk' # NoToc /\ disk'.msgs = msgs)
    PROVE  Store!Close
<1>1. View # Closed /\ View = MarksOf(msgs)
  BY UsableStored
<1>2. View' = Closed /\ Stored' = Stored
  BY DEF View, Stored, Holds
<1>3. Saves' \in {Saves, View}
  <2>1. CASE disk' = disk
    BY <2>1 DEF Saves
  <2>2. CASE disk' # NoToc /\ disk'.msgs = msgs
    BY <1>1, <2>2 DEF Saves
  <2>3. QED
    BY <2>1, <2>2
<1>4. QED
  BY <1>1, <1>2, <1>3 DEF Store!Close, View, Saves

LEMMA ShowsSave ==
    ASSUME MailboxInv, Usable, Usable', UNCHANGED <<mbox, msgs>>, disk' # NoToc, disk'.msgs = msgs
    PROVE  Store!Save
<1>1. View # Closed /\ View = MarksOf(msgs)
  BY UsableStored
<1>2. View' = View /\ Stored' = Stored
  BY DEF View, Stored, Holds
<1>3. Saves' = View
  BY <1>1 DEF Saves
<1>4. QED
  BY <1>1, <1>2, <1>3 DEF Store!Save, View, Saves

LEMMA ShowsMark ==
    ASSUME MailboxInv, Usable, Usable', UNCHANGED <<mbox, disk>>, NEW m \in Ids(msgs), NEW b \in BOOLEAN,
           Ids(msgs') = Ids(msgs),
           \A n \in Ids(msgs) : IsMarked(msgs', n) = IF n = m THEN b ELSE IsMarked(msgs, n)
    PROVE  Store!Mark(m, b)
<1>1. View # Closed /\ View = MarksOf(msgs) /\ Stored = Ids(msgs)
  BY UsableStored
<1>2. View' = MarksOf(msgs') /\ Stored' = Stored /\ Saves' = Saves
  BY DEF View, Stored, Holds, Saves
<1>3. View = [n \in Ids(msgs) |-> IsMarked(msgs, n)]
  BY <1>1, Marks
<1>4. View' = [n \in Ids(msgs) |-> IsMarked(msgs', n)]
  BY <1>2, Marks
<1>5. View' = [View EXCEPT ![m] = b]
  BY <1>3, <1>4
<1>6. QED
  BY <1>1, <1>2, <1>5 DEF Store!Mark, View, Saves

LEMMA ShowsDeliver ==
    ASSUME MailboxInv, MailboxInv', Usable, Usable', disk' = disk, NEW m \in Msgs, m \notin Ids(msgs),
           Ids(msgs') = Ids(msgs) \cup {m},
           \A n : IsMarked(msgs', n) <=> IsMarked(msgs, n)
    PROVE  Store!Deliver(m)
<1>1. View # Closed /\ View = MarksOf(msgs) /\ Stored = Ids(msgs)
  BY UsableStored
<1>2. View' = MarksOf(msgs') /\ Saves' = Saves
  BY DEF View, Saves
<1>3. Stored' = Ids(msgs')
  <2>1. /\ mbox' \in Seq(Cell) /\ Whole(mbox') /\ msgs' \in Seq(Summary)
        /\ Lists(msgs', mbox', Len(mbox'))
    BY DEF MailboxInv, TypeOK, FileInv, TableInv, Usable
  <2>2. QED
    BY <2>1, StoredIds DEF Stored, StoredOf
<1>4. View = [n \in Ids(msgs) |-> IsMarked(msgs, n)]
  BY <1>1, Marks
<1>5. View' = [n \in Ids(msgs') |-> IsMarked(msgs', n)]
  BY <1>2, Marks
<1>6. ~IsMarked(msgs, m)
  BY DEF IsMarked, Ids
<1>7. \A n \in Ids(msgs') : IsMarked(msgs', n) = IF n = m THEN FALSE ELSE View[n]
  <2> SUFFICES ASSUME NEW n \in Ids(msgs')
               PROVE  IsMarked(msgs', n) = IF n = m THEN FALSE ELSE View[n]
    OBVIOUS
  <2>1. CASE n = m
    BY <1>6, <2>1, IsMarkedType
  <2>2. CASE n # m
    <3>1. View[n] = IsMarked(msgs, n)
      BY <1>4, <2>2
    <3>2. IsMarked(msgs', n) = IsMarked(msgs, n)
      BY IsMarkedType
    <3>3. QED
      BY <2>2, <3>1, <3>2
  <2>3. QED
    BY <2>1, <2>2
<1>8. View' = [n \in Stored' |-> IF n = m THEN FALSE ELSE View[n]]
  BY <1>3, <1>5, <1>7
<1>9. QED
  BY <1>1, <1>2, <1>3, <1>8 DEF Store!Deliver, View, Saves

LEMMA ShowsExpunge ==
    ASSUME MailboxInv, Usable, Usable', disk' = disk,
           Stored' = {m \in Ids(msgs) : ~IsMarked(msgs, m)}, Ids(msgs') = Stored',
           \A n : ~IsMarked(msgs', n)
    PROVE  Store!Expunge
<1>1. View # Closed /\ View = MarksOf(msgs) /\ Stored = Ids(msgs)
  BY UsableStored
<1>2. View' = MarksOf(msgs') /\ Saves' = Saves
  BY DEF View, Saves
<1>3. View = [n \in Ids(msgs) |-> IsMarked(msgs, n)]
  BY <1>1, Marks
<1>4. Stored' = {m \in Stored : ~View[m]}
  BY <1>1, <1>3
<1>5. \A n : IsMarked(msgs', n) = FALSE
  BY IsMarkedType
<1>6. View' = [m \in Stored' |-> FALSE]
  BY <1>2, <1>5, Marks
<1>7. QED
  BY <1>1, <1>2, <1>4, <1>6 DEF Store!Expunge, View, Saves

\* Opening: what the saved table has, or what the rebuild has rescued of it.
LEMMA OpeningShows ==
    ASSUME MailboxInv, MailboxInv', OpenLoad \/ ScanEnd
    PROVE  Store!Open
<1>1. /\ UNCHANGED file /\ UNCHANGED hist /\ pc \in {"shut", "down", "scan"} /\ pc' = "open"
  BY DEF OpenLoad, ScanEnd
<1>2. UNCHANGED <<mbox, disk>> /\ ~Usable /\ Usable'
  BY <1>1 DEF file, Usable
<1>3. /\ mbox' \in Seq(Cell) /\ Whole(mbox') /\ msgs' \in Seq(Summary)
      /\ Lists(msgs', mbox', Len(mbox'))
  BY <1>1 DEF MailboxInv, TypeOK, FileInv, TableInv
<1>4. Ids(msgs') = Stored
  <2>1. StoredOf(mbox') = Ids(msgs')
    BY <1>3, StoredIds
  <2>2. QED
    BY <1>2, <2>1 DEF Stored, StoredOf
<1>5. ASSUME NEW m, IsMarked(msgs', m) PROVE disk # NoToc /\ IsMarked(disk.msgs, m)
  <2>1. CASE OpenLoad
    BY <1>5, <2>1 DEF OpenLoad, Loadable
  <2>2. CASE ScanEnd
    <3>1. PICK i \in DOMAIN msgs' : msgs'[i].id = m /\ msgs'[i].deleted
      BY <1>5 DEF IsMarked
    <3>2. PICK j \in DOMAIN old : old[j].id = m /\ old[j].deleted
      BY <2>2, <3>1, RebuiltListed
    <3>3. old = IF disk = NoToc THEN <<>> ELSE disk.msgs
      BY <2>2 DEF MailboxInv, ScanInv, ScanEnd
    <3>4. disk # NoToc /\ old = disk.msgs
      BY <3>2, <3>3
    <3>5. QED
      BY <3>2, <3>4 DEF IsMarked
  <2>3. QED
    BY <2>1, <2>2
<1>6. QED
  BY <1>2, <1>3, <1>4, <1>5, ShowsOpen

LEMMA ClosingShows ==
    ASSUME MailboxInv, CloseAll \/ (Forget /\ pc # "renamed")
    PROVE  Store!Close \/ UNCHANGED Store!vars
<1>1. CASE CloseAll
  <2>1. Usable /\ ~Usable' /\ mbox' = mbox /\ disk' = IF dirty THEN Saved ELSE disk
    BY <1>1 DEF CloseAll, Usable
  <2>2. Saved # NoToc /\ Saved.msgs = msgs
    BY NoTocAssumption DEF Saved, MailboxInv, TypeOK, TocFile
  <2>3. disk' = disk \/ (disk' # NoToc /\ disk'.msgs = msgs)
    BY <2>1, <2>2
  <2>4. QED
    BY <2>1, <2>3, ShowsClose
<1>2. CASE Forget
  <2>1. UNCHANGED <<disk, mbox>> /\ ~Usable'
    BY <1>2 DEF Forget, file, Usable
  <2>2. CASE Usable
    BY <2>1, <2>2, ShowsClose
  <2>3. CASE ~Usable
    BY <2>1, <2>3, ShowsSame
  <2>4. QED
    BY <2>2, <2>3
<1>3. QED
  BY <1>1, <1>2

LEMMA AppendShows ==
    ASSUME MailboxInv, MailboxInv', NEW m \in Msgs, AppendMessage(m)
    PROVE  Store!Deliver(m)
<1>1. disk' = disk /\ Usable /\ Usable'
  BY DEF AppendMessage, Usable
<1>2. msgs \in Seq(Summary) /\ mbox \in Seq(Cell) /\ Lists(msgs, mbox, Len(mbox))
  BY <1>1, UsableStored DEF MailboxInv, TypeOK
<1>3. m \notin Ids(msgs)
  <2>1. ~Within(mbox, m)
    BY AppendedListed
  <2>2. QED
    BY <1>2, <2>1, ShowsWithin DEF Shows, Ids
<1> DEFINE e == [offset |-> Len(mbox') - Size[m], length |-> Size[m], id |-> m,
                 hash |-> NoId, deleted |-> FALSE, serial |-> next]
<1>4. msgs' = Append(msgs, e)
  BY DEF AppendMessage
<1>5. e \in Summary
  <2>1. msgs' \in Seq(Summary)
    BY DEF MailboxInv, TypeOK
  <2>2. msgs'[Len(msgs) + 1] = e /\ Len(msgs) + 1 \in DOMAIN msgs'
    BY <1>2, <1>4, <2>1
  <2>3. QED
    BY <2>1, <2>2
<1>6. e.id = m /\ e.deleted = FALSE
  OBVIOUS
<1> HIDE DEF e
<1>7. /\ Ids(msgs') = Ids(msgs) \cup {m}
      /\ \A n : IsMarked(msgs', n) <=> IsMarked(msgs, n)
  BY <1>2, <1>4, <1>5, <1>6, MarksAppend
<1>8. QED
  BY <1>1, <1>3, <1>7, ShowsDeliver

LEMMA FlagShows ==
    ASSUME MailboxInv, NEW i \in DOMAIN msgs, DeleteMessage(i) \/ UndeleteMessage(i)
    PROVE  \E m \in Msgs, b \in BOOLEAN : Store!Mark(m, b)
<1>1. UNCHANGED <<mbox, disk>> /\ Usable /\ Usable'
  BY DEF DeleteMessage, UndeleteMessage, file, Usable
<1>2. PICK b \in BOOLEAN : msgs' = [msgs EXCEPT ![i].deleted = b]
  BY Zenon DEF DeleteMessage, UndeleteMessage
<1>3. /\ DOMAIN msgs' = DOMAIN msgs
      /\ \A k \in DOMAIN msgs : /\ msgs'[k].id = msgs[k].id
                                /\ msgs'[k].deleted = IF k = i THEN b ELSE msgs[k].deleted
  BY <1>2, FlagAlike DEF MailboxInv
<1>4. msgs \in Seq(Summary) /\ \A j, k \in DOMAIN msgs : msgs[j].id = msgs[k].id => j = k
  BY <1>1, UsableStored DEF Lists
<1> DEFINE m == msgs[i].id
<1>5. m \in Msgs /\ m \in Ids(msgs)
  BY <1>4, SummaryFacts DEF Ids
<1>6. Ids(msgs') = Ids(msgs)
  BY <1>3 DEF Ids
<1>7. ASSUME NEW n \in Ids(msgs)
      PROVE  IsMarked(msgs', n) = IF n = m THEN b ELSE IsMarked(msgs, n)
  <2>1. CASE n = m
    <3>1. IsMarked(msgs', n) <=> b
      BY <1>3, <1>4, <2>1 DEF IsMarked
    <3>2. QED
      BY <2>1, <3>1, IsMarkedType
  <2>2. CASE n # m
    <3>1. IsMarked(msgs', n) <=> IsMarked(msgs, n)
      BY <1>3, <2>2 DEF IsMarked
    <3>2. QED
      BY <2>2, <3>1, IsMarkedType
  <2>3. QED
    BY <2>1, <2>2
<1> HIDE DEF m
<1>8. Store!Mark(m, b)
  BY <1>1, <1>5, <1>6, <1>7, ShowsMark
<1>9. QED
  BY <1>5, <1>8

LEMMA SortShows == MailboxInv /\ Sort => UNCHANGED Store!vars
<1> SUFFICES ASSUME MailboxInv, Sort PROVE UNCHANGED Store!vars
  OBVIOUS
<1>1. UNCHANGED <<disk, mbox>> /\ Usable /\ Usable'
  BY DEF Sort, file, Usable
<1>2. PICK p \in [DOMAIN msgs -> DOMAIN msgs] :
          /\ \A i, j \in DOMAIN msgs : p[i] = p[j] => i = j
          /\ msgs' = [i \in DOMAIN msgs |-> msgs[p[i]]]
  BY DEF Sort
<1>3. msgs \in Seq(Summary) /\ Lists(msgs, mbox, Len(mbox))
  BY <1>1, UsableStored
<1>4. \A k \in DOMAIN msgs : \E i \in DOMAIN msgs : p[i] = k
  BY <1>2, <1>3, ListsSorted, ZenonT(40)
<1>5. Ids(msgs) = Ids(msgs')
  BY <1>2, <1>4 DEF Ids
<1>6. \A m \in Ids(msgs) : IsMarked(msgs, m) <=> IsMarked(msgs', m)
  BY <1>2, <1>4 DEF IsMarked
<1>7. MarksOf(msgs) = MarksOf(msgs')
  BY <1>5, <1>6, MarksAlike
<1>8. QED
  BY <1>1, <1>7, ShowsSame

LEMMA SaveShows == MailboxInv /\ (Save \/ CompactSave) => Store!Save
<1> SUFFICES ASSUME MailboxInv, Save \/ CompactSave PROVE Store!Save
  OBVIOUS
<1>1. UNCHANGED <<mbox, msgs>> /\ Usable /\ Usable' /\ disk' = Saved
  BY DEF Save, CompactSave, Usable
<1>2. Saved # NoToc /\ Saved.msgs = msgs
  BY NoTocAssumption, SMTT(30) DEF Saved, MailboxInv, TypeOK, TocFile
<1>3. QED
  BY <1>1, <1>2, ShowsSave

LEMMA RenameShows == MailboxInv /\ MailboxInv' /\ CompactRename => Store!Expunge
<1> SUFFICES ASSUME MailboxInv, MailboxInv', CompactRename PROVE Store!Expunge
  OBVIOUS
<1>1. disk' = disk /\ Usable /\ Usable'
  BY DEF CompactRename, Usable
<1>2. /\ CopyOf(out, new, msgs, Len(msgs), discarded) /\ mbox' = out /\ msgs' = new
      /\ \A m : Within(out, m) <=> \E j \in DOMAIN msgs : msgs[j].id = m /\ ~msgs[j].deleted
  BY CompactedMail
<1>3. msgs \in Seq(Summary) /\ \A j, k \in DOMAIN msgs : msgs[j].id = msgs[k].id => j = k
  BY <1>1, UsableStored DEF Lists
<1>4. out \in Seq(Cell) /\ new \in Seq(Summary)
  BY DEF MailboxInv, TypeOK
<1>5. StoredOf(out) = Ids(new)
  BY <1>2, <1>4, StoredIds DEF CopyOf
<1>6. StoredOf(out) = {m \in Msgs : Within(out, m)}
  BY <1>2, <1>4, StoredWithin DEF CopyOf
<1>7. ASSUME NEW m
      PROVE  m \in Msgs /\ Within(out, m) <=> m \in Ids(msgs) /\ ~IsMarked(msgs, m)
  <2>1. Ids(msgs) \subseteq Msgs
    BY <1>3, MarksType
  <2>2. ASSUME NEW j \in DOMAIN msgs, msgs[j].id = m
        PROVE  IsMarked(msgs, m) <=> msgs[j].deleted
    BY <1>3, <2>2 DEF IsMarked
  <2>3. QED
    BY <1>2, <2>1, <2>2 DEF Ids
<1>8. StoredOf(out) = {m \in Ids(msgs) : ~IsMarked(msgs, m)}
  BY <1>6, <1>7
<1>9. Stored' = StoredOf(out)
  BY <1>2 DEF Stored, StoredOf
<1>10. Ids(msgs') = Stored'
  BY <1>2, <1>5, <1>9
<1>11. \A n : ~IsMarked(msgs', n)
  BY <1>2 DEF CopyOf, IsMarked
<1>12. QED
  BY <1>1, <1>8, <1>9, <1>10, <1>11, ShowsExpunge

\* Every step of the mailbox is one of the store, or none.
LEMMA StepsShow ==
    ~TornCompact /\ MailboxInv /\ MailboxInv' /\ [Next]_vars => [Store!Next]_(Store!vars)
<1> SUFFICES ASSUME ~TornCompact, MailboxInv, MailboxInv', [Next]_vars
             PROVE  Store!Next \/ UNCHANGED Store!vars
  OBVIOUS
<1>1. CASE OpenLoad \/ ScanEnd
  BY <1>1, OpeningShows DEF Store!Next
<1>2. CASE OpenRebuild \/ ScanLine
  <2>1. UNCHANGED <<disk, mbox>> /\ ~Usable /\ ~Usable'
    BY <1>2 DEF OpenRebuild, ScanLine, file, Usable
  <2>2. QED
    BY <2>1, ShowsSame
<1>3. CASE CloseAll \/ Close \/ Crash
  <2>1. CloseAll \/ (Forget /\ pc # "renamed")
    BY <1>3 DEF Close, Crash
  <2>2. QED
    BY <2>1, ClosingShows DEF Store!Next
<1>4. CASE \E m \in Msgs : AppendMessage(m)
  BY <1>4, AppendShows DEF Store!Next
<1>5. CASE \E i \in DOMAIN msgs : DeleteMessage(i) \/ UndeleteMessage(i)
  BY <1>5, FlagShows DEF Store!Next
<1>6. CASE Sort
  BY <1>6, SortShows
<1>7. CASE Save \/ CompactSave
  BY <1>7, SaveShows DEF Store!Next
<1>8. CASE CompactStart \/ CopyMessage \/ CopyFails
  <2>1. UNCHANGED <<disk, mbox, msgs>> /\ Usable /\ Usable'
    BY <1>8 DEF CompactStart, CopyMessage, CopyFails, file, toc, Usable
  <2>2. QED
    BY <2>1, ShowsSame
<1>9. CASE CompactRename
  BY <1>9, RenameShows DEF Store!Next
<1>10. CASE CompactSaveFails
  BY <1>10 DEF CompactSaveFails
<1>11. CASE UNCHANGED vars
  <2>1. UNCHANGED <<disk, mbox, msgs, pc>>
    BY <1>11 DEF vars, file, toc
  <2>2. QED
    BY <2>1, ShowsSame DEF Usable
<1>12. QED
  BY <1>1, <1>2, <1>3, <1>4, <1>5, <1>6, <1>7, <1>8, <1>9, <1>10, <1>11 DEF Next

\* Seen through the messages whole in the mbox file and the marks of the two
\* tables, every step of the mailbox is one the message store allows: append,
\* mark, save and compaction are its operations, the loops of the scan and of
\* the copy are invisible, and what is opened after a crash has marks that were
\* saved or none.
THEOREM MailboxImplementsStore == ASSUME ~TornCompact PROVE Spec => ImplementsStore
<1>1. Init => Store!Init
  <2> SUFFICES ASSUME Init PROVE Store!Init
    OBVIOUS
  <2>1. /\ mbox = <<>> /\ pc = "down"
        /\ disk \in {NoToc, [msgs |-> <<>>, box |-> 1, next |-> 1]}
    BY DEF Init
  <2>2. Stored = {}
    BY <2>1 DEF Stored
  <2>3. ~Usable
    BY <2>1 DEF Usable
  <2>4. MarksOf(<<>>) = [m \in {} |-> FALSE]
    BY DEF MarksOf
  <2>5. disk # NoToc => disk.msgs = <<>>
    BY <2>1
  <2>6. QED
    BY <2>2, <2>3, <2>4, <2>5 DEF Store!Init
<1>2. QED
  BY <1>1, MailboxInvInit, MailboxInvNext, StepsShow, PTL DEF Spec, ImplementsStore, Store!Spec

-----------------------------------------------------------------------------
(* Rebuilding a file of whatever contents                                  *)

\* The cells of mbox up to the n-th that begin a message.
Froms(n) == {k \in 1 .. n : mbox[k][2] = 1}

\* The table t has the summaries that begin at the cells F, one after the
\* other, and the last one ends at the place e.
Tiles(t, F, e) ==
    /\ {t[i].offset + 1 : i \in DOMAIN t} = F
    /\ \A i \in DOMAIN t : t[i].offset + t[i].length = IF i = Len(t) THEN e ELSE t[i + 1].offset

\* Nothing is known of the file here: a compaction torn before its save may
\* have left any cells in it.
CoverInv ==
    pc = "scan" =>
        /\ start = -1 => msgs = <<>> /\ Froms(at) = {}
        /\ start # -1 => /\ Tiles(msgs, Froms(at) \ {start + 1}, start)
                         /\ start + 1 \in Froms(at)

\* The salvage moves no summary.
LEMMA SalvagedPlace ==
    ASSUME NEW n \in Summary, NEW s \in Seq(Summary)
    PROVE  Salvaged(n, s).offset = n.offset /\ Salvaged(n, s).length = n.length
<1> DEFINE i    == Search(s, n.offset) + 1
           same == {j \in DOMAIN s : s[j].hash = n.hash /\ s[j].length = n.length}
           mark == \E j \in same : s[j].deleted /\ \A k \in same : j <= k
<1> HIDE DEF i
<1>1. CASE i \in DOMAIN s /\ s[i].offset = n.offset /\ s[i].length = n.length
  <2>1. s[i] \in Summary
    BY <1>1
  <2>2. /\ [s[i] EXCEPT !.serial = n.serial].offset = s[i].offset
        /\ [s[i] EXCEPT !.serial = n.serial].length = s[i].length
    BY <2>1 DEF Summary
  <2>3. Salvaged(n, s) = [s[i] EXCEPT !.serial = n.serial]
    BY <1>1 DEF Salvaged, i
  <2>4. QED
    BY <1>1, <2>2, <2>3
<1>2. CASE /\ ~(i \in DOMAIN s /\ s[i].offset = n.offset /\ s[i].length = n.length)
           /\ n.hash # NoId /\ same # {}
  <2>1. Salvaged(n, s) = [n EXCEPT !.deleted = mark]
    BY <1>2 DEF Salvaged, i
  <2> HIDE DEF mark
  <2>2. QED
    BY <2>1 DEF Summary
<1>3. CASE /\ ~(i \in DOMAIN s /\ s[i].offset = n.offset /\ s[i].length = n.length)
           /\ ~(n.hash # NoId /\ same # {})
  BY <1>3 DEF Salvaged, i
<1>4. QED
  BY <1>1, <1>2, <1>3

\* The message that ends at the place of the scan follows the others.
LEMMA TilesPush ==
    ASSUME TypeOK, CoverInv, pc = "scan", start # -1
    PROVE  /\ Append(msgs, Scanned) \in Seq(Summary)
           /\ Tiles(Append(msgs, Scanned), Froms(at), at)
<1> DEFINE u == Append(msgs, Scanned)
           e == Scanned
           F == Froms(at)
<1>1. e \in Summary /\ msgs \in Seq(Summary)
  BY ScannedType DEF TypeOK
<1>2. /\ start \in Nat /\ at \in Nat
      /\ Tiles(msgs, F \ {start + 1}, start) /\ start + 1 \in F
  BY DEF TypeOK, CoverInv
<1>3. e.offset = start /\ e.length = at - start
  BY DEF Scanned
<1>4. e.offset + e.length = at
  BY <1>2, <1>3
<1> HIDE DEF e, F
<1>5. /\ u \in Seq(Summary) /\ Len(u) = Len(msgs) + 1
      /\ \A i \in 1 .. Len(msgs) : u[i] = msgs[i]
      /\ u[Len(msgs) + 1] = e
  BY <1>1, AppendProperties DEF e
<1>6. Len(msgs) \in Nat /\ DOMAIN msgs = 1 .. Len(msgs) /\ DOMAIN u = 1 .. Len(msgs) + 1
  BY <1>1, <1>5
<1> HIDE DEF u
<1>7. \A i \in DOMAIN u : i \in DOMAIN msgs \/ i = Len(msgs) + 1
  BY <1>6
<1>8. \A i \in DOMAIN msgs : i \in DOMAIN u /\ u[i] = msgs[i]
  BY <1>5, <1>6
<1>9. Len(msgs) + 1 \in DOMAIN u
  BY <1>6
<1>10. {u[i].offset + 1 : i \in DOMAIN u} = F
  <2>1. \A x : (\E i \in DOMAIN u : x = u[i].offset + 1) <=>
               (\E i \in DOMAIN msgs : x = msgs[i].offset + 1) \/ x = start + 1
    BY <1>3, <1>5, <1>7, <1>8, <1>9
  <2>2. {msgs[i].offset + 1 : i \in DOMAIN msgs} = F \ {start + 1}
    BY <1>2 DEF Tiles
  <2>3. QED
    BY <1>2, <2>1, <2>2
<1>11. ASSUME NEW i \in DOMAIN u
       PROVE  u[i].offset + u[i].length = IF i = Len(u) THEN at ELSE u[i + 1].offset
  <2>1. CASE i = Len(msgs) + 1
    BY <1>4, <1>5, <2>1
  <2>2. CASE i \in DOMAIN msgs
    <3>1. u[i] = msgs[i] /\ i # Len(u)
      BY <1>5, <1>6, <2>2
    <3>2. msgs[i].offset + msgs[i].length = IF i = Len(msgs) THEN start ELSE msgs[i + 1].offset
      BY <1>2, <2>2 DEF Tiles
    <3>3. CASE i = Len(msgs)
      BY <1>3, <1>5, <3>1, <3>2, <3>3
    <3>4. CASE i # Len(msgs)
      <4>1. i + 1 \in 1 .. Len(msgs)
        BY <1>6, <2>2, <3>4
      <4>2. u[i + 1] = msgs[i + 1]
        BY <1>5, <4>1
      <4>3. QED
        BY <3>1, <3>2, <3>4, <4>2
    <3>5. QED
      BY <3>3, <3>4
  <2>3. QED
    BY <1>7, <2>1, <2>2
<1>12. QED
  BY <1>5, <1>10, <1>11 DEF Tiles, u, e, F

LEMMA CoverInvNext == TypeOK /\ CoverInv /\ [Next]_vars => CoverInv'
<1> SUFFICES ASSUME TypeOK, CoverInv, [Next]_vars, pc' = "scan" PROVE CoverInv'
  BY DEF CoverInv
<1>1. OpenRebuild \/ ScanLine \/ UNCHANGED vars
  BY DEF Next, OpenLoad, ScanEnd, CloseAll, Close, Crash, Forget, AppendMessage, DeleteMessage,
         UndeleteMessage, Sort, Save, CompactStart, CopyMessage, CopyFails, CompactRename,
         CompactSave, CompactSaveFails
<1>2. CASE OpenRebuild
  <2>1. msgs' = <<>> /\ at' = at /\ start' = start /\ mbox' = mbox /\ pc \in {"shut", "down"}
    BY <1>2 DEF OpenRebuild, file
  <2>2. at = 0 /\ start = -1
    BY <2>1 DEF TypeOK
  <2>3. Froms(at)' = {}
    BY <2>1, <2>2 DEF Froms
  <2>4. QED
    BY <2>1, <2>2, <2>3 DEF CoverInv
<1>3. CASE ScanLine
  <2>1. /\ pc = "scan" /\ at < Len(mbox) /\ at' = at + 1 /\ mbox' = mbox
        /\ at \in Nat /\ start \in Nat \cup {-1} /\ start < at
    BY <1>3 DEF ScanLine, file, TypeOK
  <2>2. \A k \in 1 .. at : mbox'[k] = mbox[k]
    BY <2>1
  <2>3. CASE mbox[at + 1][2] = 1
    <3>1. PushScanned /\ start' = at
      BY <1>3, <2>3 DEF ScanLine
    <3>2. Froms(at)' = Froms(at) \cup {at + 1} /\ at + 1 \notin Froms(at)
      BY <2>1, <2>3 DEF Froms
    <3>3. Tiles(msgs', Froms(at), at)
      <4>1. CASE start = -1
        <5>1. msgs' = <<>> /\ Froms(at) = {}
          BY <2>1, <3>1, <4>1 DEF PushScanned, CoverInv
        <5>2. QED
          BY <5>1 DEF Tiles
      <4>2. CASE start # -1
        <5>1. msgs' = Append(msgs, Scanned)
          BY <3>1, <4>2 DEF PushScanned
        <5>2. QED
          BY <2>1, <4>2, <5>1, TilesPush
      <4>3. QED
        BY <4>1, <4>2
    <3>4. Froms(at)' \ {start' + 1} = Froms(at)
      BY <3>1, <3>2
    <3>5. start' # -1
      BY <2>1, <3>1
    <3>6. start' + 1 \in Froms(at)' /\ Tiles(msgs', Froms(at)' \ {start' + 1}, start')
      BY <3>1, <3>2, <3>3, <3>4
    <3>7. QED
      BY <3>5, <3>6 DEF CoverInv
  <2>4. CASE mbox[at + 1][2] # 1
    <3>1. UNCHANGED <<msgs, start>>
      BY <1>3, <2>4 DEF ScanLine
    <3>2. Froms(at)' = Froms(at)
      BY <2>1, <2>4 DEF Froms
    <3>3. QED
      BY <2>1, <3>1, <3>2 DEF CoverInv
  <2>5. QED
    BY <2>3, <2>4
<1>4. CASE UNCHANGED vars
  BY <1>4 DEF vars, file, toc, work, CoverInv, Froms
<1>5. QED
  BY <1>1, <1>2, <1>3, <1>4

\* A rebuild lists the whole file whatever is in it, after a compaction torn
\* before its save too: from the first "From " line to the end every line
\* belongs to one summary, and every summary begins at a "From " line
\* (macmbx_toc_build and the salvage loop of macmbx_toc_rebuild).
THEOREM RebuildCovers == Spec => RebuildCoversFile
<1>1. Init => TypeOK /\ CoverInv
  BY TypeOKInit DEF Init, CoverInv
<1>2. TypeOK /\ CoverInv /\ [Next]_vars => TypeOK' /\ CoverInv'
  BY TypeOKNext, CoverInvNext
<1>3. TypeOK /\ CoverInv /\ [Next]_vars => [pc = "scan" /\ pc' = "open" => Rebuilt(msgs')]_vars
  <2> SUFFICES ASSUME TypeOK, CoverInv, [Next]_vars, pc = "scan", pc' = "open"
               PROVE  Rebuilt(msgs')
    OBVIOUS
  <2>1. ScanEnd
    BY DEF Next, OpenLoad, OpenRebuild, ScanLine, CloseAll, Close, Crash, Forget, AppendMessage,
           DeleteMessage, UndeleteMessage, Sort, Save, CompactStart, CopyMessage, CopyFails,
           CompactRename, CompactSave, CompactSaveFails, vars
  <2> DEFINE b == Rescued
  <2>2. /\ at = Len(mbox) /\ mbox' = mbox /\ old \in Seq(Summary) /\ mbox \in Seq(Cell)
        /\ msgs' = [i \in DOMAIN b |-> Salvaged(b[i], old)]
    BY <2>1 DEF ScanEnd, Rescued, file, TypeOK
  <2>3. b \in Seq(Summary) /\ Tiles(b, Froms(at), at)
    <3>1. CASE start = -1
      <4>1. b = <<>> /\ Froms(at) = {}
        BY <3>1 DEF CoverInv, Rescued
      <4>2. QED
        BY <4>1 DEF Tiles
    <3>2. CASE start # -1
      BY <3>2, TilesPush DEF Rescued
    <3>3. QED
      BY <3>1, <3>2
  <2> HIDE DEF b
  <2>4. \A i \in DOMAIN b : msgs'[i].offset = b[i].offset /\ msgs'[i].length = b[i].length
    BY <2>2, <2>3, SalvagedPlace
  <2>5. DOMAIN msgs' = DOMAIN b /\ Len(msgs') = Len(b) /\ DOMAIN b = 1 .. Len(b) /\ Len(b) \in Nat
    BY <2>2, <2>3, MapType
  <2>6. {k \in DOMAIN mbox : mbox[k][2] = 1} = Froms(at)
    BY <2>2 DEF Froms
  <2>7. {msgs'[i].offset + 1 : i \in DOMAIN msgs'} = {k \in DOMAIN mbox : mbox[k][2] = 1}
    BY <2>3, <2>4, <2>5, <2>6 DEF Tiles
  <2>8. ASSUME NEW i \in DOMAIN msgs'
        PROVE  msgs'[i].offset + msgs'[i].length =
                   IF i = Len(msgs') THEN Len(mbox) ELSE msgs'[i + 1].offset
    <3>1. b[i].offset + b[i].length = IF i = Len(b) THEN at ELSE b[i + 1].offset
      BY <2>3, <2>5 DEF Tiles
    <3>2. i # Len(b) => i + 1 \in DOMAIN b
      BY <2>5
    <3>3. QED
      BY <2>2, <2>4, <2>5, <3>1, <3>2
  <2>9. QED
    BY <2>7, <2>8 DEF Rebuilt
<1>4. QED
  BY <1>1, <1>2, <1>3, PTL DEF Spec, RebuildCoversFile
=============================================================================
