--------------------------- MODULE PopCheck_proofs ---------------------------
(***************************************************************************)
(* Proofs about PopCheck, for any messages, Message-IDs and bound.         *)
(***************************************************************************)
EXTENDS PopCheck, SequenceTheorems, FiniteSetTheorems, TLAPS

-----------------------------------------------------------------------------
(* What is kept of a sequence                                              *)

\* The numbers of a finite set have the ranks 1, 2, 3 ... in their order.
LEMMA Ranks ==
    ASSUME NEW K, K \subseteq Nat, IsFiniteSet(K), NEW n, n = Cardinality(K)
    PROVE  /\ n \in Nat
           /\ \A k \in K : Rank(k, K) \in 1 .. n
           /\ \A a, b \in K : a < b => Rank(a, K) < Rank(b, K)
           /\ \A x \in 1 .. n : \E k \in K : Rank(k, K) = x
<1> DEFINE R(k) == Rank(k, K)
           g    == [k \in K |-> R(k)]
<1>1. n \in Nat
  BY FS_CardinalityType
<1>2. \A k \in K : R(k) \in 1 .. n
  <2> SUFFICES ASSUME NEW k \in K PROVE R(k) \in 1 .. n
    OBVIOUS
  <2> DEFINE S == {j \in K : j <= k}
  <2>1. S \subseteq K /\ k \in S
    OBVIOUS
  <2>2. IsFiniteSet(S) /\ Cardinality(S) <= n /\ Cardinality(S) \in Nat
    BY <2>1, FS_Subset, FS_CardinalityType
  <2>3. Cardinality(S) # 0
    BY <2>1, <2>2, FS_EmptySet
  <2>4. QED
    BY <1>1, <2>2, <2>3 DEF Rank
<1>3. \A a, b \in K : a < b => R(a) < R(b)
  <2> SUFFICES ASSUME NEW a \in K, NEW b \in K, a < b PROVE R(a) < R(b)
    OBVIOUS
  <2> DEFINE S == {j \in K : j <= a}
             T == {j \in K : j <= b}
  <2>1. IsFiniteSet(T)
    BY FS_Subset
  <2>0. a \in Nat /\ b \in Nat /\ \A j \in K : j \in Nat
    OBVIOUS
  <2>2. S \subseteq T
    <3>1. \A x \in K : x <= a => x <= b
      BY <2>0
    <3>2. QED
      BY <3>1
  <2>3. b \in T /\ b \notin S
    BY <2>0
  <2>4. QED
    BY <2>1, <2>2, <2>3, FS_Subset, FS_CardinalityType DEF Rank
<1> HIDE DEF R
<1>4. \A a, b \in K : R(a) = R(b) => a = b
  BY <1>2, <1>3
<1>5. g \in Injection(K, 1 .. n)
  BY <1>2, <1>4 DEF Injection, IsInjective
<1>6. IsFiniteSet(1 .. n) /\ Cardinality(1 .. n) = Cardinality(K)
  BY <1>1, FS_Interval
<1>7. g \in Surjection(K, 1 .. n)
  BY <1>5, <1>6, FS_Injection
<1>8. \A x \in 1 .. n : \E k \in K : R(k) = x
  BY <1>7 DEF Surjection
<1>9. QED
  BY <1>1, <1>2, <1>3, <1>8 DEF R

\* f takes the positions of t to those of the same elements in s, which are K.
Places(f, t, s, K) ==
    /\ f \in [DOMAIN t -> K]
    /\ \A r \in DOMAIN t : t[r] = s[f[r]]
    /\ \A k \in K : \E r \in DOMAIN t : f[r] = k
    /\ \A a, b \in DOMAIN t : a < b => f[a] < f[b]

\* The elements at the positions K are kept, each once, in their order.
LEMMA KeptSeq ==
    ASSUME NEW A, NEW s \in Seq(A), NEW K \in SUBSET DOMAIN s, NEW t, t = Kept(s, K)
    PROVE  t \in Seq(A) /\ \E f : Places(f, t, s, K)
<1> DEFINE n == Cardinality(K)
           R(k) == Rank(k, K)
           f == [x \in 1 .. n |-> CHOOSE k \in K : R(k) = x]
<1>1. K \subseteq Nat /\ IsFiniteSet(K)
  <2>1. Len(s) \in Nat /\ DOMAIN s = 1 .. Len(s)
    OBVIOUS
  <2>2. IsFiniteSet(1 .. Len(s))
    BY <2>1, FS_Interval
  <2>3. QED
    BY <2>1, <2>2, FS_Subset
<1> HIDE DEF n
<1>0. n \in Nat
  BY <1>1, Ranks DEF n
<1>2. /\ \A k \in K : R(k) \in 1 .. n
      /\ \A a, b \in K : a < b => R(a) < R(b)
      /\ \A x \in 1 .. n : \E k \in K : R(k) = x
  BY <1>1, Ranks DEF n
<1> HIDE DEF R
<1>3. \A x \in 1 .. n : f[x] \in K /\ R(f[x]) = x
  BY <1>2
<1>4. t = [x \in 1 .. n |-> s[f[x]]]
  BY DEF Kept, R, n
<1>5. f \in [1 .. n -> K]
  BY <1>3
<1> HIDE DEF f
<1>6. \A x \in 1 .. n : s[f[x]] \in A
  BY <1>3
<1>7. t \in [1 .. n -> A] /\ \A x \in 1 .. n : t[x] = s[f[x]]
  BY <1>4, <1>6
<1>8. t \in Seq(A) /\ DOMAIN t = 1 .. n
  BY <1>0, <1>7, SeqDef
<1>9. \A k \in K : \E x \in 1 .. n : f[x] = k
  BY <1>1, <1>2, <1>3
<1>10. \A a, b \in 1 .. n : a < b => f[a] < f[b]
  <2> SUFFICES ASSUME NEW a \in 1 .. n, NEW b \in 1 .. n, a < b, ~(f[a] < f[b]) PROVE FALSE
    OBVIOUS
  <2>1. f[b] <= f[a] /\ f[a] \in K /\ f[b] \in K
    BY <1>1, <1>3
  <2>2. R(f[b]) <= R(f[a])
    BY <1>1, <1>2, <2>1, SMTT(30)
  <2>3. R(f[a]) = a /\ R(f[b]) = b
    BY <1>3
  <2>4. QED
    BY <1>0, <2>2, <2>3
<1>11. Places(f, t, s, K)
  BY <1>5, <1>7, <1>8, <1>9, <1>10 DEF Places
<1>12. QED
  BY <1>8, <1>11

-----------------------------------------------------------------------------
(* The inductive invariant                                                 *)

\* The summaries s are those of the first messages of the mbox file.
Covers(s) ==
    /\ s \in Seq(Entry) /\ Len(s) <= Len(file)
    /\ \A k \in DOMAIN s : s[k].msg = file[k]

Tables ==
    /\ file \in Seq(Msgs)
    /\ Covers(saved)
    /\ toc \in Seq(Entry)
    /\ open => Covers(toc) /\ Len(toc) = Len(file)

Maildrop ==
    /\ drop \in Seq(Msgs) /\ IsInjective(drop)
    /\ ToSet(drop) \subseteq arrived
    /\ arrived \subseteq Msgs
    /\ compacted \subseteq arrived /\ refused \subseteq arrived
    /\ ToSet(file) \subseteq arrived
    /\ lmos \subseteq arrived

Session ==
    /\ list \in Seq(Msgs) /\ IsInjective(list)
    /\ ToSet(list) \subseteq ToSet(drop) \/ pc = "save"
    /\ ToSet(list) \subseteq arrived
    /\ dele \subseteq ToSet(list)
    /\ pc \in {"idle", "fetch", "mark", "dele", "save"}
    /\ i \in 1 .. Len(list) + 1
    /\ pc \in {"mark", "dele"} => i <= Len(list)
    /\ pc = "save" => i = Len(list) + 1
    /\ pc \in {"idle", "save"} => dele = {}
    /\ pc = "idle" => list = <<>>

Flags ==
    /\ open \in BOOLEAN /\ up \in BOOLEAN /\ uidl \in BOOLEAN
    /\ leave \in BOOLEAN /\ clean \in BOOLEAN
    /\ uidl => leave
    /\ up => pc \notin {"idle", "save"}
    /\ pc # "idle" => open
    /\ pc = "idle" => clean
    /\ pc = "mark" => uidl
    /\ pc = "dele" => ~leave

Counts == faults \in 0 .. MaxEvents /\ marks \in 0 .. MaxEvents /\ changes \in 0 .. MaxEvents

TypeInv == Tables /\ Maildrop /\ Session /\ Flags /\ Counts

\* What the LMOS file names is in In, what is marked deleted on the server is
\* in In or was refused, and so is the message of a turn that has come so far.
NothingEarly ==
    /\ \A n \in arrived : Received(n) \/ n \in refused \/ n \in ToSet(drop)
    /\ \A n \in lmos : Received(n)
    /\ \A n \in dele : Received(n) \/ n \in refused
    /\ pc = "mark" => Received(cur)
    /\ pc = "dele" => Received(cur) \/ cur \in refused

\* While nothing has gone wrong the connection works until QUIT, and the
\* messages the check is through with are in In.
Thorough ==
    clean => /\ pc \in {"fetch", "mark", "dele"} => up
             /\ pc = "dele" => Received(cur)
             /\ \A k \in 1 .. i - 1 : Received(list[k])

\* The check has yet to come to n.
Pending(n) ==
    \/ pc = "fetch" /\ \E k \in i .. Len(list) : list[k] = n
    \/ pc \in {"mark", "dele"} /\ \E k \in i + 1 .. Len(list) : list[k] = n

\* Nothing less than a fault or a change of the setting lets a check after
\* this one download n.
Settled(n) ==
    \/ n \in arrived \ ToSet(drop)
    \/ leave /\ n \in lmos
    \/ pc = "mark" /\ n = cur
    \/ up /\ n \in dele
    \/ up /\ pc = "dele" /\ n = cur

\* This check may yet download n.
Now(n) == Pending(n) /\ ~(uidl /\ n \in lmos)

\* How many copies of n may yet be downloaded without either: one by this
\* check or a later one, and one by each if this check leaves mail on the
\* server and goes without unique ids.
Chances(n) ==
    IF Now(n) /\ ~Settled(n) THEN IF leave /\ ~uidl THEN 2 ELSE 1
    ELSE IF Now(n) \/ ~Settled(n) THEN 1 ELSE 0

Budget == \A n \in Msgs : Copies(n) + Chances(n) <= 1 + faults + changes

LEMMA TypeInvTypeOK == TypeInv => TypeOK
<1> SUFFICES ASSUME TypeInv PROVE TypeOK
  OBVIOUS
<1>1. ASSUME open PROVE [k \in DOMAIN toc |-> toc[k].msg] = file
  <2>1. DOMAIN toc = DOMAIN file /\ \A k \in DOMAIN toc : toc[k].msg = file[k]
    BY <1>1 DEF TypeInv, Tables, Covers
  <2>2. file = [k \in DOMAIN file |-> file[k]]
    BY DEF TypeInv, Tables
  <2>3. QED
    BY <2>1, <2>2
<1>2. lmos \subseteq Msgs
  BY DEF TypeInv, Maildrop
<1>3. toc \in Seq(Entry) /\ saved \in Seq(Entry) /\ file \in Seq(Msgs)
  BY DEF TypeInv, Tables, Covers
<1>4. QED
  BY <1>1, <1>2, <1>3 DEF TypeInv, Maildrop, Session, Flags, Counts, TypeOK

LEMMA InitTypeInv == Init => TypeInv
<1> SUFFICES ASSUME Init PROVE TypeInv
  OBVIOUS
<1>1. Tables
  BY DEF Init, Tables, Covers
<1>2. Maildrop
  BY DEF Init, Maildrop, ToSet, IsInjective
<1>3. Session
  BY DEF Init, Session, ToSet, IsInjective
<1>4. Flags
  BY DEF Init, Flags
<1>5. Counts
  BY BoundAssumption DEF Init, Counts
<1>6. QED
  BY <1>1, <1>2, <1>3, <1>4, <1>5 DEF TypeInv

-----------------------------------------------------------------------------
(* The tables and the mbox file                                            *)

LEMMA RebuiltEntry == ASSUME NEW m \in Msgs PROVE Rebuilt(m) \in Entry /\ Rebuilt(m).msg = m
<1> DEFINE same == {j \in DOMAIN saved : saved[j].hashed /\ Id[saved[j].msg] = Id[m]}
           d == Id[m] # NoId /\ \E j \in same : saved[j].deleted /\ \A k \in same : j <= k
<1>1. d \in BOOLEAN
  OBVIOUS
<1>2. Rebuilt(m) = [msg |-> m, hashed |-> TRUE, deleted |-> d]
  BY DEF Rebuilt
<1> HIDE DEF d
<1>3. QED
  BY <1>1, <1>2 DEF Entry

\* The table macmbx_toc_open returns has a summary for every message of the file.
LEMMA OpenedCovers ==
    ASSUME Tables
    PROVE  Covers(Opened) /\ Len(Opened) = Len(file)
<1>1. CASE open
  BY <1>1 DEF Opened, Tables
<1>2. CASE ~open
  <2> DEFINE n == Len(file) - Len(saved)
             rest == [k \in 1 .. n |-> Rebuilt(file[Len(saved) + k])]
  <2>1. n \in Nat /\ Len(saved) \in Nat /\ Len(file) \in Nat
    BY DEF Tables, Covers
  <2>2. \A k \in 1 .. n : /\ Rebuilt(file[Len(saved) + k]) \in Entry
                          /\ Rebuilt(file[Len(saved) + k]).msg = file[Len(saved) + k]
    <3> SUFFICES ASSUME NEW k \in 1 .. n
                 PROVE  file[Len(saved) + k] \in Msgs
      BY RebuiltEntry
    <3>1. Len(saved) + k \in DOMAIN file
      BY <2>1 DEF Tables
    <3>2. QED
      BY <3>1 DEF Tables
  <2>3. /\ rest \in Seq(Entry) /\ Len(rest) = n
        /\ \A k \in 1 .. n : rest[k].msg = file[Len(saved) + k]
    <3>1. rest \in [1 .. n -> Entry]
      BY <2>2
    <3>2. \A k \in 1 .. n : rest[k].msg = file[Len(saved) + k]
      BY <2>2
    <3> HIDE DEF rest, n
    <3>3. rest \in Seq(Entry)
      BY <2>1, <3>1, SeqDef
    <3>4. Len(rest) = n
      BY <2>1, <3>1, <3>3, LenProperties
    <3>5. QED
      BY <3>2, <3>3, <3>4
  <2>4. Opened = saved \o rest
    BY <1>2 DEF Opened
  <2> HIDE DEF rest
  <2>5. saved \in Seq(Entry)
    BY DEF Tables, Covers
  <2>6. /\ Opened \in Seq(Entry) /\ Len(Opened) = Len(saved) + n
        /\ \A k \in DOMAIN Opened : Opened[k] = IF k <= Len(saved) THEN saved[k] ELSE rest[k - Len(saved)]
    BY <2>3, <2>4, <2>5, ConcatProperties
  <2>7. Len(Opened) = Len(file)
    BY <2>1, <2>6
  <2>8. \A k \in DOMAIN Opened : Opened[k].msg = file[k]
    <3> SUFFICES ASSUME NEW k \in DOMAIN Opened PROVE Opened[k].msg = file[k]
      OBVIOUS
    <3>1. CASE k <= Len(saved)
      BY <2>5, <2>6, <3>1 DEF Tables, Covers
    <3>2. CASE k > Len(saved)
      <4>1. k - Len(saved) \in 1 .. n /\ Len(saved) + (k - Len(saved)) = k
        BY <2>1, <2>6, <3>2
      <4>2. rest[k - Len(saved)].msg = file[Len(saved) + (k - Len(saved))]
        BY <2>3, <4>1
      <4>3. Opened[k] = rest[k - Len(saved)]
        BY <2>1, <2>6, <3>2
      <4>4. QED
        BY <4>1, <4>2, <4>3
    <3>3. QED
      BY <2>1, <2>6, <3>1, <3>2
  <2>9. QED
    BY <2>6, <2>7, <2>8, <2>1 DEF Covers
<1>3. QED
  BY <1>1, <1>2

\* The step changes In, or only what is known about it.
LEMMA InboxSteps ==
    ASSUME Next
    PROVE  \/ UNCHANGED inbox
           \/ StartCheck \/ Download \/ SaveToc \/ Save \/ Crash \/ Compact
           \/ \E k \in DOMAIN toc, deleted \in BOOLEAN : Flag(k, deleted)
<1> USE DEF inbox
<1>1. ASSUME CheckStep PROVE UNCHANGED inbox \/ Download \/ SaveToc
  BY <1>1 DEF CheckStep, SkipSeen, RetrFails, SkipDuplicate, AppendFails, Mark, MarkFails,
              Dele, Quit
<1>2. ASSUME NEW n \in Msgs, Receive(n) PROVE UNCHANGED inbox
  BY <1>2 DEF Receive
<1>3. ASSUME LoseConnection PROVE UNCHANGED inbox
  BY <1>3 DEF LoseConnection
<1>4. QED
  BY <1>1, <1>2, <1>3 DEF Next

\* While the check is at a message, that message is one of its list.
LEMMA CurListed ==
    ASSUME TypeInv, Fetching \/ pc \in {"mark", "dele"}
    PROVE  /\ i \in DOMAIN list /\ open
           /\ cur \in Msgs /\ cur \in ToSet(list) /\ cur \in arrived /\ cur \in ToSet(drop)
<1>1. i \in DOMAIN list /\ pc # "idle" /\ pc # "save"
  BY DEF TypeInv, Session, Fetching
<1>2. QED
  BY <1>1, SMTT(30) DEF TypeInv, Session, Flags, cur, ToSet

LEMMA FlaggedEntry ==
    ASSUME NEW e \in Entry, NEW d \in BOOLEAN
    PROVE  [e EXCEPT !.deleted = d] \in Entry /\ [e EXCEPT !.deleted = d].msg = e.msg
  BY DEF Entry

\* A compaction keeps the messages that are not deleted, each with its summary
\* and in their order, and drops the others.
LEMMA CompactKeeps ==
    ASSUME Tables, Compact
    PROVE  /\ toc' \in Seq(Entry) /\ toc \in Seq(Entry)
           /\ DOMAIN file' = DOMAIN toc' /\ DOMAIN file = DOMAIN toc
           /\ \A k \in DOMAIN file : toc[k].deleted => file[k] \in compacted'
           /\ \E f \in [DOMAIN file' -> DOMAIN file] :
                 /\ \A r \in DOMAIN file' : toc'[r] = toc[f[r]] /\ file'[r] = file[f[r]]
                 /\ \A k \in DOMAIN file : ~toc[k].deleted => \E r \in DOMAIN file' : f[r] = k
                 /\ \A a, b \in DOMAIN file' : a < b => f[a] < f[b]
<1> DEFINE K == {k \in DOMAIN toc : ~toc[k].deleted}
<1>1. toc \in Seq(Entry) /\ K \in SUBSET DOMAIN toc
  BY DEF Tables
<1>2. /\ toc' = Kept(toc, K) /\ open
      /\ file' = [k \in DOMAIN toc' |-> toc'[k].msg]
      /\ compacted' = compacted \cup {toc[k].msg : k \in {n \in DOMAIN toc : toc[n].deleted}}
  BY DEF Compact
<1>3. Len(toc) = Len(file) /\ file \in Seq(Msgs) /\ \A k \in DOMAIN toc : toc[k].msg = file[k]
  BY <1>2 DEF Tables, Covers
<1>4. DOMAIN file = DOMAIN toc /\ DOMAIN file' = DOMAIN toc'
  BY <1>1, <1>2, <1>3
<1> HIDE DEF K
<1>5. toc' \in Seq(Entry)
  BY <1>1, <1>2, KeptSeq
<1>6. PICK f : Places(f, toc', toc, K)
  BY <1>1, <1>2, KeptSeq
<1>7. f \in [DOMAIN file' -> DOMAIN file]
  BY <1>1, <1>4, <1>6 DEF Places
<1>8. \A r \in DOMAIN file' : file'[r] = file[f[r]]
  BY <1>2, <1>3, <1>4, <1>6, <1>7 DEF Places
<1>9. \A k \in DOMAIN file : ~toc[k].deleted => k \in K
  BY <1>4 DEF K
<1>10. \A k \in DOMAIN file : toc[k].deleted => file[k] \in compacted'
  BY <1>2, <1>3, <1>4
<1>11. QED
  BY <1>1, <1>4, <1>5, <1>6, <1>7, <1>8, <1>9, <1>10 DEF Places

LEMMA StepTables == ASSUME TypeInv, [Next]_vars PROVE Tables'
<1> USE DEF TypeInv, Tables, Covers
<1>1. ASSUME StartCheck PROVE Tables'
  BY <1>1, OpenedCovers DEF StartCheck
<1>2. ASSUME Download PROVE Tables'
  <2> DEFINE e == [msg |-> cur, hashed |-> FALSE, deleted |-> FALSE]
  <2>1. cur \in Msgs /\ open
    BY <1>2, CurListed DEF Download
  <2>2. e \in Entry /\ e.msg = cur
    BY <2>1 DEF Entry
  <2>3. file' = Append(file, cur) /\ toc' = Append(toc, e) /\ UNCHANGED <<open, saved>>
    BY <1>2 DEF Download
  <2> HIDE DEF e
  <2>4. file' \in Seq(Msgs) /\ toc' \in Seq(Entry) /\ Len(file') = Len(file) + 1 /\ Len(toc') = Len(toc) + 1
    BY <2>1, <2>2, <2>3
  <2>5. \A k \in DOMAIN toc' : toc'[k].msg = file'[k]
    <3> SUFFICES ASSUME NEW k \in DOMAIN toc' PROVE toc'[k].msg = file'[k]
      OBVIOUS
    <3>1. CASE k \in DOMAIN toc
      BY <2>1, <2>3, <3>1
    <3>2. CASE k = Len(toc) + 1
      BY <2>1, <2>2, <2>3, <3>2
    <3>3. QED
      BY <2>1, <2>3, <2>4, <3>1, <3>2
  <2>6. \A k \in DOMAIN saved' : saved'[k].msg = file'[k]
    BY <2>1, <2>3, <2>4
  <2>7. QED
    BY <2>1, <2>3, <2>4, <2>5, <2>6
<1>3. ASSUME SaveToc \/ Save PROVE Tables'
  <2>1. open /\ saved' = toc /\ UNCHANGED <<open, toc, file>>
    BY <1>3 DEF SaveToc, Save, Session, Flags
  <2>2. QED
    BY <2>1
<1>4. ASSUME Crash PROVE Tables'
  BY <1>4 DEF Crash
<1>5. ASSUME NEW k \in DOMAIN toc, NEW deleted \in BOOLEAN, Flag(k, deleted) PROVE Tables'
  <2> DEFINE e == [toc[k] EXCEPT !.deleted = deleted]
  <2>1. open /\ UNCHANGED <<open, file, saved>> /\ toc' = [toc EXCEPT ![k] = e]
    BY <1>5 DEF Flag
  <2>2. toc[k] \in Entry
    OBVIOUS
  <2>3. e \in Entry /\ e.msg = toc[k].msg
    BY <2>2, FlaggedEntry
  <2> HIDE DEF e
  <2>4. toc' \in Seq(Entry) /\ DOMAIN toc' = DOMAIN toc /\ Len(toc') = Len(toc)
    BY <2>1, <2>3
  <2>5. \A j \in DOMAIN toc' : toc'[j].msg = file'[j]
    BY <2>1, <2>3, <2>4
  <2>6. QED
    BY <2>1, <2>4, <2>5
<1>6. ASSUME Compact PROVE Tables'
  <2>2. toc' \in Seq(Entry)
    BY <1>6, CompactKeeps
  <2>3. file' = [k \in DOMAIN toc' |-> toc'[k].msg] /\ saved' = toc'
    BY <1>6 DEF Compact
  <2>4. \A k \in DOMAIN toc' : toc'[k].msg \in Msgs
    <3>1. \A e \in Entry : e.msg \in Msgs
      BY DEF Entry
    <3>2. QED
      BY <2>2, <3>1
  <2>5. file' \in [1 .. Len(toc') -> Msgs] /\ Len(toc') \in Nat
    BY <2>2, <2>3, <2>4
  <2>6. file' \in Seq(Msgs)
    BY <2>5, SeqDef
  <2>7. Len(file') = Len(toc')
    BY <2>5, <2>6, LenProperties
  <2>8. QED
    BY <2>2, <2>3, <2>6, <2>7
<1>7. ASSUME UNCHANGED inbox PROVE Tables'
  BY <1>7 DEF inbox
<1>8. CASE UNCHANGED vars
  BY <1>7, <1>8 DEF vars
<1>9. CASE Next
  BY <1>9, InboxSteps, <1>1, <1>2, <1>3, <1>4, <1>5, <1>6, <1>7
<1>10. QED
  BY <1>8, <1>9

-----------------------------------------------------------------------------
(* The maildrop and the session                                            *)

LEMMA StepMaildrop == ASSUME TypeInv, [Next]_vars PROVE Maildrop'
<1> USE DEF TypeInv, Maildrop, ToSet, IsInjective
<1>1. ASSUME NEW m \in Msgs, Receive(m) PROVE Maildrop'
  <2>1. drop' = Append(drop, m) /\ arrived' = arrived \cup {m} /\ m \notin arrived
        /\ UNCHANGED <<file, lmos, compacted, refused>>
    BY <1>1 DEF Receive, inbox
  <2>2. drop' \in Seq(Msgs) /\ DOMAIN drop' = DOMAIN drop \cup {Len(drop) + 1}
    BY <2>1
  <2>3. /\ \A k \in DOMAIN drop : drop'[k] = drop[k] /\ drop[k] \in arrived
        /\ drop'[Len(drop) + 1] = m
    BY <2>1
  <2>4. \A a, b \in DOMAIN drop' : drop'[a] = drop'[b] => a = b
    BY <2>1, <2>2, <2>3
  <2>5. \A k \in DOMAIN drop' : drop'[k] \in arrived'
    BY <2>1, <2>2, <2>3
  <2>6. QED
    BY <2>1, <2>2, <2>4, <2>5
<1>2. ASSUME Download PROVE Maildrop'
  <2>1. cur \in arrived
    BY <1>2, CurListed DEF Download
  <2>2. file' = Append(file, cur) /\ UNCHANGED <<drop, lmos, hist>>
    BY <1>2 DEF Download, server
  <2>3. DOMAIN file' = DOMAIN file \cup {Len(file) + 1}
    BY <2>2 DEF Tables
  <2>4. \A k \in DOMAIN file' : file'[k] \in arrived
    BY <2>1, <2>2, <2>3 DEF Tables
  <2>5. QED
    BY <2>2, <2>4 DEF hist
<1>3. ASSUME SkipDuplicate \/ Mark PROVE Maildrop'
  <2>1. cur \in arrived
    BY <1>3, CurListed DEF SkipDuplicate, Mark
  <2>2. lmos' \subseteq lmos \cup {cur} /\ UNCHANGED <<drop, file, hist>>
    BY <1>3 DEF SkipDuplicate, Mark, server, inbox
  <2>3. QED
    BY <2>1, <2>2 DEF hist
<1>4. ASSUME AppendFails PROVE Maildrop'
  <2>1. cur \in arrived
    BY <1>4, CurListed DEF AppendFails
  <2>2. refused' \subseteq refused \cup {cur} /\ UNCHANGED <<drop, file, lmos, arrived, compacted>>
    BY <1>4 DEF AppendFails, server, inbox
  <2>3. QED
    BY <2>1, <2>2
<1>5. ASSUME Quit PROVE Maildrop'
  <2>1. UNCHANGED <<file, lmos, arrived, compacted, refused>>
    BY <1>5 DEF Quit, inbox, hist
  <2>2. CASE drop' = drop
    BY <2>1, <2>2
  <2>3. CASE drop' # drop
    <3> DEFINE K == {k \in DOMAIN drop : drop[k] \notin dele}
    <3>1. drop' = Kept(drop, K) /\ drop \in Seq(Msgs) /\ K \in SUBSET DOMAIN drop
      BY <1>5, <2>3 DEF Quit
    <3> HIDE DEF K
    <3>2. PICK f : Places(f, drop', drop, K)
      BY <3>1, KeptSeq
    <3>3. drop' \in Seq(Msgs)
      BY <3>1, KeptSeq
    <3>4. \A r \in DOMAIN drop' : drop'[r] \in arrived /\ f[r] \in DOMAIN drop
      BY <3>1, <3>2 DEF Places
    <3>5. \A a, b \in DOMAIN drop' : a < b => drop'[a] # drop'[b]
      BY <3>1, <3>2, <3>4 DEF Places
    <3>6. \A a, b \in DOMAIN drop' : a # b => a < b \/ b < a
      BY <3>3
    <3>7. \A a, b \in DOMAIN drop' : drop'[a] = drop'[b] => a = b
      BY <3>5, <3>6
    <3>8. QED
      BY <2>1, <3>3, <3>4, <3>7
  <2>4. QED
    BY <2>2, <2>3
<1>6. ASSUME Compact PROVE Maildrop'
  <2>1. PICK f \in [DOMAIN file' -> DOMAIN file] : \A r \in DOMAIN file' : file'[r] = file[f[r]]
    BY <1>6, CompactKeeps
  <2>2. open /\ toc \in Seq(Entry) /\ DOMAIN toc = DOMAIN file /\ \A k \in DOMAIN toc : toc[k].msg = file[k]
    BY <1>6, CompactKeeps DEF Compact, Tables, Covers
  <2>3. /\ compacted' = compacted \cup {toc[k].msg : k \in {n \in DOMAIN toc : toc[n].deleted}}
        /\ UNCHANGED <<drop, lmos, arrived, refused>>
    BY <1>6 DEF Compact, server
  <2>4. \A k \in DOMAIN file : file[k] \in arrived
    OBVIOUS
  <2>5. \A k \in DOMAIN toc : toc[k].msg \in arrived
    BY <2>2, <2>4
  <2>6. \A r \in DOMAIN file' : file'[r] \in arrived
    BY <2>1, <2>4
  <2>7. compacted' \subseteq arrived
    BY <2>3, <2>5
  <2>8. QED
    BY <2>3, <2>6, <2>7
<1>7. ASSUME UNCHANGED <<drop, file, lmos, hist>> PROVE Maildrop'
  BY <1>7 DEF hist
<1>8. ASSUME StartCheck PROVE Maildrop'
  BY <1>7, <1>8 DEF StartCheck
<1>9. ASSUME SkipSeen \/ RetrFails \/ MarkFails \/ Dele \/ SaveToc PROVE Maildrop'
  BY <1>7, <1>9 DEF SkipSeen, RetrFails, MarkFails, Dele, SaveToc, server, inbox
<1>10. ASSUME LoseConnection \/ Crash \/ Save PROVE Maildrop'
  BY <1>7, <1>10 DEF LoseConnection, Crash, Save, server, inbox
<1>11. ASSUME NEW k \in DOMAIN toc, NEW deleted \in BOOLEAN, Flag(k, deleted) PROVE Maildrop'
  BY <1>7, <1>11 DEF Flag, server
<1>12. CASE UNCHANGED vars
  BY <1>7, <1>12 DEF vars, server, inbox
<1>13. CASE Next
  BY <1>13, <1>1, <1>2, <1>3, <1>4, <1>5, <1>6, <1>8, <1>9, <1>10, <1>11 DEF Next, CheckStep
<1>14. QED
  BY <1>12, <1>13

LEMMA StepSession == ASSUME TypeInv, [Next]_vars PROVE Session'
<1> USE DEF TypeInv, Session, ToSet, IsInjective
<1>1. ASSUME NEW m \in Msgs, Receive(m) PROVE Session'
  <2>1. drop' = Append(drop, m) /\ arrived' = arrived \cup {m}
        /\ UNCHANGED <<dele, list, pc, i>>
    BY <1>1 DEF Receive, check
  <2>2. \A k \in DOMAIN drop : k \in DOMAIN drop' /\ drop'[k] = drop[k]
    BY <2>1 DEF Maildrop
  <2>3. ToSet(list') \subseteq ToSet(drop') \/ pc' = "save"
    BY <2>1, <2>2, SMTT(30)
  <2>4. QED
    BY <2>1, <2>3
<1>2. ASSUME StartCheck PROVE Session'
  <2>1. list' = drop /\ dele' = {} /\ pc' = "fetch" /\ i' = 1 /\ UNCHANGED <<drop, arrived>>
    BY <1>2 DEF StartCheck, hist
  <2>2. Len(drop) \in Nat /\ 1 \in 1 .. Len(drop) + 1
    BY DEF Maildrop
  <2>3. QED
    BY <2>1, <2>2 DEF Maildrop
<1>3. ASSUME SkipSeen \/ RetrFails \/ SkipDuplicate \/ Mark \/ MarkFails PROVE Session'
  <2>1. i \in DOMAIN list
    BY <1>3, CurListed DEF SkipSeen, RetrFails, SkipDuplicate, Mark, MarkFails
  <2>2. NextMessage /\ pc # "idle" /\ pc # "save" /\ UNCHANGED <<drop, dele, arrived>>
    BY <1>3 DEF SkipSeen, RetrFails, SkipDuplicate, Mark, MarkFails, Fetching, server, hist
  <2>3. pc' = "fetch" /\ list' = list /\ i' = i + 1
    BY <2>2 DEF NextMessage
  <2>4. i' \in 1 .. Len(list') + 1
    BY <2>1, <2>3
  <2>5. QED
    BY <2>2, <2>3, <2>4
<1>4. ASSUME Download \/ AppendFails PROVE Session'
  <2>1. i \in DOMAIN list
    BY <1>4, CurListed DEF Download, AppendFails
  <2>2. pc = "fetch" /\ UNCHANGED <<drop, dele, arrived>>
    BY <1>4 DEF Download, AppendFails, Fetching, server, hist
  <2>3. CASE pc' \in {"dele", "mark"} /\ UNCHANGED <<list, i>>
    <3>1. i' \in 1 .. Len(list') + 1 /\ i' <= Len(list') /\ pc' # "save" /\ pc' # "idle"
      BY <2>1, <2>3
    <3>2. UNCHANGED <<list, drop, dele, arrived>>
      BY <2>2, <2>3
    <3>3. QED
      BY <2>2, <2>3, <3>1, <3>2
  <2>4. CASE NextMessage
    <3>1. pc' = "fetch" /\ list' = list /\ i' = i + 1
      BY <2>4 DEF NextMessage
    <3>2. i' \in 1 .. Len(list') + 1
      BY <2>1, <3>1
    <3>3. QED
      BY <2>2, <3>1, <3>2
  <2>5. QED
    BY <1>4, <2>3, <2>4 DEF Download, AppendFails, AfterAppend
<1>5. ASSUME Dele PROVE Session'
  <2>1. i \in DOMAIN list /\ cur \in ToSet(list)
    BY <1>5, CurListed DEF Dele
  <2>2. NextMessage /\ pc = "dele" /\ dele' \subseteq dele \cup {cur} /\ UNCHANGED <<drop, arrived>>
    BY <1>5 DEF Dele, hist
  <2>3. QED
    BY <2>1, <2>2 DEF NextMessage
<1>6. ASSUME Quit PROVE Session'
  <2>1. i > Len(list) /\ pc' = "save" /\ dele' = {} /\ UNCHANGED <<list, i, arrived>>
    BY <1>6 DEF Quit, hist
  <2>2. i = Len(list) + 1
    BY <2>1
  <2>3. QED
    BY <2>1, <2>2
<1>7. ASSUME SaveToc \/ Crash PROVE Session'
  <2>1. list' = <<>> /\ pc' = "idle" /\ i' = 1
    BY <1>7 DEF SaveToc, Crash, NoCheck
  <2>2. dele' = {}
    BY <1>7 DEF SaveToc, Crash, server
  <2>3. QED
    BY <2>1, <2>2
<1>8. ASSUME UNCHANGED <<drop, list, pc, i, arrived>>, dele' \subseteq dele PROVE Session'
  BY <1>8
<1>9. ASSUME LoseConnection \/ Save \/ Compact PROVE Session'
  BY <1>8, <1>9 DEF LoseConnection, Save, Compact, server, check, hist
<1>10. ASSUME NEW k \in DOMAIN toc, NEW deleted \in BOOLEAN, Flag(k, deleted) PROVE Session'
  BY <1>8, <1>10 DEF Flag, server, check, hist
<1>11. CASE UNCHANGED vars
  BY <1>8, <1>11 DEF vars, server, check, hist
<1>12. CASE Next
  BY <1>12, <1>1, <1>2, <1>3, <1>4, <1>5, <1>6, <1>7, <1>9, <1>10 DEF Next, CheckStep
<1>13. QED
  BY <1>11, <1>12

LEMMA StepFlags == ASSUME TypeInv, [Next]_vars PROVE Flags'
<1> USE DEF TypeInv, Flags, Fault, NoFault
<1>1. ASSUME NEW m \in Msgs, Receive(m) PROVE Flags'
  BY <1>1 DEF Receive, check, inbox, setting
<1>2. ASSUME StartCheck PROVE Flags'
  <2>1. /\ leave' \in BOOLEAN /\ up' = TRUE /\ pc' = "fetch" /\ open' = TRUE
        /\ (uidl' = leave' /\ clean' = clean) \/ (leave' /\ uidl' = FALSE /\ clean' = FALSE)
    BY <1>2 DEF StartCheck
  <2>2. clean' \in BOOLEAN
    BY <2>1
  <2>3. uidl' \in BOOLEAN /\ (uidl' => leave')
    <3>1. CASE uidl' = leave'
      BY <2>1, <3>1
    <3>2. CASE uidl' = FALSE
      BY <3>2
    <3>3. QED
      BY <2>1, <3>1, <3>2
  <2>4. QED
    BY <2>1, <2>2, <2>3
<1>3. ASSUME SkipSeen \/ RetrFails \/ SkipDuplicate \/ Mark \/ MarkFails \/ Dele PROVE Flags'
  <2>1. /\ NextMessage /\ UNCHANGED <<open, leave>> /\ pc # "idle" /\ pc # "save"
        /\ clean' \in BOOLEAN
    BY <1>3 DEF SkipSeen, RetrFails, SkipDuplicate, Mark, MarkFails, Dele, inbox, setting, Fetching
  <2>2. QED
    BY <2>1 DEF NextMessage
<1>4. ASSUME Download \/ AppendFails PROVE Flags'
  <2>1. UNCHANGED <<open, leave>> /\ clean' \in BOOLEAN /\ pc = "fetch"
    BY <1>4 DEF Download, AppendFails, inbox, setting, Fetching
  <2>2. \/ pc' = "dele" /\ ~leave /\ UNCHANGED <<up, uidl>>
        \/ pc' = "mark" /\ uidl /\ UNCHANGED <<up, uidl>>
        \/ NextMessage
    BY <1>4 DEF Download, AppendFails, AfterAppend
  <2>3. QED
    BY <2>1, <2>2 DEF NextMessage
<1>5. ASSUME Quit PROVE Flags'
  BY <1>5 DEF Quit, inbox, setting
<1>6. ASSUME SaveToc PROVE Flags'
  BY <1>6 DEF SaveToc, NoCheck, setting
<1>7. ASSUME LoseConnection PROVE Flags'
  BY <1>7 DEF LoseConnection, inbox, setting
<1>8. ASSUME Crash PROVE Flags'
  BY <1>8 DEF Crash, NoCheck, setting
<1>9. ASSUME Save \/ Compact PROVE Flags'
  BY <1>9 DEF Save, Compact, check, setting
<1>10. ASSUME NEW k \in DOMAIN toc, NEW deleted \in BOOLEAN, Flag(k, deleted) PROVE Flags'
  BY <1>10 DEF Flag, check
<1>11. CASE UNCHANGED vars
  BY <1>11 DEF vars, check, inbox, setting
<1>12. CASE Next
  BY <1>12, <1>1, <1>2, <1>3, <1>4, <1>5, <1>6, <1>7, <1>8, <1>9, <1>10 DEF Next, CheckStep
<1>13. QED
  BY <1>11, <1>12

\* What a step may do to the counters: nothing, or count one event, or two
\* when a check starts.
LEMMA StepCounts == ASSUME TypeInv, [Next]_vars PROVE Counts'
<1> USE BoundAssumption DEF TypeInv, Counts, Fault, NoFault, Events
<1>1. ASSUME StartCheck PROVE Counts'
  BY <1>1 DEF StartCheck
<1>2. ASSUME CheckStep PROVE UNCHANGED <<faults, marks, changes>> \/ (Fault /\ UNCHANGED setting)
  BY <1>2 DEF CheckStep, SkipSeen, RetrFails, SkipDuplicate, Download, AppendFails, Mark, MarkFails,
              Dele, Quit, SaveToc, setting
<1>3. ASSUME LoseConnection \/ Crash PROVE Counts'
  BY <1>3 DEF LoseConnection, Crash, setting
<1>4. ASSUME NEW k \in DOMAIN toc, NEW deleted \in BOOLEAN, Flag(k, deleted) PROVE Counts'
  BY <1>4 DEF Flag
<1>5. ASSUME UNCHANGED <<faults, marks, changes>> PROVE Counts'
  BY <1>5
<1>6. ASSUME Save \/ Compact PROVE Counts'
  BY <1>5, <1>6 DEF Save, Compact, setting
<1>7. ASSUME NEW m \in Msgs, Receive(m) PROVE Counts'
  BY <1>5, <1>7 DEF Receive, setting
<1>8. CASE UNCHANGED vars
  BY <1>5, <1>8 DEF vars, setting
<1>9. CASE CheckStep
  <2>1. CASE Fault /\ UNCHANGED setting
    BY <2>1 DEF setting
  <2>2. QED
    BY <1>2, <1>5, <1>9, <2>1
<1>10. CASE Next
  BY <1>10, <1>1, <1>3, <1>4, <1>6, <1>7, <1>9 DEF Next
<1>11. QED
  BY <1>8, <1>10

LEMMA StepTypeInv == TypeInv /\ [Next]_vars => TypeInv'
  BY StepTables, StepMaildrop, StepSession, StepFlags, StepCounts DEF TypeInv

\* Whatever is downloaded, marked, compacted and lost, the table of In has a
\* summary for every message of its mbox file while it is open, the .toc file
\* for the first of them, and a session deletes only messages it has listed.
THEOREM TypeCorrect == Spec => []TypeOK
<1>1. QED
  BY InitTypeInv, StepTypeInv, TypeInvTypeOK, PTL DEF Spec

-----------------------------------------------------------------------------
(* What has been received                                                  *)

\* The mail that is in In or was compacted away stays so.
LEMMA MailStays ==
    ASSUME TypeInv, [Next]_vars, NEW p \in ToSet(file) \cup compacted
    PROVE  p \in ToSet(file') \cup compacted'
<1> USE DEF ToSet
<1>1. ASSUME Compact PROVE p \in ToSet(file') \cup compacted'
  <2>1. Tables /\ compacted \subseteq compacted'
    BY <1>1 DEF TypeInv, Compact
  <2>2. CASE p \in compacted
    BY <2>1, <2>2
  <2>3. CASE p \in ToSet(file)
    <3>1. PICK k \in DOMAIN file : p = file[k]
      BY <2>3
    <3>2. CASE toc[k].deleted
      BY <1>1, <2>1, <3>1, <3>2, CompactKeeps
    <3>3. CASE ~toc[k].deleted
      BY <1>1, <2>1, <3>1, <3>3, CompactKeeps
    <3>4. QED
      BY <3>2, <3>3
  <2>4. QED
    BY <2>2, <2>3
<1>2. ASSUME Download PROVE p \in ToSet(file') \cup compacted'
  <2>1. file' = Append(file, cur) /\ compacted' = compacted /\ file \in Seq(Msgs)
    BY <1>2 DEF Download, hist, TypeInv, Tables
  <2>2. \A k \in DOMAIN file : k \in DOMAIN file' /\ file'[k] = file[k]
    BY <2>1
  <2>3. QED
    BY <2>1, <2>2
<1>3. ASSUME UNCHANGED <<file, compacted>> PROVE p \in ToSet(file') \cup compacted'
  BY <1>3
<1>4. ASSUME SkipSeen \/ RetrFails \/ SkipDuplicate \/ AppendFails \/ Mark \/ MarkFails \/ Dele
             \/ Quit \/ SaveToc
      PROVE  p \in ToSet(file') \cup compacted'
  BY <1>3, <1>4 DEF SkipSeen, RetrFails, SkipDuplicate, AppendFails, Mark, MarkFails, Dele, Quit,
                    SaveToc, inbox, hist
<1>5. ASSUME StartCheck \/ LoseConnection \/ Crash \/ Save PROVE p \in ToSet(file') \cup compacted'
  BY <1>3, <1>5 DEF StartCheck, LoseConnection, Crash, Save, inbox, hist
<1>6. ASSUME NEW m \in Msgs, Receive(m) PROVE p \in ToSet(file') \cup compacted'
  BY <1>3, <1>6 DEF Receive, inbox
<1>7. ASSUME NEW k \in DOMAIN toc, NEW deleted \in BOOLEAN, Flag(k, deleted)
      PROVE  p \in ToSet(file') \cup compacted'
  BY <1>3, <1>7 DEF Flag, hist
<1>8. CASE UNCHANGED vars
  BY <1>3, <1>8 DEF vars, inbox, hist
<1>9. QED
  BY <1>1, <1>2, <1>4, <1>5, <1>6, <1>7, <1>8 DEF Next, CheckStep

LEMMA ReceivedStays ==
    ASSUME TypeInv, [Next]_vars, NEW n, Received(n)
    PROVE  Received(n)'
<1>1. PICK p \in ToSet(file) \cup compacted : SameMail(n, p)
  BY DEF Received
<1>2. p \in ToSet(file') \cup compacted'
  BY MailStays
<1>3. QED
  BY <1>1, <1>2 DEF Received

\* A duplicate is in In already, and a message that was downloaded is then.
LEMMA DuplicateReceived ==
    ASSUME TypeInv, open, NEW n, IsDuplicate(n)
    PROVE  Received(n)
<1>1. PICK k \in DOMAIN toc : Id[n] # NoId /\ Id[toc[k].msg] = Id[n]
  BY DEF IsDuplicate
<1>2. k \in DOMAIN file /\ toc[k].msg = file[k]
  BY DEF TypeInv, Tables, Covers
<1>3. QED
  BY <1>1, <1>2 DEF Received, SameMail, ToSet

LEMMA DownloadReceives ==
    ASSUME TypeInv, Download, NEW n, n = cur
    PROVE  Received(n)'
<1>1. file' = Append(file, n) /\ file \in Seq(Msgs) /\ n \in Msgs
  BY CurListed DEF Download, TypeInv, Tables
<1>2. Len(file) + 1 \in DOMAIN file' /\ file'[Len(file) + 1] = n
  BY <1>1
<1>3. n \in ToSet(file')
  BY <1>2 DEF ToSet
<1>4. QED
  BY <1>3 DEF Received, SameMail

-----------------------------------------------------------------------------
(* Nothing is marked, deleted or left out too early                        *)

LEMMA StepDropOrReceived ==
    ASSUME TypeInv, NothingEarly, [Next]_vars, NEW n \in arrived'
    PROVE  Received(n)' \/ n \in refused' \/ n \in ToSet(drop')
<1>1. CASE n \notin arrived
  <2>1. PICK m \in Msgs : Receive(m)
    BY <1>1 DEF Next, CheckStep, StartCheck, SkipSeen, RetrFails, SkipDuplicate, Download,
                AppendFails, Mark, MarkFails, Dele, Quit, SaveToc, LoseConnection, Crash, Flag,
                Save, Compact, hist, vars
  <2>2. n = m /\ drop' = Append(drop, m) /\ drop \in Seq(Msgs)
    BY <1>1, <2>1 DEF Receive, TypeInv, Maildrop
  <2>3. Len(drop) + 1 \in DOMAIN drop' /\ drop'[Len(drop) + 1] = n
    BY <2>2
  <2>4. QED
    BY <2>3 DEF ToSet
<1>2. CASE n \in arrived /\ Received(n)
  BY <1>2, ReceivedStays
<1>3. CASE n \in refused
  BY <1>3 DEF Next, CheckStep, Receive, StartCheck, SkipSeen, RetrFails, SkipDuplicate, Download,
              AppendFails, Mark, MarkFails, Dele, Quit, SaveToc, LoseConnection, Crash, Flag,
              Save, Compact, hist, vars
<1>4. CASE n \in ToSet(drop) /\ ~Received(n) /\ n \notin refused
  <2>1. ASSUME drop' = drop PROVE n \in ToSet(drop')
    BY <1>4, <2>1
  <2>2. ASSUME NEW m \in Msgs, Receive(m) PROVE n \in ToSet(drop')
    <3>1. drop' = Append(drop, m) /\ drop \in Seq(Msgs)
      BY <2>2 DEF Receive, TypeInv, Maildrop
    <3>2. \A k \in DOMAIN drop : k \in DOMAIN drop' /\ drop'[k] = drop[k]
      BY <3>1
    <3>3. QED
      BY <1>4, <3>2 DEF ToSet
  <2>3. ASSUME Quit PROVE n \in ToSet(drop')
    <3> DEFINE K == {k \in DOMAIN drop : drop[k] \notin dele}
    <3>1. CASE drop' = drop
      BY <1>4, <3>1
    <3>2. CASE drop' = Kept(drop, K)
      <4>1. PICK k \in DOMAIN drop : drop[k] = n
        BY <1>4 DEF ToSet
      <4>2. k \in K
        BY <1>4, <4>1 DEF NothingEarly
      <4>3. drop \in Seq(Msgs) /\ K \in SUBSET DOMAIN drop
        BY DEF TypeInv, Maildrop
      <4> HIDE DEF K
      <4>4. PICK f : Places(f, drop', drop, K)
        BY <3>2, <4>3, KeptSeq
      <4>5. PICK r \in DOMAIN drop' : f[r] = k
        BY <4>2, <4>4 DEF Places
      <4>6. drop'[r] = n
        BY <4>1, <4>4, <4>5 DEF Places
      <4>7. QED
        BY <4>5, <4>6 DEF ToSet
    <3>3. QED
      BY <2>3, <3>1, <3>2 DEF Quit
  <2>4. CASE UNCHANGED vars
    BY <2>1, <2>4 DEF vars, server
  <2>5. ASSUME SkipSeen \/ RetrFails \/ SkipDuplicate \/ Download \/ AppendFails \/ Mark \/ MarkFails
               \/ Dele \/ SaveToc
        PROVE  drop' = drop
    BY <2>5 DEF SkipSeen, RetrFails, SkipDuplicate, Download, AppendFails, Mark, MarkFails, Dele,
                SaveToc, server
  <2>6. ASSUME StartCheck \/ LoseConnection \/ Crash \/ Save \/ Compact PROVE drop' = drop
    BY <2>6 DEF StartCheck, LoseConnection, Crash, Save, Compact, server
  <2>7. ASSUME NEW k \in DOMAIN toc, NEW deleted \in BOOLEAN, Flag(k, deleted) PROVE drop' = drop
    BY <2>7 DEF Flag, server
  <2>8. QED
    BY <2>1, <2>2, <2>3, <2>4, <2>5, <2>6, <2>7 DEF Next, CheckStep
<1>5. QED
  BY <1>1, <1>2, <1>3, <1>4 DEF NothingEarly

LEMMA StepLmosReceived ==
    ASSUME TypeInv, NothingEarly, [Next]_vars, NEW n \in lmos'
    PROVE  Received(n)'
<1>1. CASE n \in lmos
  BY <1>1, ReceivedStays DEF NothingEarly
<1>2. CASE n \notin lmos
  <2>1. n = cur /\ (SkipDuplicate \/ Mark)
    BY <1>2 DEF Next, CheckStep, Receive, StartCheck, SkipSeen, RetrFails, SkipDuplicate, Download,
                AppendFails, Mark, MarkFails, Dele, Quit, SaveToc, LoseConnection, Crash, Flag,
                Save, Compact, vars
  <2>2. CASE SkipDuplicate
    <3>1. open /\ IsDuplicate(n)
      BY <2>1, <2>2, CurListed DEF SkipDuplicate
    <3>2. QED
      BY <3>1, DuplicateReceived, ReceivedStays
  <2>3. CASE Mark
    BY <2>1, <2>3, ReceivedStays DEF NothingEarly, Mark
  <2>4. QED
    BY <2>1, <2>2, <2>3
<1>3. QED
  BY <1>1, <1>2

LEMMA RefusedStay == ASSUME [Next]_vars PROVE refused \subseteq refused'
  BY DEF Next, CheckStep, Receive, StartCheck, SkipSeen, RetrFails, SkipDuplicate, Download,
         AppendFails, Mark, MarkFails, Dele, Quit, SaveToc, LoseConnection, Crash, Flag,
         Save, Compact, hist, vars

LEMMA StepDeleReceived ==
    ASSUME TypeInv, NothingEarly, [Next]_vars, NEW n \in dele'
    PROVE  Received(n)' \/ n \in refused'
<1>1. CASE n \in dele
  BY <1>1, ReceivedStays, RefusedStay DEF NothingEarly
<1>2. CASE n \notin dele
  <2>1. n = cur /\ pc = "dele"
    BY <1>2 DEF Next, CheckStep, Receive, StartCheck, SkipSeen, RetrFails, SkipDuplicate, Download,
                AppendFails, Mark, MarkFails, Dele, Quit, SaveToc, LoseConnection, Crash, Flag,
                Save, Compact, server, vars
  <2>2. QED
    BY <2>1, ReceivedStays, RefusedStay DEF NothingEarly
<1>3. QED
  BY <1>1, <1>2

\* A check comes to "mark" and "dele" only by an append, and stays at its message.
LEMMA TurnSteps ==
    ASSUME [Next]_vars, pc' \in {"mark", "dele"}
    PROVE  /\ UNCHANGED <<list, i>>
           /\ \/ Download
              \/ pc' = "dele" /\ AppendFails /\ ~leave
              \/ UNCHANGED pc
<1> USE DEF check
<1>1. CASE Download \/ AppendFails
  BY <1>1 DEF Download, AppendFails, AfterAppend, NextMessage
<1>2. CASE SkipSeen \/ RetrFails \/ SkipDuplicate \/ Mark \/ MarkFails \/ Dele \/ Quit \/ SaveToc
  BY <1>2 DEF SkipSeen, RetrFails, SkipDuplicate, Mark, MarkFails, Dele, Quit, SaveToc, NextMessage, NoCheck
<1>3. CASE StartCheck \/ LoseConnection \/ Crash \/ Save \/ Compact
  BY <1>3 DEF StartCheck, LoseConnection, Crash, Save, Compact, NoCheck
<1>4. CASE \/ \E m \in Msgs : Receive(m)
           \/ \E k \in DOMAIN toc, deleted \in BOOLEAN : Flag(k, deleted)
           \/ UNCHANGED vars
  BY <1>4 DEF Receive, Flag, vars
<1>5. QED
  BY <1>1, <1>2, <1>3, <1>4 DEF Next, CheckStep

LEMMA StepTurnReceived ==
    ASSUME TypeInv, NothingEarly, [Next]_vars, NEW n, n = list'[i']
    PROVE  /\ pc' = "mark" => Received(n)'
           /\ pc' = "dele" => Received(n)' \/ n \in refused'
<1> SUFFICES ASSUME pc' \in {"mark", "dele"}
             PROVE  /\ pc' = "mark" => Received(n)'
                    /\ pc' = "dele" => Received(n)' \/ n \in refused'
  OBVIOUS
<1>1. n = cur
  BY TurnSteps DEF cur
<1>2. CASE Download
  BY <1>1, <1>2, DownloadReceives
<1>3. CASE AppendFails /\ pc' = "dele" /\ ~leave
  BY <1>1, <1>3 DEF AppendFails
<1>4. CASE UNCHANGED pc
  BY <1>1, <1>4, ReceivedStays, RefusedStay DEF NothingEarly
<1>5. QED
  BY <1>2, <1>3, <1>4, TurnSteps

LEMMA StepNothingEarly == TypeInv /\ NothingEarly /\ [Next]_vars => NothingEarly'
<1> SUFFICES ASSUME TypeInv, NothingEarly, [Next]_vars PROVE NothingEarly'
  OBVIOUS
<1>1. pc' = "mark" => Received(cur)'
  <2>1. PICK n : n = list'[i']
    OBVIOUS
  <2>2. pc' = "mark" => Received(n)'
    BY <2>1, StepTurnReceived
  <2>3. QED
    BY <2>1, <2>2 DEF Received, SameMail, cur
<1>2. pc' = "dele" => Received(cur)' \/ cur' \in refused'
  <2>1. PICK n : n = list'[i']
    OBVIOUS
  <2>2. pc' = "dele" => Received(n)' \/ n \in refused'
    BY <2>1, StepTurnReceived
  <2>3. QED
    BY <2>1, <2>2 DEF Received, SameMail, cur
<1>3. QED
  BY <1>1, <1>2, StepDropOrReceived, StepLmosReceived, StepDeleReceived DEF NothingEarly

LEMMA InitNothingEarly == Init => NothingEarly
  BY DEF Init, NothingEarly, Received, cur

\* No mail is lost between the server and In.
THEOREM MailNotLost == Spec => []NothingLost
<1>1. TypeInv /\ NothingEarly => NothingLost
  BY DEF NothingEarly, NothingLost
<1>2. QED
  BY <1>1, InitTypeInv, StepTypeInv, InitNothingEarly, StepNothingEarly, PTL DEF Spec


-----------------------------------------------------------------------------
(* A check without a fault                                                 *)

\* When the check goes on to the next message and nothing has gone wrong, this
\* one has been received.
LEMMA TurnDone ==
    ASSUME TypeInv, NothingEarly, Thorough, CheckStep, clean', NextMessage
    PROVE  clean /\ up /\ \A n : n = cur => Received(n)'
<1> USE DEF Fault, NoFault
<1>1. [Next]_vars
  BY DEF Next
<1>2. CASE SkipSeen
  BY <1>1, <1>2, ReceivedStays DEF SkipSeen, Fetching, Thorough, NothingEarly
<1>3. CASE SkipDuplicate
  <2>1. clean /\ up /\ open /\ IsDuplicate(cur)
    BY <1>3, CurListed DEF SkipDuplicate
  <2>2. QED
    BY <1>1, <2>1, DuplicateReceived, ReceivedStays
<1>4. CASE Download
  BY <1>4, DownloadReceives DEF Download
<1>5. CASE Mark
  BY <1>1, <1>5, ReceivedStays DEF Mark, Thorough, NothingEarly
<1>6. CASE Dele
  BY <1>1, <1>6, ReceivedStays DEF Dele, Thorough
<1>7. CASE RetrFails
  BY <1>7 DEF RetrFails, Fetching, Thorough
<1>8. CASE AppendFails \/ MarkFails
  BY <1>8 DEF AppendFails, MarkFails
<1>9. CASE Quit \/ SaveToc
  BY <1>9 DEF Quit, SaveToc, NoCheck, NextMessage
<1>10. QED
  BY <1>2, <1>3, <1>4, <1>5, <1>6, <1>7, <1>8, <1>9 DEF CheckStep

\* Where a check that has met no fault goes.
LEMMA CleanSteps ==
    ASSUME [Next]_vars, clean'
    PROVE  \/ CheckStep /\ NextMessage
           \/ Download /\ clean /\ pc' \in {"mark", "dele"} /\ UNCHANGED <<list, up, i>>
           \/ clean /\ pc' = "save" /\ UNCHANGED <<list, i>>
           \/ pc' = "idle" /\ i' = 1
           \/ pc' = "fetch" /\ i' = 1 /\ up'
           \/ UNCHANGED check /\ clean
<1> USE DEF Fault, NoFault
<1>1. CASE Download
  BY <1>1 DEF Download, AfterAppend, CheckStep
<1>2. CASE Quit
  BY <1>2 DEF Quit
<1>3. CASE SaveToc \/ Crash
  BY <1>3 DEF SaveToc, Crash, NoCheck
<1>4. CASE SkipSeen \/ RetrFails \/ SkipDuplicate \/ Mark \/ MarkFails \/ Dele
  BY <1>4 DEF SkipSeen, RetrFails, SkipDuplicate, Mark, MarkFails, Dele, CheckStep
<1>5. CASE AppendFails \/ LoseConnection
  BY <1>5 DEF AppendFails, LoseConnection
<1>6. CASE StartCheck
  BY <1>6 DEF StartCheck
<1>7. CASE \/ \E m \in Msgs : Receive(m)
           \/ \E k \in DOMAIN toc, deleted \in BOOLEAN : Flag(k, deleted)
           \/ Save \/ Compact \/ UNCHANGED vars
  BY <1>7 DEF Receive, Flag, Save, Compact, vars
<1>8. QED
  BY <1>1, <1>2, <1>3, <1>4, <1>5, <1>6, <1>7 DEF Next, CheckStep

LEMMA StepThorough == TypeInv /\ NothingEarly /\ Thorough /\ [Next]_vars => Thorough'
<1> SUFFICES ASSUME TypeInv, NothingEarly, Thorough, [Next]_vars, clean'
             PROVE  /\ pc' \in {"fetch", "mark", "dele"} => up'
                    /\ pc' = "dele" => Received(cur)'
                    /\ \A k \in 1 .. i' - 1 : Received(list[k])'
  BY DEF Thorough
<1>1. i \in Nat /\ list \in Seq(Msgs)
  BY DEF TypeInv, Session
\* what was received stays so, under whatever name
<1>2. ASSUME clean, UNCHANGED list, NEW k \in 1 .. i - 1 PROVE Received(list[k])'
  <2>1. PICK n : n = list[k]
    OBVIOUS
  <2>2. Received(n)'
    BY <1>2, <2>1, ReceivedStays DEF Thorough
  <2>3. QED
    BY <1>2, <2>1, <2>2 DEF Received, SameMail
<1>3. CASE CheckStep /\ NextMessage
  <2>1. clean /\ up /\ \A n : n = cur => Received(n)'
    BY <1>3, TurnDone
  <2>2. pc' = "fetch" /\ i' = i + 1 /\ list' = list /\ up' = up
    BY <1>3 DEF NextMessage
  <2>3. ASSUME NEW k \in 1 .. i' - 1 PROVE Received(list[k])'
    <3>1. CASE k \in 1 .. i - 1
      BY <1>2, <2>1, <2>2, <3>1
    <3>2. CASE k = i
      <4>1. PICK n : n = cur
        OBVIOUS
      <4>2. Received(n)' /\ n = list'[k]
        BY <2>1, <2>2, <3>2, <4>1 DEF cur
      <4>3. QED
        BY <4>2 DEF Received, SameMail
    <3>3. QED
      BY <1>1, <2>2, <3>1, <3>2
  <2>4. QED
    BY <2>1, <2>2, <2>3
<1>4. CASE Download /\ clean /\ pc' \in {"mark", "dele"} /\ UNCHANGED <<list, up, i>>
  <2>1. up
    BY <1>4 DEF Download
  <2>2. PICK n : n = cur
    OBVIOUS
  <2>3. Received(n)'
    BY <1>4, <2>2, DownloadReceives
  <2>4. Received(cur)'
    BY <1>4, <2>2, <2>3 DEF Received, SameMail, cur
  <2>5. QED
    BY <1>2, <1>4, <2>1, <2>4
<1>5. CASE clean /\ pc' = "save" /\ UNCHANGED <<list, i>>
  BY <1>2, <1>5
<1>6. CASE pc' = "idle" /\ i' = 1
  BY <1>6
<1>7. CASE pc' = "fetch" /\ i' = 1 /\ up'
  BY <1>7
<1>8. CASE UNCHANGED check /\ clean
  <2>1. PICK n : n = cur
    OBVIOUS
  <2>2. pc = "dele" => Received(n)'
    BY <1>8, <2>1, ReceivedStays DEF Thorough
  <2>3. pc' = "dele" => Received(cur)'
    BY <1>8, <2>1, <2>2 DEF Received, SameMail, cur, check
  <2>4. QED
    BY <1>2, <1>8, <2>3 DEF check, Thorough
<1>9. QED
  BY <1>3, <1>4, <1>5, <1>6, <1>7, <1>8, CleanSteps

LEMMA InitThorough == Init => Thorough
  BY DEF Init, Thorough

\* A check that has met no fault leaves nothing out of what it has listed.
THEOREM CleanCheckComplete == Spec => CleanCheckReceivesAll
<1> DEFINE Step == pc = "save" /\ SaveToc /\ clean => \A k \in DOMAIN list : Received(list[k])
<1>1. TypeInv /\ Thorough => Step
  <2> SUFFICES ASSUME TypeInv, Thorough, pc = "save", clean, NEW k \in DOMAIN list
               PROVE  Received(list[k])
    OBVIOUS
  <2>1. k \in 1 .. i - 1
    BY DEF TypeInv, Session
  <2>2. QED
    BY <2>1 DEF Thorough
<1>2. TypeInv /\ Thorough /\ [Next]_vars => [Step]_vars
  BY <1>1
<1> HIDE DEF Step
<1>3. Spec => [][Step]_vars
  BY <1>2, InitTypeInv, StepTypeInv, InitNothingEarly, StepNothingEarly, InitThorough,
     StepThorough, PTL DEF Spec
<1>4. QED
  BY <1>3 DEF CleanCheckReceivesAll, Step

-----------------------------------------------------------------------------
(* Copies                                                                  *)

Occurrences(s, n) == Cardinality({k \in DOMAIN s : s[k] = n})

LEMMA CopiesNat ==
    ASSUME NEW s \in Seq(Msgs), NEW n
    PROVE  IsFiniteSet({k \in DOMAIN s : s[k] = n}) /\ Occurrences(s, n) \in Nat
<1>1. Len(s) \in Nat /\ DOMAIN s = 1 .. Len(s)
  OBVIOUS
<1>2. IsFiniteSet(1 .. Len(s))
  BY <1>1, FS_Interval
<1>3. QED
  BY <1>1, <1>2, FS_Subset, FS_CardinalityType DEF Occurrences

\* A download makes one copy of its message.
LEMMA CopiesAppend ==
    ASSUME NEW s \in Seq(Msgs), NEW m \in Msgs, NEW n, NEW t, t = Append(s, m)
    PROVE  /\ n = m => Occurrences(t, n) = Occurrences(s, n) + 1
           /\ n # m => Occurrences(t, n) = Occurrences(s, n)
<1> DEFINE P == {k \in DOMAIN s : s[k] = n}
           Q == {k \in DOMAIN t : t[k] = n}
<1>1. DOMAIN t = DOMAIN s \cup {Len(s) + 1} /\ Len(s) + 1 \notin DOMAIN s
  OBVIOUS
<1>2. t[Len(s) + 1] = m /\ \A k \in DOMAIN s : t[k] = s[k]
  OBVIOUS
<1>3. IsFiniteSet(P) /\ Cardinality(P) \in Nat
  BY CopiesNat DEF Occurrences
<1>4. CASE n = m
  <2>1. Q = P \cup {Len(s) + 1} /\ Len(s) + 1 \notin P
    BY <1>1, <1>2, <1>4
  <2>2. Cardinality(Q) = Cardinality(P) + 1
    BY <1>3, <2>1, FS_AddElement
  <2>3. QED
    BY <1>4, <2>2 DEF Occurrences
<1>5. CASE n # m
  <2>1. \A k \in DOMAIN t : k \in Q <=> k \in P
    BY <1>1, <1>2, <1>5
  <2>2. Q = P
    BY <1>1, <2>1
  <2> HIDE DEF P, Q
  <2>3. Cardinality(Q) = Cardinality(P)
    BY <1>3, <2>2
  <2>4. QED
    BY <1>5, <2>3 DEF P, Q, Occurrences
<1>6. QED
  BY <1>4, <1>5

\* Keeping some elements of a sequence, each once, makes no copies.
LEMMA CopiesKept ==
    ASSUME NEW s \in Seq(Msgs), NEW t \in Seq(Msgs), NEW n,
           NEW f \in [DOMAIN t -> DOMAIN s],
           \A r \in DOMAIN t : t[r] = s[f[r]],
           \A a, b \in DOMAIN t : a < b => f[a] < f[b]
    PROVE  Occurrences(t, n) <= Occurrences(s, n)
<1> DEFINE P == {k \in DOMAIN s : s[k] = n}
           Q == {k \in DOMAIN t : t[k] = n}
           g == [k \in Q |-> f[k]]
<1>1. g \in [Q -> P]
  OBVIOUS
<1>2. \A a, b \in Q : g[a] = g[b] => a = b
  <2> SUFFICES ASSUME NEW a \in Q, NEW b \in Q, a # b PROVE g[a] # g[b]
    OBVIOUS
  <2>1. a \in DOMAIN t /\ b \in DOMAIN t /\ (a < b \/ b < a)
    OBVIOUS
  <2>2. f[a] \in Nat /\ f[b] \in Nat
    BY <2>1
  <2>3. QED
    BY <2>1, <2>2
<1>3. g \in Injection(Q, P)
  BY <1>1, <1>2 DEF Injection, IsInjective
<1>4. IsFiniteSet(P)
  BY CopiesNat
<1> HIDE DEF g, P, Q
<1>5. Cardinality(Q) <= Cardinality(P)
  BY <1>3, <1>4, FS_Injection
<1>6. QED
  BY <1>5 DEF P, Q, Occurrences

LEMMA CopiesSteps ==
    ASSUME TypeInv, [Next]_vars, NEW n
    PROVE  /\ Copies(n) \in Nat /\ Copies(n)' \in Nat
           /\ Copies(n)' <= Copies(n) + (IF Download /\ n = cur THEN 1 ELSE 0)
<1>1. file \in Seq(Msgs) /\ file' \in Seq(Msgs)
  BY StepTables DEF TypeInv, Tables
<1>2. Copies(n) = Occurrences(file, n) /\ Copies(n)' = Occurrences(file', n)
  BY DEF Copies, Occurrences
<1>3. Copies(n) \in Nat /\ Copies(n)' \in Nat
  BY <1>1, <1>2, CopiesNat
<1>4. CASE Download
  <2>1. file' = Append(file, cur) /\ cur \in Msgs
    BY <1>4, CurListed DEF Download
  <2>2. CASE n = cur
    <3>1. Occurrences(file', n) = Occurrences(file, n) + 1
      BY <1>1, <2>1, <2>2, CopiesAppend, ZenonT(40)
    <3>2. QED
      BY <1>2, <1>3, <1>4, <2>2, <3>1
  <2>3. CASE n # cur
    <3>1. Occurrences(file', n) = Occurrences(file, n)
      BY <1>1, <2>1, <2>3, CopiesAppend, ZenonT(40)
    <3>2. QED
      BY <1>2, <1>3, <1>4, <2>3, <3>1
  <2>4. QED
    BY <2>2, <2>3
<1>5. CASE Compact
  <2>1. PICK f \in [DOMAIN file' -> DOMAIN file] :
           /\ \A r \in DOMAIN file' : file'[r] = file[f[r]]
           /\ \A a, b \in DOMAIN file' : a < b => f[a] < f[b]
    BY <1>5, CompactKeeps DEF TypeInv
  <2>2. Occurrences(file', n) <= Occurrences(file, n)
    BY <1>1, <2>1, CopiesKept
  <2>3. QED
    BY <1>2, <1>3, <2>2
<1>6. CASE file' = file
  BY <1>2, <1>3, <1>6
<1>7. QED
  BY <1>4, <1>5, <1>6, InboxSteps DEF inbox, StartCheck, SaveToc, Save, Crash, Flag, vars

-----------------------------------------------------------------------------
(* Every copy but the first is paid for                                    *)

\* A step without an event takes no chance back.
LEMMA ChancesKept ==
    ASSUME NEW n, Now(n)' => Now(n), Settled(n) => Settled(n)', UNCHANGED <<leave, uidl>>
    PROVE  Chances(n)' <= Chances(n)
  BY DEF Chances

\* An event gives one back.
LEMMA ChancesOneMore ==
    ASSUME NEW n, ~Now(n)' \/ (Now(n)' /\ Now(n) /\ UNCHANGED <<leave, uidl>>)
    PROVE  Chances(n)' <= Chances(n) + 1
  BY DEF Chances

LEMMA ChancesBounds == ASSUME NEW n PROVE Chances(n) \in 0 .. 2 /\ Chances(n)' \in 0 .. 2
  BY DEF Chances

\* The check goes on to the next message: it has no more to do with this one,
\* and all the others are where they were.
LEMMA NowNext ==
    ASSUME TypeInv, NextMessage, i \in DOMAIN list, pc \in {"fetch", "mark", "dele"},
           lmos \subseteq lmos', NEW n, Now(n)'
    PROVE  Now(n) /\ n # cur
<1>1. pc' = "fetch" /\ i' = i + 1 /\ list' = list /\ uidl' = uidl
  BY DEF NextMessage
<1>2. PICK k \in i + 1 .. Len(list) : list[k] = n
  BY <1>1 DEF Now, Pending
<1>3. list \in Seq(Msgs) /\ IsInjective(list) /\ i \in Nat
  BY DEF TypeInv, Session
<1>4. k \in DOMAIN list /\ k # i /\ k \in i .. Len(list)
  BY <1>2, <1>3
<1>5. n # cur
  BY <1>2, <1>3, <1>4 DEF cur, IsInjective
<1>6. Pending(n)
  BY <1>2, <1>4 DEF Pending
<1>7. ~(uidl /\ n \in lmos)
  BY <1>1 DEF Now
<1>8. QED
  BY <1>5, <1>6, <1>7 DEF Now

\* The check is left at its message after an append.
LEMMA NowTurn ==
    ASSUME TypeInv, i \in DOMAIN list, pc = "fetch", pc' \in {"mark", "dele"},
           UNCHANGED <<list, i, uidl, lmos>>, NEW n, Now(n)'
    PROVE  Now(n) /\ n # cur
<1>1. PICK k \in i + 1 .. Len(list) : list[k] = n
  BY DEF Now, Pending
<1>2. list \in Seq(Msgs) /\ IsInjective(list) /\ i \in Nat
  BY DEF TypeInv, Session
<1>3. k \in DOMAIN list /\ k # i /\ k \in i .. Len(list)
  BY <1>1, <1>2
<1>4. n # cur
  BY <1>1, <1>2, <1>3 DEF cur, IsInjective
<1>5. Pending(n)
  BY <1>1, <1>3 DEF Pending
<1>6. QED
  BY <1>4, <1>5 DEF Now

\* What is settled stays so in the course of a turn.
LEMMA SettledTurn ==
    ASSUME pc = "fetch", UNCHANGED <<drop, dele, arrived, up, leave>>, lmos \subseteq lmos',
           NEW n, Settled(n)
    PROVE  Settled(n)'
  BY DEF Settled

\* A download uses up one chance of its message.
LEMMA DownloadChances ==
    ASSUME TypeInv, Download, NEW n
    PROVE  /\ n # cur => Chances(n)' <= Chances(n)
           /\ n = cur => Chances(n)' + 1 <= Chances(n)
<1>1. i \in DOMAIN list /\ i \in Nat /\ list \in Seq(Msgs)
  BY CurListed DEF Download, TypeInv, Session
<1>2. /\ pc = "fetch" /\ up /\ Unseen
      /\ UNCHANGED <<drop, dele, arrived, leave, lmos>>
  BY DEF Download, Fetching, server, setting, hist
<1>3. UNCHANGED <<list, uidl, up>>
  BY DEF Download, AfterAppend, NextMessage
<1>4. Settled(n) => Settled(n)'
  BY <1>2, <1>3, SettledTurn
<1>5. Now(n)' => Now(n) /\ n # cur
  <2>1. CASE NextMessage
    BY <1>1, <1>2, <2>1, NowNext
  <2>2. CASE pc' \in {"mark", "dele"} /\ i' = i
    BY <1>1, <1>2, <1>3, <2>2, NowTurn
  <2>3. QED
    BY <2>1, <2>2 DEF Download, AfterAppend
<1>6. Chances(n)' <= Chances(n)
  BY <1>2, <1>3, <1>4, <1>5, ChancesKept
<1>7. CASE n = cur
  <2>1. Now(n) /\ ~Now(n)'
    <3>1. i \in i .. Len(list) /\ list[i] = n
      BY <1>1, <1>7 DEF cur
    <3>2. QED
      BY <1>2, <1>5, <1>7, <3>1 DEF Now, Pending, Unseen
  <2>2. CASE NextMessage /\ leave /\ ~uidl
    BY <1>3, <1>4, <2>1, <2>2 DEF Chances
  <2>3. CASE pc' \in {"mark", "dele"} /\ i' = i
    <3>1. n = cur'
      BY <1>3, <1>7, <2>3 DEF cur
    <3>2. Settled(n)'
      BY <1>2, <1>3, <2>3, <3>1 DEF Settled
    <3>3. QED
      BY <2>1, <3>2 DEF Chances
  <2>4. QED
    BY <2>2, <2>3 DEF Download, AfterAppend
<1>8. QED
  BY <1>6, <1>7

\* The other steps of a check.
LEMMA CheckChances ==
    ASSUME TypeInv, CheckStep, ~Download, NEW n
    PROVE  /\ changes' = changes
           /\ \/ faults' = faults /\ Chances(n)' <= Chances(n)
              \/ faults' = faults + 1 /\ Chances(n)' <= Chances(n) + 1
<1> USE DEF Fault, NoFault
<1>1. CASE SkipSeen \/ RetrFails \/ SkipDuplicate
  <2>1. i \in DOMAIN list
    BY <1>1, CurListed DEF SkipSeen, RetrFails, SkipDuplicate
  <2>2. /\ pc = "fetch" /\ NextMessage /\ lmos \subseteq lmos'
        /\ UNCHANGED <<drop, dele, arrived, leave, changes>>
        /\ faults' \in {faults, faults + 1}
    BY <1>1 DEF SkipSeen, RetrFails, SkipDuplicate, Fetching, server, setting, hist
  <2>3. UNCHANGED <<up, uidl>>
    BY <2>2 DEF NextMessage
  <2>4. Now(n)' => Now(n)
    BY <2>1, <2>2, NowNext
  <2>5. Settled(n) => Settled(n)'
    BY <2>2, <2>3, SettledTurn
  <2>6. Chances(n)' <= Chances(n)
    BY <2>2, <2>3, <2>4, <2>5, ChancesKept
  <2>7. QED
    BY <2>2, <2>6, ChancesBounds
<1>2. CASE AppendFails
  <2>1. i \in DOMAIN list
    BY <1>2, CurListed DEF AppendFails
  <2>2. /\ pc = "fetch" /\ UNCHANGED <<lmos, leave, changes>> /\ faults' = faults + 1
        /\ UNCHANGED <<list, uidl>>
        /\ NextMessage \/ (pc' \in {"mark", "dele"} /\ i' = i)
    BY <1>2 DEF AppendFails, AfterAppend, NextMessage, Fetching, setting
  <2>3. Now(n)' => Now(n)
    BY <2>1, <2>2, NowNext, NowTurn
  <2>4. QED
    BY <2>2, <2>3, ChancesOneMore
<1>3. CASE Mark
  <2>1. i \in DOMAIN list
    BY <1>3, CurListed DEF Mark
  <2>2. /\ pc = "mark" /\ NextMessage /\ lmos' = lmos \cup {cur}
        /\ UNCHANGED <<drop, dele, arrived, leave, changes, faults>>
    BY <1>3 DEF Mark, server, setting, hist
  <2>3. UNCHANGED <<up, uidl>> /\ leave
    BY <2>2 DEF NextMessage, TypeInv, Flags
  <2>4. Now(n)' => Now(n)
    BY <2>1, <2>2, NowNext
  <2>5. Settled(n) => Settled(n)'
    BY <2>2, <2>3 DEF Settled
  <2>6. QED
    BY <2>2, <2>3, <2>4, <2>5, ChancesKept
<1>4. CASE MarkFails
  <2>1. i \in DOMAIN list
    BY <1>4, CurListed DEF MarkFails
  <2>2. pc = "mark" /\ NextMessage /\ UNCHANGED <<lmos, leave, changes>> /\ faults' = faults + 1
    BY <1>4 DEF MarkFails, setting
  <2>3. Now(n)' => Now(n)
    BY <2>1, <2>2, NowNext
  <2>4. QED
    BY <2>2, <2>3, ChancesOneMore DEF NextMessage
<1>5. CASE Dele
  <2>1. i \in DOMAIN list
    BY <1>5, CurListed DEF Dele
  <2>2. /\ pc = "dele" /\ NextMessage /\ dele \subseteq dele' /\ (up => cur \in dele')
        /\ UNCHANGED <<drop, lmos, arrived, leave, changes, faults>>
    BY <1>5 DEF Dele, setting, hist
  <2>3. UNCHANGED <<up, uidl>>
    BY <2>2 DEF NextMessage
  <2>4. Now(n)' => Now(n)
    BY <2>1, <2>2, NowNext
  <2>5. Settled(n) => Settled(n)'
    BY <2>2, <2>3 DEF Settled
  <2>6. QED
    BY <2>2, <2>3, <2>4, <2>5, ChancesKept
<1>6. CASE Quit
  <2> DEFINE K == {k \in DOMAIN drop : drop[k] \notin dele}
  <2>1. /\ pc = "fetch" /\ pc' = "save" /\ dele' = {}
        /\ UNCHANGED <<lmos, arrived, leave, uidl, changes, faults>>
        /\ IF up THEN drop' = Kept(drop, K) ELSE drop' = drop
    BY <1>6 DEF Quit, setting, hist
  <2>2. ~Now(n)'
    BY <2>1 DEF Now, Pending
  <2>3. \A p \in ToSet(drop') : p \in ToSet(drop) /\ (up => p \notin dele)
    <3>1. CASE ~up
      BY <2>1, <3>1
    <3>2. CASE up
      <4>1. drop \in Seq(Msgs) /\ K \in SUBSET DOMAIN drop /\ drop' = Kept(drop, K)
        BY <2>1, <3>2 DEF TypeInv, Maildrop
      <4> HIDE DEF K
      <4>2. PICK f : Places(f, drop', drop, K)
        BY <4>1, KeptSeq
      <4>3. \A r \in DOMAIN drop' : f[r] \in K /\ drop'[r] = drop[f[r]]
        BY <4>2 DEF Places
      <4>4. QED
        BY <4>3 DEF K, ToSet
    <3>3. QED
      BY <3>1, <3>2
  <2>4. dele \subseteq arrived
    BY DEF TypeInv, Session
  <2>5. Settled(n) => Settled(n)'
    BY <2>1, <2>3, <2>4 DEF Settled
  <2>6. QED
    BY <2>1, <2>2, <2>5, ChancesKept
<1>7. CASE SaveToc
  <2>1. /\ pc = "save" /\ pc' = "idle" /\ ~up /\ dele = {}
        /\ UNCHANGED <<drop, lmos, arrived, leave, changes, faults>>
    BY <1>7 DEF SaveToc, NoCheck, server, setting, hist, TypeInv, Session, Flags
  <2>2. ~Now(n)' /\ ~Now(n)
    BY <2>1 DEF Now, Pending
  <2>3. Settled(n) => Settled(n)'
    BY <2>1 DEF Settled
  <2>4. Chances(n)' <= Chances(n)
    BY <2>2, <2>3 DEF Chances
  <2>5. QED
    BY <2>1, <2>4
<1>8. QED
  BY <1>1, <1>2, <1>3, <1>4, <1>5, <1>6, <1>7 DEF CheckStep

\* The start of a check: what is settled stays out of it, and the rest has one
\* chance more only with a fault or a change of the setting.
LEMMA StartChances ==
    ASSUME TypeInv, StartCheck, NEW n
    PROVE  Chances(n)' <= Chances(n) + (faults' - faults) + (changes' - changes)
<1>1. /\ pc = "idle" /\ ~up /\ dele = {}
      /\ pc' = "fetch" /\ i' = 1 /\ list' = drop /\ dele' = {}
      /\ UNCHANGED <<drop, lmos, arrived>>
      /\ leave \in BOOLEAN /\ leave' \in BOOLEAN
      /\ changes' = IF leave' = leave THEN changes ELSE changes + 1
    BY DEF StartCheck, hist, TypeInv, Session, Flags
<1>2. \/ uidl' = leave' /\ faults' = faults
      \/ leave' /\ ~uidl' /\ faults' = faults + 1
    BY DEF StartCheck, Fault, NoFault
<1>3. faults \in Nat /\ changes \in Nat
  BY DEF TypeInv, Counts
<1>4. ~Now(n)
  BY <1>1 DEF Now, Pending
<1>5. Now(n)' => n \in ToSet(drop) /\ ~(uidl' /\ n \in lmos)
  <2>1. drop \in Seq(Msgs)
    BY DEF TypeInv, Maildrop
  <2>2. Pending(n)' => n \in ToSet(drop)
    BY <1>1, <2>1 DEF Pending, ToSet
  <2>3. QED
    BY <1>1, <2>2 DEF Now
<1>6. Settled(n) <=> (n \in arrived \ ToSet(drop)) \/ (leave /\ n \in lmos)
  BY <1>1 DEF Settled
<1>7. (n \in arrived \ ToSet(drop)) \/ (leave' /\ n \in lmos) => Settled(n)'
  BY <1>1 DEF Settled
<1>8. Chances(n) = IF Settled(n) THEN 0 ELSE 1
  BY <1>4 DEF Chances
<1>9. CASE (leave' <=> leave) /\ (uidl' <=> leave') /\ faults' = faults
  <2>1. changes' = changes
    BY <1>1, <1>9
  <2>2. CASE Settled(n)
    <3>1. Settled(n)' /\ ~Now(n)'
      BY <1>5, <1>6, <1>7, <1>9, <2>2
    <3>2. Chances(n)' = 0
      BY <3>1 DEF Chances
    <3>3. QED
      BY <1>3, <1>8, <1>9, <2>1, <2>2, <3>2
  <2>3. CASE ~Settled(n)
    <3>1. Chances(n)' <= 1
      BY <1>9 DEF Chances
    <3>2. QED
      BY <1>3, <1>8, <1>9, <2>1, <2>3, <3>1, ChancesBounds
  <2>4. QED
    BY <2>2, <2>3
<1>10. CASE ~(leave' <=> leave) /\ (uidl' <=> leave') /\ faults' = faults
  <2>1. changes' = changes + 1
    BY <1>1, <1>10
  <2>2. Chances(n)' <= 1
    BY <1>10 DEF Chances
  <2>3. QED
    BY <1>3, <1>10, <2>1, <2>2, ChancesBounds
<1>11. CASE (leave' <=> leave) /\ faults' = faults + 1
  <2>1. changes' = changes
    BY <1>1, <1>11
  <2>2. CASE Settled(n)
    <3>1. Settled(n)'
      BY <1>6, <1>7, <1>11, <2>2
    <3>2. Chances(n)' <= 1
      BY <3>1 DEF Chances
    <3>3. QED
      BY <1>3, <1>11, <2>1, <3>2, ChancesBounds
  <2>3. CASE ~Settled(n)
    BY <1>3, <1>8, <1>11, <2>1, <2>3, ChancesBounds
  <2>4. QED
    BY <2>2, <2>3
<1>12. CASE ~(leave' <=> leave) /\ faults' = faults + 1
  <2>1. changes' = changes + 1
    BY <1>1, <1>12
  <2>2. QED
    BY <1>3, <1>12, <2>1, ChancesBounds
<1>13. QED
  BY <1>2, <1>9, <1>10, <1>11, <1>12

\* The steps outside the check.
LEMMA OtherChances ==
    ASSUME TypeInv, [Next]_vars, ~StartCheck, ~CheckStep, NEW n
    PROVE  /\ changes' = changes
           /\ \/ faults' = faults /\ Chances(n)' <= Chances(n)
              \/ faults' = faults + 1 /\ Chances(n)' <= Chances(n) + 1
<1> USE DEF Fault, NoFault, check
<1>1. ASSUME NEW m \in Msgs, Receive(m)
      PROVE  UNCHANGED <<changes, faults>> /\ Chances(n)' <= Chances(n)
  <2>1. /\ m \notin arrived /\ drop' = Append(drop, m) /\ drop \in Seq(Msgs)
        /\ arrived' = arrived \cup {m}
        /\ UNCHANGED <<dele, list, up, uidl, pc, i, lmos, leave, changes, faults>>
    BY <1>1 DEF Receive, setting, TypeInv, Maildrop
  <2>2. Now(n)' => Now(n)
    BY <2>1 DEF Now, Pending
  <2>3. ToSet(drop') \subseteq ToSet(drop) \cup {m}
    BY <2>1 DEF ToSet
  <2>4. Settled(n) => Settled(n)'
    BY <2>1, <2>3 DEF Settled, cur
  <2>5. QED
    BY <2>1, <2>2, <2>4, ChancesKept
<1>2. ASSUME UNCHANGED <<drop, dele, list, up, uidl, pc, i, lmos, leave, arrived, changes, faults>>
      PROVE  UNCHANGED <<changes, faults>> /\ Chances(n)' <= Chances(n)
  <2>1. Now(n)' => Now(n)
    BY <1>2 DEF Now, Pending
  <2>2. Settled(n) => Settled(n)'
    BY <1>2 DEF Settled, cur
  <2>3. QED
    BY <1>2, <2>1, <2>2, ChancesKept
<1>3. CASE Save \/ Compact
  BY <1>2, <1>3 DEF Save, Compact, server, setting, hist
<1>4. ASSUME NEW k \in DOMAIN toc, NEW deleted \in BOOLEAN, Flag(k, deleted)
      PROVE  UNCHANGED <<changes, faults>> /\ Chances(n)' <= Chances(n)
  BY <1>2, <1>4 DEF Flag, server, hist
<1>5. CASE UNCHANGED vars
  BY <1>2, <1>5 DEF vars, server, setting, hist
<1>6. CASE LoseConnection
  <2>1. faults' = faults + 1 /\ UNCHANGED <<changes, leave, lmos, list, pc, i, uidl>>
    BY <1>6 DEF LoseConnection, setting
  <2>2. Now(n)' => Now(n)
    BY <2>1 DEF Now, Pending
  <2>3. QED
    BY <2>1, <2>2, ChancesOneMore
<1>7. CASE Crash
  <2>1. faults' = faults + 1 /\ changes' = changes /\ pc' = "idle"
    BY <1>7 DEF Crash, NoCheck, setting
  <2>2. ~Now(n)'
    BY <2>1 DEF Now, Pending
  <2>3. QED
    BY <2>1, <2>2, ChancesOneMore
<1>8. QED
  BY <1>1, <1>3, <1>4, <1>5, <1>6, <1>7 DEF Next

LEMMA InitBudget == Init => Budget
<1> SUFFICES ASSUME Init, NEW n \in Msgs PROVE Copies(n) + Chances(n) <= 1 + faults + changes
  BY DEF Budget
<1>1. {k \in DOMAIN file : file[k] = n} = {}
  BY DEF Init
<1>2. Copies(n) = 0
  BY <1>1, FS_EmptySet DEF Copies
<1>3. Chances(n) <= 1
  BY DEF Init, Chances, Now, Pending
<1>4. faults = 0 /\ changes = 0
  BY DEF Init
<1>5. QED
  BY <1>2, <1>3, <1>4, ChancesBounds

LEMMA StepBudget == TypeInv /\ Budget /\ [Next]_vars => Budget'
<1> SUFFICES ASSUME TypeInv, Budget, [Next]_vars, NEW n \in Msgs
             PROVE  Copies(n)' + Chances(n)' <= 1 + faults' + changes'
  BY DEF Budget
<1>1. Copies(n) + Chances(n) <= 1 + faults + changes
  BY DEF Budget
<1>2. /\ Copies(n) \in Nat /\ Copies(n)' \in Nat
      /\ Chances(n) \in 0 .. 2 /\ Chances(n)' \in 0 .. 2
      /\ faults \in Nat /\ changes \in Nat /\ faults' \in Nat /\ changes' \in Nat
  BY CopiesSteps, ChancesBounds, StepCounts DEF TypeInv, Counts
<1>3. CASE Download
  <2>1. UNCHANGED <<faults, changes>>
    BY <1>3 DEF Download, NoFault, setting
  <2>2. CASE n = cur
    <3>1. Copies(n)' <= Copies(n) + 1 /\ Chances(n)' + 1 <= Chances(n)
      BY <1>3, <2>2, CopiesSteps, DownloadChances
    <3>2. QED
      BY <1>1, <1>2, <2>1, <3>1
  <2>3. CASE n # cur
    <3>1. Copies(n)' <= Copies(n) + 0 /\ Chances(n)' <= Chances(n)
      BY <1>3, <2>3, CopiesSteps, DownloadChances
    <3>2. QED
      BY <1>1, <1>2, <2>1, <3>1
  <2>4. QED
    BY <2>2, <2>3
<1>4. CASE ~Download
  <2>1. Copies(n)' <= Copies(n) + 0
    BY <1>4, CopiesSteps
  <2>2. Chances(n)' <= Chances(n) + (faults' - faults) + (changes' - changes)
    <3>1. CASE StartCheck
      BY <3>1, StartChances
    <3>2. CASE CheckStep
      BY <1>2, <1>4, <3>2, CheckChances
    <3>3. CASE ~StartCheck /\ ~CheckStep
      BY <1>2, <3>3, OtherChances
    <3>4. QED
      BY <3>1, <3>2, <3>3
  <2>3. QED
    BY <1>1, <1>2, <2>1, <2>2
<1>5. QED
  BY <1>3, <1>4

\* However often a message comes again, there was a fault or a change of the
\* leave-on-server setting for each time.
THEOREM RedeliveryPaid == Spec => []RedeliveryNeedsFault
<1>1. TypeInv /\ Budget => RedeliveryNeedsFault
  <2> SUFFICES ASSUME TypeInv, Budget, NEW n \in Msgs PROVE Copies(n) <= 1 + faults + changes
    BY DEF RedeliveryNeedsFault
  <2>1. Copies(n) + Chances(n) <= 1 + faults + changes
    BY DEF Budget
  <2>2. Occurrences(file, n) \in Nat
    BY CopiesNat DEF TypeInv, Tables
  <2>3. Copies(n) \in Nat
    BY <2>2 DEF Copies, Occurrences
  <2>4. faults \in Nat /\ changes \in Nat /\ Chances(n) \in 0 .. 2
    BY ChancesBounds DEF TypeInv, Counts
  <2>5. QED
    BY <2>1, <2>3, <2>4
<1>2. QED
  BY <1>1, InitTypeInv, StepTypeInv, InitBudget, StepBudget, PTL DEF Spec
=============================================================================
