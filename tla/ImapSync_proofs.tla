--------------------------- MODULE ImapSync_proofs ---------------------------
(***************************************************************************)
(* Proofs about ImapSync, for any accounts, messages and bounds.           *)
(*                                                                         *)
(* A step of the server changes what the accounts have and nothing else;   *)
(* every other step leaves that alone.  What relates the summaries to the  *)
(* INBOX is proved for the two kinds of steps apart.                       *)
(***************************************************************************)
EXTENDS ImapSync, SequenceTheorems, FiniteSetTheorems, TLAPS

-----------------------------------------------------------------------------
(* What is kept of a sequence                                              *)

\* The numbers of a finite set have the ranks 1, 2, 3 ... in their order.
LEMMA Ranks ==
    ASSUME NEW K, K \subseteq Nat, IsFiniteSet(K), NEW n, n = Cardinality(K)
    PROVE  /\ n \in Nat
           /\ \A k \in K : Rank(k, K) \in 1 .. n
           /\ \A a, b \in K : a < b => Rank(a, K) < Rank(b, K)
           /\ \A x \in 1 .. n : \E k \in K : Rank(k, K) = x
<1> DEFINE R(k) == Rank(k, K)
           g    == [k \in K |-> R(k)]
<1>1. n \in Nat
  BY FS_CardinalityType
<1>2. \A k \in K : R(k) \in 1 .. n
  <2> SUFFICES ASSUME NEW k \in K PROVE R(k) \in 1 .. n
    OBVIOUS
  <2> DEFINE S == {j \in K : j <= k}
  <2>1. S \subseteq K /\ k \in S
    OBVIOUS
  <2>2. IsFiniteSet(S) /\ Cardinality(S) <= n /\ Cardinality(S) \in Nat
    BY <2>1, FS_Subset, FS_CardinalityType
  <2>3. Cardinality(S) # 0
    BY <2>1, <2>2, FS_EmptySet
  <2>4. QED
    BY <1>1, <2>2, <2>3 DEF Rank
<1>3. \A a, b \in K : a < b => R(a) < R(b)
  <2> SUFFICES ASSUME NEW a \in K, NEW b \in K, a < b PROVE R(a) < R(b)
    OBVIOUS
  <2> DEFINE S == {j \in K : j <= a}
             T == {j \in K : j <= b}
  <2>1. IsFiniteSet(T)
    BY FS_Subset
  <2>0. a \in Nat /\ b \in Nat /\ \A j \in K : j \in Nat
    OBVIOUS
  <2>2. S \subseteq T
    <3>1. \A x \in K : x <= a => x <= b
      BY <2>0
    <3>2. QED
      BY <3>1
  <2>3. b \in T /\ b \notin S
    BY <2>0
  <2>4. QED
    BY <2>1, <2>2, <2>3, FS_Subset, FS_CardinalityType DEF Rank
<1> HIDE DEF R
<1>4. \A a, b \in K : R(a) = R(b) => a = b
  BY <1>2, <1>3
<1>5. g \in Injection(K, 1 .. n)
  BY <1>2, <1>4 DEF Injection, IsInjective
<1>6. IsFiniteSet(1 .. n) /\ Cardinality(1 .. n) = Cardinality(K)
  BY <1>1, FS_Interval
<1>7. g \in Surjection(K, 1 .. n)
  BY <1>5, <1>6, FS_Injection
<1>8. \A x \in 1 .. n : \E k \in K : R(k) = x
  BY <1>7 DEF Surjection
<1>9. QED
  BY <1>1, <1>2, <1>3, <1>8 DEF R

\* A set of some of the numbers up to n has a least one.
LEMMA Least ==
    ASSUME NEW n \in Nat, NEW K, K \subseteq 1 .. n, K # {}
    PROVE  \E j \in K : \A k \in K : j <= k
<1>1. K \subseteq Nat /\ IsFiniteSet(K)
  <2>1. IsFiniteSet(1 .. n)
    BY FS_Interval
  <2>2. IsFiniteSet(K)
    BY <2>1, FS_Subset
  <2>3. QED
    BY <2>2
<1>2. Cardinality(K) \in Nat /\ Cardinality(K) # 0
  BY <1>1, FS_EmptySet, FS_CardinalityType
<1>3. 1 \in 1 .. Cardinality(K)
  BY <1>2
<1>4. PICK j \in K : Rank(j, K) = 1
  BY <1>1, <1>3, Ranks
<1>5. \A k \in K : Rank(k, K) \in 1 .. Cardinality(K) /\ (k < j => Rank(k, K) < Rank(j, K))
  BY <1>1, Ranks
<1>6. \A k \in K : ~(k < j)
  BY <1>2, <1>4, <1>5
<1>7. QED
  BY <1>1, <1>6

\* f takes the positions of t to those of the same elements in s, which are K.
Places(f, t, s, K) ==
    /\ f \in [DOMAIN t -> K]
    /\ \A r \in DOMAIN t : t[r] = s[f[r]]
    /\ \A k \in K : \E r \in DOMAIN t : f[r] = k
    /\ \A a, b \in DOMAIN t : a < b => f[a] < f[b]

\* The elements at the positions K are kept, each once, in their order.
LEMMA KeptSeq ==
    ASSUME NEW A, NEW s \in Seq(A), NEW K \in SUBSET DOMAIN s, NEW t, t = Kept(s, K)
    PROVE  t \in Seq(A) /\ \E f : Places(f, t, s, K)
<1> DEFINE n == Cardinality(K)
           R(k) == Rank(k, K)
           f == [x \in 1 .. n |-> CHOOSE k \in K : R(k) = x]
<1>1. K \subseteq Nat /\ IsFiniteSet(K)
  <2>1. Len(s) \in Nat /\ DOMAIN s = 1 .. Len(s)
    OBVIOUS
  <2>2. IsFiniteSet(1 .. Len(s))
    BY <2>1, FS_Interval
  <2>3. QED
    BY <2>1, <2>2, FS_Subset
<1> HIDE DEF n
<1>0. n \in Nat
  BY <1>1, Ranks DEF n
<1>2. /\ \A k \in K : R(k) \in 1 .. n
      /\ \A a, b \in K : a < b => R(a) < R(b)
      /\ \A x \in 1 .. n : \E k \in K : R(k) = x
  BY <1>1, Ranks DEF n
<1> HIDE DEF R
<1>3. \A x \in 1 .. n : f[x] \in K /\ R(f[x]) = x
  BY <1>2
<1>4. t = [x \in 1 .. n |-> s[f[x]]]
  BY DEF Kept, R, n
<1>5. f \in [1 .. n -> K]
  BY <1>3
<1> HIDE DEF f
<1>6. \A x \in 1 .. n : s[f[x]] \in A
  BY <1>3
<1>7. t \in [1 .. n -> A] /\ \A x \in 1 .. n : t[x] = s[f[x]]
  BY <1>4, <1>6
<1>8. t \in Seq(A) /\ DOMAIN t = 1 .. n
  BY <1>0, <1>7, SeqDef
<1>9. \A k \in K : \E x \in 1 .. n : f[x] = k
  BY <1>1, <1>2, <1>3
<1>10. \A a, b \in 1 .. n : a < b => f[a] < f[b]
  <2> SUFFICES ASSUME NEW a \in 1 .. n, NEW b \in 1 .. n, a < b, ~(f[a] < f[b]) PROVE FALSE
    OBVIOUS
  <2>1. f[b] <= f[a] /\ f[a] \in K /\ f[b] \in K
    BY <1>1, <1>3
  <2>2. R(f[b]) <= R(f[a])
    BY <1>1, <1>2, <2>1, SMTT(30)
  <2>3. R(f[a]) = a /\ R(f[b]) = b
    BY <1>3
  <2>4. QED
    BY <1>0, <2>2, <2>3
<1>11. Places(f, t, s, K)
  BY <1>5, <1>7, <1>8, <1>9, <1>10 DEF Places
<1>12. QED
  BY <1>8, <1>11

-----------------------------------------------------------------------------
(* The inductive invariants                                                *)

\* The messages that have arrived at account a.
Came(a) == {m \in Remote \cap arrived : Home[m] = a}

Inboxes ==
    /\ inbox \in [Accts -> SUBSET Item]
    /\ next \in [Accts -> Nat \ {0}] /\ epoch \in [Accts -> 1 .. MaxEpoch]
    /\ arrived \subseteq Msgs
    /\ \A a \in Accts :
          /\ next[a] <= 1 + Cardinality(Came(a))
          /\ \A r \in inbox[a] : r.uid < next[a] /\ r.msg \in Came(a)
          /\ \A r, s \in inbox[a] : r.uid = s.uid \/ r.msg = s.msg => r = s

\* The summaries s are those of the first messages of the mbox file.
Covers(s) ==
    /\ s \in Seq(Entry) /\ Len(s) <= Len(file)
    /\ \A k \in DOMAIN s : s[k].msg = file[k]

Tables ==
    /\ file \in Seq(Msgs) /\ toc \in Seq(Entry)
    /\ \A k \in DOMAIN file : file[k] \in arrived
    /\ Covers(saved)
    /\ open => Covers(toc) /\ Len(toc) = Len(file)

\* A sync that works on a connection sees the INBOX that the server has.
Control ==
    /\ pc \in {"idle", "select", "list", "fetch", "save"} /\ acct \in Accts
    /\ up \in BOOLEAN /\ open \in BOOLEAN /\ clean \in BOOLEAN
    /\ server \in 0 .. MaxEpoch /\ validity \in [Accts -> 0 .. MaxEpoch]
    /\ local \in Seq(Entry)
    /\ Busy => open
    /\ Busy /\ clean => up
    /\ up /\ pc \in {"list", "fetch", "save"} => server = epoch[acct]

Listing ==
    /\ listing \subseteq Item /\ todo \subseteq listing
    /\ pc \notin {"fetch", "save"} => listing = {}
    /\ pc = "save" => todo = {}
    /\ \A r, s \in listing : r.uid = s.uid \/ r.msg = s.msg => r = s
    /\ up => \A l \in listing :
                /\ l.uid < next[acct] /\ l.msg \in Came(acct)
                /\ \A r \in inbox[acct] : r.uid = l.uid <=> r.msg = l.msg
    /\ pc = "fetch" /\ ~Resync => \A r \in todo : r.uid \notin LocalUids

Counts ==
    /\ faults \in 0 .. MaxFaults /\ changes \in 0 .. MaxChanges
    /\ touched \subseteq Msgs /\ binned \subseteq Msgs /\ reread \subseteq Local

Bound(m) == faults + epoch[Home[m]]
Slack(m) == Copies(m) < Bound(m)

Has(r) == open /\ \E k \in DOMAIN toc : toc[k].msg = r.msg /\ toc[k].uid = r.uid
Held(a, r) ==
    /\ Has(r)
    /\ validity[a] = epoch[a] \/ (acct = a /\ pc = "fetch" /\ server = epoch[a])
    /\ acct = a /\ pc \in {"select", "list"} => r.uid \in LocalUids

\* A message may be fetched once more when the bound leaves room for it, and is
\* not fetched again when In holds it and the sync knows that.
Paid ==
    /\ \A m \in Remote : Copies(m) <= Bound(m)
    /\ Busy /\ ~up => \A m \in Remote : Slack(m)
    /\ up /\ pc = "fetch" => \A r \in todo : Slack(r.msg)
    /\ \A a \in Accts : \A r \in inbox[a] : Slack(r.msg) \/ Held(a, r)

Plain(s) == \A k \in DOMAIN s : s[k].msg \in Local \ reread => s[k].uid = 0
Origins  == Plain(toc) /\ Plain(saved) /\ 0 \notin LocalUids

\* A summary whose UID is current has the message the server knows by it.
Known(e) ==
    /\ e.from # 0 => e.epoch <= epoch[e.from]
    /\ Current(e) => /\ e.uid \in 1 .. next[e.from] - 1
                     /\ \A r \in inbox[e.from] : r.uid = e.uid => r.msg = e.msg
Live(e) ==
    Current(e) /\ e.deleted => e.msg \in binned \/ \A r \in inbox[e.from] : r.uid # e.uid
Faithful ==
    /\ \A k \in DOMAIN toc   : Known(toc[k]) /\ Live(toc[k])
    /\ \A k \in DOMAIN saved : Known(saved[k]) /\ Live(saved[k])
    /\ \A k \in DOMAIN local : Known(local[k])

Same(e, f) == e.msg = f.msg /\ e.uid = f.uid /\ e.from = f.from /\ e.epoch = f.epoch

Twice(s, u) == \E j, k \in DOMAIN s : j # k /\ s[j].uid = u /\ s[k].uid = u
Carried ==
    pc \in {"select", "list"} =>
        /\ \A k \in DOMAIN toc : toc[k].uid # 0 => \E j \in DOMAIN local : Same(local[j], toc[k])
        /\ \A u \in LocalUids : Twice(toc, u) => Twice(local, u)
        /\ \A j \in DOMAIN local : local[j].msg \in touched \/ \E k \in DOMAIN toc : Same(local[j], toc[k])

Explained(e) ==
    \/ e.deleted \/ e.uid = 0 \/ e.msg \in touched \/ Ambiguous(e.uid)
    \/ \E r \in listing : r.uid = e.uid
Accounted == pc \in {"fetch", "save"} => \A k \in DOMAIN toc : Explained(toc[k])

Excused(r) == Ambiguous(r.uid) \/ r.msg \in touched \/ \A s \in inbox[acct] : s.uid # r.uid
Shows(k, r) == toc[k].msg = r.msg /\ toc[k].uid = r.uid /\ toc[k].from = acct /\ toc[k].epoch = server
Old(r) == ~Resync /\ r.uid \in LocalUids
Mirrored(r) ==
    \/ Excused(r)
    \/ \E k \in DOMAIN toc : Shows(k, r) /\ (pc = "save" \/ ~Old(r) => toc[k].state = r.state)
Mirror ==
    /\ pc \in {"fetch", "save"} /\ clean => \A r \in listing \ todo : Mirrored(r)
    /\ pc = "fetch" => \A r \in listing : Old(r) /\ ~Ambiguous(r.uid) => ~Twice(toc, r.uid)

TypeInv == Inboxes /\ Tables /\ Control /\ Listing /\ Counts

LEMMA TypeInvTypeOK == TypeInv => TypeOK
<1> SUFFICES ASSUME TypeInv PROVE TypeOK
  OBVIOUS
<1>1. ASSUME open PROVE [k \in DOMAIN toc |-> toc[k].msg] = file
  <2>1. DOMAIN toc = DOMAIN file /\ \A k \in DOMAIN toc : toc[k].msg = file[k]
    BY <1>1 DEF TypeInv, Tables, Covers
  <2>2. file = [k \in DOMAIN file |-> file[k]]
    BY DEF TypeInv, Tables
  <2>3. QED
    BY <2>1, <2>2
<1>2. toc \in Seq(Entry) /\ saved \in Seq(Entry) /\ file \in Seq(Msgs)
  BY DEF TypeInv, Tables, Covers
<1>3. \A a \in Accts : next[a] \in 1 .. MaxUid + 1
  <2> SUFFICES ASSUME NEW a \in Accts PROVE next[a] \in 1 .. MaxUid + 1
    OBVIOUS
  <2>1. IsFiniteSet(Came(a)) /\ Cardinality(Came(a)) <= MaxUid
    BY MsgsAssumption, FS_Subset DEF Came, MaxUid
  <2>2. Cardinality(Came(a)) \in Nat /\ MaxUid \in Nat
    BY <2>1, MsgsAssumption, FS_CardinalityType DEF MaxUid
  <2>3. next[a] \in Nat \ {0} /\ next[a] <= 1 + Cardinality(Came(a))
    BY DEF TypeInv, Inboxes
  <2>4. QED
    BY <2>1, <2>2, <2>3
<1>4. /\ inbox \in [Accts -> SUBSET Item]
      /\ \A a \in Accts : \A r, s \in inbox[a] : r.uid = s.uid => r = s
      /\ next \in [Accts -> 1 .. MaxUid + 1]
      /\ epoch \in [Accts -> 1 .. MaxEpoch]
      /\ arrived \subseteq Msgs
  BY <1>3 DEF TypeInv, Inboxes
<1>5. QED
  BY <1>1, <1>2, <1>4 DEF TypeInv, Control, Listing, Counts, TypeOK

-----------------------------------------------------------------------------
(* The server                                                              *)

LEMMA Sizes ==
    /\ MaxUid \in Nat
    /\ \A a : IsFiniteSet(Came(a)) /\ Cardinality(Came(a)) \in Nat /\ Cardinality(Came(a)) <= MaxUid
<1>1. \A a : Came(a) \subseteq Remote
  BY DEF Came
<1>2. QED
  BY <1>1, MsgsAssumption, FS_Subset, FS_CardinalityType DEF MaxUid

\* An account has no more messages than have arrived there.
LEMMA InboxSize ==
    ASSUME Inboxes, NEW a \in Accts
    PROVE  IsFiniteSet(inbox[a]) /\ Cardinality(inbox[a]) <= Cardinality(Came(a))
<1> DEFINE f == [r \in inbox[a] |-> r.msg]
<1>1. \A r \in inbox[a] : r.msg \in Came(a)
  BY DEF Inboxes
<1>2. \A r, s \in inbox[a] : r.msg = s.msg => r = s
  BY DEF Inboxes
<1>3. f \in Injection(inbox[a], Came(a))
  BY <1>1, <1>2 DEF Injection, IsInjective
<1>4. QED
  BY <1>3, Sizes, FS_Injection

\* What a step of the server may do to account a: its messages go and come, or
\* its INBOX is made anew.
Goes(a) ==
    /\ epoch'[a] = epoch[a] /\ next[a] <= next'[a]
    /\ \A r \in inbox'[a] : \/ \E s \in inbox[a] : s.uid = r.uid /\ s.msg = r.msg
                            \/ r.uid >= next[a] /\ r.msg \notin arrived
Anew(a) ==
    /\ epoch'[a] > epoch[a]
    /\ ~(acct = a /\ up /\ pc # "select")

ServerActs ==
    \/ \E m \in Remote : Arrive(m)
    \/ \E a \in Accts : NewValidity(a)
    \/ \E a \in Accts : \E r \in inbox[a] : ReadElsewhere(a, r) \/ Expunge(a, r)

LEMMA ItemFields ==
    ASSUME NEW r
    PROVE  r \in Item <=> /\ r = [uid |-> r.uid, msg |-> r.msg, state |-> r.state]
                          /\ r.uid \in Uids /\ r.msg \in Remote /\ r.state \in States
<1>1. ASSUME r \in Item PROVE /\ r = [uid |-> r.uid, msg |-> r.msg, state |-> r.state]
                              /\ r.uid \in Uids /\ r.msg \in Remote /\ r.state \in States
  BY <1>1 DEF Item
<1>2. ASSUME r = [uid |-> r.uid, msg |-> r.msg, state |-> r.state],
             r.uid \in Uids, r.msg \in Remote, r.state \in States
      PROVE  r \in Item
  <2>1. [uid |-> r.uid, msg |-> r.msg, state |-> r.state] \in Item
    BY <1>2 DEF Item
  <2>2. QED
    BY <1>2, <2>1
<1>3. QED
  BY <1>1, <1>2

\* The message that arrives gets a UID of its own.
LEMMA ArriveServes ==
    ASSUME Inboxes, NEW m \in Remote, Arrive(m)
    PROVE  Inboxes' /\ \A a \in Accts : Goes(a)
<1> DEFINE b == Home[m]
           new == [uid |-> next[b], msg |-> m, state |-> "UNREAD"]
<1>1. b \in Accts /\ m \notin arrived /\ m \in Msgs
  BY HomeAssumption DEF Arrive, Msgs
<1>2. /\ arrived' = arrived \cup {m} /\ epoch' = epoch
      /\ inbox' = [inbox EXCEPT ![b] = @ \cup {new}]
      /\ next' = [next EXCEPT ![b] = @ + 1]
  BY DEF Arrive
<1>3. /\ inbox'[b] = inbox[b] \cup {new} /\ next'[b] = next[b] + 1
      /\ \A a \in Accts \ {b} : inbox'[a] = inbox[a] /\ next'[a] = next[a]
  BY <1>1, <1>2 DEF Inboxes
<1>4. /\ Came(b)' = Came(b) \cup {m} /\ m \notin Came(b)
      /\ \A a \in Accts \ {b} : Came(a)' = Came(a)
  BY <1>1, <1>2 DEF Came
<1>5. Cardinality(Came(b)') = Cardinality(Came(b)) + 1
  BY <1>4, Sizes, FS_AddElement, ZenonT(40)
<1>6. Cardinality(Came(b)') \in Nat /\ Cardinality(Came(b)') <= MaxUid
  <2>1. Came(b)' \subseteq Remote
    BY DEF Came
  <2>2. QED
    BY <2>1, MsgsAssumption, FS_Subset, FS_CardinalityType DEF MaxUid
<1>7. next[b] \in Nat \ {0} /\ next[b] <= 1 + Cardinality(Came(b))
  BY <1>1 DEF Inboxes
<1>8. new \in Item /\ new.uid = next[b] /\ new.msg = m
  <2>1. next[b] \in Uids
    BY <1>5, <1>6, <1>7, Sizes DEF Uids
  <2>2. QED
    BY <2>1 DEF Item, States
<1> HIDE DEF new, b
<1>9. inbox' \in [Accts -> SUBSET Item] /\ next' \in [Accts -> Nat \ {0}] /\ epoch' \in [Accts -> 1 .. MaxEpoch]
  BY <1>1, <1>2, <1>8 DEF Inboxes
<1>10. arrived' \subseteq Msgs
  BY <1>1, <1>2 DEF Inboxes
<1>11. ASSUME NEW a \in Accts
       PROVE  /\ next'[a] <= 1 + Cardinality(Came(a)')
              /\ \A r \in inbox'[a] : r.uid < next'[a] /\ r.msg \in Came(a)'
              /\ \A r, s \in inbox'[a] : r.uid = s.uid \/ r.msg = s.msg => r = s
              /\ Goes(a)
  <2>1. /\ next[a] <= 1 + Cardinality(Came(a)) /\ next[a] \in Nat
        /\ \A r \in inbox[a] : r.uid < next[a] /\ r.msg \in Came(a) /\ r.uid \in Nat
        /\ \A r, s \in inbox[a] : r.uid = s.uid \/ r.msg = s.msg => r = s
    BY ItemFields DEF Inboxes, Uids
  <2>2. CASE a # b
    BY <1>2, <1>3, <1>4, <2>1, <2>2 DEF Goes
  <2>3. CASE a = b
    <3>1. next'[a] <= 1 + Cardinality(Came(a)')
      BY <1>3, <1>5, <1>7, <2>3, Sizes
    <3>2. \A r \in inbox'[a] : r.uid < next'[a] /\ r.msg \in Came(a)'
      BY <1>3, <1>4, <1>8, <2>1, <2>3
    <3>3. \A r, s \in inbox'[a] : r.uid = s.uid \/ r.msg = s.msg => r = s
      BY <1>3, <1>4, <1>8, <2>1, <2>3
    <3>4. Goes(a)
      BY <1>1, <1>2, <1>3, <1>8, <2>1, <2>3 DEF Goes
    <3>5. QED
      BY <3>1, <3>2, <3>3, <3>4
  <2>4. QED
    BY <2>2, <2>3
<1>12. QED
  BY <1>9, <1>10, <1>11 DEF Inboxes

\* A message that another client reads or removes keeps its UID.
LEMMA OthersServe ==
    ASSUME Inboxes, NEW b \in Accts, NEW t \in inbox[b], ReadElsewhere(b, t) \/ Expunge(b, t)
    PROVE  Inboxes' /\ \A a \in Accts : Goes(a)
<1> DEFINE read == [t EXCEPT !.state = "READ"]
<1>1. t \in Item
  BY DEF Inboxes
<1>2. read = [uid |-> t.uid, msg |-> t.msg, state |-> "READ"]
  BY <1>1, ItemFields
<1>3. read \in Item /\ read.uid = t.uid /\ read.msg = t.msg
  BY <1>1, <1>2, ItemFields DEF States
<1>4. UNCHANGED <<next, epoch, arrived>>
  BY DEF ReadElsewhere, Expunge
<1>5. inbox' = [inbox EXCEPT ![b] = (@ \ {t}) \cup {read}] \/ inbox' = [inbox EXCEPT ![b] = @ \ {t}]
  BY DEF ReadElsewhere, Expunge
<1> HIDE DEF read
<1>6. /\ inbox'[b] \subseteq (inbox[b] \ {t}) \cup {read}
      /\ \A a \in Accts \ {b} : inbox'[a] = inbox[a]
      /\ inbox' \in [Accts -> SUBSET Item]
  BY <1>3, <1>5 DEF Inboxes
<1>7. ASSUME NEW a \in Accts, NEW r \in inbox'[a]
      PROVE  \E s \in inbox[a] : s.uid = r.uid /\ s.msg = r.msg /\ (r = s \/ (a = b /\ s = t /\ r = read))
  BY <1>3, <1>6
<1>8. \A a : Came(a)' = Came(a)
  BY <1>4 DEF Came
<1>9. ASSUME NEW a \in Accts
      PROVE  /\ next'[a] <= 1 + Cardinality(Came(a)')
             /\ \A r \in inbox'[a] : r.uid < next'[a] /\ r.msg \in Came(a)'
             /\ \A r, s \in inbox'[a] : r.uid = s.uid \/ r.msg = s.msg => r = s
             /\ Goes(a)
  <2>1. /\ next[a] <= 1 + Cardinality(Came(a)) /\ next[a] \in Nat
        /\ \A r \in inbox[a] : r.uid < next[a] /\ r.msg \in Came(a)
        /\ \A r, s \in inbox[a] : r.uid = s.uid \/ r.msg = s.msg => r = s
    BY DEF Inboxes
  <2>2. \A r \in inbox'[a] : r.uid < next'[a] /\ r.msg \in Came(a)'
    BY <1>4, <1>7, <1>8, <2>1
  <2>3. \A r, s \in inbox'[a] : r.uid = s.uid \/ r.msg = s.msg => r = s
    <3> SUFFICES ASSUME NEW r \in inbox'[a], NEW s \in inbox'[a], r.uid = s.uid \/ r.msg = s.msg
                 PROVE  r = s
      OBVIOUS
    <3>1. CASE a # b
      BY <1>6, <2>1, <3>1
    <3>2. CASE a = b
      <4>1. /\ (r \in inbox[a] /\ r # t) \/ r = read
            /\ (s \in inbox[a] /\ s # t) \/ s = read
        BY <1>6, <3>2
      <4>2. QED
        BY <1>3, <2>1, <3>2, <4>1
    <3>3. QED
      BY <3>1, <3>2
  <2>4. Goes(a)
    BY <1>4, <1>7, <2>1 DEF Goes
  <2>5. QED
    BY <1>4, <1>8, <2>1, <2>2, <2>3, <2>4
<1>10. QED
  BY <1>4, <1>6, <1>9 DEF Inboxes

\* The UIDs of an INBOX made anew are 1, 2, 3 ... in the order of the old ones.
LEMMA NewValidityServes ==
    ASSUME Inboxes, NEW b \in Accts, NewValidity(b)
    PROVE  Inboxes' /\ \A a \in Accts : IF a = b THEN Anew(a) ELSE Goes(a)
<1> DEFINE B    == inbox[b]
           U(r) == Cardinality({s \in B : s.uid <= r.uid})
           n    == Cardinality(B)
           N(r) == [uid |-> U(r), msg |-> r.msg, state |-> r.state]
           W(r) == [r EXCEPT !.uid = Cardinality({s \in inbox[b] : s.uid <= r.uid})]
<1>1. /\ B \subseteq Item /\ IsFiniteSet(B) /\ n \in Nat /\ n <= Cardinality(Came(b))
      /\ \A r \in B : r.uid \in Nat /\ r.msg \in Came(b)
      /\ \A r, s \in B : r.uid = s.uid \/ r.msg = s.msg => r = s
  BY InboxSize, ItemFields, FS_CardinalityType DEF Inboxes, Uids
<1> HIDE DEF B
<1>2. \A r \in B : U(r) \in 1 .. n
  <2> SUFFICES ASSUME NEW r \in B PROVE U(r) \in 1 .. n
    OBVIOUS
  <2> DEFINE S == {s \in B : s.uid <= r.uid}
  <2>1. S \subseteq B /\ r \in S
    BY <1>1
  <2>2. IsFiniteSet(S) /\ Cardinality(S) <= n /\ Cardinality(S) \in Nat
    BY <1>1, <2>1, FS_Subset, FS_CardinalityType
  <2>3. Cardinality(S) # 0
    BY <2>1, <2>2, FS_EmptySet
  <2>4. QED
    BY <1>1, <2>2, <2>3
<1>3. \A r, s \in B : r.uid < s.uid => U(r) < U(s)
  <2> SUFFICES ASSUME NEW r \in B, NEW s \in B, r.uid < s.uid PROVE U(r) < U(s)
    OBVIOUS
  <2> DEFINE S == {t \in B : t.uid <= r.uid}
             T == {t \in B : t.uid <= s.uid}
  <2>1. IsFiniteSet(T)
    BY <1>1, FS_Subset
  <2>2. S \subseteq T /\ S # T
    BY <1>1
  <2>3. QED
    BY <2>1, <2>2, FS_Subset, FS_CardinalityType
<1> HIDE DEF U, n
<1>4. \A r, s \in B : U(r) = U(s) => r = s
  BY <1>1, <1>2, <1>3
<1>5. \A r \in B : N(r) \in Item
  <2> SUFFICES ASSUME NEW r \in B PROVE N(r) \in Item
    OBVIOUS
  <2>1. U(r) \in Uids
    BY <1>1, <1>2, Sizes DEF Uids
  <2>2. r.msg \in Remote /\ r.state \in States
    BY <1>1, ItemFields
  <2>3. QED
    BY <2>1, <2>2 DEF Item
<1>6. /\ epoch[b] < MaxEpoch /\ epoch' = [epoch EXCEPT ![b] = @ + 1]
      /\ ~(acct = b /\ up /\ pc # "select")
      /\ inbox' = [inbox EXCEPT ![b] = {[r EXCEPT !.uid = Cardinality({s \in inbox[b] : s.uid <= r.uid})] : r \in inbox[b]}]
      /\ next' = [next EXCEPT ![b] = 1 + Cardinality(inbox[b])]
      /\ arrived' = arrived
  BY DEF NewValidity
<1>7. \A r \in B : W(r) = N(r)
  BY <1>1, ItemFields DEF B, U
<1> DEFINE M == {W(r) : r \in inbox[b]}
<1>14. inbox' = [inbox EXCEPT ![b] = M]
  BY <1>6
<1> HIDE DEF W, N
<1>8. M = {N(r) : r \in B}
  BY <1>7 DEF B
<1> HIDE DEF M
<1>15. inbox' = [inbox EXCEPT ![b] = {N(r) : r \in B}]
  BY <1>8, <1>14
<1>16. /\ inbox'[b] = {N(r) : r \in B}
       /\ \A a \in Accts \ {b} : inbox'[a] = inbox[a] /\ next'[a] = next[a] /\ epoch'[a] = epoch[a]
       /\ next'[b] = 1 + n /\ epoch'[b] = epoch[b] + 1
  BY <1>6, <1>15 DEF Inboxes, B, n
<1>9. inbox' \in [Accts -> SUBSET Item]
  <2>2. {N(r) : r \in B} \subseteq Item
    BY <1>5
  <2>3. QED
    BY <1>15, <2>2 DEF Inboxes
<1>10. next' \in [Accts -> Nat \ {0}] /\ epoch' \in [Accts -> 1 .. MaxEpoch]
  <2>1. epoch[b] \in 1 .. MaxEpoch /\ MaxEpoch \in Nat
    BY BoundAssumption DEF Inboxes
  <2>2. epoch[b] + 1 \in 1 .. MaxEpoch
    BY <1>6, <2>1
  <2>3. 1 + Cardinality(inbox[b]) \in Nat \ {0}
    BY <1>1 DEF n, B
  <2>4. QED
    BY <1>6, <2>2, <2>3 DEF Inboxes
<1>11. \A a : Came(a)' = Came(a)
  BY <1>6 DEF Came
<1>12. ASSUME NEW a \in Accts
       PROVE  /\ next'[a] <= 1 + Cardinality(Came(a)')
              /\ \A r \in inbox'[a] : r.uid < next'[a] /\ r.msg \in Came(a)'
              /\ \A r, s \in inbox'[a] : r.uid = s.uid \/ r.msg = s.msg => r = s
              /\ IF a = b THEN Anew(a) ELSE Goes(a)
  <2>1. CASE a # b
    <3>1. /\ next[a] <= 1 + Cardinality(Came(a)) /\ next[a] \in Nat
          /\ \A r \in inbox[a] : r.uid < next[a] /\ r.msg \in Came(a)
          /\ \A r, s \in inbox[a] : r.uid = s.uid \/ r.msg = s.msg => r = s
      BY DEF Inboxes
    <3>2. QED
      BY <1>16, <1>11, <2>1, <3>1 DEF Goes
  <2>2. CASE a = b
    <3>1. next'[b] <= 1 + Cardinality(Came(b)')
      BY <1>1, <1>16, <1>11, Sizes
    <3>2. \A r \in inbox'[b] : \E s \in B : r.uid = U(s) /\ r.msg = s.msg /\ r = N(s)
      BY <1>16 DEF N
    <3>3. \A r \in inbox'[b] : r.uid < next'[b] /\ r.msg \in Came(b)'
      BY <1>1, <1>2, <1>16, <1>11, <3>2
    <3>4. \A r, s \in inbox'[b] : r.uid = s.uid \/ r.msg = s.msg => r = s
      BY <1>1, <1>4, <3>2
    <3>5. Anew(b)
      BY <1>6, <1>16 DEF Anew, Inboxes
    <3>6. QED
      BY <2>2, <3>1, <3>3, <3>4, <3>5
  <2>3. QED
    BY <2>1, <2>2
<1>13. QED
  BY <1>6, <1>9, <1>10, <1>12 DEF Inboxes

\* What the server has is never lost from sight: an account goes on, or starts anew.
LEMMA ServerMoves ==
    ASSUME Inboxes, ServerActs
    PROVE  Inboxes' /\ \A a \in Accts : Goes(a) \/ Anew(a)
  BY ArriveServes, OthersServe, NewValidityServes DEF ServerActs

LEMMA ServerFrame ==
    ASSUME ServerActs
    PROVE  /\ UNCHANGED <<box, validity, sync, faults, clean, touched, hist>>
           /\ arrived \subseteq arrived'
<1>1. ASSUME NEW m \in Remote, Arrive(m)
      PROVE  UNCHANGED <<box, validity, sync, faults, clean, touched, hist>> /\ arrived \subseteq arrived'
  BY <1>1 DEF Arrive
<1>2. ASSUME NEW a \in Accts, NewValidity(a)
      PROVE  UNCHANGED <<box, validity, sync, faults, clean, touched, hist>> /\ arrived \subseteq arrived'
  BY <1>2 DEF NewValidity
<1>3. ASSUME NEW a \in Accts, NEW r \in inbox[a], ReadElsewhere(a, r) \/ Expunge(a, r)
      PROVE  UNCHANGED <<box, validity, sync, faults, clean, touched, hist>> /\ arrived \subseteq arrived'
  BY <1>3 DEF ReadElsewhere, Expunge
<1>4. QED
  BY <1>1, <1>2, <1>3 DEF ServerActs

\* Every other step leaves the server alone.
LocalActs ==
    \/ \E a \in Accts : SyncStart(a)
    \/ SyncStep \/ LoseConnection \/ Crash \/ Save \/ Compact
    \/ \E m \in Local : Deliver(m)
    \/ \E k \in DOMAIN toc : Delete(k) \/ Undelete(k) \/ Open(k)

LEMMA Kinds == ASSUME [Next]_vars PROVE ServerActs \/ LocalActs \/ UNCHANGED vars
  BY DEF Next, ServerActs, LocalActs

LEMMA LocalFrame ==
    ASSUME LocalActs
    PROVE  UNCHANGED remote /\ (arrived' = arrived \/ \E m \in Local : arrived' = arrived \cup {m})
<1> DEFINE Says == UNCHANGED remote /\ (arrived' = arrived \/ \E m \in Local : arrived' = arrived \cup {m})
<1> SUFFICES Says
  OBVIOUS
<1>1. ASSUME NEW a \in Accts, SyncStart(a) PROVE Says
  BY <1>1 DEF SyncStart
<1>2. CASE GiveUp \/ LoseConnection \/ Crash \/ Save \/ Compact
  BY <1>2 DEF GiveUp, LoseConnection, Crash, Save, Compact
<1>3. CASE Select \/ List
  BY <1>3 DEF Select, List
<1>4. CASE Fetch \/ FetchFails \/ SaveState \/ SaveToc
  BY <1>4 DEF Fetch, FetchFails, SaveState, SaveToc
<1>5. ASSUME NEW m \in Local, Deliver(m) PROVE Says
  BY <1>5 DEF Deliver
<1>6. ASSUME NEW k, Delete(k) \/ Undelete(k) \/ Open(k) PROVE Says
  BY <1>6 DEF Delete, Undelete, Open, Flag
<1>7. QED
  BY <1>1, <1>2, <1>3, <1>4, <1>5, <1>6 DEF LocalActs, SyncStep

LEMMA StepInboxes == ASSUME Inboxes, [Next]_vars PROVE Inboxes'
<1>1. ASSUME LocalActs \/ UNCHANGED vars PROVE Inboxes'
  <2>1. UNCHANGED remote /\ arrived' \subseteq Msgs /\ arrived' \cap Remote = arrived \cap Remote
    <3>1. UNCHANGED remote /\ (arrived' = arrived \/ \E m \in Local : arrived' = arrived \cup {m})
      BY <1>1, LocalFrame DEF vars
    <3>2. arrived \subseteq Msgs
      BY DEF Inboxes
    <3>3. QED
      BY <3>1, <3>2, MsgsAssumption DEF Msgs
  <2>2. \A a : Came(a)' = Came(a)
    BY <2>1 DEF Came
  <2>3. QED
    BY <2>1, <2>2 DEF Inboxes, remote
<1>2. QED
  BY <1>1, Kinds, ServerMoves

-----------------------------------------------------------------------------
(* In                                                                      *)

LEMMA EntryFields ==
    ASSUME NEW e
    PROVE  e \in Entry <=>
             /\ e = [msg |-> e.msg, uid |-> e.uid, state |-> e.state, deleted |-> e.deleted,
                     from |-> e.from, epoch |-> e.epoch]
             /\ e.msg \in Msgs /\ e.uid \in Uids \cup {0} \cup WithId /\ e.state \in States
             /\ e.deleted \in BOOLEAN /\ e.from \in Accts \cup {0} /\ e.epoch \in 0 .. MaxEpoch
<1> DEFINE F == [msg |-> e.msg, uid |-> e.uid, state |-> e.state, deleted |-> e.deleted,
                 from |-> e.from, epoch |-> e.epoch]
           P == /\ e.msg \in Msgs /\ e.uid \in Uids \cup {0} \cup WithId /\ e.state \in States
                /\ e.deleted \in BOOLEAN /\ e.from \in Accts \cup {0} /\ e.epoch \in 0 .. MaxEpoch
<1>1. ASSUME e \in Entry PROVE e = F /\ P
  BY <1>1 DEF Entry
<1>2. ASSUME e = F, P PROVE e \in Entry
  <2>1. F \in Entry
    BY <1>2 DEF Entry
  <2>2. QED
    BY <1>2, <2>1
<1>3. QED
  BY <1>1, <1>2

\* A rebuilt summary is of no account, and has no UID of a server.
LEMMA RebuiltEntry ==
    ASSUME saved \in Seq(Entry), NEW m \in Msgs
    PROVE  /\ Rebuilt(m) \in Entry /\ Rebuilt(m).msg = m /\ Rebuilt(m).from = 0
           /\ Rebuilt(m).uid = 0 \/ (Rebuilt(m).uid = m /\ m \in WithId)
<1> DEFINE same == {j \in DOMAIN saved : m \in WithId /\ saved[j].uid = m}
           last == CHOOSE j \in same : \A k \in same : j <= k
           u    == IF m \in WithId THEN m ELSE 0
           s    == IF same = {} THEN "UNREAD" ELSE saved[last].state
           d    == IF same = {} THEN FALSE ELSE saved[last].deleted
<1>1. Rebuilt(m) = [msg |-> m, uid |-> u, from |-> 0, epoch |-> 0, state |-> s, deleted |-> d]
  BY DEF Rebuilt
<1>2. same # {} => last \in DOMAIN saved
  <2> SUFFICES ASSUME same # {} PROVE last \in DOMAIN saved
    OBVIOUS
  <2>1. same \subseteq 1 .. Len(saved) /\ Len(saved) \in Nat
    OBVIOUS
  <2> HIDE DEF same
  <2>2. \E j \in same : \A k \in same : j <= k
    BY <2>1, Least
  <2>3. last \in same
    BY <2>2
  <2>4. QED
    BY <2>3 DEF same
<1> HIDE DEF same, last
<1>3. s \in States /\ d \in BOOLEAN
  <2>1. CASE same = {}
    BY <2>1 DEF States
  <2>2. CASE same # {}
    <3>1. saved[last] \in Entry
      BY <1>2, <2>2
    <3>2. QED
      BY <2>2, <3>1 DEF Entry
  <2>3. QED
    BY <2>1, <2>2
<1> HIDE DEF s, d
<1>4. /\ u \in Uids \cup {0} \cup WithId /\ 0 \in 0 .. MaxEpoch
      /\ u = 0 \/ (u = m /\ m \in WithId)
  BY BoundAssumption
<1> HIDE DEF u
<1>5. Rebuilt(m) \in Entry
  BY <1>1, <1>3, <1>4 DEF Entry
<1>6. QED
  BY <1>1, <1>4, <1>5

\* The table macmbx_toc_open returns has a summary for every message of the
\* file: the one it had, the one that was saved, or a rebuilt one.
LEMMA OpenedCovers ==
    ASSUME Tables
    PROVE  /\ Covers(Opened) /\ Len(Opened) = Len(file)
           /\ open => Opened = toc
           /\ ~open => \A k \in DOMAIN Opened :
                          \/ k \in DOMAIN saved /\ Opened[k] = saved[k]
                          \/ k \in Unsaved /\ k \in DOMAIN file /\ Opened[k] = Rebuilt(file[k])
<1>1. CASE open
  BY <1>1 DEF Opened, Tables
<1>2. CASE ~open
  <2> DEFINE n == Len(file) - Len(saved)
             rest == [k \in 1 .. n |-> Rebuilt(file[Len(saved) + k])]
  <2>1. /\ n \in Nat /\ Len(saved) \in Nat /\ Len(file) \in Nat
        /\ file \in Seq(Msgs) /\ saved \in Seq(Entry) /\ DOMAIN saved = 1 .. Len(saved)
    BY DEF Tables, Covers
  <2>2. \A k \in 1 .. n : /\ Rebuilt(file[Len(saved) + k]) \in Entry
                          /\ Rebuilt(file[Len(saved) + k]).msg = file[Len(saved) + k]
    <3> SUFFICES ASSUME NEW k \in 1 .. n
                 PROVE  file[Len(saved) + k] \in Msgs
      BY <2>1, RebuiltEntry
    <3>1. Len(saved) + k \in DOMAIN file
      BY <2>1
    <3>2. QED
      BY <2>1, <3>1
  <2>3. /\ rest \in Seq(Entry) /\ Len(rest) = n
        /\ \A k \in 1 .. n : rest[k].msg = file[Len(saved) + k]
        /\ \A k \in 1 .. n : rest[k] = Rebuilt(file[Len(saved) + k])
    <3>1. rest \in [1 .. n -> Entry]
      BY <2>2
    <3>2. /\ \A k \in 1 .. n : rest[k].msg = file[Len(saved) + k]
          /\ \A k \in 1 .. n : rest[k] = Rebuilt(file[Len(saved) + k])
      BY <2>2
    <3> HIDE DEF rest, n
    <3>3. rest \in Seq(Entry)
      BY <2>1, <3>1, SeqDef
    <3>4. Len(rest) = n
      BY <2>1, <3>1, <3>3, LenProperties
    <3>5. QED
      BY <3>2, <3>3, <3>4
  <2>4. Opened = saved \o rest
    BY <1>2 DEF Opened
  <2> HIDE DEF rest
  <2>6. /\ Opened \in Seq(Entry) /\ Len(Opened) = Len(saved) + n
        /\ \A k \in DOMAIN Opened : Opened[k] = IF k <= Len(saved) THEN saved[k] ELSE rest[k - Len(saved)]
    BY <2>1, <2>3, <2>4, ConcatProperties
  <2>7. Len(Opened) = Len(file)
    BY <2>1, <2>6
  <2>8. \A k \in DOMAIN Opened :
           /\ Opened[k].msg = file[k]
           /\ \/ k \in DOMAIN saved /\ Opened[k] = saved[k]
              \/ k \in Unsaved /\ k \in DOMAIN file /\ Opened[k] = Rebuilt(file[k])
    <3> SUFFICES ASSUME NEW k \in DOMAIN Opened
                 PROVE  /\ Opened[k].msg = file[k]
                        /\ \/ k \in DOMAIN saved /\ Opened[k] = saved[k]
                           \/ k \in Unsaved /\ k \in DOMAIN file /\ Opened[k] = Rebuilt(file[k])
      OBVIOUS
    <3>1. CASE k <= Len(saved)
      <4>1. k \in DOMAIN saved /\ Opened[k] = saved[k]
        BY <2>1, <2>6, <3>1
      <4>2. saved[k].msg = file[k]
        BY <4>1 DEF Tables, Covers
      <4>3. QED
        BY <4>1, <4>2
    <3>2. CASE k > Len(saved)
      <4>1. k - Len(saved) \in 1 .. n /\ Len(saved) + (k - Len(saved)) = k
        BY <2>1, <2>6, <3>2
      <4>2. /\ rest[k - Len(saved)].msg = file[Len(saved) + (k - Len(saved))]
            /\ rest[k - Len(saved)] = Rebuilt(file[Len(saved) + (k - Len(saved))])
        BY <2>3, <4>1
      <4>3. Opened[k] = rest[k - Len(saved)]
        BY <2>1, <2>6, <3>2
      <4>4. k \in Unsaved /\ k \in DOMAIN file
        BY <2>1, <2>6, <2>7, <3>2 DEF Unsaved
      <4>5. QED
        BY <4>1, <4>2, <4>3, <4>4
    <3>3. QED
      BY <2>1, <2>6, <3>1, <3>2
  <2>9. QED
    BY <1>2, <2>6, <2>7, <2>8, <2>1 DEF Covers
<1>3. QED
  BY <1>1, <1>2

LEMMA MarkedKeeps ==
    ASSUME toc \in Seq(Entry), NEW K, NEW t, t = Marked(K)
    PROVE  /\ t \in Seq(Entry) /\ DOMAIN t = DOMAIN toc /\ Len(t) = Len(toc)
           /\ \A k \in DOMAIN toc : Same(t[k], toc[k]) /\ t[k].state = toc[k].state
           /\ \A k \in DOMAIN toc \cap K : t[k].deleted
           /\ \A k \in DOMAIN toc \ K : t[k] = toc[k]
<1>1. \A k \in DOMAIN toc : t[k] = IF k \in K THEN [toc[k] EXCEPT !.deleted = TRUE] ELSE toc[k]
  BY DEF Marked
<1>2. DOMAIN t = DOMAIN toc
  BY DEF Marked
<1>3. ASSUME NEW k \in DOMAIN toc
      PROVE  /\ t[k] \in Entry /\ Same(t[k], toc[k]) /\ t[k].state = toc[k].state
             /\ k \in K => t[k].deleted
             /\ k \notin K => t[k] = toc[k]
  <2>1. toc[k] \in Entry
    OBVIOUS
  <2>2. CASE k \in K
    <3>1. t[k] = [msg |-> toc[k].msg, uid |-> toc[k].uid, state |-> toc[k].state, deleted |-> TRUE,
                  from |-> toc[k].from, epoch |-> toc[k].epoch]
      BY <1>1, <2>1, <2>2, EntryFields
    <3>2. QED
      BY <2>1, <2>2, <3>1 DEF Entry, Same
  <2>3. CASE k \notin K
    BY <1>1, <2>1, <2>3 DEF Same
  <2>4. QED
    BY <2>2, <2>3
<1>4. t \in [1 .. Len(toc) -> Entry]
  <2>1. t = [k \in DOMAIN toc |-> t[k]]
    BY DEF Marked
  <2>2. QED
    BY <1>3, <2>1
<1>5. t \in Seq(Entry)
  BY <1>4, SeqDef
<1>6. Len(t) = Len(toc)
  BY <1>2, <1>5
<1>7. QED
  BY <1>2, <1>3, <1>5, <1>6

\* The last pass of a sync over In changes nothing but states.
LEMMA UpdatedKeeps ==
    ASSUME toc \in Seq(Entry), listing \subseteq Item, NEW t, t = Updated
    PROVE  /\ t \in Seq(Entry) /\ DOMAIN t = DOMAIN toc /\ Len(t) = Len(toc)
           /\ \A k \in DOMAIN toc : Same(t[k], toc[k]) /\ t[k].deleted = toc[k].deleted
           /\ \A k \in DOMAIN toc :
                 \/ t[k] = toc[k]
                 \/ /\ ~Resync /\ toc[k].uid \in LocalUids /\ k = First(toc[k].uid)
                    /\ \E r \in listing : r.uid = toc[k].uid /\ t[k].state = r.state
           /\ \A k \in DOMAIN toc :
                 ~Resync /\ toc[k].uid \in LocalUids /\ k = First(toc[k].uid) =>
                    \/ \A r \in listing : r.uid # toc[k].uid
                    \/ \E r \in listing : r.uid = toc[k].uid /\ t[k].state = r.state
<1> DEFINE Both(k) == ~Resync /\ toc[k].uid \in LocalUids /\ k = First(toc[k].uid)
           has(k) == \E r \in listing : r.uid = toc[k].uid /\ Both(k)
           of(k)  == CHOOSE r \in listing : r.uid = toc[k].uid
<1>1. t = [k \in DOMAIN toc |-> IF has(k) THEN [toc[k] EXCEPT !.state = of(k).state] ELSE toc[k]]
  BY DEF Updated
<1>2. \A k \in DOMAIN toc : has(k) => Both(k) /\ of(k) \in listing /\ of(k).uid = toc[k].uid
  OBVIOUS
<1>3. \A k \in DOMAIN toc : ~has(k) /\ Both(k) => \A r \in listing : r.uid # toc[k].uid
  OBVIOUS
<1> HIDE DEF has, of, Both
<1>4. ASSUME NEW k \in DOMAIN toc
      PROVE  /\ t[k] \in Entry /\ Same(t[k], toc[k]) /\ t[k].deleted = toc[k].deleted
             /\ has(k) => t[k].state = of(k).state
             /\ ~has(k) => t[k] = toc[k]
  <2>1. toc[k] \in Entry /\ t[k] = IF has(k) THEN [toc[k] EXCEPT !.state = of(k).state] ELSE toc[k]
    BY <1>1
  <2>2. CASE has(k)
    <3>1. of(k).state \in States
      BY <1>2, <2>2, ItemFields
    <3>2. t[k] = [msg |-> toc[k].msg, uid |-> toc[k].uid, state |-> of(k).state,
                  deleted |-> toc[k].deleted, from |-> toc[k].from, epoch |-> toc[k].epoch]
      BY <2>1, <2>2, EntryFields
    <3>3. QED
      BY <2>1, <2>2, <3>1, <3>2 DEF Entry, Same
  <2>3. CASE ~has(k)
    BY <2>1, <2>3 DEF Same
  <2>4. QED
    BY <2>2, <2>3
<1>5. DOMAIN t = DOMAIN toc
  BY <1>1
<1>6. t \in [1 .. Len(toc) -> Entry]
  <2>1. t = [k \in DOMAIN toc |-> t[k]]
    BY <1>1, <1>5
  <2>2. QED
    BY <1>4, <2>1
<1>7. t \in Seq(Entry)
  BY <1>6, SeqDef
<1>8. Len(t) = Len(toc)
  BY <1>5, <1>7
<1>9. QED
  BY <1>2, <1>3, <1>4, <1>5, <1>7, <1>8 DEF Both

\* The table keeps its messages, and what is known of their UIDs.
Rewrites ==
    /\ open /\ UNCHANGED <<open, file, saved>>
    /\ toc \in Seq(Entry) /\ toc' \in Seq(Entry) /\ DOMAIN toc' = DOMAIN toc /\ Len(toc') = Len(toc)
    /\ \A k \in DOMAIN toc : Same(toc'[k], toc[k])

\* The user deletes message k, takes that back, or reads it.
Flagged(k) == Delete(k) \/ Undelete(k) \/ Open(k)

LEMMA FlagRewrites ==
    ASSUME toc \in Seq(Entry), NEW k \in DOMAIN toc, Flagged(k)
    PROVE  /\ Rewrites
           /\ \A j \in DOMAIN toc \ {k} : toc'[j] = toc[j]
           /\ binned \subseteq binned' /\ (toc'[k].deleted => toc[k].msg \in binned')
           /\ touched \subseteq touched' /\ (Busy => toc[k].msg \in touched')
           /\ binned' \subseteq binned \cup {toc[k].msg} /\ touched' \subseteq touched \cup {toc[k].msg}
           /\ UNCHANGED <<remote, arrived, validity, sync, faults, clean, reread>>
<1>1. PICK e : /\ Flag(k, e)
               /\ \/ e = [toc[k] EXCEPT !.deleted = TRUE]
                  \/ e = [toc[k] EXCEPT !.deleted = FALSE]
                  \/ e = [toc[k] EXCEPT !.state = "READ"]
  BY DEF Flagged, Delete, Undelete, Open
<1>2. toc[k] \in Entry
  OBVIOUS
<1>3. e \in Entry /\ Same(e, toc[k])
  <2> DEFINE F(s, d) == [msg |-> toc[k].msg, uid |-> toc[k].uid, state |-> s, deleted |-> d,
                         from |-> toc[k].from, epoch |-> toc[k].epoch]
  <2>1. \A s \in States, d \in BOOLEAN : F(s, d) \in Entry /\ Same(F(s, d), toc[k])
    BY <1>2 DEF Entry, Same
  <2>2. toc[k] = F(toc[k].state, toc[k].deleted) /\ toc[k].state \in States /\ toc[k].deleted \in BOOLEAN
    BY <1>2, EntryFields
  <2>3. e = F(toc[k].state, TRUE) \/ e = F(toc[k].state, FALSE) \/ e = F("READ", toc[k].deleted)
    BY <1>1, <2>2
  <2> HIDE DEF F
  <2>4. "READ" \in States
    BY DEF States
  <2>5. QED
    BY <2>1, <2>2, <2>3, <2>4
<1>5. /\ open /\ toc' = [toc EXCEPT ![k] = e]
      /\ UNCHANGED <<remote, arrived, open, file, saved, validity, sync, faults, clean, reread>>
      /\ touched' = IF Busy THEN touched \cup {e.msg} ELSE touched
      /\ binned' = IF e.deleted THEN binned \cup {e.msg} ELSE binned
  BY <1>1 DEF Flag, Touch, NoFault
<1>6. /\ toc' \in Seq(Entry) /\ DOMAIN toc' = DOMAIN toc /\ Len(toc') = Len(toc) /\ toc'[k] = e
      /\ \A j \in DOMAIN toc \ {k} : toc'[j] = toc[j]
  BY <1>3, <1>5
<1>7. Rewrites
  BY <1>3, <1>5, <1>6 DEF Rewrites, Same
<1>8. e.msg = toc[k].msg
  BY <1>3 DEF Same
<1>9. QED
  BY <1>5, <1>6, <1>7, <1>8

\* A summary is appended to the table, opened if it was not, and the message
\* to the mbox file.
Gains(e) ==
    /\ open' = TRUE /\ toc' = Append(Opened, e) /\ file' = Append(file, e.msg)
    /\ UNCHANGED saved

LEMMA GainsKeeps ==
    ASSUME Tables, NEW e \in Entry, Gains(e)
    PROVE  /\ file \in Seq(Msgs) /\ file' \in Seq(Msgs) /\ DOMAIN file' = DOMAIN file \cup {Len(file) + 1}
           /\ Len(file) \in Nat /\ Len(file') = Len(file) + 1
           /\ \A k \in DOMAIN file : file'[k] = file[k] /\ k # Len(file) + 1
           /\ file'[Len(file) + 1] = e.msg /\ toc'[Len(file) + 1] = e
           /\ toc' \in Seq(Entry) /\ DOMAIN toc' = DOMAIN Opened \cup {Len(file) + 1}
           /\ Len(toc') = Len(file) + 1 /\ DOMAIN Opened = DOMAIN file
           /\ \A k \in DOMAIN Opened : toc'[k] = Opened[k]
<1>1. /\ Opened \in Seq(Entry) /\ Len(Opened) = Len(file) /\ file \in Seq(Msgs)
  BY OpenedCovers DEF Covers, Tables
<1>2. e.msg \in Msgs
  BY EntryFields
<1>3. toc' = Append(Opened, e) /\ file' = Append(file, e.msg)
  BY DEF Gains
<1>4. /\ file' \in Seq(Msgs) /\ Len(file') = Len(file) + 1 /\ file'[Len(file) + 1] = e.msg
      /\ \A k \in 1 .. Len(file) : file'[k] = file[k]
  BY <1>1, <1>2, <1>3, AppendProperties
<1>5. /\ toc' \in Seq(Entry) /\ Len(toc') = Len(file) + 1 /\ toc'[Len(file) + 1] = e
      /\ \A k \in 1 .. Len(file) : toc'[k] = Opened[k]
  BY <1>1, <1>3, AppendProperties
<1>6. /\ Len(file) \in Nat /\ DOMAIN file = 1 .. Len(file) /\ DOMAIN Opened = 1 .. Len(file)
      /\ DOMAIN file' = 1 .. Len(file) + 1 /\ DOMAIN toc' = 1 .. Len(file) + 1
  BY <1>1, <1>4, <1>5
<1>7. 1 .. Len(file) + 1 = 1 .. Len(file) \cup {Len(file) + 1} /\ Len(file) + 1 \notin 1 .. Len(file)
  BY <1>6
<1>8. QED
  BY <1>1, <1>4, <1>5, <1>6, <1>7

\* A compaction drops the messages marked deleted and keeps the others in
\* their order, those of position f[x] at position x.
Shrinks(f) ==
    /\ open /\ open' /\ toc \in Seq(Entry) /\ toc' \in Seq(Entry)
    /\ Places(f, toc', toc, {k \in DOMAIN toc : ~toc[k].deleted})
    /\ file' \in Seq(Msgs) /\ DOMAIN file' = DOMAIN toc' /\ DOMAIN file = DOMAIN toc
    /\ Len(file') = Len(toc')
    /\ \A x \in DOMAIN toc' : file'[x] = file[f[x]] /\ toc'[x].msg = file'[x]
    /\ saved' = toc'
    /\ touched \subseteq touched' /\ \A k \in DOMAIN toc : toc[k].deleted /\ Busy => toc[k].msg \in touched'
    /\ touched' \subseteq touched \cup {toc[k].msg : k \in DOMAIN toc}
    /\ UNCHANGED <<remote, arrived, validity, sync, hist, faults, clean>>

LEMMA CompactShrinks == ASSUME Tables, Compact PROVE \E f : Shrinks(f)
<1> DEFINE K == {k \in DOMAIN toc : ~toc[k].deleted}
<1>1. toc \in Seq(Entry) /\ K \subseteq DOMAIN toc
  BY DEF Tables
<1>2. /\ toc' = Kept(toc, K) /\ open /\ open' = open
      /\ file' = [k \in DOMAIN toc' |-> toc'[k].msg] /\ saved' = toc'
      /\ touched' = IF Busy THEN touched \cup {toc[k].msg : k \in {j \in DOMAIN toc : toc[j].deleted}} ELSE touched
      /\ UNCHANGED <<remote, arrived, validity, sync, hist, faults, clean>>
  BY DEF Compact, Touch, NoFault
<1>3. Len(toc) = Len(file) /\ file \in Seq(Msgs) /\ \A k \in DOMAIN toc : toc[k].msg = file[k]
  BY <1>2 DEF Tables, Covers
<1>4. DOMAIN file = DOMAIN toc /\ DOMAIN file' = DOMAIN toc'
  BY <1>1, <1>2, <1>3
<1>5. /\ touched \subseteq touched' /\ \A k \in DOMAIN toc : toc[k].deleted /\ Busy => toc[k].msg \in touched'
      /\ touched' \subseteq touched \cup {toc[k].msg : k \in DOMAIN toc}
  BY <1>2
<1> HIDE DEF K
<1>6. toc' \in Seq(Entry)
  BY <1>1, <1>2, KeptSeq
<1>7. PICK f : Places(f, toc', toc, K)
  BY <1>1, <1>2, KeptSeq
<1>8. f \in [DOMAIN toc' -> DOMAIN toc] /\ \A x \in DOMAIN toc' : toc'[x] = toc[f[x]]
  BY <1>1, <1>7 DEF Places
<1>9. \A x \in DOMAIN toc' : file'[x] = toc'[x].msg /\ file'[x] = file[f[x]] /\ toc'[x].msg \in Msgs
  <2>1. \A e \in Entry : e.msg \in Msgs
    BY EntryFields
  <2>2. QED
    BY <1>2, <1>3, <1>6, <1>8, <2>1
<1>10. file' \in [1 .. Len(toc') -> Msgs] /\ Len(toc') \in Nat
  BY <1>2, <1>6, <1>9
<1>11. file' \in Seq(Msgs) /\ Len(file') = Len(toc')
  BY <1>10, SeqDef, LenProperties
<1>12. Shrinks(f)
  BY <1>1, <1>2, <1>4, <1>5, <1>6, <1>7, <1>9, <1>11 DEF Shrinks, K
<1>13. QED
  BY <1>12

\* The message to fetch next is one of those left.
LEMMA NextListed == ASSUME Listing, todo # {} PROVE Next1 \in todo /\ Next1 \in listing
<1> DEFINE us == {r.uid : r \in todo}
<1>1. todo \subseteq listing /\ \A r \in todo : r.uid \in 1 .. MaxUid
  BY ItemFields DEF Listing, Uids
<1>2. us \subseteq 1 .. MaxUid /\ us # {}
  BY <1>1
<1>3. \A r \in todo : r.uid \in us
  OBVIOUS
<1>4. \A u \in us : \E r \in todo : r.uid = u
  OBVIOUS
<1> HIDE DEF us
<1>5. \E u \in us : \A v \in us : u <= v
  BY <1>2, Least, Sizes
<1>6. \E r \in todo : \A s \in todo : r.uid <= s.uid
  BY <1>3, <1>4, <1>5
<1>7. QED
  BY <1>1, <1>6 DEF Next1

LEMMA FetchGains ==
    ASSUME TypeInv, Fetch
    PROVE  \E e \in Entry :
             /\ Gains(e) /\ Opened = toc /\ open
             /\ e.msg = Next1.msg /\ e.uid = Next1.uid /\ e.state = Next1.state /\ ~e.deleted
             /\ e.from = acct /\ e.epoch = server
<1> DEFINE e == [msg |-> Next1.msg, uid |-> Next1.uid, state |-> Next1.state,
                 deleted |-> FALSE, from |-> acct, epoch |-> server]
<1>1. Next1 \in Item
  <2>1. todo # {}
    BY DEF Fetch
  <2>2. QED
    BY <2>1, NextListed DEF TypeInv, Listing
<1>2. Next1.msg \in Msgs /\ Next1.uid \in Uids /\ Next1.state \in States
  BY <1>1, ItemFields DEF Msgs
<1>3. e \in Entry
  BY <1>2 DEF Entry, TypeInv, Control
<1>4. open
  BY DEF Fetch, Busy, TypeInv, Control
<1>5. /\ toc' = Append(toc, e) /\ file' = Append(file, e.msg) /\ UNCHANGED <<open, saved>>
  BY DEF Fetch
<1>6. Gains(e) /\ Opened = toc
  BY <1>4, <1>5 DEF Gains, Opened
<1>7. QED
  BY <1>3, <1>4, <1>6

LEMMA DeliverGains ==
    ASSUME NEW m \in Local, Deliver(m)
    PROVE  \E e \in Entry :
             /\ Gains(e) /\ e.msg = m /\ e.uid = 0 /\ e.from = 0 /\ ~e.deleted
<1> DEFINE e == [msg |-> m, uid |-> 0, state |-> "UNREAD", deleted |-> FALSE, from |-> 0, epoch |-> 0]
<1>1. e \in Entry
  BY BoundAssumption DEF Entry, Msgs, States
<1>2. Gains(e)
  BY DEF Deliver, Gains
<1>3. QED
  BY <1>1, <1>2

Saves == open /\ saved' = toc /\ UNCHANGED <<open, toc, file>>

LEMMA SyncRewrites ==
    ASSUME TypeInv, Select \/ List \/ SaveState
    PROVE  Rewrites
<1>0. open /\ toc \in Seq(Entry)
  BY DEF Select, List, SaveState, Busy, TypeInv, Control, Tables
<1>1. CASE Select
  <2>1. /\ UNCHANGED <<open, file, saved>>
        /\ toc' = Marked(WithUid) \/ toc' = toc
    BY <1>1 DEF Select, Emptied
  <2>2. CASE toc' = toc
    BY <1>0, <2>1, <2>2 DEF Rewrites, Same
  <2>3. CASE toc' = Marked(WithUid)
    BY <1>0, <2>1, <2>3, MarkedKeeps DEF Rewrites
  <2>4. QED
    BY <2>1, <2>2, <2>3
<1>2. CASE List
  <2>1. UNCHANGED <<open, file, saved>> /\ \E K : toc' = Marked(K)
    BY <1>2 DEF List, Emptied
  <2>2. QED
    BY <1>0, <2>1, MarkedKeeps DEF Rewrites
<1>3. CASE SaveState
  <2>1. UNCHANGED <<open, file, saved>> /\ toc' = Updated /\ listing \subseteq Item
    BY <1>3 DEF SaveState, TypeInv, Listing
  <2>2. QED
    BY <1>0, <2>1, UpdatedKeeps DEF Rewrites
<1>4. QED
  BY <1>1, <1>2, <1>3

LEMMA BoxSteps ==
    ASSUME TypeInv, [Next]_vars
    PROVE  \/ UNCHANGED box
           \/ \E a \in Accts : SyncStart(a)
           \/ Rewrites
           \/ Saves
           \/ \E e \in Entry : Gains(e) /\ (Fetch \/ \E m \in Local : Deliver(m) /\ e.msg = m)
           \/ Compact
           \/ Crash
<1> DEFINE Says == \/ UNCHANGED box \/ Rewrites \/ Saves
                   \/ \E e \in Entry : Gains(e) /\ (Fetch \/ \E m \in Local : Deliver(m) /\ e.msg = m)
<1>1. ASSUME ServerActs \/ UNCHANGED vars PROVE UNCHANGED box
  BY <1>1, ServerFrame DEF vars
<1>2. ASSUME SyncStep PROVE Says
  <2>1. CASE GiveUp \/ FetchFails
    BY <2>1 DEF GiveUp, FetchFails
  <2>2. CASE Select \/ List \/ SaveState
    BY <2>2, SyncRewrites
  <2>3. CASE Fetch
    BY <2>3, FetchGains
  <2>4. CASE SaveToc
    BY <2>4 DEF SaveToc, Saves, Busy, TypeInv, Control, box
  <2>5. QED
    BY <1>2, <2>1, <2>2, <2>3, <2>4 DEF SyncStep
<1>3. ASSUME LoseConnection PROVE UNCHANGED box
  BY <1>3 DEF LoseConnection
<1>4. ASSUME NEW m \in Local, Deliver(m) PROVE Says
  BY <1>4, DeliverGains
<1>5. ASSUME NEW k \in DOMAIN toc, Delete(k) \/ Undelete(k) \/ Open(k) PROVE Rewrites
  BY <1>5, FlagRewrites DEF Flagged, TypeInv, Tables
<1>6. ASSUME Save PROVE Saves
  BY <1>6 DEF Save, Saves
<1>7. QED
  BY Kinds, <1>1, <1>2, <1>3, <1>4, <1>5, <1>6 DEF LocalActs

LEMMA StepTables == ASSUME TypeInv, [Next]_vars PROVE Tables'
<1>1. /\ Tables /\ file \in Seq(Msgs) /\ toc \in Seq(Entry) /\ Covers(saved)
      /\ \A k \in DOMAIN file : file[k] \in arrived
      /\ open => Covers(toc) /\ Len(toc) = Len(file)
  BY DEF TypeInv, Tables
<1>2. arrived \subseteq arrived'
  <2>1. CASE LocalActs
    BY <2>1, LocalFrame
  <2>2. CASE ServerActs
    BY <2>2, ServerFrame
  <2>3. QED
    BY <2>1, <2>2, Kinds DEF vars
<1>3. CASE UNCHANGED box
  BY <1>1, <1>2, <1>3 DEF Tables, Covers, box
<1>4. ASSUME NEW a \in Accts, SyncStart(a) PROVE Tables'
  BY <1>1, <1>2, <1>4, OpenedCovers DEF SyncStart, Tables, Covers
<1>5. CASE Rewrites
  BY <1>1, <1>2, <1>5 DEF Rewrites, Tables, Covers, Same
<1>6. CASE Saves
  BY <1>1, <1>2, <1>6 DEF Saves, Tables, Covers
<1>7. ASSUME NEW e \in Entry, Gains(e), e.msg \in arrived' PROVE Tables'
  <2>1. /\ file \in Seq(Msgs) /\ file' \in Seq(Msgs) /\ DOMAIN file' = DOMAIN file \cup {Len(file) + 1}
        /\ Len(file) \in Nat /\ Len(file') = Len(file) + 1
        /\ \A k \in DOMAIN file : file'[k] = file[k] /\ k # Len(file) + 1
        /\ file'[Len(file) + 1] = e.msg /\ toc'[Len(file) + 1] = e
        /\ toc' \in Seq(Entry) /\ DOMAIN toc' = DOMAIN Opened \cup {Len(file) + 1}
        /\ Len(toc') = Len(file) + 1 /\ DOMAIN Opened = DOMAIN file
        /\ \A k \in DOMAIN Opened : toc'[k] = Opened[k]
    BY <1>1, <1>7, GainsKeeps
  <2>2. \A k \in DOMAIN Opened : Opened[k].msg = file[k]
    BY <1>1, OpenedCovers DEF Covers
  <2>3. \A k \in DOMAIN toc' : toc'[k].msg = file'[k]
    BY <2>1, <2>2
  <2>4. \A k \in DOMAIN file' : file'[k] \in arrived'
    BY <1>1, <1>2, <1>7, <2>1
  <2>5. saved \in Seq(Entry) /\ Len(saved) <= Len(file) /\ \A k \in DOMAIN saved : saved[k].msg = file[k]
    BY <1>1 DEF Covers
  <2>6. Len(saved) <= Len(file') /\ \A k \in DOMAIN saved : k \in DOMAIN file
    BY <2>1, <2>5
  <2>7. saved' = saved
    BY <1>7 DEF Gains
  <2>8. QED
    BY <2>1, <2>3, <2>4, <2>5, <2>6, <2>7 DEF Tables, Covers
<1>8. ASSUME Fetch PROVE Next1.msg \in arrived'
  <2>1. Next1 \in listing /\ up /\ arrived' = arrived
    BY <1>8, NextListed DEF Fetch, TypeInv
  <2>2. QED
    BY <2>1 DEF TypeInv, Listing, Came
<1>9. CASE Compact
  <2>1. PICK f : Shrinks(f)
    BY <1>1, <1>9, CompactShrinks
  <2>2. \A x \in DOMAIN toc' : f[x] \in DOMAIN toc
    BY <2>1 DEF Shrinks, Places
  <2>3. QED
    BY <1>1, <1>2, <2>1, <2>2, SMTT(30) DEF Shrinks, Tables, Covers
<1>10. CASE Crash
  BY <1>1, <1>2, <1>10 DEF Crash, Tables, Covers
<1>11. CASE \E e \in Entry : Gains(e) /\ (Fetch \/ \E m \in Local : Deliver(m) /\ e.msg = m)
  <2>1. CASE Fetch
    <3>1. \E e \in Entry : Gains(e) /\ e.msg = Next1.msg
      BY <2>1, FetchGains
    <3>2. QED
      BY <1>7, <1>8, <2>1, <3>1
  <2>2. ASSUME NEW e \in Entry, Gains(e), NEW m \in Local, Deliver(m), e.msg = m PROVE Tables'
    BY <1>7, <2>2 DEF Deliver
  <2>3. QED
    BY <1>11, <2>1, <2>2
<1>12. QED
  BY BoxSteps, <1>3, <1>4, <1>5, <1>6, <1>9, <1>10, <1>11

-----------------------------------------------------------------------------
(* The sync                                                                *)

\* What In had when the sync began.
LEMMA StartLists ==
    ASSUME Tables, NEW a \in Accts, SyncStart(a)
    PROVE  /\ toc' \in Seq(Entry) /\ local' \in Seq(Entry)
           /\ \E f : Places(f, local', toc', {k \in DOMAIN toc' : toc'[k].uid # 0})
<1>1. toc' \in Seq(Entry)
  BY OpenedCovers DEF SyncStart, Covers
<1>2. local' = Kept(toc', {k \in DOMAIN toc' : toc'[k].uid # 0})
  BY DEF SyncStart
<1>3. {k \in DOMAIN toc' : toc'[k].uid # 0} \in SUBSET DOMAIN toc'
  OBVIOUS
<1>4. QED
  BY <1>1, <1>2, <1>3, KeptSeq

LEMMA StepControl == ASSUME TypeInv, [Next]_vars PROVE Control'
<1>1. /\ pc \in {"idle", "select", "list", "fetch", "save"} /\ acct \in Accts
      /\ up \in BOOLEAN /\ open \in BOOLEAN /\ clean \in BOOLEAN
      /\ server \in 0 .. MaxEpoch /\ validity \in [Accts -> 0 .. MaxEpoch]
      /\ local \in Seq(Entry)
      /\ pc # "idle" => open
      /\ pc # "idle" /\ clean => up
      /\ up /\ pc \in {"list", "fetch", "save"} => server = epoch[acct]
  BY DEF TypeInv, Control, Busy
<1>2. epoch \in [Accts -> 1 .. MaxEpoch] /\ 0 \in 0 .. MaxEpoch /\ <<>> \in Seq(Entry)
  BY BoundAssumption DEF TypeInv, Inboxes
<1>3. ASSUME ServerActs PROVE Control'
  <2>1. UNCHANGED <<open, pc, acct, up, local, server, validity, clean>>
    BY <1>3, ServerFrame DEF box, sync
  <2>2. epoch'[acct] = epoch[acct] \/ ~(up /\ pc # "select")
    BY <1>1, <1>3, ServerMoves DEF Goes, Anew, TypeInv
  <2>3. QED
    BY <1>1, <2>1, <2>2 DEF Control, Busy
<1>4. ASSUME LocalActs PROVE epoch' = epoch
  BY <1>4, LocalFrame DEF remote
<1>5. ASSUME NEW a \in Accts, SyncStart(a) PROVE Control'
  <2>1. local' \in Seq(Entry)
    BY <1>5, StartLists DEF TypeInv
  <2>2. QED
    BY <1>1, <1>2, <1>5, <2>1 DEF SyncStart, Control, Busy
<1>6. CASE GiveUp \/ SaveToc
  BY <1>1, <1>2, <1>6 DEF GiveUp, SaveToc, Return, Control, Busy, box
<1>7. CASE Select
  BY <1>1, <1>2, <1>7 DEF Select, Control, Busy, remote, NoFault
<1>8. CASE List
  BY <1>1, <1>2, <1>8 DEF List, Control, Busy, remote, NoFault
<1>9. CASE Fetch \/ FetchFails
  <2>1. UNCHANGED <<remote, validity, pc, acct, up, local, server, open>>
    BY <1>9 DEF Fetch, FetchFails, box
  <2>2. UNCHANGED clean \/ clean' = FALSE
    BY <1>9 DEF Fetch, FetchFails, Fault, NoFault
  <2>3. CASE UNCHANGED clean
    BY <1>1, <1>2, <2>1, <2>3 DEF Control, Busy, remote
  <2>4. CASE clean' = FALSE
    BY <1>1, <1>2, <2>1, <2>4 DEF Control, Busy, remote
  <2>5. QED
    BY <2>2, <2>3, <2>4
<1>10. CASE SaveState
  <2>1. /\ UNCHANGED <<remote, acct, up, local, server, open>> /\ pc = "fetch" /\ pc' = "save"
        /\ validity' = [validity EXCEPT ![acct] = server] \/ validity' = validity
    BY <1>10 DEF SaveState
  <2>2. UNCHANGED clean \/ clean' = FALSE
    BY <1>10 DEF SaveState, Fault, NoFault
  <2>3. CASE UNCHANGED clean
    BY <1>1, <1>2, <2>1, <2>3 DEF Control, Busy, remote
  <2>4. CASE clean' = FALSE
    BY <1>1, <1>2, <2>1, <2>4 DEF Control, Busy, remote
  <2>5. QED
    BY <2>2, <2>3, <2>4
<1>11. CASE LoseConnection
  BY <1>1, <1>2, <1>11 DEF LoseConnection, Fault, Control, Busy, remote, box
<1>12. CASE Crash
  BY <1>1, <1>2, <1>12 DEF Crash, Return, Control, Busy, remote
<1>13. CASE Save \/ Compact
  <2>1. UNCHANGED <<remote, validity, sync, clean, open>>
    BY <1>13 DEF Save, Compact, NoFault
  <2>2. QED
    BY <1>1, <1>2, <2>1 DEF Control, Busy, remote, sync
<1>14. ASSUME NEW m \in Local, Deliver(m) PROVE Control'
  <2>1. UNCHANGED <<remote, validity, sync, clean>> /\ open'
    BY <1>14 DEF Deliver
  <2>2. QED
    BY <1>1, <1>2, <2>1 DEF Control, Busy, remote, sync
<1>15. ASSUME NEW k \in DOMAIN toc, Delete(k) \/ Undelete(k) \/ Open(k) PROVE Control'
  <2>1. UNCHANGED <<remote, validity, sync, clean, open>>
    BY <1>15, FlagRewrites DEF Flagged, Rewrites, TypeInv, Tables
  <2>2. QED
    BY <1>1, <1>2, <2>1 DEF Control, Busy, remote, sync
<1>16. CASE UNCHANGED vars
  BY <1>1, <1>2, <1>16 DEF vars, Control, Busy, remote, box, sync
<1>17. QED
  BY Kinds, <1>3, <1>5, <1>6, <1>7, <1>8, <1>9, <1>10, <1>11, <1>12, <1>13, <1>14, <1>15, <1>16
     DEF LocalActs, SyncStep

LEMMA StepCounts == ASSUME TypeInv, [Next]_vars PROVE Counts'
<1>1. /\ faults \in 0 .. MaxFaults /\ changes \in 0 .. MaxChanges
      /\ touched \subseteq Msgs /\ binned \subseteq Msgs /\ reread \subseteq Local
      /\ \A k \in DOMAIN toc : toc[k].msg \in Msgs
      /\ MaxFaults \in Nat /\ MaxChanges \in Nat
  <2>1. \A e \in Entry : e.msg \in Msgs
    BY EntryFields
  <2>2. toc \in Seq(Entry)
    BY DEF TypeInv, Tables
  <2>3. QED
    BY <2>1, <2>2, BoundAssumption DEF TypeInv, Counts
<1>2. ASSUME faults' = faults \/ Hit PROVE faults' \in 0 .. MaxFaults
  BY <1>1, <1>2 DEF Hit
<1>3. ASSUME changes' = changes \/ Change PROVE changes' \in 0 .. MaxChanges
  BY <1>1, <1>3 DEF Change
<1>4. ASSUME ServerActs PROVE Counts'
  <2>1. changes' = changes \/ Change
    BY <1>4 DEF ServerActs, Arrive, NewValidity, ReadElsewhere, Expunge
  <2>2. UNCHANGED <<faults, touched, hist>>
    BY <1>4, ServerFrame
  <2>3. QED
    BY <1>1, <1>3, <2>1, <2>2 DEF Counts, hist
<1>5. ASSUME NEW a \in Accts, SyncStart(a) PROVE Counts'
  BY <1>1, <1>5 DEF SyncStart, Counts
<1>6. CASE GiveUp \/ SaveToc \/ Crash
  <2>1. UNCHANGED <<changes, hist>> /\ (faults' = faults \/ Hit) /\ touched' = {}
    BY <1>6 DEF GiveUp, SaveToc, Crash, Return
  <2>2. QED
    BY <1>1, <1>2, <2>1 DEF Counts, hist
<1>7. CASE Select \/ List
  <2>1. UNCHANGED <<changes, faults, touched, reread>>
    BY <1>7 DEF Select, List, NoFault
  <2>2. binned' \subseteq binned \cup {toc[k].msg : k \in DOMAIN toc}
    BY <1>7 DEF Select, List, Swept, WithUid
  <2>3. QED
    BY <1>1, <2>1, <2>2 DEF Counts
<1>8. CASE Fetch \/ FetchFails \/ SaveState \/ LoseConnection
  <2>1. UNCHANGED <<changes, hist, touched>> /\ (faults' = faults \/ Hit)
    BY <1>8 DEF Fetch, FetchFails, SaveState, LoseConnection, Fault, NoFault
  <2>2. QED
    BY <1>1, <1>2, <2>1 DEF Counts, hist
<1>9. CASE Save
  BY <1>1, <1>3, <1>9 DEF Save, NoFault, Counts, hist
<1>10. CASE Compact
  <2>1. PICK f : Shrinks(f)
    BY <1>10, CompactShrinks DEF TypeInv
  <2>2. changes' = changes \/ Change
    BY <1>10 DEF Compact
  <2>3. UNCHANGED <<faults, hist>> /\ touched' \subseteq touched \cup {toc[k].msg : k \in DOMAIN toc}
    BY <2>1 DEF Shrinks
  <2>4. QED
    BY <1>1, <1>3, <2>2, <2>3 DEF Counts, hist
<1>11. ASSUME NEW m \in Local, Deliver(m) PROVE Counts'
  BY <1>1, <1>11 DEF Deliver, Counts
<1>12. ASSUME NEW k \in DOMAIN toc, Delete(k) \/ Undelete(k) \/ Open(k) PROVE Counts'
  <2>1. /\ binned' \subseteq binned \cup {toc[k].msg} /\ touched' \subseteq touched \cup {toc[k].msg}
        /\ UNCHANGED <<faults, reread>>
    BY <1>12, FlagRewrites DEF Flagged, TypeInv, Tables
  <2>2. changes' = changes \/ Change
    BY <1>12 DEF Delete, Undelete, Open, Flag
  <2>3. QED
    BY <1>1, <1>3, <2>1, <2>2 DEF Counts
<1>13. CASE UNCHANGED vars
  BY <1>1, <1>13 DEF vars, Counts, hist
<1>14. QED
  BY Kinds, <1>4, <1>5, <1>6, <1>7, <1>8, <1>9, <1>10, <1>11, <1>12, <1>13
     DEF LocalActs, SyncStep

LEMMA StepListing == ASSUME TypeInv, [Next]_vars PROVE Listing'
<1>1. /\ listing \subseteq Item /\ todo \subseteq listing
      /\ pc \notin {"fetch", "save"} => listing = {}
      /\ pc = "save" => todo = {}
      /\ \A r, s \in listing : r.uid = s.uid \/ r.msg = s.msg => r = s
      /\ up => \A l \in listing :
                  /\ l.uid < next[acct] /\ l.msg \in Came(acct)
                  /\ \A r \in inbox[acct] : r.uid = l.uid <=> r.msg = l.msg
      /\ pc = "fetch" /\ ~Resync => \A r \in todo : r.uid \notin LocalUids
  BY DEF TypeInv, Listing
<1>2. acct \in Accts /\ \A l \in listing : l.uid \in Nat
  BY <1>1, ItemFields DEF TypeInv, Control, Uids
<1>3. ASSUME UNCHANGED <<remote, sync, validity>>, arrived \subseteq arrived' PROVE Listing'
  <2>1. UNCHANGED <<inbox, next, pc, acct, up, local, server, listing, todo, validity>>
    BY <1>3 DEF remote, sync
  <2>2. Came(acct) \subseteq Came(acct)' /\ Resync' = Resync /\ LocalUids' = LocalUids
    BY <1>3, <2>1 DEF Came, Resync, LocalUids
  <2>3. QED
    BY <1>1, <2>1, <2>2 DEF Listing
<1>4. CASE ServerActs
  <2>1. /\ UNCHANGED <<sync, validity>> /\ arrived \subseteq arrived'
        /\ UNCHANGED <<pc, acct, up, local, server, listing, todo, validity>>
    BY <1>4, ServerFrame DEF sync
  <2>2. Came(acct) \subseteq Came(acct)' /\ Resync' = Resync /\ LocalUids' = LocalUids
    BY <2>1 DEF Came, Resync, LocalUids
  <2>3. ASSUME up, NEW l \in listing
        PROVE  /\ l.uid < next'[acct] /\ l.msg \in Came(acct)'
               /\ \A r \in inbox'[acct] : r.uid = l.uid <=> r.msg = l.msg
    <3>1. ~Anew(acct)
      BY <1>1, <2>3 DEF Anew
    <3>2. /\ next[acct] <= next'[acct]
          /\ \A r \in inbox'[acct] : \/ \E s \in inbox[acct] : s.uid = r.uid /\ s.msg = r.msg
                                     \/ r.uid >= next[acct] /\ r.msg \notin arrived
      BY <1>2, <1>4, <3>1, ServerMoves DEF Goes, TypeInv
    <3>3. next[acct] \in Nat /\ next'[acct] \in Nat /\ \A r \in inbox'[acct] : r.uid \in Nat
      BY <1>2, <1>4, ServerMoves, ItemFields DEF TypeInv, Inboxes, Uids
    <3>4. l.uid < next[acct] /\ l.msg \in Came(acct) /\ l.msg \in arrived
      BY <1>1, <2>3 DEF Came
    <3>5. \A r \in inbox[acct] : r.uid = l.uid <=> r.msg = l.msg
      BY <1>1, <2>3
    <3>6. QED
      BY <1>2, <2>2, <3>2, <3>3, <3>4, <3>5
  <2>4. QED
    BY <1>1, <2>1, <2>2, <2>3 DEF Listing
<1>5. ASSUME NEW a \in Accts, SyncStart(a) PROVE Listing'
  <2>1. pc' = "select" /\ pc = "idle" /\ UNCHANGED <<listing, todo>>
    BY <1>5 DEF SyncStart
  <2>2. QED
    BY <1>1, <2>1 DEF Listing
<1>6. CASE GiveUp \/ SaveToc \/ Crash
  <2>1. listing' = {} /\ todo' = {} /\ pc' = "idle"
    BY <1>6 DEF GiveUp, SaveToc, Crash, Return
  <2>2. QED
    BY <2>1 DEF Listing
<1>7. CASE Select
  <2>1. listing' = {} /\ todo' = {} /\ pc' # "save"
    BY <1>1, <1>7 DEF Select
  <2>2. QED
    BY <2>1 DEF Listing
<1>8. CASE List
  <2>1. /\ UNCHANGED <<inbox, next, arrived, acct, local, server, validity>>
        /\ listing' = inbox[acct] /\ pc' = "fetch"
        /\ todo' = IF Resync THEN listing' ELSE New(listing')
    BY <1>8 DEF List, remote
  <2>2. Came(acct)' = Came(acct) /\ Resync' = Resync /\ LocalUids' = LocalUids
    BY <2>1 DEF Came, Resync, LocalUids
  <2>3. /\ inbox[acct] \subseteq Item
        /\ \A r \in inbox[acct] : r.uid < next[acct] /\ r.msg \in Came(acct)
        /\ \A r, s \in inbox[acct] : r.uid = s.uid \/ r.msg = s.msg => r = s
    BY <1>2 DEF TypeInv, Inboxes
  <2>4. todo' \subseteq listing' /\ (~Resync => \A r \in todo' : r.uid \notin LocalUids)
    BY <2>1 DEF New
  <2>5. QED
    BY <2>1, <2>2, <2>3, <2>4 DEF Listing
<1>9. CASE Fetch \/ FetchFails \/ SaveState \/ LoseConnection
  <2>1. /\ UNCHANGED <<inbox, next, arrived, acct, local, server, listing>>
        /\ todo' \subseteq todo
        /\ up' = up \/ up' = FALSE
        /\ \/ pc' = pc /\ UNCHANGED validity
           \/ pc = "fetch" /\ pc' = "save" /\ todo = {}
    BY <1>9 DEF Fetch, FetchFails, SaveState, LoseConnection, remote
  <2>2. Came(acct)' = Came(acct) /\ LocalUids' = LocalUids /\ (pc' = "fetch" => Resync' = Resync)
    BY <2>1 DEF Came, Resync, LocalUids
  <2>3. up' => up
    BY <2>1
  <2>4. QED
    BY <1>1, <2>1, <2>2, <2>3 DEF Listing
<1>10. CASE Save \/ Compact
  BY <1>3, <1>10 DEF Save, Compact
<1>11. ASSUME NEW m \in Local, Deliver(m) PROVE Listing'
  BY <1>3, <1>11 DEF Deliver
<1>12. ASSUME NEW k \in DOMAIN toc, Delete(k) \/ Undelete(k) \/ Open(k) PROVE Listing'
  BY <1>3, <1>12, FlagRewrites DEF Flagged, TypeInv, Tables
<1>13. CASE UNCHANGED vars
  BY <1>3, <1>13 DEF vars
<1>14. QED
  BY Kinds, <1>4, <1>5, <1>6, <1>7, <1>8, <1>9, <1>10, <1>11, <1>12, <1>13
     DEF LocalActs, SyncStep

LEMMA StepTypeInv == TypeInv /\ [Next]_vars => TypeInv'
  BY StepInboxes, StepTables, StepControl, StepListing, StepCounts DEF TypeInv

LEMMA InitTypeInv == Init => TypeInv
<1> SUFFICES ASSUME Init PROVE TypeInv
  OBVIOUS
<1>1. Inboxes
  <2>1. \A a \in Accts : 1 <= 1 + Cardinality(Came(a))
    BY Sizes
  <2>2. QED
    BY <2>1, BoundAssumption DEF Init, Inboxes
<1>2. Tables
  BY DEF Init, Tables, Covers
<1>3. Control
  <2>1. /\ pc = "idle" /\ acct \in Accts /\ up = FALSE /\ open = FALSE /\ clean = TRUE /\ server = 0
        /\ local = <<>> /\ validity = [a \in Accts |-> 0]
    BY DEF Init
  <2>2. 0 \in 0 .. MaxEpoch
    BY BoundAssumption
  <2>3. server \in 0 .. MaxEpoch /\ validity \in [Accts -> 0 .. MaxEpoch] /\ local \in Seq(Entry)
    BY <2>1, <2>2
  <2>4. QED
    BY <2>1, <2>3 DEF Control, Busy
<1>4. Listing
  BY DEF Init, Listing
<1>5. Counts
  BY BoundAssumption DEF Init, Counts
<1>6. QED
  BY <1>1, <1>2, <1>3, <1>4, <1>5 DEF TypeInv

\* Every variable has its type, no UID stands for two messages of an INBOX,
\* and the table of an open In has a summary for each message of the mbox file
\* and no other, whatever the sync, the user and the disk do to them in turn
\* (macmbx_toc_open, macmbx_append_message, macmbx_compact).
THEOREM TypeCorrect == Spec => []TypeOK
<1>1. Spec => []TypeInv
  BY InitTypeInv, StepTypeInv, PTL DEF Spec
<1>2. QED
  BY <1>1, TypeInvTypeOK, PTL

-----------------------------------------------------------------------------
(* Mail of other origin                                                    *)

\* A sync collects its UIDs when it starts and forgets them when it returns.
LEMMA LocalSteps ==
    ASSUME TypeInv, [Next]_vars
    PROVE  \/ \E a \in Accts : SyncStart(a)
           \/ local' = <<>> /\ pc' = "idle"
           \/ UNCHANGED <<local, acct>>
<1>1. ASSUME ServerActs \/ UNCHANGED vars PROVE UNCHANGED <<local, acct>>
  BY <1>1, ServerFrame DEF vars, sync
<1>2. CASE GiveUp \/ SaveToc \/ Crash
  BY <1>2 DEF GiveUp, SaveToc, Crash, Return
<1>3. CASE Select \/ List \/ Fetch
  BY <1>3 DEF Select, List, Fetch
<1>4. CASE FetchFails \/ SaveState \/ LoseConnection
  BY <1>4 DEF FetchFails, SaveState, LoseConnection
<1>5. CASE Save \/ Compact
  BY <1>5 DEF Save, Compact, sync
<1>6. ASSUME NEW m \in Local, Deliver(m) PROVE UNCHANGED <<local, acct>>
  BY <1>6 DEF Deliver, sync
<1>7. ASSUME NEW k \in DOMAIN toc, Delete(k) \/ Undelete(k) \/ Open(k) PROVE UNCHANGED <<local, acct>>
  <2>1. UNCHANGED sync
    BY <1>7, FlagRewrites DEF Flagged, TypeInv, Tables
  <2>2. QED
    BY <2>1 DEF sync
<1>8. QED
  BY Kinds, <1>1, <1>2, <1>3, <1>4, <1>5, <1>6, <1>7 DEF LocalActs, SyncStep

LEMMA RereadGrows == ASSUME TypeInv, [Next]_vars PROVE reread \subseteq reread'
<1>1. ASSUME ServerActs \/ UNCHANGED vars PROVE reread' = reread
  BY <1>1, ServerFrame DEF vars, hist
<1>2. ASSUME NEW a \in Accts, SyncStart(a) PROVE reread \subseteq reread'
  BY <1>2 DEF SyncStart
<1>3. ASSUME NEW m \in Local, Deliver(m) PROVE reread \subseteq reread'
  BY <1>3 DEF Deliver
<1>4. CASE GiveUp \/ Select \/ List \/ Fetch
  BY <1>4 DEF GiveUp, Select, List, Fetch, hist
<1>5. CASE FetchFails \/ SaveState \/ SaveToc
  BY <1>5 DEF FetchFails, SaveState, SaveToc, hist
<1>6. CASE LoseConnection \/ Crash \/ Save \/ Compact
  BY <1>6 DEF LoseConnection, Crash, Save, Compact, hist
<1>7. ASSUME NEW k \in DOMAIN toc, Delete(k) \/ Undelete(k) \/ Open(k) PROVE reread' = reread
  BY <1>7, FlagRewrites DEF Flagged, TypeInv, Tables
<1>8. QED
  BY Kinds, <1>1, <1>2, <1>3, <1>4, <1>5, <1>6, <1>7 DEF LocalActs, SyncStep

\* Only a message that a rebuild reads gets another summary than it had.
LEMMA OpenedPlain ==
    ASSUME TypeInv, Origins,
           reread' = IF open THEN reread ELSE reread \cup (Local \cap {file[k] : k \in Unsaved})
    PROVE  \A k \in DOMAIN Opened : Opened[k].msg \in Local \ reread' => Opened[k].uid = 0
<1> SUFFICES ASSUME NEW k \in DOMAIN Opened, Opened[k].msg \in Local \ reread'
             PROVE  Opened[k].uid = 0
  OBVIOUS
<1>1. /\ \A j \in DOMAIN toc   : toc[j].msg \in Local \ reread => toc[j].uid = 0
      /\ \A j \in DOMAIN saved : saved[j].msg \in Local \ reread => saved[j].uid = 0
  BY DEF Origins, Plain
<1>2. CASE open
  BY <1>1, <1>2, OpenedCovers DEF TypeInv
<1>3. CASE ~open
  <2>1. \/ k \in DOMAIN saved /\ Opened[k] = saved[k]
        \/ k \in Unsaved /\ k \in DOMAIN file /\ Opened[k] = Rebuilt(file[k])
    BY <1>3, OpenedCovers DEF TypeInv
  <2>2. Opened[k].msg \notin reread
    BY <1>3
  <2>3. CASE k \in DOMAIN saved /\ Opened[k] = saved[k]
    BY <1>1, <2>2, <2>3
  <2>4. CASE k \in Unsaved /\ k \in DOMAIN file /\ Opened[k] = Rebuilt(file[k])
    <3>1. Opened[k].msg = file[k]
      BY OpenedCovers DEF TypeInv, Covers
    <3>2. file[k] \in reread'
      BY <1>3, <2>4, <3>1
    <3>3. QED
      BY <3>1, <3>2
  <2>5. QED
    BY <2>1, <2>3, <2>4
<1>4. QED
  BY <1>2, <1>3

LEMMA StepOrigins == TypeInv /\ Origins /\ [Next]_vars => Origins'
<1> SUFFICES ASSUME TypeInv, Origins, [Next]_vars PROVE Origins'
  OBVIOUS
<1>1. /\ \A k \in DOMAIN toc   : toc[k].msg \in Local \ reread => toc[k].uid = 0
      /\ \A k \in DOMAIN saved : saved[k].msg \in Local \ reread => saved[k].uid = 0
  BY DEF Origins, Plain
<1>2. reread \subseteq reread'
  BY RereadGrows
<1>3. Plain(toc)' /\ Plain(saved)'
  <2>1. CASE UNCHANGED box
    BY <1>1, <1>2, <2>1 DEF box, Plain
  <2>2. ASSUME NEW a \in Accts, SyncStart(a) PROVE Plain(toc)' /\ Plain(saved)'
    <3>1. /\ toc' = Opened /\ saved' = saved
          /\ reread' = IF open THEN reread ELSE reread \cup (Local \cap {file[k] : k \in Unsaved})
      BY <2>2 DEF SyncStart
    <3>2. QED
      BY <1>1, <1>2, <3>1, OpenedPlain DEF Plain
  <2>3. CASE Rewrites
    BY <1>1, <1>2, <2>3 DEF Rewrites, Same, Plain
  <2>4. CASE Saves
    BY <1>1, <1>2, <2>4 DEF Saves, Plain
  <2>5. ASSUME NEW e \in Entry, Gains(e), Fetch \/ \E m \in Local : Deliver(m) /\ e.msg = m
        PROVE  Plain(toc)' /\ Plain(saved)'
    <3>1. /\ \A k \in DOMAIN Opened : toc'[k] = Opened[k]
          /\ DOMAIN toc' = DOMAIN Opened \cup {Len(file) + 1} /\ toc'[Len(file) + 1] = e
          /\ saved' = saved
      BY <2>5, GainsKeeps DEF TypeInv, Gains
    <3>2. CASE Fetch
      <4>1. Opened = toc /\ e.msg = Next1.msg
        <5>1. PICK d \in Entry : Gains(d) /\ Opened = toc /\ d.msg = Next1.msg
          BY <3>2, FetchGains
        <5>2. toc'[Len(file) + 1] = d
          BY <5>1, GainsKeeps DEF TypeInv
        <5>3. QED
          BY <3>1, <5>1, <5>2
      <4>2. Next1 \in Item
        BY <3>2, NextListed DEF Fetch, TypeInv, Listing
      <4>3. e.msg \notin Local
        BY <4>1, <4>2, ItemFields, MsgsAssumption
      <4>4. QED
        BY <1>1, <1>2, <3>1, <4>1, <4>3 DEF Plain
    <3>3. ASSUME NEW m \in Local, Deliver(m) PROVE Plain(toc)' /\ Plain(saved)'
      <4>1. reread' = IF open THEN reread ELSE reread \cup (Local \cap {file[k] : k \in Unsaved})
        BY <3>3 DEF Deliver
      <4>2. PICK d \in Entry : Gains(d) /\ d.uid = 0
        BY <3>3, DeliverGains
      <4>3. toc'[Len(file) + 1] = d
        BY <4>2, GainsKeeps DEF TypeInv
      <4>4. QED
        BY <1>1, <1>2, <3>1, <4>1, <4>2, <4>3, OpenedPlain DEF Plain
    <3>4. QED
      BY <2>5, <3>2, <3>3
  <2>6. CASE Compact
    <3>1. PICK f : Shrinks(f)
      BY <2>6, CompactShrinks DEF TypeInv
    <3>2. \A x \in DOMAIN toc' : f[x] \in DOMAIN toc /\ toc'[x] = toc[f[x]]
      BY <3>1 DEF Shrinks, Places
    <3>3. saved' = toc'
      BY <3>1 DEF Shrinks
    <3>4. QED
      BY <1>1, <1>2, <3>2, <3>3 DEF Plain
  <2>7. CASE Crash
    BY <1>1, <1>2, <2>7 DEF Crash, Plain
  <2>8. QED
    BY BoxSteps, <2>1, <2>2, <2>3, <2>4, <2>5, <2>6, <2>7
<1>4. 0 \notin LocalUids'
  <2>1. ASSUME NEW a \in Accts, SyncStart(a) PROVE 0 \notin LocalUids'
    <3>1. PICK f : Places(f, local', toc', {k \in DOMAIN toc' : toc'[k].uid # 0})
      BY <2>1, StartLists DEF TypeInv
    <3>2. \A j \in DOMAIN local' : local'[j].uid # 0
      BY <3>1 DEF Places
    <3>3. QED
      BY <3>2 DEF LocalUids, ToSet
  <2>2. CASE local' = <<>>
    BY <2>2 DEF LocalUids, ToSet
  <2>3. CASE local' = local
    BY <2>3 DEF LocalUids, Origins
  <2>4. QED
    BY LocalSteps, <2>1, <2>2, <2>3
<1>5. QED
  BY <1>3, <1>4 DEF Origins

LEMMA InitOrigins == Init => Origins
  BY DEF Init, Origins, Plain, LocalUids, ToSet

\* A merge marks summaries with one of the UIDs In had.
LEMMA MergedUids ==
    ASSUME List
    PROVE  \E K : /\ toc' = Marked(K)
                  /\ \A k \in K : k \in DOMAIN toc /\ (toc[k].uid # 0 \/ toc[k].uid \in LocalUids)
<1> DEFINE merged == {k \in DOMAIN toc : toc[k].uid \in Gone(listing') /\ k = First(toc[k].uid)}
<1>1. toc' = Marked(merged) \/ toc' = Marked(WithUid)
  BY DEF List, Emptied
<1>2. \A k \in merged : k \in DOMAIN toc /\ toc[k].uid \in LocalUids
  BY DEF Gone
<1>3. \A k \in WithUid : k \in DOMAIN toc /\ toc[k].uid # 0
  BY DEF WithUid
<1> HIDE DEF merged
<1>4. QED
  BY <1>1, <1>2, <1>3

\* Mail that did not come from an IMAP server is never marked deleted by a
\* sync, nor unmarked, unless a rebuild of the table has read it: its summary
\* has no uid_hash that the sweep of an empty INBOX, the resync or the merge
\* could take for a UID (macmbx_mailer_check_imap, build_local_uid_list).
THEOREM OtherMailKept == Spec => LocalKept
<1> DEFINE Kind == SyncStep => \A k \in DOMAIN toc :
                     toc[k].msg \in Local \ reread => toc'[k].deleted = toc[k].deleted
<1>1. Spec => [](TypeInv /\ Origins)
  <2>1. Init => TypeInv /\ Origins
    BY InitTypeInv, InitOrigins
  <2>2. TypeInv /\ Origins /\ [Next]_vars => (TypeInv /\ Origins)'
    BY StepTypeInv, StepOrigins
  <2>3. QED
    BY <2>1, <2>2, PTL DEF Spec
<1>2. TypeInv /\ Origins /\ [Next]_vars => [Kind]_vars
  <2> SUFFICES ASSUME TypeInv, Origins, SyncStep,
                      NEW k \in DOMAIN toc, toc[k].msg \in Local \ reread
               PROVE  toc'[k].deleted = toc[k].deleted
    OBVIOUS
  <2>1. toc[k].uid = 0 /\ 0 \notin LocalUids /\ toc \in Seq(Entry)
    BY DEF Origins, Plain, TypeInv, Tables
  <2>2. CASE GiveUp \/ FetchFails \/ SaveToc
    BY <2>2 DEF GiveUp, FetchFails, SaveToc, box
  <2>3. CASE Select
    <3>1. toc' = toc \/ toc' = Marked(WithUid)
      BY <2>3 DEF Select, Emptied
    <3>2. k \notin WithUid
      BY <2>1 DEF WithUid
    <3>3. QED
      BY <2>1, <3>1, <3>2, MarkedKeeps
  <2>4. CASE List
    <3>1. PICK K : /\ toc' = Marked(K)
                   /\ \A j \in K : j \in DOMAIN toc /\ (toc[j].uid # 0 \/ toc[j].uid \in LocalUids)
      BY <2>4, MergedUids
    <3>2. k \notin K
      BY <2>1, <3>1
    <3>3. QED
      BY <2>1, <3>1, <3>2, MarkedKeeps
  <2>5. CASE Fetch
    <3>1. \E e \in Entry : Gains(e) /\ Opened = toc
      BY <2>5, FetchGains
    <3>2. toc'[k] = toc[k]
      BY <3>1, GainsKeeps DEF TypeInv
    <3>3. QED
      BY <3>2
  <2>6. CASE SaveState
    <3>1. toc' = Updated /\ listing \subseteq Item
      BY <2>6 DEF SaveState, TypeInv, Listing
    <3>2. QED
      BY <2>1, <3>1, UpdatedKeeps
  <2>7. QED
    BY <2>2, <2>3, <2>4, <2>5, <2>6 DEF SyncStep
<1>3. QED
  BY <1>1, <1>2, PTL DEF Spec, LocalKept

-----------------------------------------------------------------------------
(* Copies                                                                  *)

Occurrences(s, m) == Cardinality({k \in DOMAIN s : s[k] = m})

LEMMA CopiesNat ==
    ASSUME NEW s \in Seq(Msgs), NEW m
    PROVE  IsFiniteSet({k \in DOMAIN s : s[k] = m}) /\ Occurrences(s, m) \in Nat
<1>1. Len(s) \in Nat /\ DOMAIN s = 1 .. Len(s)
  OBVIOUS
<1>2. IsFiniteSet(1 .. Len(s))
  BY <1>1, FS_Interval
<1>3. QED
  BY <1>1, <1>2, FS_Subset, FS_CardinalityType DEF Occurrences

\* A message that is appended is one copy more of it.
LEMMA CopiesAppend ==
    ASSUME NEW s \in Seq(Msgs), NEW e \in Msgs, NEW m, NEW t, t = Append(s, e)
    PROVE  /\ m = e => Occurrences(t, m) = Occurrences(s, m) + 1
           /\ m # e => Occurrences(t, m) = Occurrences(s, m)
<1> DEFINE P == {k \in DOMAIN s : s[k] = m}
           Q == {k \in DOMAIN t : t[k] = m}
<1>1. DOMAIN t = DOMAIN s \cup {Len(s) + 1} /\ Len(s) + 1 \notin DOMAIN s
  OBVIOUS
<1>2. t[Len(s) + 1] = e /\ \A k \in DOMAIN s : t[k] = s[k]
  OBVIOUS
<1>3. IsFiniteSet(P) /\ Cardinality(P) \in Nat
  BY CopiesNat DEF Occurrences
<1>4. CASE m = e
  <2>1. Q = P \cup {Len(s) + 1} /\ Len(s) + 1 \notin P
    BY <1>1, <1>2, <1>4
  <2>2. Cardinality(Q) = Cardinality(P) + 1
    BY <1>3, <2>1, FS_AddElement
  <2>3. QED
    BY <1>4, <2>2 DEF Occurrences
<1>5. CASE m # e
  <2>1. \A k \in DOMAIN t : k \in Q <=> k \in P
    BY <1>1, <1>2, <1>5
  <2>2. Q = P
    BY <1>1, <2>1
  <2> HIDE DEF P, Q
  <2>3. Cardinality(Q) = Cardinality(P)
    BY <2>2
  <2>4. QED
    BY <1>5, <2>3 DEF P, Q, Occurrences
<1>6. QED
  BY <1>4, <1>5

\* To keep elements of a sequence makes no copies, and to drop one takes one away.
LEMMA CopiesKept ==
    ASSUME NEW s \in Seq(Msgs), NEW t \in Seq(Msgs), NEW m, NEW K \in SUBSET DOMAIN s,
           NEW f, Places(f, t, s, K)
    PROVE  /\ Occurrences(t, m) <= Occurrences(s, m)
           /\ \A k \in DOMAIN s \ K : s[k] = m => Occurrences(t, m) < Occurrences(s, m)
<1> DEFINE P == {k \in DOMAIN s : s[k] = m}
           I == P \cap K
           Q == {k \in DOMAIN t : t[k] = m}
           g == [k \in Q |-> f[k]]
<1>0. /\ f \in [DOMAIN t -> K] /\ \A x \in DOMAIN t : t[x] = s[f[x]]
      /\ \A a, b \in DOMAIN t : a < b => f[a] < f[b]
  BY DEF Places
<1>1. g \in [Q -> I]
  BY <1>0
<1>2. \A a, b \in Q : g[a] = g[b] => a = b
  <2> SUFFICES ASSUME NEW a \in Q, NEW b \in Q, a # b PROVE g[a] # g[b]
    OBVIOUS
  <2>1. a \in DOMAIN t /\ b \in DOMAIN t /\ (a < b \/ b < a)
    OBVIOUS
  <2>2. f[a] \in Nat /\ f[b] \in Nat
    BY <1>0, <2>1
  <2>3. QED
    BY <1>0, <2>1, <2>2
<1>3. g \in Injection(Q, I)
  BY <1>1, <1>2 DEF Injection, IsInjective
<1>4. IsFiniteSet(P) /\ Cardinality(P) \in Nat /\ I \subseteq P
  BY CopiesNat, FS_CardinalityType
<1>5. \A k \in DOMAIN s \ K : s[k] = m => k \in P /\ k \notin I
  OBVIOUS
<1> HIDE DEF g, P, Q, I
<1>6. IsFiniteSet(I) /\ Cardinality(I) <= Cardinality(P) /\ Cardinality(I) \in Nat
      /\ (I # P => Cardinality(I) # Cardinality(P))
  BY <1>4, FS_Subset, FS_CardinalityType
<1>7. Cardinality(Q) <= Cardinality(I) /\ Cardinality(Q) \in Nat
  BY <1>3, <1>6, FS_Injection, FS_CardinalityType
<1>8. Cardinality(Q) <= Cardinality(P) /\ (I # P => Cardinality(Q) < Cardinality(P))
  BY <1>4, <1>6, <1>7
<1>9. QED
  BY <1>5, <1>8 DEF P, Q, Occurrences

LEMMA ShrinksCopies ==
    ASSUME Tables, NEW f, Shrinks(f), NEW m
    PROVE  /\ Copies(m)' <= Copies(m)
           /\ \A k \in DOMAIN toc : toc[k].deleted /\ toc[k].msg = m => Copies(m)' < Copies(m)
<1> DEFINE K == {k \in DOMAIN toc : ~toc[k].deleted}
<1>1. /\ file \in Seq(Msgs) /\ file' \in Seq(Msgs) /\ DOMAIN file = DOMAIN toc /\ DOMAIN file' = DOMAIN toc'
      /\ \A k \in DOMAIN toc : toc[k].msg = file[k]
  BY DEF Tables, Shrinks, Covers
<1>2. Places(f, toc', toc, K) /\ \A x \in DOMAIN toc' : file'[x] = file[f[x]]
  BY DEF Shrinks
<1>3. Places(f, file', file, K)
  BY <1>1, <1>2 DEF Places
<1>4. K \in SUBSET DOMAIN file
  BY <1>1
<1>5. \A k \in DOMAIN toc : toc[k].deleted => k \in DOMAIN file \ K
  BY <1>1
<1> HIDE DEF K
<1>6. /\ Occurrences(file', m) <= Occurrences(file, m)
      /\ \A k \in DOMAIN file \ K : file[k] = m => Occurrences(file', m) < Occurrences(file, m)
  BY <1>1, <1>3, <1>4, CopiesKept
<1>7. QED
  BY <1>1, <1>5, <1>6 DEF Copies, Occurrences

\* Only a fetch makes another copy of a message of a server.
LEMMA CopiesSteps ==
    ASSUME TypeInv, [Next]_vars, NEW m \in Remote
    PROVE  /\ Copies(m) \in Nat /\ Copies(m)' \in Nat
           /\ Copies(m)' <= Copies(m) + (IF Fetch /\ m = Next1.msg THEN 1 ELSE 0)
<1>1. file \in Seq(Msgs) /\ file' \in Seq(Msgs)
  BY StepTables DEF TypeInv, Tables
<1>2. Copies(m) = Occurrences(file, m) /\ Copies(m)' = Occurrences(file', m)
  BY DEF Copies, Occurrences
<1>3. Copies(m) \in Nat /\ Copies(m)' \in Nat
  BY <1>1, <1>2, CopiesNat
<1>4. CASE UNCHANGED file
  <2>1. Copies(m)' = Copies(m)
    BY <1>2, <1>4
  <2>2. QED
    BY <1>3, <2>1
<1>5. ASSUME NEW e \in Entry, Gains(e), Fetch \/ \E n \in Local : Deliver(n) /\ e.msg = n
      PROVE  Copies(m)' <= Copies(m) + (IF Fetch /\ m = Next1.msg THEN 1 ELSE 0)
  <2>1. file' = Append(file, e.msg) /\ e.msg \in Msgs
    BY <1>5, EntryFields DEF Gains
  <2>2. CASE m # e.msg
    <3>1. Occurrences(file', m) = Occurrences(file, m)
      BY <1>1, <2>1, <2>2, CopiesAppend, ZenonT(40)
    <3>2. QED
      BY <1>2, <1>3, <3>1
  <2>3. CASE m = e.msg
    <3>1. Occurrences(file', m) = Occurrences(file, m) + 1
      BY <1>1, <2>1, <2>3, CopiesAppend, ZenonT(40)
    <3>2. Fetch /\ file' = Append(file, Next1.msg)
      BY <1>5, <2>3, MsgsAssumption DEF Fetch
    <3>3. m = Next1.msg
      <4>1. PICK d \in Entry : Gains(d) /\ d.msg = Next1.msg
        BY <3>2, FetchGains
      <4>2. file'[Len(file) + 1] = d.msg /\ file'[Len(file) + 1] = e.msg
        BY <1>5, <4>1, GainsKeeps DEF TypeInv
      <4>3. QED
        BY <2>3, <4>1, <4>2
    <3>4. QED
      BY <1>2, <1>3, <3>1, <3>2, <3>3
  <2>4. QED
    BY <2>2, <2>3
<1>6. CASE Compact
  <2>1. PICK f : Shrinks(f)
    BY <1>6, CompactShrinks DEF TypeInv
  <2>2. Copies(m)' <= Copies(m)
    BY <2>1, ShrinksCopies DEF TypeInv
  <2>3. QED
    BY <1>3, <2>2
<1>7. QED
  BY <1>3, <1>4, <1>5, <1>6, BoxSteps DEF box, SyncStart, Rewrites, Saves, Crash

\* What In holds of a server it holds until a crash or a compaction takes it.
LEMMA HasSteps ==
    ASSUME TypeInv, [Next]_vars, NEW r, Has(r)
    PROVE  Has(r)' \/ Crash \/ (Compact /\ Copies(r.msg)' < Copies(r.msg))
<1>1. open /\ Tables
  BY DEF Has, TypeInv
<1>2. PICK k \in DOMAIN toc : toc[k].msg = r.msg /\ toc[k].uid = r.uid
  BY DEF Has
<1>3. CASE UNCHANGED box
  BY <1>1, <1>2, <1>3 DEF Has, box
<1>4. ASSUME NEW a \in Accts, SyncStart(a) PROVE Has(r)'
  BY <1>1, <1>2, <1>4, OpenedCovers DEF Has, SyncStart
<1>5. CASE Rewrites \/ Saves
  BY <1>1, <1>2, <1>5 DEF Has, Rewrites, Saves, Same
<1>6. ASSUME NEW e \in Entry, Gains(e) PROVE Has(r)'
  <2>1. k \in DOMAIN toc' /\ toc'[k] = toc[k] /\ open'
    BY <1>1, <1>6, GainsKeeps, OpenedCovers DEF Gains
  <2>2. QED
    BY <1>2, <2>1 DEF Has
<1>7. CASE Compact
  <2>1. PICK f : Shrinks(f)
    BY <1>1, <1>7, CompactShrinks
  <2>2. CASE toc[k].deleted
    BY <1>1, <1>2, <1>7, <2>1, <2>2, ShrinksCopies
  <2>3. CASE ~toc[k].deleted
    <3>1. PICK x \in DOMAIN toc' : f[x] = k /\ toc'[x] = toc[f[x]]
      BY <1>2, <2>1, <2>3 DEF Shrinks, Places
    <3>2. QED
      BY <1>2, <2>1, <3>1 DEF Has, Shrinks
  <2>4. QED
    BY <2>2, <2>3
<1>8. QED
  BY BoxSteps, <1>3, <1>4, <1>5, <1>6, <1>7

LEMMA FaultSteps == ASSUME TypeInv, [Next]_vars PROVE faults' = faults \/ (Hit /\ ~Fetch)
<1>1. ~Hit \/ ~Fetch
  BY DEF Hit, Fetch, NoFault, TypeInv, Counts
<1>2. ASSUME ServerActs \/ UNCHANGED vars PROVE faults' = faults
  BY <1>2, ServerFrame DEF vars
<1>3. ASSUME NEW a \in Accts, SyncStart(a) PROVE faults' = faults
  BY <1>3 DEF SyncStart
<1>4. CASE GiveUp \/ SaveToc \/ Crash
  BY <1>1, <1>4 DEF GiveUp, SaveToc, Crash
<1>5. CASE Select \/ List \/ Fetch \/ Save \/ Compact
  BY <1>5 DEF Select, List, Fetch, Save, Compact, NoFault
<1>6. CASE FetchFails \/ SaveState \/ LoseConnection
  BY <1>1, <1>6 DEF FetchFails, SaveState, LoseConnection, Fault, NoFault
<1>7. ASSUME NEW m \in Local, Deliver(m) PROVE faults' = faults
  BY <1>7 DEF Deliver
<1>8. ASSUME NEW k \in DOMAIN toc, Delete(k) \/ Undelete(k) \/ Open(k) PROVE faults' = faults
  BY <1>8, FlagRewrites DEF Flagged, TypeInv, Tables
<1>9. QED
  BY Kinds, <1>2, <1>3, <1>4, <1>5, <1>6, <1>7, <1>8 DEF LocalActs, SyncStep

\* Only the bound grows, but for the fetch; a fault makes room for all.
LEMMA SlackSteps ==
    ASSUME TypeInv, [Next]_vars, NEW m \in Remote
    PROVE  /\ Copies(m) <= Bound(m) /\ ~(Fetch /\ m = Next1.msg) => Copies(m)' <= Bound(m)'
           /\ Slack(m) /\ ~(Fetch /\ m = Next1.msg) => Slack(m)'
           /\ Slack(m) => Copies(m)' <= Bound(m)'
           /\ Copies(m) <= Bound(m) /\ Hit => Slack(m)'
           /\ Copies(m) <= Bound(m) /\ epoch'[Home[m]] # epoch[Home[m]] => Slack(m)'
           /\ Copies(m) = 0 => Slack(m)
<1>1. /\ Copies(m) \in Nat /\ Copies(m)' \in Nat
      /\ Fetch /\ m = Next1.msg => Copies(m)' <= Copies(m) + 1
      /\ ~(Fetch /\ m = Next1.msg) => Copies(m)' <= Copies(m)
  BY CopiesSteps
<1>2. Home[m] \in Accts
  BY HomeAssumption
<1>3. /\ epoch[Home[m]] \in 1 .. MaxEpoch /\ epoch'[Home[m]] \in 1 .. MaxEpoch
      /\ faults \in Nat /\ faults' \in Nat
  BY <1>2, StepTypeInv DEF TypeInv, Inboxes, Counts
<1>4. epoch[Home[m]] <= epoch'[Home[m]]
  <2>1. CASE LocalActs \/ UNCHANGED vars
    BY <1>3, <2>1, LocalFrame DEF vars, remote
  <2>2. CASE ServerActs
    BY <1>2, <1>3, <2>2, ServerMoves DEF Goes, Anew, TypeInv
  <2>3. QED
    BY Kinds, <2>1, <2>2
<1>5. faults' = faults \/ (Hit /\ faults' = faults + 1)
  BY FaultSteps DEF Hit
<1>6. Hit => ~Fetch
  BY <1>3 DEF Hit, Fetch, NoFault
<1>8. epoch'[Home[m]] # epoch[Home[m]] => ~Fetch
  BY DEF Fetch, remote
<1>9. /\ Bound(m) \in Nat /\ Bound(m)' \in Nat /\ Bound(m) >= 1 /\ Bound(m) <= Bound(m)'
      /\ Hit \/ epoch'[Home[m]] # epoch[Home[m]] => Bound(m) < Bound(m)'
  <2>1. Bound(m) = faults + epoch[Home[m]] /\ Bound(m)' = faults' + epoch'[Home[m]]
    BY DEF Bound
  <2>2. QED
    BY <1>3, <1>4, <1>5, <2>1 DEF Hit
<1>10. (Slack(m) <=> Copies(m) < Bound(m)) /\ (Slack(m)' <=> Copies(m)' < Bound(m)')
  BY DEF Slack
<1>11. QED
  BY <1>1, <1>6, <1>8, <1>9, <1>10

LEMMA TodoShrinks == ASSUME TypeInv, Fetch PROVE ~UNCHANGED sync
<1>1. Next1 \in todo /\ todo' = todo \ {Next1}
  BY NextListed DEF Fetch, TypeInv
<1>2. QED
  BY <1>1 DEF sync

LEMMA StepPaid == TypeInv /\ Paid /\ [Next]_vars => Paid'
<1> SUFFICES ASSUME TypeInv, Paid, [Next]_vars PROVE Paid'
  OBVIOUS
<1>1. /\ \A m \in Remote : Copies(m) <= Bound(m)
      /\ Busy /\ ~up => \A m \in Remote : Slack(m)
      /\ up /\ pc = "fetch" => \A r \in todo : Slack(r.msg)
      /\ \A a \in Accts : \A r \in inbox[a] : Slack(r.msg) \/ Held(a, r)
  BY DEF Paid
<1>2. /\ \A r \in listing : r.msg \in Remote
      /\ \A r \in listing' : r.msg \in Remote
      /\ \A r \in todo : r \in listing
      /\ \A r \in todo' : r \in listing'
      /\ \A a \in Accts : \A r \in inbox[a] : r.msg \in Remote /\ r.uid \in Uids
      /\ \A a \in Accts : \A r \in inbox'[a] : r.msg \in Remote
  <2>1. Listing /\ Listing' /\ Inboxes /\ Inboxes'
    BY StepTypeInv DEF TypeInv
  <2>2. QED
    BY <2>1, ItemFields DEF Listing, Inboxes
<1>3. Fetch => Next1 \in todo /\ up /\ pc = "fetch"
  BY NextListed DEF Fetch, TypeInv
<1>4. \A m \in Remote :
         /\ Slack(m) /\ ~(Fetch /\ m = Next1.msg) => Slack(m)'
         /\ Hit => Slack(m)'
         /\ epoch'[Home[m]] # epoch[Home[m]] => Slack(m)'
         /\ Copies(m) = 0 => Slack(m)
  BY <1>1, SlackSteps
<1>5. \A m \in Remote : Copies(m)' <= Bound(m)'
  BY <1>1, <1>2, <1>3, SlackSteps
<1>6. CASE Hit
  BY <1>2, <1>4, <1>5, <1>6 DEF Paid
<1>7. ASSUME NEW r, Has(r), r.msg \in Remote, faults' = faults PROVE Has(r)' \/ Slack(r.msg)'
  <2>1. ~Crash
    BY <1>7 DEF Crash, Hit, TypeInv, Counts
  <2>2. ASSUME Copies(r.msg)' < Copies(r.msg), Compact PROVE Slack(r.msg)'
    <3>1. Copies(r.msg) <= Bound(r.msg) /\ Copies(r.msg) \in Nat /\ Copies(r.msg)' \in Nat
      BY <1>1, <1>7, CopiesSteps
    <3>2. Bound(r.msg)' = Bound(r.msg) /\ Bound(r.msg) \in Nat
      <4>1. epoch' = epoch
        BY <2>2 DEF Compact, remote
      <4>2. Home[r.msg] \in Accts
        BY <1>7, HomeAssumption
      <4>3. QED
        BY <1>7, <4>1, <4>2 DEF Bound, TypeInv, Inboxes, Counts
    <3>3. QED
      BY <2>2, <3>1, <3>2 DEF Slack
  <2>3. QED
    BY <1>7, <2>1, <2>2, HasSteps
<1>8. ASSUME UNCHANGED <<remote, sync, validity>>, faults' = faults, ~Fetch PROVE Paid'
  <2>1. UNCHANGED <<inbox, epoch, validity, pc, acct, up, local, server, todo>>
    BY <1>8 DEF remote, sync
  <2>2. \A a \in Accts : \A r \in inbox[a] : Slack(r.msg)' \/ Held(a, r)'
    BY <1>1, <1>2, <1>4, <1>7, <1>8, <2>1 DEF Held, LocalUids
  <2>3. QED
    BY <1>1, <1>2, <1>4, <1>5, <1>8, <2>1, <2>2 DEF Paid, Busy
<1>9. CASE ServerActs
  <2>1. UNCHANGED <<box, validity, sync, faults>>
    BY <1>9, ServerFrame
  <2>2. UNCHANGED <<open, toc, validity, pc, acct, up, local, server, todo>> /\ faults' = faults
    BY <2>1 DEF box, sync
  <2>3. ~Fetch
    BY <2>1, TodoShrinks
  <2>4. ASSUME NEW a \in Accts, NEW r \in inbox'[a] PROVE Slack(r.msg)' \/ Held(a, r)'
    <3>1. CASE Goes(a)
      <4>1. CASE \E s \in inbox[a] : s.uid = r.uid /\ s.msg = r.msg
        <5>1. PICK s \in inbox[a] : s.uid = r.uid /\ s.msg = r.msg
          BY <4>1
        <5>2. epoch'[a] = epoch[a]
          BY <3>1 DEF Goes
        <5>3. Slack(s.msg) \/ Held(a, s)
          BY <1>1
        <5>4. CASE Slack(s.msg)
          BY <1>2, <1>4, <2>3, <5>1, <5>4
        <5>5. CASE Held(a, s)
          BY <2>2, <5>1, <5>2, <5>5 DEF Held, Has, LocalUids
        <5>6. QED
          BY <5>3, <5>4, <5>5
      <4>2. CASE r.msg \notin arrived
        <5>1. \A k \in DOMAIN file : file[k] # r.msg
          BY <4>2 DEF TypeInv, Tables
        <5>2. {k \in DOMAIN file : file[k] = r.msg} = {}
          BY <5>1
        <5>3. Copies(r.msg) = 0
          BY <5>2, FS_EmptySet DEF Copies
        <5>4. QED
          BY <1>2, <1>4, <2>3, <5>3
      <4>3. QED
        BY <3>1, <4>1, <4>2 DEF Goes
    <3>2. CASE Anew(a)
      <4>1. Home[r.msg] = a /\ epoch'[a] # epoch[a]
        <5>1. r.msg \in Came(a)' /\ epoch[a] \in Nat /\ epoch'[a] \in Nat
          BY StepTypeInv DEF TypeInv, Inboxes
        <5>2. QED
          BY <3>2, <5>1 DEF Anew, Came
      <4>2. QED
        BY <1>2, <1>4, <4>1
    <3>3. QED
      BY <1>9, <3>1, <3>2, ServerMoves DEF TypeInv
  <2>5. QED
    BY <1>1, <1>2, <1>4, <1>5, <2>2, <2>3, <2>4 DEF Paid, Busy
<1>10. ASSUME NEW b \in Accts, SyncStart(b) PROVE Paid'
  <2>1. /\ pc = "idle" /\ pc' = "select" /\ acct' = b /\ up' = TRUE
        /\ UNCHANGED <<inbox, epoch, validity>> /\ faults' = faults
    BY <1>10 DEF SyncStart, remote
  <2>2. ~Fetch
    BY <2>1 DEF Fetch
  <2>3. ASSUME NEW a \in Accts, NEW r \in inbox[a], Held(a, r) PROVE Slack(r.msg)' \/ Held(a, r)'
    <3>1. CASE Has(r)'
      <4>1. PICK k \in DOMAIN toc' : toc'[k].uid = r.uid
        BY <3>1 DEF Has
      <4>2. toc'[k].uid # 0
        BY <1>2, <4>1 DEF Uids
      <4>3. PICK f : Places(f, local', toc', {j \in DOMAIN toc' : toc'[j].uid # 0})
        BY <1>10, StartLists DEF TypeInv
      <4>4. PICK x \in DOMAIN local' : f[x] = k /\ local'[x] = toc'[f[x]]
        BY <4>2, <4>3 DEF Places
      <4>5. r.uid \in LocalUids'
        BY <4>1, <4>4 DEF LocalUids, ToSet
      <4>6. QED
        BY <2>1, <2>3, <3>1, <4>5 DEF Held
    <3>2. QED
      BY <1>2, <1>7, <2>1, <2>3, <3>1 DEF Held
  <2>4. QED
    BY <1>1, <1>2, <1>4, <1>5, <2>1, <2>2, <2>3 DEF Paid, Busy
<1>11. ASSUME GiveUp \/ SaveToc, faults' = faults PROVE Paid'
  <2>1. /\ pc # "fetch" /\ pc' = "idle" /\ up' = FALSE
        /\ UNCHANGED <<inbox, epoch, validity>>
    BY <1>11 DEF GiveUp, SaveToc, Return, remote
  <2>2. ~Fetch
    BY <2>1 DEF Fetch
  <2>3. ASSUME NEW a \in Accts, NEW r \in inbox[a], Held(a, r) PROVE Slack(r.msg)' \/ Held(a, r)'
    BY <1>2, <1>7, <1>11, <2>1, <2>3 DEF Held
  <2>4. QED
    BY <1>1, <1>2, <1>4, <1>5, <2>1, <2>2, <2>3 DEF Paid, Busy
<1>12. CASE Select
  <2>1. /\ pc = "select" /\ pc' \in {"list", "fetch"} /\ up /\ up'
        /\ UNCHANGED <<inbox, epoch, validity, acct, local, todo>> /\ faults' = faults
    BY <1>12 DEF Select, remote, NoFault
  <2>2. ~Fetch /\ todo' = {}
    BY <2>1 DEF Fetch, TypeInv, Listing
  <2>3. ASSUME NEW a \in Accts, NEW r \in inbox[a], Held(a, r) PROVE Slack(r.msg)' \/ Held(a, r)'
    BY <1>2, <1>7, <2>1, <2>3 DEF Held, LocalUids
  <2>4. QED
    BY <1>1, <1>2, <1>4, <1>5, <2>1, <2>2, <2>3 DEF Paid, Busy
<1>13. CASE List
  <2>1. /\ pc = "list" /\ pc' = "fetch" /\ up /\ up'
        /\ UNCHANGED <<inbox, epoch, validity, acct, local, server>> /\ faults' = faults
        /\ todo' = IF Resync THEN inbox[acct] ELSE New(inbox[acct])
    BY <1>13 DEF List, remote, NoFault
  <2>2. ~Fetch /\ acct \in Accts /\ server = epoch[acct]
    BY <2>1 DEF Fetch, TypeInv, Control
  <2>3. ASSUME NEW a \in Accts, NEW r \in inbox[a], Held(a, r) PROVE Slack(r.msg)' \/ Held(a, r)'
    BY <1>2, <1>7, <2>1, <2>3 DEF Held
  <2>4. ASSUME NEW r \in todo' PROVE Slack(r.msg)'
    <3>1. r \in inbox[acct]
      BY <2>1 DEF New
    <3>2. ~Held(acct, r)
      <4>1. CASE Resync
        BY <2>1, <2>2, <4>1 DEF Resync, Held
      <4>2. CASE ~Resync
        BY <2>1, <4>2 DEF New, Held
      <4>3. QED
        BY <4>1, <4>2
    <3>3. QED
      BY <1>1, <1>2, <1>4, <2>2, <3>1, <3>2
  <2>5. QED
    BY <1>1, <1>2, <1>4, <1>5, <2>1, <2>2, <2>3, <2>4 DEF Paid, Busy
<1>14. CASE Fetch
  <2>1. /\ pc = "fetch" /\ up /\ Next1 \in todo /\ Next1 \in listing /\ todo' = todo \ {Next1}
        /\ UNCHANGED <<inbox, epoch, validity, pc, acct, up, local, server>>
        /\ faults' = faults
    BY <1>3, <1>2, <1>14 DEF Fetch, remote, NoFault
  <2>2. acct \in Accts /\ server = epoch[acct]
    BY <2>1 DEF TypeInv, Control
  <2>3. ASSUME NEW r \in todo' PROVE Slack(r.msg)'
    <3>1. r \in todo /\ r \in listing /\ r # Next1
      BY <1>2, <2>1
    <3>2. r.msg # Next1.msg
      BY <2>1, <3>1 DEF TypeInv, Listing
    <3>3. QED
      BY <1>1, <1>2, <1>4, <2>1, <3>1, <3>2
  <2>4. ASSUME NEW a \in Accts, NEW r \in inbox[a] PROVE Slack(r.msg)' \/ Held(a, r)'
    <3>1. CASE r.msg = Next1.msg
      <4>1. Next1.msg \in Came(acct) /\ r.msg \in Came(a)
        BY <2>1 DEF TypeInv, Listing, Inboxes
      <4>2. a = acct
        BY <3>1, <4>1 DEF Came
      <4>3. r.uid = Next1.uid
        BY <2>1, <3>1, <4>2 DEF TypeInv, Listing
      <4>4. PICK e \in Entry : Gains(e) /\ e.msg = Next1.msg /\ e.uid = Next1.uid
        BY <1>14, FetchGains
      <4>5. toc'[Len(file) + 1] = e /\ Len(file) + 1 \in DOMAIN toc' /\ open'
        BY <4>4, GainsKeeps DEF TypeInv, Gains
      <4>6. Has(r)'
        BY <3>1, <4>3, <4>4, <4>5 DEF Has
      <4>7. QED
        BY <2>1, <2>2, <4>2, <4>6 DEF Held
    <3>2. CASE r.msg # Next1.msg
      <4>1. CASE Slack(r.msg)
        BY <1>2, <1>4, <3>2, <4>1
      <4>2. CASE Held(a, r)
        BY <1>2, <1>7, <2>1, <4>2 DEF Held, LocalUids
      <4>3. QED
        BY <1>1, <4>1, <4>2
    <3>3. QED
      BY <3>1, <3>2
  <2>5. QED
    BY <1>5, <2>1, <2>3, <2>4 DEF Paid, Busy
<1>15. ASSUME FetchFails, faults' = faults PROVE Paid'
  <2>1. /\ todo' \subseteq todo
        /\ UNCHANGED <<inbox, epoch, validity, pc, acct, up, local, server, open, toc>>
    BY <1>15 DEF FetchFails, remote, box
  <2>2. ~Fetch
    <3>1. Fetch => \E e \in Entry : Gains(e)
      BY FetchGains
    <3>2. file' = file
      BY <1>15 DEF FetchFails, box
    <3>3. QED
      BY <3>1, <3>2, GainsKeeps DEF TypeInv
  <2>3. ASSUME NEW a \in Accts, NEW r \in inbox[a], Held(a, r) PROVE Held(a, r)'
    BY <2>1, <2>3 DEF Held, Has, LocalUids
  <2>4. QED
    BY <1>1, <1>2, <1>4, <1>5, <2>1, <2>2, <2>3 DEF Paid, Busy
<1>16. ASSUME SaveState, faults' = faults PROVE Paid'
  <2>1. /\ pc = "fetch" /\ pc' = "save" /\ UNCHANGED <<inbox, epoch, acct, up>>
        /\ validity' = [validity EXCEPT ![acct] = server]
    BY <1>16 DEF SaveState, remote, Fault, Hit, TypeInv, Counts
  <2>2. acct \in Accts /\ (up => server = epoch[acct]) /\ validity \in [Accts -> 0 .. MaxEpoch]
    BY <2>1 DEF TypeInv, Control
  <2>3. ~Fetch
    BY <1>16, <2>1 DEF Fetch
  <2>4. CASE ~up
    BY <1>1, <1>2, <1>4, <1>5, <2>1, <2>3, <2>4 DEF Paid, Busy
  <2>5. CASE up
    <3>1. ASSUME NEW a \in Accts, NEW r \in inbox[a], Held(a, r) PROVE Slack(r.msg)' \/ Held(a, r)'
      BY <1>2, <1>7, <1>16, <2>1, <2>2, <2>5, <3>1 DEF Held
    <3>2. QED
      BY <1>1, <1>2, <1>4, <1>5, <2>1, <2>3, <2>5, <3>1 DEF Paid, Busy
  <2>6. QED
    BY <2>4, <2>5 DEF TypeInv, Control
<1>17. CASE LoseConnection \/ Crash
  BY <1>6, <1>17 DEF LoseConnection, Crash, Fault
<1>18. CASE Save \/ Compact
  <2>1. UNCHANGED <<remote, sync, validity>> /\ faults' = faults
    BY <1>18 DEF Save, Compact, NoFault
  <2>2. ~Fetch
    BY <2>1, TodoShrinks
  <2>3. QED
    BY <1>8, <2>1, <2>2
<1>19. ASSUME NEW m \in Local, Deliver(m) PROVE Paid'
  <2>1. UNCHANGED <<remote, sync, validity>> /\ faults' = faults
    BY <1>19 DEF Deliver
  <2>2. QED
    BY <1>8, <2>1, TodoShrinks
<1>20. ASSUME NEW k \in DOMAIN toc, Delete(k) \/ Undelete(k) \/ Open(k) PROVE Paid'
  <2>1. UNCHANGED <<remote, sync, validity>> /\ faults' = faults
    BY <1>20, FlagRewrites DEF Flagged, TypeInv, Tables
  <2>2. QED
    BY <1>8, <2>1, TodoShrinks
<1>21. CASE UNCHANGED vars
  <2>1. UNCHANGED <<remote, sync, validity>> /\ faults' = faults
    BY <1>21 DEF vars
  <2>2. QED
    BY <1>8, <2>1, TodoShrinks
<1>22. faults' = faults \/ Hit
  BY FaultSteps
<1>23. QED
  BY Kinds, <1>6, <1>9, <1>10, <1>11, <1>12, <1>13, <1>14, <1>15, <1>16, <1>17, <1>18, <1>19,
     <1>20, <1>21, <1>22 DEF LocalActs, SyncStep

LEMMA InitPaid == Init => Paid
<1> SUFFICES ASSUME Init PROVE Paid
  OBVIOUS
<1>1. /\ file = <<>> /\ pc = "idle" /\ up = FALSE /\ faults = 0
      /\ \A a \in Accts : inbox[a] = {} /\ epoch[a] = 1
  BY DEF Init
<1>2. ASSUME NEW m \in Remote PROVE Copies(m) <= Bound(m)
  <2>1. {k \in DOMAIN file : file[k] = m} = {}
    BY <1>1
  <2>2. Copies(m) = 0
    BY <2>1, FS_EmptySet DEF Copies
  <2>3. QED
    BY <1>1, <2>2, HomeAssumption DEF Bound
<1>3. QED
  BY <1>1, <1>2 DEF Paid, Busy

\* A message of a server is in In once, and once more for each crash, broken
\* connection and failed write there was, and for each time its INBOX was made
\* anew: a sync that goes well never fetches what In already has
\* (merge_uid_lists, and the uid_hash of macmbx_append_message).
THEOREM FetchedOnce == Spec => []RefetchNeedsCause
<1>1. Init => TypeInv /\ Paid
  BY InitTypeInv, InitPaid
<1>2. TypeInv /\ Paid /\ [Next]_vars => (TypeInv /\ Paid)'
  BY StepTypeInv, StepPaid
<1>3. Paid => RefetchNeedsCause
  BY DEF Paid, RefetchNeedsCause, Bound
<1>4. QED
  BY <1>1, <1>2, <1>3, PTL DEF Spec

-----------------------------------------------------------------------------
(* What a sync takes away                                                  *)

\* A sync that goes on keeps what it knows, and what the user touched.
LEMMA SyncSteps ==
    ASSUME TypeInv, [Next]_vars
    PROVE  \/ \E a \in Accts : SyncStart(a)
           \/ pc' = "idle"
           \/ Select \/ List \/ SaveState
           \/ UNCHANGED <<pc, acct, local, server, listing>>
<1>1. ASSUME ServerActs \/ UNCHANGED vars PROVE UNCHANGED <<pc, acct, local, server, listing>>
  BY <1>1, ServerFrame DEF vars, sync
<1>2. CASE GiveUp \/ SaveToc \/ Crash
  BY <1>2 DEF GiveUp, SaveToc, Crash, Return
<1>3. CASE Fetch \/ FetchFails \/ LoseConnection
  BY <1>3 DEF Fetch, FetchFails, LoseConnection
<1>4. CASE Save \/ Compact
  BY <1>4 DEF Save, Compact, sync
<1>5. ASSUME NEW m \in Local, Deliver(m) PROVE UNCHANGED <<pc, acct, local, server, listing>>
  BY <1>5 DEF Deliver, sync
<1>6. ASSUME NEW k \in DOMAIN toc, Delete(k) \/ Undelete(k) \/ Open(k)
      PROVE  UNCHANGED <<pc, acct, local, server, listing>>
  <2>1. UNCHANGED sync
    BY <1>6, FlagRewrites DEF Flagged, TypeInv, Tables
  <2>2. QED
    BY <2>1 DEF sync
<1>7. QED
  BY Kinds, <1>1, <1>2, <1>3, <1>4, <1>5, <1>6 DEF LocalActs, SyncStep

LEMMA TouchedStays == ASSUME TypeInv, [Next]_vars PROVE pc' = "idle" \/ touched \subseteq touched'
<1>1. ASSUME ServerActs \/ UNCHANGED vars PROVE touched' = touched
  BY <1>1, ServerFrame DEF vars
<1>2. CASE GiveUp \/ SaveToc \/ Crash
  BY <1>2 DEF GiveUp, SaveToc, Crash, Return
<1>3. CASE Select \/ List \/ Fetch \/ FetchFails \/ SaveState \/ LoseConnection
  BY <1>3 DEF Select, List, Fetch, FetchFails, SaveState, LoseConnection
<1>4. CASE Save
  BY <1>4 DEF Save
<1>5. CASE Compact
  BY <1>5, CompactShrinks DEF TypeInv, Shrinks
<1>6. ASSUME NEW a \in Accts, SyncStart(a) PROVE touched' = touched
  BY <1>6 DEF SyncStart
<1>7. ASSUME NEW m \in Local, Deliver(m) PROVE touched' = touched
  BY <1>7 DEF Deliver
<1>8. ASSUME NEW k \in DOMAIN toc, Delete(k) \/ Undelete(k) \/ Open(k) PROVE touched \subseteq touched'
  BY <1>8, FlagRewrites DEF Flagged, TypeInv, Tables
<1>9. QED
  BY Kinds, <1>1, <1>2, <1>3, <1>4, <1>5, <1>6, <1>7, <1>8 DEF LocalActs, SyncStep

\* Until the merge, the summaries of In are those that the sync collected.
LEMMA StepCarried == TypeInv /\ Origins /\ Carried /\ [Next]_vars => Carried'
<1> SUFFICES ASSUME TypeInv, Origins, Carried, [Next]_vars, pc' \in {"select", "list"}
             PROVE  /\ \A k \in DOMAIN toc' : toc'[k].uid # 0 => \E j \in DOMAIN local' : Same(local'[j], toc'[k])
                    /\ \A u \in LocalUids' : Twice(toc', u) => Twice(local', u)
                    /\ \A j \in DOMAIN local' :
                          local'[j].msg \in touched' \/ \E k \in DOMAIN toc' : Same(local'[j], toc'[k])
  BY DEF Carried, Twice, Same
<1> DEFINE Collected(t, l, d) ==
             /\ \A k \in DOMAIN t : t[k].uid # 0 => \E j \in DOMAIN l : Same(l[j], t[k])
             /\ \A u \in {e.uid : e \in ToSet(l)} : Twice(t, u) => Twice(l, u)
             /\ \A j \in DOMAIN l : l[j].msg \in d \/ \E k \in DOMAIN t : Same(l[j], t[k])
<1> SUFFICES Collected(toc', local', touched')
  BY DEF LocalUids
<1>1. ASSUME pc \in {"select", "list"} PROVE Collected(toc, local, touched)
  BY <1>1 DEF Carried, LocalUids, Twice
<1>2. ASSUME NEW a \in Accts, SyncStart(a) PROVE Collected(toc', local', touched')
  <2>1. PICK f : Places(f, local', toc', {k \in DOMAIN toc' : toc'[k].uid # 0})
    BY <1>2, StartLists DEF TypeInv
  <2>2. /\ \A j \in DOMAIN local' : f[j] \in DOMAIN toc' /\ local'[j] = toc'[f[j]] /\ local'[j].uid # 0
        /\ \A k \in DOMAIN toc' : toc'[k].uid # 0 => \E j \in DOMAIN local' : f[j] = k
    BY <2>1 DEF Places
  <2>3. \A u \in {e.uid : e \in ToSet(local')} : u # 0
    BY <2>2 DEF ToSet
  <2>4. \A u : u # 0 /\ Twice(toc', u) => Twice(local', u)
    BY <2>2 DEF Twice
  <2>5. QED
    BY <2>2, <2>3, <2>4 DEF Same
<1>3. CASE Select
  <2>1. pc = "select" /\ local' = local /\ touched' = touched /\ toc' = toc
    BY <1>3 DEF Select
  <2>2. QED
    BY <1>1, <2>1
<1>4. CASE List \/ SaveState
  BY <1>4 DEF List, SaveState
<1>5. ASSUME UNCHANGED <<pc, acct, local, server, listing>> PROVE Collected(toc', local', touched')
  <2>1. /\ pc \in {"select", "list"} /\ local' = local /\ open /\ Busy
        /\ \A u \in {e.uid : e \in ToSet(local)} : u # 0
    BY <1>5 DEF Origins, LocalUids, TypeInv, Control, Busy
  <2>2. Collected(toc, local, touched) /\ touched \subseteq touched'
    BY <1>1, <2>1, TouchedStays
  <2>3. CASE UNCHANGED box
    BY <2>1, <2>2, <2>3 DEF box
  <2>4. CASE Rewrites
    <3>1. \A u : Twice(toc', u) => Twice(toc, u)
      BY <2>4 DEF Rewrites, Twice, Same
    <3>2. QED
      BY <2>1, <2>2, <2>4, <3>1 DEF Rewrites, Same
  <2>5. CASE Saves
    BY <2>1, <2>2, <2>5 DEF Saves
  <2>6. ASSUME NEW m \in Local, Deliver(m) PROVE Collected(toc', local', touched')
    <3>1. PICK e \in Entry : Gains(e) /\ e.uid = 0
      BY <2>6, DeliverGains
    <3>2. /\ DOMAIN toc' = DOMAIN toc \cup {Len(file) + 1} /\ toc'[Len(file) + 1].uid = 0
          /\ \A k \in DOMAIN toc : toc'[k] = toc[k]
      BY <2>1, <3>1, GainsKeeps, OpenedCovers DEF TypeInv
    <3>3. \A u \in {d.uid : d \in ToSet(local)} : Twice(toc', u) => Twice(toc, u)
      BY <2>1, <3>2 DEF Twice
    <3>4. QED
      BY <2>1, <2>2, <3>2, <3>3
  <2>7. CASE Compact
    <3>1. PICK f : Shrinks(f)
      BY <2>7, CompactShrinks DEF TypeInv
    <3>2. /\ \A x \in DOMAIN toc' : f[x] \in DOMAIN toc /\ toc'[x] = toc[f[x]]
          /\ \A k \in DOMAIN toc : toc[k].deleted \/ \E x \in DOMAIN toc' : f[x] = k
          /\ \A x, y \in DOMAIN toc' : x < y => f[x] < f[y]
          /\ toc \in Seq(Entry) /\ toc' \in Seq(Entry)
          /\ \A k \in DOMAIN toc : toc[k].deleted => toc[k].msg \in touched'
      BY <2>1, <3>1 DEF Shrinks, Places
    <3>3. \A x, y \in DOMAIN toc' : x # y => f[x] # f[y]
      BY <3>2
    <3>4. \A u : Twice(toc', u) => Twice(toc, u)
      BY <3>2, <3>3 DEF Twice
    <3>5. \A j \in DOMAIN local : local[j].msg \in touched' \/ \E x \in DOMAIN toc' : Same(local[j], toc'[x])
      <4> SUFFICES ASSUME NEW j \in DOMAIN local, local[j].msg \notin touched'
                   PROVE  \E x \in DOMAIN toc' : Same(local[j], toc'[x])
        OBVIOUS
      <4>1. PICK k \in DOMAIN toc : Same(local[j], toc[k])
        BY <2>2
      <4>2. ~toc[k].deleted
        BY <3>2, <4>1 DEF Same
      <4>3. PICK x \in DOMAIN toc' : f[x] = k
        BY <3>2, <4>2
      <4>4. toc'[x] = toc[k]
        BY <3>2, <4>3
      <4>5. QED
        BY <4>1, <4>3, <4>4
    <3>6. QED
      BY <2>1, <2>2, <3>2, <3>4, <3>5
  <2>8. CASE Fetch \/ Crash
    BY <2>1, <2>8 DEF Fetch, Crash, Return, Busy
  <2>9. ASSUME NEW a \in Accts, SyncStart(a) PROVE FALSE
    BY <2>1, <2>9 DEF SyncStart
  <2>10. QED
    BY BoxSteps, <2>3, <2>4, <2>5, <2>6, <2>7, <2>8, <2>9
<1>6. QED
  BY SyncSteps, <1>2, <1>3, <1>4, <1>5

\* find_toc_index_by_uid finds the first summary with the UID.
LEMMA FirstFound ==
    ASSUME toc \in Seq(Entry), NEW k \in DOMAIN toc
    PROVE  /\ First(toc[k].uid) \in DOMAIN toc /\ toc[First(toc[k].uid)].uid = toc[k].uid
           /\ First(toc[k].uid) = k \/ Twice(toc, toc[k].uid)
<1> DEFINE u == toc[k].uid
           K == {j \in DOMAIN toc : toc[j].uid = u}
<1>1. K \subseteq 1 .. Len(toc) /\ K # {} /\ Len(toc) \in Nat /\ DOMAIN toc = 1 .. Len(toc)
  OBVIOUS
<1>2. PICK j \in K : \A i \in K : j <= i
  BY <1>1, Least
<1>3. j \in DOMAIN toc /\ toc[j].uid = u
  OBVIOUS
<1>4. \A i \in 1 .. j - 1 : toc[i].uid # u
  <2> SUFFICES ASSUME NEW i \in 1 .. j - 1, toc[i].uid = u PROVE FALSE
    OBVIOUS
  <2>1. i \in K
    BY <1>1, <1>3
  <2>2. QED
    BY <1>1, <1>2, <2>1
<1>5. First(u) \in DOMAIN toc /\ toc[First(u)].uid = u
  BY <1>3, <1>4 DEF First
<1>6. QED
  BY <1>5 DEF Twice

\* What a step may do to the table while a sync fetches or saves.
LEMMA SyncTable ==
    ASSUME [Next]_vars, pc \in {"fetch", "save"}, pc' # "idle"
    PROVE  \/ UNCHANGED toc \/ SaveState \/ Fetch \/ Compact
           \/ \E m \in Local : Deliver(m)
           \/ \E i \in DOMAIN toc : Flagged(i)
<1>1. ASSUME ServerActs \/ UNCHANGED vars PROVE UNCHANGED toc
  BY <1>1, ServerFrame DEF vars, box
<1>2. CASE FetchFails \/ LoseConnection \/ Save \/ SaveToc \/ GiveUp
  BY <1>2 DEF FetchFails, LoseConnection, Save, SaveToc, GiveUp, box
<1>3. ~(Crash \/ Select \/ List)
  BY DEF Crash, Return, Select, List
<1>4. ASSUME NEW a \in Accts, SyncStart(a) PROVE FALSE
  BY <1>4 DEF SyncStart
<1>5. QED
  BY Kinds, <1>1, <1>2, <1>3, <1>4 DEF LocalActs, SyncStep, Flagged

\* Every summary left live is of a message the server has, or the sync could
\* not tell whose it is.
LEMMA StepAccounted == TypeInv /\ Carried /\ Accounted /\ [Next]_vars => Accounted'
<1> SUFFICES ASSUME TypeInv, Carried, Accounted, [Next]_vars, pc' \in {"fetch", "save"},
                    NEW k \in DOMAIN toc', NEW e, e = toc'[k]
             PROVE  Explained(e)'
  BY DEF Accounted
<1>1. toc \in Seq(Entry) /\ (pc \in {"fetch", "save"} => \A j \in DOMAIN toc : Explained(toc[j]))
  BY DEF Accounted, TypeInv, Tables
<1>2. ASSUME toc' = Marked(WithUid) PROVE Explained(e)'
  <2>1. k \in DOMAIN toc /\ (k \in WithUid => e.deleted) /\ e.uid = toc[k].uid
    BY <1>1, <1>2, MarkedKeeps DEF Same
  <2>2. QED
    BY <2>1 DEF WithUid, Explained
<1>3. ASSUME Select PROVE Explained(e)'
  BY <1>2, <1>3 DEF Select, Emptied
<1>4. ASSUME List, ~Resync PROVE Explained(e)'
  <2> DEFINE merged == {j \in DOMAIN toc : toc[j].uid \in Gone(listing') /\ j = First(toc[j].uid)}
  <2>1. pc = "list" /\ toc' = Marked(merged) /\ UNCHANGED <<acct, local, server>>
    BY <1>4 DEF List
  <2>2. k \in DOMAIN toc /\ (k \in merged => e.deleted) /\ e.uid = toc[k].uid
    BY <1>1, <2>1, MarkedKeeps DEF Same
  <2>3. CASE e.uid = 0 \/ k \in merged \/ \E r \in listing' : r.uid = e.uid
    BY <2>2, <2>3 DEF Explained
  <2>4. CASE e.uid # 0 /\ k \notin merged /\ \A r \in listing' : r.uid # e.uid
    <3>1. PICK u : u = e.uid /\ u = toc[k].uid
      BY <2>2
    <3>2. PICK j \in DOMAIN local : local[j].uid = u
      BY <2>1, <2>2, <2>4, <3>1 DEF Carried, Same
    <3>3. u \in LocalUids
      BY <3>2 DEF LocalUids, ToSet
    <3>4. u \in Gone(listing')
      BY <2>4, <3>1, <3>3 DEF Gone
    <3>5. k # First(u)
      BY <2>2, <2>4, <3>1, <3>4
    <3>6. Twice(toc, u)
      BY <1>1, <2>2, <3>1, <3>5, FirstFound
    <3>7. Twice(local, u)
      BY <2>1, <3>3, <3>6 DEF Carried
    <3>8. Ambiguous(u)'
      BY <2>1, <3>7 DEF Ambiguous, Twice
    <3>9. QED
      BY <3>1, <3>8 DEF Explained
  <2>5. QED
    BY <2>3, <2>4
<1>5. ASSUME List PROVE Explained(e)'
  BY <1>2, <1>4, <1>5 DEF List, Emptied
<1>6. ASSUME pc \in {"fetch", "save"}, UNCHANGED <<acct, local, server, listing>>
      PROVE  Explained(e)'
  <2>1. Busy /\ open /\ touched \subseteq touched'
    BY <1>6, TouchedStays DEF Busy, TypeInv, Control
  <2>2. \A u : Ambiguous(u) => Ambiguous(u)'
    BY <1>6 DEF Ambiguous
  <2>3. ASSUME NEW j \in DOMAIN toc, e.msg = toc[j].msg, e.uid = toc[j].uid, e.deleted = toc[j].deleted
        PROVE  Explained(e)'
    <3>1. Explained(toc[j])
      BY <1>1, <1>6
    <3>2. Explained(e)
      BY <2>3, <3>1 DEF Explained
    <3>3. QED
      BY <1>6, <2>1, <2>2, <3>2 DEF Explained
  <2>4. ASSUME UNCHANGED toc PROVE Explained(e)'
    BY <2>3, <2>4
  <2>5. ASSUME NEW i \in DOMAIN toc, Flagged(i) PROVE Explained(e)'
    <3>1. /\ Rewrites /\ \A j \in DOMAIN toc \ {i} : toc'[j] = toc[j]
          /\ toc[i].msg \in touched'
      BY <1>1, <2>1, <2>5, FlagRewrites
    <3>2. CASE k = i
      BY <3>1, <3>2 DEF Rewrites, Same, Explained
    <3>3. CASE k # i
      BY <2>3, <3>1, <3>3 DEF Rewrites
    <3>4. QED
      BY <3>2, <3>3
  <2>6. ASSUME SaveState PROVE Explained(e)'
    <3>1. toc' = Updated /\ listing \subseteq Item
      BY <2>6 DEF SaveState, TypeInv, Listing
    <3>2. k \in DOMAIN toc /\ Same(e, toc[k]) /\ e.deleted = toc[k].deleted
      BY <1>1, <3>1, UpdatedKeeps
    <3>3. QED
      BY <2>3, <3>2 DEF Same
  <2>7. ASSUME NEW d \in Entry, Gains(d), d.uid = 0 \/ \E r \in listing : r.uid = d.uid
        PROVE  Explained(e)'
    <3>1. /\ DOMAIN toc' = DOMAIN toc \cup {Len(file) + 1} /\ toc'[Len(file) + 1] = d
          /\ \A j \in DOMAIN toc : toc'[j] = toc[j]
      BY <2>1, <2>7, GainsKeeps, OpenedCovers DEF TypeInv
    <3>2. CASE e = d
      BY <1>6, <2>7, <3>2 DEF Explained
    <3>3. CASE k \in DOMAIN toc
      BY <2>3, <3>1, <3>3
    <3>4. QED
      BY <3>1, <3>2, <3>3
  <2>8. ASSUME Fetch PROVE Explained(e)'
    <3>1. Next1 \in listing
      BY <2>8, NextListed DEF Fetch, TypeInv
    <3>2. QED
      BY <2>7, <2>8, <3>1, FetchGains
  <2>9. ASSUME NEW m \in Local, Deliver(m) PROVE Explained(e)'
    BY <2>7, <2>9, DeliverGains
  <2>10. ASSUME Compact PROVE Explained(e)'
    <3>1. PICK f : Shrinks(f)
      BY <2>10, CompactShrinks DEF TypeInv
    <3>2. f[k] \in DOMAIN toc /\ e = toc[f[k]]
      BY <3>1 DEF Shrinks, Places
    <3>3. QED
      BY <2>3, <3>2
  <2>11. UNCHANGED toc \/ SaveState \/ Fetch \/ Compact
         \/ (\E m \in Local : Deliver(m)) \/ \E i \in DOMAIN toc : Flagged(i)
    BY <1>6, SyncTable
  <2>12. QED
    BY <2>4, <2>5, <2>6, <2>8, <2>9, <2>10, <2>11
<1>7. ASSUME SaveState PROVE Explained(e)'
  BY <1>6, <1>7 DEF SaveState
<1>8. QED
  BY SyncSteps, <1>3, <1>5, <1>6, <1>7 DEF SyncStart

\* After a sync in which nothing went wrong, no live message of In has a UID
\* that the server did not list, unless the user touched it meanwhile or
\* several summaries of In bore that UID, whatever other mail came, was
\* compacted or was saved during it (merge_uid_lists, find_toc_index_by_uid).
THEOREM ExpungedTaken == Spec => ExpungedGo
<1> DEFINE Inv  == TypeInv /\ Origins /\ Carried /\ Accounted
           Kind == CleanEnd => \A k \in DOMAIN toc :
                     \/ toc[k].deleted \/ toc[k].uid = 0 \/ toc[k].msg \in touched \/ Ambiguous(toc[k].uid)
                     \/ \E r \in listing : r.uid = toc[k].uid
<1>1. Init => Inv
  BY InitTypeInv, InitOrigins DEF Init, Carried, Accounted
<1>2. Inv /\ [Next]_vars => Inv'
  BY StepTypeInv, StepOrigins, StepCarried, StepAccounted
<1>3. Inv => Kind
  BY DEF Accounted, Explained, CleanEnd
<1> HIDE DEF Inv
<1>4. Inv /\ [Next]_vars => [Kind]_vars
  BY <1>3
<1>5. QED
  BY <1>1, <1>2, <1>4, PTL DEF Spec, ExpungedGo

-----------------------------------------------------------------------------
(* What In knows of the server                                             *)

LEMMA BinnedStays == ASSUME TypeInv, [Next]_vars PROVE binned \subseteq binned'
<1>1. ASSUME ServerActs \/ UNCHANGED vars PROVE binned' = binned
  BY <1>1, ServerFrame DEF vars, hist
<1>2. ASSUME NEW a \in Accts, SyncStart(a) PROVE binned' = binned
  BY <1>2 DEF SyncStart
<1>3. ASSUME NEW m \in Local, Deliver(m) PROVE binned' = binned
  BY <1>3 DEF Deliver
<1>4. CASE GiveUp \/ Fetch \/ FetchFails \/ SaveState \/ SaveToc
  BY <1>4 DEF GiveUp, Fetch, FetchFails, SaveState, SaveToc, hist
<1>5. CASE Select
  BY <1>5 DEF Select
<1>6. CASE List
  BY <1>6 DEF List
<1>7. CASE LoseConnection \/ Crash \/ Save \/ Compact
  BY <1>7 DEF LoseConnection, Crash, Save, Compact, hist
<1>8. ASSUME NEW k \in DOMAIN toc, Delete(k) \/ Undelete(k) \/ Open(k) PROVE binned \subseteq binned'
  BY <1>8, FlagRewrites DEF Flagged, TypeInv, Tables
<1>9. QED
  BY Kinds, <1>1, <1>2, <1>3, <1>4, <1>5, <1>6, <1>7, <1>8 DEF LocalActs, SyncStep

\* What is known of a summary stays true whatever the server does: a UID is
\* given once in a UIDVALIDITY, and another UIDVALIDITY is a greater one.
LEMMA KnownStays ==
    ASSUME TypeInv, [Next]_vars, NEW e \in Entry, Known(e)
    PROVE  Known(e)' /\ (Live(e) => Live(e)') /\ (Current(e)' => Current(e))
<1>1. CASE UNCHANGED remote
  <2>1. UNCHANGED <<inbox, next, epoch>> /\ binned \subseteq binned'
    BY <1>1, BinnedStays DEF remote
  <2>2. QED
    BY <2>1 DEF Known, Live, Current
<1>2. CASE ServerActs
  <2>1. binned' = binned /\ e.from \in Accts \cup {0} /\ e.epoch \in Nat
    BY <1>2, ServerFrame, EntryFields DEF hist
  <2>2. CASE e.from = 0
    BY <2>2 DEF Known, Live, Current
  <2>3. CASE e.from \in Accts /\ e.from # 0
    <3>1. PICK a \in Accts : a = e.from
      BY <2>3
    <3>2. /\ epoch[a] \in Nat /\ epoch'[a] \in Nat /\ next[a] \in Nat /\ next'[a] \in Nat
          /\ \A r \in inbox'[a] : r.uid \in Nat
      BY StepTypeInv, ItemFields DEF TypeInv, Inboxes, Uids
    <3>3. CASE Anew(a)
      BY <2>3, <3>1, <3>2, <2>1, <3>3 DEF Anew, Known, Live, Current
    <3>4. CASE Goes(a)
      <4>1. /\ epoch'[a] = epoch[a] /\ next[a] <= next'[a]
            /\ \A r \in inbox'[a] : \/ \E s \in inbox[a] : s.uid = r.uid /\ s.msg = r.msg
                                    \/ r.uid >= next[a]
        BY <3>4 DEF Goes
      <4>2. Current(e) <=> Current(e)'
        BY <3>1, <4>1 DEF Current
      <4>3. ASSUME Current(e)
            PROVE  /\ e.uid \in 1 .. next'[a] - 1
                   /\ \A r \in inbox'[a] : r.uid = e.uid => \E s \in inbox[a] : s.uid = r.uid /\ s.msg = r.msg
        BY <3>1, <3>2, <4>1, <4>3 DEF Known
      <4>4. QED
        BY <2>1, <2>3, <3>1, <4>1, <4>2, <4>3 DEF Known, Live
    <3>5. QED
      BY <1>2, <3>3, <3>4, ServerMoves DEF TypeInv
  <2>4. QED
    BY <2>1, <2>2, <2>3
<1>3. QED
  BY Kinds, LocalFrame, <1>1, <1>2 DEF vars

\* A summary e stands for what d stood for, and is deleted only if d was or if
\* its message is `binned'.
Follows(e, d) == Same(e, d) /\ (e.deleted => d.deleted \/ e.msg \in binned')

LEMMA FollowsKnows ==
    ASSUME TypeInv, [Next]_vars, NEW d \in Entry, NEW e \in Entry, Known(d), Live(d), Follows(e, d)
    PROVE  Known(e)' /\ Live(e)'
<1>1. Known(d)' /\ Live(d)'
  BY KnownStays
<1>2. e.msg = d.msg /\ e.uid = d.uid /\ e.from = d.from /\ e.epoch = d.epoch
      /\ (e.deleted => d.deleted \/ e.msg \in binned')
  BY DEF Follows, Same
<1>3. QED
  BY <1>1, <1>2 DEF Known, Live, Current

\* The sweep puts what it marks in `binned' if it is current, and the merge if
\* it could not tell; what else the merge marks the server has no more.
LEMMA MarksKnown ==
    ASSUME TypeInv, Origins, Carried, Faithful, Select \/ List, NEW k \in DOMAIN toc
    PROVE  LET e == toc'[k] IN
           \/ Follows(e, toc[k])
           \/ Same(e, toc[k]) /\ ~Current(toc[k])
           \/ Same(e, toc[k]) /\ \A r \in inbox[toc[k].from] : r.uid # toc[k].uid
<1>1. toc \in Seq(Entry)
  BY DEF TypeInv, Tables
<1>2. ASSUME toc' = Marked(WithUid), binned' = binned \cup Swept
      PROVE  Follows(toc'[k], toc[k]) \/ (Same(toc'[k], toc[k]) /\ ~Current(toc[k]))
  <2>1. /\ Same(toc'[k], toc[k])
        /\ k \notin WithUid => toc'[k] = toc[k]
    BY <1>1, <1>2, MarkedKeeps
  <2>2. k \in WithUid /\ Current(toc[k]) => toc[k].msg \in Swept
    BY DEF Swept
  <2>3. QED
    BY <1>2, <2>1, <2>2 DEF Follows, Same
<1>3. CASE toc' = toc
  BY <1>3 DEF Follows, Same
<1>4. CASE Select
  BY <1>2, <1>3, <1>4 DEF Select, Emptied
<1>5. ASSUME List, ~Resync
      PROVE  \/ Follows(toc'[k], toc[k])
             \/ Same(toc'[k], toc[k]) /\ \A r \in inbox[toc[k].from] : r.uid # toc[k].uid
  <2> DEFINE merged == {j \in DOMAIN toc : toc[j].uid \in Gone(listing') /\ j = First(toc[j].uid)}
  <2>1. /\ pc = "list" /\ toc' = Marked(merged) /\ listing' = inbox[acct]
        /\ binned' = binned \cup {toc[j].msg : j \in {i \in merged : Ambiguous(toc[i].uid)}}
    BY <1>5 DEF List
  <2>2. Same(toc'[k], toc[k]) /\ (k \notin merged => toc'[k] = toc[k])
    BY <1>1, <2>1, MarkedKeeps
  <2>3. CASE k \notin merged
    BY <2>2, <2>3 DEF Follows, Same
  <2>4. CASE k \in merged /\ Ambiguous(toc[k].uid)
    <3>1. toc[k].msg \in binned'
      BY <2>1, <2>4
    <3>2. QED
      BY <2>2, <3>1 DEF Follows, Same
  <2>5. CASE k \in merged /\ ~Ambiguous(toc[k].uid)
    <3>1. toc[k].uid \in LocalUids /\ toc[k].uid # 0
      BY <2>5 DEF Gone, Origins
    <3>2. PICK j \in DOMAIN local : Same(local[j], toc[k])
      BY <2>1, <3>1 DEF Carried
    <3>3. toc[k].from = acct
      BY <2>5, <3>2 DEF Ambiguous, Same, ToSet
    <3>4. \A r \in listing' : r.uid # toc[k].uid
      BY <2>5 DEF Gone, Ambiguous
    <3>5. QED
      BY <2>1, <2>2, <3>3, <3>4
  <2>6. QED
    BY <2>3, <2>4, <2>5
<1>6. CASE List
  BY <1>2, <1>5, <1>6 DEF List, Emptied
<1>7. QED
  BY <1>4, <1>6

\* A summary whose UID is of the INBOX as it is has the message the server
\* knows by that UID, and is live, or `binned', or the server has it no more.
LEMMA StepFaithful == TypeInv /\ Origins /\ Carried /\ Faithful /\ [Next]_vars => Faithful'
<1> SUFFICES ASSUME TypeInv, Origins, Carried, Faithful, [Next]_vars PROVE Faithful'
  OBVIOUS
<1> DEFINE Good(e) == Known(e) /\ Live(e)
<1>1. /\ \A k \in DOMAIN toc   : Known(toc[k]) /\ Live(toc[k]) /\ toc[k] \in Entry
      /\ \A k \in DOMAIN saved : Known(saved[k]) /\ Live(saved[k]) /\ saved[k] \in Entry
      /\ \A k \in DOMAIN local : Known(local[k]) /\ local[k] \in Entry
      /\ toc \in Seq(Entry) /\ saved \in Seq(Entry) /\ local \in Seq(Entry)
  BY DEF Faithful, TypeInv, Tables, Covers, Control
<1>2. /\ \A k \in DOMAIN toc' : toc'[k] \in Entry
      /\ \A k \in DOMAIN saved' : saved'[k] \in Entry
      /\ \A k \in DOMAIN local' : local'[k] \in Entry
  <2>1. toc' \in Seq(Entry) /\ saved' \in Seq(Entry) /\ local' \in Seq(Entry)
    BY StepTypeInv DEF TypeInv, Tables, Covers, Control
  <2>2. QED
    BY <2>1
<1>3. ASSUME NEW e, e \in {toc[k] : k \in DOMAIN toc} \cup {saved[k] : k \in DOMAIN saved}
      PROVE  Known(e)' /\ Live(e)'
  BY <1>1, <1>3, KnownStays
<1>4. ASSUME NEW e \in Entry, e.from = 0 PROVE Known(e)' /\ Live(e)'
  BY <1>4 DEF Known, Live, Current
<1>5. ASSUME NEW k \in DOMAIN Opened, NEW e, e = Opened[k] PROVE Known(e)' /\ Live(e)'
  <2>1. \/ k \in DOMAIN toc /\ e = toc[k]
        \/ k \in DOMAIN saved /\ e = saved[k]
        \/ k \in DOMAIN file /\ e = Rebuilt(file[k])
    BY <1>5, OpenedCovers DEF TypeInv
  <2>2. k \in DOMAIN file => Rebuilt(file[k]) \in Entry /\ Rebuilt(file[k]).from = 0
    BY RebuiltEntry DEF TypeInv, Tables, Covers
  <2>3. QED
    BY <1>3, <1>4, <2>1, <2>2
<1>6. ASSUME NEW k \in DOMAIN toc', NEW e, e = toc'[k] PROVE Known(e)' /\ Live(e)'
  <2>0. e \in Entry
    BY <1>2, <1>6
  <2>1. CASE UNCHANGED toc
    BY <1>3, <1>6, <2>1
  <2>2. ASSUME NEW a \in Accts, SyncStart(a) PROVE Known(e)' /\ Live(e)'
    BY <1>5, <1>6, <2>2 DEF SyncStart
  <2>3. CASE Select \/ List
    <3>1. k \in DOMAIN toc
      BY <1>6, <2>3, SyncRewrites DEF Rewrites
    <3>2. \/ Follows(e, toc[k])
          \/ Same(e, toc[k]) /\ ~Current(toc[k])
          \/ Same(e, toc[k]) /\ \A r \in inbox[toc[k].from] : r.uid # toc[k].uid
      BY <1>6, <2>3, <3>1, MarksKnown
    <3>3. PICK d \in Entry : d = toc[k]
      BY <1>1, <3>1
    <3>4. Known(d) /\ Live(d) /\ Known(d)' /\ Live(d)'
      BY <1>1, <3>1, <3>3, KnownStays
    <3>5. CASE Follows(e, d)
      BY <2>0, <3>4, <3>5, FollowsKnows
    <3>6. CASE Same(e, d) /\ ~Current(d)
      <4>1. ~Current(d)'
        BY <3>4, <3>6, KnownStays
      <4>2. QED
        BY <3>4, <3>6, <4>1 DEF Same, Known, Live, Current
    <3>7. CASE Same(e, d) /\ \A r \in inbox[d.from] : r.uid # d.uid
      <4>1. UNCHANGED inbox
        BY <2>3 DEF Select, List, remote
      <4>2. QED
        BY <3>4, <3>7, <4>1 DEF Same, Known, Live, Current
    <3>8. QED
      BY <3>2, <3>3, <3>5, <3>6, <3>7
  <2>4. CASE SaveState
    <3>1. toc' = Updated /\ listing \subseteq Item
      BY <2>4 DEF SaveState, TypeInv, Listing
    <3>2. k \in DOMAIN toc /\ Same(e, toc[k]) /\ e.deleted = toc[k].deleted
      BY <1>1, <1>6, <3>1, UpdatedKeeps
    <3>3. QED
      BY <1>1, <2>0, <3>2, FollowsKnows DEF Follows
  <2>5. ASSUME NEW i \in DOMAIN toc, Flagged(i) PROVE Known(e)' /\ Live(e)'
    <3>1. /\ Rewrites /\ \A j \in DOMAIN toc \ {i} : toc'[j] = toc[j]
          /\ toc'[i].deleted => toc[i].msg \in binned'
      BY <1>1, <2>5, FlagRewrites
    <3>2. k \in DOMAIN toc /\ Same(e, toc[k])
      BY <1>6, <3>1 DEF Rewrites
    <3>3. Follows(e, toc[k])
      BY <1>6, <3>1, <3>2 DEF Follows, Same
    <3>4. QED
      BY <1>1, <2>0, <3>2, <3>3, FollowsKnows
  <2>6. CASE Fetch
    <3>1. PICK d \in Entry : /\ Gains(d) /\ Opened = toc /\ ~d.deleted
                             /\ d.msg = Next1.msg /\ d.uid = Next1.uid /\ d.from = acct /\ d.epoch = server
      BY <2>6, FetchGains
    <3>2. /\ DOMAIN toc' = DOMAIN toc \cup {Len(file) + 1} /\ toc'[Len(file) + 1] = d
          /\ \A j \in DOMAIN toc : toc'[j] = toc[j]
      BY <3>1, GainsKeeps DEF TypeInv
    <3>3. CASE k \in DOMAIN toc
      BY <1>3, <1>6, <3>2, <3>3
    <3>4. CASE e = d
      <4>1. pc = "fetch" /\ up /\ Next1 \in listing /\ server = epoch[acct] /\ acct \in Accts
        BY <2>6, NextListed DEF Fetch, TypeInv, Control
      <4>2. /\ Next1.uid \in 1 .. next[acct] - 1
            /\ \A r \in inbox[acct] : r.uid = Next1.uid <=> r.msg = Next1.msg
        <5>1. Next1.uid \in Nat \ {0} /\ next[acct] \in Nat
          BY <4>1, ItemFields DEF TypeInv, Listing, Inboxes, Uids
        <5>2. QED
          BY <4>1, <5>1 DEF TypeInv, Listing
      <4>3. epoch[acct] \in Nat
        BY <4>1 DEF TypeInv, Inboxes
      <4>4. Known(d) /\ Live(d)
        BY <3>1, <4>1, <4>2, <4>3 DEF Known, Live, Current
      <4>5. QED
        BY <3>4, <4>4, KnownStays
    <3>5. QED
      BY <1>6, <3>2, <3>3, <3>4
  <2>7. ASSUME NEW m \in Local, Deliver(m) PROVE Known(e)' /\ Live(e)'
    <3>1. PICK d \in Entry : Gains(d) /\ d.from = 0
      BY <2>7, DeliverGains
    <3>2. /\ DOMAIN toc' = DOMAIN Opened \cup {Len(file) + 1} /\ toc'[Len(file) + 1] = d
          /\ \A j \in DOMAIN Opened : toc'[j] = Opened[j]
      BY <3>1, GainsKeeps DEF TypeInv
    <3>3. QED
      BY <1>4, <1>5, <1>6, <3>1, <3>2
  <2>8. CASE Compact
    <3>1. PICK f : Shrinks(f)
      BY <2>8, CompactShrinks DEF TypeInv
    <3>2. f[k] \in DOMAIN toc /\ e = toc[f[k]]
      BY <1>6, <3>1 DEF Shrinks, Places
    <3>3. QED
      BY <1>3, <3>2
  <2>9. CASE Crash
    BY <1>6, <2>9 DEF Crash
  <2>10. CASE ServerActs \/ UNCHANGED vars
    BY <2>1, <2>10, ServerFrame DEF vars, box
  <2>11. CASE FetchFails \/ LoseConnection \/ Save \/ SaveToc \/ GiveUp
    BY <2>1, <2>11 DEF FetchFails, LoseConnection, Save, SaveToc, GiveUp, box
  <2>12. QED
    BY Kinds, <2>2, <2>3, <2>4, <2>5, <2>6, <2>7, <2>8, <2>9, <2>10, <2>11
       DEF LocalActs, SyncStep, Flagged
<1>7. ASSUME NEW k \in DOMAIN saved', NEW e, e = saved'[k] PROVE Known(e)' /\ Live(e)'
  <2>1. saved' = saved \/ saved' = toc \/ saved' = toc'
    BY BoxSteps, CompactShrinks DEF box, SyncStart, Rewrites, Saves, Gains, Crash, Shrinks, TypeInv
  <2>2. QED
    BY <1>3, <1>6, <1>7, <2>1
<1>8. ASSUME NEW k \in DOMAIN local', NEW e, e = local'[k] PROVE Known(e)'
  <2>1. ASSUME NEW a \in Accts, SyncStart(a) PROVE Known(e)'
    <3>1. PICK f : Places(f, local', toc', {j \in DOMAIN toc' : toc'[j].uid # 0})
      BY <2>1, StartLists DEF TypeInv
    <3>2. f[k] \in DOMAIN toc' /\ e = toc'[f[k]]
      BY <1>8, <3>1 DEF Places
    <3>3. QED
      BY <1>6, <3>2
  <2>2. CASE local' = <<>>
    BY <1>8, <2>2
  <2>3. CASE local' = local
    BY <1>1, <1>8, <2>3, KnownStays
  <2>4. QED
    BY LocalSteps, <2>1, <2>2, <2>3
<1>9. QED
  BY <1>6, <1>7, <1>8 DEF Faithful

LEMMA InitFaithful == Init => Faithful
  BY DEF Init, Faithful

-----------------------------------------------------------------------------
(* What a sync brings                                                      *)

\* What excuses a message goes on excusing it until the sync returns.
LEMMA ExcusedStays ==
    ASSUME TypeInv, [Next]_vars, clean, pc \in {"fetch", "save"}, pc' # "idle",
           NEW r \in listing, Excused(r)
    PROVE  Excused(r)'
<1>1. UNCHANGED <<acct, local, server>> /\ touched \subseteq touched'
  BY SyncSteps, TouchedStays DEF SyncStart, Select, List, SaveState
<1>2. Ambiguous(r.uid) => Ambiguous(r.uid)'
  BY <1>1 DEF Ambiguous
<1>3. up /\ acct \in Accts
  BY DEF TypeInv, Control, Busy
<1>4. ASSUME \A s \in inbox[acct] : s.uid # r.uid PROVE \A s \in inbox'[acct] : s.uid # r.uid
  <2>1. CASE UNCHANGED remote
    BY <1>4, <2>1 DEF remote
  <2>2. CASE ServerActs
    <3>1. Goes(acct)
      BY <1>3, <2>2, ServerMoves DEF Anew, TypeInv
    <3>2. r.uid < next[acct] /\ r.uid \in Nat /\ next[acct] \in Nat
      BY <1>3, ItemFields DEF TypeInv, Listing, Inboxes, Uids
    <3>3. QED
      BY <1>4, <3>1, <3>2 DEF Goes
  <2>3. QED
    BY Kinds, LocalFrame, <2>1, <2>2 DEF vars
<1>5. QED
  BY <1>1, <1>2, <1>4 DEF Excused

LEMMA SyncFrame ==
    ASSUME TypeInv, [Next]_vars, pc \in {"fetch", "save"}, pc' # "idle"
    PROVE  /\ SaveState \/ UNCHANGED <<validity, pc>>
           /\ Fetch \/ FetchFails \/ UNCHANGED todo
           /\ clean' => clean
<1> DEFINE Says == /\ SaveState \/ UNCHANGED <<validity, pc>>
                   /\ Fetch \/ FetchFails \/ UNCHANGED todo
                   /\ UNCHANGED clean \/ clean' = FALSE
<1> SUFFICES Says
  BY DEF TypeInv, Control
<1>1. ASSUME ServerActs \/ UNCHANGED vars PROVE Says
  BY <1>1, ServerFrame DEF vars, sync
<1>2. CASE Fetch \/ FetchFails \/ SaveState \/ LoseConnection
  BY <1>2 DEF Fetch, FetchFails, SaveState, LoseConnection, Fault, NoFault
<1>3. CASE Save \/ Compact
  BY <1>3 DEF Save, Compact, sync, NoFault
<1>4. ASSUME NEW m \in Local, Deliver(m) PROVE Says
  BY <1>4 DEF Deliver, sync
<1>5. ASSUME NEW k \in DOMAIN toc, Delete(k) \/ Undelete(k) \/ Open(k) PROVE Says
  <2>1. UNCHANGED <<sync, validity, clean>>
    BY <1>5, FlagRewrites DEF Flagged, TypeInv, Tables
  <2>2. QED
    BY <2>1 DEF sync
<1>6. ~(Crash \/ Select \/ List \/ GiveUp \/ SaveToc)
  BY DEF Crash, Return, Select, List, GiveUp, SaveToc
<1>7. ASSUME NEW a \in Accts, SyncStart(a) PROVE FALSE
  BY <1>7 DEF SyncStart
<1>8. QED
  BY Kinds, <1>1, <1>2, <1>3, <1>4, <1>5, <1>6, <1>7 DEF LocalActs, SyncStep

\* The summary that shows a message is still there after a step, unless the
\* user touched it.
LEMMA ShowsStays ==
    ASSUME TypeInv, [Next]_vars, pc \in {"fetch", "save"}, pc' # "idle",
           NEW r, NEW k \in DOMAIN toc, Shows(k, r)
    PROVE  \/ r.msg \in touched'
           \/ \E j \in DOMAIN toc' : Shows(j, r)' /\ (toc'[j] = toc[k] \/ (SaveState /\ j = k))
<1>1. UNCHANGED <<acct, server>> /\ open /\ Busy /\ toc \in Seq(Entry)
  BY SyncSteps DEF SyncStart, Select, List, SaveState, TypeInv, Control, Tables, Busy
<1>2. ASSUME NEW j \in DOMAIN toc', Same(toc'[j], toc[k]) PROVE Shows(j, r)'
  BY <1>1, <1>2 DEF Shows, Same
<1>3. ASSUME NEW j \in DOMAIN toc', toc'[j] = toc[k] PROVE \E i \in DOMAIN toc' : Shows(i, r)' /\ toc'[i] = toc[k]
  BY <1>2, <1>3 DEF Same
<1>4. CASE UNCHANGED toc
  BY <1>3, <1>4
<1>5. CASE SaveState
  <2>1. Rewrites
    BY <1>5, SyncRewrites
  <2>2. QED
    BY <1>2, <1>5, <2>1 DEF Rewrites
<1>6. ASSUME NEW i \in DOMAIN toc, Flagged(i)
      PROVE  r.msg \in touched' \/ \E j \in DOMAIN toc' : toc'[j] = toc[k]
  <2>1. /\ Rewrites /\ \A j \in DOMAIN toc \ {i} : toc'[j] = toc[j]
        /\ toc[i].msg \in touched'
    BY <1>1, <1>6, FlagRewrites
  <2>2. QED
    BY <2>1 DEF Rewrites, Shows
<1>7. ASSUME NEW e \in Entry, Gains(e) PROVE \E j \in DOMAIN toc' : toc'[j] = toc[k]
  BY <1>1, <1>7, GainsKeeps, OpenedCovers DEF TypeInv
<1>8. ASSUME Compact PROVE r.msg \in touched' \/ \E j \in DOMAIN toc' : toc'[j] = toc[k]
  <2>1. PICK f : Shrinks(f)
    BY <1>8, CompactShrinks DEF TypeInv
  <2>2. CASE toc[k].deleted
    BY <1>1, <2>1, <2>2 DEF Shrinks, Shows
  <2>3. CASE ~toc[k].deleted
    BY <2>1, <2>3 DEF Shrinks, Places
  <2>4. QED
    BY <2>2, <2>3
<1>9. UNCHANGED toc \/ SaveState \/ Fetch \/ Compact
      \/ (\E m \in Local : Deliver(m)) \/ \E i \in DOMAIN toc : Flagged(i)
  BY SyncTable
<1>10. QED
  BY <1>3, <1>4, <1>5, <1>6, <1>7, <1>8, <1>9, FetchGains, DeliverGains

LEMMA StepMirror == TypeInv /\ Origins /\ Carried /\ Faithful /\ Mirror /\ [Next]_vars => Mirror'
<1> SUFFICES ASSUME TypeInv, Origins, Carried, Faithful, Mirror, [Next]_vars, pc' \in {"fetch", "save"}
             PROVE  /\ clean' => \A r \in listing' \ todo' : Mirrored(r)'
                    /\ pc' = "fetch" => \A r \in listing' : Old(r)' /\ ~Ambiguous(r.uid)' => ~Twice(toc', r.uid)
  BY DEF Mirror, Twice
<1>1. /\ toc \in Seq(Entry) /\ listing \subseteq Item /\ todo \subseteq listing
      /\ \A r, s \in listing : r.uid = s.uid => r = s
      /\ \A r \in listing : r.uid \in Nat \ {0}
  BY ItemFields DEF TypeInv, Tables, Listing, Uids
<1>2. CASE Select
  <2>1. listing' = {}
    BY <1>2 DEF Select, TypeInv, Listing
  <2>2. QED
    BY <2>1
<1>3. CASE List
  <2>1. /\ pc = "list" /\ up /\ listing' = inbox[acct] /\ pc' = "fetch"
        /\ UNCHANGED <<inbox, acct, local, server, validity, touched>>
        /\ todo' = IF Resync THEN listing' ELSE New(listing')
    BY <1>3 DEF List, remote
  <2>2. Resync' = Resync /\ LocalUids' = LocalUids /\ \A u : Ambiguous(u) => Ambiguous(u)'
    BY <2>1 DEF Resync, LocalUids, Ambiguous
  <2>3. acct \in Accts /\ server = epoch[acct] /\ server # 0 /\ acct # 0
    BY <2>1, HomeAssumption DEF TypeInv, Control, Inboxes
  <2>4. Rewrites
    BY <1>3, SyncRewrites
  <2>5. ASSUME NEW r \in listing', Old(r)' PROVE ~Resync /\ r.uid \in LocalUids
    BY <2>2, <2>5 DEF Old
  <2>6. ASSUME NEW r \in listing', Old(r)', Twice(toc', r.uid) PROVE Ambiguous(r.uid)'
    <3>1. Twice(toc, r.uid)
      BY <2>4, <2>6 DEF Rewrites, Same, Twice
    <3>2. Twice(local, r.uid)
      BY <2>1, <2>5, <2>6, <3>1 DEF Carried
    <3>3. QED
      BY <2>2, <3>2 DEF Ambiguous, Twice
  <2>7. ASSUME NEW r \in listing' \ todo' PROVE Mirrored(r)'
    <3>1. ~Resync /\ r.uid \in LocalUids
      BY <2>1, <2>7 DEF New
    <3>2. PICK j \in DOMAIN local : local[j].uid = r.uid
      BY <3>1 DEF LocalUids, ToSet
    <3>3. Old(r)'
      BY <2>2, <3>1 DEF Old
    <3>4. CASE Ambiguous(r.uid)
      BY <2>2, <3>4 DEF Mirrored, Excused
    <3>5. CASE ~Ambiguous(r.uid)
      <4>1. local[j].from = acct /\ local[j].epoch = server
        BY <3>2, <3>5 DEF Ambiguous, ToSet
      <4>2. local[j].msg = r.msg
        BY <2>1, <2>3, <2>7, <3>2, <4>1 DEF Faithful, Known, Current
      <4>3. CASE local[j].msg \in touched
        BY <2>1, <4>2, <4>3 DEF Mirrored, Excused
      <4>4. CASE \E k \in DOMAIN toc : Same(local[j], toc[k])
        <5>1. PICK k \in DOMAIN toc : Same(local[j], toc[k])
          BY <4>4
        <5>2. k \in DOMAIN toc' /\ Same(toc'[k], toc[k])
          BY <2>4 DEF Rewrites
        <5>3. Shows(k, r)'
          BY <2>1, <3>2, <4>1, <4>2, <5>1, <5>2 DEF Shows, Same
        <5>4. QED
          BY <2>1, <3>3, <5>2, <5>3 DEF Mirrored
      <4>5. QED
        BY <2>1, <4>3, <4>4 DEF Carried
    <3>6. QED
      BY <3>4, <3>5
  <2>8. QED
    BY <2>6, <2>7
<1>4. ASSUME pc \in {"fetch", "save"}, UNCHANGED <<acct, local, server, listing>>
      PROVE  /\ clean' => \A r \in listing' \ todo' : Mirrored(r)'
             /\ pc' = "fetch" => \A r \in listing' : Old(r)' /\ ~Ambiguous(r.uid)' => ~Twice(toc', r.uid)
  <2>1. open /\ Busy /\ listing' = listing
    BY <1>4 DEF TypeInv, Control, Busy
  <2>2. (pc' = "fetch" => UNCHANGED validity /\ pc = "fetch") /\ (pc' = "save" => pc = "save" \/ SaveState)
    BY <1>4, SyncFrame DEF SaveState
  <2>3. LocalUids' = LocalUids /\ \A u : Ambiguous(u) <=> Ambiguous(u)'
    BY <1>4 DEF LocalUids, Ambiguous
  <2>4. ASSUME pc' = "fetch", NEW r \in listing PROVE Old(r)' <=> Old(r)
    BY <1>4, <2>2, <2>3, <2>4 DEF Old, Resync
  <2>5. ASSUME pc' = "fetch", NEW r \in listing, Old(r)', ~Ambiguous(r.uid)' PROVE ~Twice(toc', r.uid)
    <3>1. ~Twice(toc, r.uid) /\ Old(r) /\ pc = "fetch" /\ r.uid # 0 /\ ~Resync /\ r.uid \in LocalUids
      BY <1>1, <2>2, <2>3, <2>4, <2>5 DEF Mirror, Old
    <3>2. CASE UNCHANGED box
      BY <3>1, <3>2 DEF box
    <3>3. CASE Rewrites \/ Saves
      BY <3>1, <3>3 DEF Rewrites, Saves, Same, Twice
    <3>4. ASSUME NEW e \in Entry, Gains(e), e.uid # r.uid PROVE ~Twice(toc', r.uid)
      <4>1. /\ DOMAIN toc' = DOMAIN toc \cup {Len(file) + 1} /\ toc'[Len(file) + 1] = e
            /\ \A j \in DOMAIN toc : toc'[j] = toc[j]
        BY <2>1, <3>4, GainsKeeps, OpenedCovers DEF TypeInv
      <4>2. QED
        BY <3>1, <3>4, <4>1 DEF Twice
    <3>5. CASE Fetch
      <4>1. PICK e \in Entry : Gains(e) /\ e.uid = Next1.uid
        BY <3>5, FetchGains
      <4>2. Next1 \in todo
        BY <3>5, NextListed DEF Fetch, TypeInv
      <4>3. e.uid # r.uid
        BY <3>1, <4>1, <4>2 DEF TypeInv, Listing
      <4>4. QED
        BY <3>4, <4>1, <4>3
    <3>6. ASSUME NEW m \in Local, Deliver(m) PROVE ~Twice(toc', r.uid)
      BY <3>1, <3>4, <3>6, DeliverGains
    <3>7. CASE Compact
      <4>1. PICK f : Shrinks(f)
        BY <3>7, CompactShrinks DEF TypeInv
      <4>2. /\ \A x \in DOMAIN toc' : f[x] \in DOMAIN toc /\ toc'[x] = toc[f[x]]
            /\ \A x, y \in DOMAIN toc' : x < y => f[x] < f[y]
            /\ DOMAIN toc \subseteq Nat /\ DOMAIN toc' \subseteq Nat
        BY <4>1 DEF Shrinks, Places
      <4>3. \A x, y \in DOMAIN toc' : x # y => f[x] # f[y]
        BY <4>2
      <4>4. QED
        BY <3>1, <4>2, <4>3 DEF Twice
    <3>8. ~Crash /\ \A a \in Accts : ~SyncStart(a)
      BY <2>5 DEF Crash, Return, SyncStart
    <3>9. QED
      BY BoxSteps, <3>2, <3>3, <3>5, <3>6, <3>7, <3>8
  <2>6. ASSUME clean', NEW r \in listing \ todo' PROVE Mirrored(r)'
    <3>1. clean /\ up
      BY <1>4, <2>1, <2>6, SyncFrame DEF TypeInv, Control
    <3>2. CASE r \in todo
      <4>1. (Fetch \/ FetchFails) /\ r = Next1
        BY <1>4, <2>6, <3>2, SyncFrame DEF Fetch, FetchFails
      <4>2. CASE Fetch
        <5>1. PICK e \in Entry : /\ Gains(e) /\ e.msg = Next1.msg /\ e.uid = Next1.uid /\ e.state = Next1.state
                                 /\ e.from = acct /\ e.epoch = server
          BY <4>2, FetchGains
        <5>2. PICK j \in DOMAIN toc' : toc'[j] = e
          BY <5>1, GainsKeeps DEF TypeInv
        <5>3. Shows(j, r)'
          BY <1>4, <4>1, <5>1, <5>2 DEF Shows
        <5>4. QED
          BY <4>1, <5>1, <5>2, <5>3 DEF Mirrored
      <4>3. CASE FetchFails
        <5>1. ~(up /\ \E s \in inbox[acct] : s.uid = Next1.uid) /\ UNCHANGED <<inbox, acct>>
          BY <2>6, <4>3 DEF FetchFails, Fault, remote
        <5>2. QED
          BY <3>1, <4>1, <5>1 DEF Mirrored, Excused
      <4>4. QED
        BY <4>1, <4>2, <4>3
    <3>3. CASE r \notin todo
      <4>1. Mirrored(r)
        BY <1>4, <2>6, <3>1, <3>3 DEF Mirror
      <4>2. CASE Excused(r)
        BY <1>4, <3>1, <4>2, ExcusedStays DEF Mirrored
      <4>3. CASE ~Excused(r)
        <5>1. PICK k \in DOMAIN toc : Shows(k, r) /\ (pc = "save" \/ ~Old(r) => toc[k].state = r.state)
          BY <4>1, <4>3 DEF Mirrored
        <5>2. \/ r.msg \in touched'
              \/ \E j \in DOMAIN toc' : Shows(j, r)' /\ (toc'[j] = toc[k] \/ (SaveState /\ j = k))
          BY <1>4, <5>1, ShowsStays
        <5>3. CASE r.msg \in touched'
          BY <5>3 DEF Mirrored, Excused
        <5>4. ASSUME NEW j \in DOMAIN toc', Shows(j, r)', toc'[j] = toc[k], ~SaveState PROVE Mirrored(r)'
          <6>1. pc' = "save" \/ ~Old(r)' => pc = "save" \/ ~Old(r)
            BY <2>2, <2>4, <5>4
          <6>2. QED
            BY <5>1, <5>4, <6>1 DEF Mirrored
        <5>5. ASSUME SaveState, Shows(k, r)', k \in DOMAIN toc' PROVE Mirrored(r)'
          <6>1. pc = "fetch" /\ toc' = Updated
            BY <5>5 DEF SaveState
          <6>2. toc[k].uid = r.uid
            BY <5>1 DEF Shows
          <6>3. CASE Old(r)
            <7>1. ~Twice(toc, r.uid)
              BY <4>3, <6>1, <6>3 DEF Mirror, Excused
            <7>2. k = First(toc[k].uid)
              BY <1>1, <6>2, <7>1, FirstFound
            <7>3. \E s \in listing : s.uid = toc[k].uid /\ toc'[k].state = s.state
              BY <1>1, <6>1, <6>2, <6>3, <7>2, UpdatedKeeps DEF Old
            <7>4. toc'[k].state = r.state
              BY <1>1, <6>2, <7>3
            <7>5. QED
              BY <5>5, <7>4 DEF Mirrored
          <6>4. CASE ~Old(r)
            <7>1. toc'[k] = toc[k]
              BY <1>1, <6>1, <6>2, <6>4, UpdatedKeeps DEF Old
            <7>2. QED
              BY <5>1, <5>5, <6>4, <7>1 DEF Mirrored
          <6>5. QED
            BY <6>3, <6>4
        <5>6. CASE SaveState
          <6>1. Shows(k, r)' /\ k \in DOMAIN toc'
            <7>1. Rewrites
              BY <5>6, SyncRewrites
            <7>2. QED
              BY <1>4, <5>1, <7>1 DEF Rewrites, Shows, Same
          <6>2. QED
            BY <5>5, <5>6, <6>1
        <5>7. QED
          BY <5>2, <5>3, <5>4, <5>6
      <4>4. QED
        BY <4>2, <4>3
    <3>4. QED
      BY <3>2, <3>3
  <2>7. QED
    BY <2>1, <2>5, <2>6
<1>5. CASE SaveState
  BY <1>4, <1>5 DEF SaveState
<1>6. QED
  BY SyncSteps, <1>2, <1>3, <1>4, <1>5 DEF SyncStart

LEMMA InitMirror == Init => Mirror
  BY DEF Init, Mirror

\* After a sync in which nothing went wrong, every message that the server
\* listed and still has is in In, live unless it is `binned', and in the state
\* the server gave, unless the user touched it meanwhile or several summaries
\* bore its UID: whatever crashed before, whichever state file or table was not
\* written, however often the INBOX was made anew, and for any number of
\* accounts that share In (macmbx_mailer_check_imap).
THEOREM InboxShown == Spec => InboxMirrored
<1> DEFINE Inv  == TypeInv /\ Origins /\ Carried /\ Faithful /\ Mirror
           Kind == CleanEnd =>
                     \A r \in listing : Ambiguous(r.uid) \/ r.msg \in touched \/ (\A s \in inbox[acct] : s.uid # r.uid)
                         \/ \E k \in DOMAIN toc :
                               /\ toc[k].msg = r.msg /\ toc[k].uid = r.uid
                               /\ toc[k].deleted => r.msg \in binned
                               /\ toc[k].state = r.state
<1>1. Init => Inv
  BY InitTypeInv, InitOrigins, InitFaithful, InitMirror DEF Init, Carried
<1>2. Inv /\ [Next]_vars => Inv'
  BY StepTypeInv, StepOrigins, StepCarried, StepFaithful, StepMirror
<1>3. Inv => Kind
  <2> SUFFICES ASSUME Inv, pc = "save", clean, NEW r \in listing, ~Excused(r)
               PROVE  \E k \in DOMAIN toc :
                         /\ toc[k].msg = r.msg /\ toc[k].uid = r.uid
                         /\ toc[k].deleted => r.msg \in binned
                         /\ toc[k].state = r.state
    BY DEF CleanEnd, Excused
  <2>1. todo = {} /\ up /\ server = epoch[acct] /\ acct # 0
    BY HomeAssumption DEF TypeInv, Listing, Control, Busy
  <2>2. PICK k \in DOMAIN toc : Shows(k, r) /\ toc[k].state = r.state
    BY <2>1 DEF Mirror, Mirrored
  <2>3. toc[k].deleted => r.msg \in binned
    BY <2>1, <2>2 DEF Faithful, Live, Current, Shows, Excused
  <2>4. QED
    BY <2>2, <2>3 DEF Shows
<1> HIDE DEF Inv
<1>4. Inv /\ [Next]_vars => [Kind]_vars
  BY <1>3
<1>5. QED
  BY <1>1, <1>2, <1>4, PTL DEF Spec, InboxMirrored
=============================================================================
