-------------------------- MODULE Delivery_proofs --------------------------
(***************************************************************************)
(* Proofs about Delivery, for any threads, messages, mailboxes, filters,   *)
(* verdicts and bound.                                                     *)
(*                                                                         *)
(* The steps are put together from a few changes to the mailboxes: one is  *)
(* opened, a message is appended, a summary is changed, some are saved.    *)
(* What matters of the mailboxes is stated of any function B like box, so  *)
(* that each change is looked at once.                                     *)
(***************************************************************************)
EXTENDS Delivery, SequenceTheorems, FiniteSetTheorems, TLAPS

-----------------------------------------------------------------------------
(* What is kept of a sequence                                              *)

\* The numbers of a finite set have the ranks 1, 2, 3 ... in their order.
LEMMA Ranks ==
    ASSUME NEW K, K \subseteq Nat, IsFiniteSet(K), NEW n, n = Cardinality(K)
    PROVE  /\ n \in Nat
           /\ \A k \in K : Rank(k, K) \in 1 .. n
           /\ \A a, b \in K : a < b => Rank(a, K) < Rank(b, K)
           /\ \A x \in 1 .. n : \E k \in K : Rank(k, K) = x
<1> DEFINE R(k) == Rank(k, K)
           g    == [k \in K |-> R(k)]
<1>1. n \in Nat
  BY FS_CardinalityType
<1>2. \A k \in K : R(k) \in 1 .. n
  <2> SUFFICES ASSUME NEW k \in K PROVE R(k) \in 1 .. n
    OBVIOUS
  <2> DEFINE S == {j \in K : j <= k}
  <2>1. S \subseteq K /\ k \in S
    OBVIOUS
  <2>2. IsFiniteSet(S) /\ Cardinality(S) <= n /\ Cardinality(S) \in Nat
    BY <2>1, FS_Subset, FS_CardinalityType
  <2>3. Cardinality(S) # 0
    BY <2>1, <2>2, FS_EmptySet
  <2>4. QED
    BY <1>1, <2>2, <2>3 DEF Rank
<1>3. \A a, b \in K : a < b => R(a) < R(b)
  <2> SUFFICES ASSUME NEW a \in K, NEW b \in K, a < b PROVE R(a) < R(b)
    OBVIOUS
  <2> DEFINE S == {j \in K : j <= a}
             T == {j \in K : j <= b}
  <2>1. IsFiniteSet(T)
    BY FS_Subset
  <2>0. a \in Nat /\ b \in Nat /\ \A j \in K : j \in Nat
    OBVIOUS
  <2>2. S \subseteq T
    <3>1. \A x \in K : x <= a => x <= b
      BY <2>0
    <3>2. QED
      BY <3>1
  <2>3. b \in T /\ b \notin S
    BY <2>0
  <2>4. QED
    BY <2>1, <2>2, <2>3, FS_Subset, FS_CardinalityType DEF Rank
<1> HIDE DEF R
<1>4. \A a, b \in K : R(a) = R(b) => a = b
  BY <1>2, <1>3
<1>5. g \in Injection(K, 1 .. n)
  BY <1>2, <1>4 DEF Injection, IsInjective
<1>6. IsFiniteSet(1 .. n) /\ Cardinality(1 .. n) = Cardinality(K)
  BY <1>1, FS_Interval
<1>7. g \in Surjection(K, 1 .. n)
  BY <1>5, <1>6, FS_Injection
<1>8. \A x \in 1 .. n : \E k \in K : R(k) = x
  BY <1>7 DEF Surjection
<1>9. QED
  BY <1>1, <1>2, <1>3, <1>8 DEF R

\* f takes the positions of t to those of the same elements in s, which are K.
Places(f, t, s, K) ==
    /\ f \in [DOMAIN t -> K]
    /\ \A n \in DOMAIN t : t[n] = s[f[n]]
    /\ \A k \in K : \E n \in DOMAIN t : f[n] = k
    /\ \A a, b \in DOMAIN t : a < b => f[a] < f[b]

\* The elements at the positions K are kept, each once, in their order.
LEMMA KeptSeq ==
    ASSUME NEW A, NEW s \in Seq(A), NEW K \in SUBSET DOMAIN s, NEW t, t = Kept(s, K)
    PROVE  t \in Seq(A) /\ \E f : Places(f, t, s, K)
<1> DEFINE n == Cardinality(K)
           R(k) == Rank(k, K)
           f == [x \in 1 .. n |-> CHOOSE k \in K : R(k) = x]
<1>1. K \subseteq Nat /\ IsFiniteSet(K)
  <2>1. Len(s) \in Nat /\ DOMAIN s = 1 .. Len(s)
    OBVIOUS
  <2>2. IsFiniteSet(1 .. Len(s))
    BY <2>1, FS_Interval
  <2>3. QED
    BY <2>1, <2>2, FS_Subset
<1> HIDE DEF n
<1>0. n \in Nat
  BY <1>1, Ranks DEF n
<1>2. /\ \A k \in K : R(k) \in 1 .. n
      /\ \A a, b \in K : a < b => R(a) < R(b)
      /\ \A x \in 1 .. n : \E k \in K : R(k) = x
  BY <1>1, Ranks DEF n
<1> HIDE DEF R
<1>3. \A x \in 1 .. n : f[x] \in K /\ R(f[x]) = x
  BY <1>2
<1>4. t = [x \in 1 .. n |-> s[f[x]]]
  BY DEF Kept, R, n
<1>5. f \in [1 .. n -> K]
  BY <1>3
<1> HIDE DEF f
<1>6. \A x \in 1 .. n : s[f[x]] \in A
  BY <1>3
<1>7. t \in [1 .. n -> A] /\ \A x \in 1 .. n : t[x] = s[f[x]]
  BY <1>4, <1>6
<1>8. t \in Seq(A) /\ DOMAIN t = 1 .. n
  BY <1>0, <1>7, SeqDef
<1>9. \A k \in K : \E x \in 1 .. n : f[x] = k
  BY <1>1, <1>2, <1>3
<1>10. \A a, b \in 1 .. n : a < b => f[a] < f[b]
  <2> SUFFICES ASSUME NEW a \in 1 .. n, NEW b \in 1 .. n, a < b, ~(f[a] < f[b]) PROVE FALSE
    OBVIOUS
  <2>1. f[b] <= f[a] /\ f[a] \in K /\ f[b] \in K
    BY <1>1, <1>3
  <2>2. R(f[b]) <= R(f[a])
    BY <1>1, <1>2, <2>1, SMTT(30)
  <2>3. R(f[a]) = a /\ R(f[b]) = b
    BY <1>3
  <2>4. QED
    BY <1>0, <2>2, <2>3
<1>11. Places(f, t, s, K)
  BY <1>5, <1>7, <1>8, <1>9, <1>10 DEF Places
<1>12. QED
  BY <1>8, <1>11

\* t is the elements of v and then those of u.
Join(t, v, u) ==
    /\ Len(t) = Len(v) + Len(u) /\ DOMAIN t = 1 .. Len(v) + Len(u)
    /\ \A k \in DOMAIN v : k \in DOMAIN t /\ t[k] = v[k]
    /\ \A n \in DOMAIN u : Len(v) + n \in DOMAIN t /\ t[Len(v) + n] = u[n]
    /\ \A k \in DOMAIN t \ DOMAIN v : k - Len(v) \in DOMAIN u /\ t[k] = u[k - Len(v)]

LEMMA Joined ==
    ASSUME NEW A, NEW v \in Seq(A), NEW u \in Seq(A), NEW t, t = v \o u
    PROVE  t \in Seq(A) /\ Join(t, v, u)
<1>1. /\ v \o u \in Seq(A) /\ Len(v \o u) = Len(v) + Len(u)
      /\ \A k \in 1 .. Len(v) + Len(u) : (v \o u)[k] = IF k <= Len(v) THEN v[k] ELSE u[k - Len(v)]
  BY ConcatProperties
<1>2. Len(v) \in Nat /\ Len(u) \in Nat /\ DOMAIN v = 1 .. Len(v) /\ DOMAIN u = 1 .. Len(u)
  OBVIOUS
<1>3. t \in Seq(A) /\ Len(t) = Len(v) + Len(u) /\ DOMAIN t = 1 .. Len(v) + Len(u)
  BY <1>1
<1>4. \A n \in DOMAIN u : Len(v) + n \in 1 .. Len(v) + Len(u) /\ ~(Len(v) + n <= Len(v)) /\ (Len(v) + n) - Len(v) = n
  BY <1>2
<1>5. \A n \in DOMAIN u : Len(v) + n \in DOMAIN t /\ t[Len(v) + n] = u[n]
  BY <1>1, <1>3, <1>4
<1>6. \A k \in DOMAIN v : k \in DOMAIN t /\ t[k] = v[k]
  BY <1>1, <1>2, <1>3
<1>7. \A k \in DOMAIN t \ DOMAIN v : k - Len(v) \in DOMAIN u /\ t[k] = u[k - Len(v)]
  <2> SUFFICES ASSUME NEW k \in DOMAIN t \ DOMAIN v PROVE k - Len(v) \in DOMAIN u /\ t[k] = u[k - Len(v)]
    OBVIOUS
  <2>1. k - Len(v) \in DOMAIN u /\ k = Len(v) + (k - Len(v))
    BY <1>2, <1>3
  <2>2. QED
    BY <1>5, <2>1
<1>8. QED
  BY <1>3, <1>5, <1>6, <1>7 DEF Join

-----------------------------------------------------------------------------
(* Mailboxes                                                               *)

Box == [open : BOOLEAN, toc : Seq(Entry), file : Seq(Msgs), saved : Seq(Entry)]

\* The summaries t are those of the first messages of the mbox file f.
Covers(t, f) == Len(t) <= Len(f) /\ \A k \in DOMAIN t : t[k].msg = f[k]

Sound(x) ==
    /\ x \in Box
    /\ Covers(x.saved, x.file)
    /\ x.open => Covers(x.toc, x.file) /\ Len(x.toc) = Len(x.file)

AllSound(B) == DOMAIN B = Boxes /\ \A b \in Boxes : Sound(B[b])

LEMMA EntryFields ==
    ASSUME NEW e \in Entry
    PROVE  e.msg \in Msgs /\ e.hashed \in BOOLEAN /\ e.deleted \in BOOLEAN /\ e.score \in -1 .. 100
  BY DEF Entry

LEMMA DeletedEntry ==
    ASSUME NEW e \in Entry, NEW d \in BOOLEAN, NEW f, f = [e EXCEPT !.deleted = d]
    PROVE  f \in Entry /\ f.msg = e.msg /\ f.deleted = d /\ f.score = e.score
  BY DEF Entry

LEMMA ScoredEntry ==
    ASSUME NEW e \in Entry, NEW n \in -1 .. 100, NEW f, f = [e EXCEPT !.score = n]
    PROVE  f \in Entry /\ f.msg = e.msg /\ f.deleted = e.deleted /\ f.score = n
  BY DEF Entry

LEMMA RebuiltEntry ==
    ASSUME NEW b \in Boxes, NEW m \in Msgs
    PROVE  Rebuilt(b, m) \in Entry /\ Rebuilt(b, m).msg = m
<1> DEFINE d == \E j \in Same(b, m) : box[b].saved[j].deleted /\ \A k \in Same(b, m) : j <= k
<1>1. d \in BOOLEAN
  OBVIOUS
<1>2. Rebuilt(b, m) = [msg |-> m, hashed |-> TRUE, score |-> -1, deleted |-> d]
  BY DEF Rebuilt
<1> HIDE DEF d
<1>3. -1 \in -1 .. 100
  OBVIOUS
<1>4. QED
  BY <1>1, <1>2, <1>3 DEF Entry

\* The table macmbx_toc_open returns has a summary for every message of the file.
LEMMA TableCovers ==
    ASSUME AllSound(box), NEW b \in Boxes
    PROVE  /\ Table(b) \in Seq(Entry)
           /\ Len(Table(b)) = Len(box[b].file)
           /\ DOMAIN Table(b) = DOMAIN box[b].file
           /\ \A k \in DOMAIN Table(b) : Table(b)[k].msg = box[b].file[k]
           /\ box[b].open => Table(b) = box[b].toc
           /\ ~box[b].open => \A k \in DOMAIN box[b].saved : Table(b)[k] = box[b].saved[k]
<1> PICK x : x = box[b]
  OBVIOUS
<1>1. Sound(x) /\ x \in Box
  BY DEF AllSound, Sound
<1>2. CASE x.open
  BY <1>1, <1>2 DEF Table, Sound, Covers, Box
<1>3. CASE ~x.open
  <2> DEFINE n == Len(x.file) - Len(x.saved)
             rest == [k \in 1 .. n |-> Rebuilt(b, x.file[Len(x.saved) + k])]
  <2>1. n \in Nat /\ Len(x.saved) \in Nat /\ Len(x.file) \in Nat /\ x.saved \in Seq(Entry) /\ x.file \in Seq(Msgs)
    BY <1>1 DEF Sound, Covers, Box
  <2>2. \A k \in 1 .. n : /\ Rebuilt(b, x.file[Len(x.saved) + k]) \in Entry
                          /\ Rebuilt(b, x.file[Len(x.saved) + k]).msg = x.file[Len(x.saved) + k]
    <3> SUFFICES ASSUME NEW k \in 1 .. n
                 PROVE  x.file[Len(x.saved) + k] \in Msgs
      BY RebuiltEntry
    <3>1. Len(x.saved) + k \in DOMAIN x.file
      BY <2>1
    <3>2. QED
      BY <2>1, <3>1
  <2>3. Table(b) = x.saved \o rest
    BY <1>3 DEF Table
  <2>4. rest \in [1 .. n -> Entry] /\ \A k \in 1 .. n : rest[k].msg = x.file[Len(x.saved) + k]
    BY <2>2
  <2> HIDE DEF rest, n
  <2>5. rest \in Seq(Entry) /\ Len(rest) = n
    BY <2>1, <2>4, SeqDef, LenProperties
  <2>6. /\ Table(b) \in Seq(Entry) /\ Len(Table(b)) = Len(x.saved) + n
        /\ \A k \in DOMAIN x.saved : Table(b)[k] = x.saved[k]
        /\ \A k \in 1 .. n : Table(b)[Len(x.saved) + k] = rest[k]
        /\ \A k \in DOMAIN Table(b) \ DOMAIN x.saved : k - Len(x.saved) \in 1 .. n /\ Table(b)[k] = rest[k - Len(x.saved)]
    <3>1. DOMAIN rest = 1 .. n /\ rest \in Seq(Entry) /\ x.saved \in Seq(Entry)
      BY <2>1, <2>5
    <3>2. Table(b) \in Seq(Entry) /\ Join(Table(b), x.saved, rest)
      BY <2>3, <3>1, Joined
    <3>3. QED
      BY <2>5, <3>1, <3>2 DEF Join
  <2>7. Len(Table(b)) = Len(x.file)
    BY <2>1, <2>6 DEF n
  <2>8. \A k \in DOMAIN Table(b) : Table(b)[k].msg = x.file[k]
    <3>1. \A k \in DOMAIN x.saved : Table(b)[k].msg = x.file[k]
      BY <1>1, <2>6 DEF Sound, Covers
    <3>2. \A k \in DOMAIN Table(b) : Len(x.saved) + (k - Len(x.saved)) = k
      BY <2>1, <2>6, SMTT(60)
    <3>3. QED
      BY <2>4, <2>6, <3>1, <3>2, SMTT(30)
  <2>9. \A k \in DOMAIN x.saved : Table(b)[k] = x.saved[k]
    BY <2>6
  <2>10. DOMAIN Table(b) = DOMAIN x.file
    BY <2>1, <2>6, <2>7
  <2>11. QED
    BY <1>3, <2>6, <2>7, <2>8, <2>9, <2>10
<1>4. QED
  BY <1>2, <1>3

\* An open mailbox with its table.
LEMMA OpenedSound ==
    ASSUME AllSound(box), NEW b \in Boxes
    PROVE  /\ Sound(Opened(b))
           /\ Opened(b).open /\ Opened(b).toc = Table(b)
           /\ Opened(b).file = box[b].file /\ Opened(b).saved = box[b].saved
<1>1. Sound(box[b]) /\ box[b] \in Box
  BY DEF AllSound, Sound
<1>2. Opened(b) = [box[b] EXCEPT !.open = TRUE, !.toc = Table(b)]
  BY DEF Opened
<1>3. Table(b) \in Seq(Entry) /\ Len(Table(b)) = Len(box[b].file)
      /\ \A k \in DOMAIN Table(b) : Table(b)[k].msg = box[b].file[k]
  BY TableCovers
<1>4. Opened(b) \in Box /\ Opened(b).open /\ Opened(b).toc = Table(b)
      /\ Opened(b).file = box[b].file /\ Opened(b).saved = box[b].saved
  BY <1>1, <1>2, <1>3 DEF Box
<1>5. Len(box[b].file) \in Nat
  BY <1>1 DEF Box
<1>6. QED
  BY <1>1, <1>3, <1>4, <1>5 DEF Sound, Covers

\* A message appended to an open mailbox.
LEMMA AppendedSound ==
    ASSUME NEW x, Sound(x), x.open, NEW e \in Entry,
           NEW y, y.open, y.saved = x.saved, y.toc = Append(x.toc, e), y.file = Append(x.file, e.msg),
           y = [open |-> y.open, toc |-> y.toc, file |-> y.file, saved |-> y.saved]
    PROVE  Sound(y)
<1>1. x \in Box /\ x.toc \in Seq(Entry) /\ x.file \in Seq(Msgs) /\ x.saved \in Seq(Entry)
  BY DEF Sound, Box
<1>2. e.msg \in Msgs
  BY EntryFields
<1>3. /\ y.toc \in Seq(Entry) /\ y.file \in Seq(Msgs)
      /\ Len(y.toc) = Len(x.toc) + 1 /\ Len(y.file) = Len(x.file) + 1
      /\ DOMAIN y.toc = DOMAIN x.toc \cup {Len(x.toc) + 1}
      /\ \A k \in DOMAIN x.toc : y.toc[k] = x.toc[k]
      /\ \A k \in DOMAIN x.file : y.file[k] = x.file[k]
      /\ y.toc[Len(x.toc) + 1] = e /\ y.file[Len(x.file) + 1] = e.msg
  BY <1>1, <1>2, SMTT(30)
<1>4. y \in Box
  BY <1>1, <1>3 DEF Box
<1>5. Covers(y.toc, y.file) /\ Len(y.toc) = Len(y.file)
  BY <1>1, <1>3 DEF Sound, Covers
<1>6. Covers(y.saved, y.file)
  BY <1>1, <1>3 DEF Sound, Covers
<1>7. QED
  BY <1>4, <1>5, <1>6 DEF Sound

\* The summary of one message of an open mailbox changed.
LEMMA ChangedSound ==
    ASSUME NEW x, Sound(x), x.open, NEW k \in DOMAIN x.toc, NEW e \in Entry, e.msg = x.toc[k].msg,
           NEW y, y = [x EXCEPT !.toc = [@ EXCEPT ![k] = e]]
    PROVE  /\ Sound(y) /\ y.open /\ y.saved = x.saved /\ y.file = x.file
           /\ DOMAIN y.toc = DOMAIN x.toc /\ y.toc[k] = e
           /\ \A j \in DOMAIN x.toc : j # k => y.toc[j] = x.toc[j]
<1>1. x \in Box /\ x.toc \in Seq(Entry) /\ x.file \in Seq(Msgs) /\ x.saved \in Seq(Entry)
  BY DEF Sound, Box
<1> DEFINE t == [x.toc EXCEPT ![k] = e]
<1>2. y = [open |-> x.open, toc |-> t, file |-> x.file, saved |-> x.saved]
  BY <1>1 DEF Box
<1>3. /\ t \in Seq(Entry) /\ Len(t) = Len(x.toc) /\ DOMAIN t = DOMAIN x.toc /\ t[k] = e
      /\ \A j \in DOMAIN x.toc : j # k => t[j] = x.toc[j]
  BY <1>1
<1> HIDE DEF t
<1>4. y.open /\ y.saved = x.saved /\ y.file = x.file /\ y.toc = t
  BY <1>2
<1>5. y \in Box
  BY <1>1, <1>2, <1>3, <1>4 DEF Box
<1>6. Covers(t, x.file) /\ Len(t) = Len(x.file)
  BY <1>3 DEF Sound, Covers
<1>7. QED
  BY <1>3, <1>4, <1>5, <1>6 DEF Sound

LEMMA MailSeq ==
    ASSUME NEW t \in Seq(Entry)
    PROVE  /\ Mail(t) \in Seq(Msgs) /\ Len(Mail(t)) = Len(t) /\ DOMAIN Mail(t) = DOMAIN t
           /\ \A k \in DOMAIN t : Mail(t)[k] = t[k].msg
<1>1. \A k \in DOMAIN t : t[k].msg \in Msgs
  BY EntryFields
<1>2. Mail(t) = [k \in 1 .. Len(t) |-> t[k].msg] /\ Len(t) \in Nat /\ DOMAIN t = 1 .. Len(t)
  BY DEF Mail
<1>3. Mail(t) \in [1 .. Len(t) -> Msgs]
  BY <1>1, <1>2
<1>4. Mail(t) \in Seq(Msgs)
  BY <1>2, <1>3, SeqDef
<1>5. DOMAIN Mail(t) = 1 .. Len(t)
  BY <1>2
<1>6. Len(Mail(t)) = Len(t)
  BY <1>2, <1>4, <1>5, LenProperties
<1>7. QED
  BY <1>2, <1>4, <1>5, <1>6

\* A mailbox whose mbox file and .toc file are written anew from its table.
Written(t) == [open |-> TRUE, toc |-> t, file |-> Mail(t), saved |-> t]

LEMMA WrittenSound == ASSUME NEW t \in Seq(Entry) PROVE Sound(Written(t))
<1> PICK f : f = Mail(t)
  OBVIOUS
<1>1. f \in Seq(Msgs) /\ Len(f) = Len(t) /\ DOMAIN f = DOMAIN t /\ \A k \in DOMAIN t : f[k] = t[k].msg
  BY MailSeq
<1>2. Written(t) = [open |-> TRUE, toc |-> t, file |-> f, saved |-> t]
  BY DEF Written
<1>3. Written(t) \in Box
  BY <1>1, <1>2 DEF Box
<1>4. Covers(t, f)
  BY <1>1 DEF Covers
<1>5. QED
  BY <1>1, <1>2, <1>3, <1>4 DEF Sound

\* The table of In once the messages new are appended to it.
Received(new) == Table("In") \o [n \in DOMAIN new |-> Unread(new[n])]

\* What a check appends to In: each of its messages once, after what is there.
LEMMA ReceivedTable ==
    ASSUME AllSound(box), NEW ms \in SUBSET Msgs, IsFiniteSet(ms), NEW new \in SetToSeqs(ms),
           NEW t, t = Received(new)
    PROVE  /\ t \in Seq(Entry) /\ new \in Seq(Msgs) /\ "In" \in Boxes
           /\ Len(t) = Len(box["In"].file) + Len(new)
           /\ \A k \in DOMAIN t \ DOMAIN box["In"].file :
                 k - Len(box["In"].file) \in DOMAIN new /\ t[k] = Unread(new[k - Len(box["In"].file)])
           /\ \A k \in DOMAIN box["In"].file : k \in DOMAIN t /\ t[k] = Table("In")[k]
           /\ \A n \in DOMAIN new : /\ Len(box["In"].file) + n \in DOMAIN t
                                    /\ t[Len(box["In"].file) + n] = Unread(new[n])
                                    /\ new[n] \in ms
           /\ \A m \in ms : \E n \in DOMAIN new : new[n] = m
           /\ \A n, o \in DOMAIN new : new[n] = new[o] => n = o
<1> DEFINE c == Cardinality(ms)
           u == [n \in DOMAIN new |-> Unread(new[n])]
<1>1. "In" \in Boxes
  BY DEF Boxes
<1>2. c \in Nat
  BY FS_CardinalityType
<1>3. new \in [1 .. c -> ms] /\ \A n, o \in 1 .. c : n # o => new[n] # new[o]
  BY DEF SetToSeqs
<1>4. \A m \in ms : \E n \in 1 .. c : new[n] = m
  <2>1. new \in Injection(1 .. c, ms)
    BY <1>3 DEF Injection, IsInjective
  <2>2. Cardinality(1 .. c) = c
    BY <1>2, FS_Interval
  <2>3. new \in Surjection(1 .. c, ms)
    BY <2>1, <2>2, FS_Injection
  <2>4. QED
    BY <2>3 DEF Surjection
<1> HIDE DEF c
<1>5. DOMAIN new = 1 .. c /\ new \in [1 .. c -> Msgs]
  BY <1>3
<1>6. new \in Seq(Msgs) /\ Len(new) = c
  BY <1>2, <1>5, SeqDef, LenProperties
<1>7. u \in [1 .. c -> Entry]
  <2>1. \A m \in Msgs : Unread(m) \in Entry
    BY DEF Unread, Entry
  <2>2. QED
    BY <1>5, <2>1
<1>8. \A n \in 1 .. c : u[n] = Unread(new[n])
  BY <1>5
<1>9. t = Table("In") \o u
  BY DEF Received
<1> HIDE DEF u
<1>10. u \in Seq(Entry) /\ Len(u) = c
  BY <1>2, <1>7, SeqDef, LenProperties
<1> PICK v : v = Table("In")
  OBVIOUS
<1>11. v \in Seq(Entry) /\ Len(v) = Len(box["In"].file) /\ DOMAIN v = DOMAIN box["In"].file
  BY <1>1, TableCovers
<1>12. /\ t \in Seq(Entry) /\ Len(t) = Len(v) + c
       /\ \A k \in DOMAIN v : k \in DOMAIN t /\ t[k] = v[k]
       /\ \A n \in 1 .. c : Len(v) + n \in DOMAIN t /\ t[Len(v) + n] = u[n]
       /\ \A k \in DOMAIN t \ DOMAIN v : k - Len(v) \in 1 .. c /\ t[k] = u[k - Len(v)]
  <2>1. DOMAIN u = 1 .. c
    BY <1>2, <1>10
  <2>2. t \in Seq(Entry) /\ Join(t, v, u)
    BY <1>9, <1>10, <1>11, Joined
  <2>3. QED
    BY <1>10, <2>1, <2>2 DEF Join
<1>l. PICK l : l = Len(v)
  OBVIOUS
<1>13. \A n \in DOMAIN new : l + n \in DOMAIN t /\ t[l + n] = Unread(new[n]) /\ new[n] \in ms
  <2> SUFFICES ASSUME NEW n \in DOMAIN new
               PROVE  l + n \in DOMAIN t /\ t[l + n] = Unread(new[n]) /\ new[n] \in ms
    OBVIOUS
  <2>1. n \in 1 .. c
    BY <1>5
  <2>2. t[l + n] = u[n] /\ l + n \in DOMAIN t
    BY <1>12, <1>l, <2>1
  <2>3. QED
    BY <1>3, <1>8, <2>1, <2>2
<1>14. \A k \in DOMAIN t \ DOMAIN v : k - l \in DOMAIN new /\ t[k] = Unread(new[k - l])
  <2> SUFFICES ASSUME NEW k \in DOMAIN t \ DOMAIN v PROVE k - l \in DOMAIN new /\ t[k] = Unread(new[k - l])
    OBVIOUS
  <2>1. k - l \in 1 .. c /\ t[k] = u[k - l]
    BY <1>12, <1>l
  <2>2. QED
    BY <1>5, <1>8, <2>1
<1>15. \A k \in DOMAIN box["In"].file : k \in DOMAIN t /\ t[k] = Table("In")[k]
  BY <1>11, <1>12
<1>16. /\ Len(t) = Len(box["In"].file) + Len(new)
       /\ \A m \in ms : \E n \in DOMAIN new : new[n] = m
       /\ \A n, o \in DOMAIN new : new[n] = new[o] => n = o
  BY <1>3, <1>4, <1>5, <1>6, <1>11, <1>12, ZenonT(40)
<1>17. QED
  BY <1>1, <1>6, <1>11, <1>12, <1>13, <1>14, <1>15, <1>16, <1>l

\* What a compaction leaves in the table.
LEMMA CompactedTable ==
    ASSUME AllSound(box), NEW b \in Boxes,
           NEW t, t = Kept(box[b].toc, {k \in DOMAIN box[b].toc : ~box[b].toc[k].deleted})
    PROVE  /\ t \in Seq(Entry)
           /\ \E f : Places(f, t, box[b].toc, {k \in DOMAIN box[b].toc : ~box[b].toc[k].deleted})
<1> PICK s : s = box[b].toc
  OBVIOUS
<1>1. s \in Seq(Entry)
  BY DEF AllSound, Sound, Box
<1>2. QED
  BY <1>1, KeptSeq

-----------------------------------------------------------------------------
(* Changes to the mailboxes                                                *)

LEMMA BoxNames == "In" \in Boxes /\ "Junk" \in Boxes /\ "In" # "Junk" /\ "main" \in Threads
  BY DEF Boxes, Threads

\* The summary at k of b becomes e.
Changed(N, B, b, k, e) ==
    /\ \A x \in Boxes \ {b} : N[x] = B[x]
    /\ N[b].open /\ N[b].file = B[b].file /\ N[b].saved = B[b].saved
    /\ DOMAIN N[b].toc = DOMAIN B[b].toc
    /\ \A j \in DOMAIN B[b].toc : j # k => N[b].toc[j] = B[b].toc[j]
    /\ N[b].toc[k] = e

LEMMA ChangedBox ==
    ASSUME NEW B, AllSound(B), NEW b \in Boxes, B[b].open, NEW k \in DOMAIN B[b].toc,
           NEW e \in Entry, e.msg = B[b].toc[k].msg,
           NEW y, y = [B[b] EXCEPT !.toc = [@ EXCEPT ![k] = e]],
           NEW N, N = [B EXCEPT ![b] = y]
    PROVE  AllSound(N) /\ Changed(N, B, b, k, e)
<1>1. Sound(B[b])
  BY DEF AllSound
<1>2. /\ Sound(y) /\ y.open /\ y.saved = B[b].saved /\ y.file = B[b].file
      /\ DOMAIN y.toc = DOMAIN B[b].toc /\ y.toc[k] = e
      /\ \A j \in DOMAIN B[b].toc : j # k => y.toc[j] = B[b].toc[j]
  BY <1>1, ChangedSound
<1>3. DOMAIN N = Boxes /\ N[b] = y /\ \A z \in Boxes \ {b} : N[z] = B[z]
  BY DEF AllSound
<1>4. AllSound(N)
  BY <1>2, <1>3 DEF AllSound
<1>5. QED
  BY <1>2, <1>3, <1>4 DEF Changed

\* A summary marked deleted, or scored.
LEMMA MarkedBox ==
    ASSUME NEW B, AllSound(B), NEW b \in Boxes, B[b].open, NEW k \in DOMAIN B[b].toc
    PROVE  /\ AllSound([B EXCEPT ![b].toc[k].deleted = TRUE])
           /\ \E e \in Entry : /\ Changed([B EXCEPT ![b].toc[k].deleted = TRUE], B, b, k, e)
                             /\ e.msg = B[b].toc[k].msg /\ e.deleted /\ e.score = B[b].toc[k].score
<1>s. PICK s : s = B[b].toc[k]
  OBVIOUS
<1>e. PICK e : e = [s EXCEPT !.deleted = TRUE]
  OBVIOUS
<1>y. PICK y : y = [B[b] EXCEPT !.toc = [@ EXCEPT ![k] = e]]
  OBVIOUS
<1>N. PICK N : N = [B EXCEPT ![b] = y]
  OBVIOUS
<1>1. s \in Entry
  BY <1>s DEF AllSound, Sound, Box
<1>2. e \in Entry /\ e.msg = s.msg /\ e.deleted = TRUE /\ e.score = s.score
  BY <1>1, <1>e, DeletedEntry
<1>3. e.msg = B[b].toc[k].msg
  BY <1>2, <1>s
<1>4. AllSound(N) /\ Changed(N, B, b, k, e)
  BY <1>2, <1>3, <1>y, <1>N, ChangedBox
<1>5. N = [B EXCEPT ![b].toc[k].deleted = TRUE]
  BY <1>N, <1>e, <1>s, <1>y
<1>6. QED
  BY <1>2, <1>3, <1>4, <1>5, <1>s

\* N is B with another score for the message at k of b.
Rescored(N, B, b, k, n) ==
    \E e \in Entry : /\ Changed(N, B, b, k, e)
                     /\ e.msg = B[b].toc[k].msg /\ e.deleted = B[b].toc[k].deleted /\ e.score = n

LEMMA ScoredBox ==
    ASSUME NEW B, AllSound(B), NEW b \in Boxes, B[b].open, NEW k \in DOMAIN B[b].toc, NEW n \in -1 .. 100,
           NEW M, M = [B EXCEPT ![b].toc[k].score = n]
    PROVE  AllSound(M) /\ Rescored(M, B, b, k, n)
<1>s. PICK s : s = B[b].toc[k]
  OBVIOUS
<1>e. PICK e : e = [s EXCEPT !.score = n]
  OBVIOUS
<1>y. PICK y : y = [B[b] EXCEPT !.toc = [@ EXCEPT ![k] = e]]
  OBVIOUS
<1>N. PICK N : N = [B EXCEPT ![b] = y]
  OBVIOUS
<1>1. s \in Entry
  BY <1>s DEF AllSound, Sound, Box
<1>2. e \in Entry /\ e.msg = s.msg /\ e.deleted = s.deleted /\ e.score = n
  BY <1>1, <1>e, ScoredEntry, SMTT(30)
<1>3. e.msg = B[b].toc[k].msg
  BY <1>2, <1>s
<1>4. AllSound(N) /\ Changed(N, B, b, k, e)
  BY <1>2, <1>3, <1>y, <1>N, ChangedBox
<1>5. N = [B EXCEPT ![b].toc[k].score = n]
  BY <1>N, <1>e, <1>s, <1>y
<1>6. e.deleted = B[b].toc[k].deleted
  BY <1>2, <1>s
<1>7. QED
  BY <1>2, <1>3, <1>4, <1>5, <1>6 DEF Rescored


\* m is at the place k of b, in memory and after a crash.
SafeAt(B, b, k, m) ==
    /\ k \in DOMAIN B[b].file /\ B[b].file[k] = m
    /\ B[b].open => ~B[b].toc[k].deleted
    /\ k \in DOMAIN B[b].saved => ~B[b].saved[k].deleted

\* From B to N mailboxes are opened or saved and the summaries at the places E
\* written: all others stay as they are, and whatever is not excused and not
\* deleted in memory stays safe.
Small(N, B, E) ==
    /\ AllSound(N)
    /\ \A x \in Boxes : (B[x].open => N[x].open) /\ N[x].file = B[x].file
    /\ \A x \in Boxes : \A j \in DOMAIN B[x].toc :
          B[x].open /\ <<x, j>> \notin E => N[x].toc[j] = B[x].toc[j]
    /\ \A x \in Boxes : \A j \in DOMAIN B[x].file : \A m \in Msgs \ excused' :
          SafeAt(B, x, j, m) /\ (<<x, j>> \in E => ~N[x].toc[j].deleted) => SafeAt(N, x, j, m)

LEMMA SmallMail ==
    ASSUME NEW B, AllSound(B), NEW N, NEW E, Small(N, B, E), NEW x \in Boxes, B[x].open
    PROVE  /\ N[x].open /\ DOMAIN N[x].toc = DOMAIN B[x].toc /\ DOMAIN B[x].toc = DOMAIN B[x].file
           /\ \A j \in DOMAIN B[x].toc : /\ N[x].toc[j].msg = B[x].toc[j].msg
                                         /\ B[x].toc[j].msg = B[x].file[j]
<1>1. Sound(B[x]) /\ Sound(N[x]) /\ N[x].open /\ N[x].file = B[x].file
  BY DEF Small, AllSound
<1>2. /\ DOMAIN N[x].toc = DOMAIN N[x].file /\ DOMAIN B[x].toc = DOMAIN B[x].file
      /\ \A j \in DOMAIN N[x].toc : N[x].toc[j].msg = N[x].file[j]
      /\ \A j \in DOMAIN B[x].toc : B[x].toc[j].msg = B[x].file[j]
  BY <1>1 DEF Sound, Covers, Box
<1>3. QED
  BY <1>1, <1>2

LEMMA SmallNot == ASSUME NEW B, AllSound(B) PROVE Small(B, B, {})
  BY DEF Small

\* Two changes, only one of which writes.
LEMMA SmallThen ==
    ASSUME NEW B, AllSound(B), NEW N, NEW M, NEW E, NEW F, Small(N, B, E), Small(M, N, F),
           \A x \in Boxes : \A j : <<x, j>> \in E => B[x].open,
           E = {} \/ F = {}
    PROVE  Small(M, B, E \cup F)
<1>1. AllSound(M) /\ \A x \in Boxes : (B[x].open => M[x].open) /\ M[x].file = B[x].file
  BY DEF Small
<1>2. ASSUME NEW x \in Boxes, NEW j \in DOMAIN B[x].toc, B[x].open, <<x, j>> \notin E \cup F
      PROVE  M[x].toc[j] = B[x].toc[j]
  <2>1. N[x].open /\ j \in DOMAIN N[x].toc
    BY <1>2, SmallMail
  <2>2. N[x].toc[j] = B[x].toc[j]
    BY <1>2 DEF Small
  <2>3. M[x].toc[j] = N[x].toc[j]
    BY <1>2, <2>1 DEF Small
  <2>4. QED
    BY <2>2, <2>3
<1>3. ASSUME NEW x \in Boxes, NEW j \in DOMAIN B[x].file, NEW m \in Msgs \ excused', SafeAt(B, x, j, m),
             <<x, j>> \in E \cup F => ~M[x].toc[j].deleted
      PROVE  SafeAt(M, x, j, m)
  <2>1. <<x, j>> \in E => ~N[x].toc[j].deleted
    <3>1. SUFFICES ASSUME <<x, j>> \in E PROVE ~N[x].toc[j].deleted
      OBVIOUS
    <3>2. F = {} /\ B[x].open
      BY <3>1
    <3>3. j \in DOMAIN N[x].toc /\ N[x].open
      BY <3>2, SmallMail
    <3>4. M[x].toc[j] = N[x].toc[j]
      BY <3>2, <3>3 DEF Small
    <3>5. QED
      BY <1>3, <3>1, <3>4
  <2>2. SafeAt(N, x, j, m) /\ j \in DOMAIN N[x].file
    BY <1>3, <2>1 DEF Small
  <2>3. QED
    BY <1>3, <2>2 DEF Small
<1>4. QED
  BY <1>1, <1>2, <1>3 DEF Small

\* Opening a mailbox loses only mail that the rebuild takes for deleted.
LEMMA OpenedSafe ==
    ASSUME AllSound(box), NEW c \in Boxes, NEW j \in DOMAIN box[c].file, NEW m \in Msgs,
           SafeAt(box, c, j, m), m \notin Inherited(c)
    PROVE  ~Table(c)[j].deleted
<1>1. Sound(box[c]) /\ j \in DOMAIN Table(c) /\ Table(c)[j].msg = m
  BY TableCovers DEF AllSound, SafeAt
<1>2. CASE box[c].open
  BY <1>2, TableCovers DEF SafeAt
<1>3. CASE ~box[c].open /\ j \in DOMAIN box[c].saved
  BY <1>3, TableCovers DEF SafeAt
<1>4. CASE ~box[c].open /\ j \notin DOMAIN box[c].saved
  <2>1. j > Len(box[c].saved)
    BY <1>1, <1>4 DEF Sound, Box
  <2>2. QED
    BY <1>1, <1>4, <2>1 DEF Inherited
<1>5. QED
  BY <1>2, <1>3, <1>4

LEMMA SmallOpened ==
    ASSUME AllSound(box), NEW c \in Boxes, Inherited(c) \subseteq excused',
           NEW N, N = [box EXCEPT ![c] = Opened(c)]
    PROVE  Small(N, box, {}) /\ N[c].open /\ \A x \in Boxes \ {c} : N[x] = box[x]
<1>y. PICK y : y = Opened(c)
  OBVIOUS
<1>1. Sound(y) /\ y.open /\ y.toc = Table(c) /\ y.file = box[c].file /\ y.saved = box[c].saved
  BY <1>y, OpenedSound
<1>2. DOMAIN N = Boxes /\ N[c] = y /\ \A x \in Boxes \ {c} : N[x] = box[x]
  BY <1>y DEF AllSound
<1>3. AllSound(N)
  BY <1>1, <1>2 DEF AllSound
<1>4. \A x \in Boxes : (box[x].open => N[x].open) /\ N[x].file = box[x].file
  BY <1>1, <1>2
<1>5. \A x \in Boxes : box[x].open => N[x].toc = box[x].toc
  BY <1>1, <1>2, TableCovers
<1>6. ASSUME NEW x \in Boxes, NEW j \in DOMAIN box[x].file, NEW m \in Msgs \ excused', SafeAt(box, x, j, m)
      PROVE  SafeAt(N, x, j, m)
  <2>1. CASE x # c
    BY <1>2, <1>6, <2>1 DEF SafeAt
  <2>2. CASE x = c
    <3>1. ~Table(c)[j].deleted
      BY <1>6, <2>2, OpenedSafe
    <3>2. QED
      BY <1>1, <1>2, <1>6, <2>2, <3>1 DEF SafeAt
  <2>3. QED
    BY <2>1, <2>2
<1>7. QED
  BY <1>1, <1>2, <1>3, <1>4, <1>5, <1>6 DEF Small

LEMMA SmallChanged ==
    ASSUME NEW B, AllSound(B), NEW b \in Boxes, B[b].open, NEW k \in DOMAIN B[b].toc,
           NEW e, NEW N, AllSound(N), Changed(N, B, b, k, e)
    PROVE  Small(N, B, {<<b, k>>}) /\ N[b].toc[k] = e
<1>1. \A x \in Boxes : (B[x].open => N[x].open) /\ N[x].file = B[x].file /\ N[x].saved = B[x].saved
  BY DEF Changed
<1>2. ASSUME NEW x \in Boxes, NEW j \in DOMAIN B[x].toc, <<x, j>> # <<b, k>>
      PROVE  N[x].toc[j] = B[x].toc[j]
  BY <1>2 DEF Changed
<1>3. ASSUME NEW x \in Boxes, NEW j \in DOMAIN B[x].file, NEW m, SafeAt(B, x, j, m),
             <<x, j>> = <<b, k>> => ~N[x].toc[j].deleted
      PROVE  SafeAt(N, x, j, m)
  <2>1. CASE x # b
    BY <1>3, <2>1 DEF Changed, SafeAt
  <2>2. CASE x = b /\ j # k
    <3>1. Sound(B[b])
      BY DEF AllSound
    <3>2. j \in DOMAIN B[b].toc
      BY <1>3, <2>2, <3>1 DEF Sound, Box
    <3>3. N[b].toc[j] = B[b].toc[j]
      BY <2>2, <3>2 DEF Changed
    <3>4. QED
      BY <1>1, <1>3, <2>2, <3>3 DEF SafeAt
  <2>3. CASE x = b /\ j = k
    BY <1>1, <1>3, <2>3 DEF SafeAt
  <2>4. QED
    BY <2>1, <2>2, <2>3
<1>4. QED
  BY <1>1, <1>2, <1>3 DEF Small, Changed

\* Tables that are open are written to their .toc files.
LEMMA SmallSaved ==
    ASSUME NEW B, AllSound(B), NEW bs, \A x \in Boxes : x \in bs => B[x].open,
           NEW N, N = Saving(B, bs)
    PROVE  Small(N, B, {}) /\ \A x \in Boxes : N[x].toc = B[x].toc /\ N[x].open = B[x].open
<1>1. ASSUME NEW x \in Boxes
      PROVE  /\ Sound(N[x]) /\ N[x].open = B[x].open /\ N[x].file = B[x].file /\ N[x].toc = B[x].toc
             /\ x \in bs => N[x].saved = B[x].toc
             /\ x \notin bs => N[x].saved = B[x].saved
  <2>1. Sound(B[x]) /\ B[x] \in Box
    BY DEF AllSound, Sound
  <2>2. CASE x \notin bs
    BY <2>1, <2>2 DEF Saving
  <2>3. CASE x \in bs
    <3>1. N[x] = [B[x] EXCEPT !.saved = B[x].toc] /\ B[x].open
      BY <2>3 DEF Saving
    <3>2. N[x] \in Box /\ N[x].open = B[x].open /\ N[x].file = B[x].file /\ N[x].toc = B[x].toc /\ N[x].saved = B[x].toc
      BY <2>1, <3>1 DEF Box
    <3>3. QED
      BY <2>1, <2>3, <3>1, <3>2 DEF Sound
  <2>4. QED
    BY <2>2, <2>3
<1>2. AllSound(N)
  BY <1>1 DEF Saving, AllSound
<1>3. ASSUME NEW x \in Boxes, NEW j \in DOMAIN B[x].file, NEW m, SafeAt(B, x, j, m)
      PROVE  SafeAt(N, x, j, m)
  BY <1>1, <1>3 DEF SafeAt
<1>4. QED
  BY <1>1, <1>2, <1>3 DEF Small

LEMMA SmallWider ==
    ASSUME NEW B, NEW N, Small(N, B, {}), NEW E
    PROVE  Small(N, B, E)
  BY DEF Small

-----------------------------------------------------------------------------
(* The inductive invariant: types                                          *)

\* In the middle of a transfer.
Held(p) == xfer[p].stage \in {"append", "describe", "mark"}

Control ==
    /\ rules \in RuleSets
    /\ pc \in [Checkers -> {"idle", "filter", "score", "judge", "move"}]
    /\ i \in [Checkers -> Nat] /\ r \in [Checkers -> 1 .. Len(rules) + 1]
    /\ todo \in [Checkers -> Seq(Action)]
    /\ \A q \in Checkers : todo[q] # <<>> => pc[q] = "filter" /\ i[q] > 0
    /\ \A q \in Checkers : pc[q] = "score" => i[q] > 0

\* A check works on In, and waits for its transfer.
Checking(q) ==
    /\ pc[q] # "idle" => box["In"].open
    /\ pc[q] = "judge" => i[q] \in DOMAIN box["In"].toc
    /\ pc[q] = "move" => box["Junk"].open
    /\ ~Free(q) => /\ Held(q)
                   /\ (pc[q] = "filter" /\ todo[q] # <<>>) \/ (pc[q] = "move" /\ i[q] > 0)

\* A transfer is between two open mailboxes, of a message that is in the first
\* and, once it is appended, in the second.
Transferring(p) ==
    ~Free(p) =>
       /\ xfer[p].from # xfer[p].to /\ box[xfer[p].from].open /\ box[xfer[p].to].open
       /\ Held(p) => xfer[p].at \in DOMAIN box[xfer[p].from].toc
       /\ xfer[p].stage = "append" => xfer[p].new = 0
       /\ xfer[p].stage \in {"describe", "mark"} => xfer[p].new \in DOMAIN box[xfer[p].to].toc
       /\ xfer[p].stage = "describe" =>
             box[xfer[p].to].toc[xfer[p].new].msg = box[xfer[p].from].toc[xfer[p].at].msg
       /\ p = "main" => ~xfer[p].copy

Good(p) == (p \in Checkers => Checking(p)) /\ Transferring(p)

History ==
    /\ arrived \subseteq Msgs /\ copied \subseteq Msgs /\ excused \subseteq Msgs
    /\ ham \subseteq Msgs /\ raced \subseteq Msgs

Counts == crashes \in 0 .. events /\ events \in 0 .. MaxEvents

TypeInv ==
    /\ AllSound(box) /\ Control /\ History /\ Counts
    /\ xfer \in [Threads -> Transfer]
    /\ \A p \in Threads : Good(p)

LEMMA TypeInvTypeOK == TypeInv => TypeOK
<1> SUFFICES ASSUME TypeInv PROVE TypeOK
  OBVIOUS
<1>1. ASSUME NEW b \in Boxes
      PROVE  /\ box[b].open \in BOOLEAN
             /\ {box[b].toc, box[b].saved} \subseteq Seq(Entry)
             /\ box[b].file \in Seq(Msgs)
             /\ box[b].open => Mail(box[b].toc) = box[b].file
             /\ IsPrefix(Mail(box[b].saved), box[b].file)
  <2>x. PICK x : x = box[b]
    OBVIOUS
  <2>1. Sound(x)
    BY <2>x DEF TypeInv, AllSound
  <2>2. x.open \in BOOLEAN /\ x.toc \in Seq(Entry) /\ x.saved \in Seq(Entry) /\ x.file \in Seq(Msgs)
    BY <2>1 DEF Sound, Box
  <2>3. ASSUME x.open PROVE Mail(x.toc) = x.file
    <3>1. DOMAIN x.toc = DOMAIN x.file /\ \A k \in DOMAIN x.toc : x.toc[k].msg = x.file[k]
      BY <2>1, <2>2, <2>3 DEF Sound, Covers
    <3>2. x.file = [k \in DOMAIN x.file |-> x.file[k]]
      BY <2>2
    <3>3. QED
      BY <3>1, <3>2 DEF Mail
  <2>4. IsPrefix(Mail(x.saved), x.file)
    <3>m. PICK m : m = Mail(x.saved)
      OBVIOUS
    <3>1. m \in Seq(Msgs) /\ Len(m) = Len(x.saved) /\ DOMAIN m = DOMAIN x.saved
          /\ \A k \in DOMAIN x.saved : m[k] = x.saved[k].msg
      BY <2>2, <3>m, MailSeq
    <3>2. Len(m) <= Len(x.file) /\ \A k \in 1 .. Len(m) : m[k] = x.file[k]
      BY <2>1, <2>2, <3>1 DEF Sound, Covers
    <3>3. SubSeq(m, 1, Len(m)) = SubSeq(x.file, 1, Len(m))
      BY <2>2, <3>1, <3>2
    <3>4. QED
      BY <3>2, <3>3, <3>m DEF IsPrefix
  <2>5. QED
    BY <2>2, <2>3, <2>4, <2>x
<1>2. DOMAIN box = Boxes
  BY DEF TypeInv, AllSound
<1>3. ASSUME NEW q \in Checkers
      PROVE  /\ pc[q] # "filter" => todo[q] = <<>>
             /\ pc[q] # "idle" => box["In"].open
             /\ pc[q] = "judge" => i[q] \in DOMAIN box["In"].toc
  <2>1. q \in Threads
    BY DEF Threads
  <2>2. QED
    BY <2>1 DEF TypeInv, Control, Good, Checking
<1>4. ASSUME NEW p \in Threads, xfer[p].stage \in {"append", "describe", "mark"}
      PROVE  /\ box[xfer[p].from].open /\ xfer[p].at \in DOMAIN box[xfer[p].from].toc
             /\ box[xfer[p].to].open /\ xfer[p].new \in DOMAIN box[xfer[p].to].toc \cup {0}
  <2>1. ~Free(p) /\ Held(p) /\ Transferring(p)
    BY <1>4 DEF Free, Held, TypeInv, Good
  <2>2. QED
    BY <1>4, <2>1 DEF Transferring
<1>5. /\ rules \in RuleSets
      /\ pc \in [Checkers -> {"idle", "filter", "score", "judge", "move"}]
      /\ i \in [Checkers -> Nat] /\ r \in [Checkers -> 1 .. Len(rules) + 1]
      /\ todo \in [Checkers -> Seq(Action)]
      /\ xfer \in [Threads -> Transfer]
      /\ crashes \in 0 .. events /\ events \in 0 .. MaxEvents
  BY DEF TypeInv, Control, Counts
<1>6. \A h \in {arrived, copied, excused, ham, raced} : h \subseteq Msgs
  BY DEF TypeInv, History
<1>7. QED
  BY <1>1, <1>2, <1>3, <1>4, <1>5, <1>6 DEF TypeOK

LEMMA InitTypeInv == Init => TypeInv
<1> SUFFICES ASSUME Init PROVE TypeInv
  OBVIOUS
<1>1. AllSound(box)
  BY DEF Init, AllSound, Sound, Box, Covers
<1>2. Control
  <2>1. rules \in RuleSets /\ Len(rules) \in Nat
    BY RulesAssumption DEF Init
  <2>2. <<>> \in Seq(Action) /\ 1 \in 1 .. Len(rules) + 1
    BY <2>1
  <2>3. QED
    BY <2>1, <2>2 DEF Init, Control
<1>3. NoTransfer \in Transfer /\ NoTransfer.stage = "none"
  BY DEF NoTransfer, Transfer, Boxes
<1>4. xfer \in [Threads -> Transfer] /\ \A p \in Threads : Free(p)
  BY <1>3 DEF Init, Free
<1>5. \A p \in Threads : Good(p)
  BY <1>4 DEF Init, Good, Checking, Transferring
<1>6. QED
  BY <1>1, <1>2, <1>4, <1>5, BoundAssumption DEF Init, TypeInv, History, Counts

-----------------------------------------------------------------------------
(* The check threads and their transfers, one step at a time               *)

\* Only p goes on.
Apart(p) ==
    /\ \A t \in Threads \ {p} : xfer'[t] = xfer[t]
    /\ \A q \in Checkers \ {p} : pc'[q] = pc[q] /\ i'[q] = i[q] /\ todo'[q] = todo[q]

\* Open mailboxes stay open and have their messages where they were.
Onward ==
    \A x \in Boxes : box[x].open =>
       /\ box'[x].open
       /\ \A j \in DOMAIN box[x].toc : j \in DOMAIN box'[x].toc /\ box'[x].toc[j].msg = box[x].toc[j].msg

LEMMA SmallOnward ==
    ASSUME AllSound(box), NEW E, Small(box', box, E)
    PROVE  Onward
  BY SmallMail DEF Onward

LEMMA TransferFields ==
    ASSUME TypeInv, NEW p \in Threads
    PROVE  /\ xfer[p] \in Transfer
           /\ xfer[p].stage \in {"none", "append", "describe", "mark", "saveSource", "saveTarget"}
           /\ xfer[p].from \in Boxes /\ xfer[p].to \in Boxes /\ xfer[p].at \in Nat /\ xfer[p].new \in Nat
           /\ xfer[p].copy \in BOOLEAN /\ xfer[p].both \in BOOLEAN
<1>1. xfer[p] \in Transfer
  BY DEF TypeInv
<1>2. QED
  BY <1>1 DEF Transfer

LEMMA ApartGood ==
    ASSUME TypeInv, Onward, NEW p \in Threads, Apart(p), NEW t \in Threads \ {p}
    PROVE  Good(t)'
<1>1. xfer'[t] = xfer[t] /\ Transferring(t) /\ (t \in Checkers => Checking(t))
  BY DEF Apart, TypeInv, Good
<1>2. xfer[t].from \in Boxes /\ xfer[t].to \in Boxes
  BY TransferFields
<1>3. Transferring(t)'
  <2>1. CASE Free(t)
    BY <1>1, <2>1 DEF Free, Transferring
  <2>2. CASE ~Free(t)
    BY <1>1, <1>2, <2>2, ZenonT(60) DEF Free, Held, Transferring, Onward
  <2>3. QED
    BY <2>1, <2>2
<1>4. ASSUME t \in Checkers PROVE Checking(t)'
  <2>1. pc'[t] = pc[t] /\ i'[t] = i[t] /\ todo'[t] = todo[t]
    BY <1>4 DEF Apart
  <2>2. QED
    BY <1>1, <1>4, <2>1, BoxNames DEF Free, Held, Checking, Onward
<1>5. QED
  BY <1>3, <1>4 DEF Good

\* Another stage of the transfer.
LEMMA Staged ==
    ASSUME NEW x \in Transfer, NEW y,
           NEW s \in {"none", "append", "describe", "mark", "saveSource", "saveTarget"},
           y = [x EXCEPT !.stage = s]
    PROVE  /\ y \in Transfer /\ y.stage = s /\ y.from = x.from /\ y.at = x.at /\ y.to = x.to
           /\ y.new = x.new /\ y.copy = x.copy /\ y.both = x.both
  BY DEF Transfer

\* The actions of a rule, the metadata ones first, are actions still.
LEMMA PassesActions ==
    ASSUME NEW a \in Seq(Action), NEW t, t = Passes(a)
    PROVE  t \in Seq(Action)
<1> DEFINE K == {k \in DOMAIN a : a[k].do = "junk"}
           L == DOMAIN a \ K
<1>1. t = Kept(a, K) \o Kept(a, L)
  BY DEF Passes
<1>2. Kept(a, K) \in Seq(Action) /\ Kept(a, L) \in Seq(Action)
  BY KeptSeq
<1>3. QED
  BY <1>1, <1>2, ConcatProperties

LEMMA RuleActions ==
    ASSUME Control, NEW n \in 1 .. Len(rules)
    PROVE  rules[n].actions \in Seq(Action)
<1>S. PICK S : S = [match : SUBSET Msgs, actions : Seq(Action)]
  OBVIOUS
<1>1. rules \in Seq(S)
  BY <1>S, RulesAssumption DEF Control
<1>2. rules[n] \in S
  BY <1>1
<1>3. QED
  BY <1>2, <1>S

\* The types but for the mailboxes and the threads at work on them.
Typed == Control /\ History /\ Counts /\ xfer \in [Threads -> Transfer]

\* The steps without a crash: nothing is forgotten, and the filters stay.
Grows ==
    /\ rules' = rules /\ crashes' = crashes
    /\ copied \subseteq copied' /\ excused \subseteq excused' /\ raced \subseteq raced'

\* Thread p goes on without writing a summary, and has then none in hand.
Rests(p) ==
    /\ Apart(p) /\ Good(p)' /\ Small(box', box, {}) /\ Typed'
    /\ Grows /\ arrived' = arrived /\ ham' \subseteq ham
    /\ xfer[p].stage \notin {"describe", "mark"} /\ ~Held(p)'
    /\ p \in Checkers => pc'[p] # "judge"

\* What thread p has in hand after a step at the summary k of b: nothing, an
\* original it will append to another mailbox, or a message it is scoring.
Takes(p, b, k) ==
    LET m == box[b].toc[k].msg
        t == box'[b].toc[k]
    IN  \/ /\ ~Held(p)' /\ (p \in Checkers => pc'[p] # "judge")
        \/ /\ p \in Checkers => pc'[p] # "judge"
           /\ xfer'[p].stage = "append" /\ xfer'[p].from = b /\ xfer'[p].at = k
           /\ xfer'[p].copy => m \in copied'
           /\ m \in copied' \/ ~t.deleted
        \/ /\ p \in Checkers /\ ~Held(p)' /\ pc'[p] = "judge" /\ i'[p] = k /\ b = "In"
           /\ ~t.deleted /\ t.score = -1 /\ ham' = ham

\* Thread p goes to the summary k of b, which no other has in hand unless that
\* is noted, and may mark or score it.
Touches(p, b, k) ==
    LET s == box[b].toc[k]
        t == box'[b].toc[k]
        judged == p \in Checkers /\ pc[p] = "judge"
    IN  /\ box[b].open /\ k \in DOMAIN box[b].toc
        /\ Apart(p) /\ Good(p)' /\ Small(box', box, {<<b, k>>}) /\ Typed'
        /\ Grows /\ arrived' = arrived
        /\ ~Held(p) /\ Takes(p, b, k)
        /\ IF judged THEN b = "In" /\ k = i[p] ELSE Contested(p, b, k) \subseteq raced'
        /\ s.deleted => t.deleted
        /\ t.deleted => s.deleted \/ s.msg \in excused'
        /\ ham' \subseteq ham \cup {s.msg}
        /\ s.msg \in ham' \ ham => t.score = 0 /\ ~t.deleted
        /\ t.score = s.score \/ t.score = 0 \/ s.msg \notin ham' \/ judged

-----------------------------------------------------------------------------
(* Each action is of one of these kinds                                    *)

LEMMA TableMail ==
    ASSUME TypeInv, NEW b \in Boxes
    PROVE  /\ \A k \in DOMAIN box[b].toc : box[b].open => box[b].toc[k] \in Entry /\ box[b].toc[k].msg \in Msgs
           /\ Inherited(b) \subseteq Msgs
           /\ Len(box[b].toc) \in Nat /\ DOMAIN box[b].toc = 1 .. Len(box[b].toc)
<1>1. Sound(box[b])
  BY DEF TypeInv, AllSound
<1>2. \A k \in DOMAIN box[b].toc : box[b].toc[k] \in Entry
  BY <1>1 DEF Sound, Box
<1>3. Len(box[b].toc) \in Nat /\ DOMAIN box[b].toc = 1 .. Len(box[b].toc)
  BY <1>1 DEF Sound, Box
<1>4. QED
  BY <1>2, <1>3, EntryFields DEF Inherited

\* The message whose turn it is, and its mailbox.
LEMMA Turn ==
    ASSUME TypeInv, NEW q \in Checkers, pc[q] # "idle", i[q] > 0, i[q] <= Len(in)
    PROVE  /\ box["In"].open /\ i[q] \in DOMAIN box["In"].toc /\ in[i[q]].msg \in Msgs
           /\ in[i[q]] \in Entry
<1>1. q \in Threads /\ i[q] \in Nat
  BY DEF Threads, TypeInv, Control
<1>2. box["In"].open /\ Len(in) \in Nat /\ DOMAIN box["In"].toc = 1 .. Len(in)
  BY <1>1, TableMail, BoxNames DEF TypeInv, Good, Checking, in
<1>3. QED
  BY <1>1, <1>2, TableMail, BoxNames DEF in

\* An event is counted at most MaxEvents times.
LEMMA EventCounts ==
    ASSUME TypeInv, crashes' = crashes, events' = events \/ Event
    PROVE  Counts'
  BY BoundAssumption DEF TypeInv, Counts, Event

\* A check goes on with the next message.
LEMMA NextControl ==
    ASSUME Control, NEW q \in Checkers, i[q] > 0, NextMessage(q), rules' = rules, pc' = pc, pc[q] # "score",
           todo' \in {todo, [todo EXCEPT ![q] = <<>>]}, todo'[q] = <<>>
    PROVE  /\ Control' /\ \A t \in Checkers \ {q} : i'[t] = i[t] /\ todo'[t] = todo[t]
<1>1. i[q] \in Nat /\ i[q] - 1 \in Nat /\ Len(rules) \in Nat /\ 1 \in 1 .. Len(rules) + 1
  BY RulesAssumption DEF Control
<1>2. i' \in [Checkers -> Nat] /\ r' \in [Checkers -> 1 .. Len(rules) + 1] /\ todo' \in [Checkers -> Seq(Action)]
  <2>1. i' \in [Checkers -> Nat] /\ r' \in [Checkers -> 1 .. Len(rules) + 1]
    BY <1>1 DEF Control, NextMessage
  <2>2. todo' \in [Checkers -> Seq(Action)]
    <3>1. <<>> \in Seq(Action) /\ todo \in [Checkers -> Seq(Action)]
      BY DEF Control
    <3>2. QED
      BY <3>1
  <2>3. QED
    BY <2>1, <2>2
<1>3. \A t \in Checkers \ {q} : i'[t] = i[t] /\ todo'[t] = todo[t]
  BY DEF Control, NextMessage
<1>4. QED
  BY <1>2, <1>3 DEF Control

\* A check is done with an action of a rule.
LEMMA DoneControl ==
    ASSUME Control, NEW q \in Checkers, todo[q] # <<>>, NEW a, Done(q, a), rules' = rules, pc' = pc
    PROVE  /\ Control' /\ \A t \in Checkers \ {q} : i'[t] = i[t] /\ todo'[t] = todo[t]
<1>1. i[q] > 0 /\ todo[q] \in Seq(Action) /\ pc[q] = "filter"
  BY DEF Control
<1>2. CASE todo' = [todo EXCEPT ![q] = <<>>] /\ NextMessage(q)
  <2>1. todo'[q] = <<>>
    BY <1>2 DEF Control
  <2>2. QED
    BY <1>1, <1>2, <2>1, NextControl
<1>3. CASE todo' = [todo EXCEPT ![q] = Tail(todo[q])] /\ UNCHANGED <<i, r>>
  <2>1. Tail(todo[q]) \in Seq(Action)
    BY <1>1
  <2>2. todo' \in [Checkers -> Seq(Action)] /\ \A t \in Checkers \ {q} : todo'[t] = todo[t]
    BY <1>3, <2>1 DEF Control
  <2>3. QED
    BY <1>1, <1>3, <2>2 DEF Control
<1>4. QED
  BY <1>2, <1>3 DEF Done

\* A transfer returns: its check goes on, or the main thread saves.
LEMMA ReturnsControl ==
    ASSUME TypeInv, NEW p \in Threads, Held(p), Returns(p), rules' = rules, Onward
    PROVE  /\ Control' /\ xfer' \in [Threads -> Transfer] /\ Apart(p) /\ Good(p)' /\ ~Held(p)'
           /\ p \in Checkers => pc'[p] # "judge" /\ pc[p] # "judge"
<1>1. xfer \in [Threads -> Transfer] /\ xfer[p] \in Transfer /\ xfer[p].from \in Boxes /\ xfer[p].to \in Boxes
  BY TransferFields DEF TypeInv
<1>2. ~Free(p) /\ Transferring(p) /\ (p \in Checkers => Checking(p)) /\ Control
  BY DEF Held, Free, TypeInv, Good
<1>3. CASE p = "main"
  <2>1. p \notin Checkers /\ xfer' = [xfer EXCEPT ![p].stage = "saveSource"] /\ UNCHANGED check
    BY <1>3, CheckersAssumption DEF Returns
  <2>y. PICK y : y = [xfer[p] EXCEPT !.stage = "saveSource"]
    OBVIOUS
  <2>2. /\ y \in Transfer /\ y.stage = "saveSource" /\ y.from = xfer[p].from /\ y.to = xfer[p].to
        /\ y.copy = xfer[p].copy
    BY <1>1, <2>y, Staged
  <2>3. xfer' \in [Threads -> Transfer] /\ xfer'[p] = y /\ \A t \in Threads \ {p} : xfer'[t] = xfer[t]
    BY <1>1, <2>1, <2>2, <2>y
  <2>4. Transferring(p)'
    BY <1>1, <1>2, <2>2, <2>3 DEF Transferring, Held, Onward
  <2>5. Control' /\ Apart(p)
    BY <1>2, <2>1, <2>3 DEF check, Control, Apart
  <2>6. QED
    BY <2>1, <2>2, <2>3, <2>4, <2>5 DEF Good, Held
<1>4. CASE p \in Checkers
  <2>1. /\ xfer' = [xfer EXCEPT ![p] = NoTransfer] /\ pc' = pc
        /\ \/ pc[p] = "filter" /\ Done(p, Head(todo[p]))
           \/ pc[p] = "move" /\ NextMessage(p) /\ todo' = todo
    <3>1. p # "main"
      BY <1>4, CheckersAssumption
    <3>2. QED
      BY <3>1 DEF Returns
  <2>2. NoTransfer \in Transfer /\ NoTransfer.stage = "none"
    BY DEF NoTransfer, Transfer, Boxes
  <2>3. /\ xfer' \in [Threads -> Transfer] /\ xfer'[p].stage = "none"
        /\ \A t \in Threads \ {p} : xfer'[t] = xfer[t]
    BY <1>1, <2>1, <2>2
  <2>4. Control' /\ \A t \in Checkers \ {p} : i'[t] = i[t] /\ todo'[t] = todo[t]
    <3>1. CASE pc[p] = "filter" /\ Done(p, Head(todo[p]))
      <4>1. todo[p] # <<>>
        BY <1>2, <1>4, <3>1 DEF Checking
      <4>2. QED
        BY <1>2, <1>4, <2>1, <3>1, <4>1, DoneControl
    <3>2. CASE pc[p] = "move" /\ NextMessage(p) /\ todo' = todo
      <4>1. i[p] > 0 /\ todo'[p] = <<>>
        BY <1>2, <1>4, <3>2 DEF Checking, Control
      <4>2. QED
        BY <1>2, <1>4, <2>1, <3>2, <4>1, NextControl
    <3>3. QED
      BY <2>1, <3>1, <3>2
  <2>5. Good(p)'
    BY <1>2, <1>4, <2>1, <2>3, BoxNames DEF Good, Checking, Transferring, Free, Onward
  <2>6. QED
    BY <1>4, <2>1, <2>3, <2>4, <2>5 DEF Apart, Held
<1>5. QED
  BY <1>3, <1>4 DEF Threads

\* A check that is not in a transfer goes on without one.
LEMMA CheckRests ==
    ASSUME TypeInv, NEW q \in Checkers, Free(q), xfer' = xfer, Apart(q), Control', History',
           Small(box', box, {}), pc[q] # "idle", pc'[q] # "judge",
           pc'[q] = "move" => pc[q] = "move" \/ box'["Junk"].open,
           Grows, events' = events, arrived' = arrived, ham' \subseteq ham
    PROVE  Rests(q)
<1>1. q \in Threads /\ xfer' \in [Threads -> Transfer] /\ Free(q)' /\ Counts'
  BY DEF Threads, TypeInv, Free, Counts, Grows
<1>2. box["In"].open /\ box'["In"].open /\ (pc'[q] = "move" => box'["Junk"].open)
  BY <1>1, BoxNames DEF TypeInv, Good, Checking, Small
<1>3. Good(q)'
  BY <1>1, <1>2 DEF Good, Checking, Transferring
<1>4. QED
  BY <1>1, <1>3 DEF Rests, Typed, Free, Held

\* Where a check is free to go on.
LEMMA CheckFree ==
    ASSUME TypeInv, NEW q \in Checkers
    PROVE  /\ pc[q] \in {"filter", "score", "judge", "move", "idle"} /\ i[q] \in Nat
           /\ pc[q] = "filter" /\ todo[q] = <<>> => Free(q)
           /\ pc[q] \in {"idle", "score", "judge"} => Free(q)
           /\ pc[q] = "move" /\ i[q] = 0 => Free(q)
           /\ pc[q] # "filter" => todo[q] = <<>>
           /\ todo[q] # <<>> => pc[q] = "filter" /\ i[q] > 0
           /\ pc[q] = "score" => i[q] > 0
  BY DEF Threads, TypeInv, Good, Checking, Control

LEMMA FilterRests ==
    ASSUME TypeInv, NEW q \in Checkers, Match(q) \/ NoMatch(q)
    PROVE  Rests(q)
<1>1. /\ pc[q] = "filter" /\ todo[q] = <<>> /\ i[q] > 0 /\ Free(q)
      /\ box' = box /\ rules' = rules /\ pc' = pc /\ xfer' = xfer
      /\ crashes' = crashes /\ events' = events /\ UNCHANGED hist
  BY CheckFree DEF Match, NoMatch
<1>2. Small(box', box, {}) /\ Grows /\ History' /\ arrived' = arrived /\ ham' \subseteq ham /\ Control
  BY <1>1, SmallNot DEF TypeInv, hist, Grows, History
<1>3. ASSUME Match(q)
      PROVE  Control' /\ \A t \in Checkers \ {q} : i'[t] = i[t] /\ todo'[t] = todo[t]
  <2>1. PICK n \in Matching(q) : /\ todo' = [todo EXCEPT ![q] = Passes(rules[n].actions)]
                                 /\ r' = [r EXCEPT ![q] = n + 1]
    BY <1>3 DEF Match
  <2>l. Len(rules) \in Nat
    BY <1>2, RulesAssumption DEF Control
  <2>2. n \in r[q] .. Len(rules) /\ r[q] \in 1 .. Len(rules) + 1
    BY <1>2, <2>1 DEF Matching, Control
  <2>3. n \in 1 .. Len(rules) /\ n + 1 \in 1 .. Len(rules) + 1
    BY <2>l, <2>2
  <2>w. PICK w : w = Passes(rules[n].actions)
    OBVIOUS
  <2>4. w \in Seq(Action)
    BY <1>2, <2>3, <2>w, RuleActions, PassesActions
  <2>5. /\ todo' = [todo EXCEPT ![q] = w] /\ todo' \in [Checkers -> Seq(Action)]
        /\ \A t \in Checkers \ {q} : todo'[t] = todo[t]
    BY <1>2, <2>1, <2>4, <2>w DEF Control
  <2>6. r' \in [Checkers -> 1 .. Len(rules) + 1]
    BY <1>2, <2>1, <2>3 DEF Control
  <2>7. i' = i
    BY <1>3 DEF Match
  <2>8. QED
    BY <1>1, <1>2, <2>5, <2>6, <2>7 DEF Control
<1>4. ASSUME NoMatch(q)
      PROVE  Control' /\ \A t \in Checkers \ {q} : i'[t] = i[t] /\ todo'[t] = todo[t]
  <2>1. NextMessage(q) /\ todo' = todo
    BY <1>4 DEF NoMatch
  <2>2. QED
    BY <1>1, <1>2, <2>1, NextControl
<1>5. Control' /\ Apart(q)
  BY <1>1, <1>3, <1>4 DEF Apart
<1>6. QED
  BY <1>1, <1>2, <1>5, CheckRests

LEMMA PassRests ==
    ASSUME TypeInv, NEW q \in Checkers, ScorePasses(q) \/ MovePasses(q)
    PROVE  Rests(q)
<1>1. /\ pc[q] \in {"score", "move"} /\ Free(q) /\ box' = box /\ rules' = rules /\ pc' = pc /\ xfer' = xfer
      /\ crashes' = crashes /\ events' = events /\ UNCHANGED hist /\ todo' = todo
      /\ todo[q] = <<>> /\ i[q] \in Nat
  BY CheckFree DEF ScorePasses, MovePasses
<1>2. Small(box', box, {}) /\ Grows /\ History' /\ arrived' = arrived /\ ham' \subseteq ham /\ Control
  BY <1>1, SmallNot DEF TypeInv, hist, Grows, History
<1>3. Control' /\ \A t \in Checkers \ {q} : i'[t] = i[t] /\ todo'[t] = todo[t]
  <2>1. CASE ScorePasses(q)
    <3>1. r' = r /\ i' = [i EXCEPT ![q] = i[q] + 1] /\ i[q] + 1 \in Nat
      BY <1>1, <2>1 DEF ScorePasses
    <3>2. i' \in [Checkers -> Nat] /\ i'[q] > 0 /\ \A t \in Checkers \ {q} : i'[t] = i[t]
      BY <1>2, <3>1 DEF Control
    <3>3. QED
      BY <1>1, <1>2, <3>1, <3>2 DEF Control
  <2>2. CASE MovePasses(q)
    <3>1. NextMessage(q) /\ i[q] > 0 /\ pc[q] = "move"
      BY <2>2 DEF MovePasses
    <3>2. QED
      BY <1>1, <1>2, <3>1, NextControl
  <2>3. QED
    BY <2>1, <2>2
<1>4. Apart(q)
  BY <1>1, <1>3 DEF Apart
<1>5. QED
  BY <1>1, <1>2, <1>3, <1>4, CheckRests

\* The ends of a loop: a save of In, or Junk opened.
LEMMA EndRests ==
    ASSUME TypeInv, NEW q \in Checkers, FiltersEnd(q) \/ ScoreEnds(q) \/ MoveEnds(q)
    PROVE  Rests(q)
<1>1. /\ pc[q] \in {"filter", "score", "move"} /\ Free(q) /\ rules' = rules /\ xfer' = xfer
      /\ crashes' = crashes /\ events' = events /\ UNCHANGED <<arrived, copied, ham, raced>>
      /\ todo' = todo /\ todo[q] = <<>> /\ r' = r
  BY CheckFree DEF FiltersEnd, ScoreEnds, MoveEnds, hist
<1>2. box["In"].open /\ Len(in) \in Nat /\ q \in Threads
  BY <1>1, TableMail, BoxNames DEF in, Threads, TypeInv, Good, Checking
<1>3. PICK s \in {"score", "move", "idle"}, n \in Nat :
         pc' = [pc EXCEPT ![q] = s] /\ i' = [i EXCEPT ![q] = n] /\ (s = "score" => n > 0)
  <2>1. CASE FiltersEnd(q)
    <3>1. pc' = [pc EXCEPT ![q] = "score"] /\ i' = [i EXCEPT ![q] = 1] /\ 1 \in Nat /\ 1 > 0
      BY <2>1 DEF FiltersEnd
    <3>2. QED
      BY <3>1
  <2>2. CASE ScoreEnds(q)
    BY <1>2, <2>2 DEF ScoreEnds
  <2>3. CASE MoveEnds(q)
    <3>1. i' = [i EXCEPT ![q] = i[q]] /\ i[q] \in Nat
      BY <2>3 DEF MoveEnds, TypeInv, Control
    <3>2. QED
      BY <2>3, <3>1 DEF MoveEnds
  <2>4. QED
    BY <2>1, <2>2, <2>3
<1>4. /\ Control' /\ pc'[q] = s
      /\ \A t \in Checkers \ {q} : pc'[t] = pc[t] /\ i'[t] = i[t] /\ todo'[t] = todo[t]
  <2>1. Control
    BY DEF TypeInv
  <2>2. i' \in [Checkers -> Nat] /\ pc' \in [Checkers -> {"idle", "filter", "score", "judge", "move"}]
    BY <1>3, <2>1 DEF Control
  <2>3. pc'[q] = s /\ i'[q] = n /\ \A t \in Checkers \ {q} : pc'[t] = pc[t] /\ i'[t] = i[t] /\ todo'[t] = todo[t]
    BY <1>1, <1>3, <2>1 DEF Control
  <2>4. QED
    BY <1>1, <1>3, <2>1, <2>2, <2>3 DEF Control
<1>5. /\ Small(box', box, {}) /\ excused \subseteq excused' /\ excused' \subseteq Msgs
      /\ pc'[q] = "move" => box'["Junk"].open
  <2>1. CASE ScoreEnds(q)
    <3>1. excused' = excused \cup Inherited("Junk") /\ box' = [box EXCEPT !["Junk"] = Opened("Junk")]
      BY <2>1 DEF ScoreEnds
    <3>2. Inherited("Junk") \subseteq excused' /\ excused' \subseteq Msgs
      BY <3>1, TableMail, BoxNames DEF TypeInv, History
    <3>3. QED
      BY <3>1, <3>2, SmallOpened, BoxNames DEF TypeInv
  <2>2. CASE FiltersEnd(q) \/ MoveEnds(q)
    <3>1. excused' = excused /\ box' = Saving(box, {"In"}) /\ pc'[q] # "move"
      BY <2>2 DEF FiltersEnd, MoveEnds, hist, TypeInv, Control
    <3>2. AllSound(box) /\ \A x \in Boxes : x \in {"In"} => box[x].open
      BY <1>2 DEF TypeInv
    <3>3. QED
      BY <3>1, <3>2, SmallSaved DEF TypeInv, History
  <2>3. QED
    BY <2>1, <2>2
<1>6. Grows /\ History' /\ Apart(q)
  BY <1>1, <1>4, <1>5 DEF Grows, TypeInv, History, Apart
<1>7. QED
  BY <1>1, <1>4, <1>5, <1>6, CheckRests

\* The action of a rule that is run next.
LEMMA NextAction ==
    ASSUME TypeInv, NEW q \in Checkers, todo[q] # <<>>, NEW a, a = Head(todo[q])
    PROVE  /\ a \in Action
           /\ a.do \in {"transfer", "copy"} => a.to \in Boxes \ {"In"}
           /\ a.do = "junk" => a.score \in 0 .. 100
<1>1. todo[q] \in Seq(Action)
  BY DEF TypeInv, Control
<1>2. a \in Action
  BY <1>1
<1>3. QED
  BY <1>2 DEF Action

\* An action that finds no message at its index, or a stop.
LEMMA MissRests ==
    ASSUME TypeInv, NEW q \in Checkers, NEW a, a = Head(todo[q]), todo[q] # <<>>, Free(q),
           Done(q, a), xfer' = xfer, pc' = pc, rules' = rules, Small(box', box, {}),
           arrived' = arrived, copied' = copied, ham' = ham, raced' = raced,
           excused \subseteq excused', excused' \subseteq Msgs, crashes' = crashes, events' = events
    PROVE  Rests(q)
<1>1. pc[q] = "filter" /\ Control
  BY CheckFree DEF TypeInv
<1>2. Control' /\ \A t \in Checkers \ {q} : i'[t] = i[t] /\ todo'[t] = todo[t]
  BY <1>1, DoneControl
<1>3. Apart(q) /\ Grows /\ History'
  BY <1>2 DEF Apart, Grows, TypeInv, History
<1>4. QED
  BY <1>1, <1>2, <1>3, CheckRests

LEMMA ActRests ==
    ASSUME TypeInv, NEW q \in Checkers, Act(q), Head(todo[q]).do = "stop" \/ ~(i[q] <= Len(in))
    PROVE  Rests(q)
<1>a. PICK a : a = Head(todo[q])
  OBVIOUS
<1>1. /\ todo[q] # <<>> /\ Free(q) /\ Done(q, a) /\ box' = box /\ xfer' = xfer /\ pc' = pc /\ rules' = rules
      /\ arrived' = arrived /\ copied' = copied /\ ham' = ham /\ raced' = raced /\ excused' = excused
      /\ crashes' = crashes /\ events' = events
  BY <1>a DEF Act
<1>2. Small(box', box, {}) /\ excused' \subseteq Msgs
  BY <1>1, SmallNot DEF TypeInv, History
<1>3. QED
  BY <1>1, <1>2, <1>a, MissRests

LEMMA FileRests ==
    ASSUME TypeInv, NEW q \in Checkers, File(q), ~(i[q] <= Len(in))
    PROVE  Rests(q)
<1>a. PICK a : a = Head(todo[q])
  OBVIOUS
<1>1. /\ todo[q] # <<>> /\ Free(q) /\ Done(q, a) /\ xfer' = xfer /\ pc' = pc /\ rules' = rules
      /\ box' = [box EXCEPT ![a.to] = Opened(a.to)] /\ excused' = excused \cup Inherited(a.to)
      /\ arrived' = arrived /\ copied' = copied /\ ham' = ham /\ raced' = raced
      /\ crashes' = crashes /\ events' = events /\ a.do \in {"transfer", "copy"}
  BY <1>a DEF File
<1>2. a.to \in Boxes
  BY <1>1, <1>a, NextAction
<1>3. Inherited(a.to) \subseteq excused' /\ excused \subseteq excused' /\ excused' \subseteq Msgs
  BY <1>1, <1>2, TableMail DEF TypeInv, History
<1>4. Small(box', box, {})
  BY <1>1, <1>2, <1>3, SmallOpened DEF TypeInv
<1>5. QED
  BY <1>1, <1>3, <1>4, <1>a, MissRests

LEMMA FailRests ==
    ASSUME TypeInv, NEW p \in Threads, AppendFails(p)
    PROVE  Rests(p)
<1>1. /\ xfer[p].stage = "append" /\ Held(p) /\ Event /\ Returns(p) /\ box' = box /\ rules' = rules
      /\ crashes' = crashes /\ UNCHANGED hist
  BY DEF AppendFails, Held
<1>2. Small(box', box, {}) /\ Grows /\ History' /\ Counts' /\ arrived' = arrived /\ ham' \subseteq ham
  BY <1>1, SmallNot, EventCounts DEF TypeInv, hist, Grows, History
<1>3. Onward
  BY <1>2, SmallOnward DEF TypeInv
<1>4. /\ Control' /\ xfer' \in [Threads -> Transfer] /\ Apart(p) /\ Good(p)' /\ ~Held(p)'
      /\ p \in Checkers => pc'[p] # "judge"
  BY <1>1, <1>3, ReturnsControl
<1>5. QED
  BY <1>1, <1>2, <1>4 DEF Rests, Typed

LEMMA SavesRests ==
    ASSUME TypeInv, UserSaves
    PROVE  Rests("main")
<1>p. "main" \in Threads /\ "main" \notin Checkers
  BY CheckersAssumption, BoxNames
<1>x. PICK x : x = xfer["main"]
  OBVIOUS
<1>1. /\ x \in Transfer /\ x.from \in Boxes /\ x.to \in Boxes /\ xfer \in [Threads -> Transfer]
      /\ x.stage \in {"saveSource", "saveTarget"} /\ rules' = rules /\ UNCHANGED check
      /\ crashes' = crashes /\ events' = events /\ UNCHANGED hist
  BY <1>p, <1>x, TransferFields DEF UserSaves, TypeInv
<1>2. x.from # x.to /\ box[x.from].open /\ box[x.to].open /\ ~x.copy
  BY <1>p, <1>x, <1>1 DEF TypeInv, Good, Transferring, Free
<1>3. Small(box', box, {})
  <2>1. PICK c \in {x.from, x.to} : box' = Saving(box, {c})
    BY <1>x DEF UserSaves
  <2>2. \A y \in Boxes : y \in {c} => box[y].open
    BY <1>2
  <2>3. QED
    BY <2>1, <2>2, SmallSaved DEF TypeInv
<1>4. Onward
  BY <1>3, SmallOnward DEF TypeInv
<1>y. PICK y : y = [x EXCEPT !.stage = "saveTarget"]
  OBVIOUS
<1>5. /\ y \in Transfer /\ y.stage = "saveTarget" /\ y.from = x.from /\ y.to = x.to /\ y.copy = x.copy
      /\ NoTransfer \in Transfer /\ NoTransfer.stage = "none"
  BY <1>1, <1>y, Staged, BoxNames DEF NoTransfer, Transfer
<1>6. PICK z \in {y, NoTransfer} : xfer' = [xfer EXCEPT !["main"] = z]
  BY <1>x, <1>y DEF UserSaves
<1>7. /\ xfer' \in [Threads -> Transfer] /\ xfer'["main"] = z
      /\ \A t \in Threads \ {"main"} : xfer'[t] = xfer[t]
  BY <1>p, <1>1, <1>5, <1>6
<1>8. Good("main")' /\ ~Held("main")' /\ x.stage \notin {"describe", "mark"}
  BY <1>p, <1>1, <1>2, <1>4, <1>5, <1>7 DEF Good, Transferring, Free, Held, Onward
<1>9. Control' /\ Apart("main") /\ Grows /\ History' /\ Counts' /\ arrived' = arrived /\ ham' \subseteq ham
  BY <1>1, <1>7 DEF TypeInv, Control, check, Apart, Grows, hist, History, Counts
<1>10. QED
  BY <1>p, <1>x, <1>3, <1>7, <1>8, <1>9 DEF Rests, Typed

\* The main thread while it is in no transfer, after a step that starts none.
LEMMA UserApart ==
    ASSUME TypeInv, Free("main"), xfer' = xfer, UNCHANGED check, rules' = rules
    PROVE  /\ Apart("main") /\ Good("main")' /\ Control' /\ xfer' \in [Threads -> Transfer]
           /\ xfer["main"].stage = "none" /\ ~Held("main") /\ ~Held("main")'
           /\ "main" \in Threads /\ "main" \notin Checkers
  BY CheckersAssumption, BoxNames
     DEF TypeInv, Apart, Good, Transferring, Control, check, Free, Held

LEMMA OpenRests ==
    ASSUME TypeInv, Free("main"), NEW b \in Boxes, Open(b)
    PROVE  Rests("main")
<1>1. /\ box' = [box EXCEPT ![b] = Opened(b)] /\ excused' = excused \cup Inherited(b)
      /\ rules' = rules /\ UNCHANGED check /\ xfer' = xfer /\ crashes' = crashes /\ events' = events
      /\ arrived' = arrived /\ copied' = copied /\ ham' = ham /\ raced' = raced
  BY DEF Open
<1>2. Inherited(b) \subseteq excused' /\ excused' \subseteq Msgs
  BY <1>1, TableMail DEF TypeInv, History
<1>3. Small(box', box, {})
  BY <1>1, <1>2, SmallOpened DEF TypeInv
<1>4. Grows /\ History' /\ Counts'
  BY <1>1, <1>2 DEF Grows, TypeInv, History, Counts
<1>5. QED
  BY <1>1, <1>3, <1>4, UserApart DEF Rests, Typed

LEMMA ContestedMail ==
    ASSUME TypeInv, NEW p, NEW b \in Boxes, box[b].open, NEW k \in DOMAIN box[b].toc
    PROVE  Contested(p, b, k) \subseteq Msgs
<1>1. box[b].toc[k].msg \in Msgs
  BY TableMail
<1>2. QED
  BY <1>1 DEF Contested

\* The call of a transfer that has begun with y.
Begun(p, b, k, c, y) ==
    /\ y \in Transfer /\ xfer' = [xfer EXCEPT ![p] = y]
    /\ y.stage = "append" /\ y.from = b /\ y.at = k /\ y.to = c /\ y.new = 0

LEMMA StartsBegun ==
    ASSUME NEW p, NEW b \in Boxes, NEW c \in Boxes, NEW k \in Nat, NEW copy \in BOOLEAN, NEW both \in BOOLEAN,
           Starts(p, b, k, c, copy, both)
    PROVE  \E y : Begun(p, b, k, c, y) /\ y.copy = copy
<1>y. PICK y : y = [stage |-> "append", from |-> b, at |-> k, to |-> c, new |-> 0, copy |-> copy, both |-> both]
  OBVIOUS
<1>1. /\ y \in Transfer /\ y.stage = "append" /\ y.from = b /\ y.at = k /\ y.to = c /\ y.copy = copy
      /\ y.new = 0
  BY <1>y DEF Transfer
<1>2. QED
  BY <1>1, <1>y DEF Starts, Begun

\* A thread takes the original of a transfer in hand.
LEMMA BegunHeld ==
    ASSUME TypeInv, NEW p \in Threads, NEW b \in Boxes, NEW c \in Boxes, b # c,
           box[b].open, NEW k \in DOMAIN box[b].toc, NEW y, Begun(p, b, k, c, y), Free(p),
           p = "main" => ~y.copy,
           p \in Checkers => (pc[p] = "filter" /\ todo[p] # <<>>) \/ (pc[p] = "move" /\ i[p] > 0),
           Onward, box'[c].open, rules' = rules, UNCHANGED check
    PROVE  /\ Control' /\ xfer' \in [Threads -> Transfer] /\ Apart(p) /\ Good(p)' /\ ~Held(p)
           /\ xfer'[p] = y
           /\ p \in Checkers => pc'[p] # "judge" /\ pc[p] # "judge"
<1>1. xfer \in [Threads -> Transfer]
  BY DEF TypeInv
<1>2. /\ xfer' \in [Threads -> Transfer] /\ xfer'[p] = y /\ \A t \in Threads \ {p} : xfer'[t] = xfer[t]
  BY <1>1 DEF Begun
<1>3. Transferring(p)'
  BY <1>1, <1>2 DEF Begun, Transferring, Held, Onward
<1>4. p \in Checkers => Checking(p)'
  <2> SUFFICES ASSUME p \in Checkers PROVE Checking(p)'
    OBVIOUS
  <2>1. box["In"].open /\ box'["In"].open /\ (pc[p] = "move" => box'["Junk"].open)
    BY BoxNames DEF TypeInv, Good, Checking, Onward
  <2>2. QED
    BY <1>2, <2>1 DEF Begun, Checking, Held, check
<1>5. Control' /\ Apart(p)
  BY <1>2 DEF TypeInv, Control, check, Apart
<1>6. QED
  BY <1>2, <1>3, <1>4, <1>5 DEF Good, Free, Held, check

\* What is noted of it.
LEMMA StartsNoted ==
    ASSUME TypeInv, NEW p, NEW b \in Boxes, NEW c \in Boxes, box[b].open, NEW k \in DOMAIN box[b].toc,
           NEW copy, NEW both, Starts(p, b, k, c, copy, both)
    PROVE  /\ Contested(p, b, k) \subseteq raced' /\ raced \subseteq raced' /\ raced' \subseteq Msgs
           /\ Inherited(c) \subseteq excused' /\ excused \subseteq excused' /\ excused' \subseteq Msgs
  BY ContestedMail, TableMail, SMTT(60) DEF Starts, TypeInv, History

LEMMA FileTouches ==
    ASSUME TypeInv, NEW q \in Checkers, File(q), i[q] <= Len(in)
    PROVE  Touches(q, "In", i[q])
<1>a. PICK a : a = Head(todo[q])
  OBVIOUS
<1>k. PICK k : k = i[q]
  OBVIOUS
<1>c. PICK copy \in BOOLEAN : copy = (a.do = "copy")
  OBVIOUS
<1>b. "In" \in Boxes /\ q \in Threads /\ q # "main"
  BY BoxNames, CheckersAssumption DEF Threads
<1>1. /\ todo[q] # <<>> /\ Free(q) /\ a.do \in {"transfer", "copy"} /\ pc[q] = "filter" /\ rules' = rules
      /\ box' = [box EXCEPT ![a.to] = Opened(a.to)]
      /\ arrived' = arrived /\ ham' = ham /\ crashes' = crashes /\ events' = events
      /\ Starts(q, "In", k, a.to, copy, FALSE) /\ UNCHANGED check
      /\ copied' = IF copy \/ in[k].deleted THEN copied \cup {in[k].msg} ELSE copied
  <2>1. i[q] \in Nat /\ Len(in) \in Nat
    BY TableMail, BoxNames DEF TypeInv, Control, in
  <2>2. ~(i[q] > Len(in))
    BY <2>1
  <2>3. QED
    BY <1>a, <1>k, <1>c, <2>2 DEF File
<1>2. /\ a.to \in Boxes \ {"In"} /\ box["In"].open /\ k \in DOMAIN box["In"].toc /\ in[k].msg \in Msgs
      /\ k \in Nat
  BY <1>1, <1>a, <1>k, NextAction, CheckFree, Turn
<1>3. /\ Contested(q, "In", k) \subseteq raced' /\ raced \subseteq raced' /\ raced' \subseteq Msgs
      /\ Inherited(a.to) \subseteq excused' /\ excused \subseteq excused' /\ excused' \subseteq Msgs
  BY <1>b, <1>1, <1>2, StartsNoted
<1>4. Small(box', box, {}) /\ box'[a.to].open /\ \A x \in Boxes \ {a.to} : box'[x] = box[x]
  BY <1>1, <1>2, <1>3, SmallOpened, ZenonT(60) DEF TypeInv
<1>5. Small(box', box, {<<"In", k>>}) /\ box'["In"] = box["In"] /\ Onward
  BY <1>2, <1>4, SmallWider, SmallOnward, BoxNames DEF TypeInv
<1>6. PICK y : Begun(q, "In", k, a.to, y) /\ (y.copy => copy)
  <2>c. PICK c \in Boxes : c = a.to
    BY <1>2
  <2>1. Starts(q, "In", k, c, copy, FALSE)
    BY <1>1, <2>c
  <2>2. \E y : Begun(q, "In", k, c, y) /\ (y.copy => copy)
    <3>1. CASE copy
      <4>1. Starts(q, "In", k, c, TRUE, FALSE)
        BY <2>1, <3>1
      <4>2. QED
        BY <1>b, <1>2, <3>1, <4>1, StartsBegun
    <3>2. CASE ~copy
      <4>1. Starts(q, "In", k, c, FALSE, FALSE)
        BY <2>1, <3>2
      <4>2. \E y : Begun(q, "In", k, c, y) /\ ~y.copy
        BY <1>b, <1>2, <4>1, StartsBegun
      <4>3. QED
        BY <4>2
    <3>3. QED
      BY <3>1, <3>2
  <2>3. QED
    BY <2>2, <2>c
<1>7. /\ Control' /\ xfer' \in [Threads -> Transfer] /\ Apart(q) /\ Good(q)' /\ ~Held(q)
      /\ xfer'[q] = y /\ pc'[q] # "judge" /\ pc[q] # "judge"
  BY <1>b, <1>1, <1>2, <1>4, <1>5, <1>6, BegunHeld
<1>8. Grows /\ History' /\ Counts'
  BY <1>1, <1>2, <1>3 DEF Grows, TypeInv, History, Counts
<1>9. Typed'
  BY <1>7, <1>8 DEF Typed
<1>10. Takes(q, "In", k)
  BY <1>1, <1>5, <1>6, <1>7 DEF Begun, Takes, in
<1>11. QED
  BY <1>k, <1>1, <1>2, <1>3, <1>5, <1>7, <1>8, <1>9, <1>10 DEF Touches

LEMMA MoveTouches ==
    ASSUME TypeInv, NEW q \in Checkers, MoveSpam(q)
    PROVE  Touches(q, "In", i[q])
<1>k. PICK k : k = i[q]
  OBVIOUS
<1>b. "In" \in Boxes /\ "Junk" \in Boxes /\ "In" # "Junk" /\ q \in Threads /\ q # "main"
  BY BoxNames, CheckersAssumption DEF Threads
<1>1. /\ pc[q] = "move" /\ Free(q) /\ i[q] > 0 /\ k <= Len(in) /\ ~in[k].deleted /\ rules' = rules
      /\ box' = box /\ arrived' = arrived /\ copied' = copied /\ ham' = ham
      /\ crashes' = crashes /\ events' = events
      /\ Starts(q, "In", k, "Junk", FALSE, FALSE) /\ UNCHANGED check
  BY <1>k DEF MoveSpam, IsSpam
<1>2. box["In"].open /\ k \in DOMAIN box["In"].toc /\ in[k].msg \in Msgs /\ k \in Nat
  BY <1>1, <1>k, Turn, CheckFree
<1>3. Small(box', box, {<<"In", k>>}) /\ Onward
  BY <1>1, SmallNot, SmallWider, SmallOnward DEF TypeInv
<1>4. box'["Junk"].open /\ box'["In"] = box["In"]
  BY <1>b, <1>1 DEF TypeInv, Good, Checking
<1>5. /\ Contested(q, "In", k) \subseteq raced' /\ raced \subseteq raced' /\ raced' \subseteq Msgs
      /\ excused \subseteq excused' /\ excused' \subseteq Msgs
  BY <1>b, <1>1, <1>2, StartsNoted
<1>6. PICK y : Begun(q, "In", k, "Junk", y) /\ ~y.copy
  BY <1>b, <1>1, <1>2, StartsBegun
<1>7. /\ Control' /\ xfer' \in [Threads -> Transfer] /\ Apart(q) /\ Good(q)' /\ ~Held(q)
      /\ xfer'[q] = y /\ pc'[q] # "judge" /\ pc[q] # "judge"
  BY <1>b, <1>1, <1>2, <1>3, <1>4, <1>6, <1>k, BegunHeld
<1>8. Grows /\ History' /\ Counts'
  BY <1>1, <1>2, <1>5 DEF Grows, TypeInv, History, Counts
<1>9. Typed'
  BY <1>7, <1>8 DEF Typed
<1>10. Takes(q, "In", k)
  BY <1>1, <1>4, <1>6, <1>7 DEF Begun, Takes, in
<1>11. QED
  BY <1>k, <1>1, <1>2, <1>3, <1>4, <1>5, <1>7, <1>8, <1>9, <1>10 DEF Touches

\* A check that is not in a transfer goes on in In.
LEMMA CheckGood ==
    ASSUME TypeInv, NEW q \in Checkers, Free(q), xfer' = xfer, Onward, pc[q] # "idle",
           pc'[q] = "move" => pc[q] = "move",
           pc'[q] = "judge" => i'[q] \in DOMAIN box'["In"].toc
    PROVE  Good(q)' /\ ~Held(q) /\ ~Held(q)' /\ xfer' \in [Threads -> Transfer] /\ q \in Threads
<1>1. q \in Threads /\ xfer' \in [Threads -> Transfer] /\ Free(q)'
  BY DEF Threads, TypeInv, Free
<1>2. box'["In"].open /\ (pc'[q] = "move" => box'["Junk"].open)
  BY <1>1, BoxNames DEF TypeInv, Good, Checking, Onward
<1>3. QED
  BY <1>1, <1>2 DEF Good, Checking, Transferring, Free, Held

\* Thread p leaves nothing in hand where it has marked or scored a message, or
\* passed it over.
LEMMA LeavesTouched ==
    ASSUME TypeInv, NEW p \in Threads, NEW b \in Boxes, box[b].open, NEW k \in DOMAIN box[b].toc,
           Small(box', box, {<<b, k>>}), Apart(p), Good(p)', Typed', Grows, arrived' = arrived,
           ~Held(p), ~Held(p)', p \in Checkers => pc'[p] # "judge",
           NEW s, s = box[b].toc[k], NEW t, t = box'[b].toc[k],
           \/ p \in Checkers /\ pc[p] = "judge" /\ b = "In" /\ k = i[p] /\ t.deleted = s.deleted /\ ham' = ham
           \/ /\ Contested(p, b, k) \subseteq raced'
              /\ p \in Checkers => pc[p] # "judge"
              /\ \/ t.deleted /\ t.score = s.score /\ ham' = ham /\ s.msg \in excused'
                 \/ t.deleted = s.deleted /\ ham' = ham \ {s.msg}
                 \/ t.deleted = s.deleted /\ ham' = ham \cup {s.msg} /\ t.score = 0 /\ ~s.deleted
    PROVE  Touches(p, b, k)
<1>1. Takes(p, b, k)
  BY DEF Takes
<1>2. QED
  BY <1>1 DEF Touches

LEMMA ReadTouches ==
    ASSUME TypeInv, NEW q \in Checkers, ScoreReads(q)
    PROVE  Touches(q, "In", i[q])
<1>k. PICK k : k = i[q]
  OBVIOUS
<1>1. /\ pc[q] = "score" /\ k <= Len(in) /\ ~in[k].deleted /\ in[k].score = -1 /\ box' = box /\ rules' = rules
      /\ pc' = [pc EXCEPT ![q] = "judge"] /\ i' = i /\ r' = r /\ todo' = todo /\ xfer' = xfer
      /\ raced' = raced \cup Contested(q, "In", k)
      /\ arrived' = arrived /\ copied' = copied /\ excused' = excused /\ ham' = ham
      /\ crashes' = crashes /\ events' = events /\ Free(q) /\ todo[q] = <<>>
  BY <1>k, CheckFree DEF ScoreReads, WantsScore
<1>2. box["In"].open /\ k \in DOMAIN box["In"].toc /\ "In" \in Boxes
  <2>1. pc[q] # "idle" /\ i[q] > 0 /\ i[q] <= Len(in)
    BY <1>1, <1>k, CheckFree
  <2>2. QED
    BY <1>k, <2>1, Turn, BoxNames
<1>3. Small(box', box, {<<"In", k>>}) /\ Onward
  BY <1>1, SmallNot, SmallWider, SmallOnward DEF TypeInv
<1>4. /\ pc' \in [Checkers -> {"idle", "filter", "score", "judge", "move"}] /\ pc'[q] = "judge"
      /\ \A t \in Checkers \ {q} : pc'[t] = pc[t]
  BY <1>1 DEF TypeInv, Control
<1>5. Control' /\ Apart(q)
  BY <1>1, <1>4 DEF TypeInv, Control, Apart
<1>6. Good(q)' /\ ~Held(q) /\ ~Held(q)' /\ xfer' \in [Threads -> Transfer] /\ q \in Threads
  BY <1>1, <1>2, <1>3, <1>4, <1>k, CheckGood
<1>7. Grows /\ History' /\ Counts'
  BY <1>1, <1>2, ContestedMail DEF Grows, TypeInv, History, Counts
<1>8. Takes(q, "In", k)
  BY <1>1, <1>4, <1>6, <1>k DEF Takes, in
<1>9. QED
  BY <1>k, <1>1, <1>2, <1>3, <1>5, <1>6, <1>7, <1>8 DEF Touches, Typed

LEMMA JudgeTouches ==
    ASSUME TypeInv, NEW q \in Checkers, Judge(q)
    PROVE  Touches(q, "In", i[q])
<1>k. PICK k : k = i[q]
  OBVIOUS
<1>v. PICK v : v = Verdict[in[k].msg]
  OBVIOUS
<1>1. /\ pc[q] = "judge" /\ rules' = rules
      /\ box' = IF v >= 0 THEN [box EXCEPT !["In"].toc[k].score = v] ELSE box
      /\ pc' = [pc EXCEPT ![q] = "score"] /\ i' = [i EXCEPT ![q] = i[q] + 1] /\ r' = r /\ todo' = todo
      /\ xfer' = xfer /\ UNCHANGED hist /\ crashes' = crashes /\ events' = events /\ Free(q) /\ todo[q] = <<>>
      /\ i[q] \in Nat
  BY <1>k, <1>v, CheckFree DEF Judge
<1>2. box["In"].open /\ k \in DOMAIN box["In"].toc /\ "In" \in Boxes /\ q \in Threads
  BY <1>1, <1>k, BoxNames DEF Threads, TypeInv, Good, Checking
<1>A. AllSound(box)
  BY SMTT(60) DEF TypeInv
<1>3. in[k].msg \in Msgs /\ v \in -1 .. 100
  BY <1>2, <1>v, TableMail, VerdictAssumption DEF in
<1>4. Small(box', box, {<<"In", k>>}) /\ box'["In"].toc[k].deleted = box["In"].toc[k].deleted
  <2>1. CASE v >= 0
    <3>1. box' = [box EXCEPT !["In"].toc[k].score = v]
      BY <1>1, <2>1, SMTT(60)
    <3>2. AllSound(box') /\ Rescored(box', box, "In", k, v)
      BY <1>2, <1>3, <3>1, ScoredBox, ZenonT(60) DEF TypeInv
    <3>3. PICK e : Changed(box', box, "In", k, e) /\ e.deleted = box["In"].toc[k].deleted
      BY <3>2 DEF Rescored
    <3>4. Small(box', box, {<<"In", k>>}) /\ box'["In"].toc[k] = e
      BY <1>2, <1>A, <3>2, <3>3, SmallChanged
    <3>5. QED
      BY <3>3, <3>4
  <2>2. CASE ~(v >= 0)
    BY <1>1, <2>2, SmallNot, SmallWider DEF TypeInv
  <2>3. QED
    BY <2>1, <2>2
<1>5. Onward
  BY <1>4, SmallOnward DEF TypeInv
<1>6. /\ pc' \in [Checkers -> {"idle", "filter", "score", "judge", "move"}] /\ pc'[q] = "score"
      /\ \A t \in Checkers \ {q} : pc'[t] = pc[t]
  BY <1>1 DEF TypeInv, Control
<1>7. i' \in [Checkers -> Nat] /\ \A t \in Checkers \ {q} : i'[t] = i[t]
  BY <1>1 DEF TypeInv, Control
<1>8. Control' /\ Apart(q)
  BY <1>1, <1>6, <1>7 DEF TypeInv, Control, Apart
<1>9. Good(q)' /\ ~Held(q) /\ ~Held(q)' /\ xfer' \in [Threads -> Transfer]
  BY <1>1, <1>5, <1>6, CheckGood
<1>10. Grows /\ Typed' /\ arrived' = arrived /\ ham' = ham
  BY <1>1, <1>8, <1>9, SMTT(60) DEF Grows, TypeInv, History, Counts, hist, Typed
<1>11. Touches(q, "In", k)
  BY <1>k, <1>1, <1>2, <1>4, <1>6, <1>8, <1>9, <1>10, LeavesTouched, ZenonT(60)
<1>12. QED
  BY <1>k, <1>11

LEMMA ActTouches ==
    ASSUME TypeInv, NEW q \in Checkers, Act(q), Head(todo[q]).do # "stop", i[q] <= Len(in)
    PROVE  Touches(q, "In", i[q])
<1>a. PICK a : a = Head(todo[q])
  OBVIOUS
<1>k. PICK k : k = i[q]
  OBVIOUS
<1>s. PICK s : s = in[k]
  OBVIOUS
<1>1. /\ todo[q] # <<>> /\ Free(q) /\ Done(q, a) /\ xfer' = xfer /\ pc' = pc /\ rules' = rules
      /\ pc[q] = "filter" /\ arrived' = arrived /\ copied' = copied /\ crashes' = crashes /\ events' = events
      /\ raced' = raced \cup Contested(q, "In", k)
      /\ \/ /\ a.do = "delete" /\ box' = [box EXCEPT !["In"].toc[k].deleted = TRUE]
            /\ excused' = excused \cup {s.msg} /\ ham' = ham
         \/ /\ a.do = "junk" /\ box' = [box EXCEPT !["In"].toc[k].score = a.score]
            /\ excused' = excused /\ ham' = ham \ {s.msg}
  BY <1>a, <1>k, <1>s DEF Act
<1>2. box["In"].open /\ k \in DOMAIN box["In"].toc /\ "In" \in Boxes /\ q \in Threads /\ s.msg \in Msgs
  BY <1>1, <1>k, <1>s, Turn, CheckFree, BoxNames DEF Threads
<1>t. PICK t : t = box'["In"].toc[k]
  OBVIOUS
<1>A. AllSound(box)
  BY DEF TypeInv
<1>3. /\ Small(box', box, {<<"In", k>>})
      /\ a.do = "delete" => t.deleted /\ t.score = s.score
      /\ a.do = "junk" => t.deleted = s.deleted
  <2>1. CASE a.do = "delete"
    <3>1. box' = [box EXCEPT !["In"].toc[k].deleted = TRUE]
      BY <1>1, <2>1
    <3>2. /\ AllSound(box')
          /\ \E e \in Entry : /\ Changed(box', box, "In", k, e)
                            /\ e.msg = box["In"].toc[k].msg /\ e.deleted /\ e.score = box["In"].toc[k].score
      BY <1>2, <1>A, <3>1, MarkedBox, ZenonT(60)
    <3>3. PICK e : Changed(box', box, "In", k, e) /\ e.deleted /\ e.score = box["In"].toc[k].score
      BY <3>2
    <3>4. Small(box', box, {<<"In", k>>}) /\ box'["In"].toc[k] = e
      BY <1>2, <1>A, <3>2, <3>3, SmallChanged
    <3>5. QED
      BY <1>s, <1>t, <2>1, <3>3, <3>4 DEF in
  <2>2. CASE a.do = "junk"
    <3>0. a.score \in 0 .. 100
      BY <1>1, <1>a, <2>2, NextAction, ZenonT(60)
    <3>1. box' = [box EXCEPT !["In"].toc[k].score = a.score] /\ a.score \in -1 .. 100
      BY <1>1, <2>2, <3>0
    <3>2. AllSound(box') /\ Rescored(box', box, "In", k, a.score)
      BY <1>2, <3>1, ScoredBox, ZenonT(60) DEF TypeInv
    <3>3. PICK e : Changed(box', box, "In", k, e) /\ e.deleted = box["In"].toc[k].deleted
      BY <3>2 DEF Rescored
    <3>4. Small(box', box, {<<"In", k>>}) /\ box'["In"].toc[k] = e
      BY <1>2, <1>A, <3>2, <3>3, SmallChanged
    <3>5. QED
      BY <1>s, <1>t, <2>2, <3>3, <3>4 DEF in
  <2>3. QED
    BY <1>1, <2>1, <2>2
<1>4. Onward
  BY <1>3, SmallOnward DEF TypeInv
<1>5. Control' /\ Apart(q)
  BY <1>1, DoneControl DEF TypeInv, Apart
<1>6. Good(q)' /\ ~Held(q) /\ ~Held(q)' /\ xfer' \in [Threads -> Transfer]
  BY <1>1, <1>4, CheckGood
<1>7. Contested(q, "In", k) \subseteq Msgs
  BY <1>2, ContestedMail
<1>8. Grows /\ Typed'
  BY <1>1, <1>2, <1>5, <1>6, <1>7 DEF Grows, TypeInv, History, Counts, Typed
<1>9. Contested(q, "In", k) \subseteq raced' /\ s = box["In"].toc[k]
      /\ \/ t.deleted /\ t.score = s.score /\ ham' = ham /\ s.msg \in excused'
         \/ t.deleted = s.deleted /\ ham' = ham \ {s.msg}
  BY <1>1, <1>3, <1>s, SMTT(60) DEF in
<1>10. Touches(q, "In", k)
  BY <1>1, <1>2, <1>3, <1>5, <1>6, <1>8, <1>9, <1>t, LeavesTouched
<1>11. QED
  BY <1>k, <1>10

\* A summary that is written, and its mailbox saved.
LEMMA SmallWritten ==
    ASSUME AllSound(box), NEW b \in Boxes, box[b].open, NEW k \in DOMAIN box[b].toc, NEW e,
           NEW N, AllSound(N), Changed(N, box, b, k, e), box' = Saving(N, {b})
    PROVE  Small(box', box, {<<b, k>>}) /\ box'[b].toc[k] = e
<1>1. Small(N, box, {<<b, k>>}) /\ N[b].toc[k] = e
  BY SmallChanged
<1>2. N[b].open /\ \A x \in Boxes : x \in {b} => N[x].open
  BY DEF Changed
<1>3. Small(box', N, {}) /\ box'[b].toc = N[b].toc
  BY <1>2, SmallSaved
<1>4. Small(box', box, {<<b, k>>} \cup {})
  BY <1>1, <1>3, SmallThen, SMTT(60)
<1>5. QED
  BY <1>1, <1>3, <1>4

\* A step of the user that marks or scores a message and starts no transfer.
LEMMA UserTouches ==
    ASSUME TypeInv, Free("main"), NEW b \in Boxes, NEW k \in DOMAIN box[b].toc, Visible(b, k), Event,
           Small(box', box, {<<b, k>>}), xfer' = xfer, UNCHANGED check, rules' = rules,
           raced' = raced \cup Contested("main", b, k),
           arrived' = arrived, copied' = copied, crashes' = crashes,
           NEW s, s = box[b].toc[k], NEW t, t = box'[b].toc[k],
           \/ t.deleted /\ t.score = s.score /\ ham' = ham /\ excused' = excused \cup {s.msg}
           \/ t.deleted = s.deleted /\ ham' = ham \ {s.msg} /\ excused' = excused
           \/ t.deleted = s.deleted /\ ham' = ham \cup {s.msg} /\ t.score = 0 /\ excused' = excused
    PROVE  Touches("main", b, k)
<1>1. box[b].open /\ ~s.deleted /\ s.msg \in Msgs /\ AllSound(box)
  BY TableMail DEF Visible, TypeInv
<1>2. /\ Apart("main") /\ Good("main")' /\ Control' /\ xfer' \in [Threads -> Transfer]
      /\ ~Held("main") /\ ~Held("main")' /\ "main" \in Threads /\ "main" \notin Checkers
  BY UserApart
<1>3. Contested("main", b, k) \subseteq Msgs
  BY <1>1, ContestedMail
<1>4. Counts'
  BY EventCounts
<1>5. Grows /\ History'
  BY <1>1, <1>3 DEF Grows, TypeInv, History
<1>6. Typed' /\ Contested("main", b, k) \subseteq raced'
  BY <1>2, <1>4, <1>5 DEF Typed
<1>7. \/ t.deleted /\ t.score = s.score /\ ham' = ham /\ s.msg \in excused'
      \/ t.deleted = s.deleted /\ ham' = ham \ {s.msg}
      \/ t.deleted = s.deleted /\ ham' = ham \cup {s.msg} /\ t.score = 0 /\ ~s.deleted
  BY <1>1
<1>8. QED
  BY <1>1, <1>2, <1>5, <1>6, <1>7, LeavesTouched

LEMMA DeletesTouches ==
    ASSUME TypeInv, Free("main"), NEW b \in Boxes, NEW k \in DOMAIN box[b].toc, UserDeletes(b, k)
    PROVE  Touches("main", b, k)
<1>N. PICK N : N = [box EXCEPT ![b].toc[k].deleted = TRUE]
  OBVIOUS
<1>1. AllSound(box) /\ Visible(b, k) /\ box[b].open /\ box' = Saving(N, {b})
  BY <1>N DEF UserDeletes, Visible, TypeInv
<1>2. /\ AllSound(N)
      /\ \E e \in Entry : /\ Changed(N, box, b, k, e)
                          /\ e.msg = box[b].toc[k].msg /\ e.deleted /\ e.score = box[b].toc[k].score
  BY <1>1, <1>N, MarkedBox, ZenonT(60)
<1>3. PICK e : Changed(N, box, b, k, e) /\ e.deleted /\ e.score = box[b].toc[k].score
  BY <1>2
<1>4. Small(box', box, {<<b, k>>}) /\ box'[b].toc[k] = e
  <2>1. AllSound(box) /\ box[b].open /\ box' = Saving(N, {b})
    BY <1>1
  <2>2. AllSound(N) /\ Changed(N, box, b, k, e)
    BY <1>2, <1>3
  <2>3. QED
    BY <2>1, <2>2, SmallWritten
<1>5. /\ Event /\ xfer' = xfer /\ UNCHANGED check /\ rules' = rules
      /\ raced' = raced \cup Contested("main", b, k) /\ excused' = excused \cup {box[b].toc[k].msg}
      /\ arrived' = arrived /\ copied' = copied /\ crashes' = crashes /\ ham' = ham
  BY DEF UserDeletes
<1>6. QED
  BY <1>1, <1>3, <1>4, <1>5, UserTouches

LEMMA HamTouches ==
    ASSUME TypeInv, Free("main"), NEW b \in Boxes, NEW k \in DOMAIN box[b].toc, UserSaysHam(b, k)
    PROVE  Touches("main", b, k)
<1>N. PICK N : N = [box EXCEPT ![b].toc[k].score = 0]
  OBVIOUS
<1>1. AllSound(box) /\ Visible(b, k) /\ box[b].open /\ box' = Saving(N, {b}) /\ 0 \in -1 .. 100
  BY <1>N DEF UserSaysHam, Visible, TypeInv
<1>2. AllSound(N) /\ Rescored(N, box, b, k, 0)
  BY <1>1, <1>N, ScoredBox, ZenonT(60)
<1>3. PICK e : Changed(N, box, b, k, e) /\ e.deleted = box[b].toc[k].deleted /\ e.score = 0
  BY <1>2 DEF Rescored
<1>4. Small(box', box, {<<b, k>>}) /\ box'[b].toc[k] = e
  <2>1. AllSound(box) /\ box[b].open /\ box' = Saving(N, {b})
    BY <1>1
  <2>2. AllSound(N) /\ Changed(N, box, b, k, e)
    BY <1>2, <1>3
  <2>3. QED
    BY <2>1, <2>2, SmallWritten
<1>5. /\ Event /\ xfer' = xfer /\ UNCHANGED check /\ rules' = rules
      /\ raced' = raced \cup Contested("main", b, k) /\ excused' = excused
      /\ arrived' = arrived /\ copied' = copied /\ crashes' = crashes /\ ham' = ham \cup {box[b].toc[k].msg}
  BY DEF UserSaysHam
<1>6. QED
  BY <1>1, <1>3, <1>4, <1>5, UserTouches

\* The user starts a transfer to c of a message that was scored, or not, before.
LEMMA UserStarts ==
    ASSUME TypeInv, Free("main"), NEW b \in Boxes, NEW c \in Boxes, b # c, NEW k \in DOMAIN box[b].toc,
           Visible(b, k), Event, NEW both \in BOOLEAN, Starts("main", b, k, c, FALSE, both),
           Small(box', box, {<<b, k>>}), box'[c].open, UNCHANGED check, rules' = rules,
           arrived' = arrived, copied' = copied, crashes' = crashes,
           box'[b].toc[k].deleted = box[b].toc[k].deleted,
           \/ box'[b].toc[k].score = box[b].toc[k].score /\ ham' = ham
           \/ ham' = ham \ {box[b].toc[k].msg}
    PROVE  Touches("main", b, k)
<1>1. box[b].open /\ ~box[b].toc[k].deleted /\ k \in Nat /\ "main" \in Threads /\ "main" \notin Checkers
  BY TableMail, BoxNames, CheckersAssumption DEF Visible
<1>2. Onward
  BY SmallOnward DEF TypeInv
<1>3. /\ Contested("main", b, k) \subseteq raced' /\ raced \subseteq raced' /\ raced' \subseteq Msgs
      /\ excused \subseteq excused' /\ excused' \subseteq Msgs
  BY <1>1, StartsNoted
<1>4. PICK y : Begun("main", b, k, c, y) /\ ~y.copy
  BY <1>1, StartsBegun
<1>5. /\ Control' /\ xfer' \in [Threads -> Transfer] /\ Apart("main") /\ Good("main")' /\ ~Held("main")
      /\ xfer'["main"] = y
  BY <1>1, <1>2, <1>4, BegunHeld
<1>6. Grows /\ History' /\ Counts'
  BY <1>3, EventCounts DEF Grows, TypeInv, History
<1>7. Typed'
  BY <1>5, <1>6 DEF Typed
<1>8. Takes("main", b, k)
  BY <1>1, <1>4, <1>5 DEF Begun, Takes
<1>9. QED
  BY <1>1, <1>3, <1>5, <1>6, <1>7, <1>8 DEF Touches

LEMMA MovesTouches ==
    ASSUME TypeInv, Free("main"), NEW b \in Boxes, NEW k \in DOMAIN box[b].toc, NEW c \in Boxes,
           UserMoves(b, k, c)
    PROVE  Touches("main", b, k)
<1>1. /\ b # c /\ Visible(b, k) /\ Event /\ box' = [box EXCEPT ![c] = Opened(c)]
      /\ Starts("main", b, k, c, FALSE, TRUE) /\ UNCHANGED check /\ rules' = rules
      /\ arrived' = arrived /\ copied' = copied /\ ham' = ham /\ crashes' = crashes
  BY DEF UserMoves
<1>2. Inherited(c) \subseteq excused' /\ AllSound(box)
  BY <1>1 DEF Starts, TypeInv
<1>3. Small(box', box, {}) /\ box'[c].open /\ \A x \in Boxes \ {c} : box'[x] = box[x]
  BY <1>1, <1>2, SmallOpened
<1>4. Small(box', box, {<<b, k>>}) /\ box'[b] = box[b]
  BY <1>1, <1>2, <1>3, SmallWider
<1>5. TRUE \in BOOLEAN
  OBVIOUS
<1>6. QED
  BY <1>1, <1>3, <1>4, <1>5, UserStarts

LEMMA JunkTouches ==
    ASSUME TypeInv, Free("main"), NEW b \in Boxes, NEW k \in DOMAIN box[b].toc, UserSaysJunk(b, k)
    PROVE  Touches("main", b, k)
<1>n. PICK n : n = IF box[b].toc[k].score > 0 THEN box[b].toc[k].score ELSE 100
  OBVIOUS
<1>A. AllSound(box) /\ "Junk" \in Boxes
  BY BoxNames DEF TypeInv
<1>1. /\ Visible(b, k) /\ Event /\ ham' = ham \ {box[b].toc[k].msg} /\ UNCHANGED check /\ rules' = rules
      /\ arrived' = arrived /\ copied' = copied /\ crashes' = crashes /\ box[b].open
  BY DEF UserSaysJunk, Visible
<1>2. n \in -1 .. 100
  <2>1. box[b].toc[k].score \in -1 .. 100
    BY <1>1, TableMail, EntryFields
  <2>2. QED
    BY <1>n, <2>1
<1>3. CASE b = "Junk"
  <2>N. PICK N : N = [box EXCEPT ![b].toc[k].score = n]
    OBVIOUS
  <2>1. /\ box' = Saving(N, {b}) /\ raced' = raced \cup Contested("main", b, k) /\ xfer' = xfer
        /\ excused' = excused
    BY <1>3, <1>n, <2>N DEF UserSaysJunk
  <2>2. AllSound(N) /\ Rescored(N, box, b, k, n)
    BY <1>1, <1>2, <1>A, <2>N, ScoredBox, ZenonT(60)
  <2>3. PICK e : Changed(N, box, b, k, e) /\ e.deleted = box[b].toc[k].deleted
    BY <2>2 DEF Rescored
  <2>4. Small(box', box, {<<b, k>>}) /\ box'[b].toc[k] = e
    <3>1. AllSound(box) /\ box[b].open /\ box' = Saving(N, {b})
      BY <1>1, <1>A, <2>1
    <3>2. AllSound(N) /\ Changed(N, box, b, k, e)
      BY <2>2, <2>3, SMTT(60)
    <3>3. QED
      BY <3>1, <3>2, SmallWritten
  <2>5. QED
    BY <1>1, <2>1, <2>3, <2>4, UserTouches
<1>4. CASE b # "Junk"
  <2>1. /\ box' = [[box EXCEPT ![b].toc[k].score = n] EXCEPT !["Junk"] = Opened("Junk")]
        /\ Starts("main", b, k, "Junk", FALSE, FALSE)
    BY <1>4, <1>n DEF UserSaysJunk
  <2>N. PICK N : N = [box EXCEPT !["Junk"] = Opened("Junk")]
    OBVIOUS
  <2>2. Inherited("Junk") \subseteq excused'
    BY <2>1 DEF Starts
  <2>3. Small(N, box, {}) /\ N["Junk"].open /\ \A x \in Boxes \ {"Junk"} : N[x] = box[x]
    BY <1>A, <2>2, <2>N, SmallOpened
  <2>4. AllSound(N) /\ N[b] = box[b] /\ N[b].open /\ k \in DOMAIN N[b].toc
    BY <1>1, <1>4, <2>3 DEF Small
  <2>5. box' = [N EXCEPT ![b].toc[k].score = n]
    BY <1>4, <2>1, <2>N
  <2>6. AllSound(box') /\ Rescored(box', N, b, k, n)
    BY <1>2, <2>4, <2>5, ScoredBox, ZenonT(60)
  <2>7. PICK e : Changed(box', N, b, k, e) /\ e.deleted = box[b].toc[k].deleted
    BY <2>4, <2>6 DEF Rescored
  <2>8. Small(box', N, {<<b, k>>}) /\ box'[b].toc[k] = e
    <3>1. AllSound(N) /\ N[b].open /\ k \in DOMAIN N[b].toc
      BY <2>4
    <3>2. AllSound(box') /\ Changed(box', N, b, k, e)
      BY <2>6, <2>7
    <3>3. QED
      BY <3>1, <3>2, SmallChanged
  <2>9. Small(box', box, {} \cup {<<b, k>>})
    BY <1>A, <2>3, <2>8, SmallThen
  <2>10. Small(box', box, {<<b, k>>}) /\ box'["Junk"].open
    BY <1>4, <1>A, <2>3, <2>7, <2>9 DEF Changed
  <2>11. box'[b].toc[k].deleted = box[b].toc[k].deleted /\ FALSE \in BOOLEAN
    BY <2>7, <2>8
  <2>12. QED
    BY <1>1, <1>4, <1>A, <2>1, <2>10, <2>11, UserStarts, ZenonT(60)
<1>5. QED
  BY <1>3, <1>4

-----------------------------------------------------------------------------
(* The other actions                                                       *)

\* A transfer goes on to another stage.
LEMMA StageGoes ==
    ASSUME TypeInv, NEW p \in Threads, Held(p), Onward, rules' = rules, UNCHANGED check,
           NEW y \in Transfer, xfer' = [xfer EXCEPT ![p] = y], y.stage \in {"describe", "mark"},
           y.from = xfer[p].from, y.at = xfer[p].at, y.to = xfer[p].to, y.copy = xfer[p].copy,
           y.new \in DOMAIN box'[y.to].toc,
           y.stage = "describe" => box'[y.to].toc[y.new].msg = box[y.from].toc[y.at].msg
    PROVE  /\ Control' /\ xfer' \in [Threads -> Transfer] /\ Apart(p) /\ Good(p)' /\ xfer'[p] = y
           /\ p \in Checkers => pc'[p] # "judge" /\ pc[p] # "judge"
<1>1. ~Free(p) /\ Transferring(p) /\ (p \in Checkers => Checking(p)) /\ Control
  BY DEF Held, Free, TypeInv, Good
<1>2. xfer \in [Threads -> Transfer] /\ xfer[p].from \in Boxes /\ xfer[p].to \in Boxes
  BY TransferFields DEF TypeInv
<1>3. xfer' \in [Threads -> Transfer] /\ xfer'[p] = y /\ \A t \in Threads \ {p} : xfer'[t] = xfer[t]
  BY <1>2
<1>4. Transferring(p)'
  <2>1. /\ xfer[p].from # xfer[p].to /\ box[xfer[p].from].open /\ box[xfer[p].to].open
        /\ xfer[p].at \in DOMAIN box[xfer[p].from].toc /\ (p = "main" => ~xfer[p].copy)
    BY <1>1 DEF Transferring
  <2>2. /\ box'[xfer[p].from].open /\ box'[xfer[p].to].open /\ xfer[p].at \in DOMAIN box'[xfer[p].from].toc
        /\ box'[xfer[p].from].toc[xfer[p].at].msg = box[xfer[p].from].toc[xfer[p].at].msg
    BY <1>2, <2>1 DEF Onward
  <2>3. QED
    BY <1>3, <2>1, <2>2 DEF Transferring
<1>5. p \in Checkers => Checking(p)' /\ pc'[p] # "judge" /\ pc[p] # "judge"
  <2> SUFFICES ASSUME p \in Checkers PROVE Checking(p)' /\ pc'[p] # "judge" /\ pc[p] # "judge"
    OBVIOUS
  <2>1. /\ pc' = pc /\ i' = i /\ todo' = todo
        /\ (pc[p] = "filter" /\ todo[p] # <<>>) \/ (pc[p] = "move" /\ i[p] > 0)
    BY <1>1 DEF Checking, check
  <2>2. box'["In"].open /\ (pc[p] = "move" => box'["Junk"].open)
    BY <1>1, <2>1, BoxNames DEF Checking, Onward
  <2>3. QED
    BY <1>3, <2>1, <2>2 DEF Checking, Held
<1>6. Control' /\ Apart(p)
  BY <1>1, <1>3 DEF Control, check, Apart
<1>7. QED
  BY <1>3, <1>4, <1>5, <1>6 DEF Good

\* Histories and counts at a step that leaves them alone.
LEMMA HistoryStays ==
    ASSUME TypeInv, UNCHANGED hist, rules' = rules, crashes' = crashes, events' = events
    PROVE  /\ History' /\ Counts' /\ Grows
           /\ arrived' = arrived /\ copied' = copied /\ excused' = excused /\ ham' = ham /\ raced' = raced
  BY DEF TypeInv, hist, History, Counts, Grows

LEMMA AppendedSeq ==
    ASSUME NEW A, NEW s \in Seq(A), NEW e \in A, NEW t, t = Append(s, e)
    PROVE  /\ t \in Seq(A) /\ Len(s) \in Nat /\ Len(t) = Len(s) + 1
           /\ DOMAIN t = DOMAIN s \cup {Len(s) + 1} /\ Len(s) + 1 \notin DOMAIN s
           /\ t[Len(s) + 1] = e /\ \A j \in DOMAIN s : t[j] = s[j]
  BY SMTT(30)

\* Thread p has appended its message, which is the last of c now.
Extends(p, c, m) ==
    /\ AllSound(box') /\ Onward /\ box[c].open /\ c \in Boxes
    /\ \A x \in Boxes \ {c} : box'[x] = box[x]
    /\ box'[c].open /\ box'[c].saved = box[c].saved
    /\ box'[c].file = Append(box[c].file, m) /\ box'[c].toc = Append(box[c].toc, Unread(m))

LEMMA AppendsExtends ==
    ASSUME TypeInv, NEW p \in Threads, Appends(p), NEW x, x = xfer[p],
           NEW m, m = box[x.from].toc[x.at].msg
    PROVE  /\ Extends(p, x.to, m) /\ Unread(m) \in Entry /\ m \in Msgs
           /\ x \in Transfer /\ x.stage = "append" /\ x.from # x.to /\ x.from \in Boxes /\ box[x.from].open
           /\ x.at \in DOMAIN box[x.from].toc /\ x.to \in Boxes
           /\ Apart(p) /\ Good(p)' /\ Typed'
           /\ xfer'[p].stage = "describe" /\ xfer'[p].new = Len(box[x.to].toc) + 1
           /\ xfer'[p].from = x.from /\ xfer'[p].at = x.at /\ xfer'[p].to = x.to /\ xfer'[p].copy = x.copy
           /\ p \in Checkers => pc'[p] # "judge"
           /\ Grows /\ arrived' = arrived /\ copied' = copied /\ excused' = excused /\ ham' = ham
           /\ raced' = raced
<1>l. PICK l : l = Len(box[x.to].toc) + 1
  BY SMTT(60)
<1>1. /\ x.stage = "append" /\ rules' = rules /\ UNCHANGED check /\ UNCHANGED hist
      /\ crashes' = crashes /\ events' = events
      /\ box' = [box EXCEPT ![x.to].toc = Append(@, Unread(m)), ![x.to].file = Append(@, m)]
      /\ xfer' = [xfer EXCEPT ![p].stage = "describe", ![p].new = l]
  BY <1>l DEF Appends
<1>2. x \in Transfer /\ x.from \in Boxes /\ x.to \in Boxes /\ xfer \in [Threads -> Transfer]
  BY TransferFields, SMTT(60) DEF TypeInv
<1>3. /\ Held(p) /\ x.from # x.to /\ box[x.from].open /\ box[x.to].open
      /\ x.at \in DOMAIN box[x.from].toc
  BY <1>1 DEF TypeInv, Good, Transferring, Free, Held
<1>4. m \in Msgs /\ Unread(m) \in Entry /\ Unread(m).msg = m
  <2>1. m \in Msgs
    BY <1>2, <1>3, TableMail
  <2>2. -1 \in -1 .. 100
    OBVIOUS
  <2>3. QED
    BY <2>1, <2>2 DEF Unread, Entry
<1>b. PICK b : b = box[x.to]
  OBVIOUS
<1>y. PICK y : y = [b EXCEPT !.toc = Append(@, Unread(m)), !.file = Append(@, m)]
  OBVIOUS
<1>5. Sound(b) /\ b \in Box
  BY <1>2, <1>b, SMTT(60) DEF TypeInv, AllSound, Sound
<1>6. /\ y = [open |-> TRUE, toc |-> y.toc, file |-> y.file, saved |-> b.saved]
      /\ y.open /\ y.saved = b.saved /\ y.toc = Append(b.toc, Unread(m)) /\ y.file = Append(b.file, m)
  BY <1>3, <1>5, <1>b, <1>y, ZenonT(60) DEF Box
<1>7. Sound(y)
  BY <1>3, <1>4, <1>5, <1>6, <1>b, AppendedSound, ZenonT(60)
<1>8. DOMAIN box' = Boxes /\ box'[x.to] = y /\ \A z \in Boxes \ {x.to} : box'[z] = box[z]
  BY <1>1, <1>2, <1>b, <1>y, ZenonT(60) DEF TypeInv, AllSound
<1>9. AllSound(box')
  BY <1>7, <1>8 DEF TypeInv, AllSound
<1>10. b.toc \in Seq(Entry) /\ Len(b.toc) \in Nat /\ l \in Nat /\ l = Len(b.toc) + 1
  BY <1>5, <1>b, <1>l DEF Box
<1>11. /\ DOMAIN y.toc = DOMAIN b.toc \cup {l} /\ y.toc[l] = Unread(m)
       /\ \A j \in DOMAIN b.toc : y.toc[j] = b.toc[j]
  <2>u. PICK u : u = Unread(m)
    OBVIOUS
  <2>t. PICK t : t = y.toc
    OBVIOUS
  <2>s. PICK s : s = b.toc
    BY SMTT(60)
  <2>1. s \in Seq(Entry) /\ u \in Entry /\ t = Append(s, u)
    BY <1>4, <1>6, <1>10, <2>u, <2>t, <2>s, ZenonT(60)
  <2>2. /\ DOMAIN t = DOMAIN s \cup {Len(s) + 1} /\ t[Len(s) + 1] = u
        /\ \A j \in DOMAIN s : t[j] = s[j]
    BY <2>1, AppendedSeq
  <2>3. QED
    BY <1>10, <2>2, <2>u, <2>t, <2>s
<1>12. Onward
  <2> SUFFICES ASSUME NEW c \in Boxes, box[c].open
               PROVE  /\ box'[c].open
                      /\ \A j \in DOMAIN box[c].toc : /\ j \in DOMAIN box'[c].toc
                                                     /\ box'[c].toc[j].msg = box[c].toc[j].msg
    BY SMTT(60) DEF Onward
  <2>1. CASE c = x.to
    BY <1>6, <1>8, <1>11, <1>b, <2>1, ZenonT(60)
  <2>2. CASE c # x.to
    BY <1>8, <2>2, SMTT(60)
  <2>3. QED
    BY <2>1, <2>2
<1>13. Extends(p, x.to, m)
  BY <1>2, <1>3, <1>6, <1>8, <1>9, <1>12, <1>b, ZenonT(60) DEF Extends
<1>z. PICK z : z = [x EXCEPT !.stage = "describe", !.new = l]
  OBVIOUS
<1>14. /\ z \in Transfer /\ z.stage = "describe" /\ z.new = l
       /\ z.from = x.from /\ z.at = x.at /\ z.to = x.to /\ z.copy = x.copy
  BY <1>2, <1>10, <1>z DEF Transfer
<1>15. xfer' = [xfer EXCEPT ![p] = z]
  BY <1>1, <1>2, <1>z
<1>16. z.new \in DOMAIN box'[z.to].toc /\ box'[z.to].toc[z.new].msg = box[z.from].toc[z.at].msg
  BY <1>4, <1>8, <1>11, <1>14
<1>17. /\ Control' /\ xfer' \in [Threads -> Transfer] /\ Apart(p) /\ Good(p)' /\ xfer'[p] = z
       /\ p \in Checkers => pc'[p] # "judge"
  <2>1. Held(p) /\ rules' = rules /\ UNCHANGED check
    BY <1>1, <1>3
  <2>2. /\ z \in Transfer /\ z.stage \in {"describe", "mark"}
        /\ z.from = xfer[p].from /\ z.at = xfer[p].at /\ z.to = xfer[p].to /\ z.copy = xfer[p].copy
    BY <1>14, SMTT(60)
  <2>3. QED
    BY <1>12, <1>15, <1>16, <2>1, <2>2, StageGoes, ZenonT(60)
<1>18. /\ History' /\ Counts' /\ Grows
       /\ arrived' = arrived /\ copied' = copied /\ excused' = excused /\ ham' = ham /\ raced' = raced
  BY <1>1, HistoryStays, ZenonT(60)
<1>19. QED
  BY <1>1, <1>2, <1>3, <1>4, <1>13, <1>14, <1>17, <1>18, <1>l, ZenonT(60) DEF Typed

\* The new summary of a transfer is described as the original, not deleted.
Described(p, x, e) ==
    /\ x.stage = "describe" /\ x.from # x.to /\ x.from \in Boxes /\ x.to \in Boxes
    /\ box[x.from].open /\ box[x.to].open /\ x.at \in DOMAIN box[x.from].toc /\ x.new \in DOMAIN box[x.to].toc
    /\ Small(box', box, {<<x.to, x.new>>}) /\ box'[x.to].toc[x.new] = e
    /\ e.msg = box[x.from].toc[x.at].msg /\ box[x.to].toc[x.new].msg = e.msg
    /\ ~e.deleted /\ e.score = box[x.from].toc[x.at].score
    /\ Apart(p) /\ Good(p)' /\ Typed' /\ Grows
    /\ UNCHANGED <<arrived, copied, excused, ham, raced>>
    /\ p \in Checkers => pc'[p] # "judge" /\ pc[p] # "judge"
    /\ x.copy => ~Held(p)'
    /\ ~x.copy => /\ xfer'[p].stage = "mark" /\ xfer'[p].from = x.from /\ xfer'[p].at = x.at
                  /\ xfer'[p].to = x.to /\ ~xfer'[p].copy

LEMMA DescribeDescribed ==
    ASSUME TypeInv, NEW p \in Threads, Describe(p), NEW x, x = xfer[p]
    PROVE  \E e : Described(p, x, e)
<1>s. PICK s : s = box[x.from].toc[x.at]
  OBVIOUS
<1>e. PICK e : e = [s EXCEPT !.deleted = FALSE]
  BY ZenonT(60)
<1>1. /\ x.stage = "describe" /\ rules' = rules /\ UNCHANGED hist /\ crashes' = crashes /\ events' = events
      /\ box' = [box EXCEPT ![x.to].toc[x.new] = e]
      /\ x.copy => Returns(p)
      /\ ~x.copy => xfer' = [xfer EXCEPT ![p].stage = "mark"] /\ UNCHANGED check
  BY <1>s, <1>e, ZenonT(60) DEF Describe
<1>2. x \in Transfer /\ x.from \in Boxes /\ x.to \in Boxes /\ xfer \in [Threads -> Transfer] /\ AllSound(box)
  BY TransferFields DEF TypeInv
<1>3. /\ Held(p) /\ x.from # x.to /\ box[x.from].open /\ box[x.to].open
      /\ x.at \in DOMAIN box[x.from].toc /\ x.new \in DOMAIN box[x.to].toc
      /\ box[x.to].toc[x.new].msg = s.msg
  BY <1>1, <1>s DEF TypeInv, Good, Transferring, Free, Held
<1>4. s \in Entry
  BY <1>2, <1>3, <1>s, TableMail
<1>5. e \in Entry /\ e.msg = s.msg /\ ~e.deleted /\ e.score = s.score
  BY <1>4, <1>e, DeletedEntry
<1>y. PICK y : y = [box[x.to] EXCEPT !.toc = [@ EXCEPT ![x.new] = e]]
  OBVIOUS
<1>6. box' = [box EXCEPT ![x.to] = y]
  BY <1>1, <1>y
<1>7. AllSound(box') /\ Changed(box', box, x.to, x.new, e)
  <2>1. e.msg = box[x.to].toc[x.new].msg
    BY <1>3, <1>5
  <2>2. x.to \in Boxes /\ box[x.to].open /\ x.new \in DOMAIN box[x.to].toc /\ AllSound(box) /\ e \in Entry
    BY <1>2, <1>3, <1>5
  <2>3. QED
    BY <1>6, <1>y, <2>1, <2>2, ChangedBox
<1>8. Small(box', box, {<<x.to, x.new>>}) /\ box'[x.to].toc[x.new] = e
  <2>1. x.to \in Boxes /\ box[x.to].open /\ x.new \in DOMAIN box[x.to].toc /\ AllSound(box)
    BY <1>2, <1>3
  <2>2. QED
    BY <1>7, <2>1, SmallChanged
<1>9. Onward
  BY <1>2, <1>8, SmallOnward
<1>10. /\ History' /\ Counts' /\ Grows
       /\ arrived' = arrived /\ copied' = copied /\ excused' = excused /\ ham' = ham /\ raced' = raced
  BY <1>1, HistoryStays
<1>11. /\ Control' /\ xfer' \in [Threads -> Transfer] /\ Apart(p) /\ Good(p)'
       /\ p \in Checkers => pc'[p] # "judge" /\ pc[p] # "judge"
       /\ x.copy => ~Held(p)'
       /\ ~x.copy => /\ xfer'[p].stage = "mark" /\ xfer'[p].from = x.from /\ xfer'[p].at = x.at
                     /\ xfer'[p].to = x.to /\ ~xfer'[p].copy
  <2>1. CASE x.copy
    <3>1. Returns(p)
      BY <1>1, <2>1
    <3>2. QED
      BY <1>1, <1>3, <1>9, <2>1, <3>1, ReturnsControl
  <2>2. CASE ~x.copy
    <3>z. PICK z : z = [x EXCEPT !.stage = "mark"]
      OBVIOUS
    <3>1. /\ z \in Transfer /\ z.stage = "mark" /\ z.new = x.new
          /\ z.from = x.from /\ z.at = x.at /\ z.to = x.to /\ z.copy = x.copy
      BY <1>2, <3>z, Staged
    <3>2. xfer' = [xfer EXCEPT ![p] = z] /\ UNCHANGED check
      BY <1>1, <1>2, <2>2, <3>z
    <3>3. z.new \in DOMAIN box'[z.to].toc
      BY <1>2, <1>3, <1>9, <3>1 DEF Onward
    <3>4. /\ z.stage \in {"describe", "mark"} /\ z.stage # "describe"
          /\ z.from = xfer[p].from /\ z.at = xfer[p].at /\ z.to = xfer[p].to /\ z.copy = xfer[p].copy
      BY <3>1
    <3>5. Held(p) /\ rules' = rules /\ z \in Transfer
      BY <1>1, <1>3, <3>1
    <3>6. /\ Control' /\ xfer' \in [Threads -> Transfer] /\ Apart(p) /\ Good(p)' /\ xfer'[p] = z
          /\ p \in Checkers => pc'[p] # "judge" /\ pc[p] # "judge"
      BY <1>9, <3>2, <3>3, <3>4, <3>5, StageGoes
    <3>7. QED
      BY <2>2, <3>1, <3>6
  <2>3. QED
    BY <2>1, <2>2
<1>12. Described(p, x, e)
  BY <1>1, <1>2, <1>3, <1>5, <1>8, <1>10, <1>11, <1>s DEF Described, Typed
<1>13. QED
  BY <1>12

\* The original of a move is marked.
Marked(p, x, e) ==
    /\ x.stage = "mark" /\ x.from \in Boxes /\ box[x.from].open /\ x.at \in DOMAIN box[x.from].toc
    /\ Small(box', box, {<<x.from, x.at>>}) /\ box'[x.from].toc[x.at] = e /\ e.deleted
    /\ e.score = box[x.from].toc[x.at].score
    /\ Apart(p) /\ Good(p)' /\ Typed' /\ Grows
    /\ UNCHANGED <<arrived, copied, excused, ham, raced>>
    /\ p \in Checkers => pc'[p] # "judge" /\ pc[p] # "judge"
    /\ ~Held(p)'

LEMMA MarkMarked ==
    ASSUME TypeInv, NEW p \in Threads, Mark(p), NEW x, x = xfer[p]
    PROVE  \E e : Marked(p, x, e)
<1>1. /\ x.stage = "mark" /\ rules' = rules /\ UNCHANGED hist /\ crashes' = crashes /\ events' = events
      /\ box' = [box EXCEPT ![x.from].toc[x.at].deleted = TRUE] /\ Returns(p)
  BY DEF Mark
<1>2. x.from \in Boxes /\ AllSound(box)
  BY TransferFields, SMTT(60) DEF TypeInv
<1>3. Held(p) /\ box[x.from].open /\ x.at \in DOMAIN box[x.from].toc
  BY <1>1, SMTT(60) DEF TypeInv, Good, Transferring, Free, Held
<1>4. /\ AllSound(box')
      /\ \E e \in Entry : /\ Changed(box', box, x.from, x.at, e)
                        /\ e.msg = box[x.from].toc[x.at].msg /\ e.deleted
                        /\ e.score = box[x.from].toc[x.at].score
  <2>N. PICK N : N = [box EXCEPT ![x.from].toc[x.at].deleted = TRUE]
    BY ZenonT(60)
  <2>1. /\ AllSound(N)
        /\ \E e \in Entry : /\ Changed(N, box, x.from, x.at, e)
                          /\ e.msg = box[x.from].toc[x.at].msg /\ e.deleted
                          /\ e.score = box[x.from].toc[x.at].score
    <3>b. PICK b : b = x.from
      OBVIOUS
    <3>k. PICK k : k = x.at
      BY SMTT(60)
    <3>1. b \in Boxes /\ box[b].open /\ k \in DOMAIN box[b].toc /\ N = [box EXCEPT ![b].toc[k].deleted = TRUE]
      BY <1>2, <1>3, <2>N, <3>b, <3>k
    <3>2. /\ AllSound(N)
          /\ \E e \in Entry : /\ Changed(N, box, b, k, e)
                            /\ e.msg = box[b].toc[k].msg /\ e.deleted /\ e.score = box[b].toc[k].score
      BY <1>2, <3>1, MarkedBox, ZenonT(60)
    <3>3. QED
      BY <3>2, <3>b, <3>k, ZenonT(60)
  <2>2. QED
    BY <1>1, <2>1, <2>N, ZenonT(60)
<1>5. PICK e : Changed(box', box, x.from, x.at, e) /\ e.deleted /\ e.score = box[x.from].toc[x.at].score
  BY <1>4
<1>6. Small(box', box, {<<x.from, x.at>>}) /\ box'[x.from].toc[x.at] = e
  <2>1. AllSound(box') /\ Changed(box', box, x.from, x.at, e)
    BY <1>4, <1>5
  <2>2. QED
    BY <1>2, <1>3, <2>1, SmallChanged
<1>7. Onward
  BY <1>2, <1>6, SmallOnward, SMTT(60)
<1>8. /\ History' /\ Counts' /\ Grows
      /\ arrived' = arrived /\ copied' = copied /\ excused' = excused /\ ham' = ham /\ raced' = raced
  BY <1>1, HistoryStays, SMTT(60)
<1>9. /\ Control' /\ xfer' \in [Threads -> Transfer] /\ Apart(p) /\ Good(p)' /\ ~Held(p)'
      /\ p \in Checkers => pc'[p] # "judge" /\ pc[p] # "judge"
  BY <1>1, <1>3, <1>7, ReturnsControl, SMTT(60)
<1>10. Marked(p, x, e)
  BY <1>1, <1>2, <1>3, <1>5, <1>6, <1>8, <1>9, ZenonT(60) DEF Marked, Typed
<1>11. QED
  BY <1>10

\* The mail a check brings: the table of In is t, where it was and the new
\* messages after it.
Brings(new, t) ==
    /\ t = Received(new) /\ t \in Seq(Entry)
    /\ box'["In"] = Written(t) /\ \A x \in Boxes \ {"In"} : box'[x] = box[x]

LEMMA ReceiveTypes ==
    ASSUME TypeInv, NEW q \in Checkers, NEW ms \in SUBSET Msgs, Receive(q, ms)
    PROVE  /\ AllSound(box') /\ Onward /\ Typed' /\ Apart(q) /\ Good(q)' /\ xfer' = xfer /\ Free(q)
           /\ pc'[q] # "judge" /\ IsFiniteSet(ms) /\ ms \cap arrived = {} /\ arrived' = arrived \cup ms
           /\ \E new \in SetToSeqs(ms) : \E t : Brings(new, t)
           /\ Grows /\ copied' = copied /\ ham' = ham /\ raced' = raced
           /\ excused' = excused \cup Inherited("In")
<1>1. PICK new \in SetToSeqs(ms) : /\ box' = [box EXCEPT !["In"] = Written(Received(new))]
                                   /\ i' = [i EXCEPT ![q] = Len(Received(new))]
  BY DEF Receive, Received, Written
<1>t. PICK t : t = Received(new)
  OBVIOUS
<1>2. /\ AllSound(box) /\ "In" \in Boxes /\ pc[q] = "idle" /\ Free(q) /\ todo[q] = <<>> /\ q \in Threads
      /\ IsFiniteSet(ms) /\ ms \cap arrived = {} /\ arrived' = arrived \cup ms
      /\ pc' = [pc EXCEPT ![q] = "filter"] /\ r' = [r EXCEPT ![q] = 1] /\ todo' = todo /\ rules' = rules
      /\ xfer' = xfer /\ copied' = copied /\ ham' = ham /\ raced' = raced
      /\ crashes' = crashes /\ events' = events /\ excused' = excused \cup Inherited("In")
  BY BoxNames, CheckFree DEF Receive, TypeInv, Threads
<1>3. /\ t \in Seq(Entry)
      /\ \A k \in DOMAIN box["In"].file : k \in DOMAIN t /\ t[k] = Table("In")[k]
  BY <1>2, <1>t, ReceivedTable
<1>y. PICK y : y = Written(t)
  OBVIOUS
<1>4. Sound(y) /\ y.open /\ y.toc = t
  BY <1>3, <1>y, WrittenSound DEF Written
<1>5. DOMAIN box' = Boxes /\ box'["In"] = y /\ \A x \in Boxes \ {"In"} : box'[x] = box[x]
  BY <1>1, <1>2, <1>t, <1>y DEF AllSound
<1>6. AllSound(box')
  BY <1>2, <1>4, <1>5 DEF AllSound
<1>7. Onward
  <2> SUFFICES ASSUME NEW c \in Boxes, box[c].open
               PROVE  /\ box'[c].open
                      /\ \A j \in DOMAIN box[c].toc : /\ j \in DOMAIN box'[c].toc
                                                     /\ box'[c].toc[j].msg = box[c].toc[j].msg
    BY DEF Onward
  <2>1. CASE c = "In"
    <3>1. Table("In") = box["In"].toc /\ DOMAIN box["In"].toc = DOMAIN box["In"].file
      BY <1>2, <2>1, TableCovers
    <3>2. QED
      BY <1>3, <1>4, <1>5, <2>1, <3>1
  <2>2. CASE c # "In"
    BY <1>5, <2>2
  <2>3. QED
    BY <2>1, <2>2
<1>8. Brings(new, t)
  BY <1>3, <1>5, <1>t, <1>y DEF Brings
<1>9. Control' /\ Apart(q) /\ pc'[q] = "filter"
  <2>1. Control /\ Len(rules) \in Nat /\ Len(t) \in Nat
    BY <1>3, RulesAssumption DEF TypeInv, Control
  <2>2. i' \in [Checkers -> Nat] /\ \A u \in Checkers \ {q} : i'[u] = i[u]
    BY <1>1, <1>t, <2>1 DEF Control
  <2>3. /\ pc' \in [Checkers -> {"idle", "filter", "score", "judge", "move"}] /\ pc'[q] = "filter"
        /\ \A u \in Checkers \ {q} : pc'[u] = pc[u]
    BY <1>2, <2>1 DEF Control
  <2>4. r' \in [Checkers -> 1 .. Len(rules) + 1]
    BY <1>2, <2>1 DEF Control
  <2>5. QED
    BY <1>2, <2>1, <2>2, <2>3, <2>4 DEF Control, Apart
<1>10. Good(q)' /\ xfer' \in [Threads -> Transfer]
  BY <1>2, <1>4, <1>5, <1>9 DEF Good, Checking, Transferring, Free, TypeInv
<1>11. History' /\ Counts' /\ Grows
  BY <1>2, TableMail DEF TypeInv, History, Counts, Grows
<1>12. QED
  BY <1>2, <1>6, <1>7, <1>8, <1>9, <1>10, <1>11 DEF Typed

\* What a compaction leaves: the messages K of b that are not deleted.
Leaves(b, t) ==
    /\ box[b].open
    /\ t = Kept(box[b].toc, {k \in DOMAIN box[b].toc : ~box[b].toc[k].deleted}) /\ t \in Seq(Entry)
    /\ box'[b] = Written(t) /\ \A x \in Boxes \ {b} : box'[x] = box[x]

LEMMA CompactTypes ==
    ASSUME TypeInv, NEW b \in Boxes, Compact(b)
    PROVE  /\ AllSound(box') /\ Typed' /\ ~Busy(b) /\ xfer' = xfer /\ UNCHANGED check
           /\ \A p \in Threads : Good(p)'
           /\ \E t : Leaves(b, t)
           /\ Grows /\ arrived' = arrived /\ copied' = copied /\ excused' = excused /\ ham' = ham
           /\ raced' = raced
<1>1. PICK t : /\ t = Kept(box[b].toc, {k \in DOMAIN box[b].toc : ~box[b].toc[k].deleted})
               /\ box' = [box EXCEPT ![b] = Written(t)]
  BY DEF Compact, Written
<1>2. /\ AllSound(box) /\ box[b].open /\ ~Busy(b) /\ xfer' = xfer /\ UNCHANGED check /\ rules' = rules
      /\ UNCHANGED hist /\ crashes' = crashes /\ events' = events
  BY DEF Compact, TypeInv
<1>3. t \in Seq(Entry)
  BY <1>1, <1>2, CompactedTable
<1>y. PICK y : y = Written(t)
  OBVIOUS
<1>4. Sound(y) /\ y.open
  BY <1>3, <1>y, WrittenSound DEF Written
<1>5. DOMAIN box' = Boxes /\ box'[b] = y /\ \A x \in Boxes \ {b} : box'[x] = box[x]
  BY <1>1, <1>2, <1>y DEF AllSound
<1>6. AllSound(box') /\ \A x \in Boxes : box[x].open => box'[x].open
  BY <1>2, <1>4, <1>5 DEF AllSound
<1>7. Leaves(b, t)
  BY <1>1, <1>2, <1>3, <1>5, <1>y DEF Leaves
<1>8. ASSUME NEW p \in Threads PROVE Good(p)'
  <2>1. Transferring(p) /\ (p \in Checkers => Checking(p)) /\ xfer[p].from \in Boxes /\ xfer[p].to \in Boxes
    BY TransferFields DEF TypeInv, Good
  <2>2. ~Free(p) => box'[xfer[p].from] = box[xfer[p].from] /\ box'[xfer[p].to] = box[xfer[p].to]
    BY <1>2, <1>5, <2>1 DEF Busy
  <2>3. Transferring(p)'
    BY <1>2, <2>1, <2>2 DEF Transferring, Free, Held
  <2>4. ASSUME p \in Checkers PROVE Checking(p)'
    <3>1. pc' = pc /\ i' = i /\ todo' = todo
      BY <1>2 DEF check
    <3>2. pc[p] = "judge" => box'["In"] = box["In"]
      BY <1>2, <1>5, <2>4, BoxNames DEF Busy
    <3>3. QED
      BY <1>2, <1>6, <2>1, <2>4, <3>1, <3>2, BoxNames DEF Checking, Free, Held
  <2>5. QED
    BY <2>3, <2>4 DEF Good
<1>9. /\ History' /\ Counts' /\ Grows
      /\ arrived' = arrived /\ copied' = copied /\ excused' = excused /\ ham' = ham /\ raced' = raced
  BY <1>2, HistoryStays
<1>10. Control' /\ xfer' \in [Threads -> Transfer]
  BY <1>2 DEF TypeInv, Control, check
<1>11. QED
  BY <1>2, <1>6, <1>7, <1>8, <1>9, <1>10 DEF Typed

\* What a crash leaves.
LEMMA CrashTypes ==
    ASSUME TypeInv, Crash
    PROVE  /\ AllSound(box') /\ Typed' /\ \A p \in Threads : Good(p)'
           /\ \A x \in Boxes : ~box'[x].open /\ box'[x].file = box[x].file /\ box'[x].saved = box[x].saved
           /\ \A p \in Threads : Free(p)'
           /\ crashes' # 0
           /\ arrived' = arrived /\ copied' = copied /\ excused' = excused /\ ham' = ham /\ raced' = raced
<1>1. ASSUME NEW x \in Boxes
      PROVE  /\ Sound(box'[x]) /\ ~box'[x].open
             /\ box'[x].file = box[x].file /\ box'[x].saved = box[x].saved
  <2>1. box[x] \in Box /\ Sound(box[x])
    BY DEF TypeInv, AllSound, Sound
  <2>y. PICK y : y = [box[x] EXCEPT !.open = FALSE, !.toc = <<>>]
    OBVIOUS
  <2>2. box'[x] = y
    BY <2>y, ZenonT(60) DEF Crash
  <2>3. y = [open |-> FALSE, toc |-> <<>>, file |-> box[x].file, saved |-> box[x].saved]
    BY <2>1, <2>y DEF Box
  <2>4. ~y.open /\ y.toc = <<>> /\ y.file = box[x].file /\ y.saved = box[x].saved
    BY <2>3
  <2>5. y \in Box
    <3>1. <<>> \in Seq(Entry) /\ box[x].file \in Seq(Msgs) /\ box[x].saved \in Seq(Entry)
      BY <2>1 DEF Box
    <3>2. QED
      BY <2>3, <3>1 DEF Box
  <2>6. QED
    BY <2>1, <2>2, <2>4, <2>5 DEF Sound
<1>2. AllSound(box')
  BY <1>1, ZenonT(60) DEF Crash, AllSound
<1>3. /\ Event /\ crashes' = crashes + 1 /\ rules' = rules
      /\ pc' = [t \in Checkers |-> "idle"] /\ i' = [t \in Checkers |-> 0]
      /\ r' = [t \in Checkers |-> 1] /\ todo' = [t \in Checkers |-> <<>>]
      /\ xfer' = [p \in Threads |-> NoTransfer]
      /\ arrived' = arrived /\ copied' = copied /\ excused' = excused /\ ham' = ham /\ raced' = raced
  BY ZenonT(60) DEF Crash, hist
<1>4. NoTransfer \in Transfer /\ NoTransfer.stage = "none"
  BY DEF NoTransfer, Transfer, Boxes
<1>5. xfer' \in [Threads -> Transfer] /\ \A p \in Threads : Free(p)'
  BY <1>3, <1>4 DEF Free
<1>6. Control'
  <2>1. Len(rules) \in Nat /\ rules \in RuleSets
    BY RulesAssumption DEF TypeInv, Control
  <2>2. <<>> \in Seq(Action) /\ 1 \in 1 .. Len(rules) + 1
    BY <2>1
  <2>3. QED
    BY <1>3, <2>1, <2>2 DEF Control
<1>7. \A p \in Threads : Good(p)'
  BY <1>3, <1>5 DEF Good, Checking, Transferring
<1>8. Counts' /\ crashes' # 0
  BY <1>3, BoundAssumption DEF TypeInv, Counts, Event
<1>9. History'
  BY <1>3 DEF TypeInv, History
<1>10. QED
  BY <1>1, <1>2, <1>3, <1>5, <1>6, <1>7, <1>8, <1>9 DEF Typed

-----------------------------------------------------------------------------
(* Type correctness                                                        *)


LEMMA CheckSteps ==
    ASSUME TypeInv, NEW q \in Checkers, CheckStep(q)
    PROVE  \/ Rests(q)
           \/ \E k : Touches(q, "In", k)
           \/ \E ms \in SUBSET Msgs : Receive(q, ms)
<1>1. ASSUME Match(q) \/ NoMatch(q) PROVE Rests(q)
  BY <1>1, FilterRests
<1>2. ASSUME Act(q) PROVE Rests(q) \/ Touches(q, "In", i[q])
  BY <1>2, ActRests, ActTouches
<1>3. ASSUME File(q) PROVE Rests(q) \/ Touches(q, "In", i[q])
  BY <1>3, FileRests, FileTouches
<1>4. ASSUME FiltersEnd(q) \/ ScoreEnds(q) \/ MoveEnds(q) PROVE Rests(q)
  BY <1>4, EndRests
<1>5. ASSUME ScorePasses(q) \/ MovePasses(q) PROVE Rests(q)
  BY <1>5, PassRests
<1>6. ASSUME ScoreReads(q) \/ Judge(q) \/ MoveSpam(q) PROVE Touches(q, "In", i[q])
  BY <1>6, ReadTouches, JudgeTouches, MoveTouches
<1>7. QED
  BY <1>1, <1>2, <1>3, <1>4, <1>5, <1>6 DEF CheckStep

LEMMA UserSteps ==
    ASSUME TypeInv, UserStep
    PROVE  \/ Rests("main")
           \/ \E b \in Boxes : \E k : Touches("main", b, k)
           \/ \E b \in Boxes : Compact(b)
<1>1. Free("main")
  BY DEF UserStep
<1>2. PICK b \in Boxes : \/ Open(b) \/ Compact(b)
                         \/ \E k \in DOMAIN box[b].toc :
                               \/ \E c \in Boxes : UserMoves(b, k, c)
                               \/ UserDeletes(b, k) \/ UserSaysJunk(b, k) \/ UserSaysHam(b, k)
  BY DEF UserStep
<1>3. ASSUME Open(b) PROVE Rests("main")
  BY <1>1, <1>3, OpenRests
<1>4. ASSUME NEW k \in DOMAIN box[b].toc,
             \/ \E c \in Boxes : UserMoves(b, k, c)
             \/ UserDeletes(b, k) \/ UserSaysJunk(b, k) \/ UserSaysHam(b, k)
      PROVE  Touches("main", b, k)
  BY <1>1, <1>4, MovesTouches, DeletesTouches, JunkTouches, HamTouches
<1>5. QED
  BY <1>2, <1>3, <1>4

\* Every step is one of these.
LEMMA Steps ==
    ASSUME TypeInv, [Next]_vars
    PROVE  \/ UNCHANGED vars
           \/ \E p \in Threads : Rests(p)
           \/ \E p \in Threads : \E b \in Boxes : \E k : Touches(p, b, k)
           \/ \E p \in Threads : Appends(p)
           \/ \E p \in Threads : \E e : Described(p, xfer[p], e)
           \/ \E p \in Threads : \E e : Marked(p, xfer[p], e)
           \/ \E q \in Checkers : \E ms \in SUBSET Msgs : Receive(q, ms)
           \/ \E b \in Boxes : Compact(b)
           \/ Crash
<1>b. "main" \in Threads /\ "In" \in Boxes /\ \A q \in Checkers : q \in Threads
  BY BoxNames DEF Threads
<1>1. ASSUME NEW p \in Threads, TransferStep(p)
      PROVE  \/ Rests(p) \/ Appends(p)
             \/ \E e : Described(p, xfer[p], e)
             \/ \E e : Marked(p, xfer[p], e)
  BY <1>1, FailRests, DescribeDescribed, MarkMarked DEF TransferStep
<1>2. ASSUME UserSaves PROVE Rests("main")
  BY <1>2, SavesRests
<1>3. CASE UNCHANGED vars
  BY <1>3
<1>4. CASE \E p \in Threads : TransferStep(p)
  BY <1>1, <1>4
<1>5. CASE \E q \in Checkers : CheckStep(q)
  BY <1>b, <1>5, CheckSteps
<1>6. CASE UserStep
  BY <1>b, <1>6, UserSteps
<1>7. CASE UserSaves
  BY <1>b, <1>2, <1>7
<1>8. CASE Crash
  BY <1>8
<1>9. QED
  BY <1>3, <1>4, <1>5, <1>6, <1>7, <1>8 DEF Next

LEMMA StepTypeInv == TypeInv /\ [Next]_vars => TypeInv'
<1> SUFFICES ASSUME TypeInv, [Next]_vars PROVE TypeInv'
  OBVIOUS
<1>1. ASSUME NEW p \in Threads, AllSound(box'), Typed', Onward, Apart(p), Good(p)' PROVE TypeInv'
  <2>1. ASSUME NEW t \in Threads PROVE Good(t)'
    BY <1>1, <2>1, ApartGood
  <2>2. QED
    BY <1>1, <2>1 DEF TypeInv, Typed
<1>2. ASSUME AllSound(box'), Typed', \A p \in Threads : Good(p)' PROVE TypeInv'
  BY <1>2 DEF TypeInv, Typed
<1>3. ASSUME NEW p \in Threads, Rests(p) PROVE TypeInv'
  <2>1. Small(box', box, {}) /\ Typed' /\ Apart(p) /\ Good(p)' /\ AllSound(box)
    BY <1>3 DEF Rests, TypeInv
  <2>2. AllSound(box') /\ Onward
    BY <2>1, SmallOnward DEF Small
  <2>3. QED
    BY <1>1, <2>1, <2>2
<1>4. ASSUME NEW p \in Threads, NEW b \in Boxes, NEW k, Touches(p, b, k) PROVE TypeInv'
  <2>1. Small(box', box, {<<b, k>>}) /\ Typed' /\ Apart(p) /\ Good(p)' /\ AllSound(box)
    BY <1>4 DEF Touches, TypeInv
  <2>2. AllSound(box') /\ Onward
    BY <2>1, SmallOnward DEF Small
  <2>3. QED
    BY <1>1, <2>1, <2>2
<1>5. ASSUME NEW p \in Threads, Appends(p) PROVE TypeInv'
  <2>x. PICK x : x = xfer[p]
    OBVIOUS
  <2>m. PICK m : m = box[x.from].toc[x.at].msg
    OBVIOUS
  <2>1. Extends(p, x.to, m) /\ Typed' /\ Apart(p) /\ Good(p)'
    BY <1>5, <2>x, <2>m, AppendsExtends
  <2>2. QED
    BY <1>1, <2>1 DEF Extends
<1>6. ASSUME NEW p \in Threads, NEW e, Described(p, xfer[p], e) PROVE TypeInv'
  <2>1. /\ Small(box', box, {<<xfer[p].to, xfer[p].new>>}) /\ Typed' /\ Apart(p) /\ Good(p)' /\ AllSound(box)
    BY <1>6 DEF Described, TypeInv
  <2>2. AllSound(box') /\ Onward
    BY <2>1, SmallOnward DEF Small
  <2>3. QED
    BY <1>1, <2>1, <2>2
<1>7. ASSUME NEW p \in Threads, NEW e, Marked(p, xfer[p], e) PROVE TypeInv'
  <2>1. /\ Small(box', box, {<<xfer[p].from, xfer[p].at>>}) /\ Typed' /\ Apart(p) /\ Good(p)' /\ AllSound(box)
    BY <1>7 DEF Marked, TypeInv
  <2>2. AllSound(box') /\ Onward
    BY <2>1, SmallOnward DEF Small
  <2>3. QED
    BY <1>1, <2>1, <2>2
<1>8. ASSUME NEW q \in Checkers, NEW ms \in SUBSET Msgs, Receive(q, ms) PROVE TypeInv'
  <2>1. q \in Threads /\ AllSound(box') /\ Onward /\ Typed' /\ Apart(q) /\ Good(q)'
    BY <1>8, ReceiveTypes DEF Threads
  <2>2. QED
    BY <1>1, <2>1
<1>9. ASSUME NEW b \in Boxes, Compact(b) PROVE TypeInv'
  BY <1>2, <1>9, CompactTypes
<1>10. ASSUME Crash PROVE TypeInv'
  BY <1>2, <1>10, CrashTypes, SMTT(60)
<1>11. ASSUME UNCHANGED vars PROVE TypeInv'
  BY <1>11 DEF vars, check, hist, TypeInv, Control, History, Counts, Good, Checking, Transferring, Free, Held
<1>12. QED
  BY <1>3, <1>4, <1>5, <1>6, <1>7, <1>8, <1>9, <1>10, <1>11, Steps

LEMMA TypeInvariant == Spec => []TypeInv
<1>1. TypeInv /\ [Next]_vars => TypeInv'
  BY StepTypeInv
<1>2. QED
  BY <1>1, InitTypeInv, PTL DEF Spec

\* An open mailbox has in memory exactly the messages of its mbox file, in
\* their order, a .toc file never speaks of more than the first of them, and a
\* transfer or a score that is under way still points to its message: check
\* threads and user, at the same tables without a lock, cannot break that.
THEOREM TypeCorrect == Spec => []TypeOK
  BY TypeInvariant, TypeInvTypeOK, PTL

-----------------------------------------------------------------------------
(* No message is lost                                                      *)

\* The original of a move that has been appended to its new place.
IsPending(b, k) ==
    \E p \in Threads : /\ xfer[p].stage = "mark" \/ (xfer[p].stage = "describe" /\ ~xfer[p].copy)
                       /\ xfer[p].from = b /\ xfer[p].at = k

Secure(m) == \E b \in Boxes : \E k \in DOMAIN box[b].file : SafeAt(box, b, k, m) /\ ~IsPending(b, k)

\* Every message that is not excused has a place, in memory and on disk, which
\* no transfer is about to take away.
AllSafe == \A m \in arrived \ excused : Secure(m)

LEMMA PendingApart ==
    ASSUME NEW p \in Threads, Apart(p), NEW b, NEW k, IsPending(b, k)'
    PROVE  \/ IsPending(b, k)
           \/ /\ xfer'[p].stage = "mark" \/ (xfer'[p].stage = "describe" /\ ~xfer'[p].copy)
              /\ xfer'[p].from = b /\ xfer'[p].at = k
  BY DEF IsPending, Apart

LEMMA PendingPlace ==
    ASSUME TypeInv, NEW b \in Boxes, NEW k, IsPending(b, k)
    PROVE  box[b].open /\ k \in DOMAIN box[b].toc /\ k \in DOMAIN box[b].file
<1>1. PICK p \in Threads : xfer[p].stage \in {"mark", "describe"} /\ xfer[p].from = b /\ xfer[p].at = k
  BY DEF IsPending
<1>2. box[b].open /\ k \in DOMAIN box[b].toc
  BY <1>1 DEF TypeInv, Good, Transferring, Free, Held
<1>3. Sound(box[b])
  BY DEF TypeInv, AllSound
<1>4. QED
  BY <1>2, <1>3 DEF Sound, Box

\* A place stays when nothing is written, or what is written there is not deleted.
LEMMA SmallSecure ==
    ASSUME TypeInv, NEW p \in Threads, Apart(p), NEW E, Small(box', box, E), NEW m \in Msgs \ excused',
           \A b \in Boxes : \A k : IsPending(b, k)' => IsPending(b, k),
           \A b \in Boxes : \A k : <<b, k>> \in E /\ SafeAt(box, b, k, m) /\ ~IsPending(b, k) => ~box'[b].toc[k].deleted,
           Secure(m)
    PROVE  Secure(m)'
<1>1. PICK b \in Boxes : \E k \in DOMAIN box[b].file : SafeAt(box, b, k, m) /\ ~IsPending(b, k)
  BY DEF Secure
<1>2. PICK k \in DOMAIN box[b].file : SafeAt(box, b, k, m) /\ ~IsPending(b, k)
  BY <1>1
<1>3. SafeAt(box', b, k, m) /\ box'[b].file = box[b].file
  BY <1>2 DEF Small
<1>4. ~IsPending(b, k)'
  BY <1>2
<1>5. k \in DOMAIN box'[b].file /\ SafeAt(box, b, k, m)'
  BY <1>2, <1>3 DEF SafeAt
<1>6. QED
  BY <1>4, <1>5 DEF Secure

LEMMA RestsSafe ==
    ASSUME TypeInv, AllSafe, NEW p \in Threads, Rests(p)
    PROVE  AllSafe'
<1>1. Apart(p) /\ Small(box', box, {}) /\ arrived' = arrived /\ excused \subseteq excused' /\ ~Held(p)'
  BY DEF Rests, Grows
<1>2. ASSUME NEW b \in Boxes, NEW k, IsPending(b, k)' PROVE IsPending(b, k)
  BY <1>1, <1>2, PendingApart DEF Held
<1>3. ASSUME NEW m \in arrived' \ excused' PROVE Secure(m)'
  <2>1. m \in Msgs \ excused' /\ Secure(m)
    BY <1>1, <1>3 DEF AllSafe, TypeInv, History
  <2>2. QED
    BY <1>1, <1>2, <2>1, SmallSecure
<1>4. QED
  BY <1>3 DEF AllSafe

LEMMA TouchesSafe ==
    ASSUME TypeInv, AllSafe, NEW p \in Threads, NEW b \in Boxes, NEW k, Touches(p, b, k)
    PROVE  AllSafe'
<1>1. /\ Apart(p) /\ Small(box', box, {<<b, k>>}) /\ arrived' = arrived /\ excused \subseteq excused'
      /\ box[b].open /\ k \in DOMAIN box[b].toc
      /\ box'[b].toc[k].deleted => box[b].toc[k].deleted \/ box[b].toc[k].msg \in excused'
      /\ xfer'[p].stage \notin {"describe", "mark"}
  BY DEF Touches, Takes, Grows, Held
<1>2. ASSUME NEW c \in Boxes, NEW j, IsPending(c, j)' PROVE IsPending(c, j)
  BY <1>1, <1>2, PendingApart
<1>3. ASSUME NEW m \in arrived' \ excused' PROVE Secure(m)'
  <2>1. m \in Msgs \ excused' /\ Secure(m)
    BY <1>1, <1>3 DEF AllSafe, TypeInv, History
  <2>2. box[b].toc[k].msg = box[b].file[k]
    BY <1>1 DEF TypeInv, AllSound, Sound, Covers
  <2>3. ASSUME NEW c \in Boxes, NEW j, <<c, j>> \in {<<b, k>>}, SafeAt(box, c, j, m) PROVE ~box'[c].toc[j].deleted
    <3>1. c = b /\ j = k
      BY <2>3
    <3>2. ~box[b].toc[k].deleted /\ box[b].file[k] = m
      BY <1>1, <2>3, <3>1 DEF SafeAt
    <3>3. QED
      BY <1>1, <1>3, <2>2, <3>1, <3>2
  <2>4. QED
    BY <1>1, <1>2, <2>1, <2>3, SmallSecure
<1>4. QED
  BY <1>3 DEF AllSafe

\* The message has two places for the time being, the new one to stay.
LEMMA AppendsSafe ==
    ASSUME TypeInv, AllSafe, NEW p \in Threads, Appends(p)
    PROVE  AllSafe'
<1>x. PICK x : x = xfer[p]
  OBVIOUS
<1>m. PICK h : h = box[x.from].toc[x.at].msg
  OBVIOUS
<1>l. PICK l : l = Len(box[x.to].toc) + 1
  OBVIOUS
<1>c. PICK c : c = x.to
  OBVIOUS
<1>1. /\ Extends(p, c, h) /\ Unread(h) \in Entry /\ h \in Msgs /\ c \in Boxes /\ x.from # c /\ x.from \in Boxes
      /\ Apart(p) /\ arrived' = arrived /\ excused' = excused
      /\ xfer'[p].stage = "describe" /\ xfer'[p].from = x.from /\ xfer'[p].at = x.at
      /\ box[x.from].open /\ x.at \in DOMAIN box[x.from].toc
  BY <1>x, <1>m, <1>c, AppendsExtends
<1>2. /\ \A z \in Boxes \ {c} : box'[z] = box[z]
      /\ box[c].open /\ box'[c].open /\ box'[c].saved = box[c].saved
      /\ box'[c].file = Append(box[c].file, h) /\ box'[c].toc = Append(box[c].toc, Unread(h))
  BY <1>1 DEF Extends
<1>3. Sound(box[c]) /\ Sound(box[x.from])
  BY <1>1 DEF TypeInv, AllSound
<1>4. /\ box[c].toc \in Seq(Entry) /\ box[c].file \in Seq(Msgs) /\ Len(box[c].toc) = Len(box[c].file)
      /\ box[c].saved \in Seq(Entry) /\ Len(box[c].saved) <= Len(box[c].file) /\ l = Len(box[c].file) + 1
  BY <1>2, <1>3, <1>l, <1>c DEF Sound, Covers, Box
<1>5. /\ DOMAIN box'[c].toc = DOMAIN box[c].toc \cup {l} /\ box'[c].toc[l] = Unread(h)
      /\ \A j \in DOMAIN box[c].toc : box'[c].toc[j] = box[c].toc[j]
  <2>u. PICK u : u = Unread(h)
    OBVIOUS
  <2>t. PICK t : t = box'[c].toc
    OBVIOUS
  <2>s. PICK s : s = box[c].toc
    OBVIOUS
  <2>1. s \in Seq(Entry) /\ u \in Entry /\ t = Append(s, u) /\ l = Len(s) + 1
    BY <1>1, <1>2, <1>4, <2>u, <2>t, <2>s
  <2>2. /\ DOMAIN t = DOMAIN s \cup {Len(s) + 1} /\ t[Len(s) + 1] = u
        /\ \A j \in DOMAIN s : t[j] = s[j]
    BY <2>1, AppendedSeq
  <2>3. QED
    BY <2>1, <2>2, <2>u, <2>t, <2>s
<1>6. /\ DOMAIN box'[c].file = DOMAIN box[c].file \cup {l} /\ l \notin DOMAIN box[c].file /\ box'[c].file[l] = h
      /\ \A j \in DOMAIN box[c].file : box'[c].file[j] = box[c].file[j]
  <2>t. PICK t : t = box'[c].file
    OBVIOUS
  <2>s. PICK s : s = box[c].file
    OBVIOUS
  <2>1. s \in Seq(Msgs) /\ h \in Msgs /\ t = Append(s, h) /\ l = Len(s) + 1
    BY <1>1, <1>2, <1>4, <2>t, <2>s
  <2>2. /\ DOMAIN t = DOMAIN s \cup {Len(s) + 1} /\ t[Len(s) + 1] = h /\ Len(s) + 1 \notin DOMAIN s
        /\ \A j \in DOMAIN s : t[j] = s[j]
    BY <2>1, AppendedSeq
  <2>3. QED
    BY <2>1, <2>2, <2>t, <2>s
<1>7. ASSUME NEW b \in Boxes, NEW k \in DOMAIN box[b].file, NEW m, SafeAt(box, b, k, m)
      PROVE  k \in DOMAIN box'[b].file /\ SafeAt(box', b, k, m)
  <2>1. CASE b # c
    <3>1. box'[b] = box[b]
      BY <1>2, <2>1
    <3>2. QED
      BY <1>7, <3>1 DEF SafeAt
  <2>2. CASE b = c
    <3>1. k \in DOMAIN box[c].toc
      BY <1>4, <2>2
    <3>2. QED
      BY <1>2, <1>5, <1>6, <1>7, <2>2, <3>1 DEF SafeAt
  <2>3. QED
    BY <2>1, <2>2
<1>8. SafeAt(box', c, l, h)
  <2>1. l \notin DOMAIN box[c].saved
    BY <1>4
  <2>2. ~Unread(h).deleted
    BY DEF Unread
  <2>3. QED
    BY <1>2, <1>5, <1>6, <2>1, <2>2 DEF SafeAt
<1>9. ~IsPending(c, l)'
  <2>1. SUFFICES ASSUME IsPending(c, l)' PROVE FALSE
    OBVIOUS
  <2>2. IsPending(c, l)
    BY <1>1, <2>1, PendingApart
  <2>3. QED
    BY <1>1, <1>6, <2>2, PendingPlace
<1>10. ASSUME NEW m \in arrived' \ excused' PROVE Secure(m)'
  <2>1. Secure(m)
    BY <1>1, <1>10 DEF AllSafe
  <2>2. PICK b \in Boxes : \E k \in DOMAIN box[b].file : SafeAt(box, b, k, m) /\ ~IsPending(b, k)
    BY <2>1 DEF Secure
  <2>3. PICK k \in DOMAIN box[b].file : SafeAt(box, b, k, m) /\ ~IsPending(b, k)
    BY <2>2
  <2>4. CASE IsPending(b, k)'
    <3>1. b = x.from /\ k = x.at
      BY <1>1, <2>3, <2>4, PendingApart
    <3>2. m = h
      <4>1. box[x.from].file[x.at] = m
        BY <2>3, <3>1 DEF SafeAt
      <4>2. box[x.from].file[x.at] = box[x.from].toc[x.at].msg
        BY <1>1, <1>3 DEF Sound, Covers
      <4>3. QED
        BY <4>1, <4>2, <1>m
    <3>3. SafeAt(box, c, l, m)' /\ l \in DOMAIN box'[c].file
      BY <1>6, <1>8, <3>2 DEF SafeAt
    <3>4. QED
      BY <1>1, <1>9, <3>3 DEF Secure
  <2>5. CASE ~IsPending(b, k)'
    <3>1. k \in DOMAIN box'[b].file /\ SafeAt(box, b, k, m)'
      BY <1>7, <2>3 DEF SafeAt
    <3>2. QED
      BY <2>5, <3>1 DEF Secure
  <2>6. QED
    BY <2>4, <2>5
<1>11. QED
  BY <1>10 DEF AllSafe

\* The copy is not deleted; what was pending is pending still.
LEMMA DescribedSafe ==
    ASSUME TypeInv, AllSafe, NEW p \in Threads, NEW e, Described(p, xfer[p], e)
    PROVE  AllSafe'
<1>x. PICK x : x = xfer[p]
  BY SMTT(60)
<1>1. /\ Apart(p) /\ Small(box', box, {<<x.to, x.new>>}) /\ arrived' = arrived /\ excused' = excused
      /\ box'[x.to].toc[x.new] = e /\ ~e.deleted /\ x.stage = "describe"
      /\ x.copy => ~Held(p)'
      /\ ~x.copy => xfer'[p].from = x.from /\ xfer'[p].at = x.at
  BY <1>x DEF Described
<1>2. ASSUME NEW b \in Boxes, NEW k, IsPending(b, k)' PROVE IsPending(b, k)
  <2>1. CASE IsPending(b, k)
    BY <2>1
  <2>2. CASE Held(p)' /\ xfer'[p].from = b /\ xfer'[p].at = k
    BY <1>1, <1>x, <2>2 DEF IsPending
  <2>3. QED
    BY <1>1, <1>2, <2>1, <2>2, PendingApart DEF Held
<1>3. ASSUME NEW m \in arrived' \ excused' PROVE Secure(m)'
  <2>1. m \in Msgs \ excused' /\ Secure(m)
    BY <1>1, <1>3 DEF AllSafe, TypeInv, History
  <2>2. ASSUME NEW b \in Boxes, NEW k, <<b, k>> \in {<<x.to, x.new>>} PROVE ~box'[b].toc[k].deleted
    BY <1>1, <2>2
  <2>3. QED
    BY <1>1, <1>2, <2>1, <2>2, SmallSecure
<1>4. QED
  BY <1>3 DEF AllSafe

\* The original that is marked had been pending.
LEMMA MarkedSafe ==
    ASSUME TypeInv, AllSafe, NEW p \in Threads, NEW e, Marked(p, xfer[p], e)
    PROVE  AllSafe'
<1>x. PICK x : x = xfer[p]
  OBVIOUS
<1>1. /\ Apart(p) /\ Small(box', box, {<<x.from, x.at>>}) /\ arrived' = arrived /\ excused' = excused
      /\ x.stage = "mark" /\ ~Held(p)'
  BY <1>x DEF Marked
<1>2. ASSUME NEW b \in Boxes, NEW k, IsPending(b, k)' PROVE IsPending(b, k)
  BY <1>1, <1>2, PendingApart DEF Held
<1>3. IsPending(x.from, x.at)
  BY <1>1, <1>x DEF IsPending
<1>4. ASSUME NEW m \in arrived' \ excused' PROVE Secure(m)'
  <2>1. m \in Msgs \ excused' /\ Secure(m)
    BY <1>1, <1>4 DEF AllSafe, TypeInv, History
  <2>2. ASSUME NEW b \in Boxes, NEW k, <<b, k>> \in {<<x.from, x.at>>}, ~IsPending(b, k) PROVE FALSE
    BY <1>3, <2>2
  <2>3. QED
    BY <1>1, <1>2, <2>1, <2>2, SmallSecure
<1>5. QED
  BY <1>4 DEF AllSafe

LEMMA WrittenSafe ==
    ASSUME NEW t \in Seq(Entry), NEW B, NEW b \in Boxes, B[b] = Written(t),
           NEW k \in DOMAIN t, ~t[k].deleted
    PROVE  k \in DOMAIN B[b].file /\ SafeAt(B, b, k, t[k].msg)
<1>1. k \in DOMAIN Mail(t) /\ Mail(t)[k] = t[k].msg
  BY DEF Mail
<1>2. B[b].file = Mail(t) /\ B[b].toc = t /\ B[b].saved = t
  BY DEF Written
<1>3. QED
  BY <1>1, <1>2 DEF SafeAt

LEMMA ReceiveSafe ==
    ASSUME TypeInv, AllSafe, NEW q \in Checkers, NEW ms \in SUBSET Msgs, Receive(q, ms)
    PROVE  AllSafe'
<1>1. PICK new \in SetToSeqs(ms) : \E t : Brings(new, t)
  BY ReceiveTypes
<1>2. PICK t : Brings(new, t)
  BY <1>1
<1>3. /\ AllSound(box) /\ "In" \in Boxes /\ IsFiniteSet(ms) /\ arrived' = arrived \cup ms /\ xfer' = xfer
      /\ excused' = excused \cup Inherited("In")
      /\ t = Received(new) /\ box'["In"] = Written(t) /\ \A x \in Boxes \ {"In"} : box'[x] = box[x]
  BY <1>2, ReceiveTypes, BoxNames DEF Brings, TypeInv
<1>l. PICK l : l = Len(box["In"].file)
  OBVIOUS
<1>4. /\ t \in Seq(Entry)
      /\ \A k \in DOMAIN box["In"].file : k \in DOMAIN t /\ t[k] = Table("In")[k]
      /\ \A n \in DOMAIN new : l + n \in DOMAIN t /\ t[l + n] = Unread(new[n])
      /\ \A m \in ms : \E n \in DOMAIN new : new[n] = m
      /\ new \in Seq(Msgs)
  BY <1>3, <1>l, ReceivedTable
<1>5. \A b, k : IsPending(b, k)' => IsPending(b, k)
  BY <1>3 DEF IsPending
<1>6. ASSUME NEW k \in DOMAIN t, ~t[k].deleted, ~IsPending("In", k) PROVE Secure(t[k].msg)'
  <2>m. PICK m : m = t[k].msg
    OBVIOUS
  <2>1. k \in DOMAIN box'["In"].file /\ SafeAt(box', "In", k, m)
    BY <1>3, <1>4, <1>6, <2>m, WrittenSafe
  <2>2. SafeAt(box, "In", k, m)' /\ ~IsPending("In", k)'
    BY <1>5, <1>6, <2>1 DEF SafeAt
  <2>3. Secure(m)'
    BY <1>3, <2>1, <2>2 DEF Secure
  <2>4. QED
    BY <2>3, <2>m DEF Secure, SafeAt
<1>7. ASSUME NEW m \in ms PROVE Secure(m)'
  <2>1. PICK n \in DOMAIN new : new[n] = m
    BY <1>4
  <2>k. PICK k : k = l + n
    OBVIOUS
  <2>2. k \in DOMAIN t /\ t[k] = Unread(m)
    BY <1>4, <2>1, <2>k
  <2>3. t[k].msg = m /\ ~t[k].deleted
    BY <2>2 DEF Unread
  <2>4. k \notin DOMAIN box["In"].file
    <3>1. box["In"].file \in Seq(Msgs)
      BY <1>3 DEF AllSound, Sound, Box
    <3>2. n \in Nat /\ n >= 1
      BY <1>4
    <3>3. l \in Nat /\ DOMAIN box["In"].file = 1 .. l
      BY <1>l, <3>1
    <3>4. QED
      BY <2>k, <3>2, <3>3
  <2>5. ~IsPending("In", k)
    BY <1>3, <2>4, PendingPlace
  <2>6. Secure(t[k].msg)'
    BY <1>6, <2>2, <2>3, <2>5
  <2>7. QED
    BY <2>3, <2>6
<1>8. ASSUME NEW m \in arrived \ excused' PROVE Secure(m)'
  <2>1. m \in Msgs /\ m \notin excused /\ m \notin Inherited("In") /\ Secure(m)
    BY <1>3, <1>8 DEF AllSafe, TypeInv, History
  <2>2. PICK x \in Boxes : \E j \in DOMAIN box[x].file : SafeAt(box, x, j, m) /\ ~IsPending(x, j)
    BY <2>1 DEF Secure
  <2>3. PICK j \in DOMAIN box[x].file : SafeAt(box, x, j, m) /\ ~IsPending(x, j)
    BY <2>2
  <2>4. CASE x # "In"
    <3>1. box'[x] = box[x]
      BY <1>3, <2>4
    <3>2. j \in DOMAIN box'[x].file /\ SafeAt(box, x, j, m)' /\ ~IsPending(x, j)'
      BY <1>5, <2>3, <3>1 DEF SafeAt
    <3>3. QED
      BY <3>2 DEF Secure
  <2>5. CASE x = "In"
    <3>1. ~Table("In")[j].deleted
      BY <1>3, <2>1, <2>3, <2>5, OpenedSafe
    <3>2. Table("In")[j].msg = m
      BY <1>3, <2>3, <2>5, TableCovers DEF SafeAt
    <3>3. j \in DOMAIN t /\ t[j].msg = m /\ ~t[j].deleted
      BY <1>4, <2>3, <2>5, <3>1, <3>2
    <3>4. Secure(t[j].msg)'
      BY <1>6, <2>3, <2>5, <3>3
    <3>5. QED
      BY <3>3, <3>4
  <2>6. QED
    BY <2>4, <2>5
<1>9. QED
  BY <1>3, <1>7, <1>8 DEF AllSafe

LEMMA CompactSafe ==
    ASSUME TypeInv, AllSafe, NEW b \in Boxes, Compact(b)
    PROVE  AllSafe'
<1>K. PICK K : K = {k \in DOMAIN box[b].toc : ~box[b].toc[k].deleted}
  OBVIOUS
<1>1. PICK t : Leaves(b, t)
  BY CompactTypes
<1>2. /\ AllSound(box) /\ arrived' = arrived /\ excused' = excused /\ xfer' = xfer /\ ~Busy(b)
      /\ box[b].open /\ t \in Seq(Entry) /\ box'[b] = Written(t) /\ \A x \in Boxes \ {b} : box'[x] = box[x]
      /\ t = Kept(box[b].toc, {k \in DOMAIN box[b].toc : ~box[b].toc[k].deleted})
  BY <1>1, CompactTypes DEF Leaves, TypeInv
<1>3. PICK f : Places(f, t, box[b].toc, K)
  BY <1>2, <1>K, CompactedTable
<1>4. \A x, k : IsPending(x, k)' => IsPending(x, k)
  BY <1>2 DEF IsPending
<1>5. \A k : ~IsPending(b, k)
  BY <1>2 DEF IsPending, Busy, Free
<1>6. ASSUME NEW m \in arrived' \ excused' PROVE Secure(m)'
  <2>1. Secure(m)
    BY <1>2, <1>6 DEF AllSafe
  <2>2. PICK x \in Boxes : \E j \in DOMAIN box[x].file : SafeAt(box, x, j, m) /\ ~IsPending(x, j)
    BY <2>1 DEF Secure
  <2>3. PICK j \in DOMAIN box[x].file : SafeAt(box, x, j, m) /\ ~IsPending(x, j)
    BY <2>2
  <2>4. CASE x # b
    <3>1. box'[x] = box[x]
      BY <1>2, <2>4
    <3>2. j \in DOMAIN box'[x].file /\ SafeAt(box, x, j, m)' /\ ~IsPending(x, j)'
      BY <1>4, <2>3, <3>1 DEF SafeAt
    <3>3. QED
      BY <3>2 DEF Secure
  <2>5. CASE x = b
    <3>1. Sound(box[b])
      BY <1>2 DEF AllSound
    <3>2. j \in DOMAIN box[b].toc /\ box[b].toc[j].msg = m /\ ~box[b].toc[j].deleted
      BY <1>2, <2>3, <2>5, <3>1 DEF Sound, Covers, Box, SafeAt
    <3>3. j \in K
      BY <1>K, <3>2
    <3>4. PICK n \in DOMAIN t : t[n] = box[b].toc[j]
      BY <1>3, <3>3 DEF Places
    <3>5. t[n].msg = m /\ ~t[n].deleted
      BY <3>2, <3>4
    <3>6. n \in DOMAIN box'[b].file /\ SafeAt(box', b, n, m)
      BY <1>2, <3>5, WrittenSafe
    <3>7. SafeAt(box, b, n, m)' /\ ~IsPending(b, n)'
      BY <1>4, <1>5, <3>6 DEF SafeAt
    <3>8. QED
      BY <3>6, <3>7 DEF Secure
  <2>6. QED
    BY <2>4, <2>5
<1>7. QED
  BY <1>6 DEF AllSafe

LEMMA CrashSafe ==
    ASSUME TypeInv, AllSafe, Crash
    PROVE  AllSafe'
<1>1. /\ \A x \in Boxes : ~box'[x].open /\ box'[x].file = box[x].file /\ box'[x].saved = box[x].saved
      /\ \A p \in Threads : Free(p)'
      /\ arrived' = arrived /\ excused' = excused
  BY CrashTypes
<1>2. ASSUME NEW m \in arrived' \ excused' PROVE Secure(m)'
  <2>1. Secure(m)
    BY <1>1, <1>2 DEF AllSafe
  <2>2. PICK x \in Boxes : \E j \in DOMAIN box[x].file : SafeAt(box, x, j, m) /\ ~IsPending(x, j)
    BY <2>1 DEF Secure
  <2>3. PICK j \in DOMAIN box[x].file : SafeAt(box, x, j, m)
    BY <2>2
  <2>4. j \in DOMAIN box'[x].file /\ SafeAt(box, x, j, m)'
    BY <1>1, <2>3 DEF SafeAt
  <2>5. ~IsPending(x, j)'
    BY <1>1 DEF Free, IsPending
  <2>6. QED
    BY <2>4, <2>5 DEF Secure
<1>3. QED
  BY <1>2 DEF AllSafe

LEMMA StepSafe ==
    ASSUME TypeInv, AllSafe, [Next]_vars
    PROVE  AllSafe'
<1>1. UNCHANGED vars => AllSafe'
  BY DEF vars, check, hist, AllSafe, Secure, SafeAt, IsPending
<1>2. QED
  BY <1>1, Steps, RestsSafe, TouchesSafe, AppendsSafe, DescribedSafe, MarkedSafe, ReceiveSafe, CompactSafe, CrashSafe

\* A place that is safe is a copy on disk, and one in memory or one that a
\* rebuild takes for deleted.
LEMMA SafeFound ==
    ASSUME TypeInv, NEW m \in Msgs, Secure(m)
    PROVE  Durable(m) # {} /\ (Copies(m) # {} \/ \E b \in Boxes : m \in Inherited(b))
<1>0. PICK b \in Boxes : \E k \in DOMAIN box[b].file : SafeAt(box, b, k, m)
  BY DEF Secure
<1>1. PICK k \in DOMAIN box[b].file : SafeAt(box, b, k, m)
  BY <1>0
<1>2. Sound(box[b]) /\ AllSound(box)
  BY <1>1 DEF TypeInv, AllSound
<1>3. <<b, k>> \in Durable(m)
  <2>1. k \in Nat /\ k >= 1 /\ DOMAIN box[b].saved = 1 .. Len(box[b].saved)
    BY <1>1, <1>2 DEF Sound, Box
  <2>2. k <= Len(box[b].saved) => ~box[b].saved[k].deleted
    BY <1>1, <1>2, <2>1 DEF SafeAt, Sound, Box
  <2>3. QED
    BY <1>1, <2>2 DEF Durable, SafeAt
<1>4. m \notin Inherited(b) => <<b, k>> \in Copies(m)
  <2> SUFFICES ASSUME m \notin Inherited(b) PROVE <<b, k>> \in Copies(m)
    OBVIOUS
  <2>1. ~Table(b)[k].deleted
    BY <1>1, <1>2, OpenedSafe
  <2>2. k \in DOMAIN Table(b) /\ Table(b)[k].msg = m
    BY <1>1, <1>2, TableCovers DEF SafeAt
  <2>3. k \in Live(Table(b), m)
    BY <2>1, <2>2 DEF Live
  <2>4. QED
    BY <1>1, <2>3 DEF Copies
<1>5. QED
  BY <1>1, <1>3, <1>4

\* Check threads and user, at work on the same tables, with crashes at any point
\* of a transfer and transfers that fail, never lose a message between two
\* mailboxes: it has a place in memory and one that a crash leaves, unless it was
\* deleted on purpose.
THEOREM MailNotLost == Spec => []MailKept
<1>1. Init => AllSafe
  BY DEF Init, AllSafe
<1>2. TypeInv /\ AllSafe /\ [Next]_vars => AllSafe'
  BY StepSafe
<1>3. TypeInv /\ AllSafe => MailKept
  <2> SUFFICES ASSUME TypeInv, AllSafe, NEW m \in arrived \ excused
               PROVE  Durable(m) # {} /\ (Copies(m) # {} \/ \E b \in Boxes : m \in Inherited(b))
    BY DEF MailKept
  <2>1. m \in Msgs /\ Secure(m)
    BY DEF AllSafe, TypeInv, History
  <2>2. QED
    BY <2>1, SafeFound
<1>4. QED
  BY <1>1, <1>2, <1>3, TypeInvariant, PTL DEF Spec

-----------------------------------------------------------------------------
(* One copy of each message, with its score                                *)

\* Messages that no rule has copied and no two threads had in hand at once.
Own == Msgs \ (copied \cup raced)

\* The copy of a transfer, before it is described.
IsNew(b, k) ==
    \E p \in Threads : xfer[p].stage = "describe" /\ xfer[p].to = b /\ xfer[p].new = k

LiveAt(b, k, m) ==
    box[b].open /\ k \in DOMAIN box[b].toc /\ box[b].toc[k].msg = m /\ ~box[b].toc[k].deleted

\* Here m will be when the transfers under way have ended.
Place(b, k, m) == LiveAt(b, k, m) /\ ~IsPending(b, k)

\* Before a crash there is no mail in what is not open.
Blank == \A b \in Boxes : ~box[b].open => box[b].file = <<>>

Lone ==
    \A m \in Own : \A b, c \in Boxes : \A k, j : Place(b, k, m) /\ Place(c, j, m) => b = c /\ k = j

\* What the user has declared not to be junk has a score of 0, or will have.
Zero ==
    \A m \in Own \cap ham : \A b \in Boxes : \A k :
       Place(b, k, m) /\ ~IsNew(b, k) => box[b].toc[k].score = 0

\* What thread p has in hand for a transfer.
Grip(p) ==
    LET x == xfer[p]
        m == box[x.from].toc[x.at].msg
    IN  Held(p) =>
           /\ x.copy => m \in copied
           /\ m \in Own /\ x.stage = "append" => Place(x.from, x.at, m)
           /\ m \in Own /\ x.stage = "describe" =>
                 /\ Place(x.to, x.new, m)
                 /\ m \in ham => box[x.from].toc[x.at].score = 0

\* What it is scoring.
Judges(p) ==
    p \in Checkers /\ pc[p] = "judge" =>
       LET m == box["In"].toc[i[p]].msg IN m \in Own => m \notin ham /\ Place("In", i[p], m)

Disjoint ==
    \A p, t \in Threads : p # t => \A b \in Boxes : \A k :
       Holds(p, b, k) /\ Holds(t, b, k) => box[b].toc[k].msg \notin Own

Calm == Blank /\ Lone /\ Zero /\ (\A p \in Threads : Grip(p) /\ Judges(p)) /\ Disjoint

\* A thread that does not go on, and what it has in hand stays.
Stays(t) ==
    /\ xfer'[t] = xfer[t] /\ (t \in Checkers => pc'[t] = pc[t] /\ i'[t] = i[t])
    /\ \A b \in Boxes : \A k : Holds(t, b, k) =>
          /\ box'[b].open /\ k \in DOMAIN box'[b].toc /\ box'[b].toc[k].msg = box[b].toc[k].msg
          /\ box[b].toc[k].msg \in Own' =>
                /\ xfer[t].stage # "mark" => box[b].toc[k].msg \notin ham' \ ham
                /\ box'[b].toc[k] = box[b].toc[k]
                /\ IsPending(b, k)' => IsPending(b, k)

LEMMA GrowsOwn == Grows => Own' \subseteq Own
  BY DEF Grows, Own

LEMMA HoldsPlace ==
    ASSUME TypeInv, NEW t \in Threads, NEW b \in Boxes, NEW k, Holds(t, b, k)
    PROVE  /\ box[b].open /\ k \in DOMAIN box[b].toc
           /\ Held(t) \/ (t \in Checkers /\ pc[t] = "judge")
<1>1. Transferring(t) /\ (t \in Checkers => Checking(t))
  BY DEF TypeInv, Good
<1>2. CASE Held(t) /\ b = xfer[t].from /\ k = xfer[t].at
  BY <1>1, <1>2 DEF Held, Free, Transferring
<1>3. CASE xfer[t].stage = "describe" /\ b = xfer[t].to /\ k = xfer[t].new
  BY <1>1, <1>3 DEF Held, Free, Transferring
<1>4. CASE t \in Checkers /\ pc[t] = "judge" /\ b = "In" /\ k = i[t]
  BY <1>1, <1>4 DEF Checking
<1>5. QED
  BY <1>2, <1>3, <1>4 DEF Holds, Held

LEMMA StaysHolds ==
    ASSUME NEW t \in Threads, Stays(t), NEW b, NEW k, Holds(t, b, k)'
    PROVE  Holds(t, b, k)
  BY DEF Stays, Holds

LEMMA StaysPlace ==
    ASSUME NEW t \in Threads, Stays(t), NEW b \in Boxes, NEW k, Holds(t, b, k),
           NEW m \in Own', box[b].toc[k].msg = m, Place(b, k, m)
    PROVE  Place(b, k, m)'
<1>1. /\ box'[b].open /\ k \in DOMAIN box'[b].toc /\ box'[b].toc[k].msg = m
      /\ box'[b].toc[k] = box[b].toc[k] /\ (IsPending(b, k)' => IsPending(b, k))
  BY DEF Stays
<1>2. QED
  BY <1>1 DEF Place, LiveAt

LEMMA StaysGrip ==
    ASSUME TypeInv, Calm, Grows, NEW t \in Threads, Stays(t)
    PROVE  Grip(t)' /\ Judges(t)'
<1>x. PICK x : x = xfer[t]
  OBVIOUS
<1>m. PICK m : m = box[x.from].toc[x.at].msg
  OBVIOUS
<1>1. /\ xfer'[t] = x /\ x.from \in Boxes /\ x.to \in Boxes
      /\ Own' \subseteq Own /\ copied \subseteq copied' /\ Grip(t) /\ Judges(t)
  BY <1>x, TransferFields, GrowsOwn, SMTT(60) DEF Stays, Grows, Calm
<1>2. ASSUME Held(t) PROVE Grip(t)'
  <2>1. Holds(t, x.from, x.at)
    BY <1>2, <1>x DEF Holds, Held
  <2>2. box'[x.from].toc[x.at].msg = m
    BY <1>1, <1>m, <2>1, SMTT(60) DEF Stays
  <2>3. ASSUME x.copy PROVE m \in copied'
    BY <1>1, <1>2, <1>x, <1>m, <2>3 DEF Grip
  <2>4. ASSUME m \in Own', x.stage = "append" PROVE Place(x.from, x.at, m)'
    <3>1. Place(x.from, x.at, m)
      BY <1>1, <1>2, <1>x, <1>m, <2>4 DEF Grip
    <3>2. QED
      BY <1>1, <1>m, <2>1, <2>4, <3>1, StaysPlace
  <2>5. ASSUME m \in Own', x.stage = "describe"
        PROVE  Place(x.to, x.new, m)' /\ (m \in ham' => box'[x.from].toc[x.at].score = 0)
    <3>1. Place(x.to, x.new, m) /\ (m \in ham => box[x.from].toc[x.at].score = 0)
      BY <1>1, <1>2, <1>x, <1>m, <2>5 DEF Grip
    <3>2. Holds(t, x.to, x.new) /\ box[x.to].toc[x.new].msg = m
      BY <1>x, <2>5, <3>1 DEF Holds, Place, LiveAt
    <3>3. Place(x.to, x.new, m)'
      BY <1>1, <2>5, <3>1, <3>2, StaysPlace
    <3>4. box'[x.from].toc[x.at] = box[x.from].toc[x.at] /\ m \notin ham' \ ham
      BY <1>1, <1>x, <1>m, <2>1, <2>5, SMTT(60) DEF Stays
    <3>5. QED
      BY <3>1, <3>3, <3>4, SMTT(60)
  <2>6. QED
    BY <1>1, <2>2, <2>3, <2>4, <2>5 DEF Grip
<1>3. ASSUME ~Held(t) PROVE Grip(t)'
  BY <1>1, <1>3, <1>x DEF Held, Grip
<1>4. Judges(t)'
  <2> SUFFICES ASSUME t \in Checkers, pc[t] = "judge" PROVE Judges(t)'
    BY DEF Judges, Stays
  <2>k. PICK k : k = i[t]
    OBVIOUS
  <2>n. PICK n : n = box["In"].toc[k].msg
    OBVIOUS
  <2>1. Holds(t, "In", k) /\ "In" \in Boxes /\ i'[t] = k
    BY <2>k, BoxNames DEF Holds, Stays
  <2>2. box'["In"].toc[k].msg = n
    BY <2>1, <2>n DEF Stays
  <2>3. ASSUME n \in Own' PROVE n \notin ham' /\ Place("In", k, n)'
    <3>1. n \notin ham /\ Place("In", k, n)
      BY <1>1, <2>3, <2>k, <2>n DEF Judges
    <3>2. n \notin ham' \ ham
      <4>1. xfer[t].stage # "mark"
        BY DEF TypeInv, Good, Checking, Free
      <4>2. QED
        BY <2>1, <2>3, <2>n, <4>1 DEF Stays
    <3>3. Place("In", k, n)'
      BY <2>1, <2>3, <2>n, <3>1, StaysPlace
    <3>4. QED
      BY <3>1, <3>2, <3>3
  <2>4. QED
    BY <2>1, <2>2, <2>3 DEF Judges, Place, LiveAt, IsPending
<1>5. QED
  BY <1>2, <1>3, <1>4

\* All threads but p stay, and p has nothing in hand that another has.
LEMMA ThreadsCalm ==
    ASSUME TypeInv, Calm, Grows, NEW p \in Threads, \A t \in Threads \ {p} : Stays(t),
           Grip(p)', Judges(p)',
           \A t \in Threads \ {p} : \A b \in Boxes : \A k :
              Holds(p, b, k)' /\ Holds(t, b, k) => box[b].toc[k].msg \notin Own'
    PROVE  (\A t \in Threads : Grip(t)' /\ Judges(t)') /\ Disjoint'
<1>1. \A t \in Threads : Grip(t)' /\ Judges(t)'
  BY StaysGrip
<1>2. ASSUME NEW t \in Threads, NEW u \in Threads, t # u, t # p, NEW b \in Boxes, NEW k,
             Holds(t, b, k)', Holds(u, b, k)'
      PROVE  box'[b].toc[k].msg \notin Own'
  <2>1. Holds(t, b, k) /\ box'[b].toc[k].msg = box[b].toc[k].msg
    BY <1>2, StaysHolds DEF Stays
  <2>2. CASE u = p
    BY <1>2, <2>1, <2>2
  <2>3. CASE u # p
    <3>1. Holds(u, b, k)
      BY <1>2, <2>3, StaysHolds
    <3>2. box[b].toc[k].msg \notin Own
      BY <1>2, <2>1, <3>1 DEF Calm, Disjoint
    <3>3. QED
      BY <2>1, <3>2, GrowsOwn
  <2>4. QED
    BY <2>2, <2>3
<1>3. Disjoint'
  BY <1>2 DEF Disjoint
<1>4. QED
  BY <1>1, <1>3

\* Where small changes leave a message live, it was before.
LEMMA SmallLive ==
    ASSUME TypeInv, Blank, NEW E, Small(box', box, E)
    PROVE  /\ Blank'
           /\ \A x \in Boxes : \A j, m : LiveAt(x, j, m)' =>
                 /\ box[x].open /\ j \in DOMAIN box[x].toc /\ box[x].toc[j].msg = m
                 /\ <<x, j>> \notin E => LiveAt(x, j, m) /\ box'[x].toc[j] = box[x].toc[j]
<1>1. Blank'
  BY DEF Small, Blank
<1>2. ASSUME NEW x \in Boxes, NEW j, NEW m, LiveAt(x, j, m)'
      PROVE  /\ box[x].open /\ j \in DOMAIN box[x].toc /\ box[x].toc[j].msg = m
             /\ <<x, j>> \notin E => LiveAt(x, j, m) /\ box'[x].toc[j] = box[x].toc[j]
  <2>1. box'[x].open /\ j \in DOMAIN box'[x].toc /\ box'[x].toc[j].msg = m /\ ~box'[x].toc[j].deleted
    BY <1>2 DEF LiveAt
  <2>2. box[x].open
    <3>1. SUFFICES ASSUME ~box[x].open PROVE FALSE
      OBVIOUS
    <3>2. box'[x].file = <<>> /\ Sound(box'[x])
      BY <3>1 DEF Blank, Small, AllSound
    <3>3. j \in DOMAIN box'[x].file
      BY <2>1, <3>2 DEF Sound, Box
    <3>4. QED
      BY <3>2, <3>3
  <2>3. j \in DOMAIN box[x].toc /\ box[x].toc[j].msg = m
    BY <2>1, <2>2, SmallMail DEF TypeInv
  <2>4. ASSUME <<x, j>> \notin E PROVE LiveAt(x, j, m) /\ box'[x].toc[j] = box[x].toc[j]
    <3>1. box'[x].toc[j] = box[x].toc[j]
      BY <2>2, <2>3, <2>4 DEF Small
    <3>2. QED
      BY <2>1, <2>2, <2>3, <3>1 DEF LiveAt
  <2>5. QED
    BY <2>2, <2>3, <2>4
<1>3. QED
  BY <1>1, <1>2

\* No place is new, and the scores are kept.
LEMMA PlacesCalm ==
    ASSUME Calm, Grows,
           \A m \in Own' : \A b \in Boxes : \A k : Place(b, k, m)' =>
              Place(b, k, m) /\ (m \in ham' /\ ~IsNew(b, k)' => box'[b].toc[k].score = 0)
    PROVE  Lone' /\ Zero'
<1>1. Own' \subseteq Own /\ Lone
  BY GrowsOwn DEF Calm
<1>2. Lone'
  <2>1. ASSUME NEW m \in Own', NEW b \in Boxes, NEW c \in Boxes, NEW k, NEW j, Place(b, k, m)', Place(c, j, m)'
        PROVE  b = c /\ k = j
    <3>1. m \in Own /\ Place(b, k, m) /\ Place(c, j, m)
      BY <1>1, <2>1
    <3>2. QED
      BY <1>1, <3>1 DEF Lone
  <2>2. QED
    BY <2>1 DEF Lone
<1>3. Zero'
  <2>1. ASSUME NEW m \in Own' \cap ham', NEW b \in Boxes, NEW k, Place(b, k, m)', ~IsNew(b, k)'
        PROVE  box'[b].toc[k].score = 0
    BY <2>1
  <2>2. QED
    BY <2>1 DEF Zero
<1>4. QED
  BY <1>2, <1>3

LEMMA SmallStays ==
    ASSUME TypeInv, NEW E, Small(box', box, E), NEW p \in Threads, Apart(p), NEW t \in Threads \ {p},
           \A b \in Boxes : \A k : IsPending(b, k)' => IsPending(b, k),
           \A b \in Boxes : \A k : Holds(t, b, k) /\ box[b].toc[k].msg \in Own' =>
              (xfer[t].stage # "mark" => box[b].toc[k].msg \notin ham' \ ham) /\ <<b, k>> \notin E
    PROVE  Stays(t)
<1>1. xfer'[t] = xfer[t] /\ (t \in Checkers => pc'[t] = pc[t] /\ i'[t] = i[t])
  BY DEF Apart
<1>2. ASSUME NEW b \in Boxes, NEW k, Holds(t, b, k)
      PROVE  /\ box'[b].open /\ k \in DOMAIN box'[b].toc /\ box'[b].toc[k].msg = box[b].toc[k].msg
             /\ box[b].toc[k].msg \in Own' =>
                   /\ xfer[t].stage # "mark" => box[b].toc[k].msg \notin ham' \ ham
                   /\ box'[b].toc[k] = box[b].toc[k]
                   /\ IsPending(b, k)' => IsPending(b, k)
  <2>1. box[b].open /\ k \in DOMAIN box[b].toc
    BY <1>2, HoldsPlace
  <2>2. box'[b].open /\ k \in DOMAIN box'[b].toc /\ box'[b].toc[k].msg = box[b].toc[k].msg
    BY <2>1, SmallMail DEF TypeInv
  <2>3. ASSUME box[b].toc[k].msg \in Own' PROVE box'[b].toc[k] = box[b].toc[k]
    <3>1. <<b, k>> \notin E
      BY <1>2, <2>3
    <3>2. QED
      BY <2>1, <3>1 DEF Small
  <2>4. QED
    BY <1>2, <2>2, <2>3
<1>3. QED
  BY <1>1, <1>2 DEF Stays

LEMMA RestsCalm ==
    ASSUME TypeInv, Calm, NEW p \in Threads, Rests(p)
    PROVE  Calm'
<1>1. /\ Apart(p) /\ Small(box', box, {}) /\ Grows /\ ham' \subseteq ham /\ ~Held(p)'
      /\ xfer[p].stage \notin {"describe", "mark"} /\ (p \in Checkers => pc'[p] # "judge")
  BY DEF Rests
<1>2. Blank /\ Zero /\ Own' \subseteq Own
  BY <1>1, GrowsOwn DEF Calm
<1>3. ASSUME NEW b \in Boxes, NEW k PROVE IsPending(b, k)' <=> IsPending(b, k)
  BY <1>1 DEF IsPending, Apart, Held
<1>4. ASSUME NEW b \in Boxes, NEW k PROVE IsNew(b, k) => IsNew(b, k)'
  BY <1>1 DEF IsNew, Apart, Held
<1>5. ASSUME NEW m \in Own', NEW b \in Boxes, NEW k, Place(b, k, m)'
      PROVE  Place(b, k, m) /\ (m \in ham' /\ ~IsNew(b, k)' => box'[b].toc[k].score = 0)
  <2>1. LiveAt(b, k, m)' /\ ~IsPending(b, k)
    BY <1>3, <1>5 DEF Place
  <2>2. LiveAt(b, k, m) /\ box'[b].toc[k] = box[b].toc[k]
    <3>1. PICK E : E = {}
      OBVIOUS
    <3>2. Blank /\ Small(box', box, E) /\ <<b, k>> \notin E /\ LiveAt(b, k, m)'
      BY <1>1, <1>2, <2>1, <3>1
    <3>3. QED
      BY <3>2, SmallLive
  <2>3. Place(b, k, m)
    BY <2>1, <2>2 DEF Place
  <2>4. m \in ham' /\ ~IsNew(b, k)' => box[b].toc[k].score = 0
    BY <1>1, <1>2, <1>4, <2>3 DEF Zero
  <2>5. QED
    BY <2>2, <2>3, <2>4
<1>6. Lone' /\ Zero'
  BY <1>1, <1>5, PlacesCalm
<1>7. \A t \in Threads \ {p} : Stays(t)
  BY <1>1, <1>3, SmallStays, SMTT(60)
<1>8. Grip(p)' /\ Judges(p)' /\ \A b, k : ~Holds(p, b, k)'
  BY <1>1 DEF Grip, Judges, Holds, Held
<1>9. (\A t \in Threads : Grip(t)' /\ Judges(t)') /\ Disjoint'
  BY <1>1, <1>7, <1>8, ThreadsCalm
<1>10. Blank'
  BY <1>1, <1>2, SmallLive
<1>11. QED
  BY <1>6, <1>9, <1>10 DEF Calm

\* What a thread has in hand has a place, which the thread has in hand.
LEMMA HeldPlace ==
    ASSUME TypeInv, Calm, NEW t \in Threads, NEW c \in Boxes, NEW j, Holds(t, c, j), xfer[t].stage # "mark",
           NEW m \in Own, m = box[c].toc[j].msg
    PROVE  \E d \in Boxes : \E l : Place(d, l, m) /\ Holds(t, d, l)
<1>x. PICK x : x = xfer[t]
  OBVIOUS
<1>1. Grip(t) /\ Judges(t) /\ x.from \in Boxes /\ x.to \in Boxes /\ Transferring(t)
  BY <1>x, TransferFields DEF Calm, TypeInv, Good
<1>2. CASE x.stage = "append" /\ c = x.from /\ j = x.at
  <2>1. Place(c, j, m)
    BY <1>1, <1>2, <1>x DEF Grip, Held
  <2>2. QED
    BY <2>1, SMTT(60)
<1>3. CASE x.stage = "describe"
  <2>1. box[x.from].toc[x.at].msg = m
    BY <1>1, <1>3, <1>x DEF Holds, Transferring, Free, TypeInv, Good, Checking
  <2>2. Place(x.to, x.new, m)
    BY <1>1, <1>3, <1>x, <2>1 DEF Grip, Held
  <2>3. Holds(t, x.to, x.new)
    BY <1>3, <1>x DEF Holds
  <2>4. QED
    BY <1>1, <2>2, <2>3, SMTT(60)
<1>4. CASE t \in Checkers /\ pc[t] = "judge" /\ c = "In" /\ j = i[t]
  <2>1. Place(c, j, m)
    BY <1>1, <1>4 DEF Judges
  <2>2. QED
    BY <2>1
<1>5. QED
  BY <1>2, <1>3, <1>4, <1>x DEF Holds

\* A thread that goes to a message takes it out of Own if another has it.
LEMMA TouchedFree ==
    ASSUME TypeInv, Calm, NEW p \in Threads, NEW b \in Boxes, NEW k, Touches(p, b, k),
           NEW m, m = box[b].toc[k].msg, m \in Own'
    PROVE  /\ \A t \in Threads \ {p} : ~Holds(t, b, k)
           /\ ~IsPending(b, k) /\ ~IsNew(b, k)
           /\ p \in Checkers /\ pc[p] = "judge" => m \notin ham
<1>1. /\ m \in Own /\ m \notin raced' /\ ~Held(p)
      /\ IF p \in Checkers /\ pc[p] = "judge" THEN b = "In" /\ k = i[p] ELSE Contested(p, b, k) \subseteq raced'
  BY GrowsOwn DEF Touches, Own
<1>2. ASSUME NEW t \in Threads \ {p} PROVE ~Holds(t, b, k)
  <2>1. CASE p \in Checkers /\ pc[p] = "judge"
    <3>1. Holds(p, b, k)
      BY <1>1, <2>1 DEF Holds
    <3>2. QED
      BY <1>1, <1>2, <3>1 DEF Calm, Disjoint
  <2>2. CASE ~(p \in Checkers /\ pc[p] = "judge")
    BY <1>1, <1>2, <2>2 DEF Contested
  <2>3. QED
    BY <2>1, <2>2
<1>3. ~IsPending(b, k) /\ ~IsNew(b, k)
  BY <1>1, <1>2 DEF IsPending, IsNew, Held, Holds
<1>4. p \in Checkers /\ pc[p] = "judge" => m \notin ham
  BY <1>1 DEF Calm, Judges
<1>5. QED
  BY <1>2, <1>3, <1>4

LEMMA TouchesCalm ==
    ASSUME TypeInv, Calm, NEW p \in Threads, NEW b \in Boxes, NEW k, Touches(p, b, k)
    PROVE  Calm'
<1>m. PICK h : h = box[b].toc[k].msg
  OBVIOUS
<1>s. PICK s : s = box[b].toc[k]
  OBVIOUS
<1>t. PICK t : t = box'[b].toc[k]
  OBVIOUS
<1>E. PICK E : E = {<<b, k>>}
  OBVIOUS
<1>j. PICK judged : judged = (p \in Checkers /\ pc[p] = "judge")
  OBVIOUS
<1>1. /\ box[b].open /\ k \in DOMAIN box[b].toc /\ Apart(p) /\ Small(box', box, E) /\ Grows
      /\ ~Held(p) /\ Takes(p, b, k)
      /\ s.deleted => t.deleted
      /\ ham' \subseteq ham \cup {h}
      /\ h \in ham' \ ham => t.score = 0 /\ ~t.deleted
      /\ t.score = s.score \/ t.score = 0 \/ h \notin ham' \/ judged
  BY <1>m, <1>s, <1>t, <1>E, <1>j DEF Touches
<1>2. Blank /\ Lone /\ Zero /\ Own' \subseteq Own
  BY <1>1, GrowsOwn DEF Calm
<1>3. xfer'[p].stage \notin {"describe", "mark"} /\ xfer[p].stage \notin {"describe", "mark"}
  BY <1>1 DEF Takes, Held
<1>4. ASSUME NEW c \in Boxes, NEW j PROVE IsPending(c, j)' <=> IsPending(c, j)
  BY <1>1, <1>3 DEF IsPending, Apart
<1>5. ASSUME NEW c \in Boxes, NEW j PROVE IsNew(c, j)' <=> IsNew(c, j)
  BY <1>1, <1>3 DEF IsNew, Apart
<1>6. ASSUME h \in Own'
      PROVE  /\ \A u \in Threads \ {p} : ~Holds(u, b, k)
             /\ ~IsPending(b, k) /\ ~IsNew(b, k)
             /\ judged => h \notin ham
  BY <1>6, <1>j, <1>m, TouchedFree
<1>7. box'[b].open /\ k \in DOMAIN box'[b].toc /\ t.msg = h /\ s.msg = h
  <2>1. box'[b].toc[k].msg = box[b].toc[k].msg /\ DOMAIN box'[b].toc = DOMAIN box[b].toc /\ box'[b].open
    BY <1>1, SmallMail DEF TypeInv
  <2>2. QED
    BY <1>1, <1>m, <1>s, <1>t, <2>1
<1>8. ASSUME h \in Own', ~t.deleted PROVE Place(b, k, h) /\ (h \in ham => s.score = 0)
  <2>1. LiveAt(b, k, h)
    BY <1>1, <1>7, <1>8, <1>s DEF LiveAt
  <2>2. Place(b, k, h)
    BY <1>6, <1>8, <2>1 DEF Place
  <2>3. h \in ham => s.score = 0
    BY <1>2, <1>6, <1>8, <1>s, <2>2 DEF Zero
  <2>4. QED
    BY <2>2, <2>3
<1>9. ASSUME NEW m \in Own', NEW c \in Boxes, NEW j, Place(c, j, m)'
      PROVE  Place(c, j, m) /\ (m \in ham' /\ ~IsNew(c, j)' => box'[c].toc[j].score = 0)
  <2>1. LiveAt(c, j, m)' /\ ~IsPending(c, j)
    BY <1>4, <1>9 DEF Place
  <2>2. CASE <<c, j>> \notin E
    <3>1. LiveAt(c, j, m) /\ box'[c].toc[j] = box[c].toc[j]
      BY <1>1, <1>2, <2>1, <2>2, SmallLive
    <3>2. Place(c, j, m)
      BY <2>1, <3>1 DEF Place
    <3>3. m \in ham /\ ~IsNew(c, j)' => box[c].toc[j].score = 0
      BY <1>2, <1>5, <3>2 DEF Zero
    <3>4. m \in ham' => m \in ham
      <4>1. SUFFICES ASSUME m \in ham' \ ham PROVE FALSE
        OBVIOUS
      <4>2. m = h /\ ~t.deleted
        BY <1>1, <4>1
      <4>3. Place(b, k, h)
        BY <1>8, <4>2
      <4>4. c = b /\ j = k
        BY <1>2, <3>2, <4>2, <4>3 DEF Lone
      <4>5. QED
        BY <1>E, <2>2, <4>4
    <3>5. QED
      BY <3>1, <3>2, <3>3, <3>4
  <2>3. CASE <<c, j>> \in E
    <3>1. c = b /\ j = k
      BY <1>E, <2>3
    <3>2. m = h /\ ~t.deleted
      BY <1>7, <1>t, <2>1, <3>1 DEF LiveAt
    <3>3. Place(b, k, h) /\ (h \in ham => s.score = 0) /\ (judged => h \notin ham)
      BY <1>6, <1>8, <3>2
    <3>4. h \in ham' => t.score = 0
      BY <1>1, <3>3
    <3>5. QED
      BY <1>t, <3>1, <3>2, <3>3, <3>4
  <2>4. QED
    BY <2>2, <2>3
<1>10. Lone' /\ Zero'
  BY <1>1, <1>9, PlacesCalm
<1>11. ASSUME NEW u \in Threads \ {p} PROVE Stays(u)
  <2>1. ASSUME NEW c \in Boxes, NEW j, Holds(u, c, j), box[c].toc[j].msg \in Own'
        PROVE  (xfer[u].stage # "mark" => box[c].toc[j].msg \notin ham' \ ham) /\ <<c, j>> \notin E
    <3>m. PICK m : m = box[c].toc[j].msg
      OBVIOUS
    <3>1. <<c, j>> \notin E
      <4>1. SUFFICES ASSUME c = b /\ j = k PROVE FALSE
        BY <1>E
      <4>2. QED
        BY <1>6, <1>m, <2>1, <4>1
    <3>2. ASSUME xfer[u].stage # "mark", m \in ham' \ ham PROVE FALSE
      <4>1. m = h /\ ~t.deleted /\ h \in Own'
        BY <1>1, <2>1, <3>2, <3>m
      <4>2. Place(b, k, h)
        BY <1>8, <4>1
      <4>3. PICK d \in Boxes : \E l : Place(d, l, h) /\ Holds(u, d, l)
        BY <1>2, <2>1, <3>2, <3>m, <4>1, HeldPlace
      <4>4. PICK l : Place(d, l, h) /\ Holds(u, d, l)
        BY <4>3
      <4>5. d = b /\ l = k
        BY <1>2, <4>1, <4>2, <4>4 DEF Lone
      <4>6. QED
        BY <1>6, <4>1, <4>4, <4>5
    <3>3. QED
      BY <3>1, <3>2, <3>m
  <2>2. QED
    BY <1>1, <1>4, <2>1, SmallStays
<1>12. /\ Grip(p)' /\ Judges(p)'
       /\ \A c \in Boxes : \A j : Holds(p, c, j)' => c = b /\ j = k
  <2>1. CASE ~Held(p)' /\ (p \in Checkers => pc'[p] # "judge")
    BY <2>1 DEF Grip, Judges, Holds, Held
  <2>2. CASE /\ p \in Checkers => pc'[p] # "judge"
             /\ xfer'[p].stage = "append" /\ xfer'[p].from = b /\ xfer'[p].at = k
             /\ xfer'[p].copy => h \in copied'
             /\ h \in copied' \/ ~t.deleted
    <3>1. \A c \in Boxes : \A j : Holds(p, c, j)' => c = b /\ j = k
      BY <2>2 DEF Holds
    <3>2. Judges(p)'
      BY <2>2 DEF Judges
    <3>3. h \in Own' => Place(b, k, h)'
      <4>1. SUFFICES ASSUME h \in Own' PROVE Place(b, k, h)'
        OBVIOUS
      <4>2. ~t.deleted /\ ~IsPending(b, k)'
        BY <1>4, <1>6, <2>2, <4>1 DEF Own
      <4>3. QED
        BY <1>7, <1>t, <4>2 DEF Place, LiveAt
    <3>4. box'[b].toc[k].msg = h
      BY <1>7, <1>t
    <3>x. PICK y : y = xfer'[p]
      OBVIOUS
    <3>5. Grip(p)'
      BY <2>2, <3>3, <3>4 DEF Grip, Place, LiveAt, IsPending
    <3>6. QED
      BY <3>1, <3>2, <3>5
  <2>3. CASE /\ p \in Checkers /\ ~Held(p)' /\ pc'[p] = "judge" /\ i'[p] = k /\ b = "In"
             /\ ~t.deleted /\ t.score = -1 /\ ham' = ham
    <3>1. \A c \in Boxes : \A j : Holds(p, c, j)' => c = b /\ j = k
      BY <2>3, SMTT(60) DEF Holds, Held
    <3>2. Grip(p)'
      BY <2>3 DEF Grip
    <3>3. ASSUME h \in Own' PROVE h \notin ham' /\ Place(b, k, h)'
      <4>1. h \notin ham
        BY <1>1, <1>6, <1>8, <2>3, <3>3
      <4>2. Place(b, k, h)'
        BY <1>4, <1>6, <1>7, <1>t, <2>3, <3>3 DEF Place, LiveAt
      <4>3. QED
        BY <2>3, <4>1, <4>2
    <3>4. box'["In"].toc[k].msg = h
      BY <1>7, <1>t, <2>3
    <3>5. Judges(p)'
      BY <2>3, <3>3, <3>4 DEF Judges, Place, LiveAt, IsPending
    <3>6. QED
      BY <3>1, <3>2, <3>5
  <2>4. QED
    BY <1>1, <1>m, <1>t, <2>1, <2>2, <2>3, SMTT(60) DEF Takes
<1>13. ASSUME NEW u \in Threads \ {p}, NEW c \in Boxes, NEW j, Holds(p, c, j)', Holds(u, c, j)
       PROVE  box[c].toc[j].msg \notin Own'
  <2>1. c = b /\ j = k
    BY <1>12, <1>13
  <2>2. QED
    BY <1>6, <1>13, <1>m, <2>1
<1>14. (\A u \in Threads : Grip(u)' /\ Judges(u)') /\ Disjoint'
  BY <1>1, <1>11, <1>12, <1>13, ThreadsCalm
<1>15. Blank'
  BY <1>1, <1>2, SmallLive
<1>16. QED
  BY <1>10, <1>14, <1>15 DEF Calm

\* All entries stay, and none is new but the one at l of c.
Longer(c, l) ==
    \A b \in Boxes : \A k :
       /\ box[b].open /\ k \in DOMAIN box[b].toc =>
             box'[b].open /\ k \in DOMAIN box'[b].toc /\ box'[b].toc[k] = box[b].toc[k]
       /\ box'[b].open /\ k \in DOMAIN box'[b].toc /\ (b # c \/ k # l) =>
             box[b].open /\ k \in DOMAIN box[b].toc

AppendedAt(c, l, h) ==
    /\ box'[c].open /\ l \in DOMAIN box'[c].toc /\ l \notin DOMAIN box[c].toc
    /\ box'[c].toc[l] = Unread(h)
    /\ Longer(c, l)

LEMMA AppendedPlaces ==
    ASSUME TypeInv, NEW p \in Threads, Appends(p), NEW x, x = xfer[p],
           NEW c, c = x.to, NEW h, h = box[x.from].toc[x.at].msg, NEW l, l = Len(box[c].toc) + 1
    PROVE  AppendedAt(c, l, h)
<1>1. Extends(p, c, h) /\ Unread(h) \in Entry /\ c \in Boxes
  BY AppendsExtends, SMTT(60)
<1>2. /\ \A z \in Boxes \ {c} : box'[z] = box[z]
      /\ box[c].open /\ box'[c].open /\ box'[c].toc = Append(box[c].toc, Unread(h))
  BY <1>1, ZenonT(60) DEF Extends
<1>u. PICK u : u = Unread(h)
  OBVIOUS
<1>t. PICK t : t = box'[c].toc
  OBVIOUS
<1>s. PICK s : s = box[c].toc
  BY SMTT(60)
<1>3. s \in Seq(Entry) /\ u \in Entry /\ t = Append(s, u) /\ l = Len(s) + 1
  BY <1>1, <1>2, <1>u, <1>t, <1>s, ZenonT(60) DEF TypeInv, AllSound, Sound, Box
<1>4. /\ DOMAIN t = DOMAIN s \cup {l} /\ t[l] = u /\ l \notin DOMAIN s
      /\ \A j \in DOMAIN s : t[j] = s[j]
  BY <1>3, AppendedSeq
<1>5. ASSUME NEW b \in Boxes, NEW k
      PROVE  /\ box[b].open /\ k \in DOMAIN box[b].toc =>
                   box'[b].open /\ k \in DOMAIN box'[b].toc /\ box'[b].toc[k] = box[b].toc[k]
             /\ box'[b].open /\ k \in DOMAIN box'[b].toc /\ (b # c \/ k # l) =>
                   box[b].open /\ k \in DOMAIN box[b].toc
  <2>1. CASE b # c
    <3>1. box'[b] = box[b]
      BY <1>2, <2>1, SMTT(60)
    <3>2. QED
      BY <3>1, SMTT(60)
  <2>2. CASE b = c
    BY <1>2, <1>4, <1>t, <1>s, <2>2, ZenonT(60)
  <2>3. QED
    BY <2>1, <2>2
<1>6. Longer(c, l)
  BY <1>5 DEF Longer
<1>7. box'[c].open /\ l \in DOMAIN box'[c].toc /\ l \notin DOMAIN box[c].toc /\ box'[c].toc[l] = Unread(h)
  BY <1>2, <1>4, <1>u, <1>t, <1>s, ZenonT(60)
<1>8. QED
  BY <1>6, <1>7 DEF AppendedAt

\* The message appended was in one place, where it is pending now.
LEMMA AppendsCalm ==
    ASSUME TypeInv, Calm, NEW p \in Threads, Appends(p)
    PROVE  Calm'
<1>x. PICK x : x = xfer[p]
  OBVIOUS
<1>m. PICK h : h = box[x.from].toc[x.at].msg
  OBVIOUS
<1>c. PICK c : c = x.to
  OBVIOUS
<1>l. PICK l : l = Len(box[c].toc) + 1
  OBVIOUS
<1>1. /\ x.stage = "append" /\ x.from # c /\ x.from \in Boxes /\ c \in Boxes
      /\ box[x.from].open /\ x.at \in DOMAIN box[x.from].toc
      /\ Apart(p) /\ Grows /\ copied' = copied /\ ham' = ham /\ raced' = raced
      /\ xfer'[p].stage = "describe" /\ xfer'[p].new = l
      /\ xfer'[p].from = x.from /\ xfer'[p].at = x.at /\ xfer'[p].to = c /\ xfer'[p].copy = x.copy
      /\ p \in Checkers => pc'[p] # "judge"
  BY <1>x, <1>m, <1>c, <1>l, AppendsExtends
<1>2. /\ box'[c].open /\ l \in DOMAIN box'[c].toc /\ l \notin DOMAIN box[c].toc
      /\ box'[c].toc[l] = Unread(h) /\ Longer(c, l)
  <2>1. AppendedAt(c, l, h)
    BY <1>x, <1>m, <1>c, <1>l, AppendedPlaces
  <2>2. QED
    BY <2>1 DEF AppendedAt
<1>3. Own' = Own /\ Blank /\ Lone /\ Zero /\ Grip(p) /\ Disjoint
  BY <1>1 DEF Own, Calm
<1>4. Unread(h).msg = h /\ ~Unread(h).deleted
  BY SMTT(60) DEF Unread
<1>5. /\ x.copy => h \in copied
      /\ h \in Own => Place(x.from, x.at, h) /\ ~x.copy
  BY <1>1, <1>3, <1>x, <1>m DEF Grip, Held, Own
<1>6. ASSUME NEW b \in Boxes, NEW k
      PROVE  /\ IsPending(b, k) => IsPending(b, k)'
             /\ IsPending(b, k)' => IsPending(b, k) \/ (~x.copy /\ b = x.from /\ k = x.at)
             /\ ~x.copy => IsPending(x.from, x.at)'
  <2>1. IsPending(b, k) => IsPending(b, k)'
    BY <1>1, <1>x DEF IsPending, Apart
  <2>2. IsPending(b, k)' => IsPending(b, k) \/ (~x.copy /\ b = x.from /\ k = x.at)
    BY <1>1 DEF IsPending, Apart
  <2>3. ~x.copy => IsPending(x.from, x.at)'
    BY <1>1 DEF IsPending
  <2>4. QED
    BY <2>1, <2>2, <2>3
<1>7. ASSUME NEW b \in Boxes, NEW k
      PROVE  (IsNew(b, k) => IsNew(b, k)') /\ IsNew(c, l)'
  BY <1>1, <1>x DEF IsNew, Apart
<1>8. ASSUME NEW b \in Boxes, NEW k, NEW m, LiveAt(b, k, m)', b # c \/ k # l
      PROVE  LiveAt(b, k, m) /\ box'[b].toc[k] = box[b].toc[k]
  BY <1>2, <1>8 DEF LiveAt, Longer
<1>9. ASSUME NEW m \in Own, NEW b \in Boxes, NEW k, Place(b, k, m)', b # c \/ k # l
      PROVE  Place(b, k, m) /\ m # h /\ box'[b].toc[k] = box[b].toc[k]
  <2>1. LiveAt(b, k, m) /\ box'[b].toc[k] = box[b].toc[k] /\ ~IsPending(b, k) /\ ~IsPending(b, k)'
    BY <1>6, <1>8, <1>9 DEF Place
  <2>2. Place(b, k, m)
    BY <2>1 DEF Place
  <2>3. m # h
    <3>1. SUFFICES ASSUME m = h PROVE FALSE
      OBVIOUS
    <3>2. b = x.from /\ k = x.at /\ ~x.copy
      BY <1>1, <1>3, <1>5, <2>2, <3>1 DEF Lone
    <3>3. QED
      BY <1>1, <1>6, <2>1, <3>2
  <2>4. QED
    BY <2>1, <2>2, <2>3
<1>10. ASSUME NEW m, LiveAt(c, l, m)' PROVE m = h
  BY <1>2, <1>4, <1>10 DEF LiveAt
<1>11. Lone'
  <2>1. ASSUME NEW m \in Own, NEW b \in Boxes, NEW d \in Boxes, NEW k, NEW j, Place(b, k, m)', Place(d, j, m)'
        PROVE  b = d /\ k = j
    <3>1. CASE m = h
      BY <1>9, <2>1, <3>1
    <3>2. CASE m # h
      <4>1. (b # c \/ k # l) /\ (d # c \/ j # l)
        BY <1>10, <2>1, <3>2 DEF Place
      <4>2. Place(b, k, m) /\ Place(d, j, m)
        BY <1>9, <2>1, <4>1
      <4>3. QED
        BY <1>3, <4>2 DEF Lone
    <3>3. QED
      BY <3>1, <3>2
  <2>2. QED
    BY <1>3, <2>1 DEF Lone
<1>12. Zero'
  <2>1. ASSUME NEW m \in Own \cap ham, NEW b \in Boxes, NEW k, Place(b, k, m)', ~IsNew(b, k)'
        PROVE  box'[b].toc[k].score = 0
    <3>1. (b # c \/ k # l) /\ ~IsNew(b, k)
      BY <1>1, <1>7, <2>1
    <3>2. Place(b, k, m) /\ box'[b].toc[k] = box[b].toc[k]
      BY <1>9, <2>1, <3>1
    <3>3. QED
      BY <1>3, <2>1, <3>1, <3>2 DEF Zero
  <2>2. QED
    BY <1>1, <1>3, <2>1 DEF Zero
<1>13. Holds(p, x.from, x.at)
  BY <1>1, <1>x DEF Holds
<1>14. ASSUME NEW t \in Threads \ {p} PROVE Stays(t)
  <2>1. xfer'[t] = xfer[t] /\ (t \in Checkers => pc'[t] = pc[t] /\ i'[t] = i[t])
    BY <1>1 DEF Apart
  <2>2. ASSUME NEW b \in Boxes, NEW k, Holds(t, b, k)
        PROVE  /\ box'[b].open /\ k \in DOMAIN box'[b].toc /\ box'[b].toc[k] = box[b].toc[k]
               /\ box[b].toc[k].msg \in Own => (IsPending(b, k)' => IsPending(b, k))
    <3>1. box[b].open /\ k \in DOMAIN box[b].toc
      BY <2>2, HoldsPlace
    <3>2. box[b].toc[k].msg \in Own => ~(b = x.from /\ k = x.at)
      BY <1>3, <1>13, <2>2 DEF Disjoint
    <3>3. QED
      BY <1>2, <1>6, <3>1, <3>2 DEF Longer
  <2>3. QED
    BY <1>1, <1>3, <2>1, <2>2 DEF Stays
<1>15. ASSUME NEW b \in Boxes, NEW k, Holds(p, b, k)' PROVE (b = x.from /\ k = x.at) \/ (b = c /\ k = l)
  BY <1>1, <1>15 DEF Holds
<1>16. ASSUME NEW t \in Threads \ {p}, NEW b \in Boxes, NEW k, Holds(p, b, k)', Holds(t, b, k)
       PROVE  box[b].toc[k].msg \notin Own'
  <2>1. CASE b = x.from /\ k = x.at
    BY <1>3, <1>13, <1>16, <2>1 DEF Disjoint
  <2>2. CASE b = c /\ k = l
    BY <1>2, <1>16, <2>2, HoldsPlace
  <2>3. QED
    BY <1>15, <1>16, <2>1, <2>2
<1>17. box'[x.from].toc[x.at] = box[x.from].toc[x.at]
  BY <1>1, <1>2 DEF Longer
<1>18. ASSUME h \in Own' PROVE Place(c, l, h)' /\ (h \in ham' => box'[x.from].toc[x.at].score = 0)
  <2>1. LiveAt(c, l, h)'
    BY <1>2, <1>4 DEF LiveAt
  <2>2. ~IsPending(c, l)
    BY <1>1, <1>2, PendingPlace
  <2>3. ~IsPending(c, l)'
    BY <1>1, <1>6, <2>2
  <2>4. ~IsNew(x.from, x.at)
    <3>1. SUFFICES ASSUME NEW t \in Threads, xfer[t].stage = "describe", xfer[t].to = x.from, xfer[t].new = x.at
                   PROVE  FALSE
      BY DEF IsNew
    <3>2. t # p /\ Holds(t, x.from, x.at)
      BY <1>1, <1>x, <3>1 DEF Holds
    <3>3. QED
      BY <1>1, <1>3, <1>13, <1>18, <1>m, <3>2 DEF Disjoint
  <2>5. h \in ham => box[x.from].toc[x.at].score = 0
    BY <1>1, <1>3, <1>5, <1>18, <2>4 DEF Zero
  <2>6. QED
    BY <1>1, <1>17, <2>1, <2>3, <2>5 DEF Place
<1>19. Grip(p)' /\ Judges(p)'
  <2>1. Judges(p)'
    BY <1>1 DEF Judges
  <2>2. box'[x.from].toc[x.at].msg = h
    BY <1>17, <1>m
  <2>3. Grip(p)'
    BY <1>1, <1>5, <1>18, <2>2 DEF Grip, Place, LiveAt, IsPending
  <2>4. QED
    BY <2>1, <2>3
<1>20. (\A t \in Threads : Grip(t)' /\ Judges(t)') /\ Disjoint'
  BY <1>1, <1>14, <1>16, <1>19, ThreadsCalm
<1>21. Blank'
  <2>1. Extends(p, c, h)
    BY <1>x, <1>m, <1>c, AppendsExtends
  <2>2. QED
    BY <1>2, <1>3, <2>1 DEF Extends, Blank
<1>22. QED
  BY <1>11, <1>12, <1>20, <1>21 DEF Calm

\* The copy is described as its original, whose score it should have.
LEMMA DescribedCalm ==
    ASSUME TypeInv, Calm, NEW p \in Threads, NEW e, Described(p, xfer[p], e)
    PROVE  Calm'
<1>x. PICK x : x = xfer[p]
  OBVIOUS
<1>c. PICK c : c = x.to
  OBVIOUS
<1>l. PICK l : l = x.new
  OBVIOUS
<1>m. PICK h : h = box[x.from].toc[x.at].msg
  OBVIOUS
<1>E. PICK E : E = {<<c, l>>}
  OBVIOUS
<1>1. /\ x.stage = "describe" /\ x.from # c /\ x.from \in Boxes /\ c \in Boxes
      /\ box[c].open /\ l \in DOMAIN box[c].toc
      /\ Small(box', box, E) /\ box'[c].toc[l] = e /\ e.msg = h /\ box[c].toc[l].msg = h
      /\ ~e.deleted /\ e.score = box[x.from].toc[x.at].score
      /\ Apart(p) /\ Grows /\ copied' = copied /\ ham' = ham /\ raced' = raced
      /\ p \in Checkers => pc'[p] # "judge" /\ pc[p] # "judge"
      /\ x.copy => ~Held(p)'
      /\ ~x.copy => /\ xfer'[p].stage = "mark" /\ xfer'[p].from = x.from /\ xfer'[p].at = x.at
                    /\ ~xfer'[p].copy
  BY <1>x, <1>c, <1>l, <1>m, <1>E DEF Described
<1>2. Own' = Own /\ Blank /\ Lone /\ Zero /\ Grip(p) /\ Disjoint
  BY <1>1, SMTT(60) DEF Own, Calm
<1>3. /\ x.copy => h \in copied
      /\ h \in Own => /\ ~x.copy /\ Place(c, l, h)
                      /\ h \in ham => e.score = 0
  BY <1>1, <1>2, <1>x, <1>c, <1>l, <1>m, ZenonT(60) DEF Grip, Held, Own
<1>4. ASSUME NEW b \in Boxes, NEW k, IsPending(b, k)' PROVE IsPending(b, k)
  BY <1>1, <1>4, <1>x DEF IsPending, Apart, Held
<1>p. ASSUME NEW b \in Boxes, NEW k, IsPending(b, k) PROVE IsPending(b, k)'
  BY <1>1, <1>p, <1>x DEF IsPending, Apart, Held
<1>5. ASSUME NEW b \in Boxes, NEW k, IsNew(b, k), b # c \/ k # l PROVE IsNew(b, k)'
  BY <1>1, <1>5, <1>x, <1>c, <1>l DEF IsNew, Apart
<1>6. ASSUME NEW m \in Own', NEW b \in Boxes, NEW k, Place(b, k, m)'
      PROVE  Place(b, k, m) /\ (m \in ham' /\ ~IsNew(b, k)' => box'[b].toc[k].score = 0)
  <2>1. LiveAt(b, k, m)' /\ ~IsPending(b, k)
    BY <1>p, <1>6 DEF Place
  <2>2. CASE <<b, k>> \notin E
    <3>1. LiveAt(b, k, m) /\ box'[b].toc[k] = box[b].toc[k]
      BY <1>1, <1>2, <2>1, <2>2, SmallLive
    <3>2. Place(b, k, m)
      BY <2>1, <3>1 DEF Place
    <3>3. b # c \/ k # l
      BY <1>E, <2>2
    <3>4. m \in ham' /\ ~IsNew(b, k)' => box[b].toc[k].score = 0
      BY <1>1, <1>2, <1>5, <3>2, <3>3 DEF Zero
    <3>5. QED
      BY <3>1, <3>2, <3>4
  <2>3. CASE <<b, k>> \in E
    <3>1. b = c /\ k = l
      BY <1>E, <2>3
    <3>2. m = h
      BY <1>1, <2>1, <3>1 DEF LiveAt
    <3>3. QED
      BY <1>1, <1>2, <1>3, <3>1, <3>2
  <2>4. QED
    BY <2>2, <2>3
<1>7. Lone' /\ Zero'
  BY <1>1, <1>6, PlacesCalm
<1>8. Holds(p, c, l)
  BY <1>1, <1>x, <1>c, <1>l DEF Holds
<1>9. ASSUME NEW t \in Threads \ {p} PROVE Stays(t)
  <2>1. ASSUME NEW b \in Boxes, NEW k, Holds(t, b, k), box[b].toc[k].msg \in Own'
        PROVE  box[b].toc[k].msg \notin ham' \ ham /\ <<b, k>> \notin E
    <3>1. ~(b = c /\ k = l)
      BY <1>1, <1>2, <1>8, <2>1 DEF Disjoint
    <3>2. QED
      BY <1>1, <1>E, <3>1
  <2>2. QED
    BY <1>1, <1>4, <2>1, SmallStays
<1>10. ASSUME NEW b \in Boxes, NEW k, Holds(p, b, k)' PROVE Holds(p, b, k)
  BY <1>1, <1>10, <1>x DEF Holds, Held
<1>11. ASSUME NEW t \in Threads \ {p}, NEW b \in Boxes, NEW k, Holds(p, b, k)', Holds(t, b, k)
       PROVE  box[b].toc[k].msg \notin Own'
  <2>1. Holds(p, b, k)
    BY <1>10, <1>11
  <2>2. QED
    BY <1>2, <1>11, <2>1 DEF Disjoint
<1>12. Grip(p)' /\ Judges(p)'
  <2>1. Judges(p)'
    BY <1>1 DEF Judges
  <2>2. x.copy \in BOOLEAN
    BY <1>x, TransferFields, SMTT(60)
  <2>3. Grip(p)'
    BY <1>1, <2>2 DEF Grip
  <2>4. QED
    BY <2>1, <2>3
<1>13. (\A t \in Threads : Grip(t)' /\ Judges(t)') /\ Disjoint'
  BY <1>1, <1>9, <1>11, <1>12, ThreadsCalm
<1>14. Blank'
  BY <1>1, <1>2, SmallLive
<1>15. QED
  BY <1>7, <1>13, <1>14 DEF Calm

\* The original that is marked was pending, so that it was no place.
LEMMA MarkedCalm ==
    ASSUME TypeInv, Calm, NEW p \in Threads, NEW e, Marked(p, xfer[p], e)
    PROVE  Calm'
<1>x. PICK x : x = xfer[p]
  OBVIOUS
<1>c. PICK c : c = x.from
  OBVIOUS
<1>l. PICK l : l = x.at
  OBVIOUS
<1>E. PICK E : E = {<<c, l>>}
  OBVIOUS
<1>1. /\ x.stage = "mark" /\ c \in Boxes
      /\ Small(box', box, E) /\ box'[c].toc[l] = e /\ e.deleted
      /\ Apart(p) /\ Grows /\ copied' = copied /\ ham' = ham /\ raced' = raced
      /\ p \in Checkers => pc'[p] # "judge"
      /\ ~Held(p)'
  BY <1>x, <1>c, <1>l, <1>E DEF Marked
<1>2. Own' = Own /\ Blank /\ Zero /\ Disjoint
  BY <1>1 DEF Own, Calm
<1>3. ASSUME NEW b \in Boxes, NEW k, IsPending(b, k)' PROVE IsPending(b, k)
  BY <1>1, <1>3, <1>x DEF IsPending, Apart, Held
<1>4. ASSUME NEW b \in Boxes, NEW k, IsPending(b, k), b # c \/ k # l PROVE IsPending(b, k)'
  BY <1>1, <1>4, <1>x, <1>c, <1>l DEF IsPending, Apart
<1>5. ASSUME NEW b \in Boxes, NEW k, IsNew(b, k) PROVE IsNew(b, k)'
  BY <1>1, <1>5, <1>x DEF IsNew, Apart
<1>6. ASSUME NEW m \in Own', NEW b \in Boxes, NEW k, Place(b, k, m)'
      PROVE  Place(b, k, m) /\ (m \in ham' /\ ~IsNew(b, k)' => box'[b].toc[k].score = 0)
  <2>1. LiveAt(b, k, m)' /\ ~IsPending(b, k)'
    BY <1>6 DEF Place
  <2>2. b # c \/ k # l
    BY <1>1, <2>1 DEF LiveAt
  <2>3. <<b, k>> \notin E
    BY <1>E, <2>2
  <2>4. LiveAt(b, k, m) /\ box'[b].toc[k] = box[b].toc[k]
    BY <1>1, <1>2, <2>1, <2>3, SmallLive
  <2>5. Place(b, k, m)
    BY <1>4, <2>1, <2>2, <2>4 DEF Place
  <2>6. m \in ham' /\ ~IsNew(b, k)' => box[b].toc[k].score = 0
    BY <1>1, <1>2, <1>5, <2>5 DEF Zero
  <2>7. QED
    BY <2>4, <2>5, <2>6
<1>7. Lone' /\ Zero'
  BY <1>1, <1>6, PlacesCalm
<1>8. Holds(p, c, l)
  BY <1>1, <1>x, <1>c, <1>l DEF Holds
<1>9. ASSUME NEW t \in Threads \ {p} PROVE Stays(t)
  <2>1. ASSUME NEW b \in Boxes, NEW k, Holds(t, b, k), box[b].toc[k].msg \in Own'
        PROVE  box[b].toc[k].msg \notin ham' \ ham /\ <<b, k>> \notin E
    <3>1. ~(b = c /\ k = l)
      BY <1>1, <1>2, <1>8, <2>1, SMTT(60) DEF Disjoint
    <3>2. QED
      BY <1>1, <1>E, <3>1
  <2>2. QED
    BY <1>1, <1>3, <2>1, SmallStays
<1>10. Grip(p)' /\ Judges(p)' /\ \A b, k : ~Holds(p, b, k)'
  BY <1>1 DEF Grip, Judges, Holds, Held
<1>11. (\A t \in Threads : Grip(t)' /\ Judges(t)') /\ Disjoint'
  BY <1>1, <1>9, <1>10, ThreadsCalm
<1>12. Blank'
  BY <1>1, <1>2, SmallLive
<1>13. QED
  BY <1>7, <1>11, <1>12 DEF Calm

\* Mail is where a check has brought it, or somebody has filed it since.
Known == (\A x \in Boxes : \A j \in DOMAIN box[x].file : box[x].file[j] \in arrived) /\ ham \subseteq arrived

LEMMA KnownPlace ==
    ASSUME TypeInv, Known, NEW x \in Boxes, box[x].open, NEW j \in DOMAIN box[x].toc
    PROVE  box[x].toc[j].msg \in arrived
<1>1. Sound(box[x])
  BY DEF TypeInv, AllSound
<1>2. j \in DOMAIN box[x].file /\ box[x].toc[j].msg = box[x].file[j]
  BY <1>1 DEF Sound, Covers, Box
<1>3. QED
  BY <1>2 DEF Known

\* What a check brings is new, so that it has one place.
LEMMA ReceiveCalm ==
    ASSUME TypeInv, Known, Calm, NEW q \in Checkers, NEW ms \in SUBSET Msgs, Receive(q, ms)
    PROVE  Calm'
<1>1. PICK new \in SetToSeqs(ms) : \E t : Brings(new, t)
  BY ReceiveTypes
<1>2. PICK t : Brings(new, t)
  BY <1>1
<1>l. PICK l : l = Len(box["In"].file)
  OBVIOUS
<1>y. PICK y : y = Written(t)
  OBVIOUS
<1>3. /\ AllSound(box) /\ IsFiniteSet(ms) /\ "In" \in Boxes /\ ms \cap arrived = {} /\ q \in Threads
      /\ t = Received(new) /\ box'["In"] = y /\ \A x \in Boxes \ {"In"} : box'[x] = box[x]
      /\ Apart(q) /\ xfer' = xfer /\ Free(q) /\ pc'[q] # "judge" /\ Grows
      /\ copied' = copied /\ ham' = ham /\ raced' = raced
  BY <1>2, <1>y, ReceiveTypes, BoxNames DEF Brings, TypeInv, Threads
<1>4. /\ t \in Seq(Entry)
      /\ \A k \in DOMAIN t \ DOMAIN box["In"].file : k - l \in DOMAIN new /\ t[k] = Unread(new[k - l])
      /\ \A k \in DOMAIN box["In"].file : k \in DOMAIN t /\ t[k] = Table("In")[k]
      /\ \A n \in DOMAIN new : new[n] \in ms
      /\ \A n, o \in DOMAIN new : new[n] = new[o] => n = o
  BY <1>3, <1>l, ReceivedTable
<1>5. y.open /\ y.toc = t
  BY <1>y DEF Written
<1>6. Own' = Own /\ Blank /\ Lone /\ Zero /\ Disjoint
  BY <1>3 DEF Own, Calm
<1>7. \A b, k : (IsPending(b, k)' <=> IsPending(b, k)) /\ (IsNew(b, k)' <=> IsNew(b, k))
  BY <1>3 DEF IsPending, IsNew
<1>8. ASSUME NEW x \in Boxes, NEW j, box[x].open, j \in DOMAIN box[x].toc
      PROVE  box'[x].open /\ j \in DOMAIN box'[x].toc /\ box'[x].toc[j] = box[x].toc[j]
  <2>1. CASE x = "In"
    <3>1. Table("In") = box["In"].toc /\ DOMAIN box["In"].toc = DOMAIN box["In"].file
      BY <1>3, <1>8, <2>1, TableCovers
    <3>2. QED
      BY <1>3, <1>4, <1>5, <1>8, <2>1, <3>1
  <2>2. CASE x # "In"
    <3>1. box'[x] = box[x]
      BY <1>3, <2>2
    <3>2. QED
      BY <1>8, <3>1
  <2>3. QED
    BY <2>1, <2>2
<1> DEFINE New(x, j, m) == /\ x = "In" /\ j \in Int /\ j - l \in DOMAIN new
                           /\ new[j - l] = m /\ m \in ms
<1>9. ASSUME NEW x \in Boxes, NEW j, NEW m, LiveAt(x, j, m)'
      PROVE  New(x, j, m) \/ (LiveAt(x, j, m) /\ box'[x].toc[j] = box[x].toc[j])
  <2>1. CASE x # "In"
    <3>1. box'[x] = box[x]
      BY <1>3, <2>1
    <3>2. QED
      BY <1>9, <3>1 DEF LiveAt
  <2>2. CASE x = "In" /\ j \notin DOMAIN box["In"].file
    <3>1. j \in DOMAIN t /\ t[j].msg = m
      BY <1>3, <1>5, <1>9, <2>2 DEF LiveAt
    <3>2. j - l \in DOMAIN new /\ t[j] = Unread(new[j - l]) /\ j \in Int
      BY <1>4, <2>2, <3>1
    <3>3. new[j - l] = m
      BY <3>1, <3>2 DEF Unread
    <3>4. QED
      BY <1>4, <2>2, <3>2, <3>3
  <2>3. CASE x = "In" /\ j \in DOMAIN box["In"].file
    <3>1. box["In"].open
      <4>1. box["In"].file # <<>>
        BY <2>3
      <4>2. QED
        BY <1>3, <1>6, <4>1 DEF Blank
    <3>2. j \in DOMAIN box["In"].toc
      BY <1>3, <2>3, <3>1, TableCovers
    <3>3. box'["In"].toc[j] = box["In"].toc[j]
      BY <1>3, <1>8, <3>1, <3>2
    <3>4. QED
      BY <1>9, <2>3, <3>1, <3>2, <3>3 DEF LiveAt
  <2>4. QED
    BY <2>1, <2>2, <2>3
<1>10. ASSUME NEW x \in Boxes, NEW j, NEW m, LiveAt(x, j, m) PROVE m \notin ms
  BY <1>3, <1>10, KnownPlace DEF LiveAt
<1>11. l \in Nat
  BY <1>3, <1>l DEF AllSound, Sound, Box
<1> HIDE DEF New
<1>12. Lone'
  <2>1. ASSUME NEW m \in Own, NEW a \in Boxes, NEW b \in Boxes, NEW k, NEW j, Place(a, k, m)', Place(b, j, m)'
        PROVE  a = b /\ k = j
    <3>0. LiveAt(a, k, m)' /\ LiveAt(b, j, m)' /\ ~IsPending(a, k) /\ ~IsPending(b, j)
      BY <1>7, <2>1 DEF Place
    <3>1. CASE m \in ms
      <4>1. New(a, k, m) /\ New(b, j, m)
        BY <1>9, <1>10, <3>0, <3>1
      <4>2. k - l = j - l /\ k \in Int /\ j \in Int
        BY <1>4, <4>1 DEF New
      <4>3. QED
        BY <1>11, <4>1, <4>2 DEF New
    <3>2. CASE m \notin ms
      <4>1. Place(a, k, m) /\ Place(b, j, m)
        BY <1>9, <3>0, <3>2 DEF New, Place
      <4>2. QED
        BY <1>6, <4>1 DEF Lone
    <3>3. QED
      BY <3>1, <3>2
  <2>2. QED
    BY <1>6, <2>1 DEF Lone
<1>13. Zero'
  <2>1. ASSUME NEW m \in Own \cap ham, NEW x \in Boxes, NEW j, Place(x, j, m)', ~IsNew(x, j)'
        PROVE  box'[x].toc[j].score = 0
    <3>1. m \notin ms /\ LiveAt(x, j, m)' /\ ~IsPending(x, j) /\ ~IsNew(x, j)
      BY <1>3, <1>7, <2>1 DEF Known, Place
    <3>2. LiveAt(x, j, m) /\ box'[x].toc[j] = box[x].toc[j]
      BY <1>9, <3>1 DEF New
    <3>3. Place(x, j, m)
      BY <3>1, <3>2 DEF Place
    <3>4. QED
      BY <1>6, <2>1, <3>1, <3>2, <3>3 DEF Zero
  <2>2. QED
    BY <1>3, <1>6, <2>1 DEF Zero
<1>14. ASSUME NEW u \in Threads \ {q} PROVE Stays(u)
  <2>1. ASSUME NEW b \in Boxes, NEW k, Holds(u, b, k)
        PROVE  box'[b].open /\ k \in DOMAIN box'[b].toc /\ box'[b].toc[k] = box[b].toc[k]
    <3>1. box[b].open /\ k \in DOMAIN box[b].toc
      BY <2>1, HoldsPlace
    <3>2. QED
      BY <1>8, <3>1
  <2>2. QED
    BY <1>3, <1>7, <2>1 DEF Stays, Apart
<1>15. Grip(q)' /\ Judges(q)' /\ \A b, k : ~Holds(q, b, k)'
  BY <1>3 DEF Grip, Judges, Holds, Held, Free
<1>16. (\A u \in Threads : Grip(u)' /\ Judges(u)') /\ Disjoint'
  BY <1>3, <1>14, <1>15, ThreadsCalm
<1>17. Blank'
  BY <1>3, <1>5, <1>6 DEF Blank
<1>18. QED
  BY <1>12, <1>13, <1>16, <1>17 DEF Calm

\* A compaction brings no two summaries together, and changes none; no thread
\* has anything in hand there.
LEMMA CompactCalm ==
    ASSUME TypeInv, Calm, NEW b \in Boxes, Compact(b)
    PROVE  Calm'
<1>K. PICK K : K = {k \in DOMAIN box[b].toc : ~box[b].toc[k].deleted}
  OBVIOUS
<1>1. PICK t : Leaves(b, t)
  BY CompactTypes
<1>y. PICK y : y = Written(t)
  OBVIOUS
<1>2. /\ AllSound(box) /\ box[b].open /\ ~Busy(b) /\ xfer' = xfer /\ UNCHANGED check /\ Grows
      /\ copied' = copied /\ ham' = ham /\ raced' = raced
      /\ box'[b] = y /\ \A x \in Boxes \ {b} : box'[x] = box[x]
      /\ t = Kept(box[b].toc, {k \in DOMAIN box[b].toc : ~box[b].toc[k].deleted})
  BY <1>1, <1>y, CompactTypes DEF Leaves, TypeInv
<1>3. PICK f : t \in Seq(Entry) /\ Places(f, t, box[b].toc, K)
  BY <1>2, <1>K, CompactedTable
<1>4. y.open /\ y.toc = t
  BY <1>y DEF Written
<1>5. Own' = Own /\ Blank /\ Lone /\ Zero /\ Disjoint
  BY <1>2 DEF Own, Calm
<1>6. \A x, k : (IsPending(x, k)' <=> IsPending(x, k)) /\ (IsNew(x, k)' <=> IsNew(x, k))
  BY <1>2 DEF IsPending, IsNew
<1>7. \A k : ~IsPending(b, k) /\ ~IsNew(b, k)
  BY <1>2 DEF IsPending, IsNew, Busy, Free
<1> DEFINE From(x, j) == IF x = b THEN f[j] ELSE j
<1>8. ASSUME NEW x \in Boxes, NEW j, NEW m, Place(x, j, m)'
      PROVE  Place(x, From(x, j), m) /\ box'[x].toc[j] = box[x].toc[From(x, j)]
  <2>1. LiveAt(x, j, m)' /\ ~IsPending(x, j)
    BY <1>6, <1>8 DEF Place
  <2>2. CASE x # b
    <3>1. box'[x] = box[x]
      BY <1>2, <2>2
    <3>2. QED
      BY <2>1, <2>2, <3>1 DEF LiveAt, Place
  <2>3. CASE x = b
    <3>1. j \in DOMAIN t /\ t[j].msg = m /\ box'[b].toc = t
      BY <1>2, <1>4, <2>1, <2>3 DEF LiveAt
    <3>2. f[j] \in K /\ t[j] = box[b].toc[f[j]]
      BY <1>3, <3>1 DEF Places
    <3>3. QED
      BY <1>2, <1>7, <1>K, <2>3, <3>1, <3>2 DEF LiveAt, Place
  <2>4. QED
    BY <2>2, <2>3
<1>9. \A a, c \in DOMAIN t : f[a] = f[c] => a = c
  <2>1. \A a \in DOMAIN t : a \in Int /\ f[a] \in Int
    <3>1. DOMAIN box[b].toc \subseteq Int
      BY <1>2 DEF AllSound, Sound, Box
    <3>2. QED
      BY <1>3, <1>K, <3>1 DEF Places
  <2>2. \A a, c \in DOMAIN t : a < c => f[a] < f[c]
    BY <1>3 DEF Places
  <2>3. QED
    BY <2>1, <2>2
<1>10. Lone'
  <2>1. ASSUME NEW m \in Own, NEW a \in Boxes, NEW c \in Boxes, NEW k, NEW j, Place(a, k, m)', Place(c, j, m)'
        PROVE  a = c /\ k = j
    <3>1. Place(a, From(a, k), m) /\ Place(c, From(c, j), m)
      BY <1>8, <2>1
    <3>2. a = c /\ From(a, k) = From(c, j)
      BY <1>5, <2>1, <3>1 DEF Lone
    <3>3. CASE a = b
      <4>1. k \in DOMAIN t /\ j \in DOMAIN t
        BY <1>2, <1>4, <2>1, <3>2, <3>3 DEF LiveAt, Place
      <4>2. QED
        BY <1>9, <3>2, <3>3, <4>1
    <3>4. CASE a # b
      BY <3>2, <3>4
    <3>5. QED
      BY <3>3, <3>4
  <2>2. QED
    BY <1>5, <2>1 DEF Lone
<1>11. Zero'
  <2>1. ASSUME NEW m \in Own \cap ham, NEW x \in Boxes, NEW j, Place(x, j, m)', ~IsNew(x, j)'
        PROVE  box'[x].toc[j].score = 0
    <3>1. Place(x, From(x, j), m) /\ box'[x].toc[j] = box[x].toc[From(x, j)]
      BY <1>8, <2>1
    <3>2. ~IsNew(x, From(x, j))
      BY <1>6, <1>7, <2>1
    <3>3. QED
      BY <1>5, <2>1, <3>1, <3>2 DEF Zero
  <2>2. QED
    BY <1>2, <1>5, <2>1 DEF Zero
<1>12. ASSUME NEW u \in Threads PROVE Stays(u)
  <2>1. ASSUME NEW x \in Boxes, NEW k, Holds(u, x, k)
        PROVE  box'[x].open /\ k \in DOMAIN box'[x].toc /\ box'[x].toc[k] = box[x].toc[k]
    <3>1. box[x].open /\ k \in DOMAIN box[x].toc
      BY <2>1, HoldsPlace
    <3>2. x # b
      BY <1>2, <2>1 DEF Holds, Busy, Free
    <3>3. box'[x] = box[x]
      BY <1>2, <3>2
    <3>4. QED
      BY <3>1, <3>3
  <2>2. pc' = pc /\ i' = i
    BY <1>2 DEF check
  <2>3. QED
    BY <1>2, <1>6, <2>1, <2>2 DEF Stays
<1>13. Grip("main")' /\ Judges("main")' /\ "main" \in Threads
  BY <1>2, <1>12, BoxNames, StaysGrip
<1>14. ASSUME NEW u \in Threads \ {"main"}, NEW x \in Boxes, NEW k, Holds("main", x, k)', Holds(u, x, k)
       PROVE  box[x].toc[k].msg \notin Own'
  <2>1. Holds("main", x, k)
    BY <1>12, <1>13, <1>14, StaysHolds
  <2>2. QED
    BY <1>5, <1>13, <1>14, <2>1 DEF Disjoint
<1>15. (\A u \in Threads : Grip(u)' /\ Judges(u)') /\ Disjoint'
  BY <1>2, <1>12, <1>13, <1>14, ThreadsCalm
<1>16. Blank'
  BY <1>2, <1>4, <1>5 DEF Blank
<1>17. QED
  BY <1>10, <1>11, <1>15, <1>16 DEF Calm

\* Only a check brings mail.
LEMMA StepKnown ==
    ASSUME TypeInv, Known, [Next]_vars
    PROVE  Known'
<1>1. ASSUME \A x \in Boxes : box'[x].file = box[x].file, arrived' = arrived, ham' \subseteq arrived PROVE Known'
  BY <1>1 DEF Known
<1>2. ASSUME NEW p \in Threads, Rests(p) PROVE Known'
  BY <1>1, <1>2 DEF Rests, Small, Known
<1>3. ASSUME NEW p \in Threads, NEW b \in Boxes, NEW k, Touches(p, b, k) PROVE Known'
  <2>1. /\ box[b].open /\ k \in DOMAIN box[b].toc /\ arrived' = arrived
        /\ ham' \subseteq ham \cup {box[b].toc[k].msg}
        /\ \A x \in Boxes : box'[x].file = box[x].file
    BY <1>3 DEF Touches, Small
  <2>2. box[b].toc[k].msg \in arrived
    BY <2>1, KnownPlace
  <2>3. ham' \subseteq arrived
    BY <2>1, <2>2 DEF Known
  <2>4. QED
    BY <1>1, <2>1, <2>3
<1>4. ASSUME NEW p \in Threads, Appends(p) PROVE Known'
  <2>x. PICK x : x = xfer[p]
    OBVIOUS
  <2>c. PICK c : c = x.to
    OBVIOUS
  <2>m. PICK h : h = box[x.from].toc[x.at].msg
    OBVIOUS
  <2>1. /\ Extends(p, c, h) /\ h \in Msgs /\ c \in Boxes /\ x.from \in Boxes /\ box[x.from].open
        /\ x.at \in DOMAIN box[x.from].toc /\ arrived' = arrived /\ ham' = ham
    BY <1>4, <2>x, <2>c, <2>m, AppendsExtends
  <2>2. h \in arrived
    BY <2>1, <2>m, KnownPlace
  <2>s. PICK s : s = box[c].file
    OBVIOUS
  <2>3. s \in Seq(Msgs)
    BY <2>1, <2>s DEF TypeInv, AllSound, Sound, Box
  <2>t. PICK t : t = Append(s, h)
    OBVIOUS
  <2>4. DOMAIN t = DOMAIN s \cup {Len(s) + 1} /\ t[Len(s) + 1] = h /\ \A j \in DOMAIN s : t[j] = s[j]
    BY <2>1, <2>3, <2>t, AppendedSeq
  <2>5. box'[c].file = t /\ \A z \in Boxes \ {c} : box'[z] = box[z]
    BY <2>1, <2>s, <2>t DEF Extends
  <2>6. ASSUME NEW z \in Boxes, NEW j \in DOMAIN box'[z].file PROVE box'[z].file[j] \in arrived
    <3>1. CASE z = c
      <4>1. \A n \in DOMAIN s : s[n] \in arrived
        BY <2>1, <2>s DEF Known
      <4>2. j \in DOMAIN t /\ box'[z].file[j] = t[j]
        BY <2>5, <2>6, <3>1
      <4>3. QED
        BY <2>2, <2>4, <4>1, <4>2
    <3>2. CASE z # c
      BY <2>5, <2>6, <3>2, SMTT(60) DEF Known
    <3>3. QED
      BY <3>1, <3>2
  <2>7. QED
    BY <2>1, <2>6 DEF Known
<1>5. ASSUME NEW p \in Threads, NEW e, Described(p, xfer[p], e) PROVE Known'
  BY <1>1, <1>5 DEF Described, Small, Known
<1>6. ASSUME NEW p \in Threads, NEW e, Marked(p, xfer[p], e) PROVE Known'
  BY <1>1, <1>6 DEF Marked, Small, Known
<1>7. ASSUME NEW t \in Seq(Entry), NEW b \in Boxes, box'[b] = Written(t), \A x \in Boxes \ {b} : box'[x] = box[x],
             arrived \subseteq arrived', ham' = ham, \A k \in DOMAIN t : t[k].msg \in arrived'
      PROVE  Known'
  <2>1. box'[b].file = Mail(t)
    <3>y. PICK y : y = Written(t)
      OBVIOUS
    <3>1. y.file = Mail(t)
      BY <3>y DEF Written
    <3>2. QED
      BY <1>7, <3>y, <3>1
  <2>2. ASSUME NEW z \in Boxes, NEW j \in DOMAIN box'[z].file PROVE box'[z].file[j] \in arrived'
    <3>1. CASE z = b
      BY <1>7, <2>1, <2>2, <3>1 DEF Mail
    <3>2. CASE z # b
      BY <1>7, <2>2, <3>2 DEF Known
    <3>3. QED
      BY <3>1, <3>2
  <2>3. QED
    BY <1>7, <2>2 DEF Known
<1>8. ASSUME NEW q \in Checkers, NEW ms \in SUBSET Msgs, Receive(q, ms) PROVE Known'
  <2>1. PICK new \in SetToSeqs(ms) : \E t : Brings(new, t)
    BY <1>8, ReceiveTypes
  <2>2. PICK t : Brings(new, t)
    BY <2>1
  <2>l. PICK l : l = Len(box["In"].file)
    OBVIOUS
  <2>3. /\ AllSound(box) /\ IsFiniteSet(ms) /\ "In" \in Boxes /\ arrived' = arrived \cup ms /\ ham' = ham
        /\ t = Received(new) /\ box'["In"] = Written(t) /\ \A x \in Boxes \ {"In"} : box'[x] = box[x]
    BY <1>8, <2>2, ReceiveTypes, BoxNames DEF Brings, TypeInv
  <2>4. /\ t \in Seq(Entry)
        /\ \A k \in DOMAIN t \ DOMAIN box["In"].file : k - l \in DOMAIN new /\ t[k] = Unread(new[k - l])
        /\ \A k \in DOMAIN box["In"].file : k \in DOMAIN t /\ t[k] = Table("In")[k]
        /\ \A n \in DOMAIN new : new[n] \in ms
    BY <2>3, <2>l, ReceivedTable
  <2>5. ASSUME NEW k \in DOMAIN t PROVE t[k].msg \in arrived'
    <3>1. CASE k \in DOMAIN box["In"].file
      <4>1. t[k].msg = box["In"].file[k]
        BY <2>3, <2>4, <3>1, TableCovers
      <4>2. QED
        BY <2>3, <3>1, <4>1 DEF Known
    <3>2. CASE k \notin DOMAIN box["In"].file
      <4>1. k - l \in DOMAIN new /\ t[k] = Unread(new[k - l])
        BY <2>4, <3>2
      <4>2. t[k].msg \in ms
        BY <2>4, <4>1 DEF Unread
      <4>3. QED
        BY <2>3, <4>2
    <3>3. QED
      BY <3>1, <3>2
  <2>6. QED
    BY <1>7, <2>3, <2>4, <2>5
<1>9. ASSUME NEW b \in Boxes, Compact(b) PROVE Known'
  <2>K. PICK K : K = {k \in DOMAIN box[b].toc : ~box[b].toc[k].deleted}
    OBVIOUS
  <2>1. PICK t : Leaves(b, t)
    BY <1>9, CompactTypes
  <2>2. /\ AllSound(box) /\ box[b].open /\ arrived' = arrived /\ ham' = ham /\ t \in Seq(Entry)
        /\ box'[b] = Written(t) /\ \A x \in Boxes \ {b} : box'[x] = box[x]
        /\ t = Kept(box[b].toc, {k \in DOMAIN box[b].toc : ~box[b].toc[k].deleted})
    BY <1>9, <2>1, CompactTypes DEF Leaves, TypeInv
  <2>3. PICK f : Places(f, t, box[b].toc, K)
    BY <2>2, <2>K, CompactedTable
  <2>4. ASSUME NEW k \in DOMAIN t PROVE t[k].msg \in arrived
    <3>1. f[k] \in DOMAIN box[b].toc /\ t[k] = box[b].toc[f[k]]
      BY <2>3, <2>K DEF Places
    <3>2. QED
      BY <2>2, <3>1, KnownPlace
  <2>5. QED
    BY <1>7, <2>2, <2>4
<1>10. ASSUME Crash PROVE Known'
  BY <1>1, <1>10, CrashTypes DEF Known
<1>11. ASSUME UNCHANGED vars PROVE Known'
  BY <1>1, <1>11 DEF vars, hist, Known
<1>12. QED
  BY <1>2, <1>3, <1>4, <1>5, <1>6, <1>8, <1>9, <1>10, <1>11, Steps

LEMMA StutterCalm ==
    ASSUME Calm, UNCHANGED vars
    PROVE  Calm'
<1>1. /\ box' = box /\ xfer' = xfer /\ pc' = pc /\ i' = i
      /\ copied' = copied /\ ham' = ham /\ raced' = raced
  BY DEF vars, check, hist
<1>2. Own' = Own
  BY <1>1 DEF Own
<1>3. \A b, k : (IsPending(b, k)' <=> IsPending(b, k)) /\ (IsNew(b, k)' <=> IsNew(b, k))
  BY <1>1 DEF IsPending, IsNew
<1>4. \A b, k, m : Place(b, k, m)' <=> Place(b, k, m)
  BY <1>1, <1>3 DEF Place, LiveAt
<1>5. \A p, b, k : Holds(p, b, k)' <=> Holds(p, b, k)
  BY <1>1 DEF Holds
<1>6. Blank' /\ Lone'
  BY <1>1, <1>2, <1>4 DEF Calm, Blank, Lone
<1>7. Zero'
  <2>1. Zero
    BY DEF Calm
  <2>2. QED
    BY <1>1, <1>2, <1>3, <1>4, <2>1 DEF Zero
<1>8. ASSUME NEW p \in Threads PROVE Grip(p)' /\ Judges(p)'
  <2>1. Grip(p) /\ Judges(p)
    BY SMTT(60) DEF Calm
  <2>2. Grip(p)'
    BY <1>1, <1>2, <1>4, <2>1 DEF Grip, Held
  <2>n. PICK n : n = i[p]
    OBVIOUS
  <2>3. Judges(p)'
    BY <1>1, <1>2, <1>4, <2>1 DEF Judges
  <2>4. QED
    BY <2>2, <2>3
<1>9. Disjoint'
  <2>1. Disjoint
    BY DEF Calm
  <2>2. QED
    BY <1>1, <1>2, <1>5, <2>1 DEF Disjoint
<1>10. QED
  BY <1>6, <1>7, <1>8, <1>9 DEF Calm

Orderly == Known /\ (crashes = 0 => Calm)

LEMMA StepCalm ==
    ASSUME TypeInv, Orderly, [Next]_vars, crashes' = 0
    PROVE  Calm'
<1>1. ASSUME Crash PROVE FALSE
  BY <1>1, CrashTypes
<1>2. ASSUME Grows PROVE Calm
  BY <1>2 DEF Grows, Orderly
<1>3. Known
  BY DEF Orderly
<1>4. ASSUME NEW p \in Threads, Rests(p) PROVE Calm'
  BY <1>2, <1>4, RestsCalm, SMTT(60) DEF Rests
<1>5. ASSUME NEW p \in Threads, NEW b \in Boxes, NEW k, Touches(p, b, k) PROVE Calm'
  BY <1>2, <1>5, TouchesCalm DEF Touches
<1>6. ASSUME NEW p \in Threads, Appends(p) PROVE Calm'
  <2>1. Grows
    BY <1>6, AppendsExtends, SMTT(60)
  <2>2. QED
    BY <1>2, <1>6, <2>1, AppendsCalm
<1>7. ASSUME NEW p \in Threads, NEW e, Described(p, xfer[p], e) PROVE Calm'
  BY <1>2, <1>7, DescribedCalm, ZenonT(60) DEF Described
<1>8. ASSUME NEW p \in Threads, NEW e, Marked(p, xfer[p], e) PROVE Calm'
  BY <1>2, <1>8, MarkedCalm, ZenonT(60) DEF Marked
<1>9. ASSUME NEW q \in Checkers, NEW ms \in SUBSET Msgs, Receive(q, ms) PROVE Calm'
  BY <1>2, <1>3, <1>9, ReceiveTypes, ReceiveCalm
<1>10. ASSUME NEW b \in Boxes, Compact(b) PROVE Calm'
  BY <1>2, <1>10, CompactTypes, CompactCalm
<1>11. ASSUME UNCHANGED vars PROVE Calm'
  BY <1>2, <1>11, StutterCalm DEF vars, Orderly
<1>12. QED
  BY <1>1, <1>4, <1>5, <1>6, <1>7, <1>8, <1>9, <1>10, <1>11, Steps

LEMMA OrderlyInvariant == Spec => []Orderly
<1>1. Init => Orderly
  <2>1. NoTransfer.stage = "none"
    BY DEF NoTransfer
  <2>2. QED
    BY <2>1 DEF Init, Orderly, Known, Calm, Blank, Lone, Zero, Grip, Judges, Disjoint, Own, Place, LiveAt, Held, Holds
<1>2. TypeInv /\ Orderly /\ [Next]_vars => Orderly'
  BY StepKnown, StepCalm DEF Orderly
<1>3. QED
  BY <1>1, <1>2, TypeInvariant, PTL DEF Spec

\* Until a crash, what is found of a message in the tables is in memory.
LEMMA CopiesPlace ==
    ASSUME TypeInv, Calm, NEW m \in Own, NEW b \in Boxes, NEW k \in Live(Table(b), m), <<b, k>> \notin Pending
    PROVE  Place(b, k, m)
<1>1. AllSound(box) /\ Blank
  BY DEF TypeInv, Calm
<1>2. k \in DOMAIN Table(b) /\ Table(b)[k].msg = m /\ ~Table(b)[k].deleted
  BY DEF Live
<1>3. box[b].open
  <2>1. k \in DOMAIN box[b].file
    BY <1>1, <1>2, TableCovers
  <2>2. box[b].file # <<>>
    BY <2>1
  <2>3. QED
    BY <1>1, <2>2 DEF Blank
<1>4. Table(b) = box[b].toc
  BY <1>1, <1>3, TableCovers
<1>5. LiveAt(b, k, m)
  BY <1>2, <1>3, <1>4 DEF LiveAt
<1>6. ASSUME NEW p \in Threads, xfer[p].stage = "mark", xfer[p].from = b, xfer[p].at = k PROVE FALSE
  <2>1. CASE xfer[p].copy
    <3>1. Grip(p) /\ Held(p)
      BY <1>6 DEF Calm, Held
    <3>2. box[b].toc[k].msg \in copied
      BY <1>6, <2>1, <3>1 DEF Grip
    <3>3. QED
      BY <1>5, <3>2 DEF LiveAt, Own
  <2>2. CASE ~xfer[p].copy
    BY <1>6, <2>2 DEF Pending
  <2>3. QED
    BY <2>1, <2>2
<1>7. ~IsPending(b, k)
  BY <1>6 DEF IsPending, Pending
<1>8. QED
  BY <1>5, <1>7 DEF Place

LEMMA LoneCopy ==
    ASSUME TypeInv, Calm, NEW m \in Own
    PROVE  Cardinality(Copies(m) \ Pending) <= 1
<1>S. PICK S : S = Copies(m) \ Pending
  OBVIOUS
<1>1. \A x \in S : \E b \in Boxes : \E k \in Live(Table(b), m) : x = <<b, k>>
  BY <1>S DEF Copies
<1>2. ASSUME NEW x \in S, NEW y \in S PROVE x = y
  <2>1. PICK b, k : b \in Boxes /\ k \in Live(Table(b), m) /\ x = <<b, k>>
    BY <1>1
  <2>2. PICK c, j : c \in Boxes /\ j \in Live(Table(c), m) /\ y = <<c, j>>
    BY <1>1
  <2>3. Place(b, k, m)
    BY <1>S, <2>1, CopiesPlace
  <2>4. Place(c, j, m)
    BY <1>S, <2>2, CopiesPlace
  <2>5. b = c /\ k = j
    BY <2>1, <2>2, <2>3, <2>4 DEF Calm, Lone
  <2>6. QED
    BY <2>1, <2>2, <2>5
<1>3. CASE S = {}
  <2>1. Cardinality(S) = 0
    BY <1>3, FS_EmptySet
  <2>2. QED
    BY <1>S, <2>1
<1>4. CASE S # {}
  <2>1. PICK x : x \in S
    BY <1>4
  <2>2. S = {x}
    BY <1>2, <2>1
  <2>3. Cardinality(S) = 1
    BY <2>2, FS_Singleton
  <2>4. QED
    BY <1>S, <2>3
<1>5. QED
  BY <1>3, <1>4

\* Until a crash, a message that no rule has copied, and that no two threads
\* had in hand at once, is in one mailbox only, once, but for the original of a
\* move that is not at its end: however often filters, scorer and user have
\* moved it, and whatever steps the threads take in between.
THEOREM NoSecondCopy == Spec => []OneCopy
<1>1. TypeInv /\ Orderly => OneCopy
  <2> SUFFICES ASSUME TypeInv, Orderly, crashes = 0, NEW m \in arrived \ (copied \cup raced)
               PROVE  Cardinality(Copies(m) \ Pending) <= 1
    BY DEF OneCopy
  <2>1. Calm
    BY DEF Orderly
  <2>2. m \in Own
    BY DEF TypeInv, History, Own
  <2>3. QED
    BY <2>1, <2>2, LoneCopy
<1>2. QED
  BY <1>1, OrderlyInvariant, TypeInvariant, PTL

\* The message that a check is about to move to Junk.
LEMMA SpamScore ==
    ASSUME TypeInv, crashes = 0, Calm, NEW q \in Checkers, MoveSpam(q),
           NEW m, m = in[i[q]].msg, m \in Own'
    PROVE  m \notin ham
<1>k. PICK k : k = i[q]
  OBVIOUS
<1>1. q \in Threads /\ "In" \in Boxes
  BY BoxNames DEF Threads
<1>2. Touches(q, "In", k) /\ m = box["In"].toc[k].msg /\ m \in Own'
  BY <1>k, MoveTouches DEF in
<1>3. ~IsPending("In", k) /\ ~IsNew("In", k)
  BY <1>1, <1>2, TouchedFree
<1>4. /\ box["In"].open /\ k \in DOMAIN box["In"].toc /\ m \in Own
  BY <1>2, GrowsOwn DEF Touches
<1>5. ~box["In"].toc[k].deleted /\ box["In"].toc[k].score >= Threshold
  BY <1>k DEF MoveSpam, IsSpam, in
<1>6. Place("In", k, m)
  BY <1>2, <1>3, <1>4, <1>5 DEF Place, LiveAt
<1>7. ASSUME m \in ham PROVE box["In"].toc[k].score = 0
  BY <1>1, <1>3, <1>4, <1>6, <1>7 DEF Calm, Zero
<1>8. Threshold \in 1 .. 100
  BY VerdictAssumption
<1>9. QED
  BY <1>5, <1>7, <1>8

\* What the user has declared not to be junk is not moved to Junk by a check,
\* whatever the scorer says of it and wherever it has been in between, unless
\* a crash or a copying rule has made a copy without the score, or two threads
\* had it in hand at once.
THEOREM HamIsLeft == Spec => HamStays
<1> DEFINE Spares(q) == MoveSpam(q) =>
              LET m == in[i[q]].msg IN m \in ham => crashes > 0 \/ m \in copied \cup raced'
<1>1. TypeInv /\ Orderly => \A q \in Checkers : Spares(q)
  <2> SUFFICES ASSUME TypeInv, Orderly, NEW q \in Checkers, MoveSpam(q), in[i[q]].msg \in ham,
                      ~(crashes > 0), in[i[q]].msg \notin copied \cup raced'
               PROVE  FALSE
    OBVIOUS
  <2>m. PICK m : m = in[i[q]].msg
    OBVIOUS
  <2>1. crashes = 0
    BY DEF TypeInv, Counts
  <2>2. Calm
    BY <2>1 DEF Orderly
  <2>3. m \in Own'
    BY <2>m DEF TypeInv, History, Own, MoveSpam
  <2>4. QED
    BY <2>1, <2>2, <2>3, <2>m, SpamScore
<1>2. QED
  BY <1>1, OrderlyInvariant, TypeInvariant, PTL DEF Spec, HamStays
=============================================================================
