---------------------------- MODULE Store_proofs ----------------------------
(***************************************************************************)
(* Proofs about Store, for any names, folders and messages and any bounds. *)
(***************************************************************************)
EXTENDS Store, SequenceTheorems, FiniteSetTheorems, TLAPS

-----------------------------------------------------------------------------
(* What is kept of a sequence                                              *)

\* The numbers of a finite set have the ranks 1, 2, 3 ... in their order.
LEMMA Ranks ==
    ASSUME NEW K, K \subseteq Nat, IsFiniteSet(K), NEW n, n = Cardinality(K)
    PROVE  /\ n \in Nat
           /\ \A k \in K : Rank(k, K) \in 1 .. n
           /\ \A a, b \in K : a < b => Rank(a, K) < Rank(b, K)
           /\ \A x \in 1 .. n : \E k \in K : Rank(k, K) = x
<1> DEFINE R(k) == Rank(k, K)
           g    == [k \in K |-> R(k)]
<1>1. n \in Nat
  BY FS_CardinalityType
<1>2. \A k \in K : R(k) \in 1 .. n
  <2> SUFFICES ASSUME NEW k \in K PROVE R(k) \in 1 .. n
    OBVIOUS
  <2> DEFINE S == {j \in K : j <= k}
  <2>1. S \subseteq K /\ k \in S
    OBVIOUS
  <2>2. IsFiniteSet(S) /\ Cardinality(S) <= n /\ Cardinality(S) \in Nat
    BY <2>1, FS_Subset, FS_CardinalityType
  <2>3. Cardinality(S) # 0
    BY <2>1, <2>2, FS_EmptySet
  <2>4. QED
    BY <1>1, <2>2, <2>3 DEF Rank
<1>3. \A a, b \in K : a < b => R(a) < R(b)
  <2> SUFFICES ASSUME NEW a \in K, NEW b \in K, a < b PROVE R(a) < R(b)
    OBVIOUS
  <2> DEFINE S == {j \in K : j <= a}
             T == {j \in K : j <= b}
  <2>1. IsFiniteSet(T)
    BY FS_Subset
  <2>0. a \in Nat /\ b \in Nat /\ \A j \in K : j \in Nat
    OBVIOUS
  <2>2. S \subseteq T
    <3>1. \A x \in K : x <= a => x <= b
      BY <2>0
    <3>2. QED
      BY <3>1
  <2>3. b \in T /\ b \notin S
    BY <2>0
  <2>4. QED
    BY <2>1, <2>2, <2>3, FS_Subset, FS_CardinalityType DEF Rank
<1> HIDE DEF R
<1>4. \A a, b \in K : R(a) = R(b) => a = b
  BY <1>2, <1>3
<1>5. g \in Injection(K, 1 .. n)
  BY <1>2, <1>4 DEF Injection, IsInjective
<1>6. IsFiniteSet(1 .. n) /\ Cardinality(1 .. n) = Cardinality(K)
  BY <1>1, FS_Interval
<1>7. g \in Surjection(K, 1 .. n)
  BY <1>5, <1>6, FS_Injection
<1>8. \A x \in 1 .. n : \E k \in K : R(k) = x
  BY <1>7 DEF Surjection
<1>9. QED
  BY <1>1, <1>2, <1>3, <1>8 DEF R

\* f takes the positions of t to those of the same elements in s, which are K.
Places(f, t, s, K) ==
    /\ f \in [DOMAIN t -> K]
    /\ \A n \in DOMAIN t : t[n] = s[f[n]]
    /\ \A k \in K : \E n \in DOMAIN t : f[n] = k
    /\ \A a, b \in DOMAIN t : a < b => f[a] < f[b]

\* The elements at the positions K are kept, each once, in their order.
LEMMA KeptSeq ==
    ASSUME NEW A, NEW s \in Seq(A), NEW K \in SUBSET DOMAIN s, NEW t, t = Kept(s, K)
    PROVE  t \in Seq(A) /\ \E f : Places(f, t, s, K)
<1> DEFINE n == Cardinality(K)
           R(k) == Rank(k, K)
           f == [x \in 1 .. n |-> CHOOSE k \in K : R(k) = x]
<1>1. K \subseteq Nat /\ IsFiniteSet(K)
  <2>1. Len(s) \in Nat /\ DOMAIN s = 1 .. Len(s)
    OBVIOUS
  <2>2. IsFiniteSet(1 .. Len(s))
    BY <2>1, FS_Interval
  <2>3. QED
    BY <2>1, <2>2, FS_Subset
<1> HIDE DEF n
<1>0. n \in Nat
  BY <1>1, Ranks DEF n
<1>2. /\ \A k \in K : R(k) \in 1 .. n
      /\ \A a, b \in K : a < b => R(a) < R(b)
      /\ \A x \in 1 .. n : \E k \in K : R(k) = x
  BY <1>1, Ranks DEF n
<1> HIDE DEF R
<1>3. \A x \in 1 .. n : f[x] \in K /\ R(f[x]) = x
  BY <1>2
<1>4. t = [x \in 1 .. n |-> s[f[x]]]
  BY DEF Kept, R, n
<1>5. f \in [1 .. n -> K]
  BY <1>3
<1> HIDE DEF f
<1>6. \A x \in 1 .. n : s[f[x]] \in A
  BY <1>3
<1>7. t \in [1 .. n -> A] /\ \A x \in 1 .. n : t[x] = s[f[x]]
  BY <1>4, <1>6
<1>8. t \in Seq(A) /\ DOMAIN t = 1 .. n
  BY <1>0, <1>7, SeqDef
<1>9. \A k \in K : \E x \in 1 .. n : f[x] = k
  BY <1>1, <1>2, <1>3
<1>10. \A a, b \in 1 .. n : a < b => f[a] < f[b]
  <2> SUFFICES ASSUME NEW a \in 1 .. n, NEW b \in 1 .. n, a < b, ~(f[a] < f[b]) PROVE FALSE
    OBVIOUS
  <2>1. f[b] <= f[a] /\ f[a] \in K /\ f[b] \in K
    BY <1>1, <1>3
  <2>2. R(f[b]) <= R(f[a])
    BY <1>1, <1>2, <2>1, SMTT(30)
  <2>3. R(f[a]) = a /\ R(f[b]) = b
    BY <1>3
  <2>4. QED
    BY <1>0, <2>2, <2>3
<1>11. Places(f, t, s, K)
  BY <1>5, <1>7, <1>8, <1>9, <1>10 DEF Places
<1>12. QED
  BY <1>8, <1>11

\* t is the elements of v and then those of u.
Join(t, v, u) ==
    /\ Len(t) = Len(v) + Len(u) /\ DOMAIN t = 1 .. Len(v) + Len(u)
    /\ \A k \in DOMAIN v : k \in DOMAIN t /\ t[k] = v[k]
    /\ \A n \in DOMAIN u : Len(v) + n \in DOMAIN t /\ t[Len(v) + n] = u[n]
    /\ \A k \in DOMAIN t \ DOMAIN v : k - Len(v) \in DOMAIN u /\ t[k] = u[k - Len(v)]
\* A set of natural numbers has a least.
LEMMA Least ==
    ASSUME NEW K \in SUBSET Nat, K # {}
    PROVE  \E k \in K : \A j \in K : k <= j
<1>1. PICK n \in K : TRUE
  OBVIOUS
<1> DEFINE S == {j \in K : j <= n}
<1>2. S \subseteq Nat /\ S # {} /\ IsFiniteSet(S)
  <2>0. n \in Nat /\ n <= n /\ \A j \in S : j \in 0 .. n
    OBVIOUS
  <2>1. S \subseteq 0 .. n /\ n \in S
    BY <2>0
  <2>2. IsFiniteSet(0 .. n)
    BY <1>1, FS_Interval
  <2>3. QED
    BY <2>1, <2>2, FS_Subset
<1> HIDE DEF S
<1>3. Cardinality(S) \in Nat /\ Cardinality(S) # 0
  BY <1>2, FS_CardinalityType, FS_EmptySet
<1>4. \A k \in S : Rank(k, S) \in 1 .. Cardinality(S)
  BY <1>2, Ranks
<1>5. \A a, b \in S : a < b => Rank(a, S) < Rank(b, S)
  BY <1>2, Ranks
<1>6. \E k \in S : Rank(k, S) = 1
  <2>1. 1 \in 1 .. Cardinality(S)
    BY <1>3
  <2>2. QED
    BY <1>2, <2>1, Ranks
<1>7. PICK k \in S : Rank(k, S) = 1
  BY <1>6
<1>8. \A j \in S : k <= j
  <2> SUFFICES ASSUME NEW j \in S, j < k PROVE FALSE
    BY <1>2
  <2>1. Rank(j, S) < 1 /\ Rank(j, S) \in 1 .. Cardinality(S)
    BY <1>4, <1>5, <1>7
  <2>2. QED
    BY <1>3, <2>1
<1>9. \A j \in K : k <= j
  <2> SUFFICES ASSUME NEW j \in K, ~(k <= j) PROVE FALSE
    OBVIOUS
  <2>1. k <= n /\ k \in Nat /\ n \in Nat /\ j \in Nat
    BY <1>1, <1>7 DEF S
  <2>2. j \in S
    BY <2>1 DEF S
  <2>3. QED
    BY <1>8, <2>2
<1>10. QED
  BY <1>7, <1>9 DEF S

-----------------------------------------------------------------------------
(* The binary search                                                       *)

\* The rounds of a search among n summaries, and what a round r returns when
\* the later rounds return what f says.
Rounds(n) == (0 .. n) \X (-1 .. n - 1)
Turn(f, old, at, r) ==
    LET lo  == r[1]
        hi  == r[2]
        mid == (lo + hi) \div 2
    IN  IF lo > hi THEN -1
        ELSE IF old[mid + 1].at < at THEN f[<<mid + 1, hi>>]
        ELSE IF old[mid + 1].at > at THEN f[<<lo, mid - 1>>]
        ELSE mid

\* The round q has fewer summaries to look at than the round r.
Shorter(q, r) == q[2] - q[1] < r[2] - r[1]

\* What the round r should return when the k-th summary is of the place k.
Found(at, r) == IF r[1] <= at - 1 /\ at - 1 <= r[2] THEN at - 1 ELSE -1

LEMMA SearchTurns ==
    ASSUME NEW old, NEW at
    PROVE  Search(old, at) = (CHOOSE f : f = [r \in Rounds(Len(old)) |-> Turn(f, old, at, r)])[<<0, Len(old) - 1>>]
BY Zenon DEF Search, Turn, Rounds

\* A round returns what it should when the shorter ones do.
LEMMA TurnFinds ==
    ASSUME NEW old, NEW n \in Nat, \A k \in 1 .. n : old[k].at = k,
           NEW at \in Nat \ {0}, NEW f, NEW r \in Rounds(n),
           \A q \in Rounds(n) : Shorter(q, r) => f[q] = Found(at, q)
    PROVE  Turn(f, old, at, r) = Found(at, r)
<1> DEFINE lo  == r[1]
           hi  == r[2]
           mid == (lo + hi) \div 2
<1>1. lo \in 0 .. n /\ hi \in -1 .. n - 1
  BY DEF Rounds
<1>2. CASE lo > hi
  BY <1>1, <1>2 DEF Turn, Found
<1>3. CASE lo <= hi
  <2>1. mid \in Int /\ lo <= mid /\ mid <= hi
    BY <1>1, <1>3
  <2>2. mid + 1 \in 1 .. n
    BY <1>1, <2>1
  <2>3. old[mid + 1].at = mid + 1
    BY <2>2
  <2>4. /\ <<mid + 1, hi>> \in Rounds(n)
        /\ <<lo, mid - 1>> \in Rounds(n)
    BY <1>1, <2>1 DEF Rounds
  <2>5. Turn(f, old, at, r) = IF mid + 1 < at THEN f[<<mid + 1, hi>>]
                              ELSE IF mid + 1 > at THEN f[<<lo, mid - 1>>]
                              ELSE mid
    BY <1>1, <1>3, <2>3 DEF Turn
  <2> HIDE DEF mid
  <2>6. Shorter(<<mid + 1, hi>>, r) /\ Shorter(<<lo, mid - 1>>, r)
    BY <1>1, <2>1 DEF Shorter
  <2>7. f[<<mid + 1, hi>>] = Found(at, <<mid + 1, hi>>)
    BY <2>4, <2>6
  <2>8. f[<<lo, mid - 1>>] = Found(at, <<lo, mid - 1>>)
    BY <2>4, <2>6
  <2>9. QED
    BY <1>1, <2>1, <2>5, <2>7, <2>8 DEF Found
<1>4. QED
  BY <1>1, <1>2, <1>3

\* Whatever satisfies the equation of the search returns what it should: there
\* is no shortest round in which it does not.
LEMMA TurnsFind ==
    ASSUME NEW old, NEW n \in Nat, \A k \in 1 .. n : old[k].at = k,
           NEW at \in Nat \ {0}, NEW f
    PROVE  (\A r \in Rounds(n) : f[r] = Turn(f, old, at, r))
               => \A r \in Rounds(n) : f[r] = Found(at, r)
<1> DEFINE Wrong   == {q \in Rounds(n) : f[q] # Found(at, q)}
           Size(q) == q[2] - q[1] + n + 1
           K       == {Size(q) : q \in Wrong}
<1>1. \A q \in Rounds(n) : q[1] \in 0 .. n /\ q[2] \in -1 .. n - 1
  BY DEF Rounds
<1>2. \A q \in Rounds(n) : Size(q) \in Nat /\ Size(q) = q[2] - q[1] + n + 1
  BY <1>1
<1>3. \A q \in Rounds(n) : f[q] # Found(at, q) => Size(q) \in K
  OBVIOUS
<1>4. \A k \in K : \E q \in Rounds(n) : f[q] # Found(at, q) /\ k = Size(q)
  OBVIOUS
<1> HIDE DEF Wrong, Size, K
<1>5. SUFFICES ASSUME \A r \in Rounds(n) : f[r] = Turn(f, old, at, r), K # {}
               PROVE  FALSE
  BY <1>3
<1>6. K \in SUBSET Nat
  BY <1>2, <1>4
<1>7. PICK k \in K : \A j \in K : k <= j
  BY <1>5, <1>6, Least
<1>8. PICK r \in Rounds(n) : f[r] # Found(at, r) /\ k = Size(r)
  BY <1>4
<1>9. \A q \in Rounds(n) : Shorter(q, r) => f[q] = Found(at, q)
  <2> SUFFICES ASSUME NEW q \in Rounds(n), Shorter(q, r), f[q] # Found(at, q)
               PROVE  FALSE
    OBVIOUS
  <2>1. Size(r) <= Size(q)
    BY <1>3, <1>7, <1>8
  <2>2. /\ q[1] \in Int /\ q[2] \in Int
        /\ r[1] \in Int /\ r[2] \in Int
    BY <1>1
  <2>3. q[2] - q[1] + n + 1 >= r[2] - r[1] + n + 1
    BY <1>2, <2>1
  <2>4. QED
    BY <2>2, <2>3 DEF Shorter
<1>10. Turn(f, old, at, r) = Found(at, r)
  BY <1>9, TurnFinds
<1>11. QED
  BY <1>5, <1>8, <1>10

\* In a table in the order of its places the search finds the place, or -1.
LEMMA SearchFinds ==
    ASSUME NEW old, Len(old) \in Nat, \A k \in 1 .. Len(old) : old[k].at = k,
           NEW at \in Nat \ {0}
    PROVE  Search(old, at) = IF at <= Len(old) THEN at - 1 ELSE -1
<1> DEFINE n == Len(old)
           D == Rounds(n)
           F == [r \in D |-> Found(at, r)]
           f == CHOOSE h : h = [r \in D |-> Turn(h, old, at, r)]
<1> HIDE DEF n
<1>1. n \in Nat /\ \A k \in 1 .. n : old[k].at = k
  BY DEF n
<1> HIDE DEF D
<1>2. F = [r \in D |-> Turn(F, old, at, r)]
  <2>1. \A q \in D : F[q] = Found(at, q)
    OBVIOUS
  <2> HIDE DEF F
  <2>2. \A r \in D : Turn(F, old, at, r) = Found(at, r)
    <3> SUFFICES ASSUME NEW r \in D PROVE Turn(F, old, at, r) = Found(at, r)
      OBVIOUS
    <3>1. r \in Rounds(n) /\ \A q \in Rounds(n) : Shorter(q, r) => F[q] = Found(at, q)
      BY <2>1 DEF D
    <3>2. QED
      BY <1>1, <3>1, TurnFinds
  <2>3. QED
    BY <2>2 DEF F
<1>3. f = [r \in D |-> Turn(f, old, at, r)]
  <2> HIDE DEF F
  <2>1. QED
    BY <1>2
<1> HIDE DEF f
<1>4. \A r \in D : f[r] = Turn(f, old, at, r)
  BY <1>3
<1>5. \A r \in D : f[r] = Found(at, r)
  BY <1>1, <1>4, TurnsFind DEF D
<1>6. <<0, n - 1>> \in D
  BY <1>1 DEF D, Rounds
<1>7. Search(old, at) = f[<<0, n - 1>>]
  BY SearchTurns DEF f, n, D
<1>8. Search(old, at) = Found(at, <<0, n - 1>>)
  BY <1>5, <1>6, <1>7
<1>9. QED
  BY <1>1, <1>8 DEF Found, n

-----------------------------------------------------------------------------
(* The inductive invariant                                                 *)

\* The messages at the path x: in its file, its .toc file or its table.
Held(x) ==
    {m \in Msgs : \/ x \in DOMAIN mbox /\ \E k \in DOMAIN mbox[x] : mbox[x][k] = m
                  \/ x \in DOMAIN disk /\ \E k \in DOMAIN disk[x].msgs : disk[x].msgs[k].msg = m
                  \/ x \in DOMAIN reg /\ \E k \in DOMAIN reg[x] : reg[x][k].msg = m}

\* The table t is of the first n messages of s, with the marks of those in D.
TableOf(t, s, n, D) ==
    /\ DOMAIN t = 1 .. n
    /\ n <= Len(s)
    /\ \A k \in 1 .. n : t[k].at = k /\ t[k].msg = s[k]
    /\ \A k \in 1 .. n : t[k].deleted <=> s[k] \in D

Distinct(s) == \A j, k \in DOMAIN s : s[j] = s[k] => j = k

\* The file s of a mailbox and its .toc file d, which has all the marks and may
\* lack the last messages.
Sound(s, d, D) ==
    /\ Distinct(s)
    /\ TableOf(d.msgs, s, d.box, D)
    /\ \A k \in DOMAIN s : k > d.box => s[k] \notin D

\* The files at p, and its table when it is open, are of one mailbox.
Own(p) ==
    /\ p \in DOMAIN disk
    /\ Sound(mbox[p], disk[p], gone)
    /\ p \in DOMAIN reg => TableOf(reg[p], mbox[p], Len(mbox[p]), gone)

OwnInv == \A p \in DOMAIN mbox \ mixed : Own(p)

\* What is of no mailbox is only where something has been mixed, and only there
\* may the tree have missed a file.
PathInv ==
    /\ tree.dirs = dirs
    /\ DOMAIN disk \ mixed \subseteq DOMAIN mbox
    /\ DOMAIN reg \ mixed \subseteq DOMAIN mbox
    /\ DOMAIN mbox \ mixed \subseteq tree.boxes

\* No message is at two paths, unless both are mixed.
ApartInv ==
    /\ \A x \in Path : Held(x) \subseteq arrived
    /\ \A x \in Path \ mixed : \A y \in Path \ {x} : Held(x) \cap Held(y) = {}

\* What has never been risked is where nothing has been mixed.
MailInv ==
    \A m \in arrived \ (gone \cup risked) :
        \E p \in DOMAIN mbox \ mixed : \E k \in DOMAIN mbox[p] : mbox[p][k] = m

StoreInv == TypeOK /\ PathInv /\ ApartInv /\ OwnInv /\ MailInv

-----------------------------------------------------------------------------
(* Tables and files                                                        *)

LEMMA SummaryFields ==
    ASSUME NEW e \in Summary
    PROVE  e.at \in Nat \ {0} /\ e.msg \in Msgs /\ e.deleted \in BOOLEAN
BY DEF Summary

LEMMA SummaryOf ==
    ASSUME NEW a \in Nat \ {0}, NEW m \in Msgs, NEW d \in BOOLEAN
    PROVE  [at |-> a, msg |-> m, deleted |-> d] \in Summary
BY DEF Summary

\* What is built from a file, and what is built again from a file and a table:
\* summaries of the messages of the file or of the table.
LEMMA BuiltType ==
    ASSUME NEW s \in Seq(Msgs)
    PROVE  /\ Built(s) \in Seq(Summary)
           /\ DOMAIN Built(s) = DOMAIN s
           /\ \A k \in DOMAIN s : Built(s)[k].msg = s[k]
<1>1. \A k \in DOMAIN s : k \in Nat \ {0} /\ s[k] \in Msgs
  OBVIOUS
<1>2. \A k \in DOMAIN s : [at |-> k, msg |-> s[k], deleted |-> FALSE] \in Summary
  BY <1>1, SummaryOf
<1>3. Built(s) \in [1 .. Len(s) -> Summary] /\ Len(s) \in Nat
  BY <1>2 DEF Built
<1>4. QED
  BY <1>3, SeqDef DEF Built

LEMMA RebuiltType ==
    ASSUME NEW s \in Seq(Msgs), NEW old \in Seq(Summary)
    PROVE  /\ Rebuilt(s, old) \in Seq(Summary)
           /\ DOMAIN Rebuilt(s, old) = DOMAIN s
           /\ \A k \in DOMAIN s : \/ Rebuilt(s, old)[k].msg = s[k]
                                  \/ \E i \in DOMAIN old : Rebuilt(s, old)[k].msg = old[i].msg
<1> DEFINE Same(k) == {j \in DOMAIN old : old[j].msg = s[k]}
           Marked(k) == Same(k) # {} /\ old[Min(Same(k))].deleted
           i(k) == Search(old, k) + 1
           New(k) == [at |-> k, msg |-> s[k], deleted |-> Marked(k)]
           t == Rebuilt(s, old)
<1>1. \A k \in DOMAIN s : t[k] = IF i(k) \in DOMAIN old THEN old[i(k)] ELSE New(k)
  BY DEF Rebuilt
<1>2. DOMAIN t = 1 .. Len(s) /\ Len(s) \in Nat
  BY DEF Rebuilt
<1>3. \A k \in DOMAIN s : New(k) \in Summary /\ New(k).msg = s[k]
  <2> SUFFICES ASSUME NEW k \in DOMAIN s PROVE New(k) \in Summary /\ New(k).msg = s[k]
    OBVIOUS
  <2>1. Marked(k) \in BOOLEAN
    OBVIOUS
  <2>2. k \in Nat \ {0} /\ s[k] \in Msgs
    OBVIOUS
  <2> HIDE DEF Marked
  <2>3. QED
    BY <2>1, <2>2, SummaryOf
<1>4. t = [k \in 1 .. Len(s) |-> t[k]]
  BY DEF Rebuilt
<1> HIDE DEF i, New, t
<1>5. \A k \in DOMAIN s : \/ t[k] \in Summary /\ t[k].msg = s[k]
                          \/ \E j \in DOMAIN old : t[k] = old[j] /\ t[k] \in Summary
  BY <1>1, <1>3
<1>6. t \in [1 .. Len(s) -> Summary]
  <2>1. \A k \in DOMAIN s : t[k] \in Summary
    BY <1>5
  <2>2. \A k \in 1 .. Len(s) : t[k] \in Summary
    BY <2>1
  <2>3. QED
    BY <1>4, <2>2
<1>7. t \in Seq(Summary)
  BY <1>2, <1>6, SeqDef
<1>8. DOMAIN t = DOMAIN s
  BY <1>2
<1>9. \A k \in DOMAIN s : t[k].msg = s[k] \/ \E j \in DOMAIN old : t[k].msg = old[j].msg
  BY <1>5
<1>10. QED
  BY <1>7, <1>8, <1>9 DEF t

LEMMA LoadedType ==
    ASSUME TypeOK, NEW p \in DOMAIN mbox
    PROVE  /\ Loaded(p) \in Seq(Summary)
           /\ \A k \in DOMAIN Loaded(p) :
                  \/ \E j \in DOMAIN mbox[p] : Loaded(p)[k].msg = mbox[p][j]
                  \/ p \in DOMAIN disk /\ \E j \in DOMAIN disk[p].msgs : Loaded(p)[k].msg = disk[p].msgs[j].msg
<1>1. mbox[p] \in Seq(Msgs)
  BY DEF TypeOK
<1>2. CASE p \notin DOMAIN disk
  <2>1. Loaded(p) = Built(mbox[p])
    BY <1>2 DEF Loaded
  <2>2. \A k \in DOMAIN mbox[p] : Built(mbox[p])[k].msg = mbox[p][k]
    BY <1>1, BuiltType
  <2>3. Built(mbox[p]) \in Seq(Summary) /\ DOMAIN Built(mbox[p]) = DOMAIN mbox[p]
    BY <1>1, BuiltType
  <2>4. QED
    BY <2>1, <2>2, <2>3
<1>3. CASE p \in DOMAIN disk /\ Valid(disk[p], mbox[p])
  <2>1. Loaded(p) = disk[p].msgs /\ disk[p].msgs \in Seq(Summary)
    BY <1>3 DEF Loaded, TypeOK
  <2>2. QED
    BY <1>3, <2>1
<1>4. CASE p \in DOMAIN disk /\ ~Valid(disk[p], mbox[p])
  <2>1. Loaded(p) = Rebuilt(mbox[p], disk[p].msgs) /\ disk[p].msgs \in Seq(Summary)
    BY <1>4 DEF Loaded, TypeOK
  <2>2. QED
    BY <1>1, <1>4, <2>1, RebuiltType
<1>5. QED
  BY <1>2, <1>3, <1>4

\* The table of a mailbox that was alone at its path is of the whole file.
LEMMA LoadedOf ==
    ASSUME TypeOK, NEW p \in DOMAIN mbox, p \in DOMAIN disk, Sound(mbox[p], disk[p], gone)
    PROVE  TableOf(Loaded(p), mbox[p], Len(mbox[p]), gone)
<1> DEFINE s == mbox[p]
           old == disk[p].msgs
           b == disk[p].box
<1>1. s \in Seq(Msgs) /\ old \in Seq(Summary) /\ b \in Nat
  BY DEF TypeOK
<1>2. Distinct(s) /\ TableOf(old, s, b, gone) /\ \A k \in DOMAIN s : k > b => s[k] \notin gone
  BY DEF Sound
<1>3. Loaded(p) = IF Valid(disk[p], s) THEN old ELSE Rebuilt(s, old)
  BY DEF Loaded
<1>4. Valid(disk[p], s) = (s # <<>> => b = Len(s) /\ \A k \in DOMAIN old : old[k].at <= Len(s))
  BY DEF Valid
<1> HIDE DEF s, old, b
<1>5. /\ DOMAIN old = 1 .. b
      /\ b <= Len(s)
      /\ \A k \in 1 .. b : old[k].at = k /\ old[k].msg = s[k]
      /\ \A k \in 1 .. b : old[k].deleted <=> s[k] \in gone
  BY <1>2 DEF TableOf
<1>6. Len(s) \in Nat /\ DOMAIN s = 1 .. Len(s)
  BY <1>1
<1>7. CASE b = Len(s)
  <2>1. \A k \in DOMAIN old : old[k].at <= Len(s)
    BY <1>5, <1>6, <1>7
  <2>2. Loaded(p) = old
    BY <1>3, <1>4, <1>7, <2>1
  <2>3. QED
    BY <1>2, <1>7, <2>2 DEF s
<1>8. CASE b # Len(s)
  <2>1. s # <<>>
    <3> SUFFICES ASSUME s = <<>> PROVE FALSE
      OBVIOUS
    <3>1. Len(s) = 0
      OBVIOUS
    <3>2. QED
      BY <1>1, <1>5, <1>8, <3>1
  <2>2. Loaded(p) = Rebuilt(s, old)
    BY <1>3, <1>4, <1>8, <2>1
  <2> DEFINE Same(k) == {j \in DOMAIN old : old[j].msg = s[k]}
             Marked(k) == Same(k) # {} /\ old[Min(Same(k))].deleted
             i(k) == Search(old, k) + 1
             New(k) == [at |-> k, msg |-> s[k], deleted |-> Marked(k)]
             t == Rebuilt(s, old)
  <2>3. DOMAIN t = DOMAIN s /\ \A k \in DOMAIN s : t[k] = IF i(k) \in DOMAIN old THEN old[i(k)] ELSE New(k)
    BY DEF Rebuilt
  <2>4. Len(old) = b
    BY <1>1, <1>5, LenProperties
  <2>5. \A k \in DOMAIN s : i(k) = IF k <= b THEN k ELSE 0
    <3> SUFFICES ASSUME NEW k \in DOMAIN s PROVE i(k) = IF k <= b THEN k ELSE 0
      OBVIOUS
    <3>1. k \in Nat \ {0}
      BY <1>6
    <3>2. Search(old, k) = IF k <= b THEN k - 1 ELSE -1
      BY <1>1, <1>5, <2>4, <3>1, SearchFinds
    <3>3. QED
      BY <3>1, <3>2
  <2>6. \A k \in DOMAIN s : k > b => Same(k) = {}
    <3> SUFFICES ASSUME NEW k \in DOMAIN s, k > b, NEW j \in DOMAIN old, old[j].msg = s[k] PROVE FALSE
      OBVIOUS
    <3>1. j \in 1 .. b /\ j \in DOMAIN s /\ s[j] = s[k]
      BY <1>1, <1>5, <1>6
    <3>2. j = k
      BY <1>2, <3>1 DEF Distinct
    <3>3. QED
      BY <1>1, <1>6, <3>1, <3>2
  <2>7. \A k \in DOMAIN s : k > b => ~Marked(k) /\ New(k).at = k /\ New(k).msg = s[k] /\ New(k).deleted = Marked(k)
    BY <2>6
  <2> HIDE DEF i, Marked, New, t
  <2>8. \A k \in DOMAIN s : k <= b => t[k] = old[k]
    BY <1>5, <1>6, <2>3, <2>5
  <2>9. \A k \in DOMAIN s : k > b => t[k] = New(k)
    BY <1>1, <1>5, <1>6, <2>3, <2>5
  <2>10. \A k \in 1 .. Len(s) : t[k].at = k /\ t[k].msg = s[k] /\ (t[k].deleted <=> s[k] \in gone)
    <3> SUFFICES ASSUME NEW k \in 1 .. Len(s)
                 PROVE  t[k].at = k /\ t[k].msg = s[k] /\ (t[k].deleted <=> s[k] \in gone)
      OBVIOUS
    <3>1. k \in DOMAIN s /\ (k <= b \/ k > b)
      BY <1>1, <1>6
    <3>2. CASE k <= b
      BY <1>5, <1>6, <2>8, <3>1, <3>2
    <3>3. CASE k > b
      BY <1>2, <2>7, <2>9, <3>1, <3>3
    <3>4. QED
      BY <3>1, <3>2, <3>3
  <2>11. TableOf(t, s, Len(s), gone)
    BY <1>6, <2>3, <2>10 DEF TableOf
  <2>12. QED
    BY <2>2, <2>11 DEF t, s
<1>9. QED
  BY <1>7, <1>8

\* A file, a .toc file or a table is put at a path or taken from it.
LEMMA PutIs ==
    ASSUME NEW f, NEW p, NEW v
    PROVE  /\ DOMAIN Put(f, p, v) = DOMAIN f \cup {p}
           /\ Put(f, p, v)[p] = v
           /\ \A x \in DOMAIN f \ {p} : Put(f, p, v)[x] = f[x]
BY DEF Put

LEMMA DropIs ==
    ASSUME NEW f, NEW p
    PROVE  /\ DOMAIN Drop(f, p) = DOMAIN f \ {p}
           /\ \A x \in DOMAIN f \ {p} : Drop(f, p)[x] = f[x]
BY DEF Drop

\* The paths with a folder.
LEMMA Paths ==
    ASSUME TypeOK
    PROVE  /\ \A p \in Path : p \in (dirs \cup {Root}) \X Names <=> Exists(p)
           /\ DOMAIN mbox \subseteq Path
           /\ DOMAIN disk \subseteq Path
           /\ DOMAIN reg \subseteq Path
           /\ \A p \in DOMAIN mbox : Exists(p)
           /\ \A p \in DOMAIN disk : Exists(p)
<1>1. (dirs \cup {Root}) \X Names \subseteq Path
  BY DEF TypeOK, Path
<1>2. \A p \in Path : p \in (dirs \cup {Root}) \X Names <=> Exists(p)
  BY DEF Path, Exists
<1>3. QED
  BY <1>1, <1>2 DEF TypeOK

\* macmbx_toc_save, for the file s that the mailbox has then, if it has one.
LEMMA SaveIs ==
    ASSUME NEW p, NEW t, Save(p, t)
    PROVE  \/ ~Exists(p) /\ disk' = disk
           \/ /\ Exists(p)
              /\ DOMAIN disk' = DOMAIN disk \cup {p}
              /\ disk'[p].msgs = t
              /\ disk'[p].box = IF p \in DOMAIN mbox' THEN Len(mbox'[p]) ELSE 0
              /\ \A x \in DOMAIN disk \ {p} : disk'[x] = disk[x]
<1> DEFINE d == [msgs |-> t, box |-> IF p \in DOMAIN mbox' THEN Len(mbox'[p]) ELSE 0]
<1>1. disk' = IF Exists(p) THEN Put(disk, p, d) ELSE disk
  BY DEF Save
<1>2. d.msgs = t /\ d.box = IF p \in DOMAIN mbox' THEN Len(mbox'[p]) ELSE 0
  OBVIOUS
<1> HIDE DEF d
<1>3. CASE Exists(p)
  <2>1. disk' = Put(disk, p, d)
    BY <1>1, <1>3
  <2>2. /\ DOMAIN disk' = DOMAIN disk \cup {p}
        /\ disk'[p] = d
        /\ \A x \in DOMAIN disk \ {p} : disk'[x] = disk[x]
    BY <2>1 DEF Put
  <2>3. QED
    BY <1>2, <1>3, <2>2
<1>4. QED
  BY <1>1, <1>3

LEMMA InMail ==
    ASSUME NEW P, NEW m
    PROVE  m \in Mail(P) <=> \E p \in P \cap DOMAIN mbox : \E k \in DOMAIN mbox[p] : mbox[p][k] = m
BY DEF Mail, ToSet

\* An operation on the paths P has met a table, there or before, or it has not.
LEMMA TouchIs ==
    ASSUME NEW P, Touch(P)
    PROVE  \/ /\ mixed' = mixed \cup P
              /\ risked' = risked \cup Mail(P)
           \/ /\ P \cap DOMAIN reg = {}
              /\ P \cap mixed = {}
              /\ mixed' = mixed
              /\ risked' = risked
BY DEF Touch

-----------------------------------------------------------------------------
(* What is held at a path                                                  *)

LEMMA HeldIn ==
    ASSUME TypeOK, NEW x
    PROVE  /\ x \in DOMAIN mbox => \A k \in DOMAIN mbox[x] : mbox[x][k] \in Held(x)
           /\ x \in DOMAIN disk => \A k \in DOMAIN disk[x].msgs : disk[x].msgs[k].msg \in Held(x)
           /\ x \in DOMAIN reg => \A k \in DOMAIN reg[x] : reg[x][k].msg \in Held(x)
<1>1. x \in DOMAIN mbox => \A k \in DOMAIN mbox[x] : mbox[x][k] \in Msgs
  BY DEF TypeOK
<1>2. x \in DOMAIN disk => \A k \in DOMAIN disk[x].msgs : disk[x].msgs[k].msg \in Msgs
  BY SummaryFields DEF TypeOK
<1>3. x \in DOMAIN reg => \A k \in DOMAIN reg[x] : reg[x][k].msg \in Msgs
  BY SummaryFields DEF TypeOK
<1>4. QED
  BY <1>1, <1>2, <1>3 DEF Held

LEMMA HeldWithin ==
    ASSUME NEW x, NEW S,
           x \in DOMAIN mbox' => \A k \in DOMAIN mbox'[x] : mbox'[x][k] \in S,
           x \in DOMAIN disk' => \A k \in DOMAIN disk'[x].msgs : disk'[x].msgs[k].msg \in S,
           x \in DOMAIN reg' => \A k \in DOMAIN reg'[x] : reg'[x][k].msg \in S
    PROVE  Held(x)' \subseteq S
BY DEF Held

\* What is at x was at y.
From(x, y) ==
    /\ x \in DOMAIN mbox' => y \in DOMAIN mbox /\ mbox'[x] = mbox[y]
    /\ x \in DOMAIN disk' => y \in DOMAIN disk /\ disk'[x] = disk[y]
    /\ x \in DOMAIN reg' => y \in DOMAIN reg /\ reg'[x] = reg[y]

LEMMA HeldFrom ==
    ASSUME NEW x, NEW y, From(x, y)
    PROVE  Held(x)' \subseteq Held(y)
BY DEF Held, From

LEMMA ApartSame ==
    ASSUME ApartInv, arrived \subseteq arrived', mixed \subseteq mixed',
           \A x \in Path : Held(x)' \subseteq Held(x)
    PROVE  ApartInv'
<1>1. \A x \in Path : Held(x)' \subseteq arrived'
  BY DEF ApartInv
<1>2. \A x \in Path \ mixed' : \A y \in Path \ {x} : Held(x)' \cap Held(y)' = {}
  BY DEF ApartInv
<1>3. QED
  BY <1>1, <1>2 DEF ApartInv

LEMMA ApartAdd ==
    ASSUME ApartInv, NEW p \in Path, NEW m, m \notin arrived, arrived' = arrived \cup {m},
           mixed' = mixed,
           \A x \in Path \ {p} : Held(x)' \subseteq Held(x),
           Held(p)' \subseteq Held(p) \cup {m}
    PROVE  ApartInv'
<1>1. \A x \in Path : Held(x) \subseteq arrived
  BY DEF ApartInv
<1>2. \A x \in Path : Held(x)' \subseteq arrived'
  BY <1>1
<1>3. \A x \in Path \ mixed' : \A y \in Path \ {x} : Held(x)' \cap Held(y)' = {}
  <2> SUFFICES ASSUME NEW x \in Path \ mixed', NEW y \in Path \ {x}, NEW e, e \in Held(x)', e \in Held(y)'
               PROVE  FALSE
    OBVIOUS
  <2>1. Held(x) \cap Held(y) = {}
    BY DEF ApartInv
  <2>2. e \in Held(x) \/ (x = p /\ e = m)
    OBVIOUS
  <2>3. e \in Held(y) \/ (y = p /\ e = m)
    OBVIOUS
  <2>4. QED
    BY <1>1, <2>1, <2>2, <2>3
<1>4. QED
  BY <1>2, <1>3 DEF ApartInv

\* Whatever is done among paths that count as mixed from now on.
LEMMA ApartHit ==
    ASSUME ApartInv, NEW P \in SUBSET Path, mixed' = mixed \cup P, arrived' = arrived,
           \A x \in Path \ P : Held(x)' \subseteq Held(x),
           \A x \in P : \A m \in Held(x)' : \E y \in P : m \in Held(y)
    PROVE  ApartInv'
<1>1. \A x \in Path : Held(x)' \subseteq arrived'
  BY DEF ApartInv
<1>2. \A x \in Path \ mixed' : \A y \in Path \ {x} : Held(x)' \cap Held(y)' = {}
  <2> SUFFICES ASSUME NEW x \in Path \ mixed', NEW y \in Path \ {x}, NEW e, e \in Held(x)', e \in Held(y)'
               PROVE  FALSE
    OBVIOUS
  <2>1. x \in Path \ mixed /\ x \notin P /\ e \in Held(x)
    OBVIOUS
  <2>2. PICK z \in Path \ {x} : e \in Held(z)
    BY <2>1
  <2>3. QED
    BY <2>1, <2>2 DEF ApartInv
<1>3. QED
  BY <1>1, <1>2 DEF ApartInv

\* What was at F[x] is at x now, and nothing is anywhere else.
LEMMA ApartMoved ==
    ASSUME ApartInv, NEW S \in SUBSET Path, NEW F \in [S -> Path],
           mixed' = mixed, arrived' = arrived,
           \A x, y \in S : F[x] = F[y] => x = y,
           \A x \in S : Held(x)' \subseteq Held(F[x]),
           \A x \in S \ mixed : F[x] \notin mixed,
           \A x \in Path \ S : Held(x)' = {}
    PROVE  ApartInv'
<1>1. \A x \in Path : Held(x)' \subseteq arrived'
  BY DEF ApartInv
<1>2. \A x \in Path \ mixed' : \A y \in Path \ {x} : Held(x)' \cap Held(y)' = {}
  <2> SUFFICES ASSUME NEW x \in Path \ mixed', NEW y \in Path \ {x}, NEW e, e \in Held(x)', e \in Held(y)'
               PROVE  FALSE
    OBVIOUS
  <2>1. x \in S /\ y \in S
    OBVIOUS
  <2>2. F[x] # F[y] /\ F[x] \in Path \ mixed /\ F[y] \in Path
    BY <2>1
  <2>3. e \in Held(F[x]) /\ e \in Held(F[y])
    BY <2>1
  <2>4. QED
    BY <2>2, <2>3 DEF ApartInv
<1>3. QED
  BY <1>1, <1>2 DEF ApartInv

-----------------------------------------------------------------------------
(* Mailboxes that are left as they are, or moved                           *)

LEMMA TableAgrees ==
    ASSUME NEW t, NEW s, NEW n, NEW D, NEW E, TableOf(t, s, n, D), n \in Nat,
           Len(s) \in Nat, DOMAIN s = 1 .. Len(s),
           \A k \in DOMAIN s : s[k] \in E <=> s[k] \in D
    PROVE  TableOf(t, s, n, E)
<1>1. \A k \in 1 .. n : k \in DOMAIN s
  BY DEF TableOf
<1>2. QED
  BY <1>1 DEF TableOf

LEMMA OwnFrom ==
    ASSUME TypeOK, OwnInv, NEW x, NEW y \in DOMAIN mbox \ mixed, x \in DOMAIN mbox',
           From(x, y), x \in DOMAIN disk',
           \A k \in DOMAIN mbox[y] : mbox[y][k] \in gone' <=> mbox[y][k] \in gone
    PROVE  Own(x)'
<1>1. mbox'[x] = mbox[y] /\ disk'[x] = disk[y] /\ (x \in DOMAIN reg' => y \in DOMAIN reg /\ reg'[x] = reg[y])
  BY DEF From
<1>2. /\ Distinct(mbox[y])
      /\ TableOf(disk[y].msgs, mbox[y], disk[y].box, gone)
      /\ \A k \in DOMAIN mbox[y] : k > disk[y].box => mbox[y][k] \notin gone
      /\ y \in DOMAIN disk
      /\ y \in DOMAIN reg => TableOf(reg[y], mbox[y], Len(mbox[y]), gone)
  BY DEF OwnInv, Own, Sound
<1>3. mbox[y] \in Seq(Msgs) /\ disk[y].box \in Nat
  BY <1>2 DEF TypeOK
<1>4. Len(mbox[y]) \in Nat /\ DOMAIN mbox[y] = 1 .. Len(mbox[y])
  BY <1>3
<1>5. TableOf(disk[y].msgs, mbox[y], disk[y].box, gone')
  BY <1>2, <1>3, <1>4, TableAgrees
<1>6. y \in DOMAIN reg => TableOf(reg[y], mbox[y], Len(mbox[y]), gone')
  BY <1>2, <1>4, TableAgrees
<1>7. Sound(mbox'[x], disk'[x], gone')
  BY <1>1, <1>2, <1>5 DEF Sound
<1>8. x \in DOMAIN reg' => TableOf(reg'[x], mbox'[x], Len(mbox'[x]), gone')
  BY <1>1, <1>6
<1>9. QED
  BY <1>7, <1>8 DEF Own

\* The mail of one path is not at another, unless both are mixed.
LEMMA Elsewhere ==
    ASSUME TypeOK, ApartInv, NEW x \in DOMAIN mbox \ mixed, NEW y \in Path \ {x}, NEW m \in Held(y),
           NEW k \in DOMAIN mbox[x]
    PROVE  mbox[x][k] # m
<1>1. x \in Path \ mixed /\ mbox[x][k] \in Held(x)
  BY Paths, HeldIn
<1>2. QED
  BY <1>1 DEF ApartInv

-----------------------------------------------------------------------------
(* Tables                                                                  *)

LEMMA OpType == ASSUME TypeOK, Op PROVE ops' \in 0 .. MaxOps
BY BoundsAssumption DEF TypeOK, Op

\* An operation on the tree reads it again.
LEMMA RefreshIs ==
    ASSUME TypeOK, Refresh, dirs' \subseteq Folders,
           DOMAIN mbox' \cup DOMAIN disk' \subseteq (dirs' \cup {Root}) \X Names
    PROVE  /\ tree'.dirs \subseteq Folders
           /\ tree'.boxes \subseteq Path
           /\ tree'.dirs = dirs'
           /\ tree'.boxes = DOMAIN mbox'
<1>1. tree'.dirs = dirs' /\ tree'.boxes = DOMAIN mbox'
  BY DEF Refresh
<1>2. (dirs' \cup {Root}) \X Names \subseteq Path
  BY DEF Path
<1>3. QED
  BY <1>1, <1>2

\* The files stay as they are, and the tables too unless the program ends.
LEMMA QuietKeeps ==
    ASSUME StoreInv, mbox' = mbox, disk' = disk, reg' = reg \/ reg' = <<>>, UNCHANGED hist
    PROVE  ApartInv' /\ OwnInv' /\ MailInv'
<1>0. TypeOK /\ ApartInv /\ OwnInv /\ MailInv
  BY DEF StoreInv
<1>1. arrived' = arrived /\ gone' = gone /\ mixed' = mixed /\ risked' = risked
  BY DEF hist
<1>2. \A x : From(x, x)
  BY DEF From
<1>3. ApartInv'
  BY <1>0, <1>1, <1>2, HeldFrom, ApartSame
<1>4. OwnInv'
  <2> SUFFICES ASSUME NEW x \in DOMAIN mbox' \ mixed' PROVE Own(x)'
    BY DEF OwnInv
  <2>1. x \in DOMAIN mbox \ mixed /\ x \in DOMAIN disk'
    BY <1>0, <1>1 DEF OwnInv, Own
  <2>2. QED
    BY <1>0, <1>1, <1>2, <2>1, OwnFrom
<1>5. MailInv'
  BY <1>0, <1>1 DEF MailInv
<1>6. QED
  BY <1>3, <1>4, <1>5

LEMMA OpenKeeps == ASSUME StoreInv, NEW p \in Path, Open(p) PROVE StoreInv'
<1>0. TypeOK /\ PathInv /\ ApartInv /\ OwnInv /\ MailInv
  BY DEF StoreInv
<1>1. /\ p \in DOMAIN mbox
      /\ p \notin DOMAIN reg
      /\ reg' = Put(reg, p, Loaded(p))
      /\ dirs' = dirs /\ mbox' = mbox /\ disk' = disk /\ tree' = tree
      /\ arrived' = arrived /\ gone' = gone /\ mixed' = mixed /\ risked' = risked
      /\ ops' = ops
  BY DEF Open, hist
<1>2. /\ DOMAIN reg' = DOMAIN reg \cup {p}
      /\ reg'[p] = Loaded(p)
      /\ \A x \in DOMAIN reg \ {p} : reg'[x] = reg[x]
  BY <1>1 DEF Put
<1>3. Loaded(p) \in Seq(Summary)
  BY <1>0, <1>1, LoadedType
<1>4. TypeOK'
  BY <1>0, <1>1, <1>2, <1>3 DEF TypeOK
<1>5. PathInv'
  BY <1>0, <1>1, <1>2 DEF PathInv
<1>6. \A x : x # p => From(x, x)
  BY <1>1, <1>2 DEF From
<1>7. Held(p)' \subseteq Held(p)
  <2>1. \A k \in DOMAIN Loaded(p) : Loaded(p)[k].msg \in Held(p)
    BY <1>0, <1>1, LoadedType, HeldIn
  <2>2. /\ p \in DOMAIN mbox' => \A k \in DOMAIN mbox'[p] : mbox'[p][k] \in Held(p)
        /\ p \in DOMAIN disk' => \A k \in DOMAIN disk'[p].msgs : disk'[p].msgs[k].msg \in Held(p)
    BY <1>0, <1>1, HeldIn
  <2>3. p \in DOMAIN reg' => \A k \in DOMAIN reg'[p] : reg'[p][k].msg \in Held(p)
    BY <1>2, <2>1
  <2>4. QED
    BY <2>2, <2>3, HeldWithin
<1>8. ApartInv'
  <2>1. \A x \in Path : Held(x)' \subseteq Held(x)
    <3> SUFFICES ASSUME NEW x \in Path, x # p PROVE Held(x)' \subseteq Held(x)
      BY <1>7
    <3>1. From(x, x)
      BY <1>6
    <3>2. QED
      BY <3>1, HeldFrom
  <2>2. QED
    BY <1>0, <1>1, <2>1, ApartSame
<1>9. OwnInv'
  <2> SUFFICES ASSUME NEW x \in DOMAIN mbox' \ mixed' PROVE Own(x)'
    BY DEF OwnInv
  <2>1. x \in DOMAIN mbox \ mixed /\ Own(x)
    BY <1>0, <1>1 DEF OwnInv
  <2>2. CASE x = p
    <3>1. p \in DOMAIN disk /\ Sound(mbox[p], disk[p], gone)
      BY <2>1, <2>2 DEF Own
    <3>2. TableOf(reg'[p], mbox'[p], Len(mbox'[p]), gone')
      BY <1>0, <1>1, <1>2, <3>1, LoadedOf
    <3>3. QED
      BY <1>1, <2>2, <3>1, <3>2 DEF Own
  <2>3. CASE x # p
    BY <1>0, <1>1, <1>6, <2>1, <2>3, OwnFrom DEF Own
  <2>4. QED
    BY <2>2, <2>3
<1>10. MailInv'
  BY <1>0, <1>1 DEF MailInv
<1>11. QED
  BY <1>4, <1>5, <1>8, <1>9, <1>10 DEF StoreInv

\* Appending to a file and to a table.
LEMMA AppendIs ==
    ASSUME NEW A, NEW s \in Seq(A), NEW e \in A
    PROVE  /\ Append(s, e) \in Seq(A)
           /\ Len(s) \in Nat
           /\ Len(Append(s, e)) = Len(s) + 1
           /\ DOMAIN s = 1 .. Len(s)
           /\ DOMAIN Append(s, e) = 1 .. Len(s) + 1
           /\ \A k \in 1 .. Len(s) : Append(s, e)[k] = s[k]
           /\ Append(s, e)[Len(s) + 1] = e
<1>1. Len(s) \in Nat /\ DOMAIN s = 1 .. Len(s)
  OBVIOUS
<1>2. /\ Append(s, e) \in Seq(A)
      /\ Len(Append(s, e)) = Len(s) + 1
      /\ \A k \in 1 .. Len(s) : Append(s, e)[k] = s[k]
      /\ Append(s, e)[Len(s) + 1] = e
  BY AppendProperties
<1>3. QED
  BY <1>1, <1>2

\* The file s of a mailbox is added to, its table t with it.
LEMMA TableGrows ==
    ASSUME NEW s \in Seq(Msgs), NEW t \in Seq(Summary), NEW D, NEW m \in Msgs \ D,
           TableOf(t, s, Len(s), D),
           NEW u, u = Append(s, m),
           NEW e \in Summary, e.at = Len(u), e.msg = m, ~e.deleted
    PROVE  TableOf(Append(t, e), u, Len(u), D)
<1> DEFINE n == Len(s)
           v == Append(t, e)
<1>1. /\ n \in Nat
      /\ Len(u) = n + 1
      /\ \A k \in 1 .. n : u[k] = s[k]
      /\ u[n + 1] = m
  BY AppendIs
<1>2. DOMAIN t = 1 .. n /\ Len(t) = n
  <2>1. DOMAIN t = 1 .. n
    BY DEF TableOf
  <2>2. QED
    BY <1>1, <2>1, LenProperties
<1>3. /\ DOMAIN v = 1 .. n + 1
      /\ \A k \in 1 .. n : v[k] = t[k]
      /\ v[n + 1] = e
  BY <1>2, AppendIs
<1> HIDE DEF v
<1>4. /\ \A k \in 1 .. n : t[k].at = k /\ t[k].msg = s[k]
      /\ \A k \in 1 .. n : t[k].deleted <=> s[k] \in D
  BY DEF TableOf
<1> HIDE DEF n
<1>5. \A k \in 1 .. n + 1 : k \in 1 .. n \/ k = n + 1
  BY <1>1
<1>6. \A k \in 1 .. n + 1 : v[k].at = k /\ v[k].msg = u[k] /\ (v[k].deleted <=> u[k] \in D)
  BY <1>1, <1>3, <1>4, <1>5
<1>7. QED
  BY <1>1, <1>3, <1>6 DEF TableOf, v

\* The mailbox at p is written or its table is: the other paths are as before.
LEMMA ApartAt ==
    ASSUME ApartInv, NEW p \in Path, arrived' = arrived, mixed \subseteq mixed',
           \A x : x # p => From(x, x),
           Held(p)' \subseteq Held(p)
    PROVE  ApartInv'
<1>1. \A x \in Path : Held(x)' \subseteq Held(x)
  <2> SUFFICES ASSUME NEW x \in Path, x # p PROVE Held(x)' \subseteq Held(x)
    OBVIOUS
  <2>1. From(x, x)
    OBVIOUS
  <2>2. QED
    BY <2>1, HeldFrom
<1>2. QED
  BY <1>1, ApartSame

LEMMA OwnAt ==
    ASSUME TypeOK, OwnInv, NEW p, mixed \subseteq mixed',
           \A x : x # p => From(x, x),
           DOMAIN disk \ {p} \subseteq DOMAIN disk',
           \A x \in DOMAIN mbox \ (mixed \cup {p}) : \A k \in DOMAIN mbox[x] :
               mbox[x][k] \in gone' <=> mbox[x][k] \in gone,
           p \in DOMAIN mbox' \ mixed' => Own(p)'
    PROVE  OwnInv'
<1> SUFFICES ASSUME NEW x \in DOMAIN mbox' \ mixed' PROVE Own(x)'
  BY DEF OwnInv
<1>1. CASE x = p
  BY <1>1
<1>2. CASE x # p
  <2>1. From(x, x)
    BY <1>2
  <2>2. x \in DOMAIN mbox \ mixed
    BY <2>1 DEF From
  <2>3. x \in DOMAIN disk'
    BY <1>2, <2>2 DEF OwnInv, Own
  <2>4. \A k \in DOMAIN mbox[x] : mbox[x][k] \in gone' <=> mbox[x][k] \in gone
    BY <1>2, <2>2
  <2>5. QED
    BY <2>1, <2>2, <2>3, <2>4, OwnFrom
<1>3. QED
  BY <1>1, <1>2

LEMMA AddKeeps == ASSUME StoreInv, NEW p \in Path, NEW m \in Msgs, NEW save \in BOOLEAN, Add(p, m, save) PROVE StoreInv'
<1>0. TypeOK /\ PathInv /\ ApartInv /\ OwnInv /\ MailInv
  BY DEF StoreInv
<1> DEFINE s == IF p \in DOMAIN mbox THEN Append(mbox[p], m) ELSE <<m>>
           e == [at |-> Len(s), msg |-> m, deleted |-> FALSE]
           t == Append(reg[p], e)
<1>1. /\ p \in DOMAIN reg /\ Exists(p)
      /\ m \notin arrived
      /\ mbox' = Put(mbox, p, s)
      /\ reg' = Put(reg, p, t)
      /\ disk' = disk \/ Save(p, t)
      /\ arrived' = arrived \cup {m}
      /\ risked' = IF p \in mixed THEN risked \cup {m} ELSE risked
      /\ dirs' = dirs /\ tree' = tree /\ gone' = gone /\ mixed' = mixed /\ ops' = ops
  BY DEF Add
<1>2. s \in Seq(Msgs) /\ Len(s) \in Nat \ {0}
  <2>1. CASE p \in DOMAIN mbox
    <3>1. mbox[p] \in Seq(Msgs)
      BY <1>0, <2>1 DEF TypeOK
    <3>2. QED
      BY <2>1, <3>1, AppendIs
  <2>2. CASE p \notin DOMAIN mbox
    <3>1. <<m>> \in Seq(Msgs) /\ Len(<<m>>) = 1
      OBVIOUS
    <3>2. QED
      BY <2>2, <3>1
  <2>3. QED
    BY <2>1, <2>2
<1>3. \A k \in DOMAIN s : s[k] = m \/ (p \in DOMAIN mbox /\ \E j \in DOMAIN mbox[p] : s[k] = mbox[p][j])
  <2>1. CASE p \in DOMAIN mbox
    <3>1. mbox[p] \in Seq(Msgs)
      BY <1>0, <2>1 DEF TypeOK
    <3>2. QED
      BY <2>1, <3>1, AppendIs
  <2>2. CASE p \notin DOMAIN mbox
    BY <2>2
  <2>3. QED
    BY <2>1, <2>2
<1>4. p \in DOMAIN mbox => s = Append(mbox[p], m)
  OBVIOUS
<1>5. s[Len(s)] = m /\ Len(s) \in DOMAIN s
  <2>1. CASE p \in DOMAIN mbox
    <3>1. mbox[p] \in Seq(Msgs)
      BY <1>0, <2>1 DEF TypeOK
    <3>2. QED
      BY <1>2, <2>1, <3>1, AppendIs
  <2>2. CASE p \notin DOMAIN mbox
    <3>1. <<m>>[1] = m /\ Len(<<m>>) = 1
      OBVIOUS
    <3>2. QED
      BY <2>2, <3>1
  <2>3. QED
    BY <2>1, <2>2
<1> HIDE DEF s
<1>6. e \in Summary /\ e.at = Len(s) /\ e.msg = m /\ e.deleted = FALSE
  <2>1. e \in Summary
    BY <1>2, SummaryOf
  <2>2. QED
    BY <2>1
<1> HIDE DEF e
<1>7. reg[p] \in Seq(Summary)
  BY <1>0, <1>1 DEF TypeOK
<1>8. t \in Seq(Summary) /\ \A k \in DOMAIN t : t[k].msg = m \/ \E j \in DOMAIN reg[p] : t[k].msg = reg[p][j].msg
  BY <1>6, <1>7, AppendIs
<1>9. t = Append(reg[p], e)
  OBVIOUS
<1> HIDE DEF t
<1>10. /\ DOMAIN mbox' = DOMAIN mbox \cup {p}
      /\ mbox'[p] = s
      /\ \A x \in DOMAIN mbox \ {p} : mbox'[x] = mbox[x]
  BY <1>1 DEF Put
<1>11. /\ DOMAIN reg' = DOMAIN reg \cup {p}
      /\ reg'[p] = t
      /\ \A x \in DOMAIN reg \ {p} : reg'[x] = reg[x]
  BY <1>1 DEF Put
<1>12. \/ disk' = disk
       \/ /\ DOMAIN disk' = DOMAIN disk \cup {p}
          /\ disk'[p].msgs = t
          /\ disk'[p].box = Len(s)
          /\ \A x \in DOMAIN disk \ {p} : disk'[x] = disk[x]
  BY <1>1, <1>10, SaveIs
<1>13. TypeOK'
  <2>1. p \in (dirs \cup {Root}) \X Names
    BY <1>0, <1>1, Paths
  <2>2. DOMAIN mbox' \cup DOMAIN disk' \subseteq (dirs' \cup {Root}) \X Names
    BY <1>0, <1>1, <1>10, <1>12, <2>1 DEF TypeOK
  <2>3. \A x \in DOMAIN mbox' : mbox'[x] \in Seq(Msgs)
    BY <1>0, <1>2, <1>10 DEF TypeOK
  <2>4. \A x \in DOMAIN disk' : disk'[x].msgs \in Seq(Summary) /\ disk'[x].box \in Nat
    BY <1>0, <1>2, <1>8, <1>12 DEF TypeOK
  <2>5. DOMAIN reg' \subseteq Path /\ \A x \in DOMAIN reg' : reg'[x] \in Seq(Summary)
    BY <1>0, <1>8, <1>11 DEF TypeOK
  <2>6. arrived' \subseteq Msgs /\ gone' \cup risked' \subseteq arrived' /\ mixed' \subseteq Path
    BY <1>0, <1>1 DEF TypeOK
  <2>7. QED
    BY <1>0, <1>1, <2>2, <2>3, <2>4, <2>5, <2>6 DEF TypeOK
<1>14. PathInv'
  BY <1>0, <1>1, <1>10, <1>11, <1>12 DEF PathInv
<1>15. \A x : x # p => From(x, x)
  BY <1>10, <1>11, <1>12 DEF From
<1>16. Held(p)' \subseteq Held(p) \cup {m}
  <2>1. p \in DOMAIN mbox' => \A k \in DOMAIN mbox'[p] : mbox'[p][k] \in Held(p) \cup {m}
    BY <1>0, <1>3, <1>10, HeldIn
  <2>2. \A k \in DOMAIN t : t[k].msg \in Held(p) \cup {m}
    BY <1>0, <1>1, <1>8, HeldIn
  <2>3. p \in DOMAIN disk' => \A k \in DOMAIN disk'[p].msgs : disk'[p].msgs[k].msg \in Held(p) \cup {m}
    BY <1>0, <1>12, <2>2, HeldIn
  <2>4. p \in DOMAIN reg' => \A k \in DOMAIN reg'[p] : reg'[p][k].msg \in Held(p) \cup {m}
    BY <1>11, <2>2
  <2>5. QED
    BY <2>1, <2>3, <2>4, HeldWithin
<1>17. ApartInv'
  <2>1. \A x \in Path \ {p} : Held(x)' \subseteq Held(x)
    <3> SUFFICES ASSUME NEW x \in Path, x # p PROVE Held(x)' \subseteq Held(x)
      OBVIOUS
    <3>1. From(x, x)
      BY <1>15
    <3>2. QED
      BY <3>1, HeldFrom
  <2>2. QED
    BY <1>0, <1>1, <1>16, <2>1, ApartAdd
<1>18. p \in DOMAIN mbox' \ mixed => Own(p)'
  <2> SUFFICES ASSUME p \notin mixed PROVE Own(p)'
    OBVIOUS
  <2> DEFINE u == mbox[p]
             d == disk[p]
  <2>1. p \in DOMAIN mbox /\ Own(p)
    BY <1>0, <1>1 DEF PathInv, OwnInv
  <2>2. /\ p \in DOMAIN disk
        /\ Distinct(u)
        /\ TableOf(d.msgs, u, d.box, gone)
        /\ \A k \in DOMAIN u : k > d.box => u[k] \notin gone
        /\ TableOf(reg[p], u, Len(u), gone)
    BY <1>1, <2>1 DEF Own, Sound
  <2>3. u \in Seq(Msgs) /\ d.box \in Nat
    BY <1>0, <2>1, <2>2 DEF TypeOK
  <2>4. \A k \in DOMAIN u : u[k] \in arrived
    BY <1>0, <2>1, HeldIn DEF ApartInv
  <2>5. m \notin gone
    BY <1>0, <1>1 DEF TypeOK
  <2>6. s = Append(u, m)
    BY <1>4, <2>1
  <2> HIDE DEF u, d
  <2>7. /\ Len(u) \in Nat
        /\ Len(s) = Len(u) + 1
        /\ DOMAIN u = 1 .. Len(u)
        /\ DOMAIN s = 1 .. Len(u) + 1
        /\ \A k \in 1 .. Len(u) : s[k] = u[k]
        /\ s[Len(u) + 1] = m
    BY <2>3, <2>6, AppendIs
  <2>8. \A k \in DOMAIN s : k \in DOMAIN u \/ k = Len(u) + 1
    BY <2>7
  <2>9. Distinct(s)
    <3> SUFFICES ASSUME NEW j \in DOMAIN s, NEW k \in DOMAIN s, s[j] = s[k] PROVE j = k
      BY DEF Distinct
    <3>1. CASE j \in DOMAIN u /\ k \in DOMAIN u
      BY <2>2, <2>7, <3>1 DEF Distinct
    <3>2. CASE j \in DOMAIN u /\ k = Len(u) + 1
      BY <1>1, <2>4, <2>7, <3>2
    <3>3. CASE k \in DOMAIN u /\ j = Len(u) + 1
      BY <1>1, <2>4, <2>7, <3>3
    <3>4. QED
      BY <2>8, <3>1, <3>2, <3>3
  <2>10. TableOf(t, s, Len(s), gone)
    BY <1>6, <1>7, <1>9, <2>2, <2>3, <2>5, <2>6, TableGrows
  <2>11. CASE disk' = disk
    <3>1. TableOf(d.msgs, s, d.box, gone)
      <4>1. d.box <= Len(u) /\ \A k \in 1 .. d.box : k \in 1 .. Len(u)
        BY <2>2, <2>3, <2>7 DEF TableOf
      <4>2. d.box <= Len(s) /\ \A k \in 1 .. d.box : s[k] = u[k]
        BY <2>3, <2>7, <4>1
      <4>3. QED
        BY <2>2, <4>2 DEF TableOf
    <3>2. \A k \in DOMAIN s : k > d.box => s[k] \notin gone
      BY <2>2, <2>5, <2>7, <2>8
    <3>3. Sound(mbox'[p], disk'[p], gone')
      BY <1>1, <1>10, <2>9, <2>11, <3>1, <3>2 DEF Sound, d
    <3>4. QED
      BY <1>1, <1>10, <1>11, <2>2, <2>10, <2>11, <3>3 DEF Own
  <2>12. CASE disk' # disk
    <3>1. disk'[p].msgs = t /\ disk'[p].box = Len(s) /\ p \in DOMAIN disk'
      BY <1>12, <2>12
    <3>2. \A k \in DOMAIN s : ~(k > Len(s))
      BY <2>7
    <3>3. Sound(mbox'[p], disk'[p], gone')
      BY <1>1, <1>10, <2>9, <2>10, <3>1, <3>2 DEF Sound
    <3>4. QED
      BY <1>1, <1>10, <1>11, <2>10, <3>1, <3>3 DEF Own
  <2>13. QED
    BY <2>11, <2>12
<1>19. OwnInv'
  BY <1>0, <1>1, <1>12, <1>15, <1>18, OwnAt
<1>20. MailInv'
  <2> SUFFICES ASSUME NEW a \in arrived' \ (gone' \cup risked')
               PROVE  \E x \in DOMAIN mbox' \ mixed' : \E k \in DOMAIN mbox'[x] : mbox'[x][k] = a
    BY DEF MailInv
  <2>1. CASE a = m
    <3>1. p \notin mixed
      BY <1>1, <2>1
    <3>2. QED
      BY <1>1, <1>5, <1>10, <2>1, <3>1
  <2>2. CASE a # m
    <3>1. PICK x \in DOMAIN mbox \ mixed : \E k \in DOMAIN mbox[x] : mbox[x][k] = a
      BY <1>0, <1>1, <2>2 DEF MailInv
    <3>2. PICK k \in DOMAIN mbox[x] : mbox[x][k] = a
      BY <3>1
    <3>3. x \in DOMAIN mbox' \ mixed'
      BY <1>1, <1>10
    <3>4. CASE x # p
      BY <1>10, <3>2, <3>3, <3>4
    <3>5. CASE x = p
      <4>1. mbox[p] \in Seq(Msgs) /\ s = Append(mbox[p], m)
        BY <1>0, <1>4, <3>5 DEF TypeOK
      <4>2. k \in DOMAIN s /\ s[k] = a
        BY <3>2, <3>5, <4>1, AppendIs
      <4>3. QED
        BY <1>10, <3>3, <3>5, <4>2
    <3>6. QED
      BY <3>4, <3>5
  <2>3. QED
    BY <2>1, <2>2
<1>21. QED
  BY <1>13, <1>14, <1>17, <1>19, <1>20 DEF StoreInv

\* A summary is marked.
LEMMA MarkIs ==
    ASSUME NEW r \in Seq(Summary), NEW k \in DOMAIN r, NEW t, t = [r EXCEPT ![k].deleted = TRUE]
    PROVE  /\ t \in Seq(Summary)
           /\ DOMAIN t = DOMAIN r
           /\ \A j \in DOMAIN r : t[j].at = r[j].at /\ t[j].msg = r[j].msg
           /\ \A j \in DOMAIN r : t[j].deleted <=> r[j].deleted \/ j = k
<1> DEFINE e == [r[k] EXCEPT !.deleted = TRUE]
<1>1. r[k] \in Summary
  OBVIOUS
<1>2. e \in Summary /\ e.at = r[k].at /\ e.msg = r[k].msg /\ e.deleted = TRUE
  BY <1>1 DEF Summary
<1>3. t = [r EXCEPT ![k] = e]
  OBVIOUS
<1> HIDE DEF e
<1>4. /\ DOMAIN t = DOMAIN r
      /\ t[k] = e
      /\ \A j \in DOMAIN r \ {k} : t[j] = r[j]
  BY <1>3
<1>5. t \in Seq(Summary)
  <2>1. Len(r) \in Nat /\ DOMAIN r = 1 .. Len(r) /\ \A j \in DOMAIN r : r[j] \in Summary
    OBVIOUS
  <2>2. t \in [1 .. Len(r) -> Summary]
    BY <1>2, <1>3, <2>1
  <2>3. QED
    BY <2>1, <2>2, SeqDef
<1>6. \A j \in DOMAIN r : t[j].at = r[j].at /\ t[j].msg = r[j].msg
  BY <1>2, <1>4
<1>7. \A j \in DOMAIN r : t[j].deleted <=> r[j].deleted \/ j = k
  BY <1>2, <1>4
<1>8. QED
  BY <1>4, <1>5, <1>6, <1>7

LEMMA DeleteKeeps == ASSUME StoreInv, NEW p \in DOMAIN reg, NEW k \in DOMAIN reg[p], Delete(p, k) PROVE StoreInv'
<1>0. TypeOK /\ PathInv /\ ApartInv /\ OwnInv /\ MailInv
  BY DEF StoreInv
<1> DEFINE r == reg[p]
           t == [r EXCEPT ![k].deleted = TRUE]
<1>1. /\ mbox' = mbox
      /\ reg' = [reg EXCEPT ![p] = t]
      /\ Save(p, t)
      /\ gone' = gone \cup {r[k].msg}
      /\ dirs' = dirs /\ tree' = tree /\ arrived' = arrived /\ mixed' = mixed /\ risked' = risked
      /\ ops' = ops
  BY DEF Delete
<1>2. r \in Seq(Summary) /\ k \in DOMAIN r /\ p \in Path
  BY <1>0 DEF TypeOK
<1>3. r = reg[p]
  OBVIOUS
<1> HIDE DEF r
<1>4. /\ t \in Seq(Summary)
      /\ DOMAIN t = DOMAIN r
      /\ \A j \in DOMAIN r : t[j].at = r[j].at /\ t[j].msg = r[j].msg
      /\ \A j \in DOMAIN r : t[j].deleted <=> r[j].deleted \/ j = k
  BY <1>2, MarkIs
<1> HIDE DEF t
<1>5. DOMAIN reg' = DOMAIN reg /\ reg'[p] = t /\ \A x \in DOMAIN reg \ {p} : reg'[x] = reg[x]
  BY <1>1
<1>6. \/ ~Exists(p) /\ disk' = disk
      \/ /\ Exists(p)
         /\ DOMAIN disk' = DOMAIN disk \cup {p}
         /\ disk'[p].msgs = t
         /\ disk'[p].box = IF p \in DOMAIN mbox THEN Len(mbox[p]) ELSE 0
         /\ \A x \in DOMAIN disk \ {p} : disk'[x] = disk[x]
  BY <1>1, SaveIs
<1>7. r[k].msg \in Held(p) /\ r[k].msg \in arrived
  BY <1>0, <1>2, <1>3, HeldIn DEF ApartInv
<1>8. p \in DOMAIN mbox => mbox[p] \in Seq(Msgs) /\ Len(mbox[p]) \in Nat /\ DOMAIN mbox[p] = 1 .. Len(mbox[p])
  BY <1>0 DEF TypeOK
<1>9. TypeOK'
  <2>1. Exists(p) => p \in (dirs \cup {Root}) \X Names
    BY <1>0, <1>2, Paths
  <2>2. DOMAIN mbox' \cup DOMAIN disk' \subseteq (dirs' \cup {Root}) \X Names
    BY <1>0, <1>1, <1>6, <2>1 DEF TypeOK
  <2>3. \A x \in DOMAIN disk' : disk'[x].msgs \in Seq(Summary) /\ disk'[x].box \in Nat
    BY <1>0, <1>4, <1>6, <1>8 DEF TypeOK
  <2>4. \A x \in DOMAIN reg' : reg'[x] \in Seq(Summary)
    BY <1>0, <1>4, <1>5 DEF TypeOK
  <2>5. QED
    BY <1>0, <1>1, <1>5, <1>7, <2>2, <2>3, <2>4 DEF TypeOK
<1>10. PathInv'
  BY <1>0, <1>1, <1>5, <1>6 DEF PathInv
<1>11. \A x : x # p => From(x, x)
  BY <1>1, <1>5, <1>6 DEF From
<1>12. Held(p)' \subseteq Held(p)
  <2>1. \A j \in DOMAIN t : t[j].msg \in Held(p)
    BY <1>0, <1>3, <1>4, HeldIn
  <2>2. p \in DOMAIN mbox' => \A j \in DOMAIN mbox'[p] : mbox'[p][j] \in Held(p)
    BY <1>0, <1>1, HeldIn
  <2>3. p \in DOMAIN disk' => \A j \in DOMAIN disk'[p].msgs : disk'[p].msgs[j].msg \in Held(p)
    BY <1>0, <1>6, <2>1, HeldIn
  <2>4. p \in DOMAIN reg' => \A j \in DOMAIN reg'[p] : reg'[p][j].msg \in Held(p)
    BY <1>5, <2>1
  <2>5. QED
    BY <2>2, <2>3, <2>4, HeldWithin
<1>13. ApartInv'
  BY <1>0, <1>1, <1>2, <1>11, <1>12, ApartAt
<1>14. p \in DOMAIN mbox' \ mixed => Own(p)'
  <2> SUFFICES ASSUME p \in DOMAIN mbox \ mixed PROVE Own(p)'
    BY <1>1
  <2> DEFINE s == mbox[p]
  <2>1. Distinct(s) /\ TableOf(r, s, Len(s), gone)
    BY <1>0, <1>3 DEF OwnInv, Own, Sound
  <2>2. s \in Seq(Msgs) /\ Len(s) \in Nat /\ DOMAIN s = 1 .. Len(s)
    BY <1>8
  <2>3. s = mbox'[p] /\ s = mbox[p]
    BY <1>1
  <2> HIDE DEF s
  <2>4. /\ DOMAIN r = 1 .. Len(s)
        /\ \A j \in 1 .. Len(s) : r[j].at = j /\ r[j].msg = s[j]
        /\ \A j \in 1 .. Len(s) : r[j].deleted <=> s[j] \in gone
    BY <2>1 DEF TableOf
  <2>5. \A j \in 1 .. Len(s) : s[j] \in gone' <=> s[j] \in gone \/ j = k
    BY <1>1, <1>2, <2>1, <2>2, <2>4 DEF Distinct
  <2>6. TableOf(t, s, Len(s), gone')
    BY <1>4, <2>2, <2>4, <2>5 DEF TableOf
  <2>7. /\ p \in DOMAIN disk'
        /\ disk'[p].msgs = t
        /\ disk'[p].box = Len(s)
    BY <1>0, <1>6, <2>3, Paths
  <2>8. \A j \in DOMAIN s : ~(j > Len(s))
    BY <2>2
  <2>9. Sound(mbox'[p], disk'[p], gone')
    BY <2>1, <2>3, <2>6, <2>7, <2>8 DEF Sound
  <2>10. QED
    BY <1>5, <2>3, <2>6, <2>7, <2>9 DEF Own
<1>15. \A x \in DOMAIN mbox \ (mixed \cup {p}) : \A j \in DOMAIN mbox[x] : mbox[x][j] \in gone' <=> mbox[x][j] \in gone
  <2> SUFFICES ASSUME NEW x \in DOMAIN mbox \ (mixed \cup {p}), NEW j \in DOMAIN mbox[x]
               PROVE  mbox[x][j] # r[k].msg
    BY <1>1
  <2>1. p \in Path \ {x}
    BY <1>2
  <2>2. QED
    BY <1>0, <1>7, <2>1, Elsewhere
<1>16. OwnInv'
  <2>1. DOMAIN disk \subseteq DOMAIN disk'
    BY <1>6
  <2>2. QED
    BY <1>0, <1>1, <1>11, <1>14, <1>15, <2>1, OwnAt
<1>17. MailInv'
  BY <1>0, <1>1 DEF MailInv
<1>18. QED
  BY <1>9, <1>10, <1>13, <1>16, <1>17 DEF StoreInv

LEMMA PlacedIs ==
    ASSUME NEW e \in Summary, NEW n \in Nat \ {0}
    PROVE  /\ [e EXCEPT !.at = n] \in Summary
           /\ [e EXCEPT !.at = n].at = n
           /\ [e EXCEPT !.at = n].msg = e.msg
           /\ [e EXCEPT !.at = n].deleted = e.deleted
BY DEF Summary

\* What a compaction keeps of the table r, the table and the file it makes of
\* that.
Live(r)         == {k \in DOMAIN r : ~r[k].deleted}
LiveOf(r)       == Kept(r, Live(r))
Placed(live)    == [n \in DOMAIN live |-> [live[n] EXCEPT !.at = n]]
Copied(live, s) == [n \in DOMAIN live |-> s[live[n].at]]

\* t and v are the summaries of r that are not deleted and their messages in s;
\* f tells where they were in r.
Compacts(r, s, t, v, f) ==
    /\ t \in Seq(Summary)
    /\ v \in Seq(Msgs)
    /\ DOMAIN v = DOMAIN t
    /\ \A n \in DOMAIN t : t[n].at = n /\ t[n].deleted = FALSE
    /\ \A n \in DOMAIN t : f[n] \in Live(r)
    /\ \A n \in DOMAIN t : t[n].msg = r[f[n]].msg
    /\ \A n \in DOMAIN t : r[f[n]].at \in DOMAIN s /\ v[n] = s[r[f[n]].at]
    /\ \A k \in Live(r) : \E n \in DOMAIN t : f[n] = k
    /\ \A a, b \in DOMAIN t : a < b => f[a] < f[b]

LEMMA CompactIs ==
    ASSUME NEW r \in Seq(Summary), NEW s \in Seq(Msgs),
           \A n \in DOMAIN LiveOf(r) : LiveOf(r)[n].at <= Len(s)
    PROVE  \E f : Compacts(r, s, Placed(LiveOf(r)), Copied(LiveOf(r), s), f)
<1> DEFINE K    == Live(r)
           live == LiveOf(r)
           t    == Placed(live)
           v    == Copied(live, s)
<1>0. live = Kept(r, K)
  BY DEF LiveOf
<1> HIDE DEF live
<1>1. K \in SUBSET DOMAIN r /\ \A k \in K : ~r[k].deleted
  BY DEF Live
<1>2. live \in Seq(Summary) /\ \E f : Places(f, live, r, K)
  BY <1>0, <1>1, KeptSeq
<1>3. PICK f : Places(f, live, r, K)
  BY <1>2
<1>4. Len(live) \in Nat /\ DOMAIN live = 1 .. Len(live)
  BY <1>2
<1>5. /\ \A n \in DOMAIN live : f[n] \in K
      /\ \A n \in DOMAIN live : live[n] = r[f[n]]
      /\ \A k \in K : \E n \in DOMAIN live : f[n] = k
      /\ \A a, b \in DOMAIN live : a < b => f[a] < f[b]
  BY <1>3 DEF Places
<1>6. \A n \in DOMAIN live : live[n] \in Summary /\ live[n].deleted = FALSE
  <2> SUFFICES ASSUME NEW n \in DOMAIN live PROVE live[n] \in Summary /\ live[n].deleted = FALSE
    OBVIOUS
  <2>1. f[n] \in DOMAIN r /\ ~r[f[n]].deleted /\ r[f[n]] \in Summary
    BY <1>1, <1>5
  <2>2. QED
    BY <1>5, <2>1, SummaryFields
<1> DEFINE e(n) == [live[n] EXCEPT !.at = n]
<1>7. \A n \in DOMAIN live : e(n) \in Summary /\ e(n).at = n /\ e(n).msg = live[n].msg /\ e(n).deleted = FALSE
  <2> SUFFICES ASSUME NEW n \in DOMAIN live
               PROVE  e(n) \in Summary /\ e(n).at = n /\ e(n).msg = live[n].msg /\ e(n).deleted = FALSE
    OBVIOUS
  <2>1. n \in Nat \ {0} /\ live[n] \in Summary /\ live[n].deleted = FALSE
    BY <1>4, <1>6
  <2>2. QED
    BY <2>1, PlacedIs
<1>8. t = [n \in DOMAIN live |-> e(n)]
  BY DEF Placed
<1> HIDE DEF e
<1>9. t \in Seq(Summary) /\ DOMAIN t = DOMAIN live /\ \A n \in DOMAIN live : t[n] = e(n)
  <2>1. t \in [1 .. Len(live) -> Summary]
    BY <1>4, <1>7, <1>8
  <2>2. t \in Seq(Summary)
    BY <1>4, <2>1, SeqDef
  <2>3. QED
    BY <1>8, <2>2
<1>10. Len(s) \in Nat /\ DOMAIN s = 1 .. Len(s) /\ \A k \in DOMAIN s : s[k] \in Msgs
  OBVIOUS
<1>11. \A n \in DOMAIN live : live[n].at \in DOMAIN s
  <2>1. \A n \in DOMAIN live : live[n].at <= Len(s)
    BY DEF live
  <2>2. QED
    BY <1>6, <1>10, <2>1, SummaryFields
<1>12. v = [n \in DOMAIN live |-> s[live[n].at]]
  BY DEF Copied
<1> HIDE DEF t, v
<1>13. v \in Seq(Msgs)
  <2>1. v \in [1 .. Len(live) -> Msgs]
    BY <1>4, <1>10, <1>11, <1>12
  <2>2. QED
    BY <1>4, <2>1, SeqDef
<1>14. DOMAIN v = DOMAIN t /\ DOMAIN t = DOMAIN live
  BY <1>9, <1>12
<1>15. \A n \in DOMAIN t : t[n].at = n /\ t[n].deleted = FALSE
  BY <1>7, <1>9
<1>16. \A n \in DOMAIN t : t[n].msg = r[f[n]].msg
  BY <1>5, <1>7, <1>9
<1>17. \A n \in DOMAIN t : r[f[n]].at \in DOMAIN s /\ v[n] = s[r[f[n]].at]
  BY <1>5, <1>11, <1>12, <1>14
<1>18. Compacts(r, s, t, v, f)
  BY <1>5, <1>9, <1>13, <1>14, <1>15, <1>16, <1>17 DEF Compacts
<1>19. QED
  BY <1>18 DEF t, v, live

LEMMA CompactKeeps == ASSUME StoreInv, NEW p \in Path, Compact(p) PROVE StoreInv'
<1>0. TypeOK /\ PathInv /\ ApartInv /\ OwnInv /\ MailInv
  BY DEF StoreInv
<1> DEFINE r == reg[p]
           s == mbox[p]
           t == Placed(LiveOf(r))
           v == Copied(LiveOf(r), s)
<1>1. /\ p \in DOMAIN reg
      /\ p \in DOMAIN mbox
      /\ \A k \in DOMAIN LiveOf(r) : LiveOf(r)[k].at <= Len(s)
      /\ mbox' = Put(mbox, p, v)
      /\ reg' = [reg EXCEPT ![p] = t]
      /\ Save(p, t)
      /\ dirs' = dirs /\ tree' = tree /\ arrived' = arrived /\ gone' = gone /\ mixed' = mixed /\ risked' = risked
      /\ ops' = ops
  BY DEF Compact, hist, LiveOf, Live, Placed, Copied
<1>2. r \in Seq(Summary) /\ s \in Seq(Msgs)
  BY <1>0, <1>1 DEF TypeOK
<1>3. r = reg[p] /\ s = mbox[p] /\ Live(r) = {k \in DOMAIN r : ~r[k].deleted}
  BY DEF Live
<1> HIDE DEF r, s
<1>4. PICK f : Compacts(r, s, t, v, f)
  BY <1>1, <1>2, CompactIs
<1> HIDE DEF t, v
<1>5. /\ t \in Seq(Summary) /\ v \in Seq(Msgs)
      /\ DOMAIN t = DOMAIN v /\ DOMAIN v = 1 .. Len(v) /\ Len(v) \in Nat
      /\ \A n \in DOMAIN t : t[n].at = n /\ t[n].deleted = FALSE
      /\ \A n \in DOMAIN t : t[n].msg = r[f[n]].msg
      /\ \A n \in DOMAIN t : v[n] = s[r[f[n]].at]
  BY <1>4 DEF Compacts
<1>6. /\ \A n \in DOMAIN t : f[n] \in DOMAIN r /\ ~r[f[n]].deleted
      /\ \A a, b \in DOMAIN t : a < b => f[a] < f[b]
  BY <1>3, <1>4 DEF Compacts
<1>7. \A k \in DOMAIN r : ~r[k].deleted => \E n \in DOMAIN t : f[n] = k
  BY <1>3, <1>4 DEF Compacts
<1>8. \A n \in DOMAIN v : \E k \in DOMAIN s : v[n] = s[k]
  BY <1>4 DEF Compacts
<1>9. /\ DOMAIN mbox' = DOMAIN mbox
      /\ mbox'[p] = v
      /\ \A x \in DOMAIN mbox \ {p} : mbox'[x] = mbox[x]
  BY <1>1 DEF Put
<1>10. DOMAIN reg' = DOMAIN reg /\ reg'[p] = t /\ \A x \in DOMAIN reg \ {p} : reg'[x] = reg[x]
  BY <1>1
<1>11. Exists(p) /\ p \in (dirs \cup {Root}) \X Names
  BY <1>0, <1>1, Paths
<1>12. /\ DOMAIN disk' = DOMAIN disk \cup {p}
      /\ disk'[p].msgs = t
      /\ disk'[p].box = Len(v)
      /\ \A x \in DOMAIN disk \ {p} : disk'[x] = disk[x]
  BY <1>1, <1>9, <1>11, SaveIs
<1>13. TypeOK'
  <2>1. DOMAIN mbox' \cup DOMAIN disk' \subseteq (dirs' \cup {Root}) \X Names
    BY <1>0, <1>1, <1>9, <1>11, <1>12 DEF TypeOK
  <2>2. \A x \in DOMAIN mbox' : mbox'[x] \in Seq(Msgs)
    BY <1>0, <1>9, <1>5 DEF TypeOK
  <2>3. \A x \in DOMAIN disk' : disk'[x].msgs \in Seq(Summary) /\ disk'[x].box \in Nat
    BY <1>0, <1>12, <1>5 DEF TypeOK
  <2>4. \A x \in DOMAIN reg' : reg'[x] \in Seq(Summary)
    BY <1>0, <1>10, <1>5 DEF TypeOK
  <2>5. QED
    BY <1>0, <1>1, <1>10, <2>1, <2>2, <2>3, <2>4 DEF TypeOK
<1>14. PathInv'
  BY <1>0, <1>1, <1>9, <1>10, <1>12 DEF PathInv
<1>15. \A x : x # p => From(x, x)
  BY <1>9, <1>10, <1>12 DEF From
<1>16. Held(p)' \subseteq Held(p)
  <2>1. \A n \in DOMAIN t : t[n].msg \in Held(p)
    BY <1>0, <1>1, <1>3, <1>5, <1>6, HeldIn
  <2>2. p \in DOMAIN mbox' => \A n \in DOMAIN mbox'[p] : mbox'[p][n] \in Held(p)
    <3>1. \A k \in DOMAIN s : s[k] \in Held(p)
      BY <1>0, <1>1, <1>3, HeldIn
    <3>2. \A n \in DOMAIN v : v[n] \in Held(p)
      BY <1>8, <3>1
    <3>3. QED
      BY <1>9, <3>2
  <2>3. p \in DOMAIN disk' => \A n \in DOMAIN disk'[p].msgs : disk'[p].msgs[n].msg \in Held(p)
    BY <1>12, <2>1
  <2>4. p \in DOMAIN reg' => \A n \in DOMAIN reg'[p] : reg'[p][n].msg \in Held(p)
    BY <1>10, <2>1
  <2>5. QED
    BY <2>2, <2>3, <2>4, HeldWithin
<1>17. ApartInv'
  BY <1>0, <1>1, <1>15, <1>16, ApartAt
<1>18. p \notin mixed => /\ Distinct(s)
                         /\ Len(s) \in Nat /\ DOMAIN s = 1 .. Len(s)
                         /\ DOMAIN r = 1 .. Len(s)
                         /\ \A k \in 1 .. Len(s) : r[k].at = k /\ r[k].msg = s[k]
                         /\ \A k \in 1 .. Len(s) : r[k].deleted <=> s[k] \in gone
  BY <1>0, <1>1, <1>2, <1>3 DEF OwnInv, Own, Sound, TableOf
<1>19. p \in DOMAIN mbox' \ mixed => Own(p)'
  <2> SUFFICES ASSUME p \notin mixed PROVE Own(p)'
    OBVIOUS
  <2>1. \A n \in DOMAIN t : f[n] \in DOMAIN s /\ v[n] = s[f[n]] /\ t[n].msg = s[f[n]] /\ s[f[n]] \notin gone
    <3> SUFFICES ASSUME NEW n \in DOMAIN t
                 PROVE  f[n] \in DOMAIN s /\ v[n] = s[f[n]] /\ t[n].msg = s[f[n]] /\ s[f[n]] \notin gone
      OBVIOUS
    <3>1. f[n] \in 1 .. Len(s) /\ ~r[f[n]].deleted
      BY <1>6, <1>18
    <3>2. r[f[n]].at = f[n] /\ r[f[n]].msg = s[f[n]] /\ s[f[n]] \notin gone
      BY <1>18, <3>1
    <3>3. QED
      BY <1>5, <1>18, <3>1, <3>2
  <2>2. Distinct(v)
    <3> SUFFICES ASSUME NEW j \in DOMAIN v, NEW k \in DOMAIN v, v[j] = v[k], j # k PROVE FALSE
      BY DEF Distinct
    <3>1. j \in DOMAIN t /\ k \in DOMAIN t /\ j \in Nat /\ k \in Nat
      BY <1>5
    <3>2. f[j] = f[k]
      BY <1>18, <2>1, <3>1 DEF Distinct
    <3>3. f[j] \in Nat
      BY <1>18, <2>1, <3>1
    <3>4. j < k \/ k < j
      BY <3>1
    <3>5. QED
      BY <1>6, <3>1, <3>2, <3>3, <3>4
  <2>3. TableOf(t, v, Len(v), gone)
    <3>1. Len(v) <= Len(v) /\ DOMAIN t = 1 .. Len(v)
      BY <1>5
    <3>2. QED
      BY <1>5, <2>1, <3>1 DEF TableOf
  <2>4. \A k \in DOMAIN v : ~(k > Len(v))
    BY <1>5
  <2>5. Sound(mbox'[p], disk'[p], gone')
    BY <1>1, <1>9, <1>12, <2>2, <2>3, <2>4 DEF Sound
  <2>6. QED
    BY <1>1, <1>9, <1>10, <1>12, <2>3, <2>5 DEF Own
<1>20. OwnInv'
  BY <1>0, <1>1, <1>12, <1>15, <1>19, OwnAt
<1>21. MailInv'
  <2> SUFFICES ASSUME NEW a \in arrived \ (gone \cup risked)
               PROVE  \E x \in DOMAIN mbox' \ mixed' : \E k \in DOMAIN mbox'[x] : mbox'[x][k] = a
    BY <1>1 DEF MailInv
  <2>1. PICK x \in DOMAIN mbox \ mixed : \E k \in DOMAIN mbox[x] : mbox[x][k] = a
    BY <1>0 DEF MailInv
  <2>2. PICK k \in DOMAIN mbox[x] : mbox[x][k] = a
    BY <2>1
  <2>3. x \in DOMAIN mbox' \ mixed'
    BY <1>1, <1>9
  <2>4. CASE x # p
    BY <1>9, <2>2, <2>3, <2>4
  <2>5. CASE x = p
    <3>1. k \in DOMAIN s /\ s[k] = a /\ k \in DOMAIN r /\ ~r[k].deleted
      BY <1>3, <1>18, <2>1, <2>2, <2>5
    <3>2. \E n \in DOMAIN t : f[n] = k
      BY <1>7, <3>1
    <3>3. PICK n \in DOMAIN t : f[n] = k
      BY <3>2
    <3>4. n \in DOMAIN v /\ v[n] = s[r[k].at] /\ r[k].at = k
      BY <1>5, <1>18, <2>1, <2>5, <3>1, <3>3
    <3>5. QED
      BY <1>9, <2>3, <2>5, <3>1, <3>4
  <2>6. QED
    BY <2>4, <2>5
<1>22. QED
  BY <1>13, <1>14, <1>17, <1>20, <1>21 DEF StoreInv

-----------------------------------------------------------------------------
(* The tree                                                                *)

LEMMA MailArrived ==
    ASSUME TypeOK, ApartInv, NEW P
    PROVE  /\ Mail(P) \subseteq arrived
           /\ \A m \in Mail(P) : \E y \in P \cap DOMAIN mbox : m \in Held(y)
<1>1. \A m \in Mail(P) : \E y \in P \cap DOMAIN mbox : m \in Held(y)
  BY InMail, HeldIn
<1>2. \A y \in DOMAIN mbox : Held(y) \subseteq arrived
  BY Paths DEF ApartInv
<1>3. QED
  BY <1>1, <1>2

\* The mail of a path that an operation meets is risked or the path stays as
\* it was.
LEMMA TouchTypes ==
    ASSUME TypeOK, ApartInv, NEW P \in SUBSET Path, Touch(P), arrived' = arrived
    PROVE  /\ mixed \subseteq mixed'
           /\ mixed' \subseteq mixed \cup P
           /\ mixed' \subseteq Path
           /\ risked \subseteq risked'
           /\ risked' \subseteq arrived
<1>1. Mail(P) \subseteq arrived /\ mixed \subseteq Path /\ risked \subseteq arrived
  BY MailArrived DEF TypeOK
<1>2. QED
  BY <1>1, TouchIs

LEMMA CreateMailboxKeeps ==
    ASSUME StoreInv, NEW d \in Folders \cup {Root}, NEW n \in Names, CreateMailbox(d, n)
    PROVE  StoreInv'
<1>0. TypeOK /\ PathInv /\ ApartInv /\ OwnInv /\ MailInv
  BY DEF StoreInv
<1> DEFINE p == <<d, n>>
           e == [msgs |-> <<>>, box |-> 0]
<1>1. /\ Op
      /\ d \in tree.dirs \cup {Root}
      /\ p \notin tree.boxes
      /\ mbox' = Put(mbox, p, <<>>)
      /\ disk' = Put(disk, p, e)
      /\ Touch({p})
      /\ dirs' = dirs /\ reg' = reg /\ arrived' = arrived /\ gone' = gone
      /\ Refresh
  BY DEF CreateMailbox
<1>2. p \in Path /\ p \in (dirs \cup {Root}) \X Names
  BY <1>0, <1>1 DEF Path, PathInv
<1>3. e.msgs = <<>> /\ e.box = 0
  OBVIOUS
<1> HIDE DEF p, e
<1>4. /\ DOMAIN mbox' = DOMAIN mbox \cup {p}
      /\ mbox'[p] = <<>>
      /\ \A x \in DOMAIN mbox \ {p} : mbox'[x] = mbox[x]
  BY <1>1 DEF Put
<1>5. /\ DOMAIN disk' = DOMAIN disk \cup {p}
      /\ disk'[p].msgs = <<>> /\ disk'[p].box = 0
      /\ \A x \in DOMAIN disk \ {p} : disk'[x] = disk[x]
  BY <1>1, <1>3 DEF Put
<1>6. \/ mixed' = mixed \cup {p} /\ risked' = risked \cup Mail({p})
      \/ p \notin DOMAIN reg /\ p \notin mixed /\ mixed' = mixed /\ risked' = risked
  BY <1>1, TouchIs
<1>7. /\ mixed \subseteq mixed' /\ mixed' \subseteq mixed \cup {p} /\ mixed' \subseteq Path
      /\ risked \subseteq risked' /\ risked' \subseteq arrived
  BY <1>0, <1>1, <1>2, TouchTypes
<1>8. p \in DOMAIN mbox => p \in mixed
  BY <1>0, <1>1 DEF PathInv
<1>9. /\ DOMAIN mbox' \cup DOMAIN disk' \subseteq (dirs' \cup {Root}) \X Names
      /\ dirs' \subseteq Folders
  BY <1>0, <1>1, <1>2, <1>4, <1>5 DEF TypeOK
<1>10. /\ tree'.dirs \subseteq Folders /\ tree'.boxes \subseteq Path
       /\ tree'.dirs = dirs' /\ tree'.boxes = DOMAIN mbox'
  BY <1>0, <1>1, <1>9, RefreshIs
<1>11. TypeOK'
  <2>0. <<>> \in Seq(Msgs) /\ <<>> \in Seq(Summary)
    OBVIOUS
  <2>1. \A x \in DOMAIN mbox' : mbox'[x] \in Seq(Msgs)
    BY <1>0, <1>4, <2>0 DEF TypeOK
  <2>2. \A x \in DOMAIN disk' : disk'[x].msgs \in Seq(Summary) /\ disk'[x].box \in Nat
    <3>1. \A x \in DOMAIN disk : disk[x].msgs \in Seq(Summary) /\ disk[x].box \in Nat
      BY <1>0 DEF TypeOK
    <3>2. disk'[p].msgs \in Seq(Summary) /\ disk'[p].box \in Nat
      BY <1>5, <2>0
    <3>3. QED
      BY <1>5, <3>1, <3>2
  <2>3. ops' \in 0 .. MaxOps
    BY <1>0, <1>1, OpType
  <2>4. QED
    BY <1>0, <1>1, <1>7, <1>9, <1>10, <2>1, <2>2, <2>3 DEF TypeOK
<1>12. PathInv'
  BY <1>0, <1>1, <1>4, <1>5, <1>7, <1>10 DEF PathInv
<1>13. \A x : x # p => From(x, x)
  BY <1>1, <1>4, <1>5 DEF From
<1>14. Held(p)' \subseteq Held(p)
  <2>1. \A k \in DOMAIN mbox'[p] : mbox'[p][k] \in Held(p)
    BY <1>4
  <2>2. \A k \in DOMAIN disk'[p].msgs : disk'[p].msgs[k].msg \in Held(p)
    BY <1>5
  <2>3. p \in DOMAIN reg' => \A k \in DOMAIN reg'[p] : reg'[p][k].msg \in Held(p)
    BY <1>0, <1>1, HeldIn
  <2>4. QED
    BY <2>1, <2>2, <2>3, HeldWithin
<1>15. ApartInv'
  BY <1>0, <1>1, <1>2, <1>7, <1>13, <1>14, ApartAt
<1>16. p \in DOMAIN mbox' \ mixed' => Own(p)'
  <2> SUFFICES ASSUME p \notin mixed' PROVE Own(p)'
    OBVIOUS
  <2>1. p \notin DOMAIN reg'
    BY <1>1, <1>6
  <2>2. Sound(<<>>, disk'[p], gone')
    BY <1>5 DEF Sound, Distinct, TableOf
  <2>3. QED
    BY <1>4, <1>5, <2>1, <2>2 DEF Own
<1>17. OwnInv'
  BY <1>0, <1>1, <1>5, <1>7, <1>13, <1>16, OwnAt
<1>18. MailInv'
  <2> SUFFICES ASSUME NEW a \in arrived \ (gone \cup risked')
               PROVE  \E x \in DOMAIN mbox' \ mixed' : \E k \in DOMAIN mbox'[x] : mbox'[x][k] = a
    BY <1>1 DEF MailInv
  <2>1. PICK x \in DOMAIN mbox \ mixed : \E k \in DOMAIN mbox[x] : mbox[x][k] = a
    BY <1>0, <1>7 DEF MailInv
  <2>2. x # p
    BY <1>8, <2>1
  <2>3. x \in DOMAIN mbox' \ mixed' /\ mbox'[x] = mbox[x]
    BY <1>4, <1>7, <2>1, <2>2
  <2>4. QED
    BY <2>1, <2>3
<1>19. QED
  BY <1>11, <1>12, <1>15, <1>17, <1>18 DEF StoreInv

LEMMA DeleteMailboxKeeps == ASSUME StoreInv, NEW p \in Path, DeleteMailbox(p) PROVE StoreInv'
<1>0. TypeOK /\ PathInv /\ ApartInv /\ OwnInv /\ MailInv
  BY DEF StoreInv
<1>1. /\ Op
      /\ mbox' = Drop(mbox, p)
      /\ disk' = Drop(disk, p)
      /\ gone' = gone \cup Mail({p})
      /\ Touch({p})
      /\ dirs' = dirs /\ reg' = reg /\ arrived' = arrived
      /\ Refresh
  BY DEF DeleteMailbox
<1>2. /\ DOMAIN mbox' = DOMAIN mbox \ {p}
      /\ \A x \in DOMAIN mbox \ {p} : mbox'[x] = mbox[x]
      /\ DOMAIN disk' = DOMAIN disk \ {p}
      /\ \A x \in DOMAIN disk \ {p} : disk'[x] = disk[x]
  BY <1>1 DEF Drop
<1>3. \/ p \in mixed'
      \/ p \notin DOMAIN reg /\ mixed' = mixed
  BY <1>1, TouchIs
<1>4. /\ mixed \subseteq mixed' /\ mixed' \subseteq mixed \cup {p} /\ mixed' \subseteq Path
      /\ risked \subseteq risked' /\ risked' \subseteq arrived
  BY <1>0, <1>1, TouchTypes
<1>5. Mail({p}) \subseteq arrived /\ \A m \in Mail({p}) : m \in Held(p)
  BY <1>0, MailArrived
<1>6. /\ DOMAIN mbox' \cup DOMAIN disk' \subseteq (dirs' \cup {Root}) \X Names
      /\ dirs' \subseteq Folders
  BY <1>0, <1>1, <1>2 DEF TypeOK
<1>7. /\ tree'.dirs \subseteq Folders /\ tree'.boxes \subseteq Path
      /\ tree'.dirs = dirs' /\ tree'.boxes = DOMAIN mbox'
  BY <1>0, <1>1, <1>6, RefreshIs
<1>8. TypeOK'
  <2>1. \A x \in DOMAIN mbox' : mbox'[x] \in Seq(Msgs)
    BY <1>0, <1>2 DEF TypeOK
  <2>2. \A x \in DOMAIN disk' : disk'[x].msgs \in Seq(Summary) /\ disk'[x].box \in Nat
    BY <1>0, <1>2 DEF TypeOK
  <2>3. ops' \in 0 .. MaxOps
    BY <1>0, <1>1, OpType
  <2>4. QED
    BY <1>0, <1>1, <1>4, <1>5, <1>6, <1>7, <2>1, <2>2, <2>3 DEF TypeOK
<1>9. PathInv'
  BY <1>0, <1>1, <1>2, <1>3, <1>4, <1>7 DEF PathInv
<1>10. \A x : From(x, x)
  BY <1>1, <1>2 DEF From
<1>11. ApartInv'
  <2>1. Held(p)' \subseteq Held(p)
    BY <1>10, HeldFrom
  <2>2. QED
    BY <1>0, <1>1, <1>4, <1>10, <2>1, ApartAt
<1>12. \A x \in DOMAIN mbox \ (mixed \cup {p}) : \A k \in DOMAIN mbox[x] : mbox[x][k] \in gone' <=> mbox[x][k] \in gone
  <2> SUFFICES ASSUME NEW x \in DOMAIN mbox \ (mixed \cup {p}), NEW k \in DOMAIN mbox[x], mbox[x][k] \in Mail({p})
               PROVE  FALSE
    BY <1>1
  <2>1. p \in Path \ {x} /\ mbox[x][k] \in Held(p)
    BY <1>5
  <2>2. QED
    BY <1>0, <2>1, Elsewhere
<1>13. OwnInv'
  BY <1>0, <1>2, <1>4, <1>10, <1>12, OwnAt
<1>14. MailInv'
  <2> SUFFICES ASSUME NEW a \in arrived \ (gone' \cup risked')
               PROVE  \E x \in DOMAIN mbox' \ mixed' : \E k \in DOMAIN mbox'[x] : mbox'[x][k] = a
    BY <1>1 DEF MailInv
  <2>1. PICK x \in DOMAIN mbox \ mixed : \E k \in DOMAIN mbox[x] : mbox[x][k] = a
    BY <1>0, <1>1, <1>4 DEF MailInv
  <2>2. x # p
    BY <1>1, <2>1, InMail
  <2>3. x \in DOMAIN mbox' \ mixed' /\ mbox'[x] = mbox[x]
    BY <1>2, <1>4, <2>1, <2>2
  <2>4. QED
    BY <2>1, <2>3
<1>15. QED
  BY <1>8, <1>9, <1>11, <1>13, <1>14 DEF StoreInv

LEMMA MovedKeeps ==
    ASSUME StoreInv, NEW p \in Path, NEW q \in Path, p # q,
           Op, p \in DOMAIN mbox, Exists(q), Moved(p, q), UNCHANGED <<dirs, reg, arrived>>, Refresh
    PROVE  StoreInv'
<1>0. TypeOK /\ PathInv /\ ApartInv /\ OwnInv /\ MailInv
  BY DEF StoreInv
<1> DEFINE P == {p, q}
<1>1. /\ mbox' = Put(Drop(mbox, p), q, mbox[p])
      /\ disk' = IF p \in DOMAIN disk THEN Put(Drop(disk, p), q, disk[p]) ELSE disk
      /\ gone' = gone \cup Mail({q})
      /\ Touch(P)
      /\ dirs' = dirs /\ reg' = reg /\ arrived' = arrived
  BY DEF Moved
<1>2. /\ DOMAIN mbox' = (DOMAIN mbox \ {p}) \cup {q}
      /\ mbox'[q] = mbox[p]
      /\ \A x \in DOMAIN mbox \ {p, q} : mbox'[x] = mbox[x]
  BY <1>1 DEF Put, Drop
<1>3. /\ p \in DOMAIN disk => /\ DOMAIN disk' = (DOMAIN disk \ {p}) \cup {q}
                              /\ disk'[q] = disk[p]
                              /\ \A x \in DOMAIN disk \ {p, q} : disk'[x] = disk[x]
      /\ p \notin DOMAIN disk => disk' = disk
  BY <1>1 DEF Put, Drop
<1>4. P \in SUBSET Path
  OBVIOUS
<1>5. \/ /\ mixed' = mixed \cup P
         /\ risked' = risked \cup Mail(P)
      \/ /\ p \notin DOMAIN reg /\ q \notin DOMAIN reg
         /\ p \notin mixed /\ q \notin mixed
         /\ mixed' = mixed /\ risked' = risked
  BY <1>1, TouchIs
<1>6. /\ mixed \subseteq mixed' /\ mixed' \subseteq mixed \cup P /\ mixed' \subseteq Path
      /\ risked \subseteq risked' /\ risked' \subseteq arrived
  BY <1>0, <1>1, <1>4, TouchTypes
<1>7. Mail({q}) \subseteq arrived /\ \A m \in Mail({q}) : m \in Held(q)
  BY <1>0, MailArrived
<1>8. p \notin mixed => p \in DOMAIN disk
  BY <1>0 DEF OwnInv, Own
<1>9. /\ DOMAIN mbox' \cup DOMAIN disk' \subseteq (dirs' \cup {Root}) \X Names
      /\ dirs' \subseteq Folders
  <2>1. q \in (dirs \cup {Root}) \X Names
    BY <1>0, Paths
  <2>2. QED
    BY <1>0, <1>1, <1>2, <1>3, <2>1 DEF TypeOK
<1>10. /\ tree'.dirs \subseteq Folders /\ tree'.boxes \subseteq Path
       /\ tree'.dirs = dirs' /\ tree'.boxes = DOMAIN mbox'
  BY <1>0, <1>9, RefreshIs
<1>11. TypeOK'
  <2>1. \A x \in DOMAIN mbox' : mbox'[x] \in Seq(Msgs)
    BY <1>0, <1>2 DEF TypeOK
  <2>2. \A x \in DOMAIN disk' : disk'[x].msgs \in Seq(Summary) /\ disk'[x].box \in Nat
    BY <1>0, <1>3 DEF TypeOK
  <2>3. ops' \in 0 .. MaxOps
    BY <1>0, OpType
  <2>4. QED
    BY <1>0, <1>1, <1>6, <1>7, <1>9, <1>10, <2>1, <2>2, <2>3 DEF TypeOK
<1>12. PathInv'
  <2>1. \A x \in DOMAIN disk' \ mixed' : x \in DOMAIN mbox'
    BY <1>0, <1>2, <1>3, <1>6, <1>8 DEF PathInv
  <2>2. \A x \in DOMAIN reg' \ mixed' : x \in DOMAIN mbox'
    BY <1>0, <1>1, <1>2, <1>5, <1>6 DEF PathInv
  <2>3. QED
    BY <1>10, <2>1, <2>2 DEF PathInv
<1>13. \A x : x \notin P => From(x, x)
  BY <1>1, <1>2, <1>3 DEF From
<1>14. p \notin DOMAIN mbox' /\ p \notin DOMAIN disk'
  BY <1>2, <1>3
<1>15. \A x \in DOMAIN mbox \ (mixed \cup {q}) : \A k \in DOMAIN mbox[x] : mbox[x][k] \in gone' <=> mbox[x][k] \in gone
  <2> SUFFICES ASSUME NEW x \in DOMAIN mbox \ (mixed \cup {q}), NEW k \in DOMAIN mbox[x], mbox[x][k] \in Mail({q})
               PROVE  FALSE
    BY <1>1
  <2>1. q \in Path \ {x} /\ mbox[x][k] \in Held(q)
    BY <1>7
  <2>2. QED
    BY <1>0, <2>1, Elsewhere
<1>16. \A x \in DOMAIN mbox' \ (mixed' \cup P) : Own(x)'
  <2> SUFFICES ASSUME NEW x \in DOMAIN mbox' \ (mixed' \cup P) PROVE Own(x)'
    OBVIOUS
  <2>1. x \in DOMAIN mbox \ (mixed \cup {p, q})
    BY <1>2, <1>6
  <2>2. x \in DOMAIN disk'
    BY <1>0, <1>3, <2>1 DEF OwnInv, Own
  <2>3. From(x, x) /\ \A k \in DOMAIN mbox[x] : mbox[x][k] \in gone' <=> mbox[x][k] \in gone
    BY <1>13, <1>15, <2>1
  <2>4. QED
    BY <1>0, <2>1, <2>2, <2>3, OwnFrom
<1>17. MailInv'
  <2> SUFFICES ASSUME NEW a \in arrived \ (gone' \cup risked')
               PROVE  \E x \in DOMAIN mbox' \ mixed' : \E k \in DOMAIN mbox'[x] : mbox'[x][k] = a
    BY <1>1 DEF MailInv
  <2>1. PICK x \in DOMAIN mbox \ mixed : \E k \in DOMAIN mbox[x] : mbox[x][k] = a
    BY <1>0, <1>1, <1>6 DEF MailInv
  <2>2. x # q
    BY <1>1, <2>1, InMail
  <2>3. CASE x = p
    <3>1. a \in Mail(P)
      BY <2>1, <2>3, InMail
    <3>2. q \notin mixed'
      BY <1>5, <3>1
    <3>3. QED
      BY <1>2, <2>1, <2>3, <3>2
  <2>4. CASE x # p
    BY <1>2, <1>6, <2>1, <2>2, <2>4
  <2>5. QED
    BY <2>3, <2>4
<1>18. CASE mixed' = mixed \cup P
  <2>1. \A x \in P : \A m \in Held(x)' : \E y \in P : m \in Held(y)
    <3>1. Held(p)' \subseteq Held(p) \cup Held(q)
      <4>1. p \in DOMAIN reg' => \A k \in DOMAIN reg'[p] : reg'[p][k].msg \in Held(p) \cup Held(q)
        BY <1>0, <1>1, HeldIn
      <4>2. QED
        BY <1>14, <4>1, HeldWithin
    <3>2. Held(q)' \subseteq Held(p) \cup Held(q)
      <4>1. \A k \in DOMAIN mbox'[q] : mbox'[q][k] \in Held(p) \cup Held(q)
        BY <1>0, <1>2, HeldIn
      <4>2. q \in DOMAIN disk' => \A k \in DOMAIN disk'[q].msgs : disk'[q].msgs[k].msg \in Held(p) \cup Held(q)
        BY <1>0, <1>3, HeldIn
      <4>3. q \in DOMAIN reg' => \A k \in DOMAIN reg'[q] : reg'[q][k].msg \in Held(p) \cup Held(q)
        BY <1>0, <1>1, HeldIn
      <4>4. QED
        BY <4>1, <4>2, <4>3, HeldWithin
    <3>3. QED
      BY <3>1, <3>2
  <2>2. \A x \in Path \ P : Held(x)' \subseteq Held(x)
    <3> SUFFICES ASSUME NEW x \in Path \ P PROVE Held(x)' \subseteq Held(x)
      OBVIOUS
    <3>1. From(x, x)
      BY <1>13
    <3>2. QED
      BY <3>1, HeldFrom
  <2> HIDE DEF P
  <2>3. ApartInv'
    BY <1>0, <1>1, <1>4, <1>18, <2>1, <2>2, ApartHit
  <2>4. OwnInv'
    BY <1>16, <1>18 DEF OwnInv
  <2>5. QED
    BY <1>11, <1>12, <1>17, <2>3, <2>4 DEF StoreInv
<1>19. CASE /\ p \notin DOMAIN reg /\ q \notin DOMAIN reg
            /\ p \notin mixed /\ q \notin mixed
            /\ mixed' = mixed
  <2>1. From(q, p)
    BY <1>1, <1>2, <1>3, <1>8, <1>19 DEF From
  <2>2. p \in DOMAIN disk /\ q \in DOMAIN disk'
    BY <1>3, <1>8, <1>19
  <2>3. Own(q)'
    <3>1. p \in DOMAIN mbox \ mixed /\ q \in DOMAIN mbox'
      BY <1>2, <1>19
    <3>2. \A k \in DOMAIN mbox[p] : mbox[p][k] \in gone' <=> mbox[p][k] \in gone
      BY <1>15, <1>19
    <3>3. QED
      BY <1>0, <2>1, <2>2, <3>1, <3>2, OwnFrom
  <2>4. OwnInv'
    <3>1. \A x \in DOMAIN mbox' \ mixed' : x = q \/ x \in DOMAIN mbox' \ (mixed' \cup P)
      BY <1>2
    <3>2. \A x \in DOMAIN mbox' \ mixed' : Own(x)'
      BY <1>16, <2>3, <3>1
    <3>3. QED
      BY <3>2 DEF OwnInv
  <2> DEFINE S == Path \ {p}
             F == [x \in S |-> IF x = q THEN p ELSE x]
  <2>5. /\ S \in SUBSET Path /\ F \in [S -> Path]
        /\ \A x, y \in S : F[x] = F[y] => x = y
        /\ \A x \in S \ mixed : F[x] \notin mixed
    BY <1>19
  <2>6. \A x \in S : Held(x)' \subseteq Held(F[x])
    <3> SUFFICES ASSUME NEW x \in S PROVE Held(x)' \subseteq Held(F[x])
      OBVIOUS
    <3>1. From(x, F[x])
      BY <1>13, <2>1
    <3> HIDE DEF F
    <3>2. QED
      BY <3>1, HeldFrom
  <2>7. \A x \in Path \ S : Held(x)' = {}
    <3>0. p \notin DOMAIN reg'
      BY <1>1, <1>19
    <3>1. Held(p)' \subseteq {}
      BY <1>14, <3>0 DEF Held
    <3>2. QED
      BY <3>1
  <2> HIDE DEF S, F
  <2>8. ApartInv'
    BY <1>0, <1>1, <1>19, <2>5, <2>6, <2>7, ApartMoved
  <2>9. QED
    BY <1>11, <1>12, <1>17, <2>4, <2>8 DEF StoreInv
<1>20. QED
  BY <1>5, <1>18, <1>19

LEMMA RenameMailboxKeeps ==
    ASSUME StoreInv, NEW p \in Path, NEW n \in Names, RenameMailbox(p, n) PROVE StoreInv'
<1> DEFINE q == <<p[1], n>>
<1>1. /\ Op /\ p \in DOMAIN mbox /\ n # p[2]
      /\ Moved(p, q)
      /\ UNCHANGED <<dirs, reg, arrived>> /\ Refresh
  BY DEF RenameMailbox
<1>2. q \in Path /\ p # q
  BY <1>1 DEF Path
<1>3. Exists(q)
  <2>1. Exists(p)
    BY <1>1, Paths DEF StoreInv
  <2>2. QED
    BY <2>1 DEF Exists
<1> HIDE DEF q
<1>4. QED
  BY <1>1, <1>2, <1>3, MovedKeeps

LEMMA MoveMailboxKeeps ==
    ASSUME StoreInv, NEW p \in Path, NEW f \in Folders, MoveMailbox(p, f) PROVE StoreInv'
<1> DEFINE q == <<f, p[2]>>
<1>1. /\ Op /\ p \in DOMAIN mbox /\ f \in dirs \ {p[1]}
      /\ Moved(p, q)
      /\ UNCHANGED <<dirs, reg, arrived>> /\ Refresh
  BY DEF MoveMailbox
<1>2. q \in Path /\ p # q
  BY <1>1 DEF Path
<1>3. Exists(q)
  BY <1>1 DEF Exists
<1> HIDE DEF q
<1>4. QED
  BY <1>1, <1>2, <1>3, MovedKeeps

\* Where a file was before a folder f was renamed to g, and the files h after
\* that.
Back(f, g, x) == IF x[1] = g THEN <<f, x[2]>> ELSE x
Renamed(f, g, h) ==
    [p \in {IF q[1] = f THEN <<g, q[2]>> ELSE q : q \in DOMAIN h} |->
        IF p[1] = g THEN h[<<f, p[2]>>] ELSE h[p]]

LEMMA RenamedIs ==
    ASSUME NEW f \in Folders, NEW g \in Folders \ {f}, NEW h, DOMAIN h \subseteq Path,
           \A p \in DOMAIN h : p[1] # g
    PROVE  /\ DOMAIN Renamed(f, g, h) \subseteq Path
           /\ \A x \in Path : x \in DOMAIN Renamed(f, g, h) <=> x[1] # f /\ Back(f, g, x) \in DOMAIN h
           /\ \A x \in DOMAIN Renamed(f, g, h) : Renamed(f, g, h)[x] = h[Back(f, g, x)]
<1> DEFINE To(q) == IF q[1] = f THEN <<g, q[2]>> ELSE q
           D == {To(q) : q \in DOMAIN h}
<1>1. Renamed(f, g, h) = [p \in D |-> IF p[1] = g THEN h[<<f, p[2]>>] ELSE h[p]]
  BY DEF Renamed
<1>2. \A q \in DOMAIN h : q \in Path /\ q[1] # g
  OBVIOUS
<1>3. \A q \in Path : To(q) \in Path /\ q[2] \in Names /\ q = <<q[1], q[2]>>
  BY DEF Path
<1>4. \A q \in Path : To(q)[1] # f
  BY DEF Path
<1>5. \A q \in Path : q[1] # g => Back(f, g, To(q)) = q
  BY DEF Path, Back
<1>6. \A x \in Path : x[1] # f => To(Back(f, g, x)) = x
  BY DEF Path, Back
<1> HIDE DEF To
<1>7. D \subseteq Path
  BY <1>2, <1>3
<1>8. \A x \in Path : x \in D <=> x[1] # f /\ Back(f, g, x) \in DOMAIN h
  <2> SUFFICES ASSUME NEW x \in Path PROVE x \in D <=> x[1] # f /\ Back(f, g, x) \in DOMAIN h
    OBVIOUS
  <2>1. ASSUME x \in D PROVE x[1] # f /\ Back(f, g, x) \in DOMAIN h
    <3>1. PICK q \in DOMAIN h : x = To(q)
      BY <2>1
    <3>2. QED
      BY <1>2, <1>4, <1>5, <3>1
  <2>2. ASSUME x[1] # f, Back(f, g, x) \in DOMAIN h PROVE x \in D
    <3>1. x = To(Back(f, g, x))
      BY <1>6, <2>2
    <3>2. QED
      BY <2>2, <3>1
  <2>3. QED
    BY <2>1, <2>2
<1> HIDE DEF D
<1>9. DOMAIN Renamed(f, g, h) = D
  BY <1>1
<1>10. \A x \in D : Renamed(f, g, h)[x] = h[Back(f, g, x)]
  BY <1>1 DEF Back
<1>11. QED
  BY <1>7, <1>8, <1>9, <1>10

LEMMA RenameFolderKeeps ==
    ASSUME StoreInv, NEW f \in Folders, NEW g \in Folders, RenameFolder(f, g) PROVE StoreInv'
<1>0. TypeOK /\ PathInv /\ ApartInv /\ OwnInv /\ MailInv
  BY DEF StoreInv
<1> DEFINE P == {f, g} \X Names
           B(x) == Back(f, g, x)
<1>1. /\ Op
      /\ f \in tree.dirs /\ g # f
      /\ \A p \in DOMAIN mbox \cup DOMAIN disk : p[1] # g
      /\ mbox' = Renamed(f, g, mbox) /\ disk' = Renamed(f, g, disk)
      /\ dirs' = (dirs \ {f}) \cup {g}
      /\ Touch(P)
      /\ reg' = reg /\ arrived' = arrived /\ gone' = gone
      /\ Refresh
  BY DEF RenameFolder, Renamed
<1>2. P \in SUBSET Path /\ \A x \in Path : x \in P <=> x[1] \in {f, g}
  BY DEF Path
<1>3. \A x \in Path : /\ B(x) \in Path
                      /\ x[1] # g => B(x) = x
                      /\ x[1] = g => B(x) = <<f, x[2]>> /\ B(x)[1] = f /\ B(x) \in P
                      /\ x \notin P => B(x) = x
  BY DEF Path, Back
<1>4. \A x, y \in Path : x[1] # f /\ y[1] # f /\ B(x) = B(y) => x = y
  BY DEF Path, Back
<1>5. \A x \in Path : x[1] = f => <<g, x[2]>> \in Path /\ <<g, x[2]>>[1] = g /\ B(<<g, x[2]>>) = x
  BY DEF Path, Back
<1> HIDE DEF P, B
<1>6. DOMAIN mbox \subseteq Path /\ DOMAIN disk \subseteq Path /\ DOMAIN reg \subseteq Path
  BY <1>0, Paths
<1>7. /\ DOMAIN mbox' \subseteq Path
      /\ \A x \in Path : x \in DOMAIN mbox' <=> x[1] # f /\ B(x) \in DOMAIN mbox
      /\ \A x \in DOMAIN mbox' : mbox'[x] = mbox[B(x)]
  BY <1>1, <1>6, RenamedIs DEF B
<1>8. /\ DOMAIN disk' \subseteq Path
      /\ \A x \in Path : x \in DOMAIN disk' <=> x[1] # f /\ B(x) \in DOMAIN disk
      /\ \A x \in DOMAIN disk' : disk'[x] = disk[B(x)]
  BY <1>1, <1>6, RenamedIs DEF B
<1>9. \/ /\ mixed' = mixed \cup P
         /\ risked' = risked \cup Mail(P)
      \/ /\ P \cap DOMAIN reg = {}
         /\ P \cap mixed = {}
         /\ mixed' = mixed /\ risked' = risked
  BY <1>1, TouchIs
<1>10. /\ mixed \subseteq mixed' /\ mixed' \subseteq mixed \cup P /\ mixed' \subseteq Path
       /\ risked \subseteq risked' /\ risked' \subseteq arrived
  BY <1>0, <1>1, <1>2, TouchTypes
<1>11. /\ DOMAIN mbox' \cup DOMAIN disk' \subseteq (dirs' \cup {Root}) \X Names
       /\ dirs' \subseteq Folders
  <2>1. \A x \in DOMAIN mbox \cup DOMAIN disk : x[1] \in dirs \cup {Root}
    BY <1>0 DEF TypeOK
  <2>2. \A x \in DOMAIN mbox' \cup DOMAIN disk' : x \in Path /\ x[1] # f /\ B(x) \in DOMAIN mbox \cup DOMAIN disk
    BY <1>7, <1>8
  <2>3. \A x \in DOMAIN mbox' \cup DOMAIN disk' : x \in Path /\ x[1] \in dirs' \cup {Root}
    <3> SUFFICES ASSUME NEW x \in DOMAIN mbox' \cup DOMAIN disk' PROVE x[1] \in dirs' \cup {Root}
      BY <2>2
    <3>1. CASE x[1] = g
      BY <1>1, <3>1
    <3>2. CASE x[1] # g
      BY <1>1, <1>3, <2>1, <2>2, <3>2
    <3>3. QED
      BY <3>1, <3>2
  <2>4. \A x \in Path : x[1] \in dirs' \cup {Root} => x \in (dirs' \cup {Root}) \X Names
    BY DEF Path
  <2>5. dirs' \subseteq Folders
    BY <1>0, <1>1 DEF TypeOK
  <2>6. QED
    BY <2>3, <2>4, <2>5
<1>12. /\ tree'.dirs \subseteq Folders /\ tree'.boxes \subseteq Path
       /\ tree'.dirs = dirs' /\ tree'.boxes = DOMAIN mbox'
  BY <1>0, <1>1, <1>11, RefreshIs
<1>13. TypeOK'
  <2>1. \A x \in DOMAIN mbox' : mbox'[x] \in Seq(Msgs)
    BY <1>0, <1>7 DEF TypeOK
  <2>2. \A x \in DOMAIN disk' : disk'[x].msgs \in Seq(Summary) /\ disk'[x].box \in Nat
    BY <1>0, <1>8 DEF TypeOK
  <2>3. ops' \in 0 .. MaxOps
    BY <1>0, <1>1, OpType
  <2>4. QED
    BY <1>0, <1>1, <1>10, <1>11, <1>12, <2>1, <2>2, <2>3 DEF TypeOK
<1>14. \A x \in Path \ P : From(x, x)
  <2> SUFFICES ASSUME NEW x \in Path \ P PROVE From(x, x)
    OBVIOUS
  <2>1. B(x) = x /\ x[1] # f
    BY <1>2, <1>3
  <2>2. QED
    BY <1>1, <1>7, <1>8, <2>1 DEF From
<1>15. CASE mixed' = mixed \cup P /\ risked' = risked \cup Mail(P)
  <2>1. PathInv'
    <3>1. \A x \in DOMAIN disk' \ mixed' : x \in DOMAIN mbox'
      <4> SUFFICES ASSUME NEW x \in DOMAIN disk' \ mixed' PROVE x \in DOMAIN mbox'
        OBVIOUS
      <4>1. x \in Path \ P
        BY <1>8, <1>15
      <4>2. B(x) = x /\ x \in DOMAIN disk /\ x[1] # f
        BY <1>3, <1>8, <4>1
      <4>3. QED
        BY <1>0, <1>7, <1>15, <4>1, <4>2 DEF PathInv
    <3>2. \A x \in DOMAIN reg' \ mixed' : x \in DOMAIN mbox'
      <4> SUFFICES ASSUME NEW x \in DOMAIN reg' \ mixed' PROVE x \in DOMAIN mbox'
        OBVIOUS
      <4>1. x \in Path \ P /\ x \in DOMAIN reg
        BY <1>1, <1>6, <1>15
      <4>2. B(x) = x /\ x[1] # f
        BY <1>2, <1>3, <4>1
      <4>3. QED
        BY <1>0, <1>7, <1>15, <4>1, <4>2 DEF PathInv
    <3>3. QED
      BY <1>12, <3>1, <3>2 DEF PathInv
  <2>2. ApartInv'
    <3>1. \A x \in P : \A m \in Held(x)' : \E y \in P : m \in Held(y)
      <4> SUFFICES ASSUME NEW x \in P PROVE \A m \in Held(x)' : \E y \in P : m \in Held(y)
        OBVIOUS
      <4>1. x \in Path /\ x[1] \in {f, g}
        BY <1>2
      <4>2. x \in DOMAIN mbox' \/ x \in DOMAIN disk' => B(x) \in P
        BY <1>3, <1>7, <1>8, <4>1
      <4>3. Held(x)' \subseteq Held(x) \cup Held(B(x))
        <5>1. x \in DOMAIN mbox' => \A k \in DOMAIN mbox'[x] : mbox'[x][k] \in Held(x) \cup Held(B(x))
          BY <1>0, <1>7, <4>1, HeldIn
        <5>2. x \in DOMAIN disk' => \A k \in DOMAIN disk'[x].msgs : disk'[x].msgs[k].msg \in Held(x) \cup Held(B(x))
          BY <1>0, <1>8, <4>1, HeldIn
        <5>3. x \in DOMAIN reg' => \A k \in DOMAIN reg'[x] : reg'[x][k].msg \in Held(x) \cup Held(B(x))
          BY <1>0, <1>1, HeldIn
        <5>4. QED
          BY <5>1, <5>2, <5>3, HeldWithin
      <4>4. CASE x \in DOMAIN mbox' \/ x \in DOMAIN disk'
        BY <4>2, <4>3, <4>4
      <4>5. CASE x \notin DOMAIN mbox' /\ x \notin DOMAIN disk'
        <5>1. x \in DOMAIN reg' => \A k \in DOMAIN reg'[x] : reg'[x][k].msg \in Held(x)
          BY <1>0, <1>1, HeldIn
        <5>2. Held(x)' \subseteq Held(x)
          BY <4>5, <5>1, HeldWithin
        <5>3. QED
          BY <5>2
      <4>6. QED
        BY <4>4, <4>5
    <3>2. \A x \in Path \ P : Held(x)' \subseteq Held(x)
      <4> SUFFICES ASSUME NEW x \in Path \ P PROVE Held(x)' \subseteq Held(x)
        OBVIOUS
      <4>1. From(x, x)
        BY <1>14
      <4>2. QED
        BY <4>1, HeldFrom
    <3>3. QED
      BY <1>0, <1>1, <1>2, <1>15, <3>1, <3>2, ApartHit
  <2>3. OwnInv'
    <3> SUFFICES ASSUME NEW x \in DOMAIN mbox' \ mixed' PROVE Own(x)'
      BY DEF OwnInv
    <3>1. x \in Path \ P /\ x \notin mixed
      BY <1>7, <1>15
    <3>2. B(x) = x /\ x[1] # f /\ From(x, x)
      BY <1>2, <1>3, <1>14, <3>1
    <3>3. x \in DOMAIN mbox \ mixed
      BY <1>7, <3>1, <3>2
    <3>4. x \in DOMAIN disk'
      BY <1>0, <1>8, <3>1, <3>2, <3>3 DEF OwnInv, Own
    <3>5. QED
      BY <1>0, <1>1, <3>2, <3>3, <3>4, OwnFrom
  <2>4. MailInv'
    <3> SUFFICES ASSUME NEW a \in arrived \ (gone \cup risked')
                 PROVE  \E x \in DOMAIN mbox' \ mixed' : \E k \in DOMAIN mbox'[x] : mbox'[x][k] = a
      BY <1>1 DEF MailInv
    <3>1. PICK x \in DOMAIN mbox \ mixed : \E k \in DOMAIN mbox[x] : mbox[x][k] = a
      BY <1>0, <1>10 DEF MailInv
    <3>2. x \in Path \ P
      BY <1>6, <1>15, <3>1, InMail
    <3>3. B(x) = x /\ x[1] # f
      BY <1>2, <1>3, <3>2
    <3>4. x \in DOMAIN mbox' \ mixed' /\ mbox'[x] = mbox[x]
      BY <1>7, <1>15, <3>1, <3>2, <3>3
    <3>5. QED
      BY <3>1, <3>4
  <2>5. QED
    BY <1>13, <2>1, <2>2, <2>3, <2>4 DEF StoreInv
<1>16. CASE /\ P \cap DOMAIN reg = {}
            /\ P \cap mixed = {}
            /\ mixed' = mixed /\ risked' = risked
  <2> DEFINE S == {x \in Path : x[1] # f}
             F == [x \in S |-> B(x)]
  <2>1. \A x \in S : B(x) \in Path /\ (x \notin mixed => B(x) \notin mixed)
    BY <1>3, <1>16
  <2>2. \A x \in S : From(x, B(x))
    <3> SUFFICES ASSUME NEW x \in S PROVE From(x, B(x))
      OBVIOUS
    <3>1. x \in DOMAIN reg' => B(x) = x
      BY <1>1, <1>2, <1>3, <1>16
    <3>2. QED
      BY <1>1, <1>7, <1>8, <3>1 DEF From
  <2>3. PathInv'
    <3>1. \A x \in DOMAIN disk' \ mixed' : x \in DOMAIN mbox'
      <4> SUFFICES ASSUME NEW x \in DOMAIN disk' \ mixed' PROVE x \in DOMAIN mbox'
        OBVIOUS
      <4>1. x \in S /\ B(x) \in DOMAIN disk
        BY <1>8
      <4>2. B(x) \notin mixed
        BY <1>16, <2>1, <4>1
      <4>3. QED
        BY <1>0, <1>7, <4>1, <4>2 DEF PathInv
    <3>2. \A x \in DOMAIN reg' \ mixed' : x \in DOMAIN mbox'
      <4> SUFFICES ASSUME NEW x \in DOMAIN reg' \ mixed' PROVE x \in DOMAIN mbox'
        OBVIOUS
      <4>1. x \in Path \ P /\ x \in DOMAIN reg \ mixed
        BY <1>1, <1>6, <1>16
      <4>2. B(x) = x /\ x[1] # f
        BY <1>2, <1>3, <4>1
      <4>3. QED
        BY <1>0, <1>7, <4>1, <4>2 DEF PathInv
    <3>3. QED
      BY <1>12, <3>1, <3>2 DEF PathInv
  <2>4. ApartInv'
    <3>1. /\ S \in SUBSET Path /\ F \in [S -> Path]
          /\ \A x, y \in S : F[x] = F[y] => x = y
          /\ \A x \in S \ mixed : F[x] \notin mixed
      BY <1>4, <2>1
    <3>2. \A x \in S : Held(x)' \subseteq Held(F[x])
      <4> SUFFICES ASSUME NEW x \in S PROVE Held(x)' \subseteq Held(F[x])
        OBVIOUS
      <4>1. From(x, F[x])
        BY <2>2
      <4> HIDE DEF F
      <4>2. QED
        BY <4>1, HeldFrom
    <3>3. \A x \in Path \ S : Held(x)' = {}
      <4> SUFFICES ASSUME NEW x \in Path, x[1] = f PROVE Held(x)' = {}
        OBVIOUS
      <4>1. x \notin DOMAIN mbox' /\ x \notin DOMAIN disk'
        BY <1>7, <1>8
      <4>2. x \notin DOMAIN reg'
        BY <1>1, <1>2, <1>16
      <4>3. QED
        BY <4>1, <4>2 DEF Held
    <3> HIDE DEF S, F
    <3>4. QED
      BY <1>0, <1>1, <1>16, <3>1, <3>2, <3>3, ApartMoved
  <2>5. OwnInv'
    <3> SUFFICES ASSUME NEW x \in DOMAIN mbox' \ mixed' PROVE Own(x)'
      BY DEF OwnInv
    <3>1. x \in S /\ B(x) \in DOMAIN mbox
      BY <1>7
    <3>2. B(x) \in DOMAIN mbox \ mixed /\ From(x, B(x))
      BY <1>16, <2>1, <2>2, <3>1
    <3>3. x \in DOMAIN disk'
      BY <1>0, <1>8, <3>1, <3>2 DEF OwnInv, Own
    <3>4. QED
      BY <1>0, <1>1, <3>2, <3>3, OwnFrom
  <2>6. MailInv'
    <3> SUFFICES ASSUME NEW a \in arrived \ (gone \cup risked)
                 PROVE  \E x \in DOMAIN mbox' \ mixed' : \E k \in DOMAIN mbox'[x] : mbox'[x][k] = a
      BY <1>1, <1>16 DEF MailInv
    <3>1. PICK y \in DOMAIN mbox \ mixed : \E k \in DOMAIN mbox[y] : mbox[y][k] = a
      BY <1>0 DEF MailInv
    <3>2. \E x \in Path \ mixed : x[1] # f /\ B(x) = y
      <4>1. y \in Path /\ y[1] # g
        BY <1>1, <1>6, <3>1
      <4>2. CASE y[1] = f
        <5>1. <<g, y[2]>> \in P
          BY <1>2, <1>5, <4>1, <4>2
        <5>2. <<g, y[2]>>[1] # f
          BY <1>1, <1>5, <4>1, <4>2
        <5>3. QED
          BY <1>5, <1>16, <4>1, <4>2, <5>1, <5>2
      <4>3. CASE y[1] # f
        BY <1>3, <3>1, <4>1, <4>3
      <4>4. QED
        BY <4>2, <4>3
    <3>3. PICK x \in Path \ mixed : x[1] # f /\ B(x) = y
      BY <3>2
    <3>4. x \in DOMAIN mbox' \ mixed' /\ mbox'[x] = mbox[y]
      BY <1>7, <1>16, <3>1, <3>3
    <3>5. QED
      BY <3>1, <3>4
  <2>7. QED
    BY <1>13, <2>3, <2>4, <2>5, <2>6 DEF StoreInv
<1>17. QED
  BY <1>9, <1>15, <1>16

LEMMA CreateFolderKeeps == ASSUME StoreInv, NEW f \in Folders, CreateFolder(f) PROVE StoreInv'
<1>0. TypeOK /\ PathInv
  BY DEF StoreInv
<1>1. /\ Op
      /\ dirs' = dirs \cup {f}
      /\ mbox' = mbox /\ disk' = disk /\ reg' = reg
      /\ UNCHANGED hist /\ Refresh
  BY DEF CreateFolder
<1>2. arrived' = arrived /\ gone' = gone /\ mixed' = mixed /\ risked' = risked
  BY <1>1 DEF hist
<1>3. /\ DOMAIN mbox' \cup DOMAIN disk' \subseteq (dirs' \cup {Root}) \X Names
      /\ dirs' \subseteq Folders
  BY <1>0, <1>1 DEF TypeOK
<1>4. /\ tree'.dirs \subseteq Folders /\ tree'.boxes \subseteq Path
      /\ tree'.dirs = dirs' /\ tree'.boxes = DOMAIN mbox'
  BY <1>0, <1>1, <1>3, RefreshIs
<1>5. TypeOK'
  BY <1>0, <1>1, <1>2, <1>3, <1>4, OpType DEF TypeOK
<1>6. PathInv'
  BY <1>0, <1>1, <1>2, <1>4 DEF PathInv
<1>7. QED
  BY <1>1, <1>5, <1>6, QuietKeeps DEF StoreInv

LEMMA DeleteFolderKeeps == ASSUME StoreInv, NEW f \in Folders, DeleteFolder(f) PROVE StoreInv'
<1>0. TypeOK /\ PathInv
  BY DEF StoreInv
<1>1. /\ Op
      /\ \A p \in DOMAIN mbox \cup DOMAIN disk : p[1] # f
      /\ dirs' = dirs \ {f}
      /\ mbox' = mbox /\ disk' = disk /\ reg' = reg
      /\ UNCHANGED hist /\ Refresh
  BY DEF DeleteFolder
<1>2. arrived' = arrived /\ gone' = gone /\ mixed' = mixed /\ risked' = risked
  BY <1>1 DEF hist
<1>3. /\ DOMAIN mbox' \cup DOMAIN disk' \subseteq (dirs' \cup {Root}) \X Names
      /\ dirs' \subseteq Folders
  BY <1>0, <1>1 DEF TypeOK
<1>4. /\ tree'.dirs \subseteq Folders /\ tree'.boxes \subseteq Path
      /\ tree'.dirs = dirs' /\ tree'.boxes = DOMAIN mbox'
  BY <1>0, <1>1, <1>3, RefreshIs
<1>5. TypeOK'
  BY <1>0, <1>1, <1>2, <1>3, <1>4, OpType DEF TypeOK
<1>6. PathInv'
  BY <1>0, <1>1, <1>2, <1>4 DEF PathInv
<1>7. QED
  BY <1>1, <1>5, <1>6, QuietKeeps DEF StoreInv

LEMMA RestKeeps == ASSUME StoreInv, TreeRefresh \/ Exit PROVE StoreInv'
<1>0. TypeOK /\ PathInv
  BY DEF StoreInv
<1>1. /\ dirs' = dirs /\ mbox' = mbox /\ disk' = disk
      /\ reg' = reg \/ reg' = <<>>
      /\ ops' = ops \/ Op
      /\ UNCHANGED hist /\ Refresh
  BY DEF TreeRefresh, Exit
<1>2. arrived' = arrived /\ gone' = gone /\ mixed' = mixed /\ risked' = risked
  BY <1>1 DEF hist
<1>3. DOMAIN reg' \subseteq DOMAIN reg /\ \A x \in DOMAIN reg' : reg'[x] = reg[x]
  BY <1>1
<1>4. /\ DOMAIN mbox' \cup DOMAIN disk' \subseteq (dirs' \cup {Root}) \X Names
      /\ dirs' \subseteq Folders
  BY <1>0, <1>1 DEF TypeOK
<1>5. /\ tree'.dirs \subseteq Folders /\ tree'.boxes \subseteq Path
      /\ tree'.dirs = dirs' /\ tree'.boxes = DOMAIN mbox'
  BY <1>0, <1>1, <1>4, RefreshIs
<1>6. ops' \in 0 .. MaxOps
  BY <1>0, <1>1, OpType DEF TypeOK
<1>7. TypeOK'
  BY <1>0, <1>1, <1>2, <1>3, <1>4, <1>5, <1>6 DEF TypeOK
<1>8. PathInv'
  BY <1>0, <1>1, <1>2, <1>3, <1>5 DEF PathInv
<1>9. QED
  BY <1>1, <1>7, <1>8, QuietKeeps DEF StoreInv

-----------------------------------------------------------------------------
(* The theorems                                                            *)

LEMMA InitStore == Init => StoreInv
<1> SUFFICES ASSUME Init PROVE StoreInv
  OBVIOUS
<1>1. /\ dirs \subseteq Folders
      /\ disk = [p \in DOMAIN mbox |-> [msgs |-> <<>>, box |-> 0]]
      /\ tree = [dirs |-> dirs, boxes |-> DOMAIN mbox]
      /\ reg = <<>>
      /\ arrived = {} /\ gone = {} /\ mixed = {} /\ risked = {}
      /\ ops = 0
  BY DEF Init
<1>2. DOMAIN mbox \subseteq (dirs \cup {Root}) \X Names /\ \A p \in DOMAIN mbox : mbox[p] = <<>>
  BY DEF Init
<1>3. DOMAIN disk = DOMAIN mbox /\ \A p \in DOMAIN disk : disk[p].msgs = <<>> /\ disk[p].box = 0
  BY <1>1
<1>4. DOMAIN reg = {} /\ tree.dirs = dirs /\ tree.boxes = DOMAIN mbox
  BY <1>1
<1>5. <<>> \in Seq(Msgs) /\ <<>> \in Seq(Summary) /\ DOMAIN <<>> = {}
  OBVIOUS
<1>6. DOMAIN mbox \subseteq Path
  BY <1>1, <1>2 DEF Path
<1>7. TypeOK
  <2>1. ops \in 0 .. MaxOps
    BY <1>1, BoundsAssumption
  <2>2. \A p \in DOMAIN mbox : mbox[p] \in Seq(Msgs)
    BY <1>2, <1>5
  <2>3. \A p \in DOMAIN disk : disk[p].msgs \in Seq(Summary) /\ disk[p].box \in Nat
    <3> SUFFICES ASSUME NEW p \in DOMAIN disk PROVE disk[p].msgs \in Seq(Summary) /\ disk[p].box \in Nat
      OBVIOUS
    <3>1. disk[p].msgs = <<>> /\ disk[p].box = 0
      BY <1>3
    <3>2. QED
      BY <1>5, <3>1
  <2>4. QED
    BY <1>1, <1>2, <1>3, <1>4, <1>6, <2>1, <2>2, <2>3 DEF TypeOK
<1>8. PathInv
  BY <1>3, <1>4 DEF PathInv
<1>9. \A x : Held(x) = {}
  BY <1>2, <1>3, <1>4, <1>5 DEF Held
<1>10. ApartInv
  BY <1>9 DEF ApartInv
<1>11. OwnInv
  <2> SUFFICES ASSUME NEW p \in DOMAIN mbox PROVE Own(p)
    BY DEF OwnInv
  <2>1. mbox[p] = <<>> /\ disk[p].msgs = <<>> /\ disk[p].box = 0
    BY <1>2, <1>3
  <2>2. Sound(mbox[p], disk[p], gone)
    BY <2>1 DEF Sound, Distinct, TableOf
  <2>3. QED
    BY <1>3, <1>4, <2>2 DEF Own
<1>12. MailInv
  BY <1>1 DEF MailInv
<1>13. QED
  BY <1>7, <1>8, <1>10, <1>11, <1>12 DEF StoreInv

LEMMA NextStore == StoreInv /\ [Next]_vars => StoreInv'
<1> SUFFICES ASSUME StoreInv, [Next]_vars PROVE StoreInv'
  OBVIOUS
<1>1. CASE UNCHANGED vars
  <2>1. mbox' = mbox /\ disk' = disk /\ reg' = reg /\ UNCHANGED hist
    BY <1>1 DEF vars
  <2>2. ApartInv' /\ OwnInv' /\ MailInv'
    BY <2>1, QuietKeeps
  <2>3. TypeOK' /\ PathInv'
    BY <1>1 DEF StoreInv, TypeOK, PathInv, vars, hist
  <2>4. QED
    BY <2>2, <2>3 DEF StoreInv
<1>2. CASE \E p \in Path : Open(p) \/ Compact(p) \/ DeleteMailbox(p)
  BY <1>2, OpenKeeps, CompactKeeps, DeleteMailboxKeeps
<1>3. CASE \E p \in Path : \E m \in Msgs, save \in BOOLEAN : Add(p, m, save)
  BY <1>3, AddKeeps
<1>4. CASE \E p \in Path : p \in DOMAIN reg /\ \E k \in DOMAIN reg[p] : Delete(p, k)
  BY <1>4, DeleteKeeps
<1>5. CASE \E p \in Path : \/ \E n \in Names : RenameMailbox(p, n)
                           \/ \E f \in Folders : MoveMailbox(p, f)
  BY <1>5, RenameMailboxKeeps, MoveMailboxKeeps
<1>6. CASE \E d \in Folders \cup {Root}, n \in Names : CreateMailbox(d, n)
  BY <1>6, CreateMailboxKeeps
<1>7. CASE \E f \in Folders : \/ CreateFolder(f) \/ DeleteFolder(f)
                              \/ \E g \in Folders : RenameFolder(f, g)
  BY <1>7, CreateFolderKeeps, DeleteFolderKeeps, RenameFolderKeeps
<1>8. CASE TreeRefresh \/ Exit
  BY <1>8, RestKeeps
<1>9. QED
  BY <1>1, <1>2, <1>3, <1>4, <1>5, <1>6, <1>7, <1>8 DEF Next

LEMMA StoreAlways == Spec => []StoreInv
BY InitStore, NextStore, PTL DEF Spec

\* The files, the tables, the tree and the histories are of their types: a file
\* is only where its folder is.
THEOREM StoreTypeOK == Spec => []TypeOK
<1>1. StoreInv => TypeOK
  BY DEF StoreInv
<1>2. QED
  BY <1>1, StoreAlways, PTL

\* A mailbox shows its own mail with the marks the user has set in it, unless an
\* operation on the tree has met an open table at its path.
THEOREM StoreShowsMail == Spec => []ShowsItsMail
<1>1. StoreInv => ShowsItsMail
  <2> SUFFICES ASSUME StoreInv, NEW p \in DOMAIN mbox \ mixed
               PROVE  /\ [k \in DOMAIN Table(p) |-> Table(p)[k].msg] = mbox[p]
                      /\ \A k \in DOMAIN mbox[p] : Table(p)[k].deleted <=> mbox[p][k] \in gone
    BY DEF ShowsItsMail
  <2>1. TypeOK /\ Own(p)
    BY DEF StoreInv, OwnInv
  <2>2. TableOf(Table(p), mbox[p], Len(mbox[p]), gone)
    <3>1. p \in DOMAIN disk /\ Sound(mbox[p], disk[p], gone)
      BY <2>1 DEF Own
    <3>2. CASE p \in DOMAIN reg
      BY <2>1, <3>2 DEF Own, Table
    <3>3. CASE p \notin DOMAIN reg
      BY <2>1, <3>1, <3>3, LoadedOf DEF Table
    <3>4. QED
      BY <3>2, <3>3
  <2> DEFINE t == Table(p)
             s == mbox[p]
  <2>3. s \in Seq(Msgs)
    BY <2>1 DEF TypeOK
  <2> HIDE DEF t, s
  <2>4. /\ DOMAIN s = 1 .. Len(s)
        /\ s = [k \in 1 .. Len(s) |-> s[k]]
    BY <2>3
  <2>5. /\ DOMAIN t = 1 .. Len(s)
        /\ \A k \in 1 .. Len(s) : t[k].msg = s[k]
        /\ \A k \in 1 .. Len(s) : t[k].deleted <=> s[k] \in gone
    BY <2>2 DEF TableOf, t, s
  <2>6. [k \in DOMAIN t |-> t[k].msg] = s
    BY <2>4, <2>5
  <2>7. QED
    BY <2>4, <2>5, <2>6 DEF t, s
<1>2. QED
  BY <1>1, StoreAlways, PTL

\* No mail is lost that was not deleted or replaced, unless it was at a path
\* where an operation on the tree has met an open table.
THEOREM StoreKeepsMail == Spec => []TreeKeepsMail
<1>1. StoreInv => TreeKeepsMail
  <2> SUFFICES ASSUME StoreInv, NEW m \in arrived \ (gone \cup risked) PROVE m \in Mail(Path)
    BY DEF TreeKeepsMail
  <2>1. PICK p \in DOMAIN mbox \ mixed : \E k \in DOMAIN mbox[p] : mbox[p][k] = m
    BY DEF StoreInv, MailInv
  <2>2. p \in Path
    BY Paths DEF StoreInv
  <2>3. QED
    BY <2>1, <2>2, InMail
<1>2. QED
  BY <1>1, StoreAlways, PTL

\* A folder that the tree shows empty is, and can be deleted, unless an
\* operation on the tree has met an open table in it.
THEOREM EmptyFolderDeleted == Spec => []EmptyFolderGoes
<1>1. StoreInv => EmptyFolderGoes
  <2> SUFFICES ASSUME StoreInv, NEW f \in tree.dirs, \A p \in tree.boxes \cup mixed : p[1] # f
               PROVE  f \in dirs /\ \A p \in DOMAIN mbox \cup DOMAIN disk : p[1] # f
    BY DEF EmptyFolderGoes
  <2>1. QED
    BY DEF StoreInv, PathInv
<1>2. QED
  BY <1>1, StoreAlways, PTL
=============================================================================
