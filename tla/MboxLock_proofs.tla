--------------------------- MODULE MboxLock_proofs ---------------------------
(***************************************************************************)
(* Proofs about MboxLock, for any set of processes and any file system.    *)
(***************************************************************************)
EXTENDS MboxLock, TLAPS

\* As long as no race happened, every descriptor that is open is open on the
\* file the name refers to; and a holder always has its flock granted, alone.
\* Without the first part MutualExclusion is not inductive: two holders could
\* hold two different files.
LockInv ==
    /\ TypeOK
    /\ \A p \in Procs : pc[p] = "holding" => locked[fd[p]] = {p}
    /\ ~raced => \A p \in Procs : pc[p] \in {"opened", "holding"} => fd[p] = path

USE NoFileAssumption

\* Every variable of the lock protocol keeps its type.
THEOREM LockTypeOK == Spec => []TypeOK
<1>1. Init => TypeOK
  BY DEF Init, TypeOK
<1>2. TypeOK /\ [Next]_vars => TypeOK'
  <2> SUFFICES ASSUME TypeOK, [Next]_vars PROVE TypeOK'
    OBVIOUS
  <2> USE DEF TypeOK
  <2>1. ASSUME NEW p \in Procs, Open(p) PROVE TypeOK'
    BY <2>1 DEF Open
  <2>2. ASSUME NEW p \in Procs, FlockGranted(p) PROVE TypeOK'
    BY <2>2 DEF FlockGranted
  <2>3. ASSUME NEW p \in Procs, FlockRefused(p) PROVE TypeOK'
    BY <2>3 DEF FlockRefused
  <2>4. ASSUME NEW p \in Procs, Release(p) PROVE TypeOK'
    BY <2>4 DEF Release
  <2>5. ASSUME NEW p \in Procs, RemoveFile(p) PROVE TypeOK'
    BY <2>5 DEF RemoveFile
  <2>6. ASSUME NEW p \in Procs, Crash(p) PROVE TypeOK'
    BY <2>6 DEF Crash
  <2>7. CASE UNCHANGED vars
    BY <2>7 DEF vars
  <2>8. QED
    BY <2>1, <2>2, <2>3, <2>4, <2>5, <2>6, <2>7 DEF Next
<1>3. QED
  BY <1>1, <1>2, PTL DEF Spec

\* The lock excludes until an unlocking process removes the lock file under
\* another one: macmbx_lock and macmbx_unlock, any number of processes.
THEOREM LockExclusion == Spec => []ExclusionUnlessRaced
<1>1. Init => LockInv
  BY DEF Init, LockInv, TypeOK
<1>2. LockInv /\ [Next]_vars => LockInv'
  <2> SUFFICES ASSUME LockInv, [Next]_vars PROVE LockInv'
    OBVIOUS
  <2> USE DEF LockInv, TypeOK
  <2>1. ASSUME NEW p \in Procs, Open(p) PROVE LockInv'
    BY <2>1 DEF Open
  <2>2. ASSUME NEW p \in Procs, FlockGranted(p) PROVE LockInv'
    BY <2>2 DEF FlockGranted
  <2>3. ASSUME NEW p \in Procs, FlockRefused(p) PROVE LockInv'
    BY <2>3 DEF FlockRefused
  <2>4. ASSUME NEW p \in Procs, Release(p) PROVE LockInv'
    BY <2>4 DEF Release
  <2>5. ASSUME NEW p \in Procs, RemoveFile(p) PROVE LockInv'
    BY <2>5 DEF RemoveFile
  <2>6. ASSUME NEW p \in Procs, Crash(p) PROVE LockInv'
    BY <2>6 DEF Crash
  <2>7. CASE UNCHANGED vars
    BY <2>7 DEF vars
  <2>8. QED
    BY <2>1, <2>2, <2>3, <2>4, <2>5, <2>6, <2>7 DEF Next
<1>3. LockInv => ExclusionUnlessRaced
  BY DEF LockInv, ExclusionUnlessRaced, MutualExclusion
<1>4. QED
  BY <1>1, <1>2, <1>3, PTL DEF Spec
=============================================================================
