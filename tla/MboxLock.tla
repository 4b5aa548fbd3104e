------------------------------ MODULE MboxLock ------------------------------
(***************************************************************************)
(* The advisory lock of a mailbox, macmbx_lock and macmbx_unlock           *)
(* (macmbx/macmbx.c); macmbx_store_lock and macmbx_store_unlock            *)
(* (macmbx/macmbx_store.c) are the same code on another path.              *)
(*                                                                         *)
(* The lock is a flock on the file "<mbox>.lock", and unlocking removes    *)
(* that file.  A flock belongs to the file (the inode), not to its name,   *)
(* so every system call is a step of its own: another process may open,    *)
(* lock or remove the name between any two of them.                        *)
(***************************************************************************)
CONSTANTS Procs,      \* processes that use the mailbox
          Inodes,     \* files the file system can hold at once
          NoFile      \* "<mbox>.lock" does not exist, or the descriptor is closed

ASSUME NoFileAssumption == NoFile \notin Inodes

VARIABLES path,       \* the inode "<mbox>.lock" names
          locked,     \* inode -> set of processes whose flock is granted on it
          fd,         \* process -> the inode its descriptor is open on
          pc,         \* process -> where it is in lock / unlock
          raced       \* history: a lock file was removed while someone else had it open

vars == <<path, locked, fd, pc, raced>>

TypeOK ==
    /\ path \in Inodes \cup {NoFile}
    /\ locked \in [Inodes -> SUBSET Procs]
    /\ fd \in [Procs -> Inodes \cup {NoFile}]
    /\ pc \in [Procs -> {"idle", "opened", "holding", "unlocked"}]
    /\ raced \in BOOLEAN
    \* a descriptor is open exactly while macmbx_lock or its caller uses it
    /\ \A p \in Procs : fd[p] # NoFile <=> pc[p] \in {"opened", "holding"}

Init ==
    /\ path = NoFile
    /\ locked = [i \in Inodes |-> {}]
    /\ fd = [p \in Procs |-> NoFile]
    /\ pc = [p \in Procs |-> "idle"]
    /\ raced = FALSE

\* open(lock_path, O_CREAT | O_RDWR): the file the name refers to now, or a new
\* one; an inode is free for a new file when no descriptor keeps it alive.
Open(p) ==
    /\ pc[p] = "idle"
    /\ IF path = NoFile
       THEN \E i \in Inodes : path' = i /\ \A q \in Procs : fd[q] # i
       ELSE UNCHANGED path
    /\ fd' = [fd EXCEPT ![p] = path']
    /\ pc' = [pc EXCEPT ![p] = "opened"]
    /\ UNCHANGED <<locked, raced>>

\* Mutant: the result of flock is ignored (macmbx.c:552).
FlockResultIgnored(p) ==
    /\ pc[p] = "opened"
    /\ locked' = [locked EXCEPT ![fd[p]] = @ \cup {p}]
    /\ pc' = [pc EXCEPT ![p] = "holding"]
    /\ UNCHANGED <<path, fd, raced>>

\* flock(fd, LOCK_EX | LOCK_NB) is granted: lock_fd is set.
FlockGranted(p) ==
    /\ pc[p] = "opened"
    /\ locked[fd[p]] = {}
    /\ locked' = [locked EXCEPT ![fd[p]] = {p}]
    /\ pc' = [pc EXCEPT ![p] = "holding"]
    /\ UNCHANGED <<path, fd, raced>>

\* Mutant: the refused descriptor is not closed (macmbx.c:553).
DescriptorLeaked(p) ==
    /\ pc[p] = "opened"
    /\ locked[fd[p]] # {}
    /\ pc' = [pc EXCEPT ![p] = "idle"]
    /\ UNCHANGED <<path, locked, fd, raced>>

\* flock fails: macmbx_lock closes the descriptor and returns -1.
FlockRefused(p) ==
    /\ pc[p] = "opened"
    /\ locked[fd[p]] # {}
    /\ fd' = [fd EXCEPT ![p] = NoFile]
    /\ pc' = [pc EXCEPT ![p] = "idle"]
    /\ UNCHANGED <<path, locked, raced>>

\* flock(fd, LOCK_UN); close(fd): nobody can tell the two apart.
Release(p) ==
    /\ pc[p] = "holding"
    /\ locked' = [locked EXCEPT ![fd[p]] = @ \ {p}]
    /\ fd' = [fd EXCEPT ![p] = NoFile]
    /\ pc' = [pc EXCEPT ![p] = "unlocked"]
    /\ UNCHANGED <<path, raced>>

\* remove(lock_path): whatever file the name refers to by now.
RemoveFile(p) ==
    /\ pc[p] = "unlocked"
    /\ path' = NoFile
    /\ raced' = (raced \/ \E q \in Procs \ {p} : pc[q] \in {"opened", "holding"} /\ fd[q] = path)
    /\ pc' = [pc EXCEPT ![p] = "idle"]
    /\ UNCHANGED <<locked, fd>>

\* The process dies: the kernel closes its descriptor, the file stays.
Crash(p) ==
    /\ pc[p] # "idle"
    /\ locked' = [i \in Inodes |-> locked[i] \ {p}]
    /\ fd' = [fd EXCEPT ![p] = NoFile]
    /\ pc' = [pc EXCEPT ![p] = "idle"]
    /\ UNCHANGED <<path, raced>>

Next ==
    \E p \in Procs :
        \/ Open(p)
        \/ FlockGranted(p)
        \/ FlockRefused(p)
        \/ Release(p)
        \/ RemoveFile(p)
        \/ Crash(p)

Spec == Init /\ [][Next]_vars

-----------------------------------------------------------------------------

\* macmbx/doc/locking.md promises exclusive access: two processes never both
\* come out of macmbx_lock with the mailbox locked.
MutualExclusion ==
    \A p, q \in Procs : pc[p] = "holding" /\ pc[q] = "holding" => p = q

\* What the code does deliver: the lock excludes as long as no unlocking
\* process removed the lock file while another one was between its open and
\* its own unlock.
ExclusionUnlessRaced == raced \/ MutualExclusion

=============================================================================
