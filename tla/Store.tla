-------------------------------- MODULE Store --------------------------------
(***************************************************************************)
(* The tree of mailboxes and folders (macmbx/macmbx_store.c over           *)
(* macmbx_ops.c) beside the registry of open tables (macmbx/macmbx.c),     *)
(* driven by the mailbox window (src/src/main_eudora.c,                    *)
(* src/src/gtk_mailbox.c).                                                 *)
(*                                                                         *)
(* The operations on the tree work on the disk and read the tree again;    *)
(* none of them looks at the registry, which knows a table by the path its *)
(* mailbox had when it was opened.  A mailbox that is renamed, moved,      *)
(* replaced or deleted under an open table leaves the table at its path:   *)
(* the table is returned for whatever mailbox takes that path next.        *)
(*                                                                         *)
(* Folders hold mailboxes and no folders, and no folder has the name of a  *)
(* mailbox.  An mbox file is a sequence of cells as in Mailbox, here of    *)
(* one cell for a message; what a stale table reads is thus some message   *)
(* or past the end of the file.                                            *)
(***************************************************************************)
EXTENDS Integers, Sequences, FiniteSets, SequencesExt, FiniteSetsExt, Subsequences

CONSTANTS Names,    \* names of mailboxes
          Folders,  \* names of folders
          Msgs,     \* messages, each with a Message-ID of its own
          Root,     \* the directory of the store
          MaxBoxes, \* bound on the mailboxes there are at once
          MaxOps    \* bound on operations on the tree, and on exits

ASSUME RootAssumption == Root \notin Folders
ASSUME BoundsAssumption == MaxBoxes \in Nat /\ MaxOps \in Nat

VARIABLES dirs,    \* folders that exist
          mbox,    \* path -> mbox file, for the mailboxes that exist
          disk,    \* path -> .toc file: [msgs, box]
          tree,    \* what the last refresh has found: folders and paths
          reg,     \* path -> open table
          arrived, \* history: messages appended so far
          gone,    \* history: messages deleted, alone or with their mailbox,
                   \* or in a mailbox that another has replaced
          mixed,   \* history: paths whose files and table may be of two
                   \* mailboxes
          risked,  \* history: messages that have been at such a path
          ops

hist == <<arrived, gone, mixed, risked>>
vars == <<dirs, mbox, disk, tree, reg, hist, ops>>

Path == (Folders \cup {Root}) \X Names

Summary == [at : Nat \ {0}, msg : Msgs, deleted : BOOLEAN]

TypeOK ==
    /\ dirs \subseteq Folders
    /\ tree.dirs \subseteq Folders /\ tree.boxes \subseteq Path
    /\ DOMAIN mbox \cup DOMAIN disk \subseteq (dirs \cup {Root}) \X Names
    /\ DOMAIN reg \subseteq Path
    /\ \A p \in DOMAIN mbox : mbox[p] \in Seq(Msgs)
    /\ \A p \in DOMAIN disk : disk[p].msgs \in Seq(Summary) /\ disk[p].box \in Nat
    /\ \A p \in DOMAIN reg : reg[p] \in Seq(Summary)
    /\ arrived \subseteq Msgs /\ gone \cup risked \subseteq arrived /\ mixed \subseteq Path
    /\ ops \in 0 .. MaxOps

\* Mutant: a file can be made in a folder that is gone.
ExistsAnywhere(p) == TRUE

\* The folder of p is there.
Exists(p) == p[1] \in dirs \cup {Root}

\* f with the value v at p.
Put(f, p, v) == [q \in DOMAIN f \cup {p} |-> IF q = p THEN v ELSE f[q]]
Drop(f, p)   == [q \in DOMAIN f \ {p} |-> f[q]]

Init ==
    /\ dirs \in SUBSET Folders
    /\ mbox \in UNION {[P -> {<<>>}] : P \in SUBSET ((dirs \cup {Root}) \X Names)}
    /\ Cardinality(DOMAIN mbox) <= MaxBoxes
    /\ disk = [p \in DOMAIN mbox |-> [msgs |-> <<>>, box |-> 0]]
    /\ tree = [dirs |-> dirs, boxes |-> DOMAIN mbox]
    /\ reg = <<>>
    /\ arrived = {} /\ gone = {} /\ mixed = {} /\ risked = {}
    /\ ops = 0

-----------------------------------------------------------------------------
(* Tables                                                                  *)

\* macmbx_toc_build of the mbox file s.
Built(s) == [k \in DOMAIN s |-> [at |-> k, msg |-> s[k], deleted |-> FALSE]]

\* The binary search of macmbx_toc_rebuild, in C's indices; a table whose
\* mailbox was replaced under it may not be in the order of its places.
Search(old, at) ==
    LET probe[r \in (0 .. Len(old)) \X (-1 .. Len(old) - 1)] ==
            LET lo  == r[1]
                hi  == r[2]
                mid == (lo + hi) \div 2
            IN  IF lo > hi THEN -1
                ELSE IF old[mid + 1].at < at THEN probe[<<mid + 1, hi>>]
                ELSE IF old[mid + 1].at > at THEN probe[<<lo, mid - 1>>]
                ELSE mid
    IN  probe[<<0, Len(old) - 1>>]

\* macmbx_toc_rebuild: the old summary of the same place, or else the mark of
\* the first with the same Message-ID; all messages are of one length.
Rebuilt(s, old) ==
    [k \in DOMAIN s |->
        LET i    == Search(old, k) + 1
            same == {j \in DOMAIN old : old[j].msg = s[k]}
        IN  IF i \in DOMAIN old THEN old[i]
            ELSE [at |-> k, msg |-> s[k], deleted |-> same # {} /\ old[Min(same)].deleted]]

Valid(t, s) == s # <<>> => /\ t.box = Len(s)
                           /\ \A k \in DOMAIN t.msgs : t.msgs[k].at <= Len(s)

\* What macmbx_toc_open returns for p when p is not in the registry.
Loaded(p) ==
    IF p \notin DOMAIN disk THEN Built(mbox[p])
    ELSE IF Valid(disk[p], mbox[p]) THEN disk[p].msgs
    ELSE Rebuilt(mbox[p], disk[p].msgs)

\* macmbx_toc_save of the table t of p.
Save(p, t) == disk' = IF Exists(p) THEN Put(disk, p, [msgs |-> t, box |-> IF p \in DOMAIN mbox' THEN Len(mbox'[p]) ELSE 0])
                                   ELSE disk

\* A window shows p: macmbx_toc_open.
Open(p) ==
    /\ p \in tree.boxes \cap DOMAIN mbox
    /\ p \notin DOMAIN reg
    /\ reg' = Put(reg, p, Loaded(p))
    /\ UNCHANGED <<dirs, mbox, disk, tree, hist, ops>>

\* A message is put at the end of the mailbox whose table is open at p; fopen
\* makes the file if it is not there.
Add(p, m, save) ==
    /\ p \in DOMAIN reg /\ Exists(p)
    /\ m \notin arrived
    /\ Cardinality(DOMAIN mbox \cup {p}) <= MaxBoxes
    /\ LET s == IF p \in DOMAIN mbox THEN Append(mbox[p], m) ELSE <<m>>
           t == Append(reg[p], [at |-> Len(s), msg |-> m, deleted |-> FALSE])
       IN  /\ mbox' = Put(mbox, p, s)
           /\ reg' = Put(reg, p, t)
           /\ IF save THEN Save(p, t) ELSE disk' = disk
    /\ arrived' = arrived \cup {m}
    /\ risked' = IF p \in mixed THEN risked \cup {m} ELSE risked
    /\ UNCHANGED <<dirs, tree, gone, mixed, ops>>

\* The user deletes a message in the window of p, which saves.
Delete(p, k) ==
    /\ p \in DOMAIN reg
    /\ k \in DOMAIN reg[p] /\ ~reg[p][k].deleted
    /\ LET t == [reg[p] EXCEPT ![k].deleted = TRUE]
       IN  /\ mbox' = mbox
           /\ reg' = [reg EXCEPT ![p] = t]
           /\ Save(p, t)
    /\ gone' = gone \cup {reg[p][k].msg}
    /\ UNCHANGED <<dirs, tree, arrived, mixed, risked, ops>>

\* macmbx_compact of an open table; it gives up when a summary lies past the
\* end of the file.
Compact(p) ==
    /\ p \in DOMAIN reg \cap DOMAIN mbox
    /\ \E k \in DOMAIN reg[p] : reg[p][k].deleted
    /\ LET live == Kept(reg[p], {k \in DOMAIN reg[p] : ~reg[p][k].deleted})
           t    == [k \in DOMAIN live |-> [live[k] EXCEPT !.at = k]]
       IN  /\ \A k \in DOMAIN live : live[k].at <= Len(mbox[p])
           /\ mbox' = Put(mbox, p, [k \in DOMAIN live |-> mbox[p][live[k].at]])
           /\ reg' = [reg EXCEPT ![p] = t]
           /\ Save(p, t)
    /\ UNCHANGED <<dirs, tree, hist, ops>>

-----------------------------------------------------------------------------
(* The tree                                                                *)

Refresh == tree' = [dirs |-> dirs', boxes |-> DOMAIN mbox']

Op == ops < MaxOps /\ ops' = ops + 1

Mail(P) == UNION {ToSet(mbox[p]) : p \in P \cap DOMAIN mbox}

\* The paths P, whose mailboxes an operation takes away, renames or puts in
\* the place of others, with the table of one of them open.
Touch(P) ==
    LET hit == P \cap (DOMAIN reg \cup mixed) # {}
    IN  /\ mixed' = IF hit THEN mixed \cup P ELSE mixed
        /\ risked' = IF hit THEN risked \cup Mail(P) ELSE risked

\* Mutant: the new name is not looked for in the tree (main_eudora.c:1244).
CreateMailboxAnyName(d, n) ==
    /\ Op
    /\ d \in tree.dirs \cup {Root}
    /\ Cardinality(DOMAIN mbox \cup {<<d, n>>}) <= MaxBoxes
    /\ mbox' = Put(mbox, <<d, n>>, <<>>)
    /\ disk' = Put(disk, <<d, n>>, [msgs |-> <<>>, box |-> 0])
    /\ Touch({<<d, n>>})
    /\ UNCHANGED <<dirs, reg, arrived, gone>>
    /\ Refresh

\* macmbx_create, which truncates; the window asks for a name that the tree has
\* nowhere.
CreateMailbox(d, n) ==
    /\ Op
    /\ d \in tree.dirs \cup {Root}
    /\ \A p \in tree.boxes : p[2] # n
    /\ Cardinality(DOMAIN mbox \cup {<<d, n>>}) <= MaxBoxes
    /\ mbox' = Put(mbox, <<d, n>>, <<>>)
    /\ disk' = Put(disk, <<d, n>>, [msgs |-> <<>>, box |-> 0])
    /\ Touch({<<d, n>>})
    /\ UNCHANGED <<dirs, reg, arrived, gone>>
    /\ Refresh

CreateFolder(f) ==
    /\ Op
    /\ f \notin tree.dirs
    /\ dirs' = dirs \cup {f}
    /\ UNCHANGED <<mbox, disk, reg, hist>>
    /\ Refresh

\* Mutant: macmbx_remove leaves the .toc file (macmbx_ops.c:118).
DeleteMailboxNotToc(p) ==
    /\ Op
    /\ p \in tree.boxes
    /\ mbox' = Drop(mbox, p)
    /\ gone' = gone \cup Mail({p})
    /\ Touch({p})
    /\ UNCHANGED <<dirs, disk, reg, arrived>>
    /\ Refresh

\* macmbx_remove of the mbox file and of its .toc.
DeleteMailbox(p) ==
    /\ Op
    /\ p \in tree.boxes
    /\ mbox' = Drop(mbox, p) /\ disk' = Drop(disk, p)
    /\ gone' = gone \cup Mail({p})
    /\ Touch({p})
    /\ UNCHANGED <<dirs, reg, arrived>>
    /\ Refresh

\* Only what the tree shows empty; rmdir then wants no .toc file in it either.
DeleteFolder(f) ==
    /\ Op
    /\ f \in tree.dirs
    /\ \A p \in tree.boxes : p[1] # f
    /\ \A p \in DOMAIN mbox \cup DOMAIN disk : p[1] # f
    /\ dirs' = dirs \ {f}
    /\ UNCHANGED <<mbox, disk, reg, hist>>
    /\ Refresh

\* Mutant: the .toc file stays behind (macmbx_ops.c:133).
MovedWithoutToc(p, q) ==
    /\ mbox' = Put(Drop(mbox, p), q, mbox[p])
    /\ disk' = disk
    /\ gone' = gone \cup Mail({q})
    /\ Touch({p, q})

\* macmbx_rename of p to q, which replaces what is there; a mailbox without a
\* .toc leaves that of q where it is.
Moved(p, q) ==
    /\ mbox' = Put(Drop(mbox, p), q, mbox[p])
    /\ disk' = IF p \in DOMAIN disk THEN Put(Drop(disk, p), q, disk[p]) ELSE disk
    /\ gone' = gone \cup Mail({q})
    /\ Touch({p, q})

RenameMailbox(p, n) ==
    /\ Op
    /\ p \in tree.boxes \cap DOMAIN mbox /\ n # p[2]
    /\ Moved(p, <<p[1], n>>)
    /\ UNCHANGED <<dirs, reg, arrived>>
    /\ Refresh

\* Dropped on a folder.
MoveMailbox(p, f) ==
    /\ Op
    /\ p \in tree.boxes \cap DOMAIN mbox /\ f \in dirs \ {p[1]}
    /\ Moved(p, <<f, p[2]>>)
    /\ UNCHANGED <<dirs, reg, arrived>>
    /\ Refresh

\* rename of a directory, onto none or onto an empty one.
RenameFolder(f, g) ==
    /\ Op
    /\ f \in tree.dirs /\ g \in Folders \ {f}
    /\ \A p \in DOMAIN mbox \cup DOMAIN disk : p[1] # g
    /\ LET Renamed(h) == [p \in {IF q[1] = f THEN <<g, q[2]>> ELSE q : q \in DOMAIN h} |->
                             IF p[1] = g THEN h[<<f, p[2]>>] ELSE h[p]]
       IN  mbox' = Renamed(mbox) /\ disk' = Renamed(disk)
    /\ dirs' = (dirs \ {f}) \cup {g}
    /\ Touch({f, g} \X Names)
    /\ UNCHANGED <<reg, arrived, gone>>
    /\ Refresh

\* gtk_mailbox_tree_refresh after a drop of messages.
TreeRefresh ==
    /\ tree # [dirs |-> dirs, boxes |-> DOMAIN mbox]
    /\ UNCHANGED <<dirs, mbox, disk, reg, hist, ops>>
    /\ Refresh

\* The program ends; nothing is saved then.
Exit ==
    /\ Op
    /\ DOMAIN reg # {}
    /\ reg' = <<>>
    /\ UNCHANGED <<dirs, mbox, disk, hist>>
    /\ Refresh

Next ==
    \/ \E p \in Path :
          \/ Open(p) \/ Compact(p) \/ DeleteMailbox(p)
          \/ \E m \in Msgs, save \in BOOLEAN : Add(p, m, save)
          \/ p \in DOMAIN reg /\ \E k \in DOMAIN reg[p] : Delete(p, k)
          \/ \E n \in Names : RenameMailbox(p, n)
          \/ \E f \in Folders : MoveMailbox(p, f)
    \/ \E d \in Folders \cup {Root}, n \in Names : CreateMailbox(d, n)
    \/ \E f \in Folders : \/ CreateFolder(f) \/ DeleteFolder(f)
                          \/ \E g \in Folders : RenameFolder(f, g)
    \/ TreeRefresh \/ Exit

Spec == Init /\ [][Next]_vars

-----------------------------------------------------------------------------
(* Properties                                                              *)

Table(p) == IF p \in DOMAIN reg THEN reg[p] ELSE Loaded(p)

\* A mailbox shows its own mail with the marks the user has set in it, wherever
\* it has been moved, unless an operation on the tree has met a table that was
\* open at its path, then or before.
ShowsItsMail ==
    \A p \in DOMAIN mbox \ mixed :
        /\ [k \in DOMAIN Table(p) |-> Table(p)[k].msg] = mbox[p]
        /\ \A k \in DOMAIN mbox[p] : Table(p)[k].deleted <=> mbox[p][k] \in gone

\* No mail is lost that was not deleted, alone or with its mailbox, or replaced
\* by a mailbox renamed or moved onto its own, unless it was at such a path: a
\* new mailbox is never made where there is one.
TreeKeepsMail == \A m \in arrived \ (gone \cup risked) : m \in Mail(Path)

\* A folder that the tree shows empty can be deleted, unless it has such a path.
EmptyFolderGoes ==
    \A f \in tree.dirs :
        \/ \E p \in tree.boxes \cup mixed : p[1] = f
        \/ f \in dirs /\ \A p \in DOMAIN mbox \cup DOMAIN disk : p[1] # f
==============================================================================
