------------------------------ MODULE ImapSync ------------------------------
(***************************************************************************)
(* Checking an IMAP account: macmbx_mailer_check_imap makes the In mailbox *)
(* follow the INBOX of a server (macmbx/macmbx_mailer.c, over              *)
(* crispy/crispy_imap.c).  Messages are told apart by the UID in uid_hash, *)
(* which is good for one UIDVALIDITY; the last one seen is kept in a file. *)
(*                                                                         *)
(* The server, the user of In and the disk act between any two steps of a  *)
(* sync.  In is modelled message by message, as in PopCheck: the .toc file *)
(* is valid when it was saved after the last append, and a rebuild gives   *)
(* what was not saved a uid_hash computed from its Message-ID.             *)
(*                                                                         *)
(* from and epoch of a summary are history: the account and UIDVALIDITY    *)
(* its uid_hash belongs to, 0 for mail of other origin or rebuilt.         *)
(***************************************************************************)
EXTENDS Integers, Sequences, FiniteSets, SequencesExt, Subsequences

CONSTANTS Accts,      \* IMAP accounts, all of which deliver to In
          Remote,     \* messages that may arrive on a server
          Local,      \* messages that reach In by other ways
          Home,       \* Remote message -> its account
          WithId,     \* those of all messages that have a Message-ID
          MaxEpoch,   \* bound on UIDVALIDITY
          MaxFaults,  \* bound on crashes, broken connections and failed writes
          MaxChanges  \* bound on what the user of In, other clients and the
                      \* keeper of the server do

Msgs   == Remote \cup Local
MaxUid == Cardinality(Remote)

ASSUME HomeAssumption  == Accts \subseteq Nat \ {0} /\ Home \in [Remote -> Accts]
ASSUME MsgsAssumption  == IsFiniteSet(Remote) /\ Remote \cap Local = {}
ASSUME IdAssumption    == WithId \subseteq Msgs /\ WithId \cap (1 .. MaxUid \cup {0}) = {}
ASSUME BoundAssumption == MaxEpoch \in Nat \ {0} /\ MaxFaults \in Nat /\ MaxChanges \in Nat

VARIABLES inbox,     \* external: account -> set of [uid, msg, state]
          next,      \* external: account -> UID of the next message
          epoch,     \* external: account -> UIDVALIDITY
          arrived,   \* messages that came into being
          open,      \* In is in the registry
          toc,       \* its table
          file,      \* its mbox file
          saved,     \* its .toc file
          validity,  \* account -> UIDVALIDITY in its state file, 0: no file
          pc, acct,  \* the sync and its account
          up,        \* its connection works
          local,     \* summaries of In with a UID when it began
          server,    \* UIDVALIDITY the server answered to SELECT
          listing,   \* what the server listed
          todo,      \* what is left to fetch
          faults,    \* faults so far
          changes,   \* their changes so far
          clean,     \* history: no fault in this sync
          touched,   \* history: messages the user changed during this sync
          binned,    \* history: messages marked deleted by the user, by a merge that could
                     \* not tell whose their UID is, or by a sweep though still current
          reread     \* history: Local messages a rebuild has read from the mbox file

remote == <<inbox, next, epoch>>
box    == <<open, toc, file, saved>>
sync   == <<pc, acct, up, local, server, listing, todo>>
hist   == <<binned, reread>>
vars   == <<remote, arrived, box, validity, sync, faults, changes, clean, touched, hist>>

Uids   == 1 .. MaxUid
States == {"UNREAD", "READ"}
Item   == [uid : Uids, msg : Remote, state : States]
Entry  == [msg : Msgs, uid : Uids \cup {0} \cup WithId, state : States,
           deleted : BOOLEAN, from : Accts \cup {0}, epoch : 0 .. MaxEpoch]

Busy == pc # "idle"

TypeOK ==
    /\ inbox \in [Accts -> SUBSET Item]
    /\ \A a \in Accts : \A r, s \in inbox[a] : r.uid = s.uid => r = s
    /\ next \in [Accts -> 1 .. MaxUid + 1]
    /\ epoch \in [Accts -> 1 .. MaxEpoch] /\ validity \in [Accts -> 0 .. MaxEpoch]
    /\ arrived \subseteq Msgs
    /\ open \in BOOLEAN /\ toc \in Seq(Entry) /\ saved \in Seq(Entry) /\ file \in Seq(Msgs)
    /\ pc \in {"idle", "select", "list", "fetch", "save"}
    /\ acct \in Accts /\ up \in BOOLEAN
    /\ server \in 0 .. MaxEpoch
    /\ todo \subseteq listing /\ listing \subseteq Item
    /\ faults \in 0 .. MaxFaults /\ changes \in 0 .. MaxChanges
    /\ clean \in BOOLEAN
    /\ touched \subseteq Msgs /\ binned \subseteq Msgs /\ reread \subseteq Local
    \* a sync works on an open In, whose table covers the mbox file
    /\ Busy => open
    /\ open => [k \in DOMAIN toc |-> toc[k].msg] = file

Init ==
    /\ inbox = [a \in Accts |-> {}] /\ epoch = [a \in Accts |-> 1] /\ next = [a \in Accts |-> 1]
    /\ arrived = {}
    /\ open = FALSE /\ toc = <<>> /\ file = <<>> /\ saved = <<>>
    /\ validity = [a \in Accts |-> 0]
    /\ pc = "idle" /\ acct \in Accts /\ up = FALSE
    /\ local = <<>> /\ server = 0 /\ listing = {} /\ todo = {}
    /\ faults = 0 /\ changes = 0 /\ clean = TRUE /\ touched = {}
    /\ binned = {} /\ reread = {}

Hit     == faults < MaxFaults /\ faults' = faults + 1
Fault   == Hit /\ clean' = FALSE
NoFault == UNCHANGED <<faults, clean>>

\* The sync returns: its locals are gone.
Return ==
    /\ pc' = "idle" /\ up' = FALSE /\ local' = <<>> /\ server' = 0
    /\ listing' = {} /\ todo' = {} /\ touched' = {} /\ clean' = TRUE
    /\ UNCHANGED acct

-----------------------------------------------------------------------------
(* The In mailbox                                                          *)

\* macmbx_toc_rebuild reads message m from the mbox file.  Its uid_hash is the
\* hash of its Message-ID, which stands for no UID that a server gives and is
\* written m; a saved summary that an earlier rebuild gave the same one lends
\* it its flags.
Rebuilt(m) ==
    LET same == {j \in DOMAIN saved : m \in WithId /\ saved[j].uid = m}
        old  == saved[CHOOSE j \in same : \A k \in same : j <= k]
    IN  [msg |-> m, uid |-> IF m \in WithId THEN m ELSE 0, from |-> 0, epoch |-> 0,
         state   |-> IF same = {} THEN "UNREAD" ELSE old.state,
         deleted |-> IF same = {} THEN FALSE ELSE old.deleted]

\* Mutant: the .toc file is taken as it is.
OpenedUnchecked == IF open THEN toc ELSE saved

\* macmbx_toc_open: the table of the registry, the .toc file if it is valid,
\* or a rebuild of it.
Unsaved == Len(saved) + 1 .. Len(file)
Opened  == IF open THEN toc
           ELSE saved \o [k \in 1 .. Len(file) - Len(saved) |-> Rebuilt(file[Len(saved) + k])]

\* macmbx_delete_message of the summaries K.
Marked(K) == [k \in DOMAIN toc |-> IF k \in K THEN [toc[k] EXCEPT !.deleted = TRUE] ELSE toc[k]]

\* find_toc_index_by_uid: the first summary with the UID.
First(u) == CHOOSE k \in DOMAIN toc : toc[k].uid = u /\ \A j \in 1 .. k - 1 : toc[j].uid # u

\* imap_flags_to_state: the flags of the listing are modelled by their state.

-----------------------------------------------------------------------------
(* The sync                                                                *)

\* In is opened and build_local_uid_list collects its UIDs.
SyncStart(a) ==
    /\ pc = "idle"
    /\ pc' = "select" /\ acct' = a /\ up' = TRUE
    /\ open' = TRUE /\ toc' = Opened
    /\ local' = Kept(toc', {k \in DOMAIN toc' : toc'[k].uid # 0})
    /\ reread' = IF open THEN reread ELSE reread \cup (Local \cap {file[k] : k \in Unsaved})
    /\ UNCHANGED <<remote, arrived, file, saved, validity, server, listing, todo, clean,
                   faults, changes, touched, binned>>

\* No connection, no password, LOGIN or SELECT fails, or FETCH of the listing
\* fails or lists nothing: the sync returns and leaves everything as it is.
GiveUp ==
    /\ pc \in {"select", "list"}
    /\ Return
    /\ IF up /\ ~(pc = "list" /\ inbox[acct] = {}) THEN Hit ELSE UNCHANGED faults
    /\ UNCHANGED <<remote, arrived, box, validity, changes, hist>>

\* UIDVALIDITY differs from the one of the state file.
Resync == validity[acct] # 0 /\ server # validity[acct]

\* Mutant: everything in In goes.
EmptiedOfAll == Marked(DOMAIN toc)

\* The summaries with a UID, marked when the INBOX is empty or was made anew.
WithUid == {k \in DOMAIN toc : toc[k].uid # 0}
Emptied == Marked(WithUid)

\* The messages whose summary is of an INBOX as it is now.  Those of another
\* account are swept with the rest; those of this one when a resync is repeated
\* because the state file could not be written, and each is then fetched again.
Current(e) == e.from # 0 /\ e.epoch = epoch[e.from]
Swept      == {toc[k].msg : k \in {j \in WithUid : Current(toc[j])}}

\* SELECT, and the state file is read.  An empty INBOX empties In.
Select ==
    /\ pc = "select" /\ up
    /\ server' = epoch[acct]
    /\ IF inbox[acct] = {}
       THEN toc' = Emptied /\ binned' = binned \cup Swept /\ pc' = "fetch"
       ELSE UNCHANGED <<toc, binned>> /\ pc' = "list"
    /\ UNCHANGED <<remote, arrived, open, file, saved, validity, acct, up, local, listing, todo,
                   changes, touched, reread>> /\ NoFault

\* Mutants: the locals left when the server's list is used up are forgotten;
\* only UIDs above the highest local one are new.
GoneBelowLast(list) ==
    {e.uid : e \in {f \in ToSet(local) : (\A r \in list : r.uid # f.uid)
                                        /\ \E r \in list : f.uid \in Uids /\ r.uid > f.uid}}
NewAboveHighest(list) ==
    {r \in list : \A e \in ToSet(local) : e.uid \in Uids => r.uid > e.uid}

\* merge_uid_lists: what is only local (a repeated UID is left over too), and
\* what is only remote.
LocalUids == {e.uid : e \in ToSet(local)}
Gone(list) ==
    {u \in LocalUids :
        (\A r \in list : r.uid # u) \/ \E j, k \in DOMAIN local : j # k /\ local[j].uid = u /\ local[k].uid = u}
New(list) == {r \in list : r.uid \notin LocalUids}

\* A UID that several summaries carried at the start of the sync, or one of
\* another account or UIDVALIDITY.  The sync cannot tell.
Ambiguous(u) ==
    \/ \E e \in ToSet(local) : e.uid = u /\ ~(e.from = acct /\ e.epoch = server)
    \/ \E j, k \in DOMAIN local : j # k /\ local[j].uid = u /\ local[k].uid = u

\* FETCH 1:* (UID FLAGS).  After a change of UIDVALIDITY every UID goes and the
\* whole INBOX is fetched; otherwise the merge decides, and the first summary
\* with a UID that is gone is marked.  Without local UIDs nothing is marked.
List ==
    /\ pc = "list" /\ up
    /\ inbox[acct] # {}
    /\ listing' = inbox[acct]
    /\ todo' = IF Resync THEN listing' ELSE New(listing')
    /\ LET merged == {k \in DOMAIN toc : toc[k].uid \in Gone(listing') /\ k = First(toc[k].uid)}
       IN  IF Resync
           THEN toc' = Emptied /\ binned' = binned \cup Swept
           ELSE /\ toc' = Marked(merged)
                /\ binned' = binned \cup {toc[k].msg : k \in {j \in merged : Ambiguous(toc[j].uid)}}
    /\ pc' = "fetch"
    /\ UNCHANGED <<remote, arrived, open, file, saved, validity, acct, up, local, server,
                   changes, touched, reread>> /\ NoFault

Next1 == CHOOSE r \in todo : \A s \in todo : r.uid <= s.uid

\* Mutant: the UID is not noted.
FetchWithoutUid ==
    /\ pc = "fetch" /\ up
    /\ todo # {}
    /\ \E r \in inbox[acct] : r.uid = Next1.uid
    /\ file' = Append(file, Next1.msg)
    /\ toc'  = Append(toc, [msg |-> Next1.msg, uid |-> 0, state |-> Next1.state,
                            deleted |-> FALSE, from |-> acct, epoch |-> server])
    /\ todo' = todo \ {Next1}
    /\ UNCHANGED <<remote, arrived, open, saved, validity, pc, acct, up, local, server, listing,
                   changes, touched, hist>> /\ NoFault

\* FETCH of one message, macmbx_append_message, and its UID is noted.
Fetch ==
    /\ pc = "fetch" /\ up
    /\ todo # {}
    /\ \E r \in inbox[acct] : r.uid = Next1.uid
    /\ file' = Append(file, Next1.msg)
    /\ toc'  = Append(toc, [msg |-> Next1.msg, uid |-> Next1.uid, state |-> Next1.state,
                            deleted |-> FALSE, from |-> acct, epoch |-> server])
    /\ todo' = todo \ {Next1}
    /\ UNCHANGED <<remote, arrived, open, saved, validity, pc, acct, up, local, server, listing,
                   changes, touched, hist>> /\ NoFault

\* The message cannot be fetched, or is no longer there: the loop goes on.
FetchFails ==
    /\ pc = "fetch"
    /\ todo # {}
    /\ IF up /\ \E r \in inbox[acct] : r.uid = Next1.uid THEN Fault ELSE NoFault
    /\ todo' = todo \ {Next1}
    /\ UNCHANGED <<remote, arrived, box, validity, pc, acct, up, local, server, listing,
                   changes, touched, hist>>

\* The states of the messages that both sides had are made those of the server.
Updated ==
    LET Both(k) == /\ ~Resync
                   /\ toc[k].uid \in LocalUids
                   /\ k = First(toc[k].uid)
    IN  [k \in DOMAIN toc |->
           IF \E r \in listing : r.uid = toc[k].uid /\ Both(k)
           THEN [toc[k] EXCEPT !.state = (CHOOSE r \in listing : r.uid = toc[k].uid).state]
           ELSE toc[k]]

\* The loop is over; then save_state: the state file, if it can be written.
SaveState ==
    /\ pc = "fetch" /\ todo = {}
    /\ toc' = Updated
    /\ \/ validity' = [validity EXCEPT ![acct] = server] /\ NoFault
       \/ Fault /\ UNCHANGED validity
    /\ pc' = "save"
    /\ UNCHANGED <<remote, arrived, open, file, saved, acct, up, local, server, listing, todo,
                   changes, touched, hist>>

\* The macmbx_toc_save that ends the sync; its result is not looked at.
SaveToc ==
    /\ pc = "save"
    /\ \/ saved' = toc /\ UNCHANGED faults
       \/ Hit /\ UNCHANGED saved
    /\ Return
    /\ UNCHANGED <<remote, arrived, open, toc, file, validity, changes, hist>>

SyncStep == GiveUp \/ Select \/ List \/ Fetch \/ FetchFails \/ SaveState \/ SaveToc

-----------------------------------------------------------------------------
(* Everything else                                                         *)

Change == changes < MaxChanges /\ changes' = changes + 1

\* A message arrives on the server.
Arrive(m) ==
    /\ m \notin arrived
    /\ arrived' = arrived \cup {m}
    /\ LET a == Home[m] IN
        /\ inbox' = [inbox EXCEPT ![a] = @ \cup {[uid |-> next[a], msg |-> m, state |-> "UNREAD"]}]
        /\ next' = [next EXCEPT ![a] = @ + 1]
    /\ UNCHANGED <<epoch, box, validity, sync, faults, changes, clean, touched, hist>>

\* Another client reads or expunges it.
ReadElsewhere(a, r) ==
    /\ r.state = "UNREAD"
    /\ Change
    /\ inbox' = [inbox EXCEPT ![a] = (@ \ {r}) \cup {[r EXCEPT !.state = "READ"]}]
    /\ UNCHANGED <<next, epoch, arrived, box, validity, sync, faults, clean, touched, hist>>

Expunge(a, r) ==
    /\ Change
    /\ inbox' = [inbox EXCEPT ![a] = @ \ {r}]
    /\ UNCHANGED <<next, epoch, arrived, box, validity, sync, faults, clean, touched, hist>>

\* The INBOX is made anew, with a new UIDVALIDITY and UIDs from 1; nobody has
\* it selected.
NewValidity(a) ==
    /\ epoch[a] < MaxEpoch /\ epoch' = [epoch EXCEPT ![a] = @ + 1]
    /\ Change
    /\ inbox[a] # {}
    /\ ~(acct = a /\ up /\ pc # "select")
    /\ inbox' = [inbox EXCEPT ![a] =
                    {[r EXCEPT !.uid = Cardinality({s \in inbox[a] : s.uid <= r.uid})] : r \in inbox[a]}]
    /\ next' = [next EXCEPT ![a] = 1 + Cardinality(inbox[a])]
    /\ UNCHANGED <<arrived, box, validity, sync, faults, clean, touched, hist>>

LoseConnection ==
    /\ up
    /\ up' = FALSE
    /\ Fault
    /\ UNCHANGED <<remote, arrived, box, validity, pc, acct, local, server, listing, todo,
                   changes, touched, hist>>

\* The program dies or is quit; nothing saves the tables on the way out.
Crash ==
    /\ open
    /\ open' = FALSE /\ toc' = <<>>
    /\ Hit /\ Return
    /\ UNCHANGED <<remote, arrived, file, saved, validity, changes, hist>>

\* Mail of other origin, from a POP account or another mailbox, is appended.
Deliver(m) ==
    /\ m \notin arrived
    /\ arrived' = arrived \cup {m}
    /\ open' = TRUE
    /\ toc' = Append(Opened, [msg |-> m, uid |-> 0, state |-> "UNREAD", deleted |-> FALSE,
                              from |-> 0, epoch |-> 0])
    /\ file' = Append(file, m)
    /\ reread' = IF open THEN reread ELSE reread \cup (Local \cap {file[k] : k \in Unsaved})
    /\ UNCHANGED <<remote, saved, validity, sync, faults, changes, clean, touched, binned>>

Touch(ms) == touched' = IF Busy THEN touched \cup ms ELSE touched

\* The user deletes a message, takes that back, or reads it.
Flag(k, e) ==
    /\ open
    /\ toc[k] # e
    /\ Change
    /\ toc' = [toc EXCEPT ![k] = e]
    /\ Touch({e.msg})
    /\ binned' = IF e.deleted THEN binned \cup {e.msg} ELSE binned
    /\ UNCHANGED <<remote, arrived, open, file, saved, validity, sync, reread>> /\ NoFault
Delete(k)   == Flag(k, [toc[k] EXCEPT !.deleted = TRUE])
Undelete(k) == Flag(k, [toc[k] EXCEPT !.deleted = FALSE])
Open(k)     == Flag(k, [toc[k] EXCEPT !.state = "READ"])

\* The window of In saves its table, whatever the sync is doing.
Save ==
    /\ open /\ Change
    /\ saved' = toc
    /\ UNCHANGED <<remote, arrived, open, toc, file, validity, sync, touched, hist>> /\ NoFault

\* macmbx_compact of In.
Compact ==
    /\ open /\ Change
    /\ \E k \in DOMAIN toc : toc[k].deleted
    /\ toc' = Kept(toc, {k \in DOMAIN toc : ~toc[k].deleted})
    /\ file' = [k \in DOMAIN toc' |-> toc'[k].msg]
    /\ saved' = toc'
    /\ Touch({toc[k].msg : k \in {j \in DOMAIN toc : toc[j].deleted}})
    /\ UNCHANGED <<remote, arrived, open, validity, sync, hist>> /\ NoFault

Next ==
    \/ \E a \in Accts : SyncStart(a) \/ NewValidity(a)
    \/ SyncStep
    \/ \E m \in Remote : Arrive(m)
    \/ \E a \in Accts : \E r \in inbox[a] : ReadElsewhere(a, r) \/ Expunge(a, r)
    \/ LoseConnection \/ Crash
    \/ \E m \in Local : Deliver(m)
    \/ \E k \in DOMAIN toc : Delete(k) \/ Undelete(k) \/ Open(k)
    \/ Save \/ Compact

Spec == Init /\ [][Next]_vars

-----------------------------------------------------------------------------
(* Properties                                                              *)

CleanEnd == pc = "save" /\ SaveToc /\ clean /\ faults' = faults

\* After a sync without a fault every message that was listed and still exists
\* is in In, live unless `binned', in the state the server gave,
\* whatever crashed or was changed, saved or compacted before.
InboxMirrored ==
    [][CleanEnd =>
        \A r \in listing : Ambiguous(r.uid) \/ r.msg \in touched \/ (\A s \in inbox[acct] : s.uid # r.uid)
            \/ \E k \in DOMAIN toc :
                  /\ toc[k].msg = r.msg /\ toc[k].uid = r.uid
                  /\ toc[k].deleted => r.msg \in binned
                  /\ toc[k].state = r.state]_vars

\* After it no live message of In has a UID that the server did not list.
ExpungedGo ==
    [][CleanEnd =>
        \A k \in DOMAIN toc :
            \/ toc[k].deleted \/ toc[k].uid = 0 \/ toc[k].msg \in touched \/ Ambiguous(toc[k].uid)
            \/ \E r \in listing : r.uid = toc[k].uid]_vars

\* A message is fetched again only after a crash or a change of UIDVALIDITY.
Copies(m) == Cardinality({k \in DOMAIN file : file[k] = m})
RefetchNeedsCause == \A m \in Remote : Copies(m) <= faults + epoch[Home[m]]

\* Mail that did not come from an IMAP server is marked deleted by a sync only
\* after a rebuild has given it a uid_hash.
LocalKept ==
    [][SyncStep => \A k \in DOMAIN toc :
          toc[k].msg \in Local \ reread => toc'[k].deleted = toc[k].deleted]_vars

\* macmbx_mailer.c:867: an empty INBOX deletes "all local IMAP msgs" of the
\* account.  A sync sweeps only what came from its account.
SweepsOwn ==
    [][SyncStep => \A k \in DOMAIN toc :
          toc'[k].deleted # toc[k].deleted => toc[k].msg \in Remote /\ Home[toc[k].msg] = acct]_vars

=============================================================================
