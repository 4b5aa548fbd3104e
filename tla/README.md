# gEudora mail store and mail transport in TLA+

gEudora is a GTK port of the Eudora mail client. Its own core is in two C
libraries, `macmbx` (mailboxes, tables of contents, the mailer) and `crispy`
(POP3, SMTP, IMAP, MIME), which `src/src/` ties to a GTK user interface with an
idle scheduler and background threads. This directory holds TLA+ models of that
core, the TLC configurations that check them and proofs that TLAPS checks.

Paths below are relative to the repository. "The table" of a mailbox is its
`MacmbxTOC`; the `.toc` file is the table on disk.

## 1. Inventory

### 1.1 The parts

| Part | State it keeps | Operations |
|---|---|---|
| Mailbox lock (`macmbx/macmbx.c:543-571`, `macmbx_store.c`) | the file `<mbox>.lock`, a flock on it, `toc->lock_fd` | lock, unlock |
| Mailbox (`macmbx.c`, `macmbx_build.c`, `macmbx_compact.c`, `macmbx_ops.c`) | mbox file, `.toc` file, table in memory, `dirty`, `next_serial`, registry of open tables | create, open (load, validate, rebuild with salvage), append, delete, undelete, set state, sort, save, compact, close |
| POP check (`macmbx_mailer.c:1095-1253`, `crispy_pop3.c`) | the session, the server's maildrop, the LMOS file (UIDLs already seen), In | STAT, UIDL, RETR, duplicate test, append, LMOS mark, DELE, QUIT, save |
| IMAP sync (`macmbx_mailer.c:640-1093`, `crispy_imap.c`) | In, `uid_hash` of its summaries, the UIDVALIDITY file | SELECT, UID merge, delete, fetch, update of states, save |
| Delivery: filters, junk, transfer (`macmbx_filter.c`, `macmbx_junk.c`, `macmbx_ops.c:27-85`) | the rules, the score of a summary, two mailboxes | apply rules, score, move to Junk, mark as junk or not, copy, move |
| Out queue and sender (`macmbx_mailer.c:360-503`, `crispy_smtp.c`, `src/idle_scheduler.c`) | Out, `need_send`, `send_in_progress`, `being_written` | queue, tag with an account, cancel, request, send round over all accounts |
| IMAP IDLE (`macmbx_mailer.c:1282-1476`) | `idle[]` slots, one thread each | start, stop, reconnect, wait, sync |
| Idle scheduler (`src/idle_scheduler.c`) | `need_check`, `need_send`, `need_notify`, two in-progress flags, `Offline` | requests, 500 ms tick, check thread, callbacks, offline switch and its prompt |
| Store tree (`macmbx_store.c`, `macmbx_ops.c:91-135`) | the tree as last read, files and folders, the registry | create, delete, rename, move, refresh, lock |
| Account checks in parallel (`macmbx_mailer_check`) | one thread per account | start, join; called by nothing |
| Threading and dedup (`macmbx_thread.c`) | none between calls | build threads, find a duplicate |
| Codecs (`crispy_msg.c`, `crispy_rfc822.c`, ...) | none | parse, format, encode |
| Tables of the user (`macmbx_conf.c`, `macmbx_nicknames.c`, ...) | one file each | load, edit, save |
| GTK application, editor, legacy Eudora code | windows, documents | not part of the mail core |

`PROJECT.json` lists every part with its files and whether it is modelled.

### 1.2 How the parts interact

* The main thread runs the GTK loop and works on In, Out and any other open
  mailbox directly: flags, saves, queueing, transfers, and the
  operations on the tree of mailboxes.
* A 500 ms timer (`idle_scheduler_tick`) turns `need_check` and `need_send` into
  a thread each. At most one check thread and one send thread run at a time;
  one thread per IMAP account waits in IDLE beside them. The check thread
  passes over accounts that have one.
* An account is checked by `macmbx_mailer_check_account`, for POP or IMAP, on
  whatever thread calls it: the check thread, an IDLE thread after a push, or
  the main thread, which syncs each IMAP account before it starts its thread.
  The check ends with the filters and the junk scorer over the whole of In.
* All threads reach a mailbox through `macmbx_toc_open`, which returns the
  table of the registry when the mailbox is open. So the threads share the
  tables of In and Out, with no lock. The only guard is `toc->being_written`,
  which makes a second `macmbx_toc_save` return -1; no caller looks at that.
* The registry knows a table by the path of its mailbox; the operations on the
  tree change paths and never look at the registry.
* Threads report to the main loop with `need_notify` and with callbacks given to
  `g_idle_add`.
* Disk and servers change step by step. A check writes the mbox file, the LMOS
  file, the server's maildrop (at QUIT) and the `.toc` file, in that order; a
  sync the mbox file, the UIDVALIDITY file and the `.toc` file; a send round
  changes the server, message by message, and then the `.toc` file.
* Quitting the program saves nothing: `macmbx_registry_close_all` is called by
  nobody in the application. A quit is a crash as far as tables are concerned.

### 1.3 What is hard about it

* **Two descriptions of one file.** Offsets and lengths in the table must agree
  with an mbox file that grows at each append and is rewritten by each
  compaction, across saves that may not happen. Validation knows only sizes.
* **Steps that are not atomic.** Append and save, rename and save, transmission
  and save, append, LMOS mark, DELE and QUIT.
* **Work by two threads on one table**, by index: the send loop, the filters,
  the sync.
* **Lost answers.** A reply lost after DATA, a QUIT that does not arrive, a push
  that comes with another line.
* **Silent refusals.** The results of `macmbx_toc_save`, `crispy_pop3_dele`,
  `macmbx_transfer` in a rule and, for the deletion on the server, of
  `macmbx_append_message` are ignored.
* **Names that change meaning.** A UID after a change of UIDVALIDITY or in
  another account, an index after a compaction, a path after a rename.

`PROJECT.json` "hazards" lists these line by line, with the properties that
cover them, and for the others why none does or the module that is planned to.

### 1.4 What makes each part correct

* Lock: two processes do not both hold it.
* Mailbox: the table describes the file; what nobody deleted stays; serial
  numbers do not repeat; an orderly close can be reopened without a rebuild.
* POP check: mail is on the server or in In at every moment; copies have a
  cause; a check without faults receives all; a check ends.
* Out: SENT means sent; copies have a cause; what is queued stays queued and is
  sent when asked for.
* IMAP: after a sync In mirrors INBOX and nothing else in In is touched.
* Delivery: filing a message loses none and doubles none that one thread has in
  hand; a judgement of the user stands.
* IDLE, scheduler: offline means no connections, online every account is looked
  after by one thread; a request is served; what arrives is shown.
* Store tree: a mailbox shows its own mail; no operation loses mail it was not
  asked to delete.
* Threads: every message is in exactly one thread.

## 2. The modules

| Module | What it is |
|---|---|
| `MboxLock` | the lock, system call by system call |
| `MboxLock_proofs` | its type invariant and its exclusion theorem |
| `MessageStore` | abstract: what a mailbox promises, without files |
| `Mailbox` | one mailbox in detail; `INSTANCE`s `MessageStore` as `Store` |
| `Mailbox_proofs` | all its invariants, and that it implements `MessageStore` |
| `Subsequences` | what a pass that drops elements leaves of a sequence |
| `PopCheck` | a POP check with the server, In, the LMOS file and the user |
| `PopCheck_proofs` | all its safety properties |
| `ImapSync` | an IMAP sync with the servers, In, the UIDVALIDITY files and the user |
| `ImapSync_proofs` | all its safety properties, for several accounts too |
| `Delivery` | the end of a check: filters, scorer, move to Junk, and the user |
| `Delivery_proofs` | all its safety properties |
| `SendQueue` | Out, the user, the send thread and the SMTP servers |
| `SendQueue_proofs` | its four invariants |
| `IdleScheduler` | the main loop, the check thread, the IDLE threads, the offline switch |
| `IdleScheduler_proofs` | its four invariants |
| `Store` | the tree of mailboxes beside the registry of open tables |
| `Store_proofs` | all its invariants |
| `MC...` | small instances for TLC: sizes, Message-IDs, accounts, rules, symmetry |

How they fit together: `Mailbox` has one mailbox byte range by byte range, and
shows when a `.toc` file is valid and what a rebuild gives. The modules above it
take that for granted and have a mailbox message by message. `IdleScheduler`
decides which thread checks which account when, with a check as two steps;
`PopCheck` and `ImapSync` have the steps inside it; `Delivery` has what follows
the save that ends them; `SendQueue` has the send thread, of which `IdleScheduler`
has only the end. `Store` has mailboxes by their paths.

`PROJECT.json` "map" gives the source lines of every definition. Operators that
begin with the comment "Mutant:" are plausible bugs, not part of a model: each
is the body some definition would have with that bug, and shows that a property
notices it.

### MboxLock

A process is `idle`, `opened` (between `open` and `flock`), `holding` or
`unlocked` (between `close` and `remove`). A flock belongs to an inode, so the
model has inodes and the one name `<mbox>.lock`: `Open` takes the inode the name
refers to or makes a new one. `Crash` closes the descriptor and leaves the file.
`macmbx_store_lock` is the same code on `.store.lock`. Nothing in the
application calls either lock; the library offers them to its users.

### Mailbox

The mbox file is a sequence of cells, `Size[m]` of them for message `m`; only the
first one of a message can be recognised by a scan (it is the "From " line).
Offsets and lengths count cells. A summary keeps offset, length, `msg_id_hash`,
the deleted flag and the serial number; `id` stands for what the list shows.
`Search` is the binary search of the salvage code in C's indices, because
`macmbx_sort` may have left the old table in another order.

The scan of `macmbx_toc_build` and the copy loop of `macmbx_compact` are one step
per turn, and the program may die between any two steps. `pc = "renamed"` is the
moment in `macmbx_compact` between the rename of the mbox file and the save of
the `.toc` file. The constant `TornCompact` says whether a crash or a failed save
may strike there: with it the mailbox is not correct (see 4), so runs without it
show what holds otherwise, and runs with it what is left.

Two assumptions on constants keep the two special values apart from the rest:
`NoToc` is no `.toc` file and `Closed` no set of marked messages.

Left out: the copy that replaces a failed rename, an append that is written in
part, the 16-bit message count of the `.toc` file, label and priority fields.
Bodies with a line that begins with "From " are left out too: a message is what
the scan would find.

### PopCheck

In is modelled message by message: the `.toc` file is valid exactly when it was
saved after the last append or compaction, which is what `Mailbox` shows for
compactions that are not torn. What matters here is which summaries have a
`msg_id_hash`: those a rebuild made, since `macmbx_append_message` sets none.

`StartCheck` stands for connect, STAT, UIDL and `macmbx_toc_open`; `leave` is the
leave-on-server setting of the session, which the user may change between two
checks. The loop over the messages is one action per outcome and takes its steps
in the order of the code, append, then LMOS mark, or append, then DELE. Deletions
happen on the server when QUIT arrives. A broken connection (`LoseConnection`)
makes every later command fail, and the loop goes on to its end as the code does.
Meanwhile mail arrives, and the user flags, saves and compacts In.

### ImapSync

A summary has its `uid_hash`; `from` and `epoch`, which the code does not have,
say for the properties which account and UIDVALIDITY it is good for. A rebuild
gives a message a `uid_hash` made of its Message-ID, written as the message
itself, since it is no UID that a server gives.

`SyncStart` opens In and collects its UIDs before the connection is made, so
what the user does between that and the listing is not seen. `Select` is SELECT,
with the sweep of an empty INBOX; `List` the listing and the merge, with the
marks it leads to; `Fetch` one message, and the loop goes on when one fails;
`SaveState` the update of states and the UIDVALIDITY file; `SaveToc` the save.
A hash that happens to be the UID of a message (`IdAssumption`) is left out.
The states of several flags are reduced to read and unread. Other clients read
and expunge, INBOX may be made anew with a new UIDVALIDITY and UIDs from 1, and
the user deletes, undeletes, reads, saves and compacts at any moment.

Things the code does that the properties have to allow for, and that a reader
should know:

* A summary with a UID of an earlier UIDVALIDITY stays, deleted, until In is
  compacted, and its UID may be that of a new message. That message is then not
  fetched, or the deleted summary is updated in its place (`Ambiguous`).
* A sync that cannot write the state file after a new UIDVALIDITY does the resync
  again: the next one marks deleted what this one has fetched, though it is still
  current, and fetches it anew. If that fetch fails, or a crash takes back what it
  got, the message stays deleted in In although the server has it, and no later
  sync notices, since its UID is there (`Swept`, part of `binned`).
* A UID that two summaries carry survives the merge on the local side: one step
  of the merge takes one of each list. The first summary is deleted although
  the server has the message (`binned`).
* The sweep of an empty INBOX and the resync take the mail of other accounts
  too, which is still current for them (`Swept`; finding 2).
* The local deletion of a message is not told to the server; nor are states,
  and a sync makes a message that was read here unread again.
* The highest UID written to the state file is read by nothing.
* `goto save_state` from the sweep of an empty INBOX jumps over the
  initialisation of `remote_uids` and `remote_count`, which the code there
  reads and frees. What the build makes of that is in the model only as a crash
  at that moment.
* The state file has the name of the LMOS file, so an account whose type
  changes reads the one as the other. Types do not change in the model.

### Delivery

A summary keeps its hash, its mark and its score. The threads that check
(`Checkers`, any number: the check thread and IDLE threads) and the main thread
work on the same tables, and between any two steps of one the others may go on.
The steps are those between which the code reads or writes files, calls back, or
looks at a summary again:

* a check is at a step of the filters (`Match`, `Act` or `File` for each action of
  the rule, `NoMatch`), of the scorer, or of the move to Junk. `i` is the index the
  code works with, not a message: after a compaction it may mean another one, or
  none;
* `macmbx_transfer` is three steps, `xfer` says at which a thread is: the message
  is read and appended (`Appends`, or `AppendFails`, which the callers ignore),
  the copy is described as the original is by then (`Describe`), and a move marks
  the original (`Mark`). The looks at the delete mark that lead to it
  (`macmbx_junk.c:193`, `macmbx_filter.c:430`) are before them, in `IsSpam` and
  `Skipped`, and are not repeated;
* the score of a message is a test (`WantsScore`), the reads and the call of the
  scorer (`ScoreReads`), and the write (`Judge`), which does not test again;
* a drag, or a junk mark, of the user is the same transfer on the main thread,
  and then the saves (`UserSaves`); the other commands of the user are one step.

In is saved after the filters and after the move; the mailboxes mail was moved to
are not, and a crash leaves their `.toc` files short.

Nothing in the code keeps two threads from having the same message in hand
(`Holds`): from the start of a transfer to its mark, or from the test to the write
of a score. What happens to such a message is in the model like everything else,
and finding 12 says what it is. The history `raced` has the messages a thread went
to while another had them in hand, and `OneCopy` and `HamStays` are about the
others. `MailKept` makes no such exception: the race doubles, but it loses nothing.

What the model shows of the code besides its properties: a rule with COPY copies
the message again at every check for as long as it is in In; a DELETE does not
stop the rules that follow; a transfer that failed counts as done and ends the
rules for the message; a rebuild of the destination takes the deleted mark of an
older copy of the same mail (`Inherited`), so a message that was moved out,
deleted there and moved back may be found deleted. `macmbx/doc/junk.md:166`
describes the flow as score, filter, move; the mailer filters first. The
application sets filters and no junk scorer; with none, scoring and the move find
nothing, which verdict 0 for every message gives.

### IdleScheduler

The main thread is in its loop or in one of the three things that block it:
`starting` (going through the accounts), `syncing` (the first sync of an
account, on the main thread) and `stopping` (joining a thread). A slot of
`idle[]` is never given back. `listed` has for every thread what its check found
new against In, and `Stores` appends it: if two threads have an account at the
same time, mail is stored twice.

`told` is what the server has told an IDLE connection of. `IdleNotices` is an
IDLE that returns with EXISTS as the last untagged line, `IdleOverlooks` one
whose last line is another, or a timeout: mail that came before the timeout and
was not pushed is not told of again. A server without IDLE gets NOOP, one after
the other, without a pause; that is the same two actions. Callbacks are a set,
one for those with mail to report and one for those without: serving one of them
twice has no effect.

Going online with mail in Out opens a prompt, and its answer may come at any
later moment (`Respond`); "Send All Queue" is a request of `SendQueue`.

Facts a reader should know: `start_imap_idle` at startup does not look at the
restored offline setting; a request made before going offline is carried out
after it; `idle_stop` may block the main loop for 29 minutes; the mail that the
first sync of `idle_start` stores is not shown before something else refreshes
the windows (`unseen`).

### Store

A path is a directory and a name. `mbox` and `disk` are the files, `tree` what
the last refresh has read, `reg` the open tables by path. Every operation on the
tree takes its arguments from `tree` and works on the files, then reads the tree
again; none changes `reg`. A mailbox is a sequence of cells of one length, one
for a message, so that a table of another mailbox finds some message, or none,
at each of its places.

`mixed` collects the paths at which an operation on the tree met an open table,
and `risked` the messages that were at such a path. The properties hold without
them, and without the exception they fail: with A open, delete A; the next
append to its table makes the file again, without the tree; "new mailbox" takes
that name and truncates it. Or rename B onto the path of A: the table of A is
returned for it, and a compaction drops B's mail by A's marks.

Left out: folders in folders, a folder and a mailbox of one name, failing
renames. Dropping a mailbox on the empty part of the window passes the absolute
path of the store as the new parent (`gtk_mailbox.c:283-291`), which finds no
directory: a mailbox can never be moved to the top level, so `MoveMailbox` takes
folders only.

### SendQueue

The main thread queues a message in the steps of `macmbx_mailer_queue_as`:
append, save, tag. The sender takes the accounts one after the other; for each
it counts the messages it would send, connects, walks the table by index, and
saves at the end. `Transmit` and `MarkSent`/`ReplyLost` split the transaction at
the end of DATA, where the server has the message and the client does not know.
`SaveBegin` and `SaveEnd` are the two ends of `macmbx_toc_save`, and what is
written is the table as it was at its beginning; a save of the main thread that
comes between them gives up (`BeingWritten`). After a crash the `.toc` file is
extended by a rebuild that finds unsaved messages UNREAD.

Left out: the commands before DATA (they are refusals, `SendFails`), the offline
switch (in `IdleScheduler`), and the data race on the array of summaries, which an append may move
while the sender reads it. Nothing in the application compacts or sorts Out, so
nothing here does; the library's `macmbx_store_compact_all` could.

## 3. The runs

| Run | Shows |
|---|---|
| `lock` | the lock excludes until an unlock removes the lock file under another process |
| `mailbox` | the table describes the file, undeleted mail stays, serials are unique, a clean close reopens, for three messages; and `Mailbox` implements `MessageStore` |
| `mailbox_torn` | with torn compactions: serial numbers stay unique, a rebuild covers the whole file |
| `mailbox_torn_loss` | (violation) a torn compaction and one append later, an undeleted message is dropped |
| `pop` | leaving mail or deleting it: nothing lost, copies cost faults, clean checks receive all, checks end |
| `imap` | after a clean sync In mirrors INBOX, what is expunged goes, refetching has a cause, other mail is left alone |
| `imap_sweeps` | (violation) the sync of one account marks the mail of another |
| `idle` | offline is quiet, online covers every account, mail doubles only by one known race, stopping ends, news is shown, a requested check is made |
| `idle_misses` | (violation) an IDLE thread that overlooks a push does not fetch |
| `delivery` | with the main thread between any two steps of a check: filing loses nothing, and what two threads do not have in hand at once is not doubled and keeps the user's judgement |
| `send_queue` | SENT means accepted, copies cost faults, recorded messages stay queued, requests are served |
| `store` | mailboxes show their own mail, nothing is lost unasked, empty folders go |

The properties are stated, each with a comment, at the end of each module. Some
need a word.

* `NothingLost` is about the state between any two steps of a check, not about
  its end: a message is received, or a later check will download it. It excepts
  what the disk refused in a session that deletes (see 4).
* `RedeliveryNeedsFault`, `ResendNeedsFault` and `RefetchNeedsCause` bound the
  number of copies by the number of faults: one crash may double many messages
  but each of them only once.
* `CleanCheckReceivesAll`, `InboxMirrored` and `ExpungedGo` are action properties
  of the step that ends a check or sync in which nothing failed, over whatever
  the earlier ones, broken off anywhere, left behind.
* `MailKept` is about the tables and about the files: `Durable` are the copies
  that a crash at this moment would leave.
* `OneCopy` does not count the original of a move that is appended to its new
  place and will be marked (`Pending`): two summaries are live then by intention.
* `HamStays` depends on two modules of the code at once, the scorer, which takes
  only what was never scored, and `macmbx_transfer`, which carries the score.
* `OneCopy` and `HamStays` except the messages in `raced`. Without that exception
  both fail: TLC finds the first after a rule and a drag have both appended the
  message, the second after a not-junk between `ScoreReads` and `Judge`.

### Bounds

* Lock: four processes and five inodes. A race takes three processes (one that
  unlocks, one that has the old file open, one that makes the new one); the
  fourth shows that nothing new comes after it. Inodes outnumber descriptors by
  one, so that a new file is always possible. Processes and inodes are
  interchangeable, and symmetry is used (no liveness is checked).
* Mailbox: two messages of three cells and one of four. Equal lengths are what
  lets a stale table fit by size; a different length is what makes it not fit.
  Three cells are the least that the tolerance of `macmbx_toc_validate`, one byte
  either way on a size stored plus one, cannot hide; a real "From " line alone
  is longer. The two of equal length have a Message-ID and are interchangeable;
  the third has none, so both ways of salvage occur. The runs with `TornCompact`
  use two messages of equal length, one with a Message-ID.
* POP: three messages, two of which share a Message-ID and one has none; two
  events (`MaxEvents`), each a fault, a mark of the user or a change of the
  setting: enough for a fault in one check and another event in the check that
  repairs it.
* IMAP: one account with two messages and one of other origin, two values of
  UIDVALIDITY, one fault and two changes by the user, other clients or a new
  UIDVALIDITY; two faults with two changes, and two accounts with two faults,
  hold too and take longer. The proofs cover any number of them.
  `imap_sweeps` has two accounts with one message each and no faults.
* Delivery: two messages, one of them spam, one folder, two sets of rules, of
  which one files and the other copies, scores, stops and deletes; one thread that
  checks beside the main thread; two events, each a command of the user, a failing
  append or a crash. Two are enough for the main thread to go to a message that the
  check has in hand, and for a judgement and a move of the message judged. Two
  threads that check, with one event, hold too, in 3.4 million states; the
  theorems are about any number of threads and events.
* IDLE: one POP and one IMAP account, two slots, two turns of the switch, one
  message at a time on the servers (a message of either account), one failing
  account. Two slots are used up by two turns, so the limit is reached.
* Send: two messages of two accounts, two faults, one message withdrawn. The
  number of requests is not bounded.
* Store: two names, two folders and the top level, two messages, at most three
  mailboxes at once and two operations on the tree or exits; messages, names
  and folders are interchangeable. A mailbox that replaces another takes two
  mailboxes, and losing mail by it two operations: one that meets an open table
  and one more at its path. Three operations on two mailboxes hold as well, in
  2.4 million states.

Deadlock is checked for the lock and the mailbox. The others stop when faults,
changes and messages are used up and there is nothing to check or to send, and
their configurations say so.

### Fairness

`PopCheck` assumes weak fairness of the steps of a check: its thread is
scheduled, and a server answers or the connection breaks. `SendQueue` assumes the
same for the steps of the sender, and that the timer of the scheduler keeps
ticking (`SendStart`). `IdleScheduler` assumes it for each thread by itself, for
the timer and for each kind of callback, as the GTK loop serves both while the
main thread is in it; an IDLE thread that waits goes on when there is a push or
when it is told to stop and its 29 minutes are over. The code has no timeout on
other reads, so a server that is silent for ever is outside these models.
Nothing is assumed about users, arriving mail or faults. `ImapSync`, `Delivery`,
`Store`, `Mailbox` and `MboxLock` have no liveness properties and no fairness.

## 4. Findings

Three runs end in a violation of something a comment or document promises.

1. `mailbox_torn_loss`. `macmbx_compact` renames the mbox file and then saves the
   table, and ignores the result of the save (`macmbx_compact.c:124`). When only
   the rename has happened and an append makes the sizes agree again, the stale
   table is taken as valid, and the next compaction copies and drops by it.
   `macmbx/doc/transfer.md` calls compaction atomic.
2. `imap_sweeps`. A `uid_hash` does not say which account it belongs to, so the
   sync of an account with an empty INBOX marks the mail of all IMAP accounts
   deleted (`macmbx_mailer.c:878`), and so does the merge for every UID its own
   server does not list.
3. `idle_misses`. The comment in the IDLE thread (`macmbx_mailer.c:1376`) has it
   sync after a push or a timeout "either way"; it does so only when the last
   untagged line is EXISTS, EXPUNGE or FETCH. A server that sends RECENT after
   EXISTS is not heard, and the account is not in the round of the check thread
   either, since its IDLE thread is active.

Others need no run of their own; each is where a property had to make an
exception, and dropping the exception gives the counterexample.

4. `macmbx_unlock` removes the lock file (`macmbx.c:568`), which breaks the
   exclusion promised by `macmbx/doc/locking.md`: one process has the old file
   open and locks it, another creates a new one and locks that
   (`ExclusionUnlessRaced`).
5. When an append to In fails, the POP loop still deletes the message on the
   server (`macmbx_mailer.c:1182`; `refused` in `PopCheck`).
6. Appended summaries have no `msg_id_hash` (`macmbx.c:760`), so the duplicate
   test of `macmbx/doc/dedup.md` finds only messages that a rebuild has seen: a
   message that comes again after a fault is stored twice (`Copies`).
7. `macmbx_mailer_queue` does not notice that its save gave up because the sender
   was saving; if the program ends before the next save, the message comes back
   UNREAD and is never sent (`recorded` in `SendQueue`).
8. The dominant account has no personality hash to compare with
   (`macmbx_mailer.c:424`), so it sends the messages of all accounts, with its
   own address, where `macmbx_mailer.h:95` says "for a specific account only"
   (`Eligible`).
9. POP mail that a rebuild has read has a `uid_hash` (`macmbx_build.c:421`), and
   the next IMAP sync marks it deleted (`reread` in `ImapSync`).
10. Going online while a check is running doubles mail (`raced` in
    `IdleScheduler`); startup ignores the offline setting (`switches > 0` in
    `QuietOffline`).
11. Renaming, moving or deleting an open mailbox can lose mail (`mixed` and
    `risked` in `Store`).
12. Nothing locks a message against a second thread (`raced` in `Delivery`). If the
    user drags a message of In after the check has looked at its delete mark
    (`macmbx_junk.c:193`) and before it has marked it (`macmbx_ops.c:69`), both
    append it and two live copies remain. A message the user deletes in that span is
    live in its new place. If the user declares it not to be junk
    after the test for a score (`macmbx_junk.c:87`) and before the write (`:74`),
    the verdict of the scorer overwrites that, and the message goes to Junk.

## 5. The proofs

All theorems are about any values of the constants that satisfy the named
assumptions of the modules.

| Theorem | Says |
|---|---|
| `LockTypeOK` | a descriptor is open exactly while its process is inside `macmbx_lock` or holds the lock |
| `LockExclusion` | `Spec => []ExclusionUnlessRaced` for any processes and inodes |
| `MailboxTypeOK` | types and loop bounds of `Mailbox`, torn or not |
| `MailboxSerials` | `Spec => []SerialsUnique` for any messages and sizes, torn or not |
| `TableDescribesFile` * | `Spec => []TocDescribesMbox`: every summary spans the message it shows, and none is missing |
| `UndeletedMailStays` * | `Spec => []UndeletedStay`: nothing leaves the mbox file that was not deleted |
| `CleanCloseKeeps` * | `Spec => []CleanCloseReopens`: after an orderly close the next open needs no rebuild |
| `MailboxImplementsStore` * | `Spec => ImplementsStore`: every step is one of `MessageStore` or invisible there |
| `RebuildCovers` | `Spec => RebuildCoversFile`: a rebuild lists the whole file, torn or not |
| `PopCheck_proofs!TypeCorrect` | tables cover the mbox file, a session deletes what it has listed |
| `PopCheck_proofs!MailNotLost` | `Spec => []NothingLost`: between any two steps, mail is in In or still to come |
| `CleanCheckComplete` | `Spec => CleanCheckReceivesAll`: a check without faults leaves nothing out |
| `RedeliveryPaid` | `Spec => []RedeliveryNeedsFault`: each further copy costs a fault or a change of the setting |
| `ImapSync_proofs!TypeCorrect` | no UID stands for two messages, the table of an open In covers the file |
| `OtherMailKept` | `Spec => LocalKept`: a sync leaves mail alone that came from no IMAP server |
| `FetchedOnce` | `Spec => []RefetchNeedsCause`: each further copy costs a fault or a new UIDVALIDITY |
| `ExpungedTaken` | `Spec => ExpungedGo`: after a clean sync no live message is one the server has not |
| `InboxShown` | `Spec => InboxMirrored`: after a clean sync In shows INBOX |
| `Delivery_proofs!TypeCorrect` | an open mailbox has in memory exactly the messages of its file |
| `Delivery_proofs!MailNotLost` | `Spec => []MailKept`: no message is lost between two mailboxes |
| `NoSecondCopy` | `Spec => []OneCopy`: without a crash, a COPY, or two threads at it, a message is in one place, whatever the interleaving |
| `HamIsLeft` | `Spec => HamStays`: with the same exceptions, what the user declared not to be junk stays |
| `StoreTypeOK` | a file is only where its folder is |
| `StoreShowsMail` | `Spec => []ShowsItsMail`: a mailbox shows its own mail and marks |
| `StoreKeepsMail` | `Spec => []TreeKeepsMail`: no operation on the tree loses mail unasked |
| `EmptyFolderDeleted` | `Spec => []EmptyFolderGoes`: a folder that the tree shows empty can be deleted |
| `SendTypeOK` | the table of Out has the messages of the file, the `.toc` file a beginning of them |
| `SendHonest` | `Spec => []SentMeansAccepted`: nothing is SENT that no server has taken |
| `SendOnce` | `Spec => []ResendNeedsFault`: every further copy costs a fault |
| `SendKeepsRecorded` | `Spec => []RecordedStayQueued`: no later save or restart takes a recorded message out of the queue |
| `IdleTypeOK` | slots, flags and places of the threads |
| `IdleQuietOffline` | `Spec => []QuietOffline`: after going offline every thread has ended |
| `IdleAllCovered` | `Spec => []IdleCovers`: online every IMAP account has its thread while there are slots |
| `IdleDoubledNeedsRace` | `Spec => []DoubledNeedsRace`: mail is stored twice only by going online during a check |

Those with a * assume `~TornCompact`, that is, that no crash and no failing save
falls between the rename and the save of a compaction. The code cannot promise
that (finding 1, which is a counterexample without the assumption); the theorems
say that this is the only thing in the way. The other three about `Mailbox` hold
with either value of `TornCompact`.

`ExclusionUnlessRaced` is not inductive: from a state where two descriptors are
open on two files both could be locked. `LockInv` adds that a holder's flock is
granted on its file to it alone, and that as long as no race happened every open
descriptor is on the file the name refers to.

`SerialsUnique` holds only while a table is open, but it depends on the `.toc`
file, on the table under construction in a scan and on the one under
construction in a compaction. `SerialInv` says of each of them that its serial
numbers are distinct and below the counter that goes with it, and of a
compaction that what was copied comes from what was passed. The lemmas say how
this survives an append, a sort, a salvage (which keeps the new numbers) and a
turn of the copy loop. No part of it depends on offsets, which is why it holds
with torn compactions too.

The other invariants of `Mailbox` rest on `MailboxInv`, which has a part for each
description of the file:

* `FileInv`: the file is a sequence of whole messages. Appends and the copy loop
  keep it so.
* `SavedInv`: the `.toc` file lists what the file was when it was saved, and the
  file has only grown since: by a whole message, which validation notices, or
  not at all. This is why a stale table is never taken as valid.
* `TableInv`: the table in memory lists the file, and it is the saved one unless
  it is `dirty`.
* `ScanInv`, `CopyInv`: what a scan has listed and a compaction has copied so far.

"Lists" means that the summaries are the messages of the file, each once, at the
place where it is, in any order: `macmbx_sort` may have changed that. A salvage
need not find a summary; what is proved is that one it finds is of the message it
is used for. Serial numbers and coverage of a rebuild need none of this,
which is why they hold with torn compactions. For the refinement every action is
mapped by itself: `AppendMessage`, the two marks, `Save`, the last step of a compaction
and of an open are steps of `MessageStore`, and the turns of the two loops stutter.

For `SendQueue` the type invariant (`TypeInv`) says of the table, the `.toc` file
and the image being written that each covers the mbox file from its beginning
(`Covers`). On it rest three invariants, each by itself:

* `SentInv`: what is SENT was accepted, also in the image, which a save puts into
  the `.toc` file later, and so was the message whose reply is awaited, which
  becomes SENT later, whatever the user does to it before.
* `ResendInv`: a message that is QUEUED and not in the hands of the server was
  accepted at most `faults` times, all others at most once more. `ResendNeedsFault`
  alone does not forbid another transmission.
* `RecordInv`: a recorded message is queued in the table, in the `.toc` file and in
  the image if one is being written. This is where the order of the two saves
  counts: a message is recorded only when no image is being written, so an image
  begun later has it. It needs `SentInv`, to know that a reply does not hit a
  message that no server has taken.

For `IdleScheduler` `TypeOK` is inductive, and three invariants rest on it:

* `OfflineInv`: when `idle_stop` is at slot `at`, the slots before it have ended,
  and while the program is offline in its loop they all have.
* `CoverInv`: when `idle_start` is at account `at`, the accounts before it are
  covered; a thread ends only after it was told to stop, which happens only on
  the way offline. That no slot is told to stop while online is part of it.
* `OwnInv`, and on it `RaceInv`: unless going online raced with a check, the main
  thread, the check thread and the IDLE threads never are inside a sync of one
  account at the same time, and nothing that a thread has listed is in In
  already. `OwnInv` has the ways one thread keeps off the account of another:
  `idle_active` for the check thread and for `idle_start`, and the join of
  `idle_stop`.

For `PopCheck` the type invariant says that the table covers the mbox file and the
`.toc` file a beginning of it. `NothingEarly` adds that nothing is said before it
is done: what the LMOS file names is in In, what is marked deleted in the session
is in In or was refused, and so is the message of the current turn once it has
come to the mark. `Thorough` says of a check that has met no fault that its
messages up to here are in In. `Budget` counts for each message its copies and the
chances the present session has to add one, and says that there are at most one
more than faults and changes of the setting; `RedeliveryNeedsFault` alone does
not see a second copy coming.

For `ImapSync` there is one invariant for each question.

* `Origins`: mail of other origin has no UID, in the table and in the `.toc` file.
* `Paid`: a message that may be fetched again has a copy less than the bound allows,
  or In holds it in a way that this sync and the next will recognise.
* `Carried`: before the listing is handled, each UID in the table is in the list
  made when the sync began. `Accounted`, from then on: a live message with a UID is
  on the server's list, was touched by the user, or is ambiguous.
* `Faithful`: a summary with a UID of the present UIDVALIDITY is of the message
  the server knows by it, and it is live unless the message is `binned` or the
  server has it no more. It has to hold of the `.toc` file too, from which a crash
  restores. `Mirror`: of what is listed, all that is not left to fetch is in In.

`Faithful` was not inductive at first: what a repeated resync marks was not
`binned`, and the missing case is the second of the facts noted for `ImapSync`
above.

For `Delivery` every step of any thread is put into one of a few classes (`Steps`):
it goes on without writing a summary (`Rests`), it goes to one summary and writes it
or takes it in hand (`Touches`), it appends, describes or marks, or it is a check
that receives mail, a compaction or a crash. The invariants are proved class by
class. `AllSafe` says of every message that has no excuse that some summary of it is
live in memory and after a crash, although a move may have been saved on one side
only, and is not one that a transfer under way is about to mark: that one has its
copy already.

`OneCopy` and `HamStays` rest on `Orderly`: only what has arrived is in a mailbox
(`Known`), and, as long as no crash has made a rebuild necessary, `Calm`. `Own` are
the messages that no rule has copied and that are not in `raced`, and a `Place` of a
message is a live summary of it that no transfer is about to mark. `Calm` says that
a message of `Own` has one place at most (`Lone`), whose score is 0 if the user has
declared it good (`Zero`); what each thread in a transfer or a score has in hand is
at its place (`Grip`, `Judges`), so that the place moves from the original to the
copy with the append; and no two threads have the same summary in hand
(`Disjoint`), which is why what a thread has seen of a summary still holds when it
writes. Each of these needs the others. That a message moved by a check
is not good then follows from `Zero` and from the threshold, which is positive.

For `Store` the invariant is `StoreInv`. `OwnInv` says of every path that is not
mixed that the `.toc` file is of the mailbox there, with all the marks, and may
lack only the last messages, and that an open table lists the file. `PathInv` ties files,
tables and tree together, `ApartInv` says that no message is at two paths, which is
what makes a rename safe, and `MailInv` that what was neither deleted nor risked
is at a path that is not mixed. A table that is opened by a rebuild is found right by the
proof that the binary search of the salvage finds its place in an ordered table
(`SearchFinds`): the search is a function of its two bounds, and among the
rounds in which it would go wrong there is none with the smallest interval.

What a compaction, QUIT, the listing of local UIDs and the passes of a rule keep of
a sequence is `Kept(s, K)` of `Subsequences`: the elements of `s` at the places
`K`, by rank. It says the same as the `SelectSeq` of the sequence library; stated by
places, that nothing is lost, doubled or reordered follows from facts about
cardinality (`Ranks`, `KeptSeq`), with which the proof modules that use it begin.

Out of the prover's reach, and left to TLC: the liveness properties (`CheckEnds`,
`RequestedIsSent`, `StopReturns`, `NewsShown`, `CheckFetches`), which need fairness.
Every other property of the runs that pass is proved.

## 6. Plan

Modules that are left, in this order:

1. `SmtpSession`: commands, replies and dot-stuffing of one transaction, as the
   refinement of `Transmit`, `SendFails` and `ReplyLost`.
2. `CheckThreads`: the static path buffer of the LMOS file
   (`macmbx_mailer.c:1216`), the array of summaries that an append may move, and
   the registry that two threads may both miss a table in (`macmbx.c:411`), with
   the outcomes of each race as choices.
3. `Threads`: a pure module, checked against a definition on graphs.
4. `Mailbox`: partial appends and the width of the message count
   (`macmbx.c:364`: a table of more than 32767 messages is saved with a wrong
   count).

Theorems: with the modules above come their invariants. On what is there, two are
worth having: that outside `mixed` paths each mailbox of `Store` behaves like a
`MessageStore`, and that one check of `PopCheck` does what the two steps of a check
in `IdleScheduler` say.

## 7. What is not modelled

The parts marked `not_modelled` in `PROJECT.json`: codecs, digests and the tables
of the user, which are sequential and kept by one thread; sockets and TLS, whose
failures are the broken connections of the models; GTK windows, whose effect on
mailboxes is the user's actions; the editor; checks with one thread per account,
which the application never starts; and the legacy Eudora sources, which
`macmbx` and `crispy` replace and which are by far the largest part of the
repository.

In all models, a data race on the array of summaries (an append on one thread may
move it under another one) is left out, and an append to the mbox file, the
summary of it and the new count are one step. In `PopCheck`, `ImapSync` and
`Delivery` a compaction is one step too, although `macmbx_compact.c:67-121` copies
and renames with no lock against an append of another thread, which would be lost
by the rename. Nothing in the application calls `macmbx_compact` on In or on a
mailbox that mail is filed to: its callers are `macmbx_store_compact_all`, which
nothing calls, and the legacy cache of `src/src/imapmailboxes.c:3656`. `Mailbox` has
the steps of a compaction, with one thread. `Delivery` has no compaction of a mailbox
while a thread has a summary of it in a transfer or a score, since the code would
go on through a pointer into the moved array. `being_written` is read and set in one
step, and an image written by the sender is read at once. `macmbx_transfer` with
one mailbox as source and destination, which nothing calls, would read a summary
through a pointer into the array its append moves (`macmbx_ops.c:47`). A
compaction or sort of Out during a send, which nothing starts, would make the
sender mark another message SENT (`macmbx_mailer.c:492`). A message queued while
offline is sent after going online only if the prompt is answered so
(`idle_scheduler.c:96`): the prompt is in `IdleScheduler`, the queue is not.
