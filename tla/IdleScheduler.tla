--------------------------- MODULE IdleScheduler ---------------------------
(***************************************************************************)
(* When mail is checked: the main loop with its timer and its offline      *)
(* switch (src/src/idle_scheduler.c), the check thread it starts, and one  *)
(* thread per IMAP account that waits in IDLE for the server to push       *)
(* (macmbx/macmbx_mailer.c, crispy/crispy_imap.c).                         *)
(*                                                                         *)
(* A check of one account is two steps here: what is new is listed against *)
(* In, and it is stored; ImapSync and PopCheck have it in detail.  Slots   *)
(* are never given back: idle_count only grows.                            *)
(***************************************************************************)
EXTENDS Integers, Sequences, FiniteSets, SequencesExt

CONSTANTS N,          \* accounts 1 .. N, the dominant one is 1
          Imap,       \* those of type IMAP
          Msgs,       \* messages that may arrive
          Home,       \* message -> its account
          MaxIdle,    \* MAILER_MAX_IDLE
          MaxMail,    \* bound on the messages that arrive
          MaxSwitches \* bound on the turns of the offline switch

Accts == 1 .. N
ASSUME CountAssumption == N \in Nat \ {0} /\ MaxIdle \in Nat /\ MaxMail \in Nat /\ MaxSwitches \in Nat
ASSUME HomeAssumption  == Imap \subseteq Accts /\ Home \in [Msgs -> Accts]

VARIABLES arrived,    \* external: messages on the servers
          got,        \* messages in In
          doubled,    \* messages that are twice in In
          shown,      \* messages of In the windows show
          main, at,   \* what the main thread does; account or slot it is at
          offline, prompts,                 \* Offline; a queue prompt is open
          needCheck, needNotify, checking,  \* checking: check_in_progress
          posted,     \* callbacks given to g_idle_add: TRUE if they report mail
          turn,       \* account the check thread is at, N + 1 at its end
          fetching,   \* it has listed that account and not yet stored the news
          idle,       \* slots: [acct, running, active, pc, told]
          listed,     \* thread -> what the sync it is in found new
          switches,   \* turns of the offline switch so far
          total,      \* this check has found new mail
          failed,     \* history: accounts whose check failed
          raced,      \* history: going online synced while a check was running
          unseen      \* history: messages stored by the sync of idle_start

mail  == <<arrived, got, doubled, shown>>
mainv == <<main, at, offline, prompts, switches>>
flags == <<needCheck, needNotify, checking, posted>>
check == <<turn, fetching, total, failed>>
hist  == <<raced, unseen>>
vars  == <<mail, mainv, flags, check, idle, listed, hist>>

Slots   == 1 .. MaxIdle
MainThread == 0
CheckThread == MaxIdle + 1
Threads == Slots \cup {MainThread, CheckThread}
NotSyncing == [t \in Threads |-> {}]

\* told: what the server has told the connection of.
Slot == [acct : Imap, running : BOOLEAN, active : BOOLEAN,
         pc : {"connect", "wait", "list", "store", "ended"}, told : SUBSET Msgs]

TypeOK ==
    /\ doubled \subseteq got /\ shown \subseteq got /\ got \subseteq arrived /\ arrived \subseteq Msgs
    /\ main \in {"loop", "starting", "syncing", "stopping"}
    /\ at \in 1 .. N + MaxIdle + 1
    /\ offline \in BOOLEAN /\ prompts \in BOOLEAN /\ raced \in BOOLEAN
    /\ needCheck \in BOOLEAN /\ needNotify \in BOOLEAN /\ checking \in BOOLEAN
    /\ fetching \in BOOLEAN /\ total \in BOOLEAN
    /\ posted \subseteq BOOLEAN /\ turn \in 1 .. N + 1 /\ failed \subseteq Accts
    /\ idle \in Seq(Slot) /\ Len(idle) <= MaxIdle
    /\ listed \in [Threads -> SUBSET arrived]
    /\ switches \in 0 .. MaxSwitches /\ unseen \subseteq got
    /\ \A k \in DOMAIN idle : idle[k].pc = "ended" <=> ~idle[k].active
    \* a sync has its account, and idle_start its slot
    /\ main = "syncing" => at \in Imap /\ Len(idle) < MaxIdle
    /\ fetching => checking /\ turn <= N

\* Startup: the offline preference is restored, then IdleSchedulerStart runs.
Init ==
    /\ arrived = {} /\ got = {} /\ doubled = {} /\ shown = {}
    /\ main = "starting" /\ at = 1 /\ offline \in BOOLEAN /\ prompts = FALSE
    /\ needCheck = FALSE /\ needNotify = FALSE /\ checking = FALSE /\ posted = {}
    /\ turn = 1 /\ fetching = FALSE /\ total = FALSE /\ failed = {} /\ idle = <<>> /\ listed = NotSyncing
    /\ switches = 0 /\ raced = FALSE /\ unseen = {}

-----------------------------------------------------------------------------
(* A check of one account, by whatever thread                              *)

\* macmbx_mailer_check_account connects, and finds what In does not have.
Lists(t, a) ==
    listed' = [listed EXCEPT ![t] = {m \in arrived : Home[m] = a} \ got]

\* What was listed is appended to In, wherever it came from meanwhile.
Stores(t) ==
    /\ doubled' = doubled \cup (listed[t] \cap got)
    /\ got' = got \cup listed[t]
    /\ listed' = [listed EXCEPT ![t] = {}]

-----------------------------------------------------------------------------
(* The main thread                                                         *)

\* Mutant: a slot whose thread has been stopped still counts.
IdleStarted(a) == \E k \in DOMAIN idle : idle[k].acct = a

\* macmbx_mailer_idle_active.
IdleActive(a) == \E k \in DOMAIN idle : idle[k].acct = a /\ idle[k].active

\* start_imap_idle: idle_start for one account after the other; it returns at
\* once if the account has a thread or there is no slot.
StartSkip ==
    /\ main = "starting" /\ at <= N
    /\ at \notin Imap \/ IdleActive(at) \/ Len(idle) = MaxIdle
    /\ at' = at + 1
    /\ UNCHANGED <<mail, main, offline, prompts, switches, flags, check, idle, listed, hist>>

\* The initial sync of idle_start, on the main thread.
StartSync ==
    /\ main = "starting" /\ at \in Imap
    /\ ~IdleActive(at) /\ Len(idle) < MaxIdle
    /\ main' = "syncing"
    /\ Lists(MainThread, at)
    /\ raced' = (raced \/ checking)
    /\ UNCHANGED <<mail, at, offline, prompts, switches, flags, check, idle, unseen>>

\* Its end, and the thread of the account.
StartThread ==
    /\ main = "syncing"
    /\ Stores(MainThread)
    /\ unseen' = unseen \cup listed[MainThread]
    /\ idle' = Append(idle, [acct |-> at, running |-> TRUE, active |-> TRUE,
                             pc |-> "connect", told |-> {}])
    /\ main' = "starting" /\ at' = at + 1
    /\ UNCHANGED <<arrived, shown, offline, prompts, switches, flags, check, raced>>

\* All accounts are through; if mail is queued the user is asked about it.
StartDone ==
    /\ main = "starting" /\ at > N
    /\ main' = "loop" /\ at' = 1
    /\ prompts' \in {prompts, switches > 0 \/ prompts}
    /\ UNCHANGED <<mail, offline, switches, flags, check, idle, listed, hist>>

\* Mutant: a thread told to stop is not joined.
StopSkipUnjoined ==
    /\ main = "stopping" /\ at <= Len(idle)
    /\ ~idle[at].running
    /\ at' = at + 1
    /\ UNCHANGED <<mail, main, offline, prompts, switches, flags, check, idle, listed, hist>>

\* macmbx_mailer_idle_stop: threads that are not active are passed over.
StopSkip ==
    /\ main = "stopping" /\ at <= Len(idle)
    /\ ~idle[at].active
    /\ at' = at + 1
    /\ UNCHANGED <<mail, main, offline, prompts, switches, flags, check, idle, listed, hist>>

\* The others are told to stop, and joined.
StopAsk ==
    /\ main = "stopping" /\ at <= Len(idle)
    /\ idle[at].active /\ idle[at].running
    /\ idle' = [idle EXCEPT ![at].running = FALSE]
    /\ UNCHANGED <<mail, mainv, flags, check, listed, hist>>

StopDone ==
    /\ main = "stopping" /\ at > Len(idle)
    /\ main' = "loop" /\ at' = 1
    /\ UNCHANGED <<mail, offline, prompts, switches, flags, check, idle, listed, hist>>

\* idle_scheduler_set_offline.
Switch ==
    /\ main = "loop"
    /\ switches < MaxSwitches /\ switches' = switches + 1
    /\ offline' = ~offline
    /\ main' = IF offline' THEN "stopping" ELSE "starting"
    /\ UNCHANGED <<mail, at, prompts, flags, check, idle, listed, hist>>

\* on_queue_prompt_response: Send All Queue, Go Online, Stay Offline.
Respond ==
    /\ main = "loop" /\ prompts
    /\ prompts' = FALSE
    /\ \/ UNCHANGED <<main, offline>>
       \/ offline' = TRUE /\ main' = "stopping"
    /\ UNCHANGED <<mail, at, switches, needCheck, needNotify, checking, posted,
                   check, idle, listed, hist>>

RequestCheck ==
    /\ main = "loop" /\ ~offline
    /\ needCheck' = TRUE
    /\ UNCHANGED <<mail, mainv, needNotify, checking, posted, check, idle, listed, hist>>

\* idle_scheduler_tick: process_check starts its thread, whether or not the
\* program has gone offline since, and notify_new_mail refreshes the windows.
Tick ==
    /\ main = "loop"
    /\ LET start == needCheck /\ ~checking
       IN  /\ start \/ needNotify
           /\ needCheck' = (needCheck /\ ~start)
           /\ checking' = (checking \/ start)
           /\ turn' = IF start THEN 1 ELSE turn
           /\ total' = (total /\ ~start)
    /\ needNotify' = FALSE
    /\ shown' = IF needNotify THEN got ELSE shown
    /\ UNCHANGED <<arrived, got, doubled, mainv, posted, fetching, failed, idle, listed, hist>>

\* check_done_cb or idle_notify_cb: with mail to report they refresh the windows.
Callback(news) ==
    /\ main = "loop" /\ news \in posted
    /\ posted' = posted \ {news}
    /\ shown' = IF news THEN got ELSE shown
    /\ UNCHANGED <<arrived, got, doubled, mainv, needCheck, needNotify, checking,
                   check, idle, listed, hist>>

-----------------------------------------------------------------------------
(* The check thread and the send thread                                    *)

\* check_thread_func passes over accounts that have an IDLE thread.
CheckSkip ==
    /\ checking /\ turn <= N /\ ~fetching
    /\ IdleActive(turn)
    /\ turn' = turn + 1
    /\ UNCHANGED <<mail, mainv, flags, fetching, total, failed, idle, listed, hist>>

\* Mutant: accounts with an IDLE thread are not passed over.
CheckListsAll ==
    /\ checking /\ turn <= N /\ ~fetching
    /\ Lists(CheckThread, turn)
    /\ fetching' = TRUE
    /\ UNCHANGED <<mail, mainv, flags, turn, total, failed, idle, hist>>

CheckLists ==
    /\ checking /\ turn <= N /\ ~fetching
    /\ ~IdleActive(turn)
    /\ Lists(CheckThread, turn)
    /\ fetching' = TRUE
    /\ UNCHANGED <<mail, mainv, flags, turn, total, failed, idle, hist>>

CheckStores ==
    /\ fetching
    /\ Stores(CheckThread)
    /\ fetching' = FALSE /\ turn' = turn + 1
    /\ total' = (total \/ listed[CheckThread] # {})
    /\ UNCHANGED <<arrived, shown, mainv, flags, failed, idle, hist>>

\* Mutant: the check ends with the account that fails.
CheckFailsAtOnce ==
    /\ fetching
    /\ failed = {}
    /\ failed' = {turn}
    /\ listed' = [listed EXCEPT ![CheckThread] = {}]
    /\ fetching' = FALSE /\ turn' = N + 1
    /\ UNCHANGED <<mail, mainv, flags, total, idle, hist>>

\* A negative result is reported, and the next account checked.
CheckFails ==
    /\ fetching
    /\ failed = {}
    /\ failed' = {turn}
    /\ listed' = [listed EXCEPT ![CheckThread] = {}]
    /\ fetching' = FALSE /\ turn' = turn + 1
    /\ UNCHANGED <<mail, mainv, flags, total, idle, hist>>

\* check_done_cb sees the number of messages, of which only > 0 matters.
CheckEnds ==
    /\ checking /\ turn = N + 1
    /\ checking' = FALSE /\ needNotify' = TRUE
    /\ posted' = posted \cup {total}
    /\ UNCHANGED <<mail, mainv, needCheck, check, idle, listed, hist>>

\* The send thread, of which SendQueue has the rest, ends.
SendEnds ==
    /\ ~needNotify
    /\ needNotify' = TRUE
    /\ UNCHANGED <<mail, mainv, needCheck, checking, posted, check, idle, listed, hist>>

-----------------------------------------------------------------------------
(* The thread of slot k                                                    *)

Box(k) == {m \in arrived : Home[m] = idle[k].acct}

Moves(k, pc) == idle' = [idle EXCEPT ![k].pc = pc]

\* Mutant: the slot stays active.
IdleEndsActive(k) ==
    /\ idle[k].pc \in {"connect", "wait"} /\ ~idle[k].running
    /\ Moves(k, "ended")
    /\ UNCHANGED <<mail, mainv, flags, check, listed, hist>>

\* Mutant: IDLE without a timeout, which only a push ends.
IdleEndsByPush(k) ==
    /\ idle[k].pc \in {"connect", "wait"} /\ ~idle[k].running
    /\ idle[k].pc = "wait" => Box(k) \ idle[k].told # {}
    /\ idle' = [idle EXCEPT ![k].pc = "ended", ![k].active = FALSE]
    /\ UNCHANGED <<mail, mainv, flags, check, listed, hist>>

\* Its loop ends at the next test of running.
IdleEnds(k) ==
    /\ idle[k].pc \in {"connect", "wait"} /\ ~idle[k].running
    /\ idle' = [idle EXCEPT ![k].pc = "ended", ![k].active = FALSE]
    /\ UNCHANGED <<mail, mainv, flags, check, listed, hist>>

\* Connect, login, SELECT: the reply to SELECT counts what is there, and the
\* server pushes only what comes after it.
IdleSelects(k) ==
    /\ idle[k].pc = "connect" /\ idle[k].running
    /\ idle' = [idle EXCEPT ![k].pc = "wait", ![k].told = Box(k)]
    /\ UNCHANGED <<mail, mainv, flags, check, listed, hist>>

\* crispy_imap_idle returns with EXISTS as the last untagged line.
IdleNotices(k) ==
    /\ idle[k].pc = "wait" /\ idle[k].running
    /\ Box(k) \ idle[k].told # {}
    /\ Moves(k, "list")
    /\ UNCHANGED <<mail, mainv, flags, check, listed, hist>>

\* Another untagged line followed, as RECENT does, and is the reply that the
\* thread looks at.
IdleOverlooks(k) ==
    /\ idle[k].pc = "wait" /\ idle[k].running
    /\ idle' = [idle EXCEPT ![k].told = Box(k)]
    /\ UNCHANGED <<mail, mainv, flags, check, listed, hist>>

\* The connection is lost, or EXISTS comes instead of the continuation line.
IdleLoses(k) ==
    /\ idle[k].pc = "wait"
    /\ Moves(k, "connect")
    /\ UNCHANGED <<mail, mainv, flags, check, listed, hist>>

\* The sync of the account, which may fail, and the callback.
IdleLists(k) ==
    /\ idle[k].pc = "list"
    /\ Moves(k, "store")
    /\ Lists(k, idle[k].acct) \/ UNCHANGED listed
    /\ UNCHANGED <<mail, mainv, flags, check, hist>>

\* Mutant: without the callback.
IdleStoresSilently(k) ==
    /\ idle[k].pc = "store"
    /\ Moves(k, "connect")
    /\ Stores(k)
    /\ UNCHANGED <<arrived, shown, mainv, flags, check, hist>>

IdleStores(k) ==
    /\ idle[k].pc = "store"
    /\ Moves(k, "connect")
    /\ Stores(k)
    /\ posted' = posted \cup {listed[k] # {}}
    /\ UNCHANGED <<arrived, shown, mainv, needCheck, needNotify, checking, check, hist>>

\* External: a message reaches a server.
Arrive(m) ==
    /\ m \notin arrived /\ Cardinality(arrived) < MaxMail
    /\ arrived' = arrived \cup {m}
    /\ UNCHANGED <<got, doubled, shown, mainv, flags, check, idle, listed, hist>>

-----------------------------------------------------------------------------
Starts == StartSkip \/ StartSync \/ StartThread \/ StartDone
Stops  == StopSkip \/ StopAsk \/ StopDone
Check  == CheckSkip \/ CheckLists \/ CheckStores \/ CheckFails \/ CheckEnds
Idle(k) == \/ IdleEnds(k) \/ IdleSelects(k) \/ IdleNotices(k) \/ IdleOverlooks(k)
           \/ IdleLoses(k) \/ IdleLists(k) \/ IdleStores(k)

Next ==
    \/ Starts \/ Stops
    \/ Switch \/ Respond \/ RequestCheck
    \/ Tick \/ \E news \in posted : Callback(news)
    \/ Check \/ SendEnds
    \/ \E k \in DOMAIN idle : Idle(k)
    \/ \E m \in Msgs : Arrive(m)

\* The threads run, the timer fires, the main loop calls what is posted, and
\* servers answer.  An IDLE ends when the server pushes or after 29 minutes.
\* Nobody has to press a button, and connections need not be lost.
Fairness ==
    /\ WF_vars(Starts) /\ WF_vars(Stops)
    /\ WF_vars(Tick) /\ \A news \in BOOLEAN : WF_vars(Callback(news))
    /\ WF_vars(Check)
    /\ \A k \in Slots :
          WF_vars(k \in DOMAIN idle /\ (IdleEnds(k) \/ IdleSelects(k) \/ IdleNotices(k)
                                                \/ IdleLists(k) \/ IdleStores(k)))

Spec == Init /\ [][Next]_vars /\ Fairness

-----------------------------------------------------------------------------
(* Properties                                                              *)

\* Once the user has gone offline no account has a thread or a connection in
\* IDLE: each slot was stopped and joined.  Before the first turn of the switch
\* this does not hold: start_imap_idle starts the threads at startup whether or
\* not the offline preference is set.
QuietOffline ==
    main = "loop" /\ offline /\ switches > 0
        => \A k \in DOMAIN idle : idle[k].pc = "ended"

\* Online, every IMAP account has its thread, unless all slots were used up:
\* none is left without by an earlier stop.
IdleCovers ==
    main = "loop" /\ ~offline
        => \A a \in Imap : \/ \E k \in DOMAIN idle : idle[k].acct = a /\ idle[k].pc # "ended"
                         \/ Len(idle) = MaxIdle

\* A message is stored twice only if going online synced an account while the
\* check thread was running; otherwise an account is always in the hands of
\* one thread.
DoubledNeedsRace == doubled # {} => raced

\* Going offline returns to the user: each thread it waits for ends.
StopReturns == main = "stopping" ~> main = "loop"

\* Mail that a thread stores appears, except what the sync of idle_start
\* stores: nothing tells the windows of that.
NewsShown == \A m \in Msgs : m \in got \ unseen ~> m \in shown

\* After a request to check mail each POP account is checked, also when a check
\* was running at the time of the request and when another account fails.
CheckFetches ==
    \A m \in Msgs : needCheck /\ m \in arrived /\ Home[m] \notin Imap
                        ~> m \in got \/ Home[m] \in failed

\* Comment of the code, which the code does not keep: the thread wakes on a push
\* or after 29 minutes and runs a sync, so that mail of its account is fetched
\* as long as it runs.
IdleFetches ==
    \A m \in Msgs, k \in Slots :
        LET waiting == k \in DOMAIN idle /\ idle[k].running /\ m \in Box(k) \ got
        IN  waiting ~> ~waiting
=============================================================================
