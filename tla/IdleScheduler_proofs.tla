------------------------- MODULE IdleScheduler_proofs -------------------------
(***************************************************************************)
(* Proofs about IdleScheduler, for any accounts, messages and slots.       *)
(***************************************************************************)
EXTENDS IdleScheduler, SequenceTheorems, TLAPS

\* TypeOK in four parts: the mail, the slots, the flags, and who is where.
MailOK ==
    /\ doubled \subseteq got /\ shown \subseteq got /\ unseen \subseteq got
    /\ got \subseteq arrived /\ arrived \subseteq Msgs
    /\ listed \in [Threads -> SUBSET arrived]
SlotsOK ==
    /\ idle \in Seq(Slot) /\ Len(idle) <= MaxIdle
    /\ \A k \in DOMAIN idle : idle[k].pc = "ended" <=> ~idle[k].active
FlagsOK ==
    /\ offline \in BOOLEAN /\ prompts \in BOOLEAN /\ raced \in BOOLEAN
    /\ needCheck \in BOOLEAN /\ needNotify \in BOOLEAN /\ checking \in BOOLEAN
    /\ fetching \in BOOLEAN /\ total \in BOOLEAN
    /\ posted \subseteq BOOLEAN
PlacesOK ==
    /\ main \in {"loop", "starting", "syncing", "stopping"}
    /\ at \in 1 .. N + MaxIdle + 1
    /\ turn \in 1 .. N + 1 /\ failed \subseteq Accts
    /\ switches \in 0 .. MaxSwitches
    /\ main = "syncing" => at \in Imap /\ Len(idle) < MaxIdle
    /\ fetching => checking /\ turn <= N

LEMMA TypeParts == TypeOK <=> MailOK /\ SlotsOK /\ FlagsOK /\ PlacesOK
BY DEF TypeOK, MailOK, SlotsOK, FlagsOK, PlacesOK

\* What a step does to the slots of the IDLE threads: nothing, a new one, or
\* something to one that is active.
Advanced(k, s) ==
    /\ idle[k].active
    /\ s \in Slot /\ s.acct = idle[k].acct
    /\ s.pc = "ended" <=> ~s.active
    /\ s.running = idle[k].running \/ main = "stopping"
    /\ ~s.active => ~idle[k].running
    /\ UNCHANGED <<main, at, offline, switches>>
    /\ idle' = [idle EXCEPT ![k] = s]

LEMMA StopAskAdvances ==
    ASSUME TypeOK, StopAsk
    PROVE  at \in DOMAIN idle /\ \E s \in Slot : Advanced(at, s)
<1> USE DEF TypeOK
<1> DEFINE s == [idle[at] EXCEPT !.running = FALSE]
<1>1. at \in DOMAIN idle /\ idle[at] \in Slot
  BY CountAssumption DEF StopAsk
<1>2. Advanced(at, s)
  BY <1>1 DEF StopAsk, Advanced, Slot, mainv
<1>3. QED
  BY <1>1, <1>2 DEF Advanced

LEMMA IdleAdvances ==
    ASSUME TypeOK, NEW k \in DOMAIN idle, Idle(k)
    PROVE  \E s \in Slot : Advanced(k, s)
<1> USE DEF TypeOK
<1>1. idle[k] \in Slot
  OBVIOUS
<1>2. CASE IdleEnds(k)
  <2> DEFINE s == [idle[k] EXCEPT !.pc = "ended", !.active = FALSE]
  <2>1. Advanced(k, s)
    BY <1>1, <1>2 DEF IdleEnds, Advanced, Slot, mainv
  <2>2. QED
    BY <2>1 DEF Advanced
<1>3. CASE IdleSelects(k)
  <2> DEFINE s == [idle[k] EXCEPT !.pc = "wait", !.told = Box(k)]
  <2>1. Advanced(k, s)
    BY <1>1, <1>3 DEF IdleSelects, Box, Advanced, Slot, mainv
  <2>2. QED
    BY <2>1 DEF Advanced
<1>4. CASE IdleOverlooks(k)
  <2> DEFINE s == [idle[k] EXCEPT !.told = Box(k)]
  <2>1. Advanced(k, s)
    BY <1>1, <1>4 DEF IdleOverlooks, Box, Advanced, Slot, mainv
  <2>2. QED
    BY <2>1 DEF Advanced
<1>5. ASSUME NEW pc \in {"connect", "list", "store"}, idle[k].pc # "ended", Moves(k, pc), UNCHANGED mainv
      PROVE  \E s \in Slot : Advanced(k, s)
  <2> DEFINE s == [idle[k] EXCEPT !.pc = pc]
  <2>1. Advanced(k, s)
    BY <1>1, <1>5 DEF Moves, Advanced, Slot, mainv
  <2>2. QED
    BY <2>1 DEF Advanced
<1>6. QED
  BY <1>2, <1>3, <1>4, <1>5 DEF Idle, IdleNotices, IdleLoses, IdleLists, IdleStores, mainv

LEMMA SlotSteps ==
    ASSUME TypeOK, [Next]_vars
    PROVE  UNCHANGED idle \/ StartThread \/ \E k \in DOMAIN idle, s \in Slot : Advanced(k, s)
<1>1. CASE StopAsk
  BY <1>1, StopAskAdvances
<1>2. CASE \E k \in DOMAIN idle : Idle(k)
  BY <1>2, IdleAdvances
<1>3. CASE ~StartThread /\ ~StopAsk /\ ~\E k \in DOMAIN idle : Idle(k)
  BY <1>3 DEF Next, Starts, Stops, Check, StartSkip, StartSync, StartDone, StopSkip, StopDone, Switch,
     Respond, RequestCheck, Tick, Callback, CheckSkip, CheckLists, CheckStores, CheckFails, CheckEnds,
     SendEnds, Arrive, vars
<1>4. QED
  BY <1>1, <1>2, <1>3

LEMMA AdvancedSlots ==
    ASSUME TypeOK, NEW k \in DOMAIN idle, NEW s \in Slot, Advanced(k, s)
    PROVE  /\ idle' \in Seq(Slot) /\ Len(idle') = Len(idle) /\ DOMAIN idle' = DOMAIN idle
           /\ \A j \in DOMAIN idle : idle'[j] = IF j = k THEN s ELSE idle[j]
BY DEF TypeOK, Advanced

LEMMA AppendedSlots ==
    ASSUME TypeOK, StartThread
    PROVE  LET s == [acct |-> at, running |-> TRUE, active |-> TRUE, pc |-> "connect", told |-> {}]
           IN  /\ idle' \in Seq(Slot) /\ Len(idle') = Len(idle) + 1 /\ s \in Slot
               /\ DOMAIN idle' = DOMAIN idle \cup {Len(idle) + 1}
               /\ \A j \in DOMAIN idle : idle'[j] = idle[j]
               /\ idle'[Len(idle) + 1] = s
<1> DEFINE s == [acct |-> at, running |-> TRUE, active |-> TRUE, pc |-> "connect", told |-> {}]
<1>1. s \in Slot
  BY DEF TypeOK, StartThread, Slot
<1>2. idle \in Seq(Slot) /\ idle' = Append(idle, s)
  BY DEF TypeOK, StartThread
<1> HIDE DEF s
<1>3. QED
  BY <1>1, <1>2, AppendProperties DEF s

LEMMA SlotsInductive == ASSUME TypeOK, [Next]_vars PROVE SlotsOK'
<1>1. CASE UNCHANGED idle
  BY <1>1 DEF TypeOK, SlotsOK
<1>2. CASE StartThread
  BY <1>2, AppendedSlots, CountAssumption DEF TypeOK, SlotsOK, StartThread
<1>3. ASSUME NEW k \in DOMAIN idle, NEW s \in Slot, Advanced(k, s)
      PROVE  SlotsOK'
  BY <1>3, AdvancedSlots DEF TypeOK, SlotsOK, Advanced
<1>4. QED
  BY <1>1, <1>2, <1>3, SlotSteps

LEMMA MailInductive == ASSUME TypeOK, [Next]_vars PROVE MailOK'
<1> USE DEF TypeOK, MailOK
<1>1. ASSUME NEW t \in Threads, NEW a, Lists(t, a), UNCHANGED <<mail, unseen>>
      PROVE  MailOK'
  BY <1>1 DEF Lists, mail
<1>2. ASSUME NEW t \in Threads, Stores(t), UNCHANGED <<arrived, shown>>, unseen' \subseteq got'
      PROVE  MailOK'
  BY <1>2 DEF Stores
<1>3. ASSUME NEW m \in Msgs, Arrive(m)
      PROVE  MailOK'
  BY <1>3 DEF Arrive, hist
<1>4. CASE CheckFails
  BY <1>4 DEF CheckFails, mail, hist
<1>5. CASE Tick \/ \E news \in posted : Callback(news)
  BY <1>5 DEF Tick, Callback, hist
<1>6. CASE UNCHANGED <<mail, listed, unseen>>
  BY <1>6 DEF mail
<1>7. MainThread \in Threads /\ CheckThread \in Threads /\ DOMAIN idle \subseteq Threads
  BY CountAssumption DEF Threads, Slots
<1>8. CASE StartSync \/ CheckLists \/ \E k \in DOMAIN idle : IdleLists(k)
  BY <1>1, <1>6, <1>7, <1>8 DEF StartSync, CheckLists, IdleLists, hist
<1>9. CASE StartThread \/ CheckStores \/ \E k \in DOMAIN idle : IdleStores(k)
  BY <1>2, <1>7, <1>9 DEF StartThread, CheckStores, IdleStores, Stores, hist
<1>10. CASE StartSkip \/ StartDone \/ StopSkip \/ StopAsk \/ StopDone \/ Switch \/ Respond \/ RequestCheck
  BY <1>6, <1>10 DEF StartSkip, StartDone, StopSkip, StopAsk, StopDone, Switch, Respond, RequestCheck, hist
<1>11. CASE CheckSkip \/ CheckEnds \/ SendEnds
  BY <1>6, <1>11 DEF CheckSkip, CheckEnds, SendEnds, hist
<1>12. CASE \E k \in DOMAIN idle : \/ IdleEnds(k) \/ IdleSelects(k) \/ IdleNotices(k)
                                  \/ IdleOverlooks(k) \/ IdleLoses(k)
  BY <1>6, <1>12 DEF IdleEnds, IdleSelects, IdleNotices, IdleOverlooks, IdleLoses, hist
<1>13. CASE UNCHANGED vars
  BY <1>6, <1>13 DEF vars, hist
<1>14. QED
  BY <1>3, <1>4, <1>5, <1>8, <1>9, <1>10, <1>11, <1>12, <1>13 DEF Next, Starts, Stops, Check, Idle

LEMMA FlagsInductive == ASSUME TypeOK, [Next]_vars PROVE FlagsOK'
<1> USE DEF FlagsOK, flags, check, mainv, hist
<1>1. FlagsOK
  BY DEF TypeOK
<1>2. CASE Starts \/ Stops
  BY <1>1, <1>2, Zenon DEF Starts, Stops, StartSkip, StartSync, StartThread, StartDone, StopSkip, StopAsk, StopDone
<1>3. CASE Switch \/ Respond \/ RequestCheck
  BY <1>1, <1>3, Zenon DEF Switch, Respond, RequestCheck
<1>4. CASE Tick \/ SendEnds \/ \E news \in posted : Callback(news)
  BY <1>1, <1>4, Zenon DEF Tick, SendEnds, Callback
<1>5. CASE Check
  BY <1>1, <1>5, Zenon DEF Check, CheckSkip, CheckLists, CheckStores, CheckFails, CheckEnds
<1>6. CASE \E k \in DOMAIN idle : Idle(k)
  BY <1>1, <1>6, Zenon DEF Idle, IdleEnds, IdleSelects, IdleNotices, IdleOverlooks, IdleLoses, IdleLists, IdleStores
<1>7. CASE (\E m \in Msgs : Arrive(m)) \/ UNCHANGED vars
  BY <1>1, <1>7 DEF Arrive, vars
<1>8. QED
  BY <1>2, <1>3, <1>4, <1>5, <1>6, <1>7 DEF Next

LEMMA PlacesInductive == ASSUME TypeOK, [Next]_vars PROVE PlacesOK'
<1> USE CountAssumption, HomeAssumption DEF PlacesOK, Accts, flags, check, mainv, hist
<1>1. PlacesOK /\ Len(idle) \in 0 .. MaxIdle
  BY DEF TypeOK
<1>2. CASE StartSkip
  BY <1>1, <1>2 DEF StartSkip
<1>3. CASE StartSync
  BY <1>1, <1>3 DEF StartSync
<1>4. CASE StartThread
  BY <1>1, <1>4 DEF StartThread
<1>5. CASE StartDone
  BY <1>1, <1>5 DEF StartDone
<1>6. CASE StopSkip \/ StopAsk \/ StopDone
  BY <1>1, <1>6, SMTT(30) DEF StopSkip, StopAsk, StopDone
<1>7. CASE Switch \/ Respond \/ RequestCheck
  <2>1. CASE Switch
    BY <1>1, <2>1 DEF Switch
  <2>2. CASE Respond
    BY <1>1, <2>2 DEF Respond
  <2>3. CASE RequestCheck
    BY <1>1, <2>3 DEF RequestCheck
  <2>4. QED
    BY <1>7, <2>1, <2>2, <2>3
<1>8. CASE Tick
  <2>1. UNCHANGED <<main, at, failed, switches, fetching, idle>>
    BY <1>8 DEF Tick
  <2>2. turn' \in 1 .. N + 1
    BY <1>1, <1>8 DEF Tick
  <2>3. fetching => checking' /\ UNCHANGED turn
    BY <1>1, <1>8, Zenon DEF Tick
  <2>4. QED
    BY <1>1, <2>1, <2>2, <2>3
<1>9. CASE CheckSkip
  BY <1>1, <1>9 DEF CheckSkip
<1>10. CASE CheckLists
  BY <1>1, <1>10 DEF CheckLists
<1>11. CASE CheckStores
  BY <1>1, <1>11 DEF CheckStores
<1>12. CASE CheckFails
  BY <1>1, <1>12 DEF CheckFails
<1>13. CASE CheckEnds
  BY <1>1, <1>13 DEF CheckEnds
<1>14. ASSUME UNCHANGED <<main, at, turn, failed, switches, fetching, checking>>, Len(idle') = Len(idle)
       PROVE  PlacesOK'
  BY <1>1, <1>14
<1>15. ASSUME NEW k \in DOMAIN idle, Idle(k) PROVE PlacesOK'
  <2>1. UNCHANGED <<main, at, turn, failed, switches, fetching, checking>>
    BY <1>15 DEF Idle, IdleEnds, IdleSelects, IdleNotices, IdleOverlooks, IdleLoses, IdleLists, IdleStores
  <2>2. CASE StartThread
    BY <1>4, <2>2
  <2>3. CASE ~StartThread
    BY <2>1, <2>3, SlotSteps, AdvancedSlots, <1>14
  <2>4. QED
    BY <2>2, <2>3
<1>16. CASE SendEnds
  BY <1>14, <1>16 DEF SendEnds
<1>17. ASSUME NEW news \in posted, Callback(news) PROVE PlacesOK'
  BY <1>14, <1>17 DEF Callback
<1>18. ASSUME NEW m \in Msgs, Arrive(m) PROVE PlacesOK'
  BY <1>14, <1>18 DEF Arrive
<1>19. CASE UNCHANGED vars
  BY <1>14, <1>19 DEF vars
<1>20. QED
  BY <1>2, <1>3, <1>4, <1>5, <1>6, <1>7, <1>8, <1>9, <1>10, <1>11, <1>12, <1>13, <1>15, <1>16, <1>17,
     <1>18, <1>19 DEF Next, Starts, Stops, Check

LEMMA TypeInductive == TypeOK /\ [Next]_vars => TypeOK'
BY SlotsInductive, MailInductive, FlagsInductive, PlacesInductive
   DEF TypeOK, MailOK, SlotsOK, FlagsOK, PlacesOK

LEMMA InitTypeOK == Init => TypeOK
<1> SUFFICES ASSUME Init PROVE TypeOK
  OBVIOUS
<1>1. MailOK
  BY DEF Init, MailOK, NotSyncing
<1>2. SlotsOK
  BY CountAssumption DEF Init, SlotsOK
<1>3. FlagsOK
  BY DEF Init, FlagsOK
<1>4. PlacesOK
  BY CountAssumption DEF Init, PlacesOK
<1>5. QED
  BY <1>1, <1>2, <1>3, <1>4, TypeParts

\* Type correctness of the scheduler with its check and IDLE threads
\* (idle_scheduler.c, macmbx_mailer.c).
THEOREM IdleTypeOK == Spec => []TypeOK
BY InitTypeOK, TypeInductive, PTL DEF Spec

-----------------------------------------------------------------------------
(* The offline switch                                                      *)

\* Everything a step may do to the main thread, the switch and the slots.
LEMMA MainSteps ==
    ASSUME TypeOK, [Next]_vars
    PROVE  \/ UNCHANGED <<main, at, offline, switches, idle>>
           \/ StartSkip \/ StartSync \/ StartThread \/ StartDone \/ StopSkip \/ StopDone
           \/ Switch \/ Respond
           \/ \E k \in DOMAIN idle, s \in Slot : Advanced(k, s)
<1>1. CASE UNCHANGED idle
  <2>1. CASE \E k \in DOMAIN idle : Idle(k)
    BY <1>1, <2>1 DEF Idle, IdleEnds, IdleSelects, IdleNotices, IdleOverlooks, IdleLoses, IdleLists,
       IdleStores, mainv
  <2>2. CASE StopAsk
    BY <2>2, SlotSteps, <1>1 DEF StopAsk, mainv
  <2>3. CASE RequestCheck \/ Tick \/ SendEnds \/ Check
    BY <1>1, <2>3 DEF RequestCheck, Tick, SendEnds, Check, CheckSkip, CheckLists, CheckStores, CheckFails,
       CheckEnds, mainv
  <2>4. CASE (\E news \in posted : Callback(news)) \/ (\E m \in Msgs : Arrive(m)) \/ UNCHANGED vars
    BY <1>1, <2>4 DEF Callback, Arrive, vars, mainv
  <2>5. QED
    BY <2>1, <2>2, <2>3, <2>4 DEF Next, Starts, Stops
<1>2. QED
  BY <1>1, SlotSteps

Ended == \A k \in DOMAIN idle : idle[k].pc = "ended"

\* While the main thread goes through the slots to stop them, those behind it
\* have ended; it starts threads only when online, or before the first turn.
OfflineInv ==
    /\ TypeOK
    /\ main = "stopping" => offline /\ \A k \in DOMAIN idle : k < at => idle[k].pc = "ended"
    /\ main \in {"starting", "syncing"} => ~offline \/ switches = 0
    /\ main = "loop" => at = 1
    /\ QuietOffline

LEMMA OfflineInductive == OfflineInv /\ [Next]_vars => OfflineInv'
<1> SUFFICES ASSUME OfflineInv, [Next]_vars PROVE OfflineInv'
  OBVIOUS
<1>1. TypeOK /\ TypeOK'
  BY TypeInductive DEF OfflineInv
<1> USE <1>1, CountAssumption DEF OfflineInv, QuietOffline
<1>2. CASE UNCHANGED <<main, at, offline, switches, idle>>
  BY <1>2
<1>3. CASE StartSkip \/ StartSync
  BY <1>3 DEF StartSkip, StartSync
<1>4. CASE StartThread
  BY <1>4 DEF StartThread
<1>5. CASE StartDone
  BY <1>5 DEF StartDone
<1>6. CASE StopSkip
  <2>1. idle[at].pc = "ended" /\ UNCHANGED <<main, offline, switches, idle>> /\ at' = at + 1
    BY <1>6 DEF StopSkip, TypeOK
  <2>2. \A k \in DOMAIN idle : k < at' => k < at \/ k = at
    BY <2>1 DEF TypeOK
  <2>3. QED
    BY <1>6, <2>1, <2>2 DEF StopSkip
<1>7. CASE StopDone
  <2>1. \A k \in DOMAIN idle : k < at
    BY <1>7 DEF StopDone, TypeOK
  <2>2. QED
    BY <1>7, <2>1 DEF StopDone
<1>8. CASE Switch
  BY <1>8 DEF Switch, TypeOK
<1>9. CASE Respond
  BY <1>9 DEF Respond, TypeOK
<1>10. ASSUME NEW k \in DOMAIN idle, NEW s \in Slot, Advanced(k, s) PROVE OfflineInv'
  <2>1. UNCHANGED <<main, at, offline, switches>> /\ idle[k].pc # "ended"
    BY <1>10 DEF Advanced, TypeOK
  <2>2. DOMAIN idle' = DOMAIN idle /\ \A j \in DOMAIN idle : j # k => idle'[j] = idle[j]
    BY <1>10, AdvancedSlots
  <2>3. QED
    BY <2>1, <2>2
<1>11. QED
  BY <1>2, <1>3, <1>4, <1>5, <1>6, <1>7, <1>8, <1>9, <1>10, MainSteps

\* Offline, nothing of the program stays connected in IDLE:
\* idle_scheduler_set_offline joins every thread before it returns.
THEOREM IdleQuietOffline == Spec => []QuietOffline
<1>1. Init => OfflineInv
  BY InitTypeOK DEF Init, OfflineInv, QuietOffline
<1>2. OfflineInv => QuietOffline
  BY DEF OfflineInv
<1>3. QED
  BY <1>1, <1>2, OfflineInductive, PTL DEF Spec

LEMMA ImapNumbers == \A a \in Imap : a \in Int /\ 1 <= a /\ a <= N /\ ~(a < 1)
BY HomeAssumption, CountAssumption DEF Accts

Covered(a) == \/ \E k \in DOMAIN idle : idle[k].acct = a /\ idle[k].pc # "ended"
              \/ Len(idle) = MaxIdle

\* A thread ends only when it was told to, and only a stop tells one; idle_start
\* leaves no account behind it without a thread.
CoverInv ==
    /\ OfflineInv
    /\ main # "stopping" => \A k \in DOMAIN idle : idle[k].active => idle[k].running
    /\ main \in {"starting", "syncing"} => \A a \in Imap : a < at => Covered(a)
    /\ IdleCovers

LEMMA CoverInductive == CoverInv /\ [Next]_vars => CoverInv'
<1> SUFFICES ASSUME CoverInv, [Next]_vars PROVE CoverInv'
  OBVIOUS
<1>1. OfflineInv /\ OfflineInv' /\ TypeOK /\ TypeOK'
  BY OfflineInductive DEF CoverInv, OfflineInv
<1> USE <1>1, CountAssumption DEF CoverInv, Covered, IdleCovers
<1>2. CASE UNCHANGED <<main, at, offline, switches, idle>>
  BY <1>2
<1>3. CASE StartSkip
  <2>1. UNCHANGED <<main, offline, idle>> /\ at' = at + 1 /\ main = "starting"
    BY <1>3 DEF StartSkip
  <2>2. at \in Imap => Covered(at)
    BY <1>3 DEF StartSkip, IdleActive, TypeOK
  <2>3. \A a \in Imap : a < at' => a < at \/ a = at
    BY <2>1, HomeAssumption DEF TypeOK, Accts
  <2>4. QED
    BY <2>1, <2>2, <2>3
<1>4. CASE StartSync
  BY <1>4 DEF StartSync
<1>5. CASE StartThread
  <2>1. /\ main' = "starting" /\ main = "syncing" /\ at' = at + 1 /\ at \in Imap
        /\ Len(idle) # MaxIdle
    BY <1>5 DEF StartThread, TypeOK
  <2>2. /\ \A j \in DOMAIN idle : j \in DOMAIN idle' /\ idle'[j] = idle[j]
        /\ Len(idle) + 1 \in DOMAIN idle' /\ DOMAIN idle' = DOMAIN idle \cup {Len(idle) + 1}
        /\ idle'[Len(idle) + 1] = [acct |-> at, running |-> TRUE, active |-> TRUE, pc |-> "connect",
                                   told |-> {}]
    BY <1>5, AppendedSlots
  <2>3. \A a \in Imap : a < at' => a < at \/ a = at
    BY <2>1, HomeAssumption DEF TypeOK, Accts
  <2>4. \A a \in Imap : a < at' => Covered(a)'
    BY <2>1, <2>2, <2>3
  <2>5. \A k \in DOMAIN idle' : idle'[k].active => idle'[k].running
    BY <2>1, <2>2
  <2>6. QED
    BY <2>1, <2>4, <2>5
<1>6. CASE StartDone
  <2>1. UNCHANGED <<offline, idle>> /\ main' = "loop" /\ main = "starting" /\ at > N
    BY <1>6 DEF StartDone
  <2>2. \A a \in Imap : a < at
    BY <2>1, HomeAssumption DEF TypeOK, Accts
  <2>3. QED
    BY <2>1, <2>2
<1>7. CASE StopSkip
  BY <1>7 DEF StopSkip
<1>8. CASE StopDone
  <2>1. offline' /\ main' = "loop" /\ UNCHANGED idle
    BY <1>8 DEF StopDone, OfflineInv
  <2>2. \A k \in DOMAIN idle : idle[k].pc = "ended"
    BY <1>8 DEF StopDone, OfflineInv, TypeOK
  <2>3. QED
    BY <2>1, <2>2 DEF TypeOK
<1>9. CASE Switch
  <2>1. at' = 1 /\ main' \in {"stopping", "starting"} /\ main = "loop" /\ UNCHANGED idle
    BY <1>9 DEF Switch, OfflineInv
  <2>2. \A a \in Imap : ~(a < 1)
    BY ImapNumbers
  <2>3. main' \notin {"loop", "syncing"} /\ \A a \in Imap : ~(a < at')
    BY <2>1, <2>2
  <2>4. \A k \in DOMAIN idle' : idle'[k].active => idle'[k].running
    BY <2>1
  <2>5. QED
    BY <2>3, <2>4
<1>10. CASE Respond
  BY <1>10 DEF Respond
<1>11. ASSUME NEW k \in DOMAIN idle, NEW s \in Slot, Advanced(k, s) PROVE CoverInv'
  <2>1. UNCHANGED <<main, at, offline, switches>>
    BY <1>11 DEF Advanced
  <2>2. /\ DOMAIN idle' = DOMAIN idle /\ Len(idle') = Len(idle)
        /\ \A j \in DOMAIN idle : idle'[j] = IF j = k THEN s ELSE idle[j]
    BY <1>11, AdvancedSlots
  <2>3. CASE main = "stopping"
    BY <2>1, <2>3
  <2>4. CASE main # "stopping"
    <3>1. s.active /\ s.running /\ s.acct = idle[k].acct /\ s.pc # "ended"
      BY <1>11, <2>4 DEF Advanced, Slot, TypeOK
    <3>2. ASSUME NEW a \in Imap, Covered(a) PROVE Covered(a)'
      <4>1. CASE Len(idle) = MaxIdle
        BY <2>2, <4>1
      <4>2. ASSUME NEW j \in DOMAIN idle, idle[j].acct = a, idle[j].pc # "ended" PROVE Covered(a)'
        BY <2>2, <3>1, <4>2, Zenon
      <4>3. QED
        BY <3>2, <4>1, <4>2
    <3>3. \A j \in DOMAIN idle' : idle'[j].active => idle'[j].running
      BY <2>2, <2>4, <3>1
    <3>4. IdleCovers'
      BY <2>1, <3>2
    <3>5. QED
      BY <2>1, <3>2, <3>3, <3>4
  <2>5. QED
    BY <2>3, <2>4
<1>12. QED
  BY <1>2, <1>3, <1>4, <1>5, <1>6, <1>7, <1>8, <1>9, <1>10, <1>11, MainSteps

\* Online, every IMAP account has its IDLE thread unless the slots are used up:
\* macmbx_mailer_idle_start after any number of stops.
THEOREM IdleAllCovered == Spec => []IdleCovers
<1>1. Init => CoverInv
  <2> SUFFICES ASSUME Init PROVE CoverInv
    OBVIOUS
  <2>1. OfflineInv
    BY InitTypeOK DEF Init, OfflineInv, QuietOffline
  <2>2. \A a \in Imap : ~(a < 1)
    BY ImapNumbers
  <2>3. QED
    BY <2>1, <2>2 DEF Init, CoverInv, IdleCovers
<1>2. CoverInv => IdleCovers
  BY DEF CoverInv
<1>3. QED
  BY <1>1, <1>2, CoverInductive, PTL DEF Spec

-----------------------------------------------------------------------------
(* Who checks an account                                                   *)

\* An account has one IDLE thread at most, none while idle_start syncs it, and,
\* unless going online raced with a check, none while the check thread has it,
\* which then does not run beside idle_start.
OwnInv ==
    /\ TypeOK
    /\ \A i, j \in DOMAIN idle : idle[i].active /\ idle[j].active /\ idle[i].acct = idle[j].acct => i = j
    /\ main = "syncing" => ~IdleActive(at)
    /\ ~raced => /\ main = "syncing" => ~checking
                 /\ fetching => ~IdleActive(turn)

LEMMA OwnInductive == OwnInv /\ [Next]_vars => OwnInv'
<1> SUFFICES ASSUME OwnInv, [Next]_vars PROVE OwnInv'
  OBVIOUS
<1>1. TypeOK /\ TypeOK'
  BY TypeInductive DEF OwnInv
<1> USE <1>1 DEF OwnInv
<1>2. ASSUME UNCHANGED <<turn, fetching, checking, idle, raced>>,
             UNCHANGED <<main, at>> \/ main' # "syncing"
      PROVE  OwnInv'
  BY <1>2 DEF IdleActive
<1>3. CASE StartSkip \/ StartDone \/ StopSkip \/ StopDone
  BY <1>2, <1>3 DEF StartSkip, StartDone, StopSkip, StopDone, flags, check, hist
<1>4. CASE Switch \/ Respond
  BY <1>2, <1>4 DEF Switch, Respond, flags, check, hist
<1>5. CASE RequestCheck \/ SendEnds
  BY <1>2, <1>5 DEF RequestCheck, SendEnds, mainv, check, hist
<1>6. CASE (\E news \in posted : Callback(news)) \/ (\E m \in Msgs : Arrive(m)) \/ UNCHANGED vars
  BY <1>2, <1>6 DEF Callback, Arrive, vars, mainv, flags, check, hist
<1>7. CASE StartSync
  <2>1. ~IdleActive(at) /\ UNCHANGED <<at, turn, fetching, checking, idle>> /\ main' = "syncing"
    BY <1>7 DEF StartSync, flags, check
  <2>2. ~raced' => ~raced /\ ~checking
    BY <1>7, Zenon DEF StartSync
  <2>3. QED
    BY <2>1, <2>2 DEF IdleActive
<1>8. CASE StartThread
  <2>1. ~IdleActive(at) /\ main' = "starting" /\ UNCHANGED <<turn, fetching, checking, raced>>
    BY <1>8 DEF StartThread, flags, check
  <2>2. /\ DOMAIN idle' = DOMAIN idle \cup {Len(idle) + 1} /\ Len(idle) + 1 \notin DOMAIN idle
        /\ \A j \in DOMAIN idle : idle'[j] = idle[j]
        /\ idle'[Len(idle) + 1].acct = at /\ idle'[Len(idle) + 1].active
    BY <1>8, AppendedSlots DEF TypeOK
  <2>3. \A i, j \in DOMAIN idle' : idle'[i].active /\ idle'[j].active /\ idle'[i].acct = idle'[j].acct => i = j
    BY <2>1, <2>2 DEF IdleActive
  <2>4. ~raced => ~fetching
    BY <1>8 DEF StartThread, TypeOK
  <2>5. QED
    BY <2>1, <2>3, <2>4
<1>9. CASE Tick
  <2>1. UNCHANGED <<main, at, fetching, idle, raced>> /\ main = "loop"
    BY <1>9 DEF Tick, mainv, hist
  <2>2. fetching => UNCHANGED turn
    BY <1>9, Zenon DEF Tick, TypeOK
  <2>3. QED
    BY <2>1, <2>2 DEF IdleActive
<1>10. CASE CheckSkip
  BY <1>10 DEF CheckSkip, mainv, flags, hist, IdleActive
<1>11. CASE CheckLists
  <2>1. UNCHANGED <<main, at, turn, checking, idle, raced>> /\ ~IdleActive(turn)
    BY <1>11 DEF CheckLists, mainv, flags, hist
  <2>2. QED
    BY <2>1 DEF IdleActive
<1>12. CASE CheckStores \/ CheckFails
  <2>1. UNCHANGED <<main, at, checking, idle, raced>> /\ ~fetching'
    BY <1>12 DEF CheckStores, CheckFails, mainv, flags, hist
  <2>2. QED
    BY <2>1 DEF IdleActive
<1>13. CASE CheckEnds
  <2>1. UNCHANGED <<main, at, turn, fetching, idle, raced>> /\ ~checking'
    BY <1>13 DEF CheckEnds, mainv, check, hist
  <2>2. QED
    BY <2>1 DEF IdleActive
<1>14. ASSUME NEW k \in DOMAIN idle, StopAsk \/ Idle(k) PROVE OwnInv'
  <2>1. UNCHANGED <<main, at, turn, fetching, checking, raced>>
    BY <1>14 DEF StopAsk, Idle, IdleEnds, IdleSelects, IdleNotices, IdleOverlooks, IdleLoses, IdleLists,
       IdleStores, mainv, flags, check, hist
  <2>2. CASE UNCHANGED idle
    BY <1>2, <2>1, <2>2
  <2>3. CASE StartThread
    BY <1>8, <2>3
  <2>4. ASSUME NEW j \in DOMAIN idle, NEW s \in Slot, Advanced(j, s) PROVE OwnInv'
    <3>1. /\ DOMAIN idle' = DOMAIN idle
          /\ \A i \in DOMAIN idle : idle'[i].acct = idle[i].acct /\ (idle'[i].active => idle[i].active)
      BY <2>4, AdvancedSlots DEF Advanced
    <3>2. \A a : IdleActive(a)' => IdleActive(a)
      BY <3>1 DEF IdleActive
    <3>3. QED
      BY <2>1, <3>1, <3>2
  <2>5. QED
    BY <2>2, <2>3, <2>4, SlotSteps
<1>15. StopAsk => DOMAIN idle # {}
  BY DEF StopAsk, TypeOK
<1>16. QED
  BY <1>3, <1>4, <1>5, <1>6, <1>7, <1>8, <1>9, <1>10, <1>11, <1>12, <1>13, <1>14, <1>15
     DEF Next, Starts, Stops, Check

\* The threads inside a sync that has listed its account, and that account.
Storing(t) ==
    \/ t = MainThread /\ main = "syncing"
    \/ t = CheckThread /\ fetching
    \/ t \in DOMAIN idle /\ idle[t].pc = "store"
Account(t) == IF t = MainThread THEN at ELSE IF t = CheckThread THEN turn ELSE idle[t].acct
Kept(t) == Storing(t) => Storing(t)' /\ Account(t)' = Account(t)

LEMMA ThreadsApart ==
    /\ MainThread \in Threads /\ CheckThread \in Threads /\ MainThread # CheckThread
    /\ TypeOK => /\ DOMAIN idle \subseteq Threads
                 /\ MainThread \notin DOMAIN idle /\ CheckThread \notin DOMAIN idle
BY CountAssumption DEF Threads, Slots, MainThread, CheckThread, TypeOK

LEMMA AccountsApart ==
    ASSUME OwnInv, ~raced, NEW t \in Threads, NEW u \in Threads, t # u, Storing(t), Storing(u)
    PROVE  Account(t) # Account(u)
<1> USE ThreadsApart DEF OwnInv
<1>1. \A k \in DOMAIN idle : idle[k].pc = "store" => idle[k].active
  BY DEF TypeOK
<1>2. main = "syncing" => ~fetching
  BY DEF TypeOK
<1>3. QED
  BY <1>1, <1>2 DEF Storing, Account, IdleActive

LEMMA KeptAll ==
    ASSUME TypeOK, main = "syncing" => UNCHANGED <<main, at>>, fetching => UNCHANGED <<fetching, turn>>,
           \A k \in DOMAIN idle : idle[k].pc = "store" => /\ k \in DOMAIN idle'
                                                        /\ UNCHANGED <<idle[k].pc, idle[k].acct>>
    PROVE  \A t \in Threads : Kept(t)
BY ThreadsApart DEF Kept, Storing, Account, MainThread, CheckThread

\* What a thread has listed is of its account, and unless going online raced
\* with a check none of it is in In already.
RaceInv ==
    /\ OwnInv
    /\ \A t \in Threads : listed[t] # {} => Storing(t)
    /\ \A t \in Threads : \A m \in listed[t] : Home[m] = Account(t)
    /\ ~raced => doubled = {} /\ \A t \in Threads : listed[t] \cap got = {}

LEMMA RaceInductive == RaceInv /\ [Next]_vars => RaceInv'
<1> SUFFICES ASSUME RaceInv, [Next]_vars PROVE RaceInv'
  OBVIOUS
<1>1. OwnInv /\ OwnInv' /\ TypeOK /\ TypeOK' /\ listed \in [Threads -> SUBSET arrived]
  BY OwnInductive DEF RaceInv, OwnInv, TypeOK
<1>2. ASSUME UNCHANGED <<listed, got, doubled, raced>>, \A t \in Threads : Kept(t)
      PROVE  RaceInv'
  BY <1>1, <1>2 DEF RaceInv, Kept
<1>3. ASSUME NEW t \in Threads, NEW a, Lists(t, a) \/ UNCHANGED listed, Account(t)' = a, Storing(t)',
             ~Storing(t), UNCHANGED <<got, doubled>>, raced => raced',
             \A u \in Threads \ {t} : Kept(u)
      PROVE  RaceInv'
  <2>1. \A u \in Threads \ {t} : listed'[u] = listed[u]
    BY <1>1, <1>3 DEF Lists
  <2>2. \A m \in listed'[t] : Home[m] = a /\ m \notin got
    BY <1>1, <1>3 DEF Lists, RaceInv
  <2>3. QED
    BY <1>1, <1>3, <2>1, <2>2 DEF RaceInv, Kept
<1>4. ASSUME NEW t \in Threads, listed' = [listed EXCEPT ![t] = {}], UNCHANGED raced,
             \/ UNCHANGED <<got, doubled>>
             \/ Stores(t),
             Storing(t), \A u \in Threads \ {t} : Kept(u)
      PROVE  RaceInv'
  <2>1. listed'[t] = {} /\ \A u \in Threads \ {t} : listed'[u] = listed[u]
    BY <1>1, <1>4
  <2>2. ASSUME NEW u \in Threads \ {t}, ~raced PROVE listed[u] \cap listed[t] = {}
    BY <1>1, <1>4, <2>2, AccountsApart DEF RaceInv
  <2>3. ~raced => doubled' = {} /\ \A u \in Threads : listed'[u] \cap got' = {}
    BY <1>4, <2>1, <2>2 DEF RaceInv, Stores
  <2>4. QED
    BY <1>1, <1>4, <2>1, <2>3 DEF RaceInv, Kept
<1> HIDE DEF RaceInv
<1>5. ASSUME main = "syncing" => UNCHANGED <<main, at>>, fetching => UNCHANGED <<fetching, turn>>,
             UNCHANGED <<listed, got, doubled, raced, idle>>
      PROVE  RaceInv'
  BY <1>1, <1>2, <1>5, KeptAll
<1>6. CASE StartSkip \/ StartDone \/ StopSkip \/ StopDone
  BY <1>5, <1>6 DEF StartSkip, StartDone, StopSkip, StopDone, mail, check, hist
<1>7. CASE Switch \/ Respond
  BY <1>5, <1>7 DEF Switch, Respond, mail, check, hist
<1>8. CASE RequestCheck \/ SendEnds
  BY <1>5, <1>8 DEF RequestCheck, SendEnds, mainv, mail, check, hist
<1>9. CASE (\E news \in posted : Callback(news)) \/ (\E m \in Msgs : Arrive(m)) \/ UNCHANGED vars
  BY <1>5, <1>9 DEF Callback, Arrive, vars, mail, mainv, check, hist
<1>10. CASE Tick
  <2>1. UNCHANGED <<main, at, listed, got, doubled, raced, idle, fetching>>
    BY <1>10 DEF Tick, mainv, hist
  <2>2. fetching => UNCHANGED turn
    BY <1>1, <1>10, Zenon DEF Tick, TypeOK
  <2>3. QED
    BY <1>5, <2>1, <2>2
<1>11. CASE CheckSkip \/ CheckEnds
  BY <1>5, <1>11 DEF CheckSkip, CheckEnds, mail, mainv, flags, check, hist
<1>12. CASE StartSync
  <2>1. /\ main = "starting" /\ main' = "syncing" /\ UNCHANGED <<at, turn, fetching, idle, got, doubled>>
        /\ Lists(MainThread, at)
    BY <1>12 DEF StartSync, mail, check
  <2>2. raced => raced'
    BY <1>12, Zenon DEF StartSync
  <2>3. \A u \in Threads : Kept(u)
    BY <1>1, <2>1, KeptAll
  <2>4. ~Storing(MainThread) /\ Storing(MainThread)' /\ Account(MainThread)' = at
    BY <1>1, <2>1, ThreadsApart DEF Storing, Account
  <2>5. QED
    BY <1>3, <2>1, <2>2, <2>3, <2>4, ThreadsApart
<1>13. CASE CheckLists
  <2>1. /\ ~fetching /\ fetching' /\ UNCHANGED <<main, at, turn, idle, got, doubled, raced>>
        /\ Lists(CheckThread, turn)
    BY <1>13 DEF CheckLists, mail, mainv, hist
  <2>2. \A u \in Threads : Kept(u)
    BY <1>1, <2>1, KeptAll
  <2>3. ~Storing(CheckThread) /\ Storing(CheckThread)' /\ Account(CheckThread)' = turn
    BY <1>1, <2>1, ThreadsApart DEF Storing, Account
  <2>4. QED
    BY <1>3, <2>1, <2>2, <2>3, ThreadsApart
<1>14. CASE StartThread
  <2>1. main = "syncing" /\ Stores(MainThread) /\ UNCHANGED <<turn, fetching, raced>>
    BY <1>14 DEF StartThread, check
  <2>2. /\ DOMAIN idle \subseteq DOMAIN idle'
        /\ \A j \in DOMAIN idle : idle'[j] = idle[j]
    BY <1>1, <1>14, AppendedSlots
  <2>3. Storing(MainThread)
    BY <2>1 DEF Storing
  <2>4. \A u \in Threads \ {MainThread} : Kept(u)
    BY <2>1, <2>2 DEF Kept, Storing, Account
  <2>5. QED
    BY <1>4, <2>1, <2>3, <2>4, ThreadsApart DEF Stores
<1>15. CASE CheckStores \/ CheckFails
  <2>1. /\ fetching /\ UNCHANGED <<main, at, idle, raced>>
        /\ listed' = [listed EXCEPT ![CheckThread] = {}]
        /\ UNCHANGED <<got, doubled>> \/ Stores(CheckThread)
    BY <1>15 DEF CheckStores, CheckFails, Stores, mail, mainv, hist
  <2>2. Storing(CheckThread)
    BY <2>1 DEF Storing
  <2>3. \A u \in Threads \ {CheckThread} : Kept(u)
    BY <2>1 DEF Kept, Storing, Account
  <2>4. QED
    BY <1>4, <2>1, <2>2, <2>3, ThreadsApart
<1>16. ASSUME NEW k \in DOMAIN idle, NEW s \in Slot, Advanced(k, s),
              UNCHANGED <<turn, fetching, raced>>,
              \/ UNCHANGED <<listed, got, doubled>> /\ (idle[k].pc = "store" => idle'[k].pc = "store")
              \/ IdleLists(k)
              \/ IdleStores(k)
       PROVE  RaceInv'
  <2>1. /\ UNCHANGED <<main, at>> /\ DOMAIN idle' = DOMAIN idle /\ k \in Threads
        /\ \A j \in DOMAIN idle : idle'[j] = IF j = k THEN s ELSE idle[j]
        /\ s.acct = idle[k].acct
    BY <1>1, <1>16, AdvancedSlots, ThreadsApart DEF Advanced
  <2>2. \A u \in Threads \ {k} : Kept(u)
    BY <1>16, <2>1 DEF Kept, Storing, Account
  <2>3. Account(k)' = Account(k) /\ Account(k) = idle[k].acct
    BY <1>1, <2>1, ThreadsApart DEF Account
  <2>4. CASE UNCHANGED <<listed, got, doubled>> /\ (idle[k].pc = "store" => idle'[k].pc = "store")
    <3>1. Kept(k)
      BY <1>1, <2>1, <2>3, <2>4, ThreadsApart DEF Kept, Storing
    <3>2. QED
      BY <1>2, <1>16, <2>2, <2>4, <3>1
  <2>5. CASE IdleLists(k)
    <3>1. idle[k].pc = "list" /\ idle'[k].pc = "store" /\ UNCHANGED <<got, doubled>>
      BY <1>1, <2>5 DEF IdleLists, Moves, TypeOK, mail, Slot
    <3>2. ~Storing(k) /\ Storing(k)'
      BY <1>1, <2>1, <3>1, ThreadsApart DEF Storing
    <3>3. Lists(k, idle[k].acct) \/ UNCHANGED listed
      BY <2>5 DEF IdleLists
    <3>4. QED
      BY <1>3, <1>16, <2>1, <2>2, <2>3, <3>1, <3>2, <3>3
  <2>6. CASE IdleStores(k)
    <3>1. Storing(k) /\ Stores(k)
      BY <2>6 DEF IdleStores, Storing
    <3>2. QED
      BY <1>4, <1>16, <2>1, <2>2, <3>1 DEF Stores
  <2>7. QED
    BY <1>16, <2>4, <2>5, <2>6
<1>17. CASE StopAsk
  <2>1. UNCHANGED <<turn, fetching, raced, listed, got, doubled>>
    BY <1>17 DEF StopAsk, mail, check, hist
  <2>2. at \in DOMAIN idle /\ idle'[at].pc = idle[at].pc
    BY <1>1, <1>17, StopAskAdvances DEF StopAsk, TypeOK, Slot
  <2>3. QED
    BY <1>1, <1>16, <1>17, <2>1, <2>2, StopAskAdvances
<1>18. ASSUME NEW k \in DOMAIN idle, Idle(k) PROVE RaceInv'
  <2>1. UNCHANGED <<turn, fetching, raced>>
    BY <1>18 DEF Idle, IdleEnds, IdleSelects, IdleNotices, IdleOverlooks, IdleLoses, IdleLists, IdleStores,
       check, hist
  <2>2. \/ UNCHANGED <<listed, got, doubled>> /\ (idle[k].pc = "store" => idle'[k].pc = "store")
        \/ IdleLists(k)
        \/ IdleStores(k)
    BY <1>18 DEF Idle, IdleEnds, IdleSelects, IdleNotices, IdleOverlooks, IdleLoses, mail
  <2>3. PICK s \in Slot : Advanced(k, s)
    BY <1>1, <1>18, IdleAdvances
  <2>4. QED
    BY <1>16, <2>1, <2>2, <2>3
<1>19. QED
  BY <1>6, <1>7, <1>8, <1>9, <1>10, <1>11, <1>12, <1>13, <1>14, <1>15, <1>17, <1>18
     DEF Next, Starts, Stops, Check

\* A message is twice in In only if going online synced an account that the
\* check thread was in the middle of: start_imap_idle beside check_thread_func.
THEOREM IdleDoubledNeedsRace == Spec => []DoubledNeedsRace
<1>1. Init => RaceInv
  <2> SUFFICES ASSUME Init PROVE RaceInv
    OBVIOUS
  <2>1. TypeOK /\ idle = <<>> /\ main = "starting" /\ fetching = FALSE /\ doubled = {}
    BY InitTypeOK DEF Init
  <2>2. \A t \in Threads : listed[t] = {}
    BY DEF Init, NotSyncing
  <2>3. OwnInv
    BY <2>1 DEF OwnInv
  <2>4. QED
    BY <2>1, <2>2, <2>3 DEF RaceInv
<1>2. RaceInv => DoubledNeedsRace
  BY DEF RaceInv, DoubledNeedsRace
<1>3. QED
  BY <1>1, <1>2, RaceInductive, PTL DEF Spec
=============================================================================
