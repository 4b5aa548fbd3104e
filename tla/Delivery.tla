------------------------------ MODULE Delivery ------------------------------
(***************************************************************************)
(* What happens to mail once it is in In: the filters, the junk scorer and *)
(* the move to Junk that end a check (macmbx/macmbx_mailer.c, over         *)
(* macmbx_filter.c, macmbx_junk.c and macmbx_transfer of macmbx_ops.c),    *)
(* with the user at work on the same tables from the windows               *)
(* (src/src/mailbox.c, src/src/gtk_mailbox.c).                             *)
(*                                                                         *)
(* Checks run on threads of their own, several at once when IDLE threads   *)
(* run one, the user's commands on the main thread, and no lock is between *)
(* them: a transfer is a step that appends, one that describes the copy    *)
(* and one that marks the original, and a score is a test, a scorer that   *)
(* takes its time and a write.                                             *)
(*                                                                         *)
(* A mailbox is its table in memory, its mbox file and its .toc file, as   *)
(* in PopCheck; a summary keeps of the message what filters and scorer     *)
(* look at.  A check saves In and no other mailbox: what it files          *)
(* elsewhere is in the mbox file of its new place and in no .toc file.     *)
(***************************************************************************)
EXTENDS Integers, Sequences, FiniteSets, SequencesExt, FiniteSetsExt, Subsequences

CONSTANTS Checkers,  \* threads that check for mail
          Msgs,      \* messages, each with a Message-ID of its own
          Folders,   \* mailboxes besides In and Junk
          RuleSets,  \* filters a user may have: each a sequence of
                     \* [match : SUBSET Msgs, actions : Seq(Action)]
          Verdict,   \* message -> what the scorer says of it, -1 if nothing
          Threshold, \* score from which a message is junk
          MaxEvents  \* bound on crashes, refusals and steps of the user

Boxes   == {"In", "Junk"} \cup Folders
Threads == Checkers \cup {"main"}
Action  == [do : {"transfer", "copy"}, to : Boxes \ {"In"}]
              \cup [do : {"delete", "stop"}] \cup [do : {"junk"}, score : 0 .. 100]

ASSUME CheckersAssumption == "main" \notin Checkers
ASSUME VerdictAssumption == Verdict \in [Msgs -> -1 .. 100] /\ Threshold \in 1 .. 100
ASSUME BoundAssumption == MaxEvents \in Nat
ASSUME RulesAssumption ==
    \A rs \in RuleSets : rs \in Seq([match : SUBSET Msgs, actions : Seq(Action)])

VARIABLES box,     \* mailbox -> [open, toc, file, saved]
          rules,   \* the filters of this user
          pc,      \* checker -> where its check is
          i, r,    \* checker -> index of the message and of the rule it is at
          todo,    \* checker -> actions of that rule still to run
          xfer,    \* thread -> the transfer it is in
          arrived, \* history: messages the checks have stored in In
          copied,  \* history: messages a rule has copied, or has transferred
                   \* although they were deleted, by then or by the rule
          excused, \* history: messages deleted by the user or by a rule, or
                   \* taken for a deleted one
          ham,     \* history: messages the user has declared not to be junk
          raced,   \* history: messages that two threads had in hand at once
          crashes, events

check == <<pc, i, r, todo>>
hist  == <<arrived, copied, excused, ham, raced>>
vars  == <<box, rules, check, xfer, hist, crashes, events>>

Entry == [msg : Msgs, hashed : BOOLEAN, deleted : BOOLEAN, score : -1 .. 100]

\* A call of macmbx_transfer, from the message at index at of one mailbox to
\* another, where it becomes the one at index new; the main thread then saves
\* the source, and the target too after a drag (both).
Transfer == [stage : {"none", "append", "describe", "mark", "saveSource", "saveTarget"},
             from : Boxes, at : Nat, to : Boxes, new : Nat, copy : BOOLEAN, both : BOOLEAN]
NoTransfer == [stage |-> "none", from |-> "In", at |-> 0, to |-> "Junk", new |-> 0,
               copy |-> FALSE, both |-> FALSE]

Free(p) == xfer[p].stage = "none"

\* Thread p has looked at the entry at index k of b and will write it, or go by
\* what it has seen there: the ends of its transfer, or what it has scored.
Holds(p, b, k) ==
    \/ xfer[p].stage \in {"append", "describe", "mark"} /\ <<b, k>> = <<xfer[p].from, xfer[p].at>>
    \/ xfer[p].stage = "describe" /\ <<b, k>> = <<xfer[p].to, xfer[p].new>>
    \/ p \in Checkers /\ pc[p] = "judge" /\ <<b, k>> = <<"In", i[p]>>

Mail(t) == [k \in DOMAIN t |-> t[k].msg]

TypeOK ==
    /\ DOMAIN box = Boxes
    /\ \A b \in Boxes : /\ box[b].open \in BOOLEAN
                        /\ {box[b].toc, box[b].saved} \subseteq Seq(Entry)
                        /\ box[b].file \in Seq(Msgs)
                        /\ box[b].open => Mail(box[b].toc) = box[b].file
                        /\ IsPrefix(Mail(box[b].saved), box[b].file)
    /\ rules \in RuleSets
    /\ pc \in [Checkers -> {"idle", "filter", "score", "judge", "move"}]
    /\ i \in [Checkers -> Nat] /\ r \in [Checkers -> 1 .. Len(rules) + 1]
    /\ todo \in [Checkers -> Seq(Action)]
    /\ \A q \in Checkers : /\ pc[q] # "filter" => todo[q] = <<>>
                           /\ pc[q] # "idle" => box["In"].open
                           /\ pc[q] = "judge" => i[q] \in DOMAIN box["In"].toc
    /\ xfer \in [Threads -> Transfer]
    /\ \A p \in Threads : xfer[p].stage \in {"append", "describe", "mark"} =>
          /\ box[xfer[p].from].open /\ xfer[p].at \in DOMAIN box[xfer[p].from].toc
          /\ box[xfer[p].to].open /\ xfer[p].new \in DOMAIN box[xfer[p].to].toc \cup {0}
    /\ \A h \in {arrived, copied, excused, ham, raced} : h \subseteq Msgs
    /\ crashes \in 0 .. events /\ events \in 0 .. MaxEvents

Init ==
    /\ box = [b \in Boxes |-> [open |-> FALSE, toc |-> <<>>, file |-> <<>>, saved |-> <<>>]]
    /\ rules \in RuleSets
    /\ pc = [q \in Checkers |-> "idle"] /\ i = [q \in Checkers |-> 0]
    /\ r = [q \in Checkers |-> 1] /\ todo = [q \in Checkers |-> <<>>]
    /\ xfer = [p \in Threads |-> NoTransfer]
    /\ arrived = {} /\ copied = {} /\ excused = {} /\ ham = {} /\ raced = {}
    /\ crashes = 0 /\ events = 0

Event == events < MaxEvents /\ events' = events + 1

-----------------------------------------------------------------------------
(* Mailboxes                                                               *)

\* The saved summary from which a rebuild takes the flags of a message that is
\* in the mbox file of b but not in its .toc file: the first with its hash.
Same(b, m) == {j \in DOMAIN box[b].saved : box[b].saved[j].hashed /\ box[b].saved[j].msg = m}

Rebuilt(b, m) ==
    [msg |-> m, hashed |-> TRUE, score |-> -1,
     deleted |-> \E j \in Same(b, m) : box[b].saved[j].deleted /\ \A k \in Same(b, m) : j <= k]

\* Mutant: the .toc file is taken as it is.
TableUnchecked(b) == IF box[b].open THEN box[b].toc ELSE box[b].saved

\* macmbx_toc_open of b: the table of the registry, the .toc file if it is
\* valid, or a rebuild of it.
Table(b) ==
    LET known == Len(box[b].saved)
    IN  IF box[b].open THEN box[b].toc
        ELSE box[b].saved \o [k \in 1 .. Len(box[b].file) - known |-> Rebuilt(b, box[b].file[known + k])]

\* Messages whose mail a rebuild of b takes for deleted.
Inherited(b) == {m \in Msgs : \E k \in DOMAIN Table(b) :
                    k > Len(box[b].saved) /\ Table(b)[k].msg = m /\ Table(b)[k].deleted /\ ~box[b].open}

Opened(b) == [box[b] EXCEPT !.open = TRUE, !.toc = Table(b)]

Live(t, m) == {k \in DOMAIN t : t[k].msg = m /\ ~t[k].deleted}

\* macmbx_toc_save of the boxes bs.
Saving(boxes, bs) == [b \in Boxes |-> IF b \in bs THEN [boxes[b] EXCEPT !.saved = boxes[b].toc]
                                                  ELSE boxes[b]]

-----------------------------------------------------------------------------
(* macmbx_transfer, on any thread                                          *)

\* The message at index k of b if another thread than p has it in hand.
Contested(p, b, k) == {m \in {box[b].toc[k].msg} : \E t \in Threads \ {p} : Holds(t, b, k)}

\* Thread p is going to transfer the message at index k of b to c.
Starts(p, b, k, c, copy, both) ==
    /\ xfer' = [xfer EXCEPT ![p] = [stage |-> "append", from |-> b, at |-> k, to |-> c, new |-> 0,
                                    copy |-> copy, both |-> both]]
    /\ raced' = raced \cup Contested(p, b, k)
    /\ excused' = excused \cup Inherited(c)

\* macmbx_filter_apply_all and macmbx_junk_move_spam go from the last message
\* to the first.
NextMessage(q) == i' = [i EXCEPT ![q] = @ - 1] /\ r' = [r EXCEPT ![q] = 1]

\* The other rules are looked at after this one, except after a transfer,
\* whether it was done or not, and after a stop.
Done(q, a) ==
    IF a.do \in {"transfer", "stop"}
    THEN todo' = [todo EXCEPT ![q] = <<>>] /\ NextMessage(q)
    ELSE todo' = [todo EXCEPT ![q] = Tail(@)] /\ UNCHANGED <<i, r>>

\* The transfer returns to its caller.
Returns(p) ==
    \/ /\ p = "main"
       /\ xfer' = [xfer EXCEPT !["main"].stage = "saveSource"]
       /\ UNCHANGED check
    \/ /\ p \in Checkers
       /\ xfer' = [xfer EXCEPT ![p] = NoTransfer]
       /\ \/ pc[p] = "filter" /\ Done(p, Head(todo[p]))
          \/ pc[p] = "move" /\ NextMessage(p) /\ UNCHANGED todo
       /\ UNCHANGED pc

\* The summary of a message that was just appended.
Unread(m) == [msg |-> m, hashed |-> FALSE, deleted |-> FALSE, score |-> -1]

\* The message is read and appended to the destination.
Appends(p) ==
    LET x == xfer[p]
        m == box[x.from].toc[x.at].msg
    IN  /\ x.stage = "append"
        /\ box' = [box EXCEPT ![x.to].toc = Append(@, Unread(m)), ![x.to].file = Append(@, m)]
        /\ xfer' = [xfer EXCEPT ![p].stage = "describe", ![p].new = Len(box[x.to].toc) + 1]
        /\ UNCHANGED <<rules, check, hist, crashes, events>>

\* Mutant: the original is marked although the append has failed.
AppendFailsMarks(p) ==
    /\ xfer[p].stage = "append"
    /\ Event
    /\ xfer' = [xfer EXCEPT ![p].stage = "mark"]
    /\ UNCHANGED <<box, rules, check, hist, crashes>>

\* The message cannot be read, or the destination not be opened for append.
AppendFails(p) ==
    /\ xfer[p].stage = "append"
    /\ Event
    /\ Returns(p)
    /\ UNCHANGED <<box, rules, hist, crashes>>

\* Mutant: the score stays behind.
DescribeUnscored(p) ==
    LET x == xfer[p]
        s == box[x.from].toc[x.at]
    IN  /\ x.stage = "describe"
        /\ box' = [box EXCEPT ![x.to].toc[x.new] = [s EXCEPT !.deleted = FALSE, !.score = -1]]
        /\ IF x.copy THEN Returns(p)
           ELSE xfer' = [xfer EXCEPT ![p].stage = "mark"] /\ UNCHANGED check
        /\ UNCHANGED <<rules, hist, crashes, events>>

\* The copy is described as the original is by now, except that it is not
\* deleted.
Describe(p) ==
    LET x == xfer[p]
        s == box[x.from].toc[x.at]
    IN  /\ x.stage = "describe"
        /\ box' = [box EXCEPT ![x.to].toc[x.new] = [s EXCEPT !.deleted = FALSE]]
        /\ IF x.copy THEN Returns(p)
           ELSE xfer' = [xfer EXCEPT ![p].stage = "mark"] /\ UNCHANGED check
        /\ UNCHANGED <<rules, hist, crashes, events>>

\* A move marks the original.
Mark(p) ==
    LET x == xfer[p]
    IN  /\ x.stage = "mark"
        /\ box' = [box EXCEPT ![x.from].toc[x.at].deleted = TRUE]
        /\ Returns(p)
        /\ UNCHANGED <<rules, hist, crashes, events>>

TransferStep(p) == Appends(p) \/ AppendFails(p) \/ Describe(p) \/ Mark(p)

-----------------------------------------------------------------------------
(* The end of a check                                                      *)

in == box["In"].toc

\* A check has appended the messages ms, in some order, to In and saved it
\* (PopCheck, ImapSync).
Receive(q, ms) ==
    /\ pc[q] = "idle"
    /\ IsFiniteSet(ms) /\ ms # {} /\ ms \cap arrived = {}
    /\ \E new \in SetToSeqs(ms) :
          LET t == Table("In") \o [n \in DOMAIN new |-> Unread(new[n])]
          IN  /\ box' = [box EXCEPT !["In"] = [open |-> TRUE, toc |-> t, file |-> Mail(t), saved |-> t]]
              /\ i' = [i EXCEPT ![q] = Len(t)]
    /\ pc' = [pc EXCEPT ![q] = "filter"] /\ r' = [r EXCEPT ![q] = 1]
    /\ arrived' = arrived \cup ms
    /\ excused' = excused \cup Inherited("In")
    /\ UNCHANGED <<rules, todo, xfer, copied, ham, raced, crashes, events>>

\* The metadata actions of a rule come first, then the others (action_pass).
Passes(actions) ==
    LET metadata == {k \in DOMAIN actions : actions[k].do = "junk"}
    IN  Kept(actions, metadata) \o Kept(actions, DOMAIN actions \ metadata)

\* A message that is deleted when its turn comes is passed over; one that a
\* rule deletes is not.
Skipped(q) == IF i[q] > Len(in) THEN TRUE ELSE r[q] = 1 /\ in[i[q]].deleted

Matching(q) ==
    IF Skipped(q) THEN {} ELSE {n \in r[q] .. Len(rules) : in[i[q]].msg \in rules[n].match}

\* The next rule that matches the message, whose actions are then run.
Match(q) ==
    /\ pc[q] = "filter" /\ todo[q] = <<>> /\ i[q] > 0
    /\ \E n \in Matching(q) :
          /\ \A o \in Matching(q) : n <= o
          /\ todo' = [todo EXCEPT ![q] = Passes(rules[n].actions)]
          /\ r' = [r EXCEPT ![q] = n + 1]
    /\ UNCHANGED <<box, rules, pc, i, xfer, hist, crashes, events>>

NoMatch(q) ==
    /\ pc[q] = "filter" /\ todo[q] = <<>> /\ i[q] > 0
    /\ Matching(q) = {}
    /\ NextMessage(q)
    /\ UNCHANGED <<box, rules, pc, todo, xfer, hist, crashes, events>>

\* execute_action; the index may no longer be that of the message matched.
Act(q) ==
    /\ pc[q] = "filter" /\ todo[q] # <<>> /\ Free(q)
    /\ LET a   == Head(todo[q])
           k   == i[q]
           hit == k <= Len(in)
           deletes == hit /\ a.do = "delete"
           judges  == hit /\ a.do = "junk"
       IN  /\ a.do \in {"delete", "junk", "stop"}
           /\ Done(q, a)
           /\ box' = IF deletes THEN [box EXCEPT !["In"].toc[k].deleted = TRUE]
                     ELSE IF judges THEN [box EXCEPT !["In"].toc[k].score = a.score] ELSE box
           /\ excused' = IF deletes THEN excused \cup {in[k].msg} ELSE excused
           /\ ham' = IF judges THEN ham \ {in[k].msg} ELSE ham
           /\ raced' = IF deletes \/ judges THEN raced \cup Contested(q, "In", k) ELSE raced
    /\ UNCHANGED <<rules, pc, xfer, arrived, copied, crashes, events>>

\* execute_action of a transfer or a copy, which macmbx_transfer goes on with;
\* a message that is deleted by now is not passed over.
File(q) ==
    /\ pc[q] = "filter" /\ todo[q] # <<>> /\ Free(q)
    /\ LET a == Head(todo[q])
           k == i[q]
           copy == a.do = "copy"
       IN  /\ a.do \in {"transfer", "copy"}
           /\ box' = [box EXCEPT ![a.to] = Opened(a.to)]
           /\ \/ /\ k <= Len(in)
                 /\ Starts(q, "In", k, a.to, copy, FALSE)
                 /\ copied' = IF copy \/ in[k].deleted THEN copied \cup {in[k].msg} ELSE copied
                 /\ UNCHANGED check
              \/ /\ k > Len(in)
                 /\ excused' = excused \cup Inherited(a.to)
                 /\ Done(q, a)
                 /\ UNCHANGED <<pc, xfer, copied, raced>>
    /\ UNCHANGED <<rules, arrived, ham, crashes, events>>

\* In is saved, and the scorer starts at the first message.
FiltersEnd(q) ==
    /\ pc[q] = "filter" /\ todo[q] = <<>> /\ i[q] = 0
    /\ box' = Saving(box, {"In"})
    /\ pc' = [pc EXCEPT ![q] = "score"] /\ i' = [i EXCEPT ![q] = 1]
    /\ UNCHANGED <<rules, r, todo, xfer, hist, crashes, events>>

\* macmbx_junk_score_box scores only what was never scored.
WantsScore(k) == ~in[k].deleted /\ in[k].score = -1

ScorePasses(q) ==
    /\ pc[q] = "score" /\ i[q] <= Len(in)
    /\ ~WantsScore(i[q])
    /\ i' = [i EXCEPT ![q] = @ + 1]
    /\ UNCHANGED <<box, rules, pc, r, todo, xfer, hist, crashes, events>>

\* The message is read and handed to the scorer ...
ScoreReads(q) ==
    /\ pc[q] = "score" /\ i[q] <= Len(in)
    /\ WantsScore(i[q])
    /\ pc' = [pc EXCEPT ![q] = "judge"]
    /\ raced' = raced \cup Contested(q, "In", i[q])
    /\ UNCHANGED <<box, rules, i, r, todo, xfer, arrived, copied, excused, ham, crashes, events>>

\* ... and its verdict written, whatever the score is by now.
Judge(q) ==
    LET v == Verdict[in[i[q]].msg]
    IN  /\ pc[q] = "judge"
        /\ box' = IF v >= 0 THEN [box EXCEPT !["In"].toc[i[q]].score = v] ELSE box
        /\ pc' = [pc EXCEPT ![q] = "score"] /\ i' = [i EXCEPT ![q] = @ + 1]
        /\ UNCHANGED <<rules, r, todo, xfer, hist, crashes, events>>

\* macmbx_junk_move_spam opens Junk and starts at the last message.
ScoreEnds(q) ==
    /\ pc[q] = "score" /\ i[q] > Len(in)
    /\ box' = [box EXCEPT !["Junk"] = Opened("Junk")]
    /\ excused' = excused \cup Inherited("Junk")
    /\ pc' = [pc EXCEPT ![q] = "move"] /\ i' = [i EXCEPT ![q] = Len(in)]
    /\ UNCHANGED <<rules, r, todo, xfer, arrived, copied, ham, raced, crashes, events>>

\* Mutant: what is deleted is not passed over.
IsSpamOrDeleted(k) == k <= Len(in) /\ in[k].score >= Threshold

IsSpam(k) == k <= Len(in) /\ ~in[k].deleted /\ in[k].score >= Threshold

MovePasses(q) ==
    /\ pc[q] = "move" /\ Free(q) /\ i[q] > 0
    /\ ~IsSpam(i[q])
    /\ NextMessage(q)
    /\ UNCHANGED <<box, rules, pc, todo, xfer, hist, crashes, events>>

MoveSpam(q) ==
    /\ pc[q] = "move" /\ Free(q) /\ i[q] > 0
    /\ IsSpam(i[q])
    /\ Starts(q, "In", i[q], "Junk", FALSE, FALSE)
    /\ UNCHANGED <<box, rules, check, arrived, copied, ham, crashes, events>>

MoveEnds(q) ==
    /\ pc[q] = "move" /\ i[q] = 0
    /\ box' = Saving(box, {"In"})
    /\ pc' = [pc EXCEPT ![q] = "idle"]
    /\ UNCHANGED <<rules, i, r, todo, xfer, hist, crashes, events>>

CheckStep(q) ==
    \/ \E ms \in SUBSET Msgs : Receive(q, ms)
    \/ Match(q) \/ NoMatch(q) \/ Act(q) \/ File(q) \/ FiltersEnd(q)
    \/ ScorePasses(q) \/ ScoreReads(q) \/ Judge(q) \/ ScoreEnds(q)
    \/ MovePasses(q) \/ MoveSpam(q) \/ MoveEnds(q)

-----------------------------------------------------------------------------
(* The user, and the end of the program                                    *)

\* A window opens a mailbox; an empty one is the same open or not.
Open(b) ==
    /\ ~box[b].open /\ box[b].file # <<>>
    /\ box' = [box EXCEPT ![b] = Opened(b)]
    /\ excused' = excused \cup Inherited(b)
    /\ UNCHANGED <<rules, check, xfer, arrived, copied, ham, raced, crashes, events>>

Visible(b, k) == box[b].open /\ k \in DOMAIN box[b].toc /\ ~box[b].toc[k].deleted

\* Dragged to another mailbox: both are saved.
UserMoves(b, k, c) ==
    /\ b # c /\ Visible(b, k)
    /\ Event
    /\ box' = [box EXCEPT ![c] = Opened(c)]
    /\ Starts("main", b, k, c, FALSE, TRUE)
    /\ UNCHANGED <<rules, check, arrived, copied, ham, crashes>>

UserDeletes(b, k) ==
    /\ Visible(b, k)
    /\ Event
    /\ box' = Saving([box EXCEPT ![b].toc[k].deleted = TRUE], {b})
    /\ excused' = excused \cup {box[b].toc[k].msg}
    /\ raced' = raced \cup Contested("main", b, k)
    /\ UNCHANGED <<rules, check, xfer, arrived, copied, ham, crashes>>

\* macmbx_junk_mark: a score, and the move to Junk, which is not saved.
UserSaysJunk(b, k) ==
    /\ Visible(b, k)
    /\ Event
    /\ LET n == IF box[b].toc[k].score > 0 THEN box[b].toc[k].score ELSE 100
           marked == [box EXCEPT ![b].toc[k].score = n]
       IN  \/ /\ b # "Junk"
              /\ box' = [marked EXCEPT !["Junk"] = Opened("Junk")]
              /\ Starts("main", b, k, "Junk", FALSE, FALSE)
           \/ /\ b = "Junk"
              /\ box' = Saving(marked, {b})
              /\ raced' = raced \cup Contested("main", b, k)
              /\ UNCHANGED <<xfer, excused>>
    /\ ham' = ham \ {box[b].toc[k].msg}
    /\ UNCHANGED <<rules, check, arrived, copied, crashes>>

\* A score of 0; the message stays where it is.
UserSaysHam(b, k) ==
    /\ Visible(b, k)
    /\ Event
    /\ box' = Saving([box EXCEPT ![b].toc[k].score = 0], {b})
    /\ ham' = ham \cup {box[b].toc[k].msg}
    /\ raced' = raced \cup Contested("main", b, k)
    /\ UNCHANGED <<rules, check, xfer, arrived, copied, excused, crashes>>

\* The saves after a transfer, done or not.
UserSaves ==
    LET x == xfer["main"]
    IN  /\ \/ /\ x.stage = "saveSource"
              /\ box' = Saving(box, {x.from})
              /\ xfer' = [xfer EXCEPT !["main"] = IF x.both THEN [@ EXCEPT !.stage = "saveTarget"]
                                                  ELSE NoTransfer]
           \/ /\ x.stage = "saveTarget"
              /\ box' = Saving(box, {x.to})
              /\ xfer' = [xfer EXCEPT !["main"] = NoTransfer]
        /\ UNCHANGED <<rules, check, hist, crashes, events>>

\* A thread has a pointer into the table of b.
Busy(b) == \/ \E p \in Threads : ~Free(p) /\ b \in {xfer[p].from, xfer[p].to}
           \/ b = "In" /\ \E q \in Checkers : pc[q] = "judge"

\* macmbx_compact, which saves.
Compact(b) ==
    /\ box[b].open /\ ~Busy(b)
    /\ \E k \in DOMAIN box[b].toc : box[b].toc[k].deleted
    /\ LET t == Kept(box[b].toc, {k \in DOMAIN box[b].toc : ~box[b].toc[k].deleted})
       IN  box' = [box EXCEPT ![b] = [open |-> TRUE, toc |-> t, file |-> Mail(t), saved |-> t]]
    /\ UNCHANGED <<rules, check, xfer, hist, crashes, events>>

\* The program dies, or is quit in the middle of a check.
Crash ==
    /\ \E b \in Boxes : box[b].open
    /\ Event /\ crashes' = crashes + 1
    /\ box' = [b \in Boxes |-> [box[b] EXCEPT !.open = FALSE, !.toc = <<>>]]
    /\ pc' = [q \in Checkers |-> "idle"] /\ i' = [q \in Checkers |-> 0]
    /\ r' = [q \in Checkers |-> 1] /\ todo' = [q \in Checkers |-> <<>>]
    /\ xfer' = [p \in Threads |-> NoTransfer]
    /\ UNCHANGED <<rules, hist>>

UserStep ==
    /\ Free("main")
    /\ \E b \in Boxes :
          \/ Open(b) \/ Compact(b)
          \/ \E k \in DOMAIN box[b].toc :
                \/ \E c \in Boxes : UserMoves(b, k, c)
                \/ UserDeletes(b, k) \/ UserSaysJunk(b, k) \/ UserSaysHam(b, k)

Next ==
    \/ \E p \in Threads : TransferStep(p)
    \/ \E q \in Checkers : CheckStep(q)
    \/ UserStep \/ UserSaves \/ Crash

Spec == Init /\ [][Next]_vars

-----------------------------------------------------------------------------
(* Properties                                                              *)

Copies(m) == UNION {{<<b, k>> : k \in Live(Table(b), m)} : b \in Boxes}

\* Should the program die now, these are the copies of m that will be found,
\* those that a rebuild takes for deleted included.
Durable(m) ==
    UNION {{<<b, k>> : k \in {j \in DOMAIN box[b].file :
                                 /\ box[b].file[j] = m
                                 /\ j <= Len(box[b].saved) => ~box[b].saved[j].deleted}} : b \in Boxes}

\* Originals of moves that have been appended to their destination.
Pending == {<<xfer[p].from, xfer[p].at>> :
               p \in {t \in Threads : xfer[t].stage \in {"describe", "mark"} /\ ~xfer[t].copy}}

\* No message is lost between the mailboxes: it is in one of them, and will be
\* after a crash, unless it was deleted by the user or by a rule.  A transfer
\* appends before it deletes, and of the two places it is the new one that a
\* crash cannot undo.
MailKept ==
    \A m \in arrived \ excused :
        /\ Durable(m) # {}
        /\ Copies(m) # {} \/ \E b \in Boxes : m \in Inherited(b)

\* Filing a message makes no second one of it, however often it is filtered,
\* scored and moved: more copies come only of crashes, of copying rules, and of
\* two threads that had the message in hand at once, since nothing locks it
\* from the look at its delete mark to the mark of the transfer.
OneCopy ==
    crashes = 0 => \A m \in arrived \ (copied \cup raced) : Cardinality(Copies(m) \ Pending) <= 1

\* What the user has declared not to be junk no later check moves to Junk,
\* wherever it has been in between, unless the user said so, or moved it, while
\* the check had it in hand: the verdict is written over a score that came
\* after the test for one.
HamStays ==
    [][\A q \in Checkers : MoveSpam(q) =>
          LET m == in[i[q]].msg IN m \in ham => crashes > 0 \/ m \in copied \cup raced']_vars
=============================================================================
