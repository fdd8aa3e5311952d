----------------------- MODULE TeamCollaborationProofs -----------------------
(***************************************************************************)
(* Proofs about TeamCollaboration, for every team, budget, number of users *)
(* and failing journal.  TeamInv says, for a sequence lock that processes  *)
(* wait for in order, what each of them still has to do and what it may    *)
(* rely on when its turn comes; from it follow that the inboxes mirror the *)
(* journal, that the budgets hold although they are checked by whoever     *)
(* comes, that a message's status only moves on, and that a Run whose      *)
(* journal never raised leaves no message behind.                          *)
(***************************************************************************)
EXTENDS TeamCollaboration, SequenceTheorems, FiniteSetTheorems,
        WellFoundedInduction, TLAPS

-----------------------------------------------------------------------------
(* Types.                                                                  *)

Statuses == {"pending", "consumed", "resolved", "interrupted"}
Messages ==
  [from : Agents \cup Users, to : SUBSET Agents, thread : Nat,
   by : SUBSET Agents, status : Statuses]
Labels ==
  {"propose", "assign", "consume", "gather", "complete", "completing", "lock",
   "stopping", "finish", "interrupt", "ended", "idle", "turn", "posted",
   "refused", "rejected"}
Sends ==
  [do : {"send"}, to : (SUBSET Agents) \ {{}}, thread : Nat, reply : Nat,
   expects : BOOLEAN]
AgentOps == {NoOp} \cup Sends \cup [do : {"resolve"}, thread : Nat]
UserSends == {s \in Sends : s.thread = 0 /\ s.reply = 0 /\ s.expects = FALSE}
UserOps == {NoOp} \cup UserSends \cup [do : {"reject"}]
MainOps == {NoOp} \cup [do : {"consume", "prepare", "complete", "finish"}]
Plans ==
  [do : {"start", "assign", "wait", "complete"}, todo : SUBSET Agents,
   batch : SUBSET Agents, summary : BOOLEAN]

MsgTypes == msgs \in Seq(Messages)
BoxTypes == inbox \in [Agents -> Seq(Nat)]
BookTypes ==
  /\ raised \in BOOLEAN /\ broken \in BOOLEAN /\ sent \in Nat
  /\ turns \in [Agents -> Nat] /\ open \subseteq Nat /\ IsFiniteSet(open)
  /\ state \in {"running", "cancelling"} \cup Ended
  /\ stop \in {"none", "failed", "cancelled"}
PlanTypes == plan \in Plans
PcTypes == pc \in [Procs -> Labels]
OpTypes ==
  /\ DOMAIN op = Procs
  /\ \A a \in Agents : op[a] \in AgentOps
  /\ \A u \in Users : op[u] \in UserOps
  /\ op["main"] \in MainOps
  /\ \A a \in Agents : op[a].do = "send" => op[a].reply <= Len(msgs)

Types == MsgTypes /\ BoxTypes /\ BookTypes /\ PlanTypes /\ PcTypes /\ OpTypes

-----------------------------------------------------------------------------
(* The sequence lock, and how far the Run has come.                        *)

(* Whoever wants something waits for it; while the Run has not been        *)
(* stopped, exactly those are in the lock's queue, once each.              *)
Waits == \A p \in Procs : op[p].do # "none" => pc[p] = "lock"
Queued ==
  stop = "none" =>
    /\ lock \in Seq(Procs)
    /\ \A i, j \in DOMAIN lock : lock[i] = lock[j] => i = j
    /\ \A p \in Procs : op[p].do # "none" <=> \E i \in DOMAIN lock : lock[i] = p

Stilled == \A a \in Agents : pc[a] = "idle"
Leaving ==
  pc["main"] \in {"finish", "interrupt", "ended"} \/ op["main"].do = "finish"

(* Agents act only while the main task gathers their reports, or until it  *)
(* has stopped them.                                                       *)
AgentsAct ==
  /\ stop = "none" /\ pc["main"] # "gather" => Stilled
  /\ stop = "none" /\ pc["main"] = "gather" =>
       \A a \in Agents \ plan.batch : pc[a] = "idle"
  /\ Leaving => Stilled

(* Only a Run that is being stopped unwinds, and it is stopped before its  *)
(* completion is asked for.                                                *)
Course ==
  /\ pc["main"] \in {"stopping", "finish", "interrupt"} => stop # "none"
  /\ op["main"].do = "finish" => stop # "none"
  /\ op["main"].do = "complete" => stop = "none"
  /\ state \in Ended <=> pc["main"] = "ended"
  /\ state = "completed" => stop = "none"
  /\ state \in {"failed", "cancelled"} /\ stop = "none" => raised

Consuming ==
  /\ pc["main"] = "consume" => plan.todo # {}
  /\ op["main"].do = "consume" => plan.todo # {} /\ inbox[First(plan.todo)] # <<>>

-----------------------------------------------------------------------------
(* The journal, its budgets, and what is settled when the Run ends.        *)

FromAgents == {i \in Ids : msgs[i].from \in Agents}

(* The kernel counts the agents' messages; one that the journal holds but  *)
(* never acknowledged stops the count, for every later append raises.      *)
Budgets ==
  /\ broken => raised
  /\ Cardinality(FromAgents) <= MaxMessages
  /\ ~broken => Cardinality(FromAgents) = sent
  /\ Cardinality(open) <= MaxThreads
  /\ \A a \in Agents : turns[a] <= MaxTurns

Delivered(i) == msgs[i].to \subseteq msgs[i].by
PendingIsUndelivered == \A i \in Ids : msgs[i].status = "pending" => ~Delivered(i)

(* Messages are interrupted when nobody is left who could settle them.     *)
InterruptedLast ==
  \A i \in Ids : msgs[i].status = "interrupted" =>
    op["main"].do = "finish" \/ pc["main"] = "ended"

(* Only a user's post is rejected.                                         *)
Rejections == \A p \in Procs : pc[p] = "rejected" => p \in Users

(* While the completion waits for its turn, whoever is ahead of it brings  *)
(* a message, unless a rejection event is ahead.                           *)
Preparing ==
  stop = "none" /\ op["main"].do = "prepare" /\ ~raised /\ ~Rejecting =>
    Unread # {} \/ Head(lock) # "main"

Settling ==
  \/ stop = "none" /\ pc["main"] = "completing"
  \/ op["main"].do = "complete"
  \/ state = "completed"
AllSettled ==
  Settling /\ ~raised =>
    /\ \A i \in Ids : msgs[i].from \in Agents => Delivered(i)
    /\ ~Rejecting =>
         /\ accepting = FALSE
         /\ \A u \in Users : op[u].do # "send"
         /\ \A i \in Ids : Delivered(i)
NonePending ==
  /\ op["main"].do = "finish" \/ (pc["main"] = "ended" /\ stop # "none")
  /\ ~raised
  => \A i \in Ids : msgs[i].from \in Agents => msgs[i].status # "pending"

TeamInv ==
  /\ Types /\ Waits /\ Rejections /\ Queued /\ AgentsAct /\ Course /\ Consuming
  /\ InboxMirrorsJournal /\ Budgets /\ PendingIsUndelivered /\ InterruptedLast
  /\ Preparing /\ AllSettled /\ NonePending

-----------------------------------------------------------------------------
(* The Team's order.                                                       *)

(* A set of numbers that is not empty has a least one.                     *)
LEMMA LeastPlace ==
  ASSUME NEW S \in SUBSET Nat, S # {}
  PROVE \E n \in S : \A m \in S : n <= m
<1> DEFINE R == OpToRel(<, Nat)
<1>1. \E x \in S : \A y \in S : ~ (<<y, x>> \in R)
  BY WFMin, NatLessThanWellFounded
<1>2. \A x, y \in Nat : y < x => <<y, x>> \in R
  BY DEF OpToRel
<1> HIDE DEF R
<1>3. PICK x \in S : \A y \in S : ~ (<<y, x>> \in R)
  BY <1>1
<1>4. \A y \in S : ~(y < x)
  BY <1>2, <1>3
<1>5. \A y \in S : x <= y
  BY <1>4
<1> QED BY <1>5

(* The next target is one of the targets that are left.                    *)
LEMMA FirstIsATarget ==
  ASSUME NEW todo \in SUBSET Agents, todo # {}
  PROVE First(todo) \in todo
<1> DEFINE S == {i \in DOMAIN Team : Team[i] \in todo}
<1>1. S \in SUBSET Nat /\ S # {} /\ DOMAIN Team = 1..Len(Team) /\ Len(Team) \in Nat
  BY TeamAssumption, LenProperties DEF Agents, ToSet
<1>2. PICK n \in S : \A m \in S : n <= m
  BY <1>1, LeastPlace
<1>3. \A j \in 1..(n-1) : Team[j] \notin todo
  BY <1>1, <1>2
<1>4. \E i \in DOMAIN Team : /\ Team[i] \in todo
                             /\ \A j \in 1..(i - 1) : Team[j] \notin todo
  BY <1>2, <1>3
<1> QED BY <1>4 DEF First

LEMMA SomeAgent == Agents # {}
  BY TeamAssumption, EmptySeq, LenProperties DEF Agents, ToSet

-----------------------------------------------------------------------------
(* Types.                                                                  *)

LEMMA MessageFields ==
  ASSUME MsgTypes
  PROVE /\ Len(msgs) \in Nat /\ DOMAIN msgs = Ids
        /\ \A i \in Ids : /\ msgs[i] \in Messages
                          /\ msgs[i].from \in Agents \cup Users
                          /\ msgs[i].to \in SUBSET Agents /\ msgs[i].by \in SUBSET Agents
                          /\ msgs[i].thread \in Nat /\ msgs[i].status \in Statuses
<1>1. Len(msgs) \in Nat /\ DOMAIN msgs = Ids /\ \A i \in Ids : msgs[i] \in Messages
  BY LenProperties, ElementOfSeq DEF MsgTypes, Ids
<1> QED BY <1>1 DEF Messages

LEMMA SendFields ==
  ASSUME OpTypes, NEW p \in Agents \cup Users, op[p].do = "send"
  PROVE /\ op[p] \in Sends /\ op[p].to \in SUBSET Agents /\ op[p].to # {}
        /\ op[p].thread \in Nat /\ op[p].reply \in Nat
        /\ op[p].reply # 0 => op[p].reply \in Ids
        /\ p \in Users => op[p].thread = 0 /\ op[p].reply = 0 /\ op[p].expects = FALSE
<1>1. p \in Users => op[p] \in UserSends
  BY DEF OpTypes, UserOps, NoOp
<1>2. p \in Agents => op[p] \in Sends
  BY DEF OpTypes, AgentOps, NoOp
<1>3. op[p] \in Sends
  BY <1>1, <1>2 DEF UserSends
<1>4. p \in Users => op[p].thread = 0 /\ op[p].reply = 0 /\ op[p].expects = FALSE
  BY <1>1 DEF UserSends
<1>5. p \in Agents => op[p].reply <= Len(msgs)
  BY DEF OpTypes
<1>6. op[p].reply \in Nat
  BY <1>3 DEF Sends
<1>7. op[p].reply # 0 => op[p].reply \in 1..Len(msgs)
  BY <1>4, <1>5, <1>6
<1> QED BY <1>3, <1>4, <1>6, <1>7 DEF Sends, Ids

LEMMA ThreadIsANumber ==
  ASSUME MsgTypes, OpTypes, NEW p \in Agents \cup Users, op[p].do = "send"
  PROVE Thread(op[p]) \in Nat
<1> DEFINE m == op[p]
<1>1. m.thread \in Nat /\ (m.reply # 0 => m.reply \in Nat /\ msgs[m.reply].thread \in Nat)
  BY MessageFields, SendFields
<1>2. Len(msgs) \in Nat
  BY MessageFields
<1> HIDE DEF m
<1>3. Thread(m) \in {m.thread, msgs[m.reply].thread, m.reply, Len(msgs) + 1, 0}
  BY Zenon DEF Thread
<1>4. CASE m.reply = 0
  <2>1. Thread(m) \in {m.thread, Len(msgs) + 1, 0}
    BY <1>4, Zenon DEF Thread
  <2> QED BY <2>1, <1>1, <1>2 DEF m
<1>5. CASE m.reply # 0
  BY <1>1, <1>2, <1>3, <1>5 DEF m
<1> QED BY <1>4, <1>5

(* What an appended message is, and that nothing else changes.             *)
LEMMA AppendedMessage ==
  ASSUME MsgTypes, OpTypes, NEW p \in Agents \cup Users, op[p].do = "send"
  PROVE /\ Appended(p) \in Seq(Messages) /\ Len(Appended(p)) = Len(msgs) + 1
        /\ \A i \in Ids : Appended(p)[i] = msgs[i]
        /\ Appended(p)[Len(msgs) + 1] =
             [from |-> p, to |-> op[p].to, thread |-> Thread(op[p]),
              by |-> {}, status |-> "pending"]
<1> DEFINE m == [from |-> p, to |-> op[p].to, thread |-> Thread(op[p]),
                 by |-> {}, status |-> "pending"]
<1>1. m \in Messages
  BY ThreadIsANumber, SendFields DEF Messages, Statuses
<1>2. Appended(p) = Append(msgs, m)
  BY DEF Appended
<1> HIDE DEF m
<1>3. /\ Append(msgs, m) \in Seq(Messages) /\ Len(Append(msgs, m)) = Len(msgs) + 1
      /\ \A i \in 1..Len(msgs) : Append(msgs, m)[i] = msgs[i]
      /\ Append(msgs, m)[Len(msgs) + 1] = m
  BY <1>1 DEF MsgTypes
<1> QED BY <1>2, <1>3 DEF Ids, m

(* A delivery, a resolution and an interruption write messages in place.   *)
LEMMA ConsumedMessage ==
  ASSUME MsgTypes, NEW a \in Agents, NEW k
  PROVE LET new == [msgs EXCEPT ![k] = ConsumedBy(@, a)] IN
        /\ new \in Seq(Messages) /\ Len(new) = Len(msgs)
        /\ \A i \in Ids : new[i] = IF i = k THEN ConsumedBy(msgs[i], a) ELSE msgs[i]
<1>1. ASSUME NEW m \in Messages PROVE ConsumedBy(m, a) \in Messages
  BY DEF Messages, ConsumedBy, Statuses
<1>2. CASE k \in Ids
  BY <1>1, <1>2, MessageFields, ExceptSeq DEF MsgTypes, Ids
<1>3. CASE k \notin Ids
  <2>0. msgs = [i \in Ids |-> msgs[i]] /\ DOMAIN msgs = Ids
    BY LenProperties DEF MsgTypes, Ids
  <2>1. [msgs EXCEPT ![k] = ConsumedBy(@, a)] = [i \in Ids |-> msgs[i]]
    BY <1>3, <2>0
  <2>2. [msgs EXCEPT ![k] = ConsumedBy(@, a)] = msgs
    BY <2>0, <2>1, Zenon
  <2> QED BY <1>3, <2>2 DEF MsgTypes
<1> QED BY <1>2, <1>3

LEMMA SettledMessages ==
  ASSUME MsgTypes, NEW t
  PROVE /\ Settled(t) \in Seq(Messages) /\ Len(Settled(t)) = Len(msgs)
        /\ \A i \in Ids : Settled(t)[i] = IF msgs[i].thread = t
             THEN [msgs[i] EXCEPT !.status = "resolved"] ELSE msgs[i]
<1>1. \A m \in Messages : [m EXCEPT !.status = "resolved"] \in Messages
  BY DEF Messages, Statuses
<1>2. Settled(t) \in [1..Len(msgs) -> Messages]
  BY <1>1, MessageFields DEF Settled, Ids
<1>3. Settled(t) \in Seq(Messages) /\ Len(Settled(t)) = Len(msgs)
  BY <1>2, MessageFields
<1> QED BY <1>3 DEF Settled, Ids

LEMMA InterruptedMessages ==
  ASSUME MsgTypes
  PROVE /\ InterruptedAll \in Seq(Messages) /\ Len(InterruptedAll) = Len(msgs)
        /\ \A i \in Ids : InterruptedAll[i] = IF msgs[i].status = "pending"
             THEN [msgs[i] EXCEPT !.status = "interrupted"] ELSE msgs[i]
<1>1. \A m \in Messages : [m EXCEPT !.status = "interrupted"] \in Messages
  BY DEF Messages, Statuses
<1>2. InterruptedAll \in [1..Len(msgs) -> Messages]
  BY <1>1, MessageFields DEF InterruptedAll, Ids
<1>3. InterruptedAll \in Seq(Messages) /\ Len(InterruptedAll) = Len(msgs)
  BY <1>2, MessageFields
<1> QED BY <1>3 DEF InterruptedAll, Ids

-----------------------------------------------------------------------------
(* The steps, by what they change.                                         *)

journal == <<msgs, broken, raised, inbox, open, sent>>

(* Who changes the journal or the kernel's record of it.                   *)
LEMMA JournalSteps ==
  ASSUME [Next]_vars
  PROVE \/ \E p \in Agents \cup Users : Sent(p) \/ SendFails(p) \/ Resolved(p)
        \/ Consumed \/ ConsumeFails \/ Completed \/ Interrupts
        \/ UNCHANGED journal
<1> USE DEF journal, team, course, schedule, vars
<1>1. ASSUME NEW a \in Agents, AgentStep(a) PROVE UNCHANGED journal
  BY <1>1 DEF AgentStep, AgentSends, AgentResolves, AgentReports
<1>2. ASSUME NEW u \in Users, UserPosts(u) PROVE UNCHANGED journal
  BY <1>2 DEF UserPosts
<1>3. ASSUME NEW p \in Agents \cup Users, SendRefused(p) \/ Rejected(p)
      PROVE UNCHANGED journal
  BY <1>3 DEF SendRefused, Rejected
<1>4. ASSUME MainStep
      PROVE Consumed \/ ConsumeFails \/ Completed \/ Interrupts \/ UNCHANGED journal
  <2>1. ASSUME Propose \/ AssignNext \/ ConsumeNext \/ TurnsStart \/ Gathered
        PROVE UNCHANGED journal
    BY <2>1 DEF Propose, AssignNext, ConsumeNext, TurnsStart, Gathered
  <2>2. ASSUME Prepare \/ Prepared \/ Completing \/ Unwinds \/ ActorsStopped \/ Finishing \/ Finished
        PROVE UNCHANGED journal
    BY <2>2 DEF Prepare, Prepared, Completing, Unwinds, ActorsStopped, Finishing, Finished
  <2> QED BY <1>4, <2>1, <2>2 DEF MainStep
<1>5. ASSUME NEW how, Stopped(how) PROVE UNCHANGED journal
  BY <1>5 DEF Stopped
<1>6. ASSUME Over \/ UNCHANGED vars PROVE UNCHANGED journal
  BY <1>6 DEF Over
<1> QED BY <1>1, <1>2, <1>3, <1>4, <1>5, <1>6 DEF Next, InsideStep, SendInside

(* What asking for the lock and leaving it do to where everyone is.        *)
LEMMA Asks ==
  ASSUME PcTypes, DOMAIN op = Procs, NEW p \in Procs, NEW what, Ask(p, what)
  PROVE /\ PcTypes' /\ DOMAIN op' = Procs /\ lock' = Append(lock, p)
        /\ pc'[p] = "lock" /\ op'[p] = what
        /\ \A q \in Procs \ {p} : pc'[q] = pc[q] /\ op'[q] = op[q]
BY DEF PcTypes, Ask, Go, Labels

LEMMA Leaves ==
  ASSUME PcTypes, DOMAIN op = Procs, NEW p \in Procs, NEW label \in Labels, Leave(p, label)
  PROVE /\ PcTypes' /\ DOMAIN op' = Procs /\ lock' = Tail(lock)
        /\ pc'[p] = label /\ op'[p] = NoOp
        /\ \A q \in Procs \ {p} : pc'[q] = pc[q] /\ op'[q] = op[q]
BY DEF PcTypes, Leave, Go

LEMMA Goes ==
  ASSUME PcTypes, NEW p \in Procs, NEW label \in Labels, Go(p, label)
  PROVE /\ PcTypes' /\ pc'[p] = label
        /\ \A q \in Procs \ {p} : pc'[q] = pc[q]
BY DEF PcTypes, Go

(* Agents, users and the main task are different processes.                *)
LEMMA DifferentProcs ==
  /\ Agents \subseteq Procs /\ Users \subseteq Procs /\ "main" \in Procs
  /\ "main" \notin Agents /\ "main" \notin Users
  /\ \A a \in Agents, u \in Users : a # u
  /\ \A p \in Procs : p \in Agents \/ p \in Users \/ p = "main"
BY TeamAssumption DEF Procs

-----------------------------------------------------------------------------
(* Type correctness.                                                       *)

LEMMA TargetIsAnAgent ==
  ASSUME PlanTypes, plan.todo # {}
  PROVE First(plan.todo) \in plan.todo /\ First(plan.todo) \in Agents
<1>1. plan.todo \in SUBSET Agents
  BY DEF PlanTypes, Plans
<1> QED BY <1>1, FirstIsATarget

(* What each step writes to the journal, message by message.               *)
LEMMA MessagesAppended ==
  ASSUME MsgTypes, OpTypes, NEW p \in Agents \cup Users, Inside(p, "send"),
         msgs' = Appended(p)
  PROVE /\ MsgTypes' /\ Len(msgs') = Len(msgs) + 1
        /\ \A i \in Ids : msgs'[i] = msgs[i]
        /\ LET new == msgs'[Len(msgs) + 1] IN
           new.from = p /\ new.to = op[p].to /\ new.by = {} /\ new.status = "pending"
        /\ op[p].to \in SUBSET Agents /\ op[p].to # {}
<1>1. op[p].do = "send"
  BY DEF Inside
<1>2. op[p].to \in SUBSET Agents /\ op[p].to # {}
  BY <1>1, SendFields
<1>3. /\ msgs' \in Seq(Messages) /\ Len(msgs') = Len(msgs) + 1
      /\ \A i \in Ids : msgs'[i] = msgs[i]
  BY <1>1, AppendedMessage
<1>4. msgs'[Len(msgs) + 1] =
        [from |-> p, to |-> op[p].to, thread |-> Thread(op[p]),
         by |-> {}, status |-> "pending"]
  BY <1>1, AppendedMessage
<1>5. LET new == msgs'[Len(msgs) + 1] IN
      new.from = p /\ new.to = op[p].to /\ new.by = {} /\ new.status = "pending"
  BY <1>4
<1>6. MsgTypes'
  BY <1>3 DEF MsgTypes
<1> QED BY <1>2, <1>3, <1>5, <1>6, Zenon

Marked(k, a) == [msgs EXCEPT ![k] = ConsumedBy(@, a)]

Marks(k, a) ==
  /\ Len(msgs') = Len(msgs)
  /\ \A i \in Ids :
       /\ i # k => msgs'[i] = msgs[i]
       /\ msgs'[i].from = msgs[i].from /\ msgs'[i].to = msgs[i].to
       /\ msgs'[i].by = IF i = k THEN msgs[i].by \cup {a} ELSE msgs[i].by
       /\ i = k => msgs'[i].status = IF msgs[i].to \subseteq msgs[i].by \cup {a}
                                     THEN "consumed" ELSE msgs[i].status

LEMMA MessagesConsumed ==
  ASSUME MsgTypes, NEW a \in Agents, NEW k, msgs' = Marked(k, a)
  PROVE MsgTypes' /\ Marks(k, a)
<1>1. /\ msgs' \in Seq(Messages) /\ Len(msgs') = Len(msgs)
      /\ \A i \in Ids : msgs'[i] = IF i = k THEN ConsumedBy(msgs[i], a) ELSE msgs[i]
  BY ConsumedMessage, Zenon DEF Marked
<1>2. \A m \in Messages :
        /\ ConsumedBy(m, a).from = m.from /\ ConsumedBy(m, a).to = m.to
        /\ ConsumedBy(m, a).by = m.by \cup {a}
        /\ ConsumedBy(m, a).status =
             IF m.to \subseteq m.by \cup {a} THEN "consumed" ELSE m.status
  BY DEF Messages, ConsumedBy
<1>3. \A i \in Ids : msgs[i] \in Messages
  BY MessageFields
<1>4. ASSUME NEW i \in Ids
      PROVE /\ i # k => msgs'[i] = msgs[i]
            /\ i = k => msgs'[i] = ConsumedBy(msgs[i], a)
  BY <1>1
<1>5. ASSUME NEW i \in Ids
      PROVE /\ i # k => msgs'[i] = msgs[i]
            /\ msgs'[i].from = msgs[i].from /\ msgs'[i].to = msgs[i].to
            /\ msgs'[i].by = IF i = k THEN msgs[i].by \cup {a} ELSE msgs[i].by
            /\ i = k => msgs'[i].status = IF msgs[i].to \subseteq msgs[i].by \cup {a}
                                          THEN "consumed" ELSE msgs[i].status
  <2>1. CASE i = k
    BY <1>2, <1>3, <1>4, <2>1
  <2>2. CASE i # k
    BY <1>4, <2>2
  <2> QED BY <2>1, <2>2
<1>6. MsgTypes'
  BY <1>1 DEF MsgTypes
<1> QED BY <1>1, <1>5, <1>6, Zenon DEF Marks

LEMMA MessagesSettled ==
  ASSUME MsgTypes, NEW t, msgs' = Settled(t)
  PROVE /\ MsgTypes' /\ Len(msgs') = Len(msgs)
        /\ \A i \in Ids :
             /\ msgs'[i].from = msgs[i].from /\ msgs'[i].to = msgs[i].to
             /\ msgs'[i].by = msgs[i].by
             /\ msgs'[i].status \in {"resolved", msgs[i].status}
<1>1. \A m \in Messages : \A n : n = [m EXCEPT !.status = "resolved"] =>
        n.from = m.from /\ n.to = m.to /\ n.by = m.by /\ n.status = "resolved"
  BY DEF Messages
<1>2. ASSUME NEW i \in Ids
      PROVE msgs[i] \in Messages
            /\ (msgs'[i] = msgs[i] \/ msgs'[i] = [msgs[i] EXCEPT !.status = "resolved"])
  BY SettledMessages, MessageFields
<1>3. ASSUME NEW i \in Ids
      PROVE /\ msgs'[i].from = msgs[i].from /\ msgs'[i].to = msgs[i].to
            /\ msgs'[i].by = msgs[i].by
            /\ msgs'[i].status \in {"resolved", msgs[i].status}
  BY <1>1, <1>2, Zenon
<1>4. MsgTypes' /\ Len(msgs') = Len(msgs)
  BY SettledMessages DEF MsgTypes
<1> QED BY <1>3, <1>4, Zenon

LEMMA MessagesInterrupted ==
  ASSUME MsgTypes, msgs' = InterruptedAll
  PROVE /\ MsgTypes' /\ Len(msgs') = Len(msgs)
        /\ \A i \in Ids :
             /\ msgs'[i].from = msgs[i].from /\ msgs'[i].to = msgs[i].to
             /\ msgs'[i].by = msgs[i].by
             /\ msgs'[i].status =
                  IF msgs[i].status = "pending" THEN "interrupted" ELSE msgs[i].status
             /\ msgs[i].status # "pending" => msgs'[i] = msgs[i]
<1>1. \A m \in Messages : \A n : n = [m EXCEPT !.status = "interrupted"] =>
        n.from = m.from /\ n.to = m.to /\ n.by = m.by /\ n.status = "interrupted"
  BY DEF Messages
<1>2. ASSUME NEW i \in Ids
      PROVE /\ msgs[i] \in Messages
            /\ msgs[i].status # "pending" => msgs'[i] = msgs[i]
            /\ msgs[i].status = "pending" =>
                 msgs'[i] = [msgs[i] EXCEPT !.status = "interrupted"]
  BY InterruptedMessages, MessageFields
<1>3. ASSUME NEW i \in Ids
      PROVE /\ msgs'[i].from = msgs[i].from /\ msgs'[i].to = msgs[i].to
            /\ msgs'[i].by = msgs[i].by
            /\ msgs'[i].status =
                 IF msgs[i].status = "pending" THEN "interrupted" ELSE msgs[i].status
            /\ msgs[i].status # "pending" => msgs'[i] = msgs[i]
  <2>1. CASE msgs[i].status = "pending"
    <3>1. /\ msgs'[i].from = msgs[i].from /\ msgs'[i].to = msgs[i].to
          /\ msgs'[i].by = msgs[i].by /\ msgs'[i].status = "interrupted"
      <4>1. msgs[i] \in Messages /\ msgs'[i] = [msgs[i] EXCEPT !.status = "interrupted"]
        BY <1>2, <2>1
      <4> QED BY <1>1, <4>1, Zenon
    <3> QED BY <2>1, <3>1
  <2>2. CASE msgs[i].status # "pending"
    BY <1>2, <2>2, Zenon
  <2> QED BY <2>1, <2>2
<1>4. MsgTypes' /\ Len(msgs') = Len(msgs)
  BY InterruptedMessages DEF MsgTypes
<1> QED BY <1>3, <1>4, Zenon

(* What a step can do to the journal's messages: nothing, append one, or   *)
(* write them in place without touching whom they are from and to.         *)
LEMMA JournalGrows ==
  ASSUME MsgTypes, OpTypes, PlanTypes, Consuming, [Next]_vars
  PROVE /\ MsgTypes' /\ Len(msgs') >= Len(msgs)
        /\ \A i \in Ids : msgs'[i].from = msgs[i].from /\ msgs'[i].to = msgs[i].to
                          /\ msgs[i].by \subseteq msgs'[i].by
<1> USE MessageFields
<1>1. ASSUME NEW p \in Agents \cup Users, Sent(p) \/ SendFails(p)
      PROVE (Inside(p, "send") /\ msgs' = Appended(p)) \/ UNCHANGED msgs
  BY <1>1 DEF Sent, SendFails
<1>2. ASSUME NEW p \in Agents \cup Users, Resolved(p)
      PROVE (\E t : msgs' = Settled(t)) \/ UNCHANGED msgs
  BY <1>2 DEF Resolved
<1>3. ASSUME Consumed \/ ConsumeFails
      PROVE (\E a \in Agents, k \in {Head(inbox[First(plan.todo)])} :
               msgs' = Marked(k, a)) \/ UNCHANGED msgs
  <2>1. First(plan.todo) \in Agents
    BY <1>3, TargetIsAnAgent DEF Consumed, ConsumeFails, Inside, Consuming
  <2> QED BY <1>3, <2>1, Zenon DEF Consumed, ConsumeFails, Marked
<1>4. ASSUME Completed \/ Interrupts
      PROVE msgs' = InterruptedAll \/ UNCHANGED msgs
  BY <1>4 DEF Completed, Interrupts
<1>5. CASE \E p \in Agents \cup Users : Inside(p, "send") /\ msgs' = Appended(p)
  BY <1>5, MessagesAppended
<1>6. CASE \E t : msgs' = Settled(t)
  BY <1>6, MessagesSettled
<1>7. CASE \E a \in Agents, k \in {Head(inbox[First(plan.todo)])} :
             msgs' = Marked(k, a)
  <2>1. PICK a \in Agents, k \in {Head(inbox[First(plan.todo)])} :
          msgs' = Marked(k, a)
    BY <1>7, Zenon
  <2>2. MsgTypes' /\ Marks(k, a)
    BY <2>1, MessagesConsumed
  <2>3. ASSUME NEW i \in Ids
        PROVE msgs'[i].from = msgs[i].from /\ msgs'[i].to = msgs[i].to
              /\ msgs[i].by \subseteq msgs'[i].by
    BY <2>2 DEF Marks
  <2> QED BY <2>2, <2>3 DEF Marks
<1>8. CASE msgs' = InterruptedAll
  BY <1>8, MessagesInterrupted
<1>9. CASE UNCHANGED msgs
  BY <1>9 DEF MsgTypes
<1>10. ASSUME UNCHANGED journal PROVE UNCHANGED msgs
  BY <1>10 DEF journal
<1> QED BY <1>1, <1>2, <1>3, <1>4, <1>5, <1>6, <1>7, <1>8, <1>9, <1>10, JournalSteps, Zenon

-----------------------------------------------------------------------------
(* The shape of each step: who moves, asks for the lock or leaves it.      *)

OthersStay(p) == \A q \in Procs \ {p} : pc'[q] = pc[q] /\ op'[q] = op[q]
Moves(p, from, to) ==
  /\ pc[p] = from /\ pc'[p] = to /\ op'[p] = op[p] /\ OthersStay(p)
  /\ UNCHANGED lock
AsksFor(p, from, what) ==
  /\ pc[p] = from /\ pc'[p] = "lock" /\ op'[p] = what /\ OthersStay(p)
  /\ lock' = Append(lock, p)
LeavesWith(p, what, to) ==
  /\ lock # <<>> /\ Head(lock) = p /\ op[p].do = what
  /\ pc'[p] = to /\ op'[p] = NoOp /\ OthersStay(p) /\ lock' = Tail(lock)

LEMMA MovesHolds ==
  ASSUME PcTypes, NEW p \in Procs, NEW from, pc[p] = from, NEW to \in Labels,
         Go(p, to), Stay, DOMAIN op = Procs
  PROVE Moves(p, from, to) /\ PcTypes' /\ DOMAIN op' = Procs
BY Goes DEF Moves, OthersStay, Stay

LEMMA AsksForHolds ==
  ASSUME PcTypes, DOMAIN op = Procs, NEW p \in Procs, NEW from, pc[p] = from,
         NEW what, Ask(p, what)
  PROVE AsksFor(p, from, what) /\ PcTypes' /\ DOMAIN op' = Procs
BY Asks DEF AsksFor, OthersStay

LEMMA LeavesWithHolds ==
  ASSUME PcTypes, DOMAIN op = Procs, NEW p \in Procs, NEW what, Inside(p, what),
         NEW to \in Labels, Leave(p, to)
  PROVE LeavesWith(p, what, to) /\ PcTypes' /\ DOMAIN op' = Procs
BY Leaves DEF LeavesWith, OthersStay, Inside

ControlTypes == PcTypes /\ OpTypes /\ PlanTypes

(* An agent in its turn goes on, reports, or asks to send or to resolve.   *)
LEMMA AgentShape ==
  ASSUME MsgTypes, BookTypes, ControlTypes, NEW a \in Agents, AgentStep(a)
  PROVE /\ PcTypes' /\ DOMAIN op' = Procs /\ UNCHANGED <<course, plan, journal>>
        /\ \/ \E to \in {"turn", "idle"} : Moves(a, "turn", to)
           \/ \E what \in AgentOps \ {NoOp} :
                AsksFor(a, "turn", what) /\ (what.do = "send" => what.reply <= Len(msgs))
<1> USE DEF ControlTypes
<1>0. a \in Procs /\ DOMAIN op = Procs /\ {"turn", "idle"} \subseteq Labels
  BY DifferentProcs DEF OpTypes, Labels
<1>1. CASE AgentSends(a)
  <2>1. /\ pc[a] = "turn" /\ UNCHANGED <<course, plan, journal>>
        /\ \/ \E to \in (SUBSET Agents) \ {{}}, expects \in BOOLEAN, thread \in open \cup {0},
                reply \in {i \in Ids : a \in msgs[i].by \/ msgs[i].from = a} \cup {0} :
                Ask(a, Send(to, thread, reply, expects))
           \/ Go(a, "turn") /\ Stay
    <3>1. PICK to \in SUBSET Agents, expects \in BOOLEAN, thread \in open \cup {0},
               reply \in {i \in Ids : a \in msgs[i].by \/ msgs[i].from = a} \cup {0} :
            LET all == IF to = {} THEN Agents \ {a} ELSE to IN
            \/ all # {} /\ Ask(a, Send(all, thread, reply, expects))
            \/ Go(a, "turn") /\ Stay
      BY <1>1, Zenon DEF AgentSends
    <3> DEFINE all == IF to = {} THEN Agents \ {a} ELSE to
    <3>2. all \in SUBSET Agents
      OBVIOUS
    <3>3. (all # {} /\ Ask(a, Send(all, thread, reply, expects))) \/ (Go(a, "turn") /\ Stay)
      BY <3>1
    <3> HIDE DEF all
    <3>4. pc[a] = "turn" /\ UNCHANGED <<course, plan, journal>>
      BY <1>1 DEF AgentSends, journal
    <3> QED BY <3>2, <3>3, <3>4, Zenon
  <2>2. CASE Go(a, "turn") /\ Stay
    BY <1>0, <2>1, <2>2, MovesHolds
  <2>3. ASSUME NEW to \in (SUBSET Agents) \ {{}}, NEW expects \in BOOLEAN,
               NEW thread \in open \cup {0},
               NEW reply \in {i \in Ids : a \in msgs[i].by \/ msgs[i].from = a} \cup {0},
               Ask(a, Send(to, thread, reply, expects))
        PROVE /\ PcTypes' /\ DOMAIN op' = Procs
              /\ \E what \in AgentOps \ {NoOp} :
                   AsksFor(a, "turn", what) /\ (what.do = "send" => what.reply <= Len(msgs))
    <3> DEFINE what == Send(to, thread, reply, expects)
    <3>0. thread \in Nat /\ reply \in 0..Len(msgs) /\ Len(msgs) \in Nat
      BY MessageFields DEF BookTypes, Ids
    <3>1. what \in Sends /\ what.do = "send" /\ what.reply <= Len(msgs)
      BY <3>0 DEF Send, Sends
    <3>2. what \in AgentOps \ {NoOp}
      BY <3>1 DEF AgentOps, NoOp
    <3> HIDE DEF what
    <3>3. Ask(a, what)
      BY <2>3 DEF what
    <3>4. AsksFor(a, "turn", what) /\ PcTypes' /\ DOMAIN op' = Procs
      BY <1>0, <2>1, <3>3, AsksForHolds
    <3> QED BY <3>1, <3>2, <3>4
  <2> QED BY <2>1, <2>2, <2>3, Zenon
<1>2. CASE AgentResolves(a)
  <2>1. /\ pc[a] = "turn" /\ UNCHANGED <<course, plan, journal>>
        /\ \E t \in open : Ask(a, [do |-> "resolve", thread |-> t])
    BY <1>2 DEF AgentResolves, journal, team
  <2>2. PICK t \in open : Ask(a, [do |-> "resolve", thread |-> t])
    BY <2>1
  <2> DEFINE what == [do |-> "resolve", thread |-> t]
  <2>3. what \in AgentOps \ {NoOp} /\ what.do # "send"
    BY DEF AgentOps, NoOp, BookTypes
  <2> HIDE DEF what
  <2>4. AsksFor(a, "turn", what) /\ PcTypes' /\ DOMAIN op' = Procs
    <3>1. Ask(a, what)
      BY <2>2 DEF what
    <3> QED BY <1>0, <2>1, <3>1, AsksForHolds
  <2> QED BY <2>1, <2>3, <2>4
<1>3. CASE AgentReports(a)
  <2>1. pc[a] = "turn" /\ Go(a, "idle") /\ Stay /\ UNCHANGED <<course, plan, journal>>
    BY <1>3 DEF AgentReports, journal, team, schedule
  <2> QED BY <1>0, <2>1, MovesHolds
<1> QED BY <1>1, <1>2, <1>3 DEF AgentStep

(* A user's post asks to be sent or rejected, or comes too late.           *)
LEMMA UserShape ==
  ASSUME ControlTypes, NEW u \in Users, UserPosts(u)
  PROVE /\ PcTypes' /\ DOMAIN op' = Procs /\ UNCHANGED <<course, plan, journal>>
        /\ \/ MaySend /\ \E what \in UserSends : AsksFor(u, "idle", what)
           \/ state \notin Ended /\ AsksFor(u, "idle", [do |-> "reject"])
           \/ state \in Ended /\ Moves(u, "idle", "refused")
<1> USE DEF ControlTypes
<1>0. u \in Procs /\ DOMAIN op = Procs /\ "refused" \in Labels
  BY DifferentProcs DEF OpTypes, Labels
<1>1. pc[u] = "idle" /\ UNCHANGED <<course, plan, journal>>
  BY DEF UserPosts, journal, team, schedule
<1>2. CASE MaySend /\ \E to \in SUBSET Agents :
             Ask(u, Send(IF to = {} THEN Agents ELSE to, 0, 0, FALSE))
  <2>1. PICK to \in SUBSET Agents : Ask(u, Send(IF to = {} THEN Agents ELSE to, 0, 0, FALSE))
    BY <1>2
  <2> DEFINE all == IF to = {} THEN Agents ELSE to
             what == Send(all, 0, 0, FALSE)
  <2>2. all \in (SUBSET Agents) \ {{}}
    BY SomeAgent
  <2> HIDE DEF all
  <2>3. what \in UserSends
    BY <2>2 DEF Send, Sends, UserSends
  <2> HIDE DEF what
  <2>4. AsksFor(u, "idle", what) /\ PcTypes' /\ DOMAIN op' = Procs
    <3>1. Ask(u, what)
      BY <2>1 DEF what, all
    <3> QED BY <1>0, <1>1, <3>1, AsksForHolds
  <2> QED BY <1>1, <1>2, <2>3, <2>4
<1>3. CASE state \notin Ended /\ Ask(u, [do |-> "reject"])
  BY <1>0, <1>1, <1>3, AsksForHolds
<1>4. CASE state \in Ended /\ Go(u, "refused") /\ Stay
  BY <1>0, <1>1, <1>4, MovesHolds
<1> QED BY <1>2, <1>3, <1>4 DEF UserPosts

(* Whoever of them has the lock does what it waited for, and leaves.       *)
LEMMA InsideShape ==
  ASSUME ControlTypes, NEW p \in Agents \cup Users, InsideStep(p)
  PROVE /\ PcTypes' /\ DOMAIN op' = Procs /\ UNCHANGED <<course, plan>>
        /\ op[p].do = "send" <=> SendInside(p)
        /\ \E what \in {"send", "resolve", "reject"},
              to \in {"turn", "posted", "refused", "rejected"} :
             /\ LeavesWith(p, what, to)
             /\ p \in Agents => to = "turn"
             /\ p \in Users => to # "turn"
             /\ what = "reject" => to = "rejected"
<1> USE DEF ControlTypes
<1>0. /\ p \in Procs /\ DOMAIN op = Procs
      /\ {"turn", "posted", "refused", "rejected"} \subseteq Labels
      /\ p \in Agents <=> p \notin Users
  BY DifferentProcs DEF OpTypes, Labels
<1>1. /\ p \in Agents => op[p].do # "reject"
      /\ p \in Users => op[p].do # "resolve"
  BY DEF OpTypes, AgentOps, UserOps, UserSends, Sends, NoOp
<1>2. CASE SendInside(p)
  <2>1. PICK to \in {Return(p), Refuse(p)} :
          Inside(p, "send") /\ Leave(p, to) /\ UNCHANGED <<course, plan>>
    BY <1>2 DEF SendInside, SendRefused, Sent, SendFails, schedule
  <2>2. /\ to \in {"turn", "posted", "refused"} /\ to \in Labels
        /\ p \in Agents => to = "turn"
        /\ p \in Users => to # "turn"
    BY <1>0, <2>1 DEF Return, Refuse
  <2>3. LeavesWith(p, "send", to) /\ PcTypes' /\ DOMAIN op' = Procs
    BY <1>0, <2>1, <2>2, LeavesWithHolds
  <2> QED BY <1>2, <2>1, <2>2, <2>3 DEF Inside
<1>3. CASE Resolved(p)
  <2>1. Inside(p, "resolve") /\ Leave(p, "turn") /\ UNCHANGED <<course, plan>>
    BY <1>3 DEF Resolved, schedule
  <2>2. LeavesWith(p, "resolve", "turn") /\ PcTypes' /\ DOMAIN op' = Procs
    BY <1>0, <2>1, LeavesWithHolds
  <2>3. ~SendInside(p)
    BY <2>1 DEF SendInside, SendRefused, Sent, SendFails, Inside
  <2> QED BY <1>0, <1>1, <2>1, <2>2, <2>3 DEF Inside
<1>4. CASE Rejected(p)
  <2>1. Inside(p, "reject") /\ Leave(p, "rejected") /\ UNCHANGED <<course, plan>>
    BY <1>4 DEF Rejected, schedule
  <2>2. LeavesWith(p, "reject", "rejected") /\ PcTypes' /\ DOMAIN op' = Procs
    BY <1>0, <2>1, LeavesWithHolds
  <2>3. ~SendInside(p)
    BY <2>1 DEF SendInside, SendRefused, Sent, SendFails, Inside
  <2> QED BY <1>0, <1>1, <2>1, <2>2, <2>3 DEF Inside
<1> QED BY <1>2, <1>3, <1>4 DEF InsideStep

LEMMA ProposalIsAPlan ==
  ASSUME PlanTypes
  PROVE Proposal \in Plans /\ Proposal.do \in {"assign", "wait", "complete"}
<1>1. ASSUME NEW targets \in SUBSET Agents, NEW b \in BOOLEAN
      PROVE Assign(targets, b) \in Plans /\ Assign(targets, b).do = "assign"
  BY DEF Assign, Plans
<1>2. ASSUME NEW w \in {"wait", "complete"}
      PROVE LET p == [do |-> w, todo |-> {}, batch |-> {}, summary |-> FALSE]
            IN p \in Plans /\ p.do = w
  BY DEF Plans
<1>3. /\ (IF Mentioned # {} THEN Mentioned ELSE Agents) \in SUBSET Agents
      /\ Unread \in SUBSET Agents
      /\ Summary # "none" => {Summary} \in SUBSET Agents
  BY TeamAssumption DEF Unread
<1>4. \/ \E targets \in SUBSET Agents, b \in BOOLEAN : Proposal = Assign(targets, b)
      \/ \E w \in {"wait", "complete"} :
           Proposal = [do |-> w, todo |-> {}, batch |-> {}, summary |-> FALSE]
  <2>1. CASE plan.do = "start"
    BY <1>3, <2>1, Zenon DEF Proposal
  <2>2. CASE plan.do # "start" /\ Unread # {}
    BY <1>3, <2>2, Zenon DEF Proposal
  <2>3. CASE plan.do # "start" /\ ~(Unread # {}) /\ Summary # "none" /\ summary = "no"
    BY <1>3, <2>3, Zenon DEF Proposal
  <2>4. CASE /\ plan.do # "start" /\ ~(Unread # {})
             /\ ~(Summary # "none" /\ summary = "no")
    <3>1. Proposal = (IF Summary # "none" /\ summary = "scheduled"
                      THEN [do |-> "wait", todo |-> {}, batch |-> {}, summary |-> FALSE]
                      ELSE [do |-> "complete", todo |-> {}, batch |-> {}, summary |-> FALSE])
      BY <2>4, Zenon DEF Proposal
    <3> QED BY <3>1, Zenon
  <2> QED BY <2>1, <2>2, <2>3, <2>4
<1> HIDE DEF Proposal, Assign
<1>5. CASE \E targets \in SUBSET Agents, b \in BOOLEAN : Proposal = Assign(targets, b)
  BY <1>1, <1>5
<1>6. CASE \E w \in {"wait", "complete"} :
             Proposal = [do |-> w, todo |-> {}, batch |-> {}, summary |-> FALSE]
  BY <1>2, <1>6
<1> QED BY <1>4, <1>5, <1>6

(* The main task, while it schedules the agents.                           *)
LEMMA SchedulingShape ==
  ASSUME ControlTypes, BookTypes, Propose \/ AssignNext \/ ConsumeNext \/ Gathered
  PROVE /\ PcTypes' /\ PlanTypes' /\ DOMAIN op' = Procs
        /\ UNCHANGED <<state, accepting, journal>> /\ stop = "none"
        /\ Propose =>
             \/ stop' = "failed" /\ Moves("main", "propose", "stopping")
             \/ UNCHANGED stop /\ \E to \in {"assign", "complete"} : Moves("main", "propose", to)
        /\ AssignNext =>
             /\ UNCHANGED plan /\ plan.todo # {}
             /\ \/ stop' = "failed" /\ Moves("main", "assign", "stopping") /\ UNCHANGED turns
                \/ UNCHANGED stop /\ Moves("main", "assign", "consume")
        /\ ConsumeNext =>
             /\ UNCHANGED stop /\ plan'.batch = plan.batch
             /\ \/ Moves("main", "consume", "assign")
                \/ /\ AsksFor("main", "consume", [do |-> "consume"])
                   /\ UNCHANGED plan /\ inbox[First(plan.todo)] # <<>>
        /\ Gathered =>
             /\ UNCHANGED plan /\ \A a \in plan.batch : pc[a] = "idle"
             /\ \/ stop' = "failed" /\ Moves("main", "gather", "stopping")
                \/ UNCHANGED stop /\ Moves("main", "gather", "propose")
<1> USE DEF ControlTypes
<1>0. /\ "main" \in Procs /\ DOMAIN op = Procs
      /\ {"propose", "assign", "consume", "complete", "gather", "stopping"} \subseteq Labels
  BY DifferentProcs DEF OpTypes, Labels
<1>1. UNCHANGED <<state, accepting, journal>> /\ stop = "none"
  BY DEF Propose, AssignNext, ConsumeNext, Gathered, journal, team, course
<1>2. ASSUME Propose
      PROVE /\ PcTypes' /\ PlanTypes' /\ DOMAIN op' = Procs
            /\ \/ stop' = "failed" /\ Moves("main", "propose", "stopping")
               \/ UNCHANGED stop /\ \E to \in {"assign", "complete"} : Moves("main", "propose", to)
  <2>1. PlanTypes'
    BY <1>2, ProposalIsAPlan DEF Propose, PlanTypes
  <2>2. \/ stop' = "failed" /\ Go("main", "stopping")
        \/ UNCHANGED stop /\ \E to \in {"assign", "complete"} : Go("main", to)
    BY <1>2, ProposalIsAPlan DEF Propose
  <2>3. pc["main"] = "propose" /\ Stay
    BY <1>2 DEF Propose
  <2>4. ASSUME NEW to \in Labels, Go("main", to)
        PROVE Moves("main", "propose", to) /\ PcTypes' /\ DOMAIN op' = Procs
    BY <1>0, <2>3, <2>4, MovesHolds
  <2> QED BY <1>0, <2>1, <2>2, <2>4
<1>3. ASSUME AssignNext
      PROVE /\ PcTypes' /\ PlanTypes' /\ DOMAIN op' = Procs
            /\ UNCHANGED plan /\ plan.todo # {}
            /\ \/ stop' = "failed" /\ Moves("main", "assign", "stopping") /\ UNCHANGED turns
               \/ UNCHANGED stop /\ Moves("main", "assign", "consume")
  <2>1. PlanTypes' /\ UNCHANGED plan /\ plan.todo # {}
    BY <1>3 DEF AssignNext, PlanTypes
  <2>2. \/ stop' = "failed" /\ Go("main", "stopping") /\ UNCHANGED turns
        \/ UNCHANGED stop /\ Go("main", "consume")
    BY <1>3 DEF AssignNext
  <2>3. pc["main"] = "assign" /\ Stay
    BY <1>3 DEF AssignNext
  <2>4. ASSUME NEW to \in Labels, Go("main", to)
        PROVE Moves("main", "assign", to) /\ PcTypes' /\ DOMAIN op' = Procs
    BY <1>0, <2>3, <2>4, MovesHolds
  <2> QED BY <1>0, <2>1, <2>2, <2>4
<1>4. ASSUME ConsumeNext
      PROVE /\ PcTypes' /\ PlanTypes' /\ DOMAIN op' = Procs
            /\ UNCHANGED stop /\ plan'.batch = plan.batch
            /\ \/ Moves("main", "consume", "assign")
               \/ /\ AsksFor("main", "consume", [do |-> "consume"])
                  /\ UNCHANGED plan /\ inbox[First(plan.todo)] # <<>>
  <2>1. pc["main"] = "consume" /\ UNCHANGED stop
    BY <1>4 DEF ConsumeNext, course
  <2>2. CASE /\ plan' = [plan EXCEPT !.todo = @ \ {First(plan.todo)}]
             /\ Go("main", "assign") /\ Stay
    <3>1. plan' \in Plans /\ plan'.batch = plan.batch
      BY <2>2 DEF PlanTypes, Plans
    <3>2. Moves("main", "consume", "assign") /\ PcTypes' /\ DOMAIN op' = Procs
      BY <1>0, <2>1, <2>2, MovesHolds
    <3> QED BY <2>1, <3>1, <3>2 DEF PlanTypes
  <2>3. CASE Ask("main", [do |-> "consume"]) /\ UNCHANGED plan /\ inbox[First(plan.todo)] # <<>>
    <3>1. AsksFor("main", "consume", [do |-> "consume"]) /\ PcTypes' /\ DOMAIN op' = Procs
      BY <1>0, <2>1, <2>3, AsksForHolds
    <3> QED BY <2>1, <2>3, <3>1 DEF PlanTypes
  <2> QED BY <1>4, <2>2, <2>3 DEF ConsumeNext
<1>5. ASSUME Gathered
      PROVE /\ PcTypes' /\ PlanTypes' /\ DOMAIN op' = Procs
            /\ UNCHANGED plan /\ \A a \in plan.batch : pc[a] = "idle"
            /\ \/ stop' = "failed" /\ Moves("main", "gather", "stopping")
               \/ UNCHANGED stop /\ Moves("main", "gather", "propose")
  <2>1. PlanTypes' /\ UNCHANGED plan /\ \A a \in plan.batch : pc[a] = "idle"
    BY <1>5 DEF Gathered, PlanTypes
  <2>2. \/ stop' = "failed" /\ Go("main", "stopping")
        \/ UNCHANGED stop /\ Go("main", "propose")
    BY <1>5 DEF Gathered
  <2>3. pc["main"] = "gather" /\ Stay
    BY <1>5 DEF Gathered
  <2>4. ASSUME NEW to \in Labels, Go("main", to)
        PROVE Moves("main", "gather", to) /\ PcTypes' /\ DOMAIN op' = Procs
    BY <1>0, <2>3, <2>4, MovesHolds
  <2> QED BY <1>0, <2>1, <2>2, <2>4
<1> QED BY <1>1, <1>2, <1>3, <1>4, <1>5, Zenon

(* The main task, while it delivers and completes.                         *)
LEMMA DeliveringShape ==
  ASSUME ControlTypes, Consumed \/ ConsumeFails \/ Prepare \/ Prepared
                       \/ Completing \/ Completed
  PROVE /\ PcTypes' /\ PlanTypes' /\ DOMAIN op' = Procs /\ UNCHANGED plan
        /\ Consumed =>
             LeavesWith("main", "consume", "consume") /\ UNCHANGED <<course, raised, broken>>
        /\ ConsumeFails =>
             /\ LeavesWith("main", "consume", "stopping") /\ stop' = "failed" /\ raised'
             /\ UNCHANGED <<state, accepting, inbox>>
        /\ Prepare =>
             /\ AsksFor("main", "complete", [do |-> "prepare"])
             /\ stop = "none" /\ lock # <<>> /\ UNCHANGED <<course, journal>>
        /\ Prepared =>
             /\ \/ stop = "none" /\ lock = <<>>
                   /\ Moves("main", "complete", IF Unread # {} THEN "propose" ELSE "completing")
                \/ LeavesWith("main", "prepare", IF Unread # {} THEN "propose" ELSE "completing")
             /\ accepting' = (Unread # {}) /\ UNCHANGED <<state, stop, journal>>
        /\ Completing =>
             /\ AsksFor("main", "completing", [do |-> "complete"])
             /\ stop = "none" /\ UNCHANGED <<course, journal>>
        /\ Completed =>
             /\ LeavesWith("main", "complete", "ended")
             /\ \/ ~broken /\ state' = "completed" /\ UNCHANGED raised
                \/ state' = "failed" /\ raised'
             /\ UNCHANGED <<accepting, stop, msgs, inbox, broken>>
<1> USE DEF ControlTypes
<1>0. /\ "main" \in Procs /\ DOMAIN op = Procs
      /\ {"propose", "consume", "completing", "complete", "ended", "stopping"} \subseteq Labels
  BY DifferentProcs DEF OpTypes, Labels
<1>1. UNCHANGED plan /\ PlanTypes'
  BY DEF Consumed, ConsumeFails, Prepare, Prepared, Completing, Completed, schedule, PlanTypes
<1>2. ASSUME Consumed
      PROVE /\ PcTypes' /\ DOMAIN op' = Procs
            /\ LeavesWith("main", "consume", "consume") /\ UNCHANGED <<course, raised, broken>>
  <2>1. /\ Inside("main", "consume") /\ Leave("main", "consume")
        /\ UNCHANGED <<course, raised, broken>>
    BY <1>2 DEF Consumed
  <2> QED BY <1>0, <2>1, LeavesWithHolds
<1>3. ASSUME ConsumeFails
      PROVE /\ PcTypes' /\ DOMAIN op' = Procs
            /\ LeavesWith("main", "consume", "stopping") /\ stop' = "failed" /\ raised'
            /\ UNCHANGED <<state, accepting, inbox>>
  <2>1. /\ Inside("main", "consume") /\ Leave("main", "stopping")
        /\ stop' = "failed" /\ raised' /\ UNCHANGED <<state, accepting, inbox>>
    BY <1>3 DEF ConsumeFails
  <2> QED BY <1>0, <2>1, LeavesWithHolds
<1>4. ASSUME Prepare
      PROVE /\ PcTypes' /\ DOMAIN op' = Procs
            /\ AsksFor("main", "complete", [do |-> "prepare"])
            /\ stop = "none" /\ lock # <<>> /\ UNCHANGED <<course, journal>>
  <2>1. /\ pc["main"] = "complete" /\ stop = "none" /\ lock # <<>>
        /\ Ask("main", [do |-> "prepare"]) /\ UNCHANGED <<course, journal>>
    BY <1>4 DEF Prepare, team, journal
  <2> QED BY <1>0, <2>1, AsksForHolds
<1>5. ASSUME Prepared
      PROVE LET to == IF Unread # {} THEN "propose" ELSE "completing" IN
            /\ PcTypes' /\ DOMAIN op' = Procs
            /\ \/ stop = "none" /\ lock = <<>> /\ Moves("main", "complete", to)
               \/ LeavesWith("main", "prepare", to)
            /\ accepting' = (Unread # {}) /\ UNCHANGED <<state, stop, journal>>
  <2> DEFINE to == IF Unread # {} THEN "propose" ELSE "completing"
  <2>1. /\ Go("main", to) /\ accepting' = (Unread # {})
        /\ UNCHANGED <<state, stop, journal>>
    BY <1>5 DEF Prepared, PreparedAt, team, journal
  <2>2. to \in Labels
    BY <1>0
  <2>3. \/ pc["main"] = "complete" /\ stop = "none" /\ lock = <<>> /\ Stay
        \/ Inside("main", "prepare") /\ lock' = Tail(lock) /\ op' = [op EXCEPT !["main"] = NoOp]
    BY <1>5 DEF Prepared
  <2> HIDE DEF to
  <2>4. CASE pc["main"] = "complete" /\ stop = "none" /\ lock = <<>> /\ Stay
    <3>1. Moves("main", "complete", to) /\ PcTypes' /\ DOMAIN op' = Procs
      BY <1>0, <2>1, <2>2, <2>4, MovesHolds
    <3> QED BY <2>1, <2>4, <3>1 DEF to
  <2>5. CASE Inside("main", "prepare") /\ lock' = Tail(lock) /\ op' = [op EXCEPT !["main"] = NoOp]
    <3>1. Leave("main", to)
      BY <2>1, <2>5 DEF Leave
    <3>2. LeavesWith("main", "prepare", to) /\ PcTypes' /\ DOMAIN op' = Procs
      BY <1>0, <2>2, <2>5, <3>1, LeavesWithHolds
    <3> QED BY <2>1, <3>2 DEF to
  <2> QED BY <2>3, <2>4, <2>5
<1>6. ASSUME Completing
      PROVE /\ PcTypes' /\ DOMAIN op' = Procs
            /\ AsksFor("main", "completing", [do |-> "complete"])
            /\ stop = "none" /\ UNCHANGED <<course, journal>>
  <2>1. /\ pc["main"] = "completing" /\ stop = "none"
        /\ Ask("main", [do |-> "complete"]) /\ UNCHANGED <<course, journal>>
    BY <1>6 DEF Completing, team, journal
  <2> QED BY <1>0, <2>1, AsksForHolds
<1>7. ASSUME Completed
      PROVE /\ PcTypes' /\ DOMAIN op' = Procs
            /\ LeavesWith("main", "complete", "ended")
            /\ \/ ~broken /\ state' = "completed" /\ UNCHANGED raised
               \/ state' = "failed" /\ raised'
            /\ UNCHANGED <<accepting, stop, msgs, inbox, broken>>
  <2>1. Inside("main", "complete") /\ Leave("main", "ended")
    BY <1>7 DEF Completed
  <2>2. /\ \/ ~broken /\ state' = "completed" /\ UNCHANGED raised
           \/ state' = "failed" /\ raised'
        /\ UNCHANGED <<accepting, stop, msgs, inbox, broken>>
    BY <1>7 DEF Completed
  <2> QED BY <1>0, <2>1, <2>2, LeavesWithHolds
<1> QED BY <1>1, <1>2, <1>3, <1>4, <1>5, <1>6, <1>7, Zenon

(* The agents' turns start; they and the main task are stopped.            *)
LEMMA StoppingShape ==
  ASSUME ControlTypes, TurnsStart \/ Unwinds \/ ActorsStopped
  PROVE /\ PcTypes' /\ PlanTypes' /\ DOMAIN op' = Procs
        /\ UNCHANGED <<course, plan, journal>>
        /\ TurnsStart =>
             /\ pc["main"] = "assign" /\ pc'["main"] = "gather" /\ stop = "none"
             /\ UNCHANGED <<lock, op>>
             /\ \A p \in Procs \ {"main"} :
                  pc'[p] = IF p \in plan.batch THEN "turn" ELSE pc[p]
        /\ Unwinds =>
             /\ stop # "none" /\ pc["main"] \notin {"stopping", "finish", "interrupt", "ended"}
             /\ op["main"].do # "finish"
             /\ pc'["main"] = "stopping" /\ op'["main"] = NoOp /\ OthersStay("main")
        /\ ActorsStopped =>
             /\ pc["main"] = "stopping" /\ pc'["main"] = "finish" /\ op'["main"] = op["main"]
             /\ \A a \in Agents : pc'[a] = "idle" /\ op'[a] = NoOp
             /\ \A u \in Users : pc'[u] = pc[u] /\ op'[u] = op[u]
<1> USE DEF ControlTypes
<1>0. /\ "main" \in Procs /\ DOMAIN op = Procs
      /\ {"gather", "turn", "stopping", "finish", "idle"} \subseteq Labels
      /\ \A p \in Procs : pc[p] \in Labels
  BY DifferentProcs DEF OpTypes, Labels, PcTypes
<1>1. UNCHANGED <<course, plan, journal>> /\ PlanTypes'
  BY DEF TurnsStart, Unwinds, ActorsStopped, schedule, PlanTypes, team, journal
<1>2. ASSUME TurnsStart
      PROVE /\ PcTypes' /\ DOMAIN op' = Procs
            /\ pc["main"] = "assign" /\ pc'["main"] = "gather" /\ stop = "none"
            /\ UNCHANGED <<lock, op>>
            /\ \A p \in Procs \ {"main"} :
                 pc'[p] = IF p \in plan.batch THEN "turn" ELSE pc[p]
  <2>1. pc' = [p \in Procs |-> IF p = "main" THEN "gather"
                               ELSE IF p \in plan.batch THEN "turn" ELSE pc[p]]
    BY <1>2 DEF TurnsStart
  <2>2. pc["main"] = "assign" /\ stop = "none" /\ UNCHANGED <<lock, op>>
    BY <1>2 DEF TurnsStart, Stay
  <2> QED BY <1>0, <2>1, <2>2 DEF PcTypes
<1>3. ASSUME Unwinds
      PROVE /\ PcTypes' /\ DOMAIN op' = Procs
            /\ stop # "none" /\ pc["main"] \notin {"stopping", "finish", "interrupt", "ended"}
            /\ op["main"].do # "finish"
            /\ pc'["main"] = "stopping" /\ op'["main"] = NoOp /\ OthersStay("main")
  <2>1. Go("main", "stopping") /\ op' = [op EXCEPT !["main"] = NoOp]
    BY <1>3 DEF Unwinds
  <2>2. /\ stop # "none" /\ pc["main"] \notin {"stopping", "finish", "interrupt", "ended"}
        /\ op["main"].do # "finish"
    BY <1>3 DEF Unwinds
  <2> QED BY <1>0, <2>1, <2>2, Goes DEF OthersStay
<1>4. ASSUME ActorsStopped
      PROVE /\ PcTypes' /\ DOMAIN op' = Procs
            /\ pc["main"] = "stopping" /\ pc'["main"] = "finish" /\ op'["main"] = op["main"]
            /\ \A a \in Agents : pc'[a] = "idle" /\ op'[a] = NoOp
            /\ \A u \in Users : pc'[u] = pc[u] /\ op'[u] = op[u]
  <2>1. /\ pc["main"] = "stopping"
        /\ op' = [p \in Procs |-> IF p \in Agents THEN NoOp ELSE op[p]]
        /\ pc' = [p \in Procs |-> IF p = "main" THEN "finish" ELSE
                                  IF p \in Agents THEN "idle" ELSE pc[p]]
    BY <1>4 DEF ActorsStopped
  <2> QED BY <1>0, <2>1, DifferentProcs DEF PcTypes
<1> QED BY <1>1, <1>2, <1>3, <1>4, Zenon

(* The Run finishes; or something asks that it be stopped.                 *)
LEMMA FinishingShape ==
  ASSUME ControlTypes, Finishing \/ Interrupts \/ Finished
  PROVE /\ PcTypes' /\ PlanTypes' /\ DOMAIN op' = Procs /\ UNCHANGED <<plan, stop, inbox, broken>>
        /\ Finishing =>
             /\ Moves("main", "finish", "interrupt") /\ accepting' = FALSE
             /\ UNCHANGED <<state, journal>>
        /\ Interrupts =>
             /\ AsksFor("main", "interrupt", [do |-> "finish"])
             /\ (msgs' = InterruptedAll /\ UNCHANGED raised) \/ (UNCHANGED msgs /\ raised')
             /\ UNCHANGED course
        /\ Finished =>
             /\ LeavesWith("main", "finish", "ended") /\ state' = stop
             /\ UNCHANGED <<accepting, journal>>
<1> USE DEF ControlTypes
<1>0. /\ "main" \in Procs /\ DOMAIN op = Procs
      /\ {"finish", "interrupt", "ended"} \subseteq Labels
  BY DifferentProcs DEF OpTypes, Labels
<1>1. UNCHANGED <<plan, stop, inbox, broken>> /\ PlanTypes'
  BY DEF Finishing, Interrupts, Finished, schedule, PlanTypes, team, course
<1>2. ASSUME Finishing
      PROVE /\ PcTypes' /\ DOMAIN op' = Procs
            /\ Moves("main", "finish", "interrupt") /\ accepting' = FALSE
            /\ UNCHANGED <<state, journal>>
  <2>1. /\ pc["main"] = "finish" /\ Go("main", "interrupt") /\ Stay
        /\ accepting' = FALSE /\ UNCHANGED <<state, journal>>
    BY <1>2 DEF Finishing, team, journal
  <2> QED BY <1>0, <2>1, MovesHolds
<1>3. ASSUME Interrupts
      PROVE /\ PcTypes' /\ DOMAIN op' = Procs
            /\ AsksFor("main", "interrupt", [do |-> "finish"])
            /\ (msgs' = InterruptedAll /\ UNCHANGED raised) \/ (UNCHANGED msgs /\ raised')
            /\ UNCHANGED course
  <2>1. /\ pc["main"] = "interrupt" /\ Ask("main", [do |-> "finish"])
        /\ (msgs' = InterruptedAll /\ UNCHANGED raised) \/ (UNCHANGED msgs /\ raised')
        /\ UNCHANGED course
    BY <1>3 DEF Interrupts
  <2> QED BY <1>0, <2>1, AsksForHolds
<1>4. ASSUME Finished
      PROVE /\ PcTypes' /\ DOMAIN op' = Procs
            /\ LeavesWith("main", "finish", "ended") /\ state' = stop
            /\ UNCHANGED <<accepting, journal>>
  <2>1. /\ Inside("main", "finish") /\ Leave("main", "ended") /\ state' = stop
        /\ UNCHANGED <<accepting, journal>>
    BY <1>4 DEF Finished, team, journal
  <2> QED BY <1>0, <2>1, LeavesWithHolds
<1> QED BY <1>1, <1>2, <1>3, <1>4, Zenon

StopRequested ==
  /\ stop = "none" /\ pc["main"] # "ended" /\ op["main"].do # "complete"
  /\ stop' \in {"failed", "cancelled"} /\ state' \in {state, "cancelling"}
  /\ UNCHANGED <<accepting, plan, lock, pc, op, journal>>

LEMMA StoppedShape ==
  ASSUME NEW how \in Stops \cup (IF broken THEN {"failed"} ELSE {}), Stopped(how)
  PROVE StopRequested
<1>1. how \in {"failed", "cancelled"}
  BY TeamAssumption
<1>2. stop' = how /\ state' \in {state, "cancelling"}
  BY DEF Stopped
<1> QED BY <1>1, <1>2 DEF Stopped, StopRequested, Stay, team, schedule, journal

(* Every step has one of these shapes.                                     *)
Scheduling == Propose \/ AssignNext \/ ConsumeNext \/ Gathered
Delivering == Consumed \/ ConsumeFails \/ Prepare \/ Prepared \/ Completing \/ Completed
Stopping == TurnsStart \/ Unwinds \/ ActorsStopped
Endings == Finishing \/ Interrupts \/ Finished

LEMMA NextShapes ==
  ASSUME [Next]_vars
  PROVE \/ \E a \in Agents : AgentStep(a)
        \/ \E u \in Users : UserPosts(u)
        \/ \E p \in Agents \cup Users : InsideStep(p)
        \/ Scheduling \/ Delivering \/ Stopping \/ Endings
        \/ StopRequested
        \/ UNCHANGED vars
<1>1. ASSUME Over PROVE UNCHANGED vars
  BY <1>1 DEF Over
<1>2. MainStep <=> Scheduling \/ Delivering \/ Stopping \/ Endings
  BY DEF MainStep, Scheduling, Delivering, Stopping, Endings
<1> QED BY <1>1, <1>2, StoppedShape, Zenon DEF Next

-----------------------------------------------------------------------------
(* Type correctness.                                                       *)

LEMMA OpsFrame ==
  ASSUME OpTypes, MsgTypes, MsgTypes', Len(msgs') >= Len(msgs), DOMAIN op' = Procs,
         \A a \in Agents :
           \/ op'[a] \in {op[a], NoOp}
           \/ op'[a] \in AgentOps /\ (op'[a].do = "send" => op'[a].reply <= Len(msgs)),
         \A u \in Users : op'[u] \in {op[u], NoOp} \cup UserOps,
         op'["main"] \in {op["main"], NoOp} \cup MainOps
  PROVE OpTypes'
<1>0. Len(msgs) \in Nat /\ Len(msgs') \in Nat
  BY LenProperties DEF MsgTypes
<1>1. ASSUME NEW a \in Agents PROVE op'[a] \in AgentOps
  <2>1. NoOp \in AgentOps /\ op[a] \in AgentOps
    BY DEF AgentOps, OpTypes
  <2> QED BY <2>1
<1>2. ASSUME NEW a \in Agents, op'[a].do = "send" PROVE op'[a].reply <= Len(msgs')
  <2>1. op'[a] \in Sends
    BY <1>1, <1>2 DEF AgentOps, NoOp
  <2>2. op'[a].reply \in Nat
    BY <2>1 DEF Sends
  <2>3. op'[a].reply <= Len(msgs)
    <3>1. NoOp.do # "send"
      BY DEF NoOp
    <3> QED BY <1>2, <3>1 DEF OpTypes
  <2> QED BY <1>0, <2>2, <2>3
<1>3. ASSUME NEW u \in Users PROVE op'[u] \in UserOps
  <2>1. NoOp \in UserOps /\ op[u] \in UserOps
    BY DEF UserOps, OpTypes
  <2> QED BY <2>1
<1>4. op'["main"] \in MainOps
  <2>1. NoOp \in MainOps /\ op["main"] \in MainOps
    BY DEF MainOps, OpTypes
  <2> QED BY <2>1
<1> QED BY <1>1, <1>2, <1>3, <1>4 DEF OpTypes

LEMMA ControlTypesKept ==
  ASSUME Types, Consuming, [Next]_vars
  PROVE ControlTypes'
<1> USE DEF Types
<1>0. ControlTypes /\ MsgTypes' /\ Len(msgs') >= Len(msgs)
  BY JournalGrows DEF ControlTypes
<1>1. CASE \E a \in Agents : AgentStep(a)
  <2>1. PICK a \in Agents : AgentStep(a)
    BY <1>1
  <2>2. /\ PcTypes' /\ DOMAIN op' = Procs /\ UNCHANGED <<course, plan, journal>>
        /\ \/ \E to \in {"turn", "idle"} : Moves(a, "turn", to)
           \/ \E what \in AgentOps \ {NoOp} :
                AsksFor(a, "turn", what) /\ (what.do = "send" => what.reply <= Len(msgs))
    BY <1>0, <2>1, AgentShape
  <2>3. /\ \A q \in Procs \ {a} : op'[q] = op[q]
        /\ \/ op'[a] = op[a]
           \/ op'[a] \in AgentOps /\ (op'[a].do = "send" => op'[a].reply <= Len(msgs))
    BY <2>2 DEF Moves, AsksFor, OthersStay
  <2>4. OpTypes'
    BY <1>0, <2>2, <2>3, OpsFrame, DifferentProcs
  <2> QED BY <2>2, <2>4 DEF ControlTypes, PlanTypes
<1>2. CASE \E u \in Users : UserPosts(u)
  <2>1. PICK u \in Users : UserPosts(u)
    BY <1>2
  <2>2. /\ PcTypes' /\ DOMAIN op' = Procs /\ UNCHANGED <<course, plan, journal>>
        /\ \/ \E what \in UserSends : AsksFor(u, "idle", what)
           \/ AsksFor(u, "idle", [do |-> "reject"])
           \/ Moves(u, "idle", "refused")
    BY <1>0, <2>1, UserShape
  <2>3. UserSends \subseteq UserOps /\ [do |-> "reject"] \in UserOps
    BY DEF UserOps
  <2>4. (\A q \in Procs \ {u} : op'[q] = op[q]) /\ op'[u] \in {op[u]} \cup UserOps
    BY <2>2, <2>3 DEF Moves, AsksFor, OthersStay
  <2>5. OpTypes'
    BY <1>0, <2>2, <2>4, OpsFrame, DifferentProcs
  <2> QED BY <2>2, <2>5 DEF ControlTypes, PlanTypes
<1>3. CASE \E p \in Agents \cup Users : InsideStep(p)
  <2>1. PICK p \in Agents \cup Users : InsideStep(p)
    BY <1>3
  <2>2. /\ PcTypes' /\ DOMAIN op' = Procs /\ UNCHANGED plan
        /\ op'[p] = NoOp /\ OthersStay(p)
    BY <1>0, <2>1, InsideShape DEF LeavesWith
  <2>3. OpTypes'
    BY <1>0, <2>2, OpsFrame, DifferentProcs DEF OthersStay
  <2> QED BY <2>2, <2>3 DEF ControlTypes, PlanTypes
<1>4. ASSUME PcTypes', PlanTypes', DOMAIN op' = Procs, OthersStay("main"),
             op'["main"] \in {op["main"], NoOp} \cup MainOps
      PROVE ControlTypes'
  <2>1. OpTypes'
    BY <1>0, <1>4, OpsFrame, DifferentProcs DEF OthersStay
  <2> QED BY <1>4, <2>1 DEF ControlTypes
<1>5. \A w \in {"consume", "prepare", "complete", "finish"} : [do |-> w] \in MainOps
  BY DEF MainOps
<1>6. CASE Scheduling
  <2>1. /\ PcTypes' /\ PlanTypes' /\ DOMAIN op' = Procs /\ OthersStay("main")
        /\ op'["main"] \in {op["main"], [do |-> "consume"]}
    BY <1>0, <1>6, SchedulingShape DEF Scheduling, Moves, AsksFor
  <2> QED BY <1>4, <1>5, <2>1
<1>7. CASE Delivering
  <2>1. /\ PcTypes' /\ PlanTypes' /\ DOMAIN op' = Procs /\ OthersStay("main")
        /\ op'["main"] \in {op["main"], NoOp, [do |-> "prepare"], [do |-> "complete"]}
    BY <1>0, <1>7, DeliveringShape DEF Delivering, Moves, AsksFor, LeavesWith
  <2> QED BY <1>4, <1>5, <2>1
<1>8. CASE Stopping
  <2>0. PcTypes' /\ PlanTypes' /\ DOMAIN op' = Procs
    BY <1>0, <1>8, StoppingShape DEF Stopping
  <2>1. CASE Unwinds
    BY <1>0, <1>4, <2>0, <2>1, StoppingShape
  <2>2. CASE TurnsStart
    <3>1. UNCHANGED op
      BY <1>0, <2>2, StoppingShape
    <3>2. OpTypes'
      BY <1>0, <2>0, <3>1, OpsFrame
    <3> QED BY <2>0, <3>2 DEF ControlTypes
  <2>3. CASE ActorsStopped
    <3>1. /\ op'["main"] = op["main"] /\ \A a \in Agents : op'[a] = NoOp
          /\ \A u \in Users : op'[u] = op[u]
      BY <1>0, <2>3, StoppingShape
    <3>2. OpTypes'
      BY <1>0, <2>0, <3>1, OpsFrame
    <3> QED BY <2>0, <3>2 DEF ControlTypes
  <2> QED BY <1>8, <2>1, <2>2, <2>3 DEF Stopping
<1>9. CASE Endings
  <2>1. /\ PcTypes' /\ PlanTypes' /\ DOMAIN op' = Procs /\ OthersStay("main")
        /\ op'["main"] \in {op["main"], NoOp, [do |-> "finish"]}
    BY <1>0, <1>9, FinishingShape DEF Endings, Moves, AsksFor, LeavesWith
  <2> QED BY <1>4, <1>5, <2>1
<1>10. CASE StopRequested \/ UNCHANGED vars
  <2>1. UNCHANGED <<plan, pc, op>>
    BY <1>10 DEF StopRequested, vars, schedule
  <2>2. OpTypes'
    <3>1. DOMAIN op' = Procs
      BY <2>1 DEF OpTypes
    <3> QED BY <1>0, <2>1, <3>1, OpsFrame
  <2> QED BY <2>1, <2>2 DEF ControlTypes, PlanTypes, PcTypes
<1> QED BY <1>1, <1>2, <1>3, <1>6, <1>7, <1>8, <1>9, <1>10, NextShapes

(* Only a target's turn is counted.                                        *)
LEMMA TurnsSteps ==
  ASSUME [Next]_vars
  PROVE AssignNext \/ UNCHANGED turns
<1> USE DEF team, course, schedule, vars
<1>1. ASSUME NEW a \in Agents, AgentStep(a) PROVE UNCHANGED turns
  BY <1>1 DEF AgentStep, AgentSends, AgentResolves, AgentReports
<1>2. ASSUME NEW u \in Users, UserPosts(u) PROVE UNCHANGED turns
  BY <1>2 DEF UserPosts
<1>3. ASSUME NEW p \in Agents \cup Users, InsideStep(p) PROVE UNCHANGED turns
  BY <1>3 DEF InsideStep, SendInside, SendRefused, Sent, SendFails, Resolved, Rejected
<1>4. ASSUME MainStep PROVE AssignNext \/ UNCHANGED turns
  <2>1. ASSUME Propose \/ ConsumeNext \/ TurnsStart \/ Gathered \/ Consumed \/ ConsumeFails
        PROVE UNCHANGED turns
    BY <2>1 DEF Propose, ConsumeNext, TurnsStart, Gathered, Consumed, ConsumeFails
  <2>2. ASSUME \/ Prepare \/ Prepared \/ Completing \/ Completed \/ Unwinds
               \/ ActorsStopped \/ Finishing \/ Interrupts \/ Finished
        PROVE UNCHANGED turns
    BY <2>2 DEF Prepare, Prepared, Completing, Completed, Unwinds, ActorsStopped,
                Finishing, Interrupts, Finished
  <2> QED BY <1>4, <2>1, <2>2 DEF MainStep
<1>5. ASSUME NEW how, Stopped(how) PROVE UNCHANGED turns
  BY <1>5 DEF Stopped
<1>6. ASSUME Over \/ UNCHANGED vars PROVE UNCHANGED turns
  BY <1>6 DEF Over
<1> QED BY <1>1, <1>2, <1>3, <1>4, <1>5, <1>6 DEF Next

LEMMA BoxTypesKept ==
  ASSUME Types, Consuming, [Next]_vars
  PROVE BoxTypes'
<1> USE DEF Types
<1>1. ASSUME NEW p \in Agents \cup Users, Sent(p) PROVE BoxTypes'
  <2>1. inbox' = [a \in Agents |->
          IF a \in op[p].to THEN Append(inbox[a], Len(msgs')) ELSE inbox[a]]
    BY <1>1 DEF Sent
  <2>2. Len(msgs') \in Nat
    BY JournalGrows, LenProperties DEF MsgTypes
  <2>3. ASSUME NEW a \in Agents
        PROVE (IF a \in op[p].to THEN Append(inbox[a], Len(msgs')) ELSE inbox[a]) \in Seq(Nat)
    BY <2>2 DEF BoxTypes
  <2> QED BY <2>1, <2>3 DEF BoxTypes
<1>2. ASSUME Consumed PROVE BoxTypes'
  <2> DEFINE a == First(plan.todo)
  <2>1. a \in Agents /\ inbox[a] # <<>>
    BY <1>2, TargetIsAnAgent DEF Consumed, Inside, Consuming
  <2>2. inbox' = [inbox EXCEPT ![a] = Tail(@)]
    BY <1>2 DEF Consumed
  <2> HIDE DEF a
  <2>3. Tail(inbox[a]) \in Seq(Nat)
    BY <2>1 DEF BoxTypes
  <2> QED BY <2>1, <2>2, <2>3 DEF BoxTypes
<1>3. ASSUME NEW p \in Agents \cup Users, SendFails(p) \/ Resolved(p) PROVE UNCHANGED inbox
  BY <1>3 DEF SendFails, Resolved
<1>4. ASSUME ConsumeFails \/ Completed \/ Interrupts \/ UNCHANGED journal
      PROVE UNCHANGED inbox
  BY <1>4 DEF ConsumeFails, Completed, Interrupts, journal
<1>5. ASSUME UNCHANGED inbox PROVE BoxTypes'
  BY <1>5 DEF BoxTypes
<1> QED BY <1>1, <1>2, <1>3, <1>4, <1>5, JournalSteps

JournalBook ==
  raised \in BOOLEAN /\ broken \in BOOLEAN /\ sent \in Nat
  /\ open \subseteq Nat /\ IsFiniteSet(open)

LEMMA JournalBookKept ==
  ASSUME Types, [Next]_vars
  PROVE JournalBook'
<1> USE DEF Types
<1>0. JournalBook
  BY DEF BookTypes, JournalBook
<1>1. ASSUME NEW p \in Agents \cup Users, Sent(p) PROVE JournalBook'
  <2>1. /\ UNCHANGED <<raised, broken>> /\ (sent' = sent \/ sent' = sent + 1)
        /\ open' = open \cup ({Thread(op[p])} \ {0}) /\ op[p].do = "send"
    BY <1>1 DEF Sent, Inside
  <2>2. Thread(op[p]) \in Nat
    BY <2>1, ThreadIsANumber
  <2>3. open' = open \/ open' = open \cup {Thread(op[p])}
    BY <2>1
  <2>4. IsFiniteSet(open')
    BY <1>0, <2>3, FS_AddElement DEF JournalBook
  <2>5. open' \subseteq Nat
    BY <1>0, <2>2, <2>3 DEF JournalBook
  <2>6. sent' \in Nat
    <3>1. sent \in Nat
      BY <1>0 DEF JournalBook
    <3> QED BY <2>1, <3>1
  <2> QED BY <1>0, <2>1, <2>4, <2>5, <2>6 DEF JournalBook
<1>2. ASSUME NEW p \in Agents \cup Users, Resolved(p) PROVE JournalBook'
  <2>1. /\ UNCHANGED <<broken, sent>> /\ (raised' \/ UNCHANGED raised) /\ raised' \in BOOLEAN
        /\ open' = open \/ open' = open \ {op[p].thread}
    BY <1>0, <1>2 DEF Resolved, JournalBook
  <2>2. IsFiniteSet(open') /\ open' \subseteq open
    BY <1>0, <2>1, FS_RemoveElement DEF JournalBook
  <2> QED BY <1>0, <2>1, <2>2 DEF JournalBook
<1>3. ASSUME NEW p \in Agents \cup Users, SendFails(p) PROVE JournalBook'
  BY <1>0, <1>3 DEF SendFails, JournalBook
<1>4. ASSUME Consumed \/ ConsumeFails PROVE JournalBook'
  BY <1>0, <1>4 DEF Consumed, ConsumeFails, JournalBook
<1>5. ASSUME Completed \/ Interrupts \/ UNCHANGED journal PROVE JournalBook'
  BY <1>0, <1>5 DEF Completed, Interrupts, journal, JournalBook
<1> QED BY <1>1, <1>2, <1>3, <1>4, <1>5, JournalSteps

LEMMA TurnsTypeKept ==
  ASSUME Types, [Next]_vars
  PROVE turns' \in [Agents -> Nat]
<1> USE DEF Types
<1>1. turns \in [Agents -> Nat]
  BY DEF BookTypes
<1>2. CASE AssignNext
  <2>1. First(plan.todo) \in Agents
    BY <1>2, TargetIsAnAgent DEF AssignNext
  <2>2. turns' = turns \/ turns' = [turns EXCEPT ![First(plan.todo)] = @ + 1]
    BY <1>2 DEF AssignNext
  <2> QED BY <1>1, <2>1, <2>2
<1> QED BY <1>1, <1>2, TurnsSteps

(* The Run's state, and how it is being stopped, as a step leaves them.    *)
LEMMA StateTypesKept ==
  ASSUME Types, Course, [Next]_vars
  PROVE /\ state' \in {"running", "cancelling"} \cup Ended
        /\ stop' \in {"none", "failed", "cancelled"}
        /\ stop # "none" => stop' # "none"
<1> USE DEF Types
<1>0. /\ ControlTypes /\ state \in {"running", "cancelling"} \cup Ended
      /\ stop \in {"none", "failed", "cancelled"}
  BY DEF ControlTypes, BookTypes
<1>1. ASSUME \/ \E a \in Agents : AgentStep(a)
             \/ \E u \in Users : UserPosts(u)
             \/ \E p \in Agents \cup Users : InsideStep(p)
      PROVE UNCHANGED <<state, stop>>
  BY <1>0, <1>1, AgentShape, UserShape, InsideShape DEF course
<1>2. CASE Scheduling
  <2>1. UNCHANGED state /\ stop = "none" /\ stop' \in {stop, "failed"}
    BY <1>0, <1>2, SchedulingShape DEF Scheduling
  <2> QED BY <1>0, <2>1
<1>3. CASE Delivering
  <2>1. CASE Consumed \/ Prepare \/ Prepared \/ Completing \/ Completed
    BY <1>0, <1>3, <2>1, DeliveringShape DEF Delivering, course, Ended
  <2>2. CASE ConsumeFails
    <3>1. UNCHANGED state /\ stop' = "failed"
      BY <1>0, <2>2, DeliveringShape
    <3> QED BY <1>0, <3>1
  <2> QED BY <1>3, <2>1, <2>2 DEF Delivering
<1>4. CASE Stopping
  BY <1>0, <1>4, StoppingShape DEF Stopping, course
<1>5. CASE Endings
  <2>1. UNCHANGED stop /\ (UNCHANGED state \/ (state' = stop /\ op["main"].do = "finish"))
    BY <1>0, <1>5, FinishingShape DEF Endings, LeavesWith, course
  <2> QED BY <1>0, <2>1 DEF Course, Ended
<1>6. CASE StopRequested
  BY <1>0, <1>6 DEF StopRequested
<1>7. CASE UNCHANGED vars
  BY <1>0, <1>7 DEF vars, course
<1> QED BY <1>0, <1>1, <1>2, <1>3, <1>4, <1>5, <1>6, <1>7, NextShapes

-----------------------------------------------------------------------------
(* Who acts when: one step of each process.                                *)

LEMMA WaitsKept ==
  ASSUME Types, Waits, AgentsAct, [Next]_vars
  PROVE Waits'
<1> USE DEF Types
<1>0. ControlTypes /\ NoOp.do = "none"
  BY DEF ControlTypes, NoOp
<1>1. ASSUME NEW p \in Procs, NEW from \in Labels \ {"lock"}, NEW to, Moves(p, from, to) PROVE Waits'
  BY <1>1 DEF Moves, OthersStay, Waits
<1>2. ASSUME NEW p \in Procs, NEW from, NEW what, AsksFor(p, from, what) PROVE Waits'
  BY <1>2 DEF AsksFor, OthersStay, Waits
<1>3. ASSUME NEW p \in Procs, NEW what, NEW to, LeavesWith(p, what, to) PROVE Waits'
  BY <1>0, <1>3 DEF LeavesWith, OthersStay, Waits
<1>4. CASE \E a \in Agents : AgentStep(a)
  <2>1. PICK a \in Agents : AgentStep(a)
    BY <1>4
  <2>2. \/ \E to \in {"turn", "idle"} : Moves(a, "turn", to)
        \/ \E what \in AgentOps \ {NoOp} : AsksFor(a, "turn", what)
    BY <1>0, <2>1, AgentShape
  <2> QED BY <1>1, <1>2, <2>2, DifferentProcs DEF Labels
<1>5. CASE \E u \in Users : UserPosts(u)
  <2>1. PICK u \in Users : UserPosts(u)
    BY <1>5
  <2>2. \/ \E what : AsksFor(u, "idle", what)
        \/ Moves(u, "idle", "refused")
    BY <1>0, <2>1, UserShape
  <2> QED BY <1>1, <1>2, <2>2, DifferentProcs DEF Labels
<1>6. CASE \E p \in Agents \cup Users : InsideStep(p)
  <2>1. PICK p \in Agents \cup Users : InsideStep(p)
    BY <1>6
  <2>2. \E what, to : LeavesWith(p, what, to)
    BY <1>0, <2>1, InsideShape
  <2> QED BY <1>3, <2>2, DifferentProcs
<1>7. CASE Scheduling
  <2>1. \/ \E from \in Labels \ {"lock"} : \E to : Moves("main", from, to)
        \/ \E from, what : AsksFor("main", from, what)
    BY <1>0, <1>7, SchedulingShape DEF Scheduling, Labels
  <2> QED BY <1>1, <1>2, <2>1, DifferentProcs
<1>8. CASE Delivering
  <2>1. \/ \E from \in Labels \ {"lock"} : \E to : Moves("main", from, to)
        \/ \E from, what : AsksFor("main", from, what)
        \/ \E what, to : LeavesWith("main", what, to)
    BY <1>0, <1>8, DeliveringShape DEF Delivering, Labels
  <2> QED BY <1>1, <1>2, <1>3, <2>1, DifferentProcs
<1>9. CASE Endings
  <2>1. \/ \E from \in Labels \ {"lock"} : \E to : Moves("main", from, to)
        \/ \E from, what : AsksFor("main", from, what)
        \/ \E what, to : LeavesWith("main", what, to)
    BY <1>0, <1>9, FinishingShape DEF Endings, Labels
  <2> QED BY <1>1, <1>2, <1>3, <2>1, DifferentProcs
<1>10. CASE TurnsStart
  <2>1. /\ pc["main"] = "assign" /\ stop = "none" /\ UNCHANGED op
        /\ \A p \in Procs \ {"main"} : pc'[p] = IF p \in plan.batch THEN "turn" ELSE pc[p]
    BY <1>0, <1>10, StoppingShape
  <2>2. \A a \in Agents : op[a].do = "none"
    BY <2>1, DifferentProcs DEF AgentsAct, Stilled, Waits
  <2>3. plan.batch \subseteq Agents
    BY DEF PlanTypes, Plans
  <2> QED BY <2>1, <2>2, <2>3, DifferentProcs DEF Waits
<1>11. CASE Unwinds
  <2>1. op'["main"] = NoOp /\ OthersStay("main")
    BY <1>0, <1>11, StoppingShape
  <2> QED BY <1>0, <2>1 DEF OthersStay, Waits
<1>12. CASE ActorsStopped
  <2>1. /\ pc["main"] = "stopping" /\ op'["main"] = op["main"]
        /\ \A a \in Agents : op'[a] = NoOp
        /\ \A u \in Users : pc'[u] = pc[u] /\ op'[u] = op[u]
    BY <1>0, <1>12, StoppingShape
  <2> QED BY <1>0, <2>1, DifferentProcs DEF Waits
<1>13. CASE StopRequested \/ UNCHANGED vars
  BY <1>13 DEF StopRequested, vars, Waits
<1> QED BY <1>4, <1>5, <1>6, <1>7, <1>8, <1>9, <1>10, <1>11, <1>12, <1>13, NextShapes DEF Stopping

LEMMA AgentsActKept ==
  ASSUME Types, Waits, AgentsAct, Course, [Next]_vars
  PROVE AgentsAct'
<1> USE DEF Types
<1>0. /\ ControlTypes /\ plan.batch \subseteq Agents /\ NoOp.do = "none"
      /\ "main" \in Procs /\ Agents \subseteq Procs \ {"main"}
      /\ Users \subseteq Procs \ {"main"} /\ Agents \cap Users = {}
  BY DifferentProcs DEF ControlTypes, PlanTypes, Plans, NoOp
(* A step of one agent that is not idle.                                   *)
<1>1. ASSUME NEW a \in Agents, pc[a] # "idle", OthersStay(a), UNCHANGED <<stop, plan>>
      PROVE AgentsAct'
  <2>1. /\ ~Leaving /\ ~(stop = "none" /\ pc["main"] # "gather")
        /\ stop = "none" => a \in plan.batch
    BY <1>0, <1>1 DEF AgentsAct, Stilled
  <2>2. /\ pc'["main"] = pc["main"] /\ op'["main"] = op["main"]
        /\ \A b \in Agents \ {a} : pc'[b] = pc[b]
    BY <1>0, <1>1 DEF OthersStay
  <2> QED BY <2>1, <2>2, <1>1 DEF AgentsAct, Leaving
(* A step of one user.                                                     *)
<1>2. ASSUME NEW u \in Users, OthersStay(u), UNCHANGED <<stop, plan>>
      PROVE AgentsAct'
  <2>1. /\ pc'["main"] = pc["main"] /\ op'["main"] = op["main"]
        /\ \A b \in Agents : pc'[b] = pc[b]
    BY <1>0, <1>2 DEF OthersStay
  <2> QED BY <2>1, <1>2 DEF AgentsAct, Leaving, Stilled
<1>3. CASE \E a \in Agents : AgentStep(a)
  <2>1. PICK a \in Agents : AgentStep(a)
    BY <1>3
  <2>2. pc[a] = "turn" /\ OthersStay(a) /\ UNCHANGED <<stop, plan>>
    BY <1>0, <2>1, AgentShape DEF Moves, AsksFor, course
  <2> QED BY <1>1, <2>2
<1>4. CASE \E u \in Users : UserPosts(u)
  <2>1. PICK u \in Users : UserPosts(u)
    BY <1>4
  <2>2. OthersStay(u) /\ UNCHANGED <<stop, plan>>
    BY <1>0, <2>1, UserShape DEF Moves, AsksFor, course
  <2> QED BY <1>2, <2>2
<1>5. CASE \E p \in Agents \cup Users : InsideStep(p)
  <2>1. PICK p \in Agents \cup Users : InsideStep(p)
    BY <1>5
  <2>2. op[p].do # "none" /\ OthersStay(p) /\ UNCHANGED <<stop, plan>>
    BY <1>0, <2>1, InsideShape DEF LeavesWith, course
  <2>3. pc[p] = "lock"
    BY <1>0, <2>2 DEF Waits
  <2> QED BY <1>1, <1>2, <2>2, <2>3
(* A step of the main task that leaves the agents alone.                   *)
<1>6. ASSUME OthersStay("main"),
             Leaving' => Stilled,
             stop' = "none" => Stilled /\ pc'["main"] # "gather"
      PROVE AgentsAct'
  <2>1. \A a \in Agents : pc'[a] = pc[a]
    BY <1>0, <1>6 DEF OthersStay
  <2> QED BY <1>6, <2>1 DEF AgentsAct, Stilled
<1>7. CASE Scheduling
  <2>1. /\ OthersStay("main") /\ stop = "none"
        /\ pc'["main"] \in {"stopping", "assign", "complete", "consume", "propose", "lock"}
        /\ op'["main"] \in {op["main"], [do |-> "consume"]}
        /\ pc["main"] \in {"propose", "assign", "consume", "gather"}
        /\ pc["main"] = "gather" => \A a \in plan.batch : pc[a] = "idle"
    BY <1>0, <1>7, SchedulingShape DEF Scheduling, Moves, AsksFor
  <2>2. op["main"].do = "none"
    BY <1>0, <2>1 DEF Waits
  <2>3. ~Leaving'
    BY <2>1, <2>2 DEF Leaving
  <2>4. Stilled
    BY <2>1 DEF AgentsAct, Stilled
  <2> QED BY <1>6, <2>1, <2>3, <2>4
<1>8. CASE Delivering
  <2>1. /\ OthersStay("main")
        /\ \/ /\ pc["main"] \in {"complete", "completing"} /\ stop = "none"
              /\ pc'["main"] \in {"propose", "completing", "lock"}
              /\ op'["main"] \in {op["main"], [do |-> "prepare"], [do |-> "complete"]}
           \/ /\ op["main"].do \in {"consume", "prepare"} /\ op'["main"] = NoOp
              /\ pc'["main"] \in {"consume", "stopping", "propose", "completing"}
           \/ /\ op["main"].do = "complete" /\ op'["main"] = NoOp /\ pc'["main"] = "ended"
    BY <1>0, <1>8, DeliveringShape DEF Delivering, Moves, AsksFor, LeavesWith
  <2>2. stop' = "none" => stop = "none"
    BY <1>8, <1>0, StateTypesKept
  <2>3. op["main"].do # "none" => pc["main"] = "lock"
    BY <1>0 DEF Waits
  <2>4. stop = "none" => Stilled
    BY <2>1, <2>3 DEF AgentsAct
  <2>5. pc["main"] \in {"complete", "completing"} => op["main"].do = "none"
    BY <2>3
  <2>6. Leaving' => op["main"].do = "complete"
    BY <1>0, <2>1, <2>5 DEF Leaving
  <2>7. Leaving' => Stilled
    BY <2>4, <2>6 DEF Course
  <2> QED BY <1>6, <2>1, <2>2, <2>4, <2>7
<1>9. CASE Endings
  <2>1. /\ OthersStay("main") /\ UNCHANGED stop
        /\ pc["main"] \in {"finish", "interrupt"} \/ op["main"].do = "finish"
        /\ pc'["main"] # "gather"
    BY <1>0, <1>9, FinishingShape DEF Endings, Moves, AsksFor, LeavesWith
  <2>2. Stilled
    BY <2>1 DEF AgentsAct, Leaving
  <2> QED BY <1>6, <2>1, <2>2
<1>10. CASE TurnsStart
  <2>1. /\ pc["main"] = "assign" /\ pc'["main"] = "gather" /\ stop = "none"
        /\ UNCHANGED <<op, plan, stop>>
        /\ \A p \in Procs \ {"main"} : pc'[p] = IF p \in plan.batch THEN "turn" ELSE pc[p]
    BY <1>0, <1>10, StoppingShape DEF course
  <2>2. Stilled /\ op["main"].do = "none"
    BY <1>0, <2>1 DEF AgentsAct, Waits
  <2> QED BY <1>0, <2>1, <2>2 DEF AgentsAct, Stilled, Leaving
<1>11. CASE Unwinds
  <2>1. /\ op'["main"] = NoOp /\ OthersStay("main") /\ pc'["main"] = "stopping"
        /\ stop # "none" /\ UNCHANGED stop
    BY <1>0, <1>11, StoppingShape DEF course
  <2> QED BY <1>0, <1>6, <2>1 DEF Leaving
<1>12. CASE ActorsStopped
  <2>1. \A a \in Agents : pc'[a] = "idle"
    BY <1>0, <1>12, StoppingShape
  <2> QED BY <2>1 DEF AgentsAct, Stilled
<1>13. CASE StopRequested
  BY <1>13 DEF StopRequested, AgentsAct, Stilled, Leaving
<1>14. CASE UNCHANGED vars
  BY <1>14 DEF vars, course, schedule, AgentsAct, Stilled, Leaving
<1> QED BY <1>3, <1>4, <1>5, <1>7, <1>8, <1>9, <1>10, <1>11, <1>12, <1>13, <1>14, NextShapes
    DEF Stopping

(* What has raised, has raised; a broken journal has.                      *)
LEMMA RaisedStays ==
  ASSUME Types, broken => raised, [Next]_vars
  PROVE /\ raised => raised'
        /\ broken' => raised'
        /\ broken => broken'
<1> USE DEF Types
<1>1. ASSUME NEW p \in Agents \cup Users, Sent(p) \/ SendFails(p) \/ Resolved(p)
      PROVE (UNCHANGED <<raised, broken>> \/ raised') /\ (broken => broken')
  BY <1>1 DEF Sent, SendFails, Resolved
<1>2. ASSUME Consumed \/ ConsumeFails \/ Completed \/ Interrupts \/ UNCHANGED journal
      PROVE (UNCHANGED <<raised, broken>> \/ raised') /\ (broken => broken')
  BY <1>2 DEF Consumed, ConsumeFails, Completed, Interrupts, journal
<1> QED BY <1>1, <1>2, JournalSteps

LEMMA CourseKept ==
  ASSUME Types, Waits, Course, broken => raised, [Next]_vars
  PROVE Course'
<1> USE DEF Types
<1>0. /\ ControlTypes /\ NoOp.do = "none"
      /\ "main" \in Procs /\ \A p \in Agents \cup Users : p \in Procs /\ "main" \in Procs \ {p}
      /\ op["main"].do # "none" => pc["main"] = "lock"
      /\ raised => raised'
  BY DifferentProcs, RaisedStays DEF ControlTypes, NoOp, Waits
(* A step of an agent or a user.                                           *)
<1>1. ASSUME NEW p \in Agents \cup Users, OthersStay(p), UNCHANGED course PROVE Course'
  <2>1. pc'["main"] = pc["main"] /\ op'["main"] = op["main"]
    BY <1>0, <1>1 DEF OthersStay
  <2> QED BY <1>0, <1>1, <2>1 DEF Course, course
<1>2. CASE \E a \in Agents : AgentStep(a)
  BY <1>0, <1>1, <1>2, AgentShape DEF Moves, AsksFor
<1>3. CASE \E u \in Users : UserPosts(u)
  BY <1>0, <1>1, <1>3, UserShape DEF Moves, AsksFor
<1>4. CASE \E p \in Agents \cup Users : InsideStep(p)
  BY <1>0, <1>1, <1>4, InsideShape DEF LeavesWith
<1>5. CASE Scheduling
  <2>1. /\ UNCHANGED state /\ stop = "none"
        /\ pc["main"] \in {"propose", "assign", "consume", "gather"}
        /\ pc'["main"] \in {"stopping", "assign", "complete", "consume", "propose", "lock"}
        /\ pc'["main"] = "stopping" => stop' = "failed"
        /\ op'["main"] \in {op["main"], [do |-> "consume"]}
    BY <1>0, <1>5, SchedulingShape DEF Scheduling, Moves, AsksFor
  <2>2. op["main"].do = "none" /\ op'["main"].do \in {"none", "consume"}
    BY <1>0, <2>1
  <2>3. state \notin Ended
    BY <2>1 DEF Course
  <2> QED BY <2>1, <2>2, <2>3 DEF Course, Ended
<1>6. CASE Delivering
  <2>1. CASE Consumed \/ Prepared
    <3>1. /\ UNCHANGED <<state, stop>>
          /\ \/ pc["main"] = "complete" /\ op'["main"] = op["main"]
             \/ op["main"].do \in {"consume", "prepare"} /\ op'["main"] = NoOp
          /\ pc'["main"] \in {"consume", "propose", "completing"}
      BY <1>0, <1>6, <2>1, DeliveringShape DEF Delivering, Moves, LeavesWith, course
    <3>2. op'["main"].do = "none" /\ state \notin Ended
      BY <1>0, <3>1 DEF Course
    <3> QED BY <3>1, <3>2 DEF Course, Ended
  <2>2. CASE ConsumeFails
    <3>1. /\ UNCHANGED state /\ stop' = "failed" /\ op["main"].do = "consume"
          /\ op'["main"] = NoOp /\ pc'["main"] = "stopping"
      BY <1>0, <2>2, DeliveringShape DEF LeavesWith
    <3>2. op'["main"].do = "none" /\ state \notin Ended
      BY <1>0, <3>1 DEF Course
    <3> QED BY <3>1, <3>2 DEF Course, Ended
  <2>3. CASE Prepare \/ Completing
    <3>1. /\ UNCHANGED <<state, stop>> /\ stop = "none"
          /\ pc["main"] \in {"complete", "completing"} /\ pc'["main"] = "lock"
          /\ op'["main"] \in {[do |-> "prepare"], [do |-> "complete"]}
      BY <1>0, <2>3, DeliveringShape DEF AsksFor, course
    <3>2. op'["main"].do \in {"prepare", "complete"} /\ state \notin Ended
      BY <1>0, <3>1 DEF Course
    <3> QED BY <3>1, <3>2 DEF Course, Ended
  <2>4. CASE Completed
    <3>1. /\ UNCHANGED stop /\ op["main"].do = "complete" /\ op'["main"] = NoOp
          /\ pc'["main"] = "ended" /\ (state' = "completed" \/ (state' = "failed" /\ raised'))
      BY <1>0, <2>4, DeliveringShape DEF LeavesWith
    <3>2. stop' = "none" /\ op'["main"].do = "none"
      BY <1>0, <3>1 DEF Course
    <3> QED BY <3>1, <3>2 DEF Course, Ended
  <2> QED BY <1>6, <2>1, <2>2, <2>3, <2>4 DEF Delivering
<1>7. CASE TurnsStart
  <2>1. /\ pc["main"] = "assign" /\ pc'["main"] = "gather"
        /\ UNCHANGED <<op, state, stop>>
    BY <1>0, <1>7, StoppingShape DEF course
  <2> QED BY <1>0, <2>1 DEF Course, Ended
<1>8. CASE Unwinds
  <2>1. /\ stop # "none" /\ pc["main"] # "ended" /\ op'["main"] = NoOp
        /\ pc'["main"] = "stopping" /\ UNCHANGED <<state, stop>>
    BY <1>0, <1>8, StoppingShape DEF course
  <2> QED BY <1>0, <2>1 DEF Course, Ended
<1>9. CASE ActorsStopped
  <2>1. /\ pc["main"] = "stopping" /\ pc'["main"] = "finish" /\ op'["main"] = op["main"]
        /\ UNCHANGED <<state, stop>>
    BY <1>0, <1>9, StoppingShape DEF course
  <2> QED BY <1>0, <2>1 DEF Course, Ended
<1>10. CASE Finishing \/ Interrupts
  <2>1. /\ pc["main"] \in {"finish", "interrupt"} /\ pc'["main"] \in {"interrupt", "lock"}
        /\ op'["main"] \in {op["main"], [do |-> "finish"]} /\ UNCHANGED <<state, stop>>
    BY <1>0, <1>10, FinishingShape DEF Moves, AsksFor, course
  <2>2. stop' # "none" /\ op'["main"].do # "complete" /\ state \notin Ended
    BY <1>0, <2>1 DEF Course
  <2> QED BY <2>1, <2>2 DEF Course, Ended
<1>11. CASE Finished
  <2>1. /\ op["main"].do = "finish" /\ op'["main"] = NoOp /\ pc'["main"] = "ended"
        /\ state' = stop /\ UNCHANGED stop
    BY <1>0, <1>11, FinishingShape DEF LeavesWith
  <2>2. stop \in {"failed", "cancelled"} /\ op'["main"].do = "none"
    BY <1>0, <2>1 DEF Course, BookTypes
  <2> QED BY <2>1, <2>2 DEF Course, Ended
<1>12. CASE StopRequested
  <2>1. /\ pc["main"] # "ended" /\ op["main"].do # "complete" /\ stop' # "none"
        /\ state' \in {state, "cancelling"} /\ UNCHANGED <<pc, op>>
    BY <1>12 DEF StopRequested
  <2>2. state' \notin Ended
    BY <2>1 DEF Course, Ended
  <2> QED BY <2>1, <2>2 DEF Course, Ended
<1>13. CASE UNCHANGED vars
  BY <1>0, <1>13 DEF vars, course, Course
<1> QED BY <1>2, <1>3, <1>4, <1>5, <1>6, <1>7, <1>8, <1>9, <1>10, <1>11, <1>12, <1>13,
           NextShapes DEF Stopping, Endings

(* Only a delivery takes messages off an inbox.                            *)
LEMMA InboxesGrow ==
  ASSUME Types, Consuming, [Next]_vars, ~Consumed
  PROVE \A a \in Agents : inbox[a] # <<>> => inbox'[a] # <<>>
<1> USE DEF Types
<1>1. ASSUME NEW p \in Agents \cup Users, Sent(p)
      PROVE \A a \in Agents : inbox[a] # <<>> => inbox'[a] # <<>>
  <2>1. Len(msgs') \in Nat
    BY JournalGrows, LenProperties DEF MsgTypes
  <2>2. ASSUME NEW a \in Agents, inbox[a] # <<>> PROVE inbox'[a] # <<>>
    <3>1. inbox'[a] = inbox[a] \/ inbox'[a] = Append(inbox[a], Len(msgs'))
      BY <1>1 DEF Sent
    <3>2. inbox[a] \in Seq(Nat)
      BY DEF BoxTypes
    <3>3. Len(Append(inbox[a], Len(msgs'))) = Len(inbox[a]) + 1 /\ Len(inbox[a]) \in Nat
      BY <2>1, <3>2
    <3>4. Append(inbox[a], Len(msgs')) # <<>>
      BY <3>3
    <3> QED BY <2>2, <3>1, <3>4
  <2> QED BY <2>2
<1>2. ASSUME NEW p \in Agents \cup Users, SendFails(p) \/ Resolved(p) PROVE UNCHANGED inbox
  BY <1>2 DEF SendFails, Resolved
<1>3. ASSUME ConsumeFails \/ Completed \/ Interrupts \/ UNCHANGED journal
      PROVE UNCHANGED inbox
  BY <1>3 DEF ConsumeFails, Completed, Interrupts, journal
<1> QED BY <1>1, <1>2, <1>3, JournalSteps

LEMMA ConsumingKept ==
  ASSUME Types, Waits, Consuming, [Next]_vars
  PROVE Consuming'
<1> USE DEF Types
<1>0. /\ ControlTypes /\ NoOp.do = "none"
      /\ "main" \in Procs /\ \A p \in Agents \cup Users : p \in Procs /\ "main" \in Procs \ {p}
      /\ op["main"].do # "none" => pc["main"] = "lock"
      /\ plan.todo # {} => First(plan.todo) \in Agents
  BY DifferentProcs, TargetIsAnAgent DEF ControlTypes, NoOp, Waits
<1>a. UNCHANGED plan => First(plan.todo)' = First(plan.todo)
  BY DEF First
(* A step that leaves the main task where it is.                           *)
<1>1. ASSUME pc'["main"] = pc["main"], op'["main"] = op["main"], UNCHANGED plan, ~Consumed
      PROVE Consuming'
  <2>1. \A a \in Agents : inbox[a] # <<>> => inbox'[a] # <<>>
    BY <1>1, InboxesGrow
  <2> QED BY <1>0, <1>a, <1>1, <2>1 DEF Consuming
(* A step after which it neither delivers nor is about to.                 *)
<1>2. ASSUME pc'["main"] # "consume", op'["main"].do # "consume" PROVE Consuming'
  BY <1>2 DEF Consuming
<1>3. ASSUME NEW p \in Agents \cup Users, OthersStay(p), UNCHANGED plan, ~Consumed
      PROVE Consuming'
  <2>1. pc'["main"] = pc["main"] /\ op'["main"] = op["main"]
    BY <1>0, <1>3 DEF OthersStay
  <2> QED BY <1>1, <1>3, <2>1
<1>4. ASSUME Consumed PROVE op["main"].do = "consume" /\ op'["main"] = NoOp
  BY <1>0, <1>4, DeliveringShape DEF LeavesWith
<1>5. ASSUME NEW p \in Agents \cup Users, OthersStay(p) PROVE ~Consumed
  <2>1. op'["main"] = op["main"]
    BY <1>0, <1>5 DEF OthersStay
  <2> QED BY <1>0, <1>4, <2>1
<1>6. CASE \E a \in Agents : AgentStep(a)
  BY <1>0, <1>3, <1>5, <1>6, AgentShape DEF Moves, AsksFor
<1>7. CASE \E u \in Users : UserPosts(u)
  BY <1>0, <1>3, <1>5, <1>7, UserShape DEF Moves, AsksFor
<1>8. CASE \E p \in Agents \cup Users : InsideStep(p)
  BY <1>0, <1>3, <1>5, <1>8, InsideShape DEF LeavesWith
<1>9. CASE Scheduling
  <2>1. CASE Propose \/ Gathered
    <3>1. /\ pc["main"] # "lock" /\ pc'["main"] \in {"stopping", "assign", "complete", "propose"}
          /\ op'["main"] = op["main"]
      BY <1>0, <1>9, <2>1, SchedulingShape DEF Moves
    <3> QED BY <1>0, <1>2, <3>1
  <2>2. CASE AssignNext
    <3>1. pc["main"] # "lock" /\ op'["main"] = op["main"] /\ UNCHANGED plan /\ plan.todo # {}
      BY <1>0, <2>2, SchedulingShape DEF Moves
    <3> QED BY <1>0, <3>1 DEF Consuming
  <2>3. CASE ConsumeNext
    <3>1. pc["main"] = "consume" /\ pc'["main"] # "consume"
          /\ \/ op'["main"] = op["main"]
             \/ UNCHANGED <<plan, inbox>> /\ inbox[First(plan.todo)] # <<>>
      BY <1>0, <2>3, SchedulingShape DEF Moves, AsksFor, journal
    <3>2. plan.todo # {} /\ op["main"].do = "none"
      BY <1>0, <3>1 DEF Consuming
    <3> QED BY <1>2, <1>a, <3>1, <3>2 DEF Consuming
  <2> QED BY <1>9, <2>1, <2>2, <2>3 DEF Scheduling
<1>10. CASE Delivering
  <2>1. CASE Consumed
    <3>1. UNCHANGED plan /\ op["main"].do = "consume" /\ op'["main"] = NoOp
      BY <1>0, <2>1, DeliveringShape DEF LeavesWith
    <3> QED BY <1>0, <3>1 DEF Consuming
  <2>2. CASE ConsumeFails \/ Prepare \/ Prepared \/ Completing \/ Completed
    <3>1. /\ pc'["main"] # "consume"
          /\ \/ pc["main"] = "complete" /\ op'["main"] = op["main"]
             \/ op'["main"] \in {NoOp, [do |-> "prepare"], [do |-> "complete"]}
      BY <1>0, <1>10, <2>2, DeliveringShape DEF Moves, AsksFor, LeavesWith
    <3> QED BY <1>0, <1>2, <3>1
  <2> QED BY <1>10, <2>1, <2>2 DEF Delivering
<1>11. CASE Stopping
  <2>1. /\ pc'["main"] # "consume"
        /\ \/ pc["main"] # "lock" /\ op'["main"] = op["main"]
           \/ op'["main"] = NoOp
    BY <1>0, <1>11, StoppingShape DEF Stopping
  <2> QED BY <1>0, <1>2, <2>1
<1>12. CASE Endings
  <2>1. /\ pc'["main"] # "consume"
        /\ \/ pc["main"] = "finish" /\ op'["main"] = op["main"]
           \/ op'["main"] \in {NoOp, [do |-> "finish"]}
    BY <1>0, <1>12, FinishingShape DEF Endings, Moves, AsksFor, LeavesWith
  <2> QED BY <1>0, <1>2, <2>1
<1>13. CASE StopRequested \/ UNCHANGED vars
  <2>1. UNCHANGED <<pc, op, plan, inbox>>
    BY <1>13 DEF StopRequested, vars, team, schedule, journal
  <2> QED BY <1>a, <2>1 DEF Consuming
<1> QED BY <1>6, <1>7, <1>8, <1>9, <1>10, <1>11, <1>12, <1>13, NextShapes

-----------------------------------------------------------------------------
(* The sequence lock.                                                      *)

(* Appending a newcomer to a queue, and taking its first off.              *)
LEMMA QueueAppended ==
  ASSUME NEW S, NEW q \in Seq(S), NEW e \in S, \A i \in DOMAIN q : q[i] # e,
         \A i, j \in DOMAIN q : q[i] = q[j] => i = j
  PROVE LET r == Append(q, e) IN
        /\ r \in Seq(S)
        /\ \A i, j \in DOMAIN r : r[i] = r[j] => i = j
        /\ \A x : (\E i \in DOMAIN r : r[i] = x) <=> x = e \/ \E i \in DOMAIN q : q[i] = x
<1> DEFINE r == Append(q, e)
<1>1. /\ r \in Seq(S) /\ Len(q) \in Nat /\ Len(r) = Len(q) + 1
      /\ DOMAIN r = 1..Len(r) /\ DOMAIN q = 1..Len(q)
      /\ \A i \in 1..Len(q) : r[i] = q[i]
      /\ r[Len(q) + 1] = e
  OBVIOUS
<1> HIDE DEF r
<1>2. \A i, j \in DOMAIN r : r[i] = r[j] => i = j
  <2>1. \A i \in DOMAIN r : i = Len(q) + 1 \/ i \in DOMAIN q
    BY <1>1
  <2> QED BY <1>1, <2>1
<1>3. ASSUME NEW x
      PROVE (\E i \in DOMAIN r : r[i] = x) <=> x = e \/ \E i \in DOMAIN q : q[i] = x
  <2>1. \A i \in DOMAIN r : i = Len(q) + 1 \/ i \in DOMAIN q
    BY <1>1
  <2>2. Len(q) + 1 \in DOMAIN r /\ DOMAIN q \subseteq DOMAIN r
    BY <1>1
  <2> QED BY <1>1, <2>1, <2>2
<1> QED BY <1>1, <1>2, <1>3 DEF r

LEMMA QueueTail ==
  ASSUME NEW S, NEW q \in Seq(S), q # <<>>,
         \A i, j \in DOMAIN q : q[i] = q[j] => i = j
  PROVE LET r == Tail(q) IN
        /\ r \in Seq(S)
        /\ \A i, j \in DOMAIN r : r[i] = r[j] => i = j
        /\ \A x : (\E i \in DOMAIN r : r[i] = x)
                  <=> x # Head(q) /\ \E i \in DOMAIN q : q[i] = x
<1> DEFINE r == Tail(q)
<1>1. /\ r \in Seq(S) /\ Len(q) \in Nat \ {0} /\ Len(r) = Len(q) - 1
      /\ DOMAIN r = 1..Len(r) /\ DOMAIN q = 1..Len(q)
      /\ \A i \in 1..Len(r) : r[i] = q[i + 1]
      /\ Head(q) = q[1]
  BY HeadTailProperties, LenProperties
<1> HIDE DEF r
<1>2. \A i \in DOMAIN r : i \in Nat /\ i + 1 \in DOMAIN q /\ i + 1 # 1
  BY <1>1
<1>3. \A i, j \in DOMAIN r : r[i] = r[j] => i = j
  <2>1. ASSUME NEW i \in DOMAIN r, NEW j \in DOMAIN r, r[i] = r[j] PROVE i = j
    <3>1. i + 1 = j + 1
      BY <1>1, <1>2, <2>1
    <3> QED BY <1>2, <3>1
  <2> QED BY <2>1
<1>4. ASSUME NEW x
      PROVE (\E i \in DOMAIN r : r[i] = x)
            <=> x # Head(q) /\ \E i \in DOMAIN q : q[i] = x
  <2>1. ASSUME NEW i \in DOMAIN r, r[i] = x
        PROVE x # Head(q) /\ \E j \in DOMAIN q : q[j] = x
    <3>1. i + 1 \in DOMAIN q /\ q[i + 1] = x /\ i + 1 # 1 /\ 1 \in DOMAIN q
      BY <1>1, <1>2, <2>1
    <3> QED BY <1>1, <3>1
  <2>2. ASSUME NEW i \in DOMAIN q, q[i] = x, x # Head(q)
        PROVE \E j \in DOMAIN r : r[j] = x
    <3>1. i # 1
      BY <1>1, <2>2
    <3>2. i - 1 \in DOMAIN r /\ r[i - 1] = q[i]
      BY <1>1, <3>1
    <3> QED BY <2>2, <3>2
  <2> QED BY <2>1, <2>2
<1> QED BY <1>1, <1>3, <1>4 DEF r

LEMMA QueuedKept ==
  ASSUME Types, Waits, Queued, AgentsAct, Course, [Next]_vars
  PROVE Queued'
<1> USE DEF Types
<1>0. /\ ControlTypes /\ NoOp.do = "none" /\ (stop' = "none" => stop = "none")
      /\ Agents \subseteq Procs /\ Users \subseteq Procs /\ "main" \in Procs
  BY DifferentProcs, StateTypesKept DEF ControlTypes, NoOp
<1>1. ASSUME NEW p \in Procs, NEW from, NEW to, Moves(p, from, to) PROVE Queued'
  <2>1. UNCHANGED lock /\ \A q \in Procs : op'[q] = op[q]
    BY <1>1 DEF Moves, OthersStay
  <2> QED BY <1>0, <2>1 DEF Queued
<1>2. ASSUME NEW p \in Procs, NEW from \in Labels \ {"lock"}, NEW what, what.do # "none",
             AsksFor(p, from, what)
      PROVE Queued'
  <2>1. /\ pc[p] # "lock" /\ lock' = Append(lock, p) /\ op'[p] = what
        /\ \A q \in Procs \ {p} : op'[q] = op[q]
    BY <1>2 DEF AsksFor, OthersStay
  <2>2. op[p].do = "none"
    BY <2>1 DEF Waits
  <2>3. ASSUME stop' = "none"
        PROVE /\ lock' \in Seq(Procs)
              /\ \A i, j \in DOMAIN lock' : lock'[i] = lock'[j] => i = j
              /\ \A q \in Procs : op'[q].do # "none" <=> \E i \in DOMAIN lock' : lock'[i] = q
    <3>1. /\ lock \in Seq(Procs) /\ \A i \in DOMAIN lock : lock[i] # p
          /\ \A i, j \in DOMAIN lock : lock[i] = lock[j] => i = j
          /\ \A q \in Procs : op[q].do # "none" <=> \E i \in DOMAIN lock : lock[i] = q
      BY <1>0, <2>2, <2>3 DEF Queued
    <3>2. /\ lock' \in Seq(Procs)
          /\ \A i, j \in DOMAIN lock' : lock'[i] = lock'[j] => i = j
          /\ \A q \in Procs : (\E i \in DOMAIN lock' : lock'[i] = q)
                              <=> q = p \/ \E i \in DOMAIN lock : lock[i] = q
      BY <2>1, <3>1, QueueAppended
    <3> QED BY <1>2, <2>1, <3>1, <3>2
  <2> QED BY <2>3 DEF Queued
<1>3. ASSUME NEW p \in Procs, NEW what, NEW to, LeavesWith(p, what, to) PROVE Queued'
  <2>1. /\ lock # <<>> /\ Head(lock) = p /\ lock' = Tail(lock) /\ op'[p] = NoOp
        /\ \A q \in Procs \ {p} : op'[q] = op[q]
    BY <1>3 DEF LeavesWith, OthersStay
  <2>2. ASSUME stop' = "none"
        PROVE /\ lock' \in Seq(Procs)
              /\ \A i, j \in DOMAIN lock' : lock'[i] = lock'[j] => i = j
              /\ \A q \in Procs : op'[q].do # "none" <=> \E i \in DOMAIN lock' : lock'[i] = q
    <3>1. /\ lock \in Seq(Procs)
          /\ \A i, j \in DOMAIN lock : lock[i] = lock[j] => i = j
          /\ \A q \in Procs : op[q].do # "none" <=> \E i \in DOMAIN lock : lock[i] = q
      BY <1>0, <2>2 DEF Queued
    <3>2. /\ lock' \in Seq(Procs)
          /\ \A i, j \in DOMAIN lock' : lock'[i] = lock'[j] => i = j
          /\ \A q \in Procs : (\E i \in DOMAIN lock' : lock'[i] = q)
                              <=> q # p /\ \E i \in DOMAIN lock : lock[i] = q
      BY <2>1, <3>1, QueueTail
    <3> QED BY <1>0, <2>1, <3>1, <3>2
  <2> QED BY <2>2 DEF Queued
<1>4. /\ \A what \in AgentOps \ {NoOp} : what.do # "none"
      /\ \A what \in UserSends : what.do # "none"
      /\ \A w \in {"reject", "consume", "prepare", "complete", "finish"} : [do |-> w].do # "none"
  BY DEF AgentOps, UserSends, Sends
<1>5. CASE \E a \in Agents : AgentStep(a)
  <2>1. PICK a \in Agents : AgentStep(a)
    BY <1>5
  <2>2. \/ \E to \in {"turn", "idle"} : Moves(a, "turn", to)
        \/ \E what \in AgentOps \ {NoOp} : AsksFor(a, "turn", what)
    BY <1>0, <2>1, AgentShape
  <2> QED BY <1>0, <1>1, <1>2, <1>4, <2>2 DEF Labels
<1>6. CASE \E u \in Users : UserPosts(u)
  <2>1. PICK u \in Users : UserPosts(u)
    BY <1>6
  <2>2. \/ \E what \in UserSends : AsksFor(u, "idle", what)
        \/ AsksFor(u, "idle", [do |-> "reject"])
        \/ Moves(u, "idle", "refused")
    BY <1>0, <2>1, UserShape
  <2> QED BY <1>0, <1>1, <1>2, <1>4, <2>2 DEF Labels
<1>7. CASE \E p \in Agents \cup Users : InsideStep(p)
  <2>1. PICK p \in Agents \cup Users : InsideStep(p)
    BY <1>7
  <2>2. \E what, to : LeavesWith(p, what, to)
    BY <1>0, <2>1, InsideShape
  <2> QED BY <1>0, <1>3, <2>2
<1>8. CASE Scheduling
  <2>1. \/ \E from, to : Moves("main", from, to)
        \/ AsksFor("main", "consume", [do |-> "consume"])
    BY <1>0, <1>8, SchedulingShape DEF Scheduling
  <2> QED BY <1>0, <1>1, <1>2, <1>4, <2>1 DEF Labels
<1>9. CASE Delivering
  <2>1. \/ \E from, to : Moves("main", from, to)
        \/ AsksFor("main", "complete", [do |-> "prepare"])
        \/ AsksFor("main", "completing", [do |-> "complete"])
        \/ \E what, to : LeavesWith("main", what, to)
    BY <1>0, <1>9, DeliveringShape DEF Delivering
  <2> QED BY <1>0, <1>1, <1>2, <1>3, <1>4, <2>1 DEF Labels
<1>10. CASE Endings
  <2>1. \/ \E from, to : Moves("main", from, to)
        \/ AsksFor("main", "interrupt", [do |-> "finish"])
        \/ \E what, to : LeavesWith("main", what, to)
    BY <1>0, <1>10, FinishingShape DEF Endings
  <2> QED BY <1>0, <1>1, <1>2, <1>3, <1>4, <2>1 DEF Labels
<1>11. CASE TurnsStart
  <2>1. UNCHANGED <<lock, op>>
    BY <1>0, <1>11, StoppingShape
  <2> QED BY <1>0, <2>1 DEF Queued
<1>12. CASE Unwinds \/ ActorsStopped
  <2>1. (stop # "none" \/ pc["main"] = "stopping") /\ UNCHANGED stop
    BY <1>0, <1>12, StoppingShape DEF course
  <2> QED BY <2>1 DEF Queued, Course
<1>13. CASE StopRequested \/ UNCHANGED vars
  <2>1. UNCHANGED <<lock, op>>
    BY <1>13 DEF StopRequested, vars
  <2> QED BY <1>0, <2>1 DEF Queued
<1> QED BY <1>5, <1>6, <1>7, <1>8, <1>9, <1>10, <1>11, <1>12, <1>13, NextShapes DEF Stopping

-----------------------------------------------------------------------------
(* The inboxes and the journal.                                            *)

LEMMA AscendingAppended ==
  ASSUME NEW s \in Seq(Nat), Ascending(s), NEW n \in Nat, \A i \in ToSet(s) : i < n
  PROVE Ascending(Append(s, n)) /\ ToSet(Append(s, n)) = ToSet(s) \cup {n}
<1> DEFINE r == Append(s, n)
<1>1. /\ Len(s) \in Nat /\ Len(r) = Len(s) + 1
      /\ DOMAIN r = 1..Len(r) /\ DOMAIN s = 1..Len(s)
      /\ \A i \in 1..Len(s) : r[i] = s[i] /\ s[i] \in Nat
      /\ r[Len(s) + 1] = n
  OBVIOUS
<1> HIDE DEF r
<1>2. \A i \in DOMAIN r : i = Len(s) + 1 \/ i \in DOMAIN s
  BY <1>1
<1>3. \A i \in DOMAIN s : s[i] < n
  BY DEF ToSet
<1>4. Ascending(r)
  <2>1. ASSUME NEW i \in DOMAIN r, NEW j \in DOMAIN r, i < j PROVE r[i] < r[j]
    <3>1. i \in DOMAIN s
      BY <1>1, <1>2, <2>1
    <3>2. CASE j \in DOMAIN s
      BY <1>1, <2>1, <3>1, <3>2 DEF Ascending
    <3>3. CASE j = Len(s) + 1
      BY <1>1, <1>3, <3>1, <3>3
    <3> QED BY <1>2, <3>2, <3>3
  <2> QED BY <2>1 DEF Ascending
<1>5. ToSet(r) = ToSet(s) \cup {n}
  <2>1. Len(s) + 1 \in DOMAIN r /\ DOMAIN s \subseteq DOMAIN r
    BY <1>1
  <2> QED BY <1>1, <1>2, <2>1 DEF ToSet
<1> QED BY <1>4, <1>5 DEF r

LEMMA AscendingTail ==
  ASSUME NEW s \in Seq(Nat), Ascending(s), s # <<>>
  PROVE /\ Ascending(Tail(s)) /\ ToSet(Tail(s)) = ToSet(s) \ {Head(s)}
        /\ Head(s) \in ToSet(s)
<1> DEFINE r == Tail(s)
<1>1. /\ Len(s) \in Nat \ {0} /\ Len(r) = Len(s) - 1
      /\ DOMAIN r = 1..Len(r) /\ DOMAIN s = 1..Len(s)
      /\ \A i \in 1..Len(r) : r[i] = s[i + 1]
      /\ \A i \in 1..Len(s) : s[i] \in Nat
      /\ Head(s) = s[1]
  BY HeadTailProperties, LenProperties, ElementOfSeq
<1> HIDE DEF r
<1>2. \A i \in DOMAIN r : i \in Nat /\ i + 1 \in DOMAIN s /\ i + 1 > 1
  BY <1>1
<1>3. Ascending(r)
  <2>1. ASSUME NEW i \in DOMAIN r, NEW j \in DOMAIN r, i < j PROVE r[i] < r[j]
    <3>1. i + 1 < j + 1
      BY <1>2, <2>1
    <3> QED BY <1>1, <1>2, <3>1 DEF Ascending
  <2> QED BY <2>1 DEF Ascending
<1>4. 1 \in DOMAIN s
  BY <1>1
<1>5. ASSUME NEW i \in DOMAIN r PROVE r[i] \in ToSet(s) /\ r[i] # Head(s)
  <2>1. s[1] < s[i + 1] /\ s[1] \in Nat /\ s[i + 1] \in Nat
    BY <1>1, <1>2, <1>4 DEF Ascending
  <2> QED BY <1>1, <1>2, <2>1 DEF ToSet
<1>6. ASSUME NEW i \in DOMAIN s, s[i] # Head(s) PROVE s[i] \in ToSet(r)
  <2>1. i # 1
    BY <1>1, <1>6
  <2>2. i - 1 \in DOMAIN r /\ r[i - 1] = s[i]
    BY <1>1, <2>1
  <2> QED BY <2>2 DEF ToSet
<1>7. ToSet(r) = ToSet(s) \ {Head(s)}
  BY <1>5, <1>6 DEF ToSet
<1> QED BY <1>1, <1>3, <1>4, <1>7 DEF r, ToSet

(* A delivery marks the first message of a target's inbox.                 *)
LEMMA DeliveryEffects ==
  ASSUME MsgTypes, PlanTypes, Consuming,
         Consumed \/ (ConsumeFails /\ msgs' # msgs)
  PROVE \E b \in Agents : \E k :
          /\ inbox[b] # <<>> /\ k = Head(inbox[b]) /\ Marks(k, b)
          /\ Consumed => inbox' = [inbox EXCEPT ![b] = Tail(@)]
<1>1. First(plan.todo) \in Agents /\ inbox[First(plan.todo)] # <<>>
  BY TargetIsAnAgent DEF Consumed, ConsumeFails, Inside, Consuming
<1>2. \E b \in Agents : \E k :
        /\ inbox[b] # <<>> /\ k = Head(inbox[b])
        /\ msgs' = Marked(k, b)
        /\ Consumed => inbox' = [inbox EXCEPT ![b] = Tail(@)]
  BY <1>1, Zenon DEF Consumed, ConsumeFails, Marked
<1>2a. PICK b \in Agents : \E k :
        /\ inbox[b] # <<>> /\ k = Head(inbox[b])
        /\ msgs' = Marked(k, b)
        /\ Consumed => inbox' = [inbox EXCEPT ![b] = Tail(@)]
  BY <1>2, Zenon
<1>3. PICK k :
        /\ inbox[b] # <<>> /\ k = Head(inbox[b])
        /\ msgs' = Marked(k, b)
        /\ Consumed => inbox' = [inbox EXCEPT ![b] = Tail(@)]
  BY <1>2a, Zenon
<1>4. msgs' = Marked(k, b)
  BY <1>3, Zenon
<1>5. Marks(k, b)
  BY <1>4, MessagesConsumed
<1> QED BY <1>2a, <1>3, <1>5, Zenon

LEMMA MirrorKept ==
  ASSUME Types, Consuming, Course, InboxMirrorsJournal, [Next]_vars
  PROVE InboxMirrorsJournal'
<1> USE DEF Types
<1> SUFFICES ASSUME ~broken', stop' = "none", NEW a \in Agents
             PROVE Ascending(inbox'[a]) /\ ToSet(inbox'[a]) = Undelivered(a)'
  BY DEF InboxMirrorsJournal
<1>0. /\ ControlTypes /\ stop = "none" /\ Len(msgs) \in Nat
      /\ inbox[a] \in Seq(Nat)
  BY StateTypesKept, MessageFields DEF ControlTypes, BoxTypes
(* A step that touches neither the inboxes nor what is undelivered.        *)
<1>1. ASSUME ~broken, UNCHANGED inbox, Len(msgs') = Len(msgs),
             \A i \in Ids : msgs'[i].to = msgs[i].to /\ msgs'[i].by = msgs[i].by
      PROVE Ascending(inbox'[a]) /\ ToSet(inbox'[a]) = Undelivered(a)'
  BY <1>0, <1>1 DEF InboxMirrorsJournal, Undelivered, Ids
<1>2. ASSUME NEW p \in Agents \cup Users, Sent(p)
      PROVE Ascending(inbox'[a]) /\ ToSet(inbox'[a]) = Undelivered(a)'
  <2>1. /\ ~broken /\ Inside(p, "send") /\ msgs' = Appended(p)
        /\ inbox'[a] = IF a \in op[p].to THEN Append(inbox[a], Len(msgs')) ELSE inbox[a]
    BY <1>2 DEF Sent
  <2> DEFINE n == Len(msgs) + 1
  <2>2. /\ Len(msgs') = n /\ n \in Nat
        /\ \A i \in Ids : msgs'[i] = msgs[i]
        /\ msgs'[n].to = op[p].to /\ msgs'[n].by = {}
    BY <1>0, <2>1, MessagesAppended
  <2>3. /\ Ascending(inbox[a]) /\ ToSet(inbox[a]) = Undelivered(a)
        /\ \A i \in Undelivered(a) : i < n
    BY <1>0, <2>1 DEF InboxMirrorsJournal, Undelivered, Ids
  <2>4. Undelivered(a)' = Undelivered(a) \cup (IF a \in op[p].to THEN {n} ELSE {})
    <3>1. /\ Ids' = Ids \cup {n} /\ n \notin Ids
      BY <1>0, <2>2 DEF Ids
    <3> QED BY <2>2, <3>1 DEF Undelivered
  <2> HIDE DEF n
  <2>5. Ascending(Append(inbox[a], n)) /\ ToSet(Append(inbox[a], n)) = Undelivered(a) \cup {n}
    BY <1>0, <2>2, <2>3, AscendingAppended
  <2> QED BY <2>1, <2>2, <2>3, <2>4, <2>5
<1>3. ASSUME NEW p \in Agents \cup Users, SendFails(p)
      PROVE Ascending(inbox'[a]) /\ ToSet(inbox'[a]) = Undelivered(a)'
  <2>1. ~broken /\ UNCHANGED <<msgs, inbox>>
    BY <1>3 DEF SendFails
  <2> QED BY <1>1, <2>1
<1>4. ASSUME NEW p \in Agents \cup Users, Resolved(p)
      PROVE Ascending(inbox'[a]) /\ ToSet(inbox'[a]) = Undelivered(a)'
  <2>1. ~broken /\ UNCHANGED inbox /\ (UNCHANGED msgs \/ \E t : msgs' = Settled(t))
    BY <1>4 DEF Resolved
  <2> QED BY <1>1, <2>1, MessagesSettled
<1>5. ASSUME Consumed
      PROVE Ascending(inbox'[a]) /\ ToSet(inbox'[a]) = Undelivered(a)'
  <2>0. PICK b \in Agents : \E k :
          /\ inbox[b] # <<>> /\ k = Head(inbox[b]) /\ Marks(k, b)
          /\ inbox' = [inbox EXCEPT ![b] = Tail(@)]
    BY <1>5, DeliveryEffects
  <2>1. PICK k :
          /\ b \in Agents
          /\ inbox[b] # <<>> /\ k = Head(inbox[b]) /\ Marks(k, b)
          /\ inbox' = [inbox EXCEPT ![b] = Tail(@)]
    BY <2>0
  <2>2. ~broken
    BY <1>5 DEF Consumed
  <2>4. Ascending(inbox[a]) /\ ToSet(inbox[a]) = Undelivered(a)
    BY <1>0, <2>2 DEF InboxMirrorsJournal
  <2>5. CASE a = b
    <3>1. inbox'[a] = Tail(inbox[a]) /\ k = Head(inbox[a])
      BY <2>1, <2>5 DEF BoxTypes
    <3>2. /\ Ascending(Tail(inbox[a]))
          /\ ToSet(Tail(inbox[a])) = ToSet(inbox[a]) \ {Head(inbox[a])}
      BY <1>0, <2>1, <2>4, <2>5, AscendingTail
    <3>3. Undelivered(a)' = Undelivered(a) \ {k}
      BY <2>1, <2>5 DEF Undelivered, Ids, Marks
    <3> QED BY <2>4, <3>1, <3>2, <3>3
  <2>6. CASE a # b
    <3>1. inbox'[a] = inbox[a]
      BY <2>1, <2>6 DEF BoxTypes
    <3>2. Undelivered(a)' = Undelivered(a)
      BY <2>1, <2>6 DEF Undelivered, Ids, Marks
    <3> QED BY <2>4, <3>1, <3>2
  <2> QED BY <2>5, <2>6
<1>6. ASSUME ConsumeFails PROVE FALSE
  BY <1>0, <1>6, DeliveringShape
<1>7. ASSUME Interrupts PROVE FALSE
  <2>1. pc["main"] = "interrupt"
    BY <1>7 DEF Interrupts
  <2> QED BY <1>0, <2>1 DEF Course
<1>8. ASSUME Completed \/ UNCHANGED journal
      PROVE Ascending(inbox'[a]) /\ ToSet(inbox'[a]) = Undelivered(a)'
  <2>1. ~broken /\ UNCHANGED <<msgs, inbox>>
    BY <1>8 DEF Completed, journal
  <2> QED BY <1>1, <2>1
<1> QED BY <1>2, <1>3, <1>4, <1>5, <1>6, <1>7, <1>8, JournalSteps

-----------------------------------------------------------------------------
(* The budgets.                                                            *)

LEMMA AgentsMessagesFinite ==
  ASSUME MsgTypes
  PROVE IsFiniteSet(FromAgents) /\ Cardinality(FromAgents) \in Nat
<1>1. IsFiniteSet(1..Len(msgs))
  BY FS_Interval, MessageFields
<1>2. FromAgents \in SUBSET (1..Len(msgs))
  BY DEF FromAgents, Ids
<1> QED BY <1>1, <1>2, FS_Subset, FS_CardinalityType

LEMMA AgentsMessagesSame ==
  ASSUME Len(msgs') = Len(msgs), \A i \in Ids : msgs'[i].from = msgs[i].from
  PROVE FromAgents' = FromAgents
BY DEF FromAgents, Ids

LEMMA AgentsMessagesAppended ==
  ASSUME MsgTypes, NEW p, Len(msgs') = Len(msgs) + 1, \A i \in Ids : msgs'[i] = msgs[i],
         msgs'[Len(msgs) + 1].from = p
  PROVE Cardinality(FromAgents') =
          IF p \in Agents THEN Cardinality(FromAgents) + 1 ELSE Cardinality(FromAgents)
<1> DEFINE n == Len(msgs) + 1
<1>1. /\ Len(msgs) \in Nat /\ Ids' = Ids \cup {n} /\ n \notin Ids
  BY MessageFields DEF Ids
<1>2. FromAgents' = IF p \in Agents THEN FromAgents \cup {n} ELSE FromAgents
  BY <1>1 DEF FromAgents
<1>3. n \notin FromAgents
  BY <1>1 DEF FromAgents
<1> HIDE DEF n
<1>4. Cardinality(FromAgents \cup {n}) = Cardinality(FromAgents) + 1
  BY <1>3, AgentsMessagesFinite, FS_AddElement
<1> QED BY <1>2, <1>4

(* Messages and the kernel's count of them.                                *)
Counted ==
  /\ Cardinality(FromAgents) <= MaxMessages
  /\ ~broken => Cardinality(FromAgents) = sent

LEMMA CountedKept ==
  ASSUME Types, Consuming, Counted, [Next]_vars
  PROVE Counted'
<1> USE DEF Types
<1>0. /\ MaxMessages \in Nat /\ sent \in Nat /\ Cardinality(FromAgents) \in Nat
  BY TeamAssumption, AgentsMessagesFinite DEF BookTypes
<1>1. ASSUME NEW p \in Agents \cup Users, Inside(p, "send"), msgs' = Appended(p)
      PROVE Cardinality(FromAgents') =
              IF p \in Agents THEN Cardinality(FromAgents) + 1 ELSE Cardinality(FromAgents)
  BY <1>1, MessagesAppended, AgentsMessagesAppended
<1>2. ASSUME NEW p \in Agents \cup Users, ~OverBudget(p)
      PROVE p \in Agents => sent < MaxMessages
  BY <1>0, <1>2 DEF OverBudget
<1>3. ASSUME NEW p \in Agents \cup Users, Sent(p) PROVE Counted'
  <2>1. /\ Inside(p, "send") /\ msgs' = Appended(p) /\ ~OverBudget(p) /\ ~broken
        /\ UNCHANGED broken /\ sent' = IF p \in Agents THEN sent + 1 ELSE sent
    BY <1>3 DEF Sent
  <2>2. Cardinality(FromAgents) = sent
    BY <2>1 DEF Counted
  <2> QED BY <1>0, <1>1, <1>2, <2>1, <2>2 DEF Counted
<1>4. ASSUME NEW p \in Agents \cup Users, SendFails(p) PROVE Counted'
  <2>1. CASE UNCHANGED <<msgs, broken>>
    <3>1. UNCHANGED <<sent, msgs, broken>>
      BY <1>4, <2>1 DEF SendFails
    <3> QED BY <3>1 DEF Counted, FromAgents, Ids
  <2>2. CASE ~broken /\ msgs' = Appended(p) /\ broken' = TRUE
    <3>1. Inside(p, "send") /\ ~OverBudget(p)
      BY <1>4 DEF SendFails
    <3>2. Cardinality(FromAgents) = sent
      BY <2>2 DEF Counted
    <3> QED BY <1>0, <1>1, <1>2, <2>2, <3>1, <3>2 DEF Counted
  <2> QED BY <1>4, <2>1, <2>2 DEF SendFails
<1>5. ASSUME FromAgents' = FromAgents, UNCHANGED sent, broken => broken' PROVE Counted'
  BY <1>5 DEF Counted
<1>6. ASSUME NEW p \in Agents \cup Users, Resolved(p) PROVE Counted'
  <2>1. /\ UNCHANGED <<broken, sent>>
        /\ UNCHANGED msgs \/ \E t : msgs' = Settled(t)
    BY <1>6 DEF Resolved
  <2>2. Len(msgs') = Len(msgs) /\ \A i \in Ids : msgs'[i].from = msgs[i].from
    BY <2>1, MessagesSettled
  <2> QED BY <1>5, <2>1, <2>2, AgentsMessagesSame
<1>7. ASSUME Consumed \/ ConsumeFails PROVE Counted'
  <2>1. UNCHANGED sent /\ (broken => broken')
    BY <1>7 DEF Consumed, ConsumeFails
  <2>2. Len(msgs') = Len(msgs) /\ \A i \in Ids : msgs'[i].from = msgs[i].from
    <3>1. msgs' = msgs \/ \E b \in Agents : \E k : Marks(k, b)
      BY <1>7, DeliveryEffects
    <3> QED BY <3>1 DEF Marks
  <2> QED BY <1>5, <2>1, <2>2, AgentsMessagesSame
<1>8. ASSUME Completed \/ Interrupts \/ UNCHANGED journal PROVE Counted'
  <2>1. UNCHANGED <<broken, sent>> /\ (UNCHANGED msgs \/ msgs' = InterruptedAll)
    BY <1>8 DEF Completed, Interrupts, journal
  <2>2. Len(msgs') = Len(msgs) /\ \A i \in Ids : msgs'[i].from = msgs[i].from
    BY <2>1, MessagesInterrupted
  <2> QED BY <1>5, <2>1, <2>2, AgentsMessagesSame
<1> QED BY <1>3, <1>4, <1>6, <1>7, <1>8, JournalSteps

LEMMA ThreadsKept ==
  ASSUME Types, Cardinality(open) <= MaxThreads, [Next]_vars
  PROVE Cardinality(open') <= MaxThreads
<1> USE DEF Types
<1>0. MaxThreads \in Nat /\ Cardinality(open) \in Nat /\ IsFiniteSet(open)
  BY TeamAssumption, FS_CardinalityType DEF BookTypes
<1>1. ASSUME NEW p \in Agents \cup Users, Sent(p) PROVE Cardinality(open') <= MaxThreads
  <2> DEFINE t == Thread(op[p])
  <2>1. open' = open \cup ({t} \ {0}) /\ (t \in open \cup {0} \/ ~(Cardinality(open) >= MaxThreads))
    BY <1>1 DEF Sent, OverBudget
  <2> HIDE DEF t
  <2>2. CASE t \in open \cup {0}
    <3>1. open' = open
      BY <2>1, <2>2
    <3> QED BY <3>1
  <2>3. CASE t \notin open \cup {0}
    <3>1. open' = open \cup {t} /\ Cardinality(open) < MaxThreads
      BY <1>0, <2>1, <2>3
    <3>2. Cardinality(open \cup {t}) = Cardinality(open) + 1
      BY <1>0, <2>3, FS_AddElement
    <3> QED BY <1>0, <3>1, <3>2
  <2> QED BY <2>2, <2>3
<1>2. ASSUME NEW p \in Agents \cup Users, Resolved(p) PROVE Cardinality(open') <= MaxThreads
  <2>1. open' = open \/ open' = open \ {op[p].thread}
    BY <1>2 DEF Resolved
  <2>2. /\ Cardinality(open \ {op[p].thread}) \in {Cardinality(open), Cardinality(open) - 1}
    BY <1>0, FS_RemoveElement
  <2> QED BY <1>0, <2>1, <2>2
<1>3. ASSUME NEW p \in Agents \cup Users, SendFails(p) PROVE UNCHANGED open
  BY <1>3 DEF SendFails
<1>4. ASSUME Consumed \/ ConsumeFails \/ Completed \/ Interrupts \/ UNCHANGED journal
      PROVE UNCHANGED open
  BY <1>4 DEF Consumed, ConsumeFails, Completed, Interrupts, journal
<1> QED BY <1>1, <1>2, <1>3, <1>4, JournalSteps

LEMMA TurnsBudgetKept ==
  ASSUME Types, \A a \in Agents : turns[a] <= MaxTurns, [Next]_vars
  PROVE \A a \in Agents : turns'[a] <= MaxTurns
<1> USE DEF Types
<1>0. turns \in [Agents -> Nat] /\ MaxTurns \in Nat
  BY TeamAssumption DEF BookTypes
<1>1. CASE AssignNext
  <2>0. First(plan.todo) \in Agents
    BY <1>1, TargetIsAnAgent DEF AssignNext
  <2> DEFINE b == First(plan.todo)
  <2>1. \/ turns' = turns
        \/ ~(turns[b] >= MaxTurns) /\ turns' = [turns EXCEPT ![b] = @ + 1]
    BY <1>1 DEF AssignNext
  <2> HIDE DEF b
  <2>2. ASSUME NEW a \in Agents, ~(turns[b] >= MaxTurns), turns' = [turns EXCEPT ![b] = @ + 1]
        PROVE turns'[a] <= MaxTurns
    <3>1. turns'[a] = IF a = b THEN turns[a] + 1 ELSE turns[a]
      BY <1>0, <2>2
    <3> QED BY <1>0, <2>2, <3>1
  <2> QED BY <2>1, <2>2
<1> QED BY <1>1, TurnsSteps

LEMMA BudgetsKept ==
  ASSUME Types, Consuming, Budgets, [Next]_vars
  PROVE Budgets'
BY CountedKept, ThreadsKept, TurnsBudgetKept, RaisedStays DEF Budgets, Counted

-----------------------------------------------------------------------------
(* The messages, and when they settle.                                     *)

LEMMA TypesKept ==
  ASSUME Types, Course, Consuming, [Next]_vars
  PROVE Types'
<1>1. MsgTypes' /\ BoxTypes' /\ PcTypes' /\ OpTypes' /\ PlanTypes'
  BY JournalGrows, BoxTypesKept, ControlTypesKept DEF Types, ControlTypes
<1>2. BookTypes'
  BY JournalBookKept, TurnsTypeKept, StateTypesKept DEF JournalBook, BookTypes
<1> QED BY <1>1, <1>2 DEF Types

(* What a step may do to one message that is there.                        *)
GoesOn(i) ==
  /\ msgs'[i].from = msgs[i].from /\ msgs'[i].to = msgs[i].to
  /\ msgs[i].by \subseteq msgs'[i].by
  /\ msgs'[i].status = "pending" => msgs[i].status = "pending"
  /\ msgs'[i].status = "pending" /\ msgs'[i].to \subseteq msgs'[i].by
       => msgs[i].to \subseteq msgs[i].by
  /\ msgs'[i].status = "interrupted" => msgs[i].status = "interrupted" \/ Interrupts
  /\ \/ msgs'[i] = msgs[i] \/ msgs[i].status # "interrupted"
     \/ op["main"].do = "consume" \/ \E a \in Agents : pc[a] # "idle"
Arrives(i) ==
  /\ msgs'[i].status = "pending" /\ msgs'[i].by = {} /\ msgs'[i].to # {}
  /\ \E p \in Agents \cup Users :
       /\ op[p].do = "send" /\ msgs'[i].from = p /\ (Sent(p) \/ SendFails(p))
MessagesGoOn ==
  /\ Len(msgs') = Len(msgs) \/ Len(msgs') = Len(msgs) + 1
  /\ \A i \in Ids : GoesOn(i)
  /\ Len(msgs') # Len(msgs) => Arrives(Len(msgs'))

LEMMA MessageSteps ==
  ASSUME Types, Waits, Consuming, [Next]_vars
  PROVE MessagesGoOn
<1> USE DEF Types
<1>0. /\ \A a \in Agents : op[a].do # "none" => pc[a] = "lock"
      /\ Len(msgs) \in Nat
  BY DifferentProcs, MessageFields DEF Waits
<1>1. ASSUME UNCHANGED msgs PROVE MessagesGoOn
  BY <1>1 DEF MessagesGoOn, GoesOn, Ids
<1>2. ASSUME NEW p \in Agents \cup Users, Sent(p) \/ SendFails(p) PROVE MessagesGoOn
  <2>1. CASE UNCHANGED msgs
    BY <1>1, <2>1
  <2>2. CASE msgs' = Appended(p)
    <3>1. Inside(p, "send") /\ op[p].do = "send"
      BY <1>2 DEF Sent, SendFails, Inside
    <3>2. /\ Len(msgs') = Len(msgs) + 1
          /\ \A i \in Ids : msgs'[i] = msgs[i]
          /\ LET new == msgs'[Len(msgs) + 1] IN
             new.from = p /\ new.to = op[p].to /\ new.by = {} /\ new.status = "pending"
          /\ op[p].to # {}
      BY <2>2, <3>1, MessagesAppended
    <3>3. \A i \in Ids : GoesOn(i)
      BY <3>2 DEF GoesOn
    <3>4. Arrives(Len(msgs'))
      BY <1>2, <3>1, <3>2 DEF Arrives
    <3> QED BY <3>2, <3>3, <3>4 DEF MessagesGoOn
  <2> QED BY <1>2, <2>1, <2>2 DEF Sent, SendFails
<1>3. ASSUME NEW p \in Agents \cup Users, Resolved(p) PROVE MessagesGoOn
  <2>1. CASE UNCHANGED msgs
    BY <1>1, <2>1
  <2>2. CASE msgs' = Settled(op[p].thread)
    <3>1. /\ Len(msgs') = Len(msgs)
          /\ \A i \in Ids :
               /\ msgs'[i].from = msgs[i].from /\ msgs'[i].to = msgs[i].to
               /\ msgs'[i].by = msgs[i].by
               /\ msgs'[i].status \in {"resolved", msgs[i].status}
      BY <2>2, MessagesSettled
    <3>2. \E a \in Agents : pc[a] # "idle"
      <4>1. op[p].do = "resolve"
        BY <1>3 DEF Resolved, Inside
      <4>2. p \in Agents
        BY <4>1 DEF OpTypes, UserOps, UserSends, Sends, NoOp
      <4> QED BY <1>0, <4>1, <4>2
    <3>3. \A i \in Ids : GoesOn(i)
      BY <3>1, <3>2 DEF GoesOn
    <3> QED BY <3>1, <3>3 DEF MessagesGoOn
  <2> QED BY <1>3, <2>1, <2>2 DEF Resolved
<1>4. ASSUME Consumed \/ ConsumeFails PROVE MessagesGoOn
  <2>1. CASE UNCHANGED msgs
    BY <1>1, <2>1
  <2>2. CASE msgs' # msgs
    <3>0. PICK b \in Agents : \E k : Marks(k, b)
      BY <1>4, <2>2, DeliveryEffects
    <3>1. PICK k : b \in Agents /\ Marks(k, b)
      BY <3>0
    <3>2. op["main"].do = "consume"
      BY <1>4 DEF Consumed, ConsumeFails, Inside
    <3>3. ASSUME NEW i \in Ids PROVE GoesOn(i)
      <4>1. CASE i # k
        BY <3>1, <4>1 DEF Marks, GoesOn
      <4>2. CASE i = k
        <5>1. /\ msgs'[i].from = msgs[i].from /\ msgs'[i].to = msgs[i].to
              /\ msgs'[i].by = msgs[i].by \cup {b}
          BY <3>1, <4>2 DEF Marks
        <5>2. /\ msgs[i].to \subseteq msgs[i].by \cup {b} => msgs'[i].status = "consumed"
              /\ ~(msgs[i].to \subseteq msgs[i].by \cup {b}) => msgs'[i].status = msgs[i].status
          BY <3>1, <4>2 DEF Marks
        <5> QED BY <3>2, <5>1, <5>2 DEF GoesOn
      <4> QED BY <4>1, <4>2
    <3> QED BY <3>1, <3>3 DEF MessagesGoOn, Marks
  <2> QED BY <2>1, <2>2
<1>5. ASSUME Interrupts PROVE MessagesGoOn
  <2>1. CASE UNCHANGED msgs
    BY <1>1, <2>1
  <2>2. CASE msgs' = InterruptedAll
    <3>1. /\ Len(msgs') = Len(msgs)
          /\ \A i \in Ids :
               /\ msgs'[i].from = msgs[i].from /\ msgs'[i].to = msgs[i].to
               /\ msgs'[i].by = msgs[i].by
               /\ msgs'[i].status =
                    IF msgs[i].status = "pending" THEN "interrupted" ELSE msgs[i].status
               /\ msgs[i].status # "pending" => msgs'[i] = msgs[i]
      BY <2>2, MessagesInterrupted
    <3>2. \A i \in Ids : GoesOn(i)
      BY <1>5, <3>1 DEF GoesOn
    <3> QED BY <3>1, <3>2 DEF MessagesGoOn
  <2> QED BY <1>5, <2>1, <2>2 DEF Interrupts
<1>6. ASSUME Completed \/ UNCHANGED journal PROVE UNCHANGED msgs
  BY <1>6 DEF Completed, journal
<1> QED BY <1>1, <1>2, <1>3, <1>4, <1>5, <1>6, JournalSteps

LEMMA PendingKept ==
  ASSUME Types, Waits, Consuming, PendingIsUndelivered, [Next]_vars
  PROVE PendingIsUndelivered'
<1>1. MessagesGoOn /\ Len(msgs) \in Nat
  BY MessageSteps, MessageFields DEF Types
<1>2. ASSUME NEW i \in Ids, msgs'[i].status = "pending"
      PROVE ~(msgs'[i].to \subseteq msgs'[i].by)
  BY <1>1, <1>2 DEF MessagesGoOn, GoesOn, PendingIsUndelivered, Delivered
<1>3. ASSUME Arrives(Len(msgs'))
      PROVE ~(msgs'[Len(msgs')].to \subseteq msgs'[Len(msgs')].by)
  BY <1>3 DEF Arrives
<1>4. \A i \in Ids' : i \in Ids \/ (i = Len(msgs') /\ Len(msgs') # Len(msgs))
  BY <1>1 DEF MessagesGoOn, Ids
<1> QED BY <1>1, <1>2, <1>3, <1>4 DEF MessagesGoOn, PendingIsUndelivered, Delivered

(* Where the Run is: its main task has asked to finish, or it has ended.   *)
AtEnd == op["main"].do = "finish" \/ pc["main"] = "ended"

(* Agents and users leave the main task where it is.                       *)
LEMMA MainStays ==
  ASSUME Types, [Next]_vars
  PROVE \/ pc'["main"] = pc["main"] /\ op'["main"] = op["main"]
        \/ Scheduling \/ Delivering \/ Stopping \/ Endings
<1> USE DEF Types
<1>0. /\ ControlTypes
      /\ \A p \in Agents \cup Users : p \in Procs /\ "main" \in Procs \ {p}
  BY DifferentProcs DEF ControlTypes
<1>1. ASSUME NEW p \in Agents \cup Users, OthersStay(p)
      PROVE pc'["main"] = pc["main"] /\ op'["main"] = op["main"]
  BY <1>0, <1>1 DEF OthersStay
<1>2. CASE \E a \in Agents : AgentStep(a)
  BY <1>0, <1>1, <1>2, AgentShape DEF Moves, AsksFor
<1>3. CASE \E u \in Users : UserPosts(u)
  BY <1>0, <1>1, <1>3, UserShape DEF Moves, AsksFor
<1>4. CASE \E p \in Agents \cup Users : InsideStep(p)
  BY <1>0, <1>1, <1>4, InsideShape DEF LeavesWith
<1>5. CASE StopRequested \/ UNCHANGED vars
  BY <1>5 DEF StopRequested, vars
<1> QED BY <1>2, <1>3, <1>4, <1>5, NextShapes

(* Only the interruption, the completion and the finish lead there, and    *)
(* nothing leads back.                                                     *)
LEMMA EndSteps ==
  ASSUME Types, Waits, [Next]_vars
  PROVE /\ AtEnd' /\ ~AtEnd => Interrupts \/ Completed
        /\ AtEnd => AtEnd' /\ ~Interrupts /\ ~Completed /\ ~Consumed /\ ~ConsumeFails
        /\ AtEnd /\ op'["main"].do = "finish" => op["main"].do = "finish"
<1> USE DEF Types
<1>0. /\ ControlTypes /\ NoOp.do = "none"
      /\ op["main"].do # "none" => pc["main"] = "lock"
  BY DifferentProcs DEF ControlTypes, NoOp, Waits
<1>1. CASE pc'["main"] = pc["main"] /\ op'["main"] = op["main"]
  <2>1. ASSUME AtEnd PROVE ~Interrupts
    <3>1. Interrupts => pc["main"] = "interrupt" /\ pc'["main"] = "lock"
      BY <1>0, FinishingShape DEF AsksFor
    <3> QED BY <1>1, <3>1
  <2>2. Completed \/ Consumed \/ ConsumeFails
          => op["main"].do \in {"complete", "consume"} /\ op'["main"] = NoOp
    BY <1>0, DeliveringShape DEF LeavesWith
  <2> QED BY <1>0, <1>1, <2>1, <2>2 DEF AtEnd
<1>2. CASE Scheduling
  <2>1. /\ pc["main"] \in {"propose", "assign", "consume", "gather"}
        /\ pc'["main"] \in {"stopping", "assign", "complete", "consume", "propose", "lock"}
        /\ op'["main"] \in {op["main"], [do |-> "consume"]}
    BY <1>0, <1>2, SchedulingShape DEF Scheduling, Moves, AsksFor
  <2>2. op["main"].do = "none" /\ op'["main"].do \in {"none", "consume"}
    BY <1>0, <2>1
  <2> QED BY <2>1, <2>2 DEF AtEnd
<1>3. CASE Delivering
  <2>1. \/ /\ pc["main"] \in {"complete", "completing"} /\ pc'["main"] # "ended"
           /\ op'["main"] \in {op["main"], [do |-> "prepare"], [do |-> "complete"]}
        \/ /\ op["main"].do \in {"consume", "prepare", "complete"} /\ op'["main"] = NoOp
           /\ pc'["main"] = "ended" => Completed
    BY <1>0, <1>3, DeliveringShape DEF Delivering, Moves, AsksFor, LeavesWith
  <2>2. pc["main"] \in {"complete", "completing"}
          => op["main"].do = "none"
    BY <1>0
  <2> QED BY <1>0, <2>1, <2>2 DEF AtEnd
<1>4. CASE Stopping
  <2>1. /\ pc["main"] # "ended" /\ pc'["main"] \in {"gather", "stopping", "finish"}
        /\ \/ pc["main"] \in {"assign", "stopping"} /\ op'["main"] = op["main"]
           \/ op["main"].do # "finish" /\ op'["main"] = NoOp
    BY <1>0, <1>4, StoppingShape DEF Stopping
  <2> QED BY <1>0, <2>1 DEF AtEnd
<1>5. CASE Endings
  <2>1. CASE Finishing \/ Interrupts
    <3>1. /\ pc["main"] \in {"finish", "interrupt"}
          /\ Finishing => pc'["main"] = "interrupt" /\ op'["main"] = op["main"]
      BY <1>0, <2>1, FinishingShape DEF Moves, AsksFor
    <3>2. op["main"].do = "none"
      BY <1>0, <3>1
    <3> QED BY <2>1, <3>1, <3>2 DEF AtEnd
  <2>2. CASE Finished
    <3>1. op["main"].do = "finish" /\ pc'["main"] = "ended" /\ op'["main"] = NoOp
      BY <1>0, <2>2, FinishingShape DEF LeavesWith
    <3>2. ~Interrupts
      BY <1>0, <3>1, FinishingShape DEF AsksFor
    <3>3. ~(Completed \/ Consumed \/ ConsumeFails)
      BY <1>0, <3>1, DeliveringShape DEF LeavesWith
    <3> QED BY <3>1, <3>2, <3>3 DEF AtEnd
  <2> QED BY <1>5, <2>1, <2>2 DEF Endings
<1> QED BY <1>1, <1>2, <1>3, <1>4, <1>5, MainStays

(* An ended Run is not stopped any more.                                   *)
LEMMA EndedStands ==
  ASSUME Types, Waits, pc["main"] = "ended", [Next]_vars
  PROVE UNCHANGED stop
<1> USE DEF Types
<1>0. /\ ControlTypes
      /\ op["main"].do # "none" => pc["main"] = "lock"
  BY DifferentProcs DEF ControlTypes, Waits
<1>1. ASSUME \/ \E a \in Agents : AgentStep(a)
             \/ \E u \in Users : UserPosts(u)
             \/ \E p \in Agents \cup Users : InsideStep(p)
      PROVE UNCHANGED stop
  BY <1>0, <1>1, AgentShape, UserShape, InsideShape DEF course
<1>2. ~Scheduling
  BY <1>0, SchedulingShape DEF Scheduling, Moves, AsksFor
<1>3. Delivering => FALSE
  BY <1>0, DeliveringShape DEF Delivering, Moves, AsksFor, LeavesWith
<1>4. Stopping => UNCHANGED stop
  BY <1>0, StoppingShape DEF Stopping, course
<1>5. Endings => UNCHANGED stop
  BY <1>0, FinishingShape DEF Endings
<1>6. ~StopRequested
  BY DEF StopRequested
<1>7. UNCHANGED vars => UNCHANGED stop
  BY DEF vars, course
<1> QED BY <1>1, <1>2, <1>3, <1>4, <1>5, <1>6, <1>7, NextShapes

(* From there on what is settled stays so.                                 *)
LEMMA InterruptedStays ==
  ASSUME Types, Waits, AgentsAct, InterruptedLast, Consuming, [Next]_vars,
         NEW i \in Ids
  PROVE /\ msgs'[i].status = "pending" => msgs[i].status = "pending"
        /\ msgs[i].status = "interrupted" => msgs'[i] = msgs[i]
<1>1. GoesOn(i)
  BY MessageSteps DEF MessagesGoOn
<1>2. ASSUME msgs[i].status = "interrupted"
      PROVE op["main"].do # "consume" /\ \A a \in Agents : pc[a] = "idle"
  <2>1. AtEnd
    BY <1>2 DEF InterruptedLast, AtEnd
  <2>2. op["main"].do # "none" => pc["main"] = "lock"
    BY DifferentProcs DEF Waits
  <2> QED BY <2>1, <2>2 DEF AtEnd, AgentsAct, Leaving, Stilled
<1> QED BY <1>1, <1>2 DEF GoesOn

LEMMA InterruptedLastKept ==
  ASSUME Types, Waits, InterruptedLast, Consuming, [Next]_vars
  PROVE InterruptedLast'
<1>1. MessagesGoOn /\ Len(msgs) \in Nat
  BY MessageSteps, MessageFields DEF Types
<1>2. ASSUME Interrupts PROVE AtEnd'
  <2>1. op'["main"].do = "finish"
    BY <1>2, FinishingShape DEF AsksFor, Types, ControlTypes
  <2> QED BY <2>1 DEF AtEnd
<1>3. ASSUME NEW i \in Ids, msgs'[i].status = "interrupted" PROVE AtEnd'
  <2>1. AtEnd \/ Interrupts
    BY <1>1, <1>3 DEF MessagesGoOn, GoesOn, InterruptedLast, AtEnd
  <2> QED BY <1>2, <2>1, EndSteps
<1>4. ASSUME Arrives(Len(msgs')) PROVE msgs'[Len(msgs')].status # "interrupted"
  BY <1>4 DEF Arrives
<1>5. \A i \in Ids' : i \in Ids \/ (i = Len(msgs') /\ Len(msgs') # Len(msgs))
  BY <1>1 DEF MessagesGoOn, Ids
<1> QED BY <1>1, <1>3, <1>4, <1>5 DEF MessagesGoOn, InterruptedLast, AtEnd

LEMMA NonePendingKept ==
  ASSUME Types, Waits, AgentsAct, Course, Budgets, NonePending, Consuming, [Next]_vars
  PROVE NonePending'
<1> SUFFICES ASSUME op'["main"].do = "finish" \/ (pc'["main"] = "ended" /\ stop' # "none"),
                    ~raised', NEW i \in Ids', msgs'[i].from \in Agents
             PROVE msgs'[i].status # "pending"
  BY DEF NonePending
<1>0. /\ MessagesGoOn /\ Len(msgs) \in Nat /\ AtEnd' /\ ~raised
  BY MessageSteps, MessageFields, RaisedStays DEF Types, AtEnd, Budgets
<1>1. CASE AtEnd
  <2>1. /\ op["main"].do = "finish" \/ (pc["main"] = "ended" /\ stop # "none")
    <3>1. CASE op["main"].do = "finish"
      BY <3>1
    <3>2. CASE pc["main"] = "ended" /\ op["main"].do # "finish"
      <4>1. stop' # "none"
        BY <1>1, <3>2, EndSteps
      <4> QED BY <3>2, <4>1, EndedStands
    <3> QED BY <1>1, <3>1, <3>2 DEF AtEnd
  <2>2. Stilled
    BY <2>1 DEF AgentsAct, Leaving
  <2>3. CASE i \in Ids
    BY <1>0, <2>1, <2>3 DEF MessagesGoOn, GoesOn, NonePending
  <2>4. CASE i \notin Ids
    <3>1. Arrives(i)
      BY <1>0, <2>4 DEF MessagesGoOn, Ids
    <3>2. PICK p \in Agents \cup Users : op[p].do = "send" /\ msgs'[i].from = p
      BY <3>1 DEF Arrives
    <3>3. pc[p] = "lock"
      BY <3>2, DifferentProcs DEF Waits
    <3> QED BY <2>2, <3>2, <3>3 DEF Stilled
  <2> QED BY <2>3, <2>4
<1>2. CASE ~AtEnd
  <2>1. CASE Interrupts
    <3>1. msgs' = InterruptedAll
      BY <1>0, <2>1, FinishingShape DEF Types, ControlTypes
    <3>2. /\ Len(msgs') = Len(msgs)
          /\ \A j \in Ids : msgs'[j].status =
               IF msgs[j].status = "pending" THEN "interrupted" ELSE msgs[j].status
      BY <3>1, MessagesInterrupted DEF Types
    <3> QED BY <3>2 DEF Ids
  <2>2. CASE Completed
    <3>1. op["main"].do = "complete" /\ UNCHANGED stop /\ op'["main"] = NoOp
      BY <2>2, DeliveringShape DEF LeavesWith, Types, ControlTypes
    <3>2. stop' = "none"
      BY <3>1 DEF Course
    <3> QED BY <3>1, <3>2 DEF NoOp
  <2> QED BY <1>0, <1>2, <2>1, <2>2, EndSteps
<1> QED BY <1>1, <1>2

-----------------------------------------------------------------------------
(* Posts of users, and the rejection events they may leave.                *)

(* A user moves by its own steps only.                                     *)
LEMMA UserStays ==
  ASSUME Types, NEW u \in Users, [Next]_vars
  PROVE \/ pc'[u] = pc[u] /\ op'[u] = op[u]
        \/ UserPosts(u) \/ InsideStep(u)
<1> USE DEF Types
<1>0. /\ ControlTypes /\ u \in Procs /\ u # "main" /\ u \notin Agents
      /\ u \notin plan.batch
      /\ \A p \in Agents \cup Users : p # u => u \in Procs \ {p}
  BY DifferentProcs DEF ControlTypes, PlanTypes, Plans
<1>1. ASSUME NEW p, p # u, OthersStay(p)
      PROVE pc'[u] = pc[u] /\ op'[u] = op[u]
  BY <1>0, <1>1 DEF OthersStay
<1>2. CASE \E a \in Agents : AgentStep(a)
  <2>1. PICK a \in Agents : AgentStep(a)
    BY <1>2
  <2>2. OthersStay(a)
    BY <1>0, <2>1, AgentShape DEF Moves, AsksFor
  <2> QED BY <1>0, <1>1, <2>2
<1>3. CASE \E v \in Users : UserPosts(v)
  <2>1. PICK v \in Users : UserPosts(v)
    BY <1>3
  <2>2. OthersStay(v)
    BY <1>0, <2>1, UserShape DEF Moves, AsksFor
  <2> QED BY <1>1, <2>1, <2>2
<1>4. CASE \E p \in Agents \cup Users : InsideStep(p)
  <2>1. PICK p \in Agents \cup Users : InsideStep(p)
    BY <1>4
  <2>2. OthersStay(p)
    BY <1>0, <2>1, InsideShape DEF LeavesWith
  <2> QED BY <1>1, <2>1, <2>2
<1>5. CASE Scheduling \/ Delivering \/ Endings
  <2>1. OthersStay("main")
    BY <1>0, <1>5, SchedulingShape, DeliveringShape, FinishingShape
       DEF Scheduling, Delivering, Endings, Moves, AsksFor, LeavesWith
  <2> QED BY <1>0, <1>1, <2>1
<1>6. CASE TurnsStart
  BY <1>0, <1>6, StoppingShape
<1>7. CASE Unwinds
  BY <1>0, <1>1, <1>7, StoppingShape
<1>8. CASE ActorsStopped
  BY <1>0, <1>8, StoppingShape
<1>9. CASE StopRequested \/ UNCHANGED vars
  BY <1>9 DEF StopRequested, vars
<1> QED BY <1>2, <1>3, <1>4, <1>5, <1>6, <1>7, <1>8, <1>9, NextShapes DEF Stopping

LEMMA RejectionsKept ==
  ASSUME Types, Rejections, [Next]_vars
  PROVE Rejections'
<1> USE DEF Types
<1>0. /\ ControlTypes /\ plan.batch \subseteq Agents
      /\ \A p \in Procs : p \in Agents \/ p \in Users \/ p = "main"
  BY DifferentProcs DEF ControlTypes, PlanTypes, Plans
<1>1. ASSUME NEW p \in Procs, OthersStay(p), pc'[p] = "rejected" => p \in Users
      PROVE Rejections'
  <2>1. ASSUME NEW q \in Procs, pc'[q] = "rejected" PROVE q \in Users
    <3>1. CASE q = p
      BY <1>1, <2>1, <3>1
    <3>2. CASE q # p
      BY <1>1, <2>1, <3>2 DEF OthersStay, Rejections
    <3> QED BY <3>1, <3>2
  <2> QED BY <2>1 DEF Rejections
<1>2. CASE \E a \in Agents : AgentStep(a)
  <2>1. PICK a \in Agents : AgentStep(a)
    BY <1>2
  <2>2. OthersStay(a) /\ pc'[a] # "rejected"
    BY <1>0, <2>1, AgentShape DEF Moves, AsksFor
  <2> QED BY <1>1, <2>2, DifferentProcs
<1>3. CASE \E v \in Users : UserPosts(v)
  <2>1. PICK v \in Users : UserPosts(v)
    BY <1>3
  <2>2. OthersStay(v)
    BY <1>0, <2>1, UserShape DEF Moves, AsksFor
  <2> QED BY <1>1, <2>2, DifferentProcs
<1>4. CASE \E p \in Agents \cup Users : InsideStep(p)
  <2>1. PICK p \in Agents \cup Users : InsideStep(p)
    BY <1>4
  <2>2. OthersStay(p) /\ (p \in Agents => pc'[p] = "turn")
    BY <1>0, <2>1, InsideShape DEF LeavesWith
  <2> QED BY <1>1, <2>1, <2>2, DifferentProcs
<1>5. CASE Scheduling \/ Delivering \/ Endings
  <2>1. OthersStay("main")
    BY <1>0, <1>5, SchedulingShape, DeliveringShape, FinishingShape
       DEF Scheduling, Delivering, Endings, Moves, AsksFor, LeavesWith
  <2>2. Scheduling => pc'["main"] # "rejected"
    BY <1>0, SchedulingShape DEF Scheduling, Moves, AsksFor
  <2>3. Delivering => pc'["main"] # "rejected"
    BY <1>0, DeliveringShape DEF Delivering, Moves, AsksFor, LeavesWith
  <2>4. Endings => pc'["main"] # "rejected"
    BY <1>0, FinishingShape DEF Endings, Moves, AsksFor, LeavesWith
  <2> QED BY <1>1, <1>5, <2>1, <2>2, <2>3, <2>4, DifferentProcs
<1>6. CASE TurnsStart
  <2>1. /\ pc'["main"] = "gather"
        /\ \A p \in Procs \ {"main"} : pc'[p] = IF p \in plan.batch THEN "turn" ELSE pc[p]
    BY <1>0, <1>6, StoppingShape
  <2> QED BY <1>0, <2>1 DEF Rejections
<1>7. CASE Unwinds
  <2>1. OthersStay("main") /\ pc'["main"] = "stopping"
    BY <1>0, <1>7, StoppingShape
  <2> QED BY <1>1, <2>1, DifferentProcs
<1>8. CASE ActorsStopped
  <2>1. /\ pc'["main"] = "finish" /\ \A a \in Agents : pc'[a] = "idle"
    BY <1>0, <1>8, StoppingShape
  <2> QED BY <1>0, <2>1 DEF Rejections
<1>9. CASE StopRequested \/ UNCHANGED vars
  BY <1>9 DEF StopRequested, vars, Rejections
<1> QED BY <1>2, <1>3, <1>4, <1>5, <1>6, <1>7, <1>8, <1>9, NextShapes DEF Stopping

(* A rejection is not taken back.                                          *)
LEMMA RejectingStays ==
  ASSUME Types, Waits, Rejections, Rejecting, Consuming, [Next]_vars
  PROVE Rejecting'
<1> USE DEF Types
<1>0. ControlTypes /\ DOMAIN op = Procs /\ DOMAIN op' = Procs
  <2>1. DOMAIN op' = Procs
    BY ControlTypesKept DEF ControlTypes, OpTypes
  <2> QED BY <2>1 DEF ControlTypes, OpTypes
<1>1. PICK u \in Users : op[u].do = "reject" \/ pc[u] = "rejected"
  <2>1. PICK p \in Procs : op[p].do = "reject" \/ pc[p] = "rejected"
    BY <1>0 DEF Rejecting
  <2>2. ASSUME op[p].do = "reject" PROVE p \in Users
    <3>1. \A a \in Agents : op[a].do # "reject"
      BY DEF OpTypes, AgentOps, Sends, NoOp
    <3>2. op["main"].do # "reject"
      BY DEF OpTypes, MainOps, NoOp
    <3> QED BY <2>2, <3>1, <3>2, DifferentProcs
  <2> QED BY <2>1, <2>2 DEF Rejections
<1>2. u \in Procs /\ (op[u].do # "none" => pc[u] = "lock")
  BY DifferentProcs DEF Waits
<1>3. CASE pc'[u] = pc[u] /\ op'[u] = op[u]
  BY <1>0, <1>1, <1>2, <1>3 DEF Rejecting
<1>4. ~UserPosts(u)
  BY <1>0, <1>1, <1>2, UserShape DEF Moves, AsksFor
<1>5. CASE InsideStep(u)
  <2>1. \E what, to : /\ LeavesWith(u, what, to) /\ what \in {"send", "resolve", "reject"}
                      /\ what = "reject" => to = "rejected"
    BY <1>0, <1>5, InsideShape
  <2>2. pc'[u] = "rejected"
    BY <1>1, <1>2, <2>1 DEF LeavesWith
  <2> QED BY <1>0, <1>2, <2>2 DEF Rejecting
<1> QED BY <1>3, <1>4, <1>5, UserStays

-----------------------------------------------------------------------------
(* The completion, while others are ahead of it.                           *)

(* A post that is sent reaches the inboxes of those it is for.             *)
LEMMA SentArrives ==
  ASSUME Types, NEW p \in Agents \cup Users, Sent(p)
  PROVE Unread' # {}
<1> USE DEF Types
<1>1. op[p].do = "send"
  BY DEF Sent, Inside
<1>2. PICK a \in Agents : a \in op[p].to
  BY <1>1, SendFields
<1>3. Len(msgs') \in Nat /\ inbox[a] \in Seq(Nat)
  BY <1>1, AppendedMessage, MessageFields DEF BoxTypes, Sent
<1>4. inbox'[a] = Append(inbox[a], Len(msgs'))
  BY <1>2 DEF Sent
<1>5. Len(Append(inbox[a], Len(msgs'))) = Len(inbox[a]) + 1 /\ Len(inbox[a]) \in Nat
  BY <1>3
<1>6. inbox'[a] # <<>>
  BY <1>4, <1>5
<1> QED BY <1>6 DEF Unread

(* No budget stops a user's post, which opens no thread.                   *)
LEMMA UsersAreNotRefused ==
  ASSUME Types, NEW u \in Users, op[u].do = "send"
  PROVE ~OverBudget(u)
<1>1. op[u].thread = 0 /\ op[u].reply = 0 /\ op[u].expects = FALSE /\ u \notin Agents
  BY SendFields, DifferentProcs DEF Types
<1>2. Thread(op[u]) = 0
  BY <1>1 DEF Thread
<1> QED BY <1>1, <1>2 DEF OverBudget

LEMMA HeadAppended ==
  ASSUME NEW S, NEW q \in Seq(S), NEW e \in S, q # <<>>
  PROVE Head(Append(q, e)) = Head(q)
<1>1. /\ Append(q, e) \in Seq(S) /\ Append(q, e) # <<>> /\ Len(q) \in Nat \ {0}
      /\ Append(q, e)[1] = q[1]
  BY LenProperties, EmptySeq
<1> QED BY <1>1, HeadTailProperties

LEMMA PreparingKept ==
  ASSUME Types, Waits, Rejections, Queued, AgentsAct, Budgets, Preparing, Course,
         Consuming, [Next]_vars
  PROVE Preparing'
<1> USE DEF Types
<1> SUFFICES ASSUME stop' = "none", op'["main"].do = "prepare", ~raised', ~Rejecting'
             PROVE Unread' # {} \/ Head(lock') # "main"
  BY DEF Preparing
<1>0. /\ ControlTypes /\ stop = "none" /\ ~raised /\ ~Rejecting /\ NoOp.do = "none"
      /\ op["main"].do # "none" => pc["main"] = "lock"
      /\ "main" \in Procs
      /\ \A p \in Agents \cup Users : p \in Procs /\ "main" \in Procs \ {p}
  BY StateTypesKept, RaisedStays, RejectingStays, DifferentProcs
     DEF ControlTypes, Budgets, NoOp, Waits
<1>1. /\ lock \in Seq(Procs)
      /\ \A p \in Procs : op[p].do # "none" <=> \E i \in DOMAIN lock : lock[i] = p
  BY <1>0 DEF Queued
(* The completion asks for the lock, of which somebody else is the head.   *)
<1>2. CASE Prepare
  <2>1. lock # <<>> /\ lock' = Append(lock, "main") /\ pc["main"] = "complete"
    BY <1>0, <1>2, DeliveringShape DEF AsksFor
  <2>2. Head(lock) # "main"
    <3>1. 1 \in DOMAIN lock /\ Head(lock) = lock[1]
      BY <1>1, <2>1, HeadTailProperties, LenProperties, EmptySeq
    <3> QED BY <1>0, <1>1, <2>1, <3>1
  <2> QED BY <1>0, <1>1, <2>1, <2>2, HeadAppended
(* No other step of the main task leaves it there.                         *)
<1>3. CASE (Scheduling \/ Delivering \/ Stopping \/ Endings) /\ ~Prepare
  <2>1. Scheduling => op'["main"].do # "prepare"
    <3>1. Scheduling => /\ pc["main"] # "lock"
                        /\ op'["main"] \in {op["main"], [do |-> "consume"]}
      BY <1>0, SchedulingShape DEF Scheduling, Moves, AsksFor
    <3> QED BY <1>0, <3>1
  <2>2. Delivering => op'["main"].do # "prepare"
    <3>1. Delivering => \/ pc["main"] = "complete" /\ op'["main"] = op["main"]
                        \/ op'["main"] \in {NoOp, [do |-> "complete"]}
      BY <1>0, <1>3, DeliveringShape DEF Delivering, Moves, AsksFor, LeavesWith
    <3> QED BY <1>0, <3>1
  <2>3. Stopping => op'["main"].do # "prepare"
    <3>1. Stopping => \/ pc["main"] # "lock" /\ op'["main"] = op["main"]
                      \/ op'["main"] = NoOp
      BY <1>0, StoppingShape DEF Stopping
    <3> QED BY <1>0, <3>1
  <2>4. Endings => op'["main"].do # "prepare"
    <3>1. Endings => \/ pc["main"] # "lock" /\ op'["main"] = op["main"]
                     \/ op'["main"] \in {NoOp, [do |-> "finish"]}
      BY <1>0, FinishingShape DEF Endings, Moves, AsksFor, LeavesWith
    <3> QED BY <1>0, <3>1
  <2> QED BY <1>3, <2>1, <2>2, <2>3, <2>4
(* While it waits the agents are still, and users only add to the queue or *)
(* send what they asked to send.                                           *)
<1>4. CASE pc'["main"] = pc["main"] /\ op'["main"] = op["main"] /\ ~Prepare /\ ~Consumed
  <2>1. /\ op["main"].do = "prepare" /\ pc["main"] = "lock" /\ Stilled
        /\ Unread # {} \/ Head(lock) # "main"
    BY <1>0, <1>4 DEF Preparing, AgentsAct
  <2>2. lock # <<>>
    BY <1>0, <1>1, <2>1, EmptySeq
  <2>3. Unread # {} => Unread' # {}
    BY <1>4, InboxesGrow DEF Unread
  <2>4. CASE \E a \in Agents : AgentStep(a)
    BY <1>0, <2>1, <2>4, AgentShape DEF Stilled, Moves, AsksFor
  <2>5. CASE \E u \in Users : UserPosts(u)
    <3>1. PICK u \in Users : UserPosts(u)
      BY <2>5
    <3>2. lock' = lock \/ lock' = Append(lock, u)
      BY <1>0, <3>1, UserShape DEF Moves, AsksFor
    <3>3. Head(lock') = Head(lock)
      BY <1>0, <1>1, <2>2, <3>2, HeadAppended
    <3> QED BY <2>1, <2>3, <3>3
  <2>6. CASE \E p \in Agents \cup Users : InsideStep(p)
    <3>1. PICK p \in Agents \cup Users : InsideStep(p)
      BY <2>6
    <3>2. PICK what \in {"send", "resolve", "reject"},
               to \in {"turn", "posted", "refused", "rejected"} :
            LeavesWith(p, what, to) /\ (what = "reject" => to = "rejected")
      BY <1>0, <3>1, InsideShape
    <3>3. op[p].do = what /\ pc'[p] = to
      BY <3>2 DEF LeavesWith
    <3>4. p \in Users /\ p \notin Agents
      BY <1>0, <2>1, <3>3, DifferentProcs DEF Stilled, Waits
    <3>5. what = "send"
      <4>1. what # "resolve"
        BY <3>3, <3>4 DEF OpTypes, UserOps, UserSends, Sends, NoOp
      <4>2. what # "reject"
        <5>1. DOMAIN op' = Procs
          BY ControlTypesKept DEF ControlTypes, OpTypes
        <5> QED BY <1>0, <3>2, <3>3, <5>1 DEF Rejecting
      <4> QED BY <4>1, <4>2
    <3>6. SendInside(p) /\ ~OverBudget(p)
      BY <1>0, <3>1, <3>3, <3>4, <3>5, InsideShape, UsersAreNotRefused
    <3>7. Sent(p) \/ SendFails(p)
      BY <3>6 DEF SendInside, SendRefused
    <3>8. ~SendFails(p)
      BY DEF SendFails
    <3> QED BY <3>7, <3>8, SentArrives
  <2>7. CASE StopRequested \/ UNCHANGED vars
    <3>1. UNCHANGED lock
      BY <2>7 DEF StopRequested, vars
    <3> QED BY <2>1, <2>3, <3>1
  <2>8. CASE (Scheduling \/ Delivering \/ Stopping \/ Endings) /\ ~Prepare
    BY <1>3, <2>8
  <2> QED BY <1>4, <2>4, <2>5, <2>6, <2>7, <2>8, NextShapes
<1>5. ASSUME Consumed PROVE Delivering /\ ~Prepare
  <2>1. op["main"].do = "consume"
    BY <1>5 DEF Consumed, Inside
  <2>2. ~Prepare
    BY <1>0, <2>1 DEF Prepare
  <2> QED BY <1>5, <2>2 DEF Delivering
<1> QED BY <1>2, <1>3, <1>4, <1>5, MainStays

-----------------------------------------------------------------------------
(* What is settled when a Run completes.                                   *)

LEMMA CompletedSteps ==
  ASSUME Types, [Next]_vars, state' = "completed"
  PROVE state = "completed" \/ Completed
<1> USE DEF Types
<1>0. ControlTypes /\ stop \in {"none", "failed", "cancelled"}
  BY DEF ControlTypes, BookTypes
<1>1. ASSUME \/ \E a \in Agents : AgentStep(a)
             \/ \E u \in Users : UserPosts(u)
             \/ \E p \in Agents \cup Users : InsideStep(p)
      PROVE UNCHANGED state
  BY <1>0, <1>1, AgentShape, UserShape, InsideShape DEF course
<1>2. Scheduling => UNCHANGED state
  BY <1>0, SchedulingShape DEF Scheduling
<1>3. Delivering => Completed \/ UNCHANGED state
  BY <1>0, DeliveringShape DEF Delivering, course
<1>4. Stopping => UNCHANGED state
  BY <1>0, StoppingShape DEF Stopping, course
<1>5. Endings => UNCHANGED state \/ state' = stop
  BY <1>0, FinishingShape DEF Endings, course
<1>6. StopRequested => state' \in {state, "cancelling"}
  BY DEF StopRequested
<1>7. UNCHANGED vars => UNCHANGED state
  BY DEF vars, course
<1> QED BY <1>0, <1>1, <1>2, <1>3, <1>4, <1>5, <1>6, <1>7, NextShapes

(* A completion begins where nothing is unread.                            *)
LEMMA SettlingSteps ==
  ASSUME Types, Waits, Course, [Next]_vars, Settling', ~Settling
  PROVE Prepared /\ Unread = {} /\ stop = "none"
<1> USE DEF Types
<1>0. /\ ControlTypes /\ NoOp.do = "none" /\ (stop' = "none" => stop = "none")
      /\ op["main"].do # "none" => pc["main"] = "lock"
  BY StateTypesKept, DifferentProcs DEF ControlTypes, NoOp, Waits
<1>1. Completed => op["main"].do = "complete"
  BY <1>0, DeliveringShape DEF LeavesWith
<1>2. state' # "completed"
  BY <1>1, CompletedSteps DEF Settling
<1>3. \/ stop = "none" /\ stop' = "none" /\ pc'["main"] = "completing"
      \/ op'["main"].do = "complete"
  BY <1>0, <1>2 DEF Settling
<1>4. ~(pc'["main"] = pc["main"] /\ op'["main"] = op["main"])
  BY <1>3 DEF Settling
<1>5. ~Scheduling
  <2>1. Scheduling => /\ pc["main"] # "lock" /\ pc'["main"] # "completing"
                      /\ op'["main"] \in {op["main"], [do |-> "consume"]}
    BY <1>0, SchedulingShape DEF Scheduling, Moves, AsksFor
  <2> QED BY <1>0, <1>3, <2>1
<1>6. ~Stopping
  <2>1. Stopping => /\ pc'["main"] # "completing"
                    /\ \/ pc["main"] # "lock" /\ op'["main"] = op["main"]
                       \/ op'["main"] = NoOp
    BY <1>0, StoppingShape DEF Stopping
  <2> QED BY <1>0, <1>3, <2>1
<1>7. ~Endings
  <2>1. Endings => /\ pc'["main"] # "completing"
                   /\ \/ pc["main"] # "lock" /\ op'["main"] = op["main"]
                      \/ op'["main"] \in {NoOp, [do |-> "finish"]}
    BY <1>0, FinishingShape DEF Endings, Moves, AsksFor, LeavesWith
  <2> QED BY <1>0, <1>3, <2>1
<1>8. Delivering
  BY <1>4, <1>5, <1>6, <1>7, MainStays
<1>9. CASE Consumed \/ ConsumeFails \/ Completed
  <2>1. pc'["main"] # "completing" /\ op'["main"] = NoOp
    BY <1>0, <1>9, DeliveringShape DEF LeavesWith
  <2> QED BY <1>0, <1>3, <2>1
<1>10. CASE Prepare
  <2>1. pc'["main"] # "completing" /\ op'["main"] = [do |-> "prepare"]
    BY <1>0, <1>10, DeliveringShape DEF AsksFor
  <2> QED BY <1>3, <2>1
<1>11. CASE Completing
  <2>1. pc["main"] = "completing" /\ stop = "none"
    BY <1>0, <1>11, DeliveringShape DEF AsksFor
  <2> QED BY <2>1 DEF Settling
<1>12. CASE Prepared
  <2>1. /\ \/ pc["main"] = "complete" /\ op'["main"] = op["main"]
           \/ op'["main"] = NoOp
        /\ Unread # {} => pc'["main"] = "propose"
    BY <1>0, <1>12, DeliveringShape DEF Moves, LeavesWith
  <2>2. op'["main"].do = "none"
    BY <1>0, <2>1
  <2> QED BY <1>3, <1>12, <2>1, <2>2
<1> QED BY <1>8, <1>9, <1>10, <1>11, <1>12 DEF Delivering

(* Nothing is unread when everything is delivered, and only then.          *)
LEMMA NothingUnread ==
  ASSUME Types, InboxMirrorsJournal, ~broken, stop = "none", Unread = {}, NEW i \in Ids
  PROVE Delivered(i)
<1>1. msgs[i].to \in SUBSET Agents
  BY MessageFields DEF Types
<1>2. ASSUME NEW a \in Agents PROVE a \notin msgs[i].to \ msgs[i].by
  <2>1. inbox[a] = <<>> /\ ToSet(inbox[a]) = Undelivered(a)
    BY DEF Unread, InboxMirrorsJournal
  <2>2. ToSet(<<>>) = {}
    BY EmptySeq DEF ToSet
  <2> QED BY <2>1, <2>2 DEF Undelivered
<1> QED BY <1>1, <1>2 DEF Delivered

LEMMA AllSettledKept ==
  ASSUME Types, Waits, Rejections, Queued, AgentsAct, Budgets, Preparing, Course,
         InboxMirrorsJournal, AllSettled, Consuming, [Next]_vars
  PROVE AllSettled'
<1> USE DEF Types
<1> SUFFICES ASSUME Settling', ~raised'
             PROVE /\ \A i \in Ids' : msgs'[i].from \in Agents => Delivered(i)'
                   /\ ~Rejecting' =>
                        /\ accepting' = FALSE
                        /\ \A u \in Users : op'[u].do # "send"
                        /\ \A i \in Ids' : Delivered(i)'
  BY DEF AllSettled
<1>0. /\ ControlTypes /\ ~raised /\ ~broken /\ NoOp.do = "none"
      /\ ~Rejecting' => ~Rejecting
      /\ \A p \in Procs : op[p].do # "none" => pc[p] = "lock"
      /\ MessagesGoOn /\ Len(msgs) \in Nat
  BY RaisedStays, RejectingStays, MessageSteps, MessageFields
     DEF ControlTypes, Budgets, NoOp, Waits
<1>1. ASSUME NEW i \in Ids, Delivered(i)
      PROVE Delivered(i)' /\ msgs'[i].from = msgs[i].from
  <2>1. GoesOn(i)
    BY <1>0 DEF MessagesGoOn
  <2> QED BY <1>1, <2>1 DEF GoesOn, Delivered
<1>2. \A i \in Ids' : i \in Ids \/ (i = Len(msgs') /\ Arrives(i))
  BY <1>0 DEF MessagesGoOn, Ids
(* The completion has begun, and no agent acts any more.                   *)
<1>3. CASE Settling
  <2>1. /\ \A i \in Ids : msgs[i].from \in Agents => Delivered(i)
        /\ ~Rejecting => /\ accepting = FALSE
                         /\ \A u \in Users : op[u].do # "send"
                         /\ \A i \in Ids : Delivered(i)
    BY <1>0, <1>3 DEF AllSettled
  <2>2. Stilled /\ pc["main"] \in {"completing", "lock", "ended"}
        /\ op["main"].do \notin {"prepare", "finish"}
    <3>1. CASE stop = "none" /\ pc["main"] = "completing"
      BY <1>0, <3>1, DifferentProcs DEF AgentsAct
    <3>2. CASE op["main"].do = "complete"
      BY <1>0, <3>2, DifferentProcs DEF AgentsAct, Course
    <3>3. CASE state = "completed"
      BY <1>0, <3>3, DifferentProcs DEF AgentsAct, Course, Leaving, Ended
    <3> QED BY <1>3, <3>1, <3>2, <3>3 DEF Settling
  <2>3. ASSUME NEW i, Arrives(i)
        PROVE msgs'[i].from \notin Agents /\ \E u \in Users : op[u].do = "send"
    <3>1. PICK p \in Agents \cup Users : op[p].do = "send" /\ msgs'[i].from = p
      BY <2>3 DEF Arrives
    <3>2. p \notin Agents
      BY <1>0, <2>2, <3>1, DifferentProcs DEF Stilled
    <3> QED BY <3>1, <3>2
  <2>4. \A i \in Ids' : msgs'[i].from \in Agents => Delivered(i)'
    <3>1. ASSUME NEW i \in Ids, msgs'[i].from \in Agents PROVE Delivered(i)'
      <4>1. msgs'[i].from = msgs[i].from
        BY <1>0 DEF MessagesGoOn, GoesOn
      <4> QED BY <1>1, <2>1, <3>1, <4>1
    <3> QED BY <1>2, <2>3, <3>1
  <2>5. ASSUME ~Rejecting' PROVE \A i \in Ids' : Delivered(i)'
    BY <1>0, <1>1, <1>2, <2>1, <2>3, <2>5
  <2>6. UNCHANGED accepting \/ accepting' = FALSE
    <3>1. ~Prepared
      BY <2>2 DEF Prepared, Inside
    <3>2. Delivering => UNCHANGED accepting
      BY <1>0, <3>1, DeliveringShape DEF Delivering, course
    <3>3. Scheduling \/ Stopping \/ Endings => UNCHANGED accepting \/ accepting' = FALSE
      BY <1>0, SchedulingShape, StoppingShape, FinishingShape
         DEF Scheduling, Stopping, Endings, course
    <3>4. ASSUME \/ \E a \in Agents : AgentStep(a)
                 \/ \E u \in Users : UserPosts(u)
                 \/ \E p \in Agents \cup Users : InsideStep(p)
          PROVE UNCHANGED accepting
      BY <1>0, <3>4, AgentShape, UserShape, InsideShape DEF course
    <3>5. StopRequested \/ UNCHANGED vars => UNCHANGED accepting
      BY DEF StopRequested, vars, course
    <3> QED BY <3>2, <3>3, <3>4, <3>5, NextShapes
  <2>7. ASSUME ~Rejecting', NEW u \in Users PROVE op'[u].do # "send"
    <3>1. op[u].do # "send" /\ ~MaySend
      BY <1>0, <2>1, <2>7 DEF MaySend
    <3>2. UserPosts(u) => op'[u].do # "send"
      BY <1>0, <3>1, UserShape DEF AsksFor, Moves
    <3>3. InsideStep(u) => op'[u] = NoOp
      BY <1>0, InsideShape DEF LeavesWith
    <3> QED BY <1>0, <3>1, <3>2, <3>3, UserStays
  <2> QED BY <1>0, <2>1, <2>4, <2>5, <2>6, <2>7
(* The completion begins: nothing is unread, and nobody is waiting.        *)
<1>4. CASE ~Settling
  <2>1. Prepared /\ Unread = {} /\ stop = "none"
    BY <1>4, SettlingSteps
  <2>2. /\ \/ lock = <<>> /\ Moves("main", "complete", IF Unread # {} THEN "propose" ELSE "completing")
           \/ LeavesWith("main", "prepare", IF Unread # {} THEN "propose" ELSE "completing")
        /\ accepting' = (Unread # {}) /\ UNCHANGED journal
    BY <1>0, <2>1, DeliveringShape
  <2>3. \A i \in Ids : Delivered(i)
    BY <1>0, <2>1, NothingUnread
  <2>4. \A i \in Ids' : Delivered(i)'
    BY <2>2, <2>3 DEF journal, Delivered, Ids
  <2>5. ASSUME ~Rejecting', NEW u \in Users PROVE op'[u].do # "send"
    <3>1. lock = <<>> /\ Moves("main", "complete", IF Unread # {} THEN "propose" ELSE "completing")
      BY <1>0, <2>1, <2>2, <2>5 DEF Preparing, LeavesWith
    <3>2. op[u].do = "none"
      BY <2>1, <3>1, DifferentProcs, EmptySeq DEF Queued
    <3>3. op'[u] = op[u]
      BY <3>1, DifferentProcs DEF Moves, OthersStay
    <3> QED BY <3>2, <3>3
  <2>6. accepting' = FALSE
    BY <2>1, <2>2
  <2> QED BY <2>4, <2>5, <2>6
<1> QED BY <1>3, <1>4

-----------------------------------------------------------------------------
(* The inductive invariant, and what follows from it.                      *)

LEMMA InitInv == Init => TeamInv
<1> SUFFICES ASSUME Init PROVE TeamInv
  OBVIOUS
<1>0. /\ state = "running" /\ stop = "none" /\ msgs = <<>> /\ broken = FALSE
      /\ raised = FALSE /\ open = {} /\ sent = 0 /\ lock = <<>> /\ Len(msgs) = 0
      /\ pc["main"] = "propose" /\ op["main"] = NoOp /\ NoOp.do = "none"
      /\ \A a \in Agents : /\ pc[a] = "idle" /\ op[a] = NoOp
                           /\ inbox[a] = <<>> /\ turns[a] = 0
      /\ \A u \in Users : pc[u] = "idle" /\ op[u] = NoOp
      /\ \A p \in Procs : op[p] = NoOp /\ pc[p] \in {"propose", "idle"}
  BY DifferentProcs DEF Init, NoOp
<1>1. Ids = {}
  BY <1>0 DEF Ids
<1>2. {MaxMessages, MaxTurns, MaxThreads} \subseteq Nat
  BY TeamAssumption
<1>3. Types
  <2>1. MsgTypes /\ BoxTypes
    BY DEF Init, MsgTypes, BoxTypes
  <2>2. BookTypes
    <3>1. turns \in [Agents -> Nat]
      BY DEF Init
    <3>2. open \subseteq Nat /\ IsFiniteSet(open) /\ sent \in Nat
      BY <1>0, FS_EmptySet
    <3>3. raised \in BOOLEAN /\ broken \in BOOLEAN
      BY <1>0
    <3>4. state \in {"running", "cancelling"} \cup Ended /\ stop \in {"none", "failed", "cancelled"}
      BY <1>0
    <3> QED BY <3>1, <3>2, <3>3, <3>4 DEF BookTypes
  <2>3. PlanTypes
    BY DEF Init, NoPlan, PlanTypes, Plans
  <2>4. PcTypes
    BY DEF Init, PcTypes, Labels
  <2>5. OpTypes
    <3>1. /\ DOMAIN op = Procs /\ NoOp \in AgentOps /\ NoOp \in UserOps /\ NoOp \in MainOps
      BY DEF Init, AgentOps, UserOps, MainOps
    <3> QED BY <1>0, <3>1 DEF OpTypes
  <2> QED BY <2>1, <2>2, <2>3, <2>4, <2>5 DEF Types
<1>4. Waits /\ Rejections /\ Consuming
  BY <1>0 DEF Waits, Rejections, Consuming
<1>5. Queued
  BY <1>0, EmptySeq DEF Queued
<1>6. AgentsAct /\ Course
  BY <1>0 DEF AgentsAct, Stilled, Leaving, Course, Ended
<1>7. InboxMirrorsJournal
  <2>1. ToSet(<<>>) = {} /\ Ascending(<<>>)
    BY EmptySeq DEF ToSet, Ascending
  <2> QED BY <1>0, <1>1, <2>1 DEF InboxMirrorsJournal, Undelivered
<1>8. Budgets
  <2>1. FromAgents = {} /\ Cardinality({}) = 0
    BY <1>1, FS_EmptySet DEF FromAgents
  <2> QED BY <1>0, <1>2, <2>1 DEF Budgets
<1>9. PendingIsUndelivered /\ InterruptedLast
  BY <1>1 DEF PendingIsUndelivered, InterruptedLast
<1>10. Preparing /\ AllSettled /\ NonePending
  BY <1>0 DEF Preparing, AllSettled, Settling, NonePending
<1> QED BY <1>3, <1>4, <1>5, <1>6, <1>7, <1>8, <1>9, <1>10 DEF TeamInv

LEMMA NextInv == TeamInv /\ [Next]_vars => TeamInv'
<1> SUFFICES ASSUME TeamInv, [Next]_vars PROVE TeamInv'
  OBVIOUS
<1> USE DEF TeamInv
<1>1. Types'
  BY TypesKept
<1>2. Waits' /\ Rejections' /\ Queued'
  BY WaitsKept, RejectionsKept, QueuedKept
<1>3. AgentsAct' /\ Consuming'
  BY AgentsActKept, ConsumingKept
<1>4. Course'
  BY CourseKept DEF Budgets
<1>5. InboxMirrorsJournal' /\ Budgets'
  BY MirrorKept, BudgetsKept
<1>6. PendingIsUndelivered' /\ InterruptedLast' /\ NonePending'
  BY PendingKept, InterruptedLastKept, NonePendingKept
<1>7. Preparing' /\ AllSettled'
  BY PreparingKept, AllSettledKept
<1> QED BY <1>1, <1>2, <1>3, <1>4, <1>5, <1>6, <1>7

(* Whatever the agents, the users and the main task do, and whatever the   *)
(* journal does, what each of them waits for and relies on holds.          *)
THEOREM TeamInvariant == Spec => []TeamInv
BY InitInv, NextInv, PTL DEF Spec

(* While the Run goes on and the journal has not failed, every inbox in    *)
(* memory holds exactly the journal's undelivered messages to its agent,   *)
(* oldest first.                                                           *)
THEOREM InboxesMirrorJournal == Spec => []InboxMirrorsJournal
<1>1. TeamInv => InboxMirrorsJournal
  BY DEF TeamInv
<1> QED BY <1>1, TeamInvariant, PTL

(* The agents' messages, the open threads and each agent's turns stay      *)
(* within the limits the Run was given, also those the journal has written *)
(* and the kernel never heard of.                                          *)
THEOREM BudgetsAreHeld == Spec => []BudgetsHeld
<1>1. TeamInv => BudgetsHeld
  BY DEF TeamInv, Budgets, BudgetsHeld, FromAgents
<1> QED BY <1>1, TeamInvariant, PTL

(* No step makes a message pending again, and none touches one that was    *)
(* interrupted.                                                            *)
THEOREM StatusesMoveOn == Spec => StatusMovesOn
<1>1. TeamInv /\ [Next]_vars =>
        [\A i \in Ids :
           /\ msgs'[i].status = "pending" => msgs[i].status = "pending"
           /\ msgs[i].status = "interrupted" => msgs'[i] = msgs[i]]_vars
  BY InterruptedStays DEF TeamInv
<1> QED BY <1>1, TeamInvariant, PTL DEF Spec, StatusMovesOn

(* A Run whose journal never raised has settled every agent's message when *)
(* it ends, and has delivered every message when it completes, unless a    *)
(* post was rejected.                                                      *)
THEOREM NothingIsLeftBehind == Spec => []NothingLeftBehind
<1>1. ASSUME TeamInv, ~raised PROVE AgentMessagesSettled /\ (~Rejecting => CompletedIsDelivered)
  <2>1. ASSUME state = "completed"
        PROVE /\ \A i \in Ids : msgs[i].from \in Agents => Delivered(i)
              /\ ~Rejecting => \A i \in Ids : Delivered(i)
    BY <1>1, <2>1 DEF TeamInv, AllSettled, Settling
  <2>2. ASSUME state \in {"failed", "cancelled"}
        PROVE \A i \in Ids : msgs[i].from \in Agents => msgs[i].status # "pending"
    <3>1. pc["main"] = "ended" /\ stop # "none"
      BY <1>1, <2>2 DEF TeamInv, Course, Ended
    <3> QED BY <1>1, <3>1 DEF TeamInv, NonePending
  <2>3. AgentMessagesSettled
    BY <1>1, <2>1, <2>2 DEF AgentMessagesSettled, Ended, TeamInv, PendingIsUndelivered
  <2>4. ~Rejecting => CompletedIsDelivered
    BY <2>1 DEF CompletedIsDelivered, Delivered
  <2> QED BY <2>3, <2>4
<1>2. TeamInv => NothingLeftBehind
  BY <1>1 DEF NothingLeftBehind
<1> QED BY <1>2, TeamInvariant, PTL
=============================================================================
