-------------------------- MODULE TeamCollaboration --------------------------
(***************************************************************************)
(* One collaborative Run: the kernel's team part (runtime/engine.py), the  *)
(* CollaborativeTeamPolicy that schedules its peers, and the TeamJournal.  *)
(* Agents in a turn and users send messages while the main task schedules, *)
(* delivers and completes.  What changes team state waits for the kernel's *)
(* _sequence_lock, an asyncio.Lock, which is fair; the checks a sender     *)
(* makes before it asks for the lock are not made again inside it.         *)
(*                                                                         *)
(* A message's place in msgs is its id and its Conversation sequence; a    *)
(* thread is named by the message that opened it.                          *)
(***************************************************************************)
EXTENDS Naturals, Sequences, FiniteSets, SequencesExt

CONSTANTS
  Team,         \* the Run's agents, in their configured order
  Mentioned,    \* metadata.mentioned_agent_ids, in the Team's order
  Summary,      \* metadata.summary_agent_id, or "none"
  Users,        \* posts of user input while the Run is live, one each
  Invalid,      \* those the kernel refuses, leaving a rejection event
  MaxMessages,  \* limits.max_collaboration_messages
  MaxTurns,     \* limits.max_agent_turns
  MaxThreads,   \* limits.max_open_threads
  Calls,        \* bound: calls an agent makes in one turn
  Stops,        \* how the Run may be stopped: "failed", "cancelled"
  Faults        \* the TeamJournal may fail, before or after it commits

Agents == ToSet(Team)

ASSUME TeamAssumption ==
  /\ Team \in Seq(Agents) /\ Team # <<>>    \* run_types.py asks for an agent
  /\ Mentioned \subseteq Agents /\ Summary \in Agents \cup {"none"}
  /\ Invalid \subseteq Users /\ Stops \subseteq {"failed", "cancelled"}
  /\ {MaxMessages, MaxTurns, MaxThreads, Calls} \subseteq Nat
  /\ Faults \in BOOLEAN /\ Agents \cap (Users \cup {"main", "none"}) = {}
  /\ "main" \notin Users

VARIABLES
  state,      \* the Run's state
  accepting,  \* _accepting_team_messages
  stop,       \* how the Run is being stopped, or "none"
  failure,    \* _collaboration_failure_reason is set
  msgs,       \* the TeamJournal's messages
  broken,     \* it holds an event whose append raised
  raised,     \* history: a call of the TeamJournal has raised
  inbox,      \* _team_unread
  open,       \* _team_open_threads
  sent,       \* _collaboration_message_count
  turns,      \* _agent_turn_counts
  summary,    \* "no", "scheduled", "done"
  lock,       \* _sequence_lock: holder, then waiters
  pc, op,     \* where each process is, and what it wants the lock for
  plan,       \* the proposal the main task acts on
  calls       \* calls each agent has made in its turn

team == <<msgs, broken, raised, inbox, open, sent, failure>>
course == <<state, accepting, stop>>
schedule == <<turns, summary, plan, calls>>
vars == <<team, course, schedule, lock, pc, op>>

Procs == Agents \cup Users \cup {"main"}
Ended == {"completed", "failed", "cancelled"}
NoOp == [do |-> "none"]
Ids == 1..Len(msgs)

TypeOK ==
  /\ state \in {"running", "cancelling"} \cup Ended
  /\ accepting \in BOOLEAN /\ failure \in BOOLEAN
  /\ broken \in BOOLEAN /\ raised \in BOOLEAN
  /\ stop \in Stops \cup {"none", "failed"}
  /\ \A i \in Ids :
       /\ msgs[i].from \in Agents \cup Users
       /\ msgs[i].to \subseteq Agents /\ msgs[i].by \subseteq msgs[i].to
       /\ msgs[i].thread \in 0..Len(msgs)
       /\ msgs[i].status \in {"pending", "consumed", "resolved", "interrupted"}
  /\ inbox \in [Agents -> Seq(Ids)] /\ open \subseteq Ids /\ sent \in Nat
  /\ turns \in [Agents -> Nat] /\ summary \in {"no", "scheduled", "done"}
  /\ lock \in Seq(Procs) /\ DOMAIN pc = Procs /\ DOMAIN op = Procs
  /\ plan.todo \subseteq Agents /\ plan.batch \subseteq Agents
  /\ calls \in [Agents -> Nat]

NoPlan == [do |-> "start", todo |-> {}, batch |-> {}, summary |-> FALSE]

Init ==
  /\ state = "running" /\ accepting = TRUE /\ stop = "none" /\ failure = FALSE
  /\ msgs = <<>> /\ broken = FALSE /\ raised = FALSE
  /\ inbox = [a \in Agents |-> <<>>] /\ open = {} /\ sent = 0
  /\ turns = [a \in Agents |-> 0] /\ summary = "no" /\ lock = <<>>
  /\ pc = [p \in Procs |-> IF p = "main" THEN "propose" ELSE "idle"]
  /\ op = [p \in Procs |-> NoOp]
  /\ plan = NoPlan /\ calls = [a \in Agents |-> 0]

Go(p, label) == pc' = [pc EXCEPT ![p] = label]
Ask(p, what) ==
  /\ lock' = Append(lock, p) /\ op' = [op EXCEPT ![p] = what] /\ Go(p, "lock")
Leave(p, label) ==
  /\ lock' = Tail(lock) /\ op' = [op EXCEPT ![p] = NoOp] /\ Go(p, label)
Inside(p, what) == lock # <<>> /\ Head(lock) = p /\ op[p].do = what
Stay == UNCHANGED <<lock, op>>

-----------------------------------------------------------------------------
(* Sending: the checks before the lock, then the append inside it.         *)

Send(to, thread, reply, expects) ==
  [do |-> "send", to |-> to, thread |-> thread, reply |-> reply, expects |-> expects]

MaySend == state = "running" /\ accepting

(* send_message, by an agent in its turn.  No recipient is everybody else; *)
(* it may answer a message it has seen, within its thread or another one.  *)
AgentSends(a) ==
  /\ pc[a] = "turn" /\ calls[a] < Calls
  /\ calls' = [calls EXCEPT ![a] = @ + 1]
  /\ \E to \in SUBSET Agents, expects \in BOOLEAN, thread \in open \cup {0} :
       \E reply \in {i \in Ids : a \in msgs[i].by \/ msgs[i].from = a} \cup {0} :
         LET all == IF to = {} THEN Agents \ {a} ELSE to IN
         IF MaySend /\ a \notin all /\ all # {}
         THEN Ask(a, Send(all, thread, reply, expects)) /\ UNCHANGED failure
         ELSE failure' = TRUE /\ Go(a, "turn") /\ Stay
  /\ UNCHANGED <<course, msgs, broken, raised, inbox, open, sent, turns, summary, plan>>

(* post_message.  A refused post leaves a rejection event, whose emission  *)
(* takes the lock too, unless the Run has ended.                           *)
UserPosts(u) ==
  /\ pc[u] = "idle"
  /\ IF MaySend /\ u \notin Invalid
     THEN \E to \in SUBSET Agents :
            Ask(u, Send(IF to = {} THEN Agents ELSE to, 0, 0, FALSE))
     ELSE IF state \notin Ended THEN Ask(u, [do |-> "reject"])
     ELSE Go(u, "refused") /\ Stay
  /\ UNCHANGED <<team, course, schedule>>

Rejected(u) ==
  /\ Inside(u, "reject")
  /\ Leave(u, "rejected")
  /\ UNCHANGED <<team, course, schedule>>

Return(p) == IF p \in Agents THEN "turn" ELSE "posted"
Refuse(p) == IF p \in Agents THEN "turn" ELSE "refused"

Thread(m) ==
  IF m.thread # 0 THEN m.thread
  ELSE IF m.reply # 0
       THEN IF msgs[m.reply].thread # 0 THEN msgs[m.reply].thread ELSE m.reply
  ELSE IF m.expects THEN Len(msgs) + 1
  ELSE 0

(* Mutant: an agent's message is never too many.                           *)
MutantOverBudget(p) ==
  LET t == Thread(op[p]) IN t \notin open \cup {0} /\ Cardinality(open) >= MaxThreads
OverBudget(p) ==
  LET t == Thread(op[p]) IN
  \/ p \in Agents /\ sent >= MaxMessages
  \/ t \notin open \cup {0} /\ Cardinality(open) >= MaxThreads

Appended(p) ==
  Append(msgs, [from |-> p, to |-> op[p].to, thread |-> Thread(op[p]),
                by |-> {}, status |-> "pending"])

(* A budget is no failure of the Run when a user exceeds it.               *)
SendRefused(p) ==
  /\ Inside(p, "send") /\ OverBudget(p)
  /\ failure' = (failure \/ p \in Agents)
  /\ Leave(p, Refuse(p))
  /\ UNCHANGED <<course, schedule, msgs, broken, raised, inbox, open, sent>>

Sent(p) ==
  /\ Inside(p, "send") /\ ~OverBudget(p) /\ ~broken
  /\ msgs' = Appended(p)
  /\ inbox' = [a \in Agents |->
       IF a \in op[p].to THEN Append(inbox[a], Len(msgs')) ELSE inbox[a]]
  /\ open' = open \cup ({Thread(op[p])} \ {0})
  /\ sent' = IF p \in Agents THEN sent + 1 ELSE sent
  /\ Leave(p, Return(p))
  /\ UNCHANGED <<course, schedule, broken, raised, failure>>

(* append_message raises, perhaps after it has committed; from then on the *)
(* journal's sequence is ahead of the kernel's and every append conflicts. *)
SendFails(p) ==
  /\ Inside(p, "send") /\ ~OverBudget(p) /\ (Faults \/ broken)
  /\ \/ UNCHANGED <<msgs, broken>>
     \/ ~broken /\ msgs' = Appended(p) /\ broken' = TRUE
  /\ failure' = TRUE /\ raised' = TRUE
  /\ Leave(p, Refuse(p))
  /\ UNCHANGED <<course, schedule, inbox, open, sent>>

-----------------------------------------------------------------------------
(* resolve_thread                                                          *)

AgentResolves(a) ==
  /\ pc[a] = "turn" /\ calls[a] < Calls
  /\ calls' = [calls EXCEPT ![a] = @ + 1]
  /\ \E t \in open : Ask(a, [do |-> "resolve", thread |-> t])
  /\ UNCHANGED <<team, course, turns, summary, plan>>

Settled(t) ==
  [i \in Ids |-> IF msgs[i].thread = t THEN [msgs[i] EXCEPT !.status = "resolved"] ELSE msgs[i]]

(* Another agent may have resolved it first.                               *)
Resolved(a) ==
  /\ Inside(a, "resolve")
  /\ LET t == op[a].thread IN
     \/ /\ t \notin open
        /\ failure' = TRUE /\ UNCHANGED <<msgs, open, raised>>
     \/ /\ t \in open /\ ~broken
        /\ msgs' = Settled(t) /\ open' = open \ {t} /\ UNCHANGED <<failure, raised>>
     \/ /\ t \in open /\ (Faults \/ broken)
        /\ failure' = TRUE /\ raised' = TRUE /\ UNCHANGED <<msgs, open>>
  /\ Leave(a, "turn")
  /\ UNCHANGED <<course, schedule, broken, inbox, sent>>

-----------------------------------------------------------------------------
(* The main task: propose, consume the targets' inboxes, let them take     *)
(* their turns, accept their reports.                                      *)

(* CollaborativeTeamPolicy.propose, on a snapshot that may be stale when   *)
(* the proposal is acted on.  Its targets are taken in the Team's order.   *)
Unread == {a \in Agents : inbox[a] # <<>>}
First(todo) ==
  Team[CHOOSE i \in DOMAIN Team : /\ Team[i] \in todo
                                  /\ \A j \in 1..(i - 1) : Team[j] \notin todo]
Assign(targets, isSummary) ==
  [do |-> "assign", todo |-> targets, batch |-> targets, summary |-> isSummary]
Proposal ==
  IF plan.do = "start" THEN Assign(IF Mentioned # {} THEN Mentioned ELSE Agents, FALSE)
  ELSE IF Unread # {} THEN Assign(Unread, FALSE)
  ELSE IF Summary # "none" /\ summary = "no" THEN Assign({Summary}, TRUE)
  ELSE IF Summary # "none" /\ summary = "scheduled"
       THEN [do |-> "wait", todo |-> {}, batch |-> {}, summary |-> FALSE]
  ELSE [do |-> "complete", todo |-> {}, batch |-> {}, summary |-> FALSE]

Propose ==
  /\ pc["main"] = "propose" /\ stop = "none"
  /\ plan' = Proposal
  /\ IF Proposal.do = "wait"
     THEN stop' = "failed" /\ Go("main", "stopping")   \* no_progress, in the end
     ELSE UNCHANGED stop /\ Go("main", Proposal.do)
  /\ Stay /\ UNCHANGED <<team, state, accepting, turns, summary, calls>>

(* The next target's turn is counted; a summary turn does not consume.     *)
AssignNext ==
  /\ pc["main"] = "assign" /\ stop = "none" /\ plan.todo # {}
  /\ IF turns[First(plan.todo)] >= MaxTurns
     THEN /\ stop' = "failed"                   \* agent_turn_budget_exhausted
          /\ Go("main", "stopping") /\ UNCHANGED turns
     ELSE /\ turns' = [turns EXCEPT ![First(plan.todo)] = @ + 1]
          /\ Go("main", "consume") /\ UNCHANGED stop
  /\ summary' = IF plan.summary THEN "scheduled" ELSE summary
  /\ Stay /\ UNCHANGED <<team, state, accepting, plan, calls>>

ConsumeNext ==
  /\ pc["main"] = "consume" /\ stop = "none"
  /\ LET a == First(plan.todo) IN
     IF plan.summary \/ inbox[a] = <<>>
     THEN /\ plan' = [plan EXCEPT !.todo = @ \ {a}]
          /\ Go("main", "assign") /\ Stay
     ELSE Ask("main", [do |-> "consume"]) /\ UNCHANGED plan
  /\ UNCHANGED <<team, course, turns, summary, calls>>

(* mark_consumed: the last recipient to consume a message settles it.      *)
ConsumedBy(m, a) ==
  [m EXCEPT !.by = @ \cup {a},
            !.status = IF m.to \subseteq m.by \cup {a} THEN "consumed" ELSE @]

(* Mutants: the message stays in the inbox; the newest one is taken off.   *)
MutantConsumedKept ==
  /\ Inside("main", "consume") /\ ~broken
  /\ LET a == First(plan.todo) IN
       msgs' = [msgs EXCEPT ![Head(inbox[a])] = ConsumedBy(@, a)]
  /\ Leave("main", "consume")
  /\ UNCHANGED <<course, schedule, broken, raised, inbox, open, sent, failure>>

MutantConsumed ==
  /\ Inside("main", "consume") /\ ~broken
  /\ LET a == First(plan.todo) IN
       /\ msgs' = [msgs EXCEPT ![Head(inbox[a])] = ConsumedBy(@, a)]
       /\ inbox' = [inbox EXCEPT ![a] = Front(@)]
  /\ Leave("main", "consume")
  /\ UNCHANGED <<course, schedule, broken, raised, open, sent, failure>>

Consumed ==
  /\ Inside("main", "consume") /\ ~broken
  /\ LET a == First(plan.todo) IN
       /\ msgs' = [msgs EXCEPT ![Head(inbox[a])] = ConsumedBy(@, a)]
       /\ inbox' = [inbox EXCEPT ![a] = Tail(@)]
  /\ Leave("main", "consume")
  /\ UNCHANGED <<course, schedule, broken, raised, open, sent, failure>>

ConsumeFails ==
  /\ Inside("main", "consume") /\ (Faults \/ broken)
  /\ LET a == First(plan.todo) IN
     \/ UNCHANGED <<msgs, broken>>
     \/ /\ ~broken /\ broken' = TRUE
        /\ msgs' = [msgs EXCEPT ![Head(inbox[a])] = ConsumedBy(@, a)]
  /\ failure' = TRUE /\ raised' = TRUE /\ stop' = "failed"
  /\ Leave("main", "stopping")
  /\ UNCHANGED <<state, accepting, schedule, inbox, open, sent>>

TurnsStart ==
  /\ pc["main"] = "assign" /\ stop = "none" /\ plan.todo = {}
  /\ pc' = [p \in Procs |-> IF p = "main" THEN "gather"
                            ELSE IF p \in plan.batch THEN "turn" ELSE pc[p]]
  /\ calls' = [a \in Agents |-> IF plan.summary THEN Calls ELSE 0]
  /\ Stay /\ UNCHANGED <<team, course, turns, summary, plan>>

AgentReports(a) ==
  /\ pc[a] = "turn"
  /\ Go(a, "idle")
  /\ Stay /\ UNCHANGED <<team, course, schedule>>

Gathered ==
  /\ pc["main"] = "gather" /\ stop = "none"
  /\ \A a \in plan.batch : pc[a] = "idle"
  /\ summary' = IF plan.summary THEN "done" ELSE summary
  /\ IF failure THEN stop' = "failed" /\ Go("main", "stopping")
     ELSE Go("main", "propose") /\ UNCHANGED stop
  /\ Stay /\ UNCHANGED <<team, state, accepting, turns, plan, calls>>

-----------------------------------------------------------------------------
(* Completion and the other ends of a Run.                                 *)

(* _prepare_collaboration_complete; it suspends only if the lock is taken. *)
Prepare ==
  /\ pc["main"] = "complete" /\ stop = "none" /\ lock # <<>>
  /\ Ask("main", [do |-> "prepare"])
  /\ UNCHANGED <<team, course, schedule>>

(* Mutant: messages are still accepted while the Run completes.            *)
MutantPreparedAt(label) ==
  /\ Go("main", IF Unread # {} THEN "propose" ELSE label)
  /\ UNCHANGED accepting

PreparedAt(label) ==
  /\ Go("main", IF Unread # {} THEN "propose" ELSE label)
  /\ accepting' = (Unread # {})

Prepared ==
  /\ \/ /\ pc["main"] = "complete" /\ stop = "none" /\ lock = <<>>
        /\ Stay
     \/ /\ Inside("main", "prepare")
        /\ lock' = Tail(lock) /\ op' = [op EXCEPT !["main"] = NoOp]
  /\ PreparedAt("completing")
  /\ UNCHANGED <<team, state, stop, schedule>>

(* Actors are stopped, and the completion is started unless the Run was    *)
(* cancelled; it can then not be cancelled any more.                       *)
Completing ==
  /\ pc["main"] = "completing" /\ stop = "none"
  /\ Ask("main", [do |-> "complete"])
  /\ UNCHANGED <<team, course, schedule>>

(* try_complete; when it raises the Run fails instead.                     *)
Completed ==
  /\ Inside("main", "complete")
  /\ \/ ~broken /\ state' = "completed" /\ UNCHANGED raised
     \/ (Faults \/ broken) /\ state' = "failed" /\ raised' = TRUE
  /\ Leave("main", "ended")
  /\ UNCHANGED <<msgs, broken, inbox, open, sent, failure, accepting, stop, schedule>>

(* A watchdog, a failed turn, fail() or cancel(), at any moment before the *)
(* completion has begun; cancel() changes the state at once.               *)
Stopped(how) ==
  /\ stop = "none" /\ pc["main"] # "ended" /\ op["main"].do # "complete"
  /\ stop' = how
  /\ state' = IF how = "cancelled" THEN "cancelling" ELSE state
  /\ Stay /\ UNCHANGED <<team, accepting, schedule, pc>>

(* The main task is cancelled where it waits.                              *)
Unwinds ==
  /\ stop # "none" /\ pc["main"] \notin {"stopping", "finish", "interrupt", "ended"}
  /\ op["main"].do # "finish"
  /\ lock' = SelectSeq(lock, LAMBDA p : p # "main")
  /\ op' = [op EXCEPT !["main"] = NoOp]
  /\ Go("main", "stopping")
  /\ UNCHANGED <<team, course, schedule>>

(* _stop_actors(force): the agents' calls are cancelled with them, those   *)
(* of users are not.                                                       *)
(* Mutant: the actors are not stopped.                                     *)
MutantActorsStopped ==
  /\ pc["main"] = "stopping"
  /\ Go("main", "finish")
  /\ Stay /\ UNCHANGED <<team, course, schedule>>

ActorsStopped ==
  /\ pc["main"] = "stopping"
  /\ lock' = SelectSeq(lock, LAMBDA p : p \notin Agents)
  /\ op' = [p \in Procs |-> IF p \in Agents THEN NoOp ELSE op[p]]
  /\ pc' = [p \in Procs |-> IF p = "main" THEN "finish" ELSE
                            IF p \in Agents THEN "idle" ELSE pc[p]]
  /\ UNCHANGED <<team, course, schedule>>

(* _finish: no more messages, interrupt_run, then the terminal event under *)
(* the lock.  A failing interrupt_run is passed over, and not repeated.    *)
Finishing ==
  /\ pc["main"] = "finish"
  /\ accepting' = FALSE
  /\ Go("main", "interrupt")
  /\ Stay /\ UNCHANGED <<team, state, stop, schedule>>

InterruptedAll ==
  [i \in Ids |-> IF msgs[i].status = "pending"
                 THEN [msgs[i] EXCEPT !.status = "interrupted"] ELSE msgs[i]]

Interrupts ==
  /\ pc["main"] = "interrupt"
  /\ \/ msgs' = InterruptedAll /\ UNCHANGED raised
     \/ Faults /\ raised' = TRUE /\ UNCHANGED msgs
  /\ Ask("main", [do |-> "finish"])
  /\ UNCHANGED <<broken, inbox, open, sent, failure, course, schedule>>

Finished ==
  /\ Inside("main", "finish")
  /\ state' = stop
  /\ Leave("main", "ended")
  /\ UNCHANGED <<team, accepting, stop, schedule>>

SendInside(p) == SendRefused(p) \/ Sent(p) \/ SendFails(p)
AgentStep(a) == AgentSends(a) \/ AgentResolves(a) \/ AgentReports(a)
InsideStep(p) == SendInside(p) \/ Resolved(p) \/ Rejected(p)
MainStep ==
  \/ Propose \/ AssignNext \/ ConsumeNext \/ Consumed \/ ConsumeFails
  \/ TurnsStart \/ Gathered \/ Prepare \/ Prepared \/ Completing \/ Completed
  \/ Unwinds \/ ActorsStopped \/ Finishing \/ Interrupts \/ Finished

Over == state \in Ended /\ lock = <<>> /\ UNCHANGED vars

Next ==
  \/ \E a \in Agents : AgentStep(a)
  \/ \E u \in Users : UserPosts(u)
  \/ \E p \in Agents \cup Users : InsideStep(p)
  \/ MainStep
  \/ \E how \in Stops \cup (IF broken THEN {"failed"} ELSE {}) : Stopped(how)
  \/ Over

Spec == Init /\ [][Next]_vars

(* The event loop runs what is ready; an agent's turn is bounded by its    *)
(* tool rounds, and it reports in the end.                                 *)
Fairness ==
  /\ WF_vars(MainStep)
  /\ \A a \in Agents : WF_vars(AgentStep(a)) /\ WF_vars(InsideStep(a))
  /\ \A u \in Users : WF_vars(InsideStep(u))

FairSpec == Spec /\ Fairness

-----------------------------------------------------------------------------
(* What team collaboration promises.                                       *)

(* The inboxes in memory are the journal's undelivered messages, each      *)
(* once and oldest first, while the Run goes on and the journal has not    *)
(* failed.                                                                 *)
Ascending(s) == \A i, j \in DOMAIN s : i < j => s[i] < s[j]
Undelivered(a) == {i \in Ids : a \in msgs[i].to \ msgs[i].by}
InboxMirrorsJournal ==
  ~broken /\ stop = "none" =>
    \A a \in Agents : Ascending(inbox[a]) /\ ToSet(inbox[a]) = Undelivered(a)

(* Budgets hold whoever sends at once, by what the journal shows.          *)
BudgetsHeld ==
  /\ Cardinality({i \in Ids : msgs[i].from \in Agents}) <= MaxMessages
  /\ Cardinality(open) <= MaxThreads
  /\ \A a \in Agents : turns[a] <= MaxTurns

(* A completed Run leaves no message undelivered.                          *)
CompletedIsDelivered ==
  state = "completed" => \A i \in Ids : msgs[i].to \subseteq msgs[i].by

(* No agent's message is left pending by a Run that has ended: delivered   *)
(* or resolved when it completes, interrupted when it is stopped, if the   *)
(* journal does not fail.                                                  *)
AgentMessagesSettled ==
  state \in Ended =>
    \A i \in Ids : msgs[i].from \in Agents => msgs[i].status # "pending"

(* While no call of the journal raises, neither a completed nor a stopped  *)
(* Run forgets a message: no ended Run leaves an agent's message pending,  *)
(* and a completed one has delivered every message, unless a post was      *)
(* rejected, whose event can hold the lock while the Run completes.        *)
Rejecting == \E p \in DOMAIN op : op[p].do = "reject" \/ pc[p] = "rejected"
NothingLeftBehind ==
  ~raised => /\ AgentMessagesSettled
             /\ ~Rejecting => CompletedIsDelivered

(* The same of every message, which invariants.md asks for.                *)
AllMessagesSettled ==
  state \in {"failed", "cancelled"} => \A i \in Ids : msgs[i].status # "pending"

(* A message is never pending again, and an interrupted one is never       *)
(* delivered or resolved.                                                  *)
StatusMovesOn ==
  [][\A i \in Ids :
       /\ msgs'[i].status = "pending" => msgs[i].status = "pending"
       /\ msgs[i].status = "interrupted" => msgs'[i] = msgs[i]]_vars

(* However the agents answer each other, the Run ends.                     *)
RunEnds == <>(state \in Ended)
=============================================================================
