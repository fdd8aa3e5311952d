----------------------------- MODULE MCRunKernel -----------------------------
(* Safety of one Run in three rooms.  "agent": an agent with a history and *)
(* a narrow context budget over a database (the constants of the .cfg).    *)
(* And its kernel, under both kinds of journal: "sql", a database that     *)
(* suspends its caller and may refuse or lose an answer, and "local",      *)
(* adapters that do not suspend, with an event sink beside them.           *)
EXTENDS AgentLoop

VARIABLES
  room,
  state, events, context, loaded, outbox,
  kstate, forced, scope, lease, sequence, decisions, result, seqLock, finLock,
  pc, emission, ending, mode, cancelled, quit, job, emitted

Said(role) == Message(role, <<>>, 1)
TwoTurns == <<Said("user"), Said("assistant"), Said("user"), Said("assistant")>>
ThreeKinds == {[size |-> 1, records |-> FALSE], [size |-> 3, records |-> FALSE],
               [size |-> 3, records |-> TRUE]}

Sql == INSTANCE RunKernel WITH
  Agents <- {"a1"}, FailCallers <- {"f1"}, SuspendingJournal <- TRUE, HasSink <- FALSE,
  MaxDecisions <- 1, MaxAgentEvents <- 1, Actions <- {"fail", "complete", "assign", "wait"},
  Aborts <- {"token_budget_exhausted"}, AgentErrors <- TRUE, WatchdogFires <- TRUE,
  Cancels <- TRUE, EarlyCalls <- TRUE, StoreFaults <- {"clean", "ambiguous"},
  RivalCommits <- TRUE
Local == INSTANCE RunKernel WITH
  Agents <- {"a1"}, FailCallers <- {"f1"}, SuspendingJournal <- FALSE, HasSink <- TRUE,
  MaxDecisions <- 1, MaxAgentEvents <- 1, Actions <- {"fail", "complete", "assign", "wait"},
  Aborts <- {"token_budget_exhausted"}, AgentErrors <- TRUE, WatchdogFires <- TRUE,
  Cancels <- TRUE, EarlyCalls <- TRUE, StoreFaults <- {}, RivalCommits <- TRUE

kernelVars ==
  <<state, events, context, loaded, outbox,
    kstate, forced, scope, lease, sequence, decisions, result, seqLock, finLock,
    pc, emission, ending, mode, cancelled, quit, job, emitted>>
roomVars == <<loopVars, kernelVars, room>>

Deciding(which, step) == room = which /\ step /\ UNCHANGED <<loopVars, room>>

RoomsInit ==
  /\ Sql!Init
  /\ LoopInit
  /\ room \in {"agent", "sql", "local"}

RoomsNext ==
  \/ room = "agent" /\ LoopNext /\ UNCHANGED <<kernelVars, room>>
  \/ Deciding("sql", Sql!Next)
  \/ Deciding("local", Local!Next)

RoomsSpec == RoomsInit /\ [][RoomsNext]_roomVars

(* EndsInTruth under both journals: success is visible only once it is     *)
(* durable and the context stays the history of completed Runs; and where  *)
(* no store call raises the answer is the row's, and the numbered log ends *)
(* with its verdict.                                                       *)
KernelEndsInTruth ==
  /\ room = "sql" => Sql!EndsInTruth
  /\ room = "local" => Local!EndsInTruth
=============================================================================
