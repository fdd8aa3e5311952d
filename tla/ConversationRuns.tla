-------------------------- MODULE ConversationRuns --------------------------
(***************************************************************************)
(* One conversation in the backend: ConversationRunManager                 *)
(* (services/conversation_run_manager.py) between the requests that call   *)
(* it, the Runs it starts and the database.  Its methods are coroutines of *)
(* one event loop; some hold the conversation's lock, others               *)
(* (cancel_generation, the done callback of a Run's task) do not.  A       *)
(* process is a request or the task that follows a finished Run; it is at  *)
(* a label, pc[p], and each action runs it up to its next await.           *)
(*                                                                         *)
(* A Run is reduced to what RunKernel shows of it: it is live until it has *)
(* a verdict, which is in its row unless the journal failed.               *)
(***************************************************************************)
EXTENDS Naturals, Sequences, FiniteSets

CONSTANTS
  Senders,        \* requests that send a message
  MessageOf,      \* the message each sends; two may send the same (a retry)
  Direct,         \* those that use the HTTP route, which does not queue
  Runs,           \* generation ids, one per Run that may be created
  Collaborative,  \* collaborative strategy with live_user_input
  Cancels,        \* a caller cancels the generation
  Connects,       \* a WebSocket connects, which recovers the conversation
  Closes,         \* the conversation is deleted
  Crashes,        \* the process dies once and starts again
  Faults          \* journals and database calls may fail

Messages == {MessageOf[s] : s \in Senders}
None == "none"
Callers == {"cancel", "close", "connect", "crash"}
Procs == Senders \cup Runs \cup Callers

(* Processes, Runs and messages have names of their own.                   *)
ASSUME ConversationAssumption ==
  /\ Direct \in SUBSET Senders
  /\ \A flag \in {Collaborative, Cancels, Connects, Closes, Crashes, Faults} :
       flag \in BOOLEAN
  /\ Senders \cap Runs = {} /\ (Senders \cup Runs) \cap Callers = {}
  /\ None \notin Runs \cup Messages

VARIABLES
  \* The manager's dictionaries, at this conversation.
  binding,    \* _bindings: TRUE if there is one
  running,    \* _running_tasks: the Run whose task is not done
  handle,     \* _active_handles
  genId,      \* _generation_ids
  activeMsg,  \* _active_user_message_ids
  liveMsgs,   \* _live_user_message_ids
  queue,      \* _queued_inputs
  lock,       \* locks created for the conversation: holder, then waiters
  door,       \* the one _locks holds now
  \* The database.
  row,        \* runtime_runs.state
  record,     \* status of the generation record
  input,      \* its user_message_id
  active,     \* the conversation's active Run
  deleted,    \* the conversation's deleted_at is set
  \* Runs and processes.
  kernel,     \* each Run: "none", "live", or its verdict
  told,       \* Runs whose handle was told to cancel
  posted,     \* per Run: messages injected into it
  pc,         \* where each process is
  about,      \* per process: the Run it has read, created or waits for
  next,       \* per finished Run: the input taken from the queue for it
  closed,     \* per cancelling caller: the rows cancel_abandoned has closed
  seen        \* per sender that waits for an engine: the records as it read
              \* them with the conversation

memory == <<binding, running, handle, genId, activeMsg, liveMsgs, queue>>
locks == <<lock, door>>
database == <<row, record, input, active, deleted>>
engines == <<kernel, told, posted>>
requests == <<about, next, closed, seen>>
vars == <<memory, locks, database, engines, pc, requests>>

Terminal == {"completed", "failed", "cancelled"}
NoRecords == [g \in Runs |-> "none"]

InMemory == {activeMsg} \cup liveMsgs \cup {queue[i] : i \in DOMAIN queue}
Recorded(m) == \E g \in Runs : record[g] # "none" /\ input[g] = m
Message(p) == IF p \in Senders THEN MessageOf[p] ELSE next[p]

TypeOK ==
  /\ binding \in BOOLEAN /\ deleted \in BOOLEAN /\ door \in {1, 2}
  /\ {running, handle, genId, active} \subseteq Runs \cup {None}
  /\ activeMsg \in Messages \cup {None}
  /\ liveMsgs \subseteq Messages /\ queue \in Seq(Messages)
  /\ lock \in [{1, 2} -> Seq(Procs)]
  /\ row \in [Runs -> {"absent", "running"} \cup Terminal]
  /\ record \in [Runs -> {"none", "running"} \cup Terminal]
  /\ input \in [Runs -> Messages \cup {None}]
  /\ kernel \in [Runs -> {"none", "live"} \cup Terminal]
  /\ told \subseteq Runs /\ posted \in [Runs -> SUBSET Messages]
  /\ DOMAIN pc = Procs /\ about \in [Procs -> Runs \cup {None}]
  /\ next \in [Runs -> Messages \cup {None}]
  /\ closed \in [Callers -> SUBSET Runs]
  /\ seen \in [Senders -> [Runs -> {"none", "running"} \cup Terminal]]

Init ==
  /\ binding = FALSE /\ running = None /\ handle = None /\ genId = None
  /\ activeMsg = None /\ liveMsgs = {} /\ queue = <<>>
  /\ lock = [k \in {1, 2} |-> <<>>] /\ door = 1
  /\ row = [g \in Runs |-> "absent"] /\ record = NoRecords
  /\ input = [g \in Runs |-> None] /\ active = None /\ deleted = FALSE
  /\ kernel = [g \in Runs |-> "none"] /\ told = {}
  /\ posted = [g \in Runs |-> {}]
  /\ pc = [p \in Procs |-> "idle"] /\ about = [p \in Procs |-> None]
  /\ next = [g \in Runs |-> None] /\ closed = [c \in Callers |-> {}]
  /\ seen = [s \in Senders |-> NoRecords]

Go(p, label) == pc' = [pc EXCEPT ![p] = label]

-----------------------------------------------------------------------------
(* The conversation's lock.                                                *)

Inside(p, label) ==
  pc[p] = label /\ \E k \in {1, 2} : lock[k] # <<>> /\ Head(lock[k]) = p

(* Only who holds a lock lets go of it.                                    *)
Without(p) ==
  [k \in {1, 2} |-> IF lock[k] # <<>> /\ Head(lock[k]) = p THEN Tail(lock[k]) ELSE lock[k]]

Leave(p, label) == lock' = Without(p) /\ Go(p, label) /\ UNCHANGED door
(* Let go of the lock, if p has it, and ask for it again.                  *)
Join(p, label) ==
  /\ lock' = [Without(p) EXCEPT ![door] = Append(@, p)]
  /\ Go(p, label) /\ UNCHANGED door
Keep(p, label) == Go(p, label) /\ UNCHANGED locks

-----------------------------------------------------------------------------
(* Recovery (_recover_abandoned_generation_if_needed).  id and records are *)
(* the active Run and the records as the caller's session has them, which  *)
(* may be an old reading; only where Runs are recovered is it refreshed.   *)

Forgotten ==
  genId' = None /\ activeMsg' = None /\ liveMsgs' = {} /\ queue' = <<>>
Remembered == UNCHANGED <<genId, activeMsg, liveMsgs, queue>>

(* finish_generation_record, for those Runs whose row is terminal.         *)
Reconciled(ids, rows) ==
  [g \in Runs |-> IF g \in ids /\ record[g] # "none" /\ rows[g] \in Terminal
                  THEN rows[g] ELSE record[g]]
StillActive(ids, rows) == IF active \in ids /\ rows[active] \in Terminal THEN None ELSE active

Open == {g \in Runs : row[g] = "running"}
Closed(how) == [g \in Runs |-> IF g \in Open THEN how ELSE row[g]]

(* fail_abandoned_generation_record, cancel_abandoned_generation_record    *)
Abandoned(records, id, how) ==
  [records EXCEPT ![id] = IF @ = "running" THEN how ELSE @]

Recovers(id, records) ==
  IF running # None
  THEN Remembered /\ UNCHANGED <<row, record, active>>
  ELSE /\ row' = Closed("failed")
       /\ IF Open # {} \/ (id # None /\ row[id] \in Terminal)
          THEN /\ record' = Reconciled(Runs, row') /\ active' = StillActive(Runs, row')
               /\ Forgotten
          ELSE IF id # None
          THEN /\ record' = Abandoned(records, id, "failed")
               /\ active' = None
               /\ Forgotten
          ELSE /\ record' = Reconciled(Runs, row') /\ active' = StillActive(Runs, row')
               /\ Remembered

-----------------------------------------------------------------------------
(* Sending a message: the request reads the conversation, get_or_create_   *)
(* engine, send_user_input, start_generation.                              *)

ChatSend(s) ==
  /\ pc[s] = "idle"
  /\ IF deleted
     THEN Keep(s, "refused") /\ UNCHANGED <<about, seen>>
     ELSE /\ Join(s, "engine")
          /\ about' = [about EXCEPT ![s] = active] /\ seen' = [seen EXCEPT ![s] = record]
  /\ UNCHANGED <<memory, database, engines, next, closed>>

EngineReady(s) ==
  /\ Inside(s, "engine")
  /\ Recovers(about[s], seen[s]) /\ seen' = [seen EXCEPT ![s] = NoRecords]
  /\ binding' = TRUE
  /\ Leave(s, IF s \in Direct THEN "starting" ELSE "sending")
  /\ UNCHANGED <<running, handle, input, deleted, engines, about, next, closed>>

SendRequested(s) ==
  /\ \/ pc[s] = "sending" /\ Join(s, "send")
     \/ pc[s] = "starting" /\ Join(s, "start")
  /\ UNCHANGED <<memory, database, engines, requests>>

(* Both look at memory first and then read the records, which suspends.    *)
(* Mutant: the refusal keeps the lock.                                     *)
MutantChecks(p, from, to) ==
  /\ Inside(p, from)
  /\ IF ~binding THEN Keep(p, "refused")
     ELSE IF Message(p) \in InMemory THEN Leave(p, "duplicate")
     ELSE Keep(p, to)
  /\ UNCHANGED <<memory, database, engines, requests>>
Checks(p, from, to) ==
  /\ Inside(p, from)
  /\ IF ~binding THEN Leave(p, "refused")
     ELSE IF Message(p) \in InMemory THEN Leave(p, "duplicate")
     ELSE Keep(p, to)
  /\ UNCHANGED <<memory, database, engines, requests>>
SendChecks(s) == Checks(s, "send", "send_read")
StartChecks(p) == Checks(p, "start", "start_read")

SendDuplicate(s) ==
  /\ Inside(s, "send_read") /\ Recorded(Message(s))
  /\ Leave(s, "duplicate")
  /\ UNCHANGED <<memory, database, engines, requests>>

(* No Run is active: the lock is given back before start_generation asks   *)
(* for it again.                                                           *)
SendStarts(s) ==
  /\ Inside(s, "send_read") /\ ~Recorded(Message(s)) /\ running = None
  /\ Join(s, "start")
  /\ UNCHANGED <<memory, database, engines, requests>>

Injects == Collaborative /\ handle # None

SendQueues(s) ==
  /\ Inside(s, "send_read") /\ ~Recorded(Message(s)) /\ running # None /\ ~Injects
  /\ queue' = Append(queue, Message(s))
  /\ Leave(s, "queued")
  /\ UNCHANGED <<binding, running, handle, genId, activeMsg, liveMsgs, database,
                 engines, requests>>

SendInjects(s) ==
  /\ Inside(s, "send_read") /\ ~Recorded(Message(s)) /\ running # None /\ Injects
  /\ about' = [about EXCEPT ![s] = handle]
  /\ Keep(s, "post")
  /\ UNCHANGED <<memory, database, engines, next, closed, seen>>

(* Mutant: the accepted input is queued as well.                           *)
MutantInjected(s) ==
  /\ Inside(s, "post")
  /\ kernel[about[s]] = "live"
  /\ posted' = [posted EXCEPT ![about[s]] = @ \cup {Message(s)}]
  /\ liveMsgs' = liveMsgs \cup {Message(s)}
  /\ queue' = Append(queue, Message(s))
  /\ Leave(s, "injected")
  /\ UNCHANGED <<binding, running, handle, genId, activeMsg, database, kernel, told,
                 requests>>

(* post_message was accepted, or raised: then the input is queued, whether *)
(* or not the Run is still there.                                          *)
Injected(s) ==
  /\ Inside(s, "post")
  /\ \/ /\ kernel[about[s]] = "live"
        /\ posted' = [posted EXCEPT ![about[s]] = @ \cup {Message(s)}]
        /\ liveMsgs' = liveMsgs \cup {Message(s)}
        /\ Leave(s, "injected") /\ UNCHANGED queue
     \/ /\ queue' = Append(queue, Message(s))
        /\ Leave(s, "queued") /\ UNCHANGED <<liveMsgs, posted>>
  /\ UNCHANGED <<binding, running, handle, genId, activeMsg, database, kernel, told,
                 requests>>

(* Mutants: send_user_input's look at the running task is enough; its look *)
(* at the records is enough.                                               *)
MutantStartAnyway(p) ==
  /\ Inside(p, "start_read")
  /\ IF Recorded(Message(p)) THEN Leave(p, "duplicate") ELSE Keep(p, "create")
  /\ UNCHANGED <<memory, database, engines, requests>>

MutantStartAgain(p) ==
  /\ Inside(p, "start_read")
  /\ IF running # None THEN Leave(p, "refused") ELSE Keep(p, "create")
  /\ UNCHANGED <<memory, database, engines, requests>>

StartDecides(p) ==
  /\ Inside(p, "start_read")
  /\ IF Recorded(Message(p)) THEN Leave(p, "duplicate")
     ELSE IF running # None THEN Leave(p, "refused")     \* RunAlreadyActiveError
     ELSE Keep(p, "create")
  /\ UNCHANGED <<memory, database, engines, requests>>

(* _create_generation_record, with a new id.                               *)
Created(p) ==
  /\ Inside(p, "create")
  /\ \E g \in Runs : input[g] = None
  /\ LET g == CHOOSE x \in Runs : input[x] = None IN
       /\ record' = [record EXCEPT ![g] = "running"]
       /\ input' = [input EXCEPT ![g] = Message(p)]
       /\ active' = g /\ genId' = g
       /\ about' = [about EXCEPT ![p] = g]
  /\ Keep(p, "launch")
  /\ UNCHANGED <<binding, running, handle, activeMsg, liveMsgs, queue, row, deleted,
                 engines, next, closed, seen>>

(* engine.start and the task that follows the Run, in one step.            *)
Launched(p) ==
  /\ Inside(p, "launch")
  /\ LET g == about[p] IN
       /\ activeMsg' = Message(p) /\ handle' = g /\ running' = g
       /\ kernel' = [kernel EXCEPT ![g] = "live"]
  /\ Leave(p, "started")
  /\ UNCHANGED <<binding, genId, liveMsgs, queue, database, told, posted, requests>>

(* A database call of start_generation fails: nothing is undone.           *)
StartFails(p) ==
  /\ Faults /\ (Inside(p, "create") \/ Inside(p, "launch"))
  /\ Leave(p, "refused")
  /\ UNCHANGED <<memory, database, engines, requests>>

-----------------------------------------------------------------------------
(* A Run, and the task that follows it (_run_generation).                  *)

RowCreated(g) ==
  /\ kernel[g] = "live" /\ row[g] = "absent"
  /\ row' = [row EXCEPT ![g] = "running"]
  /\ UNCHANGED <<memory, locks, record, input, active, deleted, engines, pc, requests>>

(* Only a cancelled Run may end cancelled.  A row that somebody else has   *)
(* ended gives the kernel no verdict.                                      *)
KernelEnds(g) ==
  /\ kernel[g] = "live"
  /\ \E how \in Terminal :
       /\ how = "cancelled" => g \in told
       /\ kernel' = [kernel EXCEPT ![g] = how]
       /\ \/ row[g] = "running" /\ row' = [row EXCEPT ![g] = how]
          \/ /\ Faults /\ how = "failed" /\ row[g] \in {"absent", "running"}
             /\ UNCHANGED row
  /\ UNCHANGED <<memory, locks, record, input, active, deleted, told, posted, pc,
                 requests>>

(* The terminal event reaches the generation record, if it is there.       *)
Unprojected(g) == row[g] \in Terminal /\ record[g] \notin {"none", row[g]}
Projected(g) ==
  /\ running = g /\ Unprojected(g)
  /\ record' = [record EXCEPT ![g] = row[g]]
  /\ active' = IF active = g THEN None ELSE active
  /\ UNCHANGED <<memory, locks, row, input, deleted, engines, pc, requests>>

(* _on_generation_done                                                     *)
GenerationDone(g) ==
  /\ running = g /\ kernel[g] \in Terminal /\ ~Unprojected(g)
  /\ running' = None
  /\ handle' = IF handle = g THEN None ELSE handle
  /\ IF genId # g
     THEN Remembered /\ UNCHANGED <<next, pc>>
     ELSE /\ genId' = None /\ activeMsg' = None /\ liveMsgs' = {}
          /\ queue' = IF queue = <<>> THEN queue ELSE Tail(queue)
          /\ next' = [next EXCEPT ![g] = IF queue = <<>> THEN None ELSE Head(queue)]
          /\ Go(g, "publish")
  /\ UNCHANGED <<binding, locks, database, engines, about, closed, seen>>

(* _finish_generation_and_continue                                         *)
Continued(g) ==
  /\ pc[g] = "publish"
  /\ IF next[g] = None THEN Keep(g, "done") ELSE Join(g, "start")
  /\ UNCHANGED <<memory, database, engines, requests>>

-----------------------------------------------------------------------------
(* Callers that do not send.                                               *)

(* cancel_generation takes no lock.                                        *)
CancelRunning(c) ==
  /\ pc[c] = "idle" /\ running # None
  /\ queue' = <<>> /\ activeMsg' = None /\ liveMsgs' = {}
  /\ told' = told \cup ({handle} \ {None})
  /\ about' = [about EXCEPT ![c] = running]
  /\ Keep(c, "cancelling")
  /\ UNCHANGED <<binding, running, handle, genId, database, kernel, posted, next,
                 closed, seen>>

CancelWaited(c) ==
  /\ pc[c] = "cancelling" /\ running # about[c]
  /\ Keep(c, "cancelled")
  /\ UNCHANGED <<memory, database, engines, requests>>

CancelAbandons(c) ==
  /\ pc[c] = "idle" /\ running = None
  /\ Keep(c, "rows")
  /\ UNCHANGED <<memory, database, engines, requests>>

CancelRows(c) ==
  /\ pc[c] = "rows"
  /\ row' = Closed("cancelled")
  /\ closed' = [closed EXCEPT ![c] = Open]
  /\ Keep(c, IF Open = {} THEN "record" ELSE "reconcile")
  /\ UNCHANGED <<memory, record, input, active, deleted, engines, about, next, seen>>

CancelRecords(c) ==
  /\ \/ /\ pc[c] = "reconcile"
        /\ record' = Reconciled(closed[c], row) /\ active' = StillActive(closed[c], row)
        /\ Keep(c, "cancelled")
     \/ /\ pc[c] = "record" /\ active # None
        /\ record' = Abandoned(record, active, "cancelled") /\ active' = None
        /\ Keep(c, "cancelled")
     \/ /\ pc[c] = "record" /\ active = None
        /\ Keep(c, "nothing") /\ UNCHANGED <<record, active>>
  /\ UNCHANGED <<memory, row, input, deleted, engines, requests>>

CancelArrives(c) == CancelRunning(c) \/ CancelAbandons(c)
CancelProceeds(c) == CancelWaited(c) \/ CancelRows(c) \/ CancelRecords(c)

(* close_conversation forgets the conversation, and its lock; then the     *)
(* route marks the row deleted.                                            *)
CloseForgets ==
  /\ pc["close"] \in {"cancelled", "nothing"}
  /\ binding' = FALSE /\ handle' = None /\ Forgotten
  /\ door' = 2 /\ UNCHANGED lock
  /\ Go("close", "delete")
  /\ UNCHANGED <<running, database, engines, requests>>

CloseDeletes ==
  /\ pc["close"] = "delete"
  /\ deleted' = TRUE
  /\ Keep("close", "done")
  /\ UNCHANGED <<memory, row, record, input, active, engines, requests>>

(* recover_conversation                                                    *)
ConnectAsks ==
  /\ pc["connect"] = "idle"
  /\ IF running # None THEN Keep("connect", "done") ELSE Join("connect", "recover")
  /\ UNCHANGED <<memory, database, engines, requests>>

ConnectRecovers ==
  /\ Inside("connect", "recover")
  /\ Recovers(active, record)
  /\ Leave("connect", "done")
  /\ UNCHANGED <<binding, running, handle, input, deleted, engines, requests>>

(* The process dies: memory, Runs and requests under way are gone.  When   *)
(* it starts again (main.py) the open rows are closed and their records    *)
(* reconciled.                                                             *)
CrashAndRestart ==
  /\ pc["crash"] = "idle"
  /\ binding' = FALSE /\ running' = None /\ handle' = None /\ Forgotten
  /\ lock' = [k \in {1, 2} |-> <<>>] /\ door' = 1
  /\ kernel' = [g \in Runs |-> IF kernel[g] = "live" THEN "failed" ELSE kernel[g]]
  /\ row' = Closed("failed")
  /\ record' = [g \in Runs |-> IF g \in Open THEN "failed" ELSE record[g]]
  /\ active' = IF active \in Open THEN None ELSE active
  /\ pc' = [p \in Procs |->
       IF p = "crash" THEN "done"
       ELSE IF pc[p] = "idle" THEN "idle"
       ELSE IF pc[p] \in {"started", "refused", "duplicate", "queued", "injected",
                          "cancelled", "nothing", "done"} THEN pc[p]
       ELSE "crashed"]
  /\ UNCHANGED <<input, deleted, told, posted, requests>>

SendStep(s) ==
  \/ EngineReady(s) \/ SendRequested(s) \/ SendChecks(s)
  \/ SendDuplicate(s) \/ SendStarts(s) \/ SendQueues(s) \/ SendInjects(s) \/ Injected(s)
StartStep(p) ==
  StartChecks(p) \/ StartDecides(p) \/ Created(p) \/ Launched(p) \/ StartFails(p)
RunStep(g) ==
  RowCreated(g) \/ KernelEnds(g) \/ Projected(g) \/ GenerationDone(g) \/ Continued(g)
CloseStep == CancelProceeds("close") \/ CloseForgets \/ CloseDeletes

Next ==
  \/ \E s \in Senders : ChatSend(s) \/ SendStep(s)
  \/ \E p \in Senders \cup Runs : StartStep(p)
  \/ \E g \in Runs : RunStep(g)
  \/ Cancels /\ (CancelArrives("cancel") \/ CancelProceeds("cancel"))
  \/ Closes /\ (CancelArrives("close") \/ CloseStep)
  \/ Connects /\ (ConnectAsks \/ ConnectRecovers)
  \/ Crashes /\ CrashAndRestart

Spec == Init /\ [][Next]_vars

(* The event loop runs every task that is ready, and Runs end: RunKernel's *)
(* ResultArrives.                                                          *)
Fairness ==
  /\ \A p \in Senders : WF_vars(SendStep(p)) /\ WF_vars(StartStep(p))
  /\ \A g \in Runs : WF_vars(RunStep(g)) /\ WF_vars(StartStep(g))
  /\ WF_vars(CancelProceeds("cancel")) /\ WF_vars(CloseStep) /\ WF_vars(ConnectRecovers)

FairSpec == Spec /\ Fairness

-----------------------------------------------------------------------------
(* What the manager promises.                                              *)

(* At most one Run of the conversation is live, and it is the one the      *)
(* manager follows.                                                        *)
OneActiveRun ==
  \A g \in Runs : kernel[g] = "live" => running = g

(* Message-level idempotency: however often a message is sent, it is the   *)
(* input of one Run or is injected into one.                               *)
AtMostOnce ==
  \A m \in Messages :
    Cardinality({g \in Runs : kernel[g] # "none" /\ (input[g] = m \/ m \in posted[g])}) <= 1

(* Inputs do not strand: while some are queued, a Run is active or one of  *)
(* them is about to be started, so that the next is taken when it ends.    *)
Continuing(g) == next[g] # None /\ pc[g] \in {"publish", "start", "start_read", "create", "launch"}
QueueServed == queue # <<>> => running # None \/ \E g \in Runs : Continuing(g)

(* While a Run is live and its row open, the read model shows it.          *)
LiveRunShown ==
  \A g \in Runs : kernel[g] = "live" /\ row[g] = "running"
                    => record[g] = "running" /\ active = g

(* One Run at a time, followed by the manager and shown by the read model. *)
OneRunShown == OneActiveRun /\ LiveRunShown

(* No input is served twice and none is left behind.                       *)
InputsServedOnce == AtMostOnce /\ QueueServed

(* A conversation does not stay busy.                                      *)
BecomesIdle == running # None ~> running = None

(* Every request that asks for the conversation's lock is answered: it is  *)
(* queued, started, injected, a duplicate or refused.                      *)
Answered(p) ==
  pc[p] \in {"queued", "started", "injected", "duplicate", "refused", "crashed"}
SendAnswered == \A s \in Senders : pc[s] = "engine" ~> Answered(s)

(* A queued input is started in the end, unless a caller cancels.          *)
QueuedInputStarts ==
  \A s \in Senders :
    pc[s] = "queued" ~> \/ \E g \in Runs : kernel[g] # "none" /\ input[g] = MessageOf[s]
                       \/ told # {}
=============================================================================
