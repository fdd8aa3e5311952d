------------------------------ MODULE RunKernel ------------------------------
(***************************************************************************)
(* One Run inside the runtime kernel (RunKernel in runtime/engine.py), at  *)
(* the granularity of its awaits.  Its tasks share one event loop: the     *)
(* main task, the shielded completion task, the watchdog, the actors, and  *)
(* the callers of cancel() and fail().  A task is at a label, pc[p]; it    *)
(* gives way to the others only at labels where the code suspends.         *)
(* Persistence is RunStore, composed in: the kernel's journal calls are    *)
(* RunStore's actions.                                                     *)
(***************************************************************************)
EXTENDS Naturals, Sequences, FiniteSets

CONSTANTS
  Agents,             \* the Run's actors (RunRequest.agents)
  FailCallers,        \* callers of fail(): shutdown, the permission watch
  SuspendingJournal,  \* TRUE: journal calls await a database; FALSE: they
                      \* run to completion (in-memory and SQLite adapters)
  HasSink,            \* an EventSink is configured
  MaxDecisions,       \* RuntimeLimits.max_decisions
  MaxAgentEvents,     \* bound: events one actor emits
  Actions,            \* the proposals the policy may make
  Aborts,             \* reasons the main task itself aborts for (budgets,
                      \* policy errors, a result with a reason_code)
  AgentErrors,        \* the executor may raise
  WatchdogFires,      \* a deadline may pass
  Cancels,            \* a caller cancels
  EarlyCalls,         \* callers may call before the journal row exists
  StoreFaults,        \* ways a store call may raise: "clean", "ambiguous"
  RivalCommits        \* another Run of the scope may complete meanwhile

ASSUME KernelAssumption ==
  /\ (Agents \cup FailCallers) \cap {"main", "comp", "watchdog", "cancel", "none"} = {}
  /\ Agents \cap FailCallers = {}
  /\ SuspendingJournal \in BOOLEAN /\ HasSink \in BOOLEAN
  /\ StoreFaults \subseteq {"clean", "ambiguous"}
  /\ Aborts \cap {"none", "user"} = {}

VARIABLES
  state, events, context, loaded, outbox,   \* RunStore
  kstate,     \* RunKernel.state
  forced,     \* _forced_failure_reason, "none" if unset
  scope,      \* the CancellationScope's reason, "none" if not cancelled
  lease,      \* RunLease.valid
  sequence,   \* RunKernel.sequence
  decisions,  \* decision_count
  result,     \* what the result future holds
  seqLock,    \* _sequence_lock: who holds it, then who waits, in order
  finLock,    \* _finish_lock, likewise
  pc,         \* where each task is
  emission,   \* per task: the kind it is emitting and where it goes on
  ending,     \* per task: the result it is finishing with
  mode,       \* main task: in its try body, or in which except clause
  cancelled,  \* tasks with a cancellation not yet delivered
  quit,       \* actors with CONTROL_CANCEL or CONTROL_SHUTDOWN in the mailbox
  job,        \* per actor: its assignment
  emitted     \* per actor: events it has emitted

storeVars == <<state, events, context, loaded, outbox>>
locks == <<seqLock, finLock>>
actors == <<quit, job, emitted>>
verdict == <<kstate, forced, scope, lease, result>>
counters == <<sequence, decisions>>
tasks == <<emission, ending, mode, cancelled>>
rest == <<storeVars, locks, actors, verdict, counters, tasks>>
vars == <<pc, rest>>

Run == "run"
Rival == "rival"
Store == INSTANCE RunStore WITH
  Runs <- {Run, Rival}, Scopes <- {"scope"},
  ScopeOf <- [r \in {Run, Rival} |-> "scope"],
  EventIds <- Nat, MaxSequence <- 99, Subscribed <- {}, SqlAdapter <- FALSE

Terminal == {"completed", "failed", "cancelled"}
Procs == {"main", "comp", "watchdog", "cancel"} \cup FailCallers \cup Agents
NoResult == [state |-> "none", reason |-> "none"]
Ending(how, why) == [state |-> how, reason |-> why]

Live == {a \in Agents : pc[a] \notin {"none", "gone"}}
KernelTerminal == kstate \in Terminal

(* Labels between which a task does not suspend.  No other task runs while *)
(* one is there.                                                           *)
StoreCalls == {"load", "create", "append", "persist", "fallback"}
Sync == {"emit", "finish", "raised", "loop", "act", "assign", "accept", "spawn"}
          \cup (IF SuspendingJournal THEN {} ELSE StoreCalls)
          \cup (IF HasSink THEN {} ELSE {"sink", "fin_sink"})
Turn(p) == \A q \in Procs \ {p} : pc[q] \notin Sync

(* p is at a label, may run, and has no cancellation to deliver first.     *)
At(p, label) == pc[p] = label /\ Turn(p) /\ p \notin cancelled

Go(p, label) == pc' = [pc EXCEPT ![p] = label]
Move(p, from, to) == At(p, from) /\ Go(p, to) /\ UNCHANGED rest

TypeOK ==
  /\ Store!TypeOK
  /\ kstate \in {"created", "running", "cancelling"} \cup Terminal
  /\ lease \in BOOLEAN
  /\ sequence \in Nat
  /\ decisions \in 0 .. MaxDecisions
  /\ seqLock \in Seq(Procs) /\ finLock \in Seq(Procs)
  /\ DOMAIN pc = Procs
  /\ mode \in {"body", "cancel", "except"}
  /\ cancelled \subseteq {"main"} \cup Agents
  /\ quit \subseteq Agents
  /\ job \in [Agents -> {"none", "assigned", "ok", "error", "cancelled"}]
  /\ emitted \in [Agents -> 0 .. MaxAgentEvents]

Init ==
  /\ Store!Init
  /\ kstate = "created" /\ forced = "none" /\ scope = "none" /\ lease = TRUE
  /\ sequence = 0 /\ decisions = 0 /\ result = NoResult
  /\ seqLock = <<>> /\ finLock = <<>>
  /\ pc = [p \in Procs |-> IF p = "main" THEN "ready"
                           ELSE IF p \in {"cancel"} \cup FailCallers THEN "idle" ELSE "none"]
  /\ emission = [p \in Procs |-> [kind |-> "ordinary", then |-> "done"]]
  /\ ending = [p \in Procs |-> NoResult]
  /\ mode = "body" /\ cancelled = {} /\ quit = {}
  /\ job = [a \in Agents |-> "none"] /\ emitted = [a \in Agents |-> 0]

-----------------------------------------------------------------------------
(* Locks.  asyncio.Lock is taken at once if nobody holds it or waits, and  *)
(* otherwise in the order of arrival.  A task that is cancelled lets go of *)
(* the lock, or leaves the queue, where it is at most once.                *)

Holds(lock, p) == lock # <<>> /\ Head(lock) = p
Leave(lock, p) ==
  IF \A i \in DOMAIN lock : lock[i] # p THEN lock
  ELSE LET place == CHOOSE i \in DOMAIN lock : lock[i] = p
       IN  SubSeq(lock, 1, place - 1) \o SubSeq(lock, place + 1, Len(lock))

-----------------------------------------------------------------------------
(* _emit: lease check, sequence lock, append, notify, sink.                *)

Emit(p, kind, then) ==
  /\ Go(p, "emit")
  /\ emission' = [emission EXCEPT ![p] = [kind |-> kind, then |-> then]]

NeedsLease(p) == p # "cancel" /\ emission[p].kind = "ordinary"

(* An actor whose event is refused reports it with a late event            *)
(* (_executor_emit, _emit_rejected) and then raises.                       *)
EmitRefused(p) ==
  /\ At(p, "emit") /\ NeedsLease(p) /\ ~lease
  /\ IF p \in Agents
     THEN Emit(p, "late", "raised") /\ UNCHANGED ending
     ELSE /\ Go(p, "raised")
          /\ ending' = [ending EXCEPT ![p] = Ending("failed", "internal_error")]
          /\ UNCHANGED emission
  /\ UNCHANGED <<storeVars, locks, actors, verdict, counters, mode, cancelled>>

EmitLock(p) ==
  /\ At(p, "emit") /\ (NeedsLease(p) => lease)
  /\ seqLock' = Append(seqLock, p)
  /\ Go(p, IF seqLock = <<>> THEN "append" ELSE "seq_wait")
  /\ UNCHANGED <<storeVars, finLock, actors, verdict, counters, tasks>>

SeqAcquired(p) == Holds(seqLock, p) /\ Move(p, "seq_wait", "append")

(* An envelope gets the kernel's next sequence number and an identifier no *)
(* other envelope has.                                                     *)
Envelope(kind) ==
  [id |-> Len(events[Run]) + Len(events[Rival]) + 1, run |-> Run,
   seq |-> sequence + 1, kind |-> kind]

(* Mutant: the refusal of a late event takes no number.                    *)
MutantAppended(p) ==
  /\ At(p, "append")
  /\ Store!AppendEvent(Envelope(emission[p].kind))
  /\ sequence' = IF emission[p].kind = "late" THEN sequence ELSE sequence + 1
  /\ seqLock' = Tail(seqLock)
  /\ Go(p, "sink")
  /\ UNCHANGED <<finLock, actors, verdict, decisions, tasks>>
Appended(p) ==
  /\ At(p, "append")
  /\ Store!AppendEvent(Envelope(emission[p].kind))
  /\ sequence' = sequence + 1
  /\ seqLock' = Tail(seqLock)
  /\ Go(p, "sink")
  /\ UNCHANGED <<finLock, actors, verdict, decisions, tasks>>

(* append_event raises if there is no row, if the sequence number or the   *)
(* identifier is taken, or for a fault of the store, which may have been   *)
(* after the commit.                                                       *)
AppendError(kind) ==
  IF state[Run] # "absent" /\ ~Store!Appendable(Envelope(kind))
  THEN "event_sequence_conflict" ELSE "event_store_error"

AppendRaises(p) ==
  /\ At(p, "append")
  /\ \/ /\ state[Run] = "absent" \/ ~Store!Appendable(Envelope(emission[p].kind))
        /\ UNCHANGED storeVars
     \/ "clean" \in StoreFaults /\ UNCHANGED storeVars
     \/ "ambiguous" \in StoreFaults /\ Store!AppendEvent(Envelope(emission[p].kind))
  /\ ending' = [ending EXCEPT ![p] = Ending("failed", AppendError(emission[p].kind))]
  /\ seqLock' = Tail(seqLock)
  /\ IF p \in Agents /\ ~lease /\ emission[p].kind = "ordinary"
     THEN Emit(p, "late", "raised")
     ELSE Go(p, "raised") /\ UNCHANGED emission
  /\ UNCHANGED <<finLock, actors, verdict, counters, mode, cancelled>>

Published(p) == Move(p, "sink", emission[p].then)

-----------------------------------------------------------------------------
(* _finish: finish lock, sequence lock, terminal transaction, effects.     *)

Returned(p) == IF p = "cancel" THEN "await_result" ELSE "done"

MayEnter(p) ==
  (At(p, "finish") /\ finLock = <<>>) \/ (At(p, "fin_wait") /\ Holds(finLock, p))

FinishQueued(p) ==
  /\ At(p, "finish") /\ finLock # <<>>
  /\ finLock' = Append(finLock, p)
  /\ Go(p, "fin_wait")
  /\ UNCHANGED <<storeVars, seqLock, actors, verdict, counters, tasks>>

FinishTooLate(p) ==
  /\ MayEnter(p) /\ KernelTerminal
  /\ finLock' = Leave(finLock, p)
  /\ Go(p, Returned(p))
  /\ UNCHANGED <<storeVars, seqLock, actors, verdict, counters, tasks>>

FinishEntered(p) ==
  /\ MayEnter(p) /\ ~KernelTerminal
  /\ finLock' = IF finLock = <<>> THEN <<p>> ELSE finLock
  /\ seqLock' = Append(seqLock, p)
  /\ Go(p, IF seqLock = <<>> THEN "persist" ELSE "fin_seq")
  /\ UNCHANGED <<storeVars, actors, verdict, counters, tasks>>

FinishSeqAcquired(p) == Holds(seqLock, p) /\ Move(p, "fin_seq", "persist")

(* The transaction p is about to make.                                     *)
Persist(p) ==
  IF ending[p].state = "completed" THEN Store!TryComplete(Envelope("completed"))
                                   ELSE Store!TryFinish(Envelope(ending[p].state))

StopWatchdog(q) == q = "watchdog" /\ pc[q] = "armed"

Persisted(p) ==
  /\ At(p, "persist") \/ At(p, "fallback")
  /\ Persist(p)
  /\ sequence' = sequence + 1
  /\ seqLock' = Tail(seqLock)
  /\ kstate' = ending[p].state
  /\ pc' = [q \in Procs |-> IF q = p THEN "fin_sink"
                            ELSE IF StopWatchdog(q) THEN "done" ELSE pc[q]]
  /\ UNCHANGED <<finLock, actors, forced, scope, lease, result, decisions, tasks>>

(* The terminal compare-and-set found the row terminal already.            *)
NotPersisted(p) ==
  /\ At(p, "persist") \/ At(p, "fallback")
  /\ state[Run] \in Terminal
  /\ seqLock' = Tail(seqLock) /\ finLock' = Tail(finLock)
  /\ Go(p, Returned(p))
  /\ UNCHANGED <<storeVars, actors, verdict, counters, tasks>>

Stale(p) ==
  ending[p].state = "completed" /\ loaded[Run].version # context["scope"].version
Acceptable(p) ==
  state[Run] = "running" /\ ~Stale(p) /\ Store!Appendable(Envelope(ending[p].state))

PersistError(p) ==
  CASE state[Run] = "absent" -> "event_store_error"
    [] Stale(p) -> "context_conflict"
    [] ~Store!Appendable(Envelope(ending[p].state)) -> "event_sequence_conflict"
    [] OTHER -> "event_store_error"

PersistRaises(p) ==
  \/ ~Acceptable(p) /\ state[Run] \notin Terminal /\ UNCHANGED storeVars
  \/ "clean" \in StoreFaults /\ UNCHANGED storeVars
  \/ "ambiguous" \in StoreFaults /\ Persist(p)

(* A completion that rolled back becomes a failure, persisted in its turn. *)
CompletionRaises(p) ==
  /\ At(p, "persist") /\ ending[p].state = "completed"
  /\ PersistRaises(p)
  /\ ending' = [ending EXCEPT ![p] = Ending("failed", PersistError(p))]
  /\ Go(p, "fallback")
  /\ UNCHANGED <<locks, actors, verdict, counters, emission, mode, cancelled>>

(* The verdict when the journal could not record one.                      *)
(* Mutants: what could not be persisted is reported all the same; nothing  *)
(* is reported.                                                            *)
MutantVerdictKept(p) == ending[p]
MutantVerdictLost(p) == NoResult
LocalVerdict(p) ==
  IF pc[p] = "fallback" THEN ending[p] ELSE Ending("failed", PersistError(p))

(* _finish_locally_after_journal_failure                                   *)
FinishLocally(p) ==
  /\ At(p, "fallback") \/ (At(p, "persist") /\ ending[p].state # "completed")
  /\ PersistRaises(p)
  /\ kstate' = "failed" /\ lease' = FALSE
  /\ result' = IF result = NoResult THEN LocalVerdict(p) ELSE result
  /\ seqLock' = Tail(seqLock) /\ finLock' = Tail(finLock)
  /\ pc' = [q \in Procs |-> IF q = p THEN Returned(p)
                            ELSE IF StopWatchdog(q) THEN "done" ELSE pc[q]]
  /\ UNCHANGED <<actors, forced, scope, counters, tasks>>

(* After the sink: revoke the lease, resolve the result future.            *)
(* Mutant: the verdict is worked out again after the sink has answered.    *)
MutantResolved(p) ==
  /\ At(p, "fin_sink")
  /\ lease' = FALSE
  /\ result' = IF result # NoResult THEN result
               ELSE IF forced # "none" THEN Ending("failed", forced) ELSE ending[p]
  /\ finLock' = Tail(finLock)
  /\ Go(p, Returned(p))
  /\ UNCHANGED <<storeVars, seqLock, actors, kstate, forced, scope, counters,
                 tasks>>

Resolved(p) ==
  /\ At(p, "fin_sink")
  /\ lease' = FALSE
  /\ result' = IF result = NoResult THEN ending[p] ELSE result
  /\ finLock' = Tail(finLock)
  /\ Go(p, Returned(p))
  /\ UNCHANGED <<storeVars, seqLock, actors, kstate, forced, scope, counters,
                 tasks>>

-----------------------------------------------------------------------------
(* The main task: _run.                                                    *)

Started == \A a \in Agents : pc[a] # "none"
(* _stop_actors: nothing to do before the actors start; it waits for the   *)
(* live ones, and gives way briefly if all have ended.                     *)
StopLabel == IF ~Started THEN "finish" ELSE IF Live = {} THEN "pause" ELSE "stop"

First(reason) == IF scope = "none" THEN reason ELSE scope

(* CancelledError reaches the try body: the handler stops the actors.      *)
(* Mutant: the forced failure reason is not looked at.                     *)
MutantCancelEnding == Ending("cancelled", IF scope = "none" THEN "user_cancelled" ELSE scope)
CancelEnding ==
  IF forced # "none" THEN Ending("failed", forced)
  ELSE Ending("cancelled", IF scope = "none" THEN "user_cancelled" ELSE scope)

ToCancelHandler ==
  /\ mode' = "cancel"
  /\ cancelled' = (cancelled \ {"main"}) \cup Live
  /\ ending' = [ending EXCEPT !["main"] = CancelEnding]
  /\ Go("main", StopLabel)

(* _abort, called by the main task itself from its body or from an except  *)
(* clause (m).                                                             *)
Abort(reason, m) ==
  IF KernelTerminal
  THEN Go("main", "done") /\ UNCHANGED <<forced, scope, cancelled, ending, mode>>
  ELSE /\ forced' = reason /\ scope' = First(reason)
       /\ cancelled' = cancelled \cup Live
       /\ ending' = [ending EXCEPT !["main"] = Ending("failed", reason)]
       /\ mode' = m
       /\ Go("main", StopLabel)

MainRaised ==
  /\ At("main", "raised")
  /\ Abort(ending["main"].reason, "except")
  /\ UNCHANGED <<storeVars, locks, actors, kstate, lease, result, counters, emission>>

(* check_decisions.                                                        *)
DecisionsLeft == decisions < MaxDecisions

(* The main task aborts where the code checks a budget, or where the       *)
(* policy or a result calls for it.                                        *)
MainAborts ==
  /\ \/ At("main", "loop") /\ ~KernelTerminal /\ scope = "none" /\ ~DecisionsLeft
        /\ Abort("decision_budget_exhausted", "body")
     \/ \E reason \in Aborts, l \in {"propose", "act", "accept"} :
          At("main", l) /\ Abort(reason, "body")
  /\ UNCHANGED <<storeVars, locks, actors, kstate, lease, result, counters, emission>>

MainStarts == Move("main", "ready", "load")

LoadContext ==
  /\ At("main", "load")
  /\ Store!Load(Run)
  /\ Go("main", "create")
  /\ UNCHANGED <<locks, actors, verdict, counters, tasks>>

(* create_run, then -- without giving way -- the state, the actors and the *)
(* watchdog.                                                               *)
CreateJournal ==
  /\ At("main", "create")
  /\ Store!CreateRun(Run)
  /\ kstate' = "running"
  /\ pc' = [p \in Procs |-> IF p = "main" THEN "emit" ELSE IF p = "watchdog" THEN "armed"
                            ELSE IF p \in Agents THEN "idle" ELSE pc[p]]
  /\ emission' = [emission EXCEPT !["main"] = [kind |-> "ordinary", then |-> "loop"]]
  /\ UNCHANGED <<locks, actors, forced, scope, lease, result, counters, ending,
                 mode, cancelled>>

StartRaises ==
  /\ \/ At("main", "load") /\ "clean" \in StoreFaults /\ UNCHANGED storeVars
     \/ At("main", "create") /\ "clean" \in StoreFaults /\ UNCHANGED storeVars
     \/ At("main", "create") /\ "ambiguous" \in StoreFaults /\ Store!CreateRun(Run)
  /\ ending' = [ending EXCEPT !["main"] =
       Ending("failed", IF pc["main"] = "load" THEN "internal_error" ELSE "event_store_error")]
  /\ Go("main", "raised")
  /\ UNCHANGED <<locks, actors, verdict, counters, emission, mode, cancelled>>

Loop ==
  /\ At("main", "loop")
  /\ \/ KernelTerminal /\ Go("main", "done") /\ UNCHANGED <<ending, mode, cancelled>>
     \/ ~KernelTerminal /\ scope # "none" /\ ToCancelHandler
     \/ /\ ~KernelTerminal /\ scope = "none" /\ DecisionsLeft
        /\ Go("main", "propose") /\ UNCHANGED <<ending, mode, cancelled>>
  /\ UNCHANGED <<storeVars, locks, actors, verdict, counters, emission>>

Proposed ==
  /\ At("main", "propose")
  /\ decisions' = decisions + 1
  /\ Emit("main", "ordinary", "act")
  /\ UNCHANGED <<storeVars, locks, actors, verdict, sequence, ending, mode, cancelled>>

(* fail and complete first let the actors end (CONTROL_SHUTDOWN).          *)
ActEnd ==
  /\ At("main", "act")
  /\ \/ "fail" \in Actions /\
          ending' = [ending EXCEPT !["main"] = Ending("failed", "agent_failed")]
     \/ "complete" \in Actions /\
          ending' = [ending EXCEPT !["main"] = Ending("completed", "completed")]
  /\ quit' = quit \cup Live
  /\ Go("main", StopLabel)
  /\ UNCHANGED <<storeVars, locks, job, emitted, verdict, counters, emission,
                 mode, cancelled>>

ActAssign ==
  /\ At("main", "act") /\ "assign" \in Actions
  /\ Emit("main", "ordinary", "assign")
  /\ UNCHANGED <<storeVars, locks, actors, verdict, counters, ending, mode, cancelled>>

ActWait == "wait" \in Actions /\ Move("main", "act", "yield")

Yielded == Move("main", "yield", "loop")

(* One assignment per target; an actor that has ended refuses its own.     *)
Assign ==
  /\ At("main", "assign")
  /\ \E targets \in SUBSET Agents \ {{}} :
       /\ job' = [a \in Agents |-> IF a \in targets \cap Live THEN "assigned" ELSE job[a]]
       /\ IF targets \subseteq Live
          THEN Go("main", "work") /\ UNCHANGED ending
          ELSE /\ Go("main", "raised")
               /\ ending' = [ending EXCEPT !["main"] = Ending("failed", "internal_error")]
  /\ UNCHANGED <<storeVars, locks, quit, emitted, verdict, counters, emission,
                 mode, cancelled>>

(* gather() over the assignments: all answered, or the first one that      *)
(* raised or was cancelled.                                                *)
Worked ==
  /\ At("main", "work")
  /\ \/ /\ \A a \in Agents : job[a] \in {"none", "ok"}
        /\ job' = [a \in Agents |-> "none"]
        /\ Emit("main", "ordinary", "accept") /\ UNCHANGED <<ending, mode, cancelled>>
     \/ /\ \E a \in Agents : job[a] = "error"
        /\ Go("main", "raised")
        /\ ending' = [ending EXCEPT !["main"] = Ending("failed", "internal_error")]
        /\ UNCHANGED <<job, emission, mode, cancelled>>
     \/ /\ \E a \in Agents : job[a] = "cancelled"
        /\ ToCancelHandler /\ UNCHANGED <<job, emission>>
  /\ UNCHANGED <<storeVars, locks, quit, emitted, verdict, counters>>

Accepted == Move("main", "accept", "loop")

(* _stop_actors returns once every actor has ended.                        *)
Stopped ==
  /\ At("main", "pause") \/ (At("main", "stop") /\ Live = {})
  /\ ending' = IF mode = "cancel" THEN [ending EXCEPT !["main"] = CancelEnding] ELSE ending
  /\ Go("main", IF ending'["main"].state = "completed" THEN "spawn" ELSE "finish")
  /\ UNCHANGED <<storeVars, locks, actors, verdict, counters, emission,
                 mode, cancelled>>

(* The completion is a task of its own, shielded from main's cancellation. *)
SpawnCompletion ==
  /\ At("main", "spawn")
  /\ \/ /\ ~lease
        /\ Go("main", "raised")
        /\ ending' = [ending EXCEPT !["main"] = Ending("failed", "internal_error")]
        /\ UNCHANGED <<mode, cancelled>>
     \/ lease /\ scope # "none" /\ ToCancelHandler
     \/ /\ lease /\ scope = "none"
        /\ pc' = [pc EXCEPT !["main"] = "await_comp", !["comp"] = "ready"]
        /\ ending' = [ending EXCEPT !["comp"] = Ending("completed", "completed")]
        /\ UNCHANGED <<mode, cancelled>>
  /\ UNCHANGED <<storeVars, locks, actors, verdict, counters, emission>>

CompletionStarts == Move("comp", "ready", "finish")

CompletionAwaited == pc["comp"] = "done" /\ Move("main", "await_comp", "done")

(* A cancellation is delivered where a task is suspended.  A database call *)
(* that is cancelled may have committed.  What a gather() awaits is        *)
(* cancelled first, so in "stop" it comes through once the actors ended.   *)
CancelledCall(p) ==
  \/ UNCHANGED storeVars
  \/ pc[p] = "create" /\ Store!CreateRun(Run)
  \/ pc[p] = "append" /\ Store!AppendEvent(Envelope(emission[p].kind))
  \/ pc[p] = "persist" /\ Acceptable(p) /\ Persist(p)

MainInterrupted ==
  /\ "main" \in cancelled /\ Turn("main") /\ pc["main"] \notin Sync \cup {"done"}
  /\ pc["main"] = "stop" => Live = {}
  /\ pc["main"] = "await_comp" => pc["comp"] # "ready"
  /\ CancelledCall("main")
  /\ seqLock' = Leave(seqLock, "main") /\ finLock' = Leave(finLock, "main")
  /\ IF mode = "body" /\ pc["main"] # "ready"
     THEN ToCancelHandler
     ELSE /\ Go("main", "done") /\ cancelled' = cancelled \ {"main"}
          /\ UNCHANGED <<ending, mode>>
  /\ UNCHANGED <<actors, verdict, counters, emission>>

-----------------------------------------------------------------------------
(* An actor (AgentActor.run) and the executor inside it.                   *)

AgentTakes(a) == job[a] = "assigned" /\ Move(a, "idle", "busy")

Gone(a) ==
  /\ Go(a, "gone")
  /\ job' = IF job[a] = "assigned" THEN [job EXCEPT ![a] = "cancelled"] ELSE job

AgentQuits(a) ==
  /\ At(a, "idle") /\ a \in quit
  /\ Gone(a)
  /\ UNCHANGED <<storeVars, locks, quit, emitted, verdict, counters, tasks>>

AgentEmits(a) ==
  /\ pc[a] \in {"busy", "unwind"} /\ At(a, pc[a])
  /\ emitted[a] < MaxAgentEvents
  /\ emitted' = [emitted EXCEPT ![a] = @ + 1]
  /\ Emit(a, "ordinary", pc[a])
  /\ UNCHANGED <<storeVars, locks, quit, job, verdict, counters, ending, mode, cancelled>>

(* The executor returns; its result counts only if the Run is not being    *)
(* cancelled and the lease is valid.                                       *)
AgentReturns(a) ==
  /\ At(a, "busy")
  /\ IF scope # "none" THEN Gone(a)
     ELSE /\ Go(a, "idle")
          /\ job' = [job EXCEPT ![a] =
               IF @ # "assigned" THEN @ ELSE IF lease THEN "ok" ELSE "error"]
  /\ UNCHANGED <<storeVars, locks, quit, emitted, verdict, counters, tasks>>

AgentRaises(a) ==
  /\ At(a, "raised") \/ (AgentErrors /\ At(a, "busy"))
  /\ Go(a, IF scope # "none" THEN "gone" ELSE "idle")
  /\ job' = [job EXCEPT ![a] = IF @ = "assigned" THEN "error" ELSE @]
  /\ UNCHANGED <<storeVars, locks, quit, emitted, verdict, counters, tasks>>

(* A cancelled actor that is executing unwinds first, and its clean-up may *)
(* still emit.                                                             *)
AgentInterrupted(a) ==
  /\ a \in cancelled /\ Turn(a) /\ pc[a] \notin Sync \cup {"none", "gone"}
  /\ CancelledCall(a)
  /\ seqLock' = Leave(seqLock, a)
  /\ cancelled' = cancelled \ {a}
  /\ IF pc[a] = "idle" THEN Gone(a) ELSE Go(a, "unwind") /\ UNCHANGED job
  /\ UNCHANGED <<finLock, quit, emitted, verdict, counters, emission, ending, mode>>

AgentUnwound(a) ==
  /\ At(a, "unwind")
  /\ Gone(a)
  /\ UNCHANGED <<storeVars, locks, quit, emitted, verdict, counters, tasks>>

-----------------------------------------------------------------------------
(* Callers, the watchdog, and the rest of the system.                      *)

Callable == EarlyCalls \/ kstate # "created"
Decided == pc["comp"] # "none" \/ KernelTerminal
Alive(p) == pc[p] \notin {"done", "gone", "none"}

CallDecided(p) == Callable /\ Decided /\ Move(p, "idle", "await_result")
ResultReady(p) == result # NoResult /\ Move(p, "await_result", "done")

CancelCall ==
  /\ Callable /\ ~Decided /\ scope = "none"
  /\ At("cancel", "idle")
  /\ scope' = "user" /\ kstate' = "cancelling"
  /\ Emit("cancel", "ordinary", "tell")
  /\ UNCHANGED <<storeVars, locks, actors, forced, lease, result, counters, ending,
                 mode, cancelled>>

CancelAgain == Callable /\ ~Decided /\ scope # "none" /\ Move("cancel", "idle", "grace")
CancelEmitFailed == Move("cancel", "raised", "finish")

CancelTells ==
  /\ At("cancel", "tell")
  /\ quit' = quit \cup Live
  /\ Go("cancel", "told")
  /\ UNCHANGED <<storeVars, locks, job, emitted, verdict, counters, tasks>>

CancelQueued ==
  /\ At("cancel", "told") /\ seqLock # <<>>
  /\ seqLock' = Append(seqLock, "cancel")
  /\ Go("cancel", "lock_cancel")
  /\ UNCHANGED <<storeVars, finLock, actors, verdict, counters, tasks>>

(* Under the sequence lock, so that no append of the main task or of an    *)
(* actor is under way.                                                     *)
CancelWork ==
  /\ \/ At("cancel", "told") /\ seqLock = <<>>
     \/ At("cancel", "lock_cancel") /\ Holds(seqLock, "cancel")
  /\ seqLock' = Leave(seqLock, "cancel")
  /\ cancelled' = cancelled \cup Live \cup {p \in {"main"} : Alive(p)}
  /\ Go("cancel", "grace")
  /\ UNCHANGED <<storeVars, finLock, actors, verdict, counters, emission, ending, mode>>

GraceAnswered == result # NoResult /\ Move("cancel", "grace", "done")

(* The grace period is seconds: what only takes turns of the loop is done  *)
(* before it ends.  A main task that waits for actors may still wait.      *)
Outstanding ==
  \/ cancelled \cap Agents # {} \/ pc["main"] \in {"pause", "yield"}
  \/ IF pc["main"] = "stop" THEN Live = {} ELSE "main" \in cancelled

GraceEnds ==
  /\ At("cancel", "grace") /\ result = NoResult /\ ~Outstanding
  /\ lease' = FALSE
  /\ cancelled' = cancelled \cup Live
  /\ Go("cancel", "force_stop")
  /\ UNCHANGED <<storeVars, locks, actors, kstate, forced, scope, result, counters,
                 emission, ending, mode>>

(* A main task that was waiting for the same actors is woken first.        *)
(* Mutant: the main task is trusted to decide the Run.                     *)
MutantForceStopped ==
  /\ At("cancel", "force_stop") /\ Live = {} /\ pc["main"] # "stop"
  /\ Go("cancel", "await_result")
  /\ UNCHANGED rest

ForceStopped ==
  /\ At("cancel", "force_stop") /\ Live = {} /\ pc["main"] # "stop"
  /\ ending' = [ending EXCEPT !["cancel"] = Ending("cancelled", scope)]
  /\ Go("cancel", "finish")
  /\ UNCHANGED <<storeVars, locks, actors, verdict, counters, emission, mode, cancelled>>

(* fail(), and _abort when another task than main calls it: no lock.       *)
Kill(p, reason, next) ==
  /\ forced' = reason /\ scope' = First(reason)
  /\ cancelled' = cancelled \cup Live \cup {q \in {"main"} : Alive(q)}
  /\ Go(p, next)
  /\ UNCHANGED <<storeVars, locks, actors, kstate, lease, result, counters, emission,
                 ending, mode>>

FailCall(p) == Callable /\ ~Decided /\ At(p, "idle") /\ Kill(p, "runtime_shutdown", "await_result")

WatchdogFire ==
  WatchdogFires /\ ~KernelTerminal /\ At("watchdog", "armed")
    /\ Kill("watchdog", "wall_time_exceeded", "done")

(* Another Run of the scope starts and completes.                          *)
RivalStep ==
  /\ RivalCommits /\ Turn("none")
  /\ \/ state[Rival] = "absent" /\ Store!CreateRun(Rival)
     \/ Store!TryComplete([id |-> Len(events[Run]) + 1, run |-> Rival, seq |-> 1,
                           kind |-> "completed"])
  /\ UNCHANGED <<pc, locks, actors, verdict, counters, tasks>>

EmitStep(p) ==
  \/ EmitRefused(p) \/ EmitLock(p) \/ SeqAcquired(p)
  \/ Appended(p) \/ AppendRaises(p) \/ Published(p)
FinishStep(p) ==
  \/ FinishQueued(p) \/ FinishTooLate(p) \/ FinishEntered(p) \/ FinishSeqAcquired(p)
  \/ Persisted(p) \/ NotPersisted(p) \/ CompletionRaises(p) \/ FinishLocally(p) \/ Resolved(p)
MainStep ==
  \/ MainStarts \/ LoadContext \/ CreateJournal \/ StartRaises \/ MainRaised \/ MainAborts
  \/ Loop \/ Proposed \/ ActEnd \/ ActAssign \/ ActWait \/ Yielded \/ Assign \/ Worked
  \/ Accepted \/ Stopped \/ SpawnCompletion \/ CompletionAwaited \/ MainInterrupted
  \/ EmitStep("main") \/ FinishStep("main")
CompletionStep == CompletionStarts \/ FinishStep("comp")
AgentStep(a) ==
  \/ AgentTakes(a) \/ AgentQuits(a) \/ AgentEmits(a) \/ AgentReturns(a) \/ AgentRaises(a)
  \/ AgentInterrupted(a) \/ AgentUnwound(a) \/ EmitStep(a)
CancelArrives == Cancels /\ (CancelCall \/ CancelAgain \/ CallDecided("cancel"))
CancelStep ==
  \/ CancelTells \/ CancelQueued \/ CancelWork \/ GraceAnswered \/ GraceEnds \/ ForceStopped
  \/ CancelEmitFailed \/ EmitStep("cancel") \/ FinishStep("cancel") \/ ResultReady("cancel")

Next ==
  \/ MainStep \/ CompletionStep \/ WatchdogFire \/ RivalStep
  \/ \E a \in Agents : AgentStep(a)
  \/ CancelArrives \/ CancelStep
  \/ \E p \in FailCallers : FailCall(p) \/ CallDecided(p) \/ ResultReady(p)

Spec == Init /\ [][Next]_vars

(* The event loop runs every task that is ready, stores and sinks answer,  *)
(* executors return or unwind, policies answer, and time passes.           *)
Fairness ==
  /\ WF_vars(MainStep) /\ WF_vars(CompletionStep) /\ WF_vars(WatchdogFire)
  /\ \A a \in Agents : WF_vars(AgentStep(a))
  /\ WF_vars(CancelStep)

FairSpec == Spec /\ Fairness

-----------------------------------------------------------------------------
(* What the kernel promises.                                               *)

(* Success is durable before anyone is told: the kernel is in, or reports, *)
(* "completed" or "cancelled" only if the journal row says so.  "failed"   *)
(* may be local, after a failure of the journal.                           *)
SuccessIsDurable ==
  /\ kstate \in {"completed", "cancelled"} => state[Run] = kstate
  /\ result.state \in {"completed", "cancelled"} => state[Run] = result.state

(* One verdict: the result handed to the callers and the journal row never *)
(* disagree, whichever of the finishing tasks wins.                        *)
OneVerdict ==
  result # NoResult /\ state[Run] \in Terminal => result.state = state[Run]

(* A completed Run has no work left that could still write: no actor is    *)
(* alive when the completion commits, nor later.                           *)
CompletedWithoutWork == state[Run] = "completed" => Live = {}

(* Only a caller's cancellation ends in "cancelled"; the reason is the     *)
(* caller's.                                                               *)
CancelledByCaller ==
  /\ state[Run] = "cancelled" => scope = "user"
  /\ result.state = "cancelled" => result.reason = "user"

(* After the terminal event the log holds only late-event rejections.      *)
NothingAfterTerminal ==
  \A i, j \in DOMAIN events[Run] :
    i < j /\ events[Run][i].kind \in Terminal => events[Run][j].kind = "late"

(* Whenever no task is inside the sequence lock the kernel's counter is    *)
(* the length of the log, so the next envelope gets the next number.       *)
SequenceIsLogLength ==
  (\A p \in DOMAIN pc : pc[p] \notin {"append", "persist", "fallback"})
    => sequence = Len(events[Run])

(* The context of the scope stays the history of its completed Runs.       *)
ContextIsHistory == Store!ContextIsCompletedRuns

(* A Run ends once and in one way: the callers' answer is the row's, and   *)
(* the numbered log ends with its verdict.                                 *)
OneEnding == OneVerdict /\ NothingAfterTerminal /\ SequenceIsLogLength

(* What is announced or committed is durable and nobody else's.            *)
DurableTruth == SuccessIsDurable /\ ContextIsHistory

(* The in-memory and SQLite adapters, when no call raises for a fault.     *)
JournalAnswers == ~SuspendingJournal /\ StoreFaults = {}

(* A Run ends in truth under every journal, and once and in one way on a   *)
(* journal that answers.                                                   *)
EndsInTruth == DurableTruth /\ (JournalAnswers => OneEnding)

(* One verdict in the row and one answer to the callers, neither ever      *)
(* taken back.                                                             *)
Outcome == INSTANCE RunOutcome WITH
  Answers <- JournalAnswers,
  row <- IF state[Run] \in Terminal THEN state[Run] ELSE "open",
  told <- result.state
ImplementsOutcome == Outcome!Spec

(* No ending is reached but by the way that leads to it.                   *)
EndingsEarned == CompletedWithoutWork /\ CancelledByCaller

(* A terminal kernel state is final.                                       *)
KernelStateFinal == [][KernelTerminal => kstate' = kstate]_vars

(* Every Run is decided: the result future resolves, and the journal row   *)
(* becomes terminal.                                                       *)
ResultArrives == <>(result # NoResult)
JournalDecided == <>(state[Run] \in Terminal)

(* cancel() returns.                                                       *)
CancelReturns == pc["cancel"] = "emit" ~> pc["cancel"] = "done"
=============================================================================
