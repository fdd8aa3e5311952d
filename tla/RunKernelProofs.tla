--------------------------- MODULE RunKernelProofs ---------------------------
(***************************************************************************)
(* Proofs about RunKernel, for any number of actors and callers, any       *)
(* policy and any deadline.  KernelInv holds whatever the journal does; it *)
(* says why a verdict that is visible is durable.  AnswersInv is about a   *)
(* journal that answers: its calls are single steps, so nobody waits for   *)
(* the sequence lock, the kernel's state is that of the row once there is  *)
(* one, and a Run that was failed before that fails in its row.  EarnedInv *)
(* is about who stopped a Run before it ended, and for which reason.       *)
(***************************************************************************)
EXTENDS RunKernel, SequenceTheorems, TLAPS

-----------------------------------------------------------------------------
(* Where the tasks are.                                                    *)

Early == {"ready", "load", "create"}
Appending == {"emit", "append", "seq_wait", "sink"}
Deciding == {"loop", "propose", "act", "assign", "work", "accept", "yield"}
Finishing == {"finish", "fin_wait", "fin_seq", "persist", "fallback", "fin_sink"}
Leaving == Finishing \cup {"pause", "stop", "spawn", "await_comp", "raised", "done"}
Thens == {"done", "loop", "act", "assign", "accept", "busy", "unwind", "raised", "tell"}
Stores == {Run, Rival}
Scope == context["scope"]

-----------------------------------------------------------------------------
(* Whatever the journal does.                                              *)

Shapes ==
  /\ DOMAIN pc = Procs /\ DOMAIN ending = Procs /\ DOMAIN emission = Procs
  /\ \A p \in Procs : emission[p].kind \in {"ordinary", "late"} /\ emission[p].then \in Thens

(* The actors start together, before the main task does anything of the    *)
(* Run, and have all ended when it goes on from their stop.                *)
Starting ==
  /\ (\E a \in Agents : pc[a] = "none") => \A a \in Agents : pc[a] = "none"
  /\ pc["main"] \in Appending \cup Deciding \cup {"pause", "stop", "spawn", "await_comp"}
       => Started
  /\ pc["comp"] # "none" => pc["main"] \notin Early

(* Only the completion task completes a Run, when no actor is left.        *)
Completing ==
  /\ pc["main"] \in {"pause", "spawn", "await_comp"} => Live = {}
  /\ pc["comp"] # "none" => Live = {}
  /\ pc["main"] \in Finishing => ending["main"].state # "completed"
  /\ \A p \in Procs \ {"main", "comp"} : ending[p].state # "completed"

(* Who is about to answer the callers has recorded what it answers.        *)
Recorded ==
  /\ \A p \in Procs : pc[p] = "fallback" => ending[p].state = "failed"
  /\ \A p \in Procs :
       pc[p] = "fin_sink" /\ ending[p].state \in {"completed", "cancelled"}
         => state[Run] = ending[p].state
  /\ \A p \in Procs : pc[p] = "fin_sink" => ending[p].state \in Terminal
  /\ SuccessIsDurable

(* A snapshot of the version the scope still has is what the scope holds.  *)
Contexts ==
  /\ state \in [Stores -> {"absent", "running"} \cup Terminal]
  /\ context \in [{"scope"} -> [version : Nat, turns : Seq(Stores)]]
  /\ loaded \in [Stores -> [version : Nat, turns : Seq(Stores)]]
  /\ \A r \in Stores :
       /\ loaded[r].version <= Scope.version
       /\ loaded[r].version = Scope.version => loaded[r].turns = Scope.turns
  /\ ContextIsHistory

KernelInv ==
  Shapes /\ Starting /\ Completing /\ CompletedWithoutWork /\ Recorded /\ Contexts

-----------------------------------------------------------------------------
(* On a journal that answers.                                              *)

(* One task at a time is between two awaits, so the sequence lock is free  *)
(* whenever somebody asks for it.                                          *)
Locked == {"append", "persist", "fallback"}
Alone ==
  /\ \A p, q \in Procs : pc[p] \in Sync /\ pc[q] \in Sync => p = q
  /\ \A p \in Procs : pc[p] \notin {"seq_wait", "fin_seq", "lock_cancel"}
  /\ \A p \in Procs : pc[p] \in Locked => seqLock = <<p>>
  /\ (\A p \in Procs : pc[p] \notin Locked) => seqLock = <<>>

(* Before the row exists the actors have not started, and the main task    *)
(* has not begun or was stopped first.  Callers may have come: cancel()    *)
(* then ends the Run without a row.                                        *)
Rowless == state[Run] = "absent"
Beginning ==
  /\ pc["main"] \in Early => Rowless
  /\ Rowless =>
       /\ pc["main"] \in Early \cup {"done"}
       /\ pc["comp"] = "none" /\ pc["watchdog"] = "none" /\ \A a \in Agents : pc[a] = "none"
       /\ pc["cancel"] \notin {"tell", "told", "sink", "fin_wait", "fallback", "fin_sink"}
       /\ \A p \in FailCallers : pc[p] \in {"idle", "await_result", "done"}
       /\ finLock = IF pc["cancel"] = "persist" THEN <<"cancel">> ELSE <<>>
  /\ ~Rowless => Started

(* The kernel's state is that of the row, and the answer is both.          *)
Agreed ==
  /\ \/ Rowless /\ kstate \in {"created", "cancelling", "failed"}
     \/ kstate \in {"running", "cancelling"} /\ state[Run] = "running"
     \/ KernelTerminal /\ state[Run] = kstate
  /\ \A p \in Procs : pc[p] \in {"persist", "fallback"} => ~KernelTerminal
  /\ \A p \in Procs : pc[p] = "fin_sink" => KernelTerminal /\ ending[p].state = kstate
  /\ result # NoResult /\ KernelTerminal => result.state = kstate
  /\ Rowless => (kstate = "failed" <=> result # NoResult)

(* A Run that cancel() has failed before it had a row will fail in it: the *)
(* main task's first event is refused.                                     *)
MainFails ==
  \/ pc["main"] = "emit" /\ emission["main"].kind = "ordinary"
  \/ pc["main"] = "raised" /\ ending["main"].state = "failed"
  \/ /\ pc["main"] \in {"stop", "pause", "finish", "fin_wait", "persist", "done"}
     /\ ending["main"].state = "failed" /\ mode = "except"
Doomed ==
  result # NoResult /\ (Rowless \/ ~KernelTerminal) =>
    /\ result.state = "failed" /\ ~lease
    /\ pc["cancel"] \in {"await_result", "done"} /\ pc["comp"] = "none"
    /\ Rowless \/ MainFails

(* Whoever ends the Run has revoked the lease or seen every actor end.     *)
Quiet == ~lease \/ (Live = {} /\ pc["main"] \in Leaving)
Stillness ==
  /\ \A p \in Procs : pc[p] \in Finishing => Quiet \/ Rowless
  /\ KernelTerminal \/ pc["comp"] # "none" => Quiet
  /\ pc["cancel"] = "force_stop" => ~lease
  /\ pc["cancel"] = "raised" => Rowless
  /\ emission["cancel"].then \in {"done", "tell"}
  /\ pc["cancel"] \in {"emit", "append", "raised"} => ~KernelTerminal
  /\ \A p \in Procs : pc[p] = "append" /\ emission[p].kind = "ordinary" => ~KernelTerminal

(* Every identifier the next envelope could have been given is smaller.    *)
Entry == [id : Nat, run : Stores, seq : Nat, kind : {"ordinary", "late"} \cup Terminal]
Count == Len(events[Run]) + Len(events[Rival])
Logs ==
  /\ events \in [Stores -> Seq(Entry)]
  /\ \A r \in Stores : \A i \in DOMAIN events[r] : events[r][i].id <= Count
  /\ state[Rival] \in {"absent", "running"} => events[Rival] = <<>>
  /\ sequence = Len(events[Run])
  /\ \A i \in DOMAIN events[Run] : events[Run][i].kind \in Terminal => state[Run] \in Terminal
  /\ NothingAfterTerminal

AnswersInv ==
  KernelInv /\ Alone /\ Beginning /\ Agreed /\ Doomed /\ Stillness /\ Logs

-----------------------------------------------------------------------------
(* What a step may do to the rows and the context.                         *)

Ends(r, how) ==
  /\ state[r] = "running" /\ state' = [state EXCEPT ![r] = how]
  /\ UNCHANGED <<context, loaded>>
Completes(r) ==
  /\ state[r] = "running" /\ state' = [state EXCEPT ![r] = "completed"]
  /\ loaded[r].version = Scope.version
  /\ context' = [context EXCEPT !["scope"] =
                   [version |-> Scope.version + 1, turns |-> Append(loaded[r].turns, r)]]
  /\ UNCHANGED loaded
StoreCall ==
  \/ UNCHANGED <<state, context, loaded>>
  \/ Store!Load(Run)
  \/ \E r \in Stores : Store!CreateRun(r)
  \/ \E how \in {"failed", "cancelled"} : Ends(Run, how)
  \/ \E r \in Stores : Completes(r)

(* A completion appends a turn to the snapshot it is based on, which is    *)
(* what the scope holds, for its version is the scope's.                   *)
LEMMA ContextsKept == ASSUME Contexts, StoreCall PROVE Contexts'
<1> USE DEF Contexts, Stores, Run, Rival, Scope, Terminal
<1>1. CASE UNCHANGED <<state, context, loaded>>
  BY <1>1 DEF ContextIsHistory, Store!ContextIsCompletedRuns
<1>2. CASE Store!Load(Run)
  BY <1>2 DEF Store!Load, ContextIsHistory, Store!ContextIsCompletedRuns
<1>3. ASSUME NEW r \in Stores, Store!CreateRun(r) PROVE Contexts'
  BY <1>3 DEF Store!CreateRun, ContextIsHistory, Store!ContextIsCompletedRuns
<1>4. ASSUME NEW how \in {"failed", "cancelled"}, Ends(Run, how) PROVE Contexts'
  BY <1>4 DEF Ends, ContextIsHistory, Store!ContextIsCompletedRuns
<1>5. ASSUME NEW r \in Stores, Completes(r) PROVE Contexts'
  <2> DEFINE turns == Scope.turns
  <2>1. /\ turns \in Seq(Stores) /\ loaded[r].turns = turns /\ Scope.version \in Nat
        /\ Scope.version = Len(turns)
    BY <1>5 DEF Completes, ContextIsHistory, Store!ContextIsCompletedRuns
  <2>2. Scope' = [version |-> Scope.version + 1, turns |-> Append(turns, r)]
    BY <1>5, <2>1 DEF Completes
  <2>3. /\ Append(turns, r) \in Seq(Stores) /\ Len(Append(turns, r)) = Len(turns) + 1
        /\ DOMAIN Append(turns, r) = 1 .. Len(turns) + 1 /\ DOMAIN turns = 1 .. Len(turns)
        /\ Append(turns, r)[Len(turns) + 1] = r
        /\ \A i \in 1 .. Len(turns) : Append(turns, r)[i] = turns[i]
    BY <2>1
  <2>4. /\ state' \in [Stores -> {"absent", "running"} \cup Terminal]
        /\ context' \in [{"scope"} -> [version : Nat, turns : Seq(Stores)]]
        /\ loaded' \in [Stores -> [version : Nat, turns : Seq(Stores)]]
    BY <1>5, <2>1, <2>3 DEF Completes
  <2>5. \A q \in Stores : loaded'[q].version < Scope'.version
    BY <1>5, <2>1, <2>2 DEF Completes
  <2>6. \A q \in Stores :
          state'[q] = "completed" <=> \E i \in DOMAIN Scope'.turns : Scope'.turns[i] = q
    <3> SUFFICES ASSUME NEW q \in Stores
                 PROVE  state'[q] = "completed" <=>
                          \E i \in DOMAIN Append(turns, r) : Append(turns, r)[i] = q
      BY <2>2
    <3>1. state[q] = "completed" <=> \E i \in DOMAIN turns : turns[i] = q
      BY DEF ContextIsHistory, Store!ContextIsCompletedRuns
    <3>2. state'[q] = IF q = r THEN "completed" ELSE state[q]
      BY <1>5 DEF Completes
    <3>3. Len(turns) \in Nat
      BY <2>1
    <3> HIDE DEF turns
    <3>4. CASE q = r
      <4>1. Len(turns) + 1 \in DOMAIN Append(turns, r)
        BY <2>3, <3>3
      <4> QED BY <2>3, <3>2, <3>4, <4>1
    <3>5. CASE q # r
      <4>1. \A i \in DOMAIN Append(turns, r) : i \in DOMAIN turns \/ i = Len(turns) + 1
        BY <2>3, <3>3
      <4>2. \A i \in DOMAIN turns : i \in DOMAIN Append(turns, r)
        BY <2>3, <3>3
      <4> QED BY <2>3, <3>1, <3>2, <3>5, <4>1, <4>2
    <3> QED BY <3>4, <3>5
  <2>7. ContextIsHistory'
    <3>1. context'["scope"].version = Len(context'["scope"].turns)
      BY <2>1, <2>2, <2>3
    <3>2. \A i \in DOMAIN context'["scope"].turns : context'["scope"].turns[i] \in Stores
      BY <2>4
    <3> QED BY <2>6, <3>1, <3>2 DEF ContextIsHistory, Store!ContextIsCompletedRuns
  <2> QED BY <2>4, <2>5, <2>7
<1> QED BY <1>1, <1>2, <1>3, <1>4, <1>5 DEF StoreCall

-----------------------------------------------------------------------------
(* The tasks.                                                              *)

Rows == state \in [Stores -> {"absent", "running"} \cup Terminal]
Tasks == Shapes /\ Starting /\ Completing /\ CompletedWithoutWork /\ Recorded

-----------------------------------------------------------------------------
(* What the tasks do.  Each lemma has a case for each action of a kind of  *)
(* step.                                                                   *)

Others ==
  \/ CompletionStep \/ WatchdogFire \/ RivalStep
  \/ \E p \in FailCallers : FailCall(p) \/ CallDecided(p) \/ ResultReady(p)
MainMoves ==
  \/ MainStarts \/ LoadContext \/ CreateJournal \/ StartRaises \/ MainRaised \/ MainAborts
  \/ Loop \/ Proposed \/ ActEnd \/ ActAssign \/ ActWait \/ Yielded \/ Assign \/ Worked
  \/ Accepted \/ Stopped \/ SpawnCompletion \/ CompletionAwaited \/ MainInterrupted

USE KernelAssumption DEF Tasks, Rows, Shapes, Thens, Starting, Early,
    Appending, Deciding, Completing, CompletedWithoutWork, Finishing,
    Recorded, SuccessIsDurable, Move, Go, At, rest, tasks, Procs, Emit,
    ToCancelHandler, CancelEnding, Ending, Gone, Abort, Kill, StopLabel,
    Started, Live, Returned, MayEnter, StopWatchdog, PersistRaises, Persist,
    CancelledCall, Store!Load, Store!CreateRun, Store!AppendEvent,
    Store!TryFinish, Store!TryComplete, Envelope, storeVars, Stores, Run,
    Rival, Terminal, Store!Terminal, LocalVerdict, NoResult, verdict,
    counters, KernelTerminal

(* The main task.                                                          *)
LEMMA MainTasks ==
  ASSUME Tasks, Rows, MainMoves
  PROVE  Tasks'
<1>1. CASE MainStarts
  BY <1>1 DEF MainStarts
<1>2. CASE LoadContext
  BY <1>2 DEF LoadContext
<1>3. CASE CreateJournal
  BY <1>3 DEF CreateJournal
<1>4. CASE StartRaises
  BY <1>4 DEF StartRaises
<1>5. CASE MainRaised
  BY <1>5 DEF MainRaised
<1>6. CASE MainAborts
  <2>1. CASE Abort("decision_budget_exhausted", "body") /\ At("main", "loop")
    BY <1>6, <2>1 DEF MainAborts
  <2>2. ASSUME NEW reason, NEW l \in {"propose", "act", "accept"},
               At("main", l), Abort(reason, "body")
        PROVE  Tasks'
    BY <1>6, <2>2 DEF MainAborts
  <2> QED BY <1>6, <2>1, <2>2 DEF MainAborts
<1>7. CASE Loop
  BY <1>7 DEF Loop
<1>8. CASE Proposed
  BY <1>8 DEF Proposed
<1>9. CASE ActEnd
  BY <1>9 DEF ActEnd
<1>10. CASE ActAssign
  BY <1>10 DEF ActAssign
<1>11. CASE ActWait
  BY <1>11 DEF ActWait
<1>12. CASE Yielded
  BY <1>12 DEF Yielded
<1>13. CASE Assign
  BY <1>13 DEF Assign
<1>14. CASE Worked
  BY <1>14 DEF Worked
<1>15. CASE Accepted
  BY <1>15 DEF Accepted
<1>16. CASE Stopped
  BY <1>16 DEF Stopped
<1>17. CASE SpawnCompletion
  BY <1>17 DEF SpawnCompletion
<1>18. CASE CompletionAwaited
  BY <1>18 DEF CompletionAwaited
<1>19. CASE MainInterrupted
  BY <1>19 DEF MainInterrupted
<1> QED BY <1>1, <1>2, <1>3, <1>4, <1>5, <1>6, <1>7, <1>8, <1>9, <1>10,
  <1>11, <1>12, <1>13, <1>14, <1>15, <1>16, <1>17, <1>18, <1>19 DEF MainMoves

(* An emit.                                                                *)
LEMMA EmitTasks ==
  ASSUME Tasks, Rows, NEW p \in Procs, EmitStep(p)
  PROVE  Tasks'
<1>1. CASE EmitRefused(p)
  BY <1>1 DEF EmitRefused
<1>2. CASE EmitLock(p)
  BY <1>2, ZenonT(40) DEF EmitLock
<1>3. CASE SeqAcquired(p)
  BY <1>3 DEF SeqAcquired
<1>4. CASE Appended(p)
  BY <1>4 DEF Appended
<1>5. CASE AppendRaises(p)
  BY <1>5 DEF AppendRaises
<1>6. CASE Published(p)
  BY <1>6 DEF Published
<1> QED BY <1>1, <1>2, <1>3, <1>4, <1>5, <1>6 DEF EmitStep

(* A verdict.                                                              *)
LEMMA FinishTasks ==
  ASSUME Tasks, Rows, NEW p \in {"main", "comp", "cancel"}, FinishStep(p)
  PROVE  Tasks'
<1>1. CASE FinishQueued(p)
  BY <1>1 DEF FinishQueued
<1>2. CASE FinishTooLate(p)
  BY <1>2 DEF FinishTooLate
<1>3. CASE FinishEntered(p)
  BY <1>3 DEF FinishEntered
<1>4. CASE FinishSeqAcquired(p)
  BY <1>4, ZenonT(40) DEF FinishSeqAcquired
<1>5. CASE Persisted(p)
  <2>1. Shapes' /\ Starting' /\ Completing'
    BY <1>5 DEF Persisted
  <2>2. /\ state'[Run] = ending[p].state /\ state[Run] = "running"
        /\ ending[p].state \in Terminal
    BY <1>5 DEF Persisted
  <2>3. CompletedWithoutWork'
    BY <1>5, <2>2 DEF Persisted
  <2>4. Recorded'
    BY <1>5, <2>2 DEF Persisted
  <2> QED BY <2>1, <2>3, <2>4
<1>6. CASE NotPersisted(p)
  BY <1>6 DEF NotPersisted
<1>7. CASE CompletionRaises(p)
  BY <1>7 DEF CompletionRaises
<1>8. CASE FinishLocally(p)
  <2>1. Shapes' /\ Starting' /\ Completing'
    BY <1>8, ZenonT(40) DEF FinishLocally
  <2>2. /\ state[Run] \in Terminal => state'[Run] = state[Run]
        /\ state'[Run] = "completed" => state[Run] = "completed" \/ ending[p].state = "completed"
    BY <1>8 DEF FinishLocally
  <2>3. CompletedWithoutWork'
    BY <1>8, <2>2 DEF FinishLocally
  <2>4. Recorded'
    BY <1>8, <2>2 DEF FinishLocally
  <2> QED BY <2>1, <2>3, <2>4
<1>9. CASE Resolved(p)
  BY <1>9 DEF Resolved
<1> QED BY <1>1, <1>2, <1>3, <1>4, <1>5, <1>6, <1>7, <1>8, <1>9 DEF FinishStep

(* An actor.                                                               *)
LEMMA AgentTasks ==
  ASSUME Tasks, Rows, NEW a \in Agents, AgentStep(a)
  PROVE  Tasks'
<1>1. CASE AgentTakes(a)
  BY <1>1 DEF AgentTakes
<1>2. CASE AgentQuits(a)
  BY <1>2 DEF AgentQuits
<1>3. CASE AgentEmits(a)
  BY <1>3 DEF AgentEmits
<1>4. CASE AgentReturns(a)
  BY <1>4 DEF AgentReturns
<1>5. CASE AgentRaises(a)
  BY <1>5 DEF AgentRaises
<1>6. CASE AgentInterrupted(a)
  <2>1. UNCHANGED <<kstate, result, ending, emission>>
    BY <1>6 DEF AgentInterrupted
  <2>2. /\ state[Run] \in Terminal => state'[Run] = state[Run]
        /\ state'[Run] = "completed" => state[Run] = "completed"
    BY <1>6 DEF AgentInterrupted
  <2>3. Shapes' /\ Starting' /\ Completing'
    <3>1. /\ pc[a] \notin {"none", "gone"}
          /\ \/ pc' = [pc EXCEPT ![a] = "gone"]
             \/ pc' = [pc EXCEPT ![a] = "unwind"]
      BY <1>6 DEF AgentInterrupted
    <3> QED BY <2>1, <3>1
  <2>4. CompletedWithoutWork' /\ Recorded'
    BY <1>6, <2>1, <2>2 DEF AgentInterrupted
  <2> QED BY <2>3, <2>4
<1>7. CASE AgentUnwound(a)
  BY <1>7 DEF AgentUnwound
<1>8. CASE EmitStep(a)
  BY <1>8, EmitTasks
<1> QED BY <1>1, <1>2, <1>3, <1>4, <1>5, <1>6, <1>7, <1>8 DEF AgentStep

(* A caller that cancels.                                                  *)
LEMMA CancelTasks ==
  ASSUME Tasks, Rows, CancelArrives \/ CancelStep
  PROVE  Tasks'
<1>1. CASE CancelArrives
  BY <1>1 DEF CancelArrives, CancelCall, CancelAgain, CallDecided
<1>2. CASE CancelTells
  BY <1>2 DEF CancelTells
<1>3. CASE CancelQueued
  BY <1>3 DEF CancelQueued
<1>4. CASE CancelWork
  BY <1>4 DEF CancelWork
<1>5. CASE GraceAnswered
  BY <1>5 DEF GraceAnswered
<1>6. CASE GraceEnds
  BY <1>6 DEF GraceEnds
<1>7. CASE ForceStopped
  BY <1>7 DEF ForceStopped
<1>8. CASE CancelEmitFailed
  BY <1>8 DEF CancelEmitFailed
<1>9. CASE EmitStep("cancel")
  BY <1>9, EmitTasks DEF Procs
<1>10. CASE FinishStep("cancel")
  BY <1>10, FinishTasks
<1>11. CASE ResultReady("cancel")
  BY <1>11 DEF ResultReady
<1> QED BY <1>1, <1>2, <1>3, <1>4, <1>5, <1>6, <1>7, <1>8, <1>9, <1>10,
  <1>11 DEF CancelStep

(* The completion task, the deadline, callers of fail() and a rival Run.   *)
LEMMA OtherTasks ==
  ASSUME Tasks, Rows, Others
  PROVE  Tasks'
<1>1. CASE CompletionStarts
  BY <1>1 DEF CompletionStarts
<1>2. CASE FinishStep("comp")
  BY <1>2, FinishTasks
<1>3. CASE WatchdogFire
  BY <1>3 DEF WatchdogFire
<1>4. CASE RivalStep
  BY <1>4 DEF RivalStep
<1>5. CASE \E p \in FailCallers : FailCall(p) \/ CallDecided(p) \/ ResultReady(p)
  BY <1>5 DEF FailCall, CallDecided, ResultReady
<1> QED BY <1>1, <1>2, <1>3, <1>4, <1>5 DEF Others, CompletionStep

HIDE KernelAssumption DEF Tasks, Rows, Shapes, Thens, Starting, Early,
    Appending, Deciding, Completing, CompletedWithoutWork, Finishing,
    Recorded, SuccessIsDurable, Move, Go, At, rest, tasks, Procs, Emit,
    ToCancelHandler, CancelEnding, Ending, Gone, Abort, Kill, StopLabel,
    Started, Live, Returned, MayEnter, StopWatchdog, PersistRaises, Persist,
    CancelledCall, Store!Load, Store!CreateRun, Store!AppendEvent,
    Store!TryFinish, Store!TryComplete, Envelope, storeVars, Stores, Run,
    Rival, Terminal, Store!Terminal, LocalVerdict, NoResult, verdict,
    counters, KernelTerminal

(* Every step makes at most one call of the store.                         *)
LEMMA StepIsStoreCall == ASSUME [Next]_vars PROVE StoreCall
<1> USE DEF Move, Go, rest, storeVars, Stores, Run, Rival, Terminal, Scope, StoreCall,
      Ends, Completes, CancelledCall, Envelope, PersistRaises, Persist, Store!Terminal,
      Store!CreateRun, Store!AppendEvent, Store!TryFinish, Store!TryComplete,
      Store!CommittedContext
<1>1. CASE UNCHANGED vars
  BY <1>1 DEF vars
<1>2. ASSUME NEW p \in Procs, EmitStep(p) PROVE StoreCall
  BY <1>2 DEF EmitStep, EmitRefused, EmitLock, SeqAcquired, Appended, AppendRaises, Published
<1>3. ASSUME NEW p, FinishStep(p) PROVE StoreCall
  <2>1. CASE Persisted(p) \/ CompletionRaises(p) \/ FinishLocally(p)
    BY <2>1 DEF Persisted, CompletionRaises, FinishLocally
  <2>2. CASE ~Persisted(p) /\ ~CompletionRaises(p) /\ ~FinishLocally(p)
    BY <1>3, <2>2 DEF FinishStep, FinishQueued, FinishTooLate, FinishEntered,
      FinishSeqAcquired, NotPersisted, Resolved
  <2> QED BY <2>1, <2>2
<1>4. CASE MainMoves
  <2>1. CASE LoadContext \/ CreateJournal \/ StartRaises \/ MainInterrupted
    BY <2>1 DEF LoadContext, CreateJournal, StartRaises, MainInterrupted
  <2>2. CASE ~(LoadContext \/ CreateJournal \/ StartRaises \/ MainInterrupted)
    BY <1>4, <2>2 DEF MainMoves, MainStarts, MainRaised, MainAborts, Loop, Proposed, ActEnd,
      ActAssign, ActWait, Yielded, Assign, Worked, Accepted, Stopped, SpawnCompletion,
      CompletionAwaited
  <2> QED BY <2>1, <2>2
<1>5. ASSUME NEW a \in Agents, AgentStep(a) PROVE StoreCall
  <2>1. CASE AgentInterrupted(a)
    BY <2>1 DEF AgentInterrupted
  <2>2. CASE EmitStep(a)
    BY <1>2, <2>2 DEF Procs
  <2>3. CASE ~AgentInterrupted(a) /\ ~EmitStep(a)
    BY <1>5, <2>3 DEF AgentStep, AgentTakes, AgentQuits, AgentEmits, AgentReturns,
      AgentRaises, AgentUnwound
  <2> QED BY <2>1, <2>2, <2>3
<1>6. CASE CancelArrives \/ CancelStep
  <2>1. CASE EmitStep("cancel") \/ FinishStep("cancel")
    BY <1>2, <1>3, <2>1 DEF Procs
  <2>2. CASE ~EmitStep("cancel") /\ ~FinishStep("cancel")
    BY <1>6, <2>2 DEF CancelArrives, CancelStep, CancelCall, CancelAgain, CallDecided,
      CancelTells, CancelQueued, CancelWork, GraceAnswered, GraceEnds, ForceStopped,
      CancelEmitFailed, ResultReady
  <2> QED BY <2>1, <2>2
<1>7. CASE Others
  BY <1>3, <1>7 DEF Others, CompletionStep, CompletionStarts, WatchdogFire, Kill, RivalStep,
    FailCall, CallDecided, ResultReady
<1>8. CASE MainStep
  BY <1>2, <1>3, <1>4, <1>8 DEF MainStep, MainMoves, Procs
<1> QED BY <1>1, <1>5, <1>6, <1>7, <1>8 DEF Next, Others

(* KernelInv is kept by every step.                                        *)
LEMMA StepKernelInv == ASSUME KernelInv, [Next]_vars PROVE KernelInv'
<1>1. Tasks /\ Rows /\ Contexts
  BY DEF KernelInv, Tasks, Rows, Contexts
<1>2. Contexts'
  BY <1>1, StepIsStoreCall, ContextsKept
<1>3. Tasks'
  <2>1. CASE UNCHANGED vars
    BY <1>1, <2>1 DEF vars, rest, tasks, verdict, storeVars, Tasks, Shapes, Starting, Started,
      Completing, Live, CompletedWithoutWork, Recorded, SuccessIsDurable
  <2>2. CASE MainStep
    BY <1>1, <2>2, MainTasks, EmitTasks, FinishTasks DEF MainStep, MainMoves, Procs
  <2>3. CASE \E a \in Agents : AgentStep(a)
    BY <1>1, <2>3, AgentTasks
  <2>4. CASE CancelArrives \/ CancelStep
    BY <1>1, <2>4, CancelTasks
  <2>5. CASE Others
    BY <1>1, <2>5, OtherTasks
  <2> QED BY <2>1, <2>2, <2>3, <2>4, <2>5 DEF Next, Others
<1> QED BY <1>2, <1>3 DEF KernelInv, Tasks

(* It holds when nothing has started.                                      *)
LEMMA InitKernelInv == ASSUME Init PROVE KernelInv
<1> USE KernelAssumption DEF Init
<1>1. Tasks
  BY DEF Tasks, Shapes, Thens, Starting, Started, Completing, CompletedWithoutWork, Recorded,
    SuccessIsDurable, Live, Procs, Early, Appending, Deciding, Finishing, Ending, NoResult,
    Run, Rival, Store!Init
<1>2. Contexts
  BY DEF Contexts, Stores, Run, Rival, Scope, Terminal, Store!Init, Store!EmptyContext,
    ContextIsHistory, Store!ContextIsCompletedRuns
<1> QED BY <1>1, <1>2 DEF KernelInv, Tasks

-----------------------------------------------------------------------------
(* Whatever the journal does.                                              *)

(* KernelInv holds in every state: in particular nobody answers a caller   *)
(* with a success that is not recorded.                                    *)
THEOREM KernelInvariant == Spec => []KernelInv
<1>1. Init => KernelInv
  BY InitKernelInv
<1>2. KernelInv /\ [Next]_vars => KernelInv'
  BY StepKernelInv
<1> QED BY <1>1, <1>2, PTL DEF Spec

(* DurableTruth: with a journal that suspends, refuses calls, or raises    *)
(* after its commit, and callers that come before the row, a completed or  *)
(* cancelled Run is recorded before anybody hears of it, and the scope's   *)
(* context is the turns of its completed Runs (engine.py _finish).         *)
THEOREM VerdictsAreDurable == Spec => []DurableTruth
<1>1. KernelInv => DurableTruth
  BY DEF KernelInv, Recorded, Contexts, DurableTruth
<1> QED BY <1>1, KernelInvariant, PTL

(* CompletedWithoutWork: no actor is left when the completion commits, nor *)
(* later, whoever cancels, fails or stops the Run meanwhile.               *)
THEOREM CompletionLeavesNoWork == Spec => []CompletedWithoutWork
<1>1. KernelInv => CompletedWithoutWork
  BY DEF KernelInv
<1> QED BY <1>1, KernelInvariant, PTL

-----------------------------------------------------------------------------
(* On a journal that answers: the next envelope always fits the log.       *)

LEMMA NextEnvelope ==
  ASSUME Logs, NEW kind PROVE ~Store!Replay(Envelope(kind)) /\ Store!Fresh(Envelope(kind))
<1>1. Len(events[Run]) \in Nat /\ Len(events[Rival]) \in Nat
  BY DEF Logs, Stores
<1>2. \A r \in Stores : \A i \in DOMAIN events[r] : events[r][i].id # Count + 1
  <2> SUFFICES ASSUME NEW r \in Stores, NEW i \in DOMAIN events[r]
               PROVE  events[r][i].id # Count + 1
    OBVIOUS
  <2>1. events[r] \in Seq(Entry) /\ events[r][i].id <= Count
    BY DEF Logs
  <2>2. events[r][i] \in Entry
    BY <2>1
  <2>3. events[r][i].id \in Nat
    BY <2>2 DEF Entry
  <2>4. Count \in Nat
    <3>1. \A m, n \in Nat : m + n \in Nat
      OBVIOUS
    <3> QED BY <1>1, <3>1, Zenon DEF Count
  <2> QED BY <2>1, <2>3, <2>4
<1>3. Envelope(kind).id = Count + 1 /\ Envelope(kind).run = Run
      /\ Envelope(kind).seq = Len(events[Run]) + 1
  BY DEF Envelope, Count, Logs
<1>4. ~Store!Known(Envelope(kind).id)
  BY <1>2, <1>3 DEF Store!Known, Stores
<1>5. ~Store!Replay(Envelope(kind))
  BY <1>2, <1>3 DEF Store!Replay, Stores
<1> QED BY <1>3, <1>4, <1>5 DEF Store!Fresh

Calm == JournalAnswers /\ AnswersInv

(* Every envelope fits, and the row is open for whoever ends the Run.      *)
LEMMA WritesFit ==
  ASSUME Calm
  PROVE  /\ \A kind : Store!Appendable(Envelope(kind))
         /\ \A p \in Procs : pc[p] \in {"persist", "fallback"} =>
              Rowless \/ state[Run] = "running"
<1>1. \A kind : Store!Appendable(Envelope(kind))
  BY NextEnvelope DEF Store!Appendable, Calm, AnswersInv
<1> QED BY <1>1 DEF Calm, AnswersInv, Agreed, Rowless, KernelTerminal, Terminal

(* So some steps are never taken, and a call raises only for want of a row,*)
(* when cancel() made it.                                                  *)
LEMMA NeverTaken ==
  ASSUME Calm, NEW p \in Procs
  PROVE  ~SeqAcquired(p) /\ ~FinishSeqAcquired(p) /\ ~StartRaises /\ pc["cancel"] # "lock_cancel"
<1>1. ~SeqAcquired(p) /\ ~FinishSeqAcquired(p) /\ pc["cancel"] # "lock_cancel"
  BY DEF Calm, AnswersInv, Alone, SeqAcquired, FinishSeqAcquired, Move, At, Procs
<1>2. ~StartRaises
  BY DEF StartRaises, Calm, JournalAnswers
<1> QED BY <1>1, <1>2

LEMMA RaisesForWantOfRow ==
  ASSUME Calm, NEW p \in Procs, AppendRaises(p) \/ FinishLocally(p)
  PROVE  Rowless /\ p = "cancel" /\ UNCHANGED storeVars
<1>1. Rowless /\ UNCHANGED storeVars
  <2>1. CASE AppendRaises(p)
    BY <2>1, WritesFit DEF Calm, JournalAnswers, AppendRaises, Rowless
  <2>2. CASE FinishLocally(p)
    <3>1. pc[p] \in {"persist", "fallback"} /\ ending[p].state # "completed" /\ PersistRaises(p)
      BY <2>2 DEF FinishLocally, At, Calm, AnswersInv, KernelInv, Recorded
    <3>2. ~Acceptable(p) /\ UNCHANGED storeVars
      BY <3>1 DEF PersistRaises, Calm, JournalAnswers
    <3>3. state[Run] # "running"
      BY <3>1, <3>2, WritesFit DEF Acceptable, Stale
    <3> QED BY <3>1, <3>2, <3>3, WritesFit
  <2> QED BY <2>1, <2>2
<1>2. pc[p] \in {"append", "persist", "fallback"}
  BY DEF AppendRaises, FinishLocally, At
<1>3. p = "cancel"
  BY <1>1, <1>2 DEF Calm, AnswersInv, Beginning, Early, Procs
<1> QED BY <1>1, <1>3

(* No call is under way where a task is interrupted.                       *)
LEMMA InterruptedBetweenCalls ==
  ASSUME Calm, NEW p \in Procs, pc[p] \notin Sync, CancelledCall(p)
  PROVE  UNCHANGED storeVars
BY DEF Calm, JournalAnswers, CancelledCall, Sync, StoreCalls

(* A task that has its turn finds it free, or has it and hands it back to *)
(* nobody.                                                                 *)
LEMMA SequenceLock ==
  ASSUME JournalAnswers, Alone, NEW p \in Procs, Turn(p)
  PROVE  IF pc[p] \in Locked THEN seqLock = <<p>> /\ Tail(seqLock) = <<>>
                             ELSE seqLock = <<>> /\ Append(seqLock, p) = <<p>>
<1>1. CASE pc[p] \in Locked
  <2>1. seqLock = <<p>>
    BY <1>1 DEF Alone
  <2> QED BY <1>1, <2>1
<1>2. CASE pc[p] \notin Locked
  <2>1. \A q \in Procs : pc[q] \notin Locked
    BY <1>2 DEF Alone, JournalAnswers, Turn, Sync, Locked, StoreCalls
  <2>2. seqLock = <<>>
    BY <2>1 DEF Alone
  <2> QED BY <1>2, <2>2
<1> QED BY <1>1, <1>2

(* Nobody is taken out of a lock that is free or another's.                *)
LEMMA LeavesOthers ==
  ASSUME NEW p, NEW q, p # q
  PROVE  Leave(<<>>, p) = <<>> /\ Leave(<<q>>, p) = <<q>>
BY DEF Leave

-----------------------------------------------------------------------------
(* What the tasks do on such a journal.                                    *)

Order == Beginning /\ Agreed /\ Doomed /\ Stillness

(* The part of Calm that says who may take which step.                     *)
Setting ==
  JournalAnswers /\ Shapes /\ Starting /\ Completing /\ Alone /\ Order /\ Rows

USE KernelAssumption DEF Setting, Rowless, MainFails, Doomed, Shapes, Thens,
    Starting, Early, Appending, Deciding, Finishing, Completing, Rows,
    Started, Live, Beginning, Agreed, Stillness, Quiet, Leaving,
    JournalAnswers, Move, Go, At, rest, tasks, locks, verdict, counters,
    actors, storeVars, Procs, Emit, ToCancelHandler, CancelEnding, Ending,
    Gone, Abort, Kill, StopLabel, Returned, MayEnter, StopWatchdog,
    NeedsLease, Callable, Decided, Alive, Persist, Store!Load,
    Store!CreateRun, Store!AppendEvent, Store!TryFinish, Store!TryComplete,
    Envelope, Stores, Run, Rival, Terminal, Store!Terminal, NoResult,
    KernelTerminal, Order

(* Who may still write: the main task.                                     *)
LEMMA MainOrder ==
  ASSUME Calm, Setting, MainMoves
  PROVE  Order'
<1>1. CASE MainStarts
  BY <1>1 DEF MainStarts
<1>2. CASE LoadContext
  BY <1>2 DEF LoadContext
<1>3. CASE CreateJournal
  <2>1. \A q \in Procs \ {"main"} : pc[q] \notin Finishing \cup {"raised", "emit", "append"}
    BY <1>3 DEF CreateJournal, Alone, Sync, StoreCalls
  <2>2. Beginning'
    BY <1>3, <2>1 DEF CreateJournal
  <2>3. Agreed'
    BY <1>3, <2>1 DEF CreateJournal
  <2>4. Doomed'
    BY <1>3, <2>1 DEF CreateJournal
  <2>5. Stillness'
    BY <1>3, <2>1 DEF CreateJournal
  <2> QED BY <2>2, <2>3, <2>4, <2>5
<1>4. CASE StartRaises
  BY <1>4, NeverTaken DEF Procs
<1>5. CASE MainRaised
  BY <1>5 DEF MainRaised
<1>6. CASE MainAborts
  BY <1>6 DEF MainAborts
<1>7. CASE Loop
  BY <1>7 DEF Loop
<1>8. CASE Proposed
  BY <1>8 DEF Proposed
<1>9. CASE ActEnd
  BY <1>9 DEF ActEnd
<1>10. CASE ActAssign
  BY <1>10 DEF ActAssign
<1>11. CASE ActWait
  BY <1>11 DEF ActWait
<1>12. CASE Yielded
  BY <1>12 DEF Yielded
<1>13. CASE Assign
  BY <1>13 DEF Assign
<1>14. CASE Worked
  BY <1>14 DEF Worked
<1>15. CASE Accepted
  BY <1>15 DEF Accepted
<1>16. CASE Stopped
  BY <1>16 DEF Stopped
<1>17. CASE SpawnCompletion
  BY <1>17 DEF SpawnCompletion
<1>18. CASE CompletionAwaited
  BY <1>18 DEF CompletionAwaited
<1>19. CASE MainInterrupted
  <2>1. UNCHANGED storeVars
    BY <1>19, InterruptedBetweenCalls DEF MainInterrupted
  <2>2. pc["main"] \notin {"emit", "raised", "load", "create", "persist"}
    BY <1>19 DEF MainInterrupted, Sync, StoreCalls
  <2>3. Rowless => finLock' = finLock
    <3>1. Leave(<<>>, "main") = <<>> /\ Leave(<<"cancel">>, "main") = <<"cancel">>
      BY LeavesOthers
    <3>2. finLock' = Leave(finLock, "main")
      BY <1>19 DEF MainInterrupted
    <3> QED BY <3>1, <3>2
  <2>4. Beginning'
    BY <1>19, <2>1, <2>2, <2>3 DEF MainInterrupted
  <2>5. Agreed'
    BY <1>19, <2>1, <2>2, <2>3 DEF MainInterrupted
  <2>6. Doomed'
    BY <1>19, <2>1, <2>2, <2>3 DEF MainInterrupted
  <2>7. Stillness'
    BY <1>19, <2>1, <2>2, <2>3 DEF MainInterrupted
  <2> QED BY <2>4, <2>5, <2>6, <2>7
<1> QED BY <1>1, <1>2, <1>3, <1>4, <1>5, <1>6, <1>7, <1>8, <1>9, <1>10,
  <1>11, <1>12, <1>13, <1>14, <1>15, <1>16, <1>17, <1>18, <1>19 DEF MainMoves

(* Who may still write: an emit.                                           *)
LEMMA EmitOrder ==
  ASSUME Calm, Setting, NEW p \in {"main", "cancel"} \cup Agents, EmitStep(p)
  PROVE  Order'
<1>1. CASE EmitRefused(p)
  BY <1>1 DEF EmitRefused
<1>2. CASE EmitLock(p)
  <2>1. Beginning'
    BY <1>2 DEF EmitLock
  <2>2. Agreed'
    BY <1>2 DEF EmitLock
  <2>3. Doomed'
    BY <1>2 DEF EmitLock
  <2>4. Stillness'
    BY <1>2 DEF EmitLock
  <2> QED BY <2>1, <2>2, <2>3, <2>4
<1>3. CASE SeqAcquired(p)
  BY <1>3, NeverTaken DEF Procs
<1>4. CASE Appended(p)
  BY <1>4 DEF Appended
<1>5. CASE AppendRaises(p)
  <2>1. Rowless /\ p = "cancel" /\ UNCHANGED storeVars
    BY <1>5, RaisesForWantOfRow DEF Procs
  <2> QED BY <1>5, <2>1 DEF AppendRaises
<1>6. CASE Published(p)
  <2>1. /\ pc' = [pc EXCEPT ![p] = emission[p].then] /\ pc[p] = "sink"
        /\ emission[p].then \in Thens /\ UNCHANGED rest
    BY <1>6 DEF Published
  <2>2. pc["main"] \notin Early
    BY <2>1
  <2>3. Beginning' /\ Agreed'
    BY <2>1, <2>2
  <2>4. Quiet => Quiet'
    <3>1. Live' = Live
      BY <2>1
    <3> QED BY <2>1, <3>1
  <2>5. Stillness'
    BY <2>1, <2>2, <2>4
  <2>6. Doomed'
    BY <2>1
  <2> QED BY <2>3, <2>5, <2>6
<1> QED BY <1>1, <1>2, <1>3, <1>4, <1>5, <1>6 DEF EmitStep

(* Who may still write: a verdict.                                         *)
LEMMA FinishOrder ==
  ASSUME Calm, Setting, NEW p \in {"main", "comp", "cancel"}, FinishStep(p)
  PROVE  Order'
<1>1. CASE FinishQueued(p)
  BY <1>1 DEF FinishQueued
<1>2. CASE FinishTooLate(p)
  BY <1>2 DEF FinishTooLate
<1>3. CASE FinishEntered(p)
  <2>1. pc' = [pc EXCEPT ![p] = "persist"]
    BY <1>3, SequenceLock DEF FinishEntered, Locked
  <2>2. Beginning'
    BY <1>3, <2>1 DEF FinishEntered
  <2>3. Agreed'
    BY <1>3, <2>1 DEF FinishEntered
  <2>4. Doomed'
    BY <1>3, <2>1 DEF FinishEntered
  <2>5. Stillness'
    BY <1>3, <2>1 DEF FinishEntered
  <2> QED BY <2>2, <2>3, <2>4, <2>5
<1>4. CASE FinishSeqAcquired(p)
  BY <1>4, NeverTaken DEF Procs
<1>5. CASE Persisted(p)
  <2>1. /\ ~KernelTerminal /\ kstate' = ending[p].state /\ state'[Run] = kstate'
        /\ kstate' \in Terminal /\ state[Run] = "running"
        /\ UNCHANGED <<lease, ending, result, emission, cancelled>>
    BY <1>5 DEF Persisted
  <2>2. pc["main"] \notin Early /\ Quiet
    BY <1>5, <2>1 DEF Persisted
  <2>3. pc' = [q \in Procs |-> IF q = p THEN "fin_sink"
                           ELSE IF StopWatchdog(q) THEN "done" ELSE pc[q]]
    BY <1>5 DEF Persisted
  <2>4. Beginning'
    BY <2>1, <2>2, <2>3
  <2>5. result # NoResult => result.state = kstate'
    BY <1>5, <2>1 DEF Persisted
  <2>6. Agreed'
    <3>1. ASSUME NEW q \in Procs, pc[q] = "fin_sink" PROVE FALSE
      BY <2>1, <3>1
    <3>2. ASSUME NEW q \in Procs, pc[q] \in {"persist", "fallback"} PROVE q = p
      BY <1>5, <3>2 DEF Persisted, Alone, Locked
    <3>3. \A q \in Procs : pc'[q] \in {"persist", "fallback"} => ~KernelTerminal'
      BY <2>3, <3>2
    <3>4. \A q \in Procs : pc'[q] = "fin_sink" => q = p
      BY <2>3, <3>1
    <3> QED BY <2>1, <2>5, <3>3, <3>4
  <2>7. Doomed'
    BY <2>1
  <2>8. Stillness'
    <3>1. \A q \in Procs \ {p} : pc[q] \notin {"emit", "append"}
      BY <1>5 DEF Persisted, Alone, Sync, StoreCalls
    <3>2. \A q \in Procs :
            \/ pc'[q] = pc[q] /\ q # p
            \/ pc'[q] \in {"fin_sink", "done"}
      BY <2>3
    <3>3. Quiet'
      <4>1. Live' = Live
        BY <2>3
      <4> QED BY <2>1, <2>2, <2>3, <4>1
    <3>4. \A q \in Procs : pc'[q] \notin {"emit", "append"}
      BY <3>1, <3>2
    <3>5. pc'["cancel"] # "raised" /\ (pc'["cancel"] = "force_stop" => ~lease')
      BY <2>1, <3>2
    <3> QED BY <2>1, <3>3, <3>4, <3>5
  <2> QED BY <2>4, <2>6, <2>7, <2>8
<1>6. CASE NotPersisted(p)
  BY <1>6 DEF NotPersisted
<1>7. CASE CompletionRaises(p)
  <2>1. UNCHANGED storeVars /\ p = "comp" /\ pc[p] = "persist"
    BY <1>7 DEF CompletionRaises, PersistRaises
  <2>2. /\ pc' = [pc EXCEPT ![p] = "fallback"]
        /\ ending' = [ending EXCEPT ![p] = Ending("failed", PersistError(p))]
        /\ UNCHANGED <<locks, actors, verdict, counters, emission, cancelled>>
    BY <1>7 DEF CompletionRaises
  <2> HIDE DEF PersistError
  <2>3. Beginning'
    BY <2>1, <2>2
  <2>4. Agreed'
    BY <2>1, <2>2
  <2>5. Stillness' /\ Doomed'
    BY <2>1, <2>2
  <2> QED BY <2>3, <2>4, <2>5
<1>8. CASE FinishLocally(p)
  <2>1. Rowless /\ p = "cancel" /\ UNCHANGED storeVars
    BY <1>8, RaisesForWantOfRow DEF Procs
  <2>2. pc["cancel"] = "persist" /\ ~KernelTerminal /\ result = NoResult /\ finLock = <<"cancel">>
    BY <1>8, <2>1 DEF FinishLocally
  <2>3. /\ kstate' = "failed" /\ ~lease' /\ finLock' = <<>>
        /\ result' # NoResult /\ result'.state = "failed"
        /\ pc' = [q \in Procs |-> IF q = p THEN "await_result"
                              ELSE IF StopWatchdog(q) THEN "done" ELSE pc[q]]
        /\ UNCHANGED <<ending, emission, cancelled>>
    BY <1>8, <2>1, <2>2 DEF FinishLocally, LocalVerdict
  <2>4. \A q \in Procs : pc'[q] = pc[q] \/ q = p
    BY <2>1, <2>3
  <2>5. \A q \in Procs \ {p} : pc[q] \notin {"emit", "append", "persist", "fallback", "fin_sink"}
    BY <2>1
  <2>6. Beginning'
    BY <2>1, <2>3, <2>4
  <2>7. Agreed'
    BY <2>1, <2>2, <2>3, <2>4, <2>5
  <2>8. Doomed'
    BY <2>1, <2>2, <2>3
  <2>9. Stillness'
    BY <2>1, <2>2, <2>3, <2>4, <2>5
  <2> QED BY <2>6, <2>7, <2>8, <2>9
<1>9. CASE Resolved(p)
  BY <1>9 DEF Resolved
<1> QED BY <1>1, <1>2, <1>3, <1>4, <1>5, <1>6, <1>7, <1>8, <1>9 DEF FinishStep

(* Who may still write: an actor.                                          *)
LEMMA AgentOrder ==
  ASSUME Calm, Setting, NEW a \in Agents, AgentStep(a)
  PROVE  Order'
<1>1. CASE AgentTakes(a)
  BY <1>1 DEF AgentTakes
<1>2. CASE AgentQuits(a)
  BY <1>2 DEF AgentQuits
<1>3. CASE AgentEmits(a)
  BY <1>3 DEF AgentEmits
<1>4. CASE AgentReturns(a)
  BY <1>4 DEF AgentReturns
<1>5. CASE AgentRaises(a)
  BY <1>5 DEF AgentRaises
<1>6. CASE AgentInterrupted(a)
  <2>1. UNCHANGED storeVars
    BY <1>6, InterruptedBetweenCalls DEF AgentInterrupted
  <2> QED BY <1>6, <2>1 DEF AgentInterrupted
<1>7. CASE AgentUnwound(a)
  BY <1>7 DEF AgentUnwound
<1>8. CASE EmitStep(a)
  BY <1>8, EmitOrder
<1> QED BY <1>1, <1>2, <1>3, <1>4, <1>5, <1>6, <1>7, <1>8 DEF AgentStep

(* Who may still write: a caller that cancels.                             *)
LEMMA CancelOrder ==
  ASSUME Calm, Setting, CancelArrives \/ CancelStep
  PROVE  Order'
<1>1. CASE CancelArrives
  <2>1. CASE CancelCall
    BY <2>1 DEF CancelCall
  <2>2. CASE CancelAgain
    BY <2>2 DEF CancelAgain
  <2>3. CASE CallDecided("cancel")
    BY <2>3 DEF CallDecided
  <2> QED BY <1>1, <2>1, <2>2, <2>3 DEF CancelArrives
<1>2. CASE CancelTells
  BY <1>2 DEF CancelTells
<1>3. CASE CancelQueued
  BY <1>3 DEF CancelQueued
<1>4. CASE CancelWork
  BY <1>4 DEF CancelWork
<1>5. CASE GraceAnswered
  BY <1>5 DEF GraceAnswered
<1>6. CASE GraceEnds
  BY <1>6 DEF GraceEnds
<1>7. CASE ForceStopped
  BY <1>7 DEF ForceStopped
<1>8. CASE CancelEmitFailed
  BY <1>8 DEF CancelEmitFailed
<1>9. CASE EmitStep("cancel")
  BY <1>9, EmitOrder
<1>10. CASE FinishStep("cancel")
  BY <1>10, FinishOrder
<1>11. CASE ResultReady("cancel")
  BY <1>11 DEF ResultReady
<1> QED BY <1>1, <1>2, <1>3, <1>4, <1>5, <1>6, <1>7, <1>8, <1>9, <1>10,
  <1>11 DEF CancelStep

(* Who may still write: everybody else.                                    *)
LEMMA OtherOrder ==
  ASSUME Calm, Setting, Others
  PROVE  Order'
<1>1. CASE CompletionStarts
  BY <1>1 DEF CompletionStarts
<1>2. CASE FinishStep("comp")
  BY <1>2, FinishOrder
<1>3. CASE WatchdogFire
  BY <1>3 DEF WatchdogFire
<1>4. CASE RivalStep
  <2>1. Beginning'
    BY <1>4 DEF RivalStep
  <2>2. Agreed'
    BY <1>4 DEF RivalStep
  <2>3. Doomed'
    BY <1>4 DEF RivalStep
  <2>4. Stillness'
    BY <1>4 DEF RivalStep
  <2> QED BY <2>1, <2>2, <2>3, <2>4
<1>5. CASE \E p \in FailCallers : FailCall(p) \/ CallDecided(p) \/ ResultReady(p)
  BY <1>5 DEF FailCall, CallDecided, ResultReady
<1> QED BY <1>1, <1>2, <1>3, <1>4, <1>5 DEF Others, CompletionStep

HIDE KernelAssumption DEF Setting, Rowless, MainFails, Doomed, Shapes,
    Thens, Starting, Early, Appending, Deciding, Finishing, Completing,
    Rows, Started, Live, Beginning, Agreed, Stillness, Quiet, Leaving,
    JournalAnswers, Move, Go, At, rest, tasks, locks, verdict, counters,
    actors, storeVars, Procs, Emit, ToCancelHandler, CancelEnding, Ending,
    Gone, Abort, Kill, StopLabel, Returned, MayEnter, StopWatchdog,
    NeedsLease, Callable, Decided, Alive, Persist, Store!Load,
    Store!CreateRun, Store!AppendEvent, Store!TryFinish, Store!TryComplete,
    Envelope, Stores, Run, Rival, Terminal, Store!Terminal, NoResult,
    KernelTerminal, Order

-----------------------------------------------------------------------------
(* Nobody waits for the sequence lock.                                     *)

USE KernelAssumption DEF Shapes, Thens, Alone, Locked, Sync, StoreCalls,
    JournalAnswers, Turn, Leave, Move, Go, At, rest, tasks, locks, Procs,
    Emit, ToCancelHandler, Gone, Abort, Kill, StopLabel, Returned, MayEnter,
    StopWatchdog

(* The lock: the main task.                                                *)
LEMMA MainTurns ==
  ASSUME Calm, JournalAnswers, Shapes, Alone, MainMoves
  PROVE  Alone'
<1>1. CASE MainStarts
  BY <1>1 DEF MainStarts
<1>2. CASE LoadContext
  BY <1>2 DEF LoadContext
<1>3. CASE CreateJournal
  BY <1>3 DEF CreateJournal
<1>4. CASE StartRaises
  BY <1>4, NeverTaken DEF Procs
<1>5. CASE MainRaised
  BY <1>5 DEF MainRaised
<1>6. CASE MainAborts
  BY <1>6 DEF MainAborts
<1>7. CASE Loop
  BY <1>7 DEF Loop
<1>8. CASE Proposed
  BY <1>8 DEF Proposed
<1>9. CASE ActEnd
  BY <1>9 DEF ActEnd
<1>10. CASE ActAssign
  BY <1>10 DEF ActAssign
<1>11. CASE ActWait
  BY <1>11 DEF ActWait
<1>12. CASE Yielded
  BY <1>12 DEF Yielded
<1>13. CASE Assign
  BY <1>13 DEF Assign
<1>14. CASE Worked
  BY <1>14 DEF Worked
<1>15. CASE Accepted
  BY <1>15, ZenonT(40) DEF Accepted
<1>16. CASE Stopped
  BY <1>16 DEF Stopped
<1>17. CASE SpawnCompletion
  BY <1>17 DEF SpawnCompletion
<1>18. CASE CompletionAwaited
  BY <1>18 DEF CompletionAwaited
<1>19. CASE MainInterrupted
  BY <1>19 DEF MainInterrupted
<1> QED BY <1>1, <1>2, <1>3, <1>4, <1>5, <1>6, <1>7, <1>8, <1>9, <1>10,
  <1>11, <1>12, <1>13, <1>14, <1>15, <1>16, <1>17, <1>18, <1>19 DEF MainMoves

(* The lock: an emit.                                                      *)
LEMMA EmitTurns ==
  ASSUME Calm, JournalAnswers, Shapes, Alone, NEW p \in {"main", "cancel"} \cup Agents, EmitStep(p)
  PROVE  Alone'
<1>1. CASE EmitRefused(p)
  BY <1>1 DEF EmitRefused
<1>2. CASE EmitLock(p)
  <2>1. Turn(p)
    BY <1>2 DEF EmitLock
  <2> QED BY <1>2, <2>1, SequenceLock DEF EmitLock
<1>3. CASE SeqAcquired(p)
  BY <1>3, NeverTaken DEF Procs
<1>4. CASE Appended(p)
  <2>1. Turn(p)
    BY <1>4 DEF Appended
  <2> QED BY <1>4, <2>1, SequenceLock DEF Appended
<1>5. CASE AppendRaises(p)
  <2>1. Turn(p)
    BY <1>5 DEF AppendRaises
  <2> QED BY <1>5, <2>1, SequenceLock DEF AppendRaises
<1>6. CASE Published(p)
  BY <1>6 DEF Published
<1> QED BY <1>1, <1>2, <1>3, <1>4, <1>5, <1>6 DEF EmitStep

(* The lock: a verdict.                                                    *)
LEMMA FinishTurns ==
  ASSUME Calm, JournalAnswers, Shapes, Alone, NEW p \in {"main", "comp", "cancel"}, FinishStep(p)
  PROVE  Alone'
<1>1. CASE FinishQueued(p)
  BY <1>1 DEF FinishQueued
<1>2. CASE FinishTooLate(p)
  BY <1>2 DEF FinishTooLate
<1>3. CASE FinishEntered(p)
  <2>1. Turn(p)
    BY <1>3 DEF FinishEntered
  <2> QED BY <1>3, <2>1, SequenceLock DEF FinishEntered
<1>4. CASE FinishSeqAcquired(p)
  BY <1>4, NeverTaken DEF Procs
<1>5. CASE Persisted(p)
  <2>1. Turn(p)
    BY <1>5 DEF Persisted
  <2> QED BY <1>5, <2>1, SequenceLock DEF Persisted
<1>6. CASE NotPersisted(p)
  <2>1. Turn(p)
    BY <1>6 DEF NotPersisted
  <2> QED BY <1>6, <2>1, SequenceLock DEF NotPersisted
<1>7. CASE CompletionRaises(p)
  BY <1>7 DEF CompletionRaises
<1>8. CASE FinishLocally(p)
  <2>1. Turn(p)
    BY <1>8 DEF FinishLocally
  <2> QED BY <1>8, <2>1, SequenceLock DEF FinishLocally
<1>9. CASE Resolved(p)
  BY <1>9 DEF Resolved
<1> QED BY <1>1, <1>2, <1>3, <1>4, <1>5, <1>6, <1>7, <1>8, <1>9 DEF FinishStep

(* The lock: an actor.                                                     *)
LEMMA AgentTurns ==
  ASSUME Calm, JournalAnswers, Shapes, Alone, NEW a \in Agents, AgentStep(a)
  PROVE  Alone'
<1>1. CASE AgentTakes(a)
  BY <1>1 DEF AgentTakes
<1>2. CASE AgentQuits(a)
  BY <1>2 DEF AgentQuits
<1>3. CASE AgentEmits(a)
  BY <1>3 DEF AgentEmits
<1>4. CASE AgentReturns(a)
  BY <1>4 DEF AgentReturns
<1>5. CASE AgentRaises(a)
  BY <1>5 DEF AgentRaises
<1>6. CASE AgentInterrupted(a)
  BY <1>6 DEF AgentInterrupted
<1>7. CASE AgentUnwound(a)
  BY <1>7 DEF AgentUnwound
<1>8. CASE EmitStep(a)
  BY <1>8, EmitTurns
<1> QED BY <1>1, <1>2, <1>3, <1>4, <1>5, <1>6, <1>7, <1>8 DEF AgentStep

(* The lock: a caller that cancels.                                        *)
LEMMA CancelTurns ==
  ASSUME Calm, JournalAnswers, Shapes, Alone, CancelArrives \/ CancelStep
  PROVE  Alone'
<1>1. CASE CancelArrives
  <2>1. CASE CancelCall
    BY <2>1 DEF CancelCall
  <2>2. CASE CancelAgain
    BY <2>2 DEF CancelAgain
  <2>3. CASE CallDecided("cancel")
    BY <2>3 DEF CallDecided
  <2> QED BY <1>1, <2>1, <2>2, <2>3 DEF CancelArrives
<1>2. CASE CancelTells
  BY <1>2 DEF CancelTells
<1>3. CASE CancelQueued
  BY <1>3 DEF CancelQueued
<1>4. CASE CancelWork
  BY <1>4 DEF CancelWork
<1>5. CASE GraceAnswered
  BY <1>5 DEF GraceAnswered
<1>6. CASE GraceEnds
  BY <1>6 DEF GraceEnds
<1>7. CASE ForceStopped
  BY <1>7 DEF ForceStopped
<1>8. CASE CancelEmitFailed
  BY <1>8, ZenonT(40) DEF CancelEmitFailed
<1>9. CASE EmitStep("cancel")
  BY <1>9, EmitTurns
<1>10. CASE FinishStep("cancel")
  BY <1>10, FinishTurns
<1>11. CASE ResultReady("cancel")
  BY <1>11 DEF ResultReady
<1> QED BY <1>1, <1>2, <1>3, <1>4, <1>5, <1>6, <1>7, <1>8, <1>9, <1>10,
  <1>11 DEF CancelStep

(* The lock: everybody else.                                               *)
LEMMA OtherTurns ==
  ASSUME Calm, JournalAnswers, Shapes, Alone, Others
  PROVE  Alone'
<1>1. CASE CompletionStarts
  BY <1>1 DEF CompletionStarts
<1>2. CASE FinishStep("comp")
  BY <1>2, FinishTurns
<1>3. CASE WatchdogFire
  BY <1>3 DEF WatchdogFire
<1>4. CASE RivalStep
  BY <1>4 DEF RivalStep
<1>5. CASE \E p \in FailCallers : FailCall(p) \/ CallDecided(p) \/ ResultReady(p)
  BY <1>5 DEF FailCall, CallDecided, ResultReady
<1> QED BY <1>1, <1>2, <1>3, <1>4, <1>5 DEF Others, CompletionStep

HIDE KernelAssumption DEF Shapes, Thens, Alone, Locked, Sync, StoreCalls,
    JournalAnswers, Turn, Leave, Move, Go, At, rest, tasks, locks, Procs,
    Emit, ToCancelHandler, Gone, Abort, Kill, StopLabel, Returned, MayEnter,
    StopWatchdog

-----------------------------------------------------------------------------
(* What a step may do to the logs.                                         *)

Records(e) == events' = [events EXCEPT ![e.run] = Append(@, e)]
Opens ==
  /\ UNCHANGED <<events, sequence>>
  /\ \/ UNCHANGED state
     \/ \E r \in Stores : state[r] = "absent" /\ state' = [state EXCEPT ![r] = "running"]
Tells(kind) ==
  /\ Records(Envelope(kind)) /\ sequence' = sequence + 1
  /\ UNCHANGED state /\ (kind = "ordinary" => state[Run] \notin Terminal)
Closes(kind) ==
  /\ Records(Envelope(kind)) /\ sequence' = sequence + 1
  /\ state[Run] = "running" /\ state' = [state EXCEPT ![Run] = kind]
RivalCloses ==
  /\ Records([id |-> Count + 1, run |-> Rival, seq |-> 1, kind |-> "completed"])
  /\ UNCHANGED sequence
  /\ state[Rival] = "running" /\ state' = [state EXCEPT ![Rival] = "completed"]
LogStep ==
  \/ Opens \/ RivalCloses
  \/ \E kind \in {"ordinary", "late"} : Tells(kind)
  \/ \E kind \in Terminal : Closes(kind)

(* How many entries the logs have.                                         *)
LEMMA CountIsNat == ASSUME Logs PROVE Count \in Nat
<1>1. Len(events[Run]) \in Nat /\ Len(events[Rival]) \in Nat
  BY DEF Logs, Stores
<1>2. \A m, n \in Nat : m + n \in Nat
  OBVIOUS
<1> QED BY <1>1, <1>2, Zenon DEF Count

(* A log that gets one more entry, numbered by its length, identified by   *)
(* the number of all entries.                                              *)
LEMMA OneMore ==
  ASSUME Logs, NEW e \in Entry, e.id = Count + 1, Records(e)
  PROVE  /\ events' \in [Stores -> Seq(Entry)]
         /\ Count' = Count + 1
         /\ \A r \in Stores : \A i \in DOMAIN events'[r] : events'[r][i].id <= Count'
         /\ Len(events'[e.run]) = Len(events[e.run]) + 1
         /\ \A i \in DOMAIN events'[e.run] :
              \/ i \in DOMAIN events[e.run] /\ events'[e.run][i] = events[e.run][i]
              \/ i = Len(events[e.run]) + 1 /\ events'[e.run][i] = e
         /\ \A r \in Stores \ {e.run} : events'[r] = events[r]
<1> USE DEF Records
<1>1. e.run \in Stores /\ Count \in Nat
  BY CountIsNat DEF Entry
<1>2. \A r \in Stores : events[r] \in Seq(Entry) /\ Len(events[r]) \in Nat
                          /\ DOMAIN events[r] = 1 .. Len(events[r])
  BY DEF Logs
<1>3. events' \in [Stores -> Seq(Entry)]
  BY <1>1, <1>2 DEF Logs
<1>4. /\ events'[e.run] = Append(events[e.run], e)
      /\ \A r \in Stores \ {e.run} : events'[r] = events[r]
  BY <1>1, <1>2 DEF Logs
<1>5. /\ Len(events'[e.run]) = Len(events[e.run]) + 1
      /\ DOMAIN events'[e.run] = 1 .. Len(events[e.run]) + 1
      /\ events'[e.run][Len(events[e.run]) + 1] = e
      /\ \A i \in 1 .. Len(events[e.run]) : events'[e.run][i] = events[e.run][i]
  BY <1>1, <1>2, <1>4
<1>6. \A i \in DOMAIN events'[e.run] :
        \/ i \in DOMAIN events[e.run] /\ events'[e.run][i] = events[e.run][i]
        \/ i = Len(events[e.run]) + 1 /\ events'[e.run][i] = e
  BY <1>1, <1>2, <1>5
<1>7. Count' = Count + 1
  <2> USE DEF Stores, Run, Rival
  <2>1. \A m, n \in Nat : (m + 1) + n = (m + n) + 1 /\ m + (n + 1) = (m + n) + 1
    OBVIOUS
  <2>2. CASE e.run = Run
    <3>1. Len(events'[Run]) = Len(events[Run]) + 1 /\ events'[Rival] = events[Rival]
      BY <1>4, <1>5, <2>2
    <3> QED BY <1>2, <2>1, <3>1 DEF Count
  <2>3. CASE e.run = Rival
    <3>1. Len(events'[Rival]) = Len(events[Rival]) + 1 /\ events'[Run] = events[Run]
      BY <1>4, <1>5, <2>3
    <3> QED BY <1>2, <2>1, <3>1 DEF Count
  <2> QED BY <1>1, <2>2, <2>3
<1>8. \A r \in Stores : \A i \in DOMAIN events'[r] : events'[r][i].id <= Count'
  <2> SUFFICES ASSUME NEW r \in Stores, NEW i \in DOMAIN events'[r]
               PROVE  events'[r][i].id <= Count'
    OBVIOUS
  <2>1. ASSUME NEW k \in DOMAIN events[r]
        PROVE  events[r][k].id \in Nat /\ events[r][k].id <= Count
    <3>1. events[r][k] \in Entry
      BY <1>2
    <3> QED BY <3>1 DEF Logs, Entry
  <2>2. CASE r = e.run
    BY <1>1, <1>6, <1>7, <2>1, <2>2
  <2>3. CASE r # e.run
    BY <1>1, <1>4, <1>7, <2>1, <2>3
  <2> QED BY <2>2, <2>3
<1> QED BY <1>3, <1>4, <1>5, <1>6, <1>7, <1>8

(* Such a step keeps the logs in order: a verdict is written when no other *)
(* is, and what comes after it is late.                                    *)
LEMMA LogsKept ==
  ASSUME Logs, state \in [Stores -> {"absent", "running"} \cup Terminal], LogStep
  PROVE  Logs'
<1> USE DEF Stores, Run, Rival, Terminal
<1>1. Count \in Nat /\ Count + 1 \in Nat /\ sequence \in Nat /\ sequence + 1 \in Nat
  BY CountIsNat DEF Logs
<1>2. CASE Opens
  BY <1>2 DEF Opens, Logs, Count, NothingAfterTerminal
<1>3. ASSUME NEW kind \in {"ordinary", "late"} \cup Terminal, Tells(kind) \/ Closes(kind),
             kind \in Terminal => Closes(kind), kind \notin Terminal => Tells(kind)
      PROVE  Logs'
  <2> DEFINE e == Envelope(kind)
  <2>1. e \in Entry /\ e.id = Count + 1 /\ e.run = Run /\ e.kind = kind
    BY <1>1 DEF Envelope, Entry, Count
  <2>2. Records(e) /\ sequence' = sequence + 1
    BY <1>3 DEF Tells, Closes
  <2> HIDE DEF e
  <2>3. /\ events' \in [Stores -> Seq(Entry)]
        /\ \A r \in Stores : \A i \in DOMAIN events'[r] : events'[r][i].id <= Count'
        /\ Len(events'[Run]) = Len(events[Run]) + 1
        /\ \A i \in DOMAIN events'[Run] :
             \/ i \in DOMAIN events[Run] /\ events'[Run][i] = events[Run][i]
             \/ i = Len(events[Run]) + 1 /\ events'[Run][i] = e
        /\ events'[Rival] = events[Rival]
    BY <2>1, <2>2, OneMore
  <2>4. /\ state'[Rival] = state[Rival] /\ (kind = "ordinary" => state[Run] \notin Terminal)
        /\ (kind \in Terminal => state[Run] = "running" /\ state'[Run] = kind)
        /\ (kind \notin Terminal => state' = state)
    BY <1>3 DEF Tells, Closes
  <2>5. /\ state'[Rival] \in {"absent", "running"} => events'[Rival] = <<>>
        /\ sequence' = Len(events'[Run])
    BY <2>2, <2>3, <2>4 DEF Logs
  <2>6. \A i \in DOMAIN events'[Run] : events'[Run][i].kind \in Terminal => state'[Run] \in Terminal
    BY <2>1, <2>3, <2>4 DEF Logs
  <2>7. NothingAfterTerminal'
    <3> SUFFICES ASSUME NEW i \in DOMAIN events'[Run], NEW j \in DOMAIN events'[Run],
                        i < j, events'[Run][i].kind \in Terminal
                 PROVE  events'[Run][j].kind = "late"
      BY DEF NothingAfterTerminal
    <3>1. Len(events[Run]) \in Nat /\ DOMAIN events[Run] = 1 .. Len(events[Run])
      BY DEF Logs
    <3>2. i \in DOMAIN events[Run] /\ events'[Run][i] = events[Run][i]
      BY <2>3, <3>1
    <3>3. state[Run] \in Terminal
      BY <3>2 DEF Logs
    <3>4. kind = "late"
      BY <2>4, <3>3
    <3> QED BY <2>1, <2>3, <3>2, <3>4 DEF Logs, NothingAfterTerminal
  <2> QED BY <2>3, <2>5, <2>6, <2>7 DEF Logs
<1>4. CASE RivalCloses
  <2> DEFINE e == [id |-> Count + 1, run |-> Rival, seq |-> 1, kind |-> "completed"]
  <2>1. e \in Entry /\ e.id = Count + 1 /\ e.run = Rival
    BY <1>1 DEF Entry
  <2>2. Records(e) /\ UNCHANGED sequence /\ state' = [state EXCEPT ![Rival] = "completed"]
    BY <1>4 DEF RivalCloses
  <2> HIDE DEF e
  <2>3. /\ events' \in [Stores -> Seq(Entry)]
        /\ \A r \in Stores : \A i \in DOMAIN events'[r] : events'[r][i].id <= Count'
        /\ events'[Run] = events[Run]
    BY <2>1, <2>2, OneMore
  <2>4. state'[Rival] = "completed" /\ state'[Run] = state[Run]
    BY <2>2
  <2> QED BY <2>2, <2>3, <2>4 DEF Logs, NothingAfterTerminal
<1> QED BY <1>2, <1>3, <1>4 DEF LogStep, Tells, Closes

(* The rival completes its own Run, whose log is empty until then.         *)
LEMMA RivalLog == ASSUME Calm, RivalStep PROVE LogStep
<1> USE DEF Stores, Run, Rival, LogStep, rest, counters
<1>1. CASE state[Rival] = "absent" /\ Store!CreateRun(Rival)
  BY <1>1 DEF RivalStep, Store!CreateRun, Opens
<1>2. CASE ~(state[Rival] = "absent" /\ Store!CreateRun(Rival))
  <2> DEFINE e == [id |-> Len(events[Run]) + 1, run |-> Rival, seq |-> 1, kind |-> "completed"]
  <2>1. Store!TryComplete(e) /\ UNCHANGED sequence
    BY <1>2 DEF RivalStep
  <2>2. state[Rival] = "running" /\ state' = [state EXCEPT ![Rival] = "completed"]
    BY <2>1 DEF Store!TryComplete
  <2>3. events[Rival] = <<>> /\ Len(events[Run]) \in Nat
    BY <2>2 DEF Calm, AnswersInv, Logs
  <2>4. e = [id |-> Count + 1, run |-> Rival, seq |-> 1, kind |-> "completed"]
    BY <2>3 DEF Count
  <2>5. ~Store!Replay(e)
    BY <2>3 DEF Store!Replay
  <2>6. Records(e)
    BY <2>1, <2>5 DEF Store!TryComplete, Store!LogWith, Records
  <2> QED BY <2>1, <2>2, <2>4, <2>6 DEF RivalCloses
<1> QED BY <1>1, <1>2

(* An emit writes one event, and an ordinary one only before the verdict.  *)
LEMMA EmitLog ==
  ASSUME Calm, NEW p \in {"main", "cancel"} \cup Agents, EmitStep(p)
  PROVE  LogStep
<1> USE DEF Move, Go, At, rest, storeVars, counters, LogStep, Opens, Emit
<1>1. CASE Appended(p)
  <2> DEFINE kind == emission[p].kind
  <2>1. /\ Store!AppendEvent(Envelope(kind)) /\ sequence' = sequence + 1
        /\ pc[p] = "append" /\ kind \in {"ordinary", "late"} /\ p \in Procs
    BY <1>1 DEF Appended, Calm, AnswersInv, KernelInv, Shapes, Procs
  <2>2. Records(Envelope(kind)) /\ UNCHANGED state
    BY <2>1, NextEnvelope DEF Store!AppendEvent, Store!LogWith, Records, Calm, AnswersInv, Envelope
  <2>3. kind = "ordinary" => state[Run] \notin Terminal
    <3>1. kind = "ordinary" => ~KernelTerminal
      BY <2>1 DEF Calm, AnswersInv, Stillness
    <3>2. ~KernelTerminal => state[Run] \notin Terminal
      BY DEF Calm, AnswersInv, Agreed, Rowless, KernelTerminal, Terminal
    <3> QED BY <3>1, <3>2
  <2> QED BY <2>1, <2>2, <2>3 DEF Tells
<1>2. CASE AppendRaises(p)
  BY <1>2, RaisesForWantOfRow DEF AppendRaises, Procs
<1>3. CASE ~Appended(p) /\ ~AppendRaises(p)
  <2>1. ~SeqAcquired(p)
    BY NeverTaken DEF Procs
  <2> QED BY <1>3, <2>1 DEF EmitStep, EmitRefused, EmitLock, Published
<1> QED BY <1>1, <1>2, <1>3

(* A verdict is written once, while the row is open.                       *)
LEMMA FinishLog ==
  ASSUME Calm, NEW p \in {"main", "comp", "cancel"}, FinishStep(p)
  PROVE  LogStep
<1> USE DEF Move, Go, At, rest, storeVars, counters, LogStep, Opens
<1>1. CASE Persisted(p)
  <2> DEFINE e == Envelope(ending[p].state)
  <2>1. /\ Store!TryComplete(e) \/ Store!TryFinish(e)
        /\ sequence' = sequence + 1
    BY <1>1 DEF Persisted, Persist
  <2>2. /\ state[e.run] = "running" /\ e.kind \in Terminal
        /\ state' = [state EXCEPT ![e.run] = e.kind] /\ events' = Store!LogWith(e)
    BY <2>1 DEF Store!TryComplete, Store!TryFinish, Terminal
  <2>3. e.run = Run /\ e.kind = ending[p].state
    BY DEF Envelope
  <2>4. Records(e)
    BY <2>2, NextEnvelope DEF Store!LogWith, Records, Calm, AnswersInv
  <2> QED BY <2>1, <2>2, <2>3, <2>4 DEF Closes
<1>2. CASE CompletionRaises(p)
  BY <1>2 DEF CompletionRaises, PersistRaises, Calm, JournalAnswers
<1>3. CASE FinishLocally(p)
  BY <1>3, RaisesForWantOfRow DEF FinishLocally, Procs
<1>4. CASE ~Persisted(p) /\ ~CompletionRaises(p) /\ ~FinishLocally(p)
  <2>1. ~FinishSeqAcquired(p)
    BY NeverTaken DEF Procs
  <2> QED BY <1>4, <2>1 DEF FinishStep, FinishQueued, FinishTooLate, FinishEntered,
        NotPersisted, Resolved
<1> QED BY <1>1, <1>2, <1>3, <1>4

(* Every step opens a row, or writes one entry.                            *)
LEMMA StepIsLogStep == ASSUME Calm, [Next]_vars PROVE LogStep
<1> USE DEF Move, Go, rest, storeVars, counters, LogStep, Opens
<1>1. CASE UNCHANGED vars
  BY <1>1 DEF vars
<1>2. CASE MainMoves
  <2>1. CASE CreateJournal \/ LoadContext
    BY <2>1 DEF CreateJournal, LoadContext, Store!CreateRun, Store!Load, Stores
  <2>2. CASE MainInterrupted
    BY <2>2, InterruptedBetweenCalls DEF MainInterrupted, Procs
  <2>3. CASE ~(CreateJournal \/ LoadContext \/ MainInterrupted)
    <3>1. ~StartRaises
      BY NeverTaken DEF Procs
    <3> QED BY <1>2, <2>3, <3>1 DEF MainMoves, MainStarts, MainRaised, MainAborts, Loop,
          Proposed, ActEnd, ActAssign, ActWait, Yielded, Assign, Worked, Accepted, Stopped,
          SpawnCompletion, CompletionAwaited
  <2> QED BY <2>1, <2>2, <2>3
<1>3. ASSUME NEW a \in Agents, AgentStep(a) PROVE LogStep
  <2>1. CASE AgentInterrupted(a)
    BY <2>1, InterruptedBetweenCalls DEF AgentInterrupted, Procs
  <2>2. CASE EmitStep(a)
    BY <2>2, EmitLog
  <2>3. CASE ~AgentInterrupted(a) /\ ~EmitStep(a)
    BY <1>3, <2>3 DEF AgentStep, AgentTakes, AgentQuits, AgentEmits, AgentReturns,
      AgentRaises, AgentUnwound
  <2> QED BY <2>1, <2>2, <2>3
<1>4. CASE CancelArrives \/ CancelStep
  <2>1. CASE EmitStep("cancel") \/ FinishStep("cancel")
    BY <2>1, EmitLog, FinishLog
  <2>2. CASE ~EmitStep("cancel") /\ ~FinishStep("cancel")
    BY <1>4, <2>2 DEF CancelArrives, CancelStep, CancelCall, CancelAgain, CallDecided,
      CancelTells, CancelQueued, CancelWork, GraceAnswered, GraceEnds, ForceStopped,
      CancelEmitFailed, ResultReady
  <2> QED BY <2>1, <2>2
<1>5. CASE Others
  BY <1>5, FinishLog, RivalLog DEF Others, CompletionStep, CompletionStarts, WatchdogFire, Kill,
    FailCall, CallDecided, ResultReady
<1>6. CASE MainStep
  BY <1>2, <1>6, EmitLog, FinishLog DEF MainStep, MainMoves
<1> QED BY <1>1, <1>3, <1>4, <1>5, <1>6 DEF Next, Others

-----------------------------------------------------------------------------
(* One ending.                                                             *)

(* AnswersInv is kept by every step.                                       *)
LEMMA StepAnswersInv ==
  ASSUME JournalAnswers, AnswersInv, [Next]_vars
  PROVE  AnswersInv'
<1>1. Calm /\ Setting
  BY DEF AnswersInv, Calm, Setting, Order, KernelInv, Rows, Contexts
<1>2. KernelInv'
  BY StepKernelInv DEF AnswersInv
<1>3. Logs'
  BY <1>1, StepIsLogStep, LogsKept DEF Calm, AnswersInv, Setting, Rows
<1>4. Order' /\ Alone'
  <2> USE <1>1 DEF Setting
  <2>1. CASE UNCHANGED vars
    BY <2>1 DEF vars, rest, tasks, verdict, storeVars, locks, Order, Alone, Beginning, Rowless,
      Started, Agreed, KernelTerminal, Doomed, MainFails, Stillness, Quiet, Live
  <2>2. CASE MainStep
    BY <2>2, MainOrder, MainTurns, EmitOrder, EmitTurns, FinishOrder, FinishTurns
       DEF MainStep, MainMoves
  <2>3. CASE \E a \in Agents : AgentStep(a)
    BY <2>3, AgentOrder, AgentTurns
  <2>4. CASE CancelArrives \/ CancelStep
    BY <2>4, CancelOrder, CancelTurns
  <2>5. CASE Others
    BY <2>5, OtherOrder, OtherTurns
  <2> QED BY <2>1, <2>2, <2>3, <2>4, <2>5 DEF Next, Others
<1> QED BY <1>2, <1>3, <1>4 DEF AnswersInv, Order

(* It holds when nothing has started.                                      *)
LEMMA InitAnswersInv == ASSUME Init PROVE AnswersInv
<1> USE KernelAssumption DEF Init, Procs
<1>1. Alone
  BY DEF Alone, Locked, Sync, StoreCalls
<1>2. Beginning /\ Agreed /\ Doomed /\ Stillness
  BY DEF Beginning, Rowless, Started, Agreed, Doomed, Stillness, Quiet, Live, Leaving, Finishing, KernelTerminal,
    Terminal, Early, Store!Init, Run, Rival, Ending, NoResult
<1>3. Logs
  BY DEF Logs, Store!Init, Run, Rival, Stores, Terminal, NothingAfterTerminal, Count
<1> QED BY <1>1, <1>2, <1>3, InitKernelInv DEF AnswersInv

(* On a journal that answers: one task at a time writes, and what it       *)
(* writes is numbered by the log.                                          *)
THEOREM AnswersInvariant == Spec => [](JournalAnswers => AnswersInv)
<1>1. Init => (JournalAnswers => AnswersInv)
  BY InitAnswersInv
<1>2. (JournalAnswers => AnswersInv) /\ [Next]_vars => (JournalAnswers => AnswersInv)'
  BY StepAnswersInv DEF JournalAnswers
<1> QED BY <1>1, <1>2, PTL DEF Spec

(* EndsInTruth: whichever of the main task, the completion and a caller's  *)
(* cancellation ends the Run, on a journal that answers the callers are    *)
(* told the verdict of the row, the log holds nothing after it but the     *)
(* refusals of late events, and the next number is that of the log; with   *)
(* any journal a success is recorded before it is told (engine.py _finish, *)
(* _emit).                                                                 *)
THEOREM EndingsAreTrue == Spec => []EndsInTruth
<1>1. KernelInv => DurableTruth
  BY DEF KernelInv, Recorded, Contexts, DurableTruth
<1>2. AnswersInv => OneEnding
  <2> SUFFICES ASSUME AnswersInv PROVE OneEnding
    OBVIOUS
  <2>1. OneVerdict
    BY DEF AnswersInv, OneVerdict, Agreed, Rowless, Doomed, KernelTerminal, Terminal
  <2>2. NothingAfterTerminal /\ SequenceIsLogLength
    BY DEF AnswersInv, Logs, SequenceIsLogLength
  <2> QED BY <2>1, <2>2 DEF OneEnding
<1>3. KernelInv /\ (JournalAnswers => AnswersInv) => EndsInTruth
  BY <1>1, <1>2 DEF EndsInTruth
<1> QED BY <1>3, KernelInvariant, AnswersInvariant, PTL

-----------------------------------------------------------------------------
(* One verdict and one answer.                                             *)

(* What the callers are told only changes where a verdict is reached.      *)
Telling(p) == p \in Procs /\ (FinishLocally(p) \/ Resolved(p))
LEMMA OnlyVerdictsAreTold ==
  ASSUME [Next]_vars
  PROVE  result' = result \/ \E p : Telling(p)
<1> DEFINE Silent == result' = result
<1> USE DEF Move, Go, rest, verdict
<1>1. CASE UNCHANGED vars
  BY <1>1 DEF vars
<1>2. ASSUME NEW p, EmitStep(p) PROVE Silent
  BY <1>2 DEF EmitStep, EmitRefused, EmitLock, SeqAcquired, Appended, AppendRaises, Published,
    Emit
<1>3. ASSUME NEW p \in Procs, FinishStep(p) PROVE Silent \/ Telling(p)
  BY <1>3 DEF Telling, FinishStep, FinishQueued, FinishTooLate, FinishEntered,
    FinishSeqAcquired, Persisted, NotPersisted, CompletionRaises
<1>4. CASE MainMoves
  BY <1>4 DEF MainMoves, MainStarts, LoadContext, CreateJournal, StartRaises, MainRaised,
    MainAborts, Loop, Proposed, ActEnd, ActAssign, ActWait, Yielded, Assign, Worked, Accepted,
    Stopped, SpawnCompletion, CompletionAwaited, MainInterrupted
<1>5. ASSUME NEW a, AgentStep(a) PROVE Silent
  BY <1>2, <1>5 DEF AgentStep, AgentTakes, AgentQuits, AgentEmits, AgentReturns,
    AgentRaises, AgentUnwound, AgentInterrupted
<1>6. CASE CancelArrives \/ CancelStep
  BY <1>2, <1>3, <1>6 DEF CancelArrives, CancelStep, CancelCall, CancelAgain, CallDecided,
    CancelTells, CancelQueued, CancelWork, GraceAnswered, GraceEnds, ForceStopped,
    CancelEmitFailed, ResultReady, Procs
<1>7. CASE Others
  BY <1>3, <1>7 DEF Others, CompletionStep, CompletionStarts, WatchdogFire, Kill, RivalStep,
    FailCall, CallDecided, ResultReady, Procs
<1>8. CASE MainStep
  BY <1>2, <1>3, <1>4, <1>8 DEF MainStep, MainMoves, Procs
<1> QED BY <1>1, <1>5, <1>6, <1>7, <1>8 DEF Next, Others

(* A store call leaves the row open or ends it, once.                      *)
Open == state[Run] \notin Terminal
LEMMA RowIsDecidedOnce ==
  ASSUME KernelInv, StoreCall
  PROVE  \/ state'[Run] = state[Run] \/ (Open /\ Open')
         \/ Open /\ state'[Run] \in Terminal
<1>1. state \in [Stores -> {"absent", "running"} \cup Terminal]
  BY DEF KernelInv, Contexts
<1> QED BY <1>1 DEF StoreCall, Ends, Completes, Store!Load, Store!CreateRun, Open, Terminal,
      Stores, Run, Rival

(* ImplementsOutcome: with any journal, whichever task ends the Run, the   *)
(* row gets one verdict and the callers one answer, and an answer other    *)
(* than a failure is the row's verdict; on a journal that answers, so is a *)
(* failure (engine.py _finish, _finish_locally_after_journal_failure).     *)
THEOREM KernelImplementsOutcome == Spec => ImplementsOutcome
<1> DEFINE Row == IF state[Run] \in Terminal THEN state[Run] ELSE "open"
           Told == result.state
<1>1. Init => Outcome!Init
  BY DEF Init, Outcome!Init, NoResult, Run, Rival, Store!Init, Terminal
<1>2. ASSUME KernelInv, KernelInv', JournalAnswers => AnswersInv, (JournalAnswers => AnswersInv)',
             [Next]_vars
      PROVE  [Outcome!Next]_(Outcome!vars)
  <2>1. \/ Row' = Row
        \/ Row = "open" /\ Row' \in Terminal
    BY <1>2, StepIsStoreCall, RowIsDecidedOnce DEF Open
  <2>2. JournalAnswers /\ result' # NoResult /\ Row' # "open" => Told' = Row'
    BY <1>2 DEF JournalAnswers, AnswersInv, OneVerdict, Agreed, Rowless, Doomed, KernelTerminal, Terminal
  <2>3. result = NoResult => Told = "none"
    BY DEF NoResult
  <2>4. CASE result' = result
    <3>1. CASE Row' = Row
      BY <2>4, <3>1 DEF Outcome!vars
    <3>2. CASE Row = "open" /\ Row' \in Terminal
      <4>1. JournalAnswers => Told \in {"none", Row'}
        BY <2>2, <2>3, <2>4, <3>2 DEF Terminal
      <4> QED BY <2>4, <3>2, <4>1 DEF Outcome!Next, Outcome!Decide, Outcome!Verdicts, Terminal
    <3> QED BY <2>1, <3>1, <3>2
  <2>5. ASSUME NEW p \in Procs, FinishLocally(p), result' # result PROVE Outcome!Next
    <3>1. Told = "none" /\ Told' = "failed"
      BY <1>2, <2>3, <2>5 DEF FinishLocally, LocalVerdict, At, Ending, KernelInv, Recorded
    <3>2. JournalAnswers => Row = "open" /\ Row' = "open"
      <4>1. ASSUME JournalAnswers PROVE Rowless /\ UNCHANGED storeVars
        BY <1>2, <2>5, <4>1, RaisesForWantOfRow DEF Calm
      <4> QED BY <4>1 DEF Rowless, storeVars, Terminal
    <3>3. CASE Row' = Row
      BY <3>1, <3>2, <3>3 DEF Outcome!Next, Outcome!Fail
    <3>4. CASE Row = "open" /\ Row' \in Terminal
      BY <3>1, <3>2, <3>4 DEF Outcome!Next, Outcome!Lose, Outcome!Verdicts, Terminal
    <3> QED BY <2>1, <3>3, <3>4
  <2>6. ASSUME NEW p \in Procs, Resolved(p), result' # result PROVE Outcome!Next
    <3>1. /\ Told = "none" /\ result' = ending[p] /\ Row' = Row
          /\ ending[p].state \in Terminal
          /\ ending[p].state # "failed" => state[Run] = ending[p].state
      BY <1>2, <2>3, <2>6 DEF Resolved, At, KernelInv, Recorded, storeVars, Terminal
    <3>2. JournalAnswers => state[Run] = ending[p].state
      BY <1>2, <2>6 DEF Resolved, At, AnswersInv, Agreed, Rowless, KernelTerminal, Terminal
    <3>3. CASE ending[p].state = state[Run]
      BY <3>1, <3>3 DEF Outcome!Next, Outcome!Announce, Terminal
    <3>4. CASE ending[p].state # state[Run]
      BY <3>1, <3>2, <3>4 DEF Outcome!Next, Outcome!Fail
    <3> QED BY <3>3, <3>4
  <2> QED BY <1>2, <2>4, <2>5, <2>6, OnlyVerdictsAreTold DEF Telling
<1> QED BY <1>1, <1>2, KernelInvariant, AnswersInvariant, PTL
        DEF Spec, ImplementsOutcome, Outcome!Spec

-----------------------------------------------------------------------------
(* How a Run comes to its ending.                                          *)

(* Before anybody cancelled, aborted or failed the Run, no task was told   *)
(* to stop but by the main task that ends it.                              *)
Undisturbed ==
  scope = "none" =>
    /\ forced = "none" /\ cancelled = {} /\ mode = "body"
    /\ pc["cancel"] \in {"idle", "await_result", "done"}
    /\ \A a \in Agents : pc[a] # "unwind" /\ emission[a].then # "unwind"
    /\ \/ pc["main"] \in Leaving
       \/ quit = {} /\ \A a \in Agents : job[a] # "cancelled" /\ pc[a] # "gone"

(* The main task leaves its body for good, and then only ends the Run.     *)
Handled ==
  /\ pc["main"] \notin {"none", "gone"}
  /\ mode \in {"body", "cancel", "except"}
  /\ mode # "body" =>
       pc["main"] \in Finishing \cup {"pause", "stop",
       "done"} /\ ending["main"].state # "completed"
  /\ pc["main"] \in Appending => emission["main"].then \in {"loop", "act", "assign", "accept"}

(* An actor that executes has an assignment.                               *)
Assigned ==
  /\ DOMAIN job = Agents
  /\ \A a \in Agents : pc[a] \in {"none", "idle", "gone"} \/ job[a] = "assigned"

(* Whose reason an ending has.  Only the main task and a caller of         *)
(* cancel() end a Run as cancelled.                                        *)
Reasons ==
  /\ pc["main"] = "raised" => ending["main"].reason \notin {"none", "user"}
  /\ forced = "none" => scope \in {"none", "user"}
  /\ ending["main"].state = "cancelled" => ending["main"].reason = "user" /\ scope = "user"
  /\ ending["cancel"].state = "cancelled" => ending["cancel"].reason = scope /\ scope # "none"
  /\ \A p \in Procs \ {"main", "cancel"} : ending[p].state # "cancelled"
  /\ pc["cancel"] \in Appending \cup {"tell", "told", "lock_cancel", "raised"}
       => scope = "user"
  /\ ~Cancels => pc["cancel"] = "idle" /\ ending["cancel"].state # "cancelled"

Paths == Undisturbed /\ Handled /\ Assigned /\ Reasons

USE KernelAssumption DEF Shapes, Thens, Starting, Completing, Early, Appending,
    Finishing, Leaving,
    Undisturbed, Handled, Assigned, Reasons, Paths,
    Move, Go, At, rest, tasks, locks, Procs, Emit, ToCancelHandler, CancelEnding, Ending, Gone,
    Abort, Kill, StopLabel, Started, Live, Returned, MayEnter, StopWatchdog, verdict,
    counters, actors, First, NoResult, Run

(* Which way it takes: the main task.                                      *)
LEMMA MainPaths ==
  ASSUME Shapes, Starting, Completing, Paths, MainMoves
  PROVE  Paths'
<1>1. CASE MainStarts
  BY <1>1 DEF MainStarts
<1>2. CASE LoadContext
  BY <1>2 DEF LoadContext
<1>3. CASE CreateJournal
  BY <1>3 DEF CreateJournal
<1>4. CASE StartRaises
  BY <1>4 DEF StartRaises
<1>5. CASE MainRaised
  BY <1>5 DEF MainRaised
<1>6. CASE MainAborts
  BY <1>6 DEF MainAborts
<1>7. CASE Loop
  BY <1>7 DEF Loop
<1>8. CASE Proposed
  BY <1>8 DEF Proposed
<1>9. CASE ActEnd
  BY <1>9 DEF ActEnd
<1>10. CASE ActAssign
  BY <1>10 DEF ActAssign
<1>11. CASE ActWait
  BY <1>11 DEF ActWait
<1>12. CASE Yielded
  BY <1>12 DEF Yielded
<1>13. CASE Assign
  BY <1>13 DEF Assign
<1>14. CASE Worked
  BY <1>14 DEF Worked
<1>15. CASE Accepted
  BY <1>15 DEF Accepted
<1>16. CASE Stopped
  BY <1>16 DEF Stopped
<1>17. CASE SpawnCompletion
  BY <1>17 DEF SpawnCompletion
<1>18. CASE CompletionAwaited
  BY <1>18 DEF CompletionAwaited
<1>19. CASE MainInterrupted
  BY <1>19 DEF MainInterrupted
<1> QED BY <1>1, <1>2, <1>3, <1>4, <1>5, <1>6, <1>7, <1>8, <1>9, <1>10,
  <1>11, <1>12, <1>13, <1>14, <1>15, <1>16, <1>17, <1>18, <1>19 DEF MainMoves

(* Which way it takes: an emit.                                            *)
LEMMA EmitPaths ==
  ASSUME Shapes, Starting, Completing, Paths, NEW p \in {"main", "cancel"} \cup Agents,
    EmitStep(p)
  PROVE  Paths'
<1>1. CASE EmitRefused(p)
  BY <1>1 DEF EmitRefused, NeedsLease
<1>2. CASE EmitLock(p)
  BY <1>2 DEF EmitLock
<1>3. CASE SeqAcquired(p)
  BY <1>3 DEF SeqAcquired
<1>4. CASE Appended(p)
  BY <1>4 DEF Appended
<1>5. CASE AppendRaises(p)
  BY <1>5 DEF AppendRaises, AppendError
<1>6. CASE Published(p)
  BY <1>6 DEF Published
<1> QED BY <1>1, <1>2, <1>3, <1>4, <1>5, <1>6 DEF EmitStep

(* Which way it takes: a verdict.                                          *)
LEMMA FinishPaths ==
  ASSUME Shapes, Starting, Completing, Paths, NEW p \in {"main", "comp", "cancel"},
    FinishStep(p)
  PROVE  Paths'
<1>1. CASE FinishQueued(p)
  BY <1>1 DEF FinishQueued
<1>2. CASE FinishTooLate(p)
  BY <1>2 DEF FinishTooLate
<1>3. CASE FinishEntered(p)
  BY <1>3 DEF FinishEntered
<1>4. CASE FinishSeqAcquired(p)
  BY <1>4 DEF FinishSeqAcquired
<1>5. CASE Persisted(p)
  BY <1>5 DEF Persisted
<1>6. CASE NotPersisted(p)
  BY <1>6 DEF NotPersisted
<1>7. CASE CompletionRaises(p)
  BY <1>7 DEF CompletionRaises
<1>8. CASE FinishLocally(p)
  BY <1>8 DEF FinishLocally
<1>9. CASE Resolved(p)
  BY <1>9 DEF Resolved
<1> QED BY <1>1, <1>2, <1>3, <1>4, <1>5, <1>6, <1>7, <1>8, <1>9 DEF FinishStep

(* Which way it takes: an actor.                                           *)
LEMMA AgentPaths ==
  ASSUME Shapes, Starting, Completing, Paths, NEW a \in Agents, AgentStep(a)
  PROVE  Paths'
<1>1. CASE AgentTakes(a)
  BY <1>1 DEF AgentTakes
<1>2. CASE AgentQuits(a)
  BY <1>2 DEF AgentQuits
<1>3. CASE AgentEmits(a)
  BY <1>3 DEF AgentEmits
<1>4. CASE AgentReturns(a)
  BY <1>4 DEF AgentReturns
<1>5. CASE AgentRaises(a)
  BY <1>5 DEF AgentRaises
<1>6. CASE AgentInterrupted(a)
  BY <1>6 DEF AgentInterrupted
<1>7. CASE AgentUnwound(a)
  BY <1>7 DEF AgentUnwound
<1>8. CASE EmitStep(a)
  BY <1>8, EmitPaths
<1> QED BY <1>1, <1>2, <1>3, <1>4, <1>5, <1>6, <1>7, <1>8 DEF AgentStep

(* Which way it takes: a caller that cancels.                              *)
LEMMA CancelPaths ==
  ASSUME Shapes, Starting, Completing, Paths, CancelArrives \/ CancelStep
  PROVE  Paths'
<1>1. CASE CancelArrives
  <2>1. CASE CancelCall
    BY <1>1, <2>1 DEF CancelCall, CancelArrives
  <2>2. CASE CancelAgain
    BY <1>1, <2>2 DEF CancelAgain, CancelArrives
  <2>3. CASE CallDecided("cancel")
    BY <1>1, <2>3 DEF CallDecided, CancelArrives
  <2> QED BY <1>1, <2>1, <2>2, <2>3 DEF CancelArrives
<1>2. CASE CancelTells
  BY <1>2 DEF CancelTells
<1>3. CASE CancelQueued
  BY <1>3 DEF CancelQueued
<1>4. CASE CancelWork
  BY <1>4 DEF CancelWork
<1>5. CASE GraceAnswered
  BY <1>5 DEF GraceAnswered
<1>6. CASE GraceEnds
  BY <1>6 DEF GraceEnds
<1>7. CASE ForceStopped
  BY <1>7 DEF ForceStopped
<1>8. CASE CancelEmitFailed
  BY <1>8 DEF CancelEmitFailed
<1>9. CASE EmitStep("cancel")
  BY <1>9, EmitPaths
<1>10. CASE FinishStep("cancel")
  BY <1>10, FinishPaths
<1>11. CASE ResultReady("cancel")
  BY <1>11 DEF ResultReady
<1> QED BY <1>1, <1>2, <1>3, <1>4, <1>5, <1>6, <1>7, <1>8, <1>9, <1>10,
  <1>11 DEF CancelStep

(* Which way it takes: everybody else.                                     *)
LEMMA OtherPaths ==
  ASSUME Shapes, Starting, Completing, Paths, Others
  PROVE  Paths'
<1>1. CASE CompletionStarts
  BY <1>1 DEF CompletionStarts
<1>2. CASE FinishStep("comp")
  BY <1>2, FinishPaths
<1>3. CASE WatchdogFire
  BY <1>3 DEF WatchdogFire
<1>4. CASE RivalStep
  BY <1>4 DEF RivalStep
<1>5. CASE \E p \in FailCallers : FailCall(p) \/ CallDecided(p) \/ ResultReady(p)
  BY <1>5 DEF FailCall, CallDecided, ResultReady
<1> QED BY <1>1, <1>2, <1>3, <1>4, <1>5 DEF Others, CompletionStep

HIDE KernelAssumption DEF Shapes, Thens, Starting, Completing, Early, Appending,
    Finishing, Leaving,
    Undisturbed, Handled, Assigned, Reasons, Paths,
    Move, Go, At, rest, tasks, locks, Procs, Emit, ToCancelHandler, CancelEnding, Ending, Gone,
    Abort, Kill, StopLabel, Started, Live, Returned, MayEnter, StopWatchdog, verdict,
    counters, actors, First, NoResult, Run

-----------------------------------------------------------------------------
(* Who stops a Run for which reason.                                       *)

(* Nobody but a caller of cancel() and a deadline stops the main task      *)
(* from outside, no executor raises, and the journal answers.              *)
Orderly == JournalAnswers /\ FailCallers = {} /\ ~AgentErrors

(* The Run was stopped for another reason than a cancellation.             *)
Overdue == scope \notin {"none", "user"}

(* The Run ends as what its caller asked, or has its ending already.       *)
Settled == scope = "user" \/ KernelTerminal

(* Until it is over, the main task of such a Run has yet to hear of it,    *)
(* in its body, or is on its way to fail the Run.                          *)
MainStops ==
  Overdue /\ ~KernelTerminal =>
    \/ "main" \in cancelled /\ mode = "body" /\ pc["main"] \notin {"ready", "done"}
    \/ /\ "main" \notin cancelled /\ pc["main"] \in {"stop", "pause", "finish", "persist"}
       /\ ending["main"].state = "failed"

(* The deadline passes once, and only a Run that has a row.                *)
OneDeadline ==
  /\ Overdue /\ (mode = "cancel" \/ "main" \in cancelled) => pc["watchdog"] # "armed"
  /\ KernelTerminal => pc["watchdog"] # "armed"
  /\ Overdue => ~Rowless

(* An exception reaches the main task only when the caller has cancelled   *)
(* or the Run is over.                                                     *)
Raised == mode = "except" \/ pc["main"] = "raised" => Settled

(* Nor is the lease revoked, or an assignment refused, before.             *)
Leased ==
  /\ ~lease => scope # "none" \/ (KernelTerminal /\ ~Rowless)
  /\ \A a \in Agents : job[a] = "error" \/ pc[a] = "raised" \/ emission[a].then = "raised"
         => ~lease

(* Whoever waits for the finish lock waits for a verdict that has been     *)
(* reached.                                                                *)
Locking ==
  /\ finLock # <<>> => KernelTerminal \/ \E p \in Procs : pc[p] \in {"persist", "fallback"}
  /\ \A p \in Procs : pc[p] = "fin_wait" => KernelTerminal

(* Actors execute while the main task waits for them or cancels them.      *)
Working ==
  ~Settled /\ (\E a \in Agents : job[a] = "assigned") => pc["main"] = "work" \/ mode = "cancel"

(* If the deadline passes while the main task lets idle actors end, they   *)
(* are all told to.                                                        *)
Idling ==
  Overdue /\ ~KernelTerminal /\ pc["main"] = "stop" /\ mode = "body"
    => \A a \in Live : a \in cancelled /\ pc[a] = "idle"

(* When cancel() has waited for the grace period, the main task waits for  *)
(* the same actors, in its handler, and is woken before.                   *)
Forcing ==
  pc["cancel"] = "force_stop" /\ ~Settled =>
    /\ "main" \notin cancelled
    /\ pc["main"] \in {"finish", "persist"} \/ (pc["main"] = "stop" /\ mode = "cancel")

(* A task that has ended leaves the ending beyond doubt.                   *)
Over == pc["main"] = "done" \/ pc["comp"] = "done" => Settled

(* So does cancel() once it ends the Run itself.                           *)
Answered ==
  ending["cancel"].state = "cancelled" =>
    Settled /\ (pc["cancel"] = "fin_sink" => scope = "user")

Times ==
  /\ MainStops /\ OneDeadline /\ Raised /\ Leased /\ Locking
  /\ Working /\ Idling /\ Forcing /\ Over /\ Answered

USE KernelAssumption DEF Setting, Rowless, MainFails, Doomed, Shapes, Thens,
    Starting, Early, Appending, Deciding, Finishing, Completing, Rows,
    Started, Live, Beginning, Agreed, Stillness, Quiet, Leaving,
    JournalAnswers, Move, Go, At, rest, tasks, locks, verdict, counters,
    actors, storeVars, Procs, Emit, ToCancelHandler, CancelEnding, Ending,
    Gone, Abort, Kill, StopLabel, Returned, MayEnter, StopWatchdog,
    NeedsLease, Callable, Decided, Alive, Persist, Store!Load,
    Store!CreateRun, Store!AppendEvent, Store!TryFinish, Store!TryComplete,
    Envelope, Stores, Run, Rival, Terminal, Store!Terminal, NoResult,
    KernelTerminal, Order, First,
    Undisturbed, Handled, Assigned, Reasons, Paths, Orderly, Overdue, Settled,
    MainStops, OneDeadline, Raised, Leased, Locking, Working, Idling, Forcing, Over,
    Answered, Times

(* Who is in time: the main task.                                          *)
LEMMA MainTimes ==
  ASSUME Calm, Setting, Orderly, Paths, Times, MainMoves
  PROVE  Times'
<1>1. CASE MainStarts
  BY <1>1 DEF MainStarts
<1>2. CASE LoadContext
  BY <1>2 DEF LoadContext
<1>3. CASE CreateJournal
  BY <1>3 DEF CreateJournal
<1>4. CASE StartRaises
  BY <1>4, NeverTaken DEF Procs
<1>5. CASE MainRaised
  BY <1>5 DEF MainRaised
<1>6. CASE MainAborts
  BY <1>6 DEF MainAborts
<1>7. CASE Loop
  BY <1>7 DEF Loop
<1>8. CASE Proposed
  BY <1>8 DEF Proposed
<1>9. CASE ActEnd
  BY <1>9 DEF ActEnd
<1>10. CASE ActAssign
  BY <1>10 DEF ActAssign
<1>11. CASE ActWait
  BY <1>11 DEF ActWait
<1>12. CASE Yielded
  BY <1>12 DEF Yielded
<1>13. CASE Assign
  BY <1>13 DEF Assign
<1>14. CASE Worked
  BY <1>14 DEF Worked
<1>15. CASE Accepted
  BY <1>15 DEF Accepted
<1>16. CASE Stopped
  BY <1>16 DEF Stopped
<1>17. CASE SpawnCompletion
  <2>1. MainStops' /\ OneDeadline' /\ Raised' /\ Over'
    BY <1>17 DEF SpawnCompletion
  <2>2. Leased' /\ Locking'
    BY <1>17 DEF SpawnCompletion, Turn, Sync, StoreCalls
  <2>3. Working' /\ Idling'
    BY <1>17 DEF SpawnCompletion
  <2>4. Forcing' /\ Answered'
    BY <1>17 DEF SpawnCompletion
  <2> QED BY <2>1, <2>2, <2>3, <2>4
<1>18. CASE CompletionAwaited
  BY <1>18 DEF CompletionAwaited
<1>19. CASE MainInterrupted
  <2>1. UNCHANGED storeVars
    BY <1>19, InterruptedBetweenCalls DEF MainInterrupted
  <2>2. finLock' # <<>> => finLock # <<>>
    BY <1>19 DEF MainInterrupted, Leave
  <2>3. pc["main"] \notin {"emit", "raised", "load", "create", "persist", "fallback", "finish"}
    BY <1>19 DEF MainInterrupted, Sync, StoreCalls
  <2>4. MainStops' /\ OneDeadline' /\ Raised' /\ Over'
    BY <1>19, <2>1, <2>3 DEF MainInterrupted
  <2>5. Leased' /\ Working' /\ Idling' /\ Forcing' /\ Answered'
    BY <1>19, <2>1, <2>3 DEF MainInterrupted
  <2>6. Locking'
    BY <1>19, <2>1, <2>2, <2>3 DEF MainInterrupted
  <2> QED BY <2>4, <2>5, <2>6
<1> QED BY <1>1, <1>2, <1>3, <1>4, <1>5, <1>6, <1>7, <1>8, <1>9, <1>10,
  <1>11, <1>12, <1>13, <1>14, <1>15, <1>16, <1>17, <1>18, <1>19 DEF MainMoves

(* Who is in time: an emit.                                                *)
LEMMA EmitTimes ==
  ASSUME Calm, Setting, Orderly, Paths, Times, NEW p \in {"main", "cancel"} \cup Agents,
    EmitStep(p)
  PROVE  Times'
<1>1. CASE EmitRefused(p)
  BY <1>1 DEF EmitRefused, NeedsLease
<1>2. CASE EmitLock(p)
  BY <1>2 DEF EmitLock
<1>3. CASE SeqAcquired(p)
  BY <1>3, NeverTaken DEF Procs
<1>4. CASE Appended(p)
  BY <1>4 DEF Appended
<1>5. CASE AppendRaises(p)
  <2>1. Rowless /\ p = "cancel" /\ UNCHANGED storeVars
    BY <1>5, RaisesForWantOfRow DEF Procs
  <2> QED BY <1>5, <2>1 DEF AppendRaises, AppendError
<1>6. CASE Published(p)
  <2>1. /\ pc' = [pc EXCEPT ![p] = emission[p].then] /\ pc[p] = "sink"
        /\ emission[p].then \in Thens /\ UNCHANGED rest
    BY <1>6 DEF Published
  <2>2. MainStops' /\ OneDeadline' /\ Raised' /\ Over'
    BY <2>1
  <2>3. Leased' /\ Locking'
    BY <2>1
  <2>4. Working' /\ Idling'
    BY <2>1
  <2>5. Forcing' /\ Answered'
    BY <2>1
  <2> QED BY <2>2, <2>3, <2>4, <2>5
<1> QED BY <1>1, <1>2, <1>3, <1>4, <1>5, <1>6 DEF EmitStep

(* Who is in time: a verdict.                                              *)
LEMMA FinishTimes ==
  ASSUME Calm, Setting, Orderly, Paths, Times, NEW p \in {"main", "comp", "cancel"},
    FinishStep(p)
  PROVE  Times'
<1>1. CASE FinishQueued(p)
  BY <1>1 DEF FinishQueued, Turn, Sync, StoreCalls
<1>2. CASE FinishTooLate(p)
  BY <1>2 DEF FinishTooLate
<1>3. CASE FinishEntered(p)
  <2>1. pc' = [pc EXCEPT ![p] = "persist"]
    BY <1>3, SequenceLock, ZenonT(30) DEF FinishEntered, Locked
  <2> QED BY <1>3, <2>1 DEF FinishEntered
<1>4. CASE FinishSeqAcquired(p)
  BY <1>4, NeverTaken DEF Procs
<1>5. CASE Persisted(p)
  BY <1>5 DEF Persisted
<1>6. CASE NotPersisted(p)
  BY <1>6 DEF NotPersisted
<1>7. CASE CompletionRaises(p)
  <2>1. UNCHANGED storeVars /\ p = "comp" /\ pc[p] = "persist"
    BY <1>7 DEF CompletionRaises, PersistRaises
  <2>2. /\ pc' = [pc EXCEPT ![p] = "fallback"]
        /\ ending' = [ending EXCEPT ![p] = Ending("failed", PersistError(p))]
        /\ UNCHANGED <<locks, actors, verdict, counters, emission, mode, cancelled>>
    BY <1>7 DEF CompletionRaises
  <2> HIDE DEF PersistError
  <2> QED BY <2>1, <2>2
<1>8. CASE FinishLocally(p)
  <2>1. Rowless /\ p = "cancel" /\ UNCHANGED storeVars
    BY <1>8, RaisesForWantOfRow DEF Procs
  <2> QED BY <1>8, <2>1 DEF FinishLocally, LocalVerdict
<1>9. CASE Resolved(p)
  BY <1>9 DEF Resolved
<1> QED BY <1>1, <1>2, <1>3, <1>4, <1>5, <1>6, <1>7, <1>8, <1>9 DEF FinishStep

(* Who is in time: an actor.                                               *)
LEMMA AgentTimes ==
  ASSUME Calm, Setting, Orderly, Paths, Times, NEW a \in Agents, AgentStep(a)
  PROVE  Times'
<1>1. CASE AgentTakes(a)
  <2>2. MainStops' /\ OneDeadline' /\ Raised' /\ Over'
    BY <1>1 DEF AgentTakes
  <2>3. Leased' /\ Locking'
    BY <1>1 DEF AgentTakes
  <2>4. Working'
    BY <1>1 DEF AgentTakes
  <2>5. Idling'
    BY <1>1 DEF AgentTakes
  <2>6. Forcing'
    BY <1>1 DEF AgentTakes
  <2>7. Answered'
    BY <1>1 DEF AgentTakes
  <2> QED BY <2>2, <2>3, <2>4, <2>5, <2>6, <2>7
<1>2. CASE AgentQuits(a)
  BY <1>2 DEF AgentQuits
<1>3. CASE AgentEmits(a)
  BY <1>3 DEF AgentEmits
<1>4. CASE AgentReturns(a)
  BY <1>4 DEF AgentReturns
<1>5. CASE AgentRaises(a)
  BY <1>5 DEF AgentRaises
<1>6. CASE AgentInterrupted(a)
  <2>1. UNCHANGED storeVars
    BY <1>6, InterruptedBetweenCalls DEF AgentInterrupted
  <2>2. MainStops' /\ OneDeadline' /\ Raised' /\ Over'
    BY <1>6, <2>1 DEF AgentInterrupted
  <2>3. Leased' /\ Locking'
    BY <1>6, <2>1 DEF AgentInterrupted, Sync, StoreCalls
  <2>4. Working'
    BY <1>6, <2>1 DEF AgentInterrupted
  <2>5. Idling'
    BY <1>6, <2>1 DEF AgentInterrupted
  <2>6. Forcing'
    BY <1>6, <2>1 DEF AgentInterrupted
  <2>7. Answered'
    BY <1>6, <2>1 DEF AgentInterrupted
  <2> QED BY <2>2, <2>3, <2>4, <2>5, <2>6, <2>7
<1>7. CASE AgentUnwound(a)
  BY <1>7 DEF AgentUnwound
<1>8. CASE EmitStep(a)
  BY <1>8, EmitTimes
<1> QED BY <1>1, <1>2, <1>3, <1>4, <1>5, <1>6, <1>7, <1>8 DEF AgentStep

(* Who is in time: a caller that cancels.                                  *)
LEMMA CancelTimes ==
  ASSUME Calm, Setting, Orderly, Paths, Times, CancelArrives \/ CancelStep
  PROVE  Times'
<1>1. CASE CancelArrives
  BY <1>1 DEF CancelArrives, CancelCall, CancelAgain, CallDecided
<1>2. CASE CancelTells
  BY <1>2 DEF CancelTells
<1>3. CASE CancelQueued
  BY <1>3 DEF CancelQueued
<1>4. CASE CancelWork
  BY <1>4 DEF CancelWork
<1>5. CASE GraceAnswered
  BY <1>5 DEF GraceAnswered
<1>6. CASE GraceEnds
  <2>2. MainStops' /\ OneDeadline' /\ Raised' /\ Over'
    BY <1>6 DEF GraceEnds, Outstanding
  <2>3. Leased' /\ Locking'
    BY <1>6 DEF GraceEnds, Outstanding
  <2>4. Working'
    BY <1>6 DEF GraceEnds, Outstanding
  <2>5. Idling'
    BY <1>6 DEF GraceEnds, Outstanding
  <2>6. Forcing'
    <3> SUFFICES ASSUME ~Settled PROVE Forcing'
      BY <1>6 DEF GraceEnds
    <3>1. Overdue /\ ~KernelTerminal
      BY <1>6 DEF GraceEnds
    <3>2. pc["main"] = "stop" /\ mode = "body" => FALSE
      BY <1>6, <3>1 DEF GraceEnds, Outstanding
    <3>3. "main" \notin cancelled /\ pc["main"] \in {"stop", "finish", "persist"}
      BY <1>6, <3>1, <3>2 DEF GraceEnds, Outstanding
    <3>4. pc["main"] = "stop" => mode = "cancel"
      BY <3>1, <3>2, <3>3
    <3>5. "main" \notin cancelled'
      BY <1>6, <3>3 DEF GraceEnds
    <3> QED BY <1>6, <3>3, <3>4, <3>5 DEF GraceEnds
  <2>7. Answered'
    BY <1>6 DEF GraceEnds, Outstanding
  <2> QED BY <2>2, <2>3, <2>4, <2>5, <2>6, <2>7
<1>7. CASE ForceStopped
  BY <1>7 DEF ForceStopped, Turn, Sync, StoreCalls
<1>8. CASE CancelEmitFailed
  BY <1>8 DEF CancelEmitFailed
<1>9. CASE EmitStep("cancel")
  BY <1>9, EmitTimes
<1>10. CASE FinishStep("cancel")
  BY <1>10, FinishTimes
<1>11. CASE ResultReady("cancel")
  BY <1>11 DEF ResultReady
<1> QED BY <1>1, <1>2, <1>3, <1>4, <1>5, <1>6, <1>7, <1>8, <1>9, <1>10,
  <1>11 DEF CancelStep

(* Who is in time: everybody else.                                         *)
LEMMA OtherTimes ==
  ASSUME Calm, Setting, Orderly, Paths, Times, Others
  PROVE  Times'
<1>1. CASE CompletionStarts
  BY <1>1 DEF CompletionStarts
<1>2. CASE FinishStep("comp")
  BY <1>2, FinishTimes
<1>3. CASE WatchdogFire
  <2>1. MainStops'
    BY <1>3 DEF WatchdogFire, Turn, Sync, StoreCalls
  <2>2. OneDeadline' /\ Raised' /\ Over'
    BY <1>3 DEF WatchdogFire, Turn, Sync, StoreCalls
  <2>3. Leased' /\ Locking'
    BY <1>3 DEF WatchdogFire, Turn, Sync, StoreCalls
  <2>4. Working'
    BY <1>3 DEF WatchdogFire, Turn, Sync, StoreCalls
  <2>5. Idling'
    BY <1>3 DEF WatchdogFire, Turn, Sync, StoreCalls
  <2>6. Forcing'
    BY <1>3 DEF WatchdogFire, Turn, Sync, StoreCalls
  <2>7. Answered'
    BY <1>3 DEF WatchdogFire, Turn, Sync, StoreCalls
  <2> QED BY <2>1, <2>2, <2>3, <2>4, <2>5, <2>6, <2>7
<1>4. CASE RivalStep
  BY <1>4 DEF RivalStep
<1>5. CASE \E p \in FailCallers : FailCall(p) \/ CallDecided(p) \/ ResultReady(p)
  BY <1>5 DEF FailCall, CallDecided, ResultReady
<1> QED BY <1>1, <1>2, <1>3, <1>4, <1>5 DEF Others, CompletionStep

HIDE KernelAssumption DEF Setting, Rowless, MainFails, Doomed, Shapes, Thens,
    Starting, Early, Appending, Deciding, Finishing, Completing, Rows,
    Started, Live, Beginning, Agreed, Stillness, Quiet, Leaving,
    JournalAnswers, Move, Go, At, rest, tasks, locks, verdict, counters,
    actors, storeVars, Procs, Emit, ToCancelHandler, CancelEnding, Ending,
    Gone, Abort, Kill, StopLabel, Returned, MayEnter, StopWatchdog,
    NeedsLease, Callable, Decided, Alive, Persist, Store!Load,
    Store!CreateRun, Store!AppendEvent, Store!TryFinish, Store!TryComplete,
    Envelope, Stores, Run, Rival, Terminal, Store!Terminal, NoResult,
    KernelTerminal, Order, First,
    Undisturbed, Handled, Assigned, Reasons, Paths, Orderly, Overdue, Settled,
    MainStops, OneDeadline, Raised, Leased, Locking, Working, Idling, Forcing, Over,
    Answered, Times

-----------------------------------------------------------------------------
(* Endings are earned.                                                     *)

(* The caller's cancellation is never forgotten.                           *)
LEMMA CallersReasonStays ==
  ASSUME [Next]_vars, scope = "user" PROVE scope' = "user"
<1> DEFINE Stays == scope' = "user"
<1> USE DEF Move, Go, rest, verdict, Abort, Kill, First, Emit
<1>1. CASE UNCHANGED vars
  BY <1>1 DEF vars
<1>2. ASSUME NEW p, EmitStep(p) PROVE Stays
  BY <1>2 DEF EmitStep, EmitRefused, EmitLock, SeqAcquired, Appended, AppendRaises, Published
<1>3. ASSUME NEW p, FinishStep(p) PROVE Stays
  BY <1>3 DEF FinishStep, FinishQueued, FinishTooLate, FinishEntered, FinishSeqAcquired,
    Persisted, NotPersisted, CompletionRaises, FinishLocally, Resolved
<1>4. CASE MainMoves
  BY <1>4 DEF MainMoves, MainStarts, LoadContext, CreateJournal, StartRaises, MainRaised,
    MainAborts, Loop, Proposed, ActEnd, ActAssign, ActWait, Yielded, Assign, Worked, Accepted,
    Stopped, SpawnCompletion, CompletionAwaited, MainInterrupted
<1>5. ASSUME NEW a, AgentStep(a) PROVE Stays
  BY <1>2, <1>5 DEF AgentStep, AgentTakes, AgentQuits, AgentEmits, AgentReturns,
    AgentRaises, AgentUnwound, AgentInterrupted
<1>6. CASE CancelArrives \/ CancelStep
  BY <1>2, <1>3, <1>6 DEF CancelArrives, CancelStep, CancelCall, CancelAgain, CallDecided,
    CancelTells, CancelQueued, CancelWork, GraceAnswered, GraceEnds, ForceStopped,
    CancelEmitFailed, ResultReady
<1>7. CASE Others
  BY <1>3, <1>7 DEF Others, CompletionStep, CompletionStarts, WatchdogFire, RivalStep,
    FailCall, CallDecided, ResultReady
<1>8. CASE MainStep
  BY <1>2, <1>3, <1>4, <1>8 DEF MainStep, MainMoves
<1> QED BY <1>1, <1>5, <1>6, <1>7, <1>8 DEF Next, Others

(* A row is cancelled only by a task that ends the Run so.                 *)
Cancelling(p) == pc[p] \in {"persist", "fallback"} /\ ending[p].state = "cancelled"

(* A step that cancels the row is a step of such a task.                   *)
LEMMA RowIsCancelledBy ==
  ASSUME Rows, [Next]_vars, state'[Run] = "cancelled", state[Run] # "cancelled"
  PROVE  \E p \in Procs : Cancelling(p)
<1> DEFINE Goal == \E p \in Procs : Cancelling(p)
<1> USE DEF Move, Go, At, rest, storeVars, Stores, Run, Rival, Rows, Cancelling,
    CancelledCall, Envelope, PersistRaises,
      Persist, Store!Load, Store!CreateRun, Store!AppendEvent, Store!TryFinish,
      Store!TryComplete
<1>1. CASE UNCHANGED vars
  BY <1>1 DEF vars
<1>2. ASSUME NEW p, EmitStep(p) PROVE FALSE
  BY <1>2 DEF EmitStep, EmitRefused, EmitLock, SeqAcquired, Appended, AppendRaises, Published
<1>3. ASSUME NEW p \in Procs, FinishStep(p) PROVE Goal
  BY <1>3 DEF FinishStep, FinishQueued, FinishTooLate, FinishEntered, FinishSeqAcquired,
    Persisted, NotPersisted, CompletionRaises, FinishLocally, Resolved
<1>4. CASE MainMoves
  <2>1. CASE MainInterrupted
    BY <2>1 DEF MainInterrupted, Procs
  <2>2. CASE ~MainInterrupted
    BY <1>4, <2>2 DEF MainMoves, MainStarts, LoadContext, CreateJournal, StartRaises,
    MainRaised,
      MainAborts, Loop, Proposed, ActEnd, ActAssign, ActWait, Yielded, Assign, Worked,
      Accepted,
      Stopped, SpawnCompletion, CompletionAwaited
  <2> QED BY <2>1, <2>2
<1>5. ASSUME NEW a \in Agents, AgentStep(a) PROVE Goal
  <2>1. CASE AgentInterrupted(a)
    BY <2>1 DEF AgentInterrupted, Procs
  <2>2. CASE ~AgentInterrupted(a)
    BY <1>2, <1>5, <2>2 DEF AgentStep, AgentTakes, AgentQuits, AgentEmits, AgentReturns,
      AgentRaises, AgentUnwound
  <2> QED BY <2>1, <2>2
<1>6. CASE CancelArrives \/ CancelStep
  BY <1>2, <1>3, <1>6 DEF CancelArrives, CancelStep, CancelCall, CancelAgain, CallDecided,
    CancelTells, CancelQueued, CancelWork, GraceAnswered, GraceEnds, ForceStopped,
    CancelEmitFailed, ResultReady, Procs
<1>7. CASE Others
  BY <1>3, <1>7 DEF Others, CompletionStep, CompletionStarts, WatchdogFire, RivalStep, Kill,
    FailCall, CallDecided, ResultReady, Procs
<1>8. CASE MainStep
  BY <1>2, <1>3, <1>4, <1>8 DEF MainStep, MainMoves, Procs
<1> QED BY <1>1, <1>5, <1>6, <1>7, <1>8 DEF Next, Others

(* cancel() ends a Run as cancelled only for its own caller.               *)
OwnReason ==
  pc["cancel"] \in {"persist", "fallback", "fin_sink"} /\ ending["cancel"].state = "cancelled"
    => scope = "user"

(* Then what is cancelled is cancelled for the caller.                     *)
LEMMA CallerCancels ==
  ASSUME Rows, Recorded, Paths, OwnReason, CancelledByCaller, [Next]_vars
  PROVE  CancelledByCaller'
<1>1. ASSUME NEW p \in Procs, ending[p].state = "cancelled", pc[p] \in {"persist",
    "fallback", "fin_sink"}
      PROVE  scope = "user" /\ ending[p].reason = "user"
  BY <1>1 DEF Paths, Reasons, OwnReason
<1>2. state'[Run] = "cancelled" => scope' = "user"
  BY <1>1, RowIsCancelledBy, CallersReasonStays DEF Cancelling, CancelledByCaller
<1>3. ASSUME NEW p \in Procs, Telling(p), result'.state = "cancelled", result' # result
      PROVE  result'.reason = "user"
  BY <1>1, <1>3 DEF Telling, FinishLocally, Resolved, LocalVerdict, At, Ending, Recorded
<1>4. result'.state = "cancelled" => result'.reason = "user"
  BY <1>3, OnlyVerdictsAreTold DEF Telling, CancelledByCaller
<1> QED BY <1>2, <1>4 DEF CancelledByCaller

(* Every step keeps to the ways a Run takes.                               *)
LEMMA StepPaths ==
  ASSUME KernelInv, Paths, [Next]_vars PROVE Paths'
<1> USE DEF KernelInv
<1>1. CASE UNCHANGED vars
  BY <1>1 DEF vars, rest, tasks, verdict, actors, Paths, Undisturbed, Handled, Assigned,
    Reasons
<1>2. CASE MainStep
  BY <1>2, MainPaths, EmitPaths, FinishPaths DEF MainStep, MainMoves
<1>3. CASE \E a \in Agents : AgentStep(a)
  BY <1>3, AgentPaths
<1>4. CASE CancelArrives \/ CancelStep
  BY <1>4, CancelPaths
<1>5. CASE Others
  BY <1>5, OtherPaths
<1> QED BY <1>1, <1>2, <1>3, <1>4, <1>5 DEF Next, Others

(* And to who stops it for which reason.                                   *)
LEMMA StepTimes ==
  ASSUME AnswersInv, Orderly, Paths, Times, [Next]_vars PROVE Times'
<1>1. Calm /\ Setting
  BY DEF Orderly, AnswersInv, Calm, Setting, Order, KernelInv, Rows, Contexts
<1> USE <1>1
<1>2. CASE UNCHANGED vars
  BY <1>2 DEF vars, rest, tasks, verdict, actors, locks, storeVars, Times, MainStops,
    OneDeadline, Raised, Leased,
    Locking, Working, Idling, Forcing, Over, Answered, Overdue, Settled, KernelTerminal,
    Rowless, Live
<1>3. CASE MainStep
  BY <1>3, MainTimes, EmitTimes, FinishTimes DEF MainStep, MainMoves
<1>4. CASE \E a \in Agents : AgentStep(a)
  BY <1>4, AgentTimes
<1>5. CASE CancelArrives \/ CancelStep
  BY <1>5, CancelTimes
<1>6. CASE Others
  BY <1>6, OtherTimes
<1> QED BY <1>2, <1>3, <1>4, <1>5, <1>6 DEF Next, Others

(* The inductive invariant.                                                *)
EarnedInv ==
  /\ KernelInv /\ Paths /\ (JournalAnswers => AnswersInv)
  /\ Orderly => Times
  /\ CancelledByCaller

(* They hold when nothing has started.                                     *)
LEMMA InitEarnedInv == ASSUME Init PROVE EarnedInv
<1> USE KernelAssumption DEF Init, Procs
<1>1. Paths
  BY DEF Paths, Undisturbed, Handled, Assigned, Reasons, NoResult, Appending
<1>2. Times
  BY DEF Times, MainStops, OneDeadline, Raised, Leased,
    Locking, Working, Idling, Forcing, Over, Answered, Overdue, Settled, KernelTerminal,
    Live, NoResult, Terminal
<1>3. CancelledByCaller
  BY DEF CancelledByCaller, NoResult, Store!Init, Run, Rival
<1> QED BY <1>1, <1>2, <1>3, InitKernelInv, InitAnswersInv DEF EarnedInv

(* And every ending is earned.                                             *)
LEMMA StepEarnedInv == ASSUME Orderly \/ ~Cancels, EarnedInv, [Next]_vars PROVE EarnedInv'
<1> USE DEF EarnedInv
<1>1. KernelInv' /\ Paths'
  BY StepKernelInv, StepPaths
<1>2. (JournalAnswers => AnswersInv)'
  BY StepAnswersInv DEF JournalAnswers
<1>3. (Orderly => Times)'
  BY StepTimes DEF Orderly, JournalAnswers
<1>4. OwnReason
  <2>1. CASE Orderly
    BY <2>1 DEF Orderly, AnswersInv, Agreed, Times, Answered, Settled, OwnReason, Procs
  <2>2. CASE ~Cancels
    BY <2>2 DEF Paths, Reasons, OwnReason
  <2> QED BY <2>1, <2>2
<1>5. CancelledByCaller'
  BY <1>4, CallerCancels DEF KernelInv, Rows, Contexts
<1> QED BY <1>1, <1>2, <1>3, <1>5

(* EndingsEarned: a completed Run has no actor left, and a Run ends as     *)
(* cancelled, in its row and for its callers, only if a caller cancelled   *)
(* it before anything else stopped it, though cancel() may come after a    *)
(* deadline or an abort and outlast the main task's handlers               *)
(* (engine.py cancel, _run, _abort, _finish).                              *)
THEOREM EndingsAreEarned == Orderly \/ ~Cancels => (Spec => []EndingsEarned)
<1> SUFFICES ASSUME Orderly \/ ~Cancels PROVE Spec => []EndingsEarned
  OBVIOUS
<1>1. Init => EarnedInv
  BY InitEarnedInv
<1>2. EarnedInv /\ [Next]_vars => EarnedInv'
  BY StepEarnedInv
<1>3. EarnedInv => EndingsEarned
  BY DEF EarnedInv, KernelInv, EndingsEarned
<1> QED BY <1>1, <1>2, <1>3, PTL DEF Spec
=============================================================================
