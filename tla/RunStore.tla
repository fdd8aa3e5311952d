------------------------------ MODULE RunStore ------------------------------
(***************************************************************************)
(* The three ports a Run persists through -- ContextStore, RunJournal and  *)
(* RunCompletionPort -- as one component, for any number of Runs and       *)
(* scopes and for callers that may call any operation at any time.  The    *)
(* in-memory, SQLite and SQL adapters implement the same operations; each  *)
(* operation is one transaction (an asyncio lock, BEGIN IMMEDIATE, or a    *)
(* row lock), so each is one action.  An operation that raises rolls back, *)
(* so only its successful outcome is a step.                               *)
(***************************************************************************)
EXTENDS Naturals, Sequences, FiniteSets

CONSTANTS Runs,         \* run identifiers
          Scopes,       \* context scope identifiers
          ScopeOf,      \* RunRequest.context_scope_id
          EventIds,     \* event identifiers
          MaxSequence,  \* bound: the longest log explored
          Subscribed,   \* SQLite: Runs with memory or resources enabled, or
                        \* with a memory proposal, for which a job is queued
          SqlAdapter    \* TRUE: backend SQL adapter; it alone closes abandoned
                        \* Runs in bulk, and it has no outbox.  (SQLite's
                        \* recover_session is a TryFinish for each open Run.)

ASSUME StoreAssumption ==
  /\ ScopeOf \in [Runs -> Scopes]
  /\ Subscribed \in SUBSET Runs
  /\ SqlAdapter \in BOOLEAN
  /\ SqlAdapter => Subscribed = {}
  /\ MaxSequence \in Nat

VARIABLES state,     \* the runs row: "absent" before create_run, "running"
                     \* for every state that is not terminal
          events,    \* per Run: its event log, in sequence order
          context,   \* per scope: the committed ContextSnapshot
          loaded,    \* per Run: the snapshot its kernel loaded
          outbox     \* Runs for which a memory or resource job was queued

vars == <<state, events, context, loaded, outbox>>

Terminal == {"completed", "failed", "cancelled"}
OrdinaryKinds == {"ordinary", "late"}
Event == [id : EventIds, run : Runs, seq : 1 .. MaxSequence,
          kind : OrdinaryKinds \cup Terminal]

(* A snapshot is a version and the Runs whose turns its messages hold.     *)
Snapshot == [version : Nat, turns : Seq(Runs)]
EmptyContext == [version |-> 0, turns |-> <<>>]

TypeOK ==
  /\ state \in [Runs -> {"absent", "running"} \cup Terminal]
  /\ events \in [Runs -> Seq(Event)]
  /\ context \in [Scopes -> Snapshot]
  /\ loaded \in [Runs -> Snapshot]
  /\ outbox \in SUBSET Runs

Init ==
  /\ state = [r \in Runs |-> "absent"]
  /\ events = [r \in Runs |-> <<>>]
  /\ context = [s \in Scopes |-> EmptyContext]
  /\ loaded = [r \in Runs |-> EmptyContext]
  /\ outbox = {}

-----------------------------------------------------------------------------
(* The append every writer shares (_append_locked).                        *)

Known(id) == \E r \in Runs : \E i \in DOMAIN events[r] : events[r][i].id = id

(* The same event again: accepted without effect.                          *)
Replay(e) == \E i \in DOMAIN events[e.run] : events[e.run][i] = e

(* A new event: its id is unused and it takes the next sequence number.    *)
Fresh(e) == ~Known(e.id) /\ e.seq = Len(events[e.run]) + 1

Appendable(e) == Replay(e) \/ Fresh(e)

(* Mutant: a repeated event replaces the stored one, as an upsert would.   *)
MutantLogWith(e) ==
  [events EXCEPT ![e.run] = Append(SelectSeq(@, LAMBDA x : x.id # e.id), e)]
LogWith(e) ==
  IF Replay(e) THEN events ELSE [events EXCEPT ![e.run] = Append(@, e)]

(* Mutant: a job is queued whether or not the Run asked for one.           *)
MutantOutboxWith(r) == outbox \cup {r}
OutboxWith(r) == IF r \in Subscribed THEN outbox \cup {r} ELSE outbox

-----------------------------------------------------------------------------
(* Operations.                                                             *)

Load(r) ==
  /\ state[r] = "absent"
  /\ loaded' = [loaded EXCEPT ![r] = context[ScopeOf[r]]]
  /\ UNCHANGED <<state, events, context, outbox>>

CreateRun(r) ==
  /\ state[r] = "absent"
  /\ state' = [state EXCEPT ![r] = "running"]
  /\ UNCHANGED <<events, context, loaded, outbox>>

(* append_event never looks at the Run's state: a log stays open after its *)
(* terminal event.                                                         *)
AppendEvent(e) ==
  /\ state[e.run] # "absent"
  /\ e.kind \in OrdinaryKinds
  /\ Appendable(e)
  /\ events' = LogWith(e)
  /\ UNCHANGED <<state, context, loaded, outbox>>

(* Mutant: the row may be terminal already.                                *)
MutantTryFinishTwice(e) ==
  /\ state[e.run] # "absent"
  /\ e.kind \in {"failed", "cancelled"}
  /\ Appendable(e)
  /\ events' = LogWith(e)
  /\ state' = [state EXCEPT ![e.run] = e.kind]
  /\ outbox' = OutboxWith(e.run)
  /\ UNCHANGED <<context, loaded>>

TryFinish(e) ==
  /\ state[e.run] = "running"
  /\ e.kind \in {"failed", "cancelled"}
  /\ Appendable(e)
  /\ events' = LogWith(e)
  /\ state' = [state EXCEPT ![e.run] = e.kind]
  /\ outbox' = OutboxWith(e.run)
  /\ UNCHANGED <<context, loaded>>

(* The delta a completing Run commits: what it loaded plus its own turn,   *)
(* expecting the version it loaded.                                        *)
CommittedContext(r) ==
  [version |-> context[ScopeOf[r]].version + 1,
   turns   |-> Append(loaded[r].turns, r)]

(* Mutant: the expected version is not compared.                           *)
MutantTryComplete(e) ==
  /\ state[e.run] = "running"
  /\ e.kind = "completed"
  /\ Appendable(e)
  /\ events' = LogWith(e)
  /\ context' = [context EXCEPT ![ScopeOf[e.run]] = CommittedContext(e.run)]
  /\ state' = [state EXCEPT ![e.run] = "completed"]
  /\ outbox' = OutboxWith(e.run)
  /\ UNCHANGED loaded

TryComplete(e) ==
  /\ state[e.run] = "running"
  /\ e.kind = "completed"
  /\ loaded[e.run].version = context[ScopeOf[e.run]].version
  /\ Appendable(e)
  /\ events' = LogWith(e)
  /\ context' = [context EXCEPT ![ScopeOf[e.run]] = CommittedContext(e.run)]
  /\ state' = [state EXCEPT ![e.run] = "completed"]
  /\ outbox' = OutboxWith(e.run)
  /\ UNCHANGED loaded

(* recover_process_lost and cancel_abandoned: every open Run of the given  *)
(* scopes ends in one transaction, each with a terminal event of its own.  *)
Abandoned(S) == {r \in Runs : state[r] = "running" /\ ScopeOf[r] \in S}

RecoveryEvent(r, id, how) ==
  [id |-> id, run |-> r, seq |-> Len(events[r]) + 1, kind |-> how]

FinishAbandoned(S, how, ids) ==
  /\ SqlAdapter
  /\ Abandoned(S) # {}
  /\ \A r \in Abandoned(S) : ~Known(ids[r]) /\ Len(events[r]) < MaxSequence
  /\ \A q, r \in Abandoned(S) : ids[q] = ids[r] => q = r
  /\ events' = [r \in Runs |->
       IF r \in Abandoned(S) THEN Append(events[r], RecoveryEvent(r, ids[r], how))
                             ELSE events[r]]
  /\ state' = [r \in Runs |-> IF r \in Abandoned(S) THEN how ELSE state[r]]
  /\ UNCHANGED <<context, loaded, outbox>>

RecoverProcessLost(S) ==
  \E ids \in [Abandoned(S) -> EventIds] : FinishAbandoned(S, "failed", ids)

CancelAbandoned(s) ==
  \E ids \in [Abandoned({s}) -> EventIds] : FinishAbandoned({s}, "cancelled", ids)

Next ==
  \/ \E r \in Runs : Load(r) \/ CreateRun(r)
  \/ \E e \in Event : AppendEvent(e) \/ TryFinish(e) \/ TryComplete(e)
  \/ \E S \in {Scopes} \cup {{s} : s \in Scopes} : RecoverProcessLost(S)
  \/ \E s \in Scopes : CancelAbandoned(s)

Spec == Init /\ [][Next]_vars

-----------------------------------------------------------------------------
(* What the store promises.                                                *)

(* A log is its Run's: sequence numbers run 1, 2, 3 ... without a gap      *)
(* (run_journal.py _append_locked), whoever races to write the next one.   *)
Contiguous ==
  \A r \in Runs : \A i \in DOMAIN events[r] :
    events[r][i].run = r /\ events[r][i].seq = i

(* No event identifier names two entries, in one log or in two, however    *)
(* often a writer repeats an append.                                       *)
IdsUnique ==
  \A q, r \in Runs : \A i \in DOMAIN events[q], j \in DOMAIN events[r] :
    events[q][i].id = events[r][j].id => q = r /\ i = j

(* The terminal compare-and-set: a Run's row is terminal exactly when its  *)
(* log has a terminal event, that event is the only one, and it agrees     *)
(* with the row -- for try_finish, try_complete and recovery racing.       *)
TerminalOnce ==
  \A r \in Runs :
    /\ state[r] \in Terminal => \E i \in DOMAIN events[r] : events[r][i].kind = state[r]
    /\ \A i \in DOMAIN events[r] : events[r][i].kind \in Terminal =>
         /\ events[r][i].kind = state[r]
         /\ \A j \in DOMAIN events[r] : events[r][j].kind \in Terminal => i = j

(* No turn is lost or invented: the context of a scope holds the turn of a *)
(* Run of that scope exactly when the Run completed, and its version       *)
(* counts them.  A completion based on a stale snapshot would erase one.   *)
ContextIsCompletedRuns ==
  /\ \A r \in Runs :
       state[r] = "completed" <=>
         \E i \in DOMAIN context[ScopeOf[r]].turns : context[ScopeOf[r]].turns[i] = r
  /\ \A s \in Scopes :
       /\ context[s].version = Len(context[s].turns)
       /\ \A i \in DOMAIN context[s].turns : ScopeOf[context[s].turns[i]] = s

(* Completed Runs are serialised: the i-th turn of a scope was produced by *)
(* a Run that had loaded exactly the i-1 turns before it.                  *)
Serialised ==
  \A s \in Scopes : \A i \in DOMAIN context[s].turns :
    loaded[context[s].turns[i]].version = i - 1

(* A loaded snapshot is never invented: it is a prefix of its scope's      *)
(* history, of the length its version says, however old it is by now.      *)
SnapshotsArePrefixes ==
  \A r \in Runs :
    /\ loaded[r].version = Len(loaded[r].turns)
    /\ loaded[r].version <= context[ScopeOf[r]].version
    /\ \A i \in DOMAIN loaded[r].turns :
         loaded[r].turns[i] = context[ScopeOf[r]].turns[i]

(* The two halves of the store: its logs, and its contexts.                *)
LogInv == Contiguous /\ IdsUnique /\ TerminalOnce
ContextInv == ContextIsCompletedRuns /\ Serialised /\ SnapshotsArePrefixes

(* The outbox row is written with the terminal event, never before it and  *)
(* never forgotten.                                                        *)
OutboxFollowsTerminal == outbox = {r \in Subscribed : state[r] \in Terminal}

(* A log only grows, by entries after those it holds, and only once its    *)
(* Run exists.                                                             *)
Extends(old, new) ==
  Len(old) <= Len(new) /\ \A i \in DOMAIN old : new[i] = old[i]

LogsAppendOnly ==
  [][\A r \in Runs : Extends(events[r], events'[r])]_vars

(* Only a completing Run moves a context, and each step moves one version  *)
(* by one; a terminal row never changes again.                             *)
ContextMovesByCompletion ==
  [][\A s \in Scopes : context'[s] # context[s] =>
       /\ context'[s].version = context[s].version + 1
       /\ \E r \in Runs : /\ ScopeOf[r] = s
                          /\ state[r] = "running" /\ state'[r] = "completed"]_vars

TerminalFinal ==
  [][\A r \in Runs : state[r] \in Terminal => state'[r] = state[r]]_vars

(* What no step of the store takes back: an event, a terminal row, or a    *)
(* context version.                                                        *)
OnlyForward == LogsAppendOnly /\ TerminalFinal /\ ContextMovesByCompletion

-----------------------------------------------------------------------------
(* The serial history this store implements.                               *)

Outcome(r) ==
  CASE state[r] = "absent" -> "new" [] state[r] = "running" -> "open" [] OTHER -> state[r]

Abstract == INSTANCE ScopeHistory WITH
  outcome <- [r \in Runs |-> Outcome(r)],
  seen    <- [r \in Runs |-> loaded[r].turns],
  history <- [s \in Scopes |-> context[s].turns]

ImplementsScopeHistory == Abstract!Spec
=============================================================================
