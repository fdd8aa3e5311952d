--------------------------- MODULE RunStoreDesktop ---------------------------
(***************************************************************************)
(* The SQL adapter of the three ports on SQLite, as the desktop backend    *)
(* runs it.  SELECT ... FOR UPDATE takes no lock there and the driver      *)
(* begins a transaction at the first write, so an operation is two steps:  *)
(* what it read may have changed when it writes, and only the unique keys  *)
(* of the tables stand between.  The writes of one operation are one step  *)
(* (the first takes SQLite's write lock).                                  *)
(***************************************************************************)
EXTENDS RunStore

CONSTANTS Callers,     \* coroutines inside an operation of the store
          OneAtATime   \* TRUE: a scope starts a Run when none of it is open,
                       \* as the conversation manager does

ASSUME DesktopAssumption == SqlAdapter /\ OneAtATime \in BOOLEAN

VARIABLES operation    \* operation[c]: what c has read, or NoOperation

desktopVars == <<vars, operation>>

NoOperation == [kind |-> "none"]

DesktopInit == Init /\ operation = [c \in Callers |-> NoOperation]

ScopeIsFree(r) ==
  OneAtATime => \A q \in Runs : ScopeOf[q] = ScopeOf[r] => state[q] # "running"

DesktopLoad(r) == ScopeIsFree(r) /\ Load(r) /\ UNCHANGED operation

DesktopCreate(r) == ScopeIsFree(r) /\ CreateRun(r) /\ UNCHANGED operation

-----------------------------------------------------------------------------
(* _locked_run, commit_in_session and _append_locked read the row of the   *)
(* Run, the row of the context, and the event with this id.                *)

Accepts(kind, e) ==
  CASE kind = "append" -> state[e.run] # "absent" /\ e.kind \in OrdinaryKinds
    [] kind = "finish" -> state[e.run] = "running" /\ e.kind \in {"failed", "cancelled"}
    [] kind = "complete" -> /\ state[e.run] = "running" /\ e.kind = "completed"
                            /\ loaded[e.run].version = context[ScopeOf[e.run]].version

Reads(c, kind, e) ==
  /\ operation[c] = NoOperation
  /\ Accepts(kind, e)
  /\ Fresh(e)
  /\ operation' = [operation EXCEPT ![c] =
       [kind |-> kind, event |-> e, version |-> context[ScopeOf[e.run]].version]]
  /\ UNCHANGED vars

(* _finish_abandoned reads the open rows of a scope.                       *)
ReadsAbandoned(c, s, how) ==
  /\ operation[c] = NoOperation
  /\ \E ids \in [Abandoned({s}) -> EventIds] :
       /\ \A q, r \in Abandoned({s}) : ~Known(ids[q]) /\ (ids[q] = ids[r] => q = r)
       /\ \A r \in Abandoned({s}) : Len(events[r]) < MaxSequence
       /\ operation' = [operation EXCEPT ![c] =
            [kind |-> "abandon", how |-> how,
             terminals |-> {RecoveryEvent(r, ids[r], how) : r \in Abandoned({s})}]]
  /\ UNCHANGED vars

(* uq_runtime_events_run_sequence and the primary key of runtime_events.   *)
MutantInsertable(e) == ~Known(e.id)

Insertable(e) ==
  ~Known(e.id) /\ \A i \in DOMAIN events[e.run] : events[e.run][i].seq # e.seq

Inserted(es) ==
  [r \in Runs |->
     IF \E e \in es : e.run = r
     THEN Append(events[r], CHOOSE e \in es : e.run = r) ELSE events[r]]

(* A new context row is inserted, an old one updated whatever its version. *)
ContextWritable(v, s) == v = 0 => context[s].version = 0

WrittenContext(r, v) == [version |-> v + 1, turns |-> Append(loaded[r].turns, r)]

Done(c) == operation' = [operation EXCEPT ![c] = NoOperation]

WritesEvent(c) ==
  LET o == operation[c] IN
  /\ o.kind \in {"append", "finish"}
  /\ Insertable(o.event)
  /\ events' = Inserted({o.event})
  /\ state' = [state EXCEPT ![o.event.run] = IF o.kind = "finish" THEN o.event.kind ELSE @]
  /\ Done(c)
  /\ UNCHANGED <<context, loaded, outbox>>

WritesCompletion(c) ==
  LET o == operation[c]
      s == ScopeOf[o.event.run]
  IN
  /\ o.kind = "complete"
  /\ Insertable(o.event) /\ ContextWritable(o.version, s)
  /\ context' = [context EXCEPT ![s] = WrittenContext(o.event.run, o.version)]
  /\ events' = Inserted({o.event})
  /\ state' = [state EXCEPT ![o.event.run] = "completed"]
  /\ Done(c)
  /\ UNCHANGED <<loaded, outbox>>

WritesAbandoned(c) ==
  LET o == operation[c] IN
  /\ o.kind = "abandon"
  /\ \A e \in o.terminals : Insertable(e)
  /\ events' = Inserted(o.terminals)
  /\ state' = [r \in Runs |-> IF \E e \in o.terminals : e.run = r THEN o.how ELSE state[r]]
  /\ Done(c)
  /\ UNCHANGED <<context, loaded, outbox>>

(* A key that is taken, or any other failure, rolls the operation back.    *)
RollsBack(c) ==
  /\ operation[c].kind # "none"
  /\ Done(c)
  /\ UNCHANGED vars

-----------------------------------------------------------------------------
DesktopNext ==
  \/ \E r \in Runs : DesktopLoad(r) \/ DesktopCreate(r)
  \/ \E c \in Callers :
       \/ \E kind \in {"append", "finish", "complete"}, e \in Event : Reads(c, kind, e)
       \/ \E s \in Scopes, how \in {"failed", "cancelled"} : ReadsAbandoned(c, s, how)
       \/ WritesEvent(c) \/ WritesCompletion(c) \/ WritesAbandoned(c) \/ RollsBack(c)

DesktopSpec == DesktopInit /\ [][DesktopNext]_desktopVars

-----------------------------------------------------------------------------
(* Types of the state, an operation under way included.                    *)
DesktopTypeOK ==
  /\ TypeOK
  /\ \A c \in Callers :
       operation[c].kind \in {"append", "finish", "complete"} => operation[c].event \in Event

(* Without row locks the unique keys still make a Run end once: a racing   *)
(* append, finish, completion or recovery loses its number and rolls back. *)
DesktopTerminalOnce == TerminalOnce /\ Contiguous /\ IdsUnique

(* One Run of a scope at a time: completions still form a serial history,  *)
(* although nothing compares a version when it is written.                 *)
DesktopImplementsScopeHistory == Abstract!Spec

(* What the documentation says of every context commit: it compares the    *)
(* expected version in a lock or transaction, and a conflict fails.        *)
ContextIsCas == ContextIsCompletedRuns
=============================================================================
