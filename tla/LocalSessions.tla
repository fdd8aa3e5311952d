--------------------------- MODULE LocalSessions ---------------------------
(***************************************************************************)
(* The command line host: several processes on one state directory, the    *)
(* operating-system lock of each session, the migration gate, the          *)
(* workspace version of a session, the Runs started in it, and what is     *)
(* left of them when a process dies.                                       *)
(*                                                                         *)
(*   agent_cli/sessions.py            SessionController                    *)
(*   agent_adapters/storage/session_lock.py, migration.py, sqlite.py       *)
(*                                                                         *)
(* One action is one step that another process can come before or after:   *)
(* a lock taken or refused, a transaction, or the death of a process.      *)
(* Locks never wait (LOCK_NB): who does not get one is told so.            *)
(***************************************************************************)
EXTENDS Integers, FiniteSets

CONSTANTS
    Procs,          \* processes of the command line host
    Sessions,       \* identifiers of sessions
    Runs,           \* identifiers of Runs; their number is a bound
    MaxVersion,     \* bound: workspace changes of a session
    None            \* no process, no session, no Run

ASSUME SessionsAssumption ==
    /\ None \notin Procs \cup Sessions \cup Runs
    /\ MaxVersion \in Nat

VARIABLES
    schema,     \* "old" until a process has migrated the database
    rows,       \* the sessions that have a row
    shown,      \* those whose identifier a user has seen
    version,    \* workspace_version of a session
    state,      \* a Run: "none", "open", "ended" by its own process, "lost"
    scope,      \* the session of a Run
    startedAt,  \* the workspace version a Run was started with
    gate,       \* holder of the lock __migration__
    owner,      \* holder of the lock of a session
    phase,      \* what a process is doing
    session,    \* its current session, whose lock it keeps; None is a draft
    target,     \* the session it is activating or creating
    todo,       \* the sessions whose lock its migration still needs
    seen,       \* the version of its copy of the current session
    expected,   \* the version of the copy it activates
    live        \* the Run it executes

runs  == <<state, scope, startedAt>>
data  == <<schema, rows, shown, version, state, scope, startedAt>>
locks == <<gate, owner>>
procs == <<phase, session, target, todo, seen, expected, live>>
vars  == <<schema, rows, shown, version, state, scope, startedAt, gate, owner,
           phase, session, target, todo, seen, expected, live>>

Phases == {"down", "opening", "migrating", "idle", "asking", "entering",
           "locked", "resolved", "creating", "filling", "running"}

TypeOK ==
    /\ schema \in {"old", "new"}
    /\ rows \in SUBSET Sessions
    /\ shown \in SUBSET Sessions
    /\ version \in [Sessions -> Nat]
    /\ state \in [Runs -> {"none", "open", "ended", "lost"}]
    /\ scope \in [Runs -> Sessions \cup {None}]
    /\ startedAt \in [Runs -> Nat]
    /\ gate \in Procs \cup {None}
    /\ owner \in [Sessions -> Procs \cup {None}]
    /\ phase \in [Procs -> Phases]
    /\ session \in [Procs -> Sessions \cup {None}]
    /\ target \in [Procs -> Sessions \cup {None}]
    /\ todo \in [Procs -> SUBSET Sessions]
    /\ seen \in [Procs -> Nat]
    /\ expected \in [Procs -> Nat]
    /\ live \in [Procs -> Runs \cup {None}]

(* An empty directory, or one an older client has left or is still using:  *)
(* it opened the database before, with its old schema, and takes the same  *)
(* locks (migration.py:51).                                                *)
Init ==
    /\ schema \in {"old", "new"}
    /\ rows \in SUBSET Sessions
    /\ schema = "new" => rows = {}
    /\ shown = rows
    /\ version = [s \in Sessions |-> 0]
    /\ state = [r \in Runs |-> "none"]
    /\ scope = [r \in Runs |-> None]
    /\ startedAt = [r \in Runs |-> 0]
    /\ gate = None
    /\ owner = [s \in Sessions |-> None]
    /\ phase \in [Procs -> {"down", "idle"}]
    /\ schema = "new" => \A p \in Procs : phase[p] = "down"
    /\ session = [p \in Procs |-> None]
    /\ target = [p \in Procs |-> None]
    /\ todo = [p \in Procs |-> {}]
    /\ seen = [p \in Procs |-> 0]
    /\ expected = [p \in Procs |-> 0]
    /\ live = [p \in Procs |-> None]

-----------------------------------------------------------------------------
(* Helpers                                                                 *)

OpenRuns(s) == {r \in Runs : scope[r] = s /\ state[r] = "open"}

(* The locks of sessions a process holds.                                  *)
Held(p) == {s \in Sessions : owner[s] = p}

Freed(set) == [s \in Sessions |-> IF s \in set THEN None ELSE owner[s]]

GateFreed(p) == IF gate = p THEN None ELSE gate

Becomes(p, next) == phase' = [phase EXCEPT ![p] = next]

-----------------------------------------------------------------------------
(* Opening the database, and migrating it                                  *)

(* SQLiteStore keeps the gate while it initializes. A process that finds   *)
(* it taken ends with SessionBusyError: it stays down.                     *)
(* The sessions to lock are listed when the migration begins; one that an  *)
(* older client adds later is not among them.                              *)
Open(p) ==
    /\ phase[p] = "down"
    /\ gate = None
    /\ gate' = p
    /\ Becomes(p, IF schema = "old" THEN "migrating" ELSE "opening")
    /\ todo' = [todo EXCEPT ![p] = IF schema = "old" THEN rows ELSE {}]
    /\ UNCHANGED <<data, owner, session, target, seen, expected, live>>

Opened(p) ==
    /\ phase[p] = "opening"
    /\ gate' = None
    /\ Becomes(p, "idle")
    /\ UNCHANGED <<data, owner, session, target, todo, seen, expected, live>>

\* Mutant: a session in use is passed over.
MutantMigrationLocks(p, s) ==
    /\ phase[p] = "migrating"
    /\ s \in todo[p]
    /\ owner' = IF owner[s] = None THEN [owner EXCEPT ![s] = p] ELSE owner
    /\ todo' = [todo EXCEPT ![p] = @ \ {s}]
    /\ UNCHANGED <<data, gate, phase, session, target, seen, expected, live>>

MigrationLocks(p, s) ==
    /\ phase[p] = "migrating"
    /\ s \in todo[p]
    /\ owner[s] = None
    /\ owner' = [owner EXCEPT ![s] = p]
    /\ todo' = [todo EXCEPT ![p] = @ \ {s}]
    /\ UNCHANGED <<data, gate, phase, session, target, seen, expected, live>>

(* A session is in use: the locks are given back and the process ends.     *)
MigrationRefused(p) ==
    /\ phase[p] = "migrating"
    /\ \E s \in todo[p] : owner[s] # None
    /\ owner' = Freed(Held(p))
    /\ gate' = None
    /\ Becomes(p, "down")
    /\ todo' = [todo EXCEPT ![p] = {}]
    /\ UNCHANGED <<data, session, target, seen, expected, live>>

(* The backup and one transaction; then the locks and the gate are free.   *)
MigrationCommits(p) ==
    /\ phase[p] = "migrating"
    /\ todo[p] = {}
    /\ schema' = "new"
    /\ owner' = Freed(Held(p))
    /\ gate' = None
    /\ Becomes(p, "idle")
    /\ UNCHANGED <<rows, shown, version, runs, session, target, todo, seen, expected, live>>

-----------------------------------------------------------------------------
(* Taking the lock of a session                                            *)

(* activate() of another session than the current one: first the gate,     *)
(* then the lock, then the gate is given back.                             *)
Activate(p, s) ==
    /\ phase[p] = "idle"
    /\ s \in shown
    /\ target' = [target EXCEPT ![p] = s]
    /\ Becomes(p, IF s = session[p] THEN "locked" ELSE "asking")
    /\ UNCHANGED <<data, locks, session, todo, seen, expected, live>>

(* materialize(): the first prompt of a draft inserts a session and then   *)
(* takes its lock.                                                         *)
Materialize(p, s) ==
    /\ phase[p] = "idle"
    /\ session[p] = None
    /\ s \notin rows
    /\ rows' = rows \cup {s}
    /\ target' = [target EXCEPT ![p] = s]
    /\ Becomes(p, "creating")
    /\ UNCHANGED <<schema, shown, version, runs, locks, session, todo, seen, expected, live>>

TakeGate(p) ==
    /\ phase[p] \in {"asking", "creating"}
    /\ gate = None
    /\ gate' = p
    /\ Becomes(p, IF phase[p] = "asking" THEN "entering" ELSE "filling")
    /\ UNCHANGED <<data, owner, session, target, todo, seen, expected, live>>

(* SessionBusyError, from the gate or from the lock. The current session   *)
(* and its lock stay what they are.                                        *)
\* Mutant: the lock of the current session is given back too.
MutantBusy(p) ==
    /\ \/ phase[p] \in {"asking", "creating"} /\ gate # None
       \/ phase[p] \in {"entering", "filling"} /\ owner[target[p]] # None
    /\ gate' = GateFreed(p)
    /\ owner' = Freed(Held(p))
    /\ Becomes(p, "idle")
    /\ target' = [target EXCEPT ![p] = None]
    /\ UNCHANGED <<data, session, todo, seen, expected, live>>

Busy(p) ==
    /\ \/ phase[p] \in {"asking", "creating"} /\ gate # None
       \/ phase[p] \in {"entering", "filling"} /\ owner[target[p]] # None
    /\ gate' = GateFreed(p)
    /\ Becomes(p, "idle")
    /\ target' = [target EXCEPT ![p] = None]
    /\ UNCHANGED <<data, owner, session, todo, seen, expected, live>>

TakeSession(p) ==
    /\ phase[p] = "entering"
    /\ owner[target[p]] = None
    /\ owner' = [owner EXCEPT ![target[p]] = p]
    /\ gate' = None
    /\ Becomes(p, "locked")
    /\ UNCHANGED <<data, session, target, todo, seen, expected, live>>

TakeCreated(p) ==
    /\ phase[p] = "filling"
    /\ owner[target[p]] = None
    /\ owner' = [owner EXCEPT ![target[p]] = p]
    /\ gate' = None
    /\ shown' = shown \cup {target[p]}
    /\ session' = [session EXCEPT ![p] = target[p]]
    /\ target' = [target EXCEPT ![p] = None]
    /\ seen' = [seen EXCEPT ![p] = 0]
    /\ Becomes(p, "idle")
    /\ UNCHANGED <<schema, rows, version, runs, todo, expected, live>>

-----------------------------------------------------------------------------
(* Activating a session whose lock is held                                 *)

(* The session is read again, its directories are checked and new ones     *)
(* are put to the user.                                                    *)
Resolve(p) ==
    /\ phase[p] = "locked"
    /\ expected' = [expected EXCEPT ![p] = version[target[p]]]
    /\ Becomes(p, "resolved")
    /\ UNCHANGED <<data, locks, session, target, todo, seen, live>>

(* recover_session() closes the open Runs one transaction after the other. *)
Recover(p, r) ==
    /\ phase[p] = "resolved"
    /\ r \in OpenRuns(target[p])
    /\ state' = [state EXCEPT ![r] = "lost"]
    /\ UNCHANGED <<schema, rows, shown, version, scope, startedAt, locks, procs>>

(* A directory is gone, the user declines, or a statement fails: the new   *)
(* lock is given back, the current session stays.                          *)
\* Mutant: the lock is given back although the session stays the current one.
MutantActivationFails(p) ==
    /\ phase[p] \in {"locked", "resolved"}
    /\ owner' = Freed({target[p]})
    /\ Becomes(p, "idle")
    /\ target' = [target EXCEPT ![p] = None]
    /\ UNCHANGED <<data, gate, session, todo, seen, expected, live>>

ActivationFails(p) ==
    /\ phase[p] \in {"locked", "resolved"}
    /\ owner' = IF target[p] = session[p] THEN owner ELSE Freed({target[p]})
    /\ Becomes(p, "idle")
    /\ target' = [target EXCEPT ![p] = None]
    /\ UNCHANGED <<data, gate, session, todo, seen, expected, live>>

(* update_workspace(): the compare-and-set and its refusals.               *)
Updatable(s, copy) == version[s] = copy /\ OpenRuns(s) = {}

VersionAfter(s, changed) ==
    [version EXCEPT ![s] = IF changed THEN @ + 1 ELSE @]

(* The workspace is saved, the session becomes the current one, and the    *)
(* lock of the former one is given back.                                   *)
\* Mutant: the copy read before the change becomes the current one.
MutantActivated(p, changed) ==
    /\ phase[p] = "resolved"
    /\ Updatable(target[p], expected[p])
    /\ changed => version[target[p]] < MaxVersion
    /\ version' = VersionAfter(target[p], changed)
    /\ seen' = [seen EXCEPT ![p] = expected[p]]
    /\ session' = [session EXCEPT ![p] = target[p]]
    /\ target' = [target EXCEPT ![p] = None]
    /\ owner' = IF target[p] = session[p] THEN owner ELSE Freed({session[p]})
    /\ Becomes(p, "idle")
    /\ UNCHANGED <<schema, rows, shown, runs, gate, todo, expected, live>>

Activated(p, changed) ==
    /\ phase[p] = "resolved"
    /\ Updatable(target[p], expected[p])
    /\ changed => version[target[p]] < MaxVersion
    /\ version' = VersionAfter(target[p], changed)
    /\ seen' = [seen EXCEPT ![p] = version'[target[p]]]
    /\ session' = [session EXCEPT ![p] = target[p]]
    /\ target' = [target EXCEPT ![p] = None]
    /\ owner' = IF target[p] = session[p] THEN owner ELSE Freed({session[p]})
    /\ Becomes(p, "idle")
    /\ UNCHANGED <<schema, rows, shown, runs, gate, todo, expected, live>>

(* configure() (/cd, /add-dir) in the current session.                     *)
Configure(p) ==
    /\ phase[p] = "idle"
    /\ session[p] # None
    /\ Updatable(session[p], seen[p])
    /\ version[session[p]] < MaxVersion
    /\ version' = VersionAfter(session[p], TRUE)
    /\ seen' = [seen EXCEPT ![p] = version'[session[p]]]
    /\ UNCHANGED <<schema, rows, shown, runs, locks, phase, session, target, todo, expected, live>>

(* new(): the lock is given back and the process has a draft again.        *)
New(p) ==
    /\ phase[p] = "idle"
    /\ session[p] # None
    /\ owner' = Freed({session[p]})
    /\ session' = [session EXCEPT ![p] = None]
    /\ UNCHANGED <<data, gate, phase, target, todo, seen, expected, live>>

-----------------------------------------------------------------------------
(* Runs, and the end of a process                                          *)

StartRun(p, r) ==
    /\ phase[p] = "idle"
    /\ session[p] # None
    /\ state[r] = "none"
    /\ state' = [state EXCEPT ![r] = "open"]
    /\ scope' = [scope EXCEPT ![r] = session[p]]
    /\ startedAt' = [startedAt EXCEPT ![r] = seen[p]]
    /\ live' = [live EXCEPT ![p] = r]
    /\ Becomes(p, "running")
    /\ UNCHANGED <<schema, rows, shown, version, locks, session, target, todo, seen, expected>>

(* The terminal transaction ends the Run unless somebody has closed it.    *)
RunEnds(p) ==
    /\ phase[p] = "running"
    /\ state' = [state EXCEPT ![live[p]] = IF @ = "open" THEN "ended" ELSE @]
    /\ live' = [live EXCEPT ![p] = None]
    /\ Becomes(p, "idle")
    /\ UNCHANGED <<schema, rows, shown, version, scope, startedAt, locks,
                   session, target, todo, seen, expected>>

(* The terminal transaction fails (the database is locked, the disk full): *)
(* the process goes on, the Run stays open.                                *)
RunLeftOpen(p) ==
    /\ phase[p] = "running"
    /\ live' = [live EXCEPT ![p] = None]
    /\ Becomes(p, "idle")
    /\ UNCHANGED <<data, locks, session, target, todo, seen, expected>>

(* A process ends or is killed, in any state: the system frees its locks   *)
(* and an open transaction is rolled back.                                 *)
Exit(p) ==
    /\ phase[p] # "down"
    /\ owner' = Freed(Held(p))
    /\ gate' = GateFreed(p)
    /\ Becomes(p, "down")
    /\ session' = [session EXCEPT ![p] = None]
    /\ target' = [target EXCEPT ![p] = None]
    /\ todo' = [todo EXCEPT ![p] = {}]
    /\ live' = [live EXCEPT ![p] = None]
    /\ UNCHANGED <<data, seen, expected>>

ProcessStep(p) ==
    \/ Open(p) \/ Opened(p) \/ MigrationRefused(p) \/ MigrationCommits(p)
    \/ TakeGate(p) \/ Busy(p) \/ TakeSession(p) \/ TakeCreated(p)
    \/ Resolve(p) \/ ActivationFails(p) \/ Configure(p) \/ New(p)
    \/ RunEnds(p) \/ RunLeftOpen(p) \/ Exit(p)
    \/ \E s \in Sessions : MigrationLocks(p, s) \/ Activate(p, s) \/ Materialize(p, s)
    \/ \E r \in Runs : Recover(p, r) \/ StartRun(p, r)
    \/ \E changed \in BOOLEAN : Activated(p, changed)

Next == \E p \in Procs : ProcessStep(p)

Spec == Init /\ [][Next]_vars

-----------------------------------------------------------------------------
(* Properties                                                              *)

(* Two processes never work in one session, whatever they refuse, abandon  *)
(* and give back on the way (sessions.py:155-286).                         *)
SessionsApart ==
    \A p, q \in Procs : p # q /\ session[p] # None => session[p] # session[q]

(* Recovery closes only the Runs of dead processes: nobody closes a Run    *)
(* that a process still executes, whoever activates the session, switches  *)
(* between sessions, crashes and starts again (sqlite.py:381, "Caller must *)
(* hold the session's OS lock").                                           *)
LiveRunsKept == \A p \in Procs : live[p] # None => state[live[p]] = "open"

(* A Run works in the place it was started for: the copy of the workspace  *)
(* its process had was the saved one, and the workspace does not change    *)
(* while the Run executes (sqlite.py:170).                                 *)
NoMoveUnderRun ==
    \A p \in Procs : live[p] # None => version[scope[live[p]]] = startedAt[live[p]]

(* When the schema changes no client works in a session, the sessions an   *)
(* older client added while the migration took its locks included          *)
(* (migration.py:50).                                                      *)
MigrationAlone ==
    [][schema' # schema =>
          /\ \A s \in Sessions : owner[s] # None => phase[owner[s]] = "migrating"
          /\ \A p \in Procs : session[p] = None /\ live[p] = None]_vars

(* "This session is already open in another process"                       *)
(* (session_lock.py:42): a process is told so only when it is.             *)
BusyIsTrue ==
    [][\A p \in Procs : Busy(p) => owner[target[p]] \notin {None, p}]_vars
=============================================================================
