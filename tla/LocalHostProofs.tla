-------------------------- MODULE LocalHostProofs --------------------------
(***************************************************************************)
(* Proofs about one host of Runs.                                          *)
(*                                                                         *)
(* LocalSessions, for any number of processes, sessions, Runs and          *)
(* workspace changes: nobody loses a live Run or the place it works in,    *)
(* and a migration finds nobody at work.  The properties hold because of   *)
(* what each lock protects in each phase of a process; the invariant says  *)
(* that, in five parts.                                                    *)
(*                                                                         *)
(* AgentLoop, for any agents, limits, budgets, histories and tool results. *)
(* Wherever a Run stops, the journal accounts for every operation a tool   *)
(* has executed: the argument is about the last event that names an        *)
(* operation.  A call is only executed after its start is in the journal,  *)
(* and nothing is appended for it before its result is known; so while it  *)
(* may act, that last event is its start, which is read as unknown.  The   *)
(* kernel's token count is the sum of what the agents report, and whoever  *)
(* reports to a full count ends.  And every prompt is whole: cutting       *)
(* it keeps a suffix of its messages that begins at the start of a turn,   *)
(* so no call loses its results and no result its call.                    *)
(***************************************************************************)
EXTENDS LocalSessions, AgentLoop, FiniteSetTheorems, SequenceTheorems,
        WellFoundedInduction, TLAPS

-----------------------------------------------------------------------------
(* The sessions of the host.                                               *)

(* A process holds the gate exactly while it opens the database, migrates  *)
(* it, or is about to take the lock of a session.                          *)
GateHeld ==
    \A p \in Procs :
        gate = p <=> phase[p] \in {"opening", "migrating", "entering", "filling"}

(* A current session is locked by its process, which knows its version;    *)
(* and the session a process activates is locked before it is read.        *)
PlaceLocked ==
    \A p \in Procs :
        /\ session[p] # None =>
               /\ owner[session[p]] = p
               /\ session[p] \in shown
               /\ seen[p] = version[session[p]]
        /\ phase[p] \in {"down", "opening", "migrating"} => session[p] = None
        /\ phase[p] \in {"asking", "entering", "locked", "resolved"} => target[p] \in shown
        /\ phase[p] \in {"locked", "resolved"} => owner[target[p]] = p
        /\ phase[p] \in {"creating", "filling"} => target[p] \in rows \ shown

(* Only sessions with a row are locked, an identifier is shown after its   *)
(* row exists, and a session nobody has seen has never changed its place.  *)
(* Two processes never create the same session.                            *)
RowsFirst ==
    /\ shown \subseteq rows
    /\ \A s \in Sessions : owner[s] # None => s \in rows
    /\ \A s \in Sessions \ shown : version[s] = 0
    /\ \A p, q \in Procs :
           /\ phase[p] \in {"creating", "filling"}
           /\ phase[q] \in {"creating", "filling"}
           /\ target[p] = target[q]
           => p = q

(* A Run that is executed is open, belongs to the current session of its   *)
(* process and was started at the version the session still has.           *)
WorkInPlace ==
    \A p \in Procs :
        /\ live[p] # None <=> phase[p] = "running"
        /\ live[p] # None =>
               /\ session[p] # None
               /\ state[live[p]] = "open"
               /\ scope[live[p]] = session[p]
               /\ startedAt[live[p]] = version[session[p]]

(* What a migration need not lock any more, nobody else has locked.        *)
MigrationClears ==
    \A p \in Procs : phase[p] = "migrating" =>
        /\ todo[p] \subseteq rows
        /\ \A s \in Sessions \ todo[p] : owner[s] \in {p, None}

LockInv == /\ TypeOK /\ GateHeld /\ PlaceLocked /\ RowsFirst /\ WorkInPlace
           /\ MigrationClears

(* The types: a target is a session whenever it becomes the current one.   *)
LEMMA TypeOKStep ==
  ASSUME LockInv, NEW p \in Procs, ProcessStep(p)
  PROVE  TypeOK'
<1> USE SessionsAssumption DEF LockInv
<1>1. ASSUME Open(p) PROVE TypeOK'
  BY <1>1 DEF TypeOK, Phases, Open, data, Becomes
<1>2. ASSUME Opened(p) PROVE TypeOK'
  BY <1>2 DEF TypeOK, Phases, Opened, data, Becomes
<1>3. ASSUME MigrationRefused(p) PROVE TypeOK'
  BY <1>3 DEF TypeOK, Phases, MigrationRefused, data, Becomes, Freed, Held
<1>4. ASSUME MigrationCommits(p) PROVE TypeOK'
  BY <1>4 DEF TypeOK, Phases, MigrationCommits, runs, Becomes, Freed, Held
<1>5. ASSUME TakeGate(p) PROVE TypeOK'
  BY <1>5 DEF TypeOK, Phases, TakeGate, data, Becomes
<1>6. ASSUME Busy(p) PROVE TypeOK'
  BY <1>6 DEF TypeOK, Phases, Busy, data, Becomes, GateFreed
<1>7. ASSUME TakeSession(p) PROVE TypeOK'
  BY <1>7 DEF TypeOK, Phases, TakeSession, data, Becomes
<1>8. ASSUME TakeCreated(p) PROVE TypeOK'
  BY <1>8 DEF TypeOK, PlaceLocked, Phases, TakeCreated, runs, Becomes
<1>9. ASSUME Resolve(p) PROVE TypeOK'
  BY <1>9 DEF TypeOK, PlaceLocked, Phases, Resolve, data, locks, Becomes
<1>10. ASSUME ActivationFails(p) PROVE TypeOK'
  BY <1>10 DEF TypeOK, Phases, ActivationFails, data, Becomes, Freed
<1>11. ASSUME Configure(p) PROVE TypeOK'
  BY <1>11 DEF TypeOK, Phases, Configure, runs, locks, Updatable,
      VersionAfter
<1>12. ASSUME New(p) PROVE TypeOK'
  BY <1>12 DEF TypeOK, Phases, New, data, Freed
<1>13. ASSUME RunEnds(p) PROVE TypeOK'
  BY <1>13 DEF TypeOK, Phases, RunEnds, locks, Becomes
<1>14. ASSUME RunLeftOpen(p) PROVE TypeOK'
  BY <1>14 DEF TypeOK, Phases, RunLeftOpen, data, locks, Becomes
<1>15. ASSUME Exit(p) PROVE TypeOK'
  BY <1>15 DEF TypeOK, Phases, Exit, data, Becomes, Freed, Held, GateFreed
<1>16. ASSUME NEW s \in Sessions, MigrationLocks(p, s) PROVE TypeOK'
  BY <1>16 DEF TypeOK, Phases, MigrationLocks, data
<1>17. ASSUME NEW s \in Sessions, Activate(p, s) PROVE TypeOK'
  BY <1>17 DEF TypeOK, Phases, Activate, data, locks, Becomes
<1>18. ASSUME NEW s \in Sessions, Materialize(p, s) PROVE TypeOK'
  BY <1>18 DEF TypeOK, Phases, Materialize, runs, locks, Becomes
<1>19. ASSUME NEW r \in Runs, Recover(p, r) PROVE TypeOK'
  BY <1>19 DEF TypeOK, Phases, Recover, locks, procs, OpenRuns
<1>20. ASSUME NEW r \in Runs, StartRun(p, r) PROVE TypeOK'
  BY <1>20 DEF TypeOK, Phases, StartRun, locks, Becomes
<1>21. ASSUME NEW changed \in BOOLEAN, Activated(p, changed) PROVE TypeOK'
  BY <1>21 DEF TypeOK, PlaceLocked, Phases, Activated, runs, Becomes, Freed,
      Updatable, VersionAfter
<1>22. QED
  BY <1>1, <1>2, <1>3, <1>4, <1>5, <1>6, <1>7, <1>8, <1>9, <1>10, <1>11,
      <1>12, <1>13, <1>14, <1>15, <1>16, <1>17, <1>18, <1>19, <1>20, <1>21
     DEF ProcessStep

(* The gate is taken only when it is free and given back with the phase.   *)
LEMMA GateHeldStep ==
  ASSUME LockInv, NEW p \in Procs, ProcessStep(p)
  PROVE  GateHeld'
<1> USE SessionsAssumption DEF LockInv
<1>1. CASE UNCHANGED <<gate, phase>>
  BY <1>1 DEF GateHeld
<1>2. ASSUME Open(p) PROVE GateHeld'
  BY <1>2 DEF GateHeld, TypeOK, Open, data, Becomes
<1>3. ASSUME Opened(p) PROVE GateHeld'
  BY <1>3 DEF GateHeld, TypeOK, Opened, data, Becomes
<1>4. ASSUME MigrationRefused(p) PROVE GateHeld'
  BY <1>4 DEF GateHeld, TypeOK, MigrationRefused, data, Becomes, Freed, Held
<1>5. ASSUME MigrationCommits(p) PROVE GateHeld'
  BY <1>5 DEF GateHeld, TypeOK, MigrationCommits, runs, Becomes, Freed, Held
<1>6. ASSUME TakeGate(p) PROVE GateHeld'
  BY <1>6 DEF GateHeld, TypeOK, TakeGate, data, Becomes
<1>7. ASSUME Busy(p) PROVE GateHeld'
  BY <1>7 DEF GateHeld, TypeOK, Busy, data, Becomes, GateFreed
<1>8. ASSUME TakeSession(p) PROVE GateHeld'
  BY <1>8 DEF GateHeld, TypeOK, TakeSession, data, Becomes
<1>9. ASSUME TakeCreated(p) PROVE GateHeld'
  BY <1>9 DEF GateHeld, TypeOK, TakeCreated, runs, Becomes
<1>10. ASSUME Resolve(p) PROVE GateHeld'
  BY <1>10 DEF GateHeld, Resolve, data, locks, Becomes
<1>11. ASSUME ActivationFails(p) PROVE GateHeld'
  BY <1>11 DEF GateHeld, ActivationFails, data, Becomes, Freed
<1>12. ASSUME RunEnds(p) PROVE GateHeld'
  BY <1>12 DEF GateHeld, RunEnds, locks, Becomes
<1>13. ASSUME RunLeftOpen(p) PROVE GateHeld'
  BY <1>13 DEF GateHeld, RunLeftOpen, data, locks, Becomes
<1>14. ASSUME Exit(p) PROVE GateHeld'
  BY <1>14 DEF GateHeld, TypeOK, Exit, data, Becomes, Freed, Held, GateFreed
<1>15. ASSUME NEW s \in Sessions, Activate(p, s) PROVE GateHeld'
  BY <1>15 DEF GateHeld, Activate, data, locks, Becomes
<1>16. ASSUME NEW s \in Sessions, Materialize(p, s) PROVE GateHeld'
  BY <1>16 DEF GateHeld, Materialize, runs, locks, Becomes
<1>17. ASSUME NEW r \in Runs, StartRun(p, r) PROVE GateHeld'
  BY <1>17 DEF GateHeld, StartRun, locks, Becomes
<1>18. ASSUME NEW changed \in BOOLEAN, Activated(p, changed) PROVE GateHeld'
  BY <1>18 DEF GateHeld, Activated, runs, Becomes, Freed, Updatable,
      VersionAfter
<1>19. QED
  BY <1>1, <1>2, <1>3, <1>4, <1>5, <1>6, <1>7, <1>8, <1>9, <1>10, <1>11,
      <1>12, <1>13, <1>14, <1>15, <1>16, <1>17, <1>18
     DEF ProcessStep, Configure, runs, locks, New, data, MigrationLocks,
      Recover, procs

(* A lock is given back only by its holder, never the one of the session   *)
(* that stays current, and a version changes only under the lock.          *)
LEMMA PlaceLockedStep ==
  ASSUME LockInv, NEW p \in Procs, ProcessStep(p)
  PROVE  PlaceLocked'
<1> USE SessionsAssumption DEF LockInv
<1>1. CASE UNCHANGED <<session, owner, shown, seen, version, phase, target, rows>>
  BY <1>1 DEF PlaceLocked
<1>2. ASSUME Open(p) PROVE PlaceLocked'
  BY <1>2 DEF PlaceLocked, Open, data, Becomes
<1>3. ASSUME Opened(p) PROVE PlaceLocked'
  BY <1>3 DEF PlaceLocked, Opened, data, Becomes
<1>4. ASSUME MigrationRefused(p) PROVE PlaceLocked'
  BY <1>4 DEF PlaceLocked, TypeOK, MigrationRefused, data, Becomes, Freed,
      Held
<1>5. ASSUME MigrationCommits(p) PROVE PlaceLocked'
  BY <1>5 DEF PlaceLocked, TypeOK, MigrationCommits, runs, Becomes, Freed,
      Held
<1>6. ASSUME TakeGate(p) PROVE PlaceLocked'
  BY <1>6 DEF PlaceLocked, TakeGate, data, Becomes
<1>7. ASSUME Busy(p) PROVE PlaceLocked'
  BY <1>7 DEF PlaceLocked, TypeOK, Busy, data, Becomes, GateFreed
<1>8. ASSUME TakeSession(p) PROVE PlaceLocked'
  BY <1>8 DEF PlaceLocked, TypeOK, TakeSession, data, Becomes
<1>9. ASSUME TakeCreated(p) PROVE PlaceLocked'
  BY <1>9 DEF PlaceLocked, TypeOK, RowsFirst, TakeCreated, runs, Becomes
<1>10. ASSUME Resolve(p) PROVE PlaceLocked'
  BY <1>10 DEF PlaceLocked, Resolve, data, locks, Becomes
<1>11. ASSUME ActivationFails(p) PROVE PlaceLocked'
  BY <1>11 DEF PlaceLocked, TypeOK, ActivationFails, data, Becomes, Freed
<1>12. ASSUME Configure(p) PROVE PlaceLocked'
  BY <1>12 DEF PlaceLocked, TypeOK, Configure, runs, locks, Updatable,
      VersionAfter
<1>13. ASSUME New(p) PROVE PlaceLocked'
  BY <1>13 DEF PlaceLocked, TypeOK, New, data, Freed
<1>14. ASSUME RunEnds(p) PROVE PlaceLocked'
  BY <1>14 DEF PlaceLocked, RunEnds, locks, Becomes
<1>15. ASSUME RunLeftOpen(p) PROVE PlaceLocked'
  BY <1>15 DEF PlaceLocked, RunLeftOpen, data, locks, Becomes
<1>16. ASSUME Exit(p) PROVE PlaceLocked'
  BY <1>16 DEF PlaceLocked, TypeOK, Exit, data, Becomes, Freed, Held,
      GateFreed
<1>17. ASSUME NEW s \in Sessions, MigrationLocks(p, s) PROVE PlaceLocked'
  BY <1>17 DEF PlaceLocked, MigrationLocks, data
<1>18. ASSUME NEW s \in Sessions, Activate(p, s) PROVE PlaceLocked'
  BY <1>18 DEF PlaceLocked, TypeOK, Activate, data, locks, Becomes
<1>19. ASSUME NEW s \in Sessions, Materialize(p, s) PROVE PlaceLocked'
  BY <1>19 DEF PlaceLocked, TypeOK, RowsFirst, Materialize, runs, locks,
      Becomes
<1>20. ASSUME NEW r \in Runs, StartRun(p, r) PROVE PlaceLocked'
  BY <1>20 DEF PlaceLocked, StartRun, locks, Becomes
<1>21. ASSUME NEW changed \in BOOLEAN, Activated(p, changed) PROVE PlaceLocked'
  BY <1>21 DEF PlaceLocked, TypeOK, Activated, runs, Becomes, Freed,
      Updatable, VersionAfter
<1>22. QED
  BY <1>1, <1>2, <1>3, <1>4, <1>5, <1>6, <1>7, <1>8, <1>9, <1>10, <1>11,
      <1>12, <1>13, <1>14, <1>15, <1>16, <1>17, <1>18, <1>19, <1>20, <1>21
     DEF ProcessStep, Recover, locks, procs

(* A new session has a row nobody else created, and is locked before it is *)
(* shown.                                                                  *)
LEMMA RowsFirstStep ==
  ASSUME LockInv, NEW p \in Procs, ProcessStep(p)
  PROVE  RowsFirst'
<1> USE SessionsAssumption DEF LockInv
<1>1. CASE UNCHANGED <<shown, rows, owner, version, phase, target>>
  BY <1>1 DEF RowsFirst
<1>2. ASSUME Open(p) PROVE RowsFirst'
  BY <1>2 DEF RowsFirst, Open, data, Becomes
<1>3. ASSUME Opened(p) PROVE RowsFirst'
  BY <1>3 DEF RowsFirst, Opened, data, Becomes
<1>4. ASSUME MigrationRefused(p) PROVE RowsFirst'
  BY <1>4 DEF RowsFirst, MigrationRefused, data, Becomes, Freed, Held
<1>5. ASSUME MigrationCommits(p) PROVE RowsFirst'
  BY <1>5 DEF RowsFirst, MigrationCommits, runs, Becomes, Freed, Held
<1>6. ASSUME TakeGate(p) PROVE RowsFirst'
  BY <1>6 DEF RowsFirst, TakeGate, data, Becomes
<1>7. ASSUME Busy(p) PROVE RowsFirst'
  BY <1>7 DEF RowsFirst, TypeOK, Busy, data, Becomes, GateFreed
<1>8. ASSUME TakeSession(p) PROVE RowsFirst'
  BY <1>8 DEF RowsFirst, PlaceLocked, TakeSession, data, Becomes
<1>9. ASSUME TakeCreated(p) PROVE RowsFirst'
  BY <1>9 DEF RowsFirst, TypeOK, PlaceLocked, TakeCreated, runs, Becomes
<1>10. ASSUME Resolve(p) PROVE RowsFirst'
  BY <1>10 DEF RowsFirst, Resolve, data, locks, Becomes
<1>11. ASSUME ActivationFails(p) PROVE RowsFirst'
  BY <1>11 DEF RowsFirst, ActivationFails, data, Becomes, Freed
<1>12. ASSUME Configure(p) PROVE RowsFirst'
  BY <1>12 DEF RowsFirst, PlaceLocked, Configure, runs, locks, Updatable,
      VersionAfter
<1>13. ASSUME New(p) PROVE RowsFirst'
  BY <1>13 DEF RowsFirst, New, data, Freed
<1>14. ASSUME RunEnds(p) PROVE RowsFirst'
  BY <1>14 DEF RowsFirst, RunEnds, locks, Becomes
<1>15. ASSUME RunLeftOpen(p) PROVE RowsFirst'
  BY <1>15 DEF RowsFirst, RunLeftOpen, data, locks, Becomes
<1>16. ASSUME Exit(p) PROVE RowsFirst'
  BY <1>16 DEF RowsFirst, TypeOK, Exit, data, Becomes, Freed, Held,
      GateFreed
<1>17. ASSUME NEW s \in Sessions, MigrationLocks(p, s) PROVE RowsFirst'
  BY <1>17 DEF RowsFirst, MigrationClears, MigrationLocks, data
<1>18. ASSUME NEW s \in Sessions, Activate(p, s) PROVE RowsFirst'
  BY <1>18 DEF RowsFirst, Activate, data, locks, Becomes
<1>19. ASSUME NEW s \in Sessions, Materialize(p, s) PROVE RowsFirst'
  BY <1>19 DEF RowsFirst, TypeOK, PlaceLocked, Materialize, runs, locks,
      Becomes
<1>20. ASSUME NEW r \in Runs, StartRun(p, r) PROVE RowsFirst'
  BY <1>20 DEF RowsFirst, StartRun, locks, Becomes
<1>21. ASSUME NEW changed \in BOOLEAN, Activated(p, changed) PROVE RowsFirst'
  BY <1>21 DEF RowsFirst, PlaceLocked, Activated, runs, Becomes, Freed,
      Updatable, VersionAfter
<1>22. QED
  BY <1>1, <1>2, <1>3, <1>4, <1>5, <1>6, <1>7, <1>8, <1>9, <1>10, <1>11,
      <1>12, <1>13, <1>14, <1>15, <1>16, <1>17, <1>18, <1>19, <1>20, <1>21
     DEF ProcessStep, Recover, locks, procs

(* Recovery and workspace changes need the lock, which the process that    *)
(* executes a Run of the session holds.                                    *)
LEMMA WorkInPlaceStep ==
  ASSUME LockInv, NEW p \in Procs, ProcessStep(p)
  PROVE  WorkInPlace'
<1> USE SessionsAssumption DEF LockInv
<1>1. CASE UNCHANGED <<live, phase, session, state, scope, startedAt, version>>
  BY <1>1 DEF WorkInPlace
<1>2. ASSUME Open(p) PROVE WorkInPlace'
  BY <1>2 DEF WorkInPlace, Open, data, Becomes
<1>3. ASSUME Opened(p) PROVE WorkInPlace'
  BY <1>3 DEF WorkInPlace, Opened, data, Becomes
<1>4. ASSUME MigrationRefused(p) PROVE WorkInPlace'
  BY <1>4 DEF WorkInPlace, MigrationRefused, data, Becomes, Freed, Held
<1>5. ASSUME MigrationCommits(p) PROVE WorkInPlace'
  BY <1>5 DEF WorkInPlace, MigrationCommits, runs, Becomes, Freed, Held
<1>6. ASSUME TakeGate(p) PROVE WorkInPlace'
  BY <1>6 DEF WorkInPlace, TakeGate, data, Becomes
<1>7. ASSUME Busy(p) PROVE WorkInPlace'
  BY <1>7 DEF WorkInPlace, Busy, data, Becomes, GateFreed
<1>8. ASSUME TakeSession(p) PROVE WorkInPlace'
  BY <1>8 DEF WorkInPlace, TakeSession, data, Becomes
<1>9. ASSUME TakeCreated(p) PROVE WorkInPlace'
  BY <1>9 DEF WorkInPlace, TakeCreated, runs, Becomes
<1>10. ASSUME Resolve(p) PROVE WorkInPlace'
  BY <1>10 DEF WorkInPlace, Resolve, data, locks, Becomes
<1>11. ASSUME ActivationFails(p) PROVE WorkInPlace'
  BY <1>11 DEF WorkInPlace, ActivationFails, data, Becomes, Freed
<1>12. ASSUME Configure(p) PROVE WorkInPlace'
  BY <1>12 DEF WorkInPlace, PlaceLocked, Configure, runs, locks, Updatable,
      VersionAfter
<1>13. ASSUME New(p) PROVE WorkInPlace'
  BY <1>13 DEF WorkInPlace, New, data, Freed
<1>14. ASSUME RunEnds(p) PROVE WorkInPlace'
  BY <1>14 DEF WorkInPlace, TypeOK, PlaceLocked, RunEnds, locks, Becomes
<1>15. ASSUME RunLeftOpen(p) PROVE WorkInPlace'
  BY <1>15 DEF WorkInPlace, TypeOK, RunLeftOpen, data, locks, Becomes
<1>16. ASSUME Exit(p) PROVE WorkInPlace'
  BY <1>16 DEF WorkInPlace, TypeOK, Exit, data, Becomes, Freed, Held,
      GateFreed
<1>17. ASSUME NEW s \in Sessions, Activate(p, s) PROVE WorkInPlace'
  BY <1>17 DEF WorkInPlace, Activate, data, locks, Becomes
<1>18. ASSUME NEW s \in Sessions, Materialize(p, s) PROVE WorkInPlace'
  BY <1>18 DEF WorkInPlace, Materialize, runs, locks, Becomes
<1>19. ASSUME NEW r \in Runs, Recover(p, r) PROVE WorkInPlace'
  BY <1>19 DEF WorkInPlace, PlaceLocked, Recover, locks, procs, OpenRuns
<1>20. ASSUME NEW r \in Runs, StartRun(p, r) PROVE WorkInPlace'
  BY <1>20 DEF WorkInPlace, TypeOK, PlaceLocked, StartRun, locks, Becomes
<1>21. ASSUME NEW changed \in BOOLEAN, Activated(p, changed) PROVE WorkInPlace'
  BY <1>21 DEF WorkInPlace, PlaceLocked, Activated, runs, Becomes, Freed,
      Updatable, VersionAfter
<1>22. QED
  BY <1>1, <1>2, <1>3, <1>4, <1>5, <1>6, <1>7, <1>8, <1>9, <1>10, <1>11,
      <1>12, <1>13, <1>14, <1>15, <1>16, <1>17, <1>18, <1>19, <1>20, <1>21
     DEF ProcessStep, MigrationLocks, data

(* While a process migrates it holds the gate, without which nobody locks a *)
(* session.                                                                *)
LEMMA MigrationClearsStep ==
  ASSUME LockInv, NEW p \in Procs, ProcessStep(p)
  PROVE  MigrationClears'
<1> USE SessionsAssumption DEF LockInv
<1>1. CASE UNCHANGED <<phase, todo, rows, owner>>
  BY <1>1 DEF MigrationClears
<1>2. ASSUME Open(p) PROVE MigrationClears'
  BY <1>2 DEF MigrationClears, TypeOK, RowsFirst, Open, data, Becomes
<1>3. ASSUME Opened(p) PROVE MigrationClears'
  BY <1>3 DEF MigrationClears, Opened, data, Becomes
<1>4. ASSUME MigrationRefused(p) PROVE MigrationClears'
  BY <1>4 DEF MigrationClears, TypeOK, MigrationRefused, data, Becomes,
      Freed, Held
<1>5. ASSUME MigrationCommits(p) PROVE MigrationClears'
  BY <1>5 DEF MigrationClears, MigrationCommits, runs, Becomes, Freed, Held
<1>6. ASSUME TakeGate(p) PROVE MigrationClears'
  BY <1>6 DEF MigrationClears, TakeGate, data, Becomes
<1>7. ASSUME Busy(p) PROVE MigrationClears'
  BY <1>7 DEF MigrationClears, Busy, data, Becomes, GateFreed
<1>8. ASSUME TakeSession(p) PROVE MigrationClears'
  BY <1>8 DEF MigrationClears, GateHeld, TakeSession, data, Becomes
<1>9. ASSUME TakeCreated(p) PROVE MigrationClears'
  BY <1>9 DEF MigrationClears, GateHeld, TakeCreated, runs, Becomes
<1>10. ASSUME Resolve(p) PROVE MigrationClears'
  BY <1>10 DEF MigrationClears, Resolve, data, locks, Becomes
<1>11. ASSUME ActivationFails(p) PROVE MigrationClears'
  BY <1>11 DEF MigrationClears, ActivationFails, data, Becomes, Freed
<1>12. ASSUME New(p) PROVE MigrationClears'
  BY <1>12 DEF MigrationClears, New, data, Freed
<1>13. ASSUME RunEnds(p) PROVE MigrationClears'
  BY <1>13 DEF MigrationClears, RunEnds, locks, Becomes
<1>14. ASSUME RunLeftOpen(p) PROVE MigrationClears'
  BY <1>14 DEF MigrationClears, RunLeftOpen, data, locks, Becomes
<1>15. ASSUME Exit(p) PROVE MigrationClears'
  BY <1>15 DEF MigrationClears, TypeOK, Exit, data, Becomes, Freed, Held,
      GateFreed
<1>16. ASSUME NEW s \in Sessions, MigrationLocks(p, s) PROVE MigrationClears'
  BY <1>16 DEF MigrationClears, GateHeld, MigrationLocks, data
<1>17. ASSUME NEW s \in Sessions, Activate(p, s) PROVE MigrationClears'
  BY <1>17 DEF MigrationClears, Activate, data, locks, Becomes
<1>18. ASSUME NEW s \in Sessions, Materialize(p, s) PROVE MigrationClears'
  BY <1>18 DEF MigrationClears, Materialize, runs, locks, Becomes
<1>19. ASSUME NEW r \in Runs, StartRun(p, r) PROVE MigrationClears'
  BY <1>19 DEF MigrationClears, StartRun, locks, Becomes
<1>20. ASSUME NEW changed \in BOOLEAN, Activated(p, changed) PROVE MigrationClears'
  BY <1>20 DEF MigrationClears, Activated, runs, Becomes, Freed, Updatable,
      VersionAfter
<1>21. QED
  BY <1>1, <1>2, <1>3, <1>4, <1>5, <1>6, <1>7, <1>8, <1>9, <1>10, <1>11,
      <1>12, <1>13, <1>14, <1>15, <1>16, <1>17, <1>18, <1>19, <1>20
     DEF ProcessStep, Configure, runs, locks, Recover, procs

-----------------------------------------------------------------------------
(* The invariant and what follows from it                                  *)

LEMMA LockInvInit == Init => LockInv
BY SessionsAssumption DEF Init, LockInv, TypeOK, Phases, GateHeld, PlaceLocked,
   RowsFirst, WorkInPlace, MigrationClears

LEMMA LockInvStep == LockInv /\ [Next]_vars => LockInv'
<1> SUFFICES ASSUME LockInv, [Next]_vars PROVE LockInv'
  OBVIOUS
<1>1. CASE Next
  <2>1. PICK p \in Procs : ProcessStep(p)
    BY <1>1 DEF Next
  <2>2. QED
    BY <2>1, TypeOKStep, GateHeldStep, PlaceLockedStep, RowsFirstStep,
       WorkInPlaceStep, MigrationClearsStep DEF LockInv
<1>2. CASE UNCHANGED vars
  BY <1>2 DEF vars, LockInv, TypeOK, GateHeld, PlaceLocked, RowsFirst,
     WorkInPlace, MigrationClears
<1>3. QED
  BY <1>1, <1>2

(* Locks, copies, phases and rows agree in every reachable state, for any  *)
(* number of processes and sessions (sessions.py:155-286).                 *)
THEOREM LocksAreSound == Spec => []LockInv
BY LockInvInit, LockInvStep, PTL DEF Spec

(* Two processes never have the same current session: both would hold its  *)
(* lock.                                                                   *)
THEOREM SessionsStayApart == Spec => []SessionsApart
<1>1. LockInv => SessionsApart
  BY SessionsAssumption DEF LockInv, PlaceLocked, SessionsApart
<1>2. QED
  BY <1>1, LocksAreSound, PTL

(* Recovery never closes a Run that is still executed (sqlite.py:381).     *)
THEOREM LiveRunsAreKept == Spec => []LiveRunsKept
<1>1. LockInv => LiveRunsKept
  BY DEF LockInv, WorkInPlace, LiveRunsKept
<1>2. QED
  BY <1>1, LocksAreSound, PTL

(* The workspace of a session does not change while a Run works in it, and *)
(* the Run was started with the saved one (sqlite.py:170).                 *)
THEOREM RunsStayInPlace == Spec => []NoMoveUnderRun
<1>1. LockInv => NoMoveUnderRun
  BY DEF LockInv, WorkInPlace, NoMoveUnderRun
<1>2. QED
  BY <1>1, LocksAreSound, PTL

(* The schema changes only while nobody but the migrating process holds a  *)
(* session, and nobody works in one (migration.py:50).                     *)
THEOREM MigrationsAreAlone == Spec => MigrationAlone
<1> DEFINE Alone == /\ \A s \in Sessions : owner[s] # None => phase[owner[s]] = "migrating"
                    /\ \A p \in Procs : session[p] = None /\ live[p] = None
<1>1. LockInv /\ [Next]_vars => [schema' # schema => Alone]_vars
  <2> SUFFICES ASSUME LockInv, Next, schema' # schema PROVE Alone
    OBVIOUS
  <2>1. PICK p \in Procs : ProcessStep(p)
    BY DEF Next
  <2>2. MigrationCommits(p)
    BY <2>1 DEF ProcessStep, Open, Opened, MigrationRefused, TakeGate, Busy, TakeSession,
       TakeCreated, Resolve, ActivationFails, Configure, New, RunEnds, RunLeftOpen, Exit,
       MigrationLocks, Activate, Materialize, Recover, StartRun, Activated, data
  <2>3. phase[p] = "migrating" /\ todo[p] = {}
    BY <2>2 DEF MigrationCommits
  <2>4. \A s \in Sessions : owner[s] \in {p, None}
    BY <2>3 DEF LockInv, MigrationClears
  <2>5. session[p] = None
    BY <2>3 DEF LockInv, PlaceLocked
  <2>6. ASSUME NEW q \in Procs PROVE session[q] = None
    BY <2>4, <2>5, SessionsAssumption DEF LockInv, TypeOK, PlaceLocked
  <2>7. \A q \in Procs : live[q] = None
    BY <2>6 DEF LockInv, WorkInPlace
  <2>8. QED
    BY <2>3, <2>4, <2>6, <2>7
<1>2. QED
  BY <1>1, LocksAreSound, PTL DEF Spec, MigrationAlone

-----------------------------------------------------------------------------
(* The agents of one Run.                                                  *)

Kinds == {"tool_call", "tool_started", "tool_result"}
Entries == [kind : Kinds, ops : SUBSET (Nat \X Nat), ok : BOOLEAN]
FoundType ==
  [size : {1} \cup {r.size : r \in Results},
   records : {FALSE} \cup {r.records : r \in Results}, ok : BOOLEAN]
ReplyType == [cost : Nat, calls : Nat, how : {"stop", "length", "protocol"}]

Labels ==
  {"turn", "asking", "answered", "calls", "call", "started", "executing", "tells", "ended"}
Endings ==
  {"none", "model_turn_budget_exhausted", "context_budget_exhausted", "model_failed",
   "token_budget_exhausted", "stop", "length", "protocol", "report", "left_executing",
   "interrupted", "event_store_error"}

(* The types of what the argument reads.                                   *)
LogTypes ==
  /\ at \in [Agents -> Labels] /\ outcome \in [Agents -> Endings]
  /\ asked \in [Agents -> Nat] /\ call \in [Agents -> Nat]
  /\ reply \in [Agents -> ReplyType] /\ found \in [Agents -> FoundType]
  /\ log \in [Agents -> Seq(Entries)]
  /\ acted \in [Agents -> SUBSET (Nat \X Nat)]

Known(a, op) == Status(a, op) # "absent"
UnknownNow(a) == Status(a, Op(a)) = "unknown"

(* What is executed, or left executing, is named; what is completed was    *)
(* executed.                                                               *)
ActedKnown(a) == \A op \in acted[a] : Known(a, op)
CompletedActed(a) == \A op \in Nat \X Nat : Status(a, op) = "completed" => op \in acted[a]
StartedUnknown(a) == at[a] \in {"started", "executing"} => UnknownNow(a)
LeftUnknown(a) == outcome[a] = "left_executing" => UnknownNow(a) /\ at[a] = "ended"
FoundActed(a) == at[a] = "tells" /\ found[a].ok => Op(a) \in acted[a]

(* Among the events that name an operation one is the last.                *)
LastExists(a) == \A op \in Nat \X Nat :
  Naming(a, op) # {} => \E i \in Naming(a, op) : \A j \in Naming(a, op) : j <= i

Accounted(a) ==
  /\ LastExists(a)
  /\ ActedKnown(a) /\ CompletedActed(a) /\ StartedUnknown(a)
  /\ LeftUnknown(a) /\ FoundActed(a)

LoopInv == LogTypes /\ \A a \in Agents : Accounted(a)

-----------------------------------------------------------------------------
(* The greatest element of an interval's subset that holds its upper end.  *)
LEMMA GreatestIsLast ==
  ASSUME NEW n \in Nat, NEW S \in SUBSET (1 .. n), n \in S
  PROVE Greatest(S) = n
<1>1. \A j \in S : j <= n
  OBVIOUS
<1>2. \A i \in S : (\A j \in S : j <= i) => i = n
  OBVIOUS
<1> QED
  BY <1>1, <1>2 DEF Greatest

(* What an appended event does to the status of an operation: it decides   *)
(* the status of those it names and leaves that of the others.             *)
LEMMA AppendedEvent ==
  ASSUME NEW a \in Agents, NEW e \in Entries,
         log \in [Agents -> Seq(Entries)], log' \in [Agents -> Seq(Entries)],
         log'[a] = Append(log[a], e), LastExists(a),
         NEW op \in Nat \X Nat
  PROVE  /\ op \notin e.ops => Status(a, op)' = Status(a, op)
         /\ op \in e.ops =>
              Status(a, op)' = IF e.kind # "tool_result" THEN "unknown"
                               ELSE IF e.ok THEN "completed" ELSE "failed"
         /\ Naming(a, op)' # {} =>
              \E i \in Naming(a, op)' : \A j \in Naming(a, op)' : j <= i
<1> DEFINE n == Len(log[a])
           old == Naming(a, op)
           new == Naming(a, op)'
<1>1. /\ n \in Nat /\ DOMAIN log[a] = 1 .. n /\ DOMAIN log'[a] = 1 .. (n + 1)
      /\ \A i \in 1 .. n : log'[a][i] = log[a][i]
      /\ log'[a][n + 1] = e
  <2>1. log[a] \in Seq(Entries)
    OBVIOUS
  <2> QED BY <2>1
<1>2. old \in SUBSET (1 .. n) /\ new \in SUBSET (1 .. (n + 1))
  BY <1>1 DEF Naming
<1>3. CASE op \notin e.ops
  <2>1. new = old
    BY <1>1, <1>3 DEF Naming
  <2>2. CASE old = {}
    BY <2>1, <2>2, <1>3 DEF Status
  <2>3. CASE old # {}
    <3>1. Greatest(old) \in old
      BY <2>3 DEF LastExists, Greatest
    <3>2. log'[a][Greatest(old)] = log[a][Greatest(old)]
      BY <3>1, <1>1, <1>2
    <3>3. Greatest(new) = Greatest(old)
      BY <2>1
    <3>4. Status(a, op)' = Status(a, op)
      BY <2>1, <2>3, <3>2, <3>3 DEF Status
    <3> QED BY <3>4, <2>1, <1>3, <2>3 DEF LastExists
  <2> QED BY <2>2, <2>3
<1>4. CASE op \in e.ops
  <2>1. n + 1 \in new
    BY <1>1, <1>4 DEF Naming
  <2>2. Greatest(new) = n + 1
    BY <2>1, <1>1, <1>2, GreatestIsLast
  <2>3. \A j \in new : j <= n + 1
    BY <1>1, <1>2
  <2>4. Greatest(Naming(a, op))' = n + 1
    BY <2>2
  <2>5. Status(a, op)' = IF e.kind # "tool_result" THEN "unknown"
                         ELSE IF e.ok THEN "completed" ELSE "failed"
    BY <2>1, <2>4, <1>1 DEF Status
  <2> QED BY <2>1, <2>3, <2>5, <1>4
<1> QED BY <1>3, <1>4

-----------------------------------------------------------------------------
(* Type correctness.                                                       *)

LEMMA EventIsEntry ==
  ASSUME LogTypes, NEW a \in Agents, at[a] \in {"calls", "call", "tells"}
  PROVE  Event(a) \in Entries
<1>1. asked[a] \in Nat /\ call[a] \in Nat /\ reply[a].calls \in Nat /\ found[a].ok \in BOOLEAN
  BY DEF LogTypes, ReplyType, FoundType
<1>2. CASE at[a] = "calls"
  <2>0. \A i \in DOMAIN Ops(a) : Ops(a)[i] \in Nat \X Nat
    BY <1>1 DEF Ops
  <2>1. {Ops(a)[i] : i \in DOMAIN Ops(a)} \in SUBSET (Nat \X Nat)
    BY <2>0
  <2> QED BY <1>2, <2>1 DEF Event, Entries, Kinds
<1>3. CASE at[a] = "call"
  BY <1>1, <1>3 DEF Event, Entries, Kinds, Op
<1>4. CASE at[a] = "tells"
  BY <1>1, <1>4 DEF Event, Entries, Kinds, Op
<1> QED BY <1>2, <1>3, <1>4

LEMMA TypesInit == LoopInit => LogTypes
  BY DEF LoopInit, LogTypes, Start, NoReply, NoResult, ReplyType, FoundType, Labels, Endings

LEMMA LoggedTypes ==
  ASSUME LogTypes, NEW a \in Agents, at[a] \in {"calls", "call", "tells"}, Logged(a)
  PROVE  /\ log' \in [Agents -> Seq(Entries)]
         /\ log'[a] = Append(log[a], Event(a))
         /\ \A b \in Agents \ {a} : log'[b] = log[b]
  BY EventIsEntry DEF LogTypes, Logged

LEMMA TypesTurn ==
  ASSUME MaxCalls \in Nat, MaxCost \in Nat, LogTypes, NEW a \in Agents, Turn(a)
  PROVE  LogTypes'
<1> USE DEF LogTypes, Labels, Endings, Go, End, talk, work, tokens
<1>1. CASE TurnsExhausted(a) \/ ContextExhausted(a)
  BY <1>1 DEF TurnsExhausted, ContextExhausted
<1>2. CASE Ask(a)
  BY <1>2 DEF Ask
<1>3. CASE AnswerBreaks(a) \/ AnswerUnpublished(a)
  BY <1>3 DEF AnswerBreaks, AnswerUnpublished
<1>4. CASE Answers(a)
  <2>1. PICK cost \in 1 .. MaxCost, calls \in 0 .. MaxCalls, how \in {"stop", "length", "protocol"} :
          reply' = [reply EXCEPT ![a] = [cost |-> cost, calls |-> calls, how |-> how]]
    BY <1>4 DEF Answers
  <2>2. reply' \in [Agents -> ReplyType]
    BY <2>1 DEF ReplyType
  <2> QED BY <1>4, <2>2 DEF Answers
<1>5. CASE TokensExhausted(a) \/ AnswerRejected(a) \/ Finishes(a) \/ WantsTools(a)
  <2>1. reply[a].how \in Endings
    BY DEF ReplyType
  <2> QED BY <1>5, <2>1 DEF TokensExhausted, AnswerRejected, Finishes, WantsTools, Account
<1> QED BY <1>1, <1>4, <1>5, <1>2, <1>3 DEF Turn

LEMMA TypesToolCall ==
  ASSUME LogTypes, NEW a \in Agents, ToolCall(a)
  PROVE  LogTypes'
<1> USE DEF LogTypes, Labels, Endings, Go, End, talk, work, tokens
<1>1. CASE Announce(a)
  BY <1>1, LoggedTypes DEF Announce
<1>2. CASE StartCall(a)
  BY <1>2, LoggedTypes DEF StartCall
<1>3. CASE Tell(a)
  BY <1>3, LoggedTypes DEF Tell
<1>4. CASE NotExecuted(a)
  BY <1>4 DEF NotExecuted, NoResult, FoundType
<1>5. CASE Execute(a)
  BY <1>5 DEF Execute
<1>6. CASE Act(a)
  <2>1. Op(a) \in Nat \X Nat
    BY DEF Op
  <2> QED BY <1>6, <2>1 DEF Act
<1>7. CASE Returns(a)
  <2>1. PICK result \in Results, ok \in BOOLEAN :
          found' = [found EXCEPT ![a] =
                      [size |-> result.size, records |-> result.records, ok |-> ok]]
    BY <1>7 DEF Returns
  <2>2. found' \in [Agents -> FoundType]
    BY <2>1 DEF FoundType
  <2> QED BY <1>7, <2>2 DEF Returns
<1> QED BY <1>1, <1>4, <1>5, <1>6, <1>7, <1>2, <1>3 DEF ToolCall

LEMMA TypesNext ==
  ASSUME MaxCalls \in Nat, MaxCost \in Nat, LogTypes, [LoopNext]_loopVars
  PROVE  LogTypes'
<1>1. CASE Stop \/ UNCHANGED loopVars
  BY <1>1 DEF Stop, loopVars, talk, work, tokens, LogTypes, Labels, Endings
<1>2. ASSUME NEW a \in Agents, Interrupted(a)
      PROVE  LogTypes'
  BY <1>2 DEF Interrupted, End, Go, talk, work, LogTypes, Labels, Endings
<1>3. ASSUME NEW a \in Agents, EmitRaises(a)
      PROVE  LogTypes'
  BY <1>3, LoggedTypes DEF EmitRaises, End, Go, talk, tokens, LogTypes, Labels, Endings
<1> QED
  BY <1>1, <1>2, <1>3, TypesTurn, TypesToolCall DEF LoopNext, AgentNext

-----------------------------------------------------------------------------
(* What a step leaves of an agent's account.                               *)

(* A step that leaves the agent alone.                                     *)
Untouched(a) ==
  /\ at'[a] = at[a] /\ outcome'[a] = outcome[a] /\ log'[a] = log[a] /\ acted'[a] = acted[a]
  /\ asked'[a] = asked[a] /\ call'[a] = call[a] /\ found'[a] = found[a]

(* A step that takes the agent to a place where no call is under way, and  *)
(* marks no tool as left behind.                                           *)
Quiet(a) ==
  /\ log'[a] = log[a] /\ acted'[a] = acted[a]
  /\ at'[a] \notin {"started", "executing", "tells"}
  /\ outcome'[a] # "left_executing"

LEMMA SameLog ==
  ASSUME NEW a, log'[a] = log[a]
  PROVE  \A op : Naming(a, op)' = Naming(a, op) /\ Status(a, op)' = Status(a, op)
<1> TAKE op
<1>1. Naming(a, op)' = Naming(a, op)
  BY DEF Naming
<1> QED BY <1>1 DEF Status

LEMMA UntouchedStep ==
  ASSUME NEW a, Accounted(a), Untouched(a)
  PROVE  Accounted(a)'
<1>1. Op(a)' = Op(a)
  BY DEF Untouched, Op
<1>2. \A op : Naming(a, op)' = Naming(a, op) /\ Status(a, op)' = Status(a, op)
  BY SameLog DEF Untouched
<1>3. LastExists(a)'
  BY <1>2 DEF Accounted, LastExists
<1>4. ActedKnown(a)' /\ CompletedActed(a)'
  BY <1>2 DEF Untouched, Accounted, ActedKnown, CompletedActed, Known
<1>5. UnknownNow(a)' = UnknownNow(a)
  BY <1>1, <1>2 DEF UnknownNow
<1>6. StartedUnknown(a)' /\ LeftUnknown(a)' /\ FoundActed(a)'
  BY <1>1, <1>5 DEF Untouched, Accounted, StartedUnknown, LeftUnknown, FoundActed
<1> QED BY <1>3, <1>4, <1>6 DEF Accounted

LEMMA QuietStep ==
  ASSUME NEW a, Accounted(a), Quiet(a)
  PROVE  Accounted(a)'
<1>1. \A op : Naming(a, op)' = Naming(a, op) /\ Status(a, op)' = Status(a, op)
  BY SameLog DEF Quiet
<1>2. LastExists(a)'
  BY <1>1 DEF Accounted, LastExists
<1>3. ActedKnown(a)' /\ CompletedActed(a)'
  BY <1>1 DEF Quiet, Accounted, ActedKnown, CompletedActed, Known
<1>4. StartedUnknown(a)' /\ LeftUnknown(a)' /\ FoundActed(a)'
  BY DEF Quiet, StartedUnknown, LeftUnknown, FoundActed
<1> QED BY <1>2, <1>3, <1>4 DEF Accounted

(* An event is appended: what was known stays known, and only a result     *)
(* makes an operation completed.                                           *)
LEMMA LoggedStep ==
  ASSUME LogTypes, NEW a \in Agents, at[a] \in {"calls", "call", "tells"}, Logged(a),
         Accounted(a), acted'[a] = acted[a]
  PROVE  LastExists(a)' /\ ActedKnown(a)' /\ CompletedActed(a)'
<1> DEFINE e == Event(a)
<1>1. e \in Entries /\ log' \in [Agents -> Seq(Entries)] /\ log'[a] = Append(log[a], e)
  BY EventIsEntry, LoggedTypes
<1>2. log \in [Agents -> Seq(Entries)] /\ acted[a] \in SUBSET (Nat \X Nat) /\ LastExists(a)
  BY DEF LogTypes, Accounted
<1> HIDE DEF e
<1>3. \A op \in Nat \X Nat :
        /\ op \notin e.ops => Status(a, op)' = Status(a, op)
        /\ op \in e.ops =>
              Status(a, op)' = IF e.kind # "tool_result" THEN "unknown"
                               ELSE IF e.ok THEN "completed" ELSE "failed"
        /\ Naming(a, op)' # {} =>
              \E i \in Naming(a, op)' : \A j \in Naming(a, op)' : j <= i
  BY <1>1, <1>2, AppendedEvent
<1>4. LastExists(a)'
  BY <1>3 DEF LastExists
<1>5. ActedKnown(a)'
  BY <1>2, <1>3 DEF Accounted, ActedKnown, Known
<1>6. e.kind = "tool_result" /\ e.ok => e.ops \subseteq acted[a]
  BY DEF e, Event, Accounted, FoundActed
<1>7. CompletedActed(a)'
  BY <1>3, <1>6 DEF Accounted, CompletedActed
<1> QED BY <1>4, <1>5, <1>7

-----------------------------------------------------------------------------
(* The steps of an agent.                                                  *)

LEMMA NotLeft ==
  ASSUME NEW a, Accounted(a), at[a] # "ended"
  PROVE  outcome[a] # "left_executing"
  BY DEF Accounted, LeftUnknown

LEMMA TurnStep ==
  ASSUME LogTypes, NEW a \in Agents, Accounted(a), Turn(a)
  PROVE  Accounted(a)'
<1> USE DEF LogTypes, Go, End, talk, work, tokens, Quiet
<1>1. reply[a].how \in {"stop", "length", "protocol"}
  BY DEF ReplyType
<1>2. CASE TurnsExhausted(a) \/ ContextExhausted(a)
  <2>1. Quiet(a)
    BY <1>2 DEF TurnsExhausted, ContextExhausted
  <2> QED BY <2>1, QuietStep
<1>3. CASE Ask(a)
  <2>1. Quiet(a)
    BY <1>3, NotLeft DEF Ask
  <2> QED BY <2>1, QuietStep
<1>4. CASE Answers(a)
  <2>1. Quiet(a)
    BY <1>4, NotLeft DEF Answers
  <2> QED BY <2>1, QuietStep
<1>5. CASE AnswerBreaks(a) \/ AnswerUnpublished(a)
  <2>1. Quiet(a)
    BY <1>5 DEF AnswerBreaks, AnswerUnpublished
  <2> QED BY <2>1, QuietStep
<1>6. CASE TokensExhausted(a) \/ AnswerRejected(a) \/ Finishes(a)
  <2>1. Quiet(a)
    BY <1>1, <1>6 DEF TokensExhausted, AnswerRejected, Finishes, Account
  <2> QED BY <2>1, QuietStep
<1>7. CASE WantsTools(a)
  <2>1. Quiet(a)
    BY <1>7, NotLeft DEF WantsTools, Account
  <2> QED BY <2>1, QuietStep
<1> QED BY <1>2, <1>3, <1>4, <1>5, <1>6, <1>7 DEF Turn

(* The call is started: the operation becomes unknown to its journal.      *)
LEMMA StartCallStep ==
  ASSUME LogTypes, NEW a \in Agents, Accounted(a), StartCall(a)
  PROVE  Accounted(a)'
<1>1. LastExists(a)' /\ ActedKnown(a)' /\ CompletedActed(a)'
  BY LoggedStep DEF StartCall
<1>2. at'[a] = "started" /\ outcome'[a] = outcome[a] /\ Op(a)' = Op(a)
  BY DEF StartCall, Go, LogTypes, Op
<1>3. Op(a) \in Event(a).ops /\ Event(a).kind = "tool_started" /\ Op(a) \in Nat \X Nat
  BY DEF StartCall, Event, Op, LogTypes
<1>4. /\ Event(a) \in Entries /\ log' \in [Agents -> Seq(Entries)]
      /\ log'[a] = Append(log[a], Event(a))
  BY EventIsEntry, LoggedTypes DEF StartCall
<1>5. log \in [Agents -> Seq(Entries)] /\ LastExists(a)
  BY DEF LogTypes, Accounted
<1>6. Status(a, Op(a))' = "unknown"
  <2> DEFINE e == Event(a)
  <2>1. e \in Entries /\ log'[a] = Append(log[a], e) /\ e.kind # "tool_result"
    BY <1>3, <1>4
  <2> HIDE DEF e
  <2>2. \A op \in Nat \X Nat : op \in e.ops => Status(a, op)' = "unknown"
    BY <1>4, <1>5, <2>1, AppendedEvent
  <2>3. PICK op \in Nat \X Nat : op = Op(a)
    BY <1>3
  <2>4. Status(a, op)' = "unknown"
    BY <1>3, <2>2, <2>3 DEF e
  <2>5. Op(a)' = op
    BY <1>2, <2>3
  <2> QED BY <2>4, <2>5 DEF Status, Naming
<1> QED BY <1>1, <1>2, <1>6, NotLeft DEF Accounted, StartedUnknown, LeftUnknown, FoundActed, UnknownNow, StartCall

LEMMA ToolCallStep ==
  ASSUME LogTypes, NEW a \in Agents, Accounted(a), ToolCall(a)
  PROVE  Accounted(a)'
<1> USE DEF LogTypes, Go, talk, work, tokens
<1>1. CASE Announce(a) \/ Tell(a)
  <2>1. LastExists(a)' /\ ActedKnown(a)' /\ CompletedActed(a)'
    BY <1>1, LoggedStep DEF Announce, Tell
  <2>2. at'[a] \in {"call", "turn"} /\ outcome'[a] # "left_executing"
    BY <1>1, NotLeft DEF Announce, Tell
  <2> QED BY <2>1, <2>2 DEF Accounted, StartedUnknown, LeftUnknown, FoundActed
<1>2. CASE StartCall(a)
  BY <1>2, StartCallStep
<1>3. CASE NotExecuted(a)
  <2>1. at'[a] = "tells" /\ ~found'[a].ok /\ outcome'[a] # "left_executing"
    BY <1>3, NotLeft DEF NotExecuted, NoResult
  <2>2. log'[a] = log[a] /\ acted'[a] = acted[a]
    BY <1>3 DEF NotExecuted
  <2>3. \A op : Naming(a, op)' = Naming(a, op) /\ Status(a, op)' = Status(a, op)
    BY <2>2, SameLog
  <2>4. LastExists(a)' /\ ActedKnown(a)' /\ CompletedActed(a)'
    BY <2>2, <2>3 DEF Accounted, LastExists, ActedKnown, CompletedActed, Known
  <2> QED BY <2>1, <2>4 DEF Accounted, StartedUnknown, LeftUnknown, FoundActed
<1>4. CASE Execute(a)
  <2>1. /\ at'[a] = "executing" /\ at[a] = "started" /\ outcome'[a] # "left_executing"
        /\ log'[a] = log[a] /\ acted'[a] = acted[a] /\ Op(a)' = Op(a)
    BY <1>4, NotLeft DEF Execute, Op
  <2>2. \A op : Naming(a, op)' = Naming(a, op) /\ Status(a, op)' = Status(a, op)
    BY <2>1, SameLog
  <2>3. LastExists(a)' /\ ActedKnown(a)' /\ CompletedActed(a)'
    BY <2>1, <2>2 DEF Accounted, LastExists, ActedKnown, CompletedActed, Known
  <2>4. UnknownNow(a)'
    BY <2>1, <2>2 DEF Accounted, StartedUnknown, UnknownNow
  <2> QED BY <2>1, <2>3, <2>4 DEF Accounted, StartedUnknown, LeftUnknown, FoundActed
<1>5. CASE Act(a)
  <2>1. UnknownNow(a)
    BY <1>5 DEF Act, Accounted, StartedUnknown, LeftUnknown
  <2>2. /\ log'[a] = log[a] /\ acted'[a] = acted[a] \cup {Op(a)} /\ Op(a)' = Op(a)
        /\ at'[a] = at[a] /\ outcome'[a] = outcome[a] /\ found'[a] = found[a]
    BY <1>5 DEF Act, Op
  <2>3. \A op : Naming(a, op)' = Naming(a, op) /\ Status(a, op)' = Status(a, op)
    BY <2>2, SameLog
  <2>4. Known(a, Op(a))
    BY <2>1 DEF UnknownNow, Known
  <2>5. LastExists(a)' /\ ActedKnown(a)' /\ CompletedActed(a)'
    BY <2>2, <2>3, <2>4 DEF Accounted, LastExists, ActedKnown, CompletedActed, Known
  <2>6. UnknownNow(a)'
    BY <2>1, <2>2, <2>3 DEF UnknownNow
  <2> QED BY <2>2, <2>5, <2>6 DEF Accounted, StartedUnknown, LeftUnknown, FoundActed
<1>6. CASE Returns(a)
  <2>1. PICK result \in Results, ok \in BOOLEAN :
          /\ ok => Op(a) \in acted[a]
          /\ found' = [found EXCEPT ![a] =
                         [size |-> result.size, records |-> result.records, ok |-> ok]]
    BY <1>6 DEF Returns
  <2>2. /\ at'[a] = "tells" /\ outcome'[a] # "left_executing"
        /\ log'[a] = log[a] /\ acted'[a] = acted[a] /\ Op(a)' = Op(a)
    BY <1>6, NotLeft DEF Returns, Op
  <2>3. found'[a].ok => Op(a) \in acted[a]
    BY <2>1
  <2>4. \A op : Naming(a, op)' = Naming(a, op) /\ Status(a, op)' = Status(a, op)
    BY <2>2, SameLog
  <2>5. LastExists(a)' /\ ActedKnown(a)' /\ CompletedActed(a)'
    BY <2>2, <2>4 DEF Accounted, LastExists, ActedKnown, CompletedActed, Known
  <2> QED BY <2>2, <2>3, <2>5 DEF Accounted, StartedUnknown, LeftUnknown, FoundActed
<1> QED BY <1>1, <1>2, <1>3, <1>4, <1>5, <1>6 DEF ToolCall

(* A stop at an await; a tool that was being executed may go on.           *)
LEMMA InterruptedStep ==
  ASSUME LogTypes, NEW a \in Agents, Accounted(a), Interrupted(a)
  PROVE  Accounted(a)'
<1>1. /\ at'[a] = "ended" /\ log'[a] = log[a] /\ acted'[a] = acted[a] /\ Op(a)' = Op(a)
      /\ outcome'[a] = IF at[a] = "executing" THEN "left_executing" ELSE "interrupted"
  BY DEF Interrupted, End, Go, LogTypes, Op, work, talk
<1>2. CASE at[a] # "executing"
  <2>1. Quiet(a)
    BY <1>1, <1>2 DEF Quiet
  <2> QED BY <2>1, QuietStep
<1>3. CASE at[a] = "executing"
  <2>1. \A op : Naming(a, op)' = Naming(a, op) /\ Status(a, op)' = Status(a, op)
    BY <1>1, SameLog
  <2>2. UnknownNow(a)'
    BY <1>1, <1>3, <2>1 DEF Accounted, StartedUnknown, UnknownNow
  <2>3. LastExists(a)' /\ ActedKnown(a)' /\ CompletedActed(a)'
    BY <1>1, <2>1 DEF Accounted, LastExists, ActedKnown, CompletedActed, Known
  <2> QED BY <1>1, <2>2, <2>3 DEF Accounted, StartedUnknown, LeftUnknown, FoundActed
<1> QED BY <1>2, <1>3

LEMMA EmitRaisesStep ==
  ASSUME LogTypes, NEW a \in Agents, Accounted(a), EmitRaises(a)
  PROVE  Accounted(a)'
<1>1. at'[a] = "ended" /\ outcome'[a] = "event_store_error" /\ acted'[a] = acted[a]
  BY DEF EmitRaises, End, Go, LogTypes
<1>2. CASE UNCHANGED log
  <2>1. Quiet(a)
    BY <1>1, <1>2 DEF Quiet
  <2> QED BY <2>1, QuietStep
<1>3. CASE at[a] \in {"calls", "call", "tells"} /\ Logged(a)
  <2>1. LastExists(a)' /\ ActedKnown(a)' /\ CompletedActed(a)'
    BY <1>1, <1>3, LoggedStep
  <2> QED BY <1>1, <2>1 DEF Accounted, StartedUnknown, LeftUnknown, FoundActed
<1> QED BY <1>2, <1>3 DEF EmitRaises

(* A step of one agent leaves the others alone.                            *)
LEMMA OthersUntouched ==
  ASSUME LogTypes, NEW a \in Agents, AgentNext(a), NEW b \in Agents, b # a
  PROVE  Untouched(b)
<1> USE DEF LogTypes, Go, End, talk, work, tokens, Untouched
<1>1. CASE Turn(a)
  <2>1. CASE TurnsExhausted(a) \/ ContextExhausted(a) \/ Ask(a) \/ Answers(a)
    BY <2>1 DEF TurnsExhausted, ContextExhausted, Ask, Answers
  <2>2. CASE AnswerBreaks(a) \/ AnswerUnpublished(a)
    BY <2>2 DEF AnswerBreaks, AnswerUnpublished
  <2>3. CASE TokensExhausted(a) \/ AnswerRejected(a) \/ Finishes(a) \/ WantsTools(a)
    BY <2>3 DEF TokensExhausted, AnswerRejected, Finishes, WantsTools, Account
  <2> QED BY <1>1, <2>1, <2>2, <2>3 DEF Turn
<1>2. CASE ToolCall(a)
  <2>1. CASE Announce(a)
    BY <2>1 DEF Announce, Logged
  <2>2. CASE StartCall(a)
    BY <2>2 DEF StartCall, Logged
  <2>3. CASE Tell(a)
    BY <2>3 DEF Tell, Logged
  <2>4. CASE NotExecuted(a) \/ Execute(a) \/ Act(a) \/ Returns(a)
    BY <2>4 DEF NotExecuted, Execute, Act, Returns
  <2> QED BY <1>2, <2>1, <2>2, <2>3, <2>4 DEF ToolCall
<1>3. CASE Interrupted(a) \/ EmitRaises(a)
  BY <1>3 DEF Interrupted, EmitRaises, Logged
<1> QED BY <1>1, <1>2, <1>3 DEF AgentNext

-----------------------------------------------------------------------------
(* The inductive invariant.                                                *)

LEMMA LoopInvInit == LoopInit => LoopInv
<1> SUFFICES ASSUME LoopInit, NEW a \in Agents PROVE Accounted(a)
  BY TypesInit DEF LoopInv
<1>1. log[a] = <<>> /\ acted[a] = {} /\ at[a] = "turn" /\ outcome[a] = "none"
  BY DEF LoopInit, Start
<1>2. \A op : Naming(a, op) = {} /\ Status(a, op) = "absent"
  BY <1>1 DEF Naming, Status
<1> QED
  BY <1>1, <1>2 DEF Accounted, LastExists, ActedKnown, CompletedActed, StartedUnknown,
                    LeftUnknown, FoundActed

LEMMA LoopInvStep ==
  ASSUME MaxCalls \in Nat, MaxCost \in Nat, LoopInv, [LoopNext]_loopVars
  PROVE  LoopInv'
<1>1. LogTypes'
  BY TypesNext DEF LoopInv
<1>2. ASSUME NEW b \in Agents
      PROVE  Accounted(b)'
  <2>1. LogTypes /\ Accounted(b)
    BY DEF LoopInv
  <2>2. CASE Stop \/ UNCHANGED loopVars
    <3>1. Untouched(b)
      BY <2>2 DEF Stop, loopVars, talk, work, Untouched
    <3> QED BY <2>1, <3>1, UntouchedStep
  <2>3. ASSUME NEW a \in Agents, AgentNext(a)
        PROVE  Accounted(b)'
    <3>1. CASE a = b
      BY <2>1, <2>3, <3>1, TurnStep, ToolCallStep, InterruptedStep, EmitRaisesStep DEF AgentNext
    <3>2. CASE a # b
      BY <2>1, <2>3, <3>2, OthersUntouched, UntouchedStep
    <3> QED BY <3>1, <3>2
  <2> QED BY <2>2, <2>3 DEF LoopNext
<1> QED BY <1>1, <1>2 DEF LoopInv

LEMMA InvAccountsFor ==
  ASSUME MaxTurns \in Nat, MaxCalls \in Nat, LoopInv
  PROVE  OperationsAccountedFor
<1> SUFFICES ASSUME NEW a \in Agents, NEW op \in AllOps
    PROVE  /\ op \in acted[a] => Status(a, op) # "absent"
           /\ Status(a, op) = "completed" => op \in acted[a]
           /\ at[a] = "executing" /\ op = Op(a) => Status(a, op) = "unknown"
  BY DEF OperationsAccountedFor
<1>1. Accounted(a) /\ op \in Nat \X Nat
  BY DEF LoopInv, AllOps
<1> QED
  BY <1>1 DEF Accounted, ActedKnown, CompletedActed, StartedUnknown, Known, UnknownNow

(* Wherever the Run of any number of agents stops, its journal names every *)
(* operation that was executed, completed ones only if they were, and one  *)
(* that may still be executing as unknown.                                 *)
THEOREM JournalAccountsForOperations == LoopSpec => []OperationsAccountedFor
<1>1. LoopInv /\ [LoopNext]_loopVars => LoopInv'
  BY LoopAssumption, LoopInvStep
<1>2. LoopInv => OperationsAccountedFor
  BY LoopAssumption, InvAccountsFor
<1> QED
  BY <1>1, <1>2, LoopInvInit, PTL DEF LoopSpec

-----------------------------------------------------------------------------
(* Sums over finite sets.                                                 *)

(* The units of a sum over a finite set are finitely many.                 *)
LEMMA UnitsAreFinite ==
  ASSUME NEW D, IsFiniteSet(D), NEW f \in [D -> Nat]
  PROVE  IsFiniteSet(Units(f)) /\ Total(f) \in Nat
<1> DEFINE Column == [x \in D |-> {x} \X (1 .. f[x])]
           Columns == {Column[x] : x \in D}
<1>1. Column \in Surjection(D, Columns)
  BY DEF Surjection
<1>2. IsFiniteSet(Columns)
  BY <1>1, FS_Surjection
<1>3. \A x \in D : IsFiniteSet({x} \X (1 .. f[x]))
  <2> TAKE x \in D
  <2>1. IsFiniteSet({x})
    BY FS_Singleton
  <2>2. f[x] \in Int /\ 1 \in Int
    OBVIOUS
  <2>3. IsFiniteSet(1 .. f[x])
    BY <2>2, FS_Interval
  <2> QED BY <2>1, <2>3, FS_Product
<1>4. Units(f) = UNION Columns
  BY DEF Units
<1>5. IsFiniteSet(UNION Columns)
  BY <1>2, <1>3, FS_UNION
<1> QED BY <1>4, <1>5, FS_CardinalityType DEF Total

(* A sum does not depend on the names of its terms.                        *)
LEMMA TotalRenamed ==
  ASSUME NEW D, IsFiniteSet(D), NEW f \in [D -> Nat],
         NEW E, NEW g \in [E -> Nat], NEW h \in Bijection(D, E), \A x \in D : g[h[x]] = f[x]
  PROVE  Total(g) = Total(f)
<1> DEFINE r == [u \in Units(f) |-> <<h[u[1]], u[2]>>]
<1>1. /\ h \in [D -> E]
      /\ \A x, y \in D : h[x] = h[y] => x = y
      /\ \A z \in E : \E x \in D : h[x] = z
  BY DEF Bijection, Injection, Surjection, IsInjective
<1>2. \A u : u \in Units(f) <=> \E x \in D : \E k \in 1 .. f[x] : u = <<x, k>>
  BY DEF Units
<1>3. \A u : u \in Units(g) <=> \E x \in E : \E k \in 1 .. g[x] : u = <<x, k>>
  BY DEF Units
<1>4. r \in [Units(f) -> Units(g)]
  BY <1>1, <1>2, <1>3
<1>5. \A u, v \in Units(f) : r[u] = r[v] => u = v
  BY <1>1, <1>2
<1>6. \A w \in Units(g) : \E u \in Units(f) : r[u] = w
  <2> TAKE w \in Units(g)
  <2>0. PICK z \in E : \E k \in 1 .. g[z] : w = <<z, k>>
    BY <1>3
  <2>1. PICK k \in 1 .. g[z] : w = <<z, k>>
    BY <2>0
  <2>2. PICK x \in D : h[x] = z
    BY <1>1
  <2>3. <<x, k>> \in Units(f)
    BY <1>2, <2>1, <2>2
  <2> QED BY <2>1, <2>2, <2>3
<1>7. r \in Bijection(Units(f), Units(g))
  BY <1>4, <1>5, <1>6 DEF Bijection, Injection, Surjection, IsInjective
<1>8. ExistsBijection(Units(f), Units(g))
  BY <1>7 DEF ExistsBijection
<1> QED BY <1>8, UnitsAreFinite, FS_Bijection DEF Total

(* A sum over two parts is the sum of the parts.                           *)
LEMMA TotalOfParts ==
  ASSUME NEW A, NEW B, IsFiniteSet(A), IsFiniteSet(B), A \cap B = {},
         NEW f \in [A \cup B -> Nat], NEW g \in [A -> Nat], NEW h \in [B -> Nat],
         \A x \in A : f[x] = g[x], \A x \in B : f[x] = h[x]
  PROVE  Total(f) = Total(g) + Total(h) /\ Total(g) \in Nat /\ Total(h) \in Nat
<1>1. IsFiniteSet(Units(g)) /\ IsFiniteSet(Units(h)) /\ Total(g) \in Nat /\ Total(h) \in Nat
  BY UnitsAreFinite
<1>2. Units(f) = Units(g) \cup Units(h)
  BY DEF Units
<1>3. Units(g) \cap Units(h) = {}
  BY DEF Units
<1>4. Cardinality(Units(f)) = Cardinality(Units(g)) + Cardinality(Units(h)) - Cardinality({})
  BY <1>1, <1>2, <1>3, FS_Union
<1> QED BY <1>1, <1>4, FS_EmptySet DEF Total

(* A sum of one term.                                                      *)
LEMMA TotalOfOne ==
  ASSUME NEW y, NEW f \in [{y} -> Nat]
  PROVE  Total(f) = f[y]
<1> DEFINE n == f[y]
<1>1. Units(f) = {y} \X (1 .. n) /\ n \in Nat
  BY DEF Units
<1> HIDE DEF n
<1>2. IsFiniteSet({y}) /\ Cardinality({y}) = 1
  BY FS_Singleton
<1>3. IsFiniteSet(1 .. n) /\ Cardinality(1 .. n) = n
  BY <1>1, FS_Interval
<1>4. Cardinality({y} \X (1 .. n)) = Cardinality({y}) * Cardinality(1 .. n)
  BY <1>2, <1>3, FS_Product
<1>5. Cardinality({y} \X (1 .. n)) = n
  BY <1>1, <1>2, <1>3, <1>4
<1> QED BY <1>1, <1>5 DEF Total, n

(* A term that grows.                                                      *)
LEMMA TotalGrows ==
  ASSUME NEW D, IsFiniteSet(D), NEW f \in [D -> Nat], NEW g \in [D -> Nat], NEW a \in D,
         NEW d \in Nat, g[a] = f[a] + d, \A x \in D \ {a} : g[x] = f[x]
  PROVE  Total(g) = Total(f) + d
<1> DEFINE B == D \ {a}
           others == [x \in B |-> f[x]]
           before == [x \in {a} |-> f[a]]
           after == [x \in {a} |-> g[a]]
<1>1. IsFiniteSet({a}) /\ IsFiniteSet(B)
  BY FS_Singleton, FS_Difference
<1>2. {a} \cup B = D /\ {a} \cap B = {}
  OBVIOUS
<1>3. others \in [B -> Nat] /\ before \in [{a} -> Nat] /\ after \in [{a} -> Nat]
  OBVIOUS
<1>4. (\A x \in B : f[x] = others[x]) /\ (\A x \in {a} : f[x] = before[x]) /\ before[a] = f[a]
  OBVIOUS
<1>5. (\A x \in B : g[x] = others[x]) /\ (\A x \in {a} : g[x] = after[x]) /\ after[a] = g[a]
  OBVIOUS
<1>6. f \in [{a} \cup B -> Nat] /\ g \in [{a} \cup B -> Nat]
  BY <1>2
<1> HIDE DEF B, others, before, after
<1>7. Total(f) = Total(before) + Total(others) /\ Total(others) \in Nat
  BY <1>1, <1>2, <1>3, <1>4, <1>6, TotalOfParts
<1>8. Total(g) = Total(after) + Total(others)
  BY <1>1, <1>2, <1>3, <1>5, <1>6, TotalOfParts
<1>9. Total(before) = f[a] /\ Total(after) = g[a]
  BY <1>3, <1>4, <1>5, TotalOfOne
<1> QED BY <1>7, <1>8, <1>9

(* Nothing adds up to nothing.                                             *)
LEMMA TotalOfZeros ==
  ASSUME NEW D, NEW f \in [D -> {0}]
  PROVE  Total(f) = 0
<1>1. Units(f) = {}
  BY DEF Units
<1> QED BY <1>1, FS_EmptySet DEF Total

-----------------------------------------------------------------------------
(* The tokens of a Run.                                                   *)

(* What has been answered and not yet counted.                             *)
Pending(a) == IF at[a] = "answered" THEN reply[a].cost ELSE 0
Ended == {a \in Agents : at[a] = "ended"}
Counts == [Agents -> Nat]

(* The kernel's count is the sum of what the agents have reported; what an *)
(* agent has consumed is reported but for its last answer; and an agent    *)
(* that reports to a full count ends, so those above it are the ended.     *)
TokenInv ==
  /\ spent \in Counts /\ reported \in Counts /\ consumed \in Counts
  /\ total \in Nat /\ marked \in BOOLEAN
  /\ spent = reported /\ total = Total(reported)
  /\ \A a \in Agents :
       /\ reply[a].cost <= MaxCost
       /\ ~SuspendingEmits /\ ~marked => consumed[a] = reported[a] + Pending(a)
  /\ total < MaxTokens \/ total < MaxTokens + Cardinality(Ended) * MaxCost

LEMMA OneMore ==
  ASSUME NEW x \in Nat, NEW m \in Nat
  PROVE  x * m \in Nat /\ (x + 1) * m = x * m + m
  OBVIOUS

(* Who has ended.                                                          *)
LEMMA EndedSteps ==
  ASSUME LogTypes, NEW a \in Agents
  PROVE  /\ IsFiniteSet(Ended) /\ Cardinality(Ended) \in Nat
         /\ at' = at => Ended' = Ended
         /\ \A where : at[a] # "ended" /\ where # "ended" /\ Go(a, where) => Ended' = Ended
         /\ at[a] # "ended" /\ Go(a, "ended") => Cardinality(Ended)' = Cardinality(Ended) + 1
<1>1. IsFiniteSet(Ended)
  BY LoopAssumption, FS_Subset DEF Ended
<1>2. Cardinality(Ended) \in Nat
  BY <1>1, FS_CardinalityType
<1>3. at' = at => Ended' = Ended
  BY DEF Ended
<1>4. ASSUME NEW where, at[a] # "ended", where # "ended", Go(a, where) PROVE Ended' = Ended
  BY <1>4 DEF Go, LogTypes, Ended
<1>5. ASSUME at[a] # "ended", Go(a, "ended") PROVE Cardinality(Ended)' = Cardinality(Ended) + 1
  <2>1. Ended' = Ended \cup {a} /\ a \notin Ended
    BY <1>5 DEF Go, LogTypes, Ended
  <2>2. Cardinality(Ended \cup {a}) = Cardinality(Ended) + 1
    BY <1>1, <2>1, FS_AddElement
  <2> QED BY <2>1, <2>2
<1> QED BY <1>1, <1>2, <1>3, <1>4, <1>5

(* A step that counts nothing keeps the bound.                             *)
LEMMA BoundStays ==
  ASSUME LogTypes, TokenInv, total' = total, NEW a \in Agents,
         \/ at' = at
         \/ at[a] # "ended" /\ \E where : Go(a, where)
  PROVE  (total < MaxTokens \/ total < MaxTokens + Cardinality(Ended) * MaxCost)'
<1>1. \/ Cardinality(Ended)' = Cardinality(Ended)
      \/ Cardinality(Ended)' = Cardinality(Ended) + 1
  BY EndedSteps
<1>2. /\ Cardinality(Ended) \in Nat /\ MaxCost \in Nat /\ MaxTokens \in Nat /\ total \in Nat
  BY EndedSteps, LoopAssumption DEF TokenInv
<1> DEFINE n == Cardinality(Ended)
           k == Cardinality(Ended)'
           t == total
<1>3. n * MaxCost \in Nat /\ (n + 1) * MaxCost = n * MaxCost + MaxCost
  BY <1>2, OneMore
<1>4. t < MaxTokens \/ t < MaxTokens + n * MaxCost
  BY DEF TokenInv
<1>5. k * MaxCost = n * MaxCost \/ k * MaxCost = n * MaxCost + MaxCost
  BY <1>1, <1>3
<1>6. t < MaxTokens \/ t < MaxTokens + k * MaxCost
  BY <1>2, <1>3, <1>4, <1>5
<1> QED BY <1>6

(* An answer is counted.                                                   *)
LEMMA AccountStep ==
  ASSUME LogTypes, TokenInv, NEW a \in Agents, Account(a),
         \/ total' >= MaxTokens /\ Go(a, "ended")
         \/ total' < MaxTokens /\ \E where : where # "answered" /\ Go(a, where)
  PROVE  TokenInv'
<1> DEFINE cost == reply[a].cost
<1>1. /\ at[a] = "answered" /\ at \in [Agents -> Labels] /\ cost \in Nat /\ cost <= MaxCost
      /\ MaxCost \in Nat /\ MaxTokens \in Nat
  BY LoopAssumption DEF Account, LogTypes, ReplyType, TokenInv
<1>2. /\ spent' = [spent EXCEPT ![a] = reported[a] + cost]
      /\ reported' = [reported EXCEPT ![a] = reported[a] + cost]
      /\ total' = total + cost
  BY <1>1 DEF Account, Report, TokenInv, Counts
<1>3. spent' \in Counts /\ reported' \in Counts /\ spent' = reported' /\ total' \in Nat
  BY <1>1, <1>2 DEF TokenInv, Counts
<1>4. Total(reported') = Total(reported) + cost
  <2>1. /\ reported \in [Agents -> Nat] /\ reported' \in [Agents -> Nat] /\ IsFiniteSet(Agents)
        /\ reported'[a] = reported[a] + cost /\ \A b \in Agents \ {a} : reported'[b] = reported[b]
    BY <1>1, <1>2, <1>3, LoopAssumption DEF TokenInv, Counts
  <2> HIDE DEF cost
  <2>2. PICK f \in [Agents -> Nat], g \in [Agents -> Nat] : f = reported /\ g = reported'
    BY <2>1
  <2>3. Total(g) = Total(f) + cost
    BY <1>1, <2>1, <2>2, TotalGrows
  <2> QED BY <2>2, <2>3
<1>5. \A b \in Agents : ~SuspendingEmits /\ ~marked => consumed[b] = reported'[b] + Pending(b)'
  <2> SUFFICES ASSUME NEW b \in Agents, ~SuspendingEmits, ~marked
               PROVE  consumed[b] = reported'[b] + Pending(b)'
    OBVIOUS
  <2>1. consumed[b] = reported[b] + Pending(b) /\ reported \in [Agents -> Nat]
    BY DEF TokenInv, Counts
  <2>2. CASE b = a
    <3>1. at'[a] # "answered"
      BY <1>1 DEF Go
    <3>2. Pending(a) = cost /\ Pending(a)' = 0 /\ reported'[a] = reported[a] + cost
      BY <1>1, <1>2, <2>1, <3>1 DEF Pending
    <3> QED BY <1>1, <2>1, <2>2, <3>2
  <2>3. CASE b # a
    <3>1. at'[b] = at[b] /\ reply' = reply /\ reported'[b] = reported[b]
      BY <1>1, <1>2, <2>1, <2>3 DEF Account, Go
    <3> QED BY <2>1, <3>1 DEF Pending
  <2> QED BY <2>2, <2>3
<1>6. (total < MaxTokens \/ total < MaxTokens + Cardinality(Ended) * MaxCost)'
  <2>1. CASE total' < MaxTokens
    BY <2>1
  <2>2. CASE total' >= MaxTokens /\ Go(a, "ended")
    <3>1. Cardinality(Ended) \in Nat /\ Cardinality(Ended)' = Cardinality(Ended) + 1
      BY <1>1, <2>2, EndedSteps
    <3> DEFINE n == Cardinality(Ended)
               k == Cardinality(Ended)'
               t == total
    <3>2. n * MaxCost \in Nat /\ k * MaxCost = n * MaxCost + MaxCost
      BY <1>1, <3>1, OneMore
    <3>3. t \in Nat /\ (t < MaxTokens \/ t < MaxTokens + n * MaxCost)
      BY DEF TokenInv
    <3>4. t + cost < MaxTokens + k * MaxCost
      BY <1>1, <3>2, <3>3
    <3> QED BY <1>2, <3>4
  <2> QED BY <1>1, <1>3, <2>1, <2>2
<1> QED BY <1>2, <1>3, <1>4, <1>5, <1>6 DEF Account, TokenInv

(* Steps that count nothing.                                               *)
Uncounted(a) ==
  /\ UNCHANGED tokens /\ reply' = reply
  /\ \/ at' = at
     \/ at[a] \notin {"ended", "answered"} /\ \E where : where # "answered" /\ Go(a, where)

LEMMA UncountedStep ==
  ASSUME LogTypes, TokenInv, NEW a \in Agents, Uncounted(a)
  PROVE  TokenInv'
<1>1. \A b \in Agents : Pending(b)' = Pending(b)
  BY DEF Uncounted, Pending, Go, LogTypes
<1>2. (total < MaxTokens \/ total < MaxTokens + Cardinality(Ended) * MaxCost)'
  BY BoundStays DEF Uncounted, tokens
<1> QED BY <1>1, <1>2 DEF TokenInv, Uncounted, tokens

LEMMA TurnCounts ==
  ASSUME LogTypes, TokenInv, NEW a \in Agents, Turn(a)
  PROVE  TokenInv'
<1>1. a \in Agents /\ DOMAIN at = Agents
  BY DEF LogTypes
<1>2. CASE TurnsExhausted(a) \/ ContextExhausted(a) \/ Ask(a)
  <2>1. Uncounted(a)
    BY <1>2 DEF TurnsExhausted, ContextExhausted, Ask, End, Uncounted, talk, tokens
  <2> QED BY <2>1, UncountedStep
<1>3. CASE Answers(a)
  <2>1. PICK cost \in 1 .. MaxCost, calls \in 0 .. MaxCalls, how \in {"stop", "length", "protocol"} :
          /\ reply' = [reply EXCEPT ![a] = [cost |-> cost, calls |-> calls, how |-> how]]
          /\ consumed' = [consumed EXCEPT ![a] = @ + cost]
    BY <1>3 DEF Answers
  <2>2. /\ at[a] = "asking" /\ Go(a, "answered") /\ cost \in Nat /\ cost <= MaxCost
        /\ UNCHANGED <<spent, reported, total, marked>>
    BY <1>3, LoopAssumption DEF Answers
  <2>3. (total < MaxTokens \/ total < MaxTokens + Cardinality(Ended) * MaxCost)'
    BY <2>2, BoundStays
  <2>4. consumed' \in Counts
    BY <2>1, <2>2 DEF TokenInv, Counts
  <2>5. ASSUME NEW b \in Agents
        PROVE  /\ reply'[b].cost <= MaxCost
               /\ ~SuspendingEmits /\ ~marked => consumed'[b] = reported[b] + Pending(b)'
    <3>1. CASE b = a
      <4>1. /\ reply'[a].cost = cost /\ at'[a] = "answered" /\ Pending(a) = 0
            /\ Pending(a)' = cost
        BY <2>1, <2>2 DEF TokenInv, Pending, Go, LogTypes, ReplyType
      <4>2. consumed'[a] = consumed[a] + cost /\ consumed[a] \in Nat /\ reported[a] \in Nat
        BY <2>1 DEF TokenInv, Counts
      <4>3. ~SuspendingEmits /\ ~marked => consumed[a] = reported[a] + Pending(a)
        BY DEF TokenInv
      <4>4. cost <= MaxCost
        BY <2>2
      <4>5. ~SuspendingEmits /\ ~marked => consumed'[a] = reported[a] + cost
        BY <4>1, <4>2, <4>3, <2>2
      <4> QED BY <3>1, <4>1, <4>4, <4>5
    <3>2. CASE b # a
      BY <2>1, <2>2, <3>2 DEF TokenInv, Counts, Pending, Go, LogTypes
    <3> QED BY <3>1, <3>2
  <2> QED BY <2>2, <2>3, <2>4, <2>5 DEF TokenInv
<1>4. CASE AnswerBreaks(a) \/ AnswerUnpublished(a)
  <2>1. /\ at[a] # "ended" /\ Go(a, "ended") /\ marked' = TRUE
        /\ UNCHANGED <<spent, reported, total, reply>>
    BY <1>4 DEF AnswerBreaks, AnswerUnpublished, End, talk
  <2>2. consumed' \in Counts
    BY <1>4, LoopAssumption DEF AnswerBreaks, AnswerUnpublished, TokenInv, Counts
  <2>3. (total < MaxTokens \/ total < MaxTokens + Cardinality(Ended) * MaxCost)'
    BY <2>1, BoundStays
  <2> QED BY <2>1, <2>2, <2>3 DEF TokenInv
<1>5. CASE TokensExhausted(a) \/ AnswerRejected(a) \/ Finishes(a) \/ WantsTools(a)
  BY <1>5, AccountStep DEF TokensExhausted, AnswerRejected, Finishes, WantsTools, End
<1> QED BY <1>2, <1>3, <1>4, <1>5 DEF Turn

(* The sum is kept by every step.                                          *)
LEMMA TokensStep ==
  ASSUME LogTypes, TokenInv, [LoopNext]_loopVars
  PROVE  TokenInv'
<1>1. CASE Stop \/ UNCHANGED loopVars
  <2>1. at' = at /\ UNCHANGED tokens /\ reply' = reply
    BY <1>1 DEF Stop, loopVars, talk
  <2>2. Ended' = Ended /\ \A b \in Agents : Pending(b)' = Pending(b)
    BY <2>1 DEF Ended, Pending
  <2> QED BY <2>1, <2>2 DEF TokenInv, tokens
<1>2. ASSUME NEW a \in Agents, ToolCall(a) PROVE TokenInv'
  <2> SUFFICES Uncounted(a)
    BY UncountedStep
  <2>1. CASE Act(a)
    BY <2>1 DEF Act, Uncounted, talk
  <2>2. CASE Announce(a) \/ StartCall(a) \/ NotExecuted(a) \/ Execute(a) \/ Returns(a) \/ Tell(a)
    <3>1. UNCHANGED tokens /\ reply' = reply /\ at[a] \notin {"ended", "answered"}
      BY <2>2 DEF Announce, StartCall, NotExecuted, Execute, Returns, Tell, talk
    <3>2. Go(a, "call") \/ Go(a, "started") \/ Go(a, "tells") \/ Go(a, "executing")
            \/ Go(a, "turn")
      BY <2>2 DEF Announce, StartCall, NotExecuted, Execute, Returns, Tell
    <3>3. \E where : where # "answered" /\ Go(a, where)
      BY <3>2
    <3> QED BY <3>1, <3>3 DEF Uncounted
  <2> QED BY <1>2, <2>1, <2>2 DEF ToolCall
<1>3. ASSUME NEW a \in Agents, EmitRaises(a) PROVE TokenInv'
  <2>1. Uncounted(a)
    BY <1>3 DEF EmitRaises, End, Uncounted, talk
  <2> QED BY <2>1, UncountedStep
<1>4. ASSUME NEW a \in Agents, Interrupted(a) PROVE TokenInv'
  <2>1. /\ at[a] # "ended" /\ Go(a, "ended") /\ marked' = (marked \/ at[a] = "asking")
        /\ at[a] = "answered" => SuspendingEmits
        /\ UNCHANGED <<spent, reported, total, consumed, reply>>
    BY <1>4 DEF Interrupted, End, talk
  <2>2. (total < MaxTokens \/ total < MaxTokens + Cardinality(Ended) * MaxCost)'
    BY <2>1, BoundStays
  <2>3. \A b \in Agents : ~SuspendingEmits => Pending(b)' = Pending(b)
    BY <2>1 DEF Pending, Go, LogTypes
  <2>4. marked' \in BOOLEAN /\ (~marked' => ~marked)
    BY <2>1 DEF TokenInv
  <2> QED BY <2>1, <2>2, <2>3, <2>4 DEF TokenInv
<1> QED BY <1>1, <1>2, <1>3, <1>4, TurnCounts DEF LoopNext, AgentNext

LEMMA TokensInit == LoopInit => TokenInv
<1> SUFFICES ASSUME LoopInit PROVE TokenInv
  OBVIOUS
<1>1. reported \in [Agents -> {0}]
  BY DEF LoopInit
<1>2. Total(reported) = 0
  BY <1>1, TotalOfZeros
<1>3. /\ spent \in Counts /\ reported \in Counts /\ consumed \in Counts
      /\ total = 0 /\ marked = FALSE /\ spent = reported /\ consumed = reported
  BY DEF LoopInit, Counts
<1>4. \A a \in Agents : reply[a].cost = 0 /\ Pending(a) = 0 /\ reported[a] = 0
  BY DEF LoopInit, NoReply, Pending, Start
<1>5. total \in Nat /\ total = Total(reported) /\ total < MaxTokens
  BY <1>2, <1>3, LoopAssumption
<1>6. marked \in BOOLEAN
  BY <1>3
<1>7. ASSUME NEW a \in Agents
      PROVE  reply[a].cost <= MaxCost /\ consumed[a] = reported[a] + Pending(a)
  <2>1. reply[a].cost = 0 /\ Pending(a) = 0 /\ reported[a] = 0 /\ consumed[a] = reported[a]
    BY <1>3, <1>4
  <2>2. MaxCost \in Nat
    BY LoopAssumption
  <2> QED BY <2>1, <2>2
<1> QED BY <1>3, <1>5, <1>7, <1>6 DEF TokenInv

(* TokensAccounted: the agents of one Run, however many, pass its token    *)
(* limit together by less than a request each; and where the emit that     *)
(* ends a phase does not suspend, what the model has used is what the      *)
(* kernel counts, or the count is marked (execution_observer.py).          *)
THEOREM TokensAreCounted == LoopSpec => []TokensAccounted
<1>1. LogTypes /\ TokenInv /\ [LoopNext]_loopVars => (LogTypes /\ TokenInv)'
  BY TokensStep, TypesNext, LoopAssumption
<1>2. LoopInit => LogTypes /\ TokenInv
  BY TokensInit, TypesInit
<1>3. LogTypes /\ TokenInv => TokensAccounted
  <2> SUFFICES ASSUME LogTypes, TokenInv PROVE TokensAccounted
    OBVIOUS
  <2>2. total < MaxTokens + Cardinality(Agents) * MaxCost
    <3>1. IsFiniteSet(Ended) /\ Cardinality(Ended) <= Cardinality(Agents)
      BY LoopAssumption, FS_Subset DEF Ended
    <3> DEFINE n == Cardinality(Ended)
               k == Cardinality(Agents)
               t == total
    <3>2. n \in Nat /\ k \in Nat /\ n <= k /\ MaxCost \in Nat /\ MaxTokens \in Nat /\ t \in Nat
      BY <3>1, LoopAssumption, FS_CardinalityType DEF TokenInv
    <3>3. t < MaxTokens \/ t < MaxTokens + n * MaxCost
      BY DEF TokenInv
    <3> HIDE DEF n, k, t
    <3>4. n * MaxCost <= k * MaxCost /\ n * MaxCost \in Nat /\ k * MaxCost \in Nat
      BY <3>2
    <3>5. t < MaxTokens + k * MaxCost
      BY <3>2, <3>3, <3>4
    <3> QED BY <3>5 DEF t, k
  <2>3. ASSUME ~SuspendingEmits, \A b \in Agents : at[b] = "ended", ~marked
        PROVE  total = Total(consumed)
    <3>1. \A b \in Agents : consumed[b] = reported[b]
      BY <2>3 DEF TokenInv, Counts, Pending
    <3>2. consumed = reported
      BY <3>1 DEF TokenInv, Counts
    <3> QED BY <3>2 DEF TokenInv
  <2> QED BY <2>2, <2>3 DEF TokensAccounted
<1> QED BY <1>1, <1>2, <1>3, PTL DEF LoopSpec

-----------------------------------------------------------------------------
(* The shapes of messages: anchored at the request, calls followed by      *)
(* their results; and what is left of them when the oldest are cut.        *)

Roles == {"user", "assistant", "current", "tool"}
MessageType ==
  [role : Roles, ops : Seq(Nat \X Nat), size : Nat, records : BOOLEAN, ok : BOOLEAN]
Messages == Seq(MessageType)

(* One current request; what is before it holds no calls and no results.   *)
Anchor(m, c) ==
  /\ c \in DOMAIN m /\ m[c].role = "current"
  /\ \A i \in DOMAIN m : m[i].role = "current" => i = c
  /\ \A i \in DOMAIN m : i <= c => m[i].ops = <<>> /\ m[i].role # "tool"
Anchored(m) == \E c \in DOMAIN m : Anchor(m, c)

(* The calls of a message are followed by their results, as far as there   *)
(* are messages; a result follows its call; and but for one message, all   *)
(* results are there.                                                      *)
Following(m) ==
  \A i \in DOMAIN m : \A k \in 1 .. Len(m[i].ops) :
    m[i].role = "assistant" /\ i + k \in DOMAIN m =>
      m[i + k].role = "tool" /\ m[i + k].ops = <<m[i].ops[k]>>
Backed(m) ==
  \A i \in ToolResults(m) : \E j \in 1 .. (i - 1) :
    m[j].role = "assistant" /\ i - j <= Len(m[j].ops)
AnsweredBut(m, n) ==
  \A i \in DOMAIN m : i # n /\ m[i].role = "assistant" => i + Len(m[i].ops) <= Len(m)

Same(x, y) == x.role = y.role /\ x.ops = y.ops /\ x.ok = y.ok
(* r is m without its first d messages, but for sizes.                     *)
Suffix(m, r, d) ==
  /\ m \in Messages /\ r \in Messages /\ d \in 0 .. Len(m) /\ Len(r) = Len(m) - d
  /\ \A i \in 1 .. Len(r) : Same(r[i], m[i + d])

LEMMA CurrentIsAnchor ==
  ASSUME NEW m, NEW c, Anchor(m, c)
  PROVE  Current(m) = c
  BY DEF Anchor, Current

LEMMA LeastExists ==
  ASSUME NEW S \in SUBSET Nat, S # {}
  PROVE  \E n \in S : \A k \in S : n <= k
<1> DEFINE R == OpToRel(<, Nat)
<1>1. \E x \in S : \A y \in S : ~ (<<y, x>> \in R)
  BY NatLessThanWellFounded, WFMin
<1>2. \A x, y \in Nat : y < x => <<y, x>> \in R
  BY DEF OpToRel
<1> HIDE DEF R
<1>3. PICK x \in S : \A y \in S : ~ (<<y, x>> \in R)
  BY <1>1
<1>4. \A y \in S : ~(y < x)
  BY <1>2, <1>3
<1> QED BY <1>4

LEMMA GreatestExists ==
  ASSUME NEW n \in Nat, NEW S \in SUBSET (1 .. n), S # {}
  PROVE  Greatest(S) \in S /\ \A j \in S : j <= Greatest(S)
<1> DEFINE T == {n - x : x \in S}
<1>1. T \in SUBSET Nat /\ T # {}
  <2>1. \A x \in S : n - x \in Nat /\ n - x \in T
    OBVIOUS
  <2>2. T \in SUBSET Nat
    BY <2>1
  <2>3. PICK x : x \in S
    OBVIOUS
  <2> QED BY <2>1, <2>2, <2>3
<1>2. PICK t \in T : \A k \in T : t <= k
  BY <1>1, LeastExists
<1>3. PICK x \in S : t = n - x
  BY <1>2
<1>4. \A j \in S : j <= x
  <2> TAKE j \in S
  <2>1. n - j \in T
    OBVIOUS
  <2> QED BY <1>2, <1>3, <2>1
<1> QED BY <1>4 DEF Greatest

(* What Cut shortens and where it cuts.                                    *)
Short(m, n) ==
  First(RecordResults(m), Share(n, Resources, Cardinality(RecordResults(m))))
    \cup First(OwnResults(m), Share(n, CutTurns(m), Cardinality(OwnResults(m))))
From(m, n) ==
  LET turns == First(Turns(m), Share(n, CutMemories(m), Cardinality(Turns(m))))
  IN  IF turns = {} THEN 1 ELSE Greatest(turns)

LEMMA CutIs ==
  ASSUME NEW m, NEW n
  PROVE  Cut(m, n) = SubSeq([i \in DOMAIN m |-> IF i \in Short(m, n) THEN Summary(m[i]) ELSE m[i]],
                            From(m, n), Len(m))
  BY DEF Cut, Short, From

LEMMA FromIs ==
  ASSUME NEW m, NEW c, m \in Messages, Anchor(m, c), NEW n
  PROVE  From(m, n) \in 1 .. c
<1>1. c \in 1 .. Len(m) /\ Len(m) \in Nat /\ Current(m) = c
  BY CurrentIsAnchor DEF Anchor, Messages
<1>2. Turns(m) \in SUBSET (1 .. c)
  BY <1>1 DEF Turns
<1> DEFINE turns == First(Turns(m), Share(n, CutMemories(m), Cardinality(Turns(m))))
<1>3. turns \in SUBSET (1 .. c)
  BY <1>2 DEF First
<1>4. turns # {} => Greatest(turns) \in turns
  <2> HIDE DEF turns
  <2>1. c \in Nat
    BY <1>1
  <2> QED BY <1>3, <2>1, GreatestExists
<1> QED BY <1>1, <1>3, <1>4 DEF From

LEMMA SummaryIs ==
  ASSUME NEW x \in MessageType
  PROVE  /\ Summary(x) \in MessageType /\ Same(Summary(x), x) /\ Summary(x).size = 1
         /\ Same(x, x)
  BY DEF Summary, MessageType, Same

LEMMA CutKeeps ==
  ASSUME NEW m, NEW c, m \in Messages, Anchor(m, c), NEW n
  PROVE  /\ From(m, n) \in 1 .. c /\ c <= Len(m)
         /\ Suffix(m, Cut(m, n), From(m, n) - 1)
         /\ \A i \in 1 .. Len(Cut(m, n)) :
              Cut(m, n)[i].size = IF i + From(m, n) - 1 \in Short(m, n)
                                  THEN 1 ELSE m[i + From(m, n) - 1].size
<1> DEFINE g == [i \in DOMAIN m |-> IF i \in Short(m, n) THEN Summary(m[i]) ELSE m[i]]
           f == From(m, n)
           L == Len(m)
<1>1. f \in 1 .. c /\ c \in 1 .. L /\ L \in Nat /\ DOMAIN m = 1 .. L
  BY FromIs DEF Anchor, Messages
<1>2. \A i \in 1 .. L : m[i] \in MessageType
  BY DEF Messages
<1>3. \A i \in 1 .. L : /\ g[i] \in MessageType /\ Same(g[i], m[i])
                        /\ g[i].size = IF i \in Short(m, n) THEN 1 ELSE m[i].size
  BY <1>1, <1>2, SummaryIs
<1>4. Cut(m, n) = SubSeq(g, f, L)
  BY CutIs
<1> HIDE DEF g, f, L
<1>5. /\ SubSeq(g, f, L) \in Messages /\ Len(SubSeq(g, f, L)) = L - f + 1
      /\ \A i \in 1 .. (L - f + 1) : SubSeq(g, f, L)[i] = g[f + i - 1]
  <2>1. f \in Int /\ L \in Int /\ f <= L /\ \A i \in f .. L : g[i] \in MessageType
    BY <1>1, <1>3
  <2> QED BY <2>1, SubSeqProperties DEF Messages
<1>6. \A i \in 1 .. (L - f + 1) : f + i - 1 \in 1 .. L /\ f + i - 1 = i + (f - 1) /\ i + f - 1 = f + i - 1
  BY <1>1
<1>7. \A i \in 1 .. (L - f + 1) :
        /\ Same(Cut(m, n)[i], m[i + (f - 1)])
        /\ Cut(m, n)[i].size = IF i + f - 1 \in Short(m, n) THEN 1 ELSE m[i + f - 1].size
  BY <1>3, <1>4, <1>5, <1>6
<1>8. f - 1 \in 0 .. L /\ L - f + 1 = L - (f - 1)
  BY <1>1
<1>9. /\ Cut(m, n) \in Messages /\ Len(Cut(m, n)) = L - (f - 1)
      /\ \A i \in 1 .. (L - (f - 1)) :
           /\ Same(Cut(m, n)[i], m[i + (f - 1)])
           /\ Cut(m, n)[i].size = IF i + f - 1 \in Short(m, n) THEN 1 ELSE m[i + f - 1].size
  BY <1>4, <1>5, <1>7, <1>8
<1>10. Suffix(m, Cut(m, n), f - 1)
  BY <1>8, <1>9 DEF Suffix, L
<1> QED BY <1>1, <1>9, <1>10 DEF f, L

(* What holds of messages holds of what is left of them.                   *)
LEMMA SuffixFacts ==
  ASSUME NEW m, NEW r, NEW d, Suffix(m, r, d)
  PROVE  /\ DOMAIN m = 1 .. Len(m) /\ DOMAIN r = 1 .. Len(r) /\ Len(m) \in Nat /\ Len(r) \in Nat
         /\ d \in Nat /\ Len(r) + d = Len(m)
         /\ \A i \in DOMAIN r : /\ i + d \in DOMAIN m /\ r[i].role = m[i + d].role
                                /\ r[i].ops = m[i + d].ops /\ r[i].ok = m[i + d].ok
         /\ \A i \in DOMAIN m : Len(m[i].ops) \in Nat
<1>1. /\ DOMAIN m = 1 .. Len(m) /\ DOMAIN r = 1 .. Len(r) /\ Len(m) \in Nat /\ Len(r) \in Nat
      /\ \A i \in DOMAIN m : m[i] \in MessageType
  BY DEF Suffix, Messages
<1>2. \A i \in DOMAIN m : Len(m[i].ops) \in Nat
  BY <1>1 DEF MessageType
<1> QED BY <1>1, <1>2 DEF Suffix, Same

LEMMA AnchorSuffix ==
  ASSUME NEW m, NEW r, NEW d, Suffix(m, r, d), NEW c, Anchor(m, c), d < c
  PROVE  Anchor(r, c - d) /\ c - d \in DOMAIN r
<1>1. c \in Nat /\ c \in DOMAIN m /\ c - d \in DOMAIN r /\ (c - d) + d = c
  BY SuffixFacts DEF Anchor
<1>2. r[c - d].role = "current"
  BY <1>1, SuffixFacts DEF Anchor
<1>3. ASSUME NEW i \in DOMAIN r, r[i].role = "current" PROVE i = c - d
  <2>1. i + d = c
    BY <1>3, SuffixFacts DEF Anchor
  <2> QED BY <1>1, <2>1, SuffixFacts
<1>4. ASSUME NEW i \in DOMAIN r, i <= c - d PROVE r[i].ops = <<>> /\ r[i].role # "tool"
  <2>1. i + d \in DOMAIN m /\ i + d <= c
    BY <1>1, <1>4, SuffixFacts
  <2> QED BY <1>4, <2>1, SuffixFacts DEF Anchor
<1> QED BY <1>1, <1>2, <1>3, <1>4 DEF Anchor

LEMMA TalkSuffix ==
  ASSUME NEW m, NEW r, NEW d, Suffix(m, r, d)
  PROVE  /\ Following(m) => Following(r)
         /\ AnsweredBut(m, 0) => AnsweredBut(r, 0)
         /\ \A i \in ToolResults(r) : i + d \in ToolResults(m)
<1>1. ASSUME Following(m) PROVE Following(r)
  <2> SUFFICES ASSUME NEW i \in DOMAIN r, NEW k \in 1 .. Len(r[i].ops),
                      r[i].role = "assistant", i + k \in DOMAIN r
               PROVE  r[i + k].role = "tool" /\ r[i + k].ops = <<r[i].ops[k]>>
    BY DEF Following
  <2>1. /\ i + d \in DOMAIN m /\ k \in 1 .. Len(m[i + d].ops) /\ m[i + d].role = "assistant"
        /\ (i + k) + d \in DOMAIN m /\ k \in Nat /\ i \in Nat /\ d \in Nat
    <3>1. /\ i + d \in DOMAIN m /\ m[i + d].role = r[i].role /\ m[i + d].ops = r[i].ops
          /\ (i + k) + d \in DOMAIN m
      BY SuffixFacts
    <3>2. k \in Nat /\ i \in Nat /\ d \in Nat
      BY SuffixFacts
    <3> QED BY <3>1, <3>2
  <2>2. (i + k) + d = (i + d) + k
    BY <2>1
  <2>3. m[(i + d) + k].role = "tool" /\ m[(i + d) + k].ops = <<m[i + d].ops[k]>>
    BY <1>1, <2>1, <2>2 DEF Following
  <2>4. /\ i + k \in DOMAIN r /\ r[i + k].role = m[(i + k) + d].role
        /\ r[i + k].ops = m[(i + k) + d].ops /\ r[i].ops = m[i + d].ops
    BY SuffixFacts
  <2> QED BY <2>2, <2>3, <2>4
<1>2. ASSUME AnsweredBut(m, 0) PROVE AnsweredBut(r, 0)
  <2> SUFFICES ASSUME NEW i \in DOMAIN r, r[i].role = "assistant"
               PROVE  i + Len(r[i].ops) <= Len(r)
    BY DEF AnsweredBut
  <2>1. i + d \in DOMAIN m /\ i + d # 0 /\ m[i + d].role = "assistant" /\ m[i + d].ops = r[i].ops
    BY SuffixFacts
  <2>2. (i + d) + Len(r[i].ops) <= Len(m) /\ Len(r[i].ops) \in Nat
    BY <1>2, <2>1, SuffixFacts DEF AnsweredBut
  <2> QED BY <2>2, SuffixFacts
<1>3. \A i \in ToolResults(r) : i + d \in ToolResults(m)
  BY SuffixFacts DEF ToolResults
<1> QED BY <1>1, <1>2, <1>3

LEMMA BackedSuffix ==
  ASSUME NEW m, NEW r, NEW d, Suffix(m, r, d), NEW c, Anchor(m, c), d < c, Backed(m)
  PROVE  Backed(r)
<1> SUFFICES ASSUME NEW i \in ToolResults(r)
             PROVE  \E j \in 1 .. (i - 1) : r[j].role = "assistant" /\ i - j <= Len(r[j].ops)
  BY DEF Backed
<1>1. i \in DOMAIN r /\ i + d \in ToolResults(m) /\ i + d \in DOMAIN m
  BY TalkSuffix, SuffixFacts DEF ToolResults
<1>2. PICK j \in 1 .. ((i + d) - 1) : m[j].role = "assistant" /\ (i + d) - j <= Len(m[j].ops)
  BY <1>1 DEF Backed
<1>3. /\ DOMAIN m = 1 .. Len(m) /\ DOMAIN r = 1 .. Len(r) /\ Len(m) \in Nat
      /\ Len(r) \in Nat /\ d \in Nat /\ Len(r) + d = Len(m) /\ c \in DOMAIN m
  BY SuffixFacts DEF Anchor
<1>4. j \in DOMAIN m /\ j \in Nat /\ i \in Nat /\ d \in Nat /\ c \in Nat
  BY <1>3, <1>1, <1>2
<1>5. j > c
  <2>1. CASE j <= c
    <3>1. m[j].ops = <<>>
      BY <1>4, <2>1 DEF Anchor
    <3>2. Len(m[j].ops) = 0
      BY <3>1
    <3> QED BY <1>2, <1>4, <3>2
  <2> QED BY <1>4, <2>1
<1>6. j - d \in 1 .. (i - 1) /\ j - d \in DOMAIN r /\ (j - d) + d = j
  <2>1. j \in 1 .. ((i + d) - 1) /\ i <= Len(r)
    BY <1>1, <1>2, <1>3
  <2>2. j - d \in 1 .. (i - 1) /\ (j - d) + d = j
    BY <2>1, <1>4, <1>5
  <2> QED BY <2>1, <2>2, <1>3, <1>4
<1>7. r[j - d].role = "assistant" /\ r[j - d].ops = m[j].ops
  BY <1>2, <1>6, SuffixFacts
<1>8. i - (j - d) = (i + d) - j
  BY <1>4
<1> QED BY <1>2, <1>6, <1>7, <1>8

-----------------------------------------------------------------------------
(* Sizes.                                                                  *)

LEMMA SizeOf ==
  ASSUME NEW m \in Messages
  PROVE  /\ Size(m) = Total([i \in 1 .. Len(m) |-> m[i].size]) /\ Size(m) \in Nat
         /\ [i \in 1 .. Len(m) |-> m[i].size] \in [1 .. Len(m) -> Nat]
         /\ IsFiniteSet(1 .. Len(m)) /\ Len(m) \in Nat
<1>1. DOMAIN m = 1 .. Len(m) /\ Len(m) \in Nat /\ \A i \in 1 .. Len(m) : m[i] \in MessageType
  BY DEF Messages
<1>2. [i \in 1 .. Len(m) |-> m[i].size] \in [1 .. Len(m) -> Nat]
  BY <1>1 DEF MessageType
<1>3. IsFiniteSet(1 .. Len(m))
  <2>1. 1 \in Int /\ Len(m) \in Int
    BY <1>1
  <2> QED BY <2>1, FS_Interval
<1>4. Total([i \in 1 .. Len(m) |-> m[i].size]) \in Nat
  BY <1>2, <1>3, UnitsAreFinite
<1> QED BY <1>1, <1>2, <1>3, <1>4 DEF Size

LEMMA SizeOfBoth ==
  ASSUME NEW s \in Messages, NEW t \in Messages
  PROVE  s \o t \in Messages /\ Size(s \o t) = Size(s) + Size(t)
<1> DEFINE n == Len(s)
           k == Len(t)
           A == 1 .. n
           B == (n + 1) .. (n + k)
           f == [i \in 1 .. (n + k) |-> (s \o t)[i].size]
           g == [i \in A |-> s[i].size]
           K == 1 .. k
           e == [i \in K |-> t[i].size]
           h == [i \in B |-> t[i - n].size]
           sh == [i \in K |-> i + n]
<1>1. /\ s \o t \in Messages /\ Len(s \o t) = n + k /\ n \in Nat /\ k \in Nat
      /\ \A i \in 1 .. (n + k) : (s \o t)[i] = IF i <= n THEN s[i] ELSE t[i - n]
  BY ConcatProperties, LenProperties DEF Messages
<1>2. /\ Size(s \o t) = Total(f) /\ f \in [1 .. (n + k) -> Nat]
      /\ Size(s) = Total(g) /\ g \in [A -> Nat] /\ Size(t) = Total(e) /\ e \in [1 .. k -> Nat]
      /\ IsFiniteSet(A) /\ IsFiniteSet(1 .. k)
  BY <1>1, SizeOf
<1>3. sh \in Bijection(1 .. k, B)
  <2>1. sh \in [1 .. k -> B]
    BY <1>1
  <2>2. \A x, y \in 1 .. k : sh[x] = sh[y] => x = y
    BY <1>1
  <2>3. \A z \in B : z - n \in 1 .. k /\ sh[z - n] = z
    BY <1>1
  <2> QED BY <2>1, <2>2, <2>3 DEF Bijection, Injection, Surjection, IsInjective
<1>4. h \in [B -> Nat] /\ \A x \in 1 .. k : h[sh[x]] = e[x]
  <2>1. \A z \in B : z - n \in 1 .. k /\ t[z - n].size = e[z - n]
    BY <1>1
  <2>2. h \in [B -> Nat]
    BY <1>2, <2>1
  <2>3. \A x \in 1 .. k : x + n \in B /\ (x + n) - n = x
    BY <1>1
  <2> QED BY <2>2, <2>3
<1>5. (1 .. (n + k)) = A \cup B /\ A \cap B = {}
  BY <1>1
<1>6. (\A x \in A : f[x] = g[x]) /\ (\A x \in B : f[x] = h[x])
  <2>1. \A x \in A : x \in 1 .. (n + k) /\ x <= n
    BY <1>1
  <2>2. \A x \in B : x \in 1 .. (n + k) /\ ~(x <= n)
    BY <1>1
  <2> QED BY <1>1, <2>1, <2>2
<1>7. IsFiniteSet(B)
  <2>1. n + 1 \in Int /\ n + k \in Int
    BY <1>1
  <2> QED BY <2>1, FS_Interval
<1>8. /\ IsFiniteSet(K) /\ e \in [K -> Nat] /\ sh \in Bijection(K, B)
      /\ \A x \in K : h[sh[x]] = e[x]
  BY <1>2, <1>3, <1>4
<1>9. f \in [A \cup B -> Nat]
  BY <1>2, <1>5
<1> HIDE DEF A, B, f, g, e, h, sh, n, k, K
<1>10. Total(h) = Total(e)
  <2>1. h \in [B -> Nat]
    BY <1>4
  <2> QED BY <1>8, <2>1, TotalRenamed
<1>11. Total(f) = Total(g) + Total(h)
  <2>1. /\ IsFiniteSet(A) /\ IsFiniteSet(B) /\ A \cap B = {} /\ g \in [A -> Nat]
        /\ h \in [B -> Nat]
    BY <1>2, <1>4, <1>5, <1>7
  <2> QED BY <1>6, <1>9, <2>1, TotalOfParts
<1> QED BY <1>1, <1>2, <1>10, <1>11

LEMMA BlockIs ==
  ASSUME NEW x \in Nat
  PROVE  /\ Block(x) \in Messages /\ Len(Block(x)) \in 0 .. 1 /\ Size(Block(x)) = x
         /\ \A i \in 1 .. Len(Block(x)) : Block(x)[i].role = "user" /\ Block(x)[i].ops = <<>>
<1>1. Message("user", <<>>, x) \in MessageType
  <2>1. <<>> \in Seq(Nat \X Nat)
    OBVIOUS
  <2> QED BY <2>1 DEF Message, MessageType, Roles
<1>2. CASE x = 0
  <2>1. Block(x) = <<>> /\ <<>> \in Messages /\ Len(<<>>) = 0
    BY <1>2 DEF Block, Messages
  <2>2. Size(<<>>) = Total([i \in 1 .. 0 |-> <<>>[i].size])
    BY <2>1, SizeOf
  <2>3. [i \in 1 .. 0 |-> <<>>[i].size] \in [1 .. 0 -> {0}]
    OBVIOUS
  <2>4. Size(<<>>) = 0
    BY <2>2, <2>3, TotalOfZeros
  <2> QED BY <1>2, <2>1, <2>4
<1>3. CASE x # 0
  <2> DEFINE b == <<Message("user", <<>>, x)>>
             f == [i \in 1 .. Len(b) |-> b[i].size]
  <2>1. Block(x) = b /\ b \in Messages /\ Len(b) = 1 /\ b[1] = Message("user", <<>>, x)
    BY <1>1, <1>3 DEF Block, Messages
  <2>2. b[1].role = "user" /\ b[1].ops = <<>> /\ b[1].size = x
    BY <2>1 DEF Message
  <2>3. f \in [{1} -> Nat] /\ f[1] = x
    BY <2>1, <2>2
  <2>4. Size(b) = Total(f)
    BY <2>1, SizeOf
  <2> HIDE DEF f, b
  <2>5. Size(b) = x
    BY <2>3, <2>4, TotalOfOne
  <2> QED BY <2>1, <2>2, <2>5
<1> QED BY <1>2, <1>3

-----------------------------------------------------------------------------
(* A prompt: what the assembler puts before the request.                   *)

(* p is m with b messages of the assembler's own before the request at c.  *)
Inserted(m, p, c, b) ==
  /\ p \in Messages /\ b \in Nat /\ Len(p) = Len(m) + b
  /\ \A i \in 1 .. (c - 1) : p[i] = m[i]
  /\ \A i \in c .. (c + b - 1) : p[i].role = "user" /\ p[i].ops = <<>>
  /\ \A i \in c .. Len(m) : p[i + b] = m[i]

LEMMA MessagesAre ==
  ASSUME NEW m \in Messages
  PROVE  /\ Len(m) \in Nat /\ DOMAIN m = 1 .. Len(m)
         /\ \A i \in 1 .. Len(m) : m[i] \in MessageType /\ Len(m[i].ops) \in Nat
<1>1. \A i \in 1 .. Len(m) : m[i] \in MessageType
  BY DEF Messages
<1>2. \A i \in 1 .. Len(m) : Len(m[i].ops) \in Nat
  BY <1>1 DEF MessageType
<1> QED BY <1>1, <1>2 DEF Messages

(* One sequence of messages after another.                                 *)
Joins(s, t) == s \o t
IsJoint(r, s, t) ==
  /\ r \in Messages /\ Len(r) = Len(s) + Len(t) /\ Size(r) = Size(s) + Size(t)
  /\ \A i \in 1 .. Len(s) : r[i] = s[i]
  /\ \A i \in 1 .. Len(t) : r[Len(s) + i] = t[i]

LEMMA Joined ==
  ASSUME NEW s \in Messages, NEW t \in Messages, NEW r, r = Joins(s, t)
  PROVE  IsJoint(r, s, t)
<1>1. /\ Len(r) = Len(s) + Len(t) /\ Len(s) \in Nat /\ Len(t) \in Nat
      /\ \A i \in 1 .. Len(s) + Len(t) : r[i] = IF i <= Len(s) THEN s[i] ELSE t[i - Len(s)]
  BY ConcatProperties, MessagesAre DEF Messages, Joins
<1>2. \A i \in 1 .. Len(s) : i \in 1 .. (Len(s) + Len(t)) /\ i <= Len(s)
  BY <1>1
<1>3. \A i \in 1 .. Len(t) : /\ Len(s) + i \in 1 .. (Len(s) + Len(t)) /\ ~(Len(s) + i <= Len(s))
                             /\ (Len(s) + i) - Len(s) = i
  BY <1>1
<1>4. \A i \in 1 .. Len(s) : r[i] = s[i]
  BY <1>1, <1>2
<1>5. \A i \in 1 .. Len(t) : r[Len(s) + i] = t[i]
  BY <1>1, <1>3
<1>6. r \in Messages /\ Size(r) = Size(s) + Size(t)
  BY SizeOfBoth DEF Joins
<1> QED BY <1>1, <1>4, <1>5, <1>6 DEF IsJoint

(* m with two further sequences between its two parts.                     *)
Spliced(m, p, c, b, B, C) ==
  /\ p \in Messages /\ b \in Nat /\ Len(p) = Len(m) + b
  /\ Size(p) = Size(m) + Size(B) + Size(C)
  /\ \A i \in 1 .. (c - 1) : p[i] = m[i]
  /\ \A i \in c .. (c + b - 1) : \/ \E k \in 1 .. Len(B) : p[i] = B[k]
                                \/ \E k \in 1 .. Len(C) : p[i] = C[k]
  /\ \A i \in c .. Len(m) : p[i + b] = m[i]

LEMMA Between ==
  ASSUME NEW A \in Messages, NEW D \in Messages, NEW B \in Messages, NEW C \in Messages,
         NEW m \in Messages, m = Joins(A, D),
         NEW p, p = Joins(Joins(Joins(A, B), C), D),
         NEW b, b = Len(B) + Len(C), NEW c, c = Len(A) + 1
  PROVE  Spliced(m, p, c, b, B, C)
<1>1. PICK P : P = Joins(A, B)
  OBVIOUS
<1>2. PICK Q : Q = Joins(P, C)
  OBVIOUS
<1>3. p = Joins(Q, D)
  BY <1>1, <1>2
<1>4. IsJoint(P, A, B) /\ IsJoint(m, A, D)
  BY <1>1, Joined
<1>5. IsJoint(Q, P, C)
  <2>1. P \in Messages
    BY <1>4 DEF IsJoint
  <2> QED BY <1>2, <2>1, Joined
<1>6. IsJoint(p, Q, D)
  <2>1. Q \in Messages
    BY <1>5 DEF IsJoint
  <2> QED BY <1>3, <2>1, Joined
<1>7. /\ Len(P) = Len(A) + Len(B) /\ Len(m) = Len(A) + Len(D) /\ Len(Q) = Len(P) + Len(C)
      /\ Len(p) = Len(Q) + Len(D)
  BY <1>4, <1>5, <1>6 DEF IsJoint
<1>8. Len(A) \in Nat /\ Len(B) \in Nat /\ Len(C) \in Nat /\ Len(D) \in Nat
  BY MessagesAre
<1>9. b \in Nat /\ Len(p) = Len(m) + b /\ Size(p) = Size(m) + Size(B) + Size(C)
  <2>1. b \in Nat /\ Len(p) = Len(m) + b
    BY <1>7, <1>8
  <2>2. Size(A) \in Nat /\ Size(B) \in Nat /\ Size(C) \in Nat /\ Size(D) \in Nat
    BY SizeOf
  <2>3. /\ Size(p) = Size(Q) + Size(D) /\ Size(Q) = Size(P) + Size(C)
        /\ Size(P) = Size(A) + Size(B) /\ Size(m) = Size(A) + Size(D)
    BY <1>4, <1>5, <1>6 DEF IsJoint
  <2> QED BY <2>1, <2>2, <2>3
<1>10. ASSUME NEW i \in 1 .. (c - 1) PROVE p[i] = m[i]
  <2>1. i \in 1 .. Len(A) /\ i \in 1 .. Len(P) /\ i \in 1 .. Len(Q)
    BY <1>7, <1>8
  <2> QED BY <2>1, <1>4, <1>5, <1>6 DEF IsJoint
<1>11. ASSUME NEW i \in c .. (c + b - 1)
       PROVE  (\E k \in 1 .. Len(B) : p[i] = B[k]) \/ (\E k \in 1 .. Len(C) : p[i] = C[k])
  <2>1. CASE i <= Len(P)
    <3>1. PICK k \in 1 .. Len(B) : i = Len(A) + k
      <4>1. i - Len(A) \in 1 .. Len(B) /\ i = Len(A) + (i - Len(A))
        BY <1>7, <1>8, <2>1
      <4> QED BY <4>1
    <3>2. i \in 1 .. Len(P) /\ i \in 1 .. Len(Q)
      <4>1. i \in Nat /\ 1 <= i /\ Len(P) \in Nat /\ Len(Q) = Len(P) + Len(C)
        BY <1>7, <1>8
      <4> QED BY <4>1, <2>1, <1>8
    <3>3. p[i] = B[k]
      BY <1>4, <1>5, <1>6, <3>1, <3>2 DEF IsJoint
    <3> QED BY <3>3
  <2>2. CASE ~(i <= Len(P))
    <3>1. PICK k \in 1 .. Len(C) : i = Len(P) + k
      <4>1. i \in Nat /\ Len(P) \in Nat /\ i <= Len(P) + Len(C)
        BY <1>7, <1>8
      <4>2. i - Len(P) \in 1 .. Len(C) /\ i = Len(P) + (i - Len(P))
        BY <4>1, <2>2, <1>8
      <4> QED BY <4>2
    <3>2. i \in 1 .. Len(Q)
      BY <1>7, <1>8, <3>1
    <3>3. p[i] = C[k]
      BY <1>5, <1>6, <3>1, <3>2 DEF IsJoint
    <3> QED BY <3>3
  <2> QED BY <2>1, <2>2
<1>12. ASSUME NEW i \in c .. Len(m) PROVE p[i + b] = m[i]
  <2>1. PICK k \in 1 .. Len(D) : i = Len(A) + k
    <3>1. i - Len(A) \in 1 .. Len(D) /\ i = Len(A) + (i - Len(A))
      BY <1>7, <1>8
    <3> QED BY <3>1
  <2>2. i + b = Len(Q) + k
    BY <2>1, <1>7, <1>8
  <2>3. p[Len(Q) + k] = D[k] /\ m[Len(A) + k] = D[k]
    BY <1>6, <1>4 DEF IsJoint
  <2> QED BY <2>1, <2>2, <2>3
<1> QED BY <1>6, <1>9, <1>10, <1>11, <1>12 DEF IsJoint, Spliced

LEMMA Parts ==
  ASSUME NEW m \in Messages, NEW c \in 1 .. Len(m)
  PROVE  /\ SubSeq(m, 1, c - 1) \in Messages /\ Len(SubSeq(m, 1, c - 1)) = c - 1
         /\ SubSeq(m, c, Len(m)) \in Messages
         /\ m = SubSeq(m, 1, c - 1) \o SubSeq(m, c, Len(m))
<1>1. Len(m) \in Nat /\ c \in Nat /\ \A i \in 1 .. Len(m) : m[i] \in MessageType
  BY MessagesAre
<1>2. SubSeq(m, 1, c - 1) \in Messages /\ Len(SubSeq(m, 1, c - 1)) = c - 1
  <2>1. 1 \in Int /\ c - 1 \in Int /\ \A i \in 1 .. (c - 1) : m[i] \in MessageType
    BY <1>1
  <2>2. SubSeq(m, 1, c - 1) \in Seq(MessageType)
        /\ Len(SubSeq(m, 1, c - 1)) = IF 1 <= c - 1 THEN (c - 1) - 1 + 1 ELSE 0
    BY <2>1, SubSeqProperties
  <2>3. (IF 1 <= c - 1 THEN (c - 1) - 1 + 1 ELSE 0) = c - 1
    BY <1>1
  <2> QED BY <2>2, <2>3 DEF Messages
<1>3. SubSeq(m, c, Len(m)) \in Messages
  <2>1. Len(m) \in Int /\ c \in Int /\ \A i \in c .. Len(m) : m[i] \in MessageType
    BY <1>1
  <2> QED BY <2>1, SubSeqProperties DEF Messages
<1>4. SubSeq(m, 1, c - 1) \o SubSeq(m, (c - 1) + 1, Len(m)) = SubSeq(m, 1, Len(m))
  <2>1. 1 \in 1 .. Len(m) + 1 /\ c - 1 \in 1 - 1 .. Len(m) /\ Len(m) \in c - 1 .. Len(m)
    BY <1>1
  <2> QED BY <2>1, ConcatAdjacentSubSeq DEF Messages
<1>5. (c - 1) + 1 = c /\ SubSeq(m, 1, Len(m)) = m
  BY <1>1, SubSeqFull DEF Messages
<1> QED BY <1>2, <1>3, <1>4, <1>5

(* Two blocks put before the message at c.                                 *)
WithBlocks(m, c, x, y) ==
  SubSeq(m, 1, c - 1) \o Block(x) \o Block(y) \o SubSeq(m, c, Len(m))

LEMMA InsertedIs ==
  ASSUME NEW m \in Messages, NEW c, Anchor(m, c), NEW x \in Nat, NEW y \in Nat, NEW p,
         p = WithBlocks(m, c, x, y)
  PROVE  Size(p) = Size(m) + x + y /\ \E b \in Nat : Inserted(m, p, c, b)
<1>1. PICK A, D : A = SubSeq(m, 1, c - 1) /\ D = SubSeq(m, c, Len(m))
  OBVIOUS
<1>2. PICK B, C : B = Block(x) /\ C = Block(y)
  OBVIOUS
<1>3. A \in Messages /\ D \in Messages /\ m = Joins(A, D) /\ c = Len(A) + 1
  <2>1. c \in 1 .. Len(m) /\ (c - 1) + 1 = c
    BY MessagesAre DEF Anchor
  <2> QED BY <1>1, <2>1, Parts DEF Joins
<1>4. /\ B \in Messages /\ C \in Messages /\ Size(B) = x /\ Size(C) = y
      /\ \A i \in 1 .. Len(B) : B[i].role = "user" /\ B[i].ops = <<>>
      /\ \A i \in 1 .. Len(C) : C[i].role = "user" /\ C[i].ops = <<>>
  BY <1>2, BlockIs
<1>5. p = Joins(Joins(Joins(A, B), C), D)
  BY <1>1, <1>2 DEF Joins, WithBlocks
<1>6. PICK b : b = Len(B) + Len(C)
  OBVIOUS
<1>7. Spliced(m, p, c, b, B, C)
  BY <1>3, <1>4, <1>5, <1>6, Between
<1>8. Inserted(m, p, c, b)
  BY <1>4, <1>7 DEF Inserted, Spliced
<1> QED BY <1>4, <1>7, <1>8 DEF Spliced

LEMMA PromptShape ==
  ASSUME NEW m \in Messages, NEW c, Anchor(m, c), NEW p, NEW b, Inserted(m, p, c, b),
         Following(m), AnsweredBut(m, 0), Backed(m)
  PROVE  /\ PairsComplete(p)
         /\ {i \in DOMAIN p : p[i].role = "current"} = {c + b}
         /\ \A i \in ToolResults(p) : i - b \in ToolResults(m) /\ p[i] = m[i - b]
<1> DEFINE L == Len(m)
<1>1. /\ c \in 1 .. L /\ L \in Nat /\ DOMAIN m = 1 .. L /\ b \in Nat /\ DOMAIN p = 1 .. (L + b)
      /\ \A i \in 1 .. L : Len(m[i].ops) \in Nat
  BY MessagesAre DEF Anchor, Inserted
(* Where a message of the prompt comes from.                               *)
<1>2. ASSUME NEW i \in DOMAIN p
      PROVE  \/ i < c + b /\ p[i].ops = <<>> /\ p[i].role \notin {"current", "tool"}
             \/ i >= c + b /\ i - b \in c .. L /\ p[i] = m[i - b]
  <2>1. CASE i < c
    <3>1. i \in 1 .. (c - 1) /\ i \in DOMAIN m /\ i <= c /\ i # c /\ i < c + b
      BY <1>1, <2>1
    <3>2. p[i] = m[i]
      BY <3>1 DEF Inserted
    <3> QED BY <3>1, <3>2 DEF Anchor
  <2>2. CASE i >= c /\ i < c + b
    <3>1. i \in c .. (c + b - 1)
      BY <1>1, <2>2
    <3> QED BY <2>2, <3>1 DEF Inserted
  <2>3. CASE i >= c + b
    <3>1. i - b \in c .. L /\ (i - b) + b = i
      BY <1>1, <2>3
    <3> QED BY <2>3, <3>1 DEF Inserted
  <2> QED BY <1>1, <2>1, <2>2, <2>3
<1>3. {i \in DOMAIN p : p[i].role = "current"} = {c + b}
  <2>1. c + b \in DOMAIN p /\ c \in c .. L
    BY <1>1
  <2>2. p[c + b].role = "current"
    BY <2>1 DEF Inserted, Anchor
  <2>3. ASSUME NEW i \in DOMAIN p, p[i].role = "current" PROVE i = c + b
    <3>1. i - b \in c .. L /\ m[i - b].role = "current" /\ i - b \in DOMAIN m
      BY <1>1, <1>2, <2>3
    <3>2. i - b = c
      BY <3>1 DEF Anchor
    <3>3. i \in Nat /\ b \in Nat
      BY <1>1
    <3> QED BY <3>2, <3>3
  <2> QED BY <2>1, <2>2, <2>3
<1>4. ASSUME NEW i \in ToolResults(p)
      PROVE  i - b \in ToolResults(m) /\ p[i] = m[i - b] /\ i - b >= c
  <2>1. i \in DOMAIN p /\ p[i].role = "tool"
    BY DEF ToolResults
  <2>2. i - b \in c .. L /\ p[i] = m[i - b]
    BY <1>2, <2>1
  <2> QED BY <1>1, <2>1, <2>2 DEF ToolResults
<1>5. ASSUME NEW i \in DOMAIN p, NEW k \in 1 .. Len(p[i].ops), p[i].role = "assistant"
      PROVE  i + k \in DOMAIN p /\ p[i + k].role = "tool" /\ p[i + k].ops = <<p[i].ops[k]>>
  <2>1. i - b \in c .. L /\ p[i] = m[i - b]
    <3>1. p[i].ops # <<>>
      BY <1>5
    <3> QED BY <1>2, <3>1
  <2>2. /\ i - b \in DOMAIN m /\ i - b # 0 /\ m[i - b].role = "assistant"
        /\ k \in 1 .. Len(m[i - b].ops)
    BY <1>1, <1>5, <2>1
  <2>3. (i - b) + Len(m[i - b].ops) <= L
    BY <2>2 DEF AnsweredBut
  <2>4. (i - b) + k \in DOMAIN m /\ (i - b) + k \in c .. L /\ ((i - b) + k) + b = i + k
        /\ i + k \in DOMAIN p
    <3>1. PICK n : n = Len(m[i - b].ops)
      OBVIOUS
    <3>2. n \in Nat /\ k \in 1 .. n /\ (i - b) + n <= L
      BY <1>1, <2>2, <2>3, <3>1
    <3>3. i \in Nat /\ b \in Nat /\ i - b >= c
      BY <1>1, <2>1
    <3>4. (i - b) + k >= c /\ (i - b) + k <= L /\ ((i - b) + k) + b = i + k /\ (i - b) + k \in Int
      BY <1>1, <3>2, <3>3
    <3> QED BY <1>1, <3>3, <3>4
  <2>5. m[(i - b) + k].role = "tool" /\ m[(i - b) + k].ops = <<m[i - b].ops[k]>>
    BY <2>2, <2>4 DEF Following
  <2>6. p[i + k] = m[(i - b) + k]
    BY <2>4 DEF Inserted
  <2> QED BY <2>1, <2>4, <2>5, <2>6
<1>6. ASSUME NEW i \in ToolResults(p)
      PROVE  \E j \in 1 .. (i - 1) : p[j].role = "assistant" /\ i - j <= Len(p[j].ops)
  <2>1. i - b \in ToolResults(m) /\ i - b \in DOMAIN m /\ i \in DOMAIN p
    BY <1>4 DEF ToolResults
  <2>2. PICK j \in 1 .. ((i - b) - 1) : m[j].role = "assistant" /\ (i - b) - j <= Len(m[j].ops)
    BY <2>1 DEF Backed
  <2>3. j \in DOMAIN m /\ j \in Nat /\ i \in Nat
    BY <1>1, <2>1, <2>2
  <2>4. j > c
    <3>1. CASE j <= c
      <4>1. Len(m[j].ops) = 0
        BY <2>3, <3>1 DEF Anchor
      <4> QED BY <1>1, <2>2, <2>3, <4>1
    <3> QED BY <1>1, <2>3, <3>1
  <2>5. j \in c .. L /\ j + b \in 1 .. (i - 1) /\ i - (j + b) = (i - b) - j
    BY <1>1, <2>1, <2>2, <2>3, <2>4
  <2>6. p[j + b] = m[j]
    BY <2>5 DEF Inserted
  <2> QED BY <2>2, <2>5, <2>6
<1>7. PairsComplete(p)
  BY <1>5, <1>6 DEF PairsComplete
<1> QED BY <1>3, <1>4, <1>7

-----------------------------------------------------------------------------
(* What is cut when a prompt does not fit.                                 *)

LEMMA ShareFacts ==
  ASSUME NEW n \in Nat, NEW before \in Nat, NEW many \in Nat
  PROVE  /\ Share(n, before, many) \in 0 .. many
         /\ n >= before + many => Share(n, before, many) = many
  BY DEF Share

(* All of a set are its first ones.                                        *)
LEMMA AllFirst ==
  ASSUME NEW S, IsFiniteSet(S), S \subseteq Int
  PROVE  First(S, Cardinality(S)) = S
<1> SUFFICES ASSUME NEW i \in S PROVE Cardinality({j \in S : j < i}) < Cardinality(S)
  BY DEF First
<1> DEFINE T == {j \in S : j < i}
<1>1. T \in SUBSET S /\ i \notin T
  OBVIOUS
<1>2. Cardinality(T) <= Cardinality(S) /\ (Cardinality(S) = Cardinality(T) => S = T)
      /\ IsFiniteSet(T)
  BY <1>1, FS_Subset
<1>3. Cardinality(T) \in Nat /\ Cardinality(S) \in Nat
  BY <1>2, FS_CardinalityType
<1>4. Cardinality(S) # Cardinality(T)
  BY <1>1, <1>2
<1> QED BY <1>2, <1>3, <1>4

(* How many things can be cut.                                             *)
LEMMA CutsAreNumbers ==
  ASSUME NEW m \in Messages, NEW c, Anchor(m, c)
  PROVE  /\ IsFiniteSet(RecordResults(m)) /\ RecordResults(m) \subseteq Int
         /\ IsFiniteSet(OwnResults(m)) /\ OwnResults(m) \subseteq Int
         /\ IsFiniteSet(Turns(m)) /\ Turns(m) \subseteq Int
         /\ Cardinality(RecordResults(m)) \in Nat /\ Cardinality(Turns(m)) \in Nat
         /\ Cardinality(OwnResults(m)) \in Nat
         /\ CutRecords(m) \in Nat /\ CutMemories(m) \in Nat
         /\ CutTurns(m) \in Nat /\ CutResults(m) \in Nat
<1>1. /\ Len(m) \in Nat /\ DOMAIN m = 1 .. Len(m) /\ Current(m) = c /\ c \in 1 .. Len(m)
  BY MessagesAre, CurrentIsAnchor DEF Anchor
<1>2. IsFiniteSet(1 .. Len(m))
  <2>1. 1 \in Int /\ Len(m) \in Int
    BY <1>1
  <2> QED BY <2>1, FS_Interval
<1>3. /\ RecordResults(m) \in SUBSET (1 .. Len(m)) /\ OwnResults(m) \in SUBSET (1 .. Len(m))
      /\ Turns(m) \in SUBSET (1 .. Len(m))
  BY <1>1 DEF RecordResults, OwnResults, ToolResults, Turns
<1>4. /\ IsFiniteSet(RecordResults(m)) /\ IsFiniteSet(OwnResults(m)) /\ IsFiniteSet(Turns(m))
  BY <1>2, <1>3, FS_Subset
<1>5. /\ Cardinality(RecordResults(m)) \in Nat /\ Cardinality(Turns(m)) \in Nat
      /\ Cardinality(OwnResults(m)) \in Nat
  BY <1>4, FS_CardinalityType
<1>6. Resources \in Nat /\ Memories \in Nat
  BY LoopAssumption
<1>7. /\ CutRecords(m) \in Nat /\ CutMemories(m) \in Nat
      /\ CutTurns(m) \in Nat /\ CutResults(m) \in Nat
  BY <1>5, <1>6 DEF CutRecords, CutMemories, CutTurns, CutResults
<1>8. /\ RecordResults(m) \subseteq Int /\ OwnResults(m) \subseteq Int /\ Turns(m) \subseteq Int
  BY <1>3
<1> QED BY <1>4, <1>5, <1>7, <1>8

LEMMA LeftAreNumbers ==
  ASSUME NEW m \in Messages, NEW c, Anchor(m, c), NEW n \in Nat
  PROVE  MemoriesLeft(m, n) \in Nat /\ ResourcesLeft(n) \in Nat
<1>1. CutRecords(m) \in Nat /\ Resources \in Nat /\ Memories \in Nat /\ 0 \in Nat
  BY CutsAreNumbers, LoopAssumption
<1>2. Share(n, CutRecords(m), Memories) \in 0 .. Memories /\ Share(n, 0, Resources) \in 0 .. Resources
  BY <1>1, ShareFacts
<1> QED BY <1>1, <1>2 DEF MemoriesLeft, ResourcesLeft

(* The last cut leaves the current turn, with its results shortened.       *)
LEMMA LastCut ==
  ASSUME NEW m \in Messages, NEW c, Anchor(m, c), NEW n, n = CutResults(m)
  PROVE  /\ MemoriesLeft(m, n) = 0 /\ ResourcesLeft(n) = 0
         /\ From(m, n) = c /\ Short(m, n) = ToolResults(m)
<1>1. /\ IsFiniteSet(RecordResults(m)) /\ RecordResults(m) \subseteq Int
      /\ IsFiniteSet(OwnResults(m)) /\ OwnResults(m) \subseteq Int
      /\ IsFiniteSet(Turns(m)) /\ Turns(m) \subseteq Int
      /\ Cardinality(RecordResults(m)) \in Nat /\ Cardinality(Turns(m)) \in Nat
      /\ Cardinality(OwnResults(m)) \in Nat
      /\ CutRecords(m) \in Nat /\ CutMemories(m) \in Nat
      /\ CutTurns(m) \in Nat /\ CutResults(m) \in Nat
  BY CutsAreNumbers
<1>2. Resources \in Nat /\ Memories \in Nat
  BY LoopAssumption
<1>3. /\ n \in Nat
      /\ n >= 0 + Resources /\ n >= Resources + Cardinality(RecordResults(m))
      /\ n >= CutRecords(m) + Memories /\ n >= CutMemories(m) + Cardinality(Turns(m))
      /\ n >= CutTurns(m) + Cardinality(OwnResults(m))
  BY <1>1, <1>2 DEF CutRecords, CutMemories, CutTurns, CutResults
<1>4. /\ Share(n, 0, Resources) = Resources /\ Share(n, CutRecords(m), Memories) = Memories
      /\ Share(n, Resources, Cardinality(RecordResults(m))) = Cardinality(RecordResults(m))
      /\ Share(n, CutMemories(m), Cardinality(Turns(m))) = Cardinality(Turns(m))
      /\ Share(n, CutTurns(m), Cardinality(OwnResults(m))) = Cardinality(OwnResults(m))
  BY <1>1, <1>2, <1>3, ShareFacts
<1>5. MemoriesLeft(m, n) = 0 /\ ResourcesLeft(n) = 0
  BY <1>2, <1>4 DEF MemoriesLeft, ResourcesLeft
<1>6. /\ First(RecordResults(m), Cardinality(RecordResults(m))) = RecordResults(m)
      /\ First(OwnResults(m), Cardinality(OwnResults(m))) = OwnResults(m)
      /\ First(Turns(m), Cardinality(Turns(m))) = Turns(m)
  BY <1>1, AllFirst
<1>7. /\ Len(m) \in Nat /\ DOMAIN m = 1 .. Len(m) /\ Current(m) = c /\ c \in 1 .. Len(m)
  BY MessagesAre, CurrentIsAnchor DEF Anchor
<1>8. Short(m, n) = ToolResults(m)
  <2>1. Short(m, n) = RecordResults(m) \cup OwnResults(m)
    BY <1>4, <1>6 DEF Short
  <2>2. \A i \in ToolResults(m) : i > c
    BY <1>7 DEF ToolResults, Anchor
  <2>3. OwnResults(m) = ToolResults(m)
    BY <1>7, <2>2 DEF OwnResults
  <2> QED BY <2>1, <2>3 DEF RecordResults
<1>9. From(m, n) = c
  <2>1. From(m, n) = IF Turns(m) = {} THEN 1 ELSE Greatest(Turns(m))
    BY <1>4, <1>6 DEF From
  <2>2. CASE c = 1
    <3>1. Turns(m) = {}
      BY <1>7, <2>2 DEF Turns
    <3> QED BY <2>1, <2>2, <3>1
  <2>3. CASE c # 1
    <3>1. Turns(m) \in SUBSET (1 .. c) /\ c \in Turns(m) /\ c \in Nat
      BY <1>7, <2>3 DEF Turns
    <3>2. Greatest(Turns(m)) \in Turns(m) /\ \A j \in Turns(m) : j <= Greatest(Turns(m))
      BY <3>1, GreatestExists
    <3>3. Greatest(Turns(m)) = c
      BY <3>1, <3>2
    <3> QED BY <2>1, <3>1, <3>3
  <2> QED BY <2>2, <2>3
<1> QED BY <1>5, <1>8, <1>9

(* Nothing fits: the current turn alone is too large.                      *)
LEMMA GivesUp ==
  ASSUME NEW m \in Messages, NEW c, Anchor(m, c), Fitting(m) = {}
  PROVE  Total([i \in Current(m) .. Len(m) |-> IF m[i].role = "tool" THEN 1 ELSE m[i].size]) > Budget
<1> DEFINE L == Len(m)
           turn == [i \in c .. L |-> IF m[i].role = "tool" THEN 1 ELSE m[i].size]
<1>1. L \in Nat /\ DOMAIN m = 1 .. L /\ Current(m) = c /\ c \in 1 .. L
  BY MessagesAre, CurrentIsAnchor DEF Anchor
<1>2. PICK n : n = CutResults(m)
  OBVIOUS
<1>3. /\ MemoriesLeft(m, n) = 0 /\ ResourcesLeft(n) = 0
      /\ From(m, n) = c /\ Short(m, n) = ToolResults(m)
  BY <1>2, LastCut
<1>4. PICK r : r = Cut(m, n)
  OBVIOUS
<1>5. /\ Suffix(m, r, c - 1)
      /\ \A i \in 1 .. Len(r) : r[i].size = IF i + c - 1 \in ToolResults(m) THEN 1 ELSE m[i + c - 1].size
  BY <1>3, <1>4, CutKeeps
<1>6. r \in Messages /\ Len(r) = L - (c - 1)
  BY <1>5 DEF Suffix
<1> DEFINE K == 1 .. Len(r)
           B == c .. L
           e == [i \in K |-> r[i].size]
           sh == [i \in K |-> i + c - 1]
<1>7. Size(r) = Total(e) /\ Size(r) \in Nat /\ e \in [K -> Nat] /\ IsFiniteSet(K)
  BY <1>6, SizeOf
<1>8. sh \in Bijection(K, B)
  <2>1. sh \in [K -> B]
    BY <1>1, <1>6
  <2>2. \A x, y \in K : sh[x] = sh[y] => x = y
    BY <1>1, <1>6
  <2>3. \A z \in B : z - c + 1 \in K /\ sh[z - c + 1] = z
    BY <1>1, <1>6
  <2> QED BY <2>1, <2>2, <2>3 DEF Bijection, Injection, Surjection, IsInjective
<1>9. turn \in [B -> Nat]
  <2>1. \A i \in B : i \in 1 .. L
    BY <1>1
  <2>2. \A i \in 1 .. L : m[i].size \in Nat
    BY MessagesAre DEF MessageType
  <2> QED BY <2>1, <2>2
<1>10. \A x \in K : turn[sh[x]] = e[x]
  <2> TAKE x \in K
  <2>1. x + c - 1 \in B /\ x + c - 1 \in DOMAIN m
    BY <1>1, <1>6
  <2>2. e[x] = IF x + c - 1 \in ToolResults(m) THEN 1 ELSE m[x + c - 1].size
    BY <1>5
  <2>3. turn[x + c - 1] = IF m[x + c - 1].role = "tool" THEN 1 ELSE m[x + c - 1].size
    BY <2>1
  <2> QED BY <2>1, <2>2, <2>3 DEF ToolResults
<1>11. Total(turn) = Total(e)
  <2> HIDE DEF turn, K, B, e, sh
  <2> QED BY <1>7, <1>8, <1>9, <1>10, TotalRenamed
<1>12. ~Fits(m, n)
  <2>1. n \in 0 .. CutResults(m)
    BY <1>2, CutsAreNumbers
  <2> QED BY <2>1 DEF Fitting
<1>13. Size(r) > Budget
  <2>1. Budget \in Nat
    BY LoopAssumption
  <2> QED BY <1>3, <1>4, <1>7, <1>12, <2>1 DEF Fits
<1> QED BY <1>1, <1>7, <1>11, <1>13

(* Something fits: what is kept and what is sent.                          *)
LEMMA FewestCuts ==
  ASSUME NEW m \in Messages, NEW c, Anchor(m, c), Fitting(m) # {}
  PROVE  Cuts(m) \in Nat /\ Fits(m, Cuts(m))
<1>1. Fitting(m) \in SUBSET Nat
  BY CutsAreNumbers DEF Fitting
<1>2. \E n \in Fitting(m) : \A k \in Fitting(m) : n <= k
  BY <1>1, LeastExists
<1>3. Cuts(m) \in Fitting(m)
  BY <1>2 DEF Cuts
<1> QED BY <1>1, <1>3 DEF Fitting

(* The results in messages r are results in messages m.                    *)
FromResults(r, m) ==
  \A i \in ToolResults(r) : \E j \in ToolResults(m) : r[i].ops = m[j].ops /\ r[i].ok = m[j].ok

LEMMA Asked ==
  ASSUME NEW m \in Messages, Anchored(m), Following(m), Backed(m), AnsweredBut(m, 0),
         Fitting(m) # {}, NEW r, r = Cut(m, Cuts(m)), NEW p, p = Assembled(m, Cuts(m))
  PROVE  /\ r \in Messages /\ Anchored(r) /\ Following(r) /\ Backed(r) /\ AnsweredBut(r, 0)
         /\ FromResults(r, m)
         /\ p \in Messages /\ Size(p) <= Budget /\ PairsComplete(p) /\ FromResults(p, m)
         /\ Cardinality({i \in DOMAIN p : p[i].role = "current"}) = 1
<1>1. PICK c \in DOMAIN m : Anchor(m, c)
  BY DEF Anchored
<1>2. PICK n : n = Cuts(m)
  OBVIOUS
<1>3. n \in Nat /\ Fits(m, n)
  BY <1>1, <1>2, FewestCuts
<1>4. PICK d : d = From(m, n) - 1
  OBVIOUS
<1>5. Suffix(m, r, d) /\ d < c /\ c - d \in Int
  <2>1. From(m, n) \in 1 .. c /\ c <= Len(m) /\ Suffix(m, Cut(m, n), From(m, n) - 1)
    BY <1>1, CutKeeps
  <2>2. c \in Nat
    BY <1>1, MessagesAre
  <2> QED BY <1>2, <1>4, <2>1, <2>2
<1>6. r \in Messages /\ Anchor(r, c - d) /\ Anchored(r)
  BY <1>1, <1>5, AnchorSuffix DEF Anchored, Suffix
<1>7. Following(r) /\ AnsweredBut(r, 0) /\ Backed(r)
  BY <1>1, <1>5, TalkSuffix, BackedSuffix
<1>8. FromResults(r, m)
  <2> SUFFICES ASSUME NEW i \in ToolResults(r)
               PROVE  \E j \in ToolResults(m) : r[i].ops = m[j].ops /\ r[i].ok = m[j].ok
    BY DEF FromResults
  <2>1. i + d \in ToolResults(m) /\ i \in DOMAIN r
    BY <1>5, TalkSuffix DEF ToolResults
  <2>2. r[i].ops = m[i + d].ops /\ r[i].ok = m[i + d].ok
    BY <1>5, <2>1, SuffixFacts
  <2> QED BY <2>1, <2>2
<1>9. PICK x, y : x = MemoriesLeft(m, n) /\ y = ResourcesLeft(n)
  OBVIOUS
<1>10. x \in Nat /\ y \in Nat
  BY <1>1, <1>3, <1>9, LeftAreNumbers
<1>11. Current(r) = c - d
  BY <1>6, CurrentIsAnchor
<1>12. p = WithBlocks(r, c - d, x, y)
  BY <1>2, <1>9, <1>11 DEF Assembled, WithBlocks
<1>13. Size(p) = Size(r) + x + y /\ \E b \in Nat : Inserted(r, p, c - d, b)
  BY <1>6, <1>10, <1>12, InsertedIs
<1>14. PICK b \in Nat : Inserted(r, p, c - d, b)
  BY <1>13
<1>15. /\ PairsComplete(p)
       /\ {i \in DOMAIN p : p[i].role = "current"} = {(c - d) + b}
       /\ \A i \in ToolResults(p) : i - b \in ToolResults(r) /\ p[i] = r[i - b]
  BY <1>6, <1>7, <1>14, PromptShape
<1>16. Cardinality({i \in DOMAIN p : p[i].role = "current"}) = 1
  BY <1>15, FS_Singleton
<1>17. FromResults(p, m)
  BY <1>8, <1>15 DEF FromResults
<1>18. Size(p) <= Budget
  BY <1>2, <1>3, <1>9, <1>13 DEF Fits
<1>19. p \in Messages
  BY <1>14 DEF Inserted
<1> QED BY <1>6, <1>7, <1>8, <1>15, <1>16, <1>17, <1>18, <1>19

-----------------------------------------------------------------------------
(* Messages that grow by an answer or a result.                            *)

(* What messages tell of operations.                                       *)
Tellings(m) == {<<m[i].ops[1], m[i].ok>> : i \in ToolResults(m)}
Single(m) == \A i \in ToolResults(m) : Len(m[i].ops) = 1

LEMMA TellingsFrom ==
  ASSUME NEW r, NEW m, FromResults(r, m)
  PROVE  Tellings(r) \subseteq Tellings(m) /\ (Single(m) => Single(r))
  BY DEF FromResults, Tellings, Single

LEMMA Appended ==
  ASSUME NEW m \in Messages, NEW x \in MessageType, NEW q, q = Append(m, x)
  PROVE  /\ q \in Messages /\ Len(q) = Len(m) + 1 /\ Len(m) \in Nat
         /\ DOMAIN m = 1 .. Len(m) /\ DOMAIN q = 1 .. (Len(m) + 1)
         /\ \A i \in DOMAIN m : i \in DOMAIN q /\ q[i] = m[i]
         /\ q[Len(m) + 1] = x
  BY DEF Messages

LEMMA AnchoredAppended ==
  ASSUME NEW m \in Messages, NEW x \in MessageType, NEW q, q = Append(m, x),
         Anchored(m), x.role # "current"
  PROVE  Anchored(q)
<1>1. PICK c \in DOMAIN m : Anchor(m, c)
  BY DEF Anchored
<1>2. /\ Len(m) \in Nat /\ DOMAIN m = 1 .. Len(m) /\ DOMAIN q = 1 .. (Len(m) + 1)
      /\ \A i \in DOMAIN m : i \in DOMAIN q /\ q[i] = m[i]
      /\ q[Len(m) + 1] = x
  BY Appended
<1>3. \A i \in DOMAIN q : i \in DOMAIN m \/ i = Len(m) + 1
  BY <1>2
<1>4. c \in DOMAIN q /\ q[c].role = "current"
  BY <1>1, <1>2 DEF Anchor
<1>5. \A i \in DOMAIN q : q[i].role = "current" => i = c
  BY <1>1, <1>2, <1>3 DEF Anchor
<1>6. \A i \in DOMAIN q : i <= c => i \in DOMAIN m
  BY <1>1, <1>2
<1>7. \A i \in DOMAIN q : i <= c => q[i].ops = <<>> /\ q[i].role # "tool"
  BY <1>1, <1>2, <1>6 DEF Anchor
<1>8. Anchor(q, c)
  BY <1>4, <1>5, <1>7 DEF Anchor
<1> QED BY <1>4, <1>8 DEF Anchored

LEMMA CallsAppended ==
  ASSUME NEW m \in Messages, NEW x \in MessageType, NEW q, q = Append(m, x),
         x.role = "assistant", Following(m), Backed(m), AnsweredBut(m, 0)
  PROVE  /\ Following(q) /\ Backed(q) /\ AnsweredBut(q, Len(q))
         /\ ToolResults(q) = ToolResults(m) /\ Tellings(q) = Tellings(m)
         /\ Single(m) => Single(q)
<1> DEFINE L == Len(m)
<1>1. /\ L \in Nat /\ DOMAIN m = 1 .. L /\ DOMAIN q = 1 .. (L + 1) /\ Len(q) = L + 1
      /\ \A i \in DOMAIN m : i \in DOMAIN q /\ q[i] = m[i]
      /\ q[L + 1] = x
  BY Appended
<1>2. \A i \in 1 .. L : Len(m[i].ops) \in Nat
  BY MessagesAre
<1>3. \A i \in DOMAIN m : m[i].role = "assistant" => i + Len(m[i].ops) <= L
  BY <1>1 DEF AnsweredBut
<1>4. \A i \in DOMAIN q : i \in DOMAIN m \/ i = L + 1
  BY <1>1
<1>5. ToolResults(q) = ToolResults(m)
  BY <1>1, <1>4 DEF ToolResults
<1>6. ToolResults(m) \subseteq DOMAIN m
  BY DEF ToolResults
<1>7. Tellings(q) = Tellings(m) /\ (Single(m) => Single(q))
  BY <1>1, <1>5, <1>6 DEF Tellings, Single
<1>8. Following(q)
  <2> SUFFICES ASSUME NEW i \in DOMAIN q, NEW k \in 1 .. Len(q[i].ops), q[i].role = "assistant",
                      i + k \in DOMAIN q
               PROVE  q[i + k].role = "tool" /\ q[i + k].ops = <<q[i].ops[k]>>
    BY DEF Following
  <2>1. i \in DOMAIN m
    <3>1. CASE i = L + 1
      <4>1. Len(x.ops) \in Nat
        BY DEF MessageType
      <4> QED BY <1>1, <3>1, <4>1
    <3> QED BY <1>4, <3>1
  <2>2. q[i] = m[i] /\ i + Len(m[i].ops) <= L /\ Len(m[i].ops) \in Nat
    BY <1>1, <1>2, <1>3, <2>1
  <2>3. PICK n : n = Len(m[i].ops)
    OBVIOUS
  <2>4. i + k \in DOMAIN m
    <3>1. k \in 1 .. n /\ i + n <= L /\ n \in Nat /\ i \in Nat
      BY <1>1, <2>2, <2>3
    <3>2. i + k \in 1 .. L
      BY <1>1, <2>1, <3>1
    <3> QED BY <1>1, <3>2
  <2>5. m[i + k].role = "tool" /\ m[i + k].ops = <<m[i].ops[k]>>
    BY <2>1, <2>2, <2>4 DEF Following
  <2> QED BY <1>1, <2>2, <2>4, <2>5
<1>9. Backed(q)
  <2> SUFFICES ASSUME NEW i \in ToolResults(q)
               PROVE  \E j \in 1 .. (i - 1) : q[j].role = "assistant" /\ i - j <= Len(q[j].ops)
    BY DEF Backed
  <2>1. PICK j \in 1 .. (i - 1) : m[j].role = "assistant" /\ i - j <= Len(m[j].ops)
    BY <1>5 DEF Backed
  <2>2. j \in DOMAIN m
    BY <1>1, <1>5, <1>6
  <2> QED BY <1>1, <2>1, <2>2
<1>10. AnsweredBut(q, Len(q))
  <2> SUFFICES ASSUME NEW i \in DOMAIN q, i # L + 1, q[i].role = "assistant"
               PROVE  i + Len(q[i].ops) <= L + 1
    BY <1>1 DEF AnsweredBut
  <2>1. i \in DOMAIN m /\ q[i] = m[i]
    BY <1>1, <1>4
  <2>2. i + Len(m[i].ops) <= L /\ Len(m[i].ops) \in Nat /\ i \in Nat
    BY <1>1, <1>2, <1>3, <2>1
  <2> QED BY <1>1, <2>1, <2>2
<1> QED BY <1>5, <1>7, <1>8, <1>9, <1>10

(* x answers the k-th call of the message at n, and is the next message.   *)
Answering(m, n, k, x) ==
  /\ n \in DOMAIN m /\ m[n].role = "assistant" /\ x.role = "tool"
  /\ k \in 1 .. Len(m[n].ops) /\ n + k = Len(m) + 1 /\ x.ops = <<m[n].ops[k]>>

LEMMA ResultAppended ==
  ASSUME NEW m \in Messages, NEW x \in MessageType, NEW q, q = Append(m, x),
         Following(m), Backed(m), Single(m),
         NEW n, AnsweredBut(m, n), NEW k, Answering(m, n, k, x)
  PROVE  /\ Following(q) /\ Backed(q) /\ Single(q) /\ AnsweredBut(q, n) /\ q[n] = m[n]
         /\ n \in DOMAIN q
         /\ k = Len(m[n].ops) => AnsweredBut(q, 0)
         /\ Tellings(q) \subseteq Tellings(m) \cup {<<x.ops[1], x.ok>>}
<1> USE DEF Answering
<1> DEFINE L == Len(m)
<1>1. /\ L \in Nat /\ DOMAIN m = 1 .. L /\ DOMAIN q = 1 .. (L + 1) /\ Len(q) = L + 1
      /\ \A i \in DOMAIN m : i \in DOMAIN q /\ q[i] = m[i]
      /\ q[L + 1] = x
  BY Appended
<1>2. \A i \in 1 .. L : Len(m[i].ops) \in Nat
  BY MessagesAre
<1>3. \A i \in DOMAIN m : i # n /\ m[i].role = "assistant" => i + Len(m[i].ops) <= L
  BY <1>1 DEF AnsweredBut
<1>4. \A i \in DOMAIN q : i \in DOMAIN m \/ i = L + 1
  BY <1>1
<1>5. \A i \in ToolResults(q) : i \in ToolResults(m) \/ i = L + 1
  BY <1>1, <1>4 DEF ToolResults
<1>6. ToolResults(m) \subseteq DOMAIN m
  BY DEF ToolResults
<1>7. Single(q)
  <2>1. Len(x.ops) = 1
    OBVIOUS
  <2> QED BY <1>1, <1>5, <1>6, <2>1 DEF Single
<1>8. Tellings(q) \subseteq Tellings(m) \cup {<<x.ops[1], x.ok>>}
  <2> SUFFICES ASSUME NEW i \in ToolResults(q)
               PROVE  <<q[i].ops[1], q[i].ok>> \in Tellings(m) \cup {<<x.ops[1], x.ok>>}
    BY DEF Tellings
  <2>1. CASE i \in ToolResults(m)
    <3>1. q[i] = m[i] /\ <<m[i].ops[1], m[i].ok>> \in Tellings(m)
      BY <1>1, <1>6, <2>1 DEF Tellings
    <3> QED BY <3>1
  <2>2. CASE i = L + 1
    BY <1>1, <2>2
  <2> QED BY <1>5, <2>1, <2>2
<1>9. Following(q)
  <2> SUFFICES ASSUME NEW i \in DOMAIN q, NEW h \in 1 .. Len(q[i].ops), q[i].role = "assistant",
                      i + h \in DOMAIN q
               PROVE  q[i + h].role = "tool" /\ q[i + h].ops = <<q[i].ops[h]>>
    BY DEF Following
  <2>1. i \in DOMAIN m /\ q[i] = m[i] /\ i \in Nat /\ h \in Nat
    <3>1. i # L + 1
      BY <1>1
    <3> QED BY <1>1, <1>4, <3>1
  <2>2. CASE i + h \in DOMAIN m
    <3>1. m[i + h].role = "tool" /\ m[i + h].ops = <<m[i].ops[h]>>
      BY <2>1, <2>2 DEF Following
    <3> QED BY <1>1, <2>1, <2>2, <3>1
  <2>3. CASE i + h = L + 1
    <3>1. i = n
      <4>1. CASE i # n
        <5>1. PICK l : l = Len(m[i].ops)
          OBVIOUS
        <5>2. l \in Nat /\ i + l <= L /\ h \in 1 .. l
          BY <1>1, <1>2, <1>3, <2>1, <4>1, <5>1
        <5> QED BY <1>1, <2>1, <2>3, <5>2
      <4> QED BY <4>1
    <3>2. h = k
      <4>1. n + h = n + k /\ n \in Nat /\ k \in Nat
        BY <1>1, <2>3, <3>1
      <4> QED BY <2>1, <4>1
    <3> QED BY <1>1, <2>1, <2>3, <3>1, <3>2
  <2> QED BY <1>4, <2>2, <2>3
<1>10. Backed(q)
  <2> SUFFICES ASSUME NEW i \in ToolResults(q)
               PROVE  \E j \in 1 .. (i - 1) : q[j].role = "assistant" /\ i - j <= Len(q[j].ops)
    BY DEF Backed
  <2>1. CASE i \in ToolResults(m)
    <3>1. PICK j \in 1 .. (i - 1) : m[j].role = "assistant" /\ i - j <= Len(m[j].ops)
      BY <2>1 DEF Backed
    <3>2. j \in DOMAIN m
      BY <1>1, <1>6, <2>1
    <3> QED BY <1>1, <3>1, <3>2
  <2>2. CASE i = L + 1
    <3>1. PICK l : l = Len(m[n].ops)
      OBVIOUS
    <3>2. l \in Nat /\ k \in 1 .. l /\ n \in 1 .. L
      BY <1>1, <1>2, <3>1
    <3>3. n \in 1 .. (i - 1) /\ i - n = k /\ k <= l
      BY <1>1, <2>2, <3>2
    <3> QED BY <1>1, <3>1, <3>3
  <2> QED BY <1>5, <2>1, <2>2
<1>11. AnsweredBut(q, n)
  <2> SUFFICES ASSUME NEW i \in DOMAIN q, i # n, q[i].role = "assistant"
               PROVE  i + Len(q[i].ops) <= L + 1
    BY <1>1 DEF AnsweredBut
  <2>1. i \in DOMAIN m /\ q[i] = m[i]
    BY <1>1, <1>4
  <2>2. i + Len(m[i].ops) <= L /\ Len(m[i].ops) \in Nat /\ i \in Nat
    BY <1>1, <1>2, <1>3, <2>1
  <2> QED BY <1>1, <2>1, <2>2
<1>12. ASSUME k = Len(m[n].ops) PROVE AnsweredBut(q, 0)
  <2> SUFFICES ASSUME NEW i \in DOMAIN q, q[i].role = "assistant"
               PROVE  i + Len(q[i].ops) <= Len(q)
    BY DEF AnsweredBut
  <2>1. CASE i = n
    BY <1>1, <1>12, <2>1
  <2>2. CASE i # n
    BY <1>11, <2>2 DEF AnsweredBut
  <2> QED BY <2>1, <2>2
<1> QED BY <1>1, <1>7, <1>9, <1>10, <1>11, <1>8, <1>12

-----------------------------------------------------------------------------
(* The prompts of an agent.                                                *)

Performing == {"call", "started", "executing", "tells"}
(* The message whose calls are being performed.                            *)
OpenMessage(a) ==
  IF at[a] \in Performing THEN Len(messages[a]) + 1 - call[a] ELSE 0

(* Every call before it has its result; it has those of the calls that are *)
(* over, and holds the operations the agent is about to execute.           *)
Round(a) ==
  /\ AnsweredBut(messages[a], OpenMessage(a))
  /\ at[a] \in Performing =>
       /\ OpenMessage(a) \in DOMAIN messages[a]
       /\ messages[a][OpenMessage(a)].role = "assistant"
       /\ messages[a][OpenMessage(a)].ops = Ops(a)
       /\ call[a] \in 1 .. reply[a].calls
  /\ at[a] = "calls" => reply[a].calls > 0

(* The results the model reads are those the journal has.                  *)
Ending(ok) == IF ok THEN "completed" ELSE "failed"
TrueNow(a) == \A op \in Nat \X Nat, ok \in BOOLEAN :
  <<op, ok>> \in Tellings(messages[a]) => Status(a, op) = Ending(ok)
TrueSent(a) == \A op \in Nat \X Nat, ok \in BOOLEAN :
  <<op, ok>> \in Tellings(prompt[a]) => Status(a, op) = Ending(ok)
(* An operation whose result the messages hold is none the journal will    *)
(* name again.                                                             *)
Past(a, op) ==
  \/ op[1] < asked[a]
  \/ op[1] = asked[a] /\ at[a] = "turn"
  \/ op[1] = asked[a] /\ at[a] \in Performing /\ op[2] < call[a]
PastNow(a) == \A op \in Nat \X Nat, ok \in BOOLEAN :
  <<op, ok>> \in Tellings(messages[a]) => Past(a, op)
PastSent(a) == \A op \in Nat \X Nat, ok \in BOOLEAN :
  <<op, ok>> \in Tellings(prompt[a]) => op[1] < asked[a]

(* An agent at work has a conversation it can go on with; a prompt it has  *)
(* sent is whole; and it gave up only for a turn that does not fit.        *)
Talking(a) ==
  at[a] # "ended" =>
    /\ Anchored(messages[a]) /\ Following(messages[a]) /\ Backed(messages[a])
    /\ Single(messages[a])
    /\ Round(a) /\ TrueNow(a) /\ PastNow(a)
Sent(a) ==
  prompt[a] # <<>> =>
    /\ Size(prompt[a]) <= Budget /\ PairsComplete(prompt[a]) /\ Single(prompt[a])
    /\ Cardinality({i \in DOMAIN prompt[a] : prompt[a][i].role = "current"}) = 1
Turnsize(m) == [i \in Current(m) .. Len(m) |-> IF m[i].role = "tool" THEN 1 ELSE m[i].size]
Overfull(a) ==
  outcome[a] = "context_budget_exhausted" =>
    at[a] = "ended" /\ Total(Turnsize(messages[a])) > Budget

TalkTypes == messages \in [Agents -> Messages] /\ prompt \in [Agents -> Messages]
Prompting(a) == Talking(a) /\ Sent(a) /\ TrueSent(a) /\ PastSent(a) /\ Overfull(a)

(* The inductive invariant of PromptsWellFormed.                           *)
PromptInv == LoopInv /\ TalkTypes /\ \A a \in Agents : Prompting(a)

-----------------------------------------------------------------------------
(* Messages stay messages.                                                 *)

LEMMA CutTypes ==
  ASSUME LogTypes, TalkTypes, NEW a \in Agents, Prompting(a), Ask(a)
  PROVE  TalkTypes'
<1>1. /\ messages[a] \in Messages /\ Anchored(messages[a]) /\ Following(messages[a])
      /\ Backed(messages[a]) /\ AnsweredBut(messages[a], 0) /\ Fitting(messages[a]) # {}
  BY DEF TalkTypes, Prompting, Talking, Ask, Round, OpenMessage, Performing
<1>2. PICK m \in Messages : m = messages[a]
  BY <1>1
<1>3. PICK r, p : r = Cut(m, Cuts(m)) /\ p = Assembled(m, Cuts(m))
  OBVIOUS
<1>4. r \in Messages /\ p \in Messages
  BY <1>1, <1>2, <1>3, Asked
<1>5. messages' = [messages EXCEPT ![a] = r] /\ prompt' = [prompt EXCEPT ![a] = p]
  BY <1>2, <1>3 DEF Ask, TalkTypes
<1> QED BY <1>4, <1>5 DEF TalkTypes

LEMMA MessageTypes ==
  ASSUME LogTypes, NEW a \in Agents
  PROVE  /\ Message("assistant", <<>>, 1) \in MessageType
         /\ Message("assistant", Ops(a), 1) \in MessageType /\ Len(Ops(a)) = reply[a].calls
         /\ reply[a].calls \in Nat
         /\ \A i \in 1 .. reply[a].calls : Ops(a)[i] = <<asked[a], i>>
         /\ Told(a) \in MessageType /\ Told(a).role = "tool" /\ Told(a).ops = <<Op(a)>>
         /\ Told(a).ok = found[a].ok /\ found[a].ok \in BOOLEAN
         /\ Op(a) = <<asked[a], call[a]>> /\ Op(a) \in Nat \X Nat
<1>1. /\ reply[a].calls \in Nat /\ asked[a] \in Nat /\ call[a] \in Nat /\ found[a] \in FoundType
  BY DEF LogTypes, ReplyType
<1>2. found[a].size \in Nat /\ found[a].records \in BOOLEAN /\ found[a].ok \in BOOLEAN
  <2>1. \A r \in Results : r.size \in Nat /\ r.records \in BOOLEAN
    BY LoopAssumption
  <2>2. found[a].size = 1 \/ \E r \in Results : found[a].size = r.size
    BY <1>1 DEF FoundType
  <2>3. found[a].records = FALSE \/ \E r \in Results : found[a].records = r.records
    BY <1>1 DEF FoundType
  <2>4. found[a].ok \in BOOLEAN
    BY <1>1 DEF FoundType
  <2>5. found[a].size \in Nat
    BY <2>1, <2>2
  <2>6. found[a].records \in BOOLEAN
    BY <2>1, <2>3
  <2> QED BY <2>4, <2>5, <2>6
<1>3. Op(a) \in Nat \X Nat /\ Op(a) = <<asked[a], call[a]>>
  BY <1>1 DEF Op
<1>4. <<Op(a)>> \in Seq(Nat \X Nat) /\ <<>> \in Seq(Nat \X Nat)
  BY <1>3
<1>5. Told(a) \in MessageType /\ Told(a).role = "tool" /\ Told(a).ops = <<Op(a)>>
      /\ Told(a).ok = found[a].ok
  BY <1>2, <1>4 DEF Told, MessageType, Roles
<1>6. /\ Ops(a) \in Seq(Nat \X Nat) /\ Len(Ops(a)) = reply[a].calls
      /\ \A i \in 1 .. reply[a].calls : Ops(a)[i] = <<asked[a], i>>
  <2> DEFINE n == reply[a].calls
  <2>1. n \in Nat /\ asked[a] \in Nat /\ Ops(a) = [i \in 1 .. n |-> <<asked[a], i>>]
    BY <1>1 DEF Ops
  <2> HIDE DEF n
  <2>2. Ops(a) \in [1 .. n -> Nat \X Nat]
    BY <2>1
  <2>3. Ops(a) \in Seq(Nat \X Nat) /\ Len(Ops(a)) = n
    BY <2>1, <2>2
  <2> QED BY <2>1, <2>3 DEF n
<1>7. Message("assistant", <<>>, 1) \in MessageType /\ Message("assistant", Ops(a), 1) \in MessageType
  BY <1>4, <1>6 DEF Message, MessageType, Roles
<1> QED BY <1>1, <1>2, <1>3, <1>5, <1>6, <1>7

-----------------------------------------------------------------------------
(* What a step leaves of an agent's messages.                              *)

(* A step that leaves the agent alone.                                     *)
Silent(a) ==
  /\ messages'[a] = messages[a] /\ prompt'[a] = prompt[a] /\ log'[a] = log[a]
  /\ asked'[a] = asked[a] /\ call'[a] = call[a]
(* It has ended, with nothing new.                                         *)
Stays(a) ==
  /\ at'[a] = at[a] /\ reply'[a] = reply[a] /\ outcome'[a] = outcome[a]
(* It goes on, in the same part of its turn.                               *)
GoesOn(a) ==
  /\ at[a] # "ended"
  /\ \/ at[a] \notin Performing \cup {"turn"} /\ at'[a] \notin Performing \cup {"turn", "ended"}
        /\ (at'[a] = "calls" => reply'[a].calls > 0)
     \/ at[a] \in Performing /\ at'[a] \in Performing /\ reply'[a] = reply[a]
  /\ outcome'[a] = outcome[a]

LEMMA SilentStep ==
  ASSUME NEW a \in Agents, Prompting(a), Silent(a)
  PROVE  /\ Sent(a)' /\ TrueSent(a)' /\ PastSent(a)'
         /\ TrueNow(a) => TrueNow(a)'
<1>1. \A op : Status(a, op)' = Status(a, op)
  BY SameLog DEF Silent
<1>2. Sent(a)' /\ PastSent(a)'
  BY DEF Silent, Prompting, Sent, PastSent
<1>3. TrueSent(a)'
  BY <1>1 DEF Silent, Prompting, TrueSent
<1>4. TrueNow(a) => TrueNow(a)'
  BY <1>1 DEF Silent, TrueNow
<1> QED BY <1>2, <1>3, <1>4

LEMMA StaysStep ==
  ASSUME NEW a \in Agents, Prompting(a), Silent(a), Stays(a)
  PROVE  Prompting(a)'
<1>1. Sent(a)' /\ TrueSent(a)' /\ PastSent(a)' /\ (TrueNow(a) => TrueNow(a)')
  BY SilentStep
<1>2. Overfull(a)'
  BY DEF Silent, Stays, Prompting, Overfull
<1>3. OpenMessage(a)' = OpenMessage(a) /\ Ops(a)' = Ops(a)
  BY DEF Silent, Stays, OpenMessage, Ops
<1>4. Round(a) => Round(a)'
  BY <1>3 DEF Silent, Stays, Round
<1>5. PastNow(a) => PastNow(a)'
  BY DEF Silent, Stays, PastNow, Past
<1>6. Talking(a)'
  BY <1>1, <1>4, <1>5 DEF Silent, Stays, Prompting, Talking
<1> QED BY <1>1, <1>2, <1>6 DEF Prompting

LEMMA GoesOnStep ==
  ASSUME NEW a \in Agents, Prompting(a), Silent(a), GoesOn(a)
  PROVE  Prompting(a)'
<1>1. Sent(a)' /\ TrueSent(a)' /\ PastSent(a)' /\ (TrueNow(a) => TrueNow(a)')
  BY SilentStep
<1>2. Overfull(a)'
  BY DEF Silent, GoesOn, Prompting, Overfull
<1>3. Talking(a) /\ Round(a) /\ PastNow(a) /\ TrueNow(a)
  BY DEF GoesOn, Prompting, Talking
<1>4. OpenMessage(a)' = OpenMessage(a)
  BY DEF Silent, GoesOn, OpenMessage
<1>5. Round(a)'
  <2>1. at'[a] \in Performing => at[a] \in Performing /\ reply'[a] = reply[a] /\ Ops(a)' = Ops(a)
    BY DEF Silent, GoesOn, Ops
  <2> QED BY <1>3, <1>4, <2>1 DEF Silent, GoesOn, Round, Performing
<1>6. PastNow(a)'
  <2>1. \A op \in Nat \X Nat : Past(a, op) => Past(a, op)'
    BY DEF Silent, GoesOn, Past, Performing
  <2> QED BY <1>3, <2>1 DEF Silent, PastNow
<1>7. Talking(a)'
  BY <1>1, <1>3, <1>5, <1>6 DEF Silent, GoesOn, Talking
<1> QED BY <1>1, <1>2, <1>7 DEF Prompting

(* A step that ends the agent, and logs nothing.                           *)
LEMMA EndsStep ==
  ASSUME NEW a \in Agents, Prompting(a), at'[a] = "ended",
         prompt'[a] = prompt[a], log'[a] = log[a], asked'[a] = asked[a],
         outcome'[a] # "context_budget_exhausted"
  PROVE  Prompting(a)'
<1>1. \A op : Status(a, op)' = Status(a, op)
  BY SameLog
<1>2. Sent(a)' /\ PastSent(a)'
  BY DEF Prompting, Sent, PastSent
<1>3. TrueSent(a)'
  BY <1>1 DEF Prompting, TrueSent
<1>4. Talking(a)' /\ Overfull(a)'
  BY DEF Talking, Overfull
<1> QED BY <1>2, <1>3, <1>4 DEF Prompting

(* An event names operations of the round, none of them told yet.          *)
LEMMA LoggedTells ==
  ASSUME LogTypes, NEW a \in Agents, Accounted(a), Prompting(a),
         at[a] \in {"calls", "call", "tells"}, Logged(a),
         prompt'[a] = prompt[a]
  PROVE  /\ TrueSent(a)'
         /\ \A op \in Nat \X Nat, ok \in BOOLEAN :
              <<op, ok>> \in Tellings(messages[a]) => Status(a, op)' = Ending(ok)
         /\ at[a] = "tells" =>
              \A op \in Nat \X Nat : op = Op(a) => Status(a, op)' = Ending(found[a].ok)
<1> DEFINE e == Event(a)
<1>1. e \in Entries /\ log' \in [Agents -> Seq(Entries)] /\ log'[a] = Append(log[a], e)
  BY EventIsEntry, LoggedTypes
<1>2. log \in [Agents -> Seq(Entries)] /\ LastExists(a)
  BY DEF LogTypes, Accounted
<1>3. /\ \A op \in e.ops : op[1] = asked[a]
      /\ at[a] # "calls" => e.ops = {Op(a)}
      /\ at[a] = "tells" => e.kind = "tool_result" /\ e.ok = found[a].ok
  <2>1. CASE at[a] = "calls"
    <3>1. e.ops = {Ops(a)[i] : i \in DOMAIN Ops(a)}
      BY <2>1 DEF Event
    <3>2. \A i \in DOMAIN Ops(a) : Ops(a)[i][1] = asked[a]
      BY DEF Ops
    <3> QED BY <2>1, <3>1, <3>2
  <2>2. CASE at[a] = "call"
    BY <2>2 DEF Event, Op
  <2>3. CASE at[a] = "tells"
    BY <2>3 DEF Event, Op
  <2> QED BY <2>1, <2>2, <2>3
<1> HIDE DEF e
<1>4. \A op \in Nat \X Nat :
        /\ op \notin e.ops => Status(a, op)' = Status(a, op)
        /\ op \in e.ops =>
              Status(a, op)' = IF e.kind # "tool_result" THEN "unknown"
                               ELSE IF e.ok THEN "completed" ELSE "failed"
  BY <1>1, <1>2, AppendedEvent
<1>5. asked[a] \in Nat /\ call[a] \in Nat /\ Op(a) = <<asked[a], call[a]>>
  BY DEF LogTypes, Op
<1>6. TrueSent(a)'
  <2> SUFFICES ASSUME NEW op \in Nat \X Nat, NEW ok \in BOOLEAN, <<op, ok>> \in Tellings(prompt[a])
               PROVE  Status(a, op)' = Ending(ok)
    BY DEF TrueSent
  <2>1. op[1] < asked[a] /\ op[1] \in Nat /\ Status(a, op) = Ending(ok)
    BY DEF Prompting, TrueSent, PastSent
  <2>2. op \notin e.ops
    BY <1>3, <1>5, <2>1
  <2> QED BY <1>4, <2>1, <2>2
<1>7. ASSUME NEW op \in Nat \X Nat, NEW ok \in BOOLEAN, <<op, ok>> \in Tellings(messages[a])
      PROVE  Status(a, op)' = Ending(ok)
  <2>0. TrueNow(a) /\ PastNow(a)
    BY DEF Prompting, Talking
  <2>1. Past(a, op) /\ Status(a, op) = Ending(ok)
    BY <1>7, <2>0 DEF TrueNow, PastNow
  <2>2. op[1] < asked[a] \/ (op[1] = asked[a] /\ at[a] # "calls" /\ op[2] < call[a])
    <3>1. at[a] # "turn" /\ (at[a] \in Performing => at[a] # "calls")
      BY DEF Performing
    <3>2. \/ op[1] < asked[a]
          \/ op[1] = asked[a] /\ at[a] = "turn"
          \/ op[1] = asked[a] /\ at[a] \in Performing /\ op[2] < call[a]
      BY <2>1 DEF Past
    <3> QED BY <3>1, <3>2
  <2>3. op \notin e.ops
    <3>1. op[1] \in Nat /\ op[2] \in Nat
      OBVIOUS
    <3>2. op # Op(a)
      BY <1>5, <2>2, <3>1
    <3>3. op[1] # asked[a] \/ at[a] # "calls"
      BY <1>5, <2>2, <3>1
    <3> QED BY <1>3, <3>2, <3>3
  <2> QED BY <1>4, <2>1, <2>3
<1>8. ASSUME at[a] = "tells", NEW op \in Nat \X Nat, op = Op(a)
      PROVE  Status(a, op)' = Ending(found[a].ok)
  BY <1>3, <1>4, <1>8 DEF Ending
<1> QED BY <1>6, <1>7, <1>8

-----------------------------------------------------------------------------
(* The steps of an agent.                                                  *)

LEMMA AskTalks ==
  ASSUME LogTypes, TalkTypes, NEW a \in Agents, Prompting(a), Ask(a)
  PROVE  Prompting(a)'
<1>1. PICK m \in Messages : m = messages[a]
  BY DEF TalkTypes
<1>2. /\ Anchored(m) /\ Following(m) /\ Backed(m) /\ AnsweredBut(m, 0) /\ Fitting(m) # {}
      /\ Single(m) /\ TrueNow(a) /\ PastNow(a)
  BY <1>1 DEF Prompting, Talking, Ask, Round, OpenMessage, Performing
<1>3. PICK r : r = Cut(m, Cuts(m))
  OBVIOUS
<1>4. PICK p : p = Assembled(m, Cuts(m))
  OBVIOUS
<1>5. /\ r \in Messages /\ Anchored(r) /\ Following(r) /\ Backed(r) /\ AnsweredBut(r, 0)
      /\ FromResults(r, m)
      /\ p \in Messages /\ Size(p) <= Budget /\ PairsComplete(p) /\ FromResults(p, m)
      /\ Cardinality({i \in DOMAIN p : p[i].role = "current"}) = 1
  BY <1>2, <1>3, <1>4, Asked
<1>6. Tellings(r) \subseteq Tellings(m) /\ Single(r) /\ Tellings(p) \subseteq Tellings(m) /\ Single(p)
  BY <1>2, <1>5, TellingsFrom
<1>7. /\ messages'[a] = r /\ prompt'[a] = p /\ at'[a] = "asking" /\ at[a] = "turn"
      /\ asked'[a] = asked[a] + 1 /\ log'[a] = log[a] /\ outcome'[a] = outcome[a]
      /\ asked[a] \in Nat
  BY <1>1, <1>3, <1>4 DEF Ask, TalkTypes, LogTypes, Go, work
<1>8. \A op : Status(a, op)' = Status(a, op)
  BY <1>7, SameLog
<1>9. \A op \in Nat \X Nat, ok \in BOOLEAN :
        <<op, ok>> \in Tellings(m) => Status(a, op)' = Ending(ok) /\ op[1] < asked[a] + 1
  <2> SUFFICES ASSUME NEW op \in Nat \X Nat, NEW ok \in BOOLEAN, <<op, ok>> \in Tellings(m)
               PROVE  Status(a, op)' = Ending(ok) /\ op[1] < asked[a] + 1
    OBVIOUS
  <2>1. Status(a, op) = Ending(ok) /\ Past(a, op)
    BY <1>1, <1>2 DEF TrueNow, PastNow
  <2>2. op[1] < asked[a] \/ op[1] = asked[a]
    BY <2>1 DEF Past
  <2>3. op[1] \in Nat
    OBVIOUS
  <2> QED BY <1>7, <1>8, <2>1, <2>2, <2>3
<1>10. TrueNow(a)' /\ TrueSent(a)'
  BY <1>6, <1>7, <1>9 DEF TrueNow, TrueSent
<1>11. PastSent(a)'
  BY <1>6, <1>7, <1>9 DEF PastSent
<1>12. PastNow(a)'
  <2>1. \A op \in Nat \X Nat : op[1] < asked[a] + 1 => Past(a, op)'
    BY <1>7 DEF Past
  <2> QED BY <1>6, <1>7, <1>9, <2>1 DEF PastNow
<1>13. Round(a)'
  BY <1>5, <1>7 DEF Round, OpenMessage, Performing
<1>14. Talking(a)'
  BY <1>5, <1>6, <1>7, <1>10, <1>12, <1>13 DEF Talking
<1>15. Sent(a)'
  BY <1>5, <1>6, <1>7 DEF Sent
<1>16. Overfull(a)'
  BY <1>7 DEF Prompting, Overfull
<1> QED BY <1>10, <1>11, <1>14, <1>15, <1>16 DEF Prompting

LEMMA TurnTalks ==
  ASSUME LogTypes, TalkTypes, NEW a \in Agents, Prompting(a), Turn(a)
  PROVE  Prompting(a)'
<1>1. reply[a].how \in {"stop", "length", "protocol"} /\ a \in DOMAIN at
  BY DEF LogTypes, ReplyType
<1>2. CASE TurnsExhausted(a)
  BY <1>2, EndsStep DEF TurnsExhausted, End, Go, talk, work, LogTypes
<1>3. CASE ContextExhausted(a)
  <2>1. /\ at'[a] = "ended" /\ prompt'[a] = prompt[a] /\ log'[a] = log[a]
        /\ asked'[a] = asked[a] /\ messages'[a] = messages[a] /\ call'[a] = call[a]
    BY <1>3 DEF ContextExhausted, End, Go, talk, work, LogTypes
  <2>2. PICK m \in Messages : m = messages[a]
    BY DEF TalkTypes
  <2>3. Anchored(m) /\ Fitting(m) = {}
    BY <1>3, <2>2 DEF ContextExhausted, Prompting, Talking
  <2>4. Total(Turnsize(m)) > Budget
    BY <2>3, GivesUp DEF Anchored, Turnsize
  <2>5. Overfull(a)'
    BY <2>1, <2>2, <2>4 DEF Overfull
  <2>6. Sent(a)' /\ TrueSent(a)' /\ PastSent(a)'
    BY <2>1, SilentStep DEF Silent
  <2> QED BY <2>1, <2>5, <2>6 DEF Prompting, Talking
<1>4. CASE Ask(a)
  BY <1>4, AskTalks
<1>5. CASE Answers(a)
  <2>1. Silent(a) /\ GoesOn(a)
    BY <1>5 DEF Answers, Silent, GoesOn, Go, work, LogTypes, Performing
  <2> QED BY <2>1, GoesOnStep
<1>6. CASE AnswerBreaks(a) \/ AnswerUnpublished(a)
  BY <1>6, EndsStep DEF AnswerBreaks, AnswerUnpublished, End, Go, talk, work, LogTypes
<1>7. CASE TokensExhausted(a) \/ AnswerRejected(a) \/ Finishes(a)
  BY <1>1, <1>7, EndsStep
     DEF TokensExhausted, AnswerRejected, Finishes, Account, End, Go, work, LogTypes
<1>8. CASE WantsTools(a)
  <2>1. Silent(a) /\ GoesOn(a)
    BY <1>8 DEF WantsTools, Account, Silent, GoesOn, Go, work, LogTypes, Performing
  <2> QED BY <2>1, GoesOnStep
<1> QED BY <1>2, <1>3, <1>4, <1>5, <1>6, <1>7, <1>8 DEF Turn

LEMMA AnnounceTalks ==
  ASSUME LogTypes, TalkTypes, NEW a \in Agents, Accounted(a), Prompting(a), Announce(a)
  PROVE  Prompting(a)'
<1>1. PICK m \in Messages : m = messages[a]
  BY DEF TalkTypes
<1>2. PICK x \in MessageType : x = Message("assistant", Ops(a), 1)
  BY MessageTypes
<1>3. PICK q : q = Append(m, x)
  OBVIOUS
<1>4. /\ at[a] = "calls" /\ at'[a] = "call" /\ call'[a] = 1 /\ messages'[a] = q
      /\ prompt'[a] = prompt[a] /\ asked'[a] = asked[a] /\ reply'[a] = reply[a]
      /\ outcome'[a] = outcome[a] /\ Logged(a)
  BY <1>1, <1>2, <1>3 DEF Announce, Go, LogTypes, TalkTypes
<1>5. /\ Anchored(m) /\ Following(m) /\ Backed(m) /\ AnsweredBut(m, 0) /\ Single(m)
      /\ PastNow(a) /\ reply[a].calls > 0
  BY <1>1, <1>4 DEF Prompting, Talking, Round, OpenMessage, Performing
<1>6. /\ TrueSent(a)'
      /\ \A op \in Nat \X Nat, ok \in BOOLEAN :
           <<op, ok>> \in Tellings(m) => Status(a, op)' = Ending(ok)
  BY <1>1, <1>4, LoggedTells
<1>7. x.role = "assistant" /\ x.ops = Ops(a)
  BY <1>2 DEF Message
<1>8. /\ Following(q) /\ Backed(q) /\ AnsweredBut(q, Len(q)) /\ Tellings(q) = Tellings(m)
      /\ Single(q) /\ Anchored(q)
  BY <1>3, <1>5, <1>7, CallsAppended, AnchoredAppended
<1>9. Len(q) \in DOMAIN q /\ q[Len(q)] = x /\ Len(q) \in Nat
  BY <1>3, Appended
<1>10. OpenMessage(a)' = Len(q) /\ Ops(a)' = Ops(a)
  BY <1>4, <1>9 DEF OpenMessage, Performing, Ops
<1>11. Round(a)'
  <2>1. 1 \in 1 .. reply[a].calls
    BY <1>5, MessageTypes
  <2> QED BY <1>4, <1>7, <1>8, <1>9, <1>10, <2>1 DEF Round
<1>12. TrueNow(a)'
  BY <1>4, <1>6, <1>8 DEF TrueNow
<1>13. PastNow(a)'
  <2>1. \A op \in Nat \X Nat : Past(a, op) => Past(a, op)'
    BY <1>4 DEF Past, Performing
  <2> QED BY <1>1, <1>4, <1>5, <1>8, <2>1 DEF PastNow
<1>14. Talking(a)'
  BY <1>4, <1>8, <1>11, <1>12, <1>13 DEF Talking
<1>15. Sent(a)' /\ PastSent(a)' /\ Overfull(a)'
  BY <1>4 DEF Prompting, Sent, PastSent, Overfull
<1> QED BY <1>6, <1>14, <1>15 DEF Prompting

LEMMA StartCallTalks ==
  ASSUME LogTypes, TalkTypes, NEW a \in Agents, Accounted(a), Prompting(a), StartCall(a)
  PROVE  Prompting(a)'
<1>1. /\ at[a] = "call" /\ at'[a] = "started" /\ call'[a] = call[a] /\ messages'[a] = messages[a]
      /\ prompt'[a] = prompt[a] /\ asked'[a] = asked[a] /\ reply'[a] = reply[a]
      /\ outcome'[a] = outcome[a] /\ Logged(a)
  BY DEF StartCall, Go, LogTypes, talk
<1>2. /\ TrueSent(a)'
      /\ \A op \in Nat \X Nat, ok \in BOOLEAN :
           <<op, ok>> \in Tellings(messages[a]) => Status(a, op)' = Ending(ok)
  BY <1>1, LoggedTells
<1>3. TrueNow(a)'
  BY <1>1, <1>2 DEF TrueNow
<1>4. OpenMessage(a)' = OpenMessage(a) /\ Ops(a)' = Ops(a)
  BY <1>1 DEF OpenMessage, Performing, Ops
<1>5. Round(a) /\ PastNow(a)
  BY <1>1 DEF Prompting, Talking
<1>6. Round(a)'
  BY <1>1, <1>4, <1>5 DEF Round, Performing
<1>7. PastNow(a)'
  <2>1. \A op \in Nat \X Nat : Past(a, op) => Past(a, op)'
    BY <1>1 DEF Past, Performing
  <2> QED BY <1>1, <1>5, <2>1 DEF PastNow
<1>8. Talking(a)'
  BY <1>1, <1>3, <1>6, <1>7 DEF Prompting, Talking
<1>9. Sent(a)' /\ PastSent(a)' /\ Overfull(a)'
  BY <1>1 DEF Prompting, Sent, PastSent, Overfull
<1> QED BY <1>2, <1>8, <1>9 DEF Prompting

LEMMA TellTalks ==
  ASSUME LogTypes, TalkTypes, NEW a \in Agents, Accounted(a), Prompting(a), Tell(a)
  PROVE  Prompting(a)'
<1>1. PICK m \in Messages : m = messages[a]
  BY DEF TalkTypes
<1>2. PICK x \in MessageType : x = Told(a)
  BY MessageTypes
<1>3. PICK q : q = Append(m, x)
  OBVIOUS
<1>4. /\ at[a] = "tells" /\ call'[a] = call[a] + 1 /\ messages'[a] = q
      /\ at'[a] = IF call[a] = reply[a].calls THEN "turn" ELSE "call"
      /\ prompt'[a] = prompt[a] /\ asked'[a] = asked[a] /\ reply'[a] = reply[a]
      /\ outcome'[a] = outcome[a] /\ Logged(a) /\ call[a] \in Nat /\ asked[a] \in Nat
  BY <1>1, <1>2, <1>3 DEF Tell, Go, LogTypes, TalkTypes
<1>5. PICK n : n = OpenMessage(a)
  OBVIOUS
<1>6. /\ Anchored(m) /\ Following(m) /\ Backed(m) /\ AnsweredBut(m, n) /\ Single(m)
      /\ PastNow(a) /\ n \in DOMAIN m /\ m[n].role = "assistant" /\ m[n].ops = Ops(a)
      /\ call[a] \in 1 .. reply[a].calls /\ n = Len(m) + 1 - call[a]
  BY <1>1, <1>4, <1>5 DEF Prompting, Talking, Round, OpenMessage, Performing
<1>7. /\ TrueSent(a)'
      /\ \A op \in Nat \X Nat, ok \in BOOLEAN :
           <<op, ok>> \in Tellings(m) => Status(a, op)' = Ending(ok)
      /\ \A op \in Nat \X Nat : op = Op(a) => Status(a, op)' = Ending(found[a].ok)
  BY <1>1, <1>4, LoggedTells
<1>8. /\ x.role = "tool" /\ x.ops = <<Op(a)>> /\ x.ok = found[a].ok
      /\ Op(a) = <<asked[a], call[a]>> /\ Op(a) \in Nat \X Nat
      /\ Len(m[n].ops) = reply[a].calls /\ m[n].ops[call[a]] = Op(a)
  BY <1>2, <1>6, MessageTypes
<1>9. PICK k : k = call[a]
  OBVIOUS
<1>10. /\ k \in 1 .. Len(m[n].ops) /\ n + k = Len(m) + 1
      /\ x.ops = <<m[n].ops[k]>> /\ Len(m) \in Nat
  <2>1. Len(m) \in Nat /\ k \in Nat
    BY <1>4, <1>9, MessagesAre
  <2>2. n + k = Len(m) + 1
    BY <1>6, <1>9, <2>1
  <2>3. k \in 1 .. Len(m[n].ops)
    BY <1>6, <1>8, <1>9
  <2>4. x.ops = <<m[n].ops[k]>>
    BY <1>8, <1>9
  <2> QED BY <2>1, <2>2, <2>3, <2>4
<1>11. /\ Following(q) /\ Backed(q) /\ Single(q) /\ AnsweredBut(q, n) /\ q[n] = m[n]
       /\ n \in DOMAIN q
       /\ k = Len(m[n].ops) => AnsweredBut(q, 0)
       /\ Tellings(q) \subseteq Tellings(m) \cup {<<x.ops[1], x.ok>>}
  <2>1. Answering(m, n, k, x)
    BY <1>6, <1>8, <1>10 DEF Answering
  <2>2. /\ q = Append(m, x) /\ Following(m) /\ Backed(m) /\ Single(m)
        /\ AnsweredBut(m, n)
    BY <1>3, <1>6
  <2>3. /\ Following(q) /\ Backed(q) /\ Single(q) /\ AnsweredBut(q, n)
        /\ q[n] = m[n] /\ n \in DOMAIN q
    BY ONLY m \in Messages, x \in MessageType, <2>1, <2>2, ResultAppended
  <2>4. /\ k = Len(m[n].ops) => AnsweredBut(q, 0)
        /\ Tellings(q) \subseteq Tellings(m) \cup {<<x.ops[1], x.ok>>}
    BY ONLY m \in Messages, x \in MessageType, <2>1, <2>2, ResultAppended
  <2> QED BY <2>3, <2>4
<1>12. Anchored(q)
  BY <1>3, <1>6, <1>8, AnchoredAppended
<1>13. x.ops[1] = Op(a) /\ Ops(a)' = Ops(a) /\ Len(q) = Len(m) + 1
  BY <1>3, <1>4, <1>8, Appended DEF Ops
<1>14. Round(a)'
  <2>1. CASE call[a] = reply[a].calls
    <3>1. at'[a] = "turn" /\ OpenMessage(a)' = 0 /\ AnsweredBut(q, 0)
      BY <1>4, <1>8, <1>11, <1>9, <2>1 DEF OpenMessage, Performing
    <3> QED BY <1>4, <3>1 DEF Round, Performing
  <2>2. CASE call[a] # reply[a].calls
    <3>1. at'[a] = "call"
      BY <1>4, <2>2
    <3>2. OpenMessage(a)' = n
      <4>1. OpenMessage(a)' = Len(q) + 1 - (call[a] + 1)
        BY <1>4, <3>1 DEF OpenMessage, Performing
      <4>2. n \in Nat /\ call[a] \in Nat
        BY <1>4, <1>6, MessagesAre
      <4> QED BY <1>10, <1>13, <1>9, <4>1, <4>2
    <3>3. call[a] + 1 \in 1 .. reply[a].calls
      BY <1>4, <1>6, <2>2, MessageTypes
    <3> QED BY <1>4, <1>6, <1>11, <1>13, <3>1, <3>2, <3>3 DEF Round
  <2> QED BY <2>1, <2>2
<1>15. TrueNow(a)'
  <2> SUFFICES ASSUME NEW op \in Nat \X Nat, NEW ok \in BOOLEAN, <<op, ok>> \in Tellings(q)
               PROVE  Status(a, op)' = Ending(ok)
    BY <1>4 DEF TrueNow
  <2>1. CASE <<op, ok>> \in Tellings(m)
    BY <1>7, <2>1
  <2>2. CASE <<op, ok>> = <<x.ops[1], x.ok>>
    <3>1. op = Op(a) /\ ok = found[a].ok
      BY <1>8, <1>13, <2>2
    <3> QED BY <1>7, <3>1
  <2> QED BY <1>11, <2>1, <2>2
<1>16. PastNow(a)'
  <2> SUFFICES ASSUME NEW op \in Nat \X Nat, NEW ok \in BOOLEAN, <<op, ok>> \in Tellings(q)
               PROVE  Past(a, op)'
    BY <1>4 DEF PastNow
  <2>0. op[1] \in Nat /\ op[2] \in Nat
    OBVIOUS
  <2>1. op[1] < asked[a] \/ (op[1] = asked[a] /\ op[2] < call[a] + 1)
    <3>1. CASE <<op, ok>> \in Tellings(m)
      <4>1. Past(a, op)
        BY <1>1, <1>6, <3>1 DEF PastNow
      <4>2. op[1] < asked[a] \/ (op[1] = asked[a] /\ op[2] < call[a])
        BY <1>4, <4>1 DEF Past
      <4> QED BY <1>4, <2>0, <4>2
    <3>2. CASE <<op, ok>> = <<x.ops[1], x.ok>>
      <4>1. op = <<asked[a], call[a]>>
        BY <1>8, <1>13, <3>2
      <4> QED BY <1>4, <4>1
    <3> QED BY <1>11, <3>1, <3>2
  <2>2. at'[a] = "turn" \/ at'[a] \in Performing
    BY <1>4 DEF Performing
  <2> QED BY <1>4, <2>1, <2>2 DEF Past
<1>17. Talking(a)'
  BY <1>4, <1>11, <1>12, <1>14, <1>15, <1>16 DEF Talking
<1>18. Sent(a)' /\ PastSent(a)' /\ Overfull(a)'
  BY <1>4 DEF Prompting, Sent, PastSent, Overfull
<1> QED BY <1>7, <1>17, <1>18 DEF Prompting

LEMMA ToolCallTalks ==
  ASSUME LogTypes, TalkTypes, NEW a \in Agents, Accounted(a), Prompting(a), ToolCall(a)
  PROVE  Prompting(a)'
<1>1. CASE NotExecuted(a) \/ Execute(a) \/ Returns(a)
  <2>1. Silent(a)
    BY <1>1 DEF NotExecuted, Execute, Returns, Silent, talk, work
  <2>2. GoesOn(a)
    BY <1>1 DEF NotExecuted, Execute, Returns, GoesOn, Go, talk, LogTypes, Performing
  <2> QED BY <2>1, <2>2, GoesOnStep
<1>2. CASE Act(a)
  <2>1. Silent(a) /\ Stays(a)
    BY <1>2 DEF Act, Silent, Stays, talk
  <2> QED BY <2>1, StaysStep
<1> QED BY <1>1, <1>2, AnnounceTalks, StartCallTalks, TellTalks DEF ToolCall

LEMMA StopTalks ==
  ASSUME LogTypes, TalkTypes, NEW a \in Agents, Accounted(a), Prompting(a),
         Interrupted(a) \/ EmitRaises(a)
  PROVE  Prompting(a)'
<1>1. /\ at'[a] = "ended" /\ prompt'[a] = prompt[a] /\ asked'[a] = asked[a]
      /\ outcome'[a] # "context_budget_exhausted"
  BY DEF Interrupted, EmitRaises, End, Go, LogTypes, talk
<1>2. CASE log'[a] = log[a]
  BY <1>1, <1>2, EndsStep
<1>3. CASE at[a] \in {"calls", "call", "tells"} /\ Logged(a)
  <2>1. TrueSent(a)'
    BY <1>1, <1>3, LoggedTells
  <2>2. Sent(a)' /\ PastSent(a)' /\ Talking(a)' /\ Overfull(a)'
    BY <1>1 DEF Prompting, Sent, PastSent, Talking, Overfull
  <2> QED BY <2>1, <2>2 DEF Prompting
<1> QED BY <1>2, <1>3 DEF Interrupted, EmitRaises, work

(* A step of one agent leaves the messages of the others alone.            *)
LEMMA OthersTalk ==
  ASSUME LogTypes, TalkTypes, NEW a \in Agents, AgentNext(a), NEW b \in Agents, b # a
  PROVE  Silent(b) /\ Stays(b)
<1> USE DEF LogTypes, TalkTypes, Go, End, talk, work, Silent, Stays
<1>1. CASE Turn(a)
  <2>1. CASE TurnsExhausted(a) \/ ContextExhausted(a) \/ Ask(a) \/ Answers(a)
    BY <2>1 DEF TurnsExhausted, ContextExhausted, Ask, Answers
  <2>2. CASE AnswerBreaks(a) \/ AnswerUnpublished(a)
    BY <2>2 DEF AnswerBreaks, AnswerUnpublished
  <2>3. CASE TokensExhausted(a) \/ AnswerRejected(a) \/ Finishes(a) \/ WantsTools(a)
    BY <2>3 DEF TokensExhausted, AnswerRejected, Finishes, WantsTools, Account
  <2> QED BY <1>1, <2>1, <2>2, <2>3 DEF Turn
<1>2. CASE ToolCall(a)
  <2>1. CASE Announce(a)
    BY <2>1 DEF Announce, Logged
  <2>2. CASE StartCall(a)
    BY <2>2 DEF StartCall, Logged
  <2>3. CASE Tell(a)
    BY <2>3 DEF Tell, Logged
  <2>4. CASE NotExecuted(a) \/ Execute(a) \/ Act(a) \/ Returns(a)
    BY <2>4 DEF NotExecuted, Execute, Act, Returns
  <2> QED BY <1>2, <2>1, <2>2, <2>3, <2>4 DEF ToolCall
<1>3. CASE Interrupted(a) \/ EmitRaises(a)
  BY <1>3 DEF Interrupted, EmitRaises, Logged
<1> QED BY <1>1, <1>2, <1>3 DEF AgentNext

LEMMA TalkTypesStep ==
  ASSUME LogTypes, TalkTypes, NEW a \in Agents, Prompting(a), AgentNext(a)
  PROVE  TalkTypes'
<1>1. CASE Turn(a)
  <2>1. CASE Ask(a)
    BY <2>1, CutTypes
  <2>2. CASE Finishes(a)
    <3>1. Append(messages[a], Message("assistant", <<>>, 1)) \in Messages
      BY MessageTypes, Appended DEF TalkTypes
    <3> QED BY <2>2, <3>1 DEF Finishes, Account, TalkTypes
  <2>3. CASE TurnsExhausted(a) \/ ContextExhausted(a) \/ Answers(a) \/ AnswerBreaks(a)
               \/ AnswerUnpublished(a)
    BY <2>3 DEF TurnsExhausted, ContextExhausted, Answers, AnswerBreaks, AnswerUnpublished,
      talk, TalkTypes
  <2>4. CASE TokensExhausted(a) \/ AnswerRejected(a) \/ WantsTools(a)
    BY <2>4 DEF TokensExhausted, AnswerRejected, WantsTools, Account, TalkTypes
  <2> QED BY <1>1, <2>1, <2>2, <2>3, <2>4 DEF Turn
<1>2. CASE ToolCall(a)
  <2>1. CASE Announce(a)
    <3>1. Append(messages[a], Message("assistant", Ops(a), 1)) \in Messages
      BY MessageTypes, Appended DEF TalkTypes
    <3> QED BY <2>1, <3>1 DEF Announce, TalkTypes
  <2>2. CASE Tell(a)
    <3>1. Append(messages[a], Told(a)) \in Messages
      BY MessageTypes, Appended DEF TalkTypes
    <3> QED BY <2>2, <3>1 DEF Tell, TalkTypes
  <2>3. CASE StartCall(a) \/ NotExecuted(a) \/ Execute(a) \/ Act(a) \/ Returns(a)
    BY <2>3 DEF StartCall, NotExecuted, Execute, Act, Returns, talk, TalkTypes
  <2> QED BY <1>2, <2>1, <2>2, <2>3 DEF ToolCall
<1>3. CASE Interrupted(a) \/ EmitRaises(a)
  BY <1>3 DEF Interrupted, EmitRaises, talk, TalkTypes
<1> QED BY <1>1, <1>2, <1>3 DEF AgentNext

-----------------------------------------------------------------------------
(* The inductive invariant.                                                *)

LEMMA PromptInvInit == LoopInit => PromptInv
<1> SUFFICES ASSUME LoopInit PROVE PromptInv
  OBVIOUS
<1>1. PICK m : m = Append(History, Request)
  OBVIOUS
<1>2. PICK n \in Nat : n = Len(History) /\ DOMAIN History = 1 .. n
  BY LoopAssumption
<1>3. \A i \in 1 .. n : History[i] \in EarlierMessage
  BY <1>2, LoopAssumption
<1>4. /\ \A x \in EarlierMessage :
            x \in MessageType /\ x.role \in {"user", "assistant"} /\ x.ops = <<>>
      /\ Request \in MessageType /\ Request.role = "current" /\ Request.ops = <<>>
  <2>1. <<>> \in Seq(Nat \X Nat)
    OBVIOUS
  <2> QED BY <2>1 DEF EarlierMessage, MessageType, Roles, Request, Message
<1>5. History \in Messages
  <2>1. EarlierMessage \subseteq MessageType
    BY <1>4
  <2>2. History \in Seq(EarlierMessage)
    BY LoopAssumption
  <2> QED BY <2>1, <2>2, SeqMonotonic DEF Messages
<1>6. /\ m \in Messages /\ Len(m) = n + 1 /\ DOMAIN m = 1 .. (n + 1)
      /\ (\A i \in 1 .. n : m[i] = History[i]) /\ m[n + 1] = Request
  <2>1. PICK h \in Messages : h = History
    BY <1>5
  <2>2. PICK x \in MessageType : x = Request
    BY <1>4
  <2>3. m = Append(h, x) /\ Len(h) = n /\ DOMAIN h = 1 .. n
    BY <1>1, <1>2, <2>1, <2>2
  <2>4. m \in Messages /\ Len(m) = n + 1 /\ DOMAIN m = 1 .. (n + 1)
    BY <2>3, Appended
  <2>5. (\A i \in 1 .. n : m[i] = h[i]) /\ m[n + 1] = x
    BY <2>3, Appended
  <2> QED BY <2>1, <2>2, <2>4, <2>5
<1>7. \A i \in DOMAIN m :
        /\ m[i].ops = <<>> /\ m[i].role # "tool"
        /\ m[i].role = "current" => i = n + 1
  BY <1>3, <1>4, <1>6
<1>8. Anchored(m)
  BY <1>4, <1>6, <1>7 DEF Anchored, Anchor
<1>9. ToolResults(m) = {} /\ Tellings(m) = {} /\ Tellings(<<>>) = {}
  BY <1>7 DEF ToolResults, Tellings
<1>10. Following(m) /\ Backed(m) /\ Single(m) /\ AnsweredBut(m, 0)
  BY <1>6, <1>7, <1>9 DEF Following, Backed, Single, AnsweredBut
<1>11. <<>> \in Messages
  BY DEF Messages
<1>12. TalkTypes
  BY <1>1, <1>6, <1>11 DEF LoopInit, TalkTypes
<1>13. ASSUME NEW a \in Agents PROVE Prompting(a)
  <2>1. messages[a] = m /\ prompt[a] = <<>> /\ at[a] = "turn" /\ outcome[a] = "none"
    BY <1>1 DEF LoopInit, Start
  <2>2. Round(a)
    BY <1>10, <2>1 DEF Round, OpenMessage, Performing
  <2>3. TrueNow(a) /\ PastNow(a) /\ TrueSent(a) /\ PastSent(a)
    BY <1>9, <2>1 DEF TrueNow, PastNow, TrueSent, PastSent
  <2> QED BY <1>8, <1>10, <2>1, <2>2, <2>3 DEF Prompting, Talking, Sent, Overfull
<1> QED BY <1>12, <1>13, LoopInvInit DEF PromptInv

LEMMA PromptInvStep ==
  ASSUME PromptInv, [LoopNext]_loopVars
  PROVE  PromptInv'
<1>1. LoopInv' /\ LogTypes
  BY LoopInvStep, LoopAssumption DEF PromptInv, LoopInv
<1>2. CASE Stop \/ UNCHANGED loopVars
  <2>1. UNCHANGED <<messages, prompt, log, asked, call, at, reply, outcome>>
    BY <1>2 DEF Stop, loopVars, talk, work
  <2>2. TalkTypes'
    BY <2>1 DEF PromptInv, TalkTypes
  <2>3. ASSUME NEW b \in Agents PROVE Prompting(b)'
    <3>1. Silent(b) /\ Stays(b) /\ Prompting(b)
      BY <2>1 DEF Silent, Stays, PromptInv
    <3> QED BY <3>1, StaysStep
  <2> QED BY <1>1, <2>2, <2>3 DEF PromptInv
<1>3. ASSUME NEW a \in Agents, AgentNext(a) PROVE PromptInv'
  <2>1. /\ TalkTypes /\ Prompting(a) /\ Accounted(a)
    BY DEF PromptInv, LoopInv
  <2>2. TalkTypes'
    BY <1>1, <1>3, <2>1, TalkTypesStep
  <2>3. ASSUME NEW b \in Agents PROVE Prompting(b)'
    <3>1. CASE b = a
      BY <1>1, <1>3, <2>1, <3>1, TurnTalks, ToolCallTalks, StopTalks DEF AgentNext
    <3>2. CASE b # a
      <4>1. Prompting(b)
        BY DEF PromptInv
      <4> QED BY <1>1, <1>3, <2>1, <3>2, <4>1, OthersTalk, StaysStep
    <3> QED BY <3>1, <3>2
  <2> QED BY <1>1, <2>2, <2>3 DEF PromptInv
<1> QED BY <1>2, <1>3 DEF LoopNext

LEMMA PromptInvSuffices == PromptInv => PromptsWellFormed
<1> SUFFICES ASSUME PromptInv, NEW a \in Agents
             PROVE  /\ prompt[a] # <<>> =>
                         /\ Size(prompt[a]) <= Budget
                         /\ Cardinality({i \in DOMAIN prompt[a] : prompt[a][i].role = "current"}) = 1
                         /\ PairsComplete(prompt[a])
                         /\ \A i \in ToolResults(prompt[a]) :
                              Status(a, prompt[a][i].ops[1]) =
                                IF prompt[a][i].ok THEN "completed" ELSE "failed"
                    /\ outcome[a] = "context_budget_exhausted" => Total(Turnsize(messages[a])) > Budget
  BY DEF PromptsWellFormed, Turnsize
<1>1. Prompting(a) /\ prompt[a] \in Messages
  BY DEF PromptInv, TalkTypes
<1>2. ASSUME prompt[a] # <<>>, NEW i \in ToolResults(prompt[a])
      PROVE  Status(a, prompt[a][i].ops[1]) = IF prompt[a][i].ok THEN "completed" ELSE "failed"
  <2>1. i \in DOMAIN prompt[a] /\ prompt[a][i] \in MessageType
    BY <1>1, MessagesAre DEF ToolResults
  <2>2. Len(prompt[a][i].ops) = 1
    BY <1>1, <1>2 DEF Prompting, Sent, Single
  <2>3. PICK op \in Nat \X Nat : op = prompt[a][i].ops[1]
    BY <2>1, <2>2 DEF MessageType
  <2>4. PICK ok \in BOOLEAN : ok = prompt[a][i].ok
    BY <2>1 DEF MessageType
  <2>5. <<op, ok>> \in Tellings(prompt[a])
    BY <2>3, <2>4 DEF Tellings
  <2>6. Status(a, op) = Ending(ok)
    BY <1>1, <2>5 DEF Prompting, TrueSent
  <2> QED BY <2>3, <2>4, <2>6 DEF Ending
<1> QED BY <1>1, <1>2 DEF Prompting, Sent, Overfull

(* PromptsWellFormed: every request to the model fits the budget, holds    *)
(* the current request once, follows each round of calls by its results,   *)
(* which the journal has as well; and the context budget is exhausted only *)
(* if the current turn does not fit with every result shortened            *)
(* (assembler.py prepare, agent_loop.py).                                  *)
THEOREM PromptsAreWellFormed == LoopSpec => []PromptsWellFormed
<1>1. PromptInv /\ [LoopNext]_loopVars => PromptInv'
  BY PromptInvStep
<1> QED BY <1>1, PromptInvInit, PromptInvSuffices, PTL DEF LoopSpec
=============================================================================
