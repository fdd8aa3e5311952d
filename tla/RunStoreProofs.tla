--------------------------- MODULE RunStoreProofs ---------------------------
(***************************************************************************)
(* Proofs about RunStore, for any number of Runs, scopes and events.  Five *)
(* of the operations write logs, and all of them do it the same way: each  *)
(* Run of some set gains one fresh event of its own.  The lemmas about     *)
(* Grow below say what that preserves, once for all the writers.           *)
(***************************************************************************)
EXTENDS RunStore, SequenceTheorems, TLAPS

(* The Runs of S each gain one event: new[r], fresh and next in sequence.  *)
Grow(S, new) ==
  /\ S \subseteq Runs
  /\ new \in [S -> Event]
  /\ \A r \in S : /\ new[r].run = r
                  /\ new[r].seq = Len(events[r]) + 1
                  /\ ~Known(new[r].id)
  /\ \A q, r \in S : new[q].id = new[r].id => q = r
  /\ events' = [r \in Runs |-> IF r \in S THEN Append(events[r], new[r]) ELSE events[r]]

(* What the logs look like after Grow, entry by entry.                     *)
LEMMA GrowEntries ==
  ASSUME NEW S, NEW new, TypeOK, Grow(S, new)
  PROVE  /\ events' \in [Runs -> Seq(Event)]
         /\ \A r \in Runs :
              /\ DOMAIN events[r] = 1 .. Len(events[r])
              /\ Len(events[r]) \in Nat
              /\ \A i \in DOMAIN events[r] :
                   /\ i \in DOMAIN events'[r]
                   /\ events'[r][i] = events[r][i]
         /\ \A r \in Runs \ S : events'[r] = events[r]
         /\ \A r \in S :
              /\ DOMAIN events'[r] = 1 .. (Len(events[r]) + 1)
              /\ events'[r][Len(events[r]) + 1] = new[r]
              /\ \A i \in DOMAIN events'[r] :
                   i \in DOMAIN events[r] \/ i = Len(events[r]) + 1
<1>1. \A r \in Runs : events[r] \in Seq(Event)
  BY DEF TypeOK
<1>2. \A r \in S : r \in Runs /\ new[r] \in Event
  BY DEF Grow
<1>3. \A r \in Runs : events'[r] = IF r \in S THEN Append(events[r], new[r]) ELSE events[r]
  BY DEF Grow
<1>4. ASSUME NEW r \in Runs
      PROVE  DOMAIN events[r] = 1 .. Len(events[r]) /\ Len(events[r]) \in Nat
  BY <1>1, LenProperties
<1>5. ASSUME NEW r \in S
      PROVE  /\ Append(events[r], new[r]) \in Seq(Event)
             /\ DOMAIN Append(events[r], new[r]) = 1 .. (Len(events[r]) + 1)
             /\ \A i \in 1 .. Len(events[r]) : Append(events[r], new[r])[i] = events[r][i]
             /\ Append(events[r], new[r])[Len(events[r]) + 1] = new[r]
  <2>1. events[r] \in Seq(Event) /\ new[r] \in Event
    BY <1>1, <1>2
  <2>2. /\ Append(events[r], new[r]) \in Seq(Event)
        /\ Len(Append(events[r], new[r])) = Len(events[r]) + 1
        /\ \A i \in 1 .. Len(events[r]) : Append(events[r], new[r])[i] = events[r][i]
        /\ Append(events[r], new[r])[Len(events[r]) + 1] = new[r]
    BY <2>1, AppendProperties
  <2>3. DOMAIN Append(events[r], new[r]) = 1 .. Len(Append(events[r], new[r]))
    BY <2>2, LenProperties
  <2>4. QED
    BY <2>2, <2>3
<1>6. events' \in [Runs -> Seq(Event)]
  BY <1>1, <1>5 DEF Grow
<1>7. ASSUME NEW r \in Runs, NEW i \in DOMAIN events[r]
      PROVE  i \in DOMAIN events'[r] /\ events'[r][i] = events[r][i]
  <2>1. CASE r \in S
    <3>1. events'[r] = Append(events[r], new[r])
      BY <1>3, <2>1
    <3>2. i \in 1 .. Len(events[r]) /\ Len(events[r]) \in Nat
      BY <1>4
    <3>3. Append(events[r], new[r])[i] = events[r][i]
      BY <1>5, <2>1, <3>2
    <3>4. i \in DOMAIN Append(events[r], new[r])
      BY <1>5, <2>1, <3>2
    <3>5. QED
      BY <3>1, <3>3, <3>4
  <2>2. CASE r \notin S
    BY <1>3, <2>2
  <2>3. QED
    BY <2>1, <2>2
<1>8. ASSUME NEW r \in S
      PROVE  /\ DOMAIN events'[r] = 1 .. (Len(events[r]) + 1)
             /\ events'[r][Len(events[r]) + 1] = new[r]
             /\ \A i \in DOMAIN events'[r] :
                  i \in DOMAIN events[r] \/ i = Len(events[r]) + 1
  <2>1. r \in Runs /\ events'[r] = Append(events[r], new[r])
    BY <1>2, <1>3
  <2>2. DOMAIN events'[r] = 1 .. (Len(events[r]) + 1)
    BY <1>5, <2>1
  <2>3. events'[r][Len(events[r]) + 1] = new[r]
    BY <1>5, <2>1
  <2>4. DOMAIN events[r] = 1 .. Len(events[r]) /\ Len(events[r]) \in Nat
    BY <1>4, <2>1
  <2>5. QED
    BY <2>2, <2>3, <2>4
<1>9. QED
  BY <1>3, <1>4, <1>6, <1>7, <1>8

(* Growing keeps every log contiguous and its Run's own.                   *)
LEMMA GrowContiguous ==
  ASSUME NEW S, NEW new, TypeOK, Contiguous, Grow(S, new)
  PROVE  Contiguous'
<1> SUFFICES ASSUME NEW r \in Runs, NEW i \in DOMAIN events'[r]
             PROVE  events'[r][i].run = r /\ events'[r][i].seq = i
  BY DEF Contiguous
<1>1. CASE i \in DOMAIN events[r]
  BY <1>1, GrowEntries DEF Contiguous
<1>2. CASE i \notin DOMAIN events[r]
  <2>1. r \in S
    BY <1>2, GrowEntries
  <2>2. i = Len(events[r]) + 1 /\ events'[r][i] = new[r]
    BY <1>2, <2>1, GrowEntries
  <2>3. QED
    BY <2>1, <2>2 DEF Grow
<1>3. QED
  BY <1>1, <1>2

(* Growing keeps event identifiers unique over all logs.                   *)
LEMMA GrowIdsUnique ==
  ASSUME NEW S, NEW new, TypeOK, IdsUnique, Grow(S, new)
  PROVE  IdsUnique'
<1> SUFFICES ASSUME NEW q \in Runs, NEW r \in Runs,
                    NEW i \in DOMAIN events'[q], NEW j \in DOMAIN events'[r],
                    events'[q][i].id = events'[r][j].id
             PROVE  q = r /\ i = j
  BY DEF IdsUnique
<1>1. CASE i \in DOMAIN events[q] /\ j \in DOMAIN events[r]
  BY <1>1, GrowEntries DEF IdsUnique
<1>2. CASE i \in DOMAIN events[q] /\ j \notin DOMAIN events[r]
  <2>1. r \in S /\ events'[r][j] = new[r]
    BY <1>2, GrowEntries
  <2>2. Known(new[r].id)
    BY <1>2, <2>1, GrowEntries DEF Known
  <2>3. QED
    BY <2>1, <2>2 DEF Grow
<1>3. CASE i \notin DOMAIN events[q] /\ j \in DOMAIN events[r]
  <2>1. q \in S /\ events'[q][i] = new[q]
    BY <1>3, GrowEntries
  <2>2. Known(new[q].id)
    BY <1>3, <2>1, GrowEntries DEF Known
  <2>3. QED
    BY <2>1, <2>2 DEF Grow
<1>4. CASE i \notin DOMAIN events[q] /\ j \notin DOMAIN events[r]
  <2>1. /\ q \in S /\ i = Len(events[q]) + 1 /\ events'[q][i] = new[q]
        /\ r \in S /\ j = Len(events[r]) + 1 /\ events'[r][j] = new[r]
    BY <1>4, GrowEntries
  <2>2. q = r
    BY <2>1 DEF Grow
  <2>3. QED
    BY <2>1, <2>2
<1>5. QED
  BY <1>1, <1>2, <1>3, <1>4

(* Growing with ordinary events, no state change: the terminal event, if   *)
(* any, stays the only one.                                                *)
LEMMA GrowOrdinaryTerminalOnce ==
  ASSUME NEW S, NEW new, TypeOK, TerminalOnce, Grow(S, new),
         \A r \in S : new[r].kind \in OrdinaryKinds,
         state' = state
  PROVE  TerminalOnce'
<1>1. ASSUME NEW r \in Runs, NEW i \in DOMAIN events'[r], events'[r][i].kind \in Terminal
      PROVE  i \in DOMAIN events[r] /\ events'[r][i] = events[r][i]
  <2>1. CASE i \in DOMAIN events[r]
    BY <2>1, GrowEntries
  <2>2. CASE i \notin DOMAIN events[r]
    <3>1. r \in S /\ events'[r][i] = new[r]
      BY <2>2, GrowEntries
    <3>2. QED
      BY <1>1, <3>1 DEF OrdinaryKinds, Terminal
  <2>3. QED
    BY <2>1, <2>2
<1>2. ASSUME NEW r \in Runs, state[r] \in Terminal
      PROVE  \E i \in DOMAIN events'[r] : events'[r][i].kind = state[r]
  <2>1. PICK i \in DOMAIN events[r] : events[r][i].kind = state[r]
    BY <1>2 DEF TerminalOnce
  <2>2. QED
    BY <2>1, GrowEntries
<1>3. QED
  BY <1>1, <1>2 DEF TerminalOnce

(* Growing with terminal events, each matching the state its Run enters    *)
(* from "running": exactly one terminal event each.                        *)
LEMMA GrowTerminalTerminalOnce ==
  ASSUME NEW S, NEW new, TypeOK, TerminalOnce, Grow(S, new),
         \A r \in S : state[r] = "running" /\ new[r].kind \in Terminal,
         state' = [r \in Runs |-> IF r \in S THEN new[r].kind ELSE state[r]]
  PROVE  TerminalOnce'
<1>1. ASSUME NEW r \in Runs \ S
      PROVE  state'[r] = state[r] /\ events'[r] = events[r]
  BY GrowEntries
<1>2. ASSUME NEW r \in S
      PROVE  /\ r \in Runs
             /\ state'[r] = new[r].kind
             /\ Len(events[r]) + 1 \in DOMAIN events'[r]
             /\ events'[r][Len(events[r]) + 1] = new[r]
             /\ \A i \in DOMAIN events'[r] :
                  events'[r][i].kind \in Terminal => i = Len(events[r]) + 1
  <2>1. r \in Runs /\ state'[r] = new[r].kind
    BY DEF Grow
  <2>2. Len(events[r]) + 1 \in DOMAIN events'[r] /\ events'[r][Len(events[r]) + 1] = new[r]
    BY <2>1, GrowEntries
  <2>3. ASSUME NEW i \in DOMAIN events'[r], events'[r][i].kind \in Terminal
        PROVE  i = Len(events[r]) + 1
    <3>1. CASE i \in DOMAIN events[r]
      <4>1. events[r][i].kind = "running"
        BY <2>1, <2>3, <3>1, GrowEntries DEF TerminalOnce
      <4>2. QED
        BY <2>1, <2>3, <3>1, <4>1, GrowEntries DEF Terminal
    <3>2. CASE i \notin DOMAIN events[r]
      BY <3>2, GrowEntries
    <3>3. QED
      BY <3>1, <3>2
  <2>4. QED
    BY <2>1, <2>2, <2>3
<1>3. ASSUME NEW r \in Runs
      PROVE  /\ state'[r] \in Terminal =>
                  \E i \in DOMAIN events'[r] : events'[r][i].kind = state'[r]
             /\ \A i \in DOMAIN events'[r] : events'[r][i].kind \in Terminal =>
                  /\ events'[r][i].kind = state'[r]
                  /\ \A j \in DOMAIN events'[r] : events'[r][j].kind \in Terminal => i = j
  <2>1. CASE r \in S
    BY <1>2, <2>1
  <2>2. CASE r \notin S
    BY <1>1, <2>2 DEF TerminalOnce
  <2>3. QED
    BY <2>1, <2>2
<1>4. QED
  BY <1>3 DEF TerminalOnce

-----------------------------------------------------------------------------
(* Every writer is an instance of Grow, or a replay that writes nothing.   *)

(* A terminal event cannot be a replay while its Run is still running.     *)
LEMMA NoTerminalReplay ==
  ASSUME NEW e \in Event, TerminalOnce, state[e.run] = "running", e.kind \in Terminal
  PROVE  ~Replay(e)
<1> SUFFICES ASSUME NEW i \in DOMAIN events[e.run], events[e.run][i] = e
             PROVE  FALSE
  BY DEF Replay
<1>1. e.run \in Runs
  BY DEF Event
<1>2. e.kind = "running"
  BY <1>1 DEF TerminalOnce
<1>3. QED
  BY <1>2 DEF Terminal

(* Writing one fresh event grows the log of its Run.                       *)
LEMMA FreshGrows ==
  ASSUME NEW e \in Event, TypeOK, Fresh(e), ~Replay(e), events' = LogWith(e)
  PROVE  Grow({e.run}, [r \in {e.run} |-> e])
<1>1. e.run \in Runs
  BY DEF Event
<1>2. events' = [events EXCEPT ![e.run] = Append(@, e)]
  BY DEF LogWith
<1>3. events' = [r \in Runs |->
         IF r \in {e.run} THEN Append(events[r], [q \in {e.run} |-> e][r]) ELSE events[r]]
  BY <1>1, <1>2 DEF TypeOK
<1>4. QED
  BY <1>1, <1>3 DEF Grow, Fresh

(* Recovery grows the log of every abandoned Run by its terminal event.    *)
RecoveryEvents(S, how, ids) ==
  [r \in Abandoned(S) |-> RecoveryEvent(r, ids[r], how)]

LEMMA RecoveryGrows ==
  ASSUME NEW S, NEW how \in {"failed", "cancelled"},
         NEW ids \in [Abandoned(S) -> EventIds],
         TypeOK, FinishAbandoned(S, how, ids)
  PROVE  /\ Grow(Abandoned(S), RecoveryEvents(S, how, ids))
         /\ \A r \in Abandoned(S) : RecoveryEvents(S, how, ids)[r].kind = how
<1>1. ASSUME NEW r \in Abandoned(S)
      PROVE  /\ r \in Runs
             /\ RecoveryEvents(S, how, ids)[r] = RecoveryEvent(r, ids[r], how)
             /\ RecoveryEvent(r, ids[r], how) \in Event
             /\ ~Known(ids[r])
  <2>1. r \in Runs /\ events[r] \in Seq(Event)
    BY DEF Abandoned, TypeOK
  <2>2. Len(events[r]) \in Nat
    BY <2>1, LenProperties
  <2>3. Len(events[r]) < MaxSequence /\ ~Known(ids[r])
    BY DEF FinishAbandoned
  <2>4. Len(events[r]) + 1 \in 1 .. MaxSequence
    BY <2>2, <2>3, StoreAssumption DEF StoreAssumption
  <2>5. RecoveryEvent(r, ids[r], how) \in Event
    BY <2>1, <2>4 DEF RecoveryEvent, Event, Terminal
  <2>6. QED
    BY <2>1, <2>3, <2>5 DEF RecoveryEvents
<1>2. RecoveryEvents(S, how, ids) \in [Abandoned(S) -> Event]
  BY <1>1 DEF RecoveryEvents
<1>3. \A r \in Abandoned(S) :
        /\ RecoveryEvents(S, how, ids)[r].run = r
        /\ RecoveryEvents(S, how, ids)[r].seq = Len(events[r]) + 1
        /\ RecoveryEvents(S, how, ids)[r].id = ids[r]
        /\ RecoveryEvents(S, how, ids)[r].kind = how
  <2> SUFFICES ASSUME NEW r \in Abandoned(S)
               PROVE  /\ RecoveryEvent(r, ids[r], how).run = r
                      /\ RecoveryEvent(r, ids[r], how).seq = Len(events[r]) + 1
                      /\ RecoveryEvent(r, ids[r], how).id = ids[r]
                      /\ RecoveryEvent(r, ids[r], how).kind = how
    BY <1>1, Zenon
  <2> QED
    BY DEF RecoveryEvent
<1>4. \A q, r \in Abandoned(S) : ids[q] = ids[r] => q = r
  BY DEF FinishAbandoned
<1>5. events' = [r \in Runs |-> IF r \in Abandoned(S)
                                 THEN Append(events[r], RecoveryEvents(S, how, ids)[r])
                                 ELSE events[r]]
  <2>1. events' = [r \in Runs |-> IF r \in Abandoned(S)
                                  THEN Append(events[r], RecoveryEvent(r, ids[r], how))
                                  ELSE events[r]]
    BY DEF FinishAbandoned
  <2>2. \A r \in Abandoned(S) :
          RecoveryEvents(S, how, ids)[r] = RecoveryEvent(r, ids[r], how)
    BY <1>1
  <2>3. QED
    BY <2>1, <2>2
<1>6. Abandoned(S) \subseteq Runs
  BY DEF Abandoned
<1>7. QED
  BY <1>1, <1>2, <1>3, <1>4, <1>5, <1>6 DEF Grow

-----------------------------------------------------------------------------
(* Contexts and snapshots.                                                 *)

LEMMA TurnsFacts ==
  ASSUME NEW c \in Snapshot
  PROVE  /\ c.version \in Nat
         /\ c.turns \in Seq(Runs)
         /\ Len(c.turns) \in Nat
         /\ DOMAIN c.turns = 1 .. Len(c.turns)
<1>1. c.version \in Nat /\ c.turns \in Seq(Runs)
  BY DEF Snapshot
<1>2. QED
  BY <1>1, LenProperties

(* Equal versions mean equal contents: this is what makes the comparison   *)
(* of versions in try_complete a comparison of histories.                  *)
LEMMA SameVersionSameTurns ==
  ASSUME NEW r \in Runs, TypeOK, SnapshotsArePrefixes, ContextIsCompletedRuns,
         loaded[r].version = context[ScopeOf[r]].version
  PROVE  loaded[r].turns = context[ScopeOf[r]].turns
<1> DEFINE mine == loaded[r].turns
           theirs == context[ScopeOf[r]].turns
<1>1. ScopeOf[r] \in Scopes
  BY StoreAssumption DEF StoreAssumption
<1>2. loaded[r] \in Snapshot /\ context[ScopeOf[r]] \in Snapshot
  BY <1>1 DEF TypeOK
<1>3. mine \in Seq(Runs) /\ theirs \in Seq(Runs) /\ DOMAIN mine = 1 .. Len(mine)
  BY <1>2, TurnsFacts
<1>4. Len(mine) = Len(theirs)
  BY <1>1 DEF SnapshotsArePrefixes, ContextIsCompletedRuns
<1>5. \A i \in 1 .. Len(mine) : mine[i] = theirs[i]
  BY <1>3 DEF SnapshotsArePrefixes
<1>6. QED
  BY <1>3, <1>4, <1>5, SeqEqual

(* What a completion does to the context of its scope: one more version    *)
(* and one more turn, the completing Run's.                                *)
LEMMA CompletionExtends ==
  ASSUME NEW e \in Event, TypeOK, SnapshotsArePrefixes, ContextIsCompletedRuns,
         TryComplete(e)
  PROVE  LET s == ScopeOf[e.run]
             n == Len(context[s].turns)
         IN  /\ e.run \in Runs /\ s \in Scopes
             /\ n \in Nat /\ context[s].version = n
             /\ DOMAIN context[s].turns = 1 .. n
             /\ context' = [context EXCEPT ![s] =
                   [version |-> n + 1, turns |-> Append(context[s].turns, e.run)]]
             /\ context'[s] \in Snapshot
             /\ context'[s].version = n + 1
             /\ Len(context'[s].turns) = n + 1
             /\ DOMAIN context'[s].turns = 1 .. (n + 1)
             /\ \A i \in 1 .. n : context'[s].turns[i] = context[s].turns[i]
             /\ context'[s].turns[n + 1] = e.run
<1> DEFINE s == ScopeOf[e.run]
           old == context[s].turns
           n == Len(old)
           new == Append(old, e.run)
<1>1. e.run \in Runs /\ s \in Scopes
  BY StoreAssumption DEF StoreAssumption, Event
<1>2. context[s] \in Snapshot
  BY <1>1 DEF TypeOK
<1>3. old \in Seq(Runs) /\ n \in Nat /\ DOMAIN old = 1 .. n
  BY <1>2, TurnsFacts
<1>4. context[s].version = n
  BY <1>1 DEF ContextIsCompletedRuns
<1>5. loaded[e.run].turns = old
  BY <1>1, SameVersionSameTurns DEF TryComplete
<1>6. context' = [context EXCEPT ![s] = [version |-> n + 1, turns |-> new]]
  BY <1>4, <1>5 DEF TryComplete, CommittedContext
<1>7. /\ new \in Seq(Runs)
      /\ Len(new) = n + 1
      /\ \A i \in 1 .. n : new[i] = old[i]
      /\ new[n + 1] = e.run
  BY <1>1, <1>3, AppendProperties
<1>8. DOMAIN new = 1 .. (n + 1)
  BY <1>7, LenProperties
<1>9. context'[s] = [version |-> n + 1, turns |-> new]
  BY <1>1, <1>6 DEF TypeOK
<1>10. [version |-> n + 1, turns |-> new] \in Snapshot
  BY <1>3, <1>7 DEF Snapshot
<1>11. QED
  BY <1>1, <1>3, <1>4, <1>6, <1>7, <1>8, <1>9, <1>10

-----------------------------------------------------------------------------
(* The inductive invariant.  No part of it is inductive alone: the         *)
(* terminal event is unique because a row leaves "running" only once; the  *)
(* context holds exactly the completed Runs because equal versions mean    *)
(* equal snapshots, which needs every snapshot to be a prefix.             *)
IInv == TypeOK /\ LogInv /\ ContextInv /\ OutboxFollowsTerminal

LEMMA InitIInv == Init => IInv
<1> SUFFICES ASSUME Init PROVE IInv
  OBVIOUS
<1>1. EmptyContext \in Snapshot /\ Len(<<>>) = 0 /\ DOMAIN EmptyContext.turns = {}
  BY EmptySeq DEF EmptyContext, Snapshot
<1>2. TypeOK
  BY <1>1, EmptySeq DEF Init, TypeOK
<1>3. \A r \in Runs : DOMAIN events[r] = {}
  BY DEF Init
<1>4. LogInv
  BY <1>3 DEF Init, LogInv, Contiguous, IdsUnique, TerminalOnce, Terminal
<1>5. \A r \in Runs : ScopeOf[r] \in Scopes
  BY StoreAssumption DEF StoreAssumption
<1>6. \A s \in Scopes : context[s] = EmptyContext
  BY DEF Init
<1>7. \A r \in Runs : loaded[r] = EmptyContext /\ state[r] = "absent"
  BY DEF Init
<1>8. EmptyContext.version = 0 /\ EmptyContext.turns = <<>>
  BY DEF EmptyContext
<1>9. ContextIsCompletedRuns
  BY <1>1, <1>5, <1>6, <1>7, <1>8 DEF ContextIsCompletedRuns
<1>10. Serialised
  BY <1>1, <1>6 DEF Serialised
<1>11. SnapshotsArePrefixes
  BY <1>1, <1>5, <1>6, <1>7, <1>8 DEF SnapshotsArePrefixes
<1>12. OutboxFollowsTerminal
  BY StoreAssumption DEF StoreAssumption, Init, OutboxFollowsTerminal, Terminal
<1>13. QED
  BY <1>2, <1>4, <1>9, <1>10, <1>11, <1>12 DEF IInv, ContextInv

LEMMA LogWithType ==
  ASSUME NEW e \in Event, TypeOK
  PROVE  LogWith(e) \in [Runs -> Seq(Event)]
<1>1. e.run \in Runs /\ events[e.run] \in Seq(Event)
  BY DEF TypeOK, Event
<1>2. Append(events[e.run], e) \in Seq(Event)
  BY <1>1, AppendProperties
<1>3. QED
  BY <1>1, <1>2 DEF LogWith, TypeOK

LEMMA StepType ==
  ASSUME TypeOK, ContextInv, [Next]_vars
  PROVE  TypeOK'
<1>1. ASSUME NEW r \in Runs, Load(r)
      PROVE  TypeOK'
  <2>1. context[ScopeOf[r]] \in Snapshot
    BY StoreAssumption DEF StoreAssumption, TypeOK
  <2>2. QED
    BY <1>1, <2>1 DEF Load, TypeOK
<1>2. ASSUME NEW r \in Runs, CreateRun(r)
      PROVE  TypeOK'
  BY <1>2 DEF CreateRun, TypeOK
<1>3. ASSUME NEW e \in Event, AppendEvent(e)
      PROVE  TypeOK'
  BY <1>3, LogWithType DEF AppendEvent, TypeOK
<1>4. ASSUME NEW e \in Event, TryFinish(e)
      PROVE  TypeOK'
  <2>1. state' \in [Runs -> {"absent", "running"} \cup Terminal]
    BY <1>4 DEF TryFinish, TypeOK, Terminal
  <2>2. outbox' \in SUBSET Runs
    BY <1>4 DEF TryFinish, OutboxWith, TypeOK, Event
  <2>3. QED
    BY <1>4, <2>1, <2>2, LogWithType DEF TryFinish, TypeOK
<1>5. ASSUME NEW e \in Event, TryComplete(e)
      PROVE  TypeOK'
  <2>1. state' \in [Runs -> {"absent", "running"} \cup Terminal]
    BY <1>5 DEF TryComplete, TypeOK, Terminal
  <2>2. outbox' \in SUBSET Runs
    BY <1>5 DEF TryComplete, OutboxWith, TypeOK, Event
  <2>3. context' \in [Scopes -> Snapshot]
    BY <1>5, CompletionExtends DEF ContextInv, TypeOK
  <2>4. QED
    BY <1>5, <2>1, <2>2, <2>3, LogWithType DEF TryComplete, TypeOK
<1>6. ASSUME NEW S, NEW how \in {"failed", "cancelled"},
             NEW ids \in [Abandoned(S) -> EventIds], FinishAbandoned(S, how, ids)
      PROVE  TypeOK'
  <2>1. events' \in [Runs -> Seq(Event)]
    BY <1>6, RecoveryGrows, GrowEntries
  <2>2. state' \in [Runs -> {"absent", "running"} \cup Terminal]
    BY <1>6 DEF FinishAbandoned, TypeOK, Terminal
  <2>3. QED
    BY <1>6, <2>1, <2>2 DEF FinishAbandoned, TypeOK
<1>7. CASE UNCHANGED vars
  BY <1>7 DEF vars, TypeOK
<1>8. QED
  BY <1>1, <1>2, <1>3, <1>4, <1>5, <1>6, <1>7
     DEF Next, RecoverProcessLost, CancelAbandoned

LEMMA StepLogs ==
  ASSUME TypeOK, LogInv, [Next]_vars
  PROVE  LogInv'
<1> USE DEF LogInv
<1>1. ASSUME NEW r \in Runs, Load(r)
      PROVE  LogInv'
  BY <1>1 DEF Load, Contiguous, IdsUnique, TerminalOnce
<1>2. ASSUME NEW r \in Runs, CreateRun(r)
      PROVE  LogInv'
  <2>1. events' = events /\ state[r] = "absent"
    BY <1>2 DEF CreateRun
  <2>2. \A i \in DOMAIN events[r] : events[r][i].kind \notin Terminal
    BY <2>1 DEF TerminalOnce, Terminal
  <2>3. state'[r] = "running" /\ \A q \in Runs \ {r} : state'[q] = state[q]
    BY <1>2 DEF CreateRun, TypeOK
  <2>4. ASSUME NEW q \in Runs
        PROVE  /\ state'[q] \in Terminal =>
                    \E i \in DOMAIN events[q] : events[q][i].kind = state'[q]
               /\ \A i \in DOMAIN events[q] : events[q][i].kind \in Terminal =>
                    /\ events[q][i].kind = state'[q]
                    /\ \A j \in DOMAIN events[q] : events[q][j].kind \in Terminal => i = j
    <3>1. CASE q = r
      BY <2>2, <2>3, <3>1 DEF Terminal
    <3>2. CASE q # r
      BY <2>3, <3>2 DEF TerminalOnce
    <3>3. QED
      BY <3>1, <3>2
  <2>5. TerminalOnce'
    BY <2>1, <2>4 DEF TerminalOnce
  <2>6. QED
    BY <2>1, <2>5 DEF Contiguous, IdsUnique
<1>3. ASSUME NEW e \in Event, AppendEvent(e)
      PROVE  LogInv'
  <2>1. CASE Replay(e)
    BY <1>3, <2>1 DEF AppendEvent, LogWith, Contiguous, IdsUnique, TerminalOnce
  <2>2. CASE ~Replay(e)
    <3>1. Grow({e.run}, [r \in {e.run} |-> e])
      BY <1>3, <2>2, FreshGrows DEF AppendEvent, Appendable
    <3>2. state' = state /\ e.kind \in OrdinaryKinds
      BY <1>3 DEF AppendEvent
    <3>3. QED
      BY <3>1, <3>2, GrowContiguous, GrowIdsUnique, GrowOrdinaryTerminalOnce
  <2>3. QED
    BY <2>1, <2>2
<1>4. ASSUME NEW e \in Event, TryFinish(e) \/ TryComplete(e)
      PROVE  LogInv'
  <2>1. /\ state[e.run] = "running" /\ e.kind \in Terminal
        /\ Appendable(e) /\ events' = LogWith(e)
        /\ state' = [state EXCEPT ![e.run] = e.kind]
    BY <1>4 DEF TryFinish, TryComplete, Terminal
  <2>2. ~Replay(e)
    BY <2>1, NoTerminalReplay
  <2> DEFINE new == [q \in {e.run} |-> e]
  <2>3. Grow({e.run}, new)
    BY <2>1, <2>2, FreshGrows DEF Appendable
  <2>4. state' = [r \in Runs |->
           IF r \in {e.run} THEN new[r].kind ELSE state[r]]
    BY <2>1 DEF TypeOK
  <2>5. \A r \in {e.run} : state[r] = "running" /\ new[r].kind \in Terminal
    BY <2>1
  <2> HIDE DEF new
  <2>6. QED
    BY <2>3, <2>4, <2>5, GrowContiguous, GrowIdsUnique, GrowTerminalTerminalOnce
<1>5. ASSUME NEW S, NEW how \in {"failed", "cancelled"},
             NEW ids \in [Abandoned(S) -> EventIds], FinishAbandoned(S, how, ids)
      PROVE  LogInv'
  <2> DEFINE new == RecoveryEvents(S, how, ids)
  <2>1. Grow(Abandoned(S), new) /\ \A r \in Abandoned(S) : new[r].kind = how
    BY <1>5, RecoveryGrows
  <2>2. \A r \in Abandoned(S) : state[r] = "running" /\ new[r].kind \in Terminal
    BY <2>1 DEF Abandoned, Terminal
  <2>3. state' = [r \in Runs |-> IF r \in Abandoned(S) THEN how ELSE state[r]]
    BY <1>5 DEF FinishAbandoned
  <2>4. state' = [r \in Runs |-> IF r \in Abandoned(S) THEN new[r].kind ELSE state[r]]
    BY <2>1, <2>3
  <2> HIDE DEF new
  <2>5. QED
    BY <2>1, <2>2, <2>4, GrowContiguous, GrowIdsUnique, GrowTerminalTerminalOnce
<1>6. CASE UNCHANGED vars
  BY <1>6 DEF vars, Contiguous, IdsUnique, TerminalOnce
<1>7. QED
  BY <1>1, <1>2, <1>3, <1>4, <1>5, <1>6
     DEF Next, RecoverProcessLost, CancelAbandoned

(* Steps that complete nothing leave contexts and snapshots alone.         *)
LEMMA NoCompletionKeepsContext ==
  ASSUME ContextInv, context' = context, loaded' = loaded,
         \A r \in Runs : state'[r] = "completed" <=> state[r] = "completed"
  PROVE  ContextInv'
<1>1. ContextIsCompletedRuns'
  BY DEF ContextInv, ContextIsCompletedRuns
<1>2. Serialised'
  BY DEF ContextInv, Serialised
<1>3. SnapshotsArePrefixes'
  BY DEF ContextInv, SnapshotsArePrefixes
<1>4. QED
  BY <1>1, <1>2, <1>3 DEF ContextInv

(* Loading refreshes the snapshot of a Run that has no turn anywhere.      *)
LEMMA LoadKeepsContext ==
  ASSUME NEW r \in Runs, TypeOK, ContextInv, Load(r)
  PROVE  ContextInv'
<1>1. ScopeOf \in [Runs -> Scopes]
  BY StoreAssumption DEF StoreAssumption
<1>2. /\ state[r] # "completed" /\ state' = state /\ context' = context
      /\ loaded'[r] = context[ScopeOf[r]]
      /\ \A q \in Runs \ {r} : loaded'[q] = loaded[q]
  BY DEF Load, TypeOK
<1>3. ContextIsCompletedRuns'
  BY <1>2 DEF ContextInv, ContextIsCompletedRuns
<1>4. ASSUME NEW s \in Scopes, NEW i \in DOMAIN context[s].turns
      PROVE  loaded'[context[s].turns[i]].version = i - 1
  <2>1. context[s] \in Snapshot
    BY DEF TypeOK
  <2>2. context[s].turns[i] \in Runs
    BY <2>1, TurnsFacts DEF Snapshot
  <2>3. ScopeOf[context[s].turns[i]] = s
    BY DEF ContextInv, ContextIsCompletedRuns
  <2>4. state[context[s].turns[i]] = "completed"
    BY <2>2, <2>3 DEF ContextInv, ContextIsCompletedRuns
  <2>5. context[s].turns[i] # r
    BY <1>2, <2>4
  <2>6. QED
    BY <1>2, <2>2, <2>5 DEF ContextInv, Serialised
<1>5. Serialised'
  BY <1>2, <1>4 DEF Serialised
<1>6. ASSUME NEW q \in Runs
      PROVE  /\ loaded'[q].version = Len(loaded'[q].turns)
             /\ loaded'[q].version <= context[ScopeOf[q]].version
             /\ \A i \in DOMAIN loaded'[q].turns :
                  loaded'[q].turns[i] = context[ScopeOf[q]].turns[i]
  <2>1. CASE q = r
    <3>1. context[ScopeOf[r]].version \in Nat
      BY <1>1, TurnsFacts DEF TypeOK
    <3>2. context[ScopeOf[r]].version = Len(context[ScopeOf[r]].turns)
      BY <1>1 DEF ContextInv, ContextIsCompletedRuns
    <3>3. QED
      BY <1>2, <2>1, <3>1, <3>2
  <2>2. CASE q # r
    BY <1>2, <2>2 DEF ContextInv, SnapshotsArePrefixes
  <2>3. QED
    BY <2>1, <2>2
<1>7. SnapshotsArePrefixes'
  BY <1>2, <1>6 DEF SnapshotsArePrefixes
<1>8. QED
  BY <1>3, <1>5, <1>7 DEF ContextInv

(* Completing adds exactly one turn, the completing Run's, in the place    *)
(* after the turns that Run had loaded.                                    *)
LEMMA CompletionKeepsContext ==
  ASSUME NEW e \in Event, TypeOK, ContextInv, TryComplete(e)
  PROVE  ContextInv'
<1> DEFINE c == ScopeOf[e.run]
           n == Len(context[c].turns)
<1>1. /\ e.run \in Runs /\ c \in Scopes
      /\ n \in Nat /\ context[c].version = n
      /\ DOMAIN context[c].turns = 1 .. n
      /\ context'[c].version = n + 1
      /\ Len(context'[c].turns) = n + 1
      /\ DOMAIN context'[c].turns = 1 .. (n + 1)
      /\ \A i \in 1 .. n : context'[c].turns[i] = context[c].turns[i]
      /\ context'[c].turns[n + 1] = e.run
  BY CompletionExtends DEF ContextInv
<1>2. \A s \in Scopes \ {c} : context'[s] = context[s]
  BY DEF TryComplete, TypeOK
<1>3. /\ loaded' = loaded /\ loaded[e.run].version = n
      /\ state[e.run] = "running" /\ state'[e.run] = "completed"
      /\ \A r \in Runs \ {e.run} : state'[r] = state[r]
  BY <1>1 DEF TryComplete, TypeOK
<1>4. ScopeOf \in [Runs -> Scopes]
  BY StoreAssumption DEF StoreAssumption
<1> HIDE DEF c, n
<1>5. ASSUME NEW r \in Runs
      PROVE  state'[r] = "completed" <=>
               \E i \in DOMAIN context'[ScopeOf[r]].turns : context'[ScopeOf[r]].turns[i] = r
  <2>1. state[r] = "completed" <=>
          \E i \in DOMAIN context[ScopeOf[r]].turns : context[ScopeOf[r]].turns[i] = r
    BY DEF ContextInv, ContextIsCompletedRuns
  <2>2. CASE r = e.run
    <3>1. n + 1 \in DOMAIN context'[c].turns
      BY <1>1
    <3>2. QED
      BY <1>1, <1>3, <2>2, <3>1 DEF c
  <2>3. CASE r # e.run /\ ScopeOf[r] = c
    <3>1. state'[r] = state[r]
      BY <1>3, <2>3
    <3>2. (\E i \in 1 .. n : context[c].turns[i] = r)
             <=> (\E i \in 1 .. (n + 1) : context'[c].turns[i] = r)
      <4>1. ASSUME NEW i \in 1 .. n, context[c].turns[i] = r
            PROVE  i \in 1 .. (n + 1) /\ context'[c].turns[i] = r
        BY <1>1, <4>1
      <4>2. ASSUME NEW i \in 1 .. (n + 1), context'[c].turns[i] = r
            PROVE  i \in 1 .. n /\ context[c].turns[i] = r
        BY <1>1, <2>3, <4>2
      <4>3. QED
        BY <4>1, <4>2
    <3>3. QED
      BY <1>1, <2>1, <2>3, <3>1, <3>2
  <2>4. CASE r # e.run /\ ScopeOf[r] # c
    BY <1>2, <1>3, <1>4, <2>1, <2>4
  <2>5. QED
    BY <2>2, <2>3, <2>4
<1>6. ASSUME NEW s \in Scopes
      PROVE  /\ context'[s].version = Len(context'[s].turns)
             /\ \A i \in DOMAIN context'[s].turns : ScopeOf[context'[s].turns[i]] = s
  <2>1. CASE s = c
    <3>1. ASSUME NEW i \in 1 .. (n + 1)
          PROVE  ScopeOf[context'[c].turns[i]] = c
      <4>1. CASE i \in 1 .. n
        <5>1. context'[c].turns[i] = context[c].turns[i] /\ i \in DOMAIN context[c].turns
          BY <1>1, <4>1
        <5>2. QED
          BY <1>1, <5>1 DEF ContextInv, ContextIsCompletedRuns
      <4>2. CASE i = n + 1
        BY <1>1, <4>2 DEF c
      <4>3. QED
        BY <1>1, <4>1, <4>2
    <3>2. QED
      BY <1>1, <2>1, <3>1
  <2>2. CASE s # c
    BY <1>2, <2>2 DEF ContextInv, ContextIsCompletedRuns
  <2>3. QED
    BY <2>1, <2>2
<1>7. ContextIsCompletedRuns'
  BY <1>5, <1>6 DEF ContextIsCompletedRuns
<1>8. ASSUME NEW s \in Scopes, NEW i \in DOMAIN context'[s].turns
      PROVE  loaded'[context'[s].turns[i]].version = i - 1
  <2>1. CASE s = c /\ i = n + 1
    BY <1>1, <1>3, <2>1
  <2>2. CASE s = c /\ i # n + 1
    <3>1. i \in DOMAIN context[c].turns /\ context'[c].turns[i] = context[c].turns[i]
      BY <1>1, <2>2
    <3>2. QED
      BY <1>1, <1>3, <2>2, <3>1 DEF ContextInv, Serialised
  <2>3. CASE s # c
    BY <1>2, <1>3, <2>3 DEF ContextInv, Serialised
  <2>4. QED
    BY <2>1, <2>2, <2>3
<1>9. Serialised'
  BY <1>8 DEF Serialised
<1>10. ASSUME NEW r \in Runs
       PROVE  /\ loaded'[r].version = Len(loaded'[r].turns)
              /\ loaded'[r].version <= context'[ScopeOf[r]].version
              /\ \A i \in DOMAIN loaded'[r].turns :
                   loaded'[r].turns[i] = context'[ScopeOf[r]].turns[i]
  <2>1. /\ loaded[r].version = Len(loaded[r].turns)
        /\ loaded[r].version <= context[ScopeOf[r]].version
        /\ \A i \in DOMAIN loaded[r].turns :
             loaded[r].turns[i] = context[ScopeOf[r]].turns[i]
    BY DEF ContextInv, SnapshotsArePrefixes
  <2>2. /\ loaded[r].version \in Nat
        /\ DOMAIN loaded[r].turns = 1 .. Len(loaded[r].turns)
    BY TurnsFacts DEF TypeOK
  <2>3. CASE ScopeOf[r] = c
    BY <1>1, <1>3, <2>1, <2>2, <2>3
  <2>4. CASE ScopeOf[r] # c
    BY <1>2, <1>3, <1>4, <2>1, <2>4
  <2>5. QED
    BY <2>3, <2>4
<1>11. SnapshotsArePrefixes'
  BY <1>10 DEF SnapshotsArePrefixes
<1>12. QED
  BY <1>7, <1>9, <1>11 DEF ContextInv

LEMMA StepContext ==
  ASSUME TypeOK, ContextInv, [Next]_vars
  PROVE  ContextInv'
<1>1. ASSUME NEW r \in Runs, CreateRun(r)
      PROVE  ContextInv'
  BY <1>1, NoCompletionKeepsContext DEF CreateRun, TypeOK
<1>2. ASSUME NEW e \in Event, AppendEvent(e)
      PROVE  ContextInv'
  BY <1>2, NoCompletionKeepsContext DEF AppendEvent
<1>3. ASSUME NEW e \in Event, TryFinish(e)
      PROVE  ContextInv'
  BY <1>3, NoCompletionKeepsContext DEF TryFinish, TypeOK
<1>4. ASSUME NEW S, NEW how \in {"failed", "cancelled"},
             NEW ids \in [Abandoned(S) -> EventIds], FinishAbandoned(S, how, ids)
      PROVE  ContextInv'
  <2>1. context' = context /\ loaded' = loaded
    BY <1>4 DEF FinishAbandoned
  <2>2. \A r \in Runs : state'[r] = "completed" <=> state[r] = "completed"
    BY <1>4 DEF FinishAbandoned, Abandoned
  <2>3. QED
    BY <2>1, <2>2, NoCompletionKeepsContext
<1>5. CASE UNCHANGED vars
  BY <1>5, NoCompletionKeepsContext DEF vars
<1>6. QED
  BY <1>1, <1>2, <1>3, <1>4, <1>5, LoadKeepsContext, CompletionKeepsContext
     DEF Next, RecoverProcessLost, CancelAbandoned

LEMMA StepOutbox ==
  ASSUME TypeOK, OutboxFollowsTerminal, [Next]_vars
  PROVE  OutboxFollowsTerminal'
<1>1. ASSUME NEW r \in Runs, Load(r) \/ CreateRun(r)
      PROVE  OutboxFollowsTerminal'
  <2>1. outbox' = outbox /\ \A q \in Runs : state'[q] \in Terminal <=> state[q] \in Terminal
    BY <1>1 DEF Load, CreateRun, TypeOK, Terminal
  <2>2. Subscribed \subseteq Runs
    BY StoreAssumption DEF StoreAssumption
  <2>3. QED
    BY <2>1, <2>2 DEF OutboxFollowsTerminal
<1>2. ASSUME NEW e \in Event, AppendEvent(e)
      PROVE  OutboxFollowsTerminal'
  BY <1>2 DEF AppendEvent, OutboxFollowsTerminal
<1>3. ASSUME NEW e \in Event, TryFinish(e) \/ TryComplete(e)
      PROVE  OutboxFollowsTerminal'
  <2>1. /\ e.run \in Runs /\ state'[e.run] \in Terminal
        /\ \A q \in Runs \ {e.run} : state'[q] = state[q]
        /\ state[e.run] \notin Terminal
    BY <1>3 DEF TryFinish, TryComplete, TypeOK, Event, Terminal
  <2>2. outbox' = IF e.run \in Subscribed THEN outbox \cup {e.run} ELSE outbox
    BY <1>3 DEF TryFinish, TryComplete, OutboxWith
  <2>3. Subscribed \subseteq Runs
    BY StoreAssumption DEF StoreAssumption
  <2>4. QED
    BY <2>1, <2>2, <2>3 DEF OutboxFollowsTerminal
<1>4. ASSUME NEW S, NEW how, NEW ids, FinishAbandoned(S, how, ids)
      PROVE  OutboxFollowsTerminal'
  <2>1. Subscribed = {} /\ outbox' = outbox
    BY <1>4, StoreAssumption DEF FinishAbandoned, StoreAssumption
  <2>2. QED
    BY <2>1 DEF OutboxFollowsTerminal
<1>5. CASE UNCHANGED vars
  BY <1>5 DEF vars, OutboxFollowsTerminal
<1>6. QED
  BY <1>1, <1>2, <1>3, <1>4, <1>5 DEF Next, RecoverProcessLost, CancelAbandoned

-----------------------------------------------------------------------------
(* The inductive invariant holds in every reachable state.                 *)
THEOREM StoreInvariant == Spec => []IInv
<1>1. IInv /\ [Next]_vars => IInv'
  BY StepType, StepLogs, StepContext, StepOutbox DEF IInv
<1>2. QED
  BY InitIInv, <1>1, PTL DEF Spec

(* Type correctness of the store.                                          *)
THEOREM TypeCorrect == Spec => []TypeOK
<1>1. IInv => TypeOK
  BY DEF IInv
<1>2. QED
  BY <1>1, StoreInvariant, PTL

(* Every log is its Run's, numbered 1, 2, 3 ... with no identifier used    *)
(* twice, whoever writes and in whatever order.                            *)
THEOREM LogsWellFormed == Spec => [](Contiguous /\ IdsUnique)
<1>1. IInv => Contiguous /\ IdsUnique
  BY DEF IInv, LogInv
<1>2. QED
  BY <1>1, StoreInvariant, PTL

(* A Run ends once: one terminal event, in agreement with its row.         *)
THEOREM TerminalIsUnique == Spec => []TerminalOnce
<1>1. IInv => TerminalOnce
  BY DEF IInv, LogInv
<1>2. QED
  BY <1>1, StoreInvariant, PTL

(* A context holds the completed Runs of its scope, and only those.        *)
THEOREM NoLostTurn == Spec => []ContextIsCompletedRuns
<1>1. IInv => ContextIsCompletedRuns
  BY DEF IInv, ContextInv
<1>2. QED
  BY <1>1, StoreInvariant, PTL

(* The completed Runs of a scope are serialised.                           *)
THEOREM CompletionsSerialised == Spec => [](Serialised /\ SnapshotsArePrefixes)
<1>1. IInv => Serialised /\ SnapshotsArePrefixes
  BY DEF IInv, ContextInv
<1>2. QED
  BY <1>1, StoreInvariant, PTL

(* Both halves of the store at once: logs that number their events and end *)
(* once; contexts that hold the serial history of the completed Runs.      *)
THEOREM LogsAreSound == Spec => []LogInv
<1>1. IInv => LogInv
  BY DEF IInv
<1>2. QED
  BY <1>1, StoreInvariant, PTL

THEOREM ContextsAreSound == Spec => []ContextInv
<1>1. IInv => ContextInv
  BY DEF IInv
<1>2. QED
  BY <1>1, StoreInvariant, PTL

(* The outbox holds the subscribed Runs that ended, neither more nor less. *)
THEOREM OutboxIsExact == Spec => []OutboxFollowsTerminal
<1>1. IInv => OutboxFollowsTerminal
  BY DEF IInv
<1>2. QED
  BY <1>1, StoreInvariant, PTL

-----------------------------------------------------------------------------
(* What a step may never do.                                               *)

(* No step drops or rewrites a log entry.                                  *)
THEOREM LogsOnlyGrow == Spec => LogsAppendOnly
<1> DEFINE P == \A r \in Runs : Extends(events[r], events'[r])
<1>1. ASSUME TypeOK, events' = events
      PROVE  P
  <2>1. \A r \in Runs : Len(events[r]) \in Nat
    BY <1>1, LenProperties DEF TypeOK
  <2>2. QED
    BY <1>1, <2>1 DEF Extends
<1>2. ASSUME TypeOK, NEW S, NEW new, Grow(S, new)
      PROVE  P
  <2> SUFFICES ASSUME NEW r \in Runs
               PROVE  Extends(events[r], events'[r])
    OBVIOUS
  <2>1. \A i \in DOMAIN events[r] : events'[r][i] = events[r][i]
    BY <1>2, GrowEntries
  <2>2. events[r] \in Seq(Event) /\ events'[r] \in Seq(Event)
    BY <1>2, GrowEntries DEF TypeOK
  <2>3. Len(events[r]) <= Len(events'[r])
    <3>1. CASE r \in S
      <4>1. DOMAIN events'[r] = 1 .. (Len(events[r]) + 1) /\ Len(events[r]) \in Nat
        BY <1>2, <3>1, GrowEntries
      <4>2. Len(events'[r]) \in Nat /\ DOMAIN events'[r] = 1 .. Len(events'[r])
        BY <2>2, LenProperties
      <4>3. QED
        BY <4>1, <4>2
    <3>2. CASE r \notin S
      BY <1>2, <3>2, GrowEntries
    <3>3. QED
      BY <3>1, <3>2
  <2>4. QED
    BY <2>1, <2>3 DEF Extends
<1>3. ASSUME TypeOK, NEW e \in Event, Appendable(e), events' = LogWith(e)
      PROVE  P
  <2>1. CASE Replay(e)
    BY <1>1, <1>3, <2>1 DEF LogWith
  <2>2. CASE ~Replay(e)
    BY <1>2, <1>3, <2>2, FreshGrows DEF Appendable
  <2>3. QED
    BY <2>1, <2>2
<1> HIDE DEF P
<1>4. IInv /\ [Next]_vars => P
  <2> SUFFICES ASSUME IInv, [Next]_vars PROVE P
    OBVIOUS
  <2>1. TypeOK
    BY DEF IInv
  <2>2. ASSUME NEW r \in Runs, Load(r) \/ CreateRun(r)
        PROVE  P
    BY <1>1, <2>1, <2>2 DEF Load, CreateRun
  <2>3. ASSUME NEW e \in Event, AppendEvent(e) \/ TryFinish(e) \/ TryComplete(e)
        PROVE  P
    BY <1>3, <2>1, <2>3 DEF AppendEvent, TryFinish, TryComplete
  <2>4. ASSUME NEW S, NEW how \in {"failed", "cancelled"},
               NEW ids \in [Abandoned(S) -> EventIds], FinishAbandoned(S, how, ids)
        PROVE  P
    BY <1>2, <2>1, <2>4, RecoveryGrows
  <2>5. CASE UNCHANGED vars
    BY <1>1, <2>1, <2>5 DEF vars
  <2>6. QED
    BY <2>2, <2>3, <2>4, <2>5 DEF Next, RecoverProcessLost, CancelAbandoned
<1>5. [][P]_vars => LogsAppendOnly
  BY PTL DEF P, LogsAppendOnly
<1>6. QED
  BY <1>4, <1>5, StoreInvariant, PTL DEF Spec

(* A terminal row never changes, whatever races for it.                    *)
THEOREM TerminalNeverChanges == Spec => TerminalFinal
<1>1. IInv /\ [Next]_vars => [\A r \in Runs : state[r] \in Terminal => state'[r] = state[r]]_vars
  <2> SUFFICES ASSUME IInv, [Next]_vars, NEW r \in Runs, state[r] \in Terminal
               PROVE  state'[r] = state[r]
    OBVIOUS
  <2>1. TypeOK /\ state[r] # "running" /\ state[r] # "absent"
    BY DEF IInv, Terminal
  <2>2. ASSUME NEW q \in Runs, Load(q) \/ CreateRun(q)
        PROVE  state'[r] = state[r]
    BY <2>1, <2>2 DEF Load, CreateRun, TypeOK
  <2>3. ASSUME NEW e \in Event, AppendEvent(e) \/ TryFinish(e) \/ TryComplete(e)
        PROVE  state'[r] = state[r]
    BY <2>1, <2>3 DEF AppendEvent, TryFinish, TryComplete, TypeOK
  <2>4. ASSUME NEW S, NEW how, NEW ids, FinishAbandoned(S, how, ids)
        PROVE  state'[r] = state[r]
    BY <2>1, <2>4 DEF FinishAbandoned, Abandoned
  <2>5. CASE UNCHANGED vars
    BY <2>5 DEF vars
  <2>6. QED
    BY <2>2, <2>3, <2>4, <2>5 DEF Next, RecoverProcessLost, CancelAbandoned
<1>2. QED
  BY <1>1, StoreInvariant, PTL DEF Spec, TerminalFinal

(* A context moves only with a completing Run of its scope, by one version.*)
THEOREM OnlyCompletionMovesContext == Spec => ContextMovesByCompletion
<1> DEFINE P == \A s \in Scopes : context'[s] # context[s] =>
                  /\ context'[s].version = context[s].version + 1
                  /\ \E r \in Runs : /\ ScopeOf[r] = s
                                     /\ state[r] = "running" /\ state'[r] = "completed"
<1>1. ASSUME TypeOK, ContextInv, NEW e \in Event, TryComplete(e)
      PROVE  P
  <2>1. /\ e.run \in Runs /\ ScopeOf[e.run] \in Scopes
        /\ context'[ScopeOf[e.run]].version = context[ScopeOf[e.run]].version + 1
    BY <1>1, CompletionExtends DEF ContextInv
  <2>2. \A s \in Scopes \ {ScopeOf[e.run]} : context'[s] = context[s]
    BY <1>1 DEF TryComplete, TypeOK
  <2>3. state[e.run] = "running" /\ state'[e.run] = "completed"
    BY <1>1, <2>1 DEF TryComplete, TypeOK
  <2>4. QED
    BY <2>1, <2>2, <2>3
<1>2. ASSUME context' = context
      PROVE  P
  BY <1>2
<1> HIDE DEF P
<1>3. IInv /\ [Next]_vars => P
  BY <1>1, <1>2 DEF IInv, Next, Load, CreateRun, AppendEvent, TryFinish,
                    RecoverProcessLost, CancelAbandoned, FinishAbandoned, vars
<1>4. [][P]_vars => ContextMovesByCompletion
  BY PTL DEF P, ContextMovesByCompletion
<1>5. QED
  BY <1>3, <1>4, StoreInvariant, PTL DEF Spec

(* No step takes back an event, a terminal row or a context version.       *)
THEOREM NothingIsTakenBack == Spec => OnlyForward
  BY LogsOnlyGrow, TerminalNeverChanges, OnlyCompletionMovesContext DEF OnlyForward

-----------------------------------------------------------------------------
(* Refinement: with versions read as histories, every step of the store is *)
(* a step of ScopeHistory or leaves its state alone.                       *)

LEMMA OutcomeStep ==
  ASSUME NEW r \in Runs, TypeOK, NEW how \in Terminal,
         state' = [state EXCEPT ![r] = how]
  PROVE  /\ Outcome(r)' = how
         /\ \A q \in Runs \ {r} : Outcome(q)' = Outcome(q)
  BY DEF Outcome, TypeOK, Terminal

(* The store starts as an empty history.                                   *)
LEMMA RefineInit == Init => Abstract!Init
  BY DEF Init, Abstract!Init, Outcome, EmptyContext

(* Reading a snapshot is observing the history.                            *)
LEMMA RefineLoad ==
  ASSUME NEW r \in Runs, TypeOK, Load(r)
  PROVE  Abstract!Next
<1>1. /\ state' = state /\ context' = context /\ state[r] = "absent"
      /\ loaded' = [loaded EXCEPT ![r] = context[ScopeOf[r]]]
      /\ ScopeOf[r] \in Scopes
  BY StoreAssumption DEF StoreAssumption, Load
<1>2. [q \in Runs |-> loaded'[q].turns]
        = [[q \in Runs |-> loaded[q].turns] EXCEPT
             ![r] = [s \in Scopes |-> context[s].turns][ScopeOf[r]]]
  BY <1>1 DEF TypeOK
<1>3. Abstract!Observe(r)
  BY <1>1, <1>2 DEF Abstract!Observe, Outcome
<1>4. QED
  BY <1>3 DEF Abstract!Next

LEMMA RefineCreate ==
  ASSUME NEW r \in Runs, TypeOK, CreateRun(r)
  PROVE  Abstract!Next
<1>1. /\ loaded' = loaded /\ context' = context /\ state[r] = "absent"
      /\ state' = [state EXCEPT ![r] = "running"]
  BY DEF CreateRun
<1>2. [q \in Runs |-> Outcome(q)'] = [[q \in Runs |-> Outcome(q)] EXCEPT ![r] = "open"]
  BY <1>1 DEF Outcome, TypeOK
<1>3. Abstract!Open(r)
  BY <1>1, <1>2 DEF Abstract!Open, Outcome
<1>4. QED
  BY <1>3 DEF Abstract!Next

(* Completing is committing: an equal version is an equal history.         *)
LEMMA RefineComplete ==
  ASSUME NEW e \in Event, TypeOK, ContextInv, TryComplete(e)
  PROVE  Abstract!Next
<1> DEFINE r == e.run
           s == ScopeOf[r]
<1>1. r \in Runs /\ s \in Scopes
  BY StoreAssumption DEF StoreAssumption, Event
<1>2. /\ loaded' = loaded /\ state[r] = "running"
      /\ state' = [state EXCEPT ![r] = "completed"]
  BY DEF TryComplete
<1>3. [q \in Runs |-> Outcome(q)'] = [[q \in Runs |-> Outcome(q)] EXCEPT ![r] = "completed"]
  BY <1>1, <1>2, OutcomeStep DEF Terminal
<1>4. loaded[r].turns = context[s].turns
  BY <1>1, SameVersionSameTurns DEF ContextInv, TryComplete
<1>5. context' = [context EXCEPT ![s] = CommittedContext(r)]
  BY DEF TryComplete
<1>6. CommittedContext(r).turns = Append(context[s].turns, r)
  BY <1>4 DEF CommittedContext
<1>7. [t \in Scopes |-> context'[t].turns]
        = [[t \in Scopes |-> context[t].turns] EXCEPT ![s] = Append(@, r)]
  BY <1>1, <1>5, <1>6 DEF TypeOK
<1>8. Abstract!Commit(r)
  BY <1>1, <1>2, <1>3, <1>4, <1>7 DEF Abstract!Commit, Outcome
<1>9. QED
  BY <1>1, <1>8 DEF Abstract!Next

(* Ending without completing, one Run or many at once, is closing.         *)
LEMMA RefineClose ==
  ASSUME NEW S \in SUBSET Runs, S # {}, TypeOK,
         NEW how \in {"failed", "cancelled"},
         \A r \in S : state[r] = "running",
         state' = [r \in Runs |-> IF r \in S THEN how ELSE state[r]],
         context' = context, loaded' = loaded
  PROVE  Abstract!Next
<1>1. \A r \in Runs : Outcome(r)' = IF r \in S THEN how ELSE Outcome(r)
  BY DEF Outcome
<1>2. \A r \in S : Outcome(r) = "open"
  BY DEF Outcome
<1>3. Abstract!Close(S, how)
  BY <1>1, <1>2 DEF Abstract!Close
<1>4. QED
  BY <1>3 DEF Abstract!Next

(* The store implements the serial history of completed Runs.              *)
THEOREM StoreImplementsHistory == Spec => ImplementsScopeHistory
<1>1. ASSUME UNCHANGED <<state, context, loaded>>
      PROVE  UNCHANGED Abstract!vars
  BY <1>1 DEF Abstract!vars, Outcome
<1>2. IInv /\ [Next]_vars => [Abstract!Next]_(Abstract!vars)
  <2> SUFFICES ASSUME IInv, [Next]_vars
               PROVE  Abstract!Next \/ UNCHANGED Abstract!vars
    OBVIOUS
  <2>1. TypeOK /\ ContextInv
    BY DEF IInv
  <2>2. ASSUME NEW r \in Runs, Load(r) \/ CreateRun(r)
        PROVE  Abstract!Next
    BY <2>1, <2>2, RefineLoad, RefineCreate
  <2>3. ASSUME NEW e \in Event, AppendEvent(e)
        PROVE  UNCHANGED Abstract!vars
    BY <1>1, <2>3 DEF AppendEvent
  <2>4. ASSUME NEW e \in Event, TryFinish(e)
        PROVE  Abstract!Next
    <3>1. {e.run} \in SUBSET Runs /\ {e.run} # {}
      BY DEF Event
    <3>2. state' = [r \in Runs |-> IF r \in {e.run} THEN e.kind ELSE state[r]]
      BY <2>1, <2>4 DEF TryFinish, TypeOK
    <3>3. /\ e.kind \in {"failed", "cancelled"} /\ context' = context /\ loaded' = loaded
          /\ \A r \in {e.run} : state[r] = "running"
      BY <2>4 DEF TryFinish
    <3>4. QED
      BY <2>1, <3>1, <3>2, <3>3, RefineClose
  <2>5. ASSUME NEW e \in Event, TryComplete(e)
        PROVE  Abstract!Next
    BY <2>1, <2>5, RefineComplete
  <2>6. ASSUME NEW S, NEW how \in {"failed", "cancelled"},
               NEW ids \in [Abandoned(S) -> EventIds], FinishAbandoned(S, how, ids)
        PROVE  Abstract!Next
    <3>1. /\ Abandoned(S) \in SUBSET Runs /\ Abandoned(S) # {}
          /\ \A r \in Abandoned(S) : state[r] = "running"
      BY <2>6 DEF FinishAbandoned, Abandoned
    <3>2. /\ state' = [r \in Runs |-> IF r \in Abandoned(S) THEN how ELSE state[r]]
          /\ context' = context /\ loaded' = loaded
      BY <2>6 DEF FinishAbandoned
    <3>3. QED
      BY <2>1, <3>1, <3>2, RefineClose
  <2>7. CASE UNCHANGED vars
    BY <1>1, <2>7 DEF vars
  <2>8. QED
    BY <2>2, <2>3, <2>4, <2>5, <2>6, <2>7 DEF Next, RecoverProcessLost, CancelAbandoned
<1>3. QED
  BY <1>2, RefineInit, StoreInvariant, PTL DEF Spec, ImplementsScopeHistory, Abstract!Spec
=============================================================================
