----------------------------- MODULE MCRunStore -----------------------------
(* The three adapters side by side: three Runs over two scopes, so that    *)
(* two Runs compete for one context while a third shows that scopes do not *)
(* interfere.  The initial state chooses the adapter; SQL's bulk recovery, *)
(* SQLite's outbox and the desktop's split transactions differ, what is    *)
(* asked of them does not.                                                 *)
EXTENDS RunStoreDesktop, TLC

CONSTANTS r1, r2, r3, s1, s2

VARIABLE adapter

MCRuns == {r1, r2, r3}
MCScopes == {s1, s2}
MCScopeOf == (r1 :> s1) @@ (r2 :> s1) @@ (r3 :> s2)
MCSubscribed == {r1, r3}
MCNone == {}

Sqlite == INSTANCE RunStore WITH SqlAdapter <- FALSE, Subscribed <- MCSubscribed

(* Bound: the desktop adapter, whose operations interleave, is given the   *)
(* two competing Runs and logs of two events.                              *)
DesktopBound ==
  adapter = "desktop" => state[r3] = "absent" /\ \A r \in Runs : Len(events[r]) <= 2

AdaptersInit == DesktopInit /\ adapter \in {"sql", "sqlite", "desktop"}

AdaptersNext ==
  /\ UNCHANGED adapter
  /\ \/ adapter = "sql" /\ Next /\ UNCHANGED operation
     \/ adapter = "sqlite" /\ Sqlite!Next /\ UNCHANGED operation
     \/ adapter = "desktop" /\ DesktopNext

AdaptersSpec == AdaptersInit /\ [][AdaptersNext]_<<desktopVars, adapter>>

(* OutboxFollowsTerminal for the adapter that has an outbox: the job row   *)
(* is written with the terminal event, never before it, never forgotten.   *)
SqliteOutboxFollowsTerminal == adapter = "sqlite" => Sqlite!OutboxFollowsTerminal

AdapterSymmetry == Permutations(EventIds) \cup Permutations(Callers)
=============================================================================
