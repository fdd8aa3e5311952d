---------------------------- MODULE ScopeHistory ----------------------------
(***************************************************************************)
(* What the runtime's persistence promises about a conversation scope:     *)
(* the Runs that complete form one serial history per scope.  A Run sees   *)
(* some past of its scope, and it joins the history only if that past is   *)
(* still the whole history; otherwise it ends without leaving a trace.     *)
(* RunStore implements this with versions, logs and transactions.          *)
(***************************************************************************)
EXTENDS Naturals, Sequences

CONSTANTS Runs,      \* run identifiers
          Scopes,    \* context scope identifiers
          ScopeOf    \* the one scope each Run belongs to

VARIABLES outcome,   \* per Run: "new", "open", or how it ended
          seen,      \* per Run: the history it started from
          history    \* per scope: the Runs whose results are in its context

vars == <<outcome, seen, history>>

Ended == {"completed", "failed", "cancelled"}

Init ==
  /\ outcome = [r \in Runs |-> "new"]
  /\ seen = [r \in Runs |-> <<>>]
  /\ history = [s \in Scopes |-> <<>>]

Observe(r) ==
  /\ outcome[r] = "new"
  /\ seen' = [seen EXCEPT ![r] = history[ScopeOf[r]]]
  /\ UNCHANGED <<outcome, history>>

Open(r) ==
  /\ outcome[r] = "new"
  /\ outcome' = [outcome EXCEPT ![r] = "open"]
  /\ UNCHANGED <<seen, history>>

Commit(r) ==
  /\ outcome[r] = "open"
  /\ seen[r] = history[ScopeOf[r]]
  /\ outcome' = [outcome EXCEPT ![r] = "completed"]
  /\ history' = [history EXCEPT ![ScopeOf[r]] = Append(@, r)]
  /\ UNCHANGED seen

(* A set of Runs ends at once: recovery closes every abandoned Run in one  *)
(* transaction.                                                            *)
Close(S, how) ==
  /\ S # {}
  /\ \A r \in S : outcome[r] = "open"
  /\ outcome' = [r \in Runs |-> IF r \in S THEN how ELSE outcome[r]]
  /\ UNCHANGED <<seen, history>>

Next ==
  \/ \E r \in Runs : Observe(r) \/ Open(r) \/ Commit(r)
  \/ \E S \in SUBSET Runs, how \in {"failed", "cancelled"} : Close(S, how)

Spec == Init /\ [][Next]_vars
=============================================================================
