----------------------------- MODULE MCLocalHost -----------------------------
(* A local host: its sessions, with a few processes, which are             *)
(* interchangeable; and two agents of a Run that share a token budget over *)
(* its local journal, one call each, where the emit that ends a phase does *)
(* not suspend.  The two do not interfere, so the initial state chooses    *)
(* which of them moves.                                                    *)
EXTENDS LocalSessions, AgentLoop, TLC

VARIABLE moves

NoHistory == <<>>
OneKind == {[size |-> 1, records |-> FALSE]}

HostInit == Init /\ LoopInit /\ moves \in {"sessions", "agents"}

HostNext ==
  /\ UNCHANGED moves
  /\ \/ moves = "sessions" /\ Next /\ UNCHANGED loopVars
     \/ moves = "agents" /\ LoopNext /\ UNCHANGED vars
     \/ moves = "agents" /\ (\A a \in Agents : at[a] = "ended") /\ UNCHANGED <<vars, loopVars>>

HostSpec == HostInit /\ [][HostNext]_<<vars, loopVars, moves>>

Alike == Permutations(Procs) \cup Permutations(Sessions) \cup Permutations(Runs)
=============================================================================
