-------------------------- MODULE WorkflowTraversal --------------------------
(* The Kernel's WorkflowScheduler behind WorkflowPolicy: asked for its next *)
(* decision, it walks the graph, without awaiting anything, until it can    *)
(* assign an agent, or several at a fork, or the walk is over.  The next    *)
(* question means that what it assigned is done.  Node states, the visited  *)
(* nodes and a step count are its own memory.                               *)
EXTENDS Naturals, FiniteSets, Sequences

CONSTANTS
  Graphs,   \* [start, kind, next, branch, agent, first]: next gives the heads of
            \* a node's edges in order, branch the positions a condition's
            \* answers have in its `branches` (0 for one that is not there),
            \* agent a node's agent or "none", first the first agent
  MaxSteps  \* max_steps

None == "none"

(* A graph has nodes, among them its start, and its edges go from node to  *)
(* node (graph.py:41-48); the same edge may be there twice.                *)
ASSUME GraphAssumption ==
  /\ MaxSteps \in Nat
  /\ \A g \in Graphs :
       /\ IsFiniteSet(DOMAIN g.kind) /\ None \notin DOMAIN g.kind
       /\ g.start \in DOMAIN g.kind
       /\ g.next \in [DOMAIN g.kind -> Seq(DOMAIN g.kind)]
       /\ g.branch \in [DOMAIN g.kind -> SUBSET Nat \ {{}}]

VARIABLES
  graph,     \* the graph of this Run
  turn,      \* "waiting" for the Kernel's question, "deciding", "over"
  current,   \* current_node_id
  last,      \* _last_decision_node_id
  fork,      \* _last_parallel_node_ids
  visited, mark, steps,
  asked      \* the agents of the outstanding decision

walkVars == <<graph, turn, current, last, fork, visited, mark, steps, asked>>

Ids == DOMAIN graph.kind
Heads(n, edges) == {graph.next[n][i] : i \in edges}
Successors(n) == Heads(n, DOMAIN graph.next[n])
Controls(n) == graph.kind[n] \in {"start", "end", "condition"}

AgentOf(n) == IF graph.agent[n] = None THEN graph.first ELSE graph.agent[n]

WalkInit ==
  /\ graph \in Graphs
  /\ turn = "waiting" /\ current = graph.start /\ last = None /\ fork = {}
  /\ visited = {} /\ mark = [n \in Ids |-> "pending"] /\ steps = 0 /\ asked = {}

NodesMarked(S, status) == mark' = [n \in Ids |-> IF n \in S THEN status ELSE mark[n]]
Complete == turn' = "over" /\ asked' = {}

(* The Kernel asks, once everyone it was told to has reported.             *)
Ask ==
  /\ turn = "waiting" /\ turn' = "deciding" /\ asked' = {}
  /\ UNCHANGED <<graph, current, last, fork, visited, mark, steps>>

(* next_node: a condition answers freely and takes the edge at the place   *)
(* of its answer, or the first if there is none, visited or not; elsewhere *)
(* the first successor not yet visited.                                    *)
NextNodes(n, seen) ==
  LET next == graph.next[n]
      new == {i \in DOMAIN next : next[i] \notin seen}
  IN  IF next = <<>> THEN {None}
      ELSE IF graph.kind[n] = "condition"
           THEN {next[IF i \in DOMAIN next THEN i ELSE 1] : i \in graph.branch[n]}
      ELSE IF new = {} THEN {None}
      ELSE {next[CHOOSE i \in new : \A j \in new : i <= j]}

(* The nodes of a fork are completed and visited, and the walk goes on at  *)
(* a common successor, the end node if it is one.                          *)
JoinNodes ==
  LET common == {t \in Ids : \A n \in fork : t \in Successors(n)}
      ends == {t \in common : graph.kind[t] = "end"}
  IN  IF ends # {} THEN ends ELSE IF common # {} THEN common ELSE {None}

Join ==
  /\ turn = "deciding" /\ fork # {}
  /\ NodesMarked(fork, "completed") /\ visited' = visited \cup fork /\ fork' = {}
  /\ \E next \in JoinNodes :
       /\ current' = next
       /\ IF next = None THEN Complete ELSE UNCHANGED <<turn, asked>>
  /\ UNCHANGED <<graph, last, steps>>

(* _advance_node: the node decided last is done.                           *)
Advance ==
  /\ turn = "deciding" /\ fork = {} /\ current # None /\ current = last
  /\ NodesMarked({current}, "completed") /\ last' = None
  /\ \E next \in NextNodes(current, visited) :
       /\ current' = next
       /\ IF next = None THEN Complete ELSE UNCHANGED <<turn, asked>>
  /\ UNCHANGED <<graph, fork, visited, steps>>

(* The walk stands at a node it has not decided about.                     *)
Arrived == turn = "deciding" /\ fork = {} /\ (current = None \/ current # last)

StepLimit ==
  /\ Arrived /\ (steps >= MaxSteps \/ current = None) /\ Complete
  /\ UNCHANGED <<graph, current, last, fork, visited, mark, steps>>

\* Mutant: there is no step limit.
MutantVisits == Arrived /\ current # None
Visits == Arrived /\ current # None /\ steps < MaxSteps

(* A control node with two or more edges to successors not yet visited     *)
(* follows every one whose head has an agent, twice where it is there      *)
(* twice: the heads are visited and started, and are a fork when they have *)
(* two agents at least.                                                    *)
Ahead(seen) ==
  {i \in DOMAIN graph.next[current] : graph.next[current][i] \notin seen}
Followed(seen) ==
  IF Cardinality(Ahead(seen)) < 2 THEN {}
  ELSE {i \in Ahead(seen) : LET t == graph.next[current][i]
                            IN  ~Controls(t) /\ graph.agent[t] # None}
Agents(S) == {graph.agent[n] : n \in S}

PassControl ==
  LET here == visited \cup {current}
      edges == Followed(here)
      taken == Heads(current, edges)
  IN  /\ Visits /\ Controls(current)
      /\ visited' = here \cup taken
      /\ mark' = [n \in Ids |-> IF n \in taken THEN "running"
                                ELSE IF n = current THEN "completed" ELSE mark[n]]
      /\ steps' = steps + 1 + Cardinality(edges)
      /\ \/ /\ Cardinality(Agents(taken)) >= 2
            /\ fork' = taken /\ last' = None /\ current' = None
            /\ turn' = "waiting" /\ asked' = Agents(taken)
         \/ /\ Cardinality(Agents(taken)) < 2
            /\ \E next \in NextNodes(current, visited') :
                 /\ current' = next
                 /\ IF next = None THEN Complete ELSE UNCHANGED <<turn, asked>>
            /\ UNCHANGED <<last, fork>>
      /\ UNCHANGED graph

(* Any other node is assigned to its agent, or to the first one.           *)
Assign ==
  /\ Visits /\ ~Controls(current)
  /\ visited' = visited \cup {current} /\ NodesMarked({current}, "running")
  /\ steps' = steps + 1 /\ last' = current
  /\ turn' = "waiting" /\ asked' = {AgentOf(current)}
  /\ UNCHANGED <<graph, current, fork>>

Decide == Join \/ Advance \/ StepLimit \/ PassControl \/ Assign

Walk == Ask \/ Decide

(* The scheduler's loop runs to a decision; the Kernel asks again until it *)
(* is told that the workflow is complete.                                  *)
WalkSpec == WalkInit /\ [][Walk]_walkVars /\ WF_walkVars(Walk)

----------------------------------------------------------------------------
MaxFan == LET fans == {Len(graph.next[n]) : n \in Ids}
          IN  CHOOSE f \in fans : \A g \in fans : g <= f

(* The walk follows the edges: every visited node but the first has a      *)
(* visited predecessor that is done (or is at work again), and the walk    *)
(* stands at the successor of a visited node; a decision is outstanding    *)
(* exactly for the nodes it will settle, whose agents were told; and the   *)
(* step limit holds up to one fork.                                        *)
WalkFollowsGraph ==
  /\ \A n \in visited \ {graph.start} :
       \E p \in visited : n \in Successors(p) /\ (mark[p] = "completed" \/ p = last)
  /\ current \notin {None, graph.start} =>
       \E p \in visited : current \in Successors(p) /\ mark[p] # "pending"
  /\ turn = "waiting" /\ steps > 0 =>
       /\ (fork = {}) # (last = None)
       /\ last # None => last = current /\ mark[last] = "running"
       /\ \A n \in fork : mark[n] = "running" /\ graph.agent[n] \in asked
  /\ steps <= MaxSteps + MaxFan

(* The walk ends, on cyclic graphs too.                                    *)
WalkEnds == <>(turn = "over")

(* A fork leaves no branch that a condition has not chosen: only one       *)
(* successor of a condition is started.                                    *)
OneBranch == \A n \in visited : graph.kind[n] = "condition" =>
  Cardinality({t \in Successors(n) : mark[t] # "pending"}) <= 1

(* A node that is started is one the Kernel is told to run.                *)
StartedIsAsked == \A n \in Ids :
  mark[n] = "running" => turn = "waiting" /\ graph.agent[n] \in asked
=============================================================================
