----------------------------- MODULE MCWorkflow -----------------------------
(* One canvas, two executors: in the room "engine" the backend runs it by  *)
(* hand (WorkflowRuns), in the room "kernel" it guides a Run's scheduler   *)
(* (WorkflowTraversal).                                                    *)
EXTENDS WorkflowRuns, WorkflowTraversal, TLC

VARIABLE room

(* Five nodes named by what they are in most canvases.                     *)
MCNodes == {"s", "c", "a", "b", "e"}
MCBranches == {"yes", "no"}

Canvas(edges, labels, skip, retries, flaky) ==
  [edges |-> edges, skip |-> skip, flaky |-> flaky,
   label |-> [x \in edges |-> IF x \in DOMAIN labels THEN labels[x] ELSE "any"],
   retries |-> [n \in MCNodes |-> IF n \in retries THEN 1 ELSE 0]]

Choice == {<<"s", "c">>, <<"c", "a">>, <<"c", "b">>, <<"a", "e">>}
ChoiceLabels == (<<"c", "a">> :> "yes") @@ (<<"c", "b">> :> "no")
Fork == {<<"s", "a">>, <<"s", "b">>, <<"a", "c">>, <<"b", "c">>, <<"c", "e">>}
TwoChoices == {<<"s", "a">>, <<"s", "b">>, <<"a", "c">>, <<"a", "e">>, <<"b", "e">>}
TwoLabels == (<<"a", "c">> :> "yes") @@ (<<"a", "e">> :> "no")

MCCanvases == {
  Canvas(Choice, ChoiceLabels, {}, {"a"}, FALSE),
  Canvas(Fork, <<>>, {"a"}, {"a", "b"}, FALSE),
  Canvas(TwoChoices, TwoLabels, {"b"}, {"b"}, FALSE),
  Canvas(Choice, ChoiceLabels, {"b"}, {}, TRUE),
  Canvas(Fork, <<>>, {"b"}, {"a"}, TRUE)}

Kind(agents, conditions) ==
  [n \in MCNodes |-> IF n \in agents THEN "agent" ELSE IF n \in conditions THEN "condition"
                     ELSE IF n = "s" THEN "start" ELSE "end"]
Graph(kind, next, agent) ==
  [start |-> "s", kind |-> kind, next |-> next, branch |-> [n \in MCNodes |-> {1, 2}],
   agent |-> agent, first |-> "x"]
Next5(s, c, a, b, e) ==
  [n \in MCNodes |-> CASE n = "s" -> s [] n = "c" -> c [] n = "a" -> a
                       [] n = "b" -> b [] n = "e" -> e]
AgentsXY == [n \in MCNodes |-> CASE n = "a" -> "x" [] n = "b" -> "y" [] OTHER -> "none"]
AgentsXX == [n \in MCNodes |-> IF n \in {"a", "b"} THEN "x" ELSE "none"]

(* A choice, a fork, a chain, forks whose nodes share an agent, a cycle    *)
(* through an agent and one of conditions only; edges that are there more  *)
(* than once, to a fork, to the only node, and behind a cycle; conditions  *)
(* with a list of branches of their own.                                   *)
MultiGraphs ==
  {Graph(Kind({"a", "b"}, {"c"}),
         Next5(<<"a", "a", "b">>, <<"e">>, <<"c">>, <<"c">>, <<>>), AgentsXY),
   Graph(Kind({"a", "b"}, {"c"}), Next5(<<"a", "a">>, <<"e">>, <<"c">>, <<"c">>, <<>>), AgentsXY),
   Graph(Kind({"a"}, {"b", "c"}),
         Next5(<<"c">>, <<"c", "b">>, <<"e">>, <<"a", "a", "a">>, <<>>), AgentsXY)}
BranchGraphs ==
  {[Graph(Kind({"a", "b"}, {"c"}),
          Next5(<<"c">>, <<"a", "b", "e">>, <<"b">>, <<"e">>, <<>>), AgentsXX)
      EXCEPT !.branch["c"] = places] : places \in {{2, 3}, {0, 3}, {3, 4}}}

MCGraphs ==
  MultiGraphs \cup BranchGraphs \cup
  {Graph(Kind({"a", "b"}, {"c"}), Next5(<<"c">>, <<"a", "b">>, <<"e">>, <<"e">>, <<>>), agent) :
     agent \in {AgentsXY, AgentsXX}} \cup
  {Graph(Kind({"a", "b", "c"}, {}), next, AgentsXY) : next \in {
     Next5(<<"a", "b">>, <<"e">>, <<"c">>, <<"c">>, <<>>),
     Next5(<<"a", "b", "c">>, <<"e">>, <<"e">>, <<"c">>, <<>>),
     Next5(<<"a">>, <<"e">>, <<"b">>, <<"a", "c">>, <<>>)}} \cup
  {Graph(Kind({"a"}, {"b", "c"}), next, AgentsXY) : next \in {
     Next5(<<"c">>, <<"b", "e">>, <<"c">>, <<"c", "a">>, <<>>),
     Next5(<<"c">>, <<"a", "b">>, <<"b">>, <<"a", "e">>, <<>>)}}

engineVars == <<canvas, row, extra, saves, copy, held, main, worker>>
roomVars == <<engineVars, walkVars, room>>

SomeCanvas == CHOOSE c \in Canvases : TRUE

WorkflowInit ==
  \/ /\ room = "engine" /\ Init
     /\ WalkInit /\ graph = CHOOSE g \in MCGraphs : TRUE
  \/ /\ room = "kernel" /\ WalkInit /\ Init /\ canvas = SomeCanvas

InEngine(step) == room = "engine" /\ step /\ UNCHANGED <<walkVars, room>>
InKernel(step) == room = "kernel" /\ step /\ UNCHANGED <<engineVars, room>>

WorkflowNext == InEngine(Next) \/ InKernel(Walk)

WorkflowFairness ==
  /\ WF_roomVars(InEngine(MainStep))
  /\ \A n \in Nodes : WF_roomVars(InEngine(NodeStep(n)))
  /\ WF_roomVars(InKernel(Walk))

WorkflowSpec == WorkflowInit /\ [][WorkflowNext]_roomVars /\ WorkflowFairness

(* Both executors end: the run with its row settled, the walk with a       *)
(* completed workflow.                                                     *)
WorkflowsEnd == (room = "engine" => WorkflowEnds) /\ (room = "kernel" => WalkEnds)
=============================================================================
