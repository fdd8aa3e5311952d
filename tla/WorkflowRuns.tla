---------------------------- MODULE WorkflowRuns ----------------------------
(* One run of a conversation's canvas, started by hand, as the backend's   *)
(* WorkflowEngine executes it: level by level, the nodes of a level each   *)
(* in a task with a database session of its own.  The WorkflowRun row and  *)
(* the conversation's JSON column `extra` are shared; every session works  *)
(* on the copies it has loaded.  A change made under the run lock starts   *)
(* with a refresh of the run, never of the conversation.                   *)
EXTENDS Naturals, FiniteSets

CONSTANTS
  Nodes,     \* node ids
  Canvases,  \* [edges, label, skip, retries, flaky]; label: edge -> branch or "any"
  Branches,  \* what a condition node answers
  MaxSaves   \* bound: canvases or settings saved while the run is executed

Main == "main"
Sessions == Nodes \cup {Main}
Settled == {"completed", "skipped", "failed"}

ASSUME CanvasAssumption ==
  /\ Main \notin Nodes /\ "any" \notin Branches /\ MaxSaves \in Nat
  /\ \A c \in Canvases :
       /\ c.edges \subseteq Nodes \X Nodes /\ c.skip \subseteq Nodes
       /\ \A S \in SUBSET Nodes : S # {} =>      \* no cycle
            \E n \in S : \A p \in S : <<p, n>> \notin c.edges
       /\ c.label \in [c.edges -> Branches \cup {"any"}]
       /\ c.retries \in [Nodes -> 0..3] /\ c.flaky \in BOOLEAN

VARIABLES
  canvas,  \* the run's snapshot of the canvas; flaky: the event bus may raise
  row,     \* the WorkflowRun row
  extra,   \* which save of its settings the conversation's row holds
  saves,   \* the saves so far
  copy,    \* the run as each session last loaded it
  held,    \* the settings in each session's conversation
  main,    \* the engine: level, skipped nodes, what is left to mark
  worker   \* _run_node of each node

vars == <<canvas, row, extra, saves, copy, held, main, worker>>

Entry(what, n, try) == [what |-> what, node |-> n, try |-> try]

Edges == canvas.edges
Preds(n) == {p \in Nodes : <<p, n>> \in Edges}
Targets(n) == {t \in Nodes : <<n, t>> \in Edges}
IsCondition(n) == \E t \in Targets(n) : canvas.label[<<n, t>>] # "any"

(* The targets of a condition whose edge is not for the branch; none when  *)
(* no edge is for it.                                                      *)
NotTaken(n, b) ==
  LET matched == {t \in Targets(n) : canvas.label[<<n, t>>] \in {b, "any"}}
  IN  IF matched = {} THEN {} ELSE Targets(n) \ matched

(* The nodes below n: the least set holding its targets and theirs.        *)
Descendants(n) ==
  LET closed == {S \in SUBSET Nodes :
                   /\ Targets(n) \subseteq S
                   /\ \A d \in S : Targets(d) \subseteq S}
  IN  {d \in Nodes : \A S \in closed : d \in S}

(* The next of topological_levels: the nodes whose predecessors all are in *)
(* the levels before.                                                      *)
NextLevel == {n \in Nodes \ main.seen : Preds(n) \subseteq main.seen}

Runnable == main.level \ main.skipped
SessionOf(n) == IF Cardinality(Runnable) > 1 THEN n ELSE Main

Idle == [pc |-> "idle", try |-> 0, as |-> "none", inTry |-> TRUE,
         todo |-> {}, skips |-> {}]

Init ==
  /\ canvas \in Canvases
  /\ row = [status |-> "running", node |-> [n \in Nodes |-> "queued"], events |-> {}]
  /\ extra = 0 /\ saves = 0
  /\ copy = [s \in Sessions |-> row] /\ held = [s \in Sessions |-> 0]
  /\ main = [pc |-> "begin", seen |-> {}, level |-> {}, skipped |-> {}, todo |-> {}]
  /\ worker = [n \in Nodes |-> Idle]

(* A publication succeeds, or raises: a subscriber's queue is full, Redis  *)
(* fails.                                                                  *)
Published == IF canvas.flaky THEN BOOLEAN ELSE {TRUE}

Write(s, r, settings) ==
  /\ row' = r /\ copy' = [copy EXCEPT ![s] = r]
  /\ held' = [held EXCEPT ![s] = settings] /\ extra' = settings

\* Mutant: the run is not refreshed.
MutantRefreshed(s) == copy[s]
Refreshed(s) == row

(* _mark_node: refresh, set, append the event and save, under the lock.    *)
Marked(s, k, status, try) ==
  [Refreshed(s) EXCEPT !.node[k] = status, !.events = @ \cup {Entry(status, k, try)}]
Mark(s, k, status, try) == Write(s, Marked(s, k, status, try), held[s])

----------------------------------------------------------------------------
(* _run_node of node n.                                                    *)

At(n, pc) == worker[n].pc = pc
Worker(n, w) == worker' = [worker EXCEPT ![n] = w]
Pc(n, pc) == [worker[n] EXCEPT !.pc = pc]

(* Where a raise goes: to the node's own handler, or out of the task.      *)
Raised(n) == Pc(n, IF worker[n].inTry THEN "caught" ELSE "raised")

(* The session is opened when the task first runs, and loads both rows.    *)
StartNode(n) == \E ok \in Published :
  /\ worker[n].pc \in {"open", "start"}
  /\ LET settings == IF At(n, "open") THEN extra ELSE held[SessionOf(n)]
     IN  Write(SessionOf(n), Marked(SessionOf(n), n, "running", worker[n].try), settings)
  /\ Worker(n, IF ok THEN Pc(n, "running") ELSE Raised(n))
  /\ UNCHANGED <<canvas, saves, main>>

Succeed(n) == \E b \in Branches :
  /\ At(n, "running")
  /\ LET skips == IF IsCondition(n) THEN NotTaken(n, b) ELSE {}
     IN  Worker(n, [Pc(n, "branch") EXCEPT !.as = "completed", !.todo = skips])
  /\ UNCHANGED <<canvas, row, extra, saves, copy, held, main>>

\* Mutant: an attempt is not counted.
MutantAttempt(n) == worker[n].try
Attempt(n) == worker[n].try + 1

(* The executor returns a failure: tried again, skipped, or failed.        *)
ReturnFailure(n) ==
  /\ At(n, "running")
  /\ Worker(n, IF worker[n].try < canvas.retries[n]
               THEN [Pc(n, "retry") EXCEPT !.try = Attempt(n)]
               ELSE [Pc(n, "branch") EXCEPT !.as = IF n \in canvas.skip THEN "skipped"
                                                   ELSE "failed"])
  /\ UNCHANGED <<canvas, row, extra, saves, copy, held, main>>

(* The executor raises, or what turns its output into the node's does.     *)
Raise(n) ==
  /\ At(n, "running") /\ Worker(n, Pc(n, "caught"))
  /\ UNCHANGED <<canvas, row, extra, saves, copy, held, main>>

Catch(n) ==
  /\ At(n, "caught")
  /\ LET w == [worker[n] EXCEPT !.try = Attempt(n), !.inTry = FALSE, !.todo = {}]
     IN  Worker(n, IF w.try <= canvas.retries[n] THEN [w EXCEPT !.pc = "retry"]
                   ELSE [w EXCEPT !.pc = "branch",
                                  !.as = IF n \in canvas.skip THEN "skipped" ELSE "failed"])
  /\ UNCHANGED <<canvas, row, extra, saves, copy, held, main>>

(* _mark_retry: the node is marked under the lock ...                      *)
MarkRetry(n) == \E ok \in Published :
  /\ At(n, "retry") /\ Mark(SessionOf(n), n, "running", worker[n].try)
  /\ Worker(n, IF ok THEN Pc(n, "retried") ELSE Raised(n))
  /\ UNCHANGED <<canvas, saves, main>>

(* ... and one more event is appended and saved without it, after awaits.  *)
NoteRetry(n) ==
  LET s == SessionOf(n)
      events == copy[s].events \cup {Entry("retry", n, worker[n].try)}
  IN  /\ At(n, "retried")
      /\ row' = [row EXCEPT !.events = events]
      /\ copy' = [copy EXCEPT ![s].events = events]
      /\ Worker(n, [Pc(n, "start") EXCEPT !.inTry = TRUE])
      /\ UNCHANGED <<canvas, extra, saves, held, main>>

(* _complete_node: each target of a branch not taken is marked, ...        *)
SkipTarget(n) == \E k \in worker[n].todo, ok \in Published :
  /\ At(n, "branch") /\ Mark(SessionOf(n), k, "skipped", 0)
  /\ Worker(n, [(IF ok THEN worker[n] ELSE Raised(n)) EXCEPT !.todo = @ \ {k},
                                                            !.skips = @ \cup {k}])
  /\ UNCHANGED <<canvas, saves, main>>

(* ... then the node, as its execution or its handler decided.             *)
EndNode(n) == \E ok \in Published :
  /\ At(n, "branch") /\ worker[n].todo = {}
  /\ Mark(SessionOf(n), n, worker[n].as, worker[n].try)
  /\ Worker(n, IF ~ok THEN Raised(n)
               ELSE Pc(n, IF worker[n].as = "failed" THEN "failed" ELSE "done"))
  /\ UNCHANGED <<canvas, saves, main>>

NodeStep(n) ==
  \/ StartNode(n) \/ Succeed(n) \/ ReturnFailure(n) \/ Raise(n) \/ Catch(n)
  \/ MarkRetry(n) \/ NoteRetry(n) \/ SkipTarget(n) \/ EndNode(n)

----------------------------------------------------------------------------
(* WorkflowEngine.run, and _execute_manual_workflow_run around it.         *)

MainAt(pc) == main.pc = pc
Go(ok, pc) == IF ok THEN pc ELSE "escaped"

Begin == \E ok \in Published :
  /\ MainAt("begin")
  /\ LET events == copy[Main].events \cup {Entry("engine_started", Main, 0)}
     IN  /\ row' = [row EXCEPT !.events = events]
         /\ copy' = [copy EXCEPT ![Main].events = events]
  /\ main' = [main EXCEPT !.pc = Go(ok, "level")]
  /\ UNCHANGED <<canvas, extra, saves, held, worker>>

Finish(status) == \E ok \in Published :
  /\ Write(Main, [row EXCEPT !.status = status,
                             !.events = copy[Main].events \cup {Entry(status, Main, 0)}],
           held[Main])
  /\ main' = [main EXCEPT !.pc = Go(ok, "report")]
  /\ UNCHANGED <<canvas, saves, worker>>

(* The agents have changed since the canvas was accepted: it is not valid. *)
Refuse == MainAt("begin") /\ Finish("failed")

(* One node runs in the engine's session, several in sessions of their own.*)
StartLevel ==
  LET level == NextLevel
      nodes == level \ main.skipped
  IN  /\ MainAt("level") /\ level # {}
      /\ main' = [main EXCEPT !.seen = @ \cup level, !.level = level,
                              !.pc = IF nodes = {} THEN "level" ELSE "gather"]
      /\ worker' = [n \in Nodes |->
           IF n \notin nodes THEN worker[n]
           ELSE [Idle EXCEPT !.pc = IF Cardinality(nodes) > 1 THEN "open" ELSE "start"]]
      /\ UNCHANGED <<canvas, row, extra, saves, copy, held>>

(* The whole level is done: its skipped nodes are merged, the run is       *)
(* refreshed, and the first failed node, if any, fails the run.            *)
Gathered == main.skipped \cup UNION {worker[n].skips : n \in Runnable}

EndLevel ==
  /\ MainAt("gather") /\ \A n \in Runnable : worker[n].pc \in {"done", "failed"}
  /\ copy' = [copy EXCEPT ![Main] = row]
  /\ LET failed == {n \in Runnable : At(n, "failed")}
     IN  \/ /\ failed = {}
            /\ main' = [main EXCEPT !.pc = "level", !.skipped = Gathered]
         \/ \E n \in failed :
              main' = [main EXCEPT !.pc = "failing", !.skipped = Gathered,
                                   !.todo = Descendants(n)]
  /\ UNCHANGED <<canvas, row, extra, saves, held, worker>>

(* gather passes on the first exception and leaves the other tasks running.*)
LevelRaises ==
  /\ MainAt("gather") /\ \E n \in Runnable : At(n, "raised")
  /\ main' = [main EXCEPT !.pc = "escaped"]
  /\ UNCHANGED <<canvas, row, extra, saves, copy, held, worker>>

(* _fail_run: what is below the failed node is skipped, then the run ends. *)
SkipBelow == \E k \in main.todo, ok \in Published :
  /\ MainAt("failing") /\ Mark(Main, k, "skipped", 0)
  /\ main' = [main EXCEPT !.todo = @ \ {k}, !.pc = Go(ok, "failing")]
  /\ UNCHANGED <<canvas, saves, worker>>

FailRun == MainAt("failing") /\ main.todo = {} /\ Finish("failed")
CompleteRun == MainAt("level") /\ NextLevel = {} /\ Finish("completed")

(* The task's row is settled and published.                                *)
Report == \E ok \in Published :
  /\ MainAt("report") /\ main' = [main EXCEPT !.pc = Go(ok, "ended")]
  /\ UNCHANGED <<canvas, row, extra, saves, copy, held, worker>>

(* What escaped is caught by _execute_manual_workflow_run: it fails the    *)
(* run from the engine's own copy: a running node, or else a queued one,   *)
(* has failed, the queued others are skipped.                              *)
Blamed(node) ==
  LET running == {n \in Nodes : node[n] = "running"}
      queued == {n \in Nodes : node[n] = "queued"}
  IN  IF running # {} THEN {{n} : n \in running}
      ELSE IF queued # {} THEN {{n} : n \in queued} ELSE {{}}

FailEscaped == \E blamed \in Blamed(copy[Main].node) :
  /\ MainAt("escaped")
  /\ Write(Main,
       [status |-> "failed",
        node |-> [n \in Nodes |-> IF n \in blamed THEN "failed"
                                  ELSE IF copy[Main].node[n] = "queued" THEN "skipped"
                                  ELSE copy[Main].node[n]],
        events |-> copy[Main].events \cup {Entry("failed", Main, 0)}],
       held[Main])
  /\ main' = [main EXCEPT !.pc = "ended"]
  /\ UNCHANGED <<canvas, saves, worker>>

MainStep ==
  \/ Begin \/ Refuse \/ StartLevel \/ EndLevel \/ LevelRaises \/ SkipBelow
  \/ FailRun \/ CompleteRun \/ Report \/ FailEscaped

(* update_conversation_workflow: the user saves the canvas.                *)
Save ==
  /\ saves < MaxSaves /\ saves' = saves + 1 /\ extra' = saves + 1
  /\ UNCHANGED <<canvas, row, copy, held, main, worker>>

Next == MainStep \/ Save \/ \E n \in Nodes : NodeStep(n)

(* The event loop runs every task, and every executor returns or raises.   *)
Fairness == WF_vars(MainStep) /\ \A n \in Nodes : WF_vars(NodeStep(n))

Spec == Init /\ [][Next]_vars /\ Fairness

----------------------------------------------------------------------------
(* While the event bus works, the row tells the truth about the run: a     *)
(* node runs only when everything before it is completed or skipped, and   *)
(* never once it was skipped; an ended run is completed with every node    *)
(* settled and none failed, or failed because a node is (or with nothing   *)
(* of it started), and nothing of it still runs.                           *)
RunTellsTruth == ~canvas.flaky =>
  /\ \A n \in Nodes : row.node[n] = "running" =>
       /\ \A p \in Preds(n) : row.node[p] \in {"completed", "skipped"}
       /\ Entry("skipped", n, 0) \notin row.events
  /\ row.status = "completed" => \A n \in Nodes : row.node[n] \in {"completed", "skipped"}
  /\ row.status = "failed" =>
       (\E n \in Nodes : row.node[n] = "failed") \/ \A n \in Nodes : row.node[n] = "queued"
  /\ row.status # "running" => \A n \in Nodes : row.node[n] # "running"
  /\ main.pc = "ended" => row.status # "running"

(* Every run ends, whatever fails, and its row says so.                    *)
WorkflowEnds == <>[](main.pc = "ended" /\ row.status # "running")

(* What the user saved while the run was executed stays saved.             *)
SettingsKept == extra = saves

(* No event of a node's history is lost: the last mark of a node is in it. *)
EventsKept == \A n \in Nodes : row.node[n] = "running" =>
  \E try \in 0..3 : Entry("running", n, try) \in row.events

(* Nothing of a run goes on once its row is failed or completed.           *)
NothingAfterEnd == row.status # "running" =>
  \A n \in Nodes : worker[n].pc \in {"idle", "done", "failed", "raised"}

(* A run that is completed stays completed.                                *)
CompletedStays == [][row.status = "completed" => row'.status = "completed"]_vars

(* A node all of whose predecessors were skipped by a condition does not   *)
(* run.                                                                    *)
BranchesEnd == \A n \in Nodes :
  row.node[n] = "running" /\ Preds(n) # {} =>
    \E p \in Preds(n) : ~(row.node[p] = "skipped" /\ Entry("running", p, 0) \notin row.events)
=============================================================================
