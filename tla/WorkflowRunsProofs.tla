------------------------- MODULE WorkflowRunsProofs -------------------------
(* Proofs about WorkflowRuns, for any nodes, canvases without a cycle and  *)
(* saves: what its row says about a run is true, as long as publications   *)
(* succeed.                                                                *)
(*                                                                         *)
(* The invariant follows the levels: what was seen is closed under         *)
(* predecessors, only the current level is worked on, and what a worker or *)
(* a failed run skips lies ahead of everything seen.  So no mark can meet  *)
(* a node that another session has settled, however stale its copy is.     *)
(*                                                                         *)
(* And about WorkflowTraversal, for any graphs and step limit: the walk of *)
(* the Kernel's scheduler follows the graph.                               *)
EXTENDS WorkflowRuns, WorkflowTraversal, FiniteSetTheorems,
        WellFoundedInduction, SequenceTheorems, TLAPS

Passed == {"completed", "skipped"}
Statuses == Settled \cup {"queued", "running"}
Whats == Statuses \cup {"engine_started", "retry"}

RowType ==
  [status : {"running", "completed", "failed"}, node : [Nodes -> Statuses],
   events : SUBSET [what : Whats, node : Sessions, try : Nat]]
MainType ==
  [pc : {"begin", "level", "gather", "failing", "report", "escaped", "ended"},
   seen : SUBSET Nodes, level : SUBSET Nodes, skipped : SUBSET Nodes,
   todo : SUBSET Nodes]
WorkerType ==
  [pc : {"idle", "open", "start", "running", "caught", "retry", "retried",
         "branch", "done", "failed", "raised"},
   try : Nat, as : Settled \cup {"none"}, inTry : BOOLEAN,
   todo : SUBSET Nodes, skips : SUBSET Nodes]

TypeOK ==
  /\ canvas \in Canvases /\ row \in RowType /\ copy \in [Sessions -> RowType]
  /\ main \in MainType /\ worker \in [Nodes -> WorkerType]
  /\ \A n \in Nodes : worker[n].pc = "branch" => worker[n].as # "none"

Working(n) == worker[n].pc \notin {"idle", "done", "failed"}

(* Nothing escapes while publications succeed.                             *)
NoEscape == main.pc # "escaped" /\ \A n \in Nodes : worker[n].pc # "raised"

(* What was seen has its predecessors seen, and before this level.         *)
LevelsClosed ==
  /\ main.level \subseteq main.seen
  /\ \A n \in main.seen : Preds(n) \subseteq main.seen
  /\ main.pc = "gather" => \A n \in main.seen : Preds(n) \cap main.level = {}

(* Only nodes of the level are worked on, and they decide about their own  *)
(* targets.                                                                *)
WorkersInLevel == \A n \in Nodes : Working(n) =>
  /\ main.pc = "gather" /\ n \in Runnable
  /\ worker[n].todo \subseteq Targets(n)

NodesFollowWorkers == \A n \in Nodes :
  /\ row.node[n] = "running" => Working(n)
  /\ Working(n) => row.node[n] \in {"queued", "running"}

(* The levels before are passed; what lies ahead is queued, or skipped and *)
(* remembered to be.                                                       *)
LevelsSettled ==
  /\ main.pc = "begin" =>
       main.seen = {} /\ main.skipped = {} /\ \A n \in Nodes : row.node[n] = "queued"
  /\ main.pc = "level" =>
       /\ \A n \in main.seen : row.node[n] \in Passed
       /\ \A n \in Nodes \ main.seen : row.node[n] = "queued" \/ n \in main.skipped
  /\ main.pc = "gather" =>
       /\ \A n \in main.seen \ Runnable : row.node[n] \in Passed
       /\ \A n \in Runnable : \/ Working(n)
                              \/ worker[n].pc = "done" /\ row.node[n] \in Passed
                              \/ worker[n].pc = "failed" /\ row.node[n] = "failed"
       /\ \A n \in Nodes \ main.seen : row.node[n] = "queued" \/ n \in Gathered

(* Whatever was noted as skipped is skipped, in every copy of the history. *)
SkipsMarked ==
  /\ \A n \in Nodes, s \in Sessions :
       \/ Entry("skipped", n, 0) \in row.events
       \/ Entry("skipped", n, 0) \in copy[s].events
       => row.node[n] = "skipped"
  /\ \A n \in main.skipped : row.node[n] = "skipped"
  /\ \A n \in Nodes : \A k \in worker[n].skips : row.node[k] = "skipped"

FailureNamed == main.pc = "failing" =>
  /\ main.todo \cap main.seen = {}
  /\ \E n \in main.seen : row.node[n] = "failed"

StatusFollowsMain ==
  /\ main.pc \in {"begin", "level", "gather", "failing"} => row.status = "running"
  /\ main.pc \in {"report", "ended"} =>
       \/ row.status = "completed" /\ \A n \in Nodes : row.node[n] \in Passed
       \/ row.status = "failed" /\ ( \/ \E n \in Nodes : row.node[n] = "failed"
                                     \/ \A n \in Nodes : row.node[n] = "queued")

Sound ==
  /\ NoEscape /\ LevelsClosed /\ WorkersInLevel /\ NodesFollowWorkers
  /\ LevelsSettled /\ SkipsMarked /\ FailureNamed /\ StatusFollowsMain

WorkflowInv == TypeOK /\ (~canvas.flaky => Sound)

-----------------------------------------------------------------------------
(* Types. *)

(* A mark keeps the row a row, writes it to the session's copy and changes *)
(* one node.                                                               *)
LEMMA MarkChangesOneNode ==
  ASSUME TypeOK, NEW s \in Sessions, NEW k \in Nodes, NEW status \in Statuses \ {"queued"},
         NEW try \in Nat, NEW settings, Write(s, Marked(s, k, status, try), settings)
  PROVE  /\ row' \in RowType /\ copy' \in [Sessions -> RowType]
         /\ row'.status = row.status
         /\ row'.node = [row.node EXCEPT ![k] = status]
         /\ row'.events = row.events \cup {Entry(status, k, try)}
         /\ copy' = [copy EXCEPT ![s] = row']
<1>1. row' = [row EXCEPT !.node[k] = status,
                         !.events = row.events \cup {Entry(status, k, try)}]
  BY DEF Write, Marked, Refreshed
<1>2. row \in RowType /\ copy \in [Sessions -> RowType]
  BY DEF TypeOK
<1>3. Entry(status, k, try) \in [what : Whats, node : Sessions, try : Nat]
  BY DEF Entry, Whats, Statuses, Sessions
<1>4. copy' = [copy EXCEPT ![s] = row']
  BY DEF Write
<1> QED
  BY <1>1, <1>2, <1>3, <1>4 DEF RowType, Statuses

(* Noting an event changes no node.                                        *)
LEMMA NoteKeepsNodes ==
  ASSUME TypeOK, NEW s \in Sessions, NEW e \in [what : Whats, node : Sessions, try : Nat],
         row' = [row EXCEPT !.events = copy[s].events \cup {e}],
         copy' = [copy EXCEPT ![s].events = copy[s].events \cup {e}]
  PROVE  /\ row' \in RowType /\ copy' \in [Sessions -> RowType]
         /\ row'.status = row.status /\ row'.node = row.node
         /\ row'.events = copy[s].events \cup {e}
         /\ \A q \in Sessions : copy'[q].events =
              IF q = s THEN copy[s].events \cup {e} ELSE copy[q].events
  BY DEF TypeOK, RowType

(* An end changes no node either.                                          *)
LEMMA FinishKeepsNodes ==
  ASSUME TypeOK, NEW status \in {"completed", "failed"}, Finish(status)
  PROVE  /\ row' \in RowType /\ copy' \in [Sessions -> RowType]
         /\ row'.status = status /\ row'.node = row.node
         /\ row'.events = copy[Main].events \cup {Entry(status, Main, 0)}
         /\ copy' = [copy EXCEPT ![Main] = row']
         /\ \E ok \in Published : main' = [main EXCEPT !.pc = Go(ok, "report")]
         /\ canvas' = canvas /\ worker' = worker
<1>1. Main \in Sessions
  BY DEF Sessions
<1>2. Entry(status, Main, 0) \in [what : Whats, node : Sessions, try : Nat]
  BY <1>1 DEF Entry, Whats, Statuses, Settled
<1>3. row' = [row EXCEPT !.status = status,
                         !.events = copy[Main].events \cup {Entry(status, Main, 0)}]
  BY DEF Finish, Write
<1>4. copy' = [copy EXCEPT ![Main] = row']
  BY DEF Finish, Write
<1>5. row' \in RowType /\ row'.status = status /\ row'.node = row.node
      /\ row'.events = copy[Main].events \cup {Entry(status, Main, 0)}
  BY <1>1, <1>2, <1>3 DEF TypeOK, RowType
<1> QED
  BY <1>1, <1>4, <1>5 DEF Finish, TypeOK

LEMMA TypeInit == Init => TypeOK
<1> SUFFICES ASSUME Init PROVE TypeOK
  OBVIOUS
<1>1. row \in RowType
  BY DEF Init, RowType, Statuses
<1> QED
  BY <1>1 DEF Init, TypeOK, MainType, WorkerType, Idle

LEMMA SessionTyped == ASSUME NEW n \in Nodes PROVE SessionOf(n) \in Sessions
  BY DEF SessionOf, Sessions

(* A step of a worker keeps the types when its new state has its own.      *)
LEMMA WorkerKeepsTypes ==
  ASSUME TypeOK, NEW n \in Nodes, NEW w \in WorkerType, Worker(n, w),
         w.pc = "branch" => w.as # "none", canvas' = canvas, main' = main,
         row' \in RowType, copy' \in [Sessions -> RowType]
  PROVE  TypeOK'
<1>1. worker' \in [Nodes -> WorkerType]
  BY DEF Worker, TypeOK
<1>2. \A k \in Nodes : worker'[k] = IF k = n THEN w ELSE worker[k]
  BY DEF Worker, TypeOK
<1> QED
  BY <1>1, <1>2 DEF TypeOK

LEMMA TypeNodeStep == ASSUME TypeOK, NEW n \in Nodes, NodeStep(n) PROVE TypeOK'
<1> USE DEF Pc, Raised, At
<1>0. /\ worker[n] \in WorkerType /\ SessionOf(n) \in Sessions
      /\ row \in RowType /\ copy \in [Sessions -> RowType]
      /\ worker[n].pc = "branch" => worker[n].as # "none"
  BY SessionTyped DEF TypeOK
<1>a. Attempt(n) \in Nat
  BY <1>0 DEF WorkerType, Attempt
<1>1. CASE StartNode(n)
  <2>1. row' \in RowType /\ copy' \in [Sessions -> RowType]
    BY <1>0, <1>1, MarkChangesOneNode DEF StartNode, WorkerType, Statuses
  <2>2. PICK ok \in Published : Worker(n, IF ok THEN Pc(n, "running") ELSE Raised(n))
    BY <1>1 DEF StartNode
  <2> DEFINE w == IF ok THEN Pc(n, "running") ELSE Raised(n)
  <2>3. w \in WorkerType /\ w.pc # "branch"
    BY <1>0 DEF WorkerType
  <2>4. Worker(n, w)
    BY <2>2
  <2> HIDE DEF w
  <2> QED BY <1>0, <1>1, <2>1, <2>3, <2>4, WorkerKeepsTypes DEF StartNode
<1>2. CASE Succeed(n)
  <2>1. PICK b \in Branches :
          Worker(n, [Pc(n, "branch") EXCEPT !.as = "completed",
                       !.todo = IF IsCondition(n) THEN NotTaken(n, b) ELSE {}])
    BY <1>2 DEF Succeed
  <2>2. NotTaken(n, b) \subseteq Nodes
    BY DEF NotTaken, Targets
  <2>3. [Pc(n, "branch") EXCEPT !.as = "completed",
           !.todo = IF IsCondition(n) THEN NotTaken(n, b) ELSE {}] \in WorkerType
    BY <1>0, <2>2 DEF WorkerType, Settled
  <2>4. [Pc(n, "branch") EXCEPT !.as = "completed",
           !.todo = IF IsCondition(n) THEN NotTaken(n, b) ELSE {}].as # "none"
    BY <1>0 DEF WorkerType
  <2> QED BY <1>0, <1>2, <2>1, <2>3, <2>4, WorkerKeepsTypes DEF Succeed
<1>3. CASE ReturnFailure(n)
  <2> DEFINE w == IF worker[n].try < canvas.retries[n]
                  THEN [Pc(n, "retry") EXCEPT !.try = Attempt(n)]
                  ELSE [Pc(n, "branch") EXCEPT !.as = IF n \in canvas.skip THEN "skipped"
                                                      ELSE "failed"]
  <2>1. w \in WorkerType /\ (w.pc = "branch" => w.as # "none")
    BY <1>0, <1>a DEF WorkerType, Settled
  <2>2. Worker(n, w)
    BY <1>3 DEF ReturnFailure
  <2> HIDE DEF w
  <2> QED BY <1>0, <1>3, <2>1, <2>2, WorkerKeepsTypes DEF ReturnFailure
<1>4. CASE Raise(n)
  <2>1. Pc(n, "caught") \in WorkerType /\ Pc(n, "caught").pc # "branch"
    BY <1>0 DEF WorkerType
  <2> QED BY <1>0, <1>4, <2>1, WorkerKeepsTypes DEF Raise
<1>5. CASE Catch(n)
  <2> DEFINE v == [worker[n] EXCEPT !.try = Attempt(n), !.inTry = FALSE, !.todo = {}]
             w == IF v.try <= canvas.retries[n] THEN [v EXCEPT !.pc = "retry"]
                  ELSE [v EXCEPT !.pc = "branch",
                                 !.as = IF n \in canvas.skip THEN "skipped" ELSE "failed"]
  <2>1. v \in WorkerType
    BY <1>0, <1>a DEF WorkerType
  <2>2. Worker(n, w)
    BY <1>5 DEF Catch
  <2>3. w \in WorkerType /\ (w.pc = "branch" => w.as # "none")
    <3> HIDE DEF v
    <3> QED BY <2>1 DEF WorkerType, Settled
  <2> HIDE DEF w
  <2> QED BY <1>0, <1>5, <2>2, <2>3, WorkerKeepsTypes DEF Catch
<1>6. CASE MarkRetry(n)
  <2>1. row' \in RowType /\ copy' \in [Sessions -> RowType]
    BY <1>0, <1>6, MarkChangesOneNode DEF MarkRetry, Mark, WorkerType, Statuses
  <2>2. PICK ok \in Published : Worker(n, IF ok THEN Pc(n, "retried") ELSE Raised(n))
    BY <1>6 DEF MarkRetry
  <2>3. (IF ok THEN Pc(n, "retried") ELSE Raised(n)) \in WorkerType
    BY <1>0 DEF WorkerType
  <2> QED BY <1>0, <1>6, <2>1, <2>2, <2>3, WorkerKeepsTypes DEF MarkRetry, WorkerType
<1>7. CASE NoteRetry(n)
  <2>1. Entry("retry", n, worker[n].try) \in [what : Whats, node : Sessions, try : Nat]
    BY <1>0 DEF Entry, Whats, Sessions, WorkerType
  <2>2. row' \in RowType /\ copy' \in [Sessions -> RowType]
    BY <1>0, <1>7, <2>1, NoteKeepsNodes DEF NoteRetry
  <2>3. [Pc(n, "start") EXCEPT !.inTry = TRUE] \in WorkerType
        /\ [Pc(n, "start") EXCEPT !.inTry = TRUE].pc # "branch"
    BY <1>0 DEF WorkerType
  <2> QED BY <1>0, <1>7, <2>2, <2>3, WorkerKeepsTypes DEF NoteRetry
<1>8. CASE SkipTarget(n)
  <2>1. PICK k \in worker[n].todo, ok \in Published :
          /\ Mark(SessionOf(n), k, "skipped", 0)
          /\ Worker(n, [(IF ok THEN worker[n] ELSE Raised(n)) EXCEPT !.todo = @ \ {k},
                                                                    !.skips = @ \cup {k}])
    BY <1>8 DEF SkipTarget
  <2>2. k \in Nodes
    BY <1>0 DEF WorkerType
  <2>3. row' \in RowType /\ copy' \in [Sessions -> RowType]
    BY <1>0, <2>1, <2>2, MarkChangesOneNode DEF Mark, Statuses, Settled
  <2> DEFINE v == IF ok THEN worker[n] ELSE Raised(n)
             w == [v EXCEPT !.todo = @ \ {k}, !.skips = @ \cup {k}]
  <2>4. v \in WorkerType /\ (v.pc = "branch" => v.as # "none")
    BY <1>0 DEF WorkerType
  <2>5. w \in WorkerType /\ (w.pc = "branch" => w.as # "none")
    <3> HIDE DEF v
    <3> QED BY <2>2, <2>4 DEF WorkerType
  <2>6. Worker(n, w)
    BY <2>1
  <2> HIDE DEF w
  <2> QED BY <1>8, <2>3, <2>5, <2>6, WorkerKeepsTypes DEF SkipTarget
<1>9. CASE EndNode(n)
  <2>1. worker[n].as \in Statuses \ {"queued"} /\ worker[n].try \in Nat
    BY <1>0, <1>9 DEF EndNode, WorkerType, Statuses, Settled
  <2>2. row' \in RowType /\ copy' \in [Sessions -> RowType]
    BY <1>0, <1>9, <2>1, MarkChangesOneNode DEF EndNode, Mark
  <2>3. PICK ok \in Published :
          Worker(n, IF ~ok THEN Raised(n)
                    ELSE Pc(n, IF worker[n].as = "failed" THEN "failed" ELSE "done"))
    BY <1>9 DEF EndNode
  <2> DEFINE w == IF ~ok THEN Raised(n)
                  ELSE Pc(n, IF worker[n].as = "failed" THEN "failed" ELSE "done")
  <2>4. w \in WorkerType /\ w.pc # "branch"
    BY <1>0 DEF WorkerType
  <2> HIDE DEF w
  <2> QED BY <1>9, <2>2, <2>3, <2>4, WorkerKeepsTypes DEF EndNode, w
<1> QED
  BY <1>1, <1>2, <1>3, <1>4, <1>5, <1>6, <1>7, <1>8, <1>9 DEF NodeStep

LEMMA TypeMainStep == ASSUME TypeOK, MainStep PROVE TypeOK'
<1>0. /\ canvas \in Canvases /\ row \in RowType /\ copy \in [Sessions -> RowType]
      /\ main \in MainType /\ worker \in [Nodes -> WorkerType] /\ Main \in Sessions
      /\ copy[Main] \in RowType
      /\ \A n \in Nodes : worker[n].pc = "branch" => worker[n].as # "none"
  BY DEF TypeOK, Sessions
<1>1. CASE Begin
  <2>1. Entry("engine_started", Main, 0) \in [what : Whats, node : Sessions, try : Nat]
    BY <1>0 DEF Entry, Whats
  <2>2. row' \in RowType /\ copy' \in [Sessions -> RowType]
    BY <1>0, <1>1, <2>1, NoteKeepsNodes DEF Begin
  <2>3. main' \in MainType
    BY <1>0, <1>1 DEF Begin, Go, MainType
  <2> QED BY <1>0, <1>1, <2>2, <2>3 DEF Begin, TypeOK
<1>2. ASSUME NEW status \in {"completed", "failed"}, Finish(status) PROVE TypeOK'
  <2>1. main' \in MainType
    BY <1>0, <1>2 DEF Finish, Go, MainType
  <2> QED BY <1>0, <1>2, <2>1, FinishKeepsNodes DEF TypeOK
<1>3. CASE StartLevel
  <2>1. main' \in MainType
    BY <1>0, <1>3 DEF StartLevel, NextLevel, MainType
  <2>2. \A n \in Nodes : worker'[n] = worker[n] \/
          \E pc \in {"open", "start"} : worker'[n] = [Idle EXCEPT !.pc = pc]
    BY <1>3 DEF StartLevel
  <2>3. \A pc \in {"open", "start"} :
          [Idle EXCEPT !.pc = pc] \in WorkerType /\ [Idle EXCEPT !.pc = pc].pc = pc
    BY DEF Idle, WorkerType
  <2>4. \A n \in Nodes : worker'[n] \in WorkerType
                         /\ (worker'[n].pc = "branch" => worker'[n].as # "none")
    BY <1>0, <2>2, <2>3
  <2>5. DOMAIN worker' = Nodes /\ worker' = [n \in Nodes |-> worker'[n]]
    BY <1>3 DEF StartLevel
  <2>6. worker' \in [Nodes -> WorkerType]
    BY <2>4, <2>5
  <2> QED BY <1>0, <1>3, <2>1, <2>4, <2>6 DEF StartLevel, TypeOK
<1>4. CASE EndLevel
  <2>1. Gathered \subseteq Nodes
    BY <1>0 DEF Gathered, MainType, WorkerType, Runnable
  <2>2. \A n \in Nodes : Descendants(n) \subseteq Nodes
    BY DEF Descendants
  <2>3. Runnable \subseteq Nodes
    BY <1>0 DEF Runnable, MainType
  <2>4. CASE main' = [main EXCEPT !.pc = "level", !.skipped = Gathered]
    BY <1>0, <1>4, <2>1, <2>4 DEF EndLevel, TypeOK, MainType
  <2>5. ASSUME NEW n \in Runnable,
               main' = [main EXCEPT !.pc = "failing", !.skipped = Gathered,
                                    !.todo = Descendants(n)]
        PROVE  main' \in MainType
    BY <1>0, <2>1, <2>2, <2>3, <2>5 DEF MainType
  <2> QED BY <1>0, <1>4, <2>4, <2>5 DEF EndLevel, TypeOK
<1>5. CASE LevelRaises
  BY <1>0, <1>5 DEF LevelRaises, TypeOK, MainType
<1>6. CASE SkipBelow
  <2>1. PICK k \in main.todo, ok \in Published :
          /\ Mark(Main, k, "skipped", 0)
          /\ main' = [main EXCEPT !.todo = @ \ {k}, !.pc = Go(ok, "failing")]
    BY <1>6 DEF SkipBelow
  <2>2. k \in Nodes
    BY <1>0 DEF MainType
  <2>3. row' \in RowType /\ copy' \in [Sessions -> RowType]
    BY <1>0, <2>1, <2>2, MarkChangesOneNode DEF Mark, Statuses, Settled
  <2>4. main' \in MainType
    BY <1>0, <2>1 DEF MainType, Go
  <2> QED BY <1>0, <1>6, <2>3, <2>4 DEF SkipBelow, TypeOK
<1>7. CASE Report
  BY <1>0, <1>7 DEF Report, Go, TypeOK, MainType
<1>8. CASE FailEscaped
  <2>1. Entry("failed", Main, 0) \in [what : Whats, node : Sessions, try : Nat]
    BY <1>0 DEF Entry, Whats, Statuses, Settled
  <2>2. row' \in RowType
    BY <1>0, <1>8, <2>1 DEF FailEscaped, Write, RowType, Statuses, Settled
  <2>3. copy' \in [Sessions -> RowType]
    BY <1>0, <1>8, <2>2 DEF FailEscaped, Write
  <2> QED BY <1>0, <1>8, <2>2, <2>3 DEF FailEscaped, TypeOK, MainType
<1> QED
  BY <1>1, <1>2, <1>3, <1>4, <1>5, <1>6, <1>7, <1>8
  DEF MainStep, Refuse, FailRun, CompleteRun

(* Every reachable state is well typed.                                    *)
THEOREM WorkflowTypes == Spec => []TypeOK
<1>1. TypeOK /\ [Next]_vars => TypeOK'
  <2> SUFFICES ASSUME TypeOK, [Next]_vars PROVE TypeOK'
    OBVIOUS
  <2>1. CASE Save \/ UNCHANGED vars
    BY <2>1 DEF Save, vars, TypeOK
  <2> QED BY <2>1, TypeMainStep, TypeNodeStep DEF Next
<1> QED
  BY <1>1, TypeInit, PTL DEF Spec

-----------------------------------------------------------------------------
(* The order of the levels. *)

(* A node of the level has only nodes ahead of it, at any depth.           *)
LEMMA TargetsAhead ==
  ASSUME TypeOK, LevelsClosed, main.pc = "gather", NEW n \in main.level
  PROVE  n \in Nodes /\ n \in main.seen /\ Targets(n) \cap main.seen = {}
<1>1. \A t \in Targets(n) : n \in Preds(t)
  BY DEF Targets, Preds, TypeOK, MainType
<1> QED
  BY <1>1 DEF LevelsClosed, TypeOK, MainType

LEMMA DescendantsAhead ==
  ASSUME TypeOK, LevelsClosed, main.pc = "gather", NEW n \in main.level
  PROVE  Descendants(n) \cap main.seen = {}
<1>1. Targets(n) \subseteq Nodes \ main.seen
  BY TargetsAhead DEF Targets
<1>2. \A d \in Nodes \ main.seen : Targets(d) \subseteq Nodes \ main.seen
  BY DEF LevelsClosed, Targets, Preds
<1> QED
  BY <1>1, <1>2 DEF Descendants

(* No cycle: when no level is left, every node has been seen.              *)
LEMMA NothingLeft ==
  ASSUME TypeOK, NextLevel = {}
  PROVE  main.seen = Nodes
<1>1. SUFFICES ASSUME Nodes \ main.seen # {} PROVE FALSE
  BY DEF TypeOK, MainType
<1>2. PICK n \in Nodes \ main.seen : \A p \in Nodes \ main.seen : <<p, n>> \notin canvas.edges
  BY <1>1, CanvasAssumption DEF TypeOK
<1>3. n \in NextLevel
  BY <1>2 DEF NextLevel, Preds, Edges
<1> QED
  BY <1>3

-----------------------------------------------------------------------------
(* The steps of a worker. *)

(* A worker that works on, marks at most its own node as running and notes *)
(* no node as skipped.                                                     *)
LEMMA WorkingOn ==
  ASSUME TypeOK, Sound, NEW n \in Nodes, Working(n),
         NEW w \in WorkerType, Worker(n, w), main' = main, canvas' = canvas,
         w.pc \notin {"idle", "done", "failed", "raised"}, w.todo \subseteq Targets(n),
         w.skips = worker[n].skips, row'.status = row.status,
         \A k \in Nodes : row'.node[k] = row.node[k] \/ (k = n /\ row'.node[k] = "running"),
         \A k \in Nodes, s \in Sessions :
           \/ Entry("skipped", k, 0) \in row'.events
           \/ Entry("skipped", k, 0) \in copy'[s].events
           => \/ Entry("skipped", k, 0) \in row.events
              \/ \E q \in Sessions : Entry("skipped", k, 0) \in copy[q].events
  PROVE  Sound'
<1>1. \A k \in Nodes : worker'[k] = IF k = n THEN w ELSE worker[k]
  BY DEF Worker, TypeOK
<1>2. \A k \in Nodes : Working(k)' <=> Working(k)
  BY <1>1 DEF Working
<1>3. /\ main.pc = "gather" /\ n \in Runnable /\ Runnable' = Runnable /\ n \in main.level
      /\ row.node[n] \in {"queued", "running"} /\ row.status = "running"
  BY DEF Sound, WorkersInLevel, Runnable, NodesFollowWorkers, StatusFollowsMain
<1>4. Runnable \subseteq Nodes /\ Runnable \subseteq main.seen
  BY DEF Runnable, TypeOK, MainType, Sound, LevelsClosed
<1>5. Gathered' = Gathered
  BY <1>1, <1>3, <1>4 DEF Gathered
<1>6. \A k \in Nodes : Preds(k)' = Preds(k) /\ Targets(k)' = Targets(k)
  BY DEF Preds, Targets, Edges
<1>7. NoEscape' /\ LevelsClosed' /\ WorkersInLevel'
  BY <1>1, <1>2, <1>3, <1>6
  DEF Sound, NoEscape, LevelsClosed, WorkersInLevel, Working, TypeOK, MainType
<1>8. NodesFollowWorkers'
  BY <1>2 DEF Sound, NodesFollowWorkers
<1>9. LevelsSettled'
  BY <1>1, <1>2, <1>3, <1>4, <1>5 DEF Sound, LevelsSettled, TypeOK, MainType
<1>10. SkipsMarked'
  <2>1. \A k \in Nodes : row.node[k] = "skipped" => row'.node[k] = "skipped"
    BY <1>3
  <2> QED BY <1>1, <2>1 DEF Sound, SkipsMarked, TypeOK, MainType, WorkerType
<1>11. FailureNamed' /\ StatusFollowsMain'
  BY <1>3 DEF FailureNamed, StatusFollowsMain
<1> QED
  BY <1>7, <1>8, <1>9, <1>10, <1>11 DEF Sound

(* A worker marks a target of its own as skipped.                          *)
LEMMA SoundSkipTarget ==
  ASSUME TypeOK, Sound, ~canvas.flaky, NEW n \in Nodes, SkipTarget(n)
  PROVE  Sound'
<1>1. PICK k \in worker[n].todo :
        /\ Mark(SessionOf(n), k, "skipped", 0)
        /\ Worker(n, [worker[n] EXCEPT !.todo = @ \ {k}, !.skips = @ \cup {k}])
  BY DEF SkipTarget, Published
<1>2. /\ worker[n].pc = "branch" /\ main' = main /\ canvas' = canvas
      /\ worker \in [Nodes -> WorkerType] /\ worker[n] \in WorkerType
  BY DEF SkipTarget, At, TypeOK
<1>3. /\ main.pc = "gather" /\ n \in Runnable /\ Runnable' = Runnable /\ n \in main.level
      /\ worker[n].todo \subseteq Targets(n) /\ row.status = "running"
  BY <1>2 DEF Sound, WorkersInLevel, Working, Runnable, StatusFollowsMain
<1>4. k \in Nodes /\ k \notin main.seen
  BY <1>1, <1>2, <1>3, TargetsAhead DEF Sound, WorkerType
<1>5. /\ row'.status = row.status /\ row'.node = [row.node EXCEPT ![k] = "skipped"]
      /\ row'.events = row.events \cup {Entry("skipped", k, 0)}
      /\ copy' = [copy EXCEPT ![SessionOf(n)] = row']
  <2>1. "skipped" \in Statuses \ {"queued"} /\ 0 \in Nat /\ SessionOf(n) \in Sessions
    BY SessionTyped DEF Statuses, Settled
  <2>2. Write(SessionOf(n), Marked(SessionOf(n), k, "skipped", 0), held[SessionOf(n)])
    BY <1>1 DEF Mark
  <2> QED BY <1>4, <2>1, <2>2, MarkChangesOneNode
<1>6. \A j \in Nodes : row'.node[j] = IF j = k THEN "skipped" ELSE row.node[j]
  BY <1>4, <1>5 DEF TypeOK, RowType
<1>7. \A j \in Nodes : worker'[j].pc = worker[j].pc
                       /\ worker'[j].todo \subseteq worker[j].todo
                       /\ worker'[j].skips = IF j = n THEN worker[n].skips \cup {k}
                                             ELSE worker[j].skips
  BY <1>1, <1>2 DEF Worker, WorkerType
<1>8. \A j \in Nodes : Working(j)' <=> Working(j)
  BY <1>7 DEF Working
<1>9. Runnable \subseteq Nodes /\ Runnable \subseteq main.seen
  BY DEF Runnable, TypeOK, MainType, Sound, LevelsClosed
<1>10. Gathered' = Gathered \cup {k}
  BY <1>2, <1>3, <1>7, <1>9 DEF Gathered
<1>11. \A j \in Nodes : Preds(j)' = Preds(j) /\ Targets(j)' = Targets(j)
  BY <1>2 DEF Preds, Targets, Edges
<1>12. NoEscape' /\ LevelsClosed'
  BY <1>2, <1>3, <1>7, <1>11 DEF Sound, NoEscape, LevelsClosed, TypeOK, MainType
<1>13. WorkersInLevel'
  BY <1>2, <1>3, <1>7, <1>8, <1>11 DEF Sound, WorkersInLevel
<1>14. NodesFollowWorkers'
  <2>1. ~Working(k)
    BY <1>4, <1>9 DEF Sound, WorkersInLevel
  <2> QED BY <2>1, <1>6, <1>8 DEF Sound, NodesFollowWorkers
<1>15. LevelsSettled'
  BY <1>2, <1>3, <1>4, <1>6, <1>7, <1>8, <1>9, <1>10
  DEF Sound, LevelsSettled, TypeOK, MainType, Passed
<1>16. SkipsMarked'
  <2>1. \A j \in Nodes : row.node[j] = "skipped" => row'.node[j] = "skipped"
    BY <1>6
  <2>2. \A j \in Nodes, s \in Sessions :
          (\/ Entry("skipped", j, 0) \in row'.events
           \/ Entry("skipped", j, 0) \in copy'[s].events)
          => \/ j = k \/ Entry("skipped", j, 0) \in row.events
             \/ Entry("skipped", j, 0) \in copy[s].events
    BY <1>5 DEF Entry, TypeOK
  <2>3. row'.node[k] = "skipped"
    BY <1>4, <1>6
  <2>4. \A j \in Nodes, s \in Sessions :
          (\/ Entry("skipped", j, 0) \in row'.events
           \/ Entry("skipped", j, 0) \in copy'[s].events)
          => row'.node[j] = "skipped"
    BY <2>1, <2>2, <2>3 DEF Sound, SkipsMarked
  <2>5. \A j \in main'.skipped : row'.node[j] = "skipped"
    BY <1>2, <2>1 DEF Sound, SkipsMarked, TypeOK, MainType
  <2>6. \A j \in Nodes : \A i \in worker'[j].skips : row'.node[i] = "skipped"
    BY <1>2, <1>7, <2>1, <2>3 DEF Sound, SkipsMarked, WorkerType
  <2> QED BY <2>4, <2>5, <2>6 DEF SkipsMarked
<1>17. FailureNamed' /\ StatusFollowsMain'
  BY <1>2, <1>3, <1>5 DEF FailureNamed, StatusFollowsMain
<1> QED
  BY <1>12, <1>13, <1>14, <1>15, <1>16, <1>17 DEF Sound

(* A worker ends: its node is completed, skipped or failed.                *)
LEMMA SoundEndNode ==
  ASSUME TypeOK, Sound, ~canvas.flaky, NEW n \in Nodes, EndNode(n)
  PROVE  Sound'
<1>1. /\ Mark(SessionOf(n), n, worker[n].as, worker[n].try)
      /\ Worker(n, Pc(n, IF worker[n].as = "failed" THEN "failed" ELSE "done"))
  BY DEF EndNode, Published
<1>2. /\ worker[n].pc = "branch" /\ main' = main /\ canvas' = canvas
      /\ worker \in [Nodes -> WorkerType] /\ worker[n] \in WorkerType
      /\ worker[n].as \in Settled /\ worker[n].try \in Nat
  BY DEF EndNode, At, TypeOK, WorkerType
<1>3. /\ main.pc = "gather" /\ n \in Runnable /\ Runnable' = Runnable
      /\ row.node[n] \in {"queued", "running"} /\ row.status = "running"
  BY <1>2 DEF Sound, WorkersInLevel, NodesFollowWorkers, Working, Runnable, StatusFollowsMain
<1>4. /\ row'.status = row.status /\ row'.node = [row.node EXCEPT ![n] = worker[n].as]
      /\ row'.events = row.events \cup {Entry(worker[n].as, n, worker[n].try)}
      /\ copy' = [copy EXCEPT ![SessionOf(n)] = row']
  <2>1. worker[n].as \in Statuses \ {"queued"}
    BY <1>2 DEF Statuses, Settled
  <2> QED BY <1>1, <1>2, <2>1, SessionTyped, MarkChangesOneNode DEF Mark
<1>5. \A j \in Nodes : row'.node[j] = IF j = n THEN worker[n].as ELSE row.node[j]
  BY <1>4 DEF TypeOK, RowType
<1>6. \A j \in Nodes :
        /\ worker'[j].pc = IF j # n THEN worker[j].pc
                           ELSE IF worker[n].as = "failed" THEN "failed" ELSE "done"
        /\ worker'[j].todo = worker[j].todo /\ worker'[j].skips = worker[j].skips
  BY <1>1, <1>2 DEF Worker, Pc, WorkerType
<1>7. \A j \in Nodes : Working(j)' <=> (j # n /\ Working(j))
  BY <1>6 DEF Working
<1>8. Runnable \subseteq Nodes /\ Runnable \subseteq main.seen
  BY DEF Runnable, TypeOK, MainType, Sound, LevelsClosed
<1>9. Gathered' = Gathered
  BY <1>2, <1>3, <1>6, <1>8 DEF Gathered
<1>10. \A j \in Nodes : Preds(j)' = Preds(j) /\ Targets(j)' = Targets(j)
  BY <1>2 DEF Preds, Targets, Edges
<1>11. NoEscape' /\ LevelsClosed'
  BY <1>2, <1>3, <1>6, <1>10 DEF Sound, NoEscape, LevelsClosed, TypeOK, MainType
<1>12. WorkersInLevel'
  BY <1>2, <1>3, <1>6, <1>7, <1>10 DEF Sound, WorkersInLevel
<1>13. NodesFollowWorkers'
  BY <1>2, <1>5, <1>7 DEF Sound, NodesFollowWorkers, Settled
<1>14. LevelsSettled'
  BY <1>2, <1>3, <1>5, <1>6, <1>7, <1>8, <1>9
  DEF Sound, LevelsSettled, TypeOK, MainType, Passed, Settled
<1>15. SkipsMarked'
  <2>1. \A j \in Nodes : row.node[j] = "skipped" => row'.node[j] = "skipped"
    BY <1>3, <1>5
  <2>2. \A j \in Nodes, s \in Sessions :
          (\/ Entry("skipped", j, 0) \in row'.events
           \/ Entry("skipped", j, 0) \in copy'[s].events)
          => \/ (j = n /\ worker[n].as = "skipped")
             \/ Entry("skipped", j, 0) \in row.events
             \/ Entry("skipped", j, 0) \in copy[s].events
    BY <1>4 DEF Entry, TypeOK
  <2>3. \A j \in Nodes, s \in Sessions :
          (\/ Entry("skipped", j, 0) \in row'.events
           \/ Entry("skipped", j, 0) \in copy'[s].events)
          => row'.node[j] = "skipped"
    BY <1>5, <2>1, <2>2 DEF Sound, SkipsMarked
  <2>4. \A j \in main'.skipped : row'.node[j] = "skipped"
    BY <1>2, <2>1 DEF Sound, SkipsMarked, TypeOK, MainType
  <2>5. \A j \in Nodes : \A i \in worker'[j].skips : row'.node[i] = "skipped"
    BY <1>2, <1>6, <2>1 DEF Sound, SkipsMarked, WorkerType
  <2> QED BY <2>3, <2>4, <2>5 DEF SkipsMarked
<1>16. FailureNamed' /\ StatusFollowsMain'
  BY <1>2, <1>3, <1>4 DEF FailureNamed, StatusFollowsMain
<1> QED
  BY <1>11, <1>12, <1>13, <1>14, <1>15, <1>16 DEF Sound

LEMMA SoundNodeStep ==
  ASSUME TypeOK, Sound, ~canvas.flaky, NEW n \in Nodes, NodeStep(n)
  PROVE  Sound'
<1> USE DEF Pc, At
<1>0. /\ worker[n] \in WorkerType /\ row \in RowType /\ copy \in [Sessions -> RowType]
      /\ SessionOf(n) \in Sessions /\ worker[n].try \in Nat /\ Published = {TRUE}
  BY SessionTyped DEF TypeOK, WorkerType, Published
<1>1. Working(n) => worker[n].todo \subseteq Targets(n)
  BY DEF Sound, WorkersInLevel
(* What all but SkipTarget and EndNode have in common.                     *)
<1> DEFINE Quiet ==
      /\ row'.status = row.status
      /\ \A k \in Nodes : row'.node[k] = row.node[k] \/ (k = n /\ row'.node[k] = "running")
      /\ \A k \in Nodes, s \in Sessions :
           (\/ Entry("skipped", k, 0) \in row'.events
            \/ Entry("skipped", k, 0) \in copy'[s].events)
           => \/ Entry("skipped", k, 0) \in row.events
              \/ \E q \in Sessions : Entry("skipped", k, 0) \in copy[q].events
<1>2. ASSUME NEW settings, Write(SessionOf(n), Marked(SessionOf(n), n, "running", worker[n].try),
                                 settings)
      PROVE  Quiet
  <2>1. "running" \in Statuses \ {"queued"}
    BY DEF Statuses, Settled
  <2>2. /\ row'.status = row.status /\ row'.node = [row.node EXCEPT ![n] = "running"]
        /\ row'.events = row.events \cup {Entry("running", n, worker[n].try)}
        /\ copy' = [copy EXCEPT ![SessionOf(n)] = row']
    BY <1>0, <1>2, <2>1, MarkChangesOneNode
  <2> QED BY <1>0, <2>2 DEF Entry, RowType
<1>3. (row' = row /\ copy' = copy) => Quiet
  OBVIOUS
<1> HIDE DEF Quiet
<1>4. ASSUME NEW w \in WorkerType, Worker(n, w), Working(n), main' = main, canvas' = canvas,
             w.pc \notin {"idle", "done", "failed", "raised"}, w.todo \subseteq Targets(n),
             w.skips = worker[n].skips, Quiet
      PROVE  Sound'
  BY <1>4, WorkingOn DEF Quiet
<1>5. CASE StartNode(n)
  <2>1. Worker(n, Pc(n, "running"))
    BY <1>0, <1>5 DEF StartNode
  <2>2. Quiet
    BY <1>2, <1>5 DEF StartNode
  <2>3. Working(n)
    BY <1>5 DEF StartNode, Working
  <2>4. Pc(n, "running") \in WorkerType /\ Pc(n, "running").pc = "running"
        /\ Pc(n, "running").todo = worker[n].todo /\ Pc(n, "running").skips = worker[n].skips
    BY <1>0 DEF WorkerType
  <2> QED BY <1>1, <1>4, <1>5, <2>1, <2>2, <2>3, <2>4 DEF StartNode
<1>6. CASE Succeed(n)
  <2>1. PICK b \in Branches :
          Worker(n, [Pc(n, "branch") EXCEPT !.as = "completed",
                       !.todo = IF IsCondition(n) THEN NotTaken(n, b) ELSE {}])
    BY <1>6 DEF Succeed
  <2> DEFINE skips == IF IsCondition(n) THEN NotTaken(n, b) ELSE {}
             w == [Pc(n, "branch") EXCEPT !.as = "completed", !.todo = skips]
  <2>2. skips \subseteq Targets(n) /\ skips \subseteq Nodes
    BY DEF NotTaken, Targets
  <2>3. Worker(n, w)
    BY <2>1
  <2>4. w \in WorkerType /\ w.pc = "branch" /\ w.todo = skips /\ w.skips = worker[n].skips
    <3> HIDE DEF skips
    <3> QED BY <1>0, <2>2 DEF WorkerType, Settled
  <2> HIDE DEF w, skips
  <2> QED BY <1>3, <1>4, <1>6, <2>2, <2>3, <2>4 DEF Succeed, Working
<1>a. Attempt(n) \in Nat
  BY <1>0 DEF Attempt
<1>7. CASE ReturnFailure(n)
  <2> DEFINE w == IF worker[n].try < canvas.retries[n]
                  THEN [Pc(n, "retry") EXCEPT !.try = Attempt(n)]
                  ELSE [Pc(n, "branch") EXCEPT !.as = IF n \in canvas.skip THEN "skipped"
                                                      ELSE "failed"]
  <2>1. w \in WorkerType /\ w.pc \in {"retry", "branch"}
        /\ w.todo = worker[n].todo /\ w.skips = worker[n].skips
    BY <1>0, <1>a DEF WorkerType, Settled
  <2>2. Worker(n, w)
    BY <1>7 DEF ReturnFailure
  <2> HIDE DEF w
  <2> QED BY <1>1, <1>3, <1>4, <1>7, <2>1, <2>2 DEF ReturnFailure, Working
<1>8. CASE Raise(n)
  <2>1. Pc(n, "caught") \in WorkerType /\ Pc(n, "caught").pc = "caught"
        /\ Pc(n, "caught").todo = worker[n].todo /\ Pc(n, "caught").skips = worker[n].skips
    BY <1>0 DEF WorkerType
  <2> QED BY <1>1, <1>3, <1>4, <1>8, <2>1 DEF Raise, Working
<1>9. CASE Catch(n)
  <2> DEFINE v == [worker[n] EXCEPT !.try = Attempt(n), !.inTry = FALSE, !.todo = {}]
             w == IF v.try <= canvas.retries[n] THEN [v EXCEPT !.pc = "retry"]
                  ELSE [v EXCEPT !.pc = "branch",
                                 !.as = IF n \in canvas.skip THEN "skipped" ELSE "failed"]
  <2>1. v \in WorkerType /\ v.todo = {} /\ v.skips = worker[n].skips
    BY <1>0, <1>a DEF WorkerType
  <2>2. Worker(n, w)
    BY <1>9 DEF Catch
  <2>3. w \in WorkerType /\ w.pc \in {"retry", "branch"}
        /\ w.todo = {} /\ w.skips = worker[n].skips
    <3> HIDE DEF v
    <3> QED BY <2>1 DEF WorkerType, Settled
  <2> HIDE DEF w
  <2> QED BY <1>3, <1>4, <1>9, <2>2, <2>3 DEF Catch, Working
<1>10. CASE MarkRetry(n)
  <2>1. Worker(n, Pc(n, "retried"))
    BY <1>0, <1>10 DEF MarkRetry
  <2>2. Quiet
    BY <1>2, <1>10 DEF MarkRetry, Mark
  <2>3. Pc(n, "retried") \in WorkerType /\ Pc(n, "retried").pc = "retried"
        /\ Pc(n, "retried").todo = worker[n].todo /\ Pc(n, "retried").skips = worker[n].skips
    BY <1>0 DEF WorkerType
  <2> QED BY <1>1, <1>4, <1>10, <2>1, <2>2, <2>3 DEF MarkRetry, Working
<1>11. CASE NoteRetry(n)
  <2> DEFINE w == [Pc(n, "start") EXCEPT !.inTry = TRUE]
             e == Entry("retry", n, worker[n].try)
  <2>1. e \in [what : Whats, node : Sessions, try : Nat] /\ e.what = "retry"
    BY <1>0 DEF Entry, Whats, Sessions
  <2>2. /\ row' = [row EXCEPT !.events = copy[SessionOf(n)].events \cup {e}]
        /\ copy' = [copy EXCEPT ![SessionOf(n)].events = copy[SessionOf(n)].events \cup {e}]
    BY <1>11 DEF NoteRetry
  <2>3. Quiet
    <3> HIDE DEF e
    <3>1. /\ row'.status = row.status /\ row'.node = row.node
          /\ row'.events = copy[SessionOf(n)].events \cup {e}
          /\ \A q \in Sessions : copy'[q].events =
               IF q = SessionOf(n) THEN copy[SessionOf(n)].events \cup {e} ELSE copy[q].events
      BY <1>0, <2>1, <2>2, NoteKeepsNodes
    <3>2. \A k \in Nodes : Entry("skipped", k, 0) # e
      BY <2>1 DEF Entry
    <3> QED BY <1>0, <3>1, <3>2 DEF Quiet
  <2>4. w \in WorkerType /\ w.pc = "start" /\ w.todo = worker[n].todo
        /\ w.skips = worker[n].skips
    BY <1>0 DEF WorkerType
  <2>5. Worker(n, w)
    BY <1>11 DEF NoteRetry
  <2> HIDE DEF w
  <2> QED BY <1>1, <1>4, <1>11, <2>3, <2>4, <2>5 DEF NoteRetry, Working
<1> QED
  BY <1>5, <1>6, <1>7, <1>8, <1>9, <1>10, <1>11, SoundSkipTarget, SoundEndNode DEF NodeStep

-----------------------------------------------------------------------------
(* The steps of the engine. *)

(* The engine ends the run with what the nodes say.                        *)
LEMMA SoundFinish ==
  ASSUME TypeOK, Sound, ~canvas.flaky, NEW status \in {"completed", "failed"},
         Finish(status), main.pc # "gather",
         \/ status = "completed" /\ \A n \in Nodes : row.node[n] \in Passed
         \/ status = "failed" /\ ( \/ \E n \in Nodes : row.node[n] = "failed"
                                   \/ \A n \in Nodes : row.node[n] = "queued")
  PROVE  Sound'
<1>1. /\ row'.status = status /\ row'.node = row.node
      /\ row'.events = copy[Main].events \cup {Entry(status, Main, 0)}
      /\ copy' = [copy EXCEPT ![Main] = row']
      /\ canvas' = canvas /\ worker' = worker /\ row' \in RowType
  BY FinishKeepsNodes
<1>2. main' = [main EXCEPT !.pc = "report"]
  BY FinishKeepsNodes DEF Published, Go
<1>3. /\ main'.pc = "report" /\ main'.seen = main.seen /\ main'.level = main.level
      /\ main'.skipped = main.skipped
  BY <1>2 DEF TypeOK, MainType
<1>4. \A n \in Nodes : Preds(n)' = Preds(n) /\ (Working(n)' <=> Working(n)) /\ ~Working(n)
  BY <1>1 DEF Preds, Edges, Working, Sound, WorkersInLevel
<1>5. NoEscape' /\ LevelsClosed' /\ WorkersInLevel' /\ NodesFollowWorkers'
  BY <1>1, <1>3, <1>4
  DEF Sound, NoEscape, LevelsClosed, WorkersInLevel, NodesFollowWorkers, TypeOK, MainType
<1>6. LevelsSettled' /\ FailureNamed' /\ StatusFollowsMain'
  BY <1>1, <1>3 DEF LevelsSettled, FailureNamed, StatusFollowsMain
<1>7. SkipsMarked'
  <2>1. \A n \in Nodes : Entry("skipped", n, 0) # Entry(status, Main, 0)
    BY CanvasAssumption DEF Entry
  <2>2. Main \in Sessions
    BY DEF Sessions
  <2> QED BY <1>1, <1>3, <2>1, <2>2 DEF Sound, SkipsMarked, TypeOK
<1> QED
  BY <1>5, <1>6, <1>7 DEF Sound

LEMMA SoundBegin ==
  ASSUME TypeOK, Sound, ~canvas.flaky, Begin
  PROVE  Sound'
<1> DEFINE e == Entry("engine_started", Main, 0)
<1>0. Main \in Sessions /\ e \in [what : Whats, node : Sessions, try : Nat]
      /\ \A n \in Nodes : Entry("skipped", n, 0) # e
  BY DEF Sessions, Entry, Whats
<1>1. /\ row' = [row EXCEPT !.events = copy[Main].events \cup {e}]
      /\ copy' = [copy EXCEPT ![Main].events = copy[Main].events \cup {e}]
      /\ canvas' = canvas /\ worker' = worker /\ main.pc = "begin"
  BY DEF Begin, MainAt
<1> HIDE DEF e
<1>2. /\ row'.status = row.status /\ row'.node = row.node
      /\ row'.events = copy[Main].events \cup {e}
      /\ \A q \in Sessions : copy'[q].events =
           IF q = Main THEN copy[Main].events \cup {e} ELSE copy[q].events
  BY <1>0, <1>1, NoteKeepsNodes
<1>3. main' = [main EXCEPT !.pc = "level"]
  BY DEF Begin, Published, Go
<1>4. /\ main'.pc = "level" /\ main'.seen = main.seen /\ main'.level = main.level
      /\ main'.skipped = main.skipped
  BY <1>3 DEF TypeOK, MainType
<1>5. \A n \in Nodes : Preds(n)' = Preds(n) /\ (Working(n)' <=> Working(n)) /\ ~Working(n)
  BY <1>1 DEF Preds, Edges, Working, Sound, WorkersInLevel
<1>6. NoEscape' /\ LevelsClosed' /\ WorkersInLevel' /\ NodesFollowWorkers'
  BY <1>1, <1>2, <1>4, <1>5
  DEF Sound, NoEscape, LevelsClosed, WorkersInLevel, NodesFollowWorkers, TypeOK, MainType
<1>7. LevelsSettled' /\ FailureNamed' /\ StatusFollowsMain'
  BY <1>1, <1>2, <1>4 DEF Sound, LevelsSettled, FailureNamed, StatusFollowsMain
<1>8. SkipsMarked'
  BY <1>0, <1>1, <1>2, <1>4 DEF Sound, SkipsMarked
<1> QED
  BY <1>6, <1>7, <1>8 DEF Sound

LEMMA SoundStartLevel ==
  ASSUME TypeOK, Sound, ~canvas.flaky, StartLevel
  PROVE  Sound'
<1> DEFINE level == NextLevel
           nodes == level \ main.skipped
<1>1. /\ main.pc = "level" /\ level # {} /\ row' = row /\ copy' = copy /\ canvas' = canvas
      /\ main' = [main EXCEPT !.seen = @ \cup level, !.level = level,
                              !.pc = IF nodes = {} THEN "level" ELSE "gather"]
  BY DEF StartLevel, MainAt
<1>2. \A n \in Nodes :
        /\ n \notin nodes => worker'[n] = worker[n]
        /\ n \in nodes => /\ worker'[n].pc \in {"open", "start"}
                          /\ worker'[n].todo = {} /\ worker'[n].skips = {}
  BY DEF StartLevel, Idle
<1>3. /\ level \subseteq Nodes \ main.seen
      /\ \A n \in level : Preds(n) \subseteq main.seen
  BY DEF NextLevel
<1> HIDE DEF level, nodes
<1>4. /\ main'.pc = (IF nodes = {} THEN "level" ELSE "gather")
      /\ main'.seen = main.seen \cup level /\ main'.level = level
      /\ main'.skipped = main.skipped
  BY <1>1 DEF TypeOK, MainType
<1>5. Runnable' = nodes /\ nodes \subseteq level
  BY <1>4 DEF Runnable, nodes
<1>6. \A n \in Nodes : /\ Preds(n)' = Preds(n) /\ Targets(n)' = Targets(n)
                       /\ ~Working(n) /\ (Working(n)' <=> n \in nodes)
  BY <1>1, <1>2 DEF Preds, Targets, Edges, Working, Sound, WorkersInLevel
<1>7. NoEscape' /\ LevelsClosed'
  BY <1>1, <1>2, <1>3, <1>4, <1>5, <1>6 DEF Sound, NoEscape, LevelsClosed, TypeOK, MainType
<1>8. WorkersInLevel'
  BY <1>2, <1>4, <1>5, <1>6 DEF WorkersInLevel
<1>9. NodesFollowWorkers'
  BY <1>1, <1>3, <1>5, <1>6 DEF Sound, NodesFollowWorkers, LevelsSettled, nodes
<1>10. LevelsSettled'
  <2>1. \A n \in (main.seen \cup level) \ nodes : row.node[n] \in Passed
    BY <1>1, <1>3 DEF Sound, LevelsSettled, SkipsMarked, Passed, nodes
  <2>2. \A n \in Nodes \ main'.seen : row.node[n] = "queued" \/ n \in main.skipped
    BY <1>1, <1>4 DEF Sound, LevelsSettled
  <2>3. main.skipped \subseteq Gathered'
    BY <1>4 DEF Gathered
  <2> QED BY <1>1, <1>3, <1>4, <1>5, <1>6, <2>1, <2>2, <2>3 DEF LevelsSettled
<1>11. SkipsMarked'
  BY <1>1, <1>2, <1>4 DEF Sound, SkipsMarked
<1>12. FailureNamed' /\ StatusFollowsMain'
  BY <1>1, <1>4 DEF Sound, FailureNamed, StatusFollowsMain
<1> QED
  BY <1>7, <1>8, <1>9, <1>10, <1>11, <1>12 DEF Sound

LEMMA SoundEndLevel ==
  ASSUME TypeOK, Sound, ~canvas.flaky, EndLevel
  PROVE  Sound'
<1>1. /\ main.pc = "gather" /\ \A n \in Runnable : worker[n].pc \in {"done", "failed"}
      /\ copy' = [copy EXCEPT ![Main] = row] /\ canvas' = canvas /\ row' = row
      /\ worker' = worker
  BY DEF EndLevel, MainAt
<1>2. /\ main'.pc \in {"level", "failing"} /\ main'.seen = main.seen
      /\ main'.level = main.level /\ main'.skipped = Gathered
      /\ main'.pc = "level" => \A n \in Runnable : worker[n].pc # "failed"
      /\ main'.pc = "failing" => \E n \in Runnable : worker[n].pc = "failed"
                                                     /\ main'.todo = Descendants(n)
  BY DEF EndLevel, At, TypeOK, MainType
<1>3. \A n \in Nodes : Preds(n)' = Preds(n) /\ (Working(n)' <=> Working(n)) /\ ~Working(n)
  BY <1>1 DEF Preds, Edges, Working, Sound, WorkersInLevel
<1>4. Runnable \subseteq main.level /\ Runnable \subseteq main.seen /\ main.seen \subseteq Nodes
  BY DEF Runnable, TypeOK, MainType, Sound, LevelsClosed
<1>5. NoEscape' /\ LevelsClosed' /\ WorkersInLevel' /\ NodesFollowWorkers'
  BY <1>1, <1>2, <1>3
  DEF Sound, NoEscape, LevelsClosed, WorkersInLevel, NodesFollowWorkers, TypeOK, MainType
<1>6. LevelsSettled'
  BY <1>1, <1>2, <1>3, <1>4 DEF Sound, LevelsSettled
<1>7. SkipsMarked'
  <2>1. \A k \in Gathered : row.node[k] = "skipped"
    BY <1>4 DEF Gathered, Sound, SkipsMarked
  <2> QED BY <1>1, <1>2, <2>1 DEF Sound, SkipsMarked, TypeOK
<1>8. FailureNamed'
  <2>1. \A n \in Runnable : worker[n].pc = "failed" => row.node[n] = "failed"
    BY <1>1, <1>3, <1>4 DEF Sound, LevelsSettled
  <2>2. \A n \in Runnable : Descendants(n) \cap main.seen = {}
    BY <1>1, <1>4, DescendantsAhead DEF Sound
  <2> QED BY <1>1, <1>2, <1>4, <2>1, <2>2 DEF FailureNamed
<1>9. StatusFollowsMain'
  BY <1>1, <1>2 DEF Sound, StatusFollowsMain
<1> QED
  BY <1>5, <1>6, <1>7, <1>8, <1>9 DEF Sound

LEMMA SoundSkipBelow ==
  ASSUME TypeOK, Sound, ~canvas.flaky, SkipBelow
  PROVE  Sound'
<1>1. PICK k \in main.todo : /\ Mark(Main, k, "skipped", 0)
                             /\ main' = [main EXCEPT !.todo = @ \ {k}, !.pc = "failing"]
  BY DEF SkipBelow, Published, Go
<1>2. main.pc = "failing" /\ canvas' = canvas /\ worker' = worker /\ k \in Nodes
  BY <1>1 DEF SkipBelow, MainAt, TypeOK, MainType
<1>3. k \notin main.seen
  BY <1>2 DEF Sound, FailureNamed
<1>4. /\ row'.status = row.status /\ row'.node = [row.node EXCEPT ![k] = "skipped"]
      /\ row'.events = row.events \cup {Entry("skipped", k, 0)}
      /\ copy' = [copy EXCEPT ![Main] = row']
  <2>1. "skipped" \in Statuses \ {"queued"} /\ 0 \in Nat /\ Main \in Sessions
    BY DEF Statuses, Settled, Sessions
  <2>2. Write(Main, Marked(Main, k, "skipped", 0), held[Main])
    BY <1>1 DEF Mark
  <2> QED BY <1>2, <2>1, <2>2, MarkChangesOneNode
<1>5. \A j \in Nodes : row'.node[j] = IF j = k THEN "skipped" ELSE row.node[j]
  BY <1>2, <1>4 DEF TypeOK, RowType
<1>6. /\ main'.pc = "failing" /\ main'.seen = main.seen /\ main'.level = main.level
      /\ main'.skipped = main.skipped /\ main'.todo \subseteq main.todo
  BY <1>1 DEF TypeOK, MainType
<1>7. \A n \in Nodes : Preds(n)' = Preds(n) /\ (Working(n)' <=> Working(n)) /\ ~Working(n)
  BY <1>2 DEF Preds, Edges, Working, Sound, WorkersInLevel
<1>8. NoEscape' /\ LevelsClosed' /\ WorkersInLevel' /\ NodesFollowWorkers'
  BY <1>2, <1>5, <1>6, <1>7
  DEF Sound, NoEscape, LevelsClosed, WorkersInLevel, NodesFollowWorkers, TypeOK, MainType
<1>9. LevelsSettled' /\ StatusFollowsMain'
  BY <1>2, <1>4, <1>6 DEF Sound, LevelsSettled, StatusFollowsMain
<1>10. FailureNamed'
  BY <1>2, <1>3, <1>5, <1>6 DEF Sound, FailureNamed, TypeOK, MainType
<1>11. SkipsMarked'
  <2>1. \A j \in Nodes, s \in Sessions :
          (\/ Entry("skipped", j, 0) \in row'.events
           \/ Entry("skipped", j, 0) \in copy'[s].events)
          => \/ j = k \/ Entry("skipped", j, 0) \in row.events
             \/ Entry("skipped", j, 0) \in copy[s].events
    BY <1>4 DEF Entry, TypeOK
  <2>2. \A j \in Nodes, s \in Sessions :
          (\/ Entry("skipped", j, 0) \in row'.events
           \/ Entry("skipped", j, 0) \in copy'[s].events)
          => row'.node[j] = "skipped"
    BY <1>5, <2>1 DEF Sound, SkipsMarked
  <2>3. \A j \in main'.skipped : row'.node[j] = "skipped"
    BY <1>5, <1>6 DEF Sound, SkipsMarked, TypeOK, MainType
  <2>4. \A j \in Nodes : \A i \in worker'[j].skips : row'.node[i] = "skipped"
    BY <1>2, <1>5 DEF Sound, SkipsMarked, TypeOK, WorkerType
  <2> QED BY <2>2, <2>3, <2>4 DEF SkipsMarked
<1> QED
  BY <1>8, <1>9, <1>10, <1>11 DEF Sound

LEMMA SoundMainStep ==
  ASSUME TypeOK, Sound, ~canvas.flaky, MainStep
  PROVE  Sound'
<1>1. CASE Refuse
  BY <1>1, SoundFinish DEF Refuse, MainAt, Sound, LevelsSettled
<1>2. CASE FailRun
  <2>1. \E n \in Nodes : row.node[n] = "failed"
    BY <1>2 DEF FailRun, MainAt, Sound, FailureNamed, TypeOK, MainType
  <2> QED BY <1>2, <2>1, SoundFinish DEF FailRun, MainAt
<1>3. CASE CompleteRun
  <2>1. \A n \in Nodes : row.node[n] \in Passed
    BY <1>3, NothingLeft DEF CompleteRun, MainAt, Sound, LevelsSettled
  <2> QED BY <1>3, <2>1, SoundFinish DEF CompleteRun, MainAt
<1>4. CASE Report
  <2>1. /\ main.pc = "report" /\ canvas' = canvas /\ row' = row /\ copy' = copy
        /\ worker' = worker /\ main' = [main EXCEPT !.pc = "ended"]
    BY <1>4 DEF Report, MainAt, Published, Go
  <2>2. /\ main'.pc = "ended" /\ main'.seen = main.seen /\ main'.level = main.level
        /\ main'.skipped = main.skipped
    BY <2>1 DEF TypeOK, MainType
  <2>3. \A n \in Nodes : Preds(n)' = Preds(n) /\ (Working(n)' <=> Working(n)) /\ ~Working(n)
    BY <2>1 DEF Preds, Edges, Working, Sound, WorkersInLevel
  <2>4. NoEscape' /\ LevelsClosed' /\ WorkersInLevel' /\ NodesFollowWorkers'
    BY <2>1, <2>2, <2>3
    DEF Sound, NoEscape, LevelsClosed, WorkersInLevel, NodesFollowWorkers, TypeOK, MainType
  <2>5. LevelsSettled' /\ SkipsMarked' /\ FailureNamed' /\ StatusFollowsMain'
    BY <2>1, <2>2
    DEF Sound, LevelsSettled, SkipsMarked, FailureNamed, StatusFollowsMain
  <2> QED BY <2>4, <2>5 DEF Sound
<1>5. ~LevelRaises /\ ~FailEscaped
  BY DEF LevelRaises, FailEscaped, MainAt, At, Sound, NoEscape, Runnable, TypeOK, MainType
<1> QED
  BY <1>1, <1>2, <1>3, <1>4, <1>5, SoundBegin, SoundStartLevel, SoundEndLevel, SoundSkipBelow
  DEF MainStep

-----------------------------------------------------------------------------
LEMMA InvInit == Init => WorkflowInv
<1> SUFFICES ASSUME Init PROVE Sound
  BY TypeInit DEF WorkflowInv
<1>1. \A n \in Nodes : ~Working(n) /\ worker[n].pc = "idle" /\ worker[n].skips = {}
                       /\ row.node[n] = "queued"
  BY DEF Init, Idle, Working
<1>2. row.status = "running" /\ row.events = {} /\ \A s \in Sessions : copy[s] = row
  BY DEF Init
<1> QED
  BY <1>1, <1>2 DEF Init, Sound, NoEscape, LevelsClosed, WorkersInLevel, NodesFollowWorkers,
     LevelsSettled, SkipsMarked, FailureNamed, StatusFollowsMain

LEMMA InvStep == WorkflowInv /\ [Next]_vars => WorkflowInv'
<1> SUFFICES ASSUME WorkflowInv, [Next]_vars PROVE WorkflowInv'
  OBVIOUS
<1>1. CASE Save \/ UNCHANGED vars
  <2>1. /\ canvas' = canvas /\ row' = row /\ copy' = copy /\ main' = main
        /\ worker' = worker
    BY <1>1 DEF Save, vars
  <2>2. TypeOK'
    BY <2>1 DEF WorkflowInv, TypeOK
  <2>3. Sound => Sound'
    BY <2>1 DEF Sound, NoEscape, LevelsClosed, WorkersInLevel, NodesFollowWorkers,
       LevelsSettled, SkipsMarked, FailureNamed, StatusFollowsMain, Working, Runnable,
       Gathered, Preds, Targets, Edges
  <2> QED BY <2>1, <2>2, <2>3 DEF WorkflowInv
<1>2. ASSUME NEW n \in Nodes, NodeStep(n) PROVE WorkflowInv'
  <2>1. canvas' = canvas
    BY <1>2 DEF NodeStep, StartNode, Succeed, ReturnFailure, Raise, Catch, MarkRetry,
       NoteRetry, SkipTarget, EndNode
  <2> QED BY <1>2, <2>1, TypeNodeStep, SoundNodeStep DEF WorkflowInv
<1>3. CASE MainStep
  <2>1. canvas' = canvas
    BY <1>3 DEF MainStep, Begin, Refuse, StartLevel, EndLevel, LevelRaises, SkipBelow,
       FailRun, CompleteRun, Report, FailEscaped, Finish
  <2> QED BY <1>3, <2>1, TypeMainStep, SoundMainStep DEF WorkflowInv
<1> QED
  BY <1>1, <1>2, <1>3 DEF Next

LEMMA InvTellsTruth == WorkflowInv => RunTellsTruth
<1> SUFFICES ASSUME TypeOK, Sound, ~canvas.flaky PROVE RunTellsTruth
  BY DEF WorkflowInv, RunTellsTruth
<1>1. ASSUME NEW n \in Nodes, row.node[n] = "running"
      PROVE  /\ \A p \in Preds(n) : row.node[p] \in {"completed", "skipped"}
             /\ Entry("skipped", n, 0) \notin row.events
  <2>1. main.pc = "gather" /\ n \in Runnable
    BY <1>1 DEF Sound, NodesFollowWorkers, WorkersInLevel
  <2>2. n \in main.level /\ n \in main.seen
    BY <2>1 DEF Runnable, Sound, LevelsClosed
  <2>3. \A p \in Preds(n) : p \in main.seen \ Runnable
    BY <2>1, <2>2 DEF Sound, LevelsClosed, Runnable
  <2>4. \A p \in Preds(n) : row.node[p] \in Passed
    BY <2>1, <2>3 DEF Sound, LevelsSettled
  <2>5. Main \in Sessions
    BY DEF Sessions
  <2> QED BY <1>1, <2>4, <2>5 DEF Sound, SkipsMarked, Passed
<1>2. main.pc \in {"begin", "level", "gather", "failing", "report", "ended"}
  BY DEF TypeOK, MainType, Sound, NoEscape
<1>3. row.status # "running" => main.pc \in {"report", "ended"}
  BY <1>2 DEF Sound, StatusFollowsMain
<1>4. row.status # "running" => \A n \in Nodes : row.node[n] # "running"
  BY <1>3 DEF Sound, NodesFollowWorkers, WorkersInLevel
<1>5. /\ row.status = "completed" => \A n \in Nodes : row.node[n] \in Passed
      /\ row.status = "failed" => \/ \E n \in Nodes : row.node[n] = "failed"
                                  \/ \A n \in Nodes : row.node[n] = "queued"
      /\ main.pc = "ended" => row.status # "running"
  BY <1>3 DEF Sound, StatusFollowsMain
<1> QED
  BY <1>1, <1>4, <1>5 DEF RunTellsTruth, Passed

(* While publications succeed, the row of every run of every canvas tells  *)
(* the truth: nodes run after their predecessors and never once skipped,   *)
(* and the end it reports is the end the nodes had.                        *)
THEOREM RowsTellTheTruth == Spec => []RunTellsTruth
  BY InvInit, InvStep, InvTellsTruth, PTL DEF Spec

-----------------------------------------------------------------------------
(* The Kernel's walk of a graph (WorkflowTraversal), for any graphs and    *)
(* any step limit.                                                         *)

WalkType ==
  /\ graph \in Graphs
  /\ turn \in {"waiting", "deciding", "over"}
  /\ current \in Ids \cup {None} /\ last \in Ids \cup {None}
  /\ fork \subseteq Ids /\ visited \subseteq Ids
  /\ mark \in [Ids -> {"pending", "running", "completed"}]
  /\ steps \in Nat

(* A node that may have successors on the walk: done, or at work.          *)
Done(p) == mark[p] = "completed" \/ p = last
Reached(n) == \E p \in visited : n \in Successors(p) /\ Done(p)

(* A node is reached from one that is done; what was decided last is the   *)
(* node the walk stands at, or a fork, and is at work.                     *)
WalkInv ==
  /\ \A n \in visited \ {graph.start} : Reached(n)
  /\ current \notin {None, graph.start} => Reached(current)
  /\ last # None => last = current /\ last \in visited /\ mark[last] = "running"
  /\ fork # {} => last = None /\ current = None /\ fork \subseteq visited
  /\ turn = "waiting" =>
       /\ steps > 0 => (fork = {}) # (last = None)
       /\ \A n \in fork : mark[n] = "running" /\ graph.agent[n] \in asked
  /\ turn = "waiting" /\ steps = 0 => fork = {} /\ last = None
  /\ steps <= MaxSteps + MaxFan

(* The successors of a node are nodes, finitely many.                      *)
LEMMA SuccessorsAreNodes ==
  ASSUME graph \in Graphs
  PROVE  /\ IsFiniteSet(Ids) /\ None \notin Ids /\ graph.start \in Ids
         /\ \A n \in Ids : /\ graph.next[n] \in Seq(Ids)
                           /\ Successors(n) \subseteq Ids
                           /\ IsFiniteSet(Successors(n))
<1>1. /\ IsFiniteSet(Ids) /\ None \notin Ids /\ graph.start \in Ids
      /\ \A n \in Ids : graph.next[n] \in Seq(Ids)
  BY GraphAssumption DEF Ids
<1>2. \A n \in Ids : Successors(n) \subseteq Ids
  BY <1>1, ElementOfSeq, LenProperties DEF Successors, Heads
<1> QED BY <1>1, <1>2, FS_Subset

(* A set of numbers that is not empty has a least one.                     *)
LEMMA LeastNumber ==
  ASSUME NEW S \in SUBSET Nat, S # {}
  PROVE  \E n \in S : \A m \in S : n <= m
<1> DEFINE R == OpToRel(<, Nat)
<1>1. \E x \in S : \A y \in S : ~ (<<y, x>> \in R)
  BY WFMin, NatLessThanWellFounded
<1>2. \A x, y \in Nat : y < x => <<y, x>> \in R
  BY DEF OpToRel
<1> HIDE DEF R
<1>3. PICK x \in S : \A y \in S : ~ (<<y, x>> \in R)
  BY <1>1
<1>4. \A y \in S : ~(y < x)
  BY <1>2, <1>3
<1> QED BY <1>4

(* Nobody has more edges than MaxFan: it is the least upper bound of the   *)
(* fans, which the number of all positions of edges bounds.                *)
LEMMA FansAreBounded ==
  ASSUME graph \in Graphs
  PROVE  /\ MaxFan \in Nat
         /\ \A n \in Ids : Len(graph.next[n]) \in Nat /\ Len(graph.next[n]) <= MaxFan
<1> DEFINE Fan(n) == Len(graph.next[n])
           Places(n) == 1 .. Fan(n)
           fans == {Fan(n) : n \in Ids}
           all == UNION {Places(n) : n \in Ids}
           bounds == {b \in Nat : \A f \in fans : f <= b}
<1>1. \A n \in Ids : Fan(n) \in Nat /\ IsFiniteSet(Places(n)) /\ Cardinality(Places(n)) = Fan(n)
  BY SuccessorsAreNodes, LenProperties, FS_Interval
<1>2. IsFiniteSet(all)
  <2>1. IsFiniteSet({Places(n) : n \in Ids})
    <3> DEFINE f == [n \in Ids |-> Places(n)]
    <3>1. f \in Surjection(Ids, {Places(n) : n \in Ids})
      BY DEF Surjection
    <3> QED BY <3>1, SuccessorsAreNodes, FS_Surjection
  <2>2. \A T \in {Places(n) : n \in Ids} : IsFiniteSet(T)
    BY <1>1
  <2> QED BY <2>1, <2>2, FS_UNION
<1>3. Cardinality(all) \in bounds
  <2>1. \A n \in Ids : Places(n) \in SUBSET all
    OBVIOUS
  <2>2. \A n \in Ids : Cardinality(Places(n)) <= Cardinality(all)
    BY <1>2, <2>1, FS_Subset
  <2> QED BY <1>1, <1>2, <2>2, FS_CardinalityType
<1>4. PICK b \in bounds : \A c \in bounds : b <= c
  BY <1>3, LeastNumber
<1>5. \E f \in fans : \A g \in fans : g <= f
  <2> SUFFICES ASSUME b \notin fans PROVE FALSE
    BY <1>4
  <2>1. \A f \in fans : f \in Nat /\ f < b
    BY <1>1, <1>4
  <2>2. b > 0 /\ b \in Nat
    <3>1. PICK n \in Ids : TRUE
      BY SuccessorsAreNodes
    <3>2. Fan(n) \in fans
      OBVIOUS
    <3> QED BY <1>4, <2>1, <3>2
  <2>3. b - 1 \in bounds
    BY <2>1, <2>2
  <2> QED BY <1>4, <2>2, <2>3
<1>6. MaxFan \in fans /\ \A g \in fans : g <= MaxFan
  BY <1>5 DEF MaxFan
<1> QED BY <1>1, <1>6

(* The next node is a successor.                                           *)
LEMMA NextIsASuccessor ==
  ASSUME graph \in Graphs, NEW n \in Ids, NEW seen, NEW t \in NextNodes(n, seen)
  PROVE  t = None \/ (t \in Successors(n) /\ t \in Ids)
<1>1. graph.next[n] \in Seq(Ids) /\ Successors(n) \subseteq Ids
  BY SuccessorsAreNodes
<1> DEFINE next == graph.next[n]
           new == {i \in DOMAIN next : next[i] \notin seen}
<1>2. /\ DOMAIN next = 1 .. Len(next) /\ Len(next) \in Nat
      /\ next # <<>> => Len(next) > 0
  BY <1>1, LenProperties, EmptySeq
<1>3. CASE next = <<>>
  BY <1>3 DEF NextNodes
<1>4. CASE next # <<>> /\ graph.kind[n] = "condition"
  <2>1. PICK i \in graph.branch[n] : t = next[IF i \in DOMAIN next THEN i ELSE 1]
    BY <1>4 DEF NextNodes
  <2> QED BY <1>1, <1>2, <1>4, <2>1 DEF Successors, Heads
<1>5. CASE next # <<>> /\ graph.kind[n] # "condition" /\ new = {}
  BY <1>5 DEF NextNodes
<1>6. CASE next # <<>> /\ graph.kind[n] # "condition" /\ new # {}
  <2> DEFINE first == CHOOSE i \in new : \A j \in new : i <= j
  <2>1. t = next[first]
    BY <1>6 DEF NextNodes
  <2>2. new \in SUBSET Nat
    BY <1>2
  <2>3. first \in new
    BY <1>6, <2>2, LeastNumber
  <2> QED BY <1>1, <2>1, <2>3 DEF Successors, Heads
<1> QED BY <1>3, <1>4, <1>5, <1>6

(* A control node follows edges of its own, as many as its fan at most,    *)
(* and starts successors not yet visited.                                  *)
LEMMA FollowedAreAhead ==
  ASSUME graph \in Graphs, NEW n \in Ids, n = current, NEW seen
  PROVE  /\ Heads(current, Followed(seen)) \subseteq Successors(current) \ seen
         /\ Cardinality(Followed(seen)) \in Nat
         /\ Cardinality(Followed(seen)) <= Len(graph.next[current])
<1>1. /\ Followed(seen) \subseteq DOMAIN graph.next[current]
      /\ \A i \in Followed(seen) : graph.next[current][i] \notin seen
  BY DEF Followed, Ahead
<1>2. /\ DOMAIN graph.next[current] = 1 .. Len(graph.next[current])
      /\ Len(graph.next[current]) \in Nat
  BY SuccessorsAreNodes, LenProperties
<1>3. /\ IsFiniteSet(1 .. Len(graph.next[current]))
      /\ Cardinality(1 .. Len(graph.next[current])) = Len(graph.next[current])
  BY <1>2, FS_Interval
<1>4. /\ IsFiniteSet(Followed(seen))
      /\ Cardinality(Followed(seen)) <= Len(graph.next[current])
  BY <1>1, <1>2, <1>3, FS_Subset
<1>5. Heads(current, Followed(seen)) \subseteq Successors(current) \ seen
  BY <1>1 DEF Heads, Successors
<1> QED BY <1>4, <1>5, FS_CardinalityType

LEMMA WalkTypes ==
  ASSUME WalkType, [Walk]_walkVars
  PROVE  WalkType'
<1>1. CASE UNCHANGED walkVars
  BY <1>1 DEF WalkType, walkVars, Ids
<1>2. CASE Ask
  BY <1>2 DEF Ask, WalkType, Ids
<1>3. CASE Join
  BY <1>3 DEF Join, JoinNodes, Complete, NodesMarked, WalkType, Ids
<1>4. CASE Advance
  <2>1. current' \in Ids \cup {None}
    BY <1>4, NextIsASuccessor DEF Advance, WalkType
  <2> QED BY <1>4, <2>1 DEF Advance, Complete, NodesMarked, WalkType, Ids
<1>5. CASE StepLimit
  BY <1>5 DEF StepLimit, Complete, WalkType, Ids
<1>6. CASE PassControl
  <2> DEFINE edges == Followed(visited \cup {current})
             taken == Heads(current, edges)
  <2>1. current \in Ids /\ graph \in Graphs /\ graph' = graph
    BY <1>6 DEF PassControl, Visits, WalkType
  <2>2. taken \subseteq Ids /\ Cardinality(edges) \in Nat
    <3>1. taken \subseteq Successors(current) /\ Cardinality(edges) \in Nat
      BY <2>1, FollowedAreAhead
    <3> QED BY <2>1, <3>1, SuccessorsAreNodes
  <2>4. current' \in Ids \cup {None}
    BY <1>6, <2>1, NextIsASuccessor DEF PassControl
  <2> HIDE DEF taken, edges
  <2>5. steps' \in Nat /\ visited' \subseteq Ids
    <3>1. steps' = steps + 1 + Cardinality(edges) /\ visited' = visited \cup {current} \cup taken
      BY <1>6 DEF PassControl, taken, edges
    <3> QED BY <2>1, <2>2, <3>1 DEF WalkType
  <2>6. mark' \in [Ids -> {"pending", "running", "completed"}]
    BY <1>6 DEF PassControl, WalkType
  <2>7. last' \in Ids \cup {None} /\ fork' \subseteq Ids
    BY <1>6, <2>2 DEF PassControl, WalkType, taken, edges
  <2>8. turn' \in {"waiting", "deciding", "over"}
    BY <1>6 DEF PassControl, Complete, WalkType
  <2> QED BY <2>1, <2>4, <2>5, <2>6, <2>7, <2>8 DEF WalkType, Ids
<1>7. CASE Assign
  BY <1>7 DEF Assign, Visits, NodesMarked, WalkType, Ids
<1> QED BY <1>1, <1>2, <1>3, <1>4, <1>5, <1>6, <1>7 DEF Walk, Decide

(* A node that was reached stays so when those that were done remain so.   *)
LEMMA ReachedStays ==
  ASSUME WalkType, graph' = graph, visited \subseteq visited',
         \A p \in visited : Done(p) => Done(p)'
  PROVE  \A n : Reached(n) => Reached(n)'
BY DEF Reached, Successors, Heads

(* The walk goes on at a successor of a node that is done.                 *)
LEMMA ReachedNext ==
  ASSUME graph' = graph, NEW p, p \in visited', Done(p)', current' \in Successors(p)
  PROVE  Reached(current)'
BY DEF Reached, Successors, Heads

LEMMA WalkStep ==
  ASSUME WalkType, WalkInv, [Walk]_walkVars
  PROVE  WalkInv'
<1>0. MaxFan \in Nat /\ MaxSteps \in Nat
  BY FansAreBounded, GraphAssumption DEF WalkType
<1>1. CASE UNCHANGED walkVars
  BY <1>1 DEF WalkInv, walkVars, Reached, Done, Successors, Heads, MaxFan, Ids
<1>2. CASE Ask
  BY <1>2 DEF Ask, WalkInv, Reached, Done, Successors, Heads, MaxFan, Ids
<1>3. CASE Join
  <2>1. graph' = graph /\ MaxFan' = MaxFan /\ steps' = steps /\ turn' \in {"deciding", "over"}
    BY <1>3 DEF Join, Complete, MaxFan, Ids
  <2>2. /\ fork # {} /\ fork' = {} /\ last = None /\ last' = None /\ fork \subseteq visited
        /\ visited' = visited
        /\ mark' = [n \in Ids |-> IF n \in fork THEN "completed" ELSE mark[n]]
    BY <1>3 DEF Join, NodesMarked, WalkInv
  <2>3. \A n : Reached(n) => Reached(n)'
    BY <2>1, <2>2, ReachedStays DEF Done, WalkType
  <2>4. current' # None => Reached(current)'
    <3> SUFFICES ASSUME current' # None PROVE Reached(current)'
      OBVIOUS
    <3>1. \A n \in fork : current' \in Successors(n)
      BY <1>3 DEF Join, JoinNodes
    <3>2. PICK n \in fork : TRUE
      BY <2>2
    <3>3. n \in visited' /\ Done(n)'
      BY <2>2, <3>2 DEF Done, WalkType
    <3> QED BY <2>1, <3>1, <3>3, ReachedNext
  <2> QED BY <1>0, <2>1, <2>2, <2>3, <2>4 DEF WalkInv
<1>4. CASE Advance
  <2>1. graph' = graph /\ MaxFan' = MaxFan /\ steps' = steps /\ turn' \in {"deciding", "over"}
    BY <1>4 DEF Advance, Complete, MaxFan, Ids
  <2>2. /\ current # None /\ current = last /\ last' = None /\ fork' = {} /\ current \in visited
        /\ visited' = visited
        /\ mark' = [n \in Ids |-> IF n \in {current} THEN "completed" ELSE mark[n]]
    BY <1>4 DEF Advance, NodesMarked, WalkInv
  <2>3. \A n : Reached(n) => Reached(n)'
    BY <2>1, <2>2, ReachedStays DEF Done, WalkType
  <2>4. current' # None => Reached(current)'
    <3> SUFFICES ASSUME current' # None PROVE Reached(current)'
      OBVIOUS
    <3>1. PICK here \in Ids : here = current
      BY <2>2 DEF WalkType
    <3>2. current' \in Successors(here)
      BY <1>4, <3>1, NextIsASuccessor DEF Advance, WalkType
    <3>3. here \in visited' /\ Done(here)'
      BY <2>2, <3>1 DEF Done, WalkType
    <3> QED BY <2>1, <3>2, <3>3, ReachedNext
  <2> QED BY <1>0, <2>1, <2>2, <2>3, <2>4 DEF WalkInv
<1>5. CASE StepLimit
  BY <1>5 DEF StepLimit, Complete, WalkInv, Reached, Done, Successors, Heads, MaxFan, Ids
<1>6. CASE PassControl
  <2> DEFINE edges == Followed(visited \cup {current})
             taken == Heads(current, edges)
  <2>1. /\ current \in Ids /\ current # None /\ fork = {} /\ last = None /\ steps < MaxSteps
        /\ graph \in Graphs /\ turn = "deciding"
    BY <1>6, SuccessorsAreNodes DEF PassControl, Visits, Arrived, WalkType, WalkInv
  <2>2. /\ \A t \in taken : t \in Successors(current) /\ t \notin visited \cup {current}
        /\ Cardinality(edges) <= Len(graph.next[current]) /\ Cardinality(edges) \in Nat
    BY <2>1, FollowedAreAhead
  <2>3. Cardinality(edges) <= MaxFan
    BY <1>0, <2>1, <2>2, FansAreBounded
  <2> HIDE DEF taken, edges
  <2>4. /\ graph' = graph /\ visited' = visited \cup {current} \cup taken
        /\ mark' = [n \in Ids |-> IF n \in taken THEN "running"
                                  ELSE IF n = current THEN "completed" ELSE mark[n]]
        /\ steps' = steps + 1 + Cardinality(edges)
    BY <1>6 DEF PassControl, taken, edges
  <2>5. MaxFan' = MaxFan /\ steps' <= MaxSteps + MaxFan /\ steps' > 0
    BY <1>0, <2>1, <2>2, <2>3, <2>4 DEF MaxFan, Ids, WalkType
  <2>6. last' = None
    BY <1>6, <2>1 DEF PassControl
  <2>7. \A n : Reached(n) => Reached(n)'
    BY <2>1, <2>2, <2>4, <2>6, ReachedStays DEF Done, WalkType
  <2>8. PICK here \in Ids : here = current
    BY <2>1
  <2>9. Done(here)' /\ here \in visited' /\ \A t : t \in Successors(here) => Reached(t)'
    <3>1. Done(here)' /\ here \in visited'
      BY <2>1, <2>2, <2>4, <2>8 DEF Done
    <3>2. Successors(here)' = Successors(here)
      BY <2>4 DEF Successors, Heads
    <3> QED BY <3>1, <3>2 DEF Reached
  <2>10. \A n \in visited' \ {graph.start} : Reached(n)'
    BY <2>1, <2>2, <2>4, <2>7, <2>9, <2>8 DEF WalkInv
  <2>11. CASE /\ Cardinality(Agents(taken)) >= 2
              /\ fork' = taken /\ current' = None /\ asked' = Agents(taken)
    <3>1. taken # {}
      BY <2>11, FS_EmptySet DEF Agents
    <3>2. \A n \in taken : mark'[n] = "running" /\ graph'.agent[n] \in asked'
      <4>1. taken \subseteq Ids
        BY <2>1, <2>2, SuccessorsAreNodes
      <4> QED BY <2>4, <2>11, <4>1 DEF Agents
    <3> QED BY <2>4, <2>5, <2>6, <2>10, <2>11, <3>1, <3>2 DEF WalkInv
  <2>12. CASE /\ fork' = {} /\ turn' \in {"deciding", "over"}
              /\ \E next \in NextNodes(current, visited') : current' = next
    <3>1. current' # None => Reached(current)'
      BY <2>1, <2>4, <2>8, <2>9, <2>12, NextIsASuccessor, ReachedNext
    <3> QED BY <2>4, <2>5, <2>6, <2>10, <2>12, <3>1 DEF WalkInv
  <2> QED
    BY <1>6, <2>1, <2>11, <2>12 DEF PassControl, Complete, taken, edges
<1>7. CASE Assign
  <2>1. /\ current \in Ids /\ current # None /\ fork = {} /\ fork' = {} /\ steps < MaxSteps
        /\ last = None /\ last' = current /\ current' = current /\ graph' = graph
        /\ visited' = visited \cup {current} /\ steps' = steps + 1 /\ turn' = "waiting"
        /\ mark' = [n \in Ids |-> IF n \in {current} THEN "running" ELSE mark[n]]
    BY <1>7, SuccessorsAreNodes DEF Assign, Visits, Arrived, NodesMarked, WalkType, WalkInv
  <2>2. MaxFan' = MaxFan /\ steps' <= MaxSteps + MaxFan /\ steps' > 0
    BY <1>0, <2>1 DEF MaxFan, Ids, WalkType
  <2>3. \A n : Reached(n) => Reached(n)'
    BY <2>1, ReachedStays, SuccessorsAreNodes DEF Done, WalkType
  <2>4. mark'[current] = "running"
    BY <2>1
  <2> QED BY <2>1, <2>2, <2>3, <2>4 DEF WalkInv
<1> QED BY <1>1, <1>2, <1>3, <1>4, <1>5, <1>6, <1>7 DEF Walk, Decide

(* Whatever the graph, with forks, joins and cycles: the Kernel's walk     *)
(* visits a node only from one that is done, waits for exactly what it has *)
(* decided and told, and stops at its step limit, up to one fork           *)
(* (scheduler.py:82-176, graph.py:74-123).                                 *)
THEOREM WalksFollowTheirGraph == WalkSpec => []WalkFollowsGraph
<1>1. WalkInit => WalkType /\ WalkInv
  <2> SUFFICES ASSUME WalkInit PROVE WalkType /\ WalkInv
    OBVIOUS
  <2>1. WalkType
    BY SuccessorsAreNodes DEF WalkInit, WalkType
  <2>2. MaxFan \in Nat /\ MaxSteps \in Nat
    BY <2>1, FansAreBounded, GraphAssumption DEF WalkType
  <2> QED BY <2>1, <2>2 DEF WalkInit, WalkInv
<1>2. WalkType /\ WalkInv /\ [Walk]_walkVars => (WalkType /\ WalkInv)'
  BY WalkTypes, WalkStep
<1>3. WalkType /\ WalkInv => WalkFollowsGraph
  <2> SUFFICES ASSUME WalkType, WalkInv PROVE WalkFollowsGraph
    OBVIOUS
  <2>1. \A n : Reached(n) => \E p \in visited : n \in Successors(p) /\ (mark[p] = "completed" \/ p = last)
    BY DEF Reached, Done
  <2>2. \A p \in visited : Done(p) => mark[p] # "pending"
    BY SuccessorsAreNodes DEF Done, WalkInv, WalkType
  <2>3. current \notin {None, graph.start} =>
          \E p \in visited : current \in Successors(p) /\ mark[p] # "pending"
    BY <2>2 DEF WalkInv, Reached, WalkType
  <2> QED BY <2>1, <2>3 DEF WalkInv, WalkFollowsGraph
<1> QED BY <1>1, <1>2, <1>3, PTL DEF WalkSpec
=============================================================================
