--------------------------- MODULE MCRunKernelLive ---------------------------
(* Liveness of one Run in two surroundings: "callers" (the constants of    *)
(* the .cfg) has two actors, a deadline, aborts and a caller that cancels, *)
(* but no sink and no executor that raises; "sink" has a sink, a raising   *)
(* executor and a journal that may refuse any call, but nobody interrupts  *)
(* the main task.                                                          *)
EXTENDS RunKernel

VARIABLE surroundings

Sink == INSTANCE RunKernel WITH
  HasSink <- TRUE, AgentErrors <- TRUE, WatchdogFires <- FALSE,
  Cancels <- FALSE, StoreFaults <- {"clean"}

liveVars == <<vars, surroundings>>

In(which, step) == surroundings = which /\ step /\ UNCHANGED surroundings

LiveInit ==
  \/ surroundings = "callers" /\ Init
  \/ surroundings = "sink" /\ Sink!Init

LiveNext == In("callers", Next) \/ In("sink", Sink!Next)

LiveFairness ==
  /\ WF_liveVars(In("callers", MainStep)) /\ WF_liveVars(In("callers", CompletionStep))
  /\ WF_liveVars(In("callers", WatchdogFire)) /\ WF_liveVars(In("callers", CancelStep))
  /\ \A a \in Agents : WF_liveVars(In("callers", AgentStep(a)))
  /\ WF_liveVars(In("sink", Sink!MainStep)) /\ WF_liveVars(In("sink", Sink!CompletionStep))
  /\ \A a \in Agents : WF_liveVars(In("sink", Sink!AgentStep(a)))

LiveSpec == LiveInit /\ [][LiveNext]_liveVars /\ LiveFairness

(* Whoever cancels is answered, and where the journal answers the row      *)
(* becomes terminal.                                                       *)
CallersDecided == CancelReturns /\ (surroundings = "callers" => JournalDecided)
=============================================================================
