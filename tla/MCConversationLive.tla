------------------------- MODULE MCConversationLive -------------------------
(* Liveness of a conversation on two days: "busy" (the constants of the    *)
(* .cfg) has two requests, a caller that cancels and the deletion of the   *)
(* conversation; "bad" has a third request on the HTTP route, a            *)
(* collaborative strategy, one crash and journals and database calls that  *)
(* fail.                                                                   *)
EXTENDS ConversationRuns, TLC

CONSTANTS g1, g2, g3

VARIABLE day

MCRuns == {g1, g2, g3}
MCDistinct == ("s1" :> "m1") @@ ("s2" :> "m2") @@ ("s3" :> "m3")

Bad == INSTANCE ConversationRuns WITH
  Senders <- {"s1", "s2", "s3"}, Direct <- {"s3"}, Collaborative <- TRUE,
  Cancels <- FALSE, Closes <- FALSE, Crashes <- TRUE, Faults <- TRUE

liveVars == <<vars, day>>

On(which, step) == day = which /\ step /\ UNCHANGED day

LiveInit == (day = "busy" /\ Init) \/ (day = "bad" /\ Bad!Init)

LiveNext == On("busy", Next) \/ On("bad", Bad!Next)

LiveFairness ==
  /\ \A p \in Senders :
       WF_liveVars(On("busy", SendStep(p))) /\ WF_liveVars(On("busy", StartStep(p)))
  /\ \A p \in {"s1", "s2", "s3"} :
       WF_liveVars(On("bad", Bad!SendStep(p))) /\ WF_liveVars(On("bad", Bad!StartStep(p)))
  /\ \A g \in Runs :
       /\ WF_liveVars(On("busy", RunStep(g))) /\ WF_liveVars(On("busy", StartStep(g)))
       /\ WF_liveVars(On("bad", Bad!RunStep(g))) /\ WF_liveVars(On("bad", Bad!StartStep(g)))
  /\ WF_liveVars(On("busy", CancelProceeds("cancel"))) /\ WF_liveVars(On("busy", CloseStep))

LiveSpec == LiveInit /\ [][LiveNext]_liveVars /\ LiveFairness

(* Nobody waits for good: every request is answered, and on the bad day,   *)
(* where nobody cancels, the conversation does not stay busy, whatever     *)
(* fails or crashes.                                                       *)
NobodyWaits == SendAnswered /\ (day = "bad" => BecomesIdle)
=============================================================================
