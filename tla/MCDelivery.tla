----------------------------- MODULE MCDelivery -----------------------------
(* The way of a Run's events to the reader: the projection in four         *)
(* circumstances and, beside it, the list of sockets a projector publishes *)
(* to.  "browser" (the constants of the .cfg) has dropped connections and  *)
(* a failing replay in pages of one event; "records" has crashes and       *)
(* failing transactions; "converges" and "catches_up" are fair; "fanout"   *)
(* is WebSocketFanout.                                                     *)
EXTENDS EventProjection, WebSocketFanout

VARIABLE part

Records3 == INSTANCE EventProjection WITH
  PageSize <- 3, Crashes <- 2, Drops <- 1, TxFails <- 2, PageFails <- 0, Writes <- 0
Converges3 == INSTANCE EventProjection WITH
  PageSize <- 3, Crashes <- 2, Drops <- 0, PageFails <- 0, Writes <- 0
CatchesUp3 == INSTANCE EventProjection WITH
  PageSize <- 3, Crashes <- 0, Drops <- 2, Writes <- 0

allVars == <<vars, list, part>>

Projects(which, step) ==
  part = which /\ step /\ UNCHANGED <<list, part>>
FansOut(step) == part = "fanout" /\ step /\ UNCHANGED <<vars, part>>

DeliveryInit ==
  /\ part \in {"browser", "records", "converges", "catches_up", "fanout"}
  /\ Init /\ FanoutInit

DeliveryNext ==
  \/ Projects("browser", Next)
  \/ Projects("records", Records3!Next)
  \/ Projects("converges", Converges3!Next)
  \/ Projects("catches_up", CatchesUp3!Next)
  \/ FansOut(FanoutNext)

DeliverySpec ==
  /\ DeliveryInit /\ [][DeliveryNext]_allVars
  /\ \A which \in {"converges", "catches_up"} :
       /\ WF_allVars(Projects(which, RunAppends)) /\ WF_allVars(Projects(which, Projector))
       /\ WF_allVars(Projects(which, Recovery)) /\ WF_allVars(Projects(which, Starting))
       /\ WF_allVars(Projects(which, Accept)) /\ WF_allVars(Projects(which, Register))
       /\ WF_allVars(Projects(which, ClientOpens)) /\ WF_allVars(Projects(which, Deliver))
  /\ WF_allVars(Projects("converges", Converges3!Replaying))
  /\ WF_allVars(Projects("catches_up", CatchesUp3!Replaying))
  /\ \A s \in Sockets : WF_allVars(FansOut(Unregister(s)))
  /\ \A t \in Emitters : WF_allVars(FansOut(Sent(t)))

(* ProjectionConverges: every event reaches the record, and the            *)
(* conversation leaves its running state, whatever process ends the Run.   *)
FairProjectionConverges == (part = "converges") => ProjectionConverges

(* CaughtUp: a browser whose last connection started a replay that found a *)
(* cursor and did not fail shows the whole Run.                            *)
FairCaughtUp == (part = "catches_up") => CaughtUp
=============================================================================
