------------------------- MODULE MCConversationTurns -------------------------
(* The turns of a conversation on two days: "retry" (the constants of the  *)
(* .cfg) has four requests, one of which repeats a message, and a client   *)
(* that reconnects; "crash" has three requests, the last of which repeats  *)
(* the message of the first on the HTTP route, a client that reconnects    *)
(* and a backend that restarts.                                            *)
EXTENDS MCConversationRuns

VARIABLE day

Restarted == INSTANCE ConversationRuns WITH
  Senders <- {"s1", "s2", "s3"}, Direct <- {"s3"}, MessageOf <- MCRetry,
  Collaborative <- FALSE, Cancels <- FALSE, Connects <- TRUE, Closes <- FALSE,
  Crashes <- TRUE, Faults <- FALSE

On(which, step) == day = which /\ step /\ UNCHANGED day

TurnsInit == (day = "retry" /\ Init) \/ (day = "crash" /\ Restarted!Init)
TurnsNext == On("retry", Next) \/ On("crash", Restarted!Next)
TurnsSpec == TurnsInit /\ [][TurnsNext]_<<vars, day>>
=============================================================================
