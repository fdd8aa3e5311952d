------------------------- MODULE MCConversationRuns -------------------------
(* Small instances of ConversationRuns: up to four requests; the third or  *)
(* the fourth may repeat the message of the first.                         *)
EXTENDS ConversationRuns, TLC

CONSTANTS g1, g2, g3

MCRuns == {g1, g2, g3}
MCRetry == ("s1" :> "m1") @@ ("s2" :> "m2") @@ ("s3" :> "m1")
MCDistinct == ("s1" :> "m1") @@ ("s2" :> "m2") @@ ("s3" :> "m3")
MCFour == MCDistinct @@ ("s4" :> "m1")
=============================================================================
