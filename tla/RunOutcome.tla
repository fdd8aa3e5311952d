----------------------------- MODULE RunOutcome -----------------------------
(***************************************************************************)
(* What a kernel promises about how its Run ends: the journal's row gets   *)
(* one verdict and the callers get one answer, neither is ever taken back, *)
(* and an answer other than "failed" is the row's verdict.  If the journal *)
(* answers, so is every answer: callers who were told of a failure first   *)
(* find it in the row when there is one.  RunKernel implements this with   *)
(* its tasks, locks and a journal.                                         *)
(***************************************************************************)

CONSTANT Answers     \* the journal answers: no call is lost

VARIABLES row,       \* the Run's row: "open", or its verdict
          told       \* what the callers are told: "none", or a verdict

vars == <<row, told>>

Verdicts == {"completed", "failed", "cancelled"}

Init == row = "open" /\ told = "none"

Decide(how) ==
  /\ row = "open" /\ (Answers => told \in {"none", how})
  /\ row' = how
  /\ UNCHANGED told

Announce ==
  /\ row # "open" /\ told = "none"
  /\ told' = row
  /\ UNCHANGED row

(* Nobody knows of a verdict: the callers are told that the Run failed.    *)
Fail ==
  /\ told = "none" /\ (Answers => row = "open")
  /\ told' = "failed"
  /\ UNCHANGED row

(* The row is decided and the answer is lost.                              *)
Lose(how) ==
  /\ ~Answers /\ row = "open" /\ told = "none"
  /\ row' = how /\ told' = "failed"

Next == Announce \/ Fail \/ \E how \in Verdicts : Decide(how) \/ Lose(how)

Spec == Init /\ [][Next]_vars
=============================================================================
