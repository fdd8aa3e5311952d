--------------------------- MODULE MCSQLiteMemory ---------------------------
(* SQLiteMemory on two days, which only bound what happens: on "review"    *)
(* two Runs propose, and one user at a time saves, adopts and forgets;     *)
(* on "recall" a Run retrieves records, and two users change, stop and     *)
(* forget them meanwhile.                                                  *)
EXTENDS SQLiteMemory, TLC

VARIABLE day

MCScopeOf == [r \in Runs |-> "task"]

Busy == {u \in Users : copy[u] # Nothing \/ review[u] # Nothing}
Begun == {r \in Runs : run[r] # "none"}

ReviewBound == /\ selected' = selected
               /\ Cardinality(Busy') <= 1
               /\ \A m \in Memories : revision'[m] <= 2
RecallBound == candidate' = candidate /\ Cardinality(Begun') <= 1

DaysInit == Init /\ day \in {"review", "recall"}
DaysNext == /\ Next
            /\ UNCHANGED day
            /\ day = "review" => ReviewBound
            /\ day = "recall" => RecallBound
DaysSpec == DaysInit /\ [][DaysNext]_<<vars, day>>

Alike == Permutations(Runs) \cup Permutations(Users) \cup Permutations(Contents)
=============================================================================
