------------------------------ MODULE JobPromise ------------------------------
(***************************************************************************)
(* What a ReviewJob promises the object that started it: one cloud review, *)
(* run once, whose receipt is in R2 when the job says it is done and does  *)
(* not change afterwards - unless the job was cancelled, when its record   *)
(* and its run may both still write.                                       *)
(***************************************************************************)
CONSTANT Receipts  \* what a receipt comes to, besides "none"

VARIABLES st, receipt, cancelled

vars == <<st, receipt, cancelled>>

States == {"none", "scheduled", "parked", "running", "done"}

Init == st = "none" /\ receipt = "none" /\ cancelled = FALSE

\* Starting a job that has begun changes nothing.
Start == st \in {"none", "parked"} /\ st' = "scheduled" /\ UNCHANGED <<receipt, cancelled>>

Begin == st = "scheduled" /\ st' = "running" /\ UNCHANGED <<receipt, cancelled>>

Record == /\ st = "running" /\ receipt = "none"
          /\ receipt' \in Receipts
          /\ UNCHANGED <<st, cancelled>>

End == st = "running" /\ receipt # "none" /\ st' = "done" /\ UNCHANGED <<receipt, cancelled>>

\* A cancel takes the job off its schedule, and once its sandbox is gone the job
\* is done.
Cancel == /\ st \notin {"none", "done"}
          /\ cancelled' = TRUE
          /\ st' \in {st, "done"} \union (IF st = "scheduled" THEN {"parked"} ELSE {})
          /\ UNCHANGED receipt

Overwrite == /\ cancelled /\ st = "done"
             /\ receipt' \in Receipts
             /\ UNCHANGED <<st, cancelled>>

Next == Start \/ Begin \/ Record \/ End \/ Cancel \/ Overwrite

Spec == Init /\ [][Next]_vars
===============================================================================
