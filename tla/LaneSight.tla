------------------------------- MODULE LaneSight -------------------------------
(* What a driver outside a lane's container can tell of its review. *)

CONSTANT Candidates   \* the results the agent may hand in, on contract or not
ASSUME CandidateAssumption == {"none", "busy"} \intersect Candidates = {}

Endings == {"failed", "blocked", "cancelled"}
Results == Candidates \union {"none"}

\* cand is what an accept would take: "busy" when it would refuse.
View(state, reason, cand) == [state |-> state, reason |-> reason, cand |-> cand]
Ends == {[state |-> "failed", reason |-> "other"], [state |-> "cancelled", reason |-> "other"],
         [state |-> "blocked", reason |-> "other"], [state |-> "blocked", reason |-> "auth_blocked"]}
Views ==
  {View("running", "none", "busy"), View("done", "other", "busy"),
   View("cancelled", "other", "busy"), View("idle", "none", "busy")}
  \union {View("idle", "none", c) : c \in Results}
  \union {View(e.state, e.reason, c) :
            e \in {x \in Ends : x.state # "cancelled"}, c \in Candidates \union {"busy"}}
===============================================================================
