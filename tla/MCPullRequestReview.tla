------------------------- MODULE MCPullRequestReview -------------------------
(* PullRequestReview for TLC: one or two requests, few pushes, few faults. *)
EXTENDS PullRequestReview, TLC

CONSTANTS d1, d2, o1, o2

OneHead == [o \in {o1, o2} |-> "head"]
NoHeads == [o \in {} |-> "head"]
AnyTwo  == Cardinality(delivered) <= 2
Requests == Permutations({d1, d2})
==============================================================================
