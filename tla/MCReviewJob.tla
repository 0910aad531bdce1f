----------------------------- MODULE MCReviewJob -----------------------------
(* ReviewJob for TLC. *)
EXTENDS ReviewJob
==============================================================================
