---------------------------- MODULE MCHybridEngine ----------------------------
(* HybridEngine for TLC: two reviewers, and a third family that only verifies. *)
EXTENDS HybridEngine

CONSTANTS r1, r2, k1, k2

TwoFamilies == [r \in {r1, r2} |-> IF r = r1 THEN "workers-ai" ELSE "openai-codex"]
\* One reviewer may go on past its cap and every retry.
Turns == [l \in {r1, r2, k1, k2} |-> CASE l = r1 -> 4 [] l = r2 -> 2 [] OTHER -> 1]
VerifierOrder == <<"openai-codex", "claude-code">>
===============================================================================
