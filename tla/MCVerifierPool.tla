---------------------------- MODULE MCVerifierPool ----------------------------
(* VerifierPool for TLC: two lanes a wave, three files, one receipt that is stale. *)
EXTENDS VerifierPool
===============================================================================
