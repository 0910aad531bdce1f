-------------------------- MODULE MCCredentialVault --------------------------
(* CredentialVault for TLC: two concurrent attempts and two sign-ins. *)
EXTENDS CredentialVault

CONSTANTS c1, c2
==============================================================================
