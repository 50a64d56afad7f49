----------------------------- MODULE MCSessions -----------------------------
(* One browser that signs in with two accounts. *)
EXTENDS SessionProperties

CONSTANTS alice, bob
=============================================================================
