------------------------------ MODULE MCStream ------------------------------
(* The activity stream on a small feed. *)
EXTENDS StreamProperties
=============================================================================
