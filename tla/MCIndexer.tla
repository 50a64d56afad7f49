----------------------------- MODULE MCIndexer -----------------------------
(***************************************************************************)
(* Small chains for TLC.                                                   *)
(***************************************************************************)
EXTENDS IndexerProperties

CONSTANTS dev, made, low, high, pay
=============================================================================
