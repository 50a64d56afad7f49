------------------------------ MODULE MCPages ------------------------------
(* A tab with one of the owner's pages. *)
EXTENDS OwnerPages

CONSTANTS scout, tight, loose

\* Two clicks, an event elsewhere, a fault.
SmallBudget == [clicks |-> 2, elsewhere |-> 1, faults |-> 1]
=============================================================================
