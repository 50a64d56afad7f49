----------------------------- MODULE MCDirector -----------------------------
(* Two requests over a runtime with one firing of the timer. *)
EXTENDS DemoDirector

CONSTANTS timer, beat, first, second
=============================================================================
