------------------------------ MODULE MCTrust ------------------------------
(* The tiers of a showcase agent and of one that is not registered. *)
EXTENDS TrustProperties

CONSTANTS sub, riley, nobody

\* With one decimal at most and eight points to pass: a rating that passes,
\* one that has too many decimals to count, and one below zero.
Good == [value |-> 8, decimals |-> 0]
Malformed == [value |-> 80, decimals |-> 2]
Bad == [value |-> -3, decimals |-> 1]
StrangersRatings == {Malformed, Bad}
=============================================================================
