------------------------------ MODULE MCPrices ------------------------------
(* Two requests; the feed has two decimals more than a price. *)
EXTENDS Prices, TLC

CONSTANTS c1, c2

SomeAnswers == {0, 250}
Requests == Permutations(Calls)
=============================================================================
