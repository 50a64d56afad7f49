------------------------------ MODULE MCWallet ------------------------------
(***************************************************************************)
(* Small wallets for TLC.                                                  *)
(***************************************************************************)
EXTENDS WalletProperties

CONSTANTS alice, bob, scout, riley, shop, zero

AllAddresses == {alice, bob, scout, riley, shop, zero}

\* A policy as an owner's client sends it.  The fields the contract
\* overwrites hold values it must not keep.
Terms(daily, perTx, cosign) ==
  [dailyCapUsd |-> daily, perTxCapUsd |-> perTx, cosignAboveUsd |-> cosign,
   epochStart |-> 0, spentThisEpoch |-> 1, minCounterpartyTier |-> 1,
   allowSwaps |-> TRUE, allowUnknownContracts |-> FALSE, frozen |-> TRUE]

\* Generous enough for two payments an epoch, or one, with and without
\* the owner's signature.
Transfer(to) == [target |-> to, hasData |-> FALSE, value |-> 1]
Swap(with) == [target |-> with, hasData |-> TRUE, value |-> 1]
PayShop == {Transfer(shop)}
\* A call with data, to a router or not, and one to an agent.
SwapOrPayScout == {Swap(shop), Transfer(scout)}

TwoPolicies == {Terms(2, 2, 1), Terms(1, 1, 1)}
OnePolicy == {Terms(2, 2, 1)}
=============================================================================
