-------------------------- MODULE MCPolicyVerdicts --------------------------
EXTENDS PolicyVerdicts

CONSTANTS shop, router

Accounts == {shop, router}

SomePolicies ==
  [dailyCapUsd : 1..2, perTxCapUsd : 1..2, cosignAboveUsd : {0, 1},
   epochStart : {1}, spentThisEpoch : {0, 1, 3}, minCounterpartyTier : {0, 2},
   allowSwaps : BOOLEAN, allowUnknownContracts : BOOLEAN, frozen : BOOLEAN]

SomeCalls ==
  [target : {shop}, hasData : BOOLEAN, value : {1}]
=============================================================================
