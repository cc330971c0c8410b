------------------------------ MODULE MCGovBox ------------------------------
(***************************************************************************)
(* Small snapshots for the way from the snapshot to the genesis: two       *)
(* accounts that own a validator, one that only holds a balance, an        *)
(* interchain account that delegates, and the distribution module account  *)
(* of the Hub, whose bytes are those of the module account of the new      *)
(* chain.  One snapshot is of AtomOne, which accounts does not parse.      *)
(***************************************************************************)
EXTENDS GovBox

CONSTANTS a1, a2, a3, dist, ica, v1, v2, other, reserved

MCAddressOrder == <<a1, a2, a3, dist, ica>>
MCAddress == {a1, a2, a3, dist, ica}
MCOperator == {v1, v2, other}
MCAccountOf == [v \in MCOperator |-> CASE v = v1 -> a1 [] v = v2 -> a2 [] v = other -> a3]
MCPrefixOf == [v \in MCOperator |-> IF v = other THEN "atone" ELSE "cosmos"]
MCConvert == [a \in MCAddress |-> <<"atone", a>>]
MCDistrModule == MCConvert[dist]
MCReservedAddress == <<"atone", reserved>>

All(o) == [p \in {o} |-> One]
Split == [p \in {"yes", "abstain"} |->
            IF p = "yes" THEN One \div 4 ELSE One - (One \div 4)]

Vote(a, w) == [voter |-> a, options |-> w]
MCVotesFiles ==
  {<<>>,
   <<Vote(a1, All("yes"))>>,
   <<Vote(a2, Split), Vote(a3, All("no"))>>,
   <<Vote(a1, All("veto")), Vote(ica, All("no"))>>,
   <<Vote(a2, All("no")), Vote(a1, Split), Vote(a2, All("yes"))>>}

Delegate(a, v, n) == [delegator |-> a, validator |-> v, shares |-> n]
MCDelegationFiles ==
  {<<Delegate(a1, v1, 3000)>>,
   <<Delegate(a1, v1, 30000), Delegate(a2, v1, 9999), Delegate(a2, v2, 20000)>>,
   <<Delegate(a2, v2, 7000), Delegate(ica, v2, 5000), Delegate(a2, v1, 1111)>>,
   <<Delegate(a3, other, 3000)>>}

MCValidator(df, v, tokens) ==
  [operator |-> v, tokens |-> tokens, shares |-> SharesOf(df, v)]
Active(df) == {v \in MCOperator : SharesOf(df, v) > 0}
MCValidatorFiles ==
  [df \in MCDelegationFiles |->
     {<<MCValidator(df, IF other \in Active(df) THEN other ELSE v1, 30)>>}
     \cup {<<MCValidator(df, v2, t), MCValidator(df, v1, 29)>> :
             t \in IF Active(df) = {v1, v2} THEN {7, 20} ELSE {}}]

\* A balance of n uatom; everyone holds another coin.
Balance(a, n) ==
  [address |-> a,
   coins |-> [d \in IF n = 0 THEN {"other"} ELSE {"uatom", "other"} |->
                IF d = "uatom" THEN n ELSE 2]]
MCBalanceFiles ==
  {<<Balance(a1, 5), Balance(dist, 7)>>,
   <<Balance(a2, 30), Balance(a3, 12), Balance(dist, 90), Balance(ica, 1)>>,
   <<Balance(a1, 4), Balance(a2, 0), Balance(a3, 0)>>}

MCTypeFiles ==
  {[a \in MCAddress |-> CASE a = dist -> "module" [] a = ica -> "interchain"
                          [] a = a3 -> x [] OTHER -> "base"] :
     x \in {"vesting", ""}}

MCOriginal ==
  [balances |-> <<[Address |-> reserved, Coins |-> 50]>>, supply |-> 50,
   accounts |-> <<reserved>>, feePool |-> 0, constitution |-> "original"]

MCParamSets ==
  {[yesVotesMultiplier |-> 1000, noVotesMultiplier |-> 9000, bonus |-> 1030,
    malus |-> 970, supplyFactor |-> 100, supplyMintFactor |-> 111]}
=============================================================================
