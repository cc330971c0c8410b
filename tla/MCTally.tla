------------------------------ MODULE MCTally -------------------------------
(***************************************************************************)
(* Small snapshots for the tally: three accounts, two validators of which  *)
(* one or both are active, every file of up to two votes (of one voter or  *)
(* of two) or of one vote of each voter, and delegations that make the     *)
(* interesting cases happen: a validator's own delegation, one account     *)
(* with two validators, a validator fully or partly covered by direct      *)
(* voters, a slashed validator (tokens below shares), a delegation to a    *)
(* validator that isn't active.  One snapshot is of another chain.         *)
(***************************************************************************)
EXTENDS Tally

CONSTANTS a1, a2, a3, v1, v2, other

MCAddress == {a1, a2, a3}
MCOperator == {v1, v2, other}
MCAccountOf == [v \in MCOperator |-> CASE v = v1 -> a1 [] v = v2 -> a2 [] v = other -> a3]
MCPrefixOf == [v \in MCOperator |-> IF v = other THEN "atone" ELSE "cosmos"]

\* Two plain votes and two weighted ones.
MCBallots ==
  {[o \in {"yes"} |-> One],
   [o \in {"veto"} |-> One],
   [o \in {"yes", "no"} |-> One \div 2],
   [o \in {"no", "abstain"} |-> IF o = "no" THEN One \div 4 ELSE One - (One \div 4)]}

MCVote == [voter : MCAddress, options : MCBallots]
MCVotesFiles ==
  {<<>>} \cup {<<x>> : x \in MCVote} \cup {<<x, y>> : x, y \in MCVote}
  \cup {<<x, y, z>> : x \in {w \in MCVote : w.voter = a1},
                      y \in {w \in MCVote : w.voter = a2},
                      z \in {w \in MCVote : w.voter = a3}}

Delegate(a, v, n) == [delegator |-> a, validator |-> v, shares |-> n]
MCDelegationFiles ==
  {<<Delegate(a1, v1, 300)>>,
   <<Delegate(a1, v1, 100), Delegate(a2, v1, 33), Delegate(a2, v2, 200)>>,
   <<Delegate(a3, v1, 100), Delegate(a2, v2, 101), Delegate(a3, v2, 100),
     Delegate(a1, v1, 167)>>,
   <<Delegate(a1, other, 100), Delegate(a3, other, 50)>>}

MCValidator(df, v, tokens) ==
  [operator |-> v, tokens |-> tokens, shares |-> SharesOf(df, v)]
Active(df) == {v \in MCOperator : SharesOf(df, v) > 0}
MCValidatorFiles ==
  [df \in MCDelegationFiles |->
     {<<MCValidator(df, v, 3)>> : v \in Active(df)}
     \cup {<<MCValidator(df, v1, t), MCValidator(df, v2, 7 - t)>> :
             t \in IF Active(df) = {v1, v2} THEN {2, 5} ELSE {}}]
=============================================================================
