--------------------------- MODULE MCDistribution ---------------------------
(***************************************************************************)
(* Small account files for the distribution: up to two ordinary accounts,  *)
(* one address that does not convert to the new prefix, and one ICF        *)
(* wallet, with amounts from a fraction of an $ATOM to tens of them, each  *)
(* way of voting, direct, inherited, split and silent.                     *)
(***************************************************************************)
EXTENDS Distribution

CONSTANTS a1, a2, alien, icf

MCIcfWallets == {icf}
MCConvert == [a \in {a1, a2, icf} |-> <<"atone", a>>]

All(o) == [p \in {o} |-> One]
Split == [p \in {"yes", "abstain"} |->
            IF p = "yes" THEN One \div 4 ELSE One - (One \div 4)]

Holder(a, liquid) ==
  [Address |-> a, LiquidAmount |-> liquid, StakedAmount |-> 0, Vote |-> NoVote,
   Delegations |-> <<>>]
Voter(a, liquid, staked, vote) ==
  [Address |-> a, LiquidAmount |-> liquid, StakedAmount |-> staked, Vote |-> vote,
   Delegations |-> <<[ValidatorAddress |-> "v1", Amount |-> staked, Vote |-> NoVote]>>]
\* A delegator of two validators that did not vote itself.
Heir(a, liquid, x, voteX, y, voteY) ==
  [Address |-> a, LiquidAmount |-> liquid, StakedAmount |-> x + y, Vote |-> NoVote,
   Delegations |-> <<[ValidatorAddress |-> "v1", Amount |-> x, Vote |-> voteX],
                     [ValidatorAddress |-> "v2", Amount |-> y, Vote |-> voteY]>>]

Accounts1 ==
  {Voter(a1, 0, 20000, All(o)) : o \in VoteOption}
  \cup {Holder(a1, 10000), Holder(a1, 400), Voter(a1, 5000, 12345, Split)}
Accounts2 ==
  {Voter(a2, 3000, 7000, All(o)) : o \in {"yes", "veto"}}
  \cup {Heir(a2, 0, 1000, All(o), 2000, NoVote) : o \in {"no", "abstain"}}
  \cup {Heir(a2, 700, 11111, Split, 8889, All("veto"))}
AlienAccounts == {Holder(alien, 100), Voter(alien, 0, 900, All("no"))}

\* ICF wallets that hold and delegate, to a validator that did not vote.
SilentIcf == {Holder(icf, 5000), Voter(icf, 100, 15000, NoVote)}
\* An ICF wallet whose validators voted.
VotingIcf == {Heir(icf, 0, 20000, All("no"), 10000, All("yes"))}

\* Files of up to one account of each kind, in the order of the addresses.
Files(sets) ==
  {SelectSeq(s, LAMBDA acc : acc # <<>>) :
     s \in {<<w, x, y, z>> : w \in sets[1] \cup {<<>>}, x \in sets[2] \cup {<<>>},
                             y \in sets[3] \cup {<<>>}, z \in sets[4] \cup {<<>>}}}
\* Next to nothing that did not vote: the divisor is a rounding.
Dust == {<<Voter(a1, 0, 500, All(o)), Holder(a2, n)>> : o \in {"yes", "no"}, n \in 1..5}
MCLists == Files(<<Accounts1, Accounts2, AlienAccounts, SilentIcf>>) \cup Dust
MCVotingIcfLists ==
  {list \in Files(<<Accounts1, Accounts2, {}, VotingIcf>>) : Len(list) = 3}

\* The default parameters, and others the command line may ask for.
MCParams(yes, no) ==
  [yesVotesMultiplier |-> yes, noVotesMultiplier |-> no, bonus |-> 1030,
   malus |-> 970, supplyFactor |-> 100, supplyMintFactor |-> 111]
MCParamSets == {MCParams(1000, 9000), MCParams(2500, 4000), MCParams(0, 1000)}
=============================================================================
