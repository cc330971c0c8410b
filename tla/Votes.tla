-------------------------------- MODULE Votes -------------------------------
(***************************************************************************)
(* Votes and accounts as the commands of govbox hold them.                 *)
(*                                                                         *)
(* A weighted vote is a function from the options it names to their        *)
(* weights (Decs that sum to One).  NoVote, the function with an empty     *)
(* domain, is Go's nil slice.                                              *)
(***************************************************************************)
EXTENDS Naturals, Sequences, FiniteSets, FiniteSetsExt, Functions, LegacyDec

VoteOption == {"yes", "abstain", "no", "veto"}

\* OptionEmpty stands for what did not vote.
AnyOption == VoteOption \cup {"empty"}

NoVote == [o \in {} |-> 0]

\* A Go map read with a key it may not hold yields the zero value.
Lookup(map, key, zero) == IF key \in DOMAIN map THEN map[key] ELSE zero

\* The k-th smallest of a set of indices.
Nth(indices, k) ==
  CHOOSE i \in indices : Cardinality({j \in indices : j <= i}) = k

\* The elements of a list at some of its indices, in the order of the list:
\* what a loop that appends makes.
Sublist(list, indices) ==
  [k \in 1..Cardinality(indices) |-> list[Nth(indices, k)]]

\* The keys of a map in the order of a list that holds them all:
\* slices.Sorted(maps.Keys(m)).
Sorted(keys, order) == Sublist(order, {i \in DOMAIN order : order[i] \in keys})

\* The weighted votes the Cosmos SDK accepts: each option once, weights that
\* are positive and sum to 1.
IsWeightedVote(w) ==
  /\ DOMAIN w \subseteq VoteOption
  /\ w \in [DOMAIN w -> 1..One]
  /\ Lookup(w, "yes", 0) + Lookup(w, "abstain", 0)
       + Lookup(w, "no", 0) + Lookup(w, "veto", 0) = One

-----------------------------------------------------------------------------
(* An account is a record [Address, LiquidAmount, StakedAmount, Vote,      *)
(* Delegations], a delegation a record [ValidatorAddress, Amount, Vote]    *)
(* with the vote of the validator.  What an account has staked is what its *)
(* delegations are worth.                                                  *)

IsAccount(acc) ==
  /\ acc.LiquidAmount \in Nat
  /\ acc.StakedAmount =
       SumFunction([i \in DOMAIN acc.Delegations |-> acc.Delegations[i].Amount])
  /\ acc.Vote = NoVote \/ IsWeightedVote(acc.Vote)
  /\ acc.Delegations \in Seq(Range(acc.Delegations))
  /\ \A i \in DOMAIN acc.Delegations :
       LET del == acc.Delegations[i]
       IN  del.Amount \in Nat /\ (del.Vote = NoVote \/ IsWeightedVote(del.Vote))

\* What one delegation adds to the weight of option o.
InheritedWeight(del, staked, o) ==
  LET delPerc == Quo(del.Amount, staked)
  IN  IF del.Vote = NoVote
      THEN IF o = "empty" THEN delPerc ELSE 0
      ELSE IF o \in DOMAIN del.Vote THEN Mul(del.Vote[o], delPerc) ELSE 0

\* Mutant: a delegation to a validator that did not vote weighs nothing.
VoteWeights_SilentLost(acc) ==
  [o \in AnyOption |->
     IF acc.StakedAmount = 0 THEN IF o = "empty" THEN One ELSE 0
     ELSE IF acc.Vote = NoVote
     THEN SumFunction([i \in DOMAIN acc.Delegations |->
            IF acc.Delegations[i].Vote = NoVote THEN 0
            ELSE InheritedWeight(acc.Delegations[i], acc.StakedAmount, o)])
     ELSE Lookup(acc.Vote, o, 0)]

\* Mutant: the votes of the validators are added to a direct vote.
VoteWeights_NoOverride(acc) ==
  [o \in AnyOption |->
     IF acc.StakedAmount = 0 THEN IF o = "empty" THEN One ELSE 0
     ELSE Lookup(acc.Vote, o, 0)
          + SumFunction([i \in DOMAIN acc.Delegations |->
              InheritedWeight(acc.Delegations[i], acc.StakedAmount, o)])]

\* How the staked amount of an account is split among the options: by its own
\* vote if it voted, else by the votes of its validators, by amount.
VoteWeights(acc) ==
  [o \in AnyOption |->
     IF acc.StakedAmount = 0 THEN IF o = "empty" THEN One ELSE 0
     ELSE IF acc.Vote = NoVote
     THEN SumFunction([i \in DOMAIN acc.Delegations |->
            InheritedWeight(acc.Delegations[i], acc.StakedAmount, o)])
     ELSE Lookup(acc.Vote, o, 0)]
=============================================================================
