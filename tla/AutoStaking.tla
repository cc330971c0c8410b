---------------------------- MODULE AutoStaking -----------------------------
(***************************************************************************)
(* autostaking.go: half of every large enough balance of a genesis is      *)
(* staked, in parts, on a fixed number of validators that start empty.     *)
(*                                                                         *)
(* Algorithm "basic", the one the command runs, puts each part on the      *)
(* validator that has the least stake.  Algorithm "terra", kept beside it  *)
(* and not called, goes round the validators.  The balances are sorted     *)
(* first with a comparison of their coins that is a strict weak order only *)
(* when they all hold the same denominations.                              *)
(***************************************************************************)
EXTENDS Integers, Sequences, FiniteSets, Functions

CONSTANTS
  BalanceLists,   \* the balances a genesis may hold, [tokens, other]: amounts of
                  \* ugovgen and of another denomination
  Algorithms,     \* those that may be called: "basic" is, "terra" might be
  ValidatorLen,   \* 30
  MinTokens,      \* 25_000_000, not staked
  PowerReduction, \* 1_000_000, the least amount staked
  SmallStake,     \* 500_000_000, under which a stake makes SmallParts
  LargeStake,     \* 10_000_000_000, from which a stake makes LargeParts
  SmallParts, MediumParts, LargeParts,  \* 5, 10, 20
  SplitCondition  \* 1_000_000_000_000, the largest part of algorithm "terra"

ASSUME ValidatorsAssumption == ValidatorLen \in Nat \ {0}

ASSUME PartsAssumption ==
  /\ {SmallParts, MediumParts, LargeParts} \subseteq Nat \ {0}
  /\ SmallParts <= MediumParts /\ MediumParts <= LargeParts
  /\ LargeParts <= PowerReduction

\* The smallest stake of each size makes parts of PowerReduction or more.
ASSUME AmountsAssumption ==
  /\ {MinTokens, PowerReduction, SmallStake, LargeStake, SplitCondition}
       \subseteq Nat \ {0}
  /\ SmallStake <= LargeStake
  /\ MinTokens + 1 >= 2 * SmallParts * PowerReduction
  /\ SmallStake >= MediumParts * PowerReduction
  /\ LargeStake >= LargeParts * PowerReduction

\* What remains of a stake shared out to all the validators is not staked.
ASSUME RoundAssumption == ValidatorLen <= PowerReduction

ASSUME BalancesAssumption ==
  \A list \in BalanceLists : list \in Seq([tokens : Nat, other : Nat])

ASSUME AlgorithmsAssumption == Algorithms \subseteq {"basic", "terra"}

Validators == 1..ValidatorLen

VARIABLES
  algorithm,    \* the algorithm that is called
  bals,         \* the balances
  pc,           \* where the computation stands
  balIdx,       \* the current balance
  stake,        \* what remains to stake of it
  splitStake,   \* the size of its parts
  validators,   \* the stake of each validator
  valIdx,       \* the next validator of algorithm "terra", counted up
  stakeds, totalStake, supply, numStakes,   \* the totals that are reported
  stakes,       \* how many parts each balance made
  largestPart,  \* auxiliary: the largest part staked so far
  hosts         \* auxiliary: the validators of the current balance

totals == <<totalStake, supply, numStakes>>
history == <<largestPart, hosts>>
vars == <<algorithm, bals, pc, balIdx, stake, splitStake, validators, valIdx,
          stakeds, totals, stakes, history>>

-----------------------------------------------------------------------------
\* Coins.IsAllGT: b has none of a denomination a lacks, and less of each it has.
IsAllGT(a, b) ==
  /\ a.tokens > 0 \/ a.other > 0
  /\ b.tokens > 0 => a.tokens > b.tokens
  /\ b.other > 0 => a.other > b.other

\* The comparison orders the balances when incomparable ones are interchangeable.
IsOrder(list) ==
  \A i, j, k \in DOMAIN list :
    LET Tie(x, y) == ~IsAllGT(list[x], list[y]) /\ ~IsAllGT(list[y], list[x])
    IN  Tie(i, j) /\ Tie(j, k) => Tie(i, k)

\* What sort.Slice may leave: the balances in descending order, equal ones
\* anyhow; or any order at all when the comparison isn't one.
SortOutcomes(list) ==
  LET permuted == {[i \in DOMAIN list |-> list[p[i]]] :
                     p \in Bijection(DOMAIN list, DOMAIN list)}
  IN  {s \in permuted :
         IsOrder(list) => \A i, j \in DOMAIN s : i < j => ~IsAllGT(s[j], s[i])}

\* The size of the parts of a stake.
PartsOf(amount) ==
  IF amount < SmallStake THEN SmallParts
  ELSE IF amount < LargeStake THEN MediumParts
  ELSE LargeParts
\* Mutant: the threshold of the small stakes is in the small stakes.
BasicSplit_Threshold(amount) ==
  amount \div (IF amount <= SmallStake THEN SmallParts ELSE PartsOf(amount))
BasicSplit(amount) == amount \div PartsOf(amount)

\* Mutant: nothing is adjusted for the whale accounts.
TerraSplit_NoWhale(amount) == SplitCondition
TerraSplit(amount) ==
  IF amount > SplitCondition * ValidatorLen
  THEN amount \div ValidatorLen
  ELSE SplitCondition

\* Mutant: every balance starts again from the first validator.
IsLeastStaked_RoundRobin(v) == v = (stakes[balIdx] % ValidatorLen) + 1

\* The first of the validators that have the least stake.
IsLeastStaked(v) ==
  /\ \A w \in Validators : validators[v] <= validators[w]
  /\ \A w \in Validators : w < v => validators[v] < validators[w]

MinInt(a, b) == IF a <= b THEN a ELSE b

-----------------------------------------------------------------------------
Init ==
  /\ algorithm \in Algorithms
  /\ bals \in BalanceLists
  /\ pc = "sort"
  /\ balIdx = 1
  /\ stake = 0
  /\ splitStake = 0
  /\ validators = [v \in Validators |-> 0]
  /\ valIdx = 0
  /\ stakeds = 0
  /\ totalStake = 0
  /\ supply = 0
  /\ numStakes = 0
  /\ stakes = [b \in DOMAIN bals |-> 0]
  /\ largestPart = 0
  /\ hosts = {}

\* The balances are sorted, then the first four are printed: fewer than four
\* balances are an index out of range.
Sort ==
  /\ pc = "sort"
  /\ bals' \in SortOutcomes(bals)
  /\ pc' = IF Len(bals) < 4 THEN "panic" ELSE "balance"
  /\ UNCHANGED <<algorithm, balIdx, stake, splitStake, validators, valIdx,
                 stakeds, totals, stakes, history>>

\* Mutant: the next balance is lost with the one that is skipped.
SkipBalance_Two ==
  /\ pc = "balance"
  /\ balIdx <= Len(bals)
  /\ bals[balIdx].tokens <= MinTokens
  /\ supply' = supply + bals[balIdx].tokens
  /\ balIdx' = balIdx + 2
  /\ UNCHANGED <<algorithm, bals, pc, stake, splitStake, validators, valIdx,
                 stakeds, totalStake, numStakes, stakes, history>>

\* Not staked when tokens <= minTokens, but part of the supply.
SkipBalance ==
  /\ pc = "balance"
  /\ balIdx <= Len(bals)
  /\ bals[balIdx].tokens <= MinTokens
  /\ supply' = supply + bals[balIdx].tokens
  /\ balIdx' = balIdx + 1
  /\ UNCHANGED <<algorithm, bals, pc, stake, splitStake, validators, valIdx,
                 stakeds, totalStake, numStakes, stakes, history>>

\* Half of the tokens are to be staked, in parts whose size is fixed first.
StartBalance ==
  /\ pc = "balance"
  /\ balIdx <= Len(bals)
  /\ bals[balIdx].tokens > MinTokens
  /\ supply' = supply + bals[balIdx].tokens
  /\ numStakes' = numStakes + 1
  /\ stake' = bals[balIdx].tokens \div 2
  /\ totalStake' = totalStake + stake'
  /\ splitStake' = IF algorithm = "basic" THEN BasicSplit(stake')
                                          ELSE TerraSplit(stake')
  /\ pc' = "place"
  /\ hosts' = {}
  /\ UNCHANGED <<algorithm, bals, balIdx, validators, valIdx, stakeds, stakes,
                 largestPart>>

\* A part goes to validator v.
Place(v) ==
  LET staked == MinInt(stake, splitStake)
  IN  /\ stakeds' = stakeds + staked
      /\ validators' = [validators EXCEPT ![v] = @ + staked]
      /\ stakes' = [stakes EXCEPT ![balIdx] = @ + 1]
      /\ stake' = stake - splitStake
      /\ largestPart' = IF staked > largestPart THEN staked ELSE largestPart
      /\ hosts' = hosts \cup {v}
      /\ UNCHANGED <<algorithm, bals, pc, balIdx, splitStake, totals>>

PlaceBasic(v) ==
  /\ algorithm = "basic"
  /\ pc = "place"
  /\ stake >= PowerReduction
  /\ IsLeastStaked(v)
  /\ Place(v)
  /\ UNCHANGED valIdx

PlaceTerra ==
  /\ algorithm = "terra"
  /\ pc = "place"
  /\ stake >= PowerReduction
  /\ Place((valIdx % ValidatorLen) + 1)
  /\ valIdx' = valIdx + 1

\* Mutant: the loop ends one part early.
EndBalance_LastPart ==
  /\ pc = "place"
  /\ stake <= splitStake
  /\ pc' = "balance"
  /\ balIdx' = balIdx + 1
  /\ UNCHANGED <<algorithm, bals, stake, splitStake, validators, valIdx,
                 stakeds, totals, stakes, history>>

\* What is left is too little: it is not staked.
EndBalance ==
  /\ pc = "place"
  /\ stake < PowerReduction
  /\ pc' = "balance"
  /\ balIdx' = balIdx + 1
  /\ UNCHANGED <<algorithm, bals, stake, splitStake, validators, valIdx,
                 stakeds, totals, stakes, history>>

\* The totals are printed; the staking ratio divides by the supply.
Report ==
  /\ pc = "balance"
  /\ balIdx > Len(bals)
  /\ pc' = IF supply = 0 THEN "panic" ELSE "done"
  /\ UNCHANGED <<algorithm, bals, balIdx, stake, splitStake, validators,
                 valIdx, stakeds, totals, stakes, history>>

\* The command has ended: nothing happens any more.
Ended == pc \in {"done", "panic"} /\ UNCHANGED vars

Next ==
  \/ Sort
  \/ SkipBalance
  \/ StartBalance
  \/ \E v \in Validators : PlaceBasic(v)
  \/ PlaceTerra
  \/ EndBalance
  \/ Report
  \/ Ended

Spec == Init /\ [][Next]_vars

-----------------------------------------------------------------------------
(* Properties                                                              *)

TypeOK ==
  /\ algorithm \in Algorithms
  /\ bals \in Seq([tokens : Nat, other : Nat])
  /\ pc \in {"sort", "balance", "place", "done", "panic"}
  /\ balIdx \in 1..(Len(bals) + 1)
  /\ pc = "place" => balIdx <= Len(bals)
  /\ stake \in Int
  /\ splitStake \in Nat
  /\ validators \in [Validators -> Nat]
  /\ valIdx \in Nat
  /\ stakeds \in Nat
  /\ totalStake \in Nat
  /\ supply \in Nat
  /\ numStakes \in Nat
  /\ stakes \in [DOMAIN bals -> Nat]
  /\ largestPart \in Nat
  /\ hosts \subseteq Validators

\* README: "balanced auto staking genesis".  With algorithm "basic" no validator
\* is ever ahead of another by more than one part, the largest that was staked.
Balanced ==
  algorithm = "basic" =>
    \A v, w \in Validators : validators[v] - validators[w] <= largestPart

\* With algorithm "basic", half of every large enough balance is staked, to the
\* last part: what is not is less than one token for each part.
Unstaked == totalStake - stakeds - (IF pc = "place" THEN stake ELSE 0)
DustOnly ==
  algorithm = "basic" => Unstaked \in 0..(numStakes * (LargeParts - 1))

\* With algorithm "basic", a balance makes as many parts as the size of its stake
\* says, whatever remains of the division: never one more, and not one less.
PartsPlaced ==
  algorithm = "basic" /\ pc # "sort" =>
    \A b \in DOMAIN bals :
      LET parts == IF bals[b].tokens <= MinTokens THEN 0
                   ELSE PartsOf(bals[b].tokens \div 2)
      IN  IF b < balIdx THEN stakes[b] = parts ELSE stakes[b] <= parts

\* The comment of both algorithms, "to prevent staking multiple times over the
\* same validator": the parts of a balance go to different validators.  It is
\* what algorithm "terra" does, and what "basic" doesn't.
PartsApart == pc = "place" => Cardinality(hosts) = stakes[balIdx]
TerraNoRepeat == algorithm = "terra" => PartsApart
BasicNoRepeat == algorithm = "basic" => PartsApart
=============================================================================
