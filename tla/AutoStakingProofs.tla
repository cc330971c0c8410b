-------------------------- MODULE AutoStakingProofs -------------------------
(***************************************************************************)
(* The properties of AutoStaking for any number of validators, any         *)
(* balances and any thresholds that satisfy the assumptions.               *)
(*                                                                         *)
(* The invariant says of the balance being staked what its loop leaves:    *)
(* so many parts of one size, and the remainder of the division.  As parts *)
(* are at least PowerReduction and remainders are under it, the loop ends  *)
(* exactly when no part is left.                                           *)
(***************************************************************************)
EXTENDS AutoStaking, FiniteSetTheorems, TLAPS

Balance == [tokens : Nat, other : Nat]

\* The stake of a balance, and how many parts it makes.
Half(b) == bals[b].tokens \div 2
Parts(b) == IF bals[b].tokens <= MinTokens THEN 0 ELSE PartsOf(Half(b))

\* The balances before the current one have made their parts, the ones after it
\* have made none.
StakesInv ==
  \A b \in DOMAIN bals :
    /\ b < balIdx => stakes[b] = Parts(b)
    /\ b > balIdx \/ (b = balIdx /\ pc # "place") => stakes[b] = 0

\* What is left to stake of the current balance.
PlaceInv ==
  pc = "place" =>
    /\ bals[balIdx].tokens > MinTokens
    /\ numStakes >= 1
    /\ stakes[balIdx] <= PartsOf(Half(balIdx))
    /\ splitStake = BasicSplit(Half(balIdx))
    /\ stake = (PartsOf(Half(balIdx)) - stakes[balIdx]) * splitStake
                 + (Half(balIdx) % PartsOf(Half(balIdx)))

\* The balances that are over have left less than a token for each part.
EndedStakes == IF pc = "place" THEN numStakes - 1 ELSE numStakes
DustInv == Unstaked \in 0..(EndedStakes * (LargeParts - 1))

\* The balances are sorted before the first one is staked.
SortInv == pc = "sort" => balIdx = 1

BasicInv == SortInv /\ StakesInv /\ PlaceInv /\ DustInv /\ Balanced

IInv == TypeOK /\ (algorithm = "basic" => BasicInv)

-----------------------------------------------------------------------------
(* Lemmas on the operators.                                                *)

\* Sorting keeps the balances a sequence of as many balances.
LEMMA SortType ==
  ASSUME NEW list \in Seq(Balance), NEW s \in SortOutcomes(list)
  PROVE  s \in Seq(Balance) /\ DOMAIN s = DOMAIN list /\ Len(s) = Len(list)
<1>1. PICK p \in Bijection(DOMAIN list, DOMAIN list) :
             s = [i \in DOMAIN list |-> list[p[i]]]
  BY DEF SortOutcomes
<1>2. p \in [DOMAIN list -> DOMAIN list]
  BY DEF Bijection, Injection
<1>3. DOMAIN list = 1..Len(list) /\ Len(list) \in Nat
  OBVIOUS
<1>4. \A i \in 1..Len(list) : s[i] \in Balance
  <2>1. SUFFICES ASSUME NEW i \in 1..Len(list) PROVE s[i] \in Balance
    OBVIOUS
  <2>2. p[i] \in 1..Len(list)
    BY <1>2, <1>3
  <2> QED
    BY <1>1, <1>3, <2>2
<1>5. s \in [1..Len(list) -> Balance]
  BY <1>1, <1>3, <1>4
<1> QED
  BY <1>3, <1>5

LEMMA TokensType ==
  ASSUME TypeOK, NEW b \in DOMAIN bals
  PROVE  bals[b].tokens \in Nat
<1>1. bals \in Seq(Balance)
  BY DEF TypeOK, Balance
<1>2. b \in 1..Len(bals)
  BY <1>1
<1>3. bals[b] \in Balance
  BY <1>1, <1>2
<1> QED
  BY <1>3 DEF Balance

LEMMA IndexType ==
  ASSUME TypeOK
  PROVE  /\ Len(bals) \in Nat
         /\ DOMAIN bals = 1..Len(bals)
         /\ balIdx \in Nat
         /\ balIdx <= Len(bals) <=> balIdx \in DOMAIN bals
BY DEF TypeOK

\* The three sizes of a stake.
LEMMA PartsType ==
  ASSUME NEW amount \in Nat
  PROVE  PartsOf(amount) \in Nat \ {0} /\ PartsOf(amount) <= LargeParts
BY PartsAssumption DEF PartsOf

\* A quotient is at least a factor of its dividend that leaves the divisor.
LEMMA Division ==
  ASSUME NEW a \in Nat, NEW n \in Nat \ {0}
  PROVE  /\ a \div n \in Nat
         /\ a % n \in 0..(n - 1)
         /\ a = n * (a \div n) + (a % n)
OBVIOUS

LEMMA Quotient ==
  ASSUME NEW a \in Nat, NEW n \in Nat \ {0}, NEW m \in Nat, a >= n * m
  PROVE  a \div n >= m
<1> DEFINE q == a \div n
           r == a % n
<1>1. q \in Nat /\ r \in 0..(n - 1) /\ a = n * q + r
  BY Division
<1> HIDE DEF q, r
<1>2. SUFFICES ASSUME q < m PROVE FALSE
  BY <1>1 DEF q
<1>3. n * (q + 1) <= n * m
  BY <1>1, <1>2
<1>4. n * (q + 1) = n * q + n
  BY <1>1
<1> QED
  BY <1>1, <1>3, <1>4

\* The parts of a balance that is staked are at least PowerReduction.
LEMMA PartSize ==
  ASSUME NEW tokens \in Nat, tokens > MinTokens
  PROVE  BasicSplit(tokens \div 2) \in Nat /\ BasicSplit(tokens \div 2) >= PowerReduction
<1> DEFINE amount == tokens \div 2
<1>1. amount \in Nat /\ 2 * amount + 1 >= tokens
  OBVIOUS
<1>2. SmallParts \in Nat \ {0} /\ MediumParts \in Nat \ {0} /\ LargeParts \in Nat \ {0}
      /\ PowerReduction \in Nat /\ MinTokens \in Nat
      /\ SmallStake \in Nat /\ LargeStake \in Nat
  BY PartsAssumption, AmountsAssumption
<1>3. amount >= SmallParts * PowerReduction
  <2> DEFINE x == SmallParts * PowerReduction
  <2>1. x \in Nat
    BY <1>2
  <2>2. 2 * SmallParts * PowerReduction = 2 * x
    BY <1>2
  <2>3. tokens >= 2 * x
    BY <1>2, <2>1, <2>2, AmountsAssumption
  <2> HIDE DEF x
  <2>4. tokens \div 2 >= x
    BY <2>1, <2>3
  <2> QED
    BY <2>4 DEF x
<1> HIDE DEF amount
<1>4. amount >= PartsOf(amount) * PowerReduction
  <2>1. CASE amount < SmallStake
    BY <1>3, <2>1 DEF PartsOf
  <2>2. CASE amount >= SmallStake /\ amount < LargeStake
    BY <1>1, <1>2, <2>2, AmountsAssumption DEF PartsOf
  <2>3. CASE amount >= SmallStake /\ amount >= LargeStake
    BY <1>1, <1>2, <2>3, AmountsAssumption DEF PartsOf
  <2> QED
    BY <1>1, <1>2, <2>1, <2>2, <2>3
<1>5. PartsOf(amount) \in Nat \ {0}
  BY <1>1, PartsType
<1>6. amount \div PartsOf(amount) \in Nat /\ amount \div PartsOf(amount) >= PowerReduction
  BY <1>1, <1>2, <1>4, <1>5, Quotient, Division
<1> QED
  BY <1>6 DEF BasicSplit, amount

-----------------------------------------------------------------------------
(* The invariant holds at the beginning.                                   *)

LEMMA InitInv == Init => IInv
<1> SUFFICES ASSUME Init PROVE IInv
  OBVIOUS
<1>1. bals \in Seq(Balance) /\ Len(bals) \in Nat /\ DOMAIN bals = 1..Len(bals)
  BY BalancesAssumption DEF Init, Balance
<1>2. ValidatorLen \in Nat \ {0}
  BY ValidatorsAssumption
<1>3. TypeOK
  <2>1. balIdx \in 1..(Len(bals) + 1)
    BY <1>1 DEF Init
  <2>2. validators \in [Validators -> Nat] /\ stakes \in [DOMAIN bals -> Nat]
    BY DEF Init
  <2> QED
    BY <1>1, <2>1, <2>2 DEF TypeOK, Init, Balance
<1>4. StakesInv
  BY <1>1 DEF Init, StakesInv
<1>5. PlaceInv
  BY DEF Init, PlaceInv
<1>6. DustInv
  BY PartsAssumption DEF Init, DustInv, Unstaked, EndedStakes
<1>7. Balanced
  BY DEF Init, Balanced
<1>8. SortInv
  BY DEF Init, SortInv
<1> QED
  BY <1>3, <1>4, <1>5, <1>6, <1>7, <1>8 DEF IInv, BasicInv

-----------------------------------------------------------------------------
(* Every step keeps the type invariant.                                    *)

LEMMA TypeNext ==
  ASSUME TypeOK, [Next]_vars
  PROVE  TypeOK'
<1>1. ASSUME Sort PROVE TypeOK'
  <2>1. bals' \in Seq(Balance) /\ DOMAIN bals' = DOMAIN bals /\ Len(bals') = Len(bals)
    BY <1>1, SortType DEF Sort, Balance, TypeOK
  <2>2. pc' \in {"balance", "panic"}
    BY <1>1 DEF Sort
  <2> QED
    BY <1>1, <2>1, <2>2 DEF Sort, totals, history, Balance, TypeOK
<1>2. ASSUME SkipBalance PROVE TypeOK'
  <2>1. bals[balIdx].tokens \in Nat
    BY <1>2, TokensType, IndexType DEF SkipBalance
  <2>2. supply' \in Nat
    BY <1>2, <2>1 DEF SkipBalance, TypeOK
  <2> QED
    BY <1>2, <2>2 DEF SkipBalance, history, TypeOK
<1>3. ASSUME StartBalance PROVE TypeOK'
  <2>1. bals[balIdx].tokens \in Nat
    BY <1>3, TokensType, IndexType DEF StartBalance
  <2>2. stake' \in Nat
    BY <1>3, <2>1 DEF StartBalance
  <2>3. splitStake' \in Nat
    <3>1. BasicSplit(stake') \in Nat
      BY <2>2, PartsType, Division DEF BasicSplit
    <3>2. TerraSplit(stake') \in Nat
      BY <2>2, Division, ValidatorsAssumption, AmountsAssumption DEF TerraSplit
    <3> QED
      BY <1>3, <3>1, <3>2 DEF StartBalance
  <2>4. supply' \in Nat /\ totalStake' \in Nat /\ numStakes' \in Nat
    <3>1. supply \in Nat /\ totalStake \in Nat /\ numStakes \in Nat
      BY DEF TypeOK
    <3>2. supply' = supply + bals[balIdx].tokens
      BY <1>3 DEF StartBalance
    <3>3. totalStake' = totalStake + stake'
      BY <1>3 DEF StartBalance
    <3>4. numStakes' = numStakes + 1
      BY <1>3 DEF StartBalance
    <3>5. supply' \in Nat
      BY <2>1, <3>1, <3>2
    <3>6. totalStake' \in Nat
      <4>1. \A m, n \in Nat : m + n \in Nat
        OBVIOUS
      <4> QED
        BY <2>2, <3>1, <3>3, <4>1, Zenon
    <3> QED
      BY <3>1, <3>4, <3>5, <3>6
  <2>5. pc' = "place" /\ balIdx \in DOMAIN bals /\ hosts' = {}
        /\ UNCHANGED <<algorithm, bals, balIdx, validators, valIdx, stakeds, stakes,
                       largestPart>>
    BY <1>3, IndexType DEF StartBalance
  <2> QED
    BY <2>2, <2>3, <2>4, <2>5, IndexType DEF TypeOK
<1>4. ASSUME NEW v \in Validators, pc = "place", stake >= PowerReduction, Place(v),
             valIdx' \in Nat
      PROVE  TypeOK'
  <2>1. MinInt(stake, splitStake) \in Nat
    BY <1>4, AmountsAssumption DEF MinInt, TypeOK
  <2>2. stakeds' \in Nat /\ largestPart' \in Nat /\ stake' \in Int
    BY <1>4, <2>1 DEF Place, TypeOK
  <2>3. validators' \in [Validators -> Nat]
    <3>1. validators \in [Validators -> Nat] /\ validators[v] \in Nat
      BY <1>4 DEF TypeOK
    <3>2. validators' = [validators EXCEPT ![v] = validators[v] + MinInt(stake, splitStake)]
      BY <1>4 DEF Place
    <3>3. validators[v] + MinInt(stake, splitStake) \in Nat
      BY <2>1, <3>1
    <3> QED
      BY <3>1, <3>2, <3>3
  <2>4. stakes' \in [DOMAIN bals -> Nat]
    <3>1. stakes \in [DOMAIN bals -> Nat] /\ balIdx \in DOMAIN bals
      BY <1>4, IndexType DEF TypeOK
    <3>2. stakes' = [stakes EXCEPT ![balIdx] = @ + 1]
      BY <1>4 DEF Place
    <3> QED
      BY <3>1, <3>2
  <2>5. hosts' \subseteq Validators
    BY <1>4 DEF Place, TypeOK
  <2> QED
    BY <1>4, <2>2, <2>3, <2>4, <2>5 DEF Place, totals, TypeOK
<1>5. ASSUME NEW v \in Validators, PlaceBasic(v) PROVE TypeOK'
  <2>1. valIdx' \in Nat
    BY <1>5 DEF PlaceBasic, TypeOK
  <2> QED
    BY <1>4, <1>5, <2>1 DEF PlaceBasic
<1>6. ASSUME PlaceTerra PROVE TypeOK'
  <2>1. (valIdx % ValidatorLen) + 1 \in Validators /\ valIdx' \in Nat
    BY <1>6, ValidatorsAssumption DEF Validators, PlaceTerra, TypeOK
  <2> QED
    BY <1>4, <1>6, <2>1 DEF PlaceTerra
<1>7. ASSUME EndBalance PROVE TypeOK'
  BY <1>7 DEF EndBalance, totals, history, TypeOK
<1>8. ASSUME Report PROVE TypeOK'
  BY <1>8 DEF Report, totals, history, TypeOK
<1>9. ASSUME UNCHANGED vars PROVE TypeOK'
  BY <1>9 DEF vars, totals, history, TypeOK
<1> QED
  BY <1>1, <1>2, <1>3, <1>5, <1>6, <1>7, <1>8, <1>9 DEF Next, Ended

\* The variables always have their types.
THEOREM TypeCorrect == Spec => []TypeOK
<1>1. Init => TypeOK
  BY InitInv DEF IInv
<1>2. TypeOK /\ [Next]_vars => TypeOK'
  BY TypeNext
<1> QED
  BY <1>1, <1>2, PTL DEF Spec

-----------------------------------------------------------------------------
(* Every step of algorithm "basic" keeps its invariant.                    *)

\* While a balance is placed, its parts are at least PowerReduction, and so is
\* what is left of it unless no part is.
LEMMA Left ==
  ASSUME TypeOK, PlaceInv, pc = "place",
         NEW parts, parts = PartsOf(Half(balIdx)),
         NEW rem, rem = Half(balIdx) % parts
  PROVE  /\ balIdx \in DOMAIN bals
         /\ parts \in Nat \ {0} /\ parts <= LargeParts
         /\ rem \in 0..(parts - 1)
         /\ stakes[balIdx] \in 0..parts
         /\ stake = (parts - stakes[balIdx]) * splitStake + rem
         /\ stake < PowerReduction => stakes[balIdx] = parts
         /\ stake >= PowerReduction => stakes[balIdx] < parts /\ stake >= splitStake
<1>1. balIdx \in DOMAIN bals
  BY IndexType DEF TypeOK
<1>2. bals[balIdx].tokens \in Nat
  BY <1>1, TokensType
<1>3. Half(balIdx) \in Nat
  BY <1>2 DEF Half
<1>4. parts \in Nat \ {0} /\ parts <= LargeParts
  BY <1>3, PartsType
<1>5. rem \in 0..(parts - 1)
  BY <1>3, <1>4, Division
<1>6. stakes[balIdx] \in 0..parts
  BY <1>1, <1>4 DEF PlaceInv, TypeOK
<1>7. stake = (parts - stakes[balIdx]) * splitStake + rem
  BY DEF PlaceInv
<1>8. splitStake \in Nat /\ splitStake >= PowerReduction
  BY <1>2, PartSize DEF PlaceInv, Half
<1>9. PowerReduction \in Nat /\ LargeParts \in Nat /\ rem < PowerReduction
  BY <1>4, <1>5, PartsAssumption, AmountsAssumption
<1>10. ASSUME stakes[balIdx] < parts PROVE stake >= splitStake
  <2> DEFINE left == parts - stakes[balIdx]
  <2>1. left \in Nat /\ left >= 1
    BY <1>4, <1>6, <1>10
  <2>2. stake = left * splitStake + rem
    BY <1>7
  <2> HIDE DEF left
  <2>3. left * splitStake >= splitStake
    BY <1>8, <2>1
  <2> QED
    BY <1>5, <1>8, <2>1, <2>2, <2>3
<1>11. ASSUME stakes[balIdx] = parts PROVE stake = rem
  BY <1>4, <1>5, <1>7, <1>8, <1>11
<1>12. stake < PowerReduction => stakes[balIdx] = parts
  BY <1>4, <1>6, <1>8, <1>9, <1>10 DEF TypeOK
<1>13. stake >= PowerReduction => stakes[balIdx] < parts
  <2>1. rem \in Nat /\ rem < PowerReduction /\ PowerReduction \in Nat
    BY <1>5, <1>9
  <2>2. stakes[balIdx] # parts => stakes[balIdx] < parts
    BY <1>4, <1>6
  <2> QED
    BY <1>11, <2>1, <2>2
<1> QED
  BY <1>1, <1>4, <1>5, <1>6, <1>7, <1>10, <1>12, <1>13

LEMMA BasicNext ==
  ASSUME TypeOK, BasicInv, algorithm = "basic", [Next]_vars
  PROVE  BasicInv'
<1> USE DEF BasicInv
<1>1. ASSUME Sort PROVE BasicInv'
  <2>1. DOMAIN bals' = DOMAIN bals /\ balIdx' = 1 /\ pc' # "place"
    BY <1>1, SortType DEF Sort, SortInv, TypeOK, Balance
  <2>2. DOMAIN bals = 1..Len(bals) /\ Len(bals) \in Nat
    BY IndexType
  <2>3. StakesInv'
    BY <1>1, <2>1, <2>2 DEF StakesInv, SortInv, Sort
  <2>4. DustInv'
    BY <1>1, <2>1 DEF Sort, totals, DustInv, Unstaked, EndedStakes
  <2>5. Balanced'
    BY <1>1 DEF Sort, history, Balanced
  <2> QED
    BY <1>1, <2>1, <2>3, <2>4, <2>5 DEF SortInv, PlaceInv
<1>2. ASSUME SkipBalance PROVE BasicInv'
  <2>1. balIdx \in Nat /\ DOMAIN bals = 1..Len(bals) /\ balIdx \in DOMAIN bals
    BY <1>2, IndexType DEF SkipBalance
  <2>2. Parts(balIdx) = 0
    BY <1>2 DEF SkipBalance, Parts
  <2>3. stakes[balIdx] = 0
    BY <1>2, <2>1 DEF SkipBalance, StakesInv
  <2>4. StakesInv'
    BY <1>2, <2>1, <2>2, <2>3 DEF SkipBalance, StakesInv, Parts, Half
  <2>5. DustInv'
    BY <1>2 DEF SkipBalance, DustInv, Unstaked, EndedStakes
  <2>6. Balanced'
    BY <1>2 DEF SkipBalance, history, Balanced
  <2> QED
    BY <1>2, <2>4, <2>5, <2>6 DEF SkipBalance, SortInv, PlaceInv
<1>3. ASSUME StartBalance PROVE BasicInv'
  <2>1. balIdx \in Nat /\ DOMAIN bals = 1..Len(bals) /\ balIdx \in DOMAIN bals
    BY <1>3, IndexType DEF StartBalance
  <2>2. bals[balIdx].tokens \in Nat
    BY <2>1, TokensType
  <2>3. UNCHANGED <<bals, balIdx, stakes>> /\ pc = "balance" /\ pc' = "place"
    BY <1>3 DEF StartBalance
  <2>4. StakesInv'
    BY <2>1, <2>3 DEF StakesInv, Parts, Half
  <2>5. PlaceInv'
    <3> DEFINE parts == PartsOf(Half(balIdx))
    <3>1. Half(balIdx) \in Nat /\ parts \in Nat \ {0}
      BY <2>2, PartsType DEF Half
    <3>2. stake' = Half(balIdx) /\ splitStake' = BasicSplit(Half(balIdx))
      BY <1>3 DEF StartBalance, Half
    <3>3. stakes[balIdx] = 0
      BY <2>1, <2>3 DEF StakesInv
    <3>4. Half(balIdx) = parts * BasicSplit(Half(balIdx)) + (Half(balIdx) % parts)
      BY <3>1, Division DEF BasicSplit
    <3>5. numStakes' >= 1
      BY <1>3 DEF StartBalance, TypeOK
    <3>6. Half(balIdx)' = Half(balIdx)
      BY <2>3 DEF Half
    <3>7. parts - stakes[balIdx] = parts
      BY <3>1, <3>3
    <3>8. stake' = (parts - stakes[balIdx]) * splitStake' + (Half(balIdx) % parts)
      BY <3>2, <3>4, <3>7
    <3>9. bals[balIdx].tokens > MinTokens
      BY <1>3 DEF StartBalance
    <3>10. stakes[balIdx] <= parts
      BY <3>1, <3>3
    <3> HIDE DEF parts
    <3> QED
      BY <2>3, <3>2, <3>5, <3>6, <3>8, <3>9, <3>10 DEF PlaceInv, parts
  <2>6. DustInv'
    <3>1. stake' \in Nat
      BY <1>3, <2>2 DEF StartBalance
    <3>2. totalStake \in Nat /\ stakeds \in Nat /\ numStakes \in Nat
      BY DEF TypeOK
    <3>3. totalStake' = totalStake + stake' /\ stakeds' = stakeds
          /\ numStakes' = numStakes + 1
      BY <1>3 DEF StartBalance
    <3>4. Unstaked = totalStake - stakeds - 0 /\ EndedStakes = numStakes
      BY <2>3 DEF Unstaked, EndedStakes
    <3>5. Unstaked' = totalStake' - stakeds' - stake' /\ EndedStakes' = numStakes' - 1
      BY <2>3 DEF Unstaked, EndedStakes
    <3>6. EndedStakes' = EndedStakes
      BY <3>2, <3>3, <3>4, <3>5
    <3>7. Unstaked' = Unstaked
      <4>1. \A t, s, n \in Nat : (t + n) - s - n = t - s - 0
        OBVIOUS
      <4> QED
        BY <3>1, <3>2, <3>3, <3>4, <3>5, <4>1, Zenon
    <3> QED
      BY <3>6, <3>7 DEF DustInv
  <2>7. Balanced'
    BY <1>3 DEF StartBalance, Balanced
  <2> QED
    BY <2>3, <2>4, <2>5, <2>6, <2>7 DEF SortInv
<1>4. ASSUME NEW v \in Validators, PlaceBasic(v) PROVE BasicInv'
  <2> DEFINE parts == PartsOf(Half(balIdx))
             rem == Half(balIdx) % parts
  <2>1. pc = "place" /\ stake >= PowerReduction
    BY <1>4 DEF PlaceBasic
  <2>2. /\ balIdx \in DOMAIN bals
        /\ parts \in Nat \ {0}
        /\ rem \in 0..(parts - 1)
        /\ stakes[balIdx] \in 0..parts
        /\ stake = (parts - stakes[balIdx]) * splitStake + rem
        /\ stakes[balIdx] < parts /\ stake >= splitStake
    BY <2>1, Left
  <2>3. splitStake \in Nat /\ stake \in Int /\ largestPart \in Nat
        /\ totalStake \in Nat /\ stakeds \in Nat
        /\ stakes \in [DOMAIN bals -> Nat] /\ validators \in [Validators -> Nat]
    BY DEF TypeOK
  <2>4. MinInt(stake, splitStake) = splitStake
    BY <2>2, <2>3 DEF MinInt
  <2>5. /\ stakeds' = stakeds + splitStake
        /\ validators' = [validators EXCEPT ![v] = @ + splitStake]
        /\ stakes' = [stakes EXCEPT ![balIdx] = @ + 1]
        /\ stake' = stake - splitStake
        /\ largestPart' = IF splitStake > largestPart THEN splitStake ELSE largestPart
        /\ UNCHANGED <<algorithm, bals, pc, balIdx, splitStake, totalStake, numStakes>>
    BY <1>4, <2>4 DEF PlaceBasic, Place, totals
  <2>6. StakesInv'
    <3>1. SUFFICES ASSUME NEW b \in DOMAIN bals
                   PROVE  /\ b < balIdx => stakes'[b] = Parts(b)
                          /\ b > balIdx => stakes'[b] = 0
      BY <2>1, <2>5 DEF StakesInv, Parts, Half
    <3>2. b \in Nat /\ balIdx \in Nat
      BY IndexType
    <3>3. b # balIdx => stakes'[b] = stakes[b]
      BY <2>3, <2>5
    <3> QED
      BY <3>2, <3>3 DEF StakesInv
  <2>7. PlaceInv'
    <3>1. stakes'[balIdx] = stakes[balIdx] + 1
      BY <2>2, <2>3, <2>5
    <3>2. stake' = (parts - stakes'[balIdx]) * splitStake + rem
      <4> DEFINE left == parts - stakes[balIdx]
      <4>1. left \in Nat /\ parts - stakes'[balIdx] = left - 1
        BY <2>2, <3>1
      <4>2. stake = left * splitStake + rem
        BY <2>2
      <4>3. rem \in Int
        BY <2>2
      <4>6. stake' = stake - splitStake
        BY <2>5
      <4> HIDE DEF left, parts, rem
      <4>4. (left - 1) * splitStake = left * splitStake - splitStake
        BY <2>3, <4>1
      <4>5. left * splitStake \in Int
        BY <2>3, <4>1
      <4>7. stake - splitStake = (left - 1) * splitStake + rem
        BY <2>3, <4>2, <4>3, <4>4, <4>5
      <4> QED
        BY <4>1, <4>6, <4>7, Zenon
    <3>3. stakes'[balIdx] <= parts
      BY <2>2, <3>1
    <3>4. Half(balIdx)' = Half(balIdx)
      BY <2>5 DEF Half
    <3>5. /\ bals[balIdx].tokens > MinTokens /\ numStakes >= 1
          /\ splitStake = BasicSplit(Half(balIdx))
      BY <2>1 DEF PlaceInv
    <3> QED
      BY <2>1, <2>5, <3>2, <3>3, <3>4, <3>5 DEF PlaceInv
  <2>8. DustInv'
    <3>1. Unstaked = totalStake - stakeds - stake /\ EndedStakes = numStakes - 1
      BY <2>1 DEF Unstaked, EndedStakes
    <3>2. Unstaked' = totalStake' - stakeds' - stake' /\ EndedStakes' = numStakes' - 1
      BY <2>1, <2>5 DEF Unstaked, EndedStakes
    <3>3. Unstaked' = Unstaked /\ EndedStakes' = EndedStakes
      BY <2>3, <2>5, <3>1, <3>2
    <3> QED
      BY <3>3 DEF DustInv
  <2>9. Balanced'
    <3>1. SUFFICES ASSUME NEW x \in Validators, NEW y \in Validators
                   PROVE  validators'[x] - validators'[y] <= largestPart'
      BY <2>5 DEF Balanced
    <3>2. validators[x] \in Nat /\ validators[y] \in Nat /\ validators[v] \in Nat
      BY <2>3
    <3>3. validators[x] - validators[y] <= largestPart /\ validators[v] <= validators[y]
      BY <1>4 DEF Balanced, PlaceBasic, IsLeastStaked
    <3>4. /\ validators'[x] = validators[x] + (IF x = v THEN splitStake ELSE 0)
          /\ validators'[y] = validators[y] + (IF y = v THEN splitStake ELSE 0)
      BY <2>3, <2>5, <3>2
    <3>5. largestPart' >= splitStake /\ largestPart' >= largestPart
      BY <2>3, <2>5
    <3>6. largestPart' \in Nat
      BY <2>3, <2>5
    <3>7. CASE x = v /\ y # v
      BY <2>3, <3>2, <3>3, <3>4, <3>5, <3>6, <3>7
    <3>8. CASE x = v /\ y = v
      BY <2>3, <3>2, <3>3, <3>4, <3>5, <3>6, <3>8
    <3>9. CASE x # v
      BY <2>3, <3>2, <3>3, <3>4, <3>5, <3>6, <3>9
    <3> QED
      BY <3>7, <3>8, <3>9
  <2> QED
    BY <2>1, <2>5, <2>6, <2>7, <2>8, <2>9 DEF SortInv
<1>5. ASSUME EndBalance PROVE BasicInv'
  <2> DEFINE parts == PartsOf(Half(balIdx))
             rem == Half(balIdx) % parts
  <2>1. /\ pc = "place" /\ stake < PowerReduction /\ pc' = "balance"
        /\ balIdx' = balIdx + 1
        /\ UNCHANGED <<algorithm, bals, stake, splitStake, validators, stakeds,
                       totalStake, numStakes, stakes, largestPart>>
    BY <1>5 DEF EndBalance, totals, history
  <2>2. /\ balIdx \in DOMAIN bals
        /\ parts \in Nat \ {0} /\ parts <= LargeParts
        /\ rem \in 0..(parts - 1)
        /\ stakes[balIdx] = parts
        /\ stake = (parts - stakes[balIdx]) * splitStake + rem
    BY <2>1, Left
  <2>3. splitStake \in Nat /\ totalStake \in Nat /\ stakeds \in Nat /\ numStakes \in Nat
        /\ LargeParts \in Nat
    BY PartsAssumption DEF TypeOK
  <2>4. StakesInv'
    <3>1. SUFFICES ASSUME NEW b \in DOMAIN bals
                   PROVE  /\ b < balIdx + 1 => stakes[b] = Parts(b)
                          /\ b >= balIdx + 1 => stakes[b] = 0
      <4>1. balIdx \in Nat /\ DOMAIN bals \subseteq Nat
        BY IndexType
      <4> QED
        BY <2>1, <3>1, <4>1 DEF StakesInv, Parts, Half
    <3>2. b \in Nat /\ balIdx \in Nat
      BY IndexType
    <3>3. Parts(balIdx) = parts
      <4>1. bals[balIdx].tokens \in Nat /\ bals[balIdx].tokens > MinTokens
        BY <2>1, <2>2, TokensType DEF PlaceInv
      <4> QED
        BY <4>1, AmountsAssumption DEF Parts
    <3> QED
      BY <2>2, <3>2, <3>3 DEF StakesInv
  <2>5. DustInv'
    <3> DEFINE dust == LargeParts - 1
    <3>1. Unstaked = totalStake - stakeds - stake /\ EndedStakes = numStakes - 1
      BY <2>1 DEF Unstaked, EndedStakes
    <3>2. Unstaked' = totalStake - stakeds - 0 /\ EndedStakes' = numStakes
      BY <2>1 DEF Unstaked, EndedStakes
    <3>3. stake = rem
      BY <2>2, <2>3
    <3>4. stake \in 0..dust /\ dust \in Int
      BY <2>2, <2>3, <3>3
    <3>5. Unstaked \in 0..((numStakes - 1) * dust)
      BY <3>1 DEF DustInv
    <3> HIDE DEF dust
    <3>6. (numStakes - 1) * dust + dust = numStakes * dust
      BY <2>3, <3>4
    <3>7. (numStakes - 1) * dust \in Int /\ numStakes * dust \in Int
      BY <2>3, <3>4
    <3>8. Unstaked' = Unstaked + stake
      BY <2>3, <3>1, <3>2, <3>4
    <3>9. Unstaked' \in 0..(numStakes * dust)
      BY <3>4, <3>5, <3>6, <3>7, <3>8
    <3> QED
      BY <2>1, <3>2, <3>9 DEF DustInv, dust
  <2>6. Balanced'
    BY <2>1 DEF Balanced
  <2> QED
    BY <2>1, <2>4, <2>5, <2>6 DEF SortInv, PlaceInv
<1>6. ASSUME Report PROVE BasicInv'
  <2>1. pc = "balance" /\ pc' \in {"done", "panic"}
    BY <1>6 DEF Report
  <2>2. StakesInv' /\ DustInv' /\ Balanced'
    BY <1>6, <2>1
    DEF Report, totals, history, StakesInv, Parts, Half, DustInv, Unstaked, EndedStakes,
        Balanced
  <2> QED
    BY <2>1, <2>2 DEF SortInv, PlaceInv
<1>7. ASSUME UNCHANGED vars PROVE BasicInv'
  BY <1>7
  DEF vars, totals, history, SortInv, StakesInv, PlaceInv, Parts, Half, DustInv, Unstaked,
      EndedStakes, Balanced
<1>8. ~PlaceTerra
  BY DEF PlaceTerra
<1> QED
  BY <1>1, <1>2, <1>3, <1>4, <1>5, <1>6, <1>7, <1>8 DEF Next, Ended

LEMMA Invariance == Spec => []IInv
<1>1. IInv /\ [Next]_vars => IInv'
  <2>1. SUFFICES ASSUME IInv, [Next]_vars PROVE IInv'
    OBVIOUS
  <2>2. TypeOK'
    BY <2>1, TypeNext DEF IInv
  <2>3. algorithm' = algorithm
    BY <2>1
    DEF Next, Sort, SkipBalance, StartBalance, PlaceBasic, PlaceTerra, Place, EndBalance,
        Report, Ended, vars
  <2> QED
    BY <2>1, <2>2, <2>3, BasicNext DEF IInv
<1> QED
  BY <1>1, InitInv, PTL DEF Spec

-----------------------------------------------------------------------------
(* The properties.                                                         *)

\* With algorithm "basic" no validator is ever ahead of another by more than the
\* largest part staked, whatever the balances.
THEOREM BalancedCorrect == Spec => []Balanced
<1>1. IInv => Balanced
  BY DEF IInv, BasicInv, Balanced
<1> QED
  BY <1>1, Invariance, PTL

\* With algorithm "basic", what is not staked of the halves of the balances is
\* less than one token for each part.
THEOREM DustCorrect == Spec => []DustOnly
<1>1. IInv => DustOnly
  <2>1. SUFFICES ASSUME IInv, algorithm = "basic" PROVE Unstaked \in 0..(numStakes * (LargeParts - 1))
    BY DEF DustOnly
  <2>2. numStakes \in Nat /\ LargeParts \in Nat \ {0} /\ DustInv
    BY <2>1, PartsAssumption DEF IInv, TypeOK, BasicInv
  <2> DEFINE dust == LargeParts - 1
  <2>3. dust \in Nat
    BY <2>2
  <2>4. Unstaked \in 0..(EndedStakes * dust) /\ EndedStakes \in {numStakes, numStakes - 1}
    BY <2>2 DEF DustInv, EndedStakes
  <2> HIDE DEF dust
  <2>5. EndedStakes * dust \in Int /\ EndedStakes * dust <= numStakes * dust
        /\ numStakes * dust \in Int
    BY <2>2, <2>3, <2>4
  <2>6. Unstaked \in 0..(numStakes * dust)
    BY <2>4, <2>5
  <2> QED
    BY <2>6 DEF dust
<1> QED
  BY <1>1, Invariance, PTL

\* With algorithm "basic", every balance makes the parts the size of its stake
\* says, although the remainder of the division is left over.
THEOREM PartsCorrect == Spec => []PartsPlaced
<1>1. IInv => PartsPlaced
  <2>1. SUFFICES ASSUME IInv, algorithm = "basic", pc # "sort", NEW b \in DOMAIN bals
                 PROVE  IF b < balIdx THEN stakes[b] = Parts(b) ELSE stakes[b] <= Parts(b)
    BY DEF PartsPlaced, Parts, Half
  <2>2. TypeOK /\ StakesInv /\ PlaceInv
    BY <2>1 DEF IInv, BasicInv
  <2>3. b \in Nat /\ balIdx \in Nat
    BY <2>2, IndexType
  <2>4. bals[b].tokens \in Nat /\ MinTokens \in Nat
    BY <2>2, TokensType, AmountsAssumption
  <2>5. Parts(b) \in Nat
    BY <2>4, PartsType DEF Parts, Half
  <2>6. CASE b < balIdx
    BY <2>2, <2>6 DEF StakesInv
  <2>7. CASE b = balIdx /\ pc = "place"
    BY <2>2, <2>3, <2>4, <2>7 DEF PlaceInv, Parts
  <2>8. CASE b > balIdx \/ (b = balIdx /\ pc # "place")
    BY <2>2, <2>3, <2>5, <2>8 DEF StakesInv
  <2> QED
    BY <2>3, <2>6, <2>7, <2>8
<1> QED
  BY <1>1, Invariance, PTL

-----------------------------------------------------------------------------
(* Algorithm "terra": the parts of a balance go round the validators, and  *)
(* there are no more of them than there are validators.                    *)

\* The validators of the last n parts.
LastHosts(n) == {((valIdx - i) % ValidatorLen) + 1 : i \in 1..n}

TerraPlace ==
  pc = "place" =>
    /\ stakes[balIdx] <= ValidatorLen
    /\ hosts = LastHosts(stakes[balIdx])
    /\ Cardinality(hosts) = stakes[balIdx]
    /\ splitStake = TerraSplit(Half(balIdx))
    /\ stake = Half(balIdx) - stakes[balIdx] * splitStake

\* The balances from the current one on have made no part.
TerraStakes ==
  /\ pc = "sort" => balIdx = 1
  /\ \A b \in DOMAIN bals : b > balIdx \/ (b = balIdx /\ pc # "place") => stakes[b] = 0

TerraInv == TerraStakes /\ TerraPlace

\* Numbers less than n apart leave different remainders.
LEMMA Remainders ==
  ASSUME NEW n \in Nat \ {0}, NEW a \in Int, NEW i \in 1..(n - 1)
  PROVE  (a - i) % n # a % n
<1> SUFFICES ASSUME (a - i) % n = a % n PROVE FALSE
  OBVIOUS
<1> PICK q \in Int, p \in Int, r \in Int :
      a = n * q + r /\ a - i = n * p + r
  <2>1. a - i \in Int
    OBVIOUS
  <2>2. /\ a = n * (a \div n) + (a % n) /\ a \div n \in Int /\ a % n \in Int
        /\ a - i = n * ((a - i) \div n) + ((a - i) % n) /\ (a - i) \div n \in Int
    BY <2>1
  <2> QED
    BY <2>2
<1>1. i = n * (q - p)
  <2>1. n * (q - p) = n * q - n * p
    OBVIOUS
  <2> QED
    BY <2>1
<1>2. q - p >= 1
  <2>1. ASSUME q - p <= 0 PROVE FALSE
    <3>1. n * (q - p) <= n * 0
      BY <2>1
    <3> QED
      BY <1>1, <3>1
  <2> QED
    BY <2>1
<1>3. n * (q - p) >= n * 1
  BY <1>2
<1> QED
  BY <1>1, <1>3

\* As many parts as there are validators leave less than the least stake.
LEMMA TerraRound ==
  ASSUME NEW amount \in Nat
  PROVE  /\ TerraSplit(amount) \in Nat
         /\ amount - ValidatorLen * TerraSplit(amount) < PowerReduction
<1> PICK n \in Nat \ {0}, c \in Nat \ {0}, p \in Nat \ {0} :
      n = ValidatorLen /\ c = SplitCondition /\ p = PowerReduction
  BY ValidatorsAssumption, AmountsAssumption
<1>1. n <= p
  BY RoundAssumption
<1>2. CASE amount > c * n
  <2>1. TerraSplit(amount) = amount \div n
    BY <1>2 DEF TerraSplit
  <2>2. /\ amount \div n \in Nat /\ amount % n \in 0..(n - 1)
        /\ amount = n * (amount \div n) + (amount % n)
    BY Division
  <2> QED
    BY <1>1, <2>1, <2>2
<1>3. CASE ~(amount > c * n)
  <2>1. TerraSplit(amount) = c /\ c * n = n * c
    BY <1>3 DEF TerraSplit
  <2>2. c * n \in Nat
    OBVIOUS
  <2> QED
    BY <1>3, <2>1, <2>2
<1> QED
  BY <1>2, <1>3

LEMMA HalfType ==
  ASSUME TypeOK, NEW b \in DOMAIN bals
  PROVE  Half(b) \in Nat
BY TokensType DEF Half

\* A part goes to a validator that has none of the balance yet.
LEMMA PlaceTerraInv ==
  ASSUME TypeOK, TerraInv, PlaceTerra
  PROVE  TerraPlace'
<1> PICK n \in Nat \ {0} : n = ValidatorLen
  BY ValidatorsAssumption
<1> PICK k \in Nat : k = stakes[balIdx]
  BY IndexType DEF PlaceTerra, TypeOK
<1> DEFINE v == (valIdx % n) + 1
<1>1. balIdx \in DOMAIN bals /\ valIdx \in Nat /\ splitStake \in Nat /\ stake \in Int
  BY IndexType DEF PlaceTerra, TypeOK
<1>2. /\ pc = "place" /\ stake >= PowerReduction
      /\ hosts' = hosts \cup {v} /\ valIdx' = valIdx + 1
      /\ stake' = stake - splitStake
      /\ stakes' = [stakes EXCEPT ![balIdx] = @ + 1]
      /\ UNCHANGED <<bals, pc, balIdx, splitStake>>
  BY DEF PlaceTerra, Place
<1>3. /\ k <= n /\ hosts = LastHosts(k) /\ Cardinality(hosts) = k
      /\ splitStake = TerraSplit(Half(balIdx))
      /\ stake = Half(balIdx) - k * splitStake
  BY <1>2 DEF TerraInv, TerraPlace
<1>4. stakes'[balIdx] = k + 1
  BY <1>1, <1>2 DEF TypeOK
<1>5. k < n
  <2>1. ASSUME k = n PROVE FALSE
    <3>1. Half(balIdx) \in Nat
      BY <1>1, HalfType
    <3>2. Half(balIdx) - n * splitStake < PowerReduction
      BY <1>3, <3>1, TerraRound
    <3> QED
      BY <1>1, <1>2, <1>3, <2>1, <3>1, <3>2, AmountsAssumption
  <2> QED
    BY <1>3, <2>1
<1>6. v \notin hosts
  <2>1. \A i \in 1..k : (valIdx - i) % n # valIdx % n
    <3> TAKE i \in 1..k
    <3>1. i \in 1..(n - 1) /\ valIdx \in Int
      BY <1>1, <1>5
    <3> QED
      BY <3>1, Remainders
  <2>2. ASSUME NEW i \in 1..k PROVE ((valIdx - i) % n) + 1 # v
    <3>1. (valIdx - i) % n \in Int /\ valIdx % n \in Int
      BY <1>1
    <3> QED
      BY <2>1, <3>1
  <2> HIDE DEF v
  <2> QED
    BY <1>3, <2>2 DEF LastHosts
<1>7. hosts' = LastHosts(k + 1)'
  <2>1. LastHosts(k + 1)' = {((valIdx + 1 - i) % n) + 1 : i \in 1..(k + 1)}
    <3>1. LastHosts(k + 1)' = {((valIdx' - i) % ValidatorLen) + 1 : i \in 1..(k + 1)}
      BY DEF LastHosts
    <3>2. \A i \in 1..(k + 1) : valIdx' - i = valIdx + 1 - i
      BY <1>1, <1>2
    <3> QED
      BY <3>1, <3>2
  <2>2. LastHosts(k) = {((valIdx - i) % n) + 1 : i \in 1..k}
    BY DEF LastHosts
  <2>3. ASSUME NEW i \in 1..(k + 1)
        PROVE  (i = 1 /\ ((valIdx + 1 - i) % n) + 1 = v)
               \/ (i - 1 \in 1..k /\ valIdx + 1 - i = valIdx - (i - 1))
    <3>1. CASE i = 1
      <4>1. valIdx + 1 - 1 = valIdx
        BY <1>1
      <4> QED
        BY <3>1, <4>1
    <3>2. CASE i # 1
      BY <1>1, <3>2
    <3> QED
      BY <3>1, <3>2
  <2>4. ASSUME NEW i \in 1..k
        PROVE  i + 1 \in 1..(k + 1) /\ valIdx - i = valIdx + 1 - (i + 1)
    BY <1>1
  <2>5. 1 \in 1..(k + 1) /\ valIdx + 1 - 1 = valIdx
    BY <1>1
  <2>6. \A x \in LastHosts(k + 1)' : x \in LastHosts(k) \cup {v}
    <3> TAKE x \in LastHosts(k + 1)'
    <3>1. PICK i \in 1..(k + 1) : x = ((valIdx + 1 - i) % n) + 1
      BY <2>1
    <3> QED
      BY <2>2, <2>3, <3>1
  <2>7. \A x \in LastHosts(k) : x \in LastHosts(k + 1)'
    BY <2>1, <2>2, <2>4
  <2>8. v \in LastHosts(k + 1)'
    BY <2>1, <2>5
  <2> QED
    BY <1>2, <1>3, <2>6, <2>7, <2>8
<1>8. Cardinality(hosts') = k + 1
  <2>1. IsFiniteSet(hosts)
    <3>1. IsFiniteSet(Validators)
      BY FS_Interval, ValidatorsAssumption DEF Validators
    <3> QED
      BY <3>1, FS_Subset DEF TypeOK
  <2> QED
    BY <1>2, <1>3, <1>6, <2>1, FS_AddElement
<1>9. stake' = Half(balIdx) - (k + 1) * splitStake
  <2>1. Half(balIdx) \in Nat
    BY <1>1, HalfType
  <2>2. (k + 1) * splitStake = k * splitStake + splitStake
    BY <1>1
  <2>3. k * splitStake \in Int
    BY <1>1
  <2> QED
    BY <1>1, <1>2, <1>3, <2>1, <2>2, <2>3
<1>10. Half(balIdx)' = Half(balIdx)
  BY <1>2 DEF Half
<1>11. k + 1 <= n
  BY <1>5
<1> QED
  BY <1>2, <1>3, <1>4, <1>7, <1>8, <1>9, <1>10, <1>11 DEF TerraPlace

LEMMA TerraNext ==
  ASSUME TypeOK, TerraInv, algorithm = "terra", [Next]_vars
  PROVE  TerraInv'
<1> USE DEF TerraInv
<1>0. /\ DOMAIN bals = 1..Len(bals) /\ Len(bals) \in Nat /\ balIdx \in Nat
      /\ balIdx <= Len(bals) <=> balIdx \in DOMAIN bals
  BY IndexType
<1>1. CASE Sort
  <2>1. DOMAIN bals' = DOMAIN bals /\ balIdx' = 1 /\ pc' # "place" /\ pc' # "sort"
        /\ stakes' = stakes /\ pc = "sort" /\ balIdx = 1
    BY <1>1, SortType DEF Sort, TerraStakes, TypeOK, Balance
  <2> QED
    BY <1>0, <2>1 DEF TerraStakes, TerraPlace
<1>2. CASE SkipBalance
  <2>1. pc' = "balance" /\ pc = "balance" /\ balIdx' = balIdx + 1 /\ UNCHANGED <<bals, stakes>>
    BY <1>2 DEF SkipBalance
  <2> QED
    BY <1>0, <2>1 DEF TerraStakes, TerraPlace
<1>3. CASE StartBalance
  <2>1. /\ pc = "balance" /\ pc' = "place" /\ balIdx \in DOMAIN bals
        /\ UNCHANGED <<bals, balIdx, stakes, valIdx>>
        /\ stake' = Half(balIdx) /\ hosts' = {}
        /\ splitStake' = TerraSplit(stake')
    BY <1>0, <1>3 DEF StartBalance, Half
  <2>2. stakes[balIdx] = 0
    BY <2>1 DEF TerraStakes
  <2>3. Half(balIdx) \in Nat /\ TerraSplit(Half(balIdx)) \in Nat
    BY <2>1, HalfType, TerraRound
  <2>4. Half(balIdx)' = Half(balIdx)
    BY <2>1 DEF Half
  <2>5. LastHosts(0)' = {}
    BY DEF LastHosts
  <2>6. Cardinality({}) = 0 /\ 0 <= ValidatorLen
    BY FS_EmptySet, ValidatorsAssumption
  <2>7. Half(balIdx) = Half(balIdx) - 0 * TerraSplit(Half(balIdx))
    BY <2>3
  <2>8. TerraStakes'
    BY <1>0, <2>1 DEF TerraStakes
  <2>9. TerraPlace'
    BY <2>1, <2>2, <2>4, <2>5, <2>6, <2>7 DEF TerraPlace
  <2> QED
    BY <2>8, <2>9
<1>4. CASE PlaceTerra
  <2>1. /\ pc = "place" /\ UNCHANGED <<bals, pc, balIdx>>
        /\ stakes' = [stakes EXCEPT ![balIdx] = @ + 1]
    BY <1>4 DEF PlaceTerra, Place
  <2>2. \A b \in DOMAIN bals : b # balIdx => stakes'[b] = stakes[b]
    BY <2>1 DEF TypeOK
  <2>3. TerraStakes'
    BY <1>0, <2>1, <2>2 DEF TerraStakes
  <2>4. TerraPlace'
    BY <1>4, PlaceTerraInv
  <2> QED
    BY <2>3, <2>4
<1>5. CASE EndBalance
  <2>1. pc = "place" /\ pc' = "balance" /\ balIdx' = balIdx + 1 /\ UNCHANGED <<bals, stakes>>
    BY <1>5 DEF EndBalance
  <2> QED
    BY <1>0, <2>1 DEF TerraStakes, TerraPlace
<1>6. CASE Report
  <2>1. pc = "balance" /\ pc' \in {"panic", "done"} /\ UNCHANGED <<bals, balIdx, stakes>>
    BY <1>6 DEF Report
  <2> QED
    BY <2>1 DEF TerraStakes, TerraPlace
<1>7. CASE UNCHANGED vars
  BY <1>7 DEF vars, history, TerraStakes, TerraPlace, LastHosts, Half
<1>8. \A v \in Validators : ~PlaceBasic(v)
  BY DEF PlaceBasic
<1> QED
  BY <1>1, <1>2, <1>3, <1>4, <1>5, <1>6, <1>7, <1>8 DEF Next, Ended

\* With algorithm "terra" the parts of a balance go to different validators: the
\* parts of a whale are as many as the validators, and what remains of it is too
\* little to be staked.
THEOREM NoRepeatCorrect == Spec => []TerraNoRepeat
<1> DEFINE I == TypeOK /\ (algorithm = "terra" => TerraInv)
<1>1. Init => I
  <2> SUFFICES ASSUME Init PROVE I
    OBVIOUS
  <2>1. TypeOK
    BY InitInv DEF IInv
  <2>2. TerraInv
    BY DEF Init, TerraInv, TerraStakes, TerraPlace
  <2> QED
    BY <2>1, <2>2
<1>2. I /\ [Next]_vars => I'
  <2>1. [Next]_vars => algorithm' = algorithm
    BY DEF Next, Sort, SkipBalance, StartBalance, PlaceBasic, PlaceTerra, Place, EndBalance,
           Report, Ended, vars
  <2> QED
    BY <2>1, TypeNext, TerraNext
<1>3. I => TerraNoRepeat
  BY DEF TerraNoRepeat, PartsApart, TerraInv, TerraPlace
<1> QED
  BY <1>1, <1>2, <1>3, PTL DEF Spec
=============================================================================
