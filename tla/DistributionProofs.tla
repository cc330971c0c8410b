------------------------- MODULE DistributionProofs -------------------------
(***************************************************************************)
(* The properties of Distribution for any accounts and any parameters that *)
(* satisfy the assumptions, and any number of units in 1.                  *)
(*                                                                         *)
(* The supply is the sum of its parts because both are updated by the same *)
(* amounts; that these amounts are integers at all is what takes the type  *)
(* invariant, and the rounding lemmas of SnapshotProofs.  The cap of the   *)
(* non-voters is a sum over the accounts of what one account may take.     *)
(***************************************************************************)
EXTENDS Distribution, SnapshotProofs

\* The files the command reads do not change.
InputInv == accounts \in AccountLists /\ params \in ParamSets

IInv == InputInv /\ TypeOK /\ SupplyIsSum

-----------------------------------------------------------------------------
(* The weights of an account.                                              *)

\* A file is a function on 1 to its length, and so are the delegations.
LEMMA AccountsList ==
  ASSUME InputInv
  PROVE  /\ DOMAIN accounts = 1..Len(accounts)
         /\ Len(accounts) \in Nat
         /\ IsFiniteSet(DOMAIN accounts)
         /\ \A i \in DOMAIN accounts : IsAccount(accounts[i])
<1>1. accounts \in Seq(Range(accounts)) /\ \A i \in DOMAIN accounts : IsAccount(accounts[i])
  BY AccountsAssumption DEF InputInv
<1> QED
  BY <1>1, FileDomain

LEMMA DelegationsList ==
  ASSUME NEW acc, IsAccount(acc)
  PROVE  /\ IsFiniteSet(DOMAIN acc.Delegations)
         /\ Len(acc.Delegations) \in Nat
         /\ Cardinality(DOMAIN acc.Delegations) = Len(acc.Delegations)
         /\ acc.StakedAmount \in Nat
<1>1. acc.Delegations \in Seq(Range(acc.Delegations))
  BY DEF IsAccount
<1>2. /\ DOMAIN acc.Delegations = 1..Len(acc.Delegations)
      /\ Len(acc.Delegations) \in Nat
      /\ IsFiniteSet(DOMAIN acc.Delegations)
  BY <1>1, FileDomain
<1>3. Cardinality(DOMAIN acc.Delegations) = Len(acc.Delegations)
  <2>1. Cardinality(1..Len(acc.Delegations)) = Len(acc.Delegations)
    BY <1>2, FS_Interval
  <2> QED
    BY <1>2, <2>1
<1> DEFINE amounts == [i \in DOMAIN acc.Delegations |-> acc.Delegations[i].Amount]
<1>4. amounts \in [DOMAIN acc.Delegations -> Nat] /\ acc.StakedAmount = SumFunction(amounts)
  BY DEF IsAccount
<1> HIDE DEF amounts
<1>5. SumFunction(amounts) \in Nat
  BY <1>2, <1>4, SumFunctionType
<1> QED
  BY <1>2, <1>3, <1>4, <1>5

\* The weights of a vote, 0 for the options it does not name, add up to 1.
LEMMA VoteType ==
  ASSUME NEW vote, IsWeightedVote(vote)
  PROVE  /\ \A o \in AnyOption : Lookup(vote, o, 0) \in Nat
         /\ Lookup(vote, "empty", 0) = 0
         /\ Lookup(vote, "yes", 0) + Lookup(vote, "abstain", 0)
              + Lookup(vote, "no", 0) + Lookup(vote, "veto", 0) = One
<1>1. DOMAIN vote \subseteq VoteOption /\ vote \in [DOMAIN vote -> 1..One]
  BY DEF IsWeightedVote
<1>2. \A o \in AnyOption : Lookup(vote, o, 0) \in Nat
  BY <1>1, OneAssumption DEF Lookup
<1>3. Lookup(vote, "empty", 0) = 0
  BY <1>1 DEF Lookup, VoteOption
<1> QED
  BY <1>2, <1>3 DEF IsWeightedVote

IsDelegation(del) == del.Amount \in Nat /\ (del.Vote = NoVote \/ IsWeightedVote(del.Vote))

LEMMA InheritedType ==
  ASSUME NEW del, IsDelegation(del), NEW staked \in Nat \ {0}, NEW o \in AnyOption
  PROVE  InheritedWeight(del, staked, o) \in Nat
<1> DEFINE perc == Quo(del.Amount, staked)
<1>1. perc \in Nat
  BY QuoNat DEF IsDelegation
<1>2. CASE del.Vote = NoVote
  <2>1. InheritedWeight(del, staked, o) \in {perc, 0}
    BY <1>2 DEF InheritedWeight
  <2> HIDE DEF perc
  <2> QED
    BY <1>1, <2>1
<1>3. CASE IsWeightedVote(del.Vote) /\ del.Vote # NoVote
  <2>1. InheritedWeight(del, staked, o)
          = IF o \in DOMAIN del.Vote THEN Mul(del.Vote[o], perc) ELSE 0
    BY <1>3 DEF InheritedWeight
  <2>2. o \in DOMAIN del.Vote => del.Vote[o] \in Nat
    BY <1>3, VoteType DEF Lookup
  <2> HIDE DEF perc
  <2>3. CASE o \in DOMAIN del.Vote
    BY <1>1, <2>1, <2>2, <2>3, MulNat
  <2>4. CASE o \notin DOMAIN del.Vote
    BY <2>1, <2>4
  <2> QED
    BY <2>3, <2>4
<1> QED
  BY <1>2, <1>3 DEF IsDelegation

Inherited(del, staked) == [o \in AnyOption |-> InheritedWeight(del, staked, o)]

LEMMA MulLookup ==
  ASSUME NEW vote, IsWeightedVote(vote), NEW perc \in Nat, NEW o \in AnyOption
  PROVE  (IF o \in DOMAIN vote THEN Mul(vote[o], perc) ELSE 0)
           = Mul(perc, Lookup(vote, o, 0))
<1>1. CASE o \in DOMAIN vote
  <2>1. Lookup(vote, o, 0) = vote[o]
    BY <1>1 DEF Lookup
  <2>2. vote[o] \in Nat
    BY <2>1, VoteType
  <2>3. vote[o] * perc = perc * vote[o]
    BY <2>2
  <2>4. Mul(vote[o], perc) = Mul(perc, vote[o])
    BY <2>3 DEF Mul
  <2> QED
    BY <1>1, <2>1, <2>4
<1>2. CASE o \notin DOMAIN vote
  <2>1. Lookup(vote, o, 0) = 0
    BY <1>2 DEF Lookup
  <2> QED
    BY <1>2, <2>1, MulZero
<1> QED
  BY <1>1, <1>2

\* What a delegation adds to the options is its share of the stake, to three
\* units: one of the quotient, and two of the four products.
LEMMA InheritedError ==
  ASSUME NEW del, IsDelegation(del), NEW staked \in Nat \ {0}
  PROVE  LET d == OptionsTotal(Inherited(del, staked))
         IN  /\ d \in Nat
             /\ staked * d - del.Amount * One <= 3 * staked
             /\ del.Amount * One - staked * d <= 3 * staked
<1> DEFINE perc == Quo(del.Amount, staked)
           f == Inherited(del, staked)
           d == OptionsTotal(f)
<1>1. perc \in Nat /\ -staked <= staked * perc - del.Amount * One
      /\ staked * perc - del.Amount * One <= staked
  BY QuoError DEF IsDelegation
<1>2. {"yes", "no", "veto", "abstain", "empty"} \subseteq AnyOption
  BY DEF AnyOption, VoteOption
<1>3. \A o \in AnyOption : f[o] = InheritedWeight(del, staked, o) /\ f[o] \in Nat
  BY InheritedType DEF Inherited
<1>4. d = f["yes"] + f["no"] + f["veto"] + f["abstain"] + f["empty"]
  BY DEF OptionsTotal
<1>5. d \in Nat /\ -2 <= d - perc /\ d - perc <= 2
  <2>1. CASE del.Vote = NoVote
    <3>1. /\ f["yes"] = 0 /\ f["no"] = 0 /\ f["veto"] = 0 /\ f["abstain"] = 0
          /\ f["empty"] = perc
      BY <1>2, <1>3, <2>1 DEF InheritedWeight
    <3> HIDE DEF f, d, perc
    <3>2. d = perc
      BY <1>1, <1>4, <3>1
    <3> QED
      BY <1>1, <3>2
  <2>2. CASE IsWeightedVote(del.Vote) /\ del.Vote # NoVote
    <3>1. \A o \in AnyOption : f[o] = Mul(perc, Lookup(del.Vote, o, 0))
      <4> TAKE o \in AnyOption
      <4>1. f[o] = IF o \in DOMAIN del.Vote THEN Mul(del.Vote[o], perc) ELSE 0
        BY <1>3, <2>2 DEF InheritedWeight
      <4> HIDE DEF f, perc
      <4> QED
        BY <1>1, <2>2, <4>1, MulLookup
    <3> HIDE DEF f, d, perc
    <3>2. f["empty"] = 0
      BY <1>1, <1>2, <2>2, <3>1, VoteType, MulZero
    <3> PICK y \in Nat, a \in Nat, n \in Nat, v \in Nat :
          y = f["yes"] /\ a = f["abstain"] /\ n = f["no"] /\ v = f["veto"]
      BY <1>2, <1>3
    <3> PICK wy \in Nat, wa \in Nat, wn \in Nat, wv \in Nat :
          /\ wy = Lookup(del.Vote, "yes", 0) /\ wa = Lookup(del.Vote, "abstain", 0)
          /\ wn = Lookup(del.Vote, "no", 0) /\ wv = Lookup(del.Vote, "veto", 0)
      BY <1>2, <2>2, VoteType
    <3>3. wy + wa + wn + wv = One
      BY <2>2, VoteType
    <3>4. y = Mul(perc, wy) /\ a = Mul(perc, wa) /\ n = Mul(perc, wn) /\ v = Mul(perc, wv)
      BY <1>2, <3>1
    <3>5. -2 <= y + a + n + v - perc /\ y + a + n + v - perc <= 2
      BY <1>1, <3>3, <3>4, FourParts
    <3>6. d = y + a + n + v
      BY <1>4, <3>2
    <3> QED
      BY <1>1, <3>5, <3>6
  <2> QED
    BY <2>1, <2>2 DEF IsDelegation
<1> HIDE DEF perc, f, d
<1>6. staked * d <= staked * perc + 2 * staked /\ staked * perc <= staked * d + 2 * staked
  <2>1. staked * d <= staked * (perc + 2)
    BY <1>1, <1>5
  <2>2. staked * perc <= staked * (d + 2)
    BY <1>1, <1>5
  <2>3. staked * (perc + 2) = staked * perc + 2 * staked
        /\ staked * (d + 2) = staked * d + 2 * staked
    BY <1>1, <1>5
  <2> QED
    BY <2>1, <2>2, <2>3
<1>7. d \in Nat /\ staked * d - del.Amount * One <= 3 * staked
      /\ del.Amount * One - staked * d <= 3 * staked
  <2> PICK sd \in Int, sp \in Int, ao \in Int :
         sd = staked * d /\ sp = staked * perc /\ ao = del.Amount * One
    BY <1>1, <1>5, OneAssumption DEF IsDelegation
  <2>1. -staked <= sp - ao /\ sp - ao <= staked
    BY <1>1
  <2>2. sd <= sp + 2 * staked /\ sp <= sd + 2 * staked
    BY <1>6
  <2>3. sd - ao <= 3 * staked /\ ao - sd <= 3 * staked
    BY <2>1, <2>2
  <2> QED
    BY <1>5, <2>3
<1> QED
  BY <1>7 DEF d, f

\* The weights add up to 1, to three units for each delegation.
LEMMA WeightsType ==
  ASSUME NEW acc, IsAccount(acc)
  PROVE  VoteWeights(acc) \in [AnyOption -> Nat]
<1> DEFINE D == DOMAIN acc.Delegations
           f(o) == [i \in D |-> InheritedWeight(acc.Delegations[i], acc.StakedAmount, o)]
<1>1. IsFiniteSet(D) /\ acc.StakedAmount \in Nat
  BY DelegationsList
<1>2. ASSUME NEW o \in AnyOption PROVE VoteWeights(acc)[o] \in Nat
  <2>1. CASE acc.StakedAmount = 0
    BY <2>1, OneAssumption DEF VoteWeights
  <2>2. CASE acc.StakedAmount # 0 /\ acc.Vote = NoVote
    <3>1. VoteWeights(acc)[o] = SumFunction(f(o))
      BY <2>2 DEF VoteWeights
    <3>2. ASSUME NEW i \in D PROVE f(o)[i] \in Nat
      <4>1. IsDelegation(acc.Delegations[i])
        BY DEF IsAccount, IsDelegation
      <4>2. acc.StakedAmount \in Nat \ {0}
        BY <1>1, <2>2
      <4> QED
        BY <4>1, <4>2, InheritedType
    <3>3. f(o) \in [D -> Nat]
      BY <3>2
    <3> HIDE DEF f, D
    <3> QED
      BY <1>1, <3>1, <3>3, SumFunctionType
  <2>3. CASE acc.StakedAmount # 0 /\ acc.Vote # NoVote
    <3>1. VoteWeights(acc)[o] = Lookup(acc.Vote, o, 0)
      BY <2>3 DEF VoteWeights
    <3> QED
      BY <2>3, <3>1, VoteType DEF IsAccount
  <2> QED
    BY <2>1, <2>2, <2>3
<1> QED
  BY <1>2 DEF VoteWeights

LEMMA WeightsSum ==
  ASSUME NEW acc, IsAccount(acc)
  PROVE  LET s == OptionsTotal(VoteWeights(acc))
             n == Len(acc.Delegations)
         IN  /\ s \in Nat
             /\ s - One <= 3 * n
             /\ One - s <= 3 * n
<1> DEFINE D == DOMAIN acc.Delegations
           A == acc.StakedAmount
           n == Len(acc.Delegations)
           w == VoteWeights(acc)
           s == OptionsTotal(w)
<1>1. IsFiniteSet(D) /\ A \in Nat /\ n \in Nat /\ Cardinality(D) = n
  BY DelegationsList
<1>2. {"yes", "no", "veto", "abstain", "empty"} \subseteq AnyOption
  BY DEF AnyOption, VoteOption
<1>3. w \in [AnyOption -> Nat]
  BY WeightsType
<1>4. s = w["yes"] + w["no"] + w["veto"] + w["abstain"] + w["empty"]
  BY DEF OptionsTotal
<1>5. s \in Nat
  <2> HIDE DEF w, s
  <2> QED
    BY <1>2, <1>3, <1>4
<1>6. CASE A = 0
  <2>1. w["yes"] = 0 /\ w["no"] = 0 /\ w["veto"] = 0 /\ w["abstain"] = 0 /\ w["empty"] = One
    BY <1>2, <1>6 DEF VoteWeights
  <2> HIDE DEF w, s
  <2>2. s = One
    BY <1>4, <2>1, OneAssumption
  <2> HIDE DEF n
  <2>3. s - One <= 3 * n /\ One - s <= 3 * n
    BY <1>1, <2>2, OneAssumption
  <2> QED
    BY <1>5, <2>3 DEF s, w, n
<1>7. CASE A # 0 /\ acc.Vote # NoVote
  <2>1. \A o \in AnyOption : w[o] = Lookup(acc.Vote, o, 0)
    BY <1>7 DEF VoteWeights
  <2>2. w["empty"] = 0 /\ w["yes"] + w["abstain"] + w["no"] + w["veto"] = One
    BY <1>2, <1>7, <2>1, VoteType DEF IsAccount
  <2> HIDE DEF w, s
  <2>3. s = One
    BY <1>2, <1>3, <1>4, <2>2, OneAssumption
  <2> HIDE DEF n
  <2>4. s - One <= 3 * n /\ One - s <= 3 * n
    BY <1>1, <2>3, OneAssumption
  <2> QED
    BY <1>5, <2>4 DEF s, w, n
<1>8. CASE A # 0 /\ acc.Vote = NoVote
  <2> DEFINE del(i) == acc.Delegations[i]
             f(o) == [i \in D |-> InheritedWeight(del(i), A, o)]
             total == [i \in D |-> OptionsTotal(Inherited(del(i), A))]
             amounts == [i \in D |-> del(i).Amount]
             ones == [i \in D |-> 1]
  <2>1. A \in Nat \ {0}
    BY <1>1, <1>8
  <2>2. \A i \in D : IsDelegation(del(i))
    BY DEF IsAccount, IsDelegation
  <2>3. \A o \in AnyOption : w[o] = SumFunctionOnSet(f(o), D)
    BY <1>8 DEF VoteWeights, SumFunction
  <2>4. \A o \in AnyOption : \A i \in D : f(o)[i] \in Nat
    BY <2>1, <2>2, InheritedType
  <2>5. \A i \in D : total[i] = f("yes")[i] + f("no")[i] + f("veto")[i]
                                 + f("abstain")[i] + f("empty")[i]
    BY <1>2 DEF OptionsTotal, Inherited
  <2>6. \A i \in D : /\ total[i] \in Nat /\ amounts[i] \in Nat
                     /\ A * total[i] - amounts[i] * One <= 3 * A
                     /\ amounts[i] * One - A * total[i] <= 3 * A
    <3> TAKE i \in D
    <3>1. IsDelegation(del(i)) /\ amounts[i] = del(i).Amount
          /\ total[i] = OptionsTotal(Inherited(del(i), A))
      BY <2>2
    <3>2. del(i).Amount \in Nat
      BY <3>1 DEF IsDelegation
    <3> HIDE DEF del, total, amounts, A
    <3> QED
      BY <2>1, <3>1, <3>2, InheritedError
  <2>7. A = SumFunctionOnSet(amounts, D)
    BY DEF IsAccount, SumFunction
  <2>8. SumFunctionOnSet(total, D) = s
    <3> DEFINE y == f("yes")  no == f("no")  v == f("veto")  ab == f("abstain")
               e == f("empty")
               g1 == [i \in D |-> y[i] + no[i]]
               g2 == [i \in D |-> g1[i] + v[i]]
               g3 == [i \in D |-> g2[i] + ab[i]]
    <3>1. \A i \in D : /\ y[i] \in Int /\ no[i] \in Int /\ v[i] \in Int /\ ab[i] \in Int
                       /\ e[i] \in Int
      <4> HIDE DEF f
      <4> QED
        BY <1>2, <2>4
    <3>2. /\ w["yes"] = SumFunctionOnSet(y, D) /\ w["no"] = SumFunctionOnSet(no, D)
          /\ w["veto"] = SumFunctionOnSet(v, D) /\ w["abstain"] = SumFunctionOnSet(ab, D)
          /\ w["empty"] = SumFunctionOnSet(e, D)
      <4> HIDE DEF f, w
      <4> QED
        BY <1>2, <2>3
    <3>3. \A i \in D : total[i] = y[i] + no[i] + v[i] + ab[i] + e[i]
      <4> HIDE DEF f, total
      <4> QED
        BY <2>5
    <3> HIDE DEF f, w, total, D, y, no, v, ab, e
    <3>4. \A i \in D : g1[i] \in Int /\ g1[i] = y[i] + no[i]
      BY <3>1
    <3>5. \A i \in D : g2[i] \in Int /\ g2[i] = g1[i] + v[i]
      BY <3>1, <3>4
    <3>6. \A i \in D : g3[i] \in Int /\ g3[i] = g2[i] + ab[i]
      BY <3>1, <3>5
    <3> HIDE DEF g1, g2, g3
    <3>7. \A i \in D : total[i] = g3[i] + e[i]
      BY <3>1, <3>3, <3>4, <3>5, <3>6
    <3>8. SumFunctionOnSet(g1, D) = SumFunctionOnSet(y, D) + SumFunctionOnSet(no, D)
      BY <1>1, <3>1, <3>4, SumPlus
    <3>9. SumFunctionOnSet(g2, D) = SumFunctionOnSet(g1, D) + SumFunctionOnSet(v, D)
      BY <1>1, <3>1, <3>4, <3>5, SumPlus
    <3>10. SumFunctionOnSet(g3, D) = SumFunctionOnSet(g2, D) + SumFunctionOnSet(ab, D)
      BY <1>1, <3>1, <3>5, <3>6, SumPlus
    <3>11. SumFunctionOnSet(total, D) = SumFunctionOnSet(g3, D) + SumFunctionOnSet(e, D)
      BY <1>1, <3>1, <3>6, <3>7, SumPlus
    <3> HIDE DEF s
    <3> QED
      BY <1>4, <3>2, <3>8, <3>9, <3>10, <3>11
  <2>9. SumFunctionOnSet(ones, D) = n
    <3>1. \A i \in D : ones[i] = 1
      OBVIOUS
    <3> HIDE DEF ones, D, n
    <3> PICK c \in Int : c = 1
      OBVIOUS
    <3>2. \A i \in D : ones[i] = c
      BY <3>1
    <3>3. SumFunctionOnSet(ones, D) = c * Cardinality(D)
      BY <1>1, <3>2, SumConstant
    <3> QED
      BY <1>1, <3>3
  <2>10. \A i \in D : ones[i] = 1
    OBVIOUS
  <2> HIDE DEF total, amounts, ones, D, A, n, s, w
  <2>11. PICK a3 \in Int : a3 = 3 * A
    BY <2>1
  <2>12. \A i \in D : /\ total[i] \in Int /\ amounts[i] \in Int /\ ones[i] \in Int
    BY <2>6, <2>10
  <2>13. \A i \in D : A * total[i] <= One * amounts[i] + a3 * ones[i]
    <3> TAKE i \in D
    <3> PICK at \in Int, oa \in Int : at = A * total[i] /\ oa = One * amounts[i]
      BY <2>1, <2>12, OneAssumption
    <3>1. at - oa <= 3 * A
      BY <2>6, <2>12, OneAssumption
    <3>2. a3 * ones[i] = 3 * A
      BY <2>10, <2>11
    <3> QED
      BY <2>1, <3>1, <3>2
  <2>14. \A i \in D : One * amounts[i] <= A * total[i] + a3 * ones[i]
    <3> TAKE i \in D
    <3> PICK at \in Int, oa \in Int : at = A * total[i] /\ oa = One * amounts[i]
      BY <2>1, <2>12, OneAssumption
    <3>1. oa - at <= 3 * A
      BY <2>6, <2>12, OneAssumption
    <3>2. a3 * ones[i] = 3 * A
      BY <2>10, <2>11
    <3> QED
      BY <2>1, <3>1, <3>2
  <2>15. One \in Int /\ A \in Int
    BY <2>1, OneAssumption
  <2>16. A * s <= One * A + a3 * n
    BY <1>1, <2>7, <2>8, <2>9, <2>11, <2>12, <2>13, <2>15, SumLinear
  <2>17. One * A <= A * s + a3 * n
    BY <1>1, <2>7, <2>8, <2>9, <2>11, <2>12, <2>14, <2>15, SumLinear
  <2>18. s - One <= 3 * n
    <3> DEFINE e == s - One - 3 * n
    <3>1. e \in Int
      BY <1>1, <1>5, <2>15
    <3>2. A * e <= 0
      <4>1. A * e = A * s - One * A - a3 * n
        <5> PICK one \in Int : one = One
          BY <2>15
        <5>1. A * (s - one - 3 * n) = A * s - one * A - (3 * A) * n
          BY <1>1, <1>5, <2>15
        <5> QED
          BY <2>11, <5>1
      <4> PICK as \in Int, oa \in Int, an \in Int :
            as = A * s /\ oa = One * A /\ an = a3 * n
        BY <1>1, <1>5, <2>11, <2>15
      <4> HIDE DEF e
      <4> QED
        BY <2>16, <4>1
    <3> HIDE DEF e
    <3>3. e <= 0
      <4>1. ASSUME e >= 1 PROVE FALSE
        <5>1. A * e >= A * 1
          BY <2>1, <3>1, <4>1
        <5> QED
          BY <2>1, <3>1, <3>2, <5>1
      <4> QED
        BY <3>1, <4>1
    <3> QED
      BY <1>1, <1>5, <2>15, <3>3 DEF e
  <2>19. One - s <= 3 * n
    <3> DEFINE e == One - s - 3 * n
    <3>1. e \in Int
      BY <1>1, <1>5, <2>15
    <3>2. A * e <= 0
      <4>1. A * e = One * A - A * s - a3 * n
        <5> PICK one \in Int : one = One
          BY <2>15
        <5>1. A * (one - s - 3 * n) = one * A - A * s - (3 * A) * n
          BY <1>1, <1>5, <2>15
        <5> QED
          BY <2>11, <5>1
      <4> PICK as \in Int, oa \in Int, an \in Int :
            as = A * s /\ oa = One * A /\ an = a3 * n
        BY <1>1, <1>5, <2>11, <2>15
      <4> HIDE DEF e
      <4> QED
        BY <2>17, <4>1
    <3> HIDE DEF e
    <3>3. e <= 0
      <4>1. ASSUME e >= 1 PROVE FALSE
        <5>1. A * e >= A * 1
          BY <2>1, <3>1, <4>1
        <5> QED
          BY <2>1, <3>1, <3>2, <5>1
      <4> QED
        BY <3>1, <4>1
    <3> QED
      BY <1>1, <1>5, <2>15, <3>3 DEF e
  <2> QED
    BY <1>5, <2>18, <2>19 DEF s, w, n
<1> QED
  BY <1>6, <1>7, <1>8

-----------------------------------------------------------------------------
(* Lemmas on the operators.                                                *)

LEMMA ParamsType ==
  ASSUME InputInv
  PROVE  /\ params.yesVotesMultiplier \in Nat /\ params.noVotesMultiplier \in Nat
         /\ params.bonus \in Nat /\ params.malus \in Nat
         /\ params.supplyFactor \in Nat /\ params.supplyMintFactor \in Nat
BY ParamsAssumption DEF InputInv

\* What an account that is read holds, and the weights of its vote.
LEMMA AccountType ==
  ASSUME InputInv, TypeOK, next <= Len(accounts)
  PROVE  /\ Len(accounts) \in Nat
         /\ next + 1 \in 1..(Len(accounts) + 1)
         /\ accounts[next].LiquidAmount \in Nat
         /\ accounts[next].StakedAmount \in Nat
         /\ VoteWeights(accounts[next]) \in [AnyOption -> Nat]
<1>1. Len(accounts) \in Nat /\ DOMAIN accounts = 1..Len(accounts)
  BY AccountsList
<1>2. next \in DOMAIN accounts /\ next + 1 \in 1..(Len(accounts) + 1)
  BY <1>1 DEF TypeOK
<1>3. IsAccount(accounts[next])
  BY <1>2, AccountsList
<1>4. accounts[next].LiquidAmount \in Nat
  BY <1>3 DEF IsAccount
<1> QED
  BY <1>1, <1>2, <1>3, <1>4, DelegationsList, WeightsType

LEMMA AtomAmountType ==
  ASSUME InputInv, TypeOK, next <= Len(accounts), NEW o \in AnyOption
  PROVE  AtomAmount(accounts[next], o) \in Nat
<1>1. VoteWeights(accounts[next])[o] \in Nat /\ accounts[next].StakedAmount \in Nat
  BY AccountType
<1> QED
  BY <1>1, MulNat DEF AtomAmount

LEMMA MultipliedType ==
  ASSUME InputInv, TypeOK, NEW amount \in Nat, NEW o \in AnyOption
  PROVE  Multiplied(amount, o) \in Nat
<1>1. nonVotersMultiplier \in Nat
  BY DEF TypeOK
<1>2. /\ Mul(amount, params.yesVotesMultiplier) \in Nat
      /\ Mul(amount, params.noVotesMultiplier) \in Nat
      /\ Mul(amount, nonVotersMultiplier) \in Nat
  BY <1>1, ParamsType, MulNat
<1>3. /\ Mul(Mul(amount, params.noVotesMultiplier), params.bonus) \in Nat
      /\ Mul(Mul(amount, nonVotersMultiplier), params.malus) \in Nat
  BY <1>2, ParamsType, MulNat
<1>4. o \in {"yes", "abstain", "no", "veto", "empty"}
  BY DEF AnyOption, VoteOption
<1>5. CASE o = "yes"
  BY <1>2, <1>5 DEF Multiplied
<1>6. CASE o = "no"
  BY <1>2, <1>6 DEF Multiplied
<1>7. CASE o = "veto"
  BY <1>3, <1>7 DEF Multiplied
<1>8. CASE o = "abstain"
  BY <1>2, <1>8 DEF Multiplied
<1>9. CASE o = "empty"
  BY <1>3, <1>9 DEF Multiplied
<1> QED
  BY <1>4, <1>5, <1>6, <1>7, <1>8, <1>9

LEMMA AtoneAmountType ==
  ASSUME InputInv, TypeOK, next <= Len(accounts), NEW o \in AnyOption
  PROVE  AtoneAmount(accounts[next], o) \in Nat
<1>1. Multiplied(AtomAmount(accounts[next], o), o) \in Nat
  BY AtomAmountType, MultipliedType
<1> QED
  BY <1>1, ParamsType, MulNat DEF AtoneAmount

LEMMA LiquidAtoneType ==
  ASSUME InputInv, TypeOK, next <= Len(accounts)
  PROVE  LiquidAtone(accounts[next]) \in Nat
<1>1. accounts[next].LiquidAmount \in Nat /\ nonVotersMultiplier \in Nat
  BY AccountType DEF TypeOK
<1>2. Mul(nonVotersMultiplier, params.malus) \in Nat
  BY <1>1, ParamsType, MulNat
<1>3. Mul(accounts[next].LiquidAmount, Mul(nonVotersMultiplier, params.malus)) \in Nat
  BY <1>1, <1>2, MulNat
<1> QED
  BY <1>3, ParamsType, MulNat DEF LiquidAtone

\* A sum of options is a natural, and adds up option by option.
LEMMA OptionsTotalAdd ==
  ASSUME NEW f \in [AnyOption -> Nat], NEW g \in [AnyOption -> Nat]
  PROVE  /\ OptionsTotal(f) \in Nat
         /\ OptionsTotal([o \in AnyOption |-> f[o] + g[o]])
              = OptionsTotal(f) + OptionsTotal(g)
<1>1. {"yes", "no", "veto", "abstain", "empty"} \subseteq AnyOption
  BY DEF AnyOption, VoteOption
<1>2. /\ f["yes"] \in Nat /\ f["no"] \in Nat /\ f["veto"] \in Nat
      /\ f["abstain"] \in Nat /\ f["empty"] \in Nat
      /\ g["yes"] \in Nat /\ g["no"] \in Nat /\ g["veto"] \in Nat
      /\ g["abstain"] \in Nat /\ g["empty"] \in Nat
  BY <1>1
<1> QED
  BY <1>1, <1>2 DEF OptionsTotal

LEMMA AirdropAmountType ==
  ASSUME InputInv, TypeOK, next <= Len(accounts)
  PROVE  AirdropAmount(accounts[next]) \in Nat
<1> DEFINE votes == [o \in AnyOption |-> AtoneAmount(accounts[next], o)]
<1>1. LiquidAtone(accounts[next]) \in Nat /\ votes \in [AnyOption -> Nat]
  BY AtoneAmountType, LiquidAtoneType
<1> HIDE DEF votes
<1>2. OptionsTotal(votes) \in Nat
  BY <1>1, OptionsTotalAdd
<1> QED
  BY <1>1, <1>2 DEF AirdropAmount, votes

LEMMA AddToType ==
  ASSUME NEW d, IsDistrib(d), NEW votes \in [AnyOption -> Nat],
         NEW liquid \in Nat, NEW total \in Nat
  PROVE  IsDistrib(AddTo(d, votes, liquid, total))
BY DEF IsDistrib, AddTo

-----------------------------------------------------------------------------
(* The invariant.                                                          *)

LEMMA InitInv == Init => IInv
<1> SUFFICES ASSUME Init PROVE IInv
  OBVIOUS
<1>1. InputInv /\ Len(accounts) \in Nat
  BY AccountsAssumption DEF Init, DistributionInit, InputInv
<1>2. IsDistrib(EmptyDistrib)
  BY DEF IsDistrib, EmptyDistrib
<1>3. TypeOK
  BY <1>1, <1>2 DEF Init, DistributionInit, TypeOK
<1>4. SupplyIsSum
  <2>1. atone.supply = 0 /\ atone.unstaked = 0 /\ \A o \in AnyOption : atone.votes[o] = 0
    BY DEF Init, DistributionInit, EmptyDistrib
  <2> QED
    BY <2>1 DEF SupplyIsSum, OptionsTotal, AnyOption, VoteOption
<1> QED
  BY <1>1, <1>3, <1>4 DEF IInv

\* What the three actions that add an airdrop amount to the sums have in common.
LEMMA AddAirdropStep ==
  ASSUME InputInv, TypeOK, SupplyIsSum, AddAirdrop
  PROVE  IsDistrib(atone') /\ SupplyIsSum' /\ AmountOfNext \in Nat
<1> DEFINE acc == accounts[next]
           votes == [o \in AnyOption |-> AtoneAmount(acc, o)]
           liquid == LiquidAtone(acc)
<1>1. next <= Len(accounts) /\ atone' = AddTo(atone, votes, liquid, AirdropAmount(acc))
  BY DEF AddAirdrop
<1>2. votes \in [AnyOption -> Nat] /\ liquid \in Nat
  BY <1>1, AtoneAmountType, LiquidAtoneType
<1>3. AirdropAmount(acc) = liquid + OptionsTotal(votes)
  BY DEF AirdropAmount
<1>4. IsDistrib(atone)
  BY DEF TypeOK
<1> HIDE DEF votes, liquid, acc
<1>5. OptionsTotal(votes) \in Nat /\ AirdropAmount(acc) \in Nat
  <2>1. OptionsTotal(votes) \in Nat
    BY <1>2, OptionsTotalAdd
  <2> QED
    BY <1>2, <1>3, <2>1
<1>6. IsDistrib(atone')
  BY <1>1, <1>2, <1>4, <1>5, AddToType
<1>7. SupplyIsSum'
  <2>1. /\ atone'.supply = atone.supply + (liquid + OptionsTotal(votes))
        /\ atone'.votes = [o \in AnyOption |-> atone.votes[o] + votes[o]]
        /\ atone'.unstaked = atone.unstaked + liquid
    BY <1>1, <1>3 DEF AddTo
  <2>2. atone.votes \in [AnyOption -> Nat] /\ atone.unstaked \in Nat
    BY <1>4 DEF IsDistrib
  <2>3. OptionsTotal(atone.votes) \in Nat
        /\ OptionsTotal(atone'.votes) = OptionsTotal(atone.votes) + OptionsTotal(votes)
    BY <1>2, <2>1, <2>2, OptionsTotalAdd
  <2>4. atone.supply = OptionsTotal(atone.votes) + atone.unstaked
    BY DEF SupplyIsSum
  <2>5. atone'.supply = OptionsTotal(atone'.votes) + atone'.unstaked
    BY <1>2, <1>5, <2>1, <2>2, <2>3, <2>4
  <2>6. SupplyIsSum' <=> atone'.supply = OptionsTotal(atone'.votes) + atone'.unstaked
    BY DEF SupplyIsSum, OptionsTotal
  <2> QED
    BY <2>5, <2>6
<1>8. AmountOfNext \in Nat
  BY <1>5, ChopRoundNat DEF AmountOfNext, Worth, WholeAmount, RoundInt, acc
<1> QED
  BY <1>6, <1>7, <1>8

LEMMA NextInv ==
  ASSUME IInv, [DistributionNext]_distributionVars
  PROVE  IInv'
<1>0. InputInv /\ TypeOK /\ SupplyIsSum
  BY DEF IInv
<1>1. ASSUME Begin PROVE IInv'
  BY <1>0, <1>1
  DEF Begin, input, airdrop, minted, IInv, InputInv, TypeOK, IsDistrib, SupplyIsSum,
      OptionsTotal
<1>2. ASSUME Survey PROVE IInv'
  <2> DEFINE acc == accounts[next]
             votes == [o \in AnyOption |-> AtomAmount(acc, o)]
             total == acc.StakedAmount + acc.LiquidAmount
  <2>1. next <= Len(accounts) /\ next' = next + 1
        /\ atom' = AddTo(atom, votes, acc.LiquidAmount, total)
        /\ UNCHANGED <<input, phase, nonVotersMultiplier, airdrop, minted>>
    BY <1>2 DEF Survey
  <2>2. acc.LiquidAmount \in Nat /\ acc.StakedAmount \in Nat
        /\ next' \in 1..(Len(accounts) + 1)
    BY <1>0, <2>1, AccountType
  <2>3. votes \in [AnyOption -> Nat] /\ total \in Nat
    <3>1. \A o \in AnyOption : AtomAmount(acc, o) \in Nat
      BY <1>0, <2>1, AtomAmountType
    <3> QED
      BY <2>2, <3>1
  <2>4. IsDistrib(atom')
    <3>1. IsDistrib(atom)
      BY <1>0 DEF TypeOK
    <3> HIDE DEF votes, total, acc
    <3> QED
      BY <2>1, <2>2, <2>3, <3>1, AddToType
  <2> HIDE DEF votes, total, acc
  <2>5. TypeOK'
    BY <1>0, <2>1, <2>2, <2>4 DEF TypeOK, input, airdrop, minted, IsDistrib
  <2> QED
    BY <1>0, <2>1, <2>5 DEF IInv, InputInv, SupplyIsSum, OptionsTotal, input, airdrop
<1>3. ASSUME ComputeMultiplier PROVE IInv'
  <2> DEFINE divisor == Mul(One - TargetNonVotersPerc, NonVotersAtom)
             voters == Mul(TargetNonVotersPerc, YesAtoneTotal + NoAtoneTotal)
  <2>1. /\ atom.votes["yes"] \in Nat /\ atom.votes["no"] \in Nat
        /\ atom.votes["veto"] \in Nat /\ atom.votes["abstain"] \in Nat
        /\ atom.votes["empty"] \in Nat /\ atom.unstaked \in Nat
    BY <1>0 DEF TypeOK, IsDistrib, AnyOption, VoteOption
  <2>2. YesAtoneTotal \in Nat /\ NoAtoneTotal \in Nat /\ NonVotersAtom \in Nat
    <3>1. YesAtoneTotal \in Nat
      BY <1>0, <2>1, ParamsType, MulNat DEF YesAtoneTotal
    <3>2. atom.votes["no"] + atom.votes["veto"] \in Nat
      BY <2>1
    <3>3. NoAtoneTotal \in Nat
      BY <1>0, <3>2, ParamsType, MulNat DEF NoAtoneTotal
    <3>4. NonVotersAtom \in Nat
      BY <2>1 DEF NonVotersAtom
    <3> QED
      BY <3>1, <3>3, <3>4
  <2>3. TargetNonVotersPerc \in Nat /\ One - TargetNonVotersPerc \in Nat
    BY TargetAssumption, OneAssumption
  <2>4. divisor \in Nat /\ voters \in Nat
    <3>1. YesAtoneTotal + NoAtoneTotal \in Nat
      BY <2>2
    <3> QED
      BY <2>2, <2>3, <3>1, MulNat
  <2>5. /\ next' = 1 /\ phase' \in {"panic", "distribute"}
        /\ UNCHANGED <<input, atom, airdrop, minted>>
        /\ \/ nonVotersMultiplier' = nonVotersMultiplier
           \/ divisor # 0 /\ nonVotersMultiplier' = Quo(voters, divisor)
    <3>1. next' = 1 /\ UNCHANGED <<input, atom, airdrop, minted>>
      BY <1>3 DEF ComputeMultiplier
    <3>2. IF divisor = 0
          THEN phase' = "panic" /\ UNCHANGED nonVotersMultiplier
          ELSE phase' = "distribute" /\ nonVotersMultiplier' = Quo(voters, divisor)
      BY <1>3 DEF ComputeMultiplier
    <3> HIDE DEF divisor, voters
    <3> QED
      BY <3>1, <3>2
  <2> HIDE DEF divisor, voters
  <2>6. nonVotersMultiplier' \in Nat
    BY <1>0, <2>4, <2>5, QuoNat DEF TypeOK
  <2>7. Len(accounts) \in Nat
    BY <1>0, AccountsAssumption DEF InputInv
  <2>8. TypeOK'
    BY <1>0, <2>5, <2>6, <2>7 DEF TypeOK, IsDistrib, input, airdrop, minted
  <2> QED
    BY <1>0, <2>5, <2>8 DEF IInv, InputInv, SupplyIsSum, OptionsTotal, input, airdrop
<1>4. ASSUME SlashIcf PROVE IInv'
  <2>1. next <= Len(accounts) /\ next' = next + 1
        /\ icfSlash' = icfSlash + accounts[next].LiquidAmount + accounts[next].StakedAmount
        /\ UNCHANGED <<input, phase, atom, nonVotersMultiplier, atone, addresses, minted>>
    BY <1>4 DEF SlashIcf
  <2>2. next' \in 1..(Len(accounts) + 1) /\ icfSlash' \in Nat
    <3>1. icfSlash \in Nat
      BY <1>0 DEF TypeOK
    <3> QED
      BY <1>0, <2>1, <3>1, AccountType
  <2>3. TypeOK'
    BY <1>0, <2>1, <2>2 DEF TypeOK, IsDistrib, input, minted
  <2> QED
    BY <1>0, <2>1, <2>3 DEF IInv, InputInv, SupplyIsSum, OptionsTotal, input
<1>5. ASSUME AddAirdrop, next' \in {next, next + 1}, phase' \in {phase, "error"},
             addresses' \in [DOMAIN addresses' -> Nat \ {0}]
      PROVE  IInv'
  <2>1. next <= Len(accounts)
        /\ UNCHANGED <<input, atom, nonVotersMultiplier, icfSlash, minted>>
    BY <1>5 DEF AddAirdrop
  <2>2. IsDistrib(atone') /\ SupplyIsSum'
    BY <1>0, <1>5, AddAirdropStep
  <2>3. next' \in 1..(Len(accounts) + 1)
    BY <1>0, <1>5, <2>1, AccountType DEF TypeOK
  <2>4. TypeOK'
    BY <1>0, <1>5, <2>1, <2>2, <2>3 DEF TypeOK, IsDistrib, input, minted
  <2> QED
    BY <1>0, <2>1, <2>2, <2>4 DEF IInv, InputInv, input
<1>6. addresses \in [DOMAIN addresses -> Nat \ {0}]
  BY <1>0 DEF TypeOK
<1>7. ASSUME SkipZero PROVE IInv'
  BY <1>5, <1>6, <1>7 DEF SkipZero
<1>8. ASSUME Credit PROVE IInv'
  <2>1. AmountOfNext \in Nat \ {0}
    BY <1>0, <1>8, AddAirdropStep DEF Credit
  <2>2. addresses' \in [DOMAIN addresses' -> Nat \ {0}]
    BY <1>6, <1>8, <2>1 DEF Credit, EnterAddress
  <2> QED
    BY <1>5, <1>8, <2>2 DEF Credit
<1>9. ASSUME FailToConvert PROVE IInv'
  BY <1>5, <1>6, <1>9 DEF FailToConvert
<1>10. ASSUME Mint PROVE IInv'
  <2>1. UNCHANGED <<input, next, atom, nonVotersMultiplier, airdrop>> /\ phase' = "done"
    BY <1>10 DEF Mint
  <2>2. Mul(atone.supply, params.supplyMintFactor) \in Nat
    BY <1>0, ParamsType, MulNat DEF TypeOK, IsDistrib
  <2>3. FromInt(2) \in Nat \ {0}
    BY OneAssumption DEF FromInt
  <2>4. communityPool' \in Nat /\ reservedAddr' \in Nat
    BY <1>10, <2>2, <2>3, QuoNat DEF Mint
  <2>5. TypeOK'
    BY <1>0, <2>1, <2>4 DEF TypeOK, IsDistrib, input, airdrop
  <2> QED
    BY <1>0, <2>1, <2>5 DEF IInv, InputInv, SupplyIsSum, OptionsTotal, input, airdrop
<1>11. ASSUME UNCHANGED distributionVars PROVE IInv'
  BY <1>0, <1>11
  DEF distributionVars, input, airdrop, minted, IInv, InputInv, TypeOK, IsDistrib,
      SupplyIsSum, OptionsTotal
<1> QED
  BY <1>1, <1>2, <1>3, <1>4, <1>7, <1>8, <1>9, <1>10, <1>11 DEF DistributionNext, Ended

-----------------------------------------------------------------------------
(* What the two passes have added up.                                      *)

Slashed ==
  [i \in DOMAIN accounts |-> IF accounts[i].Address \in IcfWallets THEN Held[i] ELSE 0]
Slack == [i \in DOMAIN accounts |-> AtomSlack(accounts[i])]
StandFor(o) == [i \in DOMAIN accounts |-> AtomAmount(accounts[i], o)]
Liquid == [i \in DOMAIN accounts |-> accounts[i].LiquidAmount]

\* The accounts the first pass and the second one have gone through.
Surveyed == IF phase \in {"idle", "survey"} THEN 1..(next - 1) ELSE DOMAIN accounts
Passed == IF phase \in {"idle", "survey"} THEN 0 ELSE next - 1

\* The first pass: the supply is what the accounts surveyed hold, each option has
\* what stands for it, the unstaked amount is what they hold liquid, and together
\* they account for the supply to the slack of these accounts.
SurveyInv ==
  /\ phase = "idle" => next = 1
  /\ atom.supply = SumFunctionOnSet(Held, Surveyed)
  /\ \A o \in AnyOption : atom.votes[o] = SumFunctionOnSet(StandFor(o), Surveyed)
  /\ atom.unstaked = SumFunctionOnSet(Liquid, Surveyed)
  /\ atom.supply - (OptionsTotal(atom.votes) + atom.unstaked)
       <= SumFunctionOnSet(Slack, Surveyed)
  /\ (OptionsTotal(atom.votes) + atom.unstaked) - atom.supply
       <= SumFunctionOnSet(Slack, Surveyed)

\* The second pass: what was slashed, whose the entries are, that each account
\* passed is settled, and how far the whole amounts are from the supply.
SettledPassed ==
  \A i \in 1..Passed : accounts[i].Address \notin IcfWallets => IsSettled(accounts[i])

AirdropInv ==
  /\ phase = "done" => next = Len(accounts) + 1
  /\ phase = "error" => next <= Len(accounts)
  /\ icfSlash = SumFunctionOnSet(Slashed, 1..Passed)
  /\ IsFiniteSet(DOMAIN addresses)
  /\ \A addr \in DOMAIN addresses : \E i \in 1..Passed :
       /\ accounts[i].Address \in DOMAIN Convert \ IcfWallets
       /\ addr = Convert[accounts[i].Address]
  /\ SettledPassed
  /\ (FromInt(SumFunction(addresses)) + Unpaid) - atone.supply <= Passed * (One \div 2)
  /\ atone.supply - (FromInt(SumFunction(addresses)) + Unpaid) <= Passed * (One \div 2)

LEMMA SlackType ==
  ASSUME NEW acc, IsAccount(acc)
  PROVE  AtomSlack(acc) \in Nat
<1> PICK n \in Nat : n = Len(acc.Delegations)
  BY DelegationsList
<1> PICK q \in Nat : q = (3 * acc.StakedAmount) \div One
  <2>1. 3 * acc.StakedAmount \in Nat
    BY DelegationsList
  <2> QED
    BY <2>1, DivMod
<1> QED
  BY DEF AtomSlack

LEMMA HeldTypes ==
  ASSUME InputInv
  PROVE  \A i \in DOMAIN accounts :
           Held[i] \in Nat /\ Slashed[i] \in Nat /\ Slack[i] \in Nat
<1> SUFFICES ASSUME NEW i \in DOMAIN accounts
             PROVE  Held[i] \in Nat /\ Slashed[i] \in Nat /\ Slack[i] \in Nat
  OBVIOUS
<1>1. IsAccount(accounts[i])
  BY AccountsList
<1>2. accounts[i].LiquidAmount \in Nat /\ accounts[i].StakedAmount \in Nat
  BY <1>1, DelegationsList DEF IsAccount
<1>3. Held[i] = accounts[i].LiquidAmount + accounts[i].StakedAmount
  BY DEF Held
<1>4. Slack[i] \in Nat
  BY <1>1, SlackType DEF Slack
<1> QED
  BY <1>2, <1>3, <1>4 DEF Slashed

LEMMA Prefix ==
  ASSUME InputInv, TypeOK
  PROVE  /\ 1..(next - 1) \subseteq DOMAIN accounts
         /\ IsFiniteSet(1..(next - 1))
         /\ next \notin 1..(next - 1)
         /\ 1..((next + 1) - 1) = 1..(next - 1) \cup {next}
         /\ next <= Len(accounts) => next \in DOMAIN accounts
         /\ next > Len(accounts) => next = Len(accounts) + 1 /\ 1..(next - 1) = DOMAIN accounts
<1>1. Len(accounts) \in Nat /\ DOMAIN accounts = 1..Len(accounts)
  BY AccountsList
<1>2. next \in 1..(Len(accounts) + 1)
  BY DEF TypeOK
<1>3. IsFiniteSet(1..(next - 1))
  BY <1>1, <1>2, FS_Interval
<1> QED
  BY <1>1, <1>2, <1>3

Distributes(k, a, b, c, d, e) ==
  /\ k * (a + b + c + d + e) = k * a + k * b + k * c + k * d + k * e
  /\ (a + b + c + d + e) * k = a * k + b * k + c * k + d * k + e * k

LEMMA FiveTimes ==
  ASSUME NEW k \in Nat, NEW a \in Nat, NEW b \in Nat, NEW c \in Nat, NEW d \in Nat,
         NEW e \in Nat
  PROVE  Distributes(k, a, b, c, d, e)
<1>1. k * (a + b + c + d + e) = k * (a + b + c + d) + k * e
  OBVIOUS
<1>2. k * (a + b + c + d) = k * (a + b + c) + k * d
  OBVIOUS
<1>3. k * (a + b + c) = k * a + k * b + k * c
  OBVIOUS
<1>4. k * (a + b + c + d + e) = (a + b + c + d + e) * k
  OBVIOUS
<1>5. k * a = a * k /\ k * b = b * k /\ k * c = c * k /\ k * d = d * k /\ k * e = e * k
  OBVIOUS
<1> DEFINE s == k * (a + b + c + d + e)
           s4 == k * (a + b + c + d)
           s3 == k * (a + b + c)
<1>6. /\ s \in Int /\ s4 \in Int /\ s3 \in Int
      /\ k * a \in Int /\ k * b \in Int /\ k * c \in Int /\ k * d \in Int /\ k * e \in Int
  OBVIOUS
<1>7. s = s4 + k * e /\ s4 = s3 + k * d /\ s3 = k * a + k * b + k * c
  BY <1>1, <1>2, <1>3
<1> HIDE DEF s, s4, s3
<1>8. s = k * a + k * b + k * c + k * d + k * e
  BY <1>6, <1>7
<1>9. s = a * k + b * k + c * k + d * k + e * k
  BY <1>5, <1>8
<1> QED
  BY <1>4, <1>8, <1>9 DEF s, Distributes

\* The parts of the staked amount of an account, each a rounded product by a
\* rounded weight.
LEMMA AccountError ==
  ASSUME NEW acc, IsAccount(acc)
  PROVE  LET s == OptionsTotal([o \in AnyOption |-> AtomAmount(acc, o)])
         IN  /\ s \in Nat
             /\ s - acc.StakedAmount <= AtomSlack(acc)
             /\ acc.StakedAmount - s <= AtomSlack(acc)
<1> DEFINE A == acc.StakedAmount
           n == Len(acc.Delegations)
           q == (3 * A) \div One
           w == VoteWeights(acc)
           p == [o \in AnyOption |-> AtomAmount(acc, o)]
           s == OptionsTotal(p)
           t == OptionsTotal(w)
           e == s - A
<1>1. A \in Nat /\ n \in Nat /\ One \in Nat \ {0}
  BY DelegationsList, OneAssumption
<1>2. {"yes", "no", "veto", "abstain", "empty"} \subseteq AnyOption
  BY DEF AnyOption, VoteOption
<1>3. w \in [AnyOption -> Nat]
  BY WeightsType
<1>4. \A o \in AnyOption : /\ p[o] \in Nat
                           /\ -One <= 2 * (One * p[o] - w[o] * A)
                           /\ 2 * (One * p[o] - w[o] * A) <= One
  <2> TAKE o \in AnyOption
  <2>1. p[o] = Mul(w[o], A) /\ w[o] \in Nat
    BY <1>3 DEF AtomAmount
  <2> HIDE DEF p, w, A
  <2> QED
    BY <1>1, <2>1, MulError
<1>5. /\ s = p["yes"] + p["no"] + p["veto"] + p["abstain"] + p["empty"]
      /\ t = w["yes"] + w["no"] + w["veto"] + w["abstain"] + w["empty"]
  BY DEF OptionsTotal
<1>6. t \in Nat /\ t - One <= 3 * n /\ One - t <= 3 * n
  BY WeightsSum
<1>7. 3 * A = One * q + ((3 * A) % One) /\ q \in Nat /\ (3 * A) % One \in 0..(One - 1)
  <2>1. 3 * A \in Nat
    BY <1>1
  <2> QED
    BY <2>1, DivMod
<1>8. AtomSlack(acc) = 3 + n * (1 + q)
  BY DEF AtomSlack
<1> HIDE DEF A, n, q, w, p, s, t
<1> PICK one \in Nat \ {0} : one = One
  BY <1>1
<1>9. s \in Nat /\ e \in Int
  BY <1>1, <1>2, <1>4, <1>5
\* Twice the error in units of 1 / One.
<1> DEFINE os == One * s
           ta == t * A
           oa == One * A
           na == n * (3 * A)
           slack == n * (1 + q)
           on == One * slack
<1>10. os \in Int /\ ta \in Int /\ oa \in Int /\ na \in Int /\ slack \in Nat /\ on \in Int
  BY <1>1, <1>6, <1>7, <1>9
<1>11. -5 * One <= 2 * (os - ta) /\ 2 * (os - ta) <= 5 * One
  <2> PICK y \in Nat, o \in Nat, v \in Nat, ab \in Nat, em \in Nat :
         y = p["yes"] /\ o = p["no"] /\ v = p["veto"] /\ ab = p["abstain"] /\ em = p["empty"]
    BY <1>2, <1>4
  <2> PICK wy \in Nat, wo \in Nat, wv \in Nat, wab \in Nat, wem \in Nat :
         /\ wy = w["yes"] /\ wo = w["no"] /\ wv = w["veto"] /\ wab = w["abstain"]
         /\ wem = w["empty"]
    BY <1>2, <1>3
  <2>1. os = one * y + one * o + one * v + one * ab + one * em
    <3>1. one * (y + o + v + ab + em) = one * y + one * o + one * v + one * ab + one * em
      <4>1. Distributes(one, y, o, v, ab, em)
        BY FiveTimes
      <4> QED
        BY <4>1 DEF Distributes
    <3> QED
      BY <1>5, <3>1
  <2>2. ta = wy * A + wo * A + wv * A + wab * A + wem * A
    <3>1. (wy + wo + wv + wab + wem) * A = wy * A + wo * A + wv * A + wab * A + wem * A
      <4>1. Distributes(A, wy, wo, wv, wab, wem)
        BY <1>1, FiveTimes
      <4> QED
        BY <4>1 DEF Distributes
    <3> QED
      BY <1>5, <3>1
  <2>3. /\ -one <= 2 * (one * y - wy * A) /\ 2 * (one * y - wy * A) <= one
        /\ -one <= 2 * (one * o - wo * A) /\ 2 * (one * o - wo * A) <= one
        /\ -one <= 2 * (one * v - wv * A) /\ 2 * (one * v - wv * A) <= one
        /\ -one <= 2 * (one * ab - wab * A) /\ 2 * (one * ab - wab * A) <= one
        /\ -one <= 2 * (one * em - wem * A) /\ 2 * (one * em - wem * A) <= one
    BY <1>2, <1>4
  <2> DEFINE y1 == one * y  o1 == one * o  v1 == one * v  ab1 == one * ab  em1 == one * em
             y2 == wy * A  o2 == wo * A  v2 == wv * A  ab2 == wab * A  em2 == wem * A
  <2>4. /\ y1 \in Int /\ o1 \in Int /\ v1 \in Int /\ ab1 \in Int /\ em1 \in Int
        /\ y2 \in Int /\ o2 \in Int /\ v2 \in Int /\ ab2 \in Int /\ em2 \in Int
    BY <1>1
  <2>5. os = y1 + o1 + v1 + ab1 + em1 /\ ta = y2 + o2 + v2 + ab2 + em2
    BY <2>1, <2>2
  <2>6. /\ -one <= 2 * (y1 - y2) /\ 2 * (y1 - y2) <= one
        /\ -one <= 2 * (o1 - o2) /\ 2 * (o1 - o2) <= one
        /\ -one <= 2 * (v1 - v2) /\ 2 * (v1 - v2) <= one
        /\ -one <= 2 * (ab1 - ab2) /\ 2 * (ab1 - ab2) <= one
        /\ -one <= 2 * (em1 - em2) /\ 2 * (em1 - em2) <= one
    BY <2>3
  <2> HIDE DEF os, ta, y1, o1, v1, ab1, em1, y2, o2, v2, ab2, em2
  <2> QED
    BY <2>4, <2>5, <2>6
<1>12. ta - oa <= na /\ oa - ta <= na
  <2>1. ta - oa = (t - one) * A /\ oa - ta = (one - t) * A /\ na = (3 * n) * A
    BY <1>1, <1>6
  <2>2. (t - one) * A <= (3 * n) * A
    BY <1>1, <1>6
  <2>3. (one - t) * A <= (3 * n) * A
    BY <1>1, <1>6
  <2> QED
    BY <2>1, <2>2, <2>3
<1>13. na <= on
  <2>1. 3 * A <= one * (1 + q)
    <3>1. one * (1 + q) = one + one * q
      BY <1>7
    <3> QED
      BY <1>1, <1>7, <3>1
  <2>2. one * (1 + q) \in Nat /\ 3 * A \in Nat
    BY <1>1, <1>7
  <2>3. n * (3 * A) <= n * (one * (1 + q))
    BY <1>1, <2>1, <2>2
  <2>4. n * (one * (1 + q)) = one * (n * (1 + q))
    BY <1>1, <1>7
  <2> QED
    BY <2>3, <2>4
<1>14. -5 * One <= 2 * (os - oa) + 2 * on /\ 2 * (os - oa) <= 5 * One + 2 * on
  <2> HIDE DEF os, oa, ta, on, na
  <2> QED
    BY <1>1, <1>10, <1>11, <1>12, <1>13
<1>15. One * (e - slack) = os - oa - on /\ One * (e + slack) = os - oa + on
  <2>1. one * ((s - A) - slack) = one * s - one * A - one * slack
    BY <1>1, <1>9, <1>10
  <2>2. one * ((s - A) + slack) = one * s - one * A + one * slack
    BY <1>1, <1>9, <1>10
  <2> QED
    BY <2>1, <2>2
<1>16. e - slack <= 3
  <2> DEFINE d == e - slack
  <2>1. d \in Int /\ 2 * (One * d) <= 5 * One
    <3>1. d \in Int
      BY <1>9, <1>10
    <3> HIDE DEF os, oa, on, slack, e
    <3> QED
      BY <1>1, <1>10, <1>14, <1>15, <3>1
  <2> HIDE DEF d
  <2>2. ASSUME d >= 3 PROVE FALSE
    <3>1. One * d >= One * 3
      BY <1>1, <2>1, <2>2
    <3> PICK od \in Int : od = One * d
      BY <1>1, <2>1
    <3> QED
      BY <1>1, <2>1, <3>1
  <2> QED
    BY <2>1, <2>2 DEF d
<1>17. e + slack >= -3
  <2> DEFINE d == e + slack
  <2>1. d \in Int /\ -5 * One <= 2 * (One * d)
    <3>1. d \in Int
      BY <1>9, <1>10
    <3> HIDE DEF os, oa, on, slack, e
    <3> QED
      BY <1>1, <1>10, <1>14, <1>15, <3>1
  <2> HIDE DEF d
  <2>2. ASSUME d <= -3 PROVE FALSE
    <3>1. One * d <= One * (-3)
      BY <1>1, <2>1, <2>2
    <3> PICK od \in Int : od = One * d
      BY <1>1, <2>1
    <3> QED
      BY <1>1, <2>1, <3>1
  <2> QED
    BY <2>1, <2>2 DEF d
<1>18. AtomSlack(acc) = 3 + slack
  BY <1>8
<1>19. s \in Nat /\ s - A <= AtomSlack(acc) /\ A - s <= AtomSlack(acc)
  <2> HIDE DEF slack
  <2> QED
    BY <1>1, <1>9, <1>10, <1>16, <1>17, <1>18
<1> QED
  BY <1>19 DEF s, p, A

LEMMA StandType ==
  ASSUME InputInv, NEW o \in AnyOption
  PROVE  \A i \in DOMAIN accounts : StandFor(o)[i] \in Nat
<1> TAKE i \in DOMAIN accounts
<1>1. IsAccount(accounts[i])
  BY AccountsList
<1>2. VoteWeights(accounts[i])[o] \in Nat /\ accounts[i].StakedAmount \in Nat
  BY <1>1, DelegationsList, WeightsType
<1>3. AtomAmount(accounts[i], o) \in Nat
  BY <1>2, MulNat DEF AtomAmount
<1> QED
  BY <1>3 DEF StandFor

LEMMA LiquidType ==
  ASSUME InputInv
  PROVE  \A i \in DOMAIN accounts : Liquid[i] \in Nat
BY AccountsList DEF Liquid, IsAccount

LEMMA StandSame ==
  ASSUME accounts' = accounts
  PROVE  \A o \in AnyOption : StandFor(o)' = StandFor(o)
BY DEF StandFor, AtomAmount

LEMMA PassInit == Init => SurveyInv /\ AirdropInv
<1> SUFFICES ASSUME Init PROVE SurveyInv /\ AirdropInv
  OBVIOUS
<1>1. /\ phase = "idle" /\ next = 1 /\ atom = EmptyDistrib /\ atone = EmptyDistrib
      /\ icfSlash = 0 /\ addresses = [a \in {} |-> 0]
  BY DEF Init, DistributionInit
<1>2. Surveyed = {} /\ Passed = 0 /\ 1..Passed = {}
  BY <1>1 DEF Surveyed, Passed
<1>3. /\ SumFunctionOnSet(Held, {}) = 0 /\ SumFunctionOnSet(Slack, {}) = 0
      /\ SumFunctionOnSet(Slashed, {}) = 0 /\ SumFunctionOnSet(Liquid, {}) = 0
  BY SumEmpty
<1>4. EmptyDistrib.supply = 0 /\ EmptyDistrib.unstaked = 0
      /\ OptionsTotal(EmptyDistrib.votes) = 0
  BY DEF EmptyDistrib, OptionsTotal, AnyOption, VoteOption
<1>5. SurveyInv
  <2>1. atom.supply = 0 /\ atom.unstaked = 0 /\ OptionsTotal(atom.votes) = 0
    BY <1>1, <1>4
  <2>2. \A o \in AnyOption : atom.votes[o] = 0 /\ SumFunctionOnSet(StandFor(o), {}) = 0
    BY <1>1, SumEmpty DEF EmptyDistrib
  <2> QED
    BY <1>1, <1>2, <1>3, <2>1, <2>2 DEF SurveyInv
<1>6. AirdropInv
  <2>1. atone.supply = 0
    BY <1>1, <1>4
  <2>2. IsFiniteSet(DOMAIN addresses) /\ DOMAIN addresses = {}
    BY <1>1, FS_EmptySet
  <2>3. SumFunction(addresses) = 0
    BY <2>2, SumEmpty DEF SumFunction
  <2>4. FromInt(0) = 0 /\ Passed * (One \div 2) = 0 /\ Unpaid = 0
    BY <1>1, <1>2, OneAssumption DEF FromInt, Unpaid
  <2>5. SettledPassed
    BY <1>2 DEF SettledPassed
  <2> QED
    BY <1>1, <1>2, <1>3, <2>1, <2>2, <2>3, <2>4, <2>5 DEF AirdropInv
<1> QED
  BY <1>5, <1>6

\* What an account adds to the first sums.
LEMMA SurveyStep ==
  ASSUME InputInv, TypeOK, SurveyInv, Survey
  PROVE  SurveyInv'
<1> DEFINE acc == accounts[next]
           votes == [o \in AnyOption |-> AtomAmount(acc, o)]
           total == acc.StakedAmount + acc.LiquidAmount
           S == 1..(next - 1)
           parts == OptionsTotal(votes)
<1>1. /\ next <= Len(accounts) /\ next' = next + 1 /\ phase = "survey"
      /\ atom' = AddTo(atom, votes, acc.LiquidAmount, total)
      /\ accounts' = accounts /\ phase' = phase
  BY DEF Survey, input
<1>2. /\ S \subseteq DOMAIN accounts /\ IsFiniteSet(S) /\ next \in DOMAIN accounts
      /\ next \notin S /\ Surveyed = S /\ Surveyed' = S \cup {next}
  BY <1>1, Prefix DEF Surveyed
<1>3. Held' = Held /\ Slack' = Slack
  BY <1>1 DEF Held, Slack
<1>4. \A i \in S \cup {next} : Held[i] \in Nat /\ Slack[i] \in Nat
  BY <1>2, HeldTypes
<1>5. Held[next] = total /\ Slack[next] = AtomSlack(acc) /\ IsAccount(acc)
      /\ acc.LiquidAmount \in Nat /\ acc.StakedAmount \in Nat /\ AtomSlack(acc) \in Nat
  <2>1. IsAccount(acc)
    BY <1>2, AccountsList
  <2>2. acc.LiquidAmount \in Nat /\ acc.StakedAmount \in Nat
    BY <2>1, DelegationsList DEF IsAccount
  <2>3. Held[next] = acc.LiquidAmount + acc.StakedAmount /\ Slack[next] = AtomSlack(acc)
    BY <1>2 DEF Held, Slack
  <2> QED
    BY <2>1, <2>2, <2>3, SlackType
<1>6. parts \in Nat /\ parts - acc.StakedAmount <= AtomSlack(acc)
      /\ acc.StakedAmount - parts <= AtomSlack(acc)
  BY <1>5, AccountError
<1>7. votes \in [AnyOption -> Nat]
  BY <1>1, AtomAmountType
<1>8. IsDistrib(atom)
  BY DEF TypeOK
<1> HIDE DEF acc, votes, S, parts
<1>9. /\ atom'.supply = atom.supply + total
      /\ atom'.votes = [o \in AnyOption |-> atom.votes[o] + votes[o]]
      /\ atom'.unstaked = atom.unstaked + acc.LiquidAmount
  BY <1>1 DEF AddTo
<1>10. OptionsTotal(atom.votes) \in Nat
       /\ OptionsTotal(atom'.votes) = OptionsTotal(atom.votes) + parts
  BY <1>7, <1>8, <1>9, OptionsTotalAdd DEF IsDistrib, parts
<1>11. SumFunctionOnSet(Held, S \cup {next}) = total + SumFunctionOnSet(Held, S)
  <2> HIDE DEF total
  <2> QED
    BY <1>2, <1>4, <1>5, SumAdd
<1>12. SumFunctionOnSet(Slack, S \cup {next}) = AtomSlack(acc) + SumFunctionOnSet(Slack, S)
  BY <1>2, <1>4, <1>5, SumAdd
<1>13. SumFunctionOnSet(Held, S) \in Int /\ SumFunctionOnSet(Slack, S) \in Int
  BY <1>2, <1>4, SumInt
<1>14. /\ atom.supply = SumFunctionOnSet(Held, S)
       /\ atom.supply - (OptionsTotal(atom.votes) + atom.unstaked) <= SumFunctionOnSet(Slack, S)
       /\ (OptionsTotal(atom.votes) + atom.unstaked) - atom.supply <= SumFunctionOnSet(Slack, S)
  BY <1>2 DEF SurveyInv
<1>15. atom.supply \in Nat /\ atom.unstaked \in Nat
  BY <1>8 DEF IsDistrib
<1> DEFINE t == SumFunctionOnSet(Slack, S \cup {next})
<1>16. /\ atom'.supply = SumFunctionOnSet(Held, S \cup {next})
       /\ atom'.supply - (OptionsTotal(atom'.votes) + atom'.unstaked) <= t
       /\ (OptionsTotal(atom'.votes) + atom'.unstaked) - atom'.supply <= t
  BY <1>5, <1>6, <1>9, <1>10, <1>11, <1>12, <1>13, <1>14, <1>15
<1>17. OptionsTotal(atom.votes)' = OptionsTotal(atom'.votes)
  BY DEF OptionsTotal
<1>18. ASSUME NEW o \in AnyOption
       PROVE  /\ atom'.votes[o] = SumFunctionOnSet(StandFor(o), S \cup {next})
              /\ StandFor(o)' = StandFor(o)
  <2> DEFINE f == StandFor(o)
  <2>1. \A i \in S \cup {next} : f[i] \in Int
    BY <1>2, StandType
  <2>2. f[next] = votes[o]
    BY <1>2 DEF StandFor, votes, acc
  <2> HIDE DEF f
  <2>3. SumFunctionOnSet(f, S \cup {next}) = f[next] + SumFunctionOnSet(f, S)
    BY <1>2, <2>1, SumAdd
  <2>4. SumFunctionOnSet(f, S) \in Int
    BY <1>2, <2>1, SumInt
  <2>5. atom.votes[o] = SumFunctionOnSet(f, S)
    BY <1>2 DEF SurveyInv, f
  <2>6. atom'.votes[o] = atom.votes[o] + votes[o] /\ votes[o] \in Int
    BY <1>7, <1>9
  <2>7. StandFor(o)' = StandFor(o)
    BY <1>1, StandSame
  <2> QED
    BY <2>2, <2>3, <2>4, <2>5, <2>6, <2>7 DEF f
<1>19. /\ atom'.unstaked = SumFunctionOnSet(Liquid, S \cup {next})
       /\ Liquid' = Liquid
  <2>1. \A i \in S \cup {next} : Liquid[i] \in Int
    BY <1>2, LiquidType
  <2>2. Liquid[next] = acc.LiquidAmount
    BY <1>2 DEF Liquid, acc
  <2>3. SumFunctionOnSet(Liquid, S \cup {next}) = Liquid[next] + SumFunctionOnSet(Liquid, S)
    BY <1>2, <2>1, SumAdd
  <2>4. SumFunctionOnSet(Liquid, S) \in Int
    BY <1>2, <2>1, SumInt
  <2>5. atom.unstaked = SumFunctionOnSet(Liquid, S)
    BY <1>2 DEF SurveyInv
  <2>6. atom'.unstaked = SumFunctionOnSet(Liquid, S \cup {next})
    BY <1>5, <1>9, <2>2, <2>3, <2>4, <2>5
  <2> QED
    BY <1>1, <2>6 DEF Liquid
<1> QED
  BY <1>1, <1>2, <1>3, <1>16, <1>17, <1>18, <1>19 DEF SurveyInv

\* The other steps leave these sums alone.
LEMMA SurveyFrame ==
  ASSUME SurveyInv, accounts' = accounts, atom' = atom, Surveyed' = Surveyed,
         phase' = "idle" => next' = 1
  PROVE  SurveyInv'
<1>1. Held' = Held /\ Slack' = Slack /\ Liquid' = Liquid
  BY DEF Held, Slack, Liquid
<1>2. OptionsTotal(atom.votes)' = OptionsTotal(atom.votes)
  BY DEF OptionsTotal
<1>3. \A o \in AnyOption : StandFor(o)' = StandFor(o)
  BY StandSame
<1> QED
  BY <1>1, <1>2, <1>3 DEF SurveyInv

LEMMA SurveyNext ==
  ASSUME IInv, SurveyInv, [DistributionNext]_distributionVars
  PROVE  SurveyInv'
<1>0. InputInv /\ TypeOK
  BY DEF IInv
<1>1. ASSUME Begin PROVE SurveyInv'
  <2>1. /\ phase = "idle" /\ phase' = "survey" /\ next' = next /\ atom' = atom
        /\ accounts' = accounts
    BY <1>1 DEF Begin, input
  <2> QED
    BY <2>1, SurveyFrame DEF Surveyed
<1>2. ASSUME Survey PROVE SurveyInv'
  BY <1>0, <1>2, SurveyStep
<1>3. ASSUME ComputeMultiplier PROVE SurveyInv'
  <2>1. /\ phase = "survey" /\ next > Len(accounts) /\ phase' \in {"panic", "distribute"}
        /\ atom' = atom /\ accounts' = accounts
    BY <1>3 DEF ComputeMultiplier, input
  <2>2. 1..(next - 1) = DOMAIN accounts
    BY <1>0, <2>1, Prefix
  <2>3. Surveyed' = Surveyed
    BY <2>1, <2>2 DEF Surveyed
  <2> QED
    BY <2>1, <2>3, SurveyFrame
<1>4. ASSUME phase = "distribute", phase' \in {"distribute", "error", "done"},
             accounts' = accounts, atom' = atom
      PROVE  SurveyInv'
  <2>1. Surveyed' = Surveyed
    BY <1>4 DEF Surveyed
  <2> QED
    BY <1>4, <2>1, SurveyFrame
<1>5. ASSUME SlashIcf PROVE SurveyInv'
  BY <1>4, <1>5 DEF SlashIcf, input
<1>6. ASSUME AddAirdrop, phase' \in {phase, "error"} PROVE SurveyInv'
  BY <1>4, <1>6 DEF AddAirdrop, input
<1>7. ASSUME SkipZero \/ Credit \/ FailToConvert PROVE SurveyInv'
  BY <1>6, <1>7 DEF SkipZero, Credit, FailToConvert
<1>8. ASSUME Mint PROVE SurveyInv'
  BY <1>4, <1>8 DEF Mint, input
<1>9. ASSUME UNCHANGED distributionVars PROVE SurveyInv'
  <2>1. accounts' = accounts /\ atom' = atom /\ next' = next /\ phase' = phase
    BY <1>9 DEF distributionVars, input
  <2>2. Surveyed' = Surveyed
    BY <2>1 DEF Surveyed
  <2> QED
    BY <2>1, <2>2, SurveyFrame DEF SurveyInv
<1> QED
  BY <1>1, <1>2, <1>3, <1>5, <1>7, <1>8, <1>9 DEF DistributionNext, Ended

-----------------------------------------------------------------------------
(* The second pass.                                                        *)

\* A whole amount is the amount to half an $ATONE.
LEMMA WholeError ==
  ASSUME NEW amount \in Nat
  PROVE  /\ WholeAmount(amount) \in Nat
         /\ FromInt(WholeAmount(amount)) - amount <= One \div 2
         /\ amount - FromInt(WholeAmount(amount)) <= One \div 2
<1> DEFINE c == ChopRound(amount)
           oc == One * c
<1>1. c \in Nat /\ -One <= 2 * (oc - amount) /\ 2 * (oc - amount) <= One
  BY ChopRoundNat
<1>2. WholeAmount(amount) = c
  BY DEF WholeAmount, RoundInt
<1>3. FromInt(c) = oc /\ oc \in Int
  <2> HIDE DEF c
  <2> QED
    BY <1>1, OneAssumption DEF FromInt
<1> HIDE DEF c, oc
<1>4. One = 2 * (One \div 2) /\ One \div 2 \in Nat
  BY OneAssumption
<1> QED
  BY <1>1, <1>2, <1>3, <1>4

\* What an account is worth depends on the parameters and the multiplier alone.
LEMMA WorthSame ==
  ASSUME NEW acc, params' = params, nonVotersMultiplier' = nonVotersMultiplier
  PROVE  AirdropAmount(acc)' = AirdropAmount(acc) /\ Worth(acc)' = Worth(acc)
<1>1. \A o : AtoneAmount(acc, o)' = AtoneAmount(acc, o)
  BY DEF AtoneAmount, Multiplied
<1>2. LiquidAtone(acc)' = LiquidAtone(acc)
  BY DEF LiquidAtone
<1>3. AirdropAmount(acc)' = AirdropAmount(acc)
  BY <1>1, <1>2 DEF AirdropAmount
<1> QED
  BY <1>3 DEF Worth

\* An account that is settled stays so when the entries stay and it gets none.
LEMMA SettledSame ==
  ASSUME NEW acc, IsSettled(acc),
         params' = params, nonVotersMultiplier' = nonVotersMultiplier,
         \A addr \in DOMAIN addresses :
            addr \in DOMAIN addresses' /\ addresses'[addr] = addresses[addr],
         HasEntry(acc)' => HasEntry(acc)
  PROVE  IsSettled(acc)'
<1>1. Worth(acc)' = Worth(acc)
  BY WorthSame
<1>2. CASE HasEntry(acc)
  BY <1>1, <1>2 DEF IsSettled, HasEntry
<1>3. CASE ~HasEntry(acc)
  BY <1>1, <1>3 DEF IsSettled
<1> QED
  BY <1>2, <1>3

\* The next account has no entry: those there are have other addresses.
LEMMA NoEntryYet ==
  ASSUME InputInv, TypeOK, AirdropInv, phase = "distribute", next \in DOMAIN accounts
  PROVE  ~HasEntry(accounts[next])
<1> SUFFICES ASSUME accounts[next].Address \in DOMAIN Convert,
                    Convert[accounts[next].Address] \in DOMAIN addresses
             PROVE  FALSE
  BY DEF HasEntry
<1>1. PICK i \in 1..(next - 1) :
        /\ accounts[i].Address \in DOMAIN Convert
        /\ Convert[accounts[next].Address] = Convert[accounts[i].Address]
  BY DEF AirdropInv, Passed
<1>2. accounts[i].Address = accounts[next].Address
  BY <1>1, ConvertAssumption
<1>3. i \in DOMAIN accounts /\ i # next
  BY Prefix
<1> QED
  BY <1>2, <1>3, AccountsAssumption DEF InputInv

\* What the actions that credit an account have in common, when they go on.
LEMMA PassStep ==
  ASSUME InputInv, TypeOK, AirdropInv, phase = "distribute", next <= Len(accounts),
         next' = next + 1, phase' = phase, accounts' = accounts,
         NEW d \in Nat, icfSlash' = icfSlash + d, d = Slashed[next],
         NEW amount \in Nat, atone'.supply = atone.supply + amount,
         NEW whole \in Nat, SumFunction(addresses') = SumFunction(addresses) + whole,
         FromInt(whole) - amount <= One \div 2,
         amount - FromInt(whole) <= One \div 2,
         IsFiniteSet(DOMAIN addresses'),
         \A addr \in DOMAIN addresses' \ DOMAIN addresses :
            /\ accounts[next].Address \in DOMAIN Convert \ IcfWallets
            /\ addr = Convert[accounts[next].Address],
         \A addr \in DOMAIN addresses :
            addr \in DOMAIN addresses' /\ addresses'[addr] = addresses[addr],
         params' = params, nonVotersMultiplier' = nonVotersMultiplier,
         NEW acc, acc = accounts[next], acc.Address \notin IcfWallets => IsSettled(acc)'
  PROVE  AirdropInv'
<1> DEFINE S == 1..(next - 1)
           h == One \div 2
           sum == SumFunction(addresses)
           from == FromInt(sum)
           n == next - 1
<1>1. /\ S \subseteq DOMAIN accounts /\ IsFiniteSet(S) /\ next \in DOMAIN accounts
      /\ next \notin S /\ 1..((next + 1) - 1) = S \cup {next}
  BY Prefix
<1>2. Passed = n /\ Passed' = next /\ n \in Nat /\ next = n + 1
  BY DEF Passed, TypeOK
<1>3. /\ icfSlash = SumFunctionOnSet(Slashed, S)
      /\ IsFiniteSet(DOMAIN addresses)
      /\ \A addr \in DOMAIN addresses : \E i \in S :
           /\ accounts[i].Address \in DOMAIN Convert \ IcfWallets
           /\ addr = Convert[accounts[i].Address]
      /\ \A i \in S : accounts[i].Address \notin IcfWallets => IsSettled(accounts[i])
      /\ (from + Unpaid) - atone.supply <= n * h /\ atone.supply - (from + Unpaid) <= n * h
  BY <1>2 DEF AirdropInv, SettledPassed
<1>16. Unpaid = 0 /\ Unpaid' = 0
  BY DEF Unpaid
<1>4. \A i \in S \cup {next} : Slashed[i] \in Nat
  BY <1>1, HeldTypes
<1>5. Held' = Held /\ Slashed' = Slashed
  BY DEF Held, Slashed
<1>6. 1..Passed' = S \cup {next}
  BY <1>1, <1>2
<1>7. icfSlash' = SumFunctionOnSet(Slashed', 1..Passed')
  <2>1. IsFiniteSet(S) /\ next \notin S /\ \A i \in S \cup {next} : Slashed[i] \in Int
    BY <1>1, <1>4
  <2>2. icfSlash = SumFunctionOnSet(Slashed, S)
    BY <1>3
  <2>3. SumFunctionOnSet(Slashed', 1..Passed') = SumFunctionOnSet(Slashed, S \cup {next})
    BY <1>5, <1>6
  <2> HIDE DEF S
  <2>4. SumFunctionOnSet(Slashed, S \cup {next}) = Slashed[next] + SumFunctionOnSet(Slashed, S)
    BY <2>1, SumAdd
  <2>5. SumFunctionOnSet(Slashed, S) \in Int
    BY <2>1, SumInt
  <2>6. icfSlash' = SumFunctionOnSet(Slashed, S \cup {next})
    BY <2>2, <2>4, <2>5
  <2> QED
    BY <2>3, <2>6
<1>8. \A addr \in DOMAIN addresses' : \E i \in 1..Passed' :
         /\ accounts'[i].Address \in DOMAIN Convert \ IcfWallets
         /\ addr = Convert[accounts'[i].Address]
  <2> TAKE addr \in DOMAIN addresses'
  <2>1. CASE addr \in DOMAIN addresses
    BY <1>3, <1>6, <2>1
  <2>2. CASE addr \notin DOMAIN addresses
    BY <1>6, <2>2
  <2> QED
    BY <2>1, <2>2
<1>9. sum \in Nat /\ from \in Nat /\ h \in Nat
  <2>1. addresses \in [DOMAIN addresses -> Nat]
    BY DEF TypeOK
  <2>2. sum \in Nat
    BY <1>3, <2>1, SumFunctionType
  <2> HIDE DEF sum
  <2> QED
    BY <2>2, OneAssumption DEF FromInt
<1>10. SumFunction(addresses)' = SumFunction(addresses')
  OBVIOUS
<1>11. FromInt(SumFunction(addresses')) = from + FromInt(whole) /\ FromInt(whole) \in Nat
  <2> HIDE DEF sum
  <2> PICK one \in Nat : one = One
    BY OneAssumption
  <2>1. (sum + whole) * one = sum * one + whole * one /\ whole * one \in Nat
    BY <1>9
  <2>2. SumFunction(addresses') = sum + whole
    BY DEF sum
  <2> QED
    BY <2>1, <2>2 DEF FromInt
<1>12. Passed' * h = n * h + h /\ n * h \in Int
  <2>1. n \in Nat /\ h \in Nat
    BY <1>2, <1>9
  <2> HIDE DEF n, h
  <2>2. (n + 1) * h = n * h + h /\ n * h \in Int
    BY <2>1
  <2> QED
    BY <1>2, <2>2
<1>13. atone.supply \in Nat
  BY DEF TypeOK, IsDistrib
<1>14. FromInt(SumFunction(addresses')) - atone'.supply <= Passed' * h
       /\ atone'.supply - FromInt(SumFunction(addresses')) <= Passed' * h
  <2> DEFINE nh == n * h
             fw == FromInt(whole)
  <2>1. nh \in Int /\ fw \in Int
    BY <1>11, <1>12
  <2>2. from - atone.supply <= nh /\ atone.supply - from <= nh
        /\ Passed' * h = nh + h
    <3>1. (from + Unpaid) - atone.supply <= nh /\ atone.supply - (from + Unpaid) <= nh
      BY <1>3
    <3>2. Passed' * h = nh + h
      BY <1>12
    <3> HIDE DEF from, nh, h
    <3> QED
      BY <1>9, <1>13, <1>16, <2>1, <3>1, <3>2
  <2>3. fw - amount <= h /\ amount - fw <= h
    OBVIOUS
  <2>4. FromInt(SumFunction(addresses')) = from + fw
    BY <1>11
  <2> DEFINE to == FromInt(SumFunction(addresses'))
             supply == atone.supply
             supplyTo == atone'.supply
             slackTo == Passed' * h
  <2>5. to = from + fw /\ supplyTo = supply + amount /\ slackTo = nh + h /\ supply \in Nat
    BY <1>13, <2>2, <2>4
  <2>6. from - supply <= nh /\ supply - from <= nh
    BY <2>2
  <2> HIDE DEF nh, from, h, fw, to, supply, supplyTo, slackTo
  <2>7. to - supplyTo <= slackTo /\ supplyTo - to <= slackTo
    BY <1>9, <2>1, <2>3, <2>5, <2>6
  <2> QED
    BY <2>7 DEF to, supplyTo, slackTo
<1>15. phase' # "done" /\ phase' # "error"
  OBVIOUS
<1>17. SettledPassed'
  <2> SUFFICES ASSUME NEW i \in 1..Passed', accounts[i].Address \notin IcfWallets,
                      NEW old, old = accounts[i]
               PROVE  IsSettled(old)'
    BY DEF SettledPassed
  <2>1. CASE i = next
    BY <2>1
  <2>2. CASE i # next
    <3>1. i \in S /\ i \in DOMAIN accounts
      BY <1>1, <1>6, <2>2
    <3>2. IsSettled(old)
      BY <1>3, <3>1
    <3>3. HasEntry(old)' => HasEntry(old)
      <4> SUFFICES ASSUME old.Address \in DOMAIN Convert,
                          Convert[old.Address] \in DOMAIN addresses' \ DOMAIN addresses
                   PROVE  FALSE
        BY DEF HasEntry
      <4>1. /\ accounts[next].Address \in DOMAIN Convert
            /\ Convert[old.Address] = Convert[accounts[next].Address]
        OBVIOUS
      <4>2. accounts[i].Address = accounts[next].Address
        BY <4>1, ConvertAssumption
      <4> QED
        BY <1>1, <2>2, <3>1, <4>2, AccountsAssumption DEF InputInv
    <3> QED
      BY <3>2, <3>3, SettledSame
  <2> QED
    BY <2>1, <2>2
<1>18. FromInt(SumFunction(addresses')) \in Nat
  <2> HIDE DEF from
  <2> QED
    BY <1>9, <1>11
<1> QED
  <2> DEFINE to == FromInt(SumFunction(addresses'))
             supplyTo == atone'.supply
             slackTo == Passed' * h
  <2>1. to - supplyTo <= slackTo /\ supplyTo - to <= slackTo
    BY <1>14
  <2>3. to \in Nat
    BY <1>18
  <2>4. (to + Unpaid') - supplyTo <= slackTo /\ supplyTo - (to + Unpaid') <= slackTo
    <3> HIDE DEF to, supplyTo, slackTo
    <3>1. to + Unpaid' = to
      BY <1>16, <2>3
    <3> QED
      BY <2>1, <3>1
  <2>5. /\ (FromInt(SumFunction(addresses')) + Unpaid') - atone'.supply <= Passed' * h
        /\ atone'.supply - (FromInt(SumFunction(addresses')) + Unpaid') <= Passed' * h
    BY <2>4
  <2> QED
    BY <1>7, <1>8, <1>15, <1>17, <2>5, Zenon DEF AirdropInv

LEMMA AirdropFrame ==
  ASSUME AirdropInv, accounts' = accounts, airdrop' = airdrop, Passed' = Passed,
         Unpaid' = Unpaid,
         phase' = "done" => next' = Len(accounts) + 1,
         phase' = "error" => next' <= Len(accounts),
         Passed = 0 \/ (params' = params /\ nonVotersMultiplier' = nonVotersMultiplier)
  PROVE  AirdropInv'
<1>1. atone' = atone /\ icfSlash' = icfSlash /\ addresses' = addresses
  BY DEF airdrop
<1>2. Slashed' = Slashed
  BY DEF Slashed, Held
<1>3. SumFunction(addresses)' = SumFunction(addresses)
  BY <1>1
<1>4. SettledPassed'
  <2> SUFFICES ASSUME NEW i \in 1..Passed, accounts[i].Address \notin IcfWallets,
                      NEW acc, acc = accounts[i]
               PROVE  IsSettled(acc)'
    BY DEF SettledPassed
  <2>1. params' = params /\ nonVotersMultiplier' = nonVotersMultiplier
    OBVIOUS
  <2>2. IsSettled(acc)
    BY DEF AirdropInv, SettledPassed
  <2>3. HasEntry(acc)' => HasEntry(acc)
    BY <1>1 DEF HasEntry
  <2> QED
    BY <1>1, <2>1, <2>2, <2>3, SettledSame
<1> QED
  BY <1>1, <1>2, <1>3, <1>4 DEF AirdropInv

LEMMA AirdropNext ==
  ASSUME IInv, AirdropInv, [DistributionNext]_distributionVars
  PROVE  AirdropInv'
<1>0. InputInv /\ TypeOK /\ SupplyIsSum
  BY DEF IInv
<1>1. ASSUME Begin \/ Survey PROVE AirdropInv'
  <2>1. /\ phase \in {"idle", "survey"} /\ phase' = "survey" /\ airdrop' = airdrop
        /\ accounts' = accounts
    BY <1>1 DEF Begin, Survey, input
  <2>2. Passed' = Passed /\ Passed = 0 /\ Unpaid' = Unpaid
    BY <2>1 DEF Passed, Unpaid
  <2> QED
    BY <2>1, <2>2, AirdropFrame
<1>2. ASSUME ComputeMultiplier PROVE AirdropInv'
  <2>1. /\ phase = "survey" /\ phase' \in {"panic", "distribute"} /\ next' = 1
        /\ airdrop' = airdrop /\ accounts' = accounts
    BY <1>2 DEF ComputeMultiplier, input
  <2>2. Passed' = Passed /\ Passed = 0 /\ Unpaid' = Unpaid
    BY <2>1 DEF Passed, Unpaid
  <2> QED
    BY <2>1, <2>2, AirdropFrame
<1>3. addresses \in [DOMAIN addresses -> Nat]
  BY <1>0 DEF TypeOK
<1>4. ASSUME SlashIcf PROVE AirdropInv'
  <2> DEFINE acc == accounts[next]
             d == acc.LiquidAmount + acc.StakedAmount
  <2>1. /\ phase = "distribute" /\ phase' = phase /\ next <= Len(accounts)
        /\ next' = next + 1 /\ accounts' = accounts
        /\ atone' = atone /\ addresses' = addresses
        /\ params' = params /\ nonVotersMultiplier' = nonVotersMultiplier
        /\ acc.Address \in IcfWallets
        /\ icfSlash' = icfSlash + acc.LiquidAmount + acc.StakedAmount
    BY <1>4 DEF SlashIcf, input
  <2>2. acc.LiquidAmount \in Nat /\ acc.StakedAmount \in Nat /\ next \in DOMAIN accounts
    BY <1>0, <2>1, AccountType, Prefix
  <2>3. d = Slashed[next] /\ d \in Nat
    BY <2>1, <2>2 DEF Slashed, Held
  <2>4. icfSlash' = icfSlash + d
    BY <1>0, <2>1, <2>2 DEF TypeOK
  <2>5. atone'.supply = atone.supply + 0
    BY <1>0, <2>1 DEF TypeOK, IsDistrib
  <2>6. IsFiniteSet(DOMAIN addresses)
    BY <2>1 DEF AirdropInv
  <2>7. SumFunction(addresses') = SumFunction(addresses) + 0
    <3>1. SumFunction(addresses) \in Nat
      BY <1>3, <2>6, SumFunctionType
    <3> QED
      BY <2>1, <3>1
  <2>8. FromInt(0) - 0 <= One \div 2 /\ 0 - FromInt(0) <= One \div 2 /\ 0 \in Nat
    BY OneAssumption DEF FromInt
  <2>9. DOMAIN addresses' = DOMAIN addresses
    BY <2>1
  <2> HIDE DEF d
  <2> QED
    BY <1>0, <2>1, <2>3, <2>4, <2>5, <2>6, <2>7, <2>8, <2>9, PassStep
<1>5. ASSUME AddAirdrop
      PROVE  /\ phase = "distribute" /\ next <= Len(accounts) /\ accounts' = accounts
             /\ icfSlash' = icfSlash + 0 /\ 0 = Slashed[next]
             /\ next \in DOMAIN accounts /\ accounts[next].Address \notin IcfWallets
             /\ params' = params /\ nonVotersMultiplier' = nonVotersMultiplier
             /\ \E amount \in Nat : /\ atone'.supply = atone.supply + amount
                                    /\ amount = AirdropAmount(accounts[next])
                                    /\ AmountOfNext = WholeAmount(amount)
  <2> DEFINE acc == accounts[next]
             votes == [o \in AnyOption |-> AtoneAmount(acc, o)]
             liquid == LiquidAtone(acc)
             amount == AirdropAmount(acc)
  <2>1. /\ phase = "distribute" /\ next <= Len(accounts) /\ accounts' = accounts
        /\ icfSlash' = icfSlash /\ acc.Address \notin IcfWallets
        /\ params' = params /\ nonVotersMultiplier' = nonVotersMultiplier
        /\ atone' = AddTo(atone, votes, liquid, amount)
    BY <1>5 DEF AddAirdrop, input
  <2>2. next \in DOMAIN accounts
    BY <1>0, <2>1, Prefix
  <2>3. Slashed[next] = 0
    BY <2>1, <2>2 DEF Slashed
  <2>4. icfSlash' = icfSlash + 0
    BY <1>0, <2>1 DEF TypeOK
  <2>5. votes \in [AnyOption -> Nat] /\ liquid \in Nat
    BY <1>0, <2>1, AtoneAmountType, LiquidAtoneType
  <2>6. amount = liquid + OptionsTotal(votes)
    BY DEF AirdropAmount
  <2>7. AmountOfNext = WholeAmount(amount)
    BY DEF AmountOfNext, Worth
  <2>11. amount = AirdropAmount(accounts[next])
    OBVIOUS
  <2> HIDE DEF votes, liquid, amount
  <2>8. OptionsTotal(votes) \in Nat
    BY <2>5, OptionsTotalAdd
  <2>9. amount \in Nat
    BY <2>5, <2>6, <2>8
  <2>10. atone'.supply = atone.supply + amount
    BY <2>1 DEF AddTo
  <2> QED
    BY <2>1, <2>2, <2>3, <2>4, <2>7, <2>9, <2>10, <2>11
<1>6. ASSUME SkipZero PROVE AirdropInv'
  <2>1. AddAirdrop /\ AmountOfNext = 0 /\ next' = next + 1 /\ phase' = phase
        /\ addresses' = addresses
    BY <1>6 DEF SkipZero
  <2> PICK amount \in Nat : /\ atone'.supply = atone.supply + amount
                            /\ AmountOfNext = WholeAmount(amount)
    BY <1>5, <2>1
  <2>2. FromInt(0) - amount <= One \div 2 /\ amount - FromInt(0) <= One \div 2
    BY <2>1, WholeError
  <2>3. IsFiniteSet(DOMAIN addresses) /\ DOMAIN addresses' = DOMAIN addresses
    BY <1>5, <2>1 DEF AirdropInv
  <2>4. SumFunction(addresses') = SumFunction(addresses) + 0
    <3>1. SumFunction(addresses) \in Nat
      BY <1>3, <2>3, SumFunctionType
    <3> QED
      BY <2>1, <3>1
  <2>5. /\ phase = "distribute" /\ next <= Len(accounts) /\ accounts' = accounts
        /\ icfSlash' = icfSlash + 0 /\ 0 = Slashed[next] /\ 0 \in Nat
        /\ params' = params /\ nonVotersMultiplier' = nonVotersMultiplier
        /\ next \in DOMAIN accounts
    BY <1>5, <2>1
  <2> PICK acc : acc = accounts[next]
    OBVIOUS
  <2>6. IsSettled(acc)'
    <3>1. Worth(acc) = 0
      BY <2>1 DEF AmountOfNext
    <3>2. Worth(acc)' = 0
      BY <2>5, <3>1, WorthSame
    <3>3. ~HasEntry(acc)
      BY <1>0, <2>5, NoEntryYet
    <3>4. ~HasEntry(acc)'
      BY <2>1, <3>3 DEF HasEntry
    <3> QED
      BY <3>2, <3>4 DEF IsSettled
  <2>7. \A addr \in DOMAIN addresses :
           addr \in DOMAIN addresses' /\ addresses'[addr] = addresses[addr]
    BY <2>1
  <2> QED
    BY <1>0, <2>1, <2>2, <2>3, <2>4, <2>5, <2>6, <2>7, PassStep
<1>7. ASSUME Credit PROVE AirdropInv'
  <2> DEFINE addr == Convert[accounts[next].Address]
             whole == AmountOfNext
             D == DOMAIN addresses
  <2>1. /\ AddAirdrop /\ next' = next + 1 /\ phase' = phase
        /\ accounts[next].Address \in DOMAIN Convert
        /\ addresses' = [a \in D \cup {addr} |-> IF a = addr THEN whole ELSE addresses[a]]
    BY <1>7 DEF Credit, EnterAddress
  <2> PICK amount \in Nat : /\ atone'.supply = atone.supply + amount
                            /\ whole = WholeAmount(amount)
    BY <1>5, <2>1
  <2>2. whole \in Nat /\ FromInt(whole) - amount <= One \div 2
        /\ amount - FromInt(whole) <= One \div 2
    BY WholeError
  <2>3. /\ phase = "distribute" /\ next <= Len(accounts) /\ accounts' = accounts
        /\ icfSlash' = icfSlash + 0 /\ 0 = Slashed[next] /\ 0 \in Nat
        /\ next \in DOMAIN accounts /\ accounts[next].Address \notin IcfWallets
        /\ params' = params /\ nonVotersMultiplier' = nonVotersMultiplier
    BY <1>5, <2>1
  <2>4. /\ IsFiniteSet(D)
        /\ \A a \in D : \E i \in 1..(next - 1) :
             /\ accounts[i].Address \in DOMAIN Convert \ IcfWallets
             /\ a = Convert[accounts[i].Address]
    BY <2>3 DEF AirdropInv, Passed
  <2> PICK acc : acc = accounts[next]
    OBVIOUS
  <2>5. addr \notin D
    <3>1. ~HasEntry(acc)
      BY <1>0, <2>3, NoEntryYet
    <3> QED
      BY <2>1, <3>1 DEF HasEntry
  <2>11. IsSettled(acc)'
    <3>1. Worth(acc)' = whole
      <4>1. Worth(acc) = whole
        BY DEF AmountOfNext
      <4> QED
        BY <2>3, <4>1, WorthSame
    <3>2. Convert[acc.Address] \in DOMAIN addresses' /\ addresses'[Convert[acc.Address]] = whole
      BY <2>1
    <3>3. HasEntry(acc)'
      BY <2>1, <3>2 DEF HasEntry
    <3> QED
      BY <3>1, <3>2, <3>3 DEF IsSettled
  <2> HIDE DEF addr, whole, D
  <2>6. /\ DOMAIN addresses' = D \cup {addr} /\ addresses'[addr] = whole
        /\ \A a \in D : addresses'[a] = addresses[a] /\ addresses[a] \in Int
    <3>1. \A a \in D : addresses[a] \in Int
      BY <1>3 DEF D
    <3> QED
      BY <2>1, <2>5, <3>1
  <2>7. IsFiniteSet(D \cup {addr})
    BY <2>4, FS_AddElement
  <2>8. SumFunction(addresses') = SumFunction(addresses) + whole
    <3>1. SumFunction(addresses') = SumFunctionOnSet(addresses', D \cup {addr})
      BY <2>6 DEF SumFunction
    <3>2. SumFunctionOnSet(addresses', D \cup {addr}) = whole + SumFunctionOnSet(addresses', D)
      BY <2>2, <2>4, <2>5, <2>6, SumAdd
    <3>3. SumFunctionOnSet(addresses', D) = SumFunctionOnSet(addresses, D)
      BY <2>4, <2>6, SumSame
    <3>4. SumFunctionOnSet(addresses, D) \in Int
      BY <2>4, <2>6, SumInt
    <3>5. SumFunction(addresses) = SumFunctionOnSet(addresses, D)
      BY DEF SumFunction, D
    <3> QED
      BY <2>2, <3>1, <3>2, <3>3, <3>4, <3>5
  <2>9. \A a \in DOMAIN addresses' \ DOMAIN addresses :
            /\ accounts[next].Address \in DOMAIN Convert \ IcfWallets
            /\ a = Convert[accounts[next].Address]
    BY <2>1, <2>3, <2>6 DEF D, addr
  <2>10. IsFiniteSet(DOMAIN addresses')
    BY <2>6, <2>7
  <2>12. \A a \in DOMAIN addresses :
            a \in DOMAIN addresses' /\ addresses'[a] = addresses[a]
    BY <2>6 DEF D
  <2> QED
    BY <1>0, <2>1, <2>2, <2>3, <2>8, <2>9, <2>10, <2>11, <2>12, PassStep
<1>8. ASSUME FailToConvert PROVE AirdropInv'
  <2>1. AddAirdrop /\ phase' = "error" /\ next' = next /\ addresses' = addresses
    BY <1>8 DEF FailToConvert
  <2> PICK amount \in Nat : /\ atone'.supply = atone.supply + amount
                            /\ amount = AirdropAmount(accounts[next])
    BY <1>5, <2>1
  <2>2. /\ phase = "distribute" /\ next <= Len(accounts) /\ accounts' = accounts
        /\ params' = params /\ nonVotersMultiplier' = nonVotersMultiplier
    BY <1>5, <2>1
  <2>3. Passed' = Passed /\ Slashed' = Slashed /\ icfSlash' = icfSlash
    BY <2>1, <2>2, <1>8 DEF Passed, Slashed, Held, FailToConvert, AddAirdrop
  <2>4. SumFunction(addresses)' = SumFunction(addresses)
    BY <2>1
  <2>5. Unpaid = 0 /\ Unpaid' = amount
    <3>1. Unpaid = 0
      BY <2>2 DEF Unpaid
    <3> PICK acc : acc = accounts[next]
      OBVIOUS
    <3>2. AirdropAmount(acc)' = amount
      BY <2>2, WorthSame
    <3>3. Unpaid' = AirdropAmount(acc)'
      BY <2>1, <2>2 DEF Unpaid
    <3> QED
      BY <3>1, <3>2, <3>3
  <2>6. SettledPassed'
    <3> SUFFICES ASSUME NEW i \in 1..Passed, accounts[i].Address \notin IcfWallets,
                        NEW acc, acc = accounts[i]
                 PROVE  IsSettled(acc)'
      BY <2>2, <2>3 DEF SettledPassed
    <3>1. IsSettled(acc)
      BY DEF AirdropInv, SettledPassed
    <3>2. HasEntry(acc)' => HasEntry(acc)
      BY <2>1 DEF HasEntry
    <3> QED
      BY <2>1, <2>2, <3>1, <3>2, SettledSame
  <2> DEFINE from == FromInt(SumFunction(addresses))
             slack == Passed * (One \div 2)
  <2>7. from \in Int
    <3>1. SumFunction(addresses) \in Nat
      BY <1>3, SumFunctionType DEF AirdropInv
    <3> QED
      BY <3>1, OneAssumption DEF FromInt
  <2>8. atone.supply \in Nat
    BY <1>0 DEF TypeOK, IsDistrib
  <2>9. (from + Unpaid) - atone.supply <= slack /\ atone.supply - (from + Unpaid) <= slack
    BY DEF AirdropInv
  <2>10. slack \in Int
    <3>1. Passed \in Int
      BY <1>0 DEF Passed, TypeOK
    <3> QED
      BY <3>1, OneAssumption
  <2> HIDE DEF from, slack
  <2>11. (from + Unpaid') - atone'.supply <= slack /\ atone'.supply - (from + Unpaid') <= slack
    BY <2>5, <2>7, <2>8, <2>9, <2>10
  <2> USE DEF from, slack
  <2> QED
    BY <2>1, <2>2, <2>3, <2>4, <2>6, <2>11 DEF AirdropInv
<1>9. ASSUME Mint PROVE AirdropInv'
  <2>1. /\ phase = "distribute" /\ next > Len(accounts) /\ phase' = "done" /\ next' = next
        /\ accounts' = accounts /\ airdrop' = airdrop
        /\ params' = params /\ nonVotersMultiplier' = nonVotersMultiplier
    BY <1>9 DEF Mint, input
  <2>2. next = Len(accounts) + 1
    BY <1>0, <2>1, Prefix
  <2>3. Passed' = Passed /\ Unpaid' = Unpaid
    BY <2>1 DEF Passed, Unpaid
  <2> QED
    BY <2>1, <2>2, <2>3, AirdropFrame
<1>10. ASSUME UNCHANGED distributionVars PROVE AirdropInv'
  <2>1. /\ accounts' = accounts /\ airdrop' = airdrop /\ next' = next /\ phase' = phase
        /\ params' = params /\ nonVotersMultiplier' = nonVotersMultiplier
    BY <1>10 DEF distributionVars, input
  <2>2. Passed' = Passed
    BY <2>1 DEF Passed
  <2>3. Unpaid' = Unpaid
    <3> PICK acc : acc = accounts[next]
      OBVIOUS
    <3>1. AirdropAmount(acc)' = AirdropAmount(acc)
      BY <2>1, WorthSame
    <3>2. /\ Unpaid = IF phase = "error" THEN AirdropAmount(acc) ELSE 0
          /\ Unpaid' = IF phase = "error" THEN AirdropAmount(acc)' ELSE 0
      BY <2>1 DEF Unpaid
    <3> QED
      BY <3>1, <3>2
  <2> QED
    BY <2>1, <2>2, <2>3, AirdropFrame DEF AirdropInv
<1> QED
  BY <1>1, <1>2, <1>4, <1>6, <1>7, <1>8, <1>9, <1>10 DEF DistributionNext, Ended

LEMMA Invariance == Spec => [](IInv /\ SurveyInv /\ AirdropInv)
<1>1. Init => IInv /\ SurveyInv /\ AirdropInv
  BY InitInv, PassInit
<1>2. IInv /\ SurveyInv /\ AirdropInv /\ [DistributionNext]_distributionVars
        => (IInv /\ SurveyInv /\ AirdropInv)'
  BY NextInv, SurveyNext, AirdropNext
<1> QED
  BY <1>1, <1>2, PTL DEF Spec

-----------------------------------------------------------------------------
(* The properties.                                                         *)

\* The amounts of the distribution are naturals, and no entry of the airdrop is
\* zero, whatever the accounts.
THEOREM TypeCorrect == Spec => []TypeOK
<1>1. IInv => TypeOK
  BY DEF IInv
<1> QED
  BY <1>1, Invariance, PTL

\* The parts of the $ATONE distribution add up to its supply to the last unit,
\* at every step: the "WRONG" panic of the code cannot be reached.
THEOREM SupplyCorrect == Spec => []SupplyIsSum
<1>1. IInv => SupplyIsSum
  BY DEF IInv
<1> QED
  BY <1>1, Invariance, PTL

LEMMA Accounted == IInv /\ SurveyInv => AtomAccounted
<1> SUFFICES ASSUME IInv, SurveyInv, phase \in {"distribute", "done"}
             PROVE  LET slack == SumFunction([i \in DOMAIN accounts |-> AtomSlack(accounts[i])])
                    IN  atom.supply - (OptionsTotal(atom.votes) + atom.unstaked)
                          \in -slack..slack
  BY DEF AtomAccounted
<1> DEFINE slack == SumFunctionOnSet(Slack, DOMAIN accounts)
           parts == OptionsTotal(atom.votes) + atom.unstaked
<1>1. SumFunction([i \in DOMAIN accounts |-> AtomSlack(accounts[i])]) = slack
  BY DEF SumFunction, Slack
<1>2. atom.supply - parts <= slack /\ parts - atom.supply <= slack
  BY DEF SurveyInv, Surveyed
<1>3. slack \in Int
  BY AccountsList, HeldTypes, SumInt DEF IInv
<1>4. atom.supply \in Nat /\ parts \in Nat
  <2>1. IsDistrib(atom)
    BY DEF IInv, TypeOK
  <2>2. OptionsTotal(atom.votes) \in Nat
    BY <2>1, OptionsTotalAdd DEF IsDistrib
  <2> QED
    BY <2>1, <2>2 DEF IsDistrib
<1> HIDE DEF slack, parts
<1>5. atom.supply - parts \in -slack..slack
  BY <1>2, <1>3, <1>4
<1> QED
  BY <1>1, <1>5 DEF parts

\* Every $ATOM is accounted for by what its holder did, whatever the votes and
\* however the stake is split among validators: each delegation is off by three
\* units of its share, each account by the five products of its options.
THEOREM AccountedCorrect == Spec => []AtomAccounted
BY Accounted, Invariance, PTL

LEMMA Conserved == IInv /\ SurveyInv /\ AirdropInv => NothingLost
<1> DEFINE passed == 1..(next - 1)
           settled == {i \in passed : /\ accounts[i].Address \notin IcfWallets
                                      /\ IsSettled(accounts[i])}
<1> SUFFICES ASSUME IInv, SurveyInv, AirdropInv, phase \in {"distribute", "done", "error"}
             PROVE  /\ SumFunctionOnSet(Held, passed) = icfSlash + SumFunctionOnSet(Held, settled)
                    /\ DOMAIN addresses
                         = {Convert[accounts[i].Address] :
                              i \in {j \in settled : Worth(accounts[j]) # 0}}
                    /\ phase = "done" => atom.supply = SumFunctionOnSet(Held, passed)
  BY DEF NothingLost
<1>0. InputInv /\ TypeOK
  BY DEF IInv
<1>1. passed \subseteq DOMAIN accounts /\ IsFiniteSet(passed) /\ Passed = next - 1
  BY <1>0, Prefix DEF Passed
<1>2. settled = {i \in passed : accounts[i].Address \notin IcfWallets}
  BY <1>1 DEF AirdropInv, SettledPassed
<1>3. SumFunctionOnSet(Held, passed) = icfSlash + SumFunctionOnSet(Held, settled)
  <2> DEFINE slashed == passed \ settled
  <2>1. \A i \in passed : Held[i] \in Int
    BY <1>0, <1>1, HeldTypes
  <2>2. \A i \in passed : Slashed[i] \in Int
    BY <1>0, <1>1, HeldTypes
  <2>3. \A i \in settled : Slashed[i] = 0
    BY <1>1, <1>2 DEF Slashed
  <2>4. \A i \in slashed : Held[i] \in Int /\ Slashed[i] = Held[i]
    BY <1>1, <1>2, <2>1 DEF Slashed
  <2>5. settled \in SUBSET passed
    OBVIOUS
  <2>6. icfSlash = SumFunctionOnSet(Slashed, passed)
    BY <1>1 DEF AirdropInv
  <2> HIDE DEF passed, settled
  <2>7. SumFunctionOnSet(Held, passed)
          = SumFunctionOnSet(Held, settled) + SumFunctionOnSet(Held, slashed)
    BY <1>1, <2>1, <2>5, SumSplit
  <2>8. SumFunctionOnSet(Slashed, passed)
          = SumFunctionOnSet(Slashed, settled) + SumFunctionOnSet(Slashed, slashed)
    BY <1>1, <2>2, <2>5, SumSplit
  <2>9. IsFiniteSet(settled) /\ IsFiniteSet(slashed)
    BY <1>1, <2>5, FS_Subset
  <2>10. SumFunctionOnSet(Slashed, settled) = 0
    BY <2>3, <2>9, SumZero
  <2> HIDE DEF slashed
  <2>11. SumFunctionOnSet(Slashed, slashed) = SumFunctionOnSet(Held, slashed)
    BY <2>4, <2>9, SumSame
  <2>12. SumFunctionOnSet(Held, slashed) \in Int
    BY <2>4, <2>9, SumInt
  <2>13. SumFunctionOnSet(Held, settled) \in Int
    BY <2>1, <2>5, <2>9, SumInt
  <2> QED
    BY <2>6, <2>7, <2>8, <2>10, <2>11, <2>12, <2>13
<1>4. ASSUME NEW addr \in DOMAIN addresses
      PROVE  \E i \in settled : /\ Worth(accounts[i]) # 0
                                /\ addr = Convert[accounts[i].Address]
  <2>1. PICK i \in passed : /\ accounts[i].Address \in DOMAIN Convert \ IcfWallets
                            /\ addr = Convert[accounts[i].Address]
    BY <1>1, <1>4 DEF AirdropInv
  <2>2. i \in settled
    BY <1>2, <2>1
  <2>3. addresses[addr] = Worth(accounts[i])
    BY <1>4, <2>1, <2>2 DEF IsSettled, HasEntry
  <2>4. addresses[addr] # 0
    BY <1>0, <1>4 DEF TypeOK
  <2> QED
    BY <2>1, <2>2, <2>3, <2>4
<1>5. ASSUME NEW i \in settled, Worth(accounts[i]) # 0
      PROVE  Convert[accounts[i].Address] \in DOMAIN addresses
  BY <1>5 DEF IsSettled, HasEntry
<1>6. phase = "done" => atom.supply = SumFunctionOnSet(Held, passed)
  <2> SUFFICES ASSUME phase = "done" PROVE atom.supply = SumFunctionOnSet(Held, passed)
    OBVIOUS
  <2>1. next > Len(accounts)
    BY <1>0, AccountsList DEF AirdropInv
  <2>2. passed = DOMAIN accounts
    BY <1>0, <2>1, Prefix
  <2> QED
    BY <2>2 DEF SurveyInv, Surveyed
<1> HIDE DEF passed, settled
<1>7. DOMAIN addresses = {Convert[accounts[i].Address] :
                            i \in {j \in settled : Worth(accounts[j]) # 0}}
  BY <1>4, <1>5
<1> QED
  BY <1>3, <1>6, <1>7

\* No $ATOM is lost between the two passes, nor when the second one stops at an
\* address that does not convert: each account passed was slashed, or has the
\* entry it is worth, or is worth nothing, and there is no other entry.
THEOREM NothingLostCorrect == Spec => []NothingLost
BY Conserved, Invariance, PTL

LEMMA Credited == IInv /\ AirdropInv => CreditedIsSupply
<1> DEFINE slack == (next - 1) * (One \div 2)
           from == FromInt(SumFunction(addresses))
<1> SUFFICES ASSUME IInv, AirdropInv, phase \in {"distribute", "done", "error"}
             PROVE  (from + Unpaid) - atone.supply \in -slack..slack
  BY DEF CreditedIsSupply
<1>0. InputInv /\ TypeOK
  BY DEF IInv
<1>1. Passed = next - 1 /\ next \in Int
  BY <1>0 DEF Passed, TypeOK
<1>2. (from + Unpaid) - atone.supply <= slack /\ atone.supply - (from + Unpaid) <= slack
  BY <1>1 DEF AirdropInv
<1>3. slack \in Int
  BY <1>1, OneAssumption
<1>4. from \in Int /\ atone.supply \in Int
  <2>1. IsFiniteSet(DOMAIN addresses) /\ addresses \in [DOMAIN addresses -> Nat]
    BY <1>0 DEF AirdropInv, TypeOK
  <2>2. SumFunction(addresses) \in Nat
    BY <2>1, SumFunctionType
  <2>3. atone.supply \in Int
    BY <1>0 DEF TypeOK, IsDistrib
  <2> QED
    BY <2>2, <2>3, OneAssumption DEF FromInt
<1>5. Unpaid \in Int
  <2>1. CASE phase = "error"
    <3>1. next <= Len(accounts)
      BY <2>1 DEF AirdropInv
    <3>2. Unpaid = AirdropAmount(accounts[next])
      BY <2>1 DEF Unpaid
    <3> QED
      BY <1>0, <3>1, <3>2, AirdropAmountType
  <2>2. CASE phase # "error"
    BY <2>2 DEF Unpaid
  <2> QED
    BY <2>1, <2>2
<1> HIDE DEF slack, from
<1> QED
  BY <1>2, <1>3, <1>4, <1>5

\* The whole amounts of airdrop.json add up to the supply, to half an $ATONE for
\* each account, and so do those of a distribution that failed, but for the
\* amount of the address that did not convert: no entry replaces another, and
\* none of the roundings is lost.
THEOREM CreditedCorrect == Spec => []CreditedIsSupply
BY Credited, Invariance, PTL

-----------------------------------------------------------------------------
(* The cap of the non-voters.                                              *)

LEMMA Times ==
  ASSUME NEW x \in Nat, NEW y \in Nat, NEW z \in Nat
  PROVE  /\ x * y \in Nat /\ z * (x * y) = x * (z * y) /\ x * (y * z) = (x * y) * z
         /\ x * y = y * x /\ x <= y => z * x <= z * y
OBVIOUS

\* The product y of x and c, and what both are in units: p exactly, q as rounded.
Rounded(u, x, c, y, p, q) == u = One /\ y = Mul(x, c) /\ p = x * c /\ q = u * y

LEMMA MulWithin ==
  ASSUME NEW u \in Nat, NEW x \in Nat, NEW c \in Nat, NEW y \in Nat, NEW p \in Nat,
         NEW q \in Nat, Rounded(u, x, c, y, p, q)
  PROVE  2 * q <= 2 * p + u /\ 2 * p <= 2 * q + u
<1>0. u = One /\ y = Mul(x, c) /\ p = x * c /\ q = u * y
  BY DEF Rounded
<1>1. -One <= 2 * (One * Mul(x, c) - x * c) /\ 2 * (One * Mul(x, c) - x * c) <= One
  BY MulError, Zenon
<1>2. -u <= 2 * (q - p) /\ 2 * (q - p) <= u
  BY <1>0, <1>1, Zenon
<1> QED
  BY <1>0, <1>2

\* Less is left than was multiplied by at most 1, and more by at least 1.
LEMMA MulOrder ==
  ASSUME NEW x \in Nat, NEW c \in Nat
  PROVE  /\ c <= One => Mul(x, c) <= x
         /\ One <= c => x <= Mul(x, c)
<1> PICK u \in Nat \ {0} : u = One
  BY OneAssumption
<1> PICK y \in Nat : y = Mul(x, c)
  BY MulNat
<1> PICK p \in Nat, q \in Nat : p = x * c /\ q = u * y
  OBVIOUS
<1>1. 2 * q <= 2 * p + u /\ 2 * p <= 2 * q + u
  <2>1. Rounded(u, x, c, y, p, q)
    BY DEF Rounded
  <2> QED
    BY <2>1, MulWithin, Zenon
<1>2. ASSUME c <= u PROVE y <= x
  <2>1. p <= u * x
    BY <1>2, Times
  <2>2. y > x => q >= u * x + u
    <3>1. y > x => u * (x + 1) <= u * y
      BY Times
    <3>2. u * (x + 1) = u * x + u
      OBVIOUS
    <3> QED
      BY <3>1, <3>2
  <2>3. u * x \in Nat
    OBVIOUS
  <2> QED
    BY <1>1, <2>1, <2>2, <2>3
<1>3. ASSUME u <= c PROVE x <= y
  <2>1. x * u <= p
    BY <1>3, Times
  <2>2. x > y => x * u >= q + u
    <3>1. x > y => u * (y + 1) <= u * x
      BY Times
    <3>2. u * (y + 1) = u * y + u /\ u * x = x * u
      OBVIOUS
    <3> QED
      BY <3>1, <3>2
  <2>3. x * u \in Nat
    OBVIOUS
  <2> QED
    BY <1>1, <2>1, <2>2, <2>3
<1> QED
  BY <1>2, <1>3

\* Two products in a row are off by one unit each way, if the second makes less.
LEMMA TwoProducts ==
  ASSUME NEW a \in Nat, NEW m \in Nat, NEW f \in Nat, f <= One, NEW y \in Nat
  PROVE  /\ Mul(y, f) \in Nat
         /\ y <= Mul(a, m) => One * (One * Mul(y, f)) <= f * (a * m) + One * One
         /\ Mul(a, m) <= y => f * (a * m) <= One * (One * Mul(y, f)) + One * One
<1> PICK u \in Nat \ {0} : u = One
  BY OneAssumption
<1> PICK x \in Nat, z \in Nat : x = Mul(a, m) /\ z = Mul(y, f)
  BY MulNat
<1> PICK p \in Nat : p = a * m
  OBVIOUS
<1> PICK ux \in Nat, uz \in Nat, yf \in Nat, uy \in Nat, fu \in Nat, uu \in Nat :
      ux = u * x /\ uz = u * z /\ yf = y * f /\ uy = u * y /\ fu = f * u /\ uu = u * u
  OBVIOUS
<1>1. 2 * ux <= 2 * p + u /\ 2 * p <= 2 * ux + u
  <2>1. Rounded(u, a, m, x, p, ux)
    BY DEF Rounded
  <2> QED
    BY <2>1, MulWithin, Zenon
<1>2. 2 * uz <= 2 * yf + u /\ 2 * yf <= 2 * uz + u
  <2>1. Rounded(u, y, f, z, yf, uz)
    BY DEF Rounded
  <2> QED
    BY <2>1, MulWithin, Zenon
<1>3. fu <= uu
  BY Times
<1>4. 2 * (u * uz) <= 2 * (u * yf) + uu /\ 2 * (u * yf) <= 2 * (u * uz) + uu
  <2>1. u * (2 * uz) <= u * (2 * yf + u) /\ u * (2 * yf) <= u * (2 * uz + u)
    BY <1>2, Times
  <2>2. /\ u * (2 * uz) = 2 * (u * uz) /\ u * (2 * yf + u) = 2 * (u * yf) + uu
        /\ u * (2 * yf) = 2 * (u * yf) /\ u * (2 * uz + u) = 2 * (u * uz) + uu
    OBVIOUS
  <2> QED
    BY <2>1, <2>2
<1>5. u * yf = f * uy
  OBVIOUS
<1>6. 2 * (f * ux) <= 2 * (f * p) + fu /\ 2 * (f * p) <= 2 * (f * ux) + fu
  <2>1. f * (2 * ux) <= f * (2 * p + u) /\ f * (2 * p) <= f * (2 * ux + u)
    BY <1>1, Times
  <2>2. /\ f * (2 * ux) = 2 * (f * ux) /\ f * (2 * p + u) = 2 * (f * p) + fu
        /\ f * (2 * p) = 2 * (f * p) /\ f * (2 * ux + u) = 2 * (f * ux) + fu
    OBVIOUS
  <2> QED
    BY <2>1, <2>2
<1>7. f * uy \in Nat /\ f * ux \in Nat /\ f * p \in Nat /\ u * uz \in Nat
  OBVIOUS
<1> PICK A \in Nat, B \in Nat, C \in Nat, E \in Nat :
      A = f * uy /\ B = f * ux /\ C = f * p /\ E = u * uz
  BY <1>7
<1>a. \A i \in Nat, j \in Nat, k \in Nat, l \in Nat :
          2 * i <= 2 * j + uu /\ j <= k /\ 2 * k <= 2 * l + fu => i <= l + uu
  BY <1>3
<1>b. \A i \in Nat, j \in Nat, k \in Nat, l \in Nat :
          2 * i <= 2 * j + fu /\ j <= k /\ 2 * k <= 2 * l + uu => i <= l + uu
  BY <1>3
<1>8. ASSUME y <= x PROVE u * uz <= f * p + uu
  <2>1. uy <= ux
    BY <1>8, Times
  <2>2. A <= B
    BY <2>1, Times
  <2>3. 2 * E <= 2 * A + uu /\ 2 * B <= 2 * C + fu
    BY <1>4, <1>5, <1>6, Zenon
  <2>4. E <= C + uu
    BY <1>a, <2>2, <2>3, Zenon
  <2> QED
    BY <2>4, Zenon
<1>9. ASSUME x <= y PROVE f * p <= u * uz + uu
  <2>1. ux <= uy
    BY <1>9, Times
  <2>2. B <= A
    BY <2>1, Times
  <2>3. 2 * A <= 2 * E + uu /\ 2 * C <= 2 * B + fu
    BY <1>4, <1>5, <1>6, Zenon
  <2>4. C <= E + uu
    BY <1>b, <2>2, <2>3, Zenon
  <2> QED
    BY <2>4, Zenon
<1> QED
  BY <1>8, <1>9

\* The arithmetic of nonVotersMultiplier, in units: of what the voters get (P, before
\* the supply factor f) the rounded target share t, over the rounded rest c, is m; of
\* what the non-voters hold (A) they get at most W, and the voters at least R.
CapFacts(u, t, c, f, n, A, m, P, W, R, S, V, D) ==
  /\ u = t + c /\ 3 * t <= u /\ f <= u
  /\ u * S <= P + u
  /\ 2 * (u * V) <= 2 * (t * S) + u
  /\ 2 * (c * A) <= 2 * (u * D) + u /\ 2 * (u * D) <= 2 * (c * A) + u
  /\ D * m <= V * u + D
  /\ u * (u * W) <= f * (A * m) + n * (3 * (u * u))
  /\ f * P <= u * (u * R) + n * (3 * (u * u))

LEMMA CapArithmetic ==
  ASSUME NEW u \in Nat \ {0}, NEW t \in Nat, NEW c \in Nat, NEW f \in Nat,
         NEW n \in Nat \ {0}, NEW A \in Nat, NEW m \in Nat, NEW P \in Nat,
         NEW W \in Nat, NEW R \in Nat, NEW S \in Nat, NEW V \in Nat, NEW D \in Nat,
         CapFacts(u, t, c, f, n, A, m, P, W, R, S, V, D)
  PROVE  2 * W <= R + 3 * (4 * n + (A \div u) + (m \div u) + 1)
<1>f. /\ u = t + c /\ 3 * t <= u /\ f <= u
      /\ u * S <= P + u
      /\ 2 * (u * V) <= 2 * (t * S) + u
      /\ 2 * (c * A) <= 2 * (u * D) + u /\ 2 * (u * D) <= 2 * (c * A) + u
      /\ D * m <= V * u + D
      /\ u * (u * W) <= f * (A * m) + n * (3 * (u * u))
      /\ f * P <= u * (u * R) + n * (3 * (u * u))
  BY DEF CapFacts
<1> USE <1>f
<1>0. c \in Nat \ {0} /\ 2 * t <= c /\ 2 * u <= 3 * c
  OBVIOUS
<1> PICK am \in Nat : am = A * m
  OBVIOUS
<1>1. 4 * am <= 2 * P + 5 * u + 4 * A + 3 * m + 3
  <2> PICK cA \in Nat, uD \in Nat, uu \in Nat, uV \in Nat, tS \in Nat, uS \in Nat :
        cA = c * A /\ uD = u * D /\ uu = u * u /\ uV = u * V /\ tS = t * S /\ uS = u * S
    OBVIOUS
  <2>1. 2 * (m * cA) <= 2 * (m * uD) + m * u
    <3>1. m * (2 * cA) <= m * (2 * uD + u)
      BY Times
    <3>2. m * (2 * cA) = 2 * (m * cA) /\ m * (2 * uD + u) = 2 * (m * uD) + m * u
      OBVIOUS
    <3> QED
      BY <3>1, <3>2
  <2>2. m * uD <= u * uV + uD
    <3>1. u * (D * m) <= u * (V * u + D)
      BY Times
    <3>2. u * (D * m) = m * uD /\ u * (V * u + D) = u * uV + uD
      OBVIOUS
    <3> QED
      BY <3>1, <3>2
  <2>3. 2 * (u * uV) <= 2 * (u * tS) + uu
    <3>1. u * (2 * uV) <= u * (2 * tS + u)
      BY Times
    <3>2. u * (2 * uV) = 2 * (u * uV) /\ u * (2 * tS + u) = 2 * (u * tS) + uu
      OBVIOUS
    <3> QED
      BY <3>1, <3>2
  <2>4. u * tS <= t * P + t * u
    <3>1. t * uS <= t * (P + u)
      BY Times
    <3>2. t * uS = u * tS /\ t * (P + u) = t * P + t * u
      OBVIOUS
    <3> QED
      BY <3>1, <3>2
  <2>5. /\ 2 * (t * P) <= c * P /\ 2 * (t * u) <= c * u
        /\ 2 * uu <= 3 * (c * u) /\ 2 * (m * u) <= 3 * (c * m)
    <3>1. P * (2 * t) <= P * c /\ u * (2 * t) <= u * c
      BY <1>0, Times
    <3>2. u * (2 * u) <= u * (3 * c) /\ m * (2 * u) <= m * (3 * c)
      BY <1>0, Times
    <3>3. /\ P * (2 * t) = 2 * (t * P) /\ P * c = c * P
          /\ u * (2 * t) = 2 * (t * u) /\ u * c = c * u
          /\ u * (2 * u) = 2 * uu /\ u * (3 * c) = 3 * (c * u)
          /\ m * (2 * u) = 2 * (m * u) /\ m * (3 * c) = 3 * (c * m)
      OBVIOUS
    <3> QED
      BY <3>1, <3>2, <3>3
  <2> PICK a1 \in Nat, a2 \in Nat, a3 \in Nat, a4 \in Nat, a5 \in Nat, a6 \in Nat, a7 \in Nat :
        /\ a1 = m * cA /\ a2 = m * uD /\ a3 = m * u /\ a4 = u * uV /\ a5 = u * tS
        /\ a6 = t * P /\ a7 = t * u
    OBVIOUS
  <2> PICK b1 \in Nat, b2 \in Nat, b3 \in Nat :
        b1 = c * P /\ b2 = c * u /\ b3 = c * m
    OBVIOUS
  <2>6. 4 * a1 <= 2 * b1 + 5 * b2 + 4 * cA + 3 * b3 + 3 * c
    <3>1. /\ 2 * a1 <= 2 * a2 + a3 /\ a2 <= a4 + uD /\ 2 * a4 <= 2 * a5 + uu /\ a5 <= a6 + a7
          /\ 2 * a6 <= b1 /\ 2 * a7 <= b2 /\ 2 * uu <= 3 * b2 /\ 2 * a3 <= 3 * b3
          /\ 2 * uD <= 2 * cA + u
      BY <2>1, <2>2, <2>3, <2>4, <2>5, Zenon
    <3> QED
      BY <1>0, <3>1
  <2>7. c * (4 * am) <= c * (2 * P + 5 * u + 4 * A + 3 * m + 3)
    <3>1. c * (4 * am) = 4 * a1
      OBVIOUS
    <3>2. c * (2 * P + 5 * u + 4 * A + 3 * m + 3) = 2 * b1 + 5 * b2 + 4 * cA + 3 * b3 + 3 * c
      OBVIOUS
    <3> QED
      BY <2>6, <3>1, <3>2
  <2>8. \A x \in Nat, y \in Nat : c * x <= c * y => x <= y
    BY <1>0
  <2> QED
    BY <2>7, <2>8
<1>2. 4 * (u * W) <= 2 * (u * R) + 18 * (n * u) + 5 * u + 4 * A + 3 * m + 3
  <2> PICK uu \in Nat, uW \in Nat, uR \in Nat, nu \in Nat, fP \in Nat :
        uu = u * u /\ uW = u * W /\ uR = u * R /\ nu = n * u /\ fP = f * P
    OBVIOUS
  <2> PICK Q \in Nat : Q = 5 * u + 4 * A + 3 * m + 3
    OBVIOUS
  <2>1. 4 * (f * am) <= 2 * fP + u * Q
    <3>1. f * (4 * am) <= f * (2 * P + Q)
      BY <1>1, Times
    <3>2. f * (4 * am) = 4 * (f * am) /\ f * (2 * P + Q) = 2 * fP + f * Q
      OBVIOUS
    <3>3. Q * f <= Q * u
      BY Times
    <3>4. Q * f = f * Q /\ Q * u = u * Q
      OBVIOUS
    <3>5. f * Q \in Nat /\ u * Q \in Nat /\ f * am \in Nat
      OBVIOUS
    <3> QED
      BY <3>1, <3>2, <3>3, <3>4, <3>5
  <2>2. n * (3 * (u * u)) = 3 * (u * nu)
    OBVIOUS
  <2>3. u * uW <= f * am + 3 * (u * nu) /\ fP <= u * uR + 3 * (u * nu)
    BY <2>2, Zenon
  <2> PICK d1 \in Nat, d2 \in Nat, d3 \in Nat, d4 \in Nat, d5 \in Nat :
        d1 = u * uW /\ d2 = f * am /\ d3 = u * nu /\ d4 = u * uR /\ d5 = u * Q
    OBVIOUS
  <2>4. 4 * d1 <= 2 * d4 + 18 * d3 + d5
    <3>1. 4 * d2 <= 2 * fP + d5 /\ d1 <= d2 + 3 * d3 /\ fP <= d4 + 3 * d3
      BY <2>1, <2>3, Zenon
    <3> QED
      BY <3>1
  <2>5. u * (4 * uW) <= u * (2 * uR + 18 * nu + Q)
    <3>1. u * (4 * uW) = 4 * d1 /\ u * (2 * uR + 18 * nu + Q) = 2 * d4 + 18 * d3 + d5
      OBVIOUS
    <3> QED
      BY <2>4, <3>1
  <2>6. \A x \in Nat, y \in Nat : u * x <= u * y => x <= y
    OBVIOUS
  <2>7. 4 * uW <= 2 * uR + 18 * nu + Q
    BY <2>5, <2>6
  <2> QED
    BY <2>7
<1>3. ASSUME NEW a \in Nat
      PROVE  \E q \in Nat : q = a \div u /\ a <= u * q + u - 1
  BY <1>3
<1>d. PICK qa \in Nat : qa = A \div u /\ A <= u * qa + u - 1
  BY <1>3
<1>e. PICK qm \in Nat : qm = m \div u /\ m <= u * qm + u - 1
  BY <1>3
<1>4. 4 * (u * W) < u * (2 * R + 18 * n + 12 + 4 * qa + 3 * qm)
  <2> PICK uW \in Nat, uR \in Nat, nu \in Nat, ua \in Nat, um \in Nat :
        uW = u * W /\ uR = u * R /\ nu = n * u /\ ua = u * qa /\ um = u * qm
    OBVIOUS
  <2>1. u * (2 * R + 18 * n + 12 + 4 * qa + 3 * qm) = 2 * uR + 18 * nu + 12 * u + 4 * ua + 3 * um
    OBVIOUS
  <2>2. 4 * uW <= 2 * uR + 18 * nu + 5 * u + 4 * A + 3 * m + 3
    BY <1>2
  <2>3. A <= ua + u - 1 /\ m <= um + u - 1
    BY <1>d, <1>e
  <2>4. 4 * uW < 2 * uR + 18 * nu + 12 * u + 4 * ua + 3 * um
    BY <2>2, <2>3
  <2> QED
    BY <2>1, <2>4
<1>5. 4 * W < 2 * R + 18 * n + 12 + 4 * qa + 3 * qm
  <2>1. \A x \in Nat, y \in Nat : 4 * (u * x) < u * y => 4 * x < y
    <3> TAKE x \in Nat, y \in Nat
    <3>1. 4 * x >= y => u * y <= u * (4 * x)
      BY Times
    <3>2. u * (4 * x) = 4 * (u * x) /\ u * x \in Nat /\ u * y \in Nat
      OBVIOUS
    <3> QED
      BY <3>1, <3>2
  <2> QED
    BY <1>4, <2>1
<1> QED
  BY <1>5, <1>d, <1>e

\* The amounts of those who did not vote, and of those who voted No.
SilentAmount(acc) ==
  AtomAmount(acc, "abstain") + AtomAmount(acc, "empty") + acc.LiquidAmount
NoAmount(acc) == AtomAmount(acc, "no") + AtomAmount(acc, "veto")
SilentAtone == atone.votes["abstain"] + atone.votes["empty"] + atone.unstaked
VotersAtone == atone.votes["yes"] + atone.votes["no"] + atone.votes["veto"]

No == [i \in DOMAIN accounts |-> NoAmount(accounts[i])]
Silent == [i \in DOMAIN accounts |-> SilentAmount(accounts[i])]

\* What the cap takes: a target of a third at most, a malus and a supply factor that
\* take away, a bonus that does not, and an ICF whose stake did not vote.
CapInput(p, list) ==
  /\ 3 * TargetNonVotersPerc <= One
  /\ p.malus <= One /\ One <= p.bonus /\ p.supplyFactor <= One
  /\ \A i \in DOMAIN list : list[i].Address \in IcfWallets =>
       \A o \in {"yes", "no", "veto"} : AtomAmount(list[i], o) = 0

\* With the multiplier m, the non-voters get at most w for s, and the voters at least r
\* for y that voted Yes and v that voted No, to three units for each of k accounts.
Shared(p, m, w, r, s, y, v, k) ==
  /\ One * (One * w) <= p.supplyFactor * (s * m) + k * (3 * (One * One))
  /\ p.supplyFactor * (y * p.yesVotesMultiplier + v * p.noVotesMultiplier)
       <= One * (One * r) + k * (3 * (One * One))

LEMMA SharedAdd ==
  ASSUME NEW p, p.supplyFactor \in Nat, p.yesVotesMultiplier \in Nat,
         p.noVotesMultiplier \in Nat, NEW m \in Nat,
         NEW w \in Nat, NEW r \in Nat, NEW s \in Nat, NEW y \in Nat, NEW v \in Nat,
         NEW k \in Nat, Shared(p, m, w, r, s, y, v, k),
         NEW w1 \in Nat, NEW r1 \in Nat, NEW s1 \in Nat, NEW y1 \in Nat, NEW v1 \in Nat,
         Shared(p, m, w1, r1, s1, y1, v1, 1)
  PROVE  Shared(p, m, w + w1, r + r1, s + s1, y + y1, v + v1, k + 1)
<1> PICK u \in Nat, f \in Nat, py \in Nat, pn \in Nat :
      u = One /\ f = p.supplyFactor /\ py = p.yesVotesMultiplier /\ pn = p.noVotesMultiplier
  BY OneAssumption
<1> PICK U \in Nat : U = 3 * (u * u)
  OBVIOUS
<1> DEFINE G(y0, v0) == f * (y0 * py + v0 * pn)
<1>1. /\ u * (u * w) <= f * (s * m) + k * U /\ G(y, v) <= u * (u * r) + k * U
      /\ u * (u * w1) <= f * (s1 * m) + 1 * U /\ G(y1, v1) <= u * (u * r1) + 1 * U
  BY Zenon DEF Shared
<1>2. u * (u * (w + w1)) = u * (u * w) + u * (u * w1)
      /\ u * (u * (r + r1)) = u * (u * r) + u * (u * r1)
  <2>1. u * (w + w1) = u * w + u * w1 /\ u * (r + r1) = u * r + u * r1
    OBVIOUS
  <2> PICK uw \in Nat, uw1 \in Nat, ur \in Nat, ur1 \in Nat :
        uw = u * w /\ uw1 = u * w1 /\ ur = u * r /\ ur1 = u * r1
    OBVIOUS
  <2>2. u * (uw + uw1) = u * uw + u * uw1 /\ u * (ur + ur1) = u * ur + u * ur1
    OBVIOUS
  <2> QED
    BY <2>1, <2>2
<1>3. f * ((s + s1) * m) = f * (s * m) + f * (s1 * m) /\ (k + 1) * U = k * U + 1 * U
  <2> PICK sm \in Nat, s1m \in Nat : sm = s * m /\ s1m = s1 * m
    OBVIOUS
  <2>1. (s + s1) * m = sm + s1m /\ (k + 1) * U = k * U + 1 * U
    OBVIOUS
  <2>2. f * (sm + s1m) = f * sm + f * s1m
    OBVIOUS
  <2> QED
    BY <2>1, <2>2
<1>4. G(y + y1, v + v1) = G(y, v) + G(y1, v1)
  <2>p. y * py \in Nat /\ v * pn \in Nat /\ y1 * py \in Nat /\ v1 * pn \in Nat
    OBVIOUS
  <2> PICK a \in Nat, b \in Nat, a1 \in Nat, b1 \in Nat :
        a = y * py /\ b = v * pn /\ a1 = y1 * py /\ b1 = v1 * pn
    BY <2>p, Zenon
  <2>y. (y + y1) * py = a + a1
    OBVIOUS
  <2>v. (v + v1) * pn = b + b1
    OBVIOUS
  <2>1. (y + y1) * py = a + a1 /\ (v + v1) * pn = b + b1
    BY <2>y, <2>v, Zenon
  <2> PICK c \in Nat, c1 \in Nat : c = a + b /\ c1 = a1 + b1
    OBVIOUS
  <2>2. f * (c + c1) = f * c + f * c1
    OBVIOUS
  <2>3. (a + a1) + (b + b1) = c + c1
    OBVIOUS
  <2> QED
    BY <2>1, <2>2, <2>3
<1>5. /\ u * (u * w) \in Nat /\ u * (u * w1) \in Nat /\ u * (u * r) \in Nat /\ u * (u * r1) \in Nat
      /\ f * (s * m) \in Nat /\ f * (s1 * m) \in Nat /\ k * U \in Nat /\ 1 * U \in Nat
      /\ G(y, v) \in Nat /\ G(y1, v1) \in Nat
  OBVIOUS
<1> HIDE DEF G
<1>6. u * (u * (w + w1)) <= f * ((s + s1) * m) + (k + 1) * U
  BY <1>1, <1>2, <1>3, <1>5
<1>7. G(y + y1, v + v1) <= u * (u * (r + r1)) + (k + 1) * U
  BY <1>1, <1>2, <1>3, <1>4, <1>5
<1> QED
  BY <1>6, <1>7, Zenon DEF Shared, G

LEMMA AtMost ==
  ASSUME NEW u \in Nat, u = One, NEW a \in Nat, NEW m \in Nat, NEW f \in Nat, f <= u,
         NEW y \in Nat, y <= Mul(a, m), NEW z, z = Mul(y, f)
  PROVE  z \in Nat /\ u * (u * z) <= f * (a * m) + u * u
BY TwoProducts, Zenon

LEMMA AtLeast ==
  ASSUME NEW u \in Nat, u = One, NEW a \in Nat, NEW m \in Nat, NEW f \in Nat, f <= u,
         NEW y \in Nat, Mul(a, m) <= y, NEW z, z = Mul(y, f)
  PROVE  z \in Nat /\ f * (a * m) <= u * (u * z) + u * u
BY TwoProducts, Zenon

LEMMA ThreeAtMost ==
  ASSUME NEW u \in Nat, NEW f \in Nat, NEW m \in Nat,
         NEW a \in Nat, NEW b \in Nat, NEW c \in Nat, NEW x \in Nat, NEW y \in Nat, NEW z \in Nat,
         u * (u * x) <= f * (a * m) + u * u, u * (u * y) <= f * (b * m) + u * u,
         u * (u * z) <= f * (c * m) + u * u
  PROVE  u * (u * (x + y + z)) <= f * ((a + b + c) * m) + 1 * (3 * (u * u))
<1>1. u * (u * (x + y + z)) = u * (u * x) + u * (u * y) + u * (u * z)
  OBVIOUS
<1>2. f * ((a + b + c) * m) = f * (a * m) + f * (b * m) + f * (c * m)
  OBVIOUS
<1> QED
  BY <1>1, <1>2

LEMMA ThreeAtLeast ==
  ASSUME NEW u \in Nat, NEW f \in Nat, NEW m \in Nat, NEW n \in Nat,
         NEW a \in Nat, NEW b \in Nat, NEW c \in Nat, NEW x \in Nat, NEW y \in Nat, NEW z \in Nat,
         f * (a * m) <= u * (u * x) + u * u, f * (b * n) <= u * (u * y) + u * u,
         f * (c * n) <= u * (u * z) + u * u
  PROVE  f * (a * m + (b + c) * n) <= u * (u * (x + y + z)) + 1 * (3 * (u * u))
<1>1. u * (u * (x + y + z)) = u * (u * x) + u * (u * y) + u * (u * z)
  OBVIOUS
<1>2. f * (a * m + (b + c) * n) = f * (a * m) + f * (b * n) + f * (c * n)
  OBVIOUS
<1> QED
  BY <1>1, <1>2

\* One account of the second pass.
LEMMA SharedAccount ==
  ASSUME InputInv, TypeOK, next <= Len(accounts), CapInput(params, accounts),
         NEW acc, acc = accounts[next],
         NEW votes, votes = [o \in AnyOption |-> AtoneAmount(acc, o)]
  PROVE  Shared(params, nonVotersMultiplier,
                votes["abstain"] + votes["empty"] + LiquidAtone(acc),
                votes["yes"] + votes["no"] + votes["veto"],
                SilentAmount(acc), AtomAmount(acc, "yes"), NoAmount(acc), 1)
<1>u. PICK u \in Nat, m \in Nat, f \in Nat, py \in Nat, pn \in Nat, mal \in Nat, bon \in Nat :
      /\ u = One /\ m = nonVotersMultiplier /\ f = params.supplyFactor
      /\ py = params.yesVotesMultiplier /\ pn = params.noVotesMultiplier
      /\ mal = params.malus /\ bon = params.bonus
  BY OneAssumption, ParamsType DEF TypeOK
<1>0. {"yes", "no", "veto", "abstain", "empty"} \subseteq AnyOption
  BY DEF AnyOption, VoteOption
<1>1. /\ AtomAmount(acc, "yes") \in Nat /\ AtomAmount(acc, "no") \in Nat
      /\ AtomAmount(acc, "veto") \in Nat /\ AtomAmount(acc, "abstain") \in Nat
      /\ AtomAmount(acc, "empty") \in Nat /\ acc.LiquidAmount \in Nat
  BY <1>0, AtomAmountType, AccountType
<1>a. PICK ay \in Nat, an \in Nat, av \in Nat, aa \in Nat, ae \in Nat, al \in Nat :
      /\ ay = AtomAmount(acc, "yes") /\ an = AtomAmount(acc, "no")
      /\ av = AtomAmount(acc, "veto") /\ aa = AtomAmount(acc, "abstain")
      /\ ae = AtomAmount(acc, "empty") /\ al = acc.LiquidAmount
  BY <1>1
<1>2. f <= u /\ mal <= u /\ u <= bon
  BY <1>u DEF CapInput
<1>3. /\ AtoneAmount(acc, "yes") = Mul(Mul(ay, py), f)
      /\ AtoneAmount(acc, "no") = Mul(Mul(an, pn), f)
      /\ AtoneAmount(acc, "veto") = Mul(Mul(Mul(av, pn), bon), f)
      /\ AtoneAmount(acc, "abstain") = Mul(Mul(aa, m), f)
      /\ AtoneAmount(acc, "empty") = Mul(Mul(Mul(ae, m), mal), f)
      /\ LiquidAtone(acc) = Mul(Mul(al, Mul(m, mal)), f)
  BY <1>u, <1>a DEF AtoneAmount, Multiplied, LiquidAtone
<1>x. PICK m1 \in Nat, xy \in Nat, xn \in Nat, xv \in Nat, xa \in Nat, xe \in Nat, xl \in Nat :
      /\ m1 = Mul(m, mal) /\ xy = Mul(ay, py) /\ xn = Mul(an, pn) /\ xv = Mul(Mul(av, pn), bon)
      /\ xa = Mul(aa, m) /\ xe = Mul(Mul(ae, m), mal) /\ xl = Mul(al, m1)
  <2>1. /\ Mul(m, mal) \in Nat /\ Mul(ay, py) \in Nat /\ Mul(an, pn) \in Nat /\ Mul(av, pn) \in Nat
        /\ Mul(aa, m) \in Nat /\ Mul(ae, m) \in Nat
    BY MulNat
  <2> QED
    BY <2>1, MulNat
<1>4. m1 <= m /\ Mul(av, pn) <= xv /\ xe <= Mul(ae, m) /\ xl <= Mul(al, m1)
  <2>1. Mul(av, pn) \in Nat /\ Mul(ae, m) \in Nat
    BY MulNat
  <2>2. m1 <= m
    BY <1>u, <1>x, <1>2, MulOrder
  <2>3. Mul(av, pn) <= xv
    BY <1>u, <1>x, <1>2, <2>1, MulOrder
  <2>4. xe <= Mul(ae, m)
    BY <1>u, <1>x, <1>2, <2>1, MulOrder
  <2> QED
    BY <1>x, <2>2, <2>3, <2>4
<1>5. PICK zy, zn, zv, za, ze, zl :
        /\ zy = Mul(xy, f) /\ zn = Mul(xn, f) /\ zv = Mul(xv, f) /\ za = Mul(xa, f)
        /\ ze = Mul(xe, f) /\ zl = Mul(xl, f)
  OBVIOUS
<1>6. /\ zy \in Nat /\ f * (ay * py) <= u * (u * zy) + u * u
      /\ zn \in Nat /\ f * (an * pn) <= u * (u * zn) + u * u
      /\ zv \in Nat /\ f * (av * pn) <= u * (u * zv) + u * u
  <2>0. \A i \in Nat : i <= i
    OBVIOUS
  <2>1. Mul(ay, py) <= xy /\ Mul(an, pn) <= xn
    BY <1>x, <2>0, Zenon
  <2>2. zy \in Nat /\ f * (ay * py) <= u * (u * zy) + u * u
    BY <1>u, <1>2, <1>5, <2>1, AtLeast, Zenon
  <2>3. zn \in Nat /\ f * (an * pn) <= u * (u * zn) + u * u
    BY <1>u, <1>2, <1>5, <2>1, AtLeast, Zenon
  <2>4. zv \in Nat /\ f * (av * pn) <= u * (u * zv) + u * u
    BY <1>u, <1>2, <1>4, <1>5, AtLeast, Zenon
  <2> QED
    BY <2>2, <2>3, <2>4, Zenon
<1>7. /\ za \in Nat /\ u * (u * za) <= f * (aa * m) + u * u
      /\ ze \in Nat /\ u * (u * ze) <= f * (ae * m) + u * u
      /\ zl \in Nat /\ u * (u * zl) <= f * (al * m) + u * u
  <2>0. \A i \in Nat : i <= i
    OBVIOUS
  <2>1. xa <= Mul(aa, m)
    BY <1>x, <2>0, Zenon
  <2>2. za \in Nat /\ u * (u * za) <= f * (aa * m) + u * u
    BY <1>u, <1>2, <1>5, <2>1, AtMost, Zenon
  <2>3. ze \in Nat /\ u * (u * ze) <= f * (ae * m) + u * u
    BY <1>u, <1>2, <1>4, <1>5, AtMost, Zenon
  <2>4. zl \in Nat /\ u * (u * zl) <= f * (al * m1) + u * u
    BY <1>u, <1>2, <1>4, <1>5, AtMost, Zenon
  <2>5. f * (al * m1) <= f * (al * m)
    <3>1. al * m1 <= al * m
      BY <1>4, Times
    <3>2. al * m1 \in Nat /\ al * m \in Nat
      OBVIOUS
    <3> QED
      BY <3>1, <3>2, Times
  <2>6. \A i \in Int, j \in Int, k \in Int, l \in Int : i <= j + l /\ j <= k => i <= k + l
    OBVIOUS
  <2>7. u * (u * zl) \in Int /\ f * (al * m1) \in Int /\ f * (al * m) \in Int /\ u * u \in Int
    BY <2>4
  <2>8. u * (u * zl) <= f * (al * m) + u * u
    BY <2>4, <2>5, <2>6, <2>7, Zenon
  <2> QED
    BY <2>2, <2>3, <2>4, <2>8, Zenon
<1>9. u * (u * (za + ze + zl)) <= f * ((aa + ae + al) * m) + 1 * (3 * (u * u))
  BY <1>7, ThreeAtMost, Zenon
<1>10. f * (ay * py + (an + av) * pn) <= u * (u * (zy + zn + zv)) + 1 * (3 * (u * u))
  BY <1>6, ThreeAtLeast, Zenon
<1>11. Shared(params, nonVotersMultiplier, za + ze + zl, zy + zn + zv, aa + ae + al, ay, an + av, 1)
  BY <1>u, <1>9, <1>10, Zenon DEF Shared
<1>12. /\ SilentAmount(acc) = aa + ae + al /\ NoAmount(acc) = an + av
       /\ AtomAmount(acc, "yes") = ay
  BY <1>a DEF SilentAmount, NoAmount
<1>14. /\ votes["abstain"] = za /\ votes["empty"] = ze /\ LiquidAtone(acc) = zl
       /\ votes["yes"] = zy /\ votes["no"] = zn /\ votes["veto"] = zv
  BY <1>0, <1>x, <1>3, <1>5, Zenon
<1> QED
  BY <1>11, <1>12, <1>14, Zenon

MultiplierSet ==
  /\ Mul(One - TargetNonVotersPerc, NonVotersAtom) # 0
  /\ nonVotersMultiplier = Quo(Mul(TargetNonVotersPerc, YesAtoneTotal + NoAtoneTotal),
                               Mul(One - TargetNonVotersPerc, NonVotersAtom))

\* The second pass: what the accounts credited so far share.
CapInv ==
  /\ phase \in {"idle", "survey"} => SilentAtone = 0 /\ VotersAtone = 0
  /\ phase \in {"distribute", "done"} =>
       /\ MultiplierSet
       /\ Shared(params, nonVotersMultiplier, SilentAtone, VotersAtone,
                 SumFunctionOnSet(Silent, 1..Passed),
                 SumFunctionOnSet(StandFor("yes"), 1..Passed),
                 SumFunctionOnSet(No, 1..Passed), Passed)

LEMMA CapTypes ==
  ASSUME InputInv
  PROVE  \A i \in DOMAIN accounts :
           /\ Silent[i] \in Nat /\ StandFor("yes")[i] \in Nat /\ No[i] \in Nat
           /\ Silent[i] = StandFor("abstain")[i] + StandFor("empty")[i] + Liquid[i]
           /\ No[i] = StandFor("no")[i] + StandFor("veto")[i]
<1> TAKE i \in DOMAIN accounts
<1>1. {"yes", "no", "veto", "abstain", "empty"} \subseteq AnyOption
  BY DEF AnyOption, VoteOption
<1>2. /\ StandFor("yes")[i] \in Nat /\ StandFor("no")[i] \in Nat
      /\ StandFor("veto")[i] \in Nat /\ StandFor("abstain")[i] \in Nat
      /\ StandFor("empty")[i] \in Nat
  BY <1>1, StandType
<1>3. Liquid[i] \in Nat
  BY LiquidType
<1>4. /\ Silent[i] = StandFor("abstain")[i] + StandFor("empty")[i] + Liquid[i]
      /\ No[i] = StandFor("no")[i] + StandFor("veto")[i]
  BY DEF Silent, SilentAmount, No, NoAmount, StandFor, Liquid
<1> QED
  BY <1>2, <1>3, <1>4

LEMMA CapSame ==
  ASSUME accounts' = accounts
  PROVE  Silent' = Silent /\ StandFor("yes")' = StandFor("yes") /\ No' = No
BY DEF Silent, SilentAmount, No, NoAmount, StandFor, AtomAmount

LEMMA MultiplierSame ==
  ASSUME params' = params, atom' = atom, nonVotersMultiplier' = nonVotersMultiplier,
         MultiplierSet
  PROVE  MultiplierSet'
BY DEF MultiplierSet, NonVotersAtom, YesAtoneTotal, NoAtoneTotal

\* What the non-voters and the voters have makes the supply.
LEMMA AtoneParts ==
  ASSUME IsDistrib(atone)
  PROVE  /\ SilentAtone \in Nat /\ VotersAtone \in Nat
         /\ OptionsTotal(atone.votes) + atone.unstaked = SilentAtone + VotersAtone
<1>1. {"yes", "no", "veto", "abstain", "empty"} \subseteq AnyOption
  BY DEF AnyOption, VoteOption
<1>2. /\ atone.votes["yes"] \in Nat /\ atone.votes["no"] \in Nat /\ atone.votes["veto"] \in Nat
      /\ atone.votes["abstain"] \in Nat /\ atone.votes["empty"] \in Nat /\ atone.unstaked \in Nat
  BY <1>1 DEF IsDistrib
<1> QED
  BY <1>2 DEF SilentAtone, VotersAtone, OptionsTotal

\* One more account of the second pass.
LEMMA CapStep ==
  ASSUME InputInv, TypeOK, CapInv, phase = "distribute", next <= Len(accounts),
         next' = next + 1, phase' = phase, accounts' = accounts, params' = params,
         atom' = atom, nonVotersMultiplier' = nonVotersMultiplier,
         NEW w \in Nat, NEW r \in Nat,
         SilentAtone' = SilentAtone + w,
         VotersAtone' = VotersAtone + r,
         Shared(params, nonVotersMultiplier, w, r,
                Silent[next], StandFor("yes")[next], No[next], 1)
  PROVE  CapInv'
<1> DEFINE S == 1..(next - 1)
           Y == StandFor("yes")
           n == next - 1
<1>1. /\ S \subseteq DOMAIN accounts /\ IsFiniteSet(S) /\ next \in DOMAIN accounts
      /\ next \notin S /\ 1..((next + 1) - 1) = S \cup {next}
  BY Prefix
<1>2. Passed = n /\ Passed' = n + 1 /\ n \in Nat /\ 1..Passed = S
      /\ 1..Passed' = S \cup {next}
  BY <1>1 DEF Passed, TypeOK
<1>3. \A i \in S \cup {next} : Silent[i] \in Nat /\ Y[i] \in Nat /\ No[i] \in Nat
  BY <1>1, CapTypes
<1>a. /\ \A i \in S \cup {next} : Silent[i] \in Int
      /\ \A i \in S \cup {next} : Y[i] \in Int
      /\ \A i \in S \cup {next} : No[i] \in Int
  BY <1>3
<1>4. Silent' = Silent /\ StandFor("yes")' = StandFor("yes") /\ No' = No
  BY CapSame
<1>5. MultiplierSet /\ MultiplierSet'
  BY MultiplierSame DEF CapInv
<1> HIDE DEF S, Y, n
<1>6. PICK s \in Nat : s = SumFunctionOnSet(Silent, S)
  BY <1>1, <1>3, SumNat
<1>7. PICK y \in Nat : y = SumFunctionOnSet(Y, S)
  BY <1>1, <1>3, SumNat
<1>8. PICK v \in Nat : v = SumFunctionOnSet(No, S)
  BY <1>1, <1>3, SumNat
<1>9. SumFunctionOnSet(Silent, S \cup {next}) = s + Silent[next]
  <2>1. SumFunctionOnSet(Silent, S \cup {next}) = Silent[next] + SumFunctionOnSet(Silent, S)
    BY <1>1, <1>a, SumAdd, Zenon
  <2> QED
    BY <1>1, <1>3, <1>6, <2>1
<1>10. SumFunctionOnSet(Y, S \cup {next}) = y + Y[next]
  <2>1. SumFunctionOnSet(Y, S \cup {next}) = Y[next] + SumFunctionOnSet(Y, S)
    BY <1>1, <1>a, SumAdd, Zenon
  <2> QED
    BY <1>1, <1>3, <1>7, <2>1
<1>11. SumFunctionOnSet(No, S \cup {next}) = v + No[next]
  <2>1. SumFunctionOnSet(No, S \cup {next}) = No[next] + SumFunctionOnSet(No, S)
    BY <1>1, <1>a, SumAdd, Zenon
  <2> QED
    BY <1>1, <1>3, <1>8, <2>1
<1>12. IsDistrib(atone) /\ nonVotersMultiplier \in Nat
  BY DEF TypeOK
<1>13. PICK w0 \in Nat, r0 \in Nat, m \in Nat :
         w0 = SilentAtone /\ r0 = VotersAtone /\ m = nonVotersMultiplier
  BY <1>12, AtoneParts
<1>14. Shared(params, m, w0, r0, s, y, v, n)
  <2>1. Shared(params, nonVotersMultiplier, SilentAtone, VotersAtone,
               SumFunctionOnSet(Silent, 1..Passed),
               SumFunctionOnSet(StandFor("yes"), 1..Passed),
               SumFunctionOnSet(No, 1..Passed), Passed)
    BY DEF CapInv
  <2> QED
    BY <1>2, <1>6, <1>7, <1>8, <1>13, <2>1, Zenon DEF Y
<1>15. PICK s1 \in Nat, y1 \in Nat, v1 \in Nat :
         s1 = Silent[next] /\ y1 = Y[next] /\ v1 = No[next]
  BY <1>3
<1>16. Shared(params, m, w, r, s1, y1, v1, 1)
  BY <1>13, <1>15, Zenon DEF Y
<1>17. Shared(params, m, w0 + w, r0 + r, s + s1, y + y1, v + v1, n + 1)
  <2>1. /\ params.supplyFactor \in Nat /\ params.yesVotesMultiplier \in Nat
        /\ params.noVotesMultiplier \in Nat
    BY ParamsType
  <2> QED
    BY <1>2, <1>14, <1>16, <2>1, SharedAdd, Zenon
<1>18. /\ m = nonVotersMultiplier' /\ SilentAtone' = w0 + w /\ VotersAtone' = r0 + r
  BY <1>13 DEF SilentAtone, VotersAtone
<1>19. /\ SumFunctionOnSet(Silent, 1..Passed)' = s + s1
       /\ SumFunctionOnSet(StandFor("yes"), 1..Passed)' = y + y1
       /\ SumFunctionOnSet(No, 1..Passed)' = v + v1
  BY <1>2, <1>4, <1>9, <1>10, <1>11, <1>15, Zenon DEF Y
<1>20. Shared(params, nonVotersMultiplier, SilentAtone, VotersAtone,
              SumFunctionOnSet(Silent, 1..Passed),
              SumFunctionOnSet(StandFor("yes"), 1..Passed),
              SumFunctionOnSet(No, 1..Passed), Passed)'
  BY <1>2, <1>17, <1>18, <1>19, Zenon DEF Shared
<1>21. phase' = "distribute"
  OBVIOUS
<1> QED
  BY <1>5, <1>20, <1>21 DEF CapInv

LEMMA CapInit == Init => CapInv
<1> SUFFICES ASSUME Init PROVE CapInv
  OBVIOUS
<1>1. phase = "idle" /\ atone = EmptyDistrib
  BY DEF Init, DistributionInit
<1>2. SilentAtone = 0 /\ VotersAtone = 0
  BY <1>1 DEF EmptyDistrib, SilentAtone, VotersAtone, AnyOption, VoteOption
<1> QED
  BY <1>1, <1>2 DEF CapInv

LEMMA CapFrame ==
  ASSUME CapInv, phase = "distribute" \/ phase' = phase, phase' \in {phase, "done"},
         accounts' = accounts, params' = params, atom' = atom, atone' = atone,
         nonVotersMultiplier' = nonVotersMultiplier, Passed' = Passed
  PROVE  CapInv'
<1>1. Silent' = Silent /\ StandFor("yes")' = StandFor("yes") /\ No' = No
  BY CapSame
<1>2. MultiplierSet => MultiplierSet'
  BY MultiplierSame
<1>3. SilentAtone' = SilentAtone /\ VotersAtone' = VotersAtone
  BY DEF SilentAtone, VotersAtone
<1> DEFINE P == Shared(params, nonVotersMultiplier, SilentAtone, VotersAtone,
                       SumFunctionOnSet(Silent, 1..Passed),
                       SumFunctionOnSet(StandFor("yes"), 1..Passed),
                       SumFunctionOnSet(No, 1..Passed), Passed)
<1>4. P => P'
  BY <1>1, <1>3, Zenon DEF Shared
<1>5. phase \in {"idle", "survey"} => SilentAtone = 0 /\ VotersAtone = 0
  BY DEF CapInv
<1>6. phase \in {"distribute", "done"} => MultiplierSet /\ P
  BY DEF CapInv
<1>7. CapInv' <=> /\ phase' \in {"idle", "survey"} =>
                       SilentAtone' = 0 /\ VotersAtone' = 0
                  /\ phase' \in {"distribute", "done"} => MultiplierSet' /\ P'
  BY DEF CapInv
<1> HIDE DEF P
<1> QED
  BY <1>2, <1>3, <1>4, <1>5, <1>6, <1>7

\* The actions that credit an account.
LEMMA CapCredit ==
  ASSUME InputInv, TypeOK, CapInv, CapInput(params, accounts), AddAirdrop,
         next' = next + 1, phase' = phase
  PROVE  CapInv'
<1> DEFINE acc == accounts[next]
           votes == [o \in AnyOption |-> AtoneAmount(acc, o)]
           liquid == LiquidAtone(acc)
           w == votes["abstain"] + votes["empty"] + liquid
           r == votes["yes"] + votes["no"] + votes["veto"]
<1>1. /\ phase = "distribute" /\ next <= Len(accounts) /\ accounts' = accounts
      /\ params' = params /\ atom' = atom /\ nonVotersMultiplier' = nonVotersMultiplier
      /\ atone' = AddTo(atone, votes, liquid, AirdropAmount(acc))
  BY DEF AddAirdrop, input
<1>2. next \in DOMAIN accounts
  BY <1>1, Prefix
<1>3. votes \in [AnyOption -> Nat] /\ liquid \in Nat
  BY <1>1, AtoneAmountType, LiquidAtoneType
<1>4. Shared(params, nonVotersMultiplier, w, r,
             Silent[next], StandFor("yes")[next], No[next], 1)
  <2>1. Shared(params, nonVotersMultiplier, w, r,
               SilentAmount(acc), AtomAmount(acc, "yes"), NoAmount(acc), 1)
    BY <1>1, SharedAccount, Zenon
  <2>2. /\ Silent[next] = SilentAmount(acc) /\ No[next] = NoAmount(acc)
        /\ StandFor("yes")[next] = AtomAmount(acc, "yes")
    BY <1>2 DEF Silent, No, StandFor
  <2> QED
    BY <2>1, <2>2, Zenon
<1> HIDE DEF votes, liquid
<1>5. {"yes", "no", "veto", "abstain", "empty"} \subseteq AnyOption
  BY DEF AnyOption, VoteOption
<1>6. w \in Nat /\ r \in Nat
  BY <1>3, <1>5
<1>7. /\ atone'.votes = [o \in AnyOption |-> atone.votes[o] + votes[o]]
      /\ atone'.unstaked = atone.unstaked + liquid
  BY <1>1 DEF AddTo
<1>8. SilentAtone' = SilentAtone + w /\ VotersAtone' = VotersAtone + r
  <2>1. /\ atone.votes["yes"] \in Nat /\ atone.votes["no"] \in Nat
        /\ atone.votes["veto"] \in Nat /\ atone.votes["abstain"] \in Nat
        /\ atone.votes["empty"] \in Nat /\ atone.unstaked \in Nat
    BY <1>5 DEF TypeOK, IsDistrib
  <2>2. /\ votes["yes"] \in Nat /\ votes["no"] \in Nat /\ votes["veto"] \in Nat
        /\ votes["abstain"] \in Nat /\ votes["empty"] \in Nat
    BY <1>3, <1>5
  <2>3. /\ atone'.votes["yes"] = atone.votes["yes"] + votes["yes"]
        /\ atone'.votes["no"] = atone.votes["no"] + votes["no"]
        /\ atone'.votes["veto"] = atone.votes["veto"] + votes["veto"]
        /\ atone'.votes["abstain"] = atone.votes["abstain"] + votes["abstain"]
        /\ atone'.votes["empty"] = atone.votes["empty"] + votes["empty"]
    BY <1>5, <1>7
  <2> QED
    BY <1>3, <1>7, <2>1, <2>2, <2>3 DEF SilentAtone, VotersAtone
<1> HIDE DEF w, r
<1> QED
  BY <1>1, <1>4, <1>6, <1>8, CapStep

\* An ICF wallet gets nothing, and has a share of the non-voters only.
LEMMA CapSlash ==
  ASSUME InputInv, TypeOK, CapInv, CapInput(params, accounts), SlashIcf
  PROVE  CapInv'
<1> DEFINE acc == accounts[next]
<1>1. /\ phase = "distribute" /\ phase' = phase /\ next <= Len(accounts)
      /\ next' = next + 1 /\ accounts' = accounts /\ params' = params /\ atom' = atom
      /\ nonVotersMultiplier' = nonVotersMultiplier /\ atone' = atone
      /\ acc.Address \in IcfWallets
  BY DEF SlashIcf, input
<1>2. next \in DOMAIN accounts
  BY <1>1, Prefix
<1>3. StandFor("yes")[next] = 0 /\ No[next] = 0
  <2>1. AtomAmount(acc, "yes") = 0 /\ AtomAmount(acc, "no") = 0 /\ AtomAmount(acc, "veto") = 0
    BY <1>1, <1>2 DEF CapInput
  <2> QED
    BY <1>2, <2>1 DEF StandFor, No, NoAmount
<1>4. PICK s \in Nat : s = Silent[next]
  BY <1>2, CapTypes
<1>5. PICK u \in Nat, f \in Nat, m \in Nat, py \in Nat, pn \in Nat :
        /\ u = One /\ f = params.supplyFactor /\ m = nonVotersMultiplier
        /\ py = params.yesVotesMultiplier /\ pn = params.noVotesMultiplier
  BY OneAssumption, ParamsType DEF TypeOK
<1>6. Shared(params, nonVotersMultiplier, 0, 0, s, 0, 0, 1)
  <2>1. s * m \in Nat /\ u * u \in Nat
    OBVIOUS
  <2>2. f * (s * m) \in Nat /\ 1 * (3 * (u * u)) \in Nat
    BY <2>1
  <2>3. u * (u * 0) = 0 /\ f * (0 * py + 0 * pn) = 0
    OBVIOUS
  <2>4. \A i \in Nat, j \in Nat : 0 <= i + j /\ 0 <= 0 + j
    OBVIOUS
  <2>5. /\ u * (u * 0) <= f * (s * m) + 1 * (3 * (u * u))
        /\ f * (0 * py + 0 * pn) <= u * (u * 0) + 1 * (3 * (u * u))
    BY <2>2, <2>3, <2>4, Zenon
  <2> QED
    BY <1>5, <2>5, Zenon DEF Shared
<1>7. SilentAtone' = SilentAtone + 0 /\ VotersAtone' = VotersAtone + 0
  <2>1. SilentAtone \in Nat /\ VotersAtone \in Nat
    BY AtoneParts DEF TypeOK
  <2>2. SilentAtone' = SilentAtone /\ VotersAtone' = VotersAtone
    BY <1>1 DEF SilentAtone, VotersAtone
  <2> QED
    BY <2>1, <2>2
<1>8. Shared(params, nonVotersMultiplier, 0, 0,
             Silent[next], StandFor("yes")[next], No[next], 1)
  BY <1>3, <1>4, <1>6, Zenon
<1>9. 0 \in Nat
  OBVIOUS
<1> HIDE DEF acc
<1> QED
  BY <1>1, <1>7, <1>8, <1>9, CapStep

LEMMA CapNext ==
  ASSUME IInv, CapInput(params, accounts), CapInv, [DistributionNext]_distributionVars
  PROVE  CapInv'
<1>0. InputInv /\ TypeOK
  BY DEF IInv
<1>1. ASSUME Begin \/ Survey PROVE CapInv'
  <2>1. /\ phase \in {"idle", "survey"} /\ phase' = "survey" /\ atone' = atone
    BY <1>1 DEF Begin, Survey, airdrop
  <2>2. SilentAtone' = 0 /\ VotersAtone' = 0
    BY <2>1 DEF CapInv, SilentAtone, VotersAtone
  <2> QED
    BY <2>1, <2>2 DEF CapInv
<1>2. ASSUME ComputeMultiplier PROVE CapInv'
  <2> DEFINE divisor == Mul(One - TargetNonVotersPerc, NonVotersAtom)
             voters == Mul(TargetNonVotersPerc, YesAtoneTotal + NoAtoneTotal)
  <2>1. /\ phase = "survey" /\ phase' \in {"panic", "distribute"} /\ next' = 1
        /\ atone' = atone /\ accounts' = accounts /\ params' = params /\ atom' = atom
    BY <1>2 DEF ComputeMultiplier, input, airdrop
  <2>2. phase' = "distribute" => divisor # 0 /\ nonVotersMultiplier' = Quo(voters, divisor)
    <3>1. IF divisor = 0
          THEN phase' = "panic" /\ UNCHANGED nonVotersMultiplier
          ELSE phase' = "distribute" /\ nonVotersMultiplier' = Quo(voters, divisor)
      BY <1>2 DEF ComputeMultiplier
    <3> HIDE DEF divisor, voters
    <3> QED
      BY <3>1
  <2>3. divisor' = divisor /\ voters' = voters
    BY <2>1 DEF NonVotersAtom, YesAtoneTotal, NoAtoneTotal
  <2>4. phase' = "distribute" => MultiplierSet'
    <3>1. MultiplierSet' <=> divisor' # 0 /\ nonVotersMultiplier' = Quo(voters', divisor')
      BY DEF MultiplierSet
    <3> HIDE DEF divisor, voters
    <3> QED
      BY <2>2, <2>3, <3>1, Zenon
  <2> HIDE DEF divisor, voters
  <2>5. SilentAtone' = 0 /\ VotersAtone' = 0
    BY <2>1 DEF CapInv, SilentAtone, VotersAtone
  <2>6. Passed' = 0 /\ (1..Passed)' = {}
    BY <2>1 DEF Passed
  <2>7. Shared(params, nonVotersMultiplier, 0, 0, 0, 0, 0, 0)'
    <3>1. PICK u \in Nat, f \in Nat, py \in Nat, pn \in Nat, m \in Nat :
            /\ u = One /\ f = params'.supplyFactor /\ m = nonVotersMultiplier'
            /\ py = params'.yesVotesMultiplier /\ pn = params'.noVotesMultiplier
      <4>1. IInv'
        BY NextInv, <1>2 DEF DistributionNext
      <4>2. nonVotersMultiplier' \in Nat
        BY <4>1 DEF IInv, TypeOK
      <4>3. /\ params.supplyFactor \in Nat /\ params.yesVotesMultiplier \in Nat
            /\ params.noVotesMultiplier \in Nat
        BY <1>0, ParamsType
      <4> QED
        BY <2>1, <4>2, <4>3, OneAssumption
    <3>2. /\ u * (u * 0) = 0 /\ f * (0 * m) = 0 /\ f * (0 * py + 0 * pn) = 0
          /\ 0 * (3 * (u * u)) = 0 /\ 0 + 0 = 0 /\ 0 <= 0
      OBVIOUS
    <3>3. /\ u * (u * 0) <= f * (0 * m) + 0 * (3 * (u * u))
          /\ f * (0 * py + 0 * pn) <= u * (u * 0) + 0 * (3 * (u * u))
      BY <3>2, Zenon
    <3> QED
      BY <3>1, <3>3, Zenon DEF Shared
  <2>8. /\ SumFunctionOnSet(Silent, 1..Passed)' = 0
        /\ SumFunctionOnSet(StandFor("yes"), 1..Passed)' = 0
        /\ SumFunctionOnSet(No, 1..Passed)' = 0
    BY <2>6, SumEmpty, Zenon
  <2>9. Shared(params, nonVotersMultiplier, SilentAtone, VotersAtone,
               SumFunctionOnSet(Silent, 1..Passed),
               SumFunctionOnSet(StandFor("yes"), 1..Passed),
               SumFunctionOnSet(No, 1..Passed), Passed)'
    BY <2>5, <2>6, <2>7, <2>8, Zenon DEF Shared
  <2> QED
    BY <2>1, <2>4, <2>9 DEF CapInv
<1>3. ASSUME SlashIcf PROVE CapInv'
  BY <1>0, <1>3, CapSlash
<1>4. ASSUME SkipZero \/ Credit PROVE CapInv'
  BY <1>0, <1>4, CapCredit DEF SkipZero, Credit
<1>5. ASSUME FailToConvert PROVE CapInv'
  BY <1>5 DEF FailToConvert, CapInv
<1>6. ASSUME Mint PROVE CapInv'
  <2>1. /\ phase = "distribute" /\ phase' = "done" /\ next' = next /\ accounts' = accounts
        /\ params' = params /\ atom' = atom /\ atone' = atone
        /\ nonVotersMultiplier' = nonVotersMultiplier
    BY <1>6 DEF Mint, input, airdrop
  <2>2. Passed' = Passed
    BY <2>1 DEF Passed
  <2> QED
    BY <2>1, <2>2, CapFrame
<1>7. ASSUME UNCHANGED distributionVars PROVE CapInv'
  <2>1. /\ phase' = phase /\ next' = next /\ accounts' = accounts
        /\ params' = params /\ atom' = atom /\ atone' = atone
        /\ nonVotersMultiplier' = nonVotersMultiplier
    BY <1>7 DEF distributionVars, input, airdrop
  <2>2. Passed' = Passed
    BY <2>1 DEF Passed
  <2> QED
    BY <2>1, <2>2, CapFrame
<1> QED
  BY <1>1, <1>2, <1>3, <1>4, <1>5, <1>6, <1>7 DEF DistributionNext, Ended

\* What is surveyed at the end is every account, and what is passed too.
LEMMA CapSums ==
  ASSUME IInv, SurveyInv, AirdropInv, phase = "done"
  PROVE  /\ Passed = Len(accounts) /\ Len(accounts) \in Nat
         /\ NonVotersAtom = SumFunctionOnSet(Silent, 1..Passed)
         /\ atom.votes["yes"] = SumFunctionOnSet(StandFor("yes"), 1..Passed)
         /\ atom.votes["no"] + atom.votes["veto"] = SumFunctionOnSet(No, 1..Passed)
         /\ Len(accounts) = 0 => NonVotersAtom = 0
<1> DEFINE D == DOMAIN accounts
           sum(o) == SumFunctionOnSet(StandFor(o), D)
           staked == [i \in D |-> StandFor("abstain")[i] + StandFor("empty")[i]]
<1>1. IsFiniteSet(D) /\ Len(accounts) \in Nat /\ D = 1..Len(accounts) /\ InputInv
  BY AccountsList DEF IInv
<1>2. Passed = Len(accounts) /\ 1..Passed = D
  <2>1. Passed = (Len(accounts) + 1) - 1
    BY DEF AirdropInv, Passed
  <2> QED
    BY <1>1, <2>1
<1>3. {"yes", "no", "veto", "abstain", "empty"} \subseteq AnyOption
  BY DEF AnyOption, VoteOption
<1>4. /\ \A o \in AnyOption : atom.votes[o] = sum(o)
      /\ atom.unstaked = SumFunctionOnSet(Liquid, D)
  BY DEF SurveyInv, Surveyed
<1>5. \A o \in AnyOption : \A i \in D : StandFor(o)[i] \in Int
  BY <1>1, StandType
<1>6. \A i \in D : Liquid[i] \in Int
  BY <1>1, LiquidType
<1>7. \A i \in D : /\ Silent[i] = StandFor("abstain")[i] + StandFor("empty")[i] + Liquid[i]
                   /\ No[i] = StandFor("no")[i] + StandFor("veto")[i]
  BY <1>1, CapTypes
<1>8. \A i \in D : /\ StandFor("abstain")[i] \in Int /\ StandFor("empty")[i] \in Int
                   /\ staked[i] = StandFor("abstain")[i] + StandFor("empty")[i]
  BY <1>3, <1>5
<1> HIDE DEF staked, D
<1>9. SumFunctionOnSet(staked, D) = sum("abstain") + sum("empty")
  BY <1>1, <1>8, SumPlus
<1>10. SumFunctionOnSet(Silent, D) = SumFunctionOnSet(staked, D) + SumFunctionOnSet(Liquid, D)
  <2>1. \A i \in D : /\ staked[i] \in Int /\ Liquid[i] \in Int
                     /\ Silent[i] = staked[i] + Liquid[i]
    BY <1>6, <1>7, <1>8
  <2> QED
    BY <1>1, <2>1, SumPlus
<1>11. SumFunctionOnSet(No, D) = sum("no") + sum("veto")
  <2>1. \A i \in D : /\ StandFor("no")[i] \in Int /\ StandFor("veto")[i] \in Int
                     /\ No[i] = StandFor("no")[i] + StandFor("veto")[i]
    BY <1>3, <1>5, <1>7
  <2> QED
    BY <1>1, <2>1, SumPlus
<1>12. NonVotersAtom = SumFunctionOnSet(Silent, D)
  BY <1>3, <1>4, <1>9, <1>10 DEF NonVotersAtom
<1>13. Len(accounts) = 0 => NonVotersAtom = 0
  <2>1. Len(accounts) = 0 => D = {}
    BY <1>1
  <2> QED
    BY <1>12, <2>1, SumEmpty
<1> QED
  BY <1>1, <1>2, <1>3, <1>4, <1>11, <1>12, <1>13

LEMMA Capped ==
  ASSUME IInv, SurveyInv, AirdropInv, CapInv, CapInput(params, accounts)
  PROVE  NonVotersCap
<1> SUFFICES ASSUME phase = "done"
             PROVE  LET nonVoters == SilentAtone
                        slack == 4 * Len(accounts) + (NonVotersAtom \div One)
                                   + (nonVotersMultiplier \div One) + 1
                    IN  3 * nonVoters <= atone.supply + 3 * slack
  BY DEF NonVotersCap, SilentAtone
<1>1. InputInv /\ TypeOK /\ SupplyIsSum /\ IsDistrib(atone) /\ IsDistrib(atom)
  BY DEF IInv, TypeOK
<1>2. MultiplierSet
  BY DEF CapInv
<1>3. PICK u \in Nat \ {0}, t \in Nat, c \in Nat :
        /\ u = One /\ t = TargetNonVotersPerc /\ c = One - TargetNonVotersPerc /\ u = t + c
  BY OneAssumption, TargetAssumption
<1>4. PICK f \in Nat, py \in Nat, pn \in Nat, m \in Nat :
        /\ f = params.supplyFactor /\ py = params.yesVotesMultiplier
        /\ pn = params.noVotesMultiplier /\ m = nonVotersMultiplier
  BY <1>1, ParamsType DEF TypeOK
<1>5. 3 * t <= u /\ f <= u
  BY <1>3, <1>4 DEF CapInput
<1>6. PICK A \in Nat, y \in Nat, v \in Nat :
        /\ A = NonVotersAtom /\ y = atom.votes["yes"]
        /\ v = atom.votes["no"] + atom.votes["veto"]
  <2>1. /\ atom.votes["yes"] \in Nat /\ atom.votes["no"] \in Nat
        /\ atom.votes["veto"] \in Nat /\ atom.votes["abstain"] \in Nat
        /\ atom.votes["empty"] \in Nat /\ atom.unstaked \in Nat
    BY <1>1 DEF IsDistrib, AnyOption, VoteOption
  <2> QED
    BY <2>1 DEF NonVotersAtom
<1>7. PICK sy \in Nat, sn \in Nat : sy = Mul(y, py) /\ sn = Mul(v, pn)
  BY MulNat
<1>8. PICK S \in Nat : S = sy + sn
  OBVIOUS
<1>9. PICK V \in Nat, D \in Nat : V = Mul(t, S) /\ D = Mul(c, A)
  BY MulNat
<1>10. D # 0 /\ m = Quo(V, D)
  BY <1>2, <1>3, <1>4, <1>6, <1>7, <1>8, <1>9, Zenon
  DEF MultiplierSet, YesAtoneTotal, NoAtoneTotal
<1>11. PICK n \in Nat \ {0} : n = Len(accounts) /\ n = Passed
  <2>1. Len(accounts) # 0
    <3> SUFFICES ASSUME Len(accounts) = 0 PROVE FALSE
      OBVIOUS
    <3>1. A = 0
      BY <1>6, CapSums
    <3>2. D = 0
      BY <1>9, <3>1, MulZero
    <3> QED
      BY <1>10, <3>2
  <2> QED
    BY <2>1, CapSums
<1>12. PICK W \in Nat, R \in Nat : W = SilentAtone /\ R = VotersAtone
  BY <1>1, AtoneParts
<1>13. atone.supply = W + R
  BY <1>1, <1>12, AtoneParts DEF SupplyIsSum
<1>14. PICK P \in Nat : P = y * py + v * pn
  OBVIOUS
<1>15. /\ u * (u * W) <= f * (A * m) + n * (3 * (u * u))
       /\ f * P <= u * (u * R) + n * (3 * (u * u))
  <2>1. Shared(params, m, W, R, A, y, v, n)
    <3>1. Shared(params, nonVotersMultiplier, SilentAtone, VotersAtone,
                 SumFunctionOnSet(Silent, 1..Passed),
                 SumFunctionOnSet(StandFor("yes"), 1..Passed),
                 SumFunctionOnSet(No, 1..Passed), Passed)
      BY DEF CapInv
    <3>2. /\ A = SumFunctionOnSet(Silent, 1..Passed)
          /\ y = SumFunctionOnSet(StandFor("yes"), 1..Passed)
          /\ v = SumFunctionOnSet(No, 1..Passed)
      BY <1>6, CapSums
    <3> QED
      BY <1>4, <1>11, <1>12, <3>1, <3>2, Zenon
  <2> QED
    BY <1>3, <1>4, <1>14, <2>1, Zenon DEF Shared
<1>16. u * S <= P + u
  <2>1. PICK a \in Nat, b \in Nat, ua \in Nat, ub \in Nat :
          a = y * py /\ b = v * pn /\ ua = u * sy /\ ub = u * sn
    OBVIOUS
  <2>r. Rounded(u, y, py, sy, a, ua) /\ Rounded(u, v, pn, sn, b, ub)
    BY <1>3, <1>7, <2>1, Zenon DEF Rounded
  <2>2. 2 * ua <= 2 * a + u
    BY <2>r, MulWithin, Zenon
  <2>3. 2 * ub <= 2 * b + u
    BY <2>r, MulWithin, Zenon
  <2>4. u * S = ua + ub
    BY <1>8, <2>1
  <2> QED
    BY <1>14, <2>1, <2>2, <2>3, <2>4
<1>17. 2 * (u * V) <= 2 * (t * S) + u
  <2>1. PICK uV \in Nat, tS \in Nat : uV = u * V /\ tS = t * S
    OBVIOUS
  <2>2. Rounded(u, t, S, V, tS, uV)
    BY <1>3, <1>9, <2>1, Zenon DEF Rounded
  <2>3. 2 * uV <= 2 * tS + u
    BY <2>2, MulWithin, Zenon
  <2> QED
    BY <2>1, <2>3
<1>18. 2 * (c * A) <= 2 * (u * D) + u /\ 2 * (u * D) <= 2 * (c * A) + u
  <2>1. PICK uD \in Nat, cA \in Nat : uD = u * D /\ cA = c * A
    OBVIOUS
  <2>2. Rounded(u, c, A, D, cA, uD)
    BY <1>3, <1>9, <2>1, Zenon DEF Rounded
  <2>3. 2 * uD <= 2 * cA + u /\ 2 * cA <= 2 * uD + u
    BY <2>2, MulWithin, Zenon
  <2> QED
    BY <2>1, <2>3
<1>19. D * m <= V * u + D
  <2>1. D * Quo(V, D) - V * One <= D
    BY <1>9, <1>10, QuoError
  <2>2. PICK Dm \in Nat, Vu \in Nat : Dm = D * m /\ Vu = V * u
    OBVIOUS
  <2>3. Dm - Vu <= D
    BY <1>3, <1>10, <2>1, <2>2, Zenon
  <2> QED
    BY <2>2, <2>3
<1>20. 2 * W <= R + 3 * (4 * n + (A \div u) + (m \div u) + 1)
  <2>1. CapFacts(u, t, c, f, n, A, m, P, W, R, S, V, D)
    BY <1>3, <1>5, <1>15, <1>16, <1>17, <1>18, <1>19, Zenon DEF CapFacts
  <2> QED
    BY <2>1, CapArithmetic, Zenon
<1>21. PICK k \in Nat : k = 4 * n + (A \div u) + (m \div u) + 1
  OBVIOUS
<1>22. 3 * W <= (W + R) + 3 * k
  BY <1>20, <1>21
<1>23. k = 4 * Len(accounts) + (NonVotersAtom \div One) + (nonVotersMultiplier \div One) + 1
  BY <1>3, <1>4, <1>6, <1>11, <1>21, Zenon
<1> QED
  BY <1>12, <1>13, <1>22, <1>23, Zenon

\* Those who did not vote never hold more than a third of the supply, to the slack of
\* the property, when the target is at most a third, the malus and the supply factor
\* are at most 1, the bonus is at least 1 (the default parameters satisfy all of it)
\* and no ICF wallet has voted Yes or No: what an ICF wallet voted is counted when the
\* multiplier is computed and never credited, and the run on such a file breaks the cap.
THEOREM CapCorrect ==
  ASSUME \A p \in ParamSets, list \in AccountLists : CapInput(p, list)
  PROVE  Spec => []NonVotersCap
<1>1. Init => CapInv
  BY CapInit
<1>2. IInv /\ CapInv /\ [DistributionNext]_distributionVars => CapInv'
  <2> SUFFICES ASSUME IInv, CapInv, [DistributionNext]_distributionVars PROVE CapInv'
    OBVIOUS
  <2>1. CapInput(params, accounts)
    BY DEF IInv, InputInv
  <2> QED
    BY <2>1, CapNext
<1>3. IInv /\ SurveyInv /\ AirdropInv /\ CapInv => NonVotersCap
  <2> SUFFICES ASSUME IInv, SurveyInv, AirdropInv, CapInv PROVE NonVotersCap
    OBVIOUS
  <2>1. CapInput(params, accounts)
    BY DEF IInv, InputInv
  <2> QED
    BY <2>1, Capped
<1> QED
  BY <1>1, <1>2, <1>3, Invariance, PTL DEF Spec
=============================================================================
