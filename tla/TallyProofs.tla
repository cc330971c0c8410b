----------------------------- MODULE TallyProofs ----------------------------
(***************************************************************************)
(* The tally, for every snapshot: what was counted so far is the sum, over *)
(* the delegations and the validators that were reached, of what           *)
(* TallySpec gives each of them.                                           *)
(***************************************************************************)
EXTENDS Tally, SnapshotProofs

-----------------------------------------------------------------------------
(* What the maps of the snapshot satisfy.                                  *)

VotesOK ==
  /\ IsFiniteSet(DOMAIN votesByAddr)
  /\ votesByAddr \in [DOMAIN votesByAddr -> Ballots]
  /\ DOMAIN votesByAddr \subseteq Address

Pairs == Delegated(delegsByAddr)

DelegsOK ==
  /\ IsFiniteSet(Pairs)
  /\ \A a \in DOMAIN delegsByAddr :
       LET ds == delegsByAddr[a]
       IN  /\ ds \in Seq(Range(ds))
           /\ \A i, j \in DOMAIN ds : ds[i] = ds[j] => i = j
           /\ \A i \in DOMAIN ds : ds[i].shares \in Nat

\* The shares of the delegations at v.
SharesAt(v) ==
  [ad \in Pairs |-> IF ad[2].validator = v THEN ad[2].shares ELSE 0]

ValsOK ==
  /\ IsFiniteSet(DOMAIN valsByAddr)
  /\ DOMAIN valsByAddr \subseteq Operator
  /\ valsByAddr \in [DOMAIN valsByAddr -> Validator]
  /\ \A v \in DOMAIN valsByAddr :
       SumFunctionOnSet(SharesAt(v), Pairs) = valsByAddr[v].DelegatorShares

-----------------------------------------------------------------------------
(* The inductive invariant.                                                *)

\* The delegations that count: of a direct voter, to an active validator.
Voted ==
  {ad \in Pairs : ad[1] \in DOMAIN votesByAddr /\ ad[2].validator \in DOMAIN valsByAddr}

Voting == {v \in DOMAIN valsByAddr : valsByAddr[v].Vote # NoVote}

\* Those the loops have counted.
Seen ==
  IF pc \in {"not parsed", "voters", "delegations"}
  THEN {ad \in Voted : ad[1] \notin todo /\ (ad[1] = voter => ad[2] \notin Range(dels))}
  ELSE Voted
SeenVals == IF pc \in {"not parsed", "voters", "delegations"} THEN {} ELSE Voting \ todo

\* The powers, and what option o has of each.
PowerOf == [ad \in Voted |-> VotingPower(ad[2].shares, valsByAddr[ad[2].validator])]
PartOf(o) == [ad \in Voted |-> Mul(PowerOf[ad], Lookup(votesByAddr[ad[1]], o, 0))]

Own(v) == valsByAddr[v].DelegatorShares - SumFunctionOnSet(SharesAt(v), Voted)
OwnPowerOf == [v \in Voting |-> VotingPower(Own(v), valsByAddr[v])]
OwnPartOf(o) == [v \in Voting |-> Mul(OwnPowerOf[v], Lookup(valsByAddr[v].Vote, o, 0))]

Control ==
  /\ pc \in {"not parsed", "voters", "delegations", "validators", "printed", "panic"}
  /\ pc \in {"not parsed", "voters", "delegations"} => todo \subseteq DOMAIN votesByAddr
  /\ pc \in {"validators", "printed", "panic"} => todo \subseteq DOMAIN valsByAddr
  /\ pc \in {"printed", "panic"} => todo = {}
  /\ IF pc = "delegations" THEN voter \in DOMAIN votesByAddr \ todo ELSE voter = NoVoter
  /\ dels # <<>> => /\ pc = "delegations"
                    /\ voter \in DOMAIN delegsByAddr
                    /\ dels \in Seq(Range(delegsByAddr[voter]))
  /\ dels \in Seq(Range(dels))
  /\ \A i, j \in DOMAIN dels : dels[i] = dels[j] => i = j

\* No option has more than the total, and together they have it all but for
\* the rounding.
Totals ==
  /\ results \in [VoteOption -> Nat]
  /\ totalVotingPower \in Nat
  /\ results["abstain"] <= totalVotingPower
  /\ counted \in Nat
  /\ yesPercent \in Int
  /\ Conservation

Counted ==
  /\ \A v \in DOMAIN valsByAddr :
       valsByAddr[v].DelegatorDeductions = SumFunctionOnSet(SharesAt(v), Seen)
  /\ \A o \in VoteOption :
       results[o] = SumFunctionOnSet(PartOf(o), Seen)
                      + SumFunctionOnSet(OwnPartOf(o), SeenVals)
  /\ totalVotingPower = SumFunctionOnSet(PowerOf, Seen)
                          + SumFunctionOnSet(OwnPowerOf, SeenVals)
  /\ counted = Cardinality(Seen) + Cardinality(SeenVals)

InputsOK == VotesOK /\ DelegsOK /\ ValsOK
IInv == InputsOK /\ Control /\ Totals /\ Counted

\* Only the snapshots TallySpec accepts are tallied.
Parsed == pc # "not parsed" => Abstract!Accepted

-----------------------------------------------------------------------------
(* A voting power and its parts.                                           *)

LEMMA PowerType ==
  ASSUME NEW shares \in Nat, NEW val \in Validator
  PROVE  VotingPower(shares, val) \in Nat
<1>1. val.BondedTokens \in Nat /\ val.DelegatorShares \in Nat \ {0}
  BY DEF Validator
<1>2. shares * val.BondedTokens \in Nat
  BY <1>1
<1> QED
  BY <1>1, <1>2, QuoNat DEF VotingPower, MulInt

LEMMA WeightType ==
  ASSUME NEW vote \in Ballots
  PROVE  /\ DOMAIN vote \subseteq VoteOption
         /\ \A o \in VoteOption : Lookup(vote, o, 0) \in 0..One
         /\ \A o \in DOMAIN vote : vote[o] = Lookup(vote, o, 0)
         /\ Lookup(vote, "yes", 0) + Lookup(vote, "abstain", 0)
              + Lookup(vote, "no", 0) + Lookup(vote, "veto", 0) = One
<1>1. IsWeightedVote(vote)
  BY DEF Ballots
<1>2. vote \in [DOMAIN vote -> 1..One] /\ DOMAIN vote \subseteq VoteOption
  BY <1>1 DEF IsWeightedVote
<1>3. \A o \in VoteOption : Lookup(vote, o, 0) \in 0..One
  BY <1>2, OneAssumption DEF Lookup
<1>4. \A o \in DOMAIN vote : vote[o] = Lookup(vote, o, 0)
  BY DEF Lookup
<1> QED
  BY <1>1, <1>2, <1>3, <1>4 DEF IsWeightedVote

\* The four parts of a power add up to it to two units.
LEMMA PartsOfPower ==
  ASSUME NEW vote \in Ballots, NEW p \in Nat,
         NEW y, NEW a, NEW n, NEW v,
         y = Mul(p, Lookup(vote, "yes", 0)), a = Mul(p, Lookup(vote, "abstain", 0)),
         n = Mul(p, Lookup(vote, "no", 0)), v = Mul(p, Lookup(vote, "veto", 0))
  PROVE  -2 <= y + a + n + v - p /\ y + a + n + v - p <= 2
<1> PICK wy \in Nat, wa \in Nat, wn \in Nat, wv \in Nat :
      /\ wy = Lookup(vote, "yes", 0) /\ wa = Lookup(vote, "abstain", 0)
      /\ wn = Lookup(vote, "no", 0) /\ wv = Lookup(vote, "veto", 0)
  BY WeightType, OneAssumption DEF VoteOption
<1>1. wy + wa + wn + wv = One
  BY WeightType
<1> QED
  BY <1>1, FourParts

LEMMA AddPowerStep ==
  ASSUME Totals, NEW vote \in Ballots, NEW p \in Nat,
         AddPower(vote, p), yesPercent' = yesPercent
  PROVE  /\ Totals'
         /\ \A o \in VoteOption : results'[o] = results[o] + Mul(p, Lookup(vote, o, 0))
         /\ totalVotingPower' = totalVotingPower + p
         /\ counted' = counted + 1
<1> DEFINE part(o) == Mul(p, Lookup(vote, o, 0))
<1>1. \A o \in VoteOption : part(o) \in Nat /\ part(o) <= p
  <2> TAKE o \in VoteOption
  <2> PICK w \in 0..One : w = Lookup(vote, o, 0)
    BY WeightType
  <2>1. w \in Nat
    BY OneAssumption
  <2> QED
    BY <2>1, MulError, MulBelow
<1>2. \A o \in VoteOption : results'[o] = results[o] + part(o)
  <2> TAKE o \in VoteOption
  <2>1. results[o] \in Nat
    BY DEF Totals
  <2>2. results'[o] = IF o \in DOMAIN vote THEN results[o] + Mul(p, vote[o]) ELSE results[o]
    BY DEF AddPower
  <2>3. CASE o \in DOMAIN vote
    BY <2>2, <2>3, WeightType
  <2>4. CASE o \notin DOMAIN vote
    <3>1. part(o) = 0
      BY <2>4, MulZero DEF Lookup
    <3> HIDE DEF part
    <3> QED
      BY <2>1, <2>2, <2>4, <3>1
  <2> QED
    BY <2>3, <2>4
<1>3. results' \in [VoteOption -> Nat]
  <2>1. \A o \in VoteOption : results'[o] \in Nat
    <3> HIDE DEF part
    <3> TAKE o \in VoteOption
    <3>1. results[o] \in Nat
      BY DEF Totals
    <3> QED
      BY <1>1, <1>2, <3>1
  <2>2. results' = [o \in VoteOption |-> results'[o]]
    BY DEF AddPower
  <2> QED
    BY <2>1, <2>2
<1>4. totalVotingPower' = totalVotingPower + p /\ counted' = counted + 1
  BY DEF AddPower
<1>5. /\ {"yes", "abstain", "no", "veto"} = VoteOption
      /\ totalVotingPower \in Nat /\ counted \in Nat
      /\ \A o \in VoteOption : results[o] \in Nat
  BY DEF VoteOption, Totals
<1>6. results'["abstain"] <= totalVotingPower'
  <2> HIDE DEF part
  <2>1. results["abstain"] <= totalVotingPower
    BY DEF Totals
  <2> QED
    BY <1>1, <1>2, <1>4, <1>5, <2>1
<1>7. Conservation'
  <2> PICK y, a, n, v :
        y = part("yes") /\ a = part("abstain") /\ n = part("no") /\ v = part("veto")
    OBVIOUS
  <2>1. y \in Nat /\ a \in Nat /\ n \in Nat /\ v \in Nat
    BY <1>1, <1>5
  <2>2. -2 <= y + a + n + v - p /\ y + a + n + v - p <= 2
    BY PartsOfPower
  <2>3. /\ results'["yes"] = results["yes"] + y
        /\ results'["abstain"] = results["abstain"] + a
        /\ results'["no"] = results["no"] + n
        /\ results'["veto"] = results["veto"] + v
    BY <1>2, <1>5
  <2>4. /\ results["yes"] \in Nat /\ results["abstain"] \in Nat
        /\ results["no"] \in Nat /\ results["veto"] \in Nat
    BY <1>5
  <2> DEFINE old == results["yes"] + results["abstain"] + results["no"] + results["veto"]
             new == results'["yes"] + results'["abstain"] + results'["no"] + results'["veto"]
  <2>5. old \in Int /\ new = old + (y + a + n + v)
    BY <2>1, <2>3, <2>4
  <2>6. old - totalVotingPower <= 2 * counted /\ totalVotingPower - old <= 2 * counted
    BY DEF Totals, Conservation, OptionsSum
  <2>7. new - totalVotingPower' <= 2 * counted' /\ totalVotingPower' - new <= 2 * counted'
    <3> HIDE DEF old, new
    <3> QED
      BY <1>4, <1>5, <2>1, <2>2, <2>5, <2>6
  <2> QED
    BY <2>7 DEF Conservation, OptionsSum
<1>8. totalVotingPower' \in Nat /\ counted' \in Nat /\ yesPercent' \in Int
  BY <1>4, <1>5 DEF Totals
<1> QED
  BY <1>2, <1>3, <1>4, <1>6, <1>7, <1>8 DEF Totals

-----------------------------------------------------------------------------
(* What no step changes: the inputs, and of a validator all but its        *)
(* deductions.                                                             *)

SameVals ==
  /\ valsByAddr' \in [DOMAIN valsByAddr -> Validator]
  /\ \A v \in DOMAIN valsByAddr :
       /\ valsByAddr'[v].BondedTokens = valsByAddr[v].BondedTokens
       /\ valsByAddr'[v].DelegatorShares = valsByAddr[v].DelegatorShares
       /\ valsByAddr'[v].Vote = valsByAddr[v].Vote

LEMMA Frame ==
  ASSUME InputsOK, UNCHANGED inputs, SameVals
  PROVE  /\ InputsOK'
         /\ DOMAIN valsByAddr' = DOMAIN valsByAddr
         /\ Pairs' = Pairs
         /\ Voted' = Voted
         /\ Voting' = Voting
         /\ PowerOf' = PowerOf
         /\ OwnPowerOf' = OwnPowerOf
         /\ \A v : SharesAt(v)' = SharesAt(v)
         /\ \A v \in DOMAIN valsByAddr : Own(v)' = Own(v)
         /\ \A o : PartOf(o)' = PartOf(o) /\ OwnPartOf(o)' = OwnPartOf(o)
<1>1. votesByAddr' = votesByAddr /\ delegsByAddr' = delegsByAddr
  BY DEF inputs
<1>2. DOMAIN valsByAddr' = DOMAIN valsByAddr
  BY DEF SameVals
<1>3. Pairs' = Pairs
  BY <1>1 DEF Pairs
<1>4. \A v : SharesAt(v)' = SharesAt(v)
  BY <1>3 DEF SharesAt
<1>5. VotesOK' /\ DelegsOK'
  BY <1>1, <1>3 DEF InputsOK, VotesOK, DelegsOK
<1>6. ValsOK'
  BY <1>2, <1>3, <1>4 DEF InputsOK, ValsOK, SameVals
<1>7. Voted' = Voted
  BY <1>1, <1>2, <1>3 DEF Voted
<1>8. Voting' = Voting
  BY <1>2 DEF Voting, SameVals
<1>9. \A s : \A v \in DOMAIN valsByAddr :
        VotingPower(s, valsByAddr'[v]) = VotingPower(s, valsByAddr[v])
  BY DEF SameVals, VotingPower
<1>10. PowerOf' = PowerOf
  <2>1. \A ad \in Voted : ad[2].validator \in DOMAIN valsByAddr
    BY DEF Voted
  <2>2. PowerOf' = [ad \in Voted |-> VotingPower(ad[2].shares, valsByAddr'[ad[2].validator])]
    BY <1>7 DEF PowerOf
  <2> QED
    BY <1>9, <2>1, <2>2 DEF PowerOf
<1>11. \A o : PartOf(o)' = PartOf(o)
  BY <1>1, <1>7, <1>10 DEF PartOf
<1>12. \A v \in DOMAIN valsByAddr : Own(v)' = Own(v)
  BY <1>4, <1>7 DEF Own, SameVals
<1>13. OwnPowerOf' = OwnPowerOf
  <2>1. \A v \in Voting : v \in DOMAIN valsByAddr
    BY DEF Voting
  <2>2. OwnPowerOf' = [v \in Voting |-> VotingPower(Own(v)', valsByAddr'[v])]
    BY <1>8 DEF OwnPowerOf
  <2> QED
    BY <1>9, <1>12, <2>1, <2>2 DEF OwnPowerOf
<1>14. \A o : OwnPartOf(o)' = OwnPartOf(o)
  <2> TAKE o
  <2>1. \A v \in Voting : valsByAddr'[v].Vote = valsByAddr[v].Vote
    BY DEF Voting, SameVals
  <2>2. OwnPartOf(o)' = [v \in Voting |-> Mul(OwnPowerOf[v], Lookup(valsByAddr'[v].Vote, o, 0))]
    BY <1>8, <1>13 DEF OwnPartOf
  <2> QED
    BY <2>1, <2>2 DEF OwnPartOf
<1> QED
  BY <1>2, <1>3, <1>4, <1>5, <1>6, <1>7, <1>8, <1>10, <1>11, <1>12, <1>13, <1>14
     DEF InputsOK

LEMMA UnchangedVals ==
  ASSUME InputsOK, UNCHANGED valsByAddr
  PROVE  SameVals
BY DEF InputsOK, ValsOK, SameVals

\* A step that counts nothing.
LEMMA CountedSame ==
  ASSUME InputsOK, Counted, UNCHANGED <<inputs, valsByAddr, sums>>,
         Seen' = Seen, SeenVals' = SeenVals
  PROVE  Counted'
<1>1. SameVals
  BY UnchangedVals
<1>2. /\ PowerOf' = PowerOf
      /\ OwnPowerOf' = OwnPowerOf
      /\ \A v : SharesAt(v)' = SharesAt(v)
      /\ \A o : PartOf(o)' = PartOf(o) /\ OwnPartOf(o)' = OwnPartOf(o)
  BY <1>1, Frame DEF inputs
<1> QED
  BY <1>2 DEF Counted, sums

-----------------------------------------------------------------------------
(* The terms of the sums.                                                  *)

LEMMA PairType ==
  ASSUME InputsOK, NEW ad \in Pairs
  PROVE  /\ ad = <<ad[1], ad[2]>>
         /\ ad[1] \in DOMAIN delegsByAddr
         /\ ad[2] \in Range(delegsByAddr[ad[1]])
         /\ ad[2].shares \in Nat
<1>1. PICK a \in DOMAIN delegsByAddr : ad \in {a} \X Range(delegsByAddr[a])
  BY DEF Pairs, Delegated
<1>2. ad = <<a, ad[2]>> /\ ad[1] = a /\ ad[2] \in Range(delegsByAddr[a])
  BY <1>1
<1>3. PICK i \in DOMAIN delegsByAddr[a] : ad[2] = delegsByAddr[a][i]
  BY <1>2 DEF Range
<1>4. delegsByAddr[a][i].shares \in Nat
  BY DEF InputsOK, DelegsOK
<1> QED
  BY <1>2, <1>3, <1>4

LEMMA IsPair ==
  ASSUME NEW a \in DOMAIN delegsByAddr, NEW d \in Range(delegsByAddr[a])
  PROVE  <<a, d>> \in Pairs
BY DEF Pairs, Delegated

LEMMA TermTypes ==
  ASSUME InputsOK
  PROVE  /\ IsFiniteSet(Pairs) /\ IsFiniteSet(Voted) /\ Voted \subseteq Pairs
         /\ IsFiniteSet(Voting) /\ Voting \subseteq DOMAIN valsByAddr
         /\ \A v : \A ad \in Pairs : SharesAt(v)[ad] \in Nat
         /\ \A ad \in Voted : PowerOf[ad] \in Nat
         /\ \A o \in VoteOption : \A ad \in Voted : PartOf(o)[ad] \in Nat
<1>1. IsFiniteSet(Pairs) /\ IsFiniteSet(DOMAIN valsByAddr)
  BY DEF InputsOK, DelegsOK, ValsOK
<1>2. Voted \subseteq Pairs /\ Voting \subseteq DOMAIN valsByAddr
  BY DEF Voted, Voting
<1>3. IsFiniteSet(Voted) /\ IsFiniteSet(Voting)
  BY <1>1, <1>2, FS_Subset
<1>4. \A v : \A ad \in Pairs : SharesAt(v)[ad] \in Nat
  BY PairType DEF SharesAt
<1>5. \A ad \in Voted : PowerOf[ad] \in Nat
  <2> TAKE ad \in Voted
  <2>1. ad[2].shares \in Nat
    BY <1>2, PairType
  <2>2. valsByAddr[ad[2].validator] \in Validator
    BY DEF Voted, InputsOK, ValsOK
  <2> QED
    BY <2>1, <2>2, PowerType DEF PowerOf
<1>6. \A o \in VoteOption : \A ad \in Voted : PartOf(o)[ad] \in Nat
  <2> TAKE o \in VoteOption
  <2> TAKE ad \in Voted
  <2>1. votesByAddr[ad[1]] \in Ballots
    BY DEF Voted, InputsOK, VotesOK
  <2>2. Lookup(votesByAddr[ad[1]], o, 0) \in Nat
    BY <2>1, WeightType, OneAssumption
  <2> QED
    BY <1>5, <2>2, MulNat DEF PartOf
<1> QED
  BY <1>1, <1>2, <1>3, <1>4, <1>5, <1>6

LEMMA OwnTypes ==
  ASSUME InputsOK
  PROVE  /\ \A v \in DOMAIN valsByAddr : Own(v) \in Nat
         /\ \A v \in Voting : OwnPowerOf[v] \in Nat
         /\ \A o \in VoteOption : \A v \in Voting : OwnPartOf(o)[v] \in Nat
<1>1. \A v \in DOMAIN valsByAddr : Own(v) \in Nat
  <2> TAKE v \in DOMAIN valsByAddr
  <2> DEFINE f == SharesAt(v)
  <2>1. \A ad \in Pairs : f[ad] \in Nat
    BY TermTypes
  <2>2. SumFunctionOnSet(f, Pairs) = valsByAddr[v].DelegatorShares
    BY DEF InputsOK, ValsOK
  <2>3. valsByAddr[v].DelegatorShares \in Nat
    BY DEF InputsOK, ValsOK, Validator
  <2> HIDE DEF f
  <2>4. /\ SumFunctionOnSet(f, Voted) <= SumFunctionOnSet(f, Pairs)
        /\ SumFunctionOnSet(f, Voted) \in Nat
    BY <2>1, TermTypes, SumSubset, SumNat
  <2>5. Own(v) = valsByAddr[v].DelegatorShares - SumFunctionOnSet(f, Voted)
    BY DEF Own, f
  <2> QED
    BY <2>2, <2>3, <2>4, <2>5
<1>2. \A v \in Voting : OwnPowerOf[v] \in Nat
  <2> TAKE v \in Voting
  <2>1. v \in DOMAIN valsByAddr /\ valsByAddr[v] \in Validator
    BY DEF Voting, InputsOK, ValsOK
  <2> QED
    BY <1>1, <2>1, PowerType DEF OwnPowerOf
<1>3. \A o \in VoteOption : \A v \in Voting : OwnPartOf(o)[v] \in Nat
  <2> TAKE o \in VoteOption
  <2> TAKE v \in Voting
  <2>1. valsByAddr[v].Vote \in Ballots
    BY DEF Voting, InputsOK, ValsOK, Validator
  <2>2. Lookup(valsByAddr[v].Vote, o, 0) \in Nat
    BY <2>1, WeightType, OneAssumption
  <2> QED
    BY <1>2, <2>2, MulNat DEF OwnPartOf
<1> QED
  BY <1>1, <1>2, <1>3

LEMMA SeenType ==
  ASSUME InputsOK
  PROVE  /\ IsFiniteSet(Seen) /\ Seen \subseteq Voted
         /\ IsFiniteSet(SeenVals) /\ SeenVals \subseteq Voting
<1>1. Seen \subseteq Voted /\ SeenVals \subseteq Voting
  BY DEF Seen, SeenVals
<1>2. IsFiniteSet({})
  BY FS_EmptySet
<1> QED
  BY <1>1, <1>2, TermTypes, FS_Subset

\* What a validator is deducted are shares of some of its delegations.
LEMMA Within ==
  ASSUME InputsOK, Counted, NEW v \in DOMAIN valsByAddr
  PROVE  valsByAddr[v].DelegatorDeductions <= valsByAddr[v].DelegatorShares
<1> DEFINE f == SharesAt(v)
<1>1. \A ad \in Pairs : f[ad] \in Nat
  BY TermTypes
<1>2. SumFunctionOnSet(f, Pairs) = valsByAddr[v].DelegatorShares
  BY DEF InputsOK, ValsOK
<1>3. SumFunctionOnSet(f, Seen) = valsByAddr[v].DelegatorDeductions
  BY DEF Counted
<1>4. Seen \in SUBSET Pairs
  BY SeenType, TermTypes
<1> HIDE DEF f
<1>5. SumFunctionOnSet(f, Seen) <= SumFunctionOnSet(f, Pairs)
  BY <1>1, <1>4, TermTypes, SumSubset
<1> QED
  BY <1>2, <1>3, <1>5

-----------------------------------------------------------------------------
(* One power more.                                                         *)

LEMMA Deducted ==
  ASSUME InputsOK, NEW c \in DOMAIN valsByAddr, NEW s \in Nat,
         valsByAddr' = [valsByAddr EXCEPT ![c].DelegatorDeductions = @ + s]
  PROVE  /\ SameVals
         /\ \A v \in DOMAIN valsByAddr :
              valsByAddr'[v].DelegatorDeductions
                = IF v = c THEN valsByAddr[v].DelegatorDeductions + s
                  ELSE valsByAddr[v].DelegatorDeductions
<1>1. valsByAddr \in [DOMAIN valsByAddr -> Validator]
  BY DEF InputsOK, ValsOK
<1> DEFINE val == valsByAddr[c]
           new == [val EXCEPT !.DelegatorDeductions = @ + s]
<1>2. val \in Validator
  BY <1>1
<1>3. /\ new \in Validator
      /\ new.DelegatorDeductions = val.DelegatorDeductions + s
      /\ new.BondedTokens = val.BondedTokens
      /\ new.DelegatorShares = val.DelegatorShares
      /\ new.Vote = val.Vote
  BY <1>2 DEF Validator
<1>4. valsByAddr' = [valsByAddr EXCEPT ![c] = new]
  OBVIOUS
<1> HIDE DEF new
<1>5. \A v \in DOMAIN valsByAddr : valsByAddr'[v] = IF v = c THEN new ELSE valsByAddr[v]
  BY <1>4
<1>6. valsByAddr' \in [DOMAIN valsByAddr -> Validator]
  BY <1>1, <1>3, <1>4
<1>7. SameVals
  BY <1>3, <1>5, <1>6 DEF SameVals
<1> QED
  BY <1>3, <1>5, <1>7

LEMMA SeeDelegation ==
  ASSUME InputsOK, Counted, UNCHANGED inputs,
         NEW ad \in Voted, ad \notin Seen, Seen' = Seen \cup {ad}, SeenVals' = SeenVals,
         valsByAddr' = [valsByAddr EXCEPT
           ![ad[2].validator].DelegatorDeductions = @ + ad[2].shares],
         \A o \in VoteOption : results'[o] = results[o] + PartOf(o)[ad],
         totalVotingPower' = totalVotingPower + PowerOf[ad],
         counted' = counted + 1
  PROVE  SameVals /\ Counted'
<1> PICK c \in DOMAIN valsByAddr, s \in Nat : c = ad[2].validator /\ s = ad[2].shares
  BY PairType, TermTypes DEF Voted
<1>1. /\ SameVals
      /\ \A v \in DOMAIN valsByAddr :
           valsByAddr'[v].DelegatorDeductions
             = IF v = c THEN valsByAddr[v].DelegatorDeductions + s
               ELSE valsByAddr[v].DelegatorDeductions
  BY Deducted
<1>2. /\ DOMAIN valsByAddr' = DOMAIN valsByAddr
      /\ PowerOf' = PowerOf
      /\ OwnPowerOf' = OwnPowerOf
      /\ \A v : SharesAt(v)' = SharesAt(v)
      /\ \A o : PartOf(o)' = PartOf(o) /\ OwnPartOf(o)' = OwnPartOf(o)
  BY <1>1, Frame
<1>3. IsFiniteSet(Seen) /\ Seen \cup {ad} \subseteq Voted /\ Voted \subseteq Pairs
  BY SeenType, TermTypes
<1>4. ASSUME NEW f, \A x \in Voted : f[x] \in Nat
      PROVE  /\ SumFunctionOnSet(f, Seen \cup {ad}) = SumFunctionOnSet(f, Seen) + f[ad]
             /\ SumFunctionOnSet(f, Seen) \in Int /\ f[ad] \in Int
  <2>1. \A x \in Seen \cup {ad} : f[x] \in Int
    BY <1>3, <1>4
  <2>2. SumFunctionOnSet(f, Seen \cup {ad}) = f[ad] + SumFunctionOnSet(f, Seen)
    BY <1>3, <2>1, SumAdd
  <2>3. SumFunctionOnSet(f, Seen) \in Int
    BY <1>3, <2>1, SumInt
  <2> QED
    BY <2>1, <2>2, <2>3
<1>5. ASSUME NEW g, \A x \in Voting : g[x] \in Nat
      PROVE  SumFunctionOnSet(g, SeenVals) \in Int
  BY <1>5, SeenType, SumInt
<1>6. ASSUME NEW v \in DOMAIN valsByAddr'
      PROVE  valsByAddr'[v].DelegatorDeductions = SumFunctionOnSet(SharesAt(v)', Seen')
  <2> DEFINE f == SharesAt(v)
  <2>1. /\ v \in DOMAIN valsByAddr
        /\ valsByAddr[v].DelegatorDeductions = SumFunctionOnSet(f, Seen)
    BY <1>2 DEF Counted
  <2>2. \A x \in Voted : f[x] \in Nat
    BY <1>3, TermTypes
  <2>3. f[ad] = IF v = c THEN s ELSE 0
    BY <1>3 DEF SharesAt
  <2> HIDE DEF f
  <2>4. /\ SumFunctionOnSet(f, Seen \cup {ad}) = SumFunctionOnSet(f, Seen) + f[ad]
        /\ SumFunctionOnSet(f, Seen) \in Int
    BY <1>4, <2>2
  <2>5. valsByAddr'[v].DelegatorDeductions = SumFunctionOnSet(f, Seen \cup {ad})
    BY <1>1, <2>1, <2>3, <2>4
  <2> QED
    BY <1>2, <2>5 DEF f
<1>7. ASSUME NEW o \in VoteOption
      PROVE  results'[o] = SumFunctionOnSet(PartOf(o)', Seen')
                             + SumFunctionOnSet(OwnPartOf(o)', SeenVals')
  <2> DEFINE f == PartOf(o)
             g == OwnPartOf(o)
  <2>1. results[o] = SumFunctionOnSet(f, Seen) + SumFunctionOnSet(g, SeenVals)
    BY DEF Counted
  <2>2. (\A x \in Voted : f[x] \in Nat) /\ (\A x \in Voting : g[x] \in Nat)
    BY TermTypes, OwnTypes
  <2>3. results'[o] = results[o] + f[ad]
    OBVIOUS
  <2> HIDE DEF f, g
  <2>4. results'[o] = SumFunctionOnSet(f, Seen \cup {ad}) + SumFunctionOnSet(g, SeenVals)
    <3>1. /\ SumFunctionOnSet(f, Seen \cup {ad}) = SumFunctionOnSet(f, Seen) + f[ad]
          /\ SumFunctionOnSet(f, Seen) \in Int /\ f[ad] \in Int
      BY <1>4, <2>2
    <3>2. SumFunctionOnSet(g, SeenVals) \in Int
      BY <1>5, <2>2
    <3> QED
      BY <2>1, <2>3, <3>1, <3>2
  <2> QED
    BY <1>2, <2>4 DEF f, g
<1>8. totalVotingPower' = SumFunctionOnSet(PowerOf', Seen')
                            + SumFunctionOnSet(OwnPowerOf', SeenVals')
  <2>1. totalVotingPower = SumFunctionOnSet(PowerOf, Seen)
                             + SumFunctionOnSet(OwnPowerOf, SeenVals)
    BY DEF Counted
  <2>2. (\A x \in Voted : PowerOf[x] \in Nat) /\ (\A x \in Voting : OwnPowerOf[x] \in Nat)
    BY TermTypes, OwnTypes
  <2> PICK f, g : f = PowerOf /\ g = OwnPowerOf
    OBVIOUS
  <2>3. totalVotingPower' = SumFunctionOnSet(f, Seen \cup {ad})
                              + SumFunctionOnSet(g, SeenVals)
    <3>1. /\ SumFunctionOnSet(f, Seen \cup {ad}) = SumFunctionOnSet(f, Seen) + f[ad]
          /\ SumFunctionOnSet(f, Seen) \in Int /\ f[ad] \in Int
      BY <1>4, <2>2
    <3>2. SumFunctionOnSet(g, SeenVals) \in Int
      BY <1>5, <2>2
    <3> QED
      BY <2>1, <3>1, <3>2
  <2> QED
    BY <1>2, <2>3
<1>9. counted' = Cardinality(Seen') + Cardinality(SeenVals')
  <2>1. Cardinality(Seen \cup {ad}) = Cardinality(Seen) + 1
    BY <1>3, FS_AddElement
  <2>2. Cardinality(Seen) \in Nat /\ Cardinality(SeenVals) \in Nat
    BY SeenType, FS_CardinalityType
  <2>3. counted = Cardinality(Seen) + Cardinality(SeenVals)
    BY DEF Counted
  <2> QED
    BY <2>1, <2>2, <2>3
<1> QED
  BY <1>1, <1>6, <1>7, <1>8, <1>9 DEF Counted

LEMMA SeeValidator ==
  ASSUME InputsOK, Counted, UNCHANGED <<inputs, valsByAddr>>,
         NEW v \in Voting, v \notin SeenVals, Seen' = Seen, SeenVals' = SeenVals \cup {v},
         \A o \in VoteOption : results'[o] = results[o] + OwnPartOf(o)[v],
         totalVotingPower' = totalVotingPower + OwnPowerOf[v],
         counted' = counted + 1
  PROVE  Counted'
<1>1. SameVals
  BY UnchangedVals
<1>2. /\ DOMAIN valsByAddr' = DOMAIN valsByAddr
      /\ PowerOf' = PowerOf
      /\ OwnPowerOf' = OwnPowerOf
      /\ \A w : SharesAt(w)' = SharesAt(w)
      /\ \A o : PartOf(o)' = PartOf(o) /\ OwnPartOf(o)' = OwnPartOf(o)
  BY <1>1, Frame DEF inputs
<1>3. IsFiniteSet(SeenVals) /\ SeenVals \cup {v} \subseteq Voting
  BY SeenType
<1>4. ASSUME NEW g, \A x \in Voting : g[x] \in Nat
      PROVE  /\ SumFunctionOnSet(g, SeenVals \cup {v}) = SumFunctionOnSet(g, SeenVals) + g[v]
             /\ SumFunctionOnSet(g, SeenVals) \in Int /\ g[v] \in Int
  <2>1. \A x \in SeenVals \cup {v} : g[x] \in Int
    BY <1>3, <1>4
  <2>2. SumFunctionOnSet(g, SeenVals \cup {v}) = g[v] + SumFunctionOnSet(g, SeenVals)
    BY <1>3, <2>1, SumAdd
  <2>3. SumFunctionOnSet(g, SeenVals) \in Int
    BY <1>3, <2>1, SumInt
  <2> QED
    BY <2>1, <2>2, <2>3
<1>5. ASSUME NEW f, \A x \in Voted : f[x] \in Nat
      PROVE  SumFunctionOnSet(f, Seen) \in Int
  BY <1>5, SeenType, SumInt
<1>6. ASSUME NEW w \in DOMAIN valsByAddr'
      PROVE  valsByAddr'[w].DelegatorDeductions = SumFunctionOnSet(SharesAt(w)', Seen')
  BY <1>2 DEF Counted
<1>7. ASSUME NEW o \in VoteOption
      PROVE  results'[o] = SumFunctionOnSet(PartOf(o)', Seen')
                             + SumFunctionOnSet(OwnPartOf(o)', SeenVals')
  <2> DEFINE f == PartOf(o)
             g == OwnPartOf(o)
  <2>1. results[o] = SumFunctionOnSet(f, Seen) + SumFunctionOnSet(g, SeenVals)
    BY DEF Counted
  <2>2. (\A x \in Voted : f[x] \in Nat) /\ (\A x \in Voting : g[x] \in Nat)
    BY TermTypes, OwnTypes
  <2>3. results'[o] = results[o] + g[v]
    OBVIOUS
  <2> HIDE DEF f, g
  <2>4. results'[o] = SumFunctionOnSet(f, Seen) + SumFunctionOnSet(g, SeenVals \cup {v})
    <3>1. /\ SumFunctionOnSet(g, SeenVals \cup {v}) = SumFunctionOnSet(g, SeenVals) + g[v]
          /\ SumFunctionOnSet(g, SeenVals) \in Int /\ g[v] \in Int
      BY <1>4, <2>2
    <3>2. SumFunctionOnSet(f, Seen) \in Int
      BY <1>5, <2>2
    <3> QED
      BY <2>1, <2>3, <3>1, <3>2
  <2> QED
    BY <1>2, <2>4 DEF f, g
<1>8. totalVotingPower' = SumFunctionOnSet(PowerOf', Seen')
                            + SumFunctionOnSet(OwnPowerOf', SeenVals')
  <2>1. totalVotingPower = SumFunctionOnSet(PowerOf, Seen)
                             + SumFunctionOnSet(OwnPowerOf, SeenVals)
    BY DEF Counted
  <2>2. (\A x \in Voted : PowerOf[x] \in Nat) /\ (\A x \in Voting : OwnPowerOf[x] \in Nat)
    BY TermTypes, OwnTypes
  <2> PICK f, g : f = PowerOf /\ g = OwnPowerOf
    OBVIOUS
  <2>3. totalVotingPower' = SumFunctionOnSet(f, Seen) + SumFunctionOnSet(g, SeenVals \cup {v})
    <3>1. /\ SumFunctionOnSet(g, SeenVals \cup {v}) = SumFunctionOnSet(g, SeenVals) + g[v]
          /\ SumFunctionOnSet(g, SeenVals) \in Int /\ g[v] \in Int
      BY <1>4, <2>2
    <3>2. SumFunctionOnSet(f, Seen) \in Int
      BY <1>5, <2>2
    <3> QED
      BY <2>1, <3>1, <3>2
  <2> QED
    BY <1>2, <2>3
<1>9. counted' = Cardinality(Seen') + Cardinality(SeenVals')
  <2>1. Cardinality(SeenVals \cup {v}) = Cardinality(SeenVals) + 1
    BY <1>3, FS_AddElement
  <2>2. Cardinality(Seen) \in Nat /\ Cardinality(SeenVals) \in Nat
    BY SeenType, FS_CardinalityType
  <2>3. counted = Cardinality(Seen) + Cardinality(SeenVals)
    BY DEF Counted
  <2> QED
    BY <2>1, <2>2, <2>3
<1> QED
  BY <1>6, <1>7, <1>8, <1>9 DEF Counted

-----------------------------------------------------------------------------
(* Every action keeps the invariant.                                       *)

LEMMA TailOf ==
  ASSUME NEW s, s \in Seq(Range(s)), s # <<>>,
         \A i, j \in DOMAIN s : s[i] = s[j] => i = j
  PROVE  /\ Tail(s) \in Seq(Range(Tail(s)))
         /\ \A i, j \in DOMAIN Tail(s) : Tail(s)[i] = Tail(s)[j] => i = j
         /\ Range(s) = Range(Tail(s)) \cup {Head(s)}
         /\ Head(s) \notin Range(Tail(s))
<1>1. DOMAIN s = 1..Len(s) /\ Len(s) \in Nat /\ Len(s) >= 1
  BY EmptySeq
<1>2. /\ DOMAIN Tail(s) = 1..(Len(s) - 1)
      /\ \A i \in DOMAIN Tail(s) : Tail(s)[i] = s[i + 1]
      /\ Head(s) = s[1]
  BY <1>1
<1>3. \A i \in DOMAIN Tail(s) : i + 1 \in DOMAIN s /\ i + 1 # 1 /\ i \in Int
  BY <1>1, <1>2
<1>4. \A i, j \in DOMAIN Tail(s) : Tail(s)[i] = Tail(s)[j] => i = j
  <2> TAKE i, j \in DOMAIN Tail(s)
  <2>1. s[i + 1] = s[j + 1] => i + 1 = j + 1
    BY <1>3
  <2> QED
    BY <1>2, <1>3, <2>1
<1>5. Head(s) \notin Range(Tail(s))
  <2> SUFFICES ASSUME NEW i \in DOMAIN Tail(s), Tail(s)[i] = Head(s)
               PROVE  FALSE
    BY DEF Range
  <2>1. s[i + 1] = s[1] /\ 1 \in DOMAIN s
    BY <1>1, <1>2
  <2> QED
    BY <1>3, <2>1
<1>6. Range(s) = Range(Tail(s)) \cup {Head(s)}
  <2>1. ASSUME NEW i \in DOMAIN s, i # 1 PROVE s[i] \in Range(Tail(s))
    <3>1. i - 1 \in DOMAIN Tail(s) /\ Tail(s)[i - 1] = s[i]
      BY <1>1, <1>2, <2>1
    <3> QED
      BY <3>1 DEF Range
  <2>2. 1 \in DOMAIN s
    BY <1>1
  <2>3. \A i \in DOMAIN Tail(s) : Tail(s)[i] \in Range(s)
    BY <1>2, <1>3 DEF Range
  <2>4. Range(s) \subseteq Range(Tail(s)) \cup {Head(s)}
    BY <1>2, <2>1 DEF Range
  <2>5. Range(Tail(s)) \subseteq Range(s) /\ Head(s) \in Range(s)
    BY <1>2, <2>2, <2>3 DEF Range
  <2> QED
    BY <2>4, <2>5
<1>7. Tail(s) \in Seq(Range(Tail(s)))
  <2>1. Tail(s) \in Seq(Range(s))
    OBVIOUS
  <2> QED
    BY <2>1, SeqOfRange
<1> QED
  BY <1>4, <1>5, <1>6, <1>7

LEMMA TotalsSame ==
  ASSUME Totals, UNCHANGED <<sums, yesPercent>>
  PROVE  Totals'
BY DEF Totals, Conservation, OptionsSum, sums

LEMMA InputsSame ==
  ASSUME InputsOK, UNCHANGED <<inputs, valsByAddr>>
  PROVE  InputsOK' /\ Voted' = Voted /\ Voting' = Voting
BY UnchangedVals, Frame DEF inputs

LEMMA RangeVoterInv ==
  ASSUME IInv, NEW a \in Address, RangeVoter(a)
  PROVE  IInv'
<1> USE DEF IInv
<1>1. UNCHANGED <<inputs, valsByAddr, sums, yesPercent>>
  BY DEF RangeVoter
<1>2. InputsOK' /\ Voted' = Voted
  BY <1>1, InputsSame
<1>3. Totals'
  BY <1>1, TotalsSame
<1>4. /\ pc = "voters" /\ pc' = "delegations"
      /\ a \in todo /\ todo' = todo \ {a} /\ voter' = a
      /\ dels' = IF a \in DOMAIN delegsByAddr THEN delegsByAddr[a] ELSE <<>>
      /\ todo \subseteq DOMAIN votesByAddr
      /\ voter = NoVoter /\ dels = <<>>
      /\ votesByAddr' = votesByAddr /\ delegsByAddr' = delegsByAddr
      /\ valsByAddr' = valsByAddr
  BY DEF RangeVoter, Lookup, Control, inputs
<1>5. Control'
  <2>1. CASE a \in DOMAIN delegsByAddr
    <3>1. dels' = delegsByAddr[a]
      BY <1>4, <2>1
    <3>2. /\ delegsByAddr[a] \in Seq(Range(delegsByAddr[a]))
          /\ \A i, j \in DOMAIN delegsByAddr[a] :
               delegsByAddr[a][i] = delegsByAddr[a][j] => i = j
      BY <2>1 DEF InputsOK, DelegsOK
    <3> QED
      BY <1>4, <2>1, <3>1, <3>2 DEF Control
  <2>2. CASE a \notin DOMAIN delegsByAddr
    <3>1. dels' = <<>>
      BY <1>4, <2>2
    <3>2. <<>> \in Seq(Range(<<>>)) /\ DOMAIN <<>> = {}
      OBVIOUS
    <3> QED
      BY <1>4, <3>1, <3>2 DEF Control
  <2> QED
    BY <2>1, <2>2
<1>6. Seen' = Seen /\ SeenVals' = SeenVals
  <2>1. \A ad \in Voted : ad[1] = a => ad[2] \in Range(dels')
    <3> SUFFICES ASSUME NEW ad \in Voted, ad[1] = a PROVE ad[2] \in Range(dels')
      OBVIOUS
    <3>1. ad[1] \in DOMAIN delegsByAddr /\ ad[2] \in Range(delegsByAddr[ad[1]])
      BY PairType, TermTypes
    <3> QED
      BY <1>4, <3>1
  <2>2. \A ad \in Voted : ad[1] # NoVoter
    BY NoVoterAssumption DEF Voted, InputsOK, VotesOK
  <2>3. Seen = {ad \in Voted : ad[1] \notin todo}
    BY <1>4, <2>2 DEF Seen
  <2>4. Seen' = {ad \in Voted : ad[1] \notin todo \ {a} /\ ad[1] # a}
    BY <1>2, <1>4, <2>1 DEF Seen
  <2>5. Seen' = Seen
    BY <1>4, <2>3, <2>4
  <2> QED
    BY <1>4, <2>5 DEF SeenVals
<1>7. Counted'
  BY <1>1, <1>6, CountedSame
<1> QED
  BY <1>2, <1>3, <1>5, <1>7

\* What the head of the delegations leaves when it was looked at.
LEMMA NextDelegation ==
  ASSUME Control, pc = "delegations", dels # <<>>
  PROVE  /\ voter \in DOMAIN votesByAddr /\ voter \in DOMAIN delegsByAddr
         /\ Head(dels) \in Range(delegsByAddr[voter])
         /\ Range(dels) = Range(Tail(dels)) \cup {Head(dels)}
         /\ Head(dels) \notin Range(Tail(dels))
         /\ Tail(dels) \in Seq(Range(delegsByAddr[voter]))
         /\ Tail(dels) \in Seq(Range(Tail(dels)))
         /\ \A i, j \in DOMAIN Tail(dels) : Tail(dels)[i] = Tail(dels)[j] => i = j
<1>1. /\ voter \in DOMAIN votesByAddr /\ voter \in DOMAIN delegsByAddr
      /\ dels \in Seq(Range(delegsByAddr[voter]))
      /\ dels \in Seq(Range(dels))
      /\ \A i, j \in DOMAIN dels : dels[i] = dels[j] => i = j
  BY DEF Control
<1>2. /\ Range(dels) = Range(Tail(dels)) \cup {Head(dels)}
      /\ Head(dels) \notin Range(Tail(dels))
      /\ Tail(dels) \in Seq(Range(Tail(dels)))
      /\ \A i, j \in DOMAIN Tail(dels) : Tail(dels)[i] = Tail(dels)[j] => i = j
  BY <1>1, TailOf
<1>3. Head(dels) \in Range(delegsByAddr[voter]) /\ Tail(dels) \in Seq(Range(delegsByAddr[voter]))
  BY <1>1
<1> QED
  BY <1>1, <1>2, <1>3

LEMMA TailControl ==
  ASSUME Control, pc = "delegations", dels # <<>>, dels' = Tail(dels),
         UNCHANGED <<inputs, pc, todo, voter>>, DOMAIN valsByAddr' = DOMAIN valsByAddr
  PROVE  Control'
<1>1. /\ votesByAddr' = votesByAddr /\ delegsByAddr' = delegsByAddr
      /\ pc' = pc /\ todo' = todo /\ voter' = voter
  BY DEF inputs
<1> QED
  BY <1>1, NextDelegation DEF Control

\* Looking at a delegation counts it, if it counts.
LEMMA TailSeen ==
  ASSUME IInv, pc = "delegations", dels # <<>>, dels' = Tail(dels),
         UNCHANGED <<pc, todo, voter>>, Voted' = Voted
  PROVE  /\ SeenVals' = SeenVals
         /\ <<voter, Head(dels)>> \in Voted <=> Head(dels).validator \in DOMAIN valsByAddr
         /\ <<voter, Head(dels)>> \notin Seen
         /\ Seen' = IF <<voter, Head(dels)>> \in Voted
                    THEN Seen \cup {<<voter, Head(dels)>>} ELSE Seen
<1> DEFINE ad == <<voter, Head(dels)>>
<1>1. Control
  BY DEF IInv
<1>2. /\ voter \in DOMAIN votesByAddr /\ voter \in DOMAIN delegsByAddr
      /\ Head(dels) \in Range(delegsByAddr[voter])
      /\ Range(dels) = Range(Tail(dels)) \cup {Head(dels)}
      /\ Head(dels) \notin Range(Tail(dels))
  BY <1>1, NextDelegation
<1>3. voter \notin todo
  BY <1>1 DEF Control
<1>4. ad \in Pairs /\ ad[1] = voter /\ ad[2] = Head(dels)
  BY <1>2, IsPair
<1>5. ad \in Voted <=> Head(dels).validator \in DOMAIN valsByAddr
  BY <1>2, <1>4 DEF Voted
<1>6. Seen = {x \in Voted : x[1] \notin todo /\ (x[1] = voter => x[2] \notin Range(dels))}
  BY DEF Seen
<1>7. Seen' = {x \in Voted : x[1] \notin todo /\ (x[1] = voter => x[2] \notin Range(Tail(dels)))}
  BY DEF Seen
<1>8. ad \notin Seen
  BY <1>2, <1>4, <1>6
<1>9. \A x \in Voted : x = <<x[1], x[2]>>
  BY PairType, TermTypes DEF IInv
<1>10. ASSUME NEW x
       PROVE  x \in Seen' <=> x \in Seen \/ (x = ad /\ ad \in Voted)
  <2>1. CASE x = ad
    BY <1>2, <1>3, <1>4, <1>7, <1>8, <2>1
  <2>2. CASE x # ad
    <3>1. ASSUME x \in Voted, x[1] = voter
          PROVE  x[2] # Head(dels)
      BY <1>9, <2>2, <3>1
    <3> QED
      BY <1>2, <1>6, <1>7, <2>2, <3>1
  <2> QED
    BY <2>1, <2>2
<1>11. Seen' = IF ad \in Voted THEN Seen \cup {ad} ELSE Seen
  <2> HIDE DEF ad
  <2> QED
    BY <1>10
<1>12. SeenVals' = SeenVals
  BY DEF SeenVals
<1> QED
  BY <1>5, <1>8, <1>11, <1>12

LEMMA IgnoreDelegationInv ==
  ASSUME IInv, IgnoreDelegation
  PROVE  IInv'
<1> USE DEF IInv
<1>1. UNCHANGED <<inputs, valsByAddr, sums, yesPercent, pc, todo, voter>>
  BY DEF IgnoreDelegation
<1>2. InputsOK' /\ Voted' = Voted
  BY <1>1, InputsSame
<1>3. Totals'
  BY <1>1, TotalsSame
<1>4. /\ pc = "delegations" /\ dels # <<>> /\ dels' = Tail(dels)
      /\ Head(dels).validator \notin DOMAIN valsByAddr
  BY DEF IgnoreDelegation
<1>5. Control'
  BY <1>1, <1>4, TailControl
<1>6. Seen' = Seen /\ SeenVals' = SeenVals
  BY <1>1, <1>2, <1>4, TailSeen
<1>7. Counted'
  BY <1>1, <1>6, CountedSame
<1> QED
  BY <1>2, <1>3, <1>5, <1>7

LEMMA CountDelegationInv ==
  ASSUME IInv, CountDelegation
  PROVE  IInv' /\ SameVals
<1> USE DEF IInv
<1> DEFINE ad == <<voter, Head(dels)>>
           c == Head(dels).validator
<1>1. /\ UNCHANGED <<inputs, yesPercent, pc, todo, voter>>
      /\ pc = "delegations" /\ dels # <<>> /\ dels' = Tail(dels)
      /\ c \in DOMAIN valsByAddr
      /\ valsByAddr' = [valsByAddr EXCEPT ![c].DelegatorDeductions = @ + Head(dels).shares]
      /\ AddPower(votesByAddr[voter], VotingPower(Head(dels).shares, valsByAddr[c]))
  BY DEF CountDelegation, CountOf
<1>2. voter \in DOMAIN votesByAddr /\ ad \in Pairs
  BY <1>1, NextDelegation, IsPair
<1>3. ad \in Voted
  BY <1>1, <1>2 DEF Voted
<1>4. /\ votesByAddr[voter] \in Ballots
      /\ PowerOf[ad] = VotingPower(Head(dels).shares, valsByAddr[c])
      /\ PowerOf[ad] \in Nat
      /\ Head(dels).shares \in Nat
      /\ \A o \in VoteOption :
           PartOf(o)[ad] = Mul(PowerOf[ad], Lookup(votesByAddr[voter], o, 0))
  <2>1. votesByAddr[voter] \in Ballots
    BY <1>2 DEF InputsOK, VotesOK
  <2>2. PowerOf[ad] = VotingPower(Head(dels).shares, valsByAddr[c])
    BY <1>3 DEF PowerOf
  <2>3. PowerOf[ad] \in Nat
    BY <1>3, TermTypes
  <2>4. Head(dels).shares \in Nat
    BY <1>2, PairType
  <2>5. \A o \in VoteOption :
          PartOf(o)[ad] = Mul(PowerOf[ad], Lookup(votesByAddr[voter], o, 0))
    BY <1>3 DEF PartOf
  <2> QED
    BY <2>1, <2>2, <2>3, <2>4, <2>5
<1>5. /\ Totals'
      /\ \A o \in VoteOption : results'[o] = results[o] + PartOf(o)[ad]
      /\ totalVotingPower' = totalVotingPower + PowerOf[ad]
      /\ counted' = counted + 1
  <2> PICK vote \in Ballots, p \in Nat : vote = votesByAddr[voter] /\ p = PowerOf[ad]
    BY <1>4
  <2>1. AddPower(vote, p) /\ yesPercent' = yesPercent
    BY <1>1, <1>4
  <2>2. /\ Totals'
        /\ \A o \in VoteOption : results'[o] = results[o] + Mul(p, Lookup(vote, o, 0))
        /\ totalVotingPower' = totalVotingPower + p
        /\ counted' = counted + 1
    BY <2>1, AddPowerStep
  <2> QED
    BY <1>4, <2>2
<1>6. SameVals
  <2> PICK cc \in DOMAIN valsByAddr, s \in Nat : cc = c /\ s = Head(dels).shares
    BY <1>1, <1>4
  <2>1. valsByAddr' = [valsByAddr EXCEPT ![cc].DelegatorDeductions = @ + s]
    BY <1>1
  <2> QED
    BY <2>1, Deducted
<1>7. InputsOK' /\ DOMAIN valsByAddr' = DOMAIN valsByAddr /\ Voted' = Voted
  BY <1>1, <1>6, Frame
<1>8. Control'
  BY <1>1, <1>7, TailControl
<1>9. ad \notin Seen /\ Seen' = Seen \cup {ad} /\ SeenVals' = SeenVals
  BY <1>1, <1>3, <1>7, TailSeen
<1>10. Counted'
  <2> PICK x \in Voted : x = ad
    BY <1>3
  <2>1. x[1] = voter /\ x[2] = Head(dels)
    OBVIOUS
  <2>2. /\ UNCHANGED inputs /\ x \notin Seen /\ Seen' = Seen \cup {x} /\ SeenVals' = SeenVals
        /\ valsByAddr' = [valsByAddr EXCEPT
             ![x[2].validator].DelegatorDeductions = @ + x[2].shares]
        /\ \A o \in VoteOption : results'[o] = results[o] + PartOf(o)[x]
        /\ totalVotingPower' = totalVotingPower + PowerOf[x]
        /\ counted' = counted + 1
    BY <1>1, <1>5, <1>9, <2>1
  <2> HIDE DEF ad, c
  <2> QED
    BY <2>2, SeeDelegation
<1> QED
  BY <1>5, <1>6, <1>7, <1>8, <1>10

LEMMA EndVoterInv ==
  ASSUME IInv, EndVoter
  PROVE  IInv'
<1> USE DEF IInv
<1>1. UNCHANGED <<inputs, valsByAddr, sums, yesPercent, todo, dels>>
  BY DEF EndVoter
<1>2. InputsOK' /\ Voted' = Voted
  BY <1>1, InputsSame
<1>3. Totals'
  BY <1>1, TotalsSame
<1>4. /\ pc = "delegations" /\ dels = <<>> /\ pc' = "voters" /\ voter' = NoVoter
      /\ todo \subseteq DOMAIN votesByAddr
  BY DEF EndVoter, Control
<1>5. Control'
  BY <1>1, <1>4 DEF Control, inputs
<1>6. Seen' = Seen /\ SeenVals' = SeenVals
  <2>1. Range(<<>>) = {}
    BY DEF Range
  <2>2. Seen = {ad \in Voted : ad[1] \notin todo}
    BY <1>4, <2>1 DEF Seen
  <2>3. Seen' = {ad \in Voted : ad[1] \notin todo}
    BY <1>1, <1>2, <1>4, <2>1 DEF Seen
  <2> QED
    BY <1>4, <2>2, <2>3 DEF SeenVals
<1>7. Counted'
  BY <1>1, <1>6, CountedSame
<1> QED
  BY <1>2, <1>3, <1>5, <1>7

LEMMA EndVotersInv ==
  ASSUME IInv, EndVoters
  PROVE  IInv'
<1> USE DEF IInv
<1>1. UNCHANGED <<inputs, valsByAddr, sums, yesPercent, dels, voter>>
  BY DEF EndVoters
<1>2. InputsOK' /\ Voted' = Voted /\ Voting' = Voting
  BY <1>1, InputsSame
<1>3. Totals'
  BY <1>1, TotalsSame
<1>4. /\ pc = "voters" /\ todo = {} /\ pc' = "validators" /\ todo' = DOMAIN valsByAddr
      /\ voter = NoVoter /\ dels = <<>>
  BY DEF EndVoters, Control
<1>5. Control'
  BY <1>1, <1>4 DEF Control, inputs
<1>6. Seen' = Seen /\ SeenVals' = SeenVals
  <2>1. \A ad \in Voted : ad[1] # NoVoter
    BY NoVoterAssumption DEF Voted, InputsOK, VotesOK
  <2>2. Seen = Voted
    BY <1>4, <2>1 DEF Seen
  <2>3. Seen' = Voted
    BY <1>2, <1>4 DEF Seen
  <2>4. Voting \subseteq DOMAIN valsByAddr
    BY DEF Voting
  <2>5. SeenVals = {} /\ SeenVals' = {}
    BY <1>2, <1>4, <2>4 DEF SeenVals
  <2> QED
    BY <2>2, <2>3, <2>5
<1>7. Counted'
  BY <1>1, <1>6, CountedSame
<1> QED
  BY <1>2, <1>3, <1>5, <1>7

LEMMA ValidatorSeen ==
  ASSUME IInv, pc = "validators", NEW v \in todo, todo' = todo \ {v},
         UNCHANGED <<inputs, valsByAddr, pc, dels, voter>>
  PROVE  /\ InputsOK' /\ Control' /\ Seen' = Seen
         /\ v \in DOMAIN valsByAddr /\ v \notin SeenVals
         /\ SeenVals' = IF v \in Voting THEN SeenVals \cup {v} ELSE SeenVals
<1> USE DEF IInv
<1>1. InputsOK' /\ Voted' = Voted /\ Voting' = Voting
  BY InputsSame
<1>2. v \in DOMAIN valsByAddr /\ Control'
  BY DEF Control, inputs
<1>3. Seen' = Seen
  BY <1>1 DEF Seen
<1>4. SeenVals = Voting \ todo /\ SeenVals' = Voting \ (todo \ {v})
  BY <1>1 DEF SeenVals
<1> QED
  BY <1>1, <1>2, <1>3, <1>4

LEMMA IgnoreValidatorInv ==
  ASSUME IInv, NEW v \in Operator, IgnoreValidator(v)
  PROVE  IInv'
<1> USE DEF IInv
<1>1. /\ UNCHANGED <<inputs, valsByAddr, sums, yesPercent, pc, dels, voter>>
      /\ pc = "validators" /\ v \in todo /\ todo' = todo \ {v}
      /\ valsByAddr[v].Vote = NoVote
  BY DEF IgnoreValidator
<1>2. v \notin Voting
  BY <1>1 DEF Voting
<1>3. InputsOK' /\ Control' /\ Seen' = Seen /\ SeenVals' = SeenVals
  BY <1>1, <1>2, ValidatorSeen
<1>4. Totals'
  BY <1>1, TotalsSame
<1>5. Counted'
  BY <1>1, <1>3, CountedSame
<1> QED
  BY <1>3, <1>4, <1>5

LEMMA CountValidatorInv ==
  ASSUME IInv, NEW v \in Operator, CountValidator(v)
  PROVE  IInv'
<1> USE DEF IInv
<1>1. /\ UNCHANGED <<inputs, valsByAddr, yesPercent, pc, dels, voter>>
      /\ pc = "validators" /\ v \in todo /\ todo' = todo \ {v}
      /\ valsByAddr[v].Vote # NoVote
      /\ AddPower(valsByAddr[v].Vote,
                  VotingPower(valsByAddr[v].DelegatorShares - valsByAddr[v].DelegatorDeductions,
                              valsByAddr[v]))
  BY DEF CountValidator
<1>2. v \in DOMAIN valsByAddr
  BY <1>1, ValidatorSeen
<1>3. v \in Voting
  BY <1>1, <1>2 DEF Voting
<1>4. /\ InputsOK' /\ Control' /\ Seen' = Seen
      /\ v \notin SeenVals /\ SeenVals' = SeenVals \cup {v}
  BY <1>1, <1>3, ValidatorSeen
<1>5. valsByAddr[v].DelegatorShares - valsByAddr[v].DelegatorDeductions = Own(v)
  <2>1. Seen = Voted
    BY <1>1 DEF Seen
  <2> QED
    BY <1>2, <2>1 DEF Own, Counted
<1>6. /\ valsByAddr[v].Vote \in Ballots
      /\ OwnPowerOf[v] = VotingPower(Own(v), valsByAddr[v])
      /\ OwnPowerOf[v] \in Nat
      /\ \A o \in VoteOption :
           OwnPartOf(o)[v] = Mul(OwnPowerOf[v], Lookup(valsByAddr[v].Vote, o, 0))
  <2>1. valsByAddr[v].Vote \in Ballots
    BY <1>1, <1>2 DEF InputsOK, ValsOK, Validator
  <2>2. OwnPowerOf[v] = VotingPower(Own(v), valsByAddr[v])
    BY <1>3 DEF OwnPowerOf
  <2>3. OwnPowerOf[v] \in Nat
    BY <1>3, OwnTypes
  <2>4. \A o \in VoteOption :
          OwnPartOf(o)[v] = Mul(OwnPowerOf[v], Lookup(valsByAddr[v].Vote, o, 0))
    BY <1>3 DEF OwnPartOf
  <2> QED
    BY <2>1, <2>2, <2>3, <2>4
<1>7. /\ Totals'
      /\ \A o \in VoteOption : results'[o] = results[o] + OwnPartOf(o)[v]
      /\ totalVotingPower' = totalVotingPower + OwnPowerOf[v]
      /\ counted' = counted + 1
  <2> PICK vote \in Ballots, p \in Nat : vote = valsByAddr[v].Vote /\ p = OwnPowerOf[v]
    BY <1>6
  <2>1. AddPower(vote, p) /\ yesPercent' = yesPercent
    BY <1>1, <1>5, <1>6
  <2>2. /\ Totals'
        /\ \A o \in VoteOption : results'[o] = results[o] + Mul(p, Lookup(vote, o, 0))
        /\ totalVotingPower' = totalVotingPower + p
        /\ counted' = counted + 1
    BY <2>1, AddPowerStep
  <2> QED
    BY <1>6, <2>2
<1>8. Counted'
  BY <1>1, <1>3, <1>4, <1>7, SeeValidator
<1> QED
  BY <1>4, <1>7, <1>8

LEMMA PrintInv ==
  ASSUME IInv, PrintTallyResults
  PROVE  IInv'
<1> USE DEF IInv
<1>1. /\ UNCHANGED <<inputs, valsByAddr, todo, dels, voter, sums>>
      /\ pc = "validators" /\ todo = {} /\ pc' \in {"printed", "panic"}
  BY DEF PrintTallyResults
<1>2. InputsOK' /\ Voted' = Voted /\ Voting' = Voting
  BY <1>1, InputsSame
<1>3. yesPercent' \in Int
  <2> DEFINE voting == totalVotingPower - results["abstain"]
  <2>1. CASE voting = 0
    BY <2>1 DEF PrintTallyResults, Totals
  <2>2. CASE voting # 0
    <3>1. /\ results["yes"] \in Nat /\ results["abstain"] \in Nat
          /\ totalVotingPower \in Nat /\ results["abstain"] <= totalVotingPower
      BY DEF Totals, VoteOption
    <3>2. voting \in Nat \ {0}
      BY <2>2, <3>1
    <3>3. yesPercent' = Quo(results["yes"], voting)
      BY <2>2 DEF PrintTallyResults
    <3> QED
      BY <3>1, <3>2, <3>3, QuoNat
  <2> QED
    BY <2>1, <2>2
<1>4. Totals'
  BY <1>1, <1>3 DEF Totals, Conservation, OptionsSum, sums
<1>5. Control'
  BY <1>1 DEF Control, inputs
<1>6. Seen' = Seen /\ SeenVals' = SeenVals
  BY <1>1, <1>2 DEF Seen, SeenVals
<1>7. Counted'
  BY <1>1, <1>6, CountedSame
<1> QED
  BY <1>2, <1>4, <1>5, <1>7

LEMMA StutterInv ==
  ASSUME IInv, UNCHANGED vars
  PROVE  IInv'
<1> USE DEF IInv
<1>1. UNCHANGED <<inputs, valsByAddr, pc, todo, dels, voter, sums, yesPercent>>
  BY DEF vars
<1>2. InputsOK' /\ Voted' = Voted /\ Voting' = Voting
  BY <1>1, InputsSame
<1>3. Totals'
  BY <1>1, TotalsSame
<1>4. Control'
  BY <1>1 DEF Control, inputs
<1>5. Seen' = Seen /\ SeenVals' = SeenVals
  BY <1>1, <1>2 DEF Seen, SeenVals
<1>6. Counted'
  BY <1>1, <1>5, CountedSame
<1> QED
  BY <1>2, <1>3, <1>4, <1>6

LEMMA NextInv ==
  ASSUME IInv, [Next]_vars
  PROVE  IInv'
<1>1. CASE \E a \in Address : RangeVoter(a)
  BY <1>1, RangeVoterInv
<1>2. CASE IgnoreDelegation
  BY <1>2, IgnoreDelegationInv
<1>3. CASE CountDelegation
  BY <1>3, CountDelegationInv
<1>4. CASE EndVoter
  BY <1>4, EndVoterInv
<1>5. CASE EndVoters
  BY <1>5, EndVotersInv
<1>6. CASE \E v \in Operator : IgnoreValidator(v) \/ CountValidator(v)
  BY <1>6, IgnoreValidatorInv, CountValidatorInv
<1>7. CASE PrintTallyResults
  BY <1>7, PrintInv
<1>8. CASE Ended \/ UNCHANGED vars
  BY <1>8, StutterInv DEF Ended
<1> QED
  BY <1>1, <1>2, <1>3, <1>4, <1>5, <1>6, <1>7, <1>8 DEF Next

LEMMA InitInv ==
  ASSUME Init
  PROVE  IInv
<1> PICK vf \in VotesFiles, df \in DelegationFiles :
      \E vals \in ValidatorFiles[df] :
        /\ votesByAddr = ParseVotesByAddr(vf)
        /\ delegsByAddr = ParseDelegationsByAddr(df)
        /\ valsByAddr = ParseValidatorsByAddr(vals, votesByAddr)
  BY DEF Init
<1> PICK vals \in ValidatorFiles[df] :
      /\ votesByAddr = ParseVotesByAddr(vf)
      /\ delegsByAddr = ParseDelegationsByAddr(df)
      /\ valsByAddr = ParseValidatorsByAddr(vals, votesByAddr)
  OBVIOUS
<1>1. VotesOK
  BY ParsedVotes DEF VotesOK
<1>2. DelegsOK
  <2>1. IsFiniteSet(Pairs)
    BY ParsedShares DEF Pairs
  <2> QED
    BY <2>1, ParsedDelegations DEF DelegsOK
<1>3. /\ IsFiniteSet(DOMAIN valsByAddr)
      /\ DOMAIN valsByAddr \subseteq Operator
      /\ valsByAddr \in [DOMAIN valsByAddr -> Validator]
      /\ \A v \in DOMAIN valsByAddr : /\ valsByAddr[v].DelegatorShares = SharesOf(df, v)
                                      /\ valsByAddr[v].DelegatorDeductions = 0
  <2>1. votesByAddr \in [DOMAIN votesByAddr -> Ballots]
    BY <1>1 DEF VotesOK
  <2> QED
    BY <2>1, ParsedValidators
<1>4. ValsOK
  <2>1. \A v : SumFunctionOnSet(SharesAt(v), Pairs) = SharesOf(df, v)
    BY ParsedShares DEF SharesAt, Pairs
  <2> QED
    BY <1>3, <2>1 DEF ValsOK
<1>5. InputsOK
  BY <1>1, <1>2, <1>4 DEF InputsOK
<1>6. /\ results = [o \in VoteOption |-> 0]
      /\ totalVotingPower = 0 /\ counted = 0 /\ yesPercent = 0
  BY DEF Init
<1>10. /\ pc \in {"not parsed", "voters"}
       /\ todo = DOMAIN votesByAddr /\ dels = <<>> /\ voter = NoVoter
  BY DEF Init
<1>7. Control
  <2>1. <<>> \in Seq(Range(<<>>)) /\ DOMAIN <<>> = {}
    OBVIOUS
  <2> QED
    BY <1>10, <2>1 DEF Control
<1>8. Totals
  <2>1. \A o \in {"yes", "abstain", "no", "veto"} : results[o] = 0
    BY <1>6 DEF VoteOption
  <2>2. results \in [VoteOption -> Nat]
    BY <1>6
  <2> QED
    BY <1>6, <2>1, <2>2 DEF Totals, Conservation, OptionsSum
<1>9. Counted
  <2>1. Seen = {} /\ SeenVals = {}
    BY <1>10 DEF Seen, SeenVals, Voted
  <2>2. \A f : SumFunctionOnSet(f, {}) = 0
    BY SumEmpty
  <2>3. Cardinality({}) = 0
    BY FS_EmptySet
  <2> QED
    BY <1>3, <1>6, <2>1, <2>2, <2>3 DEF Counted
<1> QED
  BY <1>5, <1>7, <1>8, <1>9 DEF IInv

LEMMA Invariance == Spec => []IInv
<1>1. Init => IInv
  BY InitInv
<1>2. IInv /\ [Next]_vars => IInv'
  BY NextInv
<1> QED
  BY <1>1, <1>2, PTL DEF Spec

\* The state of the tally has its type: tally.go never leaves the weights, the
\* validators or the sums with a value it could not compute with.
THEOREM TypeCorrect == Spec => []TypeOK
<1>1. IInv => TypeOK
  <2> SUFFICES ASSUME IInv PROVE TypeOK
    OBVIOUS
  <2> USE DEF IInv
  <2>1. /\ pc \in {"not parsed", "voters", "delegations", "validators", "printed", "panic"}
        /\ todo \subseteq Address \cup Operator
        /\ voter \in Address \cup {NoVoter}
    BY DEF Control, InputsOK, VotesOK, ValsOK
  <2>2. \A a \in DOMAIN votesByAddr : IsWeightedVote(votesByAddr[a])
    BY DEF InputsOK, VotesOK, Ballots
  <2>3. ASSUME NEW v \in DOMAIN valsByAddr
        PROVE  /\ valsByAddr[v].BondedTokens \in Nat
               /\ valsByAddr[v].DelegatorShares \in Nat \ {0}
               /\ valsByAddr[v].DelegatorDeductions \in Nat
               /\ valsByAddr[v].Vote = NoVote \/ IsWeightedVote(valsByAddr[v].Vote)
    <3>1. valsByAddr[v] \in Validator
      BY DEF InputsOK, ValsOK
    <3> QED
      BY <3>1 DEF Validator, Ballots
  <2>4. /\ results \in [VoteOption -> Int] /\ totalVotingPower \in Int
        /\ counted \in Nat /\ yesPercent \in Int
    BY DEF Totals
  <2> QED
    BY <2>1, <2>2, <2>3, <2>4 DEF TypeOK
<1> QED
  BY <1>1, Invariance, PTL

\* No validator is deducted more shares than it has, in whatever order the maps
\* are ranged over.
THEOREM DeductionsCorrect == Spec => []DeductionsWithinShares
<1>1. IInv => DeductionsWithinShares
  BY Within DEF IInv, DeductionsWithinShares
<1> QED
  BY <1>1, Invariance, PTL

\* The options share out the voting power, but for two units for each power.
THEOREM ConservationCorrect == Spec => []Conservation
<1>1. IInv => Conservation
  BY DEF IInv, Totals
<1> QED
  BY <1>1, Invariance, PTL

-----------------------------------------------------------------------------
(* The tally is the one of TallySpec.                                      *)

\* When the loops are over, everything was counted.
LEMMA AllCounted ==
  ASSUME IInv, pc \in {"validators", "printed", "panic"}, todo = {}
  PROVE  /\ \A v \in DOMAIN valsByAddr :
              valsByAddr[v].DelegatorDeductions = SumFunctionOnSet(SharesAt(v), Voted)
         /\ \A o \in VoteOption :
              results[o] = SumFunctionOnSet(PartOf(o), Voted)
                             + SumFunctionOnSet(OwnPartOf(o), Voting)
         /\ totalVotingPower = SumFunctionOnSet(PowerOf, Voted)
                                 + SumFunctionOnSet(OwnPowerOf, Voting)
         /\ counted = Cardinality(Voted) + Cardinality(Voting)
<1>1. Seen = Voted /\ SeenVals = Voting
  BY DEF Seen, SeenVals
<1> QED
  BY <1>1 DEF IInv, Counted

\* TallySpec computes with the operators of this module.
LEMMA SameOperators ==
  /\ Abstract!VoteOption = VoteOption
  /\ Abstract!NoVote = NoVote
  /\ Abstract!Delegated(delegsByAddr) = Pairs
  /\ \A map, key, zero : Abstract!Lookup(map, key, zero) = Lookup(map, key, zero)
  /\ \A a, b : Abstract!Mul(a, b) = Mul(a, b)
  /\ \A s, val : Abstract!VotingPower(s, val) = VotingPower(s, val)
  /\ \A f : Abstract!SumFunction(f) = SumFunction(f)
<1>1. Abstract!VoteOption = VoteOption
  BY DEF Abstract!VoteOption, VoteOption
<1>2. Abstract!NoVote = NoVote
  BY DEF Abstract!NoVote, NoVote
<1>3. Abstract!Delegated(delegsByAddr) = Pairs
  BY DEF Abstract!Delegated, Abstract!Range, Pairs, Delegated, Range
<1>4. \A map, key, zero : Abstract!Lookup(map, key, zero) = Lookup(map, key, zero)
  BY DEF Abstract!Lookup, Lookup
<1>5. \A quo, rem : Abstract!RoundHalfEven(quo, rem) = RoundHalfEven(quo, rem)
  BY DEF Abstract!RoundHalfEven, RoundHalfEven
<1>6. \A a, b : Abstract!Mul(a, b) = Mul(a, b)
  BY <1>5 DEF Abstract!Mul, Abstract!ChopRound, Mul, ChopRound
<1>7. \A s, val : Abstract!VotingPower(s, val) = VotingPower(s, val)
  BY <1>5 DEF Abstract!VotingPower, Abstract!Quo, Abstract!MulInt, VotingPower, Quo, MulInt
<1>8. \A f : Abstract!SumFunction(f) = SumFunction(f)
  BY DEF Abstract!SumFunction, Abstract!SumFunctionOnSet, Abstract!FoldFunctionOnSet,
         Abstract!MapThenFoldSet, SumFunction, SumFunctionOnSet, FoldFunctionOnSet,
         MapThenFoldSet
<1> QED
  BY <1>1, <1>2, <1>3, <1>4, <1>6, <1>7, <1>8

LEMMA AbstractResult ==
  ASSUME IInv
  PROVE  /\ Abstract!TallyResult.results =
              [o \in VoteOption |-> SumFunctionOnSet(PartOf(o), Voted)
                                      + SumFunctionOnSet(OwnPartOf(o), Voting)]
         /\ Abstract!TallyResult.total = SumFunctionOnSet(PowerOf, Voted)
                                           + SumFunctionOnSet(OwnPowerOf, Voting)
         /\ Abstract!TallyResult =
              [results |-> Abstract!TallyResult.results, total |-> Abstract!TallyResult.total]
<1> USE DEF IInv
<1>1. Abstract!VotedDelegations = Voted
  BY SameOperators DEF Abstract!VotedDelegations, Voted, Pairs
<1>2. Abstract!VotingValidators = Voting
  BY SameOperators DEF Abstract!VotingValidators, Voting
<1>3. \A ad : Abstract!DelegationPower(ad)
                = VotingPower(ad[2].shares, valsByAddr[ad[2].validator])
  BY SameOperators DEF Abstract!DelegationPower
<1>4. PowerOf = [ad \in Voted |-> Abstract!DelegationPower(ad)]
  BY <1>3 DEF PowerOf
<1>5. \A v \in Voting : Abstract!OwnShares(v) = Own(v)
  <2> TAKE v \in Voting
  <2> DEFINE f == SharesAt(v)
             g == [ad \in Voted |-> IF ad[2].validator = v THEN ad[2].shares ELSE 0]
  <2>1. Abstract!OwnShares(v) = valsByAddr[v].DelegatorShares - SumFunction(g)
    BY <1>1, SameOperators DEF Abstract!OwnShares
  <2>2. \A ad \in Voted : f[ad] \in Int /\ g[ad] = f[ad]
    BY TermTypes DEF SharesAt
  <2>3. Own(v) = valsByAddr[v].DelegatorShares - SumFunctionOnSet(f, Voted)
    BY DEF Own
  <2>4. DOMAIN g = Voted
    OBVIOUS
  <2> HIDE DEF f, g
  <2>5. SumFunctionOnSet(g, Voted) = SumFunctionOnSet(f, Voted)
    BY <2>2, TermTypes, SumSame
  <2>6. SumFunction(g) = SumFunctionOnSet(g, Voted)
    BY <2>4 DEF SumFunction
  <2> QED
    BY <2>1, <2>3, <2>5, <2>6
<1>6. \A v \in Voting : Abstract!ValidatorPower(v) = VotingPower(Own(v), valsByAddr[v])
  BY <1>5, SameOperators DEF Abstract!ValidatorPower
<1>7. OwnPowerOf = [v \in Voting |-> Abstract!ValidatorPower(v)]
  BY <1>6 DEF OwnPowerOf
<1>8. \A o : PartOf(o) = [ad \in Voted |->
                 Mul(Abstract!DelegationPower(ad), Lookup(votesByAddr[ad[1]], o, 0))]
  BY <1>4 DEF PartOf
<1>9. \A o : OwnPartOf(o) = [v \in Voting |->
                 Mul(Abstract!ValidatorPower(v), Lookup(valsByAddr[v].Vote, o, 0))]
  BY <1>7 DEF OwnPartOf
<1>10. /\ \A o : SumFunction(PartOf(o)) = SumFunctionOnSet(PartOf(o), Voted)
       /\ \A o : SumFunction(OwnPartOf(o)) = SumFunctionOnSet(OwnPartOf(o), Voting)
       /\ SumFunction(PowerOf) = SumFunctionOnSet(PowerOf, Voted)
       /\ SumFunction(OwnPowerOf) = SumFunctionOnSet(OwnPowerOf, Voting)
  <2>1. /\ \A o : DOMAIN PartOf(o) = Voted
        /\ \A o : DOMAIN OwnPartOf(o) = Voting
        /\ DOMAIN PowerOf = Voted
        /\ DOMAIN OwnPowerOf = Voting
    BY DEF PartOf, OwnPartOf, PowerOf, OwnPowerOf
  <2> QED
    BY <2>1 DEF SumFunction
<1>11. Abstract!TallyResult =
         [results |-> [o \in VoteOption |-> SumFunction(PartOf(o)) + SumFunction(OwnPartOf(o))],
          total |-> SumFunction(PowerOf) + SumFunction(OwnPowerOf)]
  BY <1>1, <1>2, <1>4, <1>7, <1>8, <1>9, SameOperators DEF Abstract!TallyResult
<1> QED
  BY <1>10, <1>11

LEMMA ParsedInit ==
  ASSUME Init
  PROVE  Parsed
<1> SUFFICES ASSUME pc # "not parsed" PROVE Abstract!Accepted
  BY DEF Parsed
<1> PICK df \in DelegationFiles : \E vals \in ValidatorFiles[df] :
      /\ valsByAddr = ParseValidatorsByAddr(vals, votesByAddr)
      /\ ValidatorsDecode(vals, "cosmos")
  BY DEF Init
<1> PICK vals \in ValidatorFiles[df] :
      /\ valsByAddr = ParseValidatorsByAddr(vals, votesByAddr)
      /\ ValidatorsDecode(vals, "cosmos")
  OBVIOUS
<1>1. DOMAIN valsByAddr = {vals[i].operator : i \in DOMAIN vals}
  BY DEF ParseValidatorsByAddr
<1> QED
  BY <1>1 DEF ValidatorsDecode, Abstract!Accepted

LEMMA ParsedNext ==
  ASSUME Parsed, [Next]_vars
  PROVE  Parsed'
<1>1. DOMAIN valsByAddr' = DOMAIN valsByAddr
  BY DEF Next, RangeVoter, IgnoreDelegation, CountDelegation, CountOf, EndVoter, EndVoters,
         IgnoreValidator, CountValidator, PrintTallyResults, Ended, vars
<1>2. pc = "not parsed" => pc' = "not parsed"
  BY DEF Next, RangeVoter, IgnoreDelegation, CountDelegation, CountOf, EndVoter, EndVoters,
         IgnoreValidator, CountValidator, PrintTallyResults, Ended, vars
<1> QED
  BY <1>1, <1>2 DEF Parsed, Abstract!Accepted

LEMMA AnswerStep ==
  ASSUME IInv, Parsed, [Next]_vars
  PROVE  [Abstract!Answer]_Answered
<1>1. CASE PrintTallyResults
  <2>1. /\ pc = "validators" /\ todo = {} /\ pc' \in {"printed", "panic"}
        /\ UNCHANGED <<inputs, valsByAddr, sums>>
    BY <1>1 DEF PrintTallyResults
  <2>2. Answered = {}
    BY <2>1 DEF Answered
  <2>3. Answered' = {[results |-> results, total |-> totalVotingPower]}
    BY <2>1 DEF Answered, sums
  <2>4. results = Abstract!TallyResult.results
    <3>1. results = [o \in VoteOption |-> results[o]]
      BY DEF IInv, Totals
    <3>2. results = [o \in VoteOption |-> SumFunctionOnSet(PartOf(o), Voted)
                                            + SumFunctionOnSet(OwnPartOf(o), Voting)]
      BY <2>1, <3>1, AllCounted
    <3> QED
      BY <3>2, AbstractResult
  <2>5. totalVotingPower = Abstract!TallyResult.total
    BY <2>1, AllCounted, AbstractResult
  <2>6. Answered' = {Abstract!TallyResult}
    BY <2>3, <2>4, <2>5, AbstractResult
  <2>7. Abstract!Accepted
    BY <2>1 DEF Parsed
  <2> QED
    BY <2>1, <2>2, <2>6, <2>7 DEF Abstract!Answer, inputs
<1>2. CASE UNCHANGED vars
  BY <1>2 DEF vars, sums, Answered
<1>3. CASE pc \notin {"printed", "panic"} /\ pc' \notin {"printed", "panic"}
  BY <1>3 DEF Answered
<1>4. PrintTallyResults \/ UNCHANGED vars \/ (pc \notin {"printed", "panic"} /\ pc' \notin {"printed", "panic"})
  BY DEF Next, RangeVoter, IgnoreDelegation, CountDelegation, CountOf, EndVoter, EndVoters,
         IgnoreValidator, CountValidator, Ended
<1> QED
  BY <1>1, <1>2, <1>3, <1>4

\* Whatever the order in which Go ranges over its maps, the tally answers once,
\* for a snapshot of the Cosmos Hub alone, and what it answers is the sum of
\* TallySpec: the safety half of OrderIndependent.
THEOREM AnswerCorrect == Spec => Abstract!Init /\ [][Abstract!Answer]_Answered
<1>1. Init => Abstract!Init
  BY DEF Init, Abstract!Init, Answered
<1>2. IInv /\ Parsed /\ [Next]_vars => [Abstract!Answer]_Answered
  BY AnswerStep
<1>3. Init => Parsed
  BY ParsedInit
<1>4. Parsed /\ [Next]_vars => Parsed'
  BY ParsedNext
<1> QED
  BY <1>1, <1>2, <1>3, <1>4, Invariance, PTL DEF Spec

-----------------------------------------------------------------------------
(* What each share stands for.                                             *)

\* The part of the results that comes from the shares of v, and how many
\* powers it comes in.
PartsAt(v, o) == [ad \in Voted |-> IF ad[2].validator = v THEN PartOf(o)[ad] ELSE 0]
CountsAt(v) == [ad \in Voted |-> IF ad[2].validator = v THEN 1 ELSE 0]
OwnPart(v, o) == IF v \in Voting THEN OwnPartOf(o)[v] ELSE 0
OwnCount(v) == IF v \in Voting THEN 1 ELSE 0

ResultAt(v, o) == SumFunctionOnSet(PartsAt(v, o), Voted) + OwnPart(v, o)
CountAt(v) == SumFunctionOnSet(CountsAt(v), Voted) + OwnCount(v)

\* The shares at v of the direct voters, and those of every ballot, by weight.
VotedShares(v, o) ==
  [ad \in Voted |-> IF ad[2].validator = v
                    THEN ad[2].shares * Lookup(votesByAddr[ad[1]], o, 0) ELSE 0]
BallotShares(v, o) ==
  [ad \in Pairs |-> IF ad[2].validator = v
                    THEN ad[2].shares * Lookup(BallotOf(ad[1], v), o, 0) ELSE 0]
OwnWeight(v, o) == Lookup(valsByAddr[v].Vote, o, 0)

LEMMA OwnWeightType ==
  ASSUME IInv, NEW v \in DOMAIN valsByAddr, NEW o \in VoteOption
  PROVE  /\ OwnWeight(v, o) \in 0..One
         /\ v \notin Voting => OwnWeight(v, o) = 0
<1>1. valsByAddr[v].Vote \in Ballots \cup {NoVote}
  BY DEF IInv, InputsOK, ValsOK, Validator
<1>2. Lookup(NoVote, o, 0) = 0
  BY DEF Lookup, NoVote
<1>3. v \notin Voting => valsByAddr[v].Vote = NoVote
  BY DEF Voting
<1>4. 0 \in 0..One
  BY OneAssumption
<1> QED
  BY <1>1, <1>2, <1>3, <1>4, WeightType DEF OwnWeight

LEMMA VotedSharesType ==
  ASSUME IInv, NEW v \in DOMAIN valsByAddr, NEW o \in VoteOption, NEW ad \in Voted
  PROVE  /\ ad[2].shares \in Nat
         /\ Lookup(votesByAddr[ad[1]], o, 0) \in 0..One
         /\ VotedShares(v, o)[ad] \in Nat
         /\ CountsAt(v)[ad] \in Nat
         /\ PartsAt(v, o)[ad] \in Nat
<1>1. ad[2].shares \in Nat
  BY PairType, TermTypes DEF IInv
<1>2. Lookup(votesByAddr[ad[1]], o, 0) \in 0..One
  <2>1. votesByAddr[ad[1]] \in Ballots
    BY DEF Voted, IInv, InputsOK, VotesOK
  <2> QED
    BY <2>1, WeightType
<1>3. ad[2].shares * Lookup(votesByAddr[ad[1]], o, 0) \in Nat
  BY <1>1, <1>2, OneAssumption
<1>4. PartOf(o)[ad] \in Nat
  BY TermTypes DEF IInv
<1> QED
  BY <1>1, <1>2, <1>3, <1>4 DEF VotedShares, CountsAt, PartsAt

\* Every share at v stands for the vote of its delegator, or for that of v.
LEMMA SharesSplit ==
  ASSUME IInv, NEW v \in DOMAIN valsByAddr, NEW o \in VoteOption
  PROVE  SumFunctionOnSet(BallotShares(v, o), Pairs)
           = SumFunctionOnSet(VotedShares(v, o), Voted) + OwnWeight(v, o) * Own(v)
<1> DEFINE f == BallotShares(v, o)
           g == VotedShares(v, o)
           s == SharesAt(v)
           rest == Pairs \ Voted
<1> PICK w \in Nat : w = OwnWeight(v, o)
  BY OwnWeightType, OneAssumption
<1>1. /\ IsFiniteSet(Pairs) /\ Voted \in SUBSET Pairs /\ IsFiniteSet(Voted)
      /\ IsFiniteSet(rest)
  BY TermTypes, FS_Subset DEF IInv
<1>2. \A ad \in Voted : g[ad] \in Int /\ f[ad] = g[ad]
  <2> TAKE ad \in Voted
  <2>1. g[ad] \in Int
    BY VotedSharesType
  <2>2. ad[1] \in DOMAIN votesByAddr /\ ad \in Pairs
    BY <1>1 DEF Voted
  <2> QED
    BY <2>1, <2>2 DEF BallotShares, VotedShares, BallotOf
<1>3. \A ad \in rest : s[ad] \in Int /\ f[ad] = w * s[ad]
  <2> TAKE ad \in rest
  <2>1. ad \in Pairs /\ s[ad] \in Int /\ ad[2].shares \in Nat
    BY TermTypes, PairType DEF IInv
  <2>2. CASE ad[2].validator = v
    <3>1. ad[1] \notin DOMAIN votesByAddr
      BY <2>1, <2>2 DEF Voted
    <3>2. f[ad] = ad[2].shares * w
      BY <2>1, <2>2, <3>1 DEF BallotShares, BallotOf, OwnWeight
    <3>3. s[ad] = ad[2].shares
      BY <2>1, <2>2 DEF SharesAt
    <3> QED
      BY <2>1, <3>2, <3>3
  <2>3. CASE ad[2].validator # v
    <3>1. f[ad] = 0 /\ s[ad] = 0
      BY <2>1, <2>3 DEF BallotShares, SharesAt
    <3> QED
      BY <3>1
  <2> QED
    BY <2>2, <2>3
<1>4. \A ad \in Pairs : s[ad] \in Int
  BY TermTypes DEF IInv
<1>5. \A ad \in Pairs : f[ad] \in Int
  <2> TAKE ad \in Pairs
  <2>1. CASE ad \in Voted
    BY <1>2, <2>1
  <2>2. CASE ad \in rest
    <3>1. w * s[ad] \in Int
      BY <1>3, <2>2
    <3> QED
      BY <1>3, <2>2, <3>1
  <2> QED
    BY <2>1, <2>2
<1>6. /\ SumFunctionOnSet(s, Pairs) = valsByAddr[v].DelegatorShares
      /\ Own(v) = valsByAddr[v].DelegatorShares - SumFunctionOnSet(s, Voted)
  BY DEF IInv, InputsOK, ValsOK, Own
<1> HIDE DEF f, g, s
<1>7. SumFunctionOnSet(f, Pairs) = SumFunctionOnSet(f, Voted) + SumFunctionOnSet(f, rest)
  BY <1>1, <1>5, SumSplit
<1>8. SumFunctionOnSet(s, Pairs) = SumFunctionOnSet(s, Voted) + SumFunctionOnSet(s, rest)
  BY <1>1, <1>4, SumSplit
<1> HIDE DEF rest
<1>9. SumFunctionOnSet(f, Voted) = SumFunctionOnSet(g, Voted)
  BY <1>1, <1>2, SumSame
<1>10. SumFunctionOnSet(f, rest) = w * SumFunctionOnSet(s, rest)
  BY <1>1, <1>3, SumScale
<1>11. /\ SumFunctionOnSet(s, Voted) \in Int /\ SumFunctionOnSet(s, rest) \in Int
       /\ SumFunctionOnSet(g, Voted) \in Int
  <2>1. \A ad \in Voted : s[ad] \in Int /\ g[ad] \in Int
    BY <1>1, <1>2, <1>4
  <2>2. \A ad \in rest : s[ad] \in Int
    BY <1>3
  <2>3. SumFunctionOnSet(s, Voted) \in Int
    BY <1>1, <2>1, SumInt
  <2>4. SumFunctionOnSet(g, Voted) \in Int
    BY <1>1, <2>1, SumInt
  <2>5. SumFunctionOnSet(s, rest) \in Int
    BY <1>1, <2>2, SumInt
  <2> QED
    BY <2>3, <2>4, <2>5
<1>12. SumFunctionOnSet(s, rest) = Own(v)
  BY <1>6, <1>8, <1>11
<1> QED
  BY <1>7, <1>9, <1>10, <1>11, <1>12 DEF f, g

\* The parts of the direct voters at v, all together.
LEMMA VotedError ==
  ASSUME IInv, NEW v \in DOMAIN valsByAddr, NEW o \in VoteOption,
         NEW S, NEW B, S = valsByAddr[v].DelegatorShares, B = valsByAddr[v].BondedTokens,
         NEW r, NEW n, NEW c,
         r = SumFunctionOnSet(PartsAt(v, o), Voted),
         n = SumFunctionOnSet(VotedShares(v, o), Voted),
         c = SumFunctionOnSet(CountsAt(v), Voted)
  PROVE  /\ r \in Nat /\ n \in Nat /\ c \in Nat
         /\ S * r <= B * n + (2 * S) * c
         /\ B * n <= S * r + (2 * S) * c
<1> DEFINE f == PartsAt(v, o)
           g == VotedShares(v, o)
           h == CountsAt(v)
<1>1. S \in Nat \ {0} /\ B \in Nat
  BY DEF IInv, InputsOK, ValsOK, Validator
<1>2. IsFiniteSet(Voted)
  BY TermTypes DEF IInv
<1>3. \A ad \in Voted : f[ad] \in Nat /\ g[ad] \in Nat /\ h[ad] \in Nat
  BY VotedSharesType
<1> PICK d \in Int : d = 2 * S
  BY <1>1
<1>4. ASSUME NEW ad \in Voted
      PROVE  /\ S * f[ad] <= B * g[ad] + d * h[ad]
             /\ B * g[ad] <= S * f[ad] + d * h[ad]
  <2>1. CASE ad[2].validator = v
    <3> PICK sh \in Nat : sh = ad[2].shares
      BY VotedSharesType
    <3> PICK w \in 0..One : w = Lookup(votesByAddr[ad[1]], o, 0)
      BY VotedSharesType
    <3>1. f[ad] = Mul(Quo(sh * B, S), w)
      <4>1. f[ad] = PartOf(o)[ad]
        BY <2>1 DEF PartsAt
      <4>2. PartOf(o)[ad] = Mul(PowerOf[ad], w)
        BY DEF PartOf
      <4>3. PowerOf[ad] = Quo(sh * B, S)
        BY <2>1 DEF PowerOf, VotingPower, MulInt
      <4> QED
        BY <4>1, <4>2, <4>3
    <3>2. g[ad] = sh * w /\ h[ad] = 1
      BY <2>1 DEF VotedShares, CountsAt
    <3> PICK m, p : m = Mul(Quo(sh * B, S), w) /\ p = sh * w
      OBVIOUS
    <3>3. S * m <= B * p + 2 * S /\ B * p <= S * m + 2 * S
      BY <1>1, PartError
    <3>4. f[ad] = m /\ g[ad] = p
      BY <3>1, <3>2
    <3>5. d * h[ad] = 2 * S
      BY <3>2
    <3> HIDE DEF f, g, h
    <3> QED
      BY <3>3, <3>4, <3>5
  <2>2. CASE ad[2].validator # v
    <3>1. f[ad] = 0 /\ g[ad] = 0 /\ h[ad] = 0
      BY <2>2 DEF PartsAt, VotedShares, CountsAt
    <3>2. S * 0 = 0 /\ B * 0 = 0 /\ d * 0 = 0
      BY <1>1
    <3> HIDE DEF f, g, h
    <3> QED
      BY <3>1, <3>2
  <2> QED
    BY <2>1, <2>2
<1> HIDE DEF f, g, h
<1>5. r = SumFunctionOnSet(f, Voted) /\ n = SumFunctionOnSet(g, Voted)
      /\ c = SumFunctionOnSet(h, Voted)
  BY DEF f, g, h
<1>6. r \in Nat /\ n \in Nat /\ c \in Nat
  <2>1. SumFunctionOnSet(f, Voted) \in Nat
    BY <1>2, <1>3, SumNat
  <2>2. SumFunctionOnSet(g, Voted) \in Nat
    BY <1>2, <1>3, SumNat
  <2>3. SumFunctionOnSet(h, Voted) \in Nat
    BY <1>2, <1>3, SumNat
  <2> QED
    BY <1>5, <2>1, <2>2, <2>3
<1>7. \A ad \in Voted : f[ad] \in Int /\ g[ad] \in Int /\ h[ad] \in Int
  BY <1>3
<1>8. \A ad \in Voted : g[ad] \in Int /\ f[ad] \in Int /\ h[ad] \in Int
  BY <1>3
<1>9. S \in Int /\ B \in Int
  BY <1>1
<1>10. \A ad \in Voted : S * f[ad] <= B * g[ad] + d * h[ad]
  BY <1>4
<1>11. \A ad \in Voted : B * g[ad] <= S * f[ad] + d * h[ad]
  BY <1>4
<1>12. S * r <= B * n + d * c
  BY <1>2, <1>5, <1>7, <1>9, <1>10, SumLinear
<1>13. B * n <= S * r + d * c
  BY <1>2, <1>5, <1>8, <1>9, <1>11, SumLinear
<1> QED
  BY <1>6, <1>12, <1>13

\* The part of v's own vote.
LEMMA OwnError ==
  ASSUME IInv, NEW v \in DOMAIN valsByAddr, NEW o \in VoteOption,
         NEW S, NEW B, S = valsByAddr[v].DelegatorShares, B = valsByAddr[v].BondedTokens,
         NEW n, n = OwnWeight(v, o) * Own(v)
  PROVE  /\ OwnPart(v, o) \in Nat /\ n \in Nat /\ OwnCount(v) \in Nat
         /\ S * OwnPart(v, o) <= B * n + (2 * S) * OwnCount(v)
         /\ B * n <= S * OwnPart(v, o) + (2 * S) * OwnCount(v)
<1>1. S \in Nat \ {0} /\ B \in Nat
  BY DEF IInv, InputsOK, ValsOK, Validator
<1> PICK own \in Nat : own = Own(v)
  BY OwnTypes DEF IInv
<1> PICK w \in 0..One : w = OwnWeight(v, o)
  BY OwnWeightType
<1>2. n = own * w /\ n \in Nat
  <2>1. w \in Nat
    BY OneAssumption
  <2> QED
    BY <2>1
<1>3. CASE v \in Voting
  <2>1. OwnPart(v, o) = Mul(Quo(own * B, S), w)
    <3>1. OwnPart(v, o) = OwnPartOf(o)[v]
      BY <1>3 DEF OwnPart
    <3>2. OwnPartOf(o)[v] = Mul(OwnPowerOf[v], w)
      BY <1>3 DEF OwnPartOf, OwnWeight
    <3>3. OwnPowerOf[v] = Quo(own * B, S)
      BY <1>3 DEF OwnPowerOf, VotingPower, MulInt
    <3> QED
      BY <3>1, <3>2, <3>3
  <2>2. OwnPart(v, o) \in Nat
    BY <1>3, OwnTypes DEF IInv, OwnPart
  <2>3. OwnCount(v) = 1
    BY <1>3 DEF OwnCount
  <2> PICK m \in Nat : m = Mul(Quo(own * B, S), w)
    BY <2>1, <2>2
  <2>4. S * m <= B * n + 2 * S /\ B * n <= S * m + 2 * S
    <3>1. S * m <= B * (own * w) + 2 * S /\ B * (own * w) <= S * m + 2 * S
      BY <1>1, PartError
    <3> QED
      BY <1>2, <3>1
  <2>5. (2 * S) * OwnCount(v) = 2 * S
    BY <1>1, <2>3
  <2> QED
    BY <1>2, <2>1, <2>3, <2>4, <2>5
<1>4. CASE v \notin Voting
  <2>1. OwnPart(v, o) = 0 /\ OwnCount(v) = 0 /\ n = 0
    <3>1. w = 0
      BY <1>4, OwnWeightType
    <3> QED
      BY <1>2, <1>4, <3>1 DEF OwnPart, OwnCount
  <2>2. S * 0 = 0 /\ B * 0 = 0 /\ (2 * S) * 0 = 0
    BY <1>1
  <2> QED
    BY <2>1, <2>2
<1> QED
  BY <1>3, <1>4

\* A quotient of the sum of two parts.
LEMMA QuotientOfSum ==
  ASSUME NEW S \in Nat \ {0}, NEW B \in Nat,
         NEW r \in Nat, NEW n \in Nat, NEW c \in Nat,
         NEW s \in Nat, NEW m \in Nat, NEW e \in Nat,
         S * r <= B * n + (2 * S) * c, B * n <= S * r + (2 * S) * c,
         S * s <= B * m + (2 * S) * e, B * m <= S * s + (2 * S) * e
  PROVE  /\ (B * (n + m)) \div S \in Int
         /\ r + s <= (B * (n + m)) \div S + (2 * (c + e) + 1)
         /\ (B * (n + m)) \div S <= r + s + (2 * (c + e) + 1)
<1> DEFINE a == B * (n + m)
           q == a \div S
           sr == S * r   ss == S * s   bn == B * n   bm == B * m
           tc == (2 * S) * c   te == (2 * S) * e
           x == r + s - q
           y == 2 * (c + e)
           sx == S * x   sy == S * y
           sq == S * q
<1>1. a \in Nat /\ a = bn + bm
  OBVIOUS
<1>2. q \in Int /\ sq <= a /\ a < sq + S
  <2> HIDE DEF a
  <2>1. q \in Int /\ a = S * q + (a % S) /\ a % S \in 0..(S - 1)
    BY <1>1
  <2> QED
    BY <1>1, <2>1
<1>3. x \in Int /\ y \in Int
  BY <1>2
<1>4. sx = sr + ss - sq
  <2> HIDE DEF q
  <2>1. S * (r + s - q) = S * r + S * s - S * q
    BY <1>2
  <2> QED
    BY <2>1
<1>5. sy = tc + te
  OBVIOUS
<1>6. sr <= bn + tc /\ bn <= sr + tc /\ ss <= bm + te /\ bm <= ss + te
  OBVIOUS
<1>7. /\ sr \in Int /\ ss \in Int /\ bn \in Int /\ bm \in Int /\ tc \in Int /\ te \in Int
      /\ sx \in Int /\ sy \in Int /\ sq \in Int
  <2> HIDE DEF q
  <2> QED
    BY <1>2
<1>8. sx < sy + S /\ -sy <= sx + S
  <2> HIDE DEF a, q, sr, ss, bn, bm, tc, te, x, y, sx, sy, sq
  <2> QED
    BY <1>1, <1>2, <1>4, <1>5, <1>6, <1>7
<1>9. x < y + 1 /\ -(y + 1) <= x
  <2> HIDE DEF x, y
  <2>1. ASSUME x >= y + 1 PROVE FALSE
    <3>1. S * x >= S * (y + 1) /\ S * (y + 1) = S * y + S
      BY <1>3, <2>1
    <3> QED
      BY <1>3, <1>7, <1>8, <3>1
  <2>2. ASSUME x < -(y + 1) PROVE FALSE
    <3>1. S * x < S * (-(y + 1)) /\ S * (-(y + 1)) = -(S * y) - S
      BY <1>3, <2>2
    <3> QED
      BY <1>3, <1>7, <1>8, <3>1
  <2> QED
    BY <1>3, <2>1, <2>2
<1> HIDE DEF q, y
<1>10. q = (B * (n + m)) \div S /\ y = 2 * (c + e)
  BY DEF q, y
<1> QED
  BY <1>2, <1>3, <1>9, <1>10

\* What comes from v is the power of the shares that stand for the option, to
\* two units for each power and one for the division.
LEMMA ValidatorError ==
  ASSUME IInv, NEW v \in DOMAIN valsByAddr, NEW o \in VoteOption
  PROVE  /\ ResultAt(v, o) \in Nat /\ CountAt(v) \in Nat /\ BallotPower(v, o) \in Int
         /\ ResultAt(v, o) <= BallotPower(v, o) + (2 * CountAt(v) + 1)
         /\ BallotPower(v, o) <= ResultAt(v, o) + (2 * CountAt(v) + 1)
<1> PICK S, B : S = valsByAddr[v].DelegatorShares /\ B = valsByAddr[v].BondedTokens
  OBVIOUS
<1>1. S \in Nat \ {0} /\ B \in Nat
  BY DEF IInv, InputsOK, ValsOK, Validator
<1> PICK r, n, c : /\ r = SumFunctionOnSet(PartsAt(v, o), Voted)
                   /\ n = SumFunctionOnSet(VotedShares(v, o), Voted)
                   /\ c = SumFunctionOnSet(CountsAt(v), Voted)
  OBVIOUS
<1>2. /\ r \in Nat /\ n \in Nat /\ c \in Nat
      /\ S * r <= B * n + (2 * S) * c
      /\ B * n <= S * r + (2 * S) * c
  BY VotedError
<1> PICK m, s, e : m = OwnWeight(v, o) * Own(v) /\ s = OwnPart(v, o) /\ e = OwnCount(v)
  OBVIOUS
<1>3. /\ s \in Nat /\ m \in Nat /\ e \in Nat
      /\ S * s <= B * m + (2 * S) * e
      /\ B * m <= S * s + (2 * S) * e
  BY OwnError
<1>4. ResultAt(v, o) = r + s /\ CountAt(v) = c + e
  BY DEF ResultAt, CountAt
<1>5. BallotPower(v, o) = (B * (n + m)) \div S
  <2> DEFINE f == BallotShares(v, o)
  <2>1. DOMAIN f = Pairs
    BY DEF BallotShares
  <2>2. f = [ad \in Delegated(delegsByAddr) |->
               IF ad[2].validator = v
               THEN ad[2].shares * Lookup(BallotOf(ad[1], v), o, 0) ELSE 0]
    BY DEF BallotShares, Pairs
  <2>3. BallotPower(v, o) = (B * SumFunction(f)) \div S
    BY <2>2 DEF BallotPower
  <2> HIDE DEF f
  <2>4. SumFunction(f) = SumFunctionOnSet(f, Pairs)
    BY <2>1 DEF SumFunction
  <2>5. SumFunctionOnSet(f, Pairs) = n + m
    BY SharesSplit DEF f
  <2> QED
    BY <2>3, <2>4, <2>5
<1>6. /\ (B * (n + m)) \div S \in Int
      /\ r + s <= (B * (n + m)) \div S + (2 * (c + e) + 1)
      /\ (B * (n + m)) \div S <= r + s + (2 * (c + e) + 1)
  BY <1>1, <1>2, <1>3, QuotientOfSum
<1>7. r + s \in Nat /\ c + e \in Nat
  BY <1>2, <1>3
<1> QED
  BY <1>4, <1>5, <1>6, <1>7

\* What was counted is what was counted for each validator.
LEMMA AllValidators ==
  ASSUME IInv, NEW o \in VoteOption, pc \in {"validators", "printed", "panic"}, todo = {}
  PROVE  LET V == DOMAIN valsByAddr
         IN  /\ results[o] = SumFunctionOnSet([v \in V |-> ResultAt(v, o)], V)
             /\ counted = SumFunctionOnSet([v \in V |-> CountAt(v)], V)
<1> DEFINE V == DOMAIN valsByAddr
           at == [ad \in Voted |-> ad[2].validator]
           f == PartOf(o)
           h == [v \in V |-> PartsAt(v, o)]
           g == [v \in V |-> SumFunctionOnSet(PartsAt(v, o), Voted)]
           one == [ad \in Voted |-> 1]
           ch == [v \in V |-> CountsAt(v)]
           cg == [v \in V |-> SumFunctionOnSet(CountsAt(v), Voted)]
           own == [v \in V |-> OwnPart(v, o)]
           ownf == OwnPartOf(o)
           oc == [v \in V |-> OwnCount(v)]
           onev == [v \in Voting |-> 1]
           res == [v \in V |-> ResultAt(v, o)]
           cnt == [v \in V |-> CountAt(v)]
<1>1. IsFiniteSet(V) /\ IsFiniteSet(Voted) /\ IsFiniteSet(Voting) /\ Voting \in SUBSET V
  BY TermTypes DEF IInv, InputsOK, ValsOK
<1>2. \A ad \in Voted : f[ad] \in Int /\ at[ad] \in V
  BY TermTypes DEF IInv, Voted
<1>3. \A ad \in Voted : at[ad] = ad[2].validator
  OBVIOUS
<1>4. /\ \A ad \in Voted : h[at[ad]][ad] = f[ad]
      /\ \A ad \in Voted : ch[at[ad]][ad] = one[ad]
  BY <1>2 DEF PartsAt, CountsAt
<1>5. /\ \A v \in V : \A ad \in Voted : at[ad] # v => h[v][ad] = 0
      /\ \A v \in V : \A ad \in Voted : at[ad] # v => ch[v][ad] = 0
  BY <1>3 DEF PartsAt, CountsAt
<1>6. /\ \A v \in V : g[v] = SumFunctionOnSet(h[v], Voted)
      /\ \A v \in V : cg[v] = SumFunctionOnSet(ch[v], Voted)
  OBVIOUS
<1>7. \A ad \in Voted : one[ad] = 1
  OBVIOUS
<1>8. \A ad \in Voted : one[ad] \in Int /\ at[ad] \in V
  BY <1>2
<1>9. \A v \in Voting : /\ ownf[v] \in Int /\ own[v] = ownf[v]
                        /\ onev[v] \in Int /\ oc[v] = onev[v] /\ onev[v] = 1
  <2> TAKE v \in Voting
  <2>1. ownf[v] \in Int
    BY OwnTypes DEF IInv
  <2>2. v \in V
    BY <1>1
  <2> QED
    BY <2>1, <2>2 DEF OwnPart, OwnCount
<1>10. \A v \in V \ Voting : own[v] = 0 /\ oc[v] = 0
  BY DEF OwnPart, OwnCount
<1>11. \A v \in V : SumFunctionOnSet(PartsAt(v, o), Voted) \in Int
                    /\ SumFunctionOnSet(CountsAt(v), Voted) \in Int
  <2> TAKE v \in V
  <2> PICK r, c, n : /\ r = SumFunctionOnSet(PartsAt(v, o), Voted)
                     /\ c = SumFunctionOnSet(CountsAt(v), Voted)
                     /\ n = SumFunctionOnSet(VotedShares(v, o), Voted)
    OBVIOUS
  <2>1. r \in Nat /\ c \in Nat
    BY VotedError
  <2> QED
    BY <2>1
<1>12. \A v \in V : OwnPart(v, o) \in Int /\ OwnCount(v) \in Int
  <2> TAKE v \in V
  <2> PICK n : n = OwnWeight(v, o) * Own(v)
    OBVIOUS
  <2> QED
    BY OwnError
<1>13. /\ \A v \in V : g[v] \in Int /\ own[v] \in Int /\ res[v] = g[v] + own[v]
       /\ \A v \in V : cg[v] \in Int /\ oc[v] \in Int /\ cnt[v] = cg[v] + oc[v]
  BY <1>11, <1>12 DEF ResultAt, CountAt
<1> HIDE DEF V, at, f, h, g, one, ch, cg, own, ownf, oc, onev, res, cnt
<1>14. SumFunctionOnSet(g, V) = SumFunctionOnSet(f, Voted)
  <2>1. \A ad \in Voted : h[at[ad]][ad] = f[ad]
    BY <1>4
  <2>2. \A v \in V : \A ad \in Voted : at[ad] # v => h[v][ad] = 0
    BY <1>5
  <2>3. \A v \in V : g[v] = SumFunctionOnSet(h[v], Voted)
    BY <1>6
  <2> QED
    <3>1. IsFiniteSet(V) /\ IsFiniteSet(Voted)
      BY <1>1
    <3>2. Groups(f, Voted, at, h, g, V)
      BY <1>2, <2>1, <2>2, <2>3 DEF Groups
    <3> QED
      BY <3>1, <3>2, SumGroups
<1>15. SumFunctionOnSet(cg, V) = SumFunctionOnSet(one, Voted)
  <2>1. \A ad \in Voted : ch[at[ad]][ad] = one[ad]
    BY <1>4
  <2>2. \A v \in V : \A ad \in Voted : at[ad] # v => ch[v][ad] = 0
    BY <1>5
  <2>3. \A v \in V : cg[v] = SumFunctionOnSet(ch[v], Voted)
    BY <1>6
  <2> QED
    <3>1. IsFiniteSet(V) /\ IsFiniteSet(Voted)
      BY <1>1
    <3>2. Groups(one, Voted, at, ch, cg, V)
      BY <1>8, <2>1, <2>2, <2>3 DEF Groups
    <3> QED
      BY <3>1, <3>2, SumGroups
<1>16. SumFunctionOnSet(own, V) = SumFunctionOnSet(ownf, Voting)
  BY <1>1, <1>9, <1>10, SumPart
<1>17. SumFunctionOnSet(oc, V) = SumFunctionOnSet(onev, Voting)
  BY <1>1, <1>9, <1>10, SumPart
<1>18. /\ SumFunctionOnSet(one, Voted) = Cardinality(Voted)
       /\ SumFunctionOnSet(onev, Voting) = Cardinality(Voting)
  <2>1. SumFunctionOnSet(one, Voted) = 1 * Cardinality(Voted)
    BY <1>1, <1>7, SumConstant
  <2>2. SumFunctionOnSet(onev, Voting) = 1 * Cardinality(Voting)
    BY <1>1, <1>9, SumConstant
  <2>3. Cardinality(Voted) \in Nat /\ Cardinality(Voting) \in Nat
    BY <1>1, FS_CardinalityType
  <2> QED
    BY <2>1, <2>2, <2>3
<1>19. /\ SumFunctionOnSet(res, V) = SumFunctionOnSet(g, V) + SumFunctionOnSet(own, V)
       /\ SumFunctionOnSet(cnt, V) = SumFunctionOnSet(cg, V) + SumFunctionOnSet(oc, V)
  <2>1. SumFunctionOnSet(res, V) = SumFunctionOnSet(g, V) + SumFunctionOnSet(own, V)
    BY <1>1, <1>13, SumPlus
  <2>2. SumFunctionOnSet(cnt, V) = SumFunctionOnSet(cg, V) + SumFunctionOnSet(oc, V)
    BY <1>1, <1>13, SumPlus
  <2> QED
    BY <2>1, <2>2
<1>20. /\ results[o] = SumFunctionOnSet(f, Voted) + SumFunctionOnSet(ownf, Voting)
       /\ counted = Cardinality(Voted) + Cardinality(Voting)
  BY AllCounted DEF f, ownf
<1>21. /\ results[o] = SumFunctionOnSet(res, V)
       /\ counted = SumFunctionOnSet(cnt, V)
  BY <1>14, <1>15, <1>16, <1>17, <1>18, <1>19, <1>20
<1> QED
  BY <1>21 DEF res, cnt, V

\* A share is counted once, for the vote of its delegator if it voted and else
\* for that of its validator, whatever the snapshot and the order of the maps.
THEOREM EffectiveCorrect == Spec => []EffectiveBallots
<1>1. IInv => EffectiveBallots
  <2> SUFFICES ASSUME IInv, pc \in {"printed", "panic"}, NEW o \in VoteOption
               PROVE  LET exact == SumFunction([v \in DOMAIN valsByAddr |-> BallotPower(v, o)])
                          slack == 2 * counted + Cardinality(DOMAIN valsByAddr)
                      IN  results[o] - exact \in -slack..slack
    BY DEF EffectiveBallots
  <2> DEFINE V == DOMAIN valsByAddr
             res == [v \in V |-> ResultAt(v, o)]
             cnt == [v \in V |-> CountAt(v)]
             pow == [v \in V |-> BallotPower(v, o)]
             one == [v \in V |-> 1]
             err == [v \in V |-> 2 * cnt[v] + 1]
             two == [v \in V |-> 2 * cnt[v]]
  <2>1. IsFiniteSet(V) /\ todo = {}
    BY DEF IInv, InputsOK, ValsOK, Control
  <2>2. /\ results[o] = SumFunctionOnSet(res, V)
        /\ counted = SumFunctionOnSet(cnt, V)
    BY <2>1, AllValidators
  <2>3. \A v \in V : /\ res[v] \in Int /\ cnt[v] \in Int /\ pow[v] \in Int
                     /\ one[v] = 1 /\ one[v] \in Int
                     /\ two[v] = 2 * cnt[v] /\ two[v] \in Int
                     /\ err[v] = two[v] + one[v] /\ err[v] \in Int
    BY ValidatorError
  <2>4. \A v \in V : res[v] <= pow[v] + err[v] /\ pow[v] <= res[v] + err[v]
    BY ValidatorError
  <2>5. DOMAIN pow = V
    OBVIOUS
  <2> HIDE DEF V, res, cnt, pow, one, err, two
  <2>6. SumFunctionOnSet(err, V) = 2 * counted + Cardinality(V)
    <3>1. SumFunctionOnSet(one, V) = 1 * Cardinality(V)
      BY <2>1, <2>3, SumConstant
    <3>2. SumFunctionOnSet(two, V) = 2 * SumFunctionOnSet(cnt, V)
      BY <2>1, <2>3, SumScale
    <3>3. SumFunctionOnSet(err, V) = SumFunctionOnSet(two, V) + SumFunctionOnSet(one, V)
      BY <2>1, <2>3, SumPlus
    <3>4. Cardinality(V) \in Nat
      BY <2>1, FS_CardinalityType
    <3> QED
      BY <2>2, <3>1, <3>2, <3>3, <3>4
  <2>7. /\ SumFunctionOnSet(res, V) \in Int /\ SumFunctionOnSet(pow, V) \in Int
        /\ SumFunctionOnSet(err, V) \in Int
    <3>1. SumFunctionOnSet(res, V) \in Int
      BY <2>1, <2>3, SumInt
    <3>2. SumFunctionOnSet(pow, V) \in Int
      BY <2>1, <2>3, SumInt
    <3>3. SumFunctionOnSet(err, V) \in Int
      BY <2>1, <2>3, SumInt
    <3> QED
      BY <3>1, <3>2, <3>3
  <2>8. SumFunctionOnSet(res, V) <= SumFunctionOnSet(pow, V) + SumFunctionOnSet(err, V)
    <3>1. \A v \in V : res[v] \in Int /\ pow[v] \in Int /\ err[v] \in Int
      BY <2>3
    <3>2. \A v \in V : 1 * res[v] <= 1 * pow[v] + 1 * err[v]
      BY <2>3, <2>4
    <3>3. 1 * SumFunctionOnSet(res, V)
            <= 1 * SumFunctionOnSet(pow, V) + 1 * SumFunctionOnSet(err, V)
      BY <2>1, <3>1, <3>2, SumLinear
    <3> QED
      BY <2>7, <3>3
  <2>9. SumFunctionOnSet(pow, V) <= SumFunctionOnSet(res, V) + SumFunctionOnSet(err, V)
    <3>1. \A v \in V : pow[v] \in Int /\ res[v] \in Int /\ err[v] \in Int
      BY <2>3
    <3>2. \A v \in V : 1 * pow[v] <= 1 * res[v] + 1 * err[v]
      BY <2>3, <2>4
    <3>3. 1 * SumFunctionOnSet(pow, V)
            <= 1 * SumFunctionOnSet(res, V) + 1 * SumFunctionOnSet(err, V)
      BY <2>1, <3>1, <3>2, SumLinear
    <3> QED
      BY <2>7, <3>3
  <2>10. SumFunction(pow) = SumFunctionOnSet(pow, V)
    BY <2>5 DEF SumFunction
  <2> PICK x, y, z : /\ x = SumFunctionOnSet(res, V) /\ y = SumFunctionOnSet(pow, V)
                     /\ z = SumFunctionOnSet(err, V)
    OBVIOUS
  <2>11. x - y \in -z..z
    BY <2>7, <2>8, <2>9
  <2>12. results[o] - SumFunction(pow) \in -(2 * counted + Cardinality(V))..(2 * counted + Cardinality(V))
    BY <2>2, <2>6, <2>10, <2>11
  <2> QED
    BY <2>12 DEF pow, V
<1> QED
  BY <1>1, Invariance, PTL
=============================================================================
