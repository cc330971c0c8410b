-------------------------- MODULE TallyGenesisProofs --------------------------
(***************************************************************************)
(* The properties of TallyGenesis for any chain and any amounts that       *)
(* satisfy the assumptions.                                                *)
(*                                                                         *)
(* The invariant says how far each loop has come: what every address was   *)
(* paid, staked and delegated is a function of the step, of i and of j, so *)
(* that every balance is known, and no payment fails.  The sums over all   *)
(* addresses move by what one step pays (SnapshotProofs).                       *)
(***************************************************************************)
EXTENDS TallyGenesis, SnapshotProofs

\* The flags whose counts are natural numbers: no other run gets past them.
CountedFlags == {f \in FlagSets : f.numVals >= 0 /\ f.numDels >= 0 /\ f.numGovs >= 0}
Typed == TypeOK /\ flags \in CountedFlags

\* The command has not failed.
Going == step \notin {"error", "panic"}

AfterFund == {"validators", "bond", "governors", "delegators", "propose", "vote",
              "export", "exported", "shrunk", "shrinkPanic"}
AfterBond == AfterFund \ {"validators", "bond"}
AfterVote == {"export", "exported", "shrunk", "shrinkPanic"}

\* What an address was paid, and what it staked, so far.
Paid(a) == IF step \in AfterFund \/ (step = "fund" /\ a < i) THEN Payment(a) ELSE 0
Staked(a) == IF a \in DOMAIN tokens THEN OwnStake(a) ELSE 0

\* How many delegations an address has made so far: k is its position among
\* the governors or the delegators, which are dealt with at the step loop.
DealtIn(loop, done, k) ==
  IF step = loop THEN IF k < i THEN NumDelegsPerDelegator ELSE IF k = i THEN j ELSE 0
  ELSE IF step \in done THEN NumDelegsPerDelegator ELSE 0
Dealt(a) ==
  IF a < flags.numVals THEN 0
  ELSE IF a < GovAddr(0)
       THEN DealtIn("delegators", AfterBond \ {"governors"}, a - DelAddr(0))
       ELSE DealtIn("governors", AfterBond, a - GovAddr(0))

-----------------------------------------------------------------------------
(* The parts of the invariant.                                             *)

\* How many iterations a step has.
Iterations ==
  CASE step = "fund"       -> numAddrs
    [] step = "validators" -> flags.numVals
    [] step = "governors"  -> flags.numGovs
    [] step = "delegators" -> flags.numDels
    [] step = "vote"       -> NumVoters
    [] OTHER               -> 0

Control ==
  /\ i <= Iterations
  /\ j \in 0 .. NumDelegsPerDelegator - 1
  /\ j # 0 => step \in {"governors", "delegators"} /\ i < Iterations
  /\ step # "flags" => flags.numVals >= 1

Amounts ==
  /\ \A a \in addrs :
       /\ Len(delegations[a]) = Dealt(a)
       /\ balances[a] = Paid(a) - Staked(a) - delAmt * Dealt(a)
                          - (IF a = 1 THEN deposit ELSE 0)
  /\ module = IF step = "flags" THEN 0
              ELSE IF step = "fund"
              THEN IF i = 0 THEN totalAddrAmt + nodeAmt ELSE AddrAmt * (numAddrs + 1 - i)
              ELSE AddrAmt
  /\ deposit = IF step \in {"vote"} \cup AfterVote THEN MinDeposit ELSE 0
  /\ DOMAIN tokens = IF step \in {"flags", "fund"} THEN {}
                     ELSE IF step = "validators" THEN 0 .. i - 1
                     ELSE valAddrs

Balance ==
  module + SumFunction(balances) + deposit + SumFunction(tokens)
    = IF step = "flags" THEN 0 ELSE totalAddrAmt + nodeAmt

\* The turns of validator v among the first n.
Turns(n, v) == {k \in 0 .. n - 1 : k % flags.numVals = v}

Rounds ==
  /\ \A v \in DOMAIN tokens :
       tokens[v] = OwnStake(v) + delAmt * Cardinality(Turns(Made, v))
  /\ valIdx = IF step = "flags" THEN 0 ELSE Made % flags.numVals

Polled ==
  /\ DOMAIN votes = IF step = "vote" THEN DelAddr(0) .. DelAddr(0) + i - 1
                    ELSE IF step \in AfterVote THEN DelAddr(0) .. numAddrs - 1
                    ELSE {}
  /\ step \in {"exported", "shrunk"} =>
       /\ \A k \in DOMAIN genesisVotes :
            /\ genesisVotes[k].voter \in DOMAIN votes
            /\ votes[genesisVotes[k].voter] = genesisVotes[k].option
       /\ \A k, l \in DOMAIN genesisVotes :
            k # l => genesisVotes[k].voter # genesisVotes[l].voter
  /\ step = "exported" =>
       {genesisVotes[k].voter : k \in DOMAIN genesisVotes} = DOMAIN votes

Bonded ==
  /\ DOMAIN lastPower # {} <=> step \in AfterBond
  /\ step \in AfterBond /\ flags.numVals <= MaxValidators => DOMAIN lastPower = valAddrs

\* What is left of this when the program stops.
Power ==
  DOMAIN lastPower # {} =>
    /\ DOMAIN tokens = valAddrs
    /\ 0 \in DOMAIN lastPower
    /\ lastPower[0] = nodeAmt
    /\ tokens[0] >= nodeAmt
    /\ \A v \in DOMAIN lastPower : lastPower[v] <= tokens[v]
    /\ SumFunction(tokens) < nodeAmt + totalAddrAmt

\* What the flags are when the command panicked, or came this far.
RightFlags ==
  /\ step = "panic" => WrongFlags
  /\ step \notin {"flags", "error", "panic"} =>
       flags.nodeConsPubkey # "malformed" /\ flags.nodeAddr # "malformed"
  /\ step \in {"vote", "export", "exported", "shrunk"} => numAddrs # 1

IInv ==
  /\ Typed
  /\ Power
  /\ RightFlags
  /\ Going => Control /\ Amounts /\ Balance /\ Rounds /\ Polled /\ Bonded
-----------------------------------------------------------------------------
(* Numbers.                                                                *)

LEMMA Sized ==
  ASSUME flags \in CountedFlags
  PROVE  /\ flags.numVals \in Nat /\ flags.numDels \in Nat /\ flags.numGovs \in Nat
         /\ numAddrs \in Nat /\ numAddrs = flags.numVals + flags.numDels + flags.numGovs
         /\ IsFiniteSet(addrs) /\ Cardinality(addrs) = numAddrs
         /\ totalAddrAmt \in Nat /\ nodeAmt \in Nat
         /\ \A a : Payment(a) \in Nat /\ OwnStake(a) \in Nat
<1>1. flags.numVals \in Nat /\ flags.numDels \in Nat /\ flags.numGovs \in Nat
  BY TallyGenesisAssumption DEF CountedFlags
<1>2. numAddrs \in Nat /\ numAddrs = flags.numVals + flags.numDels + flags.numGovs
  BY <1>1 DEF numAddrs
<1>3. IsFiniteSet(addrs) /\ Cardinality(addrs) = numAddrs
  <2>1. 0 \in Int /\ numAddrs - 1 \in Int
    BY <1>2
  <2>2. IsFiniteSet(addrs)
        /\ Cardinality(addrs) = IF 0 > numAddrs - 1 THEN 0 ELSE numAddrs - 1 - 0 + 1
    BY <2>1, FS_Interval DEF addrs
  <2> QED
    BY <1>2, <2>2
<1>4. totalAddrAmt \in Nat /\ nodeAmt \in Nat
  BY <1>2, TallyGenesisAssumption DEF totalAddrAmt, nodeAmt
<1>5. \A a : Payment(a) \in Nat /\ OwnStake(a) \in Nat
  BY <1>4, TallyGenesisAssumption DEF Payment, OwnStake
<1> QED
  BY <1>1, <1>2, <1>3, <1>4, <1>5

\* What is split over the delegations of a delegator is at most what it has.
LEMMA Split ==
  /\ delAmt \in Nat
  /\ delAmt * NumDelegsPerDelegator <= DelegatedAmt
  /\ \A n \in 0 .. NumDelegsPerDelegator - 1 :
       /\ delAmt * n \in Nat
       /\ delAmt * (n + 1) = delAmt * n + delAmt
       /\ delAmt * n + delAmt <= DelegatedAmt
<1>1. delAmt \in Nat /\ delAmt * NumDelegsPerDelegator <= DelegatedAmt
  BY TallyGenesisAssumption DEF delAmt
<1>2. ASSUME NEW n \in 0 .. NumDelegsPerDelegator - 1
      PROVE  /\ delAmt * n \in Nat
             /\ delAmt * (n + 1) = delAmt * n + delAmt
             /\ delAmt * n + delAmt <= DelegatedAmt
  <2>1. delAmt * n \in Nat /\ delAmt * (n + 1) = delAmt * n + delAmt
    BY <1>1
  <2>2. delAmt * (n + 1) <= delAmt * NumDelegsPerDelegator
    BY <1>1, TallyGenesisAssumption
  <2> QED
    BY <1>1, <2>1, <2>2, TallyGenesisAssumption
<1> QED
  BY <1>1, <1>2

LEMMA Remainder ==
  ASSUME NEW m \in Nat, NEW n \in Nat \ {0}
  PROVE  m % n \in 0 .. n - 1 /\ m \div n \in Nat /\ m = n * (m \div n) + (m % n)
OBVIOUS

LEMMA RemainderUnique ==
  ASSUME NEW n \in Nat \ {0}, NEW q \in Nat, NEW r \in 0 .. n - 1
  PROVE  (n * q + r) % n = r
<1> DEFINE m == n * q + r
           k == m % n
           p == m \div n
<1>1. m \in Nat /\ k \in 0 .. n - 1 /\ p \in Nat /\ m = n * p + k
  <2>1. m \in Nat
    OBVIOUS
  <2> HIDE DEF m
  <2> QED
    BY <2>1, Remainder
<1> HIDE DEF k, p
<1>2. n * (p - q) = r - k /\ -n < r - k /\ r - k < n
  BY <1>1
<1>3. p = q
  <2>1. CASE p - q >= 1
    <3>1. n * (p - q) >= n
      BY <1>1, <2>1
    <3> QED
      BY <1>1, <1>2, <3>1
  <2>2. CASE p - q <= -1
    <3>1. n * (p - q) <= -n
      BY <1>1, <2>2
    <3> QED
      BY <1>1, <1>2, <3>1
  <2> QED
    BY <1>1, <2>1, <2>2
<1> QED
  BY <1>1, <1>3 DEF k

LEMMA NextRemainder ==
  ASSUME NEW m \in Nat, NEW n \in Nat \ {0}
  PROVE  (m + 1) % n = IF (m % n) + 1 >= n THEN 0 ELSE (m % n) + 1
<1> DEFINE r == m % n
           q == m \div n
<1>1. r \in 0 .. n - 1 /\ q \in Nat /\ m = n * q + r
  BY Remainder
<1> HIDE DEF r, q
<1>2. CASE r + 1 >= n
  <2>1. n * (q + 1) = n * q + n
    BY <1>1
  <2>2. m + 1 = n * (q + 1) + 0 /\ q + 1 \in Nat /\ 0 \in 0 .. n - 1
    BY <1>1, <1>2, <2>1
  <2>3. (n * (q + 1) + 0) % n = 0
    BY <2>2, RemainderUnique
  <2> QED
    BY <1>2, <2>2, <2>3 DEF r
<1>3. CASE r + 1 < n
  <2>1. m + 1 = n * q + (r + 1) /\ r + 1 \in 0 .. n - 1
    BY <1>1, <1>3
  <2>2. (n * q + (r + 1)) % n = r + 1
    BY <1>1, <2>1, RemainderUnique
  <2> QED
    BY <1>1, <1>3, <2>1, <2>2 DEF r
<1> QED
  BY <1>1, <1>2, <1>3

\* The next in turn.
LEMMA NextInTurn ==
  ASSUME NEW m \in Nat, flags.numVals \in Nat \ {0}
  PROVE  /\ m % flags.numVals \in valAddrs
         /\ (m + 1) % flags.numVals = NextValidator(m % flags.numVals)
BY Remainder, NextRemainder DEF NextValidator, valAddrs

\* One more turn.
LEMMA OneMoreTurn ==
  ASSUME NEW m \in Nat, NEW v, flags.numVals \in Nat \ {0}
  PROVE  /\ Cardinality(Turns(m, v)) \in Nat
         /\ Cardinality(Turns(m + 1, v))
              = Cardinality(Turns(m, v)) + (IF m % flags.numVals = v THEN 1 ELSE 0)
<1>1. IsFiniteSet(Turns(m, v)) /\ Cardinality(Turns(m, v)) \in Nat
  <2>1. IsFiniteSet(0 .. m - 1)
    BY FS_Interval
  <2>2. Turns(m, v) \subseteq 0 .. m - 1
    BY DEF Turns
  <2> QED
    BY <2>1, <2>2, FS_Subset, FS_CardinalityType
<1>2. CASE m % flags.numVals = v
  <2>1. Turns(m + 1, v) = Turns(m, v) \cup {m} /\ m \notin Turns(m, v)
    BY <1>2 DEF Turns
  <2> QED
    BY <1>1, <1>2, <2>1, FS_AddElement
<1>3. CASE m % flags.numVals # v
  <2>1. Turns(m + 1, v) = Turns(m, v)
    BY <1>3 DEF Turns
  <2> QED
    BY <1>1, <1>3, <2>1
<1> QED
  BY <1>2, <1>3

-----------------------------------------------------------------------------
(* What every step keeps, and what is known before one.                    *)

LEMMA SameFlags ==
  ASSUME [Next]_vars
  PROVE  /\ flags' = flags /\ numAddrs' = numAddrs
         /\ addrs' = addrs /\ valAddrs' = valAddrs
         /\ totalAddrAmt' = totalAddrAmt /\ nodeAmt' = nodeAmt
         /\ NumVoters' = NumVoters
<1>1. flags' = flags
  BY DEF Next, vars, RefuseFlags, MintCoins, FundAddress, EndLoop, CreateValidator,
         BondValidators, DelegateOfGovernor, DelegateOfDelegator, Delegate,
         SubmitProposal, Vote, Panic, Export, Fail, ShrinkVotes, ShrinkVotesPanics, Ended
<1> QED
  BY <1>1 DEF numAddrs, addrs, valAddrs, totalAddrAmt, nodeAmt, NumVoters

LEMMA HasValidators ==
  ASSUME step = "flags", MintCoins \/ Panic
  PROVE  ~(flags.numVals < 1)
BY DEF MintCoins, Panic, Panics, IsRefused

\* One step's delegation, of the address a, the k-th of them.
LEMMA DelegatesOne ==
  ASSUME IInv, DelegateOfGovernor \/ DelegateOfDelegator
  PROVE  \E a \in addrs :
           /\ Delegate(a)
           /\ a >= flags.numVals
           /\ \/ step = "governors" /\ i < flags.numGovs /\ a = GovAddr(i)
              \/ step = "delegators" /\ i < flags.numDels /\ a = DelAddr(i)
<1>1. Typed
  BY DEF IInv
<1>2. i \in Nat /\ flags.numVals \in Nat /\ flags.numDels \in Nat /\ flags.numGovs \in Nat
      /\ numAddrs = flags.numVals + flags.numDels + flags.numGovs
  BY <1>1, Sized DEF Typed, TypeOK
<1>3. CASE DelegateOfGovernor
  BY <1>2, <1>3 DEF DelegateOfGovernor, GovAddr, addrs
<1>4. CASE DelegateOfDelegator
  BY <1>2, <1>4 DEF DelegateOfDelegator, DelAddr, addrs
<1> QED
  BY <1>3, <1>4

\* Delegations are counted by a natural, the turn is one of the validators'.
LEMMA MadeType ==
  ASSUME Typed
  PROVE  Made \in Nat
<1>1. IsFiniteSet(addrs) /\ [a \in addrs |-> Len(delegations[a])] \in [addrs -> Nat]
  BY Sized DEF Typed, TypeOK
<1> QED
  BY <1>1, SumFunctionType DEF Made

LEMMA TurnType ==
  ASSUME IInv, Going, step # "flags"
  PROVE  flags.numVals \in Nat \ {0} /\ valIdx = Made % flags.numVals /\ valIdx \in valAddrs
<1>1. flags.numVals \in Nat \ {0} /\ Made \in Nat /\ valIdx = Made % flags.numVals
  BY Sized, MadeType DEF IInv, Control, Rounds, Typed, TypeOK
<1> QED
  BY <1>1, NextInTurn

-----------------------------------------------------------------------------
(* Types.                                                                  *)

\* The orders of a finite set are sequences of all its elements, each once.
LEMMA Orders ==
  ASSUME NEW S, IsFiniteSet(S), NEW order \in SetToSeqs(S)
  PROVE  /\ order \in Seq(S) /\ DOMAIN order = 1 .. Cardinality(S)
         /\ \A k, l \in DOMAIN order : k # l => order[k] # order[l]
         /\ {order[k] : k \in DOMAIN order} = S
<1> DEFINE D == 1 .. Cardinality(S)
<1>1. order \in [D -> S] /\ \A k, l \in D : k # l => order[k] # order[l]
  BY DEF SetToSeqs
<1>2. Cardinality(S) \in Nat
  BY FS_CardinalityType
<1>3. IsFiniteSet(D) /\ Cardinality(D) = Cardinality(S)
  <2>1. 1 \in Int /\ Cardinality(S) \in Int
    BY <1>2
  <2>2. IsFiniteSet(D) /\ Cardinality(D) = IF 1 > Cardinality(S) THEN 0 ELSE Cardinality(S) - 1 + 1
    BY <2>1, FS_Interval
  <2> QED
    BY <1>2, <2>2
<1>4. order \in Injection(D, S)
  BY <1>1 DEF Injection, IsInjective
<1>5. order \in Surjection(D, S)
  BY <1>3, <1>4, FS_Injection
<1> QED
  BY <1>1, <1>2, <1>5 DEF Surjection

LEMMA IsSeq ==
  ASSUME NEW R, NEW n \in Nat, NEW f \in [1 .. n -> R]
  PROVE  f \in Seq(R)
BY SeqDef

LEMMA Prefix ==
  ASSUME NEW R, NEW s \in Seq(R), NEW n \in 0 .. Len(s)
  PROVE  /\ SubSeq(s, 1, n) \in Seq(R) /\ Len(SubSeq(s, 1, n)) = n
         /\ \A k \in 1 .. n : SubSeq(s, 1, n)[k] = s[k]
<1>1. \A k \in 1 .. n : s[k] \in R
  OBVIOUS
<1> QED
  BY <1>1, SubSeqProperties

LEMMA TypeStep ==
  ASSUME IInv, [Next]_vars
  PROVE  Typed'
<1>1. Typed
  BY DEF IInv
<1>2. /\ flags.numVals \in Nat /\ flags.numDels \in Nat /\ flags.numGovs \in Nat
      /\ numAddrs = flags.numVals + flags.numDels + flags.numGovs
      /\ totalAddrAmt \in Nat /\ nodeAmt \in Nat
  BY <1>1, Sized DEF Typed, TypeOK
<1>3. flags' = flags /\ addrs' = addrs /\ valAddrs' = valAddrs
  BY SameFlags
<1>4. 0 \in 0 .. NumDelegsPerDelegator - 1
  BY TallyGenesisAssumption
<1>5. ASSUME UNCHANGED <<flags, valIdx, ledger, delegations, lastPower, votes, genesisVotes>>,
             step' \in Steps, i' \in Nat, j' = j
      PROVE  Typed'
  BY <1>1, <1>3, <1>5 DEF Typed, TypeOK, ledger
<1>6. CASE RefuseFlags \/ Panic \/ Fail \/ ShrinkVotesPanics \/ Ended
           \/ EndLoop("fund", numAddrs, "validators")
           \/ EndLoop("validators", flags.numVals, "bond")
           \/ EndLoop("governors", flags.numGovs, "delegators")
           \/ EndLoop("delegators", flags.numDels, "propose")
           \/ EndLoop("vote", NumVoters, "export") \/ UNCHANGED vars
  BY <1>1, <1>5, <1>6
     DEF Typed, TypeOK, RefuseFlags, Panic, Fail, ShrinkVotesPanics, Ended, EndLoop, vars, Steps
<1>7. CASE MintCoins
  BY <1>1, <1>2, <1>3, <1>7 DEF Typed, TypeOK, MintCoins, Steps
<1>8. CASE FundAddress
  <2>1. Payment(i) \in Nat /\ i \in addrs
    BY <1>1, <1>2, <1>8, Sized DEF Typed, TypeOK, FundAddress, Iterate, addrs
  <2> QED
    BY <1>1, <1>3, <1>8, <2>1 DEF Typed, TypeOK, FundAddress, Iterate
<1>9. CASE CreateValidator
  <2>1. OwnStake(i) \in Nat /\ i \in addrs /\ i \in valAddrs
    BY <1>1, <1>2, <1>9, Sized DEF Typed, TypeOK, CreateValidator, Iterate, addrs, valAddrs
  <2> QED
    BY <1>1, <1>3, <1>9, <2>1 DEF Typed, TypeOK, CreateValidator, Iterate, With
<1>10. CASE BondValidators
  <2>1. PICK B \in SUBSET valAddrs : lastPower' = [v \in B |-> tokens[v]]
    BY <1>10 DEF BondValidators
  <2>2. DOMAIN tokens = valAddrs
    BY <1>10 DEF BondValidators, IInv, Going, Amounts
  <2> QED
    BY <1>1, <1>3, <1>10, <2>1, <2>2 DEF Typed, TypeOK, BondValidators, ledger, Steps
<1>11. CASE DelegateOfGovernor \/ DelegateOfDelegator
  <2>1. PICK a \in addrs : Delegate(a)
    BY <1>11, DelegatesOne
  <2>2. valIdx \in valAddrs /\ delAmt \in Nat
    BY <1>11, TurnType, Split DEF DelegateOfGovernor, DelegateOfDelegator, Going
  <2>3. valIdx' \in Nat
    BY <1>1, <1>2, <2>1 DEF Typed, TypeOK, Delegate, NextValidator
  <2>4. i' \in Nat /\ j' \in 0 .. NumDelegsPerDelegator - 1
    <3>1. i \in Nat /\ j \in 0 .. NumDelegsPerDelegator - 1
          /\ NumDelegsPerDelegator \in Nat \ {0}
      BY <1>1, TallyGenesisAssumption DEF Typed, TypeOK
    <3>2. IF j + 1 < NumDelegsPerDelegator THEN j' = j + 1 /\ i' = i ELSE j' = 0 /\ i' = i + 1
      BY <2>1 DEF Delegate
    <3> QED
      BY <3>1, <3>2
  <2>5. balances' \in [addrs -> Nat]
    BY <1>1, <2>1, <2>2 DEF Typed, TypeOK, Delegate
  <2>6. DOMAIN tokens' \subseteq valAddrs /\ \A v \in DOMAIN tokens' : tokens'[v] \in Nat
    BY <1>1, <2>1, <2>2 DEF Typed, TypeOK, Delegate
  <2>7. delegations' \in [addrs -> Seq(valAddrs)]
    BY <1>1, <2>1, <2>2 DEF Typed, TypeOK, Delegate
  <2> QED
    BY <1>1, <1>3, <2>1, <2>3, <2>4, <2>5, <2>6, <2>7 DEF Typed, TypeOK, Delegate
<1>12. CASE SubmitProposal
  BY <1>1, <1>3, <1>12, TallyGenesisAssumption DEF Typed, TypeOK, SubmitProposal, Steps
<1>13. CASE Vote
  <2>1. DelAddr(i) \in addrs /\ (i % 3) + 1 \in 1 .. 3 /\ i + 1 \in Nat
    <3>1. i \in Nat /\ i < flags.numDels + flags.numGovs
      BY <1>1, <1>13 DEF Typed, TypeOK, Vote, Iterate, NumVoters
    <3>2. i % 3 \in 0 .. 3 - 1
      BY <3>1, Remainder
    <3> QED
      BY <1>2, <3>1, <3>2 DEF DelAddr, addrs
  <2> QED
    BY <1>1, <1>3, <1>13, <2>1 DEF Typed, TypeOK, Vote, Iterate, With, ledger
<1>14. CASE Export
  <2>1. PICK order \in SetToSeqs(DOMAIN votes) :
          genesisVotes' = [k \in DOMAIN order |-> [voter |-> order[k],
                                                   option |-> votes[order[k]]]]
    BY <1>14 DEF Export
  <2>2. IsFiniteSet(DOMAIN votes)
    BY <1>1, Sized, FS_Subset DEF Typed, TypeOK
  <2>3. Cardinality(DOMAIN votes) \in Nat /\ DOMAIN order = 1 .. Cardinality(DOMAIN votes)
        /\ \A k \in DOMAIN order : order[k] \in DOMAIN votes
    BY <2>2, Orders, FS_CardinalityType
  <2>4. genesisVotes' \in Seq([voter : addrs, option : 1 .. 3])
    <3>1. genesisVotes' \in [1 .. Cardinality(DOMAIN votes) -> [voter : addrs, option : 1 .. 3]]
      BY <1>1, <2>1, <2>3 DEF Typed, TypeOK
    <3> QED
      BY <2>3, <3>1, IsSeq
  <2> QED
    BY <1>1, <1>3, <1>14, <2>4 DEF Typed, TypeOK, Export, ledger, Steps
<1>15. CASE ShrinkVotes
  <2>1. PICK high \in 0 .. Len(genesisVotes) : genesisVotes' = SubSeq(genesisVotes, 1, high)
    BY <1>15 DEF ShrinkVotes
  <2>2. genesisVotes' \in Seq([voter : addrs, option : 1 .. 3])
    BY <1>1, <2>1, Prefix DEF Typed, TypeOK
  <2> QED
    BY <1>1, <1>3, <1>15, <2>2 DEF Typed, TypeOK, ShrinkVotes, ledger, Steps
<1> QED
  BY <1>6, <1>7, <1>8, <1>9, <1>10, <1>11, <1>12, <1>13, <1>14, <1>15 DEF Next

-----------------------------------------------------------------------------
(* Where the loops stand.                                                  *)

\* The steps that leave the money where it is.
Moves ==
  \/ EndLoop("fund", numAddrs, "validators")
  \/ EndLoop("validators", flags.numVals, "bond")
  \/ BondValidators
  \/ EndLoop("governors", flags.numGovs, "delegators")
  \/ EndLoop("delegators", flags.numDels, "propose")
  \/ Vote
  \/ EndLoop("vote", NumVoters, "export")
  \/ Export \/ ShrinkVotes \/ ShrinkVotesPanics
  \/ UNCHANGED vars

LEMMA GoingBefore ==
  ASSUME [Next]_vars, Going'
  PROVE  /\ Going
         /\ \/ MintCoins \/ FundAddress \/ CreateValidator
            \/ DelegateOfGovernor \/ DelegateOfDelegator \/ SubmitProposal \/ Moves
<1>1. ~(RefuseFlags \/ Panic \/ Fail)
  BY DEF Going, RefuseFlags, Panic, Fail
<1>2. Ended => UNCHANGED vars
  BY DEF Ended
<1>3. \/ MintCoins \/ FundAddress \/ CreateValidator
      \/ DelegateOfGovernor \/ DelegateOfDelegator \/ SubmitProposal \/ Moves
  BY <1>1, <1>2 DEF Next, Moves
<1>4. Going
  BY <1>3 DEF Going, MintCoins, FundAddress, CreateValidator, DelegateOfGovernor,
              DelegateOfDelegator, SubmitProposal, Moves, Iterate, EndLoop,
              BondValidators, Vote, Export, ShrinkVotes, ShrinkVotesPanics, vars
<1> QED
  BY <1>3, <1>4

LEMMA MovesUnchanged ==
  ASSUME Moves
  PROVE  UNCHANGED <<flags, j, valIdx, module, balances, deposit, tokens, delegations>>
BY DEF Moves, EndLoop, BondValidators, Vote, Iterate, Export, ShrinkVotes,
       ShrinkVotesPanics, vars, ledger

LEMMA MovesAlone ==
  ASSUME Moves, i \in Nat, j \in Nat
  PROVE  ~FundAddress /\ ~CreateValidator /\ ~DelegateOfGovernor /\ ~DelegateOfDelegator
<1>1. ASSUME Iterate("fund", numAddrs) \/ Iterate("validators", flags.numVals) PROVE FALSE
  BY <1>1 DEF Moves, Iterate, EndLoop, BondValidators, Vote, Export, ShrinkVotes,
     ShrinkVotesPanics, vars
<1>2. ASSUME (step = "governors" /\ i < flags.numGovs) \/ (step = "delegators" /\ i < flags.numDels),
             NEW a, Delegate(a)
      PROVE  FALSE
  <2>1. i' # i \/ j' # j
    BY <1>2 DEF Delegate
  <2> QED
    BY <1>2, <2>1 DEF Moves, Iterate, EndLoop, BondValidators, Vote, Export, ShrinkVotes,
       ShrinkVotesPanics, vars, Delegate
<1> QED
  BY <1>1, <1>2 DEF FundAddress, CreateValidator, DelegateOfGovernor, DelegateOfDelegator

LEMMA ControlStep ==
  ASSUME IInv, [Next]_vars, Going'
  PROVE  Control'
<1>1. Typed /\ Going /\ Control
  BY GoingBefore DEF IInv
<1>2. /\ flags.numVals \in Nat /\ flags.numDels \in Nat /\ flags.numGovs \in Nat
      /\ numAddrs \in Nat /\ NumVoters \in Nat /\ i \in Nat
  BY <1>1, Sized DEF Typed, TypeOK, NumVoters
<1>3. flags' = flags /\ numAddrs' = numAddrs /\ NumVoters' = NumVoters
  BY SameFlags
<1>4. NumDelegsPerDelegator \in Nat \ {0}
  BY TallyGenesisAssumption
<1>5. CASE MintCoins
  BY <1>1, <1>2, <1>3, <1>5, HasValidators DEF MintCoins, Control, Iterations
<1>6. CASE FundAddress \/ CreateValidator
  BY <1>1, <1>2, <1>3, <1>6 DEF FundAddress, CreateValidator, Iterate, Control, Iterations
<1>7. CASE DelegateOfGovernor \/ DelegateOfDelegator
  <2>1. /\ IF j + 1 < NumDelegsPerDelegator
           THEN j' = j + 1 /\ i' = i
           ELSE j' = 0 /\ i' = i + 1
        /\ step' = step /\ step \in {"governors", "delegators"} /\ i < Iterations
    BY <1>7 DEF DelegateOfGovernor, DelegateOfDelegator, Delegate, Iterations
  <2> QED
    BY <1>1, <1>2, <1>3, <1>4, <2>1 DEF Control, Iterations
<1>8. CASE SubmitProposal
  BY <1>1, <1>2, <1>3, <1>8 DEF SubmitProposal, Control, Iterations
<1>9. CASE Moves
  BY <1>1, <1>2, <1>3, <1>9
     DEF Moves, EndLoop, BondValidators, Vote, Iterate, Export, ShrinkVotes,
         ShrinkVotesPanics, vars, Control, Iterations
<1> QED
  BY <1>5, <1>6, <1>7, <1>8, <1>9, GoingBefore

-----------------------------------------------------------------------------
(* Who has what.                                                           *)

LEMMA DealtType ==
  ASSUME IInv, Going, NEW a \in addrs
  PROVE  Dealt(a) \in 0 .. NumDelegsPerDelegator
<1>1. j \in 0 .. NumDelegsPerDelegator - 1 /\ NumDelegsPerDelegator \in Nat
  BY TallyGenesisAssumption DEF IInv, Typed, TypeOK
<1> QED
  BY <1>1 DEF Dealt, DealtIn

\* An address has dealt one more after a delegation of its own, and no other has.
LEMMA DealtStep ==
  ASSUME IInv, [Next]_vars, Going', NEW a \in addrs
  PROVE  Dealt(a)' = Dealt(a)
                       + (IF \/ DelegateOfGovernor /\ a = GovAddr(i)
                             \/ DelegateOfDelegator /\ a = DelAddr(i)
                          THEN 1 ELSE 0)
<1>1. Typed /\ Going /\ Control
  BY GoingBefore DEF IInv
<1>2. /\ flags.numVals \in Nat /\ flags.numDels \in Nat /\ flags.numGovs \in Nat
      /\ numAddrs = flags.numVals + flags.numDels + flags.numGovs /\ i \in Nat /\ a \in Nat
      /\ NumDelegsPerDelegator \in Nat \ {0} /\ j \in 0 .. NumDelegsPerDelegator - 1
      /\ i' \in Int /\ j' \in Int
  BY <1>1, Sized, TypeStep, TallyGenesisAssumption DEF Typed, TypeOK, addrs
<1>3. flags' = flags
  BY SameFlags
<1>4. a < numAddrs /\ Dealt(a) \in Int
  BY <1>1, <1>2, DealtType DEF addrs
<1>5. CASE DelegateOfGovernor
  <2>1. step = "governors" /\ i < flags.numGovs /\ ~DelegateOfDelegator
      /\ step' = step /\ IF j + 1 < NumDelegsPerDelegator
                         THEN j' = j + 1 /\ i' = i
                         ELSE j' = 0 /\ i' = i + 1
    BY <1>5 DEF DelegateOfGovernor, DelegateOfDelegator, Delegate
  <2>2. Dealt(a)' = Dealt(a) + (IF a = GovAddr(i) THEN 1 ELSE 0)
    BY <1>2, <1>3, <1>4, <2>1 DEF Dealt, DealtIn, GovAddr, DelAddr, AfterBond, AfterFund
  <2> QED
    BY <1>5, <2>1, <2>2
<1>6. CASE DelegateOfDelegator
  <2>1. step = "delegators" /\ i < flags.numDels /\ ~DelegateOfGovernor
      /\ step' = step /\ IF j + 1 < NumDelegsPerDelegator
                         THEN j' = j + 1 /\ i' = i
                         ELSE j' = 0 /\ i' = i + 1
    BY <1>6 DEF DelegateOfGovernor, DelegateOfDelegator, Delegate
  <2>2. Dealt(a)' = Dealt(a) + (IF a = DelAddr(i) THEN 1 ELSE 0)
    BY <1>2, <1>3, <1>4, <2>1 DEF Dealt, DealtIn, GovAddr, DelAddr, AfterBond, AfterFund
  <2> QED
    BY <1>6, <2>1, <2>2
<1>7. CASE ~DelegateOfGovernor /\ ~DelegateOfDelegator
  <2>1. SUFFICES Dealt(a)' = Dealt(a)
    BY <1>4, <1>7
  <2>2. CASE MintCoins
    BY <1>1, <1>2, <1>3, <1>4, <2>2
       DEF MintCoins, Dealt, DealtIn, GovAddr, DelAddr, AfterBond, AfterFund
  <2>3. CASE FundAddress \/ CreateValidator
    BY <1>1, <1>2, <1>3, <1>4, <2>3
       DEF FundAddress, CreateValidator, Iterate, Dealt, DealtIn, GovAddr, DelAddr,
           AfterBond, AfterFund
  <2>4. CASE SubmitProposal
    BY <1>1, <1>2, <1>3, <1>4, <2>4
       DEF SubmitProposal, Dealt, DealtIn, GovAddr, DelAddr, AfterBond, AfterFund
  <2>5. CASE EndLoop("governors", flags.numGovs, "delegators")
    BY <1>1, <1>2, <1>3, <1>4, <2>5
       DEF EndLoop, Control, Iterations, Dealt, DealtIn, GovAddr, DelAddr, AfterBond, AfterFund
  <2>6. CASE EndLoop("delegators", flags.numDels, "propose")
    BY <1>1, <1>2, <1>3, <1>4, <2>6
       DEF EndLoop, Control, Iterations, Dealt, DealtIn, GovAddr, DelAddr, AfterBond, AfterFund
  <2>7. CASE \/ EndLoop("fund", numAddrs, "validators")
             \/ EndLoop("validators", flags.numVals, "bond")
             \/ BondValidators
    <3>1. step \in {"fund", "validators", "bond"} /\ j = 0
          /\ step' \in {"validators", "bond", "governors"}
          /\ (step' = "governors" => i' = i /\ i = 0) /\ j' = j
      BY <1>1, <1>2, <2>7 DEF EndLoop, BondValidators, Control, Iterations
    <3> QED
      BY <1>2, <1>3, <1>4, <3>1 DEF Dealt, DealtIn, GovAddr, DelAddr, AfterBond, AfterFund
  <2>8. CASE \/ Vote \/ EndLoop("vote", NumVoters, "export")
             \/ Export \/ ShrinkVotes \/ ShrinkVotesPanics
    <3>1. /\ step \in {"vote", "export", "exported", "shrunk"}
          /\ step' \in {"vote", "export", "exported", "shrunk", "shrinkPanic"}
      BY <2>8 DEF Vote, Iterate, EndLoop, Export, ShrinkVotes, ShrinkVotesPanics
    <3> QED
      BY <1>2, <1>3, <3>1 DEF Dealt, DealtIn, GovAddr, DelAddr, AfterBond, AfterFund
  <2>9. CASE UNCHANGED vars
    BY <1>3, <2>9 DEF vars, Dealt, DealtIn, GovAddr, DelAddr
  <2> QED
    BY <1>7, <2>2, <2>3, <2>4, <2>5, <2>6, <2>7, <2>8, <2>9, GoingBefore DEF Moves
<1> QED
  BY <1>5, <1>6, <1>7

\* What an address was paid, and what it staked, move with the payment of its own.
LEMMA PaidStep ==
  ASSUME IInv, [Next]_vars, Going', NEW a \in addrs
  PROVE  /\ Paid(a) \in Nat /\ Staked(a) \in Nat
         /\ Paid(a)' = Paid(a) + (IF FundAddress /\ a = i THEN Payment(a) ELSE 0)
         /\ Staked(a)' = Staked(a) + (IF CreateValidator /\ a = i THEN OwnStake(a) ELSE 0)
<1>1. Typed /\ Going /\ Control /\ Amounts
  BY GoingBefore DEF IInv
<1>2. /\ flags.numVals \in Nat /\ numAddrs \in Nat /\ i \in Nat /\ i' \in Int /\ a \in Nat
      /\ a < numAddrs /\ Payment(a) \in Nat /\ OwnStake(a) \in Nat
  <2>1. flags \in CountedFlags /\ i \in Nat
    BY <1>1 DEF Typed, TypeOK
  <2>2. i' \in Int
    BY TypeStep DEF Typed, TypeOK
  <2>3. flags.numVals \in Nat /\ numAddrs \in Nat /\ Payment(a) \in Nat /\ OwnStake(a) \in Nat
    BY <2>1, Sized
  <2> QED
    BY <2>1, <2>2, <2>3 DEF addrs
<1>3. flags' = flags /\ numAddrs' = numAddrs /\ Payment(a)' = Payment(a)
      /\ OwnStake(a)' = OwnStake(a)
  BY SameFlags DEF Payment, OwnStake
<1>4. Paid(a) \in Nat /\ Staked(a) \in Nat
  BY <1>2 DEF Paid, Staked
<1>5. CASE FundAddress
  <2>1. step = "fund" /\ step' = "fund" /\ i' = i + 1 /\ tokens' = tokens /\ ~CreateValidator
    BY <1>5 DEF FundAddress, CreateValidator, Iterate, ledger
  <2> QED
    BY <1>2, <1>3, <1>4, <1>5, <2>1 DEF Paid, Staked, AfterFund
<1>6. CASE CreateValidator
  <2>1. step = "validators" /\ step' = "validators" /\ i < flags.numVals
        /\ tokens' = With(tokens, i, OwnStake(i)) /\ ~FundAddress
    BY <1>6 DEF FundAddress, CreateValidator, Iterate
  <2>2. i \notin DOMAIN tokens /\ DOMAIN tokens' = DOMAIN tokens \cup {i}
    BY <1>1, <1>2, <2>1 DEF Amounts, With
  <2> QED
    BY <1>2, <1>3, <1>4, <1>6, <2>1, <2>2 DEF Paid, Staked, AfterFund
<1>7. CASE ~FundAddress /\ ~CreateValidator
  <2>1. SUFFICES Paid(a)' = Paid(a) /\ DOMAIN tokens' = DOMAIN tokens
    BY <1>3, <1>4, <1>7 DEF Staked
  <2>2. CASE MintCoins
    BY <1>1, <1>2, <2>2 DEF MintCoins, Paid, Control, Iterations, AfterFund
  <2>3. CASE DelegateOfGovernor \/ DelegateOfDelegator
    <3>1. step \in AfterFund /\ step' = step /\ DOMAIN tokens' = DOMAIN tokens
      BY <2>3 DEF DelegateOfGovernor, DelegateOfDelegator, Delegate, AfterFund
    <3> QED
      BY <1>3, <3>1 DEF Paid
  <2>4. CASE SubmitProposal
    BY <1>3, <2>4 DEF SubmitProposal, Paid, AfterFund
  <2>5. CASE Moves
    <3>1. DOMAIN tokens' = DOMAIN tokens
      BY <2>5, MovesUnchanged
    <3>2. Paid(a)' = Paid(a)
      BY <1>2, <1>3, <2>5
         DEF Moves, EndLoop, BondValidators, Vote, Iterate, Export, ShrinkVotes,
             ShrinkVotesPanics, vars, Paid, AfterFund
    <3> QED
      BY <3>1, <3>2
  <2> QED
    BY <1>7, <2>2, <2>3, <2>4, <2>5, GoingBefore
<1> QED
  BY <1>4, <1>5, <1>6, <1>7

\* What the bank module and the gov module have, and which validators there are.
LEMMA ModulesStep ==
  ASSUME IInv, [Next]_vars, Going'
  PROVE  /\ module' = IF step' = "flags" THEN 0
                      ELSE IF step' = "fund"
                      THEN IF i' = 0 THEN totalAddrAmt + nodeAmt
                           ELSE AddrAmt * (numAddrs + 1 - i')
                      ELSE AddrAmt
         /\ deposit' = IF step' \in {"vote"} \cup AfterVote THEN MinDeposit ELSE 0
         /\ DOMAIN tokens' = IF step' \in {"flags", "fund"} THEN {}
                            ELSE IF step' = "validators" THEN 0 .. i' - 1
                            ELSE valAddrs
<1>1. Typed /\ Going /\ Control /\ Amounts
  BY GoingBefore DEF IInv
<1>2. /\ flags.numVals \in Nat /\ numAddrs \in Nat /\ i \in Nat /\ i' \in Int
      /\ nodeAmt \in Nat /\ totalAddrAmt \in Nat /\ AddrAmt \in Nat
      /\ totalAddrAmt = AddrAmt * numAddrs
  BY <1>1, Sized, TypeStep, TallyGenesisAssumption DEF Typed, TypeOK, totalAddrAmt
<1>3. flags.numVals >= 1 => numAddrs >= 1
  BY <1>1, Sized DEF Typed, TypeOK
<1>4. CASE MintCoins
  BY <1>1, <1>2, <1>4 DEF MintCoins, Amounts, Control, Iterations, AfterVote
<1>5. CASE FundAddress
  <2>1. step = "fund" /\ step' = "fund" /\ i' = i + 1 /\ i < numAddrs /\ tokens' = tokens
        /\ deposit' = deposit /\ module' = module - Payment(i)
    BY <1>5 DEF FundAddress, Iterate, ledger
  <2>2. module' = AddrAmt * (numAddrs + 1 - i')
    <3>1. CASE i = 0
      BY <1>1, <1>2, <2>1, <3>1 DEF Amounts, Payment
    <3>2. CASE i # 0
      <4>1. module = AddrAmt * (numAddrs + 1 - i) /\ Payment(i) = AddrAmt
        BY <1>1, <2>1, <3>2 DEF Amounts, Payment
      <4>2. AddrAmt * (numAddrs + 1 - i) - AddrAmt = AddrAmt * (numAddrs + 1 - (i + 1))
        BY <1>2
      <4> QED
        BY <2>1, <4>1, <4>2
    <3> QED
      BY <3>1, <3>2
  <2> QED
    BY <1>1, <1>2, <2>1, <2>2 DEF Amounts, AfterVote
<1>6. CASE CreateValidator
  <2>1. step = "validators" /\ step' = "validators" /\ i' = i + 1 /\ deposit' = deposit
        /\ module' = module /\ DOMAIN tokens' = DOMAIN tokens \cup {i}
    BY <1>6 DEF CreateValidator, Iterate, With
  <2>2. DOMAIN tokens' = 0 .. i' - 1
    BY <1>1, <1>2, <2>1 DEF Amounts
  <2> QED
    BY <1>1, <2>1, <2>2 DEF Amounts, AfterVote
<1>7. CASE DelegateOfGovernor \/ DelegateOfDelegator
  <2>1. step \in {"governors", "delegators"} /\ step' = step /\ DOMAIN tokens' = DOMAIN tokens
        /\ deposit' = deposit /\ module' = module
    BY <1>7 DEF DelegateOfGovernor, DelegateOfDelegator, Delegate
  <2> QED
    BY <1>1, <2>1 DEF Amounts, AfterVote
<1>8. CASE SubmitProposal
  BY <1>1, <1>8 DEF Amounts, SubmitProposal, AfterVote
<1>9. CASE Moves
  <2>1. UNCHANGED <<module, deposit, tokens>>
    BY <1>9, MovesUnchanged
  <2>2. CASE EndLoop("fund", numAddrs, "validators")
    <3>1. module = AddrAmt
      <4>1. i # 0 /\ step = "fund" /\ numAddrs + 1 - i = 1
        BY <1>1, <1>2, <1>3, <2>2 DEF EndLoop, Control
      <4>2. AddrAmt * (numAddrs + 1 - i) = AddrAmt
        BY <1>2, <4>1
      <4> QED
        BY <1>1, <4>1, <4>2 DEF Amounts
    <3> QED
      BY <1>1, <1>2, <2>1, <2>2, <3>1 DEF EndLoop, Amounts, AfterVote
  <2>3. CASE EndLoop("validators", flags.numVals, "bond")
    BY <1>1, <1>2, <2>1, <2>3 DEF EndLoop, Amounts, AfterVote, valAddrs
  <2>4. CASE UNCHANGED vars
    BY <1>1, <2>1, <2>4 DEF vars, Amounts, AfterVote
  <2> QED
    BY <1>1, <1>9, <2>1, <2>2, <2>3, <2>4
       DEF Moves, EndLoop, BondValidators, Vote, Iterate, Export, ShrinkVotes,
           ShrinkVotesPanics, Amounts, AfterVote
<1> QED
  BY <1>4, <1>5, <1>6, <1>7, <1>8, <1>9, GoingBefore

LEMMA AmountsStep ==
  ASSUME IInv, [Next]_vars, Going'
  PROVE  Amounts'
<1>1. Typed /\ Going /\ Control /\ Amounts /\ Typed'
  BY GoingBefore, TypeStep DEF IInv
<1>2. addrs' = addrs /\ numAddrs' = numAddrs /\ valAddrs' = valAddrs
      /\ totalAddrAmt' = totalAddrAmt /\ nodeAmt' = nodeAmt
  BY SameFlags
<1>3. delAmt \in Nat /\ delAmt' = delAmt
  BY Split DEF delAmt
<1>4. SUFFICES ASSUME NEW a \in addrs
               PROVE  /\ Len(delegations'[a]) = Dealt(a)'
                      /\ balances'[a] = Paid(a)' - Staked(a)' - delAmt * Dealt(a)'
                                           - (IF a = 1 THEN deposit' ELSE 0)
  BY <1>2, <1>3, ModulesStep DEF Amounts
<1>5. /\ Len(delegations[a]) = Dealt(a)
      /\ balances[a] = Paid(a) - Staked(a) - delAmt * Dealt(a) - (IF a = 1 THEN deposit ELSE 0)
  BY <1>1 DEF Amounts
<1>6. /\ Paid(a) \in Nat /\ Staked(a) \in Nat /\ Dealt(a) \in Nat
      /\ Payment(a) \in Nat /\ OwnStake(a) \in Nat /\ deposit \in Nat /\ deposit' \in Nat
      /\ balances[a] \in Nat /\ balances'[a] \in Nat /\ delAmt * Dealt(a) \in Nat
      /\ balances \in [addrs -> Nat] /\ delegations \in [addrs -> Seq(valAddrs)]
  <2>1. Paid(a) \in Nat /\ Staked(a) \in Nat /\ Dealt(a) \in Nat
    BY <1>1, PaidStep, DealtType, TallyGenesisAssumption
  <2>2. Payment(a) \in Nat /\ OwnStake(a) \in Nat
    BY <1>1, Sized DEF Typed, TypeOK
  <2>3. delAmt * Dealt(a) \in Nat
    BY <1>3, <2>1
  <2> QED
    BY <1>1, <1>2, <2>1, <2>2, <2>3 DEF Typed, TypeOK
<1>7. CASE FundAddress
  <2>1. i \in addrs /\ delegations' = delegations /\ deposit' = deposit
        /\ balances' = [balances EXCEPT ![i] = @ + Payment(i)]
        /\ ~CreateValidator /\ ~DelegateOfGovernor /\ ~DelegateOfDelegator
    <3>1. /\ step = "fund" /\ i < numAddrs
          /\ delegations' = delegations /\ deposit' = deposit
          /\ balances' = [balances EXCEPT ![i] = @ + Payment(i)]
      BY <1>7 DEF FundAddress, Iterate
    <3>2. flags \in CountedFlags /\ i \in Nat
      BY <1>1 DEF Typed, TypeOK
    <3>3. i \in addrs
      BY <3>1, <3>2, Sized DEF addrs
    <3>4. ~CreateValidator /\ ~DelegateOfGovernor /\ ~DelegateOfDelegator
      BY <3>1 DEF CreateValidator, DelegateOfGovernor, DelegateOfDelegator, Iterate
    <3> QED
      BY <3>1, <3>3, <3>4
  <2>2. Paid(a)' = Paid(a) + (IF a = i THEN Payment(a) ELSE 0)
        /\ Staked(a)' = Staked(a) /\ Dealt(a)' = Dealt(a)
    BY <1>6, <1>7, <2>1, PaidStep, DealtStep
  <2> QED
    BY <1>5, <1>6, <2>1, <2>2
<1>8. CASE CreateValidator
  <2>1. i \in addrs /\ delegations' = delegations /\ deposit' = deposit
        /\ balances' = [balances EXCEPT ![i] = @ - OwnStake(i)]
        /\ ~FundAddress /\ ~DelegateOfGovernor /\ ~DelegateOfDelegator
    <3>1. /\ step = "validators" /\ i < flags.numVals
          /\ delegations' = delegations /\ deposit' = deposit
          /\ balances' = [balances EXCEPT ![i] = @ - OwnStake(i)]
      BY <1>8 DEF CreateValidator, Iterate
    <3>2. flags \in CountedFlags /\ i \in Nat
      BY <1>1 DEF Typed, TypeOK
    <3>3. i \in addrs
      BY <3>1, <3>2, Sized DEF addrs
    <3>4. ~FundAddress /\ ~DelegateOfGovernor /\ ~DelegateOfDelegator
      BY <3>1 DEF FundAddress, DelegateOfGovernor, DelegateOfDelegator, Iterate
    <3> QED
      BY <3>1, <3>3, <3>4
  <2>2. Staked(a)' = Staked(a) + (IF a = i THEN OwnStake(a) ELSE 0)
        /\ Paid(a)' = Paid(a) /\ Dealt(a)' = Dealt(a)
    BY <1>6, <1>8, <2>1, PaidStep, DealtStep
  <2> QED
    BY <1>5, <1>6, <2>1, <2>2
<1>9. CASE DelegateOfGovernor \/ DelegateOfDelegator
  <2>1. PICK b \in addrs : Delegate(b)
                          /\ (IF \/ DelegateOfGovernor /\ a = GovAddr(i)
                                 \/ DelegateOfDelegator /\ a = DelAddr(i)
                              THEN 1 ELSE 0) = (IF a = b THEN 1 ELSE 0)
    BY <1>9, DelegatesOne DEF DelegateOfGovernor, DelegateOfDelegator
  <2>2. ~FundAddress /\ ~CreateValidator
    BY <1>9 DEF FundAddress, CreateValidator, DelegateOfGovernor, DelegateOfDelegator, Iterate
  <2>3. Paid(a)' = Paid(a) /\ Staked(a)' = Staked(a)
        /\ Dealt(a)' = Dealt(a) + (IF a = b THEN 1 ELSE 0)
    BY <1>6, <2>1, <2>2, PaidStep, DealtStep
  <2>4. deposit' = deposit /\ balances'[a] = balances[a] - (IF a = b THEN delAmt ELSE 0)
        /\ Len(delegations'[a]) = Len(delegations[a]) + (IF a = b THEN 1 ELSE 0)
    <3>1. valIdx \in valAddrs
      BY <1>1, <1>9, TurnType DEF DelegateOfGovernor, DelegateOfDelegator
    <3>2. deposit' = deposit
          /\ balances' = [balances EXCEPT ![b] = balances[b] - delAmt]
          /\ delegations' = [delegations EXCEPT ![b] = Append(delegations[b], valIdx)]
      BY <2>1 DEF Delegate
    <3> QED
      BY <1>3, <1>6, <3>1, <3>2
  <2>5. delAmt * Dealt(a)' = delAmt * Dealt(a) + (IF a = b THEN delAmt ELSE 0)
    <3>1. CASE a = b
      <4>1. Dealt(a)' = Dealt(a) + 1 /\ delAmt * (Dealt(a) + 1) = delAmt * Dealt(a) + delAmt
        BY <1>3, <1>6, <2>3, <3>1
      <4> QED
        BY <3>1, <4>1
    <3>2. CASE a # b
      <4>1. Dealt(a)' = Dealt(a)
        BY <1>6, <2>3, <3>2
      <4> QED
        BY <1>6, <3>2, <4>1
    <3> QED
      BY <3>1, <3>2
  <2>6. balances'[a] = Paid(a)' - Staked(a)' - delAmt * Dealt(a)'
                         - (IF a = 1 THEN deposit' ELSE 0)
    <3> DEFINE p == delAmt * Dealt(a)
               q == delAmt * Dealt(a)'
               e == IF a = b THEN delAmt ELSE 0
               d == IF a = 1 THEN deposit ELSE 0
    <3>1. p \in Nat /\ q = p + (IF a = b THEN delAmt ELSE 0)
          /\ balances[a] = Paid(a) - Staked(a) - p - (IF a = 1 THEN deposit ELSE 0)
      BY <1>5, <1>6, <2>5
    <3>2. e \in Nat /\ d \in Nat /\ balances'[a] = balances[a] - e /\ q = p + e /\ p \in Nat
          /\ balances[a] = Paid(a) - Staked(a) - p - d
          /\ Paid(a) \in Nat /\ Staked(a) \in Nat
      BY <1>3, <1>6, <2>4, <3>1
    <3> HIDE DEF p, q, e, d
    <3>3. balances'[a] = Paid(a) - Staked(a) - q - d
      BY <3>2
    <3> QED
      BY <2>3, <2>4, <3>3 DEF q, d
  <2> QED
    BY <1>5, <2>3, <2>4, <2>6
<1>10. CASE SubmitProposal
  <2>1. delegations' = delegations /\ deposit = 0 /\ deposit' = MinDeposit
        /\ balances' = [balances EXCEPT ![1] = @ - MinDeposit]
        /\ ~FundAddress /\ ~CreateValidator /\ ~DelegateOfGovernor /\ ~DelegateOfDelegator
    BY <1>1, <1>10 DEF SubmitProposal, FundAddress, CreateValidator, DelegateOfGovernor,
       DelegateOfDelegator, Iterate, Amounts, AfterVote
  <2>2. Paid(a)' = Paid(a) /\ Staked(a)' = Staked(a) /\ Dealt(a)' = Dealt(a)
    BY <1>6, <2>1, PaidStep, DealtStep
  <2> QED
    BY <1>5, <1>6, <2>1, <2>2
<1>11. CASE Moves
  <2>1. delegations' = delegations /\ deposit' = deposit /\ balances' = balances
        /\ tokens' = tokens
    BY <1>11, MovesUnchanged
  <2>2. ~FundAddress /\ ~CreateValidator /\ ~DelegateOfGovernor /\ ~DelegateOfDelegator
    BY <1>1, <1>11, MovesAlone DEF Typed, TypeOK
  <2>3. Paid(a)' = Paid(a) /\ Staked(a)' = Staked(a) /\ Dealt(a)' = Dealt(a)
    BY <1>6, <2>2, PaidStep, DealtStep
  <2> QED
    BY <1>5, <1>6, <2>1, <2>3
<1>12. CASE MintCoins
  <2>1. delegations' = delegations /\ deposit' = deposit /\ balances' = balances
        /\ ~FundAddress /\ ~CreateValidator /\ ~DelegateOfGovernor /\ ~DelegateOfDelegator
    BY <1>12 DEF MintCoins, FundAddress, CreateValidator, DelegateOfGovernor,
       DelegateOfDelegator, Iterate
  <2>2. Paid(a)' = Paid(a) /\ Staked(a)' = Staked(a) /\ Dealt(a)' = Dealt(a)
    BY <1>6, <2>1, PaidStep, DealtStep
  <2> QED
    BY <1>5, <1>6, <2>1, <2>2
<1> QED
  BY <1>7, <1>8, <1>9, <1>10, <1>11, <1>12, GoingBefore

-----------------------------------------------------------------------------
(* Every payment can be made.                                              *)

LEMMA PanicsOnWrongFlags ==
  ASSUME IInv, Going, Panics
  PROVE  WrongFlags
<1>1. Typed /\ Control /\ Amounts
  BY DEF IInv
<1>2. /\ flags.numVals \in Nat /\ flags.numDels \in Nat /\ flags.numGovs \in Nat
      /\ numAddrs = flags.numVals + flags.numDels + flags.numGovs
      /\ totalAddrAmt \in Nat /\ nodeAmt \in Nat /\ i \in Nat
      /\ \A a : Payment(a) \in Nat /\ OwnStake(a) \in Nat
  BY <1>1, Sized DEF Typed, TypeOK
<1>3. {AddrAmt, SelfDelegation, DelegatedAmt, MinDeposit} \subseteq Nat \ {0}
      /\ SelfDelegation + MinDeposit <= AddrAmt /\ DelegatedAmt + MinDeposit <= AddrAmt
      /\ NumDelegsPerDelegator \in Nat \ {0}
  BY TallyGenesisAssumption, AmountsAssumption
<1>4. delAmt * 0 = 0 /\ delAmt \in Nat /\ delAmt * NumDelegsPerDelegator <= DelegatedAmt
      /\ delAmt * NumDelegsPerDelegator \in Nat
  BY <1>3, Split
<1>5. ASSUME step = "fund", i < numAddrs PROVE module >= Payment(i)
  <2>1. CASE i = 0
    BY <1>1, <1>2, <1>5, <2>1 DEF Amounts, Payment
  <2>2. CASE i # 0
    <3>1. module = AddrAmt * (numAddrs + 1 - i) /\ Payment(i) = AddrAmt
      BY <1>1, <1>5, <2>2 DEF Amounts, Payment
    <3>2. ASSUME NEW n \in Nat, n >= 1 PROVE AddrAmt * n >= AddrAmt
      BY <1>3, <3>2
    <3>3. numAddrs + 1 - i \in Nat /\ numAddrs + 1 - i >= 1
      BY <1>2, <1>5
    <3> QED
      BY <3>1, <3>2, <3>3
  <2> QED
    BY <2>1, <2>2
<1>6. ASSUME step = "validators", i < flags.numVals PROVE balances[i] >= OwnStake(i)
  <2>1. i \in addrs /\ i \notin DOMAIN tokens /\ deposit = 0
    BY <1>1, <1>2, <1>6 DEF Amounts, addrs, AfterVote
  <2>2. Paid(i) = Payment(i) /\ Staked(i) = 0 /\ Dealt(i) = 0
    BY <1>6, <2>1 DEF Paid, Staked, Dealt, AfterFund
  <2>3. balances[i] = Paid(i) - Staked(i) - delAmt * Dealt(i) - (IF i = 1 THEN deposit ELSE 0)
    BY <1>1, <2>1 DEF Amounts
  <2>4. balances[i] = Payment(i)
    BY <1>2, <1>4, <2>1, <2>2, <2>3
  <2> QED
    BY <1>2, <1>3, <2>4 DEF Payment, OwnStake
<1>7. ASSUME NEW a \in addrs, a >= flags.numVals, step \in {"governors", "delegators"},
             Dealt(a) = j
      PROVE  balances[a] >= delAmt
  <2>1. a # 0 /\ a \notin DOMAIN tokens /\ deposit = 0
    BY <1>1, <1>2, <1>7 DEF Amounts, Control, addrs, valAddrs, AfterVote
  <2>2. Paid(a) = AddrAmt /\ Staked(a) = 0
    BY <1>7, <2>1 DEF Paid, Staked, Payment, AfterFund
  <2>3. balances[a] = Paid(a) - Staked(a) - delAmt * Dealt(a) - (IF a = 1 THEN deposit ELSE 0)
    BY <1>1 DEF Amounts
  <2>4. j \in 0 .. NumDelegsPerDelegator - 1 /\ delAmt * j \in Nat
        /\ delAmt * j + delAmt <= DelegatedAmt
    BY <1>1, Split DEF Typed, TypeOK
  <2>5. balances[a] = AddrAmt - delAmt * j
    BY <1>3, <1>7, <2>1, <2>2, <2>3, <2>4
  <2> QED
    BY <1>3, <1>4, <2>4, <2>5
<1>8. ASSUME step = "governors", i < flags.numGovs PROVE balances[GovAddr(i)] >= delAmt
  <2>1. GovAddr(i) \in addrs /\ GovAddr(i) >= flags.numVals /\ Dealt(GovAddr(i)) = j
    BY <1>2, <1>8 DEF GovAddr, addrs, Dealt, DealtIn
  <2> QED
    BY <1>7, <1>8, <2>1
<1>9. ASSUME step = "delegators", i < flags.numDels PROVE balances[DelAddr(i)] >= delAmt
  <2>1. DelAddr(i) \in addrs /\ DelAddr(i) >= flags.numVals /\ Dealt(DelAddr(i)) = j
    BY <1>2, <1>9 DEF DelAddr, GovAddr, addrs, Dealt, DealtIn
  <2> QED
    BY <1>7, <1>9, <2>1
<1>10. ASSUME step = "propose", numAddrs # 1 PROVE 1 \in addrs /\ balances[1] >= MinDeposit
  <2>1. 1 \in addrs /\ DOMAIN tokens = valAddrs /\ deposit = 0 /\ Paid(1) = AddrAmt
    BY <1>1, <1>2, <1>10 DEF Amounts, Control, addrs, AfterVote, Paid, Payment, AfterFund
  <2>2. balances[1] = Paid(1) - Staked(1) - delAmt * Dealt(1) - deposit
    BY <1>1, <2>1 DEF Amounts
  <2>3. CASE 1 < flags.numVals
    <3>1. Staked(1) = SelfDelegation /\ Dealt(1) = 0
      BY <1>2, <2>1, <2>3 DEF Staked, OwnStake, Dealt, valAddrs
    <3>2. balances[1] = AddrAmt - SelfDelegation
      BY <1>3, <1>4, <2>1, <2>2, <3>1
    <3> QED
      BY <1>3, <2>1, <3>2
  <2>4. CASE 1 >= flags.numVals
    <3>1. Staked(1) = 0 /\ Dealt(1) = NumDelegsPerDelegator
      BY <1>2, <1>10, <2>1, <2>4
         DEF Staked, Dealt, DealtIn, valAddrs, GovAddr, AfterBond, AfterFund
    <3>2. balances[1] = AddrAmt - delAmt * NumDelegsPerDelegator
      BY <1>3, <1>4, <2>1, <2>2, <3>1
    <3> QED
      BY <1>3, <1>4, <2>1, <3>2
  <2> QED
    BY <1>2, <2>3, <2>4
<1>11. \A a \in addrs : balances[a] \in Nat
  BY <1>1 DEF Typed, TypeOK
<1>12. module \in Nat
  BY <1>1 DEF Typed, TypeOK
<1>13. ASSUME step = "flags", ~IsRefused, ~CanStart PROVE WrongFlags
  <2>1. flags.numVals <= numAddrs /\ DelAddr(0) <= GovAddr(0) /\ GovAddr(0) <= numAddrs
    BY <1>2 DEF DelAddr, GovAddr
  <2> QED
    BY <1>13, <2>1 DEF CanStart, WrongFlags
<1> QED
  <2>1. CASE step = "fund" /\ i < numAddrs /\ module < Payment(i)
    BY <1>2, <1>5, <1>12, <2>1
  <2>2. CASE step = "validators" /\ i < flags.numVals /\ balances[i] < OwnStake(i)
    <3>1. i \in addrs
      BY <1>2, <2>2 DEF addrs
    <3> QED
      BY <1>2, <1>6, <1>11, <2>2, <3>1
  <2>3. CASE step = "governors" /\ i < flags.numGovs /\ balances[GovAddr(i)] < delAmt
    <3>1. GovAddr(i) \in addrs
      BY <1>2, <2>3 DEF addrs, GovAddr
    <3> QED
      BY <1>4, <1>8, <1>11, <2>3, <3>1
  <2>4. CASE step = "delegators" /\ i < flags.numDels /\ balances[DelAddr(i)] < delAmt
    <3>1. DelAddr(i) \in addrs
      BY <1>2, <2>4 DEF addrs, DelAddr
    <3> QED
      BY <1>4, <1>9, <1>11, <2>4, <3>1
  <2>5. CASE step = "propose" /\ (1 \in addrs => balances[1] < MinDeposit)
    <3>1. numAddrs = 1
      BY <1>3, <1>10, <1>11, <2>5
    <3> QED
      BY <3>1 DEF WrongFlags
  <2> QED
    BY <1>13, <2>1, <2>2, <2>3, <2>4, <2>5 DEF Panics

-----------------------------------------------------------------------------
(* Nothing is lost.                                                        *)

LEMMA SumWith ==
  ASSUME NEW f, NEW x, x \notin DOMAIN f, IsFiniteSet(DOMAIN f),
         \A y \in DOMAIN f : f[y] \in Int, NEW v \in Int
  PROVE  SumFunction(With(f, x, v)) = SumFunction(f) + v
<1> DEFINE g == With(f, x, v)
<1>1. DOMAIN g = DOMAIN f \cup {x} /\ g[x] = v /\ \A y \in DOMAIN f : g[y] = f[y]
  BY DEF With
<1> HIDE DEF g
<1>2. SumFunctionOnSet(g, DOMAIN f \cup {x}) = g[x] + SumFunctionOnSet(g, DOMAIN f)
  BY <1>1, SumAdd
<1>3. SumFunctionOnSet(g, DOMAIN f) = SumFunctionOnSet(f, DOMAIN f)
  BY <1>1, SumSame
<1>4. SumFunctionOnSet(f, DOMAIN f) \in Int
  BY SumInt
<1> QED
  BY <1>1, <1>2, <1>3, <1>4 DEF SumFunction, g

LEMMA SumTypes ==
  ASSUME Typed
  PROVE  /\ IsFiniteSet(DOMAIN tokens) /\ SumFunction(tokens) \in Nat
         /\ SumFunction(balances) \in Nat
<1>1. IsFiniteSet(addrs) /\ flags.numVals \in Nat /\ numAddrs \in Nat /\ flags.numVals <= numAddrs
  BY Sized DEF Typed, TypeOK
<1>2. DOMAIN tokens \subseteq addrs
  BY <1>1 DEF Typed, TypeOK, valAddrs, addrs
<1>3. IsFiniteSet(DOMAIN tokens)
  BY <1>1, <1>2, FS_Subset
<1>4. SumFunctionOnSet(tokens, DOMAIN tokens) \in Nat
  BY <1>3, SumNat DEF Typed, TypeOK
<1> QED
  BY <1>1, <1>3, <1>4, SumFunctionType DEF Typed, TypeOK, SumFunction

LEMMA BalanceStep ==
  ASSUME IInv, [Next]_vars, Going'
  PROVE  Balance'
<1> DEFINE held == SumFunction(balances)
           staked == SumFunction(tokens)
<1>1. Typed /\ Going /\ Control /\ Amounts /\ Balance /\ Typed'
  BY GoingBefore, TypeStep DEF IInv
<1>2. /\ totalAddrAmt' = totalAddrAmt /\ nodeAmt' = nodeAmt
      /\ totalAddrAmt \in Nat /\ nodeAmt \in Nat
      /\ held \in Nat /\ staked \in Nat /\ module \in Nat /\ deposit \in Nat
      /\ module' \in Nat /\ deposit' \in Nat
  BY <1>1, Sized, SameFlags, SumTypes DEF Typed, TypeOK
<1>3. /\ IsFiniteSet(DOMAIN balances) /\ DOMAIN balances = addrs
      /\ \A a \in DOMAIN balances : balances[a] \in Int
      /\ IsFiniteSet(DOMAIN tokens) /\ \A v \in DOMAIN tokens : tokens[v] \in Int
  <2>1. Typed => balances \in [addrs -> Nat] /\ \A v \in DOMAIN tokens : tokens[v] \in Nat
    BY DEF Typed, TypeOK
  <2>2. IsFiniteSet(addrs) /\ IsFiniteSet(DOMAIN tokens)
    BY <1>1, Sized, SumTypes DEF Typed, TypeOK
  <2> QED
    BY <1>1, <2>1, <2>2
<1>4. module + held + deposit + staked = IF step = "flags" THEN 0 ELSE totalAddrAmt + nodeAmt
  BY <1>1 DEF Balance
<1>5. SUFFICES module' + held' + deposit' + staked'
                 = IF step' = "flags" THEN 0 ELSE totalAddrAmt + nodeAmt
  BY <1>2 DEF Balance
<1> HIDE DEF held, staked
<1>6. CASE MintCoins
  <2>1. step = "flags" /\ step' = "fund" /\ module' = totalAddrAmt + nodeAmt
        /\ deposit' = deposit /\ held' = held /\ staked' = staked
    BY <1>6 DEF MintCoins, held, staked
  <2> QED
    BY <1>2, <1>4, <2>1
<1>7. CASE FundAddress
  <2>1. i \in addrs /\ Payment(i) \in Nat /\ balances[i] \in Int
    <3>1. flags \in CountedFlags /\ i \in Nat
      BY <1>1 DEF Typed, TypeOK
    <3>2. i < numAddrs
      BY <1>7 DEF FundAddress, Iterate
    <3>3. numAddrs \in Nat /\ Payment(i) \in Nat
      BY <3>1, Sized
    <3>4. i \in addrs
      BY <3>1, <3>2, <3>3 DEF addrs
    <3> QED
      BY <1>3, <3>3, <3>4
  <2>2. held' = held + Payment(i)
    <3>1. balances' = [balances EXCEPT ![i] = balances[i] + Payment(i)]
      BY <1>7 DEF FundAddress
    <3>2. Payment(i) \in Int /\ i \in DOMAIN balances
          /\ DOMAIN balances' = DOMAIN balances /\ balances'[i] = balances[i] + Payment(i)
          /\ \A x \in DOMAIN balances \ {i} : balances'[x] = balances[x]
      BY <1>3, <2>1, <3>1
    <3>3. SumFunction(balances') = SumFunction(balances) + Payment(i)
      BY <1>3, <3>2, SumFunctionChange
    <3> QED
      BY <1>2, <2>1, <3>3 DEF held
  <2>3. step' = step /\ step = "fund" /\ module' = module - Payment(i) /\ deposit' = deposit
        /\ staked' = staked
    BY <1>7 DEF FundAddress, Iterate, ledger, staked
  <2> QED
    BY <1>2, <1>4, <2>1, <2>2, <2>3
<1>8. CASE CreateValidator
  <2>1. i \in addrs /\ OwnStake(i) \in Nat /\ i \notin DOMAIN tokens
    <3>1. i \in Nat /\ i < flags.numVals /\ step = "validators"
      BY <1>1, <1>8 DEF CreateValidator, Iterate, Typed, TypeOK
    <3>2. DOMAIN tokens = 0 .. i - 1
      BY <1>1, <3>1 DEF Amounts
    <3>3. OwnStake(i) \in Nat /\ flags.numVals <= numAddrs /\ flags.numVals \in Nat /\ numAddrs \in Nat
      <4>1. flags \in CountedFlags
        BY <1>1 DEF Typed, TypeOK
      <4> QED
        BY <4>1, Sized
    <3> QED
      BY <3>1, <3>2, <3>3 DEF addrs
  <2>2. held' = held - OwnStake(i)
    <3>1. balances' = [balances EXCEPT ![i] = balances[i] - OwnStake(i)]
      BY <1>8 DEF CreateValidator
    <3>2. (-OwnStake(i)) \in Int /\ i \in DOMAIN balances
          /\ DOMAIN balances' = DOMAIN balances /\ balances'[i] = balances[i] + (-OwnStake(i))
          /\ \A x \in DOMAIN balances \ {i} : balances'[x] = balances[x]
      BY <1>3, <2>1, <3>1
    <3>3. SumFunction(balances') = SumFunction(balances) + (-OwnStake(i))
      BY <1>3, <3>2, SumFunctionChange
    <3> QED
      BY <1>2, <2>1, <3>3 DEF held
  <2>3. staked' = staked + OwnStake(i)
    BY <1>3, <1>8, <2>1, SumWith DEF CreateValidator, staked
  <2>4. step' = step /\ step = "validators" /\ module' = module /\ deposit' = deposit
    BY <1>8 DEF CreateValidator, Iterate
  <2>5. module + held + deposit + staked = totalAddrAmt + nodeAmt
        /\ step' # "flags" /\ OwnStake(i) \in Nat
    BY <1>4, <2>1, <2>4
  <2>6. PICK w \in Nat : w = OwnStake(i)
    BY <2>5
  <2>7. held' = held - w /\ staked' = staked + w /\ module' = module /\ deposit' = deposit
    BY <2>2, <2>3, <2>4, <2>6
  <2>8. module + (held - w) + deposit + (staked + w) = module + held + deposit + staked
    BY <1>2
  <2> QED
    BY <2>5, <2>7, <2>8
<1>9. CASE DelegateOfGovernor \/ DelegateOfDelegator
  <2>1. step \in {"governors", "delegators"} /\ valIdx \in valAddrs
    BY <1>1, <1>9, TurnType DEF DelegateOfGovernor, DelegateOfDelegator
  <2>2. PICK a \in addrs : Delegate(a)
    BY <1>9, DelegatesOne
  <2>3. valIdx \in DOMAIN tokens /\ balances[a] \in Int /\ tokens[valIdx] \in Int /\ delAmt \in Nat
    BY <1>1, <1>3, <2>1, Split DEF Amounts
  <2>4. held' = held - delAmt
    <3>1. balances' = [balances EXCEPT ![a] = balances[a] - delAmt]
      BY <2>2 DEF Delegate
    <3>2. (-delAmt) \in Int /\ a \in DOMAIN balances
          /\ DOMAIN balances' = DOMAIN balances /\ balances'[a] = balances[a] + (-delAmt)
          /\ \A x \in DOMAIN balances \ {a} : balances'[x] = balances[x]
      BY <1>3, <2>3, <3>1
    <3>3. SumFunction(balances') = SumFunction(balances) + (-delAmt)
      BY <1>3, <3>2, SumFunctionChange
    <3> QED
      BY <1>2, <2>3, <3>3 DEF held
  <2>5. staked' = staked + delAmt
    <3>1. tokens' = [tokens EXCEPT ![valIdx] = tokens[valIdx] + delAmt]
      BY <2>2 DEF Delegate
    <3>2. delAmt \in Int /\ valIdx \in DOMAIN tokens
          /\ DOMAIN tokens' = DOMAIN tokens /\ tokens'[valIdx] = tokens[valIdx] + delAmt
          /\ \A x \in DOMAIN tokens \ {valIdx} : tokens'[x] = tokens[x]
      BY <1>3, <2>3, <3>1
    <3>3. SumFunction(tokens') = SumFunction(tokens) + delAmt
      BY <1>3, <3>2, SumFunctionChange
    <3> QED
      BY <1>2, <2>3, <3>3 DEF staked
  <2>6. step' = step /\ module' = module /\ deposit' = deposit
    BY <2>2 DEF Delegate
  <2> QED
    BY <1>2, <1>4, <2>1, <2>3, <2>4, <2>5, <2>6
<1>10. CASE SubmitProposal
  <2>1. 1 \in addrs /\ balances[1] \in Int /\ MinDeposit \in Nat
    BY <1>3, <1>10, TallyGenesisAssumption DEF SubmitProposal
  <2>2. held' = held - MinDeposit
    <3>1. balances' = [balances EXCEPT ![1] = balances[1] - MinDeposit]
      BY <1>10 DEF SubmitProposal
    <3>2. (-MinDeposit) \in Int /\ 1 \in DOMAIN balances
          /\ DOMAIN balances' = DOMAIN balances /\ balances'[1] = balances[1] + (-MinDeposit)
          /\ \A x \in DOMAIN balances \ {1} : balances'[x] = balances[x]
      BY <1>3, <2>1, <3>1
    <3>3. SumFunction(balances') = SumFunction(balances) + (-MinDeposit)
      BY <1>3, <3>2, SumFunctionChange
    <3> QED
      BY <1>2, <2>1, <3>3 DEF held
  <2>3. step = "propose" /\ step' = "vote" /\ module' = module /\ deposit = 0
        /\ deposit' = MinDeposit /\ staked' = staked
    BY <1>1, <1>10 DEF SubmitProposal, Amounts, AfterVote, staked
  <2> QED
    BY <1>2, <1>4, <2>1, <2>2, <2>3
<1>11. CASE Moves
  <2>1. module' = module /\ deposit' = deposit /\ held' = held /\ staked' = staked
    BY <1>11, MovesUnchanged DEF held, staked
  <2>2. step' = "flags" <=> step = "flags"
    BY <1>11 DEF Moves, EndLoop, BondValidators, Vote, Iterate, Export, ShrinkVotes,
       ShrinkVotesPanics, vars
  <2> QED
    BY <1>4, <2>1, <2>2
<1> QED
  BY <1>6, <1>7, <1>8, <1>9, <1>10, <1>11, GoingBefore

-----------------------------------------------------------------------------
(* Delegations are dealt in turn.                                          *)

LEMMA MadeStep ==
  ASSUME IInv, [Next]_vars, Going'
  PROVE  Made' = Made + (IF DelegateOfGovernor \/ DelegateOfDelegator THEN 1 ELSE 0)
<1> DEFINE lens == [a \in addrs |-> Len(delegations[a])]
<1>1. Typed /\ Typed' /\ Made \in Nat /\ addrs' = addrs /\ IsFiniteSet(addrs)
  BY MadeType, SameFlags, TypeStep, Sized DEF IInv, Typed, TypeOK
<1>2. CASE DelegateOfGovernor \/ DelegateOfDelegator
  <2>1. PICK a \in addrs : Delegate(a)
    BY <1>2, DelegatesOne
  <2>2. valIdx \in valAddrs
    BY <1>2, GoingBefore, TurnType DEF DelegateOfGovernor, DelegateOfDelegator
  <2>3. delegations' = [delegations EXCEPT ![a] = Append(delegations[a], valIdx)]
    BY <2>1 DEF Delegate
  <2>4. delegations \in [addrs -> Seq(valAddrs)]
    BY <1>1 DEF Typed, TypeOK
  <2>5. /\ DOMAIN lens = addrs /\ DOMAIN lens' = addrs /\ \A b \in addrs : lens[b] \in Int
        /\ lens'[a] = lens[a] + 1 /\ \A b \in addrs \ {a} : lens'[b] = lens[b]
    BY <1>1, <2>2, <2>3, <2>4
  <2> HIDE DEF lens
  <2>6. SumFunction(lens') = SumFunction(lens) + 1
    BY <1>1, <2>5, SumFunctionChange
  <2> QED
    BY <1>2, <2>6 DEF Made, lens
<1>3. CASE ~(DelegateOfGovernor \/ DelegateOfDelegator)
  <2>1. delegations' = delegations
    BY <1>3, GoingBefore, MovesUnchanged
       DEF MintCoins, FundAddress, CreateValidator, SubmitProposal
  <2>2. Made' = Made
    BY <1>1, <2>1 DEF Made
  <2> QED
    BY <1>1, <1>3, <2>2
<1> QED
  BY <1>2, <1>3

\* None is made before validators are bonded.
LEMMA MadeZero ==
  ASSUME IInv, Going, step \in {"flags", "fund", "validators", "bond"}
  PROVE  Made = 0
<1> DEFINE lens == [a \in addrs |-> Len(delegations[a])]
<1>1. IsFiniteSet(addrs) /\ \A a \in addrs : lens[a] = 0
  BY Sized DEF IInv, Typed, TypeOK, Amounts, Dealt, DealtIn, AfterBond, AfterFund
<1> HIDE DEF lens
<1>2. SumFunctionOnSet(lens, addrs) = 0
  BY <1>1, SumZero
<1> QED
  BY <1>2 DEF Made, SumFunction, lens

LEMMA NoTurns ==
  ASSUME NEW v
  PROVE  Cardinality(Turns(0, v)) = 0
<1>1. Turns(0, v) = {}
  BY DEF Turns
<1> QED
  BY <1>1, FS_EmptySet

LEMMA RoundsStep ==
  ASSUME IInv, [Next]_vars, Going'
  PROVE  Rounds'
<1>1. Typed /\ Going /\ Control /\ Amounts /\ Rounds /\ Typed' /\ Made \in Nat
  BY GoingBefore, TypeStep, MadeType DEF IInv
<1>2. /\ flags' = flags /\ nodeAmt' = nodeAmt /\ flags.numVals \in Nat
      /\ delAmt \in Nat /\ delAmt' = delAmt
      /\ \A v : OwnStake(v) \in Nat
  BY <1>1, SameFlags, Split, Sized DEF Typed, TypeOK, delAmt
<1>3. \A m \in Nat : \A v : Cardinality(Turns(m, v)) \in Nat
                       /\ delAmt * Cardinality(Turns(m, v)) \in Nat
  <2> SUFFICES ASSUME NEW m \in Nat, NEW v
               PROVE  Cardinality(Turns(m, v)) \in Nat
                      /\ delAmt * Cardinality(Turns(m, v)) \in Nat
    OBVIOUS
  <2>1. IsFiniteSet(0 .. m - 1) /\ Turns(m, v) \subseteq 0 .. m - 1
    BY FS_Interval DEF Turns
  <2>2. Cardinality(Turns(m, v)) \in Nat
    BY <2>1, FS_Subset, FS_CardinalityType
  <2> QED
    BY <1>2, <2>2
<1>4. SUFFICES
        /\ \A v \in DOMAIN tokens' :
             tokens'[v] = OwnStake(v) + delAmt * Cardinality(Turns(Made', v))
        /\ valIdx' = IF step' = "flags" THEN 0 ELSE Made' % flags.numVals
  BY <1>2 DEF Rounds, OwnStake, Turns
<1>5. ASSUME tokens' = tokens, valIdx' = valIdx, step' = "flags" <=> step = "flags",
             ~(DelegateOfGovernor \/ DelegateOfDelegator)
      PROVE  /\ \A v \in DOMAIN tokens' :
                  tokens'[v] = OwnStake(v) + delAmt * Cardinality(Turns(Made', v))
             /\ valIdx' = IF step' = "flags" THEN 0 ELSE Made' % flags.numVals
  <2>1. Made' = Made
    BY <1>1, <1>5, MadeStep
  <2> QED
    BY <1>1, <1>5, <2>1 DEF Rounds
<1>6. CASE MintCoins
  <2>1. Made = 0 /\ Made' = 0
    BY <1>1, <1>6, MadeZero, MadeStep DEF MintCoins, DelegateOfGovernor, DelegateOfDelegator
  <2>2. flags.numVals \in Nat \ {0} /\ 0 % flags.numVals = 0
    <3>1. flags.numVals \in Nat \ {0}
      <4>1. ~(flags.numVals < 1)
        BY <1>6, HasValidators DEF MintCoins
      <4> QED
        BY <1>2, <4>1
    <3>2. ASSUME NEW n \in Nat \ {0} PROVE 0 % n = 0
      BY <3>2
    <3> QED
      BY <3>1, <3>2
  <2> QED
    BY <1>1, <1>6, <2>1, <2>2 DEF MintCoins, Rounds
<1>7. CASE FundAddress \/ SubmitProposal
  BY <1>5, <1>7 DEF FundAddress, SubmitProposal, Iterate, DelegateOfGovernor, DelegateOfDelegator
<1>8. CASE CreateValidator
  <2>1. step = "validators" /\ step' = "validators" /\ valIdx' = valIdx
        /\ tokens' = With(tokens, i, OwnStake(i))
    BY <1>8 DEF CreateValidator, Iterate
  <2>2. Made = 0 /\ Made' = 0
    BY <1>1, <2>1, MadeZero, MadeStep DEF DelegateOfGovernor, DelegateOfDelegator
  <2>3. ASSUME NEW v PROVE OwnStake(v) + delAmt * Cardinality(Turns(0, v)) = OwnStake(v)
    BY <1>2, NoTurns
  <2>4. \A v \in DOMAIN tokens' : tokens'[v] = OwnStake(v)
    BY <1>1, <2>1, <2>2, <2>3 DEF Rounds, With
  <2> QED
    BY <1>1, <2>1, <2>2, <2>3, <2>4 DEF Rounds
<1>9. CASE DelegateOfGovernor \/ DelegateOfDelegator
  <2>1. step \in {"governors", "delegators"} /\ valIdx \in valAddrs
        /\ valIdx = Made % flags.numVals /\ flags.numVals \in Nat \ {0}
    BY <1>1, <1>9, TurnType DEF DelegateOfGovernor, DelegateOfDelegator
  <2>2. PICK a \in addrs : Delegate(a)
    BY <1>9, DelegatesOne
  <2>3. step' = step /\ valIdx' = NextValidator(valIdx)
        /\ tokens' = [tokens EXCEPT ![valIdx] = tokens[valIdx] + delAmt]
    BY <2>2 DEF Delegate
  <2>4. Made' = Made + 1
    BY <1>9, MadeStep
  <2>5. valIdx' = Made' % flags.numVals
    BY <1>1, <2>1, <2>3, <2>4, NextInTurn
  <2>6. ASSUME NEW v \in DOMAIN tokens
        PROVE  tokens'[v] = OwnStake(v) + delAmt * Cardinality(Turns(Made', v))
    <3> DEFINE c == Cardinality(Turns(Made, v))
    <3>1. Cardinality(Turns(Made', v)) = c + (IF valIdx = v THEN 1 ELSE 0) /\ c \in Nat
      BY <1>1, <2>1, <2>4, OneMoreTurn
    <3>2. tokens[v] = OwnStake(v) + delAmt * c /\ tokens[v] \in Nat
      BY <1>1 DEF Rounds, Typed, TypeOK
    <3>3. tokens'[v] = tokens[v] + (IF valIdx = v THEN delAmt ELSE 0)
      BY <1>2, <2>3, <3>2
    <3> HIDE DEF c
    <3>4. OwnStake(v) \in Nat /\ delAmt * c \in Nat /\ delAmt * (c + 1) = delAmt * c + delAmt
      BY <1>2, <3>1
    <3>5. CASE valIdx = v
      BY <1>2, <3>1, <3>2, <3>3, <3>4, <3>5
    <3>6. CASE valIdx # v
      BY <1>2, <3>1, <3>2, <3>3, <3>4, <3>6
    <3> QED
      BY <3>5, <3>6
  <2> QED
    BY <2>1, <2>3, <2>5, <2>6
<1>10. CASE Moves
  <2>1. tokens' = tokens /\ valIdx' = valIdx
        /\ ~(DelegateOfGovernor \/ DelegateOfDelegator)
    BY <1>1, <1>10, MovesUnchanged, MovesAlone DEF Typed, TypeOK
  <2>2. step' = "flags" <=> step = "flags"
    BY <1>10 DEF Moves, EndLoop, BondValidators, Vote, Iterate, Export, ShrinkVotes,
       ShrinkVotesPanics, vars
  <2> QED
    BY <1>5, <2>1, <2>2
<1> QED
  BY <1>6, <1>7, <1>8, <1>9, <1>10, GoingBefore

-----------------------------------------------------------------------------
(* The votes.                                                              *)

LEMMA BallotsStep ==
  ASSUME IInv, [Next]_vars, Going'
  PROVE  Polled'
<1>1. Typed /\ Going /\ Control /\ Polled /\ Typed'
  BY GoingBefore, TypeStep DEF IInv
<1>2. /\ flags' = flags /\ numAddrs' = numAddrs /\ i \in Nat
      /\ flags.numVals \in Nat /\ flags.numDels \in Nat /\ flags.numGovs \in Nat
      /\ numAddrs = flags.numVals + flags.numDels + flags.numGovs
  BY <1>1, SameFlags, Sized DEF Typed, TypeOK
<1>3. ASSUME step \notin {"vote"} \cup AfterVote, step' \notin {"vote"} \cup AfterVote,
             votes' = votes
      PROVE  Polled'
  BY <1>1, <1>3 DEF Polled, AfterVote
<1>4. CASE MintCoins \/ FundAddress \/ CreateValidator \/ DelegateOfGovernor
           \/ DelegateOfDelegator \/ BondValidators
           \/ EndLoop("fund", numAddrs, "validators")
           \/ EndLoop("validators", flags.numVals, "bond")
           \/ EndLoop("governors", flags.numGovs, "delegators")
           \/ EndLoop("delegators", flags.numDels, "propose")
  <2>1. step \notin {"vote"} \cup AfterVote /\ step' \notin {"vote"} \cup AfterVote
        /\ votes' = votes
    BY <1>4 DEF MintCoins, FundAddress, CreateValidator, DelegateOfGovernor, BondValidators,
       DelegateOfDelegator, Delegate, EndLoop, Iterate, AfterVote
  <2> QED
    BY <1>3, <2>1
<1>5. CASE SubmitProposal
  <2>1. step = "propose" /\ step' = "vote" /\ i = 0 /\ i' = 0 /\ votes' = votes
    BY <1>1, <1>2, <1>5 DEF SubmitProposal, Control, Iterations
  <2>2. DOMAIN votes = {} /\ DelAddr(0) .. DelAddr(0) + 0 - 1 = {}
    BY <1>1, <1>2, <2>1 DEF Polled, AfterVote, DelAddr
  <2> QED
    BY <1>2, <2>1, <2>2 DEF Polled, AfterVote, DelAddr
<1>6. CASE Vote
  <2>1. step = "vote" /\ step' = "vote" /\ i' = i + 1
        /\ votes' = With(votes, DelAddr(i), (i % 3) + 1)
    BY <1>6 DEF Vote, Iterate
  <2>2. DOMAIN votes' = (DelAddr(0) .. DelAddr(0) + i - 1) \cup {DelAddr(i)}
    BY <1>1, <2>1 DEF Polled, With
  <2>3. DOMAIN votes' = DelAddr(0) .. DelAddr(0) + i' - 1
    <3>1. ASSUME NEW m \in Int, NEW n \in Nat
          PROVE  (m .. m + n - 1) \cup {m + n} = m .. m + (n + 1) - 1
      OBVIOUS
    <3>2. DelAddr(0) \in Int /\ DelAddr(i) = DelAddr(0) + i
      BY <1>2 DEF DelAddr
    <3> QED
      BY <1>2, <2>1, <2>2, <3>1, <3>2
  <2> QED
    BY <1>2, <2>1, <2>3 DEF Polled, AfterVote, DelAddr
<1>7. CASE EndLoop("vote", NumVoters, "export")
  <2>1. step = "vote" /\ step' = "export" /\ i = flags.numDels + flags.numGovs /\ votes' = votes
    BY <1>7 DEF EndLoop, NumVoters
  <2>2. DOMAIN votes' = DelAddr(0) .. numAddrs - 1
    BY <1>1, <1>2, <2>1 DEF Polled, DelAddr
  <2> QED
    BY <1>2, <2>1, <2>2 DEF Polled, AfterVote, DelAddr
<1>8. CASE Export
  <2>1. PICK order \in SetToSeqs(DOMAIN votes) :
          genesisVotes' = [k \in DOMAIN order |-> [voter |-> order[k],
                                                   option |-> votes[order[k]]]]
    BY <1>8 DEF Export
  <2>2. step = "export" /\ step' = "exported" /\ votes' = votes
    BY <1>8 DEF Export
  <2>3. IsFiniteSet(DOMAIN votes)
    BY <1>1, Sized, FS_Subset DEF Typed, TypeOK
  <2>4. /\ \A k \in DOMAIN order : order[k] \in DOMAIN votes
        /\ \A k, l \in DOMAIN order : k # l => order[k] # order[l]
        /\ {order[k] : k \in DOMAIN order} = DOMAIN votes
    <3>1. /\ \A k, l \in DOMAIN order : k # l => order[k] # order[l]
          /\ {order[k] : k \in DOMAIN order} = DOMAIN votes
      BY <2>1, <2>3, Orders, Zenon
    <3> QED
      BY <3>1
  <2>5. DOMAIN genesisVotes' = DOMAIN order
        /\ \A k \in DOMAIN order : genesisVotes'[k].voter = order[k]
                                  /\ genesisVotes'[k].option = votes[order[k]]
    BY <2>1
  <2>6. {genesisVotes'[k].voter : k \in DOMAIN genesisVotes'} = DOMAIN votes
    <3>1. {genesisVotes'[k].voter : k \in DOMAIN genesisVotes'} = {order[k] : k \in DOMAIN order}
      BY <2>5
    <3> QED
      BY <2>4, <3>1
  <2>7. DOMAIN votes' = DelAddr(0) .. numAddrs - 1
    BY <1>1, <2>2 DEF Polled, AfterVote
  <2>8. /\ \A k \in DOMAIN genesisVotes' :
             /\ genesisVotes'[k].voter \in DOMAIN votes'
             /\ votes'[genesisVotes'[k].voter] = genesisVotes'[k].option
        /\ \A k, l \in DOMAIN genesisVotes' :
             k # l => genesisVotes'[k].voter # genesisVotes'[l].voter
    BY <2>2, <2>4, <2>5
  <2>9. DelAddr(0)' = DelAddr(0) /\ numAddrs' = numAddrs
    BY <1>2 DEF DelAddr
  <2> QED
    BY <2>2, <2>6, <2>7, <2>8, <2>9 DEF Polled, AfterVote
<1>9. CASE ShrinkVotes
  <2>1. PICK high \in 0 .. Len(genesisVotes) : genesisVotes' = SubSeq(genesisVotes, 1, high)
    BY <1>9 DEF ShrinkVotes
  <2>2. step \in {"exported", "shrunk"} /\ step' = "shrunk" /\ votes' = votes
    BY <1>9 DEF ShrinkVotes
  <2>3. /\ DOMAIN genesisVotes' \subseteq DOMAIN genesisVotes
        /\ \A k \in DOMAIN genesisVotes' : genesisVotes'[k] = genesisVotes[k]
    BY <1>1, <2>1, Prefix DEF Typed, TypeOK
  <2>4. DOMAIN votes' = DelAddr(0) .. numAddrs - 1
    BY <1>1, <2>2 DEF Polled, AfterVote
  <2> QED
    BY <1>1, <1>2, <2>2, <2>3, <2>4 DEF Polled, AfterVote, DelAddr
<1>10. CASE ShrinkVotesPanics
  BY <1>1, <1>2, <1>10 DEF ShrinkVotesPanics, Polled, AfterVote, DelAddr
<1>11. CASE UNCHANGED vars
  BY <1>1, <1>2, <1>11 DEF vars, Polled, AfterVote, DelAddr
<1> QED
  BY <1>4, <1>5, <1>6, <1>7, <1>8, <1>9, <1>10, <1>11, GoingBefore DEF Moves

-----------------------------------------------------------------------------
(* The node.                                                               *)

\* The set that is bonded is not empty and holds the node, which has the most
\* tokens, and it is all validators when that many may be bonded.
LEMMA NodeIsBonded ==
  ASSUME IInv, step = "bond", NEW B \in SUBSET valAddrs, MayBeBonded(B)
  PROVE  /\ 0 \in B
         /\ tokens[0] = nodeAmt
         /\ flags.numVals <= MaxValidators => B = valAddrs
<1>1. Typed /\ Going /\ Control /\ Amounts /\ Rounds
  BY DEF IInv, Going
<1>2. /\ flags.numVals \in Nat \ {0} /\ numAddrs \in Nat /\ flags.numVals <= numAddrs
      /\ nodeAmt \in Nat /\ MaxValidators \in Nat \ {0} /\ delAmt \in Nat
      /\ AddrAmt \in Nat \ {0} /\ SelfDelegation \in Nat /\ SelfDelegation < AddrAmt
  <2>1. {AddrAmt, SelfDelegation, MinDeposit} \subseteq Nat \ {0}
        /\ SelfDelegation + MinDeposit <= AddrAmt
    BY TallyGenesisAssumption, AmountsAssumption
  <2>2. SelfDelegation < AddrAmt
    BY <2>1
  <2>3. flags.numVals \in Nat \ {0} /\ numAddrs \in Nat /\ nodeAmt \in Nat
        /\ flags.numVals <= numAddrs
    BY <1>1, Sized DEF Typed, TypeOK, Control
  <2>4. MaxValidators \in Nat \ {0} /\ delAmt \in Nat
    BY Split, TallyGenesisAssumption
  <2> QED
    BY <2>1, <2>2, <2>3, <2>4
<1>3. IsFiniteSet(valAddrs) /\ Cardinality(valAddrs) = flags.numVals
  <2>1. 0 \in Int /\ flags.numVals - 1 \in Int
    BY <1>2
  <2>2. IsFiniteSet(valAddrs)
        /\ Cardinality(valAddrs) = IF 0 > flags.numVals - 1 THEN 0 ELSE flags.numVals - 1 - 0 + 1
    BY <2>1, FS_Interval DEF valAddrs
  <2> QED
    BY <1>2, <2>2
<1>4. \A v \in valAddrs : tokens[v] = OwnStake(v)
  <2>1. Made = 0 /\ DOMAIN tokens = valAddrs
    BY <1>1, MadeZero DEF Amounts
  <2> SUFFICES ASSUME NEW v \in valAddrs PROVE tokens[v] = OwnStake(v)
    OBVIOUS
  <2>2. tokens[v] = OwnStake(v) + delAmt * Cardinality(Turns(0, v)) /\ Cardinality(Turns(0, v)) = 0
    BY <1>1, <2>1, NoTurns DEF Rounds
  <2>3. OwnStake(v) \in Nat
    BY <1>1, Sized DEF Typed, TypeOK
  <2> QED
    BY <1>2, <2>2, <2>3
<1>5. 0 \in valAddrs /\ tokens[0] = nodeAmt
  BY <1>2, <1>4 DEF valAddrs, OwnStake
<1>6. nodeAmt > SelfDelegation
  <2>1. ASSUME NEW n \in Nat, n >= 1 PROVE AddrAmt * n >= AddrAmt
    <3>1. PICK k \in Nat : n = k + 1
      <4>1. n - 1 \in Nat /\ n = (n - 1) + 1
        BY <2>1
      <4> QED
        BY <4>1
    <3>2. \A x \in Nat : x * k \in Nat /\ x * (k + 1) = x * k + x
      OBVIOUS
    <3>3. AddrAmt \in Nat
      BY <1>2
    <3>4. AddrAmt * k \in Nat /\ AddrAmt * n = AddrAmt * k + AddrAmt
      BY <3>1, <3>2, <3>3
    <3> QED
      BY <3>3, <3>4
  <2>2. totalAddrAmt \in Nat
    BY <1>1, Sized DEF Typed, TypeOK
  <2>3. numAddrs >= 1
    BY <1>2
  <2>4. totalAddrAmt >= AddrAmt
    BY <1>2, <2>1, <2>3 DEF totalAddrAmt
  <2>5. nodeAmt = 3 * totalAddrAmt
    BY DEF nodeAmt
  <2> QED
    BY <1>2, <2>2, <2>4, <2>5
<1>7. B # {}
  <2>1. Cardinality(B) # 0
    BY <1>2 DEF MayBeBonded
  <2> QED
    BY <2>1, FS_EmptySet
<1>8. 0 \in B
  <2> SUFFICES ASSUME 0 \notin B PROVE FALSE
    OBVIOUS
  <2>1. PICK v \in B : v \in valAddrs /\ v # 0
    BY <1>7
  <2>2. tokens[v] >= tokens[0] /\ tokens[v] = SelfDelegation
    BY <1>4, <1>5, <2>1 DEF MayBeBonded, OwnStake
  <2> QED
    BY <1>2, <1>5, <1>6, <2>2
<1>9. ASSUME flags.numVals <= MaxValidators PROVE B = valAddrs
  <2>1. Cardinality(B) = Cardinality(valAddrs)
    BY <1>2, <1>3, <1>9 DEF MayBeBonded
  <2> QED
    BY <1>3, <2>1, FS_Subset
<1> QED
  BY <1>5, <1>8, <1>9

LEMMA BondedStep ==
  ASSUME IInv, [Next]_vars, Going'
  PROVE  Bonded'
<1>1. Going /\ Bonded /\ flags' = flags /\ valAddrs' = valAddrs
  BY GoingBefore, SameFlags DEF IInv
<1>2. ASSUME lastPower' = lastPower, step' \in AfterBond <=> step \in AfterBond
      PROVE  Bonded'
  BY <1>1, <1>2 DEF Bonded
<1>3. CASE BondValidators
  <2>1. PICK B \in SUBSET valAddrs : MayBeBonded(B) /\ lastPower' = [v \in B |-> tokens[v]]
    BY <1>3 DEF BondValidators
  <2>2. 0 \in B /\ (flags.numVals <= MaxValidators => B = valAddrs)
    BY <1>3, <2>1, NodeIsBonded DEF BondValidators
  <2>3. DOMAIN lastPower' = B /\ step' = "governors"
    BY <1>3, <2>1 DEF BondValidators
  <2> QED
    BY <1>1, <2>2, <2>3 DEF Bonded, AfterBond, AfterFund
<1>4. CASE ~BondValidators
  <2>1. lastPower' = lastPower /\ (step' \in AfterBond <=> step \in AfterBond)
    BY <1>4, GoingBefore
       DEF MintCoins, FundAddress, CreateValidator, DelegateOfGovernor, DelegateOfDelegator,
           Delegate, SubmitProposal, Moves, EndLoop, Vote, Iterate, Export, ShrinkVotes,
           ShrinkVotesPanics, vars, AfterBond, AfterFund
  <2> QED
    BY <1>2, <2>1
<1> QED
  BY <1>3, <1>4

\* In the balance, what the bank module keeps is left out of what is staked.
LEMMA StakedBound ==
  ASSUME IInv, Going, step \in AfterFund
  PROVE  SumFunction(tokens) < nodeAmt + totalAddrAmt
<1>1. Typed /\ Amounts /\ Balance
  BY DEF IInv
<1>2. module = AddrAmt /\ AddrAmt \in Nat \ {0}
  BY <1>1, TallyGenesisAssumption DEF Amounts, AfterFund
<1>3. SumFunction(tokens) \in Nat /\ SumFunction(balances) \in Nat /\ deposit \in Nat
      /\ nodeAmt \in Nat /\ totalAddrAmt \in Nat
  BY <1>1, SumTypes, Sized DEF Typed, TypeOK
<1>4. module + SumFunction(balances) + deposit + SumFunction(tokens) = totalAddrAmt + nodeAmt
  BY <1>1 DEF Balance, AfterFund
<1> QED
  BY <1>2, <1>3, <1>4

LEMMA PowerStep ==
  ASSUME IInv, [Next]_vars
  PROVE  Power'
<1>1. Typed /\ Power
  BY DEF IInv
<1>2. /\ totalAddrAmt' = totalAddrAmt /\ nodeAmt' = nodeAmt /\ valAddrs' = valAddrs
      /\ addrs' = addrs /\ totalAddrAmt \in Nat /\ nodeAmt \in Nat
  BY <1>1, SameFlags, Sized DEF Typed, TypeOK
<1>3. ASSUME lastPower' = lastPower, tokens' = tokens PROVE Power'
  BY <1>1, <1>2, <1>3 DEF Power
<1>4. CASE CreateValidator
  <2>1. step = "validators" /\ lastPower' = lastPower
    BY <1>4 DEF CreateValidator, Iterate
  <2>2. DOMAIN lastPower = {}
    BY <2>1 DEF IInv, Going, Bonded, AfterBond, AfterFund
  <2> QED
    BY <2>1, <2>2 DEF Power
<1>5. CASE BondValidators
  <2>1. PICK B \in SUBSET valAddrs : MayBeBonded(B) /\ lastPower' = [v \in B |-> tokens[v]]
    BY <1>5 DEF BondValidators
  <2>2. step = "bond" /\ Going /\ tokens' = tokens
    BY <1>5 DEF BondValidators, ledger, Going
  <2>3. 0 \in B /\ tokens[0] = nodeAmt
    BY <2>1, <2>2, NodeIsBonded
  <2>4. SumFunction(tokens) < nodeAmt + totalAddrAmt
    BY <2>2, StakedBound DEF AfterFund
  <2>5. DOMAIN tokens = valAddrs
    BY <2>2 DEF IInv, Amounts
  <2>6. \A v \in B : tokens[v] \in Nat
    BY <1>1, <2>5 DEF Typed, TypeOK
  <2> QED
    BY <1>2, <2>1, <2>2, <2>3, <2>4, <2>5, <2>6 DEF Power
<1>6. CASE DelegateOfGovernor \/ DelegateOfDelegator
  <2>1. PICK a : Delegate(a)
    BY <1>6 DEF DelegateOfGovernor, DelegateOfDelegator
  <2>2. step \in AfterBond /\ step' = step /\ Going /\ Going' /\ step' \in AfterFund
    BY <1>6, <2>1 DEF DelegateOfGovernor, DelegateOfDelegator, Delegate, Going, AfterBond, AfterFund
  <2>3. valIdx \in valAddrs /\ delAmt \in Nat
    BY <2>2, TurnType, Split DEF AfterBond, AfterFund
  <2>4. lastPower' = lastPower /\ tokens' = [tokens EXCEPT ![valIdx] = tokens[valIdx] + delAmt]
    BY <2>1 DEF Delegate
  <2>5. ASSUME NEW v \in valAddrs, DOMAIN tokens = valAddrs
        PROVE  tokens[v] \in Nat /\ tokens'[v] \in Nat /\ tokens[v] <= tokens'[v]
    <3>1. tokens[v] \in Nat /\ tokens[valIdx] \in Nat
      BY <1>1, <2>3, <2>5 DEF Typed, TypeOK
    <3> QED
      BY <2>3, <2>4, <2>5, <3>1
  <2>6. SumFunction(tokens') < nodeAmt + totalAddrAmt
    <3>1. Typed' /\ Balance'
      BY <2>2, TypeStep, BalanceStep
    <3>2. module' = AddrAmt /\ AddrAmt \in Nat \ {0}
      BY <2>2, ModulesStep, TallyGenesisAssumption DEF AfterFund
    <3>3. IsFiniteSet(addrs) /\ valAddrs \subseteq addrs
      BY <1>1, Sized DEF Typed, TypeOK, valAddrs, addrs
    <3>4. SumFunction(balances') \in Nat
      BY <1>2, <3>1, <3>3, SumFunctionType DEF Typed, TypeOK
    <3>5. SumFunction(tokens') \in Nat
      <4>1. IsFiniteSet(DOMAIN tokens') /\ \A v \in DOMAIN tokens' : tokens'[v] \in Nat
        BY <1>2, <3>1, <3>3, FS_Subset DEF Typed, TypeOK
      <4>2. SumFunctionOnSet(tokens', DOMAIN tokens') \in Nat
        BY <4>1, SumNat
      <4> QED
        BY <4>2 DEF SumFunction
    <3>6. module' + SumFunction(balances') + deposit' + SumFunction(tokens')
            = totalAddrAmt + nodeAmt /\ deposit' \in Nat
      BY <1>2, <2>2, <3>1 DEF Balance, Typed, TypeOK, AfterFund
    <3> QED
      BY <1>2, <3>2, <3>4, <3>5, <3>6
  <2>7. DOMAIN lastPower \subseteq valAddrs /\ (\A v \in DOMAIN lastPower : lastPower[v] \in Nat)
        /\ DOMAIN tokens' = DOMAIN tokens
    BY <1>1, <2>4 DEF Typed, TypeOK
  <2>8. ASSUME DOMAIN lastPower # {}
        PROVE  /\ DOMAIN tokens' = valAddrs /\ 0 \in DOMAIN lastPower
               /\ lastPower[0] = nodeAmt /\ tokens'[0] >= nodeAmt
               /\ \A v \in DOMAIN lastPower : lastPower[v] <= tokens'[v]
    <3>1. DOMAIN tokens = valAddrs /\ 0 \in DOMAIN lastPower /\ lastPower[0] = nodeAmt
          /\ \A v \in DOMAIN lastPower : lastPower[v] <= tokens[v]
      BY <1>1, <2>8 DEF Power
    <3>2. \A v \in DOMAIN lastPower : lastPower[v] <= tokens'[v]
      <4> SUFFICES ASSUME NEW v \in DOMAIN lastPower PROVE lastPower[v] <= tokens'[v]
        OBVIOUS
      <4>1. tokens[v] \in Nat /\ tokens'[v] \in Nat /\ tokens[v] <= tokens'[v]
        BY <2>5, <2>7, <3>1
      <4>2. lastPower[v] \in Nat /\ lastPower[v] <= tokens[v]
        BY <2>7, <3>1
      <4> QED
        BY <4>1, <4>2
    <3>3. tokens'[0] >= nodeAmt
      <4>1. tokens'[0] \in Nat /\ lastPower[0] <= tokens'[0]
        BY <2>5, <2>7, <3>1, <3>2
      <4> QED
        BY <1>2, <3>1, <4>1
    <3> QED
      BY <2>7, <3>1, <3>2, <3>3
  <2> QED
    BY <1>2, <2>4, <2>6, <2>8 DEF Power
<1> QED
  <2>1. CASE ~(CreateValidator \/ BondValidators \/ DelegateOfGovernor \/ DelegateOfDelegator)
    <3>1. lastPower' = lastPower /\ tokens' = tokens
      BY <2>1 DEF Next, RefuseFlags, MintCoins, FundAddress, EndLoop, Iterate, SubmitProposal,
         Vote, Panic, Export, Fail, ShrinkVotes, ShrinkVotesPanics, Ended, vars, ledger
    <3> QED
      BY <1>3, <3>1
  <2> QED
    BY <1>4, <1>5, <1>6, <2>1

-----------------------------------------------------------------------------
(* The invariant.                                                          *)

LEMMA FlagsStep ==
  ASSUME IInv, [Next]_vars
  PROVE  RightFlags'
<1>1. numAddrs' = numAddrs /\ flags' = flags /\ WrongFlags' = WrongFlags
  BY SameFlags DEF WrongFlags
<1>2. RightFlags
  BY DEF IInv
<1>3. CASE Panic
  <2>1. Panics /\ Going /\ step' = "panic"
    BY <1>3 DEF Panic, Panics, Going
  <2> QED
    BY <1>1, <2>1, PanicsOnWrongFlags DEF RightFlags
<1>4. CASE MintCoins
  BY <1>1, <1>4 DEF MintCoins, CanStart, RightFlags
<1>5. CASE SubmitProposal
  <2>1. numAddrs # 1 /\ step = "propose" /\ step' = "vote"
    BY <1>5 DEF SubmitProposal, addrs
  <2> QED
    BY <1>1, <1>2, <2>1 DEF RightFlags
<1>6. CASE ~Panic /\ ~MintCoins /\ ~SubmitProposal
  <2>1. /\ step' = "panic" => step = "panic"
        /\ step' \notin {"flags", "error", "panic"} => step \notin {"flags", "error", "panic"}
        /\ step' \in {"vote", "export", "exported", "shrunk"} =>
             step \in {"vote", "export", "exported", "shrunk"}
    BY <1>6 DEF Next, RefuseFlags, FundAddress, EndLoop, Iterate, CreateValidator,
       BondValidators, DelegateOfGovernor, DelegateOfDelegator, Delegate, Vote,
       Export, Fail, ShrinkVotes, ShrinkVotesPanics, Ended, vars
  <2> QED
    BY <1>1, <1>2, <2>1 DEF RightFlags
<1> QED
  BY <1>3, <1>4, <1>5, <1>6

LEMMA InvariantInit ==
  ASSUME Init, flags \in CountedFlags
  PROVE  IInv
<1>1. /\ flags \in FlagSets /\ flags \in CountedFlags /\ step = "flags" /\ i = 0 /\ j = 0 /\ valIdx = 0
      /\ module = 0 /\ deposit = 0 /\ balances = [a \in addrs |-> 0]
      /\ DOMAIN tokens = {} /\ delegations = [a \in addrs |-> <<>>]
      /\ DOMAIN lastPower = {} /\ DOMAIN votes = {} /\ genesisVotes = <<>>
  BY DEF Init, NoEntry
<1>2. NumDelegsPerDelegator \in Nat \ {0} /\ delAmt \in Nat /\ delAmt * 0 = 0
      /\ 0 \in 0 .. NumDelegsPerDelegator - 1
  BY Split, TallyGenesisAssumption
<1>3. Typed
  BY <1>1, <1>2 DEF Typed, TypeOK, Steps
<1>4. IsFiniteSet(addrs) /\ flags.numVals \in Nat
  BY <1>1, Sized
<1>5. Control
  BY <1>1, <1>2 DEF Control, Iterations
<1>6. Amounts
  <2> SUFFICES ASSUME NEW a \in addrs
               PROVE  Len(delegations[a]) = Dealt(a)
                      /\ balances[a] = Paid(a) - Staked(a) - delAmt * Dealt(a)
                                          - (IF a = 1 THEN deposit ELSE 0)
    BY <1>1 DEF Amounts, AfterVote
  <2>1. Dealt(a) = 0 /\ Paid(a) = 0 /\ Staked(a) = 0
    BY <1>1 DEF Dealt, DealtIn, Paid, Staked, AfterBond, AfterFund
  <2> QED
    BY <1>1, <1>2, <2>1
<1>7. Balance
  <2>1. SumFunctionOnSet(balances, addrs) = 0
    BY <1>1, <1>4, SumZero
  <2>2. SumFunctionOnSet(tokens, {}) = 0
    BY SumEmpty
  <2>3. SumFunction(balances) = 0 /\ SumFunction(tokens) = 0
    BY <1>1, <2>1, <2>2 DEF SumFunction
  <2> QED
    BY <1>1, <2>3 DEF Balance
<1>8. Rounds /\ Polled /\ Bonded /\ Power /\ RightFlags
  BY <1>1 DEF Rounds, Polled, Bonded, Power, RightFlags, AfterVote, AfterBond, AfterFund
<1> QED
  BY <1>3, <1>5, <1>6, <1>7, <1>8 DEF IInv

LEMMA InvariantStep ==
  ASSUME IInv, [Next]_vars
  PROVE  IInv'
BY TypeStep, PowerStep, FlagsStep, ControlStep, AmountsStep, BalanceStep, RoundsStep,
   BallotsStep, BondedStep
   DEF IInv

\* A negative number of validators, delegators or governors stops the command
\* before it does anything.
NotStarted ==
  /\ flags \in FlagSets \ CountedFlags
  /\ step \in {"flags", "error", "panic"}
  /\ TypeOK
  /\ DOMAIN lastPower = {}
  /\ step = "panic" => WrongFlags

LEMMA NotStartedInit ==
  ASSUME Init, flags \notin CountedFlags
  PROVE  NotStarted
<1>1. /\ flags \in FlagSets \ CountedFlags /\ step = "flags" /\ i = 0 /\ j = 0 /\ valIdx = 0
      /\ module = 0 /\ deposit = 0 /\ balances = [a \in addrs |-> 0]
      /\ DOMAIN tokens = {} /\ delegations = [a \in addrs |-> <<>>]
      /\ DOMAIN lastPower = {} /\ DOMAIN votes = {} /\ genesisVotes = <<>>
  BY DEF Init, NoEntry
<1>2. 0 \in 0 .. NumDelegsPerDelegator - 1
  BY TallyGenesisAssumption
<1>3. TypeOK
  BY <1>1, <1>2 DEF TypeOK, Steps
<1> QED
  BY <1>1, <1>3 DEF NotStarted

LEMMA NotStartedStep ==
  ASSUME NotStarted, [Next]_vars
  PROVE  NotStarted'
<1>1. /\ flags.numVals \in Int /\ flags.numDels \in Int /\ flags.numGovs \in Int
      /\ flags.numVals < 0 \/ flags.numDels < 0 \/ flags.numGovs < 0
  BY TallyGenesisAssumption DEF NotStarted, CountedFlags
<1>2. ~MintCoins
  <2>1. CASE flags.numVals < 0
    <3>1. ASSUME MintCoins PROVE FALSE
      <4>1. ~(flags.numVals < 1)
        BY <3>1, HasValidators DEF MintCoins
      <4> QED
        BY <1>1, <2>1, <4>1
    <3> QED
      BY <3>1
  <2>2. CASE flags.numDels < 0 \/ flags.numGovs < 0
    BY <1>1, <2>2 DEF MintCoins, CanStart, DelAddr, GovAddr, numAddrs
  <2> QED
    BY <1>1, <2>1, <2>2
<1>3. RefuseFlags \/ Panic \/ UNCHANGED vars
  BY <1>2
     DEF NotStarted, Next, FundAddress, EndLoop, Iterate, CreateValidator, BondValidators,
         DelegateOfGovernor, DelegateOfDelegator, SubmitProposal, Vote, Export, Fail,
         ShrinkVotes, ShrinkVotesPanics, Ended
<1>4. /\ UNCHANGED <<flags, i, j, valIdx, ledger, delegations, lastPower, votes, genesisVotes>>
      /\ step' \in {step, "error", "panic"}
  BY <1>3 DEF RefuseFlags, Panic, vars
<1>5. addrs' = addrs /\ valAddrs' = valAddrs /\ WrongFlags' = WrongFlags
  BY <1>4 DEF addrs, valAddrs, numAddrs, WrongFlags
<1>6. TypeOK'
  BY <1>4, <1>5 DEF NotStarted, TypeOK, ledger, Steps
<1>7. step' = "panic" => WrongFlags
  <2>1. CASE Panic
    <3>1. CASE step = "flags"
      <4>1. ~(flags.numVals < 1)
        BY <2>1, <3>1, HasValidators
      <4> QED
        BY <1>1, <4>1 DEF WrongFlags
    <3>2. CASE step # "flags"
      BY <2>1, <3>2 DEF Panic, Panics, NotStarted
    <3> QED
      BY <3>1, <3>2
  <2>2. CASE ~Panic
    BY <1>3, <2>2 DEF NotStarted, RefuseFlags, vars
  <2> QED
    BY <2>1, <2>2
<1> QED
  BY <1>4, <1>5, <1>6, <1>7 DEF NotStarted

LEMMA Invariant ==
  Spec => [](IInv \/ NotStarted)
<1>1. Init => IInv \/ NotStarted
  BY InvariantInit, NotStartedInit
<1>2. (IInv \/ NotStarted) /\ [Next]_vars => (IInv \/ NotStarted)'
  BY InvariantStep, NotStartedStep
<1> QED
  BY <1>1, <1>2, PTL DEF Spec

-----------------------------------------------------------------------------
(* The theorems.                                                           *)

\* Types hold, for any numbers of validators, delegators and governors
\* (tally_genesis.go:44-226).
THEOREM TypeCorrect ==
  Spec => []TypeOK
<1>1. IInv \/ NotStarted => TypeOK
  BY DEF IInv, Typed, NotStarted
<1> QED
  BY <1>1, Invariant, PTL

\* The command panics for its flags alone, whatever the amounts: every payment can
\* be made, and no genesis is made of wrong flags (tally_genesis.go:46-71, 210).
THEOREM PanicsCorrect ==
  Spec => []PanicsOnFlags
<1>1. IInv => PanicsOnFlags
  <2> SUFFICES ASSUME IInv PROVE PanicsOnFlags
    OBVIOUS
  <2>1. RightFlags /\ flags.numDels \in Nat /\ flags.numGovs \in Nat
    BY Sized DEF IInv, Typed
  <2> QED
    BY <2>1 DEF RightFlags, PanicsOnFlags, WrongFlags
<1>2. NotStarted => PanicsOnFlags
  BY DEF NotStarted, PanicsOnFlags
<1> QED
  BY <1>1, <1>2, Invariant, PTL

\* What was minted is with the module, the addresses, the validators or the
\* deposit, after every payment (tally_genesis.go:106-216).
THEOREM LedgerCorrect ==
  Spec => []Ledger
<1>1. IInv => Ledger
  BY DEF IInv, Going, Balance, Amounts, Ledger
<1>2. NotStarted => Ledger
  BY DEF NotStarted, Ledger
<1> QED
  BY <1>1, <1>2, Invariant, PTL

\* The tokens of every validator are its stake and one share of each of its turns
\* (tally_genesis.go:178-206).
THEOREM RoundsCorrect ==
  Spec => []RoundRobin
<1>1. IInv => RoundRobin
  BY DEF IInv, Going, Amounts, Rounds, Turns, RoundRobin
<1>2. NotStarted => RoundRobin
  BY DEF NotStarted, RoundRobin
<1> QED
  BY <1>1, <1>2, Invariant, PTL

\* Whoever else is bonded has less than what all addresses were minted for, of
\* which the node was given thrice.
LEMMA RestIsLess ==
  ASSUME IInv, DOMAIN lastPower # {}, NEW power, DOMAIN power = DOMAIN lastPower,
         power[0] \in Int, power[0] >= nodeAmt,
         \A v \in DOMAIN power : power[v] \in Nat /\ power[v] <= tokens[v]
  PROVE  NodeOver67(power)
<1> DEFINE D == DOMAIN power \ {0}
           others == [v \in D |-> power[v]]
<1>1. Typed /\ Power
  BY DEF IInv
<1>2. /\ 0 \in valAddrs /\ DOMAIN tokens = valAddrs /\ tokens[0] >= nodeAmt
      /\ SumFunction(tokens) < nodeAmt + totalAddrAmt /\ D \in SUBSET (valAddrs \ {0})
  BY <1>1 DEF Power, Typed, TypeOK
<1>3. IsFiniteSet(valAddrs) /\ \A v \in valAddrs : tokens[v] \in Nat
  BY <1>1, <1>2, SumTypes DEF Typed, TypeOK
<1>4. IsFiniteSet(valAddrs \ {0}) /\ IsFiniteSet(D)
  BY <1>2, <1>3, FS_Subset
<1>5. SumFunction(tokens) = tokens[0] + SumFunctionOnSet(tokens, valAddrs \ {0})
  <2>1. SumFunctionOnSet(tokens, valAddrs) = tokens[0] + SumFunctionOnSet(tokens, valAddrs \ {0})
    BY <1>2, <1>3, SumRemove
  <2> QED
    BY <1>2, <2>1 DEF SumFunction
<1>6. SumFunctionOnSet(tokens, D) <= SumFunctionOnSet(tokens, valAddrs \ {0})
  BY <1>2, <1>3, <1>4, SumSubset
<1>7. \A v \in D : others[v] \in Int /\ tokens[v] \in Int /\ others[v] <= tokens[v]
  BY <1>2, <1>3
<1>8. \A v \in D : others[v] \in Nat
  OBVIOUS
<1>9. SumFunction(others) = SumFunctionOnSet(others, D)
  BY DEF SumFunction
<1> HIDE DEF others, D
<1>10. SumFunctionOnSet(others, D) <= SumFunctionOnSet(tokens, D)
  BY <1>4, <1>7, SumMonotone
<1>11. /\ SumFunctionOnSet(others, D) \in Nat
       /\ SumFunctionOnSet(tokens, D) \in Int
       /\ SumFunctionOnSet(tokens, valAddrs \ {0}) \in Nat
       /\ tokens[0] \in Nat /\ nodeAmt \in Nat /\ totalAddrAmt \in Nat
  BY <1>1, <1>2, <1>3, <1>4, <1>7, <1>8, SumNat, SumInt, Sized DEF Typed, TypeOK
<1>12. SumFunctionOnSet(others, D) < totalAddrAmt
  BY <1>2, <1>5, <1>6, <1>10, <1>11
<1>13. nodeAmt = 3 * totalAddrAmt
  BY DEF nodeAmt
<1>14. 33 * power[0] > 67 * SumFunctionOnSet(others, D)
  BY <1>11, <1>12, <1>13
<1> QED
  BY <1>9, <1>14 DEF NodeOver67, others, D

\* The node has more than 67% of the power, however many validators are bonded and
\* whoever delegates to them (tally_genesis.go:143).
THEOREM NodeCorrect ==
  Spec => []NodeRunsAlone
<1>1. IInv => NodeRunsAlone
  <2> SUFFICES ASSUME IInv, DOMAIN lastPower # {}
               PROVE  /\ 0 \in DOMAIN lastPower /\ NodeOver67(lastPower)
                      /\ NodeOver67([v \in DOMAIN lastPower |-> tokens[v]])
    BY DEF NodeRunsAlone
  <2> DEFINE now == [v \in DOMAIN lastPower |-> tokens[v]]
  <2>1. Typed /\ nodeAmt \in Nat
    BY Sized DEF IInv, Typed, TypeOK
  <2>2. /\ 0 \in DOMAIN lastPower /\ lastPower[0] = nodeAmt /\ tokens[0] >= nodeAmt
        /\ DOMAIN tokens = valAddrs /\ DOMAIN lastPower \subseteq valAddrs
        /\ \A v \in DOMAIN lastPower : lastPower[v] <= tokens[v]
    BY <2>1 DEF IInv, Power, Typed, TypeOK
  <2>3. \A v \in DOMAIN lastPower : lastPower[v] \in Nat /\ tokens[v] \in Nat
    BY <2>1, <2>2 DEF Typed, TypeOK
  <2>4. NodeOver67(lastPower)
    BY <2>1, <2>2, <2>3, RestIsLess
  <2>5. /\ DOMAIN now = DOMAIN lastPower /\ now[0] \in Int /\ now[0] >= nodeAmt
        /\ \A v \in DOMAIN now : now[v] \in Nat /\ now[v] <= tokens[v]
    BY <2>2, <2>3
  <2> HIDE DEF now
  <2>6. NodeOver67(now)
    BY <2>5, RestIsLess
  <2> QED
    BY <2>2, <2>4, <2>6 DEF now
<1>2. NotStarted => NodeRunsAlone
  BY DEF NotStarted, NodeRunsAlone
<1> QED
  BY <1>1, <1>2, Invariant, PTL

\* The votes of the genesis are those of the accounts that delegated, each once and
\* as it was cast; cutting them keeps this, and all of them count when every
\* validator is bonded (tally_genesis.go:219-226, shrink_votes.go:34).
THEOREM VotesCorrect ==
  Spec => []VotesCount
<1>1. IInv => VotesCount
  <2> SUFFICES ASSUME IInv, step \in {"exported", "shrunk"}
               PROVE  VotesCount
    BY DEF VotesCount
  <2>1. Typed /\ Amounts /\ Polled /\ Bonded /\ Control
    BY DEF IInv, Going
  <2>2. /\ flags.numVals \in Nat /\ flags.numDels \in Nat /\ flags.numGovs \in Nat
        /\ numAddrs = flags.numVals + flags.numDels + flags.numGovs
        /\ NumDelegsPerDelegator \in Nat \ {0}
    BY <2>1, Sized, TallyGenesisAssumption DEF Typed, TypeOK
  <2>3. DOMAIN votes = {a \in addrs : delegations[a] # <<>>}
    <3>1. \A a \in addrs : Dealt(a) = IF a < flags.numVals THEN 0 ELSE NumDelegsPerDelegator
      BY <2>2 DEF Dealt, DealtIn, AfterBond, AfterFund
    <3>2. \A a \in addrs : delegations[a] # <<>> <=> Len(delegations[a]) # 0
      BY <2>1 DEF Typed, TypeOK
    <3>3. \A a \in addrs : delegations[a] # <<>> <=> a >= flags.numVals
      BY <2>1, <2>2, <3>1, <3>2 DEF Amounts, addrs
    <3>4. DOMAIN votes = flags.numVals .. numAddrs - 1
      BY <2>1, <2>2 DEF Polled, AfterVote, DelAddr
    <3> QED
      BY <2>2, <3>3, <3>4 DEF addrs
  <2>4. \A a \in addrs : ToSet(delegations[a]) \subseteq valAddrs
    BY <2>1 DEF Typed, TypeOK, ToSet
  <2>5. flags.numVals <= MaxValidators => DOMAIN lastPower = valAddrs
    BY <2>1 DEF Bonded, AfterBond, AfterFund
  <2>6. \A k \in DOMAIN genesisVotes : genesisVotes[k].voter \in addrs
    BY <2>1, <2>3 DEF Polled
  <2> QED
    BY <2>1, <2>3, <2>4, <2>5, <2>6 DEF Polled, VotesCount
<1>2. NotStarted => VotesCount
  BY DEF NotStarted, VotesCount
<1> QED
  BY <1>1, <1>2, Invariant, PTL

=============================================================================
