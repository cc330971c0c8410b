---------------------------- MODULE GovBoxProofs ---------------------------
(***************************************************************************)
(* From the snapshot to the genesis, for every snapshot: the accounts are  *)
(* those of the addresses the two loops have reached, the airdrop is that  *)
(* of these accounts, and the genesis is the airdrop in order.             *)
(***************************************************************************)
EXTENDS GovBox, SnapshotProofs

-----------------------------------------------------------------------------
(* The files and the accounts made of them.                                *)

Delegation ==
  [ValidatorAddress : Operator, Amount : Nat, Vote : Ballots \cup {NoVote}]

Account ==
  [Address : Address, LiquidAmount : Nat, StakedAmount : Nat,
   Vote : Ballots \cup {NoVote}, Delegations : Seq(Delegation)]

FilesOK ==
  /\ votesByAddr \in [DOMAIN votesByAddr -> Ballots]
  /\ DOMAIN delegsByAddr \subseteq Address
  /\ \A a \in DOMAIN delegsByAddr :
       /\ delegsByAddr[a] \in Seq(Range(delegsByAddr[a]))
       /\ \A i \in DOMAIN delegsByAddr[a] : delegsByAddr[a][i].shares \in Nat
  /\ DOMAIN valsByAddr \subseteq Operator
  /\ valsByAddr \in [DOMAIN valsByAddr -> Validator]
  /\ DOMAIN balancesByAddr \subseteq Address
  /\ balancesByAddr \in [DOMAIN balancesByAddr -> Nat]
  /\ accountTypes \in TypeFiles

\* The delegations of an address to active validators, as they are listed.
Active(a) ==
  {i \in DOMAIN delegsByAddr[a] : delegsByAddr[a][i].validator \in DOMAIN valsByAddr}
DelegationsFor(a) ==
  IF a \in DOMAIN delegsByAddr
  THEN [k \in 1..Cardinality(Active(a)) |->
          DelegationOf(delegsByAddr[a][Nth(Active(a), k)])]
  ELSE <<>>
VoteFor(a) ==
  IF a \in DOMAIN delegsByAddr THEN Lookup(votesByAddr, a, NoVote) ELSE NoVote

\* The balance an account has so far.
LiquidFor(a) ==
  IF stage \in {"not parsed", "delegators"} \/ a \in todo THEN 0 ELSE FromInt(Lookup(balancesByAddr, a, 0))

Reached ==
  IF stage \in {"not parsed", "delegators"} THEN DOMAIN delegsByAddr \ todo
  ELSE DOMAIN delegsByAddr \cup (DOMAIN balancesByAddr \ todo)

IsAccountFor(acc, a) ==
  /\ acc \in Account
  /\ acc.Address = a
  /\ acc.LiquidAmount = LiquidFor(a)
  /\ acc.Vote = VoteFor(a)
  /\ acc.Delegations = DelegationsFor(a)
  /\ acc.StakedAmount = SumAmounts(DelegationsFor(a))

\* The loops have made the accounts of the addresses they reached.
LoopsInv ==
  /\ stage \in {"not parsed", "delegators", "balances", "written"}
  /\ stage \in {"not parsed", "delegators"} => todo \subseteq DOMAIN delegsByAddr
  /\ stage = "balances" => todo \subseteq DOMAIN balancesByAddr
  /\ stage = "written" => todo = {}
  /\ DOMAIN accountsByAddr = {a \in Reached : ~IsIgnored(a)}
  /\ \A a \in DOMAIN accountsByAddr : IsAccountFor(accountsByAddr[a], a)
  /\ stage = "written" =>
       accounts = [i \in DOMAIN Sorted(DOMAIN accountsByAddr, AddressOrder) |->
                     accountsByAddr[Sorted(DOMAIN accountsByAddr, AddressOrder)[i]]]

MadeInv == FilesOK /\ LoopsInv

-----------------------------------------------------------------------------
\* The balances that are asked for, each of an address of the file.
LEMMA ParsedBalances ==
  ASSUME NEW file \in BalanceFiles
  PROVE  LET held == ParseBalancesByAddr(file, "uatom")
         IN  DOMAIN held \subseteq Address /\ held \in [DOMAIN held -> Nat]
<1> DEFINE held == ParseBalancesByAddr(file, "uatom")
           big == {j \in DOMAIN file : "uatom" \in DOMAIN file[j].coins}
           last(a) == CHOOSE i \in DOMAIN file :
                        /\ "uatom" \in DOMAIN file[i].coins /\ file[i].address = a
                        /\ \A j \in DOMAIN file :
                             "uatom" \in DOMAIN file[j].coins /\ file[j].address = a => j <= i
<1>1. /\ DOMAIN file \subseteq Nat
      /\ \A i \in DOMAIN file :
           /\ file[i].address \in Address
           /\ file[i].coins \in [DOMAIN file[i].coins -> Nat \ {0}]
      /\ \A i, j \in DOMAIN file : file[i].address = file[j].address => i = j
  BY BalancesAssumption, FileDomain
<1>2. held = [a \in {file[i].address : i \in big} |-> file[last(a)].coins["uatom"]]
  <2>1. "uatom" # ""
    OBVIOUS
  <2> QED
    BY <2>1 DEF ParseBalancesByAddr, LastIndex
<1>3. \A i \in big : last(file[i].address) = i
  <2> SUFFICES ASSUME NEW i \in big PROVE last(file[i].address) = i
    OBVIOUS
  <2>1. i <= i
    BY <1>1
  <2> QED
    BY <1>1, <2>1
<1>4. \A i \in big : file[i].address \in Address /\ file[i].coins["uatom"] \in Nat
  <2> SUFFICES ASSUME NEW i \in big
               PROVE  file[i].address \in Address /\ file[i].coins["uatom"] \in Nat
    OBVIOUS
  <2> DEFINE coins == file[i].coins
  <2>1. coins \in [DOMAIN coins -> Nat \ {0}] /\ "uatom" \in DOMAIN coins
    BY <1>1
  <2> HIDE DEF coins
  <2>2. coins["uatom"] \in Nat
    BY <2>1
  <2> QED
    BY <1>1, <2>2 DEF coins
<1> HIDE DEF last, held, big
<1>5. \A a \in DOMAIN held : a \in Address /\ held[a] \in Nat
  BY <1>2, <1>3, <1>4
<1>6. held = [a \in DOMAIN held |-> held[a]]
  BY <1>2
<1> QED
  BY <1>5, <1>6 DEF held

LEMMA IndicesOf ==
  ASSUME FilesOK, NEW a \in DOMAIN delegsByAddr
  PROVE  /\ IsFiniteSet(DOMAIN delegsByAddr[a])
         /\ DOMAIN delegsByAddr[a] \subseteq Nat
         /\ DOMAIN delegsByAddr[a] = 1..Len(delegsByAddr[a])
         /\ Len(delegsByAddr[a]) \in Nat
         /\ Active(a) \subseteq DOMAIN delegsByAddr[a]
         /\ IsFiniteSet(Active(a))
         /\ Active(a) \subseteq Int
<1>1. /\ IsFiniteSet(DOMAIN delegsByAddr[a])
      /\ DOMAIN delegsByAddr[a] \subseteq Nat
      /\ DOMAIN delegsByAddr[a] = 1..Len(delegsByAddr[a])
      /\ Len(delegsByAddr[a]) \in Nat
  BY FileDomain DEF FilesOK
<1>2. Active(a) \subseteq DOMAIN delegsByAddr[a]
  BY DEF Active
<1> QED
  BY <1>1, <1>2, FS_Subset

LEMMA PowerNat ==
  ASSUME NEW shares \in Nat, NEW val \in Validator
  PROVE  VotingPower(shares, val) \in Nat
<1>1. val.BondedTokens \in Nat /\ val.DelegatorShares \in Nat \ {0}
  BY DEF Validator
<1>2. shares * val.BondedTokens \in Nat
  BY <1>1
<1> QED
  BY <1>1, <1>2, QuoNat DEF VotingPower, MulInt

LEMMA DelegationType ==
  ASSUME FilesOK, NEW a \in DOMAIN delegsByAddr, NEW i \in Active(a)
  PROVE  /\ DelegationOf(delegsByAddr[a][i]) \in Delegation
         /\ DelegationOf(delegsByAddr[a][i]).Amount
              = VotingPower(delegsByAddr[a][i].shares,
                            valsByAddr[delegsByAddr[a][i].validator])
<1> DEFINE del == delegsByAddr[a][i]
           val == valsByAddr[del.validator]
<1>1. /\ i \in DOMAIN delegsByAddr[a]
      /\ del.validator \in DOMAIN valsByAddr
  BY DEF Active
<1>2. del.shares \in Nat /\ del.validator \in Operator /\ val \in Validator
  BY <1>1 DEF FilesOK
<1>3. VotingPower(del.shares, val) \in Nat
  BY <1>2, PowerNat
<1>4. val.Vote \in Ballots \cup {NoVote}
  BY <1>2 DEF Validator
<1>5. DelegationOf(del) = [ValidatorAddress |-> del.validator,
                           Amount           |-> VotingPower(del.shares, val),
                           Vote             |-> val.Vote]
  BY DEF DelegationOf
<1> HIDE DEF del, val
<1> QED
  BY <1>2, <1>3, <1>4, <1>5 DEF Delegation, del, val

\* What each active delegation of an address is worth.
Power(a) == [i \in Active(a) |-> DelegationOf(delegsByAddr[a][i]).Amount]

LEMMA StakeParts ==
  ASSUME FilesOK, NEW a \in DOMAIN delegsByAddr
  PROVE  /\ IsFiniteSet(Active(a))
         /\ \A i \in Active(a) : Power(a)[i] \in Nat
         /\ StakeOf(a) = SumFunctionOnSet(Power(a), Active(a))
<1> DEFINE I == DOMAIN delegsByAddr[a]
           at == Active(a)
           power == Power(a)
           staked == [i \in I |->
                        LET del == delegsByAddr[a][i]
                        IN  IF del.validator \in DOMAIN valsByAddr
                            THEN VotingPower(del.shares, valsByAddr[del.validator]) ELSE 0]
<1>1. IsFiniteSet(I) /\ at \subseteq I /\ IsFiniteSet(at)
  BY IndicesOf
<1>2. \A i \in at : power[i] \in Nat /\ staked[i] = power[i]
  <2> TAKE i \in at
  <2>1. /\ DelegationOf(delegsByAddr[a][i]) \in Delegation
        /\ power[i] = VotingPower(delegsByAddr[a][i].shares,
                                  valsByAddr[delegsByAddr[a][i].validator])
    BY DelegationType DEF Power
  <2>2. power[i] \in Nat
    BY <2>1 DEF Delegation, Power
  <2>3. i \in I /\ delegsByAddr[a][i].validator \in DOMAIN valsByAddr
    BY DEF Active
  <2> QED
    BY <2>1, <2>2, <2>3
<1>3. \A i \in I \ at : staked[i] = 0
  BY DEF Active
<1>4. StakeOf(a) = SumFunctionOnSet(staked, I)
  <2>1. Lookup(delegsByAddr, a, <<>>) = delegsByAddr[a]
    BY DEF Lookup
  <2> QED
    BY <2>1 DEF StakeOf, SumFunction
<1> HIDE DEF I, at, power, staked
<1>5. SumFunctionOnSet(staked, I) = SumFunctionOnSet(power, at)
  BY <1>1, <1>2, <1>3, SumPart
<1> QED
  BY <1>1, <1>2, <1>4, <1>5 DEF at, power

\* What an account has staked is all the stake of its address.
LEMMA Staked ==
  ASSUME FilesOK, NEW a
  PROVE  /\ DelegationsFor(a) \in Seq(Delegation)
         /\ SumAmounts(DelegationsFor(a)) \in Nat
         /\ SumAmounts(DelegationsFor(a)) = StakeOf(a)
<1>1. CASE a \notin DOMAIN delegsByAddr
  <2>1. DelegationsFor(a) = <<>> /\ Lookup(delegsByAddr, a, <<>>) = <<>>
    BY <1>1 DEF DelegationsFor, Lookup
  <2>2. DOMAIN (<<>>) = {}
    OBVIOUS
  <2>3. SumAmounts(DelegationsFor(a)) = 0
    BY <2>1, <2>2, SumEmpty DEF SumAmounts, SumFunction
  <2>4. StakeOf(a) = 0
    BY <2>1, <2>2, SumEmpty DEF StakeOf, SumFunction
  <2> QED
    BY <2>1, <2>3, <2>4
<1>2. CASE a \in DOMAIN delegsByAddr
  <2> DEFINE at == Active(a)
             n == Cardinality(at)
             listed == [k \in 1..n |-> DelegationOf(delegsByAddr[a][Nth(at, k)])]
             amount == Power(a)
             nth == [k \in 1..n |-> amount[Nth(at, k)]]
  <2>1. IsFiniteSet(at) /\ at \subseteq Int
    BY <1>2, IndicesOf
  <2>2. /\ n \in Nat
        /\ \A k \in 1..n : Nth(at, k) \in at
    BY <2>1, NthLists
  <2>3. DelegationsFor(a) = listed
    BY <1>2 DEF DelegationsFor
  <2>4. /\ \A i \in at : DelegationOf(delegsByAddr[a][i]) \in Delegation
        /\ \A i \in at : amount[i] \in Nat
        /\ StakeOf(a) = SumFunctionOnSet(amount, at)
    BY <1>2, StakeParts, DelegationType
  <2>6. listed \in Seq(Delegation)
    <3>1. \A k \in 1..n : DelegationOf(delegsByAddr[a][Nth(at, k)]) \in Delegation
      <4> HIDE DEF at, n
      <4> QED
        BY <2>2, <2>4
    <3> HIDE DEF at, n
    <3>2. listed \in [1..n -> Delegation]
      BY <3>1
    <3> QED
      BY <2>2, <3>2
  <2>7. SumAmounts(listed) = SumFunction(nth)
    <3>1. DOMAIN listed = 1..n
      OBVIOUS
    <3>2. \A k \in 1..n : listed[k].Amount = amount[Nth(at, k)]
      BY <2>2 DEF Power
    <3> HIDE DEF listed, amount, at, n
    <3>3. [k \in DOMAIN listed |-> listed[k].Amount] = nth
      BY <3>1, <3>2
    <3> QED
      BY <3>3 DEF SumAmounts
  <2> HIDE DEF at, amount, listed
  <2>9. SumFunction(nth) = SumFunctionOnSet(amount, at)
    <3>1. \A i \in at : amount[i] \in Int
      BY <2>4
    <3> HIDE DEF nth, n
    <3>2. SumFunction([k \in 1..Cardinality(at) |-> amount[Nth(at, k)]])
            = SumFunctionOnSet(amount, at)
      BY <2>1, <3>1, SublistSum
    <3> QED
      BY <3>2 DEF nth, n
  <2>11. SumFunctionOnSet(amount, at) \in Nat
    BY <2>1, <2>4, SumNat
  <2> HIDE DEF nth
  <2> QED
    BY <2>3, <2>4, <2>6, <2>7, <2>9, <2>11
<1> QED
  BY <1>1, <1>2

\* The code computes the same delegations.
LEMMA DelegatorAccountIs ==
  ASSUME FilesOK, NEW a \in DOMAIN delegsByAddr
  PROVE  DelegatorAccount(a) =
           [Address      |-> a,
            LiquidAmount |-> 0,
            StakedAmount |-> SumAmounts(DelegationsFor(a)),
            Vote         |-> VoteFor(a),
            Delegations  |-> DelegationsFor(a)]
<1> DEFINE active == Sublist(delegsByAddr[a], Active(a))
           delegations == [i \in DOMAIN active |-> DelegationOf(active[i])]
<1>1. DelegatorAccount(a) =
        [Address      |-> a,
         LiquidAmount |-> 0,
         StakedAmount |-> SumAmounts(delegations),
         Vote         |-> Lookup(votesByAddr, a, NoVote),
         Delegations  |-> delegations]
  BY DEF DelegatorAccount, Active
<1>2. delegations = DelegationsFor(a)
  <2>1. active = [k \in 1..Cardinality(Active(a)) |-> delegsByAddr[a][Nth(Active(a), k)]]
    BY DEF Sublist
  <2> HIDE DEF active
  <2>2. DOMAIN active = 1..Cardinality(Active(a))
    BY <2>1
  <2>3. delegations = [k \in 1..Cardinality(Active(a)) |->
                         DelegationOf(delegsByAddr[a][Nth(Active(a), k)])]
    BY <2>1, <2>2
  <2> QED
    BY <2>3 DEF DelegationsFor
<1> HIDE DEF delegations
<1> QED
  BY <1>1, <1>2 DEF VoteFor

-----------------------------------------------------------------------------
(* The two loops.                                                          *)

LEMMA MadeInit ==
  ASSUME AccountsInit
  PROVE  MadeInv
<1> PICK votes \in VotesFiles, delegs \in DelegationFiles, bals \in BalanceFiles,
         types \in TypeFiles :
      \E vals \in ValidatorFiles[delegs] :
         /\ votesByAddr = ParseVotesByAddr(votes)
         /\ delegsByAddr = ParseDelegationsByAddr(delegs)
         /\ valsByAddr = ParseValidatorsByAddr(vals, votesByAddr)
         /\ balancesByAddr = ParseBalancesByAddr(bals, "uatom")
         /\ accountTypes = types
  BY DEF AccountsInit
<1> PICK vals \in ValidatorFiles[delegs] :
         /\ votesByAddr = ParseVotesByAddr(votes)
         /\ delegsByAddr = ParseDelegationsByAddr(delegs)
         /\ valsByAddr = ParseValidatorsByAddr(vals, votesByAddr)
         /\ balancesByAddr = ParseBalancesByAddr(bals, "uatom")
         /\ accountTypes = types
  OBVIOUS
<1>1. votesByAddr \in [DOMAIN votesByAddr -> Ballots]
  BY ParsedVotes
<1>2. /\ DOMAIN delegsByAddr \subseteq Address
      /\ \A a \in DOMAIN delegsByAddr :
           /\ delegsByAddr[a] \in Seq(Range(delegsByAddr[a]))
           /\ \A i \in DOMAIN delegsByAddr[a] : delegsByAddr[a][i].shares \in Nat
  BY ParsedDelegations
<1>3. DOMAIN valsByAddr \subseteq Operator /\ valsByAddr \in [DOMAIN valsByAddr -> Validator]
  BY <1>1, ParsedValidators
<1>4. /\ DOMAIN balancesByAddr \subseteq Address
      /\ balancesByAddr \in [DOMAIN balancesByAddr -> Nat]
  BY ParsedBalances
<1>5. FilesOK
  BY <1>1, <1>2, <1>3, <1>4 DEF FilesOK
<1>6. /\ stage \in {"not parsed", "delegators"} /\ todo = DOMAIN delegsByAddr
      /\ DOMAIN accountsByAddr = {}
  BY DEF AccountsInit
<1>7. Reached = {}
  BY <1>6 DEF Reached
<1>8. LoopsInv
  BY <1>6, <1>7 DEF LoopsInv
<1> QED
  BY <1>5, <1>8 DEF MadeInv

\* What does not change with the files.
LEMMA FilesFrame ==
  ASSUME FilesOK, UNCHANGED files
  PROVE  /\ FilesOK'
         /\ \A a : /\ DelegationsFor(a)' = DelegationsFor(a)
                   /\ VoteFor(a)' = VoteFor(a)
                   /\ IsIgnored(a)' = IsIgnored(a)
<1>1. /\ votesByAddr' = votesByAddr /\ delegsByAddr' = delegsByAddr
      /\ valsByAddr' = valsByAddr /\ balancesByAddr' = balancesByAddr
      /\ accountTypes' = accountTypes
  BY DEF files
<1>2. FilesOK'
  BY <1>1 DEF FilesOK
<1>3. ASSUME NEW a
      PROVE  /\ DelegationsFor(a)' = DelegationsFor(a)
             /\ VoteFor(a)' = VoteFor(a)
             /\ IsIgnored(a)' = IsIgnored(a)
  <2>1. Active(a)' = Active(a)
    BY <1>1 DEF Active
  <2>2. DelegationsFor(a)' = DelegationsFor(a)
    BY <1>1, <2>1 DEF DelegationsFor, DelegationOf
  <2>3. VoteFor(a)' = VoteFor(a)
    BY <1>1 DEF VoteFor
  <2> QED
    BY <1>1, <2>2, <2>3 DEF IsIgnored
<1> QED
  BY <1>2, <1>3

LEMMA AmountsFrame ==
  ASSUME NEW a, DelegationsFor(a)' = DelegationsFor(a)
  PROVE  SumAmounts(DelegationsFor(a))' = SumAmounts(DelegationsFor(a))
BY DEF SumAmounts

\* An account stays right if the files, and whether its balance was reached,
\* do not change.
LEMMA AccountFrame ==
  ASSUME FilesOK, UNCHANGED files, NEW a, LiquidFor(a)' = LiquidFor(a),
         NEW acc, IsAccountFor(acc, a)
  PROVE  /\ acc \in Account
         /\ acc.Address = a
         /\ acc.LiquidAmount = LiquidFor(a)'
         /\ acc.Vote = VoteFor(a)'
         /\ acc.Delegations = DelegationsFor(a)'
         /\ acc.StakedAmount = SumAmounts(DelegationsFor(a))'
<1>1. /\ DelegationsFor(a)' = DelegationsFor(a)
      /\ VoteFor(a)' = VoteFor(a)
  BY FilesFrame
<1>2. SumAmounts(DelegationsFor(a))' = SumAmounts(DelegationsFor(a))
  BY <1>1, AmountsFrame
<1> QED
  BY <1>1, <1>2 DEF IsAccountFor

\* One more address is reached.
LEMMA ReachedStep ==
  ASSUME MadeInv, UNCHANGED files, stage \in {"delegators", "balances"}, stage' = stage,
         NEW a \in todo, todo' = todo \ {a}
  PROVE  /\ Reached' = Reached \cup {a}
         /\ \A b : b # a => LiquidFor(b)' = LiquidFor(b)
         /\ stage = "delegators" => LiquidFor(a)' = 0
         /\ stage = "balances" => /\ a \in DOMAIN balancesByAddr
                                  /\ LiquidFor(a)' = FromInt(balancesByAddr[a])
<1>1. /\ delegsByAddr' = delegsByAddr /\ balancesByAddr' = balancesByAddr
      /\ stage = "delegators" => todo \subseteq DOMAIN delegsByAddr
      /\ stage = "balances" => todo \subseteq DOMAIN balancesByAddr
  BY DEF MadeInv, LoopsInv, files
<1>2. Reached' = Reached \cup {a}
  BY <1>1 DEF Reached
<1>3. \A b : b # a => LiquidFor(b)' = LiquidFor(b)
  BY <1>1 DEF LiquidFor
<1>4. stage = "delegators" => LiquidFor(a)' = 0
  BY DEF LiquidFor
<1>5. stage = "balances" => /\ a \in DOMAIN balancesByAddr
                            /\ LiquidFor(a)' = FromInt(balancesByAddr[a])
  BY <1>1 DEF LiquidFor, Lookup
<1> QED
  BY <1>2, <1>3, <1>4, <1>5

\* An account is stored for an address of the range that is not left out.
LEMMA StoreStep ==
  ASSUME MadeInv, UNCHANGED files, stage \in {"delegators", "balances"}, stage' = stage,
         NEW a \in todo, todo' = todo \ {a}, ~IsIgnored(a), NEW acc, Store(a, acc),
         acc \in Account, acc.Address = a, acc.LiquidAmount = LiquidFor(a)',
         acc.Vote = VoteFor(a), acc.Delegations = DelegationsFor(a),
         acc.StakedAmount = SumAmounts(DelegationsFor(a))
  PROVE  MadeInv'
<1>1. FilesOK /\ LoopsInv
  BY DEF MadeInv
<1>2. /\ FilesOK'
      /\ DelegationsFor(a)' = DelegationsFor(a)
      /\ VoteFor(a)' = VoteFor(a)
      /\ \A b : IsIgnored(b)' = IsIgnored(b)
  BY <1>1, FilesFrame
<1>3. SumAmounts(DelegationsFor(a))' = SumAmounts(DelegationsFor(a))
  BY <1>2, AmountsFrame
<1>4. Reached' = Reached \cup {a} /\ \A b : b # a => LiquidFor(b)' = LiquidFor(b)
  BY ReachedStep
<1>5. /\ DOMAIN accountsByAddr' = DOMAIN accountsByAddr \cup {a}
      /\ accountsByAddr'[a] = acc
      /\ \A b \in DOMAIN accountsByAddr : b # a => accountsByAddr'[b] = accountsByAddr[b]
  BY DEF Store
<1>6. DOMAIN accountsByAddr' = {b \in Reached' : ~IsIgnored(b)'}
  BY <1>1, <1>2, <1>4, <1>5 DEF LoopsInv
<1>7. IsAccountFor(accountsByAddr[a], a)'
  BY <1>2, <1>3, <1>5 DEF IsAccountFor
<1>8. ASSUME NEW b \in DOMAIN accountsByAddr, b # a
      PROVE  IsAccountFor(accountsByAddr[b], b)'
  <2>1. IsAccountFor(accountsByAddr[b], b)
    BY <1>1 DEF LoopsInv
  <2>2. LiquidFor(b)' = LiquidFor(b)
    BY <1>4, <1>8
  <2> DEFINE held == accountsByAddr[b]
  <2>3. /\ held \in Account
        /\ held.Address = b
        /\ held.LiquidAmount = LiquidFor(b)'
        /\ held.Vote = VoteFor(b)'
        /\ held.Delegations = DelegationsFor(b)'
        /\ held.StakedAmount = SumAmounts(DelegationsFor(b))'
    <3> HIDE DEF held
    <3>1. IsAccountFor(held, b)
      BY <2>1 DEF held
    <3> QED
      BY <1>1, <2>2, <3>1, AccountFrame
  <2>4. accountsByAddr'[b] = held
    BY <1>5, <1>8
  <2> HIDE DEF held
  <2> QED
    BY <2>3, <2>4 DEF IsAccountFor
<1>9. /\ stage' \in {"delegators", "balances"}
      /\ stage' = "delegators" => todo' \subseteq DOMAIN delegsByAddr'
      /\ stage' = "balances" => todo' \subseteq DOMAIN balancesByAddr'
  BY <1>1 DEF LoopsInv, files
<1>10. \A b \in DOMAIN accountsByAddr' : IsAccountFor(accountsByAddr[b], b)'
  BY <1>5, <1>7, <1>8
<1>11. LoopsInv'
  BY <1>6, <1>9, <1>10 DEF LoopsInv
<1> QED
  BY <1>2, <1>11 DEF MadeInv

\* The accounts that were made stay right if no address of theirs is reached.
LEMMA KeptStep ==
  ASSUME MadeInv, UNCHANGED <<files, accountsByAddr>>,
         \A b \in DOMAIN accountsByAddr : LiquidFor(b)' = LiquidFor(b),
         {b \in Reached' : ~IsIgnored(b)} = {b \in Reached : ~IsIgnored(b)},
         stage' \in {"delegators", "balances"},
         stage' = "delegators" => todo' \subseteq DOMAIN delegsByAddr,
         stage' = "balances" => todo' \subseteq DOMAIN balancesByAddr
  PROVE  MadeInv'
<1>1. FilesOK /\ LoopsInv
  BY DEF MadeInv
<1>2. FilesOK' /\ \A b : IsIgnored(b)' = IsIgnored(b)
  BY <1>1, FilesFrame
<1>3. delegsByAddr' = delegsByAddr /\ balancesByAddr' = balancesByAddr
  BY DEF files
<1>4. DOMAIN accountsByAddr' = {b \in Reached' : ~IsIgnored(b)'}
  BY <1>1, <1>2 DEF LoopsInv
<1>5. ASSUME NEW b \in DOMAIN accountsByAddr
      PROVE  IsAccountFor(accountsByAddr[b], b)'
  <2> DEFINE held == accountsByAddr[b]
  <2>1. IsAccountFor(held, b)
    BY <1>1 DEF LoopsInv
  <2>2. LiquidFor(b)' = LiquidFor(b) /\ accountsByAddr'[b] = held
    OBVIOUS
  <2> HIDE DEF held
  <2>3. /\ held \in Account
        /\ held.Address = b
        /\ held.LiquidAmount = LiquidFor(b)'
        /\ held.Vote = VoteFor(b)'
        /\ held.Delegations = DelegationsFor(b)'
        /\ held.StakedAmount = SumAmounts(DelegationsFor(b))'
    BY <1>1, <2>1, <2>2, AccountFrame
  <2> QED
    BY <2>2, <2>3 DEF IsAccountFor
<1>6. LoopsInv'
  BY <1>3, <1>4, <1>5 DEF LoopsInv
<1> QED
  BY <1>2, <1>6 DEF MadeInv

LEMMA VoteForType ==
  ASSUME FilesOK, NEW a
  PROVE  VoteFor(a) \in Ballots \cup {NoVote}
BY DEF FilesOK, VoteFor, Lookup

LEMMA IgnoreStep ==
  ASSUME MadeInv, NEW a \in Address, IgnoreAddress(a)
  PROVE  MadeInv'
<1>1. /\ stage \in {"delegators", "balances"} /\ stage' = stage
      /\ a \in todo \ DOMAIN accountsByAddr /\ IsIgnored(a)
      /\ todo' = todo \ {a} /\ UNCHANGED <<files, accountsByAddr>>
  BY DEF IgnoreAddress
<1>2. Reached' = Reached \cup {a} /\ \A b : b # a => LiquidFor(b)' = LiquidFor(b)
  BY <1>1, ReachedStep
<1>3. \A b \in DOMAIN accountsByAddr : LiquidFor(b)' = LiquidFor(b)
  BY <1>1, <1>2
<1>4. {b \in Reached' : ~IsIgnored(b)} = {b \in Reached : ~IsIgnored(b)}
  BY <1>1, <1>2
<1>5. /\ stage' = "delegators" => todo' \subseteq DOMAIN delegsByAddr
      /\ stage' = "balances" => todo' \subseteq DOMAIN balancesByAddr
  BY <1>1 DEF MadeInv, LoopsInv
<1> QED
  BY <1>1, <1>3, <1>4, <1>5, KeptStep

LEMMA DelegatorStep ==
  ASSUME MadeInv, NEW a \in Address, FeedDelegator(a)
  PROVE  MadeInv'
<1> DEFINE acc == DelegatorAccount(a)
<1>1. /\ stage = "delegators" /\ stage' = stage /\ a \in todo /\ ~IsIgnored(a)
      /\ Store(a, acc) /\ todo' = todo \ {a} /\ UNCHANGED files
  BY DEF FeedDelegator
<1>2. FilesOK /\ a \in DOMAIN delegsByAddr
  BY <1>1 DEF MadeInv, LoopsInv
<1>3. acc = [Address      |-> a,
             LiquidAmount |-> 0,
             StakedAmount |-> SumAmounts(DelegationsFor(a)),
             Vote         |-> VoteFor(a),
             Delegations  |-> DelegationsFor(a)]
  BY <1>2, DelegatorAccountIs
<1>4. /\ DelegationsFor(a) \in Seq(Delegation)
      /\ SumAmounts(DelegationsFor(a)) \in Nat
      /\ VoteFor(a) \in Ballots \cup {NoVote}
  BY <1>2, Staked, VoteForType
<1>5. LiquidFor(a)' = 0
  BY <1>1, ReachedStep
<1> HIDE DEF acc
<1>6. acc \in Account
  BY <1>3, <1>4 DEF Account
<1>7. /\ acc.Address = a /\ acc.LiquidAmount = LiquidFor(a)' /\ acc.Vote = VoteFor(a)
      /\ acc.Delegations = DelegationsFor(a)
      /\ acc.StakedAmount = SumAmounts(DelegationsFor(a))
  BY <1>3, <1>5
<1> QED
  BY <1>1, <1>6, <1>7, StoreStep

LEMMA HolderStep ==
  ASSUME MadeInv, NEW a \in Address, FeedHolder(a)
  PROVE  MadeInv'
<1> DEFINE acc == HolderAccount(a)
<1>1. /\ stage = "balances" /\ stage' = stage /\ a \in todo \ DOMAIN accountsByAddr
      /\ ~IsIgnored(a) /\ Store(a, acc) /\ todo' = todo \ {a} /\ UNCHANGED files
  BY DEF FeedHolder
<1>2. FilesOK /\ LoopsInv
  BY DEF MadeInv
<1>3. a \notin DOMAIN delegsByAddr
  BY <1>1, <1>2 DEF LoopsInv, Reached
<1>4. DelegationsFor(a) = <<>> /\ VoteFor(a) = NoVote
  BY <1>3 DEF DelegationsFor, VoteFor
<1>5. SumAmounts(DelegationsFor(a)) = 0
  <2>1. DOMAIN (<<>>) = {}
    OBVIOUS
  <2> QED
    BY <1>4, <2>1, SumEmpty DEF SumAmounts, SumFunction
<1>6. LiquidFor(a)' = FromInt(balancesByAddr[a]) /\ a \in DOMAIN balancesByAddr
  BY <1>1, ReachedStep
<1>7. FromInt(balancesByAddr[a]) \in Nat
  <2>1. balancesByAddr[a] \in Nat
    BY <1>2, <1>6 DEF FilesOK
  <2> QED
    BY <2>1, OneAssumption DEF FromInt
<1>8. acc = [Address      |-> a,
             LiquidAmount |-> LiquidFor(a)',
             StakedAmount |-> 0,
             Vote         |-> VoteFor(a),
             Delegations  |-> DelegationsFor(a)]
  BY <1>4, <1>6 DEF HolderAccount
<1>9. VoteFor(a) \in Ballots \cup {NoVote} /\ DelegationsFor(a) \in Seq(Delegation)
  BY <1>2, VoteForType, Staked
<1> HIDE DEF acc
<1>10. acc \in Account
  BY <1>6, <1>7, <1>8, <1>9 DEF Account
<1>11. /\ acc.Address = a /\ acc.LiquidAmount = LiquidFor(a)' /\ acc.Vote = VoteFor(a)
       /\ acc.Delegations = DelegationsFor(a)
       /\ acc.StakedAmount = SumAmounts(DelegationsFor(a))
  BY <1>5, <1>8
<1> QED
  BY <1>1, <1>10, <1>11, StoreStep

LEMMA BalanceStep ==
  ASSUME MadeInv, NEW a \in Address, FeedBalance(a)
  PROVE  MadeInv'
<1> DEFINE acc == [accountsByAddr[a] EXCEPT !.LiquidAmount = FromInt(balancesByAddr[a])]
           held == accountsByAddr[a]
<1>1. /\ stage = "balances" /\ stage' = stage /\ a \in todo /\ a \in DOMAIN accountsByAddr
      /\ Store(a, acc) /\ todo' = todo \ {a} /\ UNCHANGED files
  BY DEF FeedBalance
<1>2. FilesOK /\ LoopsInv
  BY DEF MadeInv
<1>3. ~IsIgnored(a) /\ IsAccountFor(held, a)
  BY <1>1, <1>2 DEF LoopsInv
<1>4. LiquidFor(a)' = FromInt(balancesByAddr[a]) /\ a \in DOMAIN balancesByAddr
  BY <1>1, ReachedStep
<1>5. FromInt(balancesByAddr[a]) \in Nat
  <2>1. balancesByAddr[a] \in Nat
    BY <1>2, <1>4 DEF FilesOK
  <2> QED
    BY <2>1, OneAssumption DEF FromInt
<1>6. acc = [held EXCEPT !.LiquidAmount = FromInt(balancesByAddr[a])]
  OBVIOUS
<1> HIDE DEF acc, held
<1>7. held \in Account
  BY <1>3 DEF IsAccountFor
<1>8. /\ acc \in Account /\ acc.Address = held.Address
      /\ acc.LiquidAmount = FromInt(balancesByAddr[a]) /\ acc.Vote = held.Vote
      /\ acc.Delegations = held.Delegations /\ acc.StakedAmount = held.StakedAmount
  BY <1>5, <1>6, <1>7 DEF Account
<1>9. /\ acc.Address = a /\ acc.LiquidAmount = LiquidFor(a)' /\ acc.Vote = VoteFor(a)
      /\ acc.Delegations = DelegationsFor(a)
      /\ acc.StakedAmount = SumAmounts(DelegationsFor(a))
  BY <1>3, <1>4, <1>8 DEF IsAccountFor
<1>10. Store(a, acc)
  BY <1>1 DEF acc
<1> QED
  BY <1>1, <1>3, <1>8, <1>9, <1>10, StoreStep

LEMMA EndStep ==
  ASSUME MadeInv, EndDelegators
  PROVE  MadeInv'
<1>1. /\ stage = "delegators" /\ todo = {} /\ stage' = "balances"
      /\ todo' = DOMAIN balancesByAddr /\ UNCHANGED <<files, accountsByAddr>>
  BY DEF EndDelegators
<1>2. delegsByAddr' = delegsByAddr /\ balancesByAddr' = balancesByAddr
  BY <1>1 DEF files
<1>3. Reached' = Reached
  BY <1>1, <1>2 DEF Reached
<1>4. \A b : LiquidFor(b)' = LiquidFor(b)
  <2>1. FromInt(0) = 0
    BY OneAssumption DEF FromInt
  <2> QED
    BY <1>1, <1>2, <2>1 DEF LiquidFor, Lookup
<1> QED
  BY <1>1, <1>3, <1>4, KeptStep

LEMMA SortStep ==
  ASSUME MadeInv, SortAccounts
  PROVE  MadeInv'
<1> DEFINE addrs == Sorted(DOMAIN accountsByAddr, AddressOrder)
<1>1. /\ stage = "balances" /\ todo = {} /\ stage' = "written" /\ todo' = todo
      /\ accounts' = [i \in DOMAIN addrs |-> accountsByAddr[addrs[i]]]
      /\ UNCHANGED <<files, accountsByAddr>>
  BY DEF SortAccounts
<1>2. FilesOK /\ LoopsInv
  BY DEF MadeInv
<1>3. /\ delegsByAddr' = delegsByAddr /\ balancesByAddr' = balancesByAddr
      /\ accountsByAddr' = accountsByAddr
  BY <1>1 DEF files
<1>4. FilesOK' /\ \A b : IsIgnored(b)' = IsIgnored(b)
  BY <1>1, <1>2, FilesFrame
<1>5. Reached' = Reached /\ \A b : LiquidFor(b)' = LiquidFor(b)
  BY <1>1, <1>3 DEF Reached, LiquidFor
<1>6. DOMAIN accountsByAddr' = {b \in Reached' : ~IsIgnored(b)'}
  BY <1>2, <1>3, <1>4, <1>5 DEF LoopsInv
<1>7. ASSUME NEW b \in DOMAIN accountsByAddr
      PROVE  IsAccountFor(accountsByAddr[b], b)'
  <2> DEFINE held == accountsByAddr[b]
  <2>1. IsAccountFor(held, b)
    BY <1>2 DEF LoopsInv
  <2>2. LiquidFor(b)' = LiquidFor(b) /\ accountsByAddr'[b] = held
    BY <1>3, <1>5
  <2> HIDE DEF held
  <2>3. /\ held \in Account
        /\ held.Address = b
        /\ held.LiquidAmount = LiquidFor(b)'
        /\ held.Vote = VoteFor(b)'
        /\ held.Delegations = DelegationsFor(b)'
        /\ held.StakedAmount = SumAmounts(DelegationsFor(b))'
    BY <1>1, <1>2, <2>1, <2>2, AccountFrame
  <2> QED
    BY <2>2, <2>3 DEF IsAccountFor
<1>8. accounts' = [i \in DOMAIN Sorted(DOMAIN accountsByAddr', AddressOrder) |->
                     accountsByAddr'[Sorted(DOMAIN accountsByAddr', AddressOrder)[i]]]
  BY <1>1, <1>3
<1> HIDE DEF addrs
<1>9. LoopsInv'
  BY <1>1, <1>3, <1>6, <1>7, <1>8 DEF LoopsInv
<1> QED
  BY <1>4, <1>9 DEF MadeInv

LEMMA MadeNext ==
  ASSUME MadeInv, [AccountsNext]_accountsVars
  PROVE  MadeInv'
<1>1. ASSUME UNCHANGED accountsVars PROVE MadeInv'
  <2>1. UNCHANGED <<files, stage, todo, accountsByAddr, accounts>>
    BY <1>1 DEF accountsVars
  <2>2. FilesOK /\ LoopsInv
    BY DEF MadeInv
  <2>3. delegsByAddr' = delegsByAddr /\ balancesByAddr' = balancesByAddr
    BY <2>1 DEF files
  <2>4. FilesOK' /\ \A b : IsIgnored(b)' = IsIgnored(b)
    BY <2>1, <2>2, FilesFrame
  <2>5. Reached' = Reached /\ \A b : LiquidFor(b)' = LiquidFor(b)
    BY <2>1, <2>3 DEF Reached, LiquidFor
  <2>6. DOMAIN accountsByAddr' = {b \in Reached' : ~IsIgnored(b)'}
    BY <2>1, <2>2, <2>4, <2>5 DEF LoopsInv
  <2>7. ASSUME NEW b \in DOMAIN accountsByAddr
        PROVE  IsAccountFor(accountsByAddr[b], b)'
    <3> DEFINE held == accountsByAddr[b]
    <3>1. IsAccountFor(held, b)
      BY <2>2 DEF LoopsInv
    <3>2. LiquidFor(b)' = LiquidFor(b) /\ accountsByAddr'[b] = held
      BY <2>1, <2>5
    <3> HIDE DEF held
    <3>3. /\ held \in Account
          /\ held.Address = b
          /\ held.LiquidAmount = LiquidFor(b)'
          /\ held.Vote = VoteFor(b)'
          /\ held.Delegations = DelegationsFor(b)'
          /\ held.StakedAmount = SumAmounts(DelegationsFor(b))'
      BY <2>1, <2>2, <3>1, <3>2, AccountFrame
    <3> QED
      BY <3>2, <3>3 DEF IsAccountFor
  <2>8. \A b \in DOMAIN accountsByAddr' : IsAccountFor(accountsByAddr[b], b)'
    BY <2>1, <2>7
  <2>9. stage = "written" =>
          accounts' = [i \in DOMAIN Sorted(DOMAIN accountsByAddr', AddressOrder) |->
                         accountsByAddr'[Sorted(DOMAIN accountsByAddr', AddressOrder)[i]]]
    BY <2>1, <2>2 DEF LoopsInv
  <2>10. LoopsInv'
    BY <2>1, <2>2, <2>3, <2>6, <2>8, <2>9 DEF LoopsInv
  <2> QED
    BY <2>4, <2>10 DEF MadeInv
<1>2. ASSUME AccountsNext PROVE MadeInv'
  BY <1>2, IgnoreStep, DelegatorStep, BalanceStep, HolderStep, EndStep, SortStep
     DEF AccountsNext
<1> QED
  BY <1>1, <1>2

-----------------------------------------------------------------------------
(* The accounts of a snapshot.                                             *)

LEMMA MadeInvariance == Spec => []MadeInv
<1>1. Init => MadeInv
  BY MadeInit DEF Init
<1>2. MadeInv /\ [Next]_govboxVars => MadeInv'
  <2> SUFFICES ASSUME MadeInv, [Next]_govboxVars
               PROVE  MadeInv'
    OBVIOUS
  <2>1. [AccountsNext]_accountsVars
    <3>1. CASE MakeAccounts
      BY <3>1 DEF MakeAccounts
    <3>2. CASE Distribute
      BY <3>2 DEF Distribute
    <3>3. CASE WriteGenesis
      BY <3>3 DEF WriteGenesis
    <3>4. CASE Ended \/ UNCHANGED govboxVars
      BY <3>4 DEF Ended, govboxVars
    <3> QED
      BY <3>1, <3>2, <3>3, <3>4 DEF Next
  <2> QED
    BY <2>1, MadeNext
<1> QED
  BY <1>1, <1>2, PTL DEF Spec

\* The accounts of the list, in the order of their addresses.
Holders == {a \in DOMAIN delegsByAddr \cup DOMAIN balancesByAddr : ~IsIgnored(a)}

LEMMA AccountsList ==
  ASSUME MadeInv, stage = "written"
  PROVE  /\ DOMAIN accounts = DOMAIN Sorted(Holders, AddressOrder)
         /\ \A i \in DOMAIN accounts :
              /\ Sorted(Holders, AddressOrder)[i] \in Holders
              /\ IsAccountFor(accounts[i], Sorted(Holders, AddressOrder)[i])
              /\ accounts[i].Address = Sorted(Holders, AddressOrder)[i]
<1> DEFINE addrs == Sorted(Holders, AddressOrder)
<1>1. FilesOK /\ LoopsInv
  BY DEF MadeInv
<1>2. todo = {} /\ DOMAIN accountsByAddr = {a \in Reached : ~IsIgnored(a)}
  BY <1>1 DEF LoopsInv
<1>3. DOMAIN accountsByAddr = Holders
  BY <1>2 DEF Reached, Holders
<1>4. accounts = [i \in DOMAIN addrs |-> accountsByAddr[addrs[i]]]
  BY <1>1, <1>3 DEF LoopsInv
<1>5. \A i \in DOMAIN addrs : addrs[i] \in Holders
  <2>1. Range(addrs) = Holders \cap Range(AddressOrder)
    BY AddressOrderAssumption, SortedKeys DEF IsOrder
  <2> HIDE DEF addrs
  <2> QED
    BY <2>1 DEF Range
<1> HIDE DEF addrs
<1>6. \A i \in DOMAIN addrs : IsAccountFor(accounts[i], addrs[i])
  BY <1>1, <1>3, <1>4, <1>5 DEF LoopsInv
<1>7. \A i \in DOMAIN addrs : accounts[i].Address = addrs[i]
  BY <1>6 DEF IsAccountFor
<1>8. DOMAIN accounts = DOMAIN addrs
  BY <1>4
<1> QED
  BY <1>5, <1>6, <1>7, <1>8 DEF addrs

\* Whatever the order of the two loops of accounts.go, the accounts are those of
\* the addresses that hold or stake and are not left out, once and in order,
\* each with its balance and all its bonded stake.
THEOREM AccountsCompleteCorrect == Spec => []AccountsComplete
<1>1. MadeInv => AccountsComplete
  <2> SUFFICES ASSUME MadeInv, stage = "written"
               PROVE  /\ [i \in DOMAIN accounts |-> accounts[i].Address]
                           = Sorted(Holders, AddressOrder)
                      /\ \A i \in DOMAIN accounts :
                           LET a == accounts[i].Address
                           IN  /\ accounts[i].LiquidAmount
                                    = FromInt(Lookup(balancesByAddr, a, 0))
                               /\ accounts[i].StakedAmount = StakeOf(a)
    BY DEF AccountsComplete, Holders, IsIgnored
  <2> DEFINE addrs == Sorted(Holders, AddressOrder)
  <2>1. /\ DOMAIN accounts = DOMAIN addrs
        /\ \A i \in DOMAIN accounts : IsAccountFor(accounts[i], addrs[i])
        /\ \A i \in DOMAIN accounts : accounts[i].Address = addrs[i]
    BY AccountsList
  <2>2. addrs = [i \in DOMAIN addrs |-> addrs[i]]
    BY DEF Sorted, Sublist
  <2>3. FilesOK /\ todo = {}
    BY DEF MadeInv, LoopsInv
  <2> HIDE DEF addrs
  <2>4. [i \in DOMAIN accounts |-> accounts[i].Address] = addrs
    <3>1. \A i \in DOMAIN addrs : accounts[i].Address = addrs[i]
      BY <2>1
    <3>2. [i \in DOMAIN addrs |-> accounts[i].Address] = [i \in DOMAIN addrs |-> addrs[i]]
      BY <3>1
    <3> QED
      BY <2>1, <2>2, <3>2
  <2>5. ASSUME NEW i \in DOMAIN accounts, NEW a, a = accounts[i].Address
        PROVE  /\ accounts[i].LiquidAmount = FromInt(Lookup(balancesByAddr, a, 0))
               /\ accounts[i].StakedAmount = StakeOf(a)
    <3>1. IsAccountFor(accounts[i], a)
      BY <2>1, <2>5
    <3>2. SumAmounts(DelegationsFor(a)) = StakeOf(a)
      BY <2>3, Staked
    <3>3. LiquidFor(a) = FromInt(Lookup(balancesByAddr, a, 0))
      BY <2>3 DEF LiquidFor
    <3> QED
      BY <3>1, <3>2, <3>3 DEF IsAccountFor
  <2> QED
    BY <2>4, <2>5 DEF addrs
<1> QED
  BY <1>1, MadeInvariance, PTL

-----------------------------------------------------------------------------
(* The distribution of the accounts: that of Distribution, for the lists   *)
(* the loops make.                                                         *)

AccountLists ==
  {list \in Seq(Account) :
     /\ \A i \in DOMAIN list : IsAccount(list[i])
     /\ \A i, j \in DOMAIN list : list[i].Address = list[j].Address => i = j}

DP == INSTANCE DistributionProofs

\* The instances compute with the same numbers.
LEMMA SameNumbers ==
  /\ \A a, b : D!Mul(a, b) = Mul(a, b) /\ DP!Mul(a, b) = Mul(a, b)
  /\ \A a, b : D!Quo(a, b) = Quo(a, b) /\ DP!Quo(a, b) = Quo(a, b)
  /\ \A a : /\ D!RoundInt(a) = RoundInt(a)
            /\ DP!RoundInt(a) = RoundInt(a)
            /\ G!RoundInt(a) = RoundInt(a)
  /\ \A a : /\ D!FromInt(a) = FromInt(a)
            /\ DP!FromInt(a) = FromInt(a)
            /\ G!FromInt(a) = FromInt(a)
  /\ \A f : /\ D!SumFunction(f) = SumFunction(f)
            /\ DP!SumFunction(f) = SumFunction(f)
            /\ G!SumFunction(f) = SumFunction(f)
<1>1. \A a, b : D!Mul(a, b) = Mul(a, b) /\ DP!Mul(a, b) = Mul(a, b)
  BY DEF D!Mul, DP!Mul, Mul, D!ChopRound, DP!ChopRound, ChopRound,
         D!RoundHalfEven, DP!RoundHalfEven, RoundHalfEven
<1>2. \A a, b : D!Quo(a, b) = Quo(a, b) /\ DP!Quo(a, b) = Quo(a, b)
  BY DEF D!Quo, DP!Quo, Quo, D!RoundHalfEven, DP!RoundHalfEven, RoundHalfEven
<1>3. \A a : /\ D!RoundInt(a) = RoundInt(a)
             /\ DP!RoundInt(a) = RoundInt(a)
             /\ G!RoundInt(a) = RoundInt(a)
  BY DEF D!RoundInt, DP!RoundInt, G!RoundInt, RoundInt,
         D!ChopRound, DP!ChopRound, G!ChopRound, ChopRound,
         D!RoundHalfEven, DP!RoundHalfEven, G!RoundHalfEven, RoundHalfEven
<1>4. \A a : /\ D!FromInt(a) = FromInt(a)
             /\ DP!FromInt(a) = FromInt(a)
             /\ G!FromInt(a) = FromInt(a)
  BY DEF D!FromInt, DP!FromInt, G!FromInt, FromInt
<1>5. \A f : /\ D!SumFunction(f) = SumFunction(f)
             /\ DP!SumFunction(f) = SumFunction(f)
             /\ G!SumFunction(f) = SumFunction(f)
  BY DEF D!SumFunction, DP!SumFunction, G!SumFunction, SumFunction,
         D!SumFunctionOnSet, DP!SumFunctionOnSet, G!SumFunctionOnSet, SumFunctionOnSet,
         D!FoldFunctionOnSet, DP!FoldFunctionOnSet, G!FoldFunctionOnSet, FoldFunctionOnSet,
         D!MapThenFoldSet, DP!MapThenFoldSet, G!MapThenFoldSet, MapThenFoldSet
<1> QED
  BY <1>1, <1>2, <1>3, <1>4, <1>5

\* The accounts and their amounts are those of the distribution too.
LEMMA SameAccounts ==
  /\ \A f : DP!Range(f) = Range(f)
  /\ \A w : DP!IsWeightedVote(w) = IsWeightedVote(w)
  /\ \A acc : IsAccount(acc) => DP!IsAccount(acc)
  /\ \A acc : D!VoteWeights(acc) = DP!VoteWeights(acc)
<1>1. /\ D!AnyOption = AnyOption /\ DP!AnyOption = AnyOption
      /\ D!NoVote = NoVote /\ DP!NoVote = NoVote
      /\ \A map, key, zero : /\ D!Lookup(map, key, zero) = Lookup(map, key, zero)
                             /\ DP!Lookup(map, key, zero) = Lookup(map, key, zero)
  BY DEF D!AnyOption, DP!AnyOption, AnyOption, D!VoteOption, DP!VoteOption, VoteOption,
         D!NoVote, DP!NoVote, NoVote, D!Lookup, DP!Lookup, Lookup
<1>2. \A w : DP!IsWeightedVote(w) = IsWeightedVote(w)
  <2>1. DP!VoteOption = VoteOption
    BY DEF DP!VoteOption, VoteOption
  <2> QED
    BY <1>1, <2>1 DEF DP!IsWeightedVote, IsWeightedVote
<1>3. \A f : DP!Range(f) = Range(f)
  BY DEF DP!Range, Range
<1>4. ASSUME NEW acc, IsAccount(acc)
      PROVE  DP!IsAccount(acc)
  BY <1>1, <1>2, <1>3, <1>4, SameNumbers DEF IsAccount, DP!IsAccount
<1>5. ASSUME NEW acc
      PROVE  D!VoteWeights(acc) = DP!VoteWeights(acc)
  <2>1. \A del, staked, o :
          D!InheritedWeight(del, staked, o) = DP!InheritedWeight(del, staked, o)
    BY <1>1, SameNumbers DEF D!InheritedWeight, DP!InheritedWeight
  <2>2. \A o : [i \in DOMAIN acc.Delegations |->
                  D!InheritedWeight(acc.Delegations[i], acc.StakedAmount, o)]
               = [i \in DOMAIN acc.Delegations |->
                    DP!InheritedWeight(acc.Delegations[i], acc.StakedAmount, o)]
    BY <2>1
  <2> QED
    BY <1>1, <2>2, SameNumbers DEF D!VoteWeights, DP!VoteWeights
<1> QED
  BY <1>2, <1>3, <1>4, <1>5

LEMMA SameAmounts ==
  /\ \A acc, o : D!AtomAmount(acc, o) = DP!AtomAmount(acc, o)
  /\ \A acc, o : D!AtoneAmount(acc, o) = DP!AtoneAmount(acc, o)
  /\ \A acc : D!LiquidAtone(acc) = DP!LiquidAtone(acc)
  /\ \A acc : D!AirdropAmount(acc) = DP!AirdropAmount(acc)
  /\ \A distrib, votes, liquid, total :
       D!AddTo(distrib, votes, liquid, total) = DP!AddTo(distrib, votes, liquid, total)
<1>1. D!AnyOption = DP!AnyOption
  BY DEF D!AnyOption, DP!AnyOption, D!VoteOption, DP!VoteOption
<1>2. \A acc, o : D!AtomAmount(acc, o) = DP!AtomAmount(acc, o)
  BY SameNumbers, SameAccounts DEF D!AtomAmount, DP!AtomAmount
<1>3. \A acc, o : D!AtoneAmount(acc, o) = DP!AtoneAmount(acc, o)
  <2>1. \A amount, o : D!Multiplied(amount, o) = DP!Multiplied(amount, o)
    BY SameNumbers DEF D!Multiplied, DP!Multiplied
  <2> QED
    BY <1>2, <2>1, SameNumbers DEF D!AtoneAmount, DP!AtoneAmount
<1>4. \A acc : D!LiquidAtone(acc) = DP!LiquidAtone(acc)
  BY SameNumbers DEF D!LiquidAtone, DP!LiquidAtone
<1>5. ASSUME NEW acc
      PROVE  D!AirdropAmount(acc) = DP!AirdropAmount(acc)
  <2>1. [o \in D!AnyOption |-> D!AtoneAmount(acc, o)]
        = [o \in DP!AnyOption |-> DP!AtoneAmount(acc, o)]
    BY <1>1, <1>3
  <2>2. \A votes : D!OptionsTotal(votes) = DP!OptionsTotal(votes)
    BY DEF D!OptionsTotal, DP!OptionsTotal
  <2> QED
    BY <1>4, <2>1, <2>2 DEF D!AirdropAmount, DP!AirdropAmount
<1>6. ASSUME NEW distrib, NEW votes, NEW liquid, NEW total
      PROVE  D!AddTo(distrib, votes, liquid, total) = DP!AddTo(distrib, votes, liquid, total)
  BY <1>1 DEF D!AddTo, DP!AddTo
<1> QED
  BY <1>2, <1>3, <1>4, <1>5, <1>6

LEMMA SameSteps == D!DistributionNext => DP!DistributionNext
<1>1. D!AnyOption = DP!AnyOption
  BY DEF D!AnyOption, DP!AnyOption, D!VoteOption, DP!VoteOption
<1>2. /\ DP!input = D!input /\ DP!minted = D!minted /\ DP!airdrop = D!airdrop
      /\ DP!input' = D!input' /\ DP!minted' = D!minted' /\ DP!airdrop' = D!airdrop'
      /\ DP!distributionVars = D!distributionVars
      /\ DP!distributionVars' = D!distributionVars'
  BY DEF D!input, DP!input, D!minted, DP!minted, D!airdrop, DP!airdrop,
         D!distributionVars, DP!distributionVars
<1>3. D!Begin => DP!Begin
  BY <1>2 DEF D!Begin, DP!Begin
<1>4. D!Survey => DP!Survey
  <2>1. \A acc : [o \in D!AnyOption |-> D!AtomAmount(acc, o)]
                 = [o \in DP!AnyOption |-> DP!AtomAmount(acc, o)]
    BY <1>1, SameAmounts
  <2> QED
    BY <1>2, <2>1, SameAmounts DEF D!Survey, DP!Survey
<1>5. D!ComputeMultiplier => DP!ComputeMultiplier
  <2>1. /\ D!YesAtoneTotal = DP!YesAtoneTotal /\ D!NoAtoneTotal = DP!NoAtoneTotal
        /\ D!NonVotersAtom = DP!NonVotersAtom
    BY SameNumbers DEF D!YesAtoneTotal, DP!YesAtoneTotal, D!NoAtoneTotal, DP!NoAtoneTotal,
                       D!NonVotersAtom, DP!NonVotersAtom
  <2> QED
    BY <1>2, <2>1, SameNumbers DEF D!ComputeMultiplier, DP!ComputeMultiplier
<1>6. D!SlashIcf => DP!SlashIcf
  BY <1>2 DEF D!SlashIcf, DP!SlashIcf
<1>7. D!AddAirdrop => DP!AddAirdrop
  <2>1. \A acc : [o \in D!AnyOption |-> D!AtoneAmount(acc, o)]
                 = [o \in DP!AnyOption |-> DP!AtoneAmount(acc, o)]
    BY <1>1, SameAmounts
  <2> QED
    BY <1>2, <2>1, SameAmounts DEF D!AddAirdrop, DP!AddAirdrop
<1>8. D!AmountOfNext = DP!AmountOfNext
  BY SameAmounts, SameNumbers
     DEF D!AmountOfNext, DP!AmountOfNext, D!Worth, DP!Worth,
         D!WholeAmount, DP!WholeAmount
<1>9. D!EnterAddress => DP!EnterAddress
  BY <1>8 DEF D!EnterAddress, DP!EnterAddress
<1>10. D!SkipZero => DP!SkipZero
  BY <1>7, <1>8 DEF D!SkipZero, DP!SkipZero
<1>11. D!Credit => DP!Credit
  BY <1>7, <1>8, <1>9 DEF D!Credit, DP!Credit
<1>12. D!FailToConvert => DP!FailToConvert
  BY <1>7, <1>8 DEF D!FailToConvert, DP!FailToConvert
<1>13. D!Mint => DP!Mint
  BY <1>2, SameNumbers DEF D!Mint, DP!Mint
<1>14. D!Ended => DP!Ended
  BY <1>2 DEF D!Ended, DP!Ended
<1> QED
  BY <1>3, <1>4, <1>5, <1>6, <1>10, <1>11, <1>12, <1>13, <1>14
     DEF D!DistributionNext, DP!DistributionNext

LEMMA SameInit == D!DistributionInit => DP!DistributionInit
<1>1. D!EmptyDistrib = DP!EmptyDistrib
  BY DEF D!EmptyDistrib, DP!EmptyDistrib, D!AnyOption, DP!AnyOption,
         D!VoteOption, DP!VoteOption
<1> QED
  BY <1>1 DEF D!DistributionInit, DP!DistributionInit

\* What Distribution assumes of its constants holds here.
Assumed ==
  /\ DP!OneAssumption /\ DP!VotesAssumption /\ DP!DelegationsAssumption
  /\ DP!PrefixAssumption
  /\ DP!ValidatorsAssumption /\ DP!ParamsAssumption /\ DP!TargetAssumption
  /\ DP!AccountsAssumption /\ DP!ConvertAssumption

LEMMA DistributionAssumed == Assumed
<1>1. DP!OneAssumption
  BY OneAssumption DEF DP!OneAssumption
<1>2. DP!VotesAssumption
  BY VotesAssumption, SameAccounts DEF DP!VotesAssumption
<1>3. DP!DelegationsAssumption
  BY DelegationsAssumption, SameAccounts DEF DP!DelegationsAssumption
<1>4. DP!ValidatorsAssumption
  <2>1. \A file, v : DP!SharesOf(file, v) = SharesOf(file, v)
    BY SameNumbers DEF DP!SharesOf, SharesOf
  <2> QED
    BY <2>1, ValidatorsAssumption, SameAccounts
       DEF DP!ValidatorsAssumption, DP!ValidatorsDecode, ValidatorsDecode
<1>5. DP!ParamsAssumption
  BY ParamsAssumption DEF DP!ParamsAssumption
<1>6. DP!TargetAssumption
  BY TargetAssumption DEF DP!TargetAssumption
<1>7. DP!AccountsAssumption
  <2> SUFFICES ASSUME NEW list \in AccountLists
               PROVE  /\ list \in Seq(DP!Range(list))
                      /\ \A i \in DOMAIN list : DP!IsAccount(list[i])
                      /\ \A i, j \in DOMAIN list :
                           list[i].Address = list[j].Address => i = j
    BY DEF DP!AccountsAssumption
  <2>1. list \in Seq(Account)
    BY DEF AccountLists
  <2>2. list \in Seq(Range(list))
    BY <2>1 DEF Range
  <2> QED
    BY <2>2, SameAccounts DEF AccountLists
<1>8. DP!ConvertAssumption
  BY ConvertAssumption DEF DP!ConvertAssumption
<1>9. DP!PrefixAssumption
  BY PrefixAssumption DEF DP!PrefixAssumption
<1> QED
  BY <1>1, <1>2, <1>3, <1>4, <1>5, <1>6, <1>7, <1>8, <1>9 DEF Assumed

LEMMA ListInit == DP!Init => DP!IInv /\ DP!SurveyInv /\ DP!AirdropInv
BY DistributionAssumed, DP!InitInv, DP!PassInit DEF Assumed

LEMMA ListNext ==
  ASSUME DP!IInv, DP!SurveyInv, DP!AirdropInv,
         [DP!DistributionNext]_(DP!distributionVars)
  PROVE  DP!IInv' /\ DP!SurveyInv' /\ DP!AirdropInv'
BY DistributionAssumed, DP!NextInv, DP!SurveyNext, DP!AirdropNext DEF Assumed

LEMMA AccountIs ==
  ASSUME FilesOK, NEW acc, NEW a, IsAccountFor(acc, a)
  PROVE  acc \in Account /\ IsAccount(acc)
<1>1. /\ acc \in Account
      /\ acc.StakedAmount = SumAmounts(acc.Delegations)
  BY DEF IsAccountFor
<1>2. /\ acc.LiquidAmount \in Nat /\ acc.Vote \in Ballots \cup {NoVote}
      /\ acc.Delegations \in Seq(Delegation)
  BY <1>1 DEF Account
<1>3. acc.StakedAmount =
        SumFunction([i \in DOMAIN acc.Delegations |-> acc.Delegations[i].Amount])
  BY <1>1 DEF SumAmounts
<1>4. \A w \in Ballots \cup {NoVote} : w = NoVote \/ IsWeightedVote(w)
  BY DEF Ballots
<1> DEFINE dels == acc.Delegations
<1>5. dels \in Seq(Range(dels))
  BY <1>2 DEF Range
<1>6. \A i \in DOMAIN dels :
        dels[i].Amount \in Nat /\ (dels[i].Vote = NoVote \/ IsWeightedVote(dels[i].Vote))
  <2>1. \A i \in DOMAIN dels : dels[i] \in Delegation
    BY <1>2
  <2>2. \A del \in Delegation : del.Amount \in Nat /\ del.Vote \in Ballots \cup {NoVote}
    BY DEF Delegation
  <2> HIDE DEF dels
  <2> QED
    BY <1>4, <2>1, <2>2
<1> QED
  BY <1>1, <1>2, <1>3, <1>4, <1>5, <1>6 DEF IsAccount

LEMMA ListMade ==
  ASSUME MadeInv, stage = "written"
  PROVE  accounts \in AccountLists
<1> DEFINE addrs == Sorted(Holders, AddressOrder)
<1>1. /\ DOMAIN accounts = DOMAIN addrs
      /\ \A i \in DOMAIN accounts : /\ IsAccountFor(accounts[i], addrs[i])
                                    /\ accounts[i].Address = addrs[i]
  BY AccountsList
<1>2. addrs \in Seq(Range(addrs)) /\ \A i, j \in DOMAIN addrs : addrs[i] = addrs[j] => i = j
  BY AddressOrderAssumption, SortedKeys DEF IsOrder
<1>3. FilesOK /\ accounts = [i \in DOMAIN accounts |-> accounts[i]]
  BY DEF MadeInv, LoopsInv
<1> HIDE DEF addrs
<1>4. \A i \in DOMAIN accounts : accounts[i] \in Account /\ IsAccount(accounts[i])
  BY <1>1, <1>3, AccountIs
<1>5. accounts \in Seq(Account)
  <2>1. DOMAIN accounts = 1..Len(addrs) /\ Len(addrs) \in Nat
    BY <1>1, <1>2
  <2>2. accounts \in [1..Len(addrs) -> Account]
    BY <1>3, <1>4, <2>1
  <2> QED
    BY <2>1, <2>2
<1>6. \A i, j \in DOMAIN accounts : accounts[i].Address = accounts[j].Address => i = j
  BY <1>1, <1>2
<1> QED
  BY <1>4, <1>5, <1>6 DEF AccountLists

-----------------------------------------------------------------------------
(* From the accounts to the airdrop.                                       *)

\* The distribution starts when the list is written, and is that of the list.
AirdropMade ==
  /\ phase = "idle" => D!DistributionInit
  /\ phase # "idle" => /\ stage = "written"
                       /\ DP!IInv /\ DP!SurveyInv /\ DP!AirdropInv

LEMMA AirdropNextStep ==
  ASSUME MadeInv, AirdropMade, [Next]_govboxVars
  PROVE  AirdropMade'
<1> USE DEF AirdropMade
<1>1. CASE Distribute
  <2>1. stage = "written" /\ stage' = stage /\ D!DistributionNext
    BY <1>1 DEF Distribute, accountsVars
  <2>2. DP!DistributionNext
    BY <2>1, SameSteps
  <2>3. DP!IInv /\ DP!SurveyInv /\ DP!AirdropInv
    <3>1. CASE phase = "idle"
      <4>1. accounts \in AccountLists
        BY <2>1, ListMade
      <4>2. DP!Init
        BY <3>1, <4>1, SameInit DEF DP!Init
      <4> QED
        BY <4>2, ListInit
    <3> QED
      BY <3>1
  <2>4. DP!IInv' /\ DP!SurveyInv' /\ DP!AirdropInv'
    BY <2>2, <2>3, ListNext
  <2>5. phase' # "idle"
    BY <2>1 DEF D!DistributionNext, D!Begin, D!Survey, D!ComputeMultiplier, D!SlashIcf,
                D!SkipZero, D!Credit, D!FailToConvert, D!Mint, D!Ended, D!AddAirdrop,
                D!distributionVars
  <2> QED
    BY <2>1, <2>4, <2>5
<1>2. ASSUME UNCHANGED airdropVars, stage = "written" => UNCHANGED accountsVars
      PROVE  AirdropMade'
  <2>1. CASE phase = "idle"
    BY <1>2, <2>1 DEF airdropVars, D!DistributionInit
  <2>2. CASE phase # "idle"
    <3>1. UNCHANGED <<accounts, stage, phase>> /\ UNCHANGED DP!distributionVars
      BY <1>2, <2>2 DEF airdropVars, accountsVars, DP!distributionVars, DP!input,
                        DP!airdrop, DP!minted
    <3>2. DP!IInv' /\ DP!SurveyInv' /\ DP!AirdropInv'
      BY <2>2, <3>1, ListNext
    <3> QED
      BY <2>2, <3>1, <3>2
  <2> QED
    BY <2>1, <2>2
<1>3. CASE MakeAccounts
  <2>1. stage # "written"
    BY <1>3 DEF MakeAccounts, AccountsNext, IgnoreAddress, FeedDelegator, FeedBalance,
                FeedHolder, EndDelegators, SortAccounts
  <2> QED
    BY <1>2, <1>3, <2>1 DEF MakeAccounts
<1>4. CASE WriteGenesis \/ Ended \/ UNCHANGED govboxVars
  BY <1>2, <1>4 DEF WriteGenesis, Ended, govboxVars
<1> QED
  BY <1>1, <1>3, <1>4 DEF Next

LEMMA AirdropInvariance == Spec => [](MadeInv /\ AirdropMade)
<1>1. Init => AirdropMade
  BY DEF Init, AirdropMade, D!DistributionInit
<1>2. MadeInv /\ AirdropMade /\ [Next]_govboxVars => AirdropMade'
  BY AirdropNextStep
<1> QED
  BY <1>1, <1>2, MadeInvariance, PTL DEF Spec

LEMMA SameProperties ==
  ASSUME DP!TypeOK
  PROVE  /\ D!TypeOK
         /\ DP!SupplyIsSum => D!SupplyIsSum
         /\ DP!AtomAccounted => D!AtomAccounted
         /\ DP!NothingLost => D!NothingLost
         /\ DP!CreditedIsSupply => D!CreditedIsSupply
<1>1. \A votes : D!OptionsTotal(votes) = DP!OptionsTotal(votes)
  BY DEF D!OptionsTotal, DP!OptionsTotal
<1>2. D!TypeOK
  BY DEF D!TypeOK, DP!TypeOK, D!IsDistrib, DP!IsDistrib,
         D!AnyOption, DP!AnyOption, D!VoteOption, DP!VoteOption
<1>3. DP!SupplyIsSum => D!SupplyIsSum
  BY <1>1 DEF D!SupplyIsSum, DP!SupplyIsSum
<1>4. DP!AtomAccounted => D!AtomAccounted
  <2>1. \A acc : D!AtomSlack(acc) = DP!AtomSlack(acc)
    BY DEF D!AtomSlack, DP!AtomSlack
  <2>2. [i \in DOMAIN accounts |-> D!AtomSlack(accounts[i])]
        = [i \in DOMAIN accounts |-> DP!AtomSlack(accounts[i])]
    BY <2>1
  <2> QED
    BY <1>1, <2>2, SameNumbers DEF D!AtomAccounted, DP!AtomAccounted
<1>5. \A acc : D!Worth(acc) = DP!Worth(acc)
  BY SameAmounts, SameNumbers DEF D!Worth, DP!Worth, D!WholeAmount, DP!WholeAmount
<1>6. DP!NothingLost => D!NothingLost
  <2>1. D!Held = DP!Held
    BY DEF D!Held, DP!Held
  <2>2. \A acc : D!IsSettled(acc) = DP!IsSettled(acc)
    BY <1>5 DEF D!IsSettled, DP!IsSettled, D!HasEntry, DP!HasEntry
  <2>3. \A f, S : D!SumFunctionOnSet(f, S) = DP!SumFunctionOnSet(f, S)
    BY DEF D!SumFunctionOnSet, DP!SumFunctionOnSet,
           D!FoldFunctionOnSet, DP!FoldFunctionOnSet, D!MapThenFoldSet, DP!MapThenFoldSet
  <2>4. {i \in 1..(next - 1) : accounts[i].Address \notin IcfWallets /\ D!IsSettled(accounts[i])}
        = {i \in 1..(next - 1) : /\ accounts[i].Address \notin IcfWallets
                                /\ DP!IsSettled(accounts[i])}
    BY <2>2
  <2>5. \A S : {Convert[accounts[i].Address] : i \in {j \in S : D!Worth(accounts[j]) # 0}}
              = {Convert[accounts[i].Address] : i \in {j \in S : DP!Worth(accounts[j]) # 0}}
    BY <1>5
  <2> QED
    BY <2>1, <2>3, <2>4, <2>5 DEF D!NothingLost, DP!NothingLost
<1>7. DP!CreditedIsSupply => D!CreditedIsSupply
  <2>1. D!Unpaid = DP!Unpaid
    BY SameAmounts DEF D!Unpaid, DP!Unpaid
  <2> QED
    BY <2>1, SameNumbers DEF D!CreditedIsSupply, DP!CreditedIsSupply
<1> QED
  BY <1>2, <1>3, <1>4, <1>6, <1>7

\* What Distribution says of any list of accounts holds of the lists that
\* getAccounts makes of a snapshot, whatever the order of its loops: the parts of
\* the supply add up to it, every $ATOM is accounted for, none is lost between
\* the two passes and the airdrop adds up to the supply.
THEOREM DistributionCorrect ==
  Spec => [](phase # "idle" => /\ D!TypeOK
                               /\ D!SupplyIsSum
                               /\ D!AtomAccounted
                               /\ D!NothingLost
                               /\ D!CreditedIsSupply)
<1>1. ASSUME MadeInv, AirdropMade, phase # "idle"
      PROVE  /\ D!TypeOK /\ D!SupplyIsSum /\ D!AtomAccounted
             /\ D!NothingLost /\ D!CreditedIsSupply
  <2>1. DP!IInv /\ DP!SurveyInv /\ DP!AirdropInv
    BY <1>1 DEF AirdropMade
  <2>2. DP!TypeOK /\ DP!SupplyIsSum
    BY <2>1 DEF DP!IInv
  <2>3. DP!AtomAccounted /\ DP!NothingLost /\ DP!CreditedIsSupply
    BY <2>1, DistributionAssumed, DP!Accounted, DP!Conserved, DP!Credited DEF Assumed
  <2> QED
    BY <2>2, <2>3, SameProperties
<1> QED
  BY <1>1, AirdropInvariance, PTL

-----------------------------------------------------------------------------
(* From the airdrop to the genesis.                                        *)

LEMMA SameSorted ==
  \A keys, order : G!Sorted(keys, order) = Sorted(keys, order)
<1>1. \A S : G!Cardinality(S) = Cardinality(S)
  BY DEF G!Cardinality, Cardinality
<1>2. \A indices, k : G!Nth(indices, k) = Nth(indices, k)
  BY DEF G!Nth, Nth, G!Cardinality, Cardinality
<1>3. \A list, indices : G!Sublist(list, indices) = Sublist(list, indices)
  BY <1>1, <1>2 DEF G!Sublist, Sublist
<1> QED
  BY <1>3 DEF G!Sorted, Sorted

\* The order of the converted addresses.
Order == [i \in DOMAIN Converted |-> Convert[Converted[i]]]

LEMMA OrderIs ==
  /\ IsOrder(Order)
  /\ Range(Order) = {Convert[a] : a \in Address \cap DOMAIN Convert}
<1>1. IsOrder(Converted) /\ Range(Converted) = DOMAIN Convert \cap Address
  BY AddressOrderAssumption, SortedKeys DEF IsOrder, Converted
<1>2. Converted \in Seq(Range(Converted))
  BY <1>1 DEF IsOrder
<1>3. DOMAIN Converted = 1..Len(Converted) /\ Len(Converted) \in Nat
  BY <1>2
<1>4. \A i \in DOMAIN Converted : Converted[i] \in DOMAIN Convert \cap Address
  BY <1>1 DEF Range
<1>5. Order \in Seq(Range(Order))
  <2>1. Order \in [1..Len(Converted) -> Range(Order)]
    BY <1>3 DEF Order, Range
  <2> QED
    BY <1>3, <2>1
<1>6. \A i, j \in DOMAIN Order : Order[i] = Order[j] => i = j
  BY <1>1, <1>4, ConvertAssumption DEF Order, IsOrder
<1>7. Range(Order) = {Convert[a] : a \in Address \cap DOMAIN Convert}
  <2>1. ASSUME NEW x \in Range(Order)
        PROVE  x \in {Convert[a] : a \in Address \cap DOMAIN Convert}
    BY <1>4 DEF Range, Order
  <2>2. ASSUME NEW a \in Address \cap DOMAIN Convert
        PROVE  Convert[a] \in Range(Order)
    <3>1. PICK i \in DOMAIN Converted : Converted[i] = a
      BY <1>1 DEF Range
    <3> QED
      BY <3>1 DEF Range, Order
  <2> QED
    BY <2>1, <2>2
<1> QED
  BY <1>5, <1>6, <1>7 DEF IsOrder

\* The addresses of the airdrop in order, then the two that are added.
Full == Sorted(DOMAIN addresses, Order)
EntryAddress(i) ==
  IF i <= Len(Full) THEN Full[i]
  ELSE IF i = Len(Full) + 1 THEN ReservedAddress ELSE DistrModule
EntryCoins(i) ==
  IF i <= Len(Full) THEN addresses[Full[i]]
  ELSE IF i = Len(Full) + 1 THEN RoundInt(reservedAddr) ELSE RoundInt(communityPool)
Coins == [i \in 1..(Len(Full) + 2) |-> EntryCoins(i)]

LEMMA FullIs ==
  /\ IsOrder(Full)
  /\ Len(Full) \in Nat
  /\ DOMAIN Full = 1..Len(Full)
  /\ Range(Full) \subseteq DOMAIN addresses
<1>1. IsOrder(Full) /\ Range(Full) = DOMAIN addresses \cap Range(Order)
  BY OrderIs, SortedKeys DEF Full
<1>2. Full \in Seq(Range(Full))
  BY <1>1 DEF IsOrder
<1> QED
  BY <1>1, <1>2

\* What the distribution that is done tells of its airdrop.
LEMMA Airdropped ==
  ASSUME MadeInv, AirdropMade, phase = "done"
  PROVE  /\ addresses \in [DOMAIN addresses -> Nat]
         /\ IsFiniteSet(DOMAIN addresses)
         /\ communityPool \in Nat /\ reservedAddr \in Nat /\ atone.supply \in Nat
         /\ \A addr \in DOMAIN addresses :
              \E a \in Holders \cap Address \cap DOMAIN Convert : addr = Convert[a]
         /\ FromInt(SumFunction(addresses)) - atone.supply <= Len(accounts) * (One \div 2)
         /\ atone.supply - FromInt(SumFunction(addresses)) <= Len(accounts) * (One \div 2)
<1>1. /\ stage = "written" /\ DP!TypeOK /\ DP!AirdropInv
  BY DEF AirdropMade, DP!IInv
<1>2. accounts \in AccountLists
  BY <1>1, ListMade
<1>3. accounts \in Seq(Account)
  BY <1>2 DEF AccountLists
<1>4. Len(accounts) \in Nat /\ DOMAIN accounts = 1..Len(accounts)
  BY <1>3
<1>5. DP!Passed = Len(accounts)
  <2>1. next = Len(accounts) + 1
    BY <1>1 DEF DP!AirdropInv
  <2> QED
    BY <1>4, <2>1 DEF DP!Passed
<1>6. /\ addresses \in [DOMAIN addresses -> Nat]
      /\ communityPool \in Nat /\ reservedAddr \in Nat /\ atone.supply \in Nat
  BY <1>1 DEF DP!TypeOK, DP!IsDistrib
<1>7. /\ DP!IsFiniteSet(DOMAIN addresses)
      /\ \A addr \in DOMAIN addresses : \E i \in 1..Len(accounts) :
           /\ accounts[i].Address \in DOMAIN Convert \ IcfWallets
           /\ addr = Convert[accounts[i].Address]
      /\ FromInt(SumFunction(addresses)) - atone.supply <= Len(accounts) * (One \div 2)
      /\ atone.supply - FromInt(SumFunction(addresses)) <= Len(accounts) * (One \div 2)
  <2> DEFINE from == FromInt(SumFunction(addresses))
             slack == Len(accounts) * (One \div 2)
  <2>1. DP!Unpaid = 0
    BY DEF DP!Unpaid
  <2>2. /\ DP!IsFiniteSet(DOMAIN addresses)
        /\ \A addr \in DOMAIN addresses : \E i \in 1..Len(accounts) :
             /\ accounts[i].Address \in DOMAIN Convert \ IcfWallets
             /\ addr = Convert[accounts[i].Address]
    BY <1>1, <1>5 DEF DP!AirdropInv
  <2>3. (from + 0) - atone.supply <= slack /\ atone.supply - (from + 0) <= slack
    BY <1>1, <1>5, <2>1, SameNumbers DEF DP!AirdropInv
  <2>4. from \in Int
    <3>1. SumFunction(addresses) \in Int
      <4>1. IsFiniteSet(DOMAIN addresses)
        BY <2>2 DEF DP!IsFiniteSet, IsFiniteSet
      <4>2. SumFunction(addresses) \in Nat
        BY <1>6, <4>1, SumFunctionType
      <4> QED
        BY <4>2
    <3> QED
      BY <3>1, OneAssumption DEF FromInt
  <2> HIDE DEF from, slack
  <2>5. from + 0 = from
    BY <2>4
  <2> QED
    BY <2>2, <2>3, <2>5 DEF from, slack
<1>8. \A i \in 1..Len(accounts) : accounts[i].Address \in Holders /\ accounts[i].Address \in Address
  <2>1. \A i \in DOMAIN accounts : /\ accounts[i].Address \in Holders
                                   /\ accounts[i].Address \in Address
    <3>1. \A i \in DOMAIN accounts : accounts[i].Address \in Holders
      BY <1>1, AccountsList
    <3>2. Holders \subseteq Address
      BY DEF Holders, MadeInv, FilesOK
    <3> QED
      BY <3>1, <3>2
  <2> QED
    BY <1>4, <2>1
<1>9. \A addr \in DOMAIN addresses :
        \E a \in Holders \cap Address \cap DOMAIN Convert : addr = Convert[a]
  BY <1>7, <1>8
<1>10. IsFiniteSet(DOMAIN addresses)
  BY <1>7 DEF DP!IsFiniteSet, IsFiniteSet
<1> QED
  BY <1>6, <1>7, <1>9, <1>10

\* The first m balances are made, and the first k accounts.
Added(m, k) ==
  /\ balances = [i \in 1..m |-> [Address |-> EntryAddress(i), Coins |-> EntryCoins(i)]]
  /\ supply = SumFunctionOnSet(Coins, 1..m)
  /\ authAccounts = [i \in 1..k |-> EntryAddress(i)]

Complete ==
  /\ Added(Len(Full) + 2, Len(Full) + 1)
  /\ feePool = FromInt(RoundInt(communityPool))

\* The genesis as far as it is written.
DocInv ==
  /\ step \in {"start", "addresses", "pool", "constitution", "marshal", "printed", "error"}
  /\ phase # "done" => G!GenesisInit
  /\ step = "addresses" =>
       \E m \in 0..Len(Full) :
         Added(m, m) /\ toAdd = [k \in 1..(Len(Full) - m) |-> Full[m + k]]
  /\ step = "pool" => Added(Len(Full) + 1, Len(Full) + 1)
  /\ step \in {"constitution", "marshal", "printed"} => Complete
  /\ output = IF step # "printed" THEN {}
              ELSE {[balances |-> balances, supply |-> supply, accounts |-> authAccounts,
                     feePool |-> feePool, constitution |-> constitution]}

LEMMA CoinsType ==
  ASSUME addresses \in [DOMAIN addresses -> Nat], communityPool \in Nat, reservedAddr \in Nat
  PROVE  \A i \in 1..(Len(Full) + 2) : EntryCoins(i) \in Nat /\ Coins[i] = EntryCoins(i)
<1>1. RoundInt(communityPool) \in Nat /\ RoundInt(reservedAddr) \in Nat
  BY ChopRoundNat DEF RoundInt
<1>2. \A i \in 1..Len(Full) : addresses[Full[i]] \in Nat
  BY FullIs DEF Range
<1> QED
  BY <1>1, <1>2, FullIs DEF EntryCoins, Coins

\* One more balance.
LEMMA AddedNext ==
  ASSUME addresses \in [DOMAIN addresses -> Nat], communityPool \in Nat, reservedAddr \in Nat,
         UNCHANGED <<addresses, communityPool, reservedAddr>>,
         NEW m \in 0..(Len(Full) + 1), NEW k, Added(m, k),
         G!AddBalance(EntryAddress(m + 1), EntryCoins(m + 1))
  PROVE  /\ balances' = [i \in 1..(m + 1) |->
                           [Address |-> EntryAddress(i), Coins |-> EntryCoins(i)]]'
         /\ supply' = SumFunctionOnSet(Coins, 1..(m + 1))'
<1> DEFINE entry(i) == [Address |-> EntryAddress(i), Coins |-> EntryCoins(i)]
<1>1. m \in Nat /\ m + 1 \in 1..(Len(Full) + 2)
  BY FullIs
<1>2. /\ Full' = Full /\ Coins' = Coins
      /\ \A i : EntryAddress(i)' = EntryAddress(i) /\ EntryCoins(i)' = EntryCoins(i)
  <2>1. Full' = Full
    BY DEF Full
  <2>2. \A i : EntryAddress(i)' = EntryAddress(i) /\ EntryCoins(i)' = EntryCoins(i)
    BY <2>1 DEF EntryAddress, EntryCoins
  <2> QED
    BY <2>1, <2>2 DEF Coins
<1>3. balances' = [i \in 1..(m + 1) |-> entry(i)]
  <2>1. balances = [i \in 1..m |-> entry(i)] /\ balances' = Append(balances, entry(m + 1))
    BY DEF Added, G!AddBalance
  <2>2. balances \in Seq({entry(i) : i \in 1..(m + 1)}) /\ Len(balances) = m
    <3> HIDE DEF entry
    <3>1. balances \in [1..m -> {entry(i) : i \in 1..(m + 1)}]
      BY <1>1, <2>1
    <3> QED
      BY <1>1, <2>1, <3>1
  <2> HIDE DEF entry
  <2> QED
    BY <1>1, <2>1, <2>2
<1>4. supply' = SumFunctionOnSet(Coins, 1..(m + 1))
  <2>1. supply' = SumFunctionOnSet(Coins, 1..m) + EntryCoins(m + 1)
    BY DEF Added, G!AddBalance
  <2>2. \A i \in 1..(Len(Full) + 2) : EntryCoins(i) \in Nat /\ Coins[i] = EntryCoins(i)
    BY CoinsType
  <2>3. /\ 1..(m + 1) = (1..m) \cup {m + 1} /\ (m + 1) \notin 1..m
        /\ \A i \in (1..m) \cup {m + 1} : i \in 1..(Len(Full) + 2)
    BY <1>1, FullIs
  <2>4. IsFiniteSet(1..m)
    <3>1. 1 \in Int /\ m \in Int
      BY <1>1
    <3> QED
      BY <3>1, FS_Interval
  <2>5. SumFunctionOnSet(Coins, (1..m) \cup {m + 1})
          = Coins[m + 1] + SumFunctionOnSet(Coins, 1..m)
    <3> DEFINE S == 1..m
               y == m + 1
    <3>1. y \notin S /\ \A i \in S \cup {y} : Coins[i] \in Int
      BY <2>2, <2>3
    <3>2. IsFiniteSet(S)
      BY <2>4
    <3> HIDE DEF S, y
    <3>3. SumFunctionOnSet(Coins, S \cup {y}) = Coins[y] + SumFunctionOnSet(Coins, S)
      BY <3>1, <3>2, SumAdd
    <3> QED
      BY <3>3 DEF S, y
  <2>6. SumFunctionOnSet(Coins, 1..m) \in Int
    BY <2>2, <2>3, <2>4, SumInt
  <2>7. Coins[m + 1] = EntryCoins(m + 1) /\ EntryCoins(m + 1) \in Int
    BY <1>1, <2>2
  <2>8. SumFunctionOnSet(Coins, 1..(m + 1))
          = Coins[m + 1] + SumFunctionOnSet(Coins, 1..m)
    BY <2>3, <2>5
  <2> QED
    BY <2>1, <2>6, <2>7, <2>8
<1> HIDE DEF entry
<1>5. supply' = SumFunctionOnSet(Coins, 1..(m + 1))'
  BY <1>2, <1>4
<1>6. balances' = [i \in 1..(m + 1) |->
                     [Address |-> EntryAddress(i), Coins |-> EntryCoins(i)]]'
  BY <1>2, <1>3 DEF entry
<1> QED
  BY <1>5, <1>6

LEMMA AddedFrame ==
  ASSUME UNCHANGED <<addresses, communityPool, reservedAddr>>
  PROVE  /\ Full' = Full /\ Coins' = Coins
         /\ \A i : EntryAddress(i)' = EntryAddress(i) /\ EntryCoins(i)' = EntryCoins(i)
<1>1. Full' = Full
  BY DEF Full
<1>2. \A i : EntryAddress(i)' = EntryAddress(i) /\ EntryCoins(i)' = EntryCoins(i)
  BY <1>1 DEF EntryAddress, EntryCoins
<1> QED
  BY <1>1, <1>2 DEF Coins

\* The account that goes with a balance.
LEMMA AccountNext ==
  ASSUME NEW m \in Nat, authAccounts = [i \in 1..m |-> EntryAddress(i)],
         authAccounts' = Append(authAccounts, EntryAddress(m + 1))
  PROVE  authAccounts' = [i \in 1..(m + 1) |-> EntryAddress(i)]
<1> DEFINE S == {EntryAddress(i) : i \in 1..(m + 1)}
<1>1. authAccounts \in Seq(S) /\ Len(authAccounts) = m
  <2>1. authAccounts \in [1..m -> S]
    OBVIOUS
  <2> QED
    BY <2>1
<1> HIDE DEF S
<1> QED
  BY <1>1

\* Each step of the writing adds what comes next.
LEMMA DocStep ==
  ASSUME MadeInv, AirdropMade, DocInv, WriteGenesis
  PROVE  DocInv'
<1>1. /\ phase = "done" /\ phase' = phase /\ G!GenesisNext
      /\ UNCHANGED <<addresses, communityPool, reservedAddr>>
  BY DEF WriteGenesis, airdropVars
<1>2. /\ addresses \in [DOMAIN addresses -> Nat]
      /\ communityPool \in Nat /\ reservedAddr \in Nat
  BY <1>1, Airdropped
<1>3. /\ Full' = Full /\ Coins' = Coins
      /\ \A i : EntryAddress(i)' = EntryAddress(i) /\ EntryCoins(i)' = EntryCoins(i)
  BY <1>1, AddedFrame
<1>4. IsOrder(Full) /\ Len(Full) \in Nat /\ DOMAIN Full = 1..Len(Full)
  BY FullIs
<1>5. ASSUME NEW m, NEW k, Added(m, k), UNCHANGED <<balances, supply, authAccounts>>
      PROVE  Added(m, k)'
  BY <1>3, <1>5 DEF Added
<1>6. CASE G!ReadGenesis
  <2>1. /\ step' = "addresses" /\ balances' = <<>> /\ supply' = 0 /\ authAccounts' = <<>>
        /\ output' = output /\ toAdd' = Full /\ step = "start"
    BY <1>6, SameSorted DEF G!ReadGenesis, Full, Order
  <2>2. Added(0, 0)'
    <3>1. SumFunctionOnSet(Coins, 1..0)' = 0
      <4>1. 1..0 = {}
        OBVIOUS
      <4> QED
        BY <4>1, <1>3, SumEmpty
    <3>2. \A f : f = <<>> => f = [i \in 1..0 |-> EntryAddress(i)]
      OBVIOUS
    <3>3. <<>> = [i \in 1..0 |-> [Address |-> EntryAddress(i), Coins |-> EntryCoins(i)]]
      OBVIOUS
    <3> QED
      BY <2>1, <3>1, <3>2, <3>3, <1>3 DEF Added
  <2>3. toAdd' = [k \in 1..(Len(Full) - 0) |-> Full[0 + k]]
    <3>1. Full = [k \in 1..Len(Full) |-> Full[k]]
      BY <1>4 DEF IsOrder
    <3> QED
      BY <2>1, <3>1, <1>4
  <2>4. 0 \in 0..Len(Full)'
    BY <1>3, <1>4
  <2> QED
    BY <1>1, <1>3, <2>1, <2>2, <2>3, <2>4 DEF DocInv
<1>7. CASE G!Fail
  BY <1>1, <1>7 DEF G!Fail, DocInv
<1>8. CASE G!AddAddress
  <2>1. PICK m \in 0..Len(Full) :
          Added(m, m) /\ toAdd = [k \in 1..(Len(Full) - m) |-> Full[m + k]]
    BY <1>8 DEF G!AddAddress, DocInv
  <2>2. m \in Nat /\ Len(Full) \in Nat /\ Full \in Seq(Range(Full))
    BY <1>4 DEF IsOrder
  <2>3. toAdd \in Seq(Range(Full)) /\ Len(toAdd) = Len(Full) - m
    <3>1. \A k \in 1..(Len(Full) - m) : m + k \in 1..Len(Full)
      BY <2>2
    <3>2. \A k \in 1..Len(Full) : Full[k] \in Range(Full)
      BY <1>4 DEF Range
    <3>3. toAdd \in [1..(Len(Full) - m) -> Range(Full)]
      BY <2>1, <3>1, <3>2
    <3> DEFINE left == Len(Full) - m
    <3>4. left \in Nat /\ toAdd \in [1..left -> Range(Full)]
      BY <2>1, <2>2, <3>3
    <3> HIDE DEF left
    <3>5. toAdd \in Seq(Range(Full)) /\ Len(toAdd) = left
      BY <3>4
    <3> QED
      BY <3>5 DEF left
  <2>4. m + 1 <= Len(Full) /\ Head(toAdd) = Full[m + 1]
    BY <1>8, <2>1, <2>2, <2>3 DEF G!AddAddress
  <2>5. EntryAddress(m + 1) = Head(toAdd) /\ EntryCoins(m + 1) = addresses[Head(toAdd)]
    BY <2>4 DEF EntryAddress, EntryCoins
  <2>6. /\ G!AddBalance(EntryAddress(m + 1), EntryCoins(m + 1))
        /\ authAccounts' = Append(authAccounts, EntryAddress(m + 1))
        /\ toAdd' = Tail(toAdd) /\ step' = step /\ step = "addresses" /\ output' = output
    BY <1>8, <2>5 DEF G!AddAddress
  <2>7. /\ balances' = [i \in 1..(m + 1) |->
                          [Address |-> EntryAddress(i), Coins |-> EntryCoins(i)]]'
        /\ supply' = SumFunctionOnSet(Coins, 1..(m + 1))'
    <3>1. m \in 0..(Len(Full) + 1)
      BY <2>2
    <3> QED
      BY <1>1, <1>2, <2>1, <2>6, <3>1, AddedNext
  <2>8. authAccounts' = [i \in 1..(m + 1) |-> EntryAddress(i)]
    <3>1. authAccounts = [i \in 1..m |-> EntryAddress(i)]
      BY <2>1 DEF Added
    <3> QED
      BY <2>2, <2>6, <3>1, AccountNext
  <2>9. Added(m + 1, m + 1)'
    BY <1>3, <2>7, <2>8 DEF Added
  <2>10. toAdd' = [k \in 1..(Len(Full) - (m + 1)) |-> Full[(m + 1) + k]]
    <3> DEFINE rest == Tail(toAdd)
               n == Len(Full)
    <3>1. rest = [k \in 1..(Len(toAdd) - 1) |-> toAdd[k + 1]]
      <4>1. toAdd # <<>>
        BY <1>8 DEF G!AddAddress
      <4>2. /\ rest \in Seq(Range(Full)) /\ Len(rest) = Len(toAdd) - 1
            /\ \A k \in 1..Len(rest) : rest[k] = toAdd[k + 1]
        BY <2>3, <4>1, HeadTailProperties
      <4> HIDE DEF rest
      <4>3. rest = [k \in 1..Len(rest) |-> rest[k]]
        BY <4>2
      <4> QED
        BY <4>2, <4>3
    <3>2. Len(toAdd) - 1 = n - (m + 1)
      BY <2>2, <2>3
    <3>3. \A k \in 1..(n - (m + 1)) : toAdd[k + 1] = Full[(m + 1) + k]
      BY <2>1, <2>2
    <3> HIDE DEF n, rest
    <3>4. rest = [k \in 1..(n - (m + 1)) |-> Full[(m + 1) + k]]
      BY <3>1, <3>2, <3>3
    <3> QED
      BY <2>6, <3>4 DEF rest, n
  <2>11. m + 1 \in 0..Len(Full)
    BY <2>2, <2>4
  <2> QED
    BY <1>1, <1>3, <2>6, <2>9, <2>10, <2>11 DEF DocInv
<1>9. CASE G!AddReserved
  <2>1. PICK m \in 0..Len(Full) :
          Added(m, m) /\ toAdd = [k \in 1..(Len(Full) - m) |-> Full[m + k]]
    BY <1>9 DEF G!AddReserved, DocInv
  <2>2. m = Len(Full)
    <3>1. toAdd = <<>>
      BY <1>9 DEF G!AddReserved
    <3>2. DOMAIN toAdd = 1..(Len(Full) - m) /\ DOMAIN toAdd = {}
      BY <2>1, <3>1
    <3>3. m < Len(Full) => 1 \in 1..(Len(Full) - m)
      BY <1>4
    <3>4. ~(m < Len(Full))
      BY <3>2, <3>3
    <3> DEFINE n == Len(Full)
    <3>5. n \in Nat /\ m \in 0..n /\ ~(m < n)
      BY <1>4, <3>4
    <3> HIDE DEF n
    <3>6. m = n
      BY <3>5
    <3> QED
      BY <3>6 DEF n
  <2>3. EntryAddress(m + 1) = ReservedAddress /\ EntryCoins(m + 1) = RoundInt(reservedAddr)
    BY <1>4, <2>2 DEF EntryAddress, EntryCoins
  <2>4. /\ G!AddBalance(EntryAddress(m + 1), EntryCoins(m + 1))
        /\ authAccounts' = Append(authAccounts, EntryAddress(m + 1))
        /\ step' = "pool" /\ step = "addresses" /\ output' = output
    BY <1>9, <2>3, SameNumbers DEF G!AddReserved
  <2>5. /\ balances' = [i \in 1..(m + 1) |->
                          [Address |-> EntryAddress(i), Coins |-> EntryCoins(i)]]'
        /\ supply' = SumFunctionOnSet(Coins, 1..(m + 1))'
    <3>1. m \in 0..(Len(Full) + 1)
      BY <1>4
    <3> QED
      BY <1>1, <1>2, <2>1, <2>4, <3>1, AddedNext
  <2>6. authAccounts' = [i \in 1..(m + 1) |-> EntryAddress(i)]
    <3>1. authAccounts = [i \in 1..m |-> EntryAddress(i)] /\ m \in Nat
      BY <1>4, <2>1 DEF Added
    <3> QED
      BY <2>4, <3>1, AccountNext
  <2>7. Added(Len(Full) + 1, Len(Full) + 1)'
    BY <1>3, <2>2, <2>5, <2>6 DEF Added
  <2> QED
    BY <1>1, <2>4, <2>7 DEF DocInv
<1>10. CASE G!AddCommunityPool
  <2>0. PICK m \in Nat : m = Len(Full) + 1
    BY <1>4
  <2>1. Added(m, m)
    BY <1>10, <2>0 DEF G!AddCommunityPool, DocInv
  <2>2. EntryAddress(m + 1) = DistrModule /\ EntryCoins(m + 1) = RoundInt(communityPool)
    BY <1>4, <2>0 DEF EntryAddress, EntryCoins
  <2>3. /\ G!AddBalance(EntryAddress(m + 1), EntryCoins(m + 1))
        /\ feePool' = FromInt(RoundInt(communityPool))
        /\ authAccounts' = authAccounts
        /\ step' = "constitution" /\ step = "pool" /\ output' = output
    BY <1>10, <2>2, SameNumbers DEF G!AddCommunityPool
  <2>4. m \in 0..(Len(Full) + 1) /\ m + 1 = Len(Full) + 2
    BY <1>4, <2>0
  <2>5. /\ balances' = [i \in 1..(m + 1) |->
                          [Address |-> EntryAddress(i), Coins |-> EntryCoins(i)]]'
        /\ supply' = SumFunctionOnSet(Coins, 1..(m + 1))'
    BY <1>1, <1>2, <2>1, <2>3, <2>4, AddedNext
  <2>6. authAccounts' = [i \in 1..m |-> EntryAddress(i)]
    BY <2>1, <2>3 DEF Added
  <2>7. Added(Len(Full) + 2, m)'
    BY <1>3, <2>4, <2>5, <2>6 DEF Added
  <2>8. Complete'
    BY <1>1, <1>3, <2>0, <2>3, <2>7 DEF Complete
  <2> QED
    BY <1>1, <2>3, <2>8 DEF DocInv
<1>11. CASE G!FetchConstitution \/ G!PrintGenesis
  <2>1. /\ step \in {"constitution", "marshal"} /\ step' \in {"marshal", "printed"}
        /\ UNCHANGED <<balances, supply, authAccounts, feePool>>
        /\ output' = IF step' # "printed" THEN {}
                     ELSE {[balances |-> balances, supply |-> supply,
                            accounts |-> authAccounts, feePool |-> feePool,
                            constitution |-> constitution]}
        /\ step' = "printed" => constitution' = constitution
    BY <1>11 DEF G!FetchConstitution, G!PrintGenesis, G!doc, DocInv
  <2>2. Complete
    BY <2>1 DEF DocInv
  <2>3. Complete'
    BY <1>1, <1>3, <1>5, <2>1, <2>2 DEF Complete
  <2> QED
    BY <1>1, <2>1, <2>3 DEF DocInv
<1> QED
  BY <1>1, <1>6, <1>7, <1>8, <1>9, <1>10, <1>11 DEF G!GenesisNext

LEMMA DocNextStep ==
  ASSUME MadeInv, AirdropMade, DocInv, [Next]_govboxVars
  PROVE  DocInv'
<1>1. CASE WriteGenesis
  BY <1>1, DocStep
<1>2. CASE MakeAccounts \/ Distribute \/ Ended \/ UNCHANGED govboxVars
  <2>1. UNCHANGED docVars
    BY <1>2 DEF MakeAccounts, Distribute, Ended, govboxVars
  <2>2. CASE phase # "done"
    <3>1. G!GenesisInit'
      BY <2>1, <2>2 DEF DocInv, docVars, G!GenesisInit
    <3> QED
      BY <3>1 DEF DocInv, G!GenesisInit
  <2>3. CASE phase = "done"
    <3>1. UNCHANGED <<addresses, communityPool, reservedAddr, phase>>
      <4>1. CASE Distribute
        BY <2>3, <4>1 DEF Distribute, D!DistributionNext, D!Begin, D!Survey,
                          D!ComputeMultiplier, D!SlashIcf, D!SkipZero, D!Credit,
                          D!FailToConvert, D!Mint, D!Ended, D!AddAirdrop,
                          D!distributionVars, D!airdrop, D!minted
      <4> QED
        BY <1>2, <4>1 DEF MakeAccounts, Ended, govboxVars, airdropVars
    <3>2. /\ Full' = Full /\ Coins' = Coins
          /\ \A i : EntryAddress(i)' = EntryAddress(i) /\ EntryCoins(i)' = EntryCoins(i)
      BY <3>1, AddedFrame
    <3>3. \A m, k : Added(m, k) => Added(m, k)'
      BY <2>1, <3>2 DEF Added, docVars
    <3>4. Complete => Complete'
      BY <2>1, <3>1, <3>2, <3>3 DEF Complete, docVars
    <3> QED
      BY <2>1, <2>3, <3>1, <3>2, <3>3, <3>4 DEF DocInv, docVars
  <2> QED
    BY <2>2, <2>3
<1> QED
  BY <1>1, <1>2 DEF Next

LEMMA Invariance == Spec => [](MadeInv /\ AirdropMade /\ DocInv)
<1>1. Init => DocInv
  BY DEF Init, DocInv, D!DistributionInit, G!GenesisInit
<1>2. MadeInv /\ AirdropMade /\ DocInv /\ [Next]_govboxVars => DocInv'
  BY DocNextStep
<1> QED
  BY <1>1, <1>2, AirdropInvariance, PTL DEF Spec

-----------------------------------------------------------------------------
(* The properties of the genesis.                                          *)

\* The accounts are well formed at every step of the two loops, and the writing
\* of the genesis stands at a step of its own.
THEOREM AccountsTypeCorrect == Spec => []AccountsTypeOK
<1>1. MadeInv /\ DocInv => AccountsTypeOK
  <2> SUFFICES ASSUME MadeInv, DocInv
               PROVE  AccountsTypeOK
    OBVIOUS
  <2>1. FilesOK /\ LoopsInv
    BY DEF MadeInv
  <2>2. DOMAIN delegsByAddr \subseteq Address /\ DOMAIN balancesByAddr \subseteq Address
    BY <2>1 DEF FilesOK
  <2>3. todo \subseteq Address /\ DOMAIN accountsByAddr \subseteq Address
    BY <2>1, <2>2 DEF LoopsInv, Reached
  <2>4. \A a \in DOMAIN accountsByAddr :
          accountsByAddr[a].Address = a /\ IsAccount(accountsByAddr[a])
    <3> TAKE a \in DOMAIN accountsByAddr
    <3> DEFINE acc == accountsByAddr[a]
    <3>1. IsAccountFor(acc, a)
      BY <2>1 DEF LoopsInv
    <3> HIDE DEF acc
    <3>2. acc.Address = a /\ IsAccount(acc)
      BY <2>1, <3>1, AccountIs DEF IsAccountFor
    <3> QED
      BY <3>2 DEF acc
  <2>5. /\ stage \in {"not parsed", "delegators", "balances", "written"}
        /\ step \in {"start", "addresses", "pool", "constitution", "marshal",
                     "printed", "error"}
    BY <2>1 DEF LoopsInv, DocInv
  <2> QED
    BY <2>3, <2>4, <2>5 DEF AccountsTypeOK
<1> QED
  BY <1>1, Invariance, PTL

\* A genesis that is printed is complete.
LEMMA Printed ==
  ASSUME MadeInv, AirdropMade, DocInv, NEW g \in output
  PROVE  /\ phase = "done"
         /\ Complete
         /\ g = [balances |-> balances, supply |-> supply, accounts |-> authAccounts,
                 feePool |-> feePool, constitution |-> constitution]
         /\ \A i \in 1..(Len(Full) + 2) : EntryCoins(i) \in Nat /\ Coins[i] = EntryCoins(i)
         /\ g.balances = [i \in 1..(Len(Full) + 2) |->
                            [Address |-> EntryAddress(i), Coins |-> EntryCoins(i)]]
         /\ g.supply = SumFunctionOnSet(Coins, 1..(Len(Full) + 2))
         /\ g.accounts = [i \in 1..(Len(Full) + 1) |-> EntryAddress(i)]
         /\ g.feePool = FromInt(RoundInt(communityPool))
<1>1. step = "printed"
  BY DEF DocInv
<1>2. /\ Complete
      /\ g = [balances |-> balances, supply |-> supply, accounts |-> authAccounts,
              feePool |-> feePool, constitution |-> constitution]
  BY <1>1 DEF DocInv
<1>3. phase = "done"
  BY <1>1 DEF DocInv, G!GenesisInit
<1>4. \A i \in 1..(Len(Full) + 2) : EntryCoins(i) \in Nat /\ Coins[i] = EntryCoins(i)
  BY <1>3, Airdropped, CoinsType
<1> QED
  BY <1>2, <1>3, <1>4 DEF Complete, Added

\* No entry has the address of another: the converted addresses are those of
\* accounts that are not left out, and the module account is.
LEMMA EntriesDiffer ==
  ASSUME MadeInv, AirdropMade, phase = "done"
  PROVE  \A i, j \in 1..(Len(Full) + 2) : EntryAddress(i) = EntryAddress(j) => i = j
<1>1. /\ Len(Full) \in Nat
      /\ DOMAIN Full = 1..Len(Full)
      /\ \A i, j \in 1..Len(Full) : Full[i] = Full[j] => i = j
  BY FullIs DEF IsOrder
<1>2. \A i \in 1..Len(Full) : Full[i] # ReservedAddress /\ Full[i] # DistrModule
  <2> TAKE i \in 1..Len(Full)
  <2>1. Full[i] \in DOMAIN addresses
    BY <1>1, FullIs DEF Range
  <2>2. PICK a \in Holders \cap Address \cap DOMAIN Convert : Full[i] = Convert[a]
    BY <2>1, Airdropped
  <2>3. accountTypes \in TypeFiles /\ accountTypes[a] # "module"
    BY <2>2 DEF Holders, IsIgnored, MadeInv, FilesOK
  <2> QED
    BY <2>2, <2>3, AddedAssumption
<1>3. ReservedAddress # DistrModule
  BY AddedAssumption
<1>4. \A i \in 1..(Len(Full) + 2) :
        i \in 1..Len(Full) \/ i = Len(Full) + 1 \/ i = Len(Full) + 2
  BY <1>1
<1>5. /\ \A i \in 1..Len(Full) : EntryAddress(i) = Full[i]
      /\ EntryAddress(Len(Full) + 1) = ReservedAddress
      /\ EntryAddress(Len(Full) + 2) = DistrModule
  BY <1>1 DEF EntryAddress
<1> QED
  BY <1>1, <1>2, <1>3, <1>4, <1>5

\* The genesis is one the chain starts from, whatever the snapshot: no address
\* twice, the supply is the sum of the balances, and each balance but that of
\* the module account has its account.
THEOREM GenesisStartsCorrect == Spec => []GenesisStarts
<1>1. MadeInv /\ AirdropMade /\ DocInv => GenesisStarts
  <2> SUFFICES ASSUME MadeInv, AirdropMade, DocInv, NEW g \in output
               PROVE  /\ G!NoDuplicateBalance(g)
                      /\ G!SupplyIsBalances(g)
                      /\ G!AccountsAreBalances(g)
    BY DEF GenesisStarts
  <2> DEFINE n == Len(Full)
             entry(i) == [Address |-> EntryAddress(i), Coins |-> EntryCoins(i)]
  <2>1. /\ phase = "done"
        /\ \A i \in 1..(n + 2) : EntryCoins(i) \in Nat /\ Coins[i] = EntryCoins(i)
        /\ g.balances = [i \in 1..(n + 2) |-> entry(i)]
        /\ g.supply = SumFunctionOnSet(Coins, 1..(n + 2))
        /\ g.accounts = [i \in 1..(n + 1) |-> EntryAddress(i)]
    BY Printed
  <2>2. n \in Nat
    BY FullIs
  <2>3. /\ DOMAIN g.balances = 1..(n + 2)
        /\ \A i \in 1..(n + 2) : /\ g.balances[i].Address = EntryAddress(i)
                                 /\ g.balances[i].Coins = EntryCoins(i)
    BY <2>1
  <2>4. G!NoDuplicateBalance(g)
    <3>1. \A i, j \in 1..(n + 2) : EntryAddress(i) = EntryAddress(j) => i = j
      BY <2>1, EntriesDiffer
    <3> HIDE DEF n
    <3> QED
      BY <2>3, <3>1 DEF G!NoDuplicateBalance
  <2>5. G!SupplyIsBalances(g)
    <3> DEFINE S == 1..(n + 2)
               held == [i \in DOMAIN g.balances |-> g.balances[i].Coins]
    <3>1. IsFiniteSet(S)
      <4>1. 1 \in Int /\ n + 2 \in Int
        BY <2>2
      <4> QED
        BY <4>1, FS_Interval
    <3>2. DOMAIN held = S /\ \A i \in S : Coins[i] \in Int /\ held[i] = Coins[i]
      BY <2>1, <2>3
    <3>3. g.supply = SumFunctionOnSet(Coins, S)
      BY <2>1
    <3>4. SumFunction(held) = SumFunctionOnSet(held, DOMAIN held)
      BY DEF SumFunction
    <3> HIDE DEF S, held
    <3>5. SumFunction(held) = SumFunctionOnSet(Coins, S)
      BY <3>1, <3>2, <3>4, SumSame
    <3>6. g.supply = G!SumFunction(held)
      BY <3>3, <3>5, SameNumbers
    <3> QED
      BY <3>6 DEF G!SupplyIsBalances, held
  <2>6. G!AccountsAreBalances(g)
    <3>1. DOMAIN g.accounts = 1..(n + 1) /\ \A i \in 1..(n + 1) : g.accounts[i] = EntryAddress(i)
      BY <2>1
    <3>2. Len(g.balances) = n + 2
      <4> DEFINE k == n + 2
      <4>1. k \in Nat /\ DOMAIN g.balances = 1..k
        BY <2>2, <2>3
      <4>2. g.balances \in [1..k -> Range(g.balances)]
        BY <2>1, <4>1 DEF Range
      <4> HIDE DEF k
      <4>3. Len(g.balances) = k
        BY <4>1, <4>2
      <4> QED
        BY <4>3 DEF k
    <3>3. Len(g.balances) - 1 = n + 1 /\ \A i \in 1..(n + 1) : i \in 1..(n + 2)
      BY <2>2, <3>2
    <3> HIDE DEF n
    <3>4. [i \in DOMAIN g.accounts |-> g.accounts[i]]
            = [i \in 1..(n + 1) |-> g.balances[i].Address]
      BY <2>3, <3>1, <3>3
    <3> QED
      BY <3>3, <3>4 DEF G!AccountsAreBalances
  <2> QED
    BY <2>4, <2>5, <2>6
<1> QED
  BY <1>1, Invariance, PTL

\* The pool of the genesis is backed by what the module account holds, to the
\* coin, whatever the fraction of the minted part.
THEOREM PoolBackedCorrect == Spec => []PoolBacked
<1>1. MadeInv /\ AirdropMade /\ DocInv => PoolBacked
  <2> SUFFICES ASSUME MadeInv, AirdropMade, DocInv, NEW g \in output
               PROVE  G!PoolIsBacked(g)
    BY DEF PoolBacked
  <2> DEFINE last == Len(Full) + 2
             mine == {i \in DOMAIN g.balances : g.balances[i].Address = DistrModule}
             held == [i \in mine |-> g.balances[i].Coins]
  <2>1. /\ phase = "done"
        /\ \A i \in 1..last : EntryCoins(i) \in Nat
        /\ g.balances = [i \in 1..last |->
                           [Address |-> EntryAddress(i), Coins |-> EntryCoins(i)]]
        /\ g.feePool = FromInt(RoundInt(communityPool))
    BY Printed
  <2>2. last \in 1..last /\ EntryAddress(last) = DistrModule
        /\ EntryCoins(last) = RoundInt(communityPool)
    BY FullIs DEF EntryAddress, EntryCoins
  <2>3. \A i, j \in 1..last : EntryAddress(i) = EntryAddress(j) => i = j
    BY <2>1, EntriesDiffer
  <2> HIDE DEF last
  <2>4. mine = {last} /\ g.balances[last].Coins = RoundInt(communityPool)
    <3>1. /\ DOMAIN g.balances = 1..last
          /\ \A i \in 1..last : /\ g.balances[i].Address = EntryAddress(i)
                                /\ g.balances[i].Coins = EntryCoins(i)
      BY <2>1
    <3> QED
      BY <2>2, <2>3, <3>1
  <2>5. RoundInt(communityPool) \in Int
    BY <2>1, <2>2
  <2>6. SumFunction(held) = RoundInt(communityPool)
    <3>1. SumFunction(held) = SumFunctionOnSet(held, {} \cup {last})
      <4>1. DOMAIN held = {} \cup {last}
        BY <2>4
      <4> HIDE DEF held
      <4> QED
        BY <4>1 DEF SumFunction
    <3>2. held[last] = RoundInt(communityPool)
      BY <2>4
    <3> HIDE DEF held
    <3>3. SumFunctionOnSet(held, {} \cup {last}) = held[last] + SumFunctionOnSet(held, {})
      BY <2>5, <3>2, SumAdd, FS_EmptySet
    <3>4. SumFunctionOnSet(held, {}) = 0
      BY SumEmpty
    <3> QED
      BY <2>5, <3>1, <3>2, <3>3, <3>4
  <2>7. G!BalanceOf(g, DistrModule) = RoundInt(communityPool)
    BY <2>6, SameNumbers DEF G!BalanceOf
  <2> QED
    BY <2>1, <2>7, SameNumbers DEF G!PoolIsBacked
<1> QED
  BY <1>1, Invariance, PTL

LEMMA RoundIntError ==
  ASSUME NEW amount \in Nat
  PROVE  /\ RoundInt(amount) \in Nat
         /\ FromInt(RoundInt(amount)) - amount <= One \div 2
         /\ amount - FromInt(RoundInt(amount)) <= One \div 2
<1> DEFINE c == ChopRound(amount)
           oc == One * c
<1>1. c \in Nat /\ -One <= 2 * (oc - amount) /\ 2 * (oc - amount) <= One
  BY ChopRoundNat
<1>2. FromInt(c) = oc /\ oc \in Int
  <2> HIDE DEF c
  <2> QED
    BY <1>1, OneAssumption DEF FromInt
<1>3. RoundInt(amount) = c
  BY DEF RoundInt
<1> HIDE DEF c, oc
<1>4. One = 2 * (One \div 2) /\ One \div 2 \in Nat
  BY OneAssumption
<1> QED
  BY <1>1, <1>2, <1>3, <1>4

\* The supply is the airdrop and the two halves of the minted part.
LEMMA SupplyParts ==
  ASSUME MadeInv, AirdropMade, phase = "done"
  PROVE  SumFunctionOnSet(Coins, 1..(Len(Full) + 2))
           = SumFunction(addresses) + RoundInt(reservedAddr) + RoundInt(communityPool)
<1> DEFINE n == Len(Full)
           S == 1..n
           U == S \cup {n + 1}
<1>1. /\ n \in Nat /\ DOMAIN Full = S
      /\ \A i, j \in S : Full[i] = Full[j] => i = j
      /\ Range(Full) = DOMAIN addresses
  <2>1. DOMAIN addresses \subseteq Range(Order)
    BY Airdropped, OrderIs
  <2>2. Range(Full) = DOMAIN addresses \cap Range(Order)
    BY OrderIs, SortedKeys DEF Full
  <2> QED
    BY <2>1, <2>2, FullIs DEF IsOrder
<1>2. /\ addresses \in [DOMAIN addresses -> Nat]
      /\ communityPool \in Nat /\ reservedAddr \in Nat
      /\ \A i \in 1..(n + 2) : EntryCoins(i) \in Nat /\ Coins[i] = EntryCoins(i)
  BY Airdropped, CoinsType
<1>3. /\ 1..(n + 2) = U \cup {n + 2} /\ (n + 2) \notin U /\ (n + 1) \notin S
      /\ S \subseteq 1..(n + 2)
  BY <1>1
<1>4. IsFiniteSet(S)
  <2>1. 1 \in Int /\ n \in Int
    BY <1>1
  <2> QED
    BY <2>1, FS_Interval
<1>5. /\ \A i \in S : Coins[i] = addresses[Full[i]]
      /\ Coins[n + 1] = RoundInt(reservedAddr)
      /\ Coins[n + 2] = RoundInt(communityPool)
      /\ RoundInt(reservedAddr) \in Int /\ RoundInt(communityPool) \in Int
  <2>1. \A i \in S : EntryCoins(i) = addresses[Full[i]]
    BY <1>1 DEF EntryCoins
  <2>2. /\ EntryCoins(n + 1) = RoundInt(reservedAddr)
        /\ EntryCoins(n + 2) = RoundInt(communityPool)
    BY <1>1 DEF EntryCoins
  <2>3. n + 1 \in 1..(n + 2) /\ n + 2 \in 1..(n + 2)
    BY <1>1
  <2> QED
    BY <1>2, <1>3, <2>1, <2>2, <2>3
<1>6. \A i \in U \cup {n + 2} : Coins[i] \in Int
  BY <1>2, <1>3
<1> HIDE DEF n
<1>7. SumFunctionOnSet(Coins, S) = SumFunction(addresses)
  <2>1. {Full[i] : i \in S} = DOMAIN addresses
    BY <1>1 DEF Range
  <2>2. \A i \in S : Coins[i] \in Int /\ Coins[i] = addresses[Full[i]]
    BY <1>5, <1>6
  <2>3. \A i, j \in S : Full[i] = Full[j] => i = j
    BY <1>1
  <2> HIDE DEF S
  <2>4. SumFunctionOnSet(addresses, {Full[i] : i \in S}) = SumFunctionOnSet(Coins, S)
    BY <1>4, <2>2, <2>3, SumImage
  <2> QED
    BY <2>1, <2>4 DEF SumFunction
<1> DEFINE y == n + 1
           z == n + 2
<1>8. /\ SumFunctionOnSet(Coins, U) = Coins[y] + SumFunctionOnSet(Coins, S)
      /\ SumFunctionOnSet(Coins, U \cup {z}) = Coins[z] + SumFunctionOnSet(Coins, U)
      /\ SumFunctionOnSet(Coins, S) \in Int
  <2>1. U = S \cup {y} /\ y \notin S /\ z \notin U
    BY <1>3
  <2>2. \A i \in U \cup {z} : Coins[i] \in Int
    BY <1>6
  <2> HIDE DEF S, U, y, z
  <2>3. IsFiniteSet(U)
    BY <1>4, <2>1, FS_AddElement
  <2>4. SumFunctionOnSet(Coins, S \cup {y}) = Coins[y] + SumFunctionOnSet(Coins, S)
    BY <1>4, <2>1, <2>2, SumAdd
  <2>5. SumFunctionOnSet(Coins, U \cup {z}) = Coins[z] + SumFunctionOnSet(Coins, U)
    BY <2>1, <2>2, <2>3, SumAdd
  <2>6. SumFunctionOnSet(Coins, S) \in Int
    BY <1>4, <2>1, <2>2, SumInt
  <2> QED
    BY <2>1, <2>4, <2>5, <2>6
<1>9. SumFunctionOnSet(Coins, 1..(n + 2)) = SumFunctionOnSet(Coins, U \cup {z})
  BY <1>3
<1> HIDE DEF S, U
<1> QED
  BY <1>5, <1>7, <1>8, <1>9 DEF n

\* Nothing is lost between the airdrop and the genesis: each account is off by
\* half a coin at most, and so are the two halves of the minted part.
THEOREM SupplyIsAirdropCorrect == Spec => []SupplyIsAirdrop
<1>1. MadeInv /\ AirdropMade /\ DocInv => SupplyIsAirdrop
  <2> SUFFICES ASSUME MadeInv, AirdropMade, DocInv, NEW g \in output
               PROVE  LET slack == (Len(accounts) + 2) * (One \div 2)
                      IN  FromInt(g.supply) - (atone.supply + communityPool + reservedAddr)
                            \in -slack..slack
    BY DEF SupplyIsAirdrop
  <2> DEFINE half == One \div 2
             n == Len(accounts)
             slack == (n + 2) * half
             sum == SumFunction(addresses)
             pool == RoundInt(communityPool)
             res == RoundInt(reservedAddr)
  <2>1. phase = "done" /\ g.supply = sum + res + pool
    BY Printed, SupplyParts
  <2>2. /\ communityPool \in Nat /\ reservedAddr \in Nat /\ atone.supply \in Nat
        /\ FromInt(sum) - atone.supply <= n * half
        /\ atone.supply - FromInt(sum) <= n * half
        /\ addresses \in [DOMAIN addresses -> Nat] /\ IsFiniteSet(DOMAIN addresses)
    BY <2>1, Airdropped
  <2>3. sum \in Nat
    BY <2>2, SumFunctionType
  <2>4. /\ pool \in Nat /\ res \in Nat
        /\ FromInt(pool) - communityPool <= half /\ communityPool - FromInt(pool) <= half
        /\ FromInt(res) - reservedAddr <= half /\ reservedAddr - FromInt(res) <= half
    BY <2>2, RoundIntError
  <2>5. n \in Nat
    <3>1. accounts \in Seq(Account)
      BY <2>1, ListMade DEF AirdropMade, AccountLists
    <3> QED
      BY <3>1
  <2>6. half \in Nat
    BY OneAssumption
  <2> HIDE DEF sum, pool, res, half, n
  <2>7. /\ FromInt(g.supply) = FromInt(sum) + FromInt(res) + FromInt(pool)
        /\ FromInt(sum) \in Int /\ FromInt(res) \in Int /\ FromInt(pool) \in Int
    BY <2>1, <2>3, <2>4, OneAssumption DEF FromInt
  <2>8. slack = n * half + half + half /\ n * half \in Nat
    BY <2>5, <2>6
  <2> DEFINE nh == n * half
             fs == FromInt(sum)
             fr == FromInt(res)
             fp == FromInt(pool)
             fg == FromInt(g.supply)
  <2> HIDE DEF slack, nh, fs, fr, fp, fg
  <2>9. fg - (atone.supply + communityPool + reservedAddr) \in -slack..slack
    BY <2>2, <2>4, <2>6, <2>7, <2>8 DEF nh, fs, fr, fp, fg
  <2> QED
    BY <2>9 DEF fg, slack, n, half
<1> QED
  BY <1>1, Invariance, PTL

-----------------------------------------------------------------------------
(* The tally and the distribution, from the same delegations.              *)

\* The shares of a validator are those of its delegations, each listed once.
SharesAt(v) ==
  [ad \in Delegated(delegsByAddr) |-> IF ad[2].validator = v THEN ad[2].shares ELSE 0]
SharesOK ==
  /\ IsFiniteSet(DOMAIN valsByAddr)
  /\ IsFiniteSet(Delegated(delegsByAddr))
  /\ \A a \in DOMAIN delegsByAddr : \A i, j \in DOMAIN delegsByAddr[a] :
       delegsByAddr[a][i] = delegsByAddr[a][j] => i = j
  /\ \A v \in DOMAIN valsByAddr :
       SumFunctionOnSet(SharesAt(v), Delegated(delegsByAddr))
         = valsByAddr[v].DelegatorShares

LEMMA SharesInit ==
  ASSUME AccountsInit
  PROVE  SharesOK
<1> PICK votes \in VotesFiles, delegs \in DelegationFiles :
      \E vals \in ValidatorFiles[delegs] :
         /\ votesByAddr = ParseVotesByAddr(votes)
         /\ delegsByAddr = ParseDelegationsByAddr(delegs)
         /\ valsByAddr = ParseValidatorsByAddr(vals, votesByAddr)
  BY DEF AccountsInit
<1> PICK vals \in ValidatorFiles[delegs] :
         /\ votesByAddr = ParseVotesByAddr(votes)
         /\ delegsByAddr = ParseDelegationsByAddr(delegs)
         /\ valsByAddr = ParseValidatorsByAddr(vals, votesByAddr)
  OBVIOUS
<1>1. votesByAddr \in [DOMAIN votesByAddr -> Ballots]
  BY ParsedVotes
<1>2. \A a \in DOMAIN delegsByAddr : \A i, j \in DOMAIN delegsByAddr[a] :
        delegsByAddr[a][i] = delegsByAddr[a][j] => i = j
  BY ParsedDelegations
<1>3. /\ IsFiniteSet(DOMAIN valsByAddr)
      /\ \A v \in DOMAIN valsByAddr : valsByAddr[v].DelegatorShares = SharesOf(delegs, v)
  BY <1>1, ParsedValidators
<1>4. \A v : /\ IsFiniteSet(Delegated(delegsByAddr))
             /\ SumFunctionOnSet(SharesAt(v), Delegated(delegsByAddr)) = SharesOf(delegs, v)
  BY ParsedShares DEF SharesAt
<1> QED
  BY <1>2, <1>3, <1>4 DEF SharesOK

LEMMA SharesInvariance == Spec => []SharesOK
<1>1. Init => SharesOK
  BY SharesInit DEF Init
<1>2. SharesOK /\ UNCHANGED files => SharesOK'
  <2> SUFFICES ASSUME SharesOK, UNCHANGED files PROVE SharesOK'
    OBVIOUS
  <2>1. delegsByAddr' = delegsByAddr /\ valsByAddr' = valsByAddr
    BY DEF files
  <2>2. Delegated(delegsByAddr)' = Delegated(delegsByAddr)
    BY <2>1
  <2>3. \A v : SharesAt(v)' = SharesAt(v)
    BY <2>1 DEF SharesAt
  <2> QED
    BY <2>1, <2>2, <2>3 DEF SharesOK
<1>3. [Next]_govboxVars => UNCHANGED files
  BY DEF Next, MakeAccounts, Distribute, WriteGenesis, Ended, govboxVars, accountsVars,
         AccountsNext, IgnoreAddress, FeedDelegator, FeedBalance, FeedHolder,
         EndDelegators, SortAccounts
<1> QED
  BY <1>1, <1>2, <1>3, PTL DEF Spec

\* The delegations to active validators, with what they are worth, how they
\* vote, and what they add to an option.
Bonded == {ad \in Delegated(delegsByAddr) : ad[2].validator \in DOMAIN valsByAddr}
BallotOf(ad) == Lookup(votesByAddr, ad[1], valsByAddr[ad[2].validator].Vote)
PowerOf == [ad \in Bonded |-> VotingPower(ad[2].shares, valsByAddr[ad[2].validator])]
WeightOf(o) == [ad \in Bonded |-> Lookup(BallotOf(ad), o, 0)]
PartOf(o) == [ad \in Bonded |-> Mul(PowerOf[ad], WeightOf(o)[ad])]

Voted == {ad \in Bonded : ad[1] \in DOMAIN votesByAddr}
Silent == Bonded \ Voted

LEMMA VoteWeight ==
  ASSUME NEW w \in Ballots \cup {NoVote}, NEW o \in VoteOption
  PROVE  Lookup(w, o, 0) \in 0..One
<1>1. 0 \in 0..One /\ 1..One \subseteq 0..One
  BY OneAssumption
<1>2. CASE w = NoVote
  BY <1>1, <1>2 DEF Lookup, NoVote
<1>3. CASE w \in Ballots
  <2>1. IsWeightedVote(w)
    BY <1>3 DEF Ballots
  <2>2. w \in [DOMAIN w -> 1..One]
    BY <2>1 DEF IsWeightedVote
  <2> QED
    BY <1>1, <2>2 DEF Lookup
<1> QED
  BY <1>2, <1>3

LEMMA BondedPair ==
  ASSUME FilesOK, NEW ad \in Bonded
  PROVE  /\ ad[1] \in DOMAIN delegsByAddr
         /\ \E i \in Active(ad[1]) : ad = <<ad[1], delegsByAddr[ad[1]][i]>>
         /\ ad[2].validator \in DOMAIN valsByAddr
         /\ ad[2].shares \in Nat
<1>1. ad \in Delegated(delegsByAddr) /\ ad[2].validator \in DOMAIN valsByAddr
  BY DEF Bonded
<1>2. PICK a \in DOMAIN delegsByAddr : ad \in {a} \X Range(delegsByAddr[a])
  BY <1>1 DEF Delegated
<1>3. PICK d \in Range(delegsByAddr[a]) : ad = <<a, d>>
  BY <1>2
<1>4. PICK i \in DOMAIN delegsByAddr[a] : d = delegsByAddr[a][i]
  BY DEF Range
<1>5. ad[1] = a /\ ad[2] = d /\ i \in Active(a)
  BY <1>1, <1>3, <1>4 DEF Active
<1>6. d.shares \in Nat
  BY <1>4 DEF FilesOK
<1> QED
  BY <1>1, <1>3, <1>4, <1>5, <1>6

LEMMA PairBonded ==
  ASSUME FilesOK, NEW a \in DOMAIN delegsByAddr, NEW i \in Active(a)
  PROVE  <<a, delegsByAddr[a][i]>> \in Bonded
<1>1. i \in DOMAIN delegsByAddr[a] /\ delegsByAddr[a][i].validator \in DOMAIN valsByAddr
  BY DEF Active
<1>2. <<a, delegsByAddr[a][i]>> \in {a} \X Range(delegsByAddr[a])
  BY <1>1 DEF Range
<1> QED
  BY <1>1, <1>2 DEF Bonded, Delegated

LEMMA PartTypes ==
  ASSUME FilesOK, NEW o \in VoteOption, NEW ad \in Bonded
  PROVE  /\ PowerOf[ad] \in Nat
         /\ BallotOf(ad) \in Ballots \cup {NoVote}
         /\ WeightOf(o)[ad] \in 0..One
         /\ PartOf(o)[ad] = Mul(PowerOf[ad], WeightOf(o)[ad])
         /\ PartOf(o)[ad] \in Nat
<1>1. ad[2].validator \in DOMAIN valsByAddr /\ ad[2].shares \in Nat
  BY BondedPair
<1>2. valsByAddr[ad[2].validator] \in Validator
  BY <1>1 DEF FilesOK
<1>3. PowerOf[ad] \in Nat
  BY <1>1, <1>2, PowerNat DEF PowerOf
<1>4. BallotOf(ad) \in Ballots \cup {NoVote}
  BY <1>2 DEF BallotOf, Lookup, FilesOK, Validator
<1>5. WeightOf(o)[ad] \in 0..One
  BY <1>4, VoteWeight DEF WeightOf
<1>6. PartOf(o)[ad] = Mul(PowerOf[ad], WeightOf(o)[ad])
  BY DEF PartOf
<1>7. 0..One \subseteq Nat
  BY OneAssumption
<1> QED
  BY <1>3, <1>4, <1>5, <1>6, <1>7, MulNat

\* A sum over the delegations is a sum over the delegators of a sum over those
\* of each.
At(f, a) == [i \in Active(a) |-> f[<<a, delegsByAddr[a][i]>>]]

LEMMA SumOfDelegator ==
  ASSUME FilesOK, SharesOK, NEW f, \A ad \in Bonded : f[ad] \in Int,
         NEW a \in DOMAIN delegsByAddr,
         NEW h, \A ad \in Bonded : h[ad] = IF ad[1] = a THEN f[ad] ELSE 0
  PROVE  SumFunctionOnSet(h, Bonded) = SumFunctionOnSet(At(f, a), Active(a))
<1> DEFINE U == {ad \in Bonded : ad[1] = a}
           pair == [i \in Active(a) |-> <<a, delegsByAddr[a][i]>>]
           g == At(f, a)
<1>1. IsFiniteSet(Bonded) /\ U \in SUBSET Bonded /\ IsFiniteSet(Active(a))
  BY IndicesOf, FS_Subset DEF SharesOK, Bonded
<1>2. U = {pair[i] : i \in Active(a)}
  <2>1. \A i \in Active(a) : pair[i] \in U
    BY PairBonded
  <2>2. \A ad \in U : \E i \in Active(a) : ad = pair[i]
    BY BondedPair
  <2> HIDE DEF U, pair
  <2> QED
    BY <2>1, <2>2
<1>3. \A i, j \in Active(a) : pair[i] = pair[j] => i = j
  BY IndicesOf DEF SharesOK
<1>4. \A i \in Active(a) : g[i] \in Int /\ g[i] = f[pair[i]]
  BY PairBonded DEF At
<1>5. \A ad \in U : f[ad] \in Int /\ h[ad] = f[ad]
  OBVIOUS
<1>6. \A ad \in Bonded \ U : h[ad] = 0
  OBVIOUS
<1> HIDE DEF U, pair, g
<1>7. SumFunctionOnSet(h, Bonded) = SumFunctionOnSet(f, U)
  BY <1>1, <1>5, <1>6, SumPart
<1>8. SumFunctionOnSet(f, {pair[i] : i \in Active(a)}) = SumFunctionOnSet(g, Active(a))
  <2> DEFINE I == Active(a)
  <2>1. /\ IsFiniteSet(I)
        /\ \A i, j \in I : pair[i] = pair[j] => i = j
        /\ \A i \in I : g[i] \in Int /\ g[i] = f[pair[i]]
    BY <1>1, <1>3, <1>4
  <2> HIDE DEF I
  <2>2. SumFunctionOnSet(f, {pair[i] : i \in I}) = SumFunctionOnSet(g, I)
    BY <2>1, SumImage
  <2> QED
    BY <2>2 DEF I
<1> QED
  BY <1>2, <1>7, <1>8 DEF g

LEMMA DelegatorsFinite ==
  ASSUME FilesOK
  PROVE  IsFiniteSet(DOMAIN delegsByAddr)
<1>1. IsFiniteSet(Range(AddressOrder))
  <2> PICK n \in Nat : DOMAIN AddressOrder = 1..n
    BY AddressOrderAssumption
  <2>1. IsFiniteSet(DOMAIN AddressOrder)
    <3>1. 1 \in Int /\ n \in Int
      OBVIOUS
    <3> QED
      BY <3>1, FS_Interval
  <2>2. Range(AddressOrder) = {AddressOrder[i] : i \in DOMAIN AddressOrder}
    BY DEF Range
  <2> QED
    BY <2>1, <2>2, ImageFinite
<1> QED
  BY <1>1, AddressOrderAssumption, FS_Subset DEF FilesOK

LEMMA SumByDelegator ==
  ASSUME FilesOK, SharesOK, NEW f, \A ad \in Bonded : f[ad] \in Int,
         NEW g, \A a \in DOMAIN delegsByAddr : g[a] = SumFunctionOnSet(At(f, a), Active(a))
  PROVE  /\ IsFiniteSet(DOMAIN delegsByAddr)
         /\ \A a \in DOMAIN delegsByAddr : g[a] \in Int
         /\ SumFunctionOnSet(g, DOMAIN delegsByAddr) = SumFunctionOnSet(f, Bonded)
<1> DEFINE V == DOMAIN delegsByAddr
           k == [ad \in Bonded |-> ad[1]]
           h == [a \in V |-> [ad \in Bonded |-> IF ad[1] = a THEN f[ad] ELSE 0]]
<1>1. IsFiniteSet(Bonded) /\ IsFiniteSet(V)
  BY DelegatorsFinite, FS_Subset DEF SharesOK, Bonded
<1>2. \A ad \in Bonded : f[ad] \in Int /\ k[ad] \in V
  BY BondedPair
<1>3. \A ad \in Bonded : h[k[ad]][ad] = f[ad]
  BY <1>2
<1>4. \A a \in V : \A ad \in Bonded : k[ad] # a => h[a][ad] = 0
  OBVIOUS
<1>5. \A a \in V : g[a] = SumFunctionOnSet(h[a], Bonded)
  <2> TAKE a \in V
  <2> PICK ha : ha = h[a]
    OBVIOUS
  <2>1. \A ad \in Bonded : ha[ad] = IF ad[1] = a THEN f[ad] ELSE 0
    OBVIOUS
  <2> HIDE DEF h
  <2>2. SumFunctionOnSet(ha, Bonded) = SumFunctionOnSet(At(f, a), Active(a))
    BY <2>1, SumOfDelegator
  <2> QED
    BY <2>2
<1>6. \A a \in V : \A ad \in Bonded : h[a][ad] \in Int
  OBVIOUS
<1> HIDE DEF V, k, h
<1>7. \A a \in V : g[a] \in Int
  BY <1>1, <1>5, <1>6, SumInt
<1>8. SumFunctionOnSet(g, V) = SumFunctionOnSet(f, Bonded)
  <2>1. Groups(f, Bonded, k, h, g, V)
    BY <1>2, <1>3, <1>4, <1>5 DEF Groups
  <2> QED
    BY <1>1, <2>1, SumGroups
<1> QED
  BY <1>1, <1>7, <1>8 DEF V

\* The shares a validator votes with, and what they add to an option.
OwnShares(v) ==
  valsByAddr[v].DelegatorShares - SumFunctionOnSet(SharesAt(v), Voted)
OwnPartOf(o) ==
  [v \in DOMAIN valsByAddr |->
     Mul(VotingPower(OwnShares(v), valsByAddr[v]), Lookup(valsByAddr[v].Vote, o, 0))]
SilentAt(v) == {ad \in Silent : ad[2].validator = v}
Voting == {v \in DOMAIN valsByAddr : valsByAddr[v].Vote # NoVote}

LEMMA SameTally ==
  /\ T!Delegated(delegsByAddr) = Delegated(delegsByAddr)
  /\ \A shares, val : T!VotingPower(shares, val) = VotingPower(shares, val)
  /\ \A a, b : T!Mul(a, b) = Mul(a, b)
  /\ \A map, key, zero : T!Lookup(map, key, zero) = Lookup(map, key, zero)
  /\ \A f : T!SumFunction(f) = SumFunction(f)
  /\ T!VoteOption = VoteOption /\ T!NoVote = NoVote
<1>1. T!Delegated(delegsByAddr) = Delegated(delegsByAddr)
  BY DEF T!Delegated, Delegated, T!Range, Range
<1>2. \A shares, val : T!VotingPower(shares, val) = VotingPower(shares, val)
  BY DEF T!VotingPower, VotingPower, T!Quo, Quo, T!MulInt, MulInt,
         T!RoundHalfEven, RoundHalfEven
<1>3. \A a, b : T!Mul(a, b) = Mul(a, b)
  BY DEF T!Mul, Mul, T!ChopRound, ChopRound, T!RoundHalfEven, RoundHalfEven
<1>4. \A map, key, zero : T!Lookup(map, key, zero) = Lookup(map, key, zero)
  BY DEF T!Lookup, Lookup
<1>5. \A f : T!SumFunction(f) = SumFunction(f)
  BY DEF T!SumFunction, SumFunction, T!SumFunctionOnSet, SumFunctionOnSet,
         T!FoldFunctionOnSet, FoldFunctionOnSet, T!MapThenFoldSet, MapThenFoldSet
<1>6. T!VoteOption = VoteOption /\ T!NoVote = NoVote
  BY DEF T!VoteOption, VoteOption, T!NoVote, NoVote
<1> QED
  BY <1>1, <1>2, <1>3, <1>4, <1>5, <1>6

\* The shares a validator votes with are those of its delegators that are silent.
LEMMA OwnIs ==
  ASSUME FilesOK, SharesOK, NEW v \in DOMAIN valsByAddr
  PROVE  /\ IsFiniteSet(SilentAt(v))
         /\ \A ad \in SilentAt(v) : SharesAt(v)[ad] \in Nat /\ SharesAt(v)[ad] = ad[2].shares
         /\ OwnShares(v) = SumFunctionOnSet(SharesAt(v), SilentAt(v))
         /\ OwnShares(v) \in Nat
<1> DEFINE S == Delegated(delegsByAddr)
           f == SharesAt(v)
           Q == SilentAt(v)
<1>1. /\ IsFiniteSet(S) /\ Bonded \in SUBSET S /\ Voted \in SUBSET S
      /\ Q \in SUBSET (S \ Voted) /\ IsFiniteSet(S \ Voted) /\ IsFiniteSet(Q)
  BY FS_Subset DEF SharesOK, Bonded, Voted, Silent, SilentAt
<1>2. \A ad \in S : f[ad] \in Int
  <2> SUFFICES ASSUME NEW ad \in S, ad[2].validator = v PROVE ad[2].shares \in Int
    BY DEF SharesAt
  <2>1. ad \in Bonded
    BY DEF Bonded
  <2> QED
    BY <2>1, BondedPair
<1>3. \A ad \in Q : f[ad] \in Nat /\ f[ad] = ad[2].shares
  <2> TAKE ad \in Q
  <2>1. ad \in Bonded /\ ad[2].validator = v /\ ad \in S
    BY DEF SilentAt, Silent, Bonded
  <2> QED
    BY <2>1, BondedPair DEF SharesAt
<1>4. \A ad \in (S \ Voted) \ Q : f[ad] = 0
  <2> SUFFICES ASSUME NEW ad \in S \ Voted, ad[2].validator = v PROVE ad \in Q
    BY DEF SharesAt
  <2>1. ad \in Bonded
    BY DEF Bonded
  <2> QED
    BY <2>1 DEF Silent, SilentAt
<1>5. SumFunctionOnSet(f, S) = valsByAddr[v].DelegatorShares
  BY DEF SharesOK
<1>6. OwnShares(v) = valsByAddr[v].DelegatorShares - SumFunctionOnSet(f, Voted)
  BY DEF OwnShares
<1> HIDE DEF S, f, Q
<1>7. SumFunctionOnSet(f, S) = SumFunctionOnSet(f, Voted) + SumFunctionOnSet(f, S \ Voted)
  BY <1>1, <1>2, SumSplit
<1>8. SumFunctionOnSet(f, S \ Voted) = SumFunctionOnSet(f, Q)
  BY <1>1, <1>3, <1>4, SumPart
<1>9. SumFunctionOnSet(f, Q) \in Nat
  BY <1>1, <1>3, SumNat
<1>10. SumFunctionOnSet(f, Voted) \in Int
  <2>1. IsFiniteSet(Voted) /\ \A ad \in Voted : f[ad] \in Int
    BY <1>1, <1>2, FS_Subset
  <2> QED
    BY <2>1, SumInt
<1>11. OwnShares(v) = SumFunctionOnSet(f, Q)
  BY <1>5, <1>6, <1>7, <1>8, <1>9, <1>10
<1> QED
  BY <1>1, <1>3, <1>9, <1>11 DEF f, Q

\* What a validator adds to an option is what its silent delegators add to it,
\* but for a few roundings each.
LEMMA OwnError ==
  ASSUME FilesOK, SharesOK, NEW o \in VoteOption, NEW v \in DOMAIN valsByAddr,
         NEW s, s = SumFunctionOnSet(PartOf(o), SilentAt(v))
  PROVE  /\ OwnPartOf(o)[v] \in Nat /\ s \in Nat
         /\ OwnPartOf(o)[v] - s <= 4 * Cardinality(SilentAt(v))
         /\ s - OwnPartOf(o)[v] <= 4 * Cardinality(SilentAt(v))
         /\ v \notin Voting => OwnPartOf(o)[v] = 0
<1> DEFINE Q == SilentAt(v)
           f == SharesAt(v)
           g == PartOf(o)
           S == valsByAddr[v].DelegatorShares
           B == valsByAddr[v].BondedTokens
           w == Lookup(valsByAddr[v].Vote, o, 0)
           own == OwnShares(v)
           all == OwnPartOf(o)[v]
<1>1. /\ IsFiniteSet(Q) /\ own = SumFunctionOnSet(f, Q) /\ own \in Nat
      /\ \A ad \in Q : f[ad] \in Nat /\ f[ad] = ad[2].shares
  BY OwnIs
<1>2. valsByAddr[v] \in Validator
  BY DEF FilesOK
<1>3. S \in Nat \ {0} /\ B \in Nat /\ valsByAddr[v].Vote \in Ballots \cup {NoVote}
  BY <1>2 DEF Validator
<1>4. w \in 0..One
  BY <1>3, VoteWeight
<1>5. \A ad \in Q : g[ad] = Mul(Quo(f[ad] * B, S), w)
  <2> TAKE ad \in Q
  <2>1. ad \in Bonded /\ ad[1] \notin DOMAIN votesByAddr /\ ad[2].validator = v
    BY DEF SilentAt, Silent, Voted
  <2>2. BallotOf(ad) = valsByAddr[v].Vote
    BY <2>1 DEF BallotOf, Lookup
  <2>3. PowerOf[ad] = Quo(f[ad] * B, S)
    BY <1>1, <2>1 DEF PowerOf, VotingPower, MulInt
  <2>4. WeightOf(o)[ad] = w
    BY <2>1, <2>2 DEF WeightOf
  <2> QED
    BY <2>1, <2>3, <2>4 DEF PartOf
<1>6. all = Mul(Quo(own * B, S), w)
  BY DEF OwnPartOf, VotingPower, MulInt
<1>7. v \notin Voting => w = 0
  BY DEF Voting, Lookup, NoVote
<1> HIDE DEF Q, f, g, S, B, w, own, all
<1>8. /\ all \in Nat /\ s \in Nat
      /\ all - s <= 4 * Cardinality(Q) /\ s - all <= 4 * Cardinality(Q)
  <2>1. IsFiniteSet(Q) /\ s = SumFunctionOnSet(g, Q) /\ own = SumFunctionOnSet(f, Q)
    BY <1>1 DEF g, Q
  <2>2. \A ad \in Q : f[ad] \in Nat /\ g[ad] = Mul(Quo(f[ad] * B, S), w)
    BY <1>1, <1>5
  <2> QED
    BY <1>3, <1>4, <1>6, <2>1, <2>2, SumOfPowers
<1>9. v \notin Voting => all = 0
  <2> SUFFICES ASSUME w = 0 PROVE all = 0
    BY <1>7
  <2>1. own * B \in Nat
    BY <1>1, <1>3
  <2>2. Quo(own * B, S) \in Nat
    BY <1>3, <2>1, QuoNat
  <2> QED
    BY <1>6, <2>2, MulZero
<1> QED
  BY <1>8, <1>9 DEF all, Q

LEMMA TallyIs ==
  ASSUME FilesOK, SharesOK, NEW o \in VoteOption
  PROVE  T!TallyResult.results[o]
           = SumFunctionOnSet(PartOf(o), Voted) + SumFunctionOnSet(OwnPartOf(o), Voting)
<1>1. T!VotedDelegations = Voted
  BY SameTally DEF T!VotedDelegations, Voted, Bonded
<1>2. T!VotingValidators = Voting
  BY SameTally DEF T!VotingValidators, Voting
<1>3. ASSUME NEW v
      PROVE  T!OwnShares(v) = OwnShares(v)
  <2> DEFINE f == [ad \in Voted |-> IF ad[2].validator = v THEN ad[2].shares ELSE 0]
  <2>1. T!OwnShares(v) = valsByAddr[v].DelegatorShares - SumFunction(f)
    BY <1>1, SameTally DEF T!OwnShares
  <2>2. SumFunction(f) = SumFunctionOnSet(f, Voted)
    BY DEF SumFunction
  <2>3. SumFunctionOnSet(f, Voted) = SumFunctionOnSet(SharesAt(v), Voted)
    <3>1. \A ad \in Voted : f[ad] = SharesAt(v)[ad]
      BY DEF SharesAt, Voted, Bonded
    <3>2. IsFiniteSet(Voted) /\ \A ad \in Voted : SharesAt(v)[ad] \in Int
      <4>1. Voted \in SUBSET Delegated(delegsByAddr)
        BY DEF Voted, Bonded
      <4>2. \A ad \in Voted : ad \in Bonded /\ ad[2].shares \in Nat
        BY BondedPair DEF Voted
      <4> QED
        BY <4>1, <4>2, FS_Subset DEF SharesOK, SharesAt
    <3> HIDE DEF f
    <3> QED
      BY <3>1, <3>2, SumSame
  <2> QED
    BY <2>1, <2>2, <2>3 DEF OwnShares
<1> DEFINE f == [ad \in Voted |->
                   T!Mul(T!DelegationPower(ad), T!Lookup(votesByAddr[ad[1]], o, 0))]
           g == [v \in Voting |->
                   T!Mul(T!ValidatorPower(v), T!Lookup(valsByAddr[v].Vote, o, 0))]
<1>4. T!TallyResult.results[o] = SumFunction(f) + SumFunction(g)
  BY <1>1, <1>2, SameTally DEF T!TallyResult
<1>5. SumFunction(f) = SumFunctionOnSet(f, Voted) /\ SumFunction(g) = SumFunctionOnSet(g, Voting)
  BY DEF SumFunction
<1>6. \A ad \in Voted : f[ad] = PartOf(o)[ad]
  BY SameTally DEF T!DelegationPower, PartOf, PowerOf, WeightOf, BallotOf, Voted, Lookup
<1>7. \A v \in Voting : g[v] = OwnPartOf(o)[v]
  BY <1>3, SameTally DEF T!ValidatorPower, OwnPartOf, Voting
<1> HIDE DEF f, g
<1>8. SumFunctionOnSet(f, Voted) = SumFunctionOnSet(PartOf(o), Voted)
  <2>1. IsFiniteSet(Voted) /\ \A ad \in Voted : PartOf(o)[ad] \in Int
    BY PartTypes, FS_Subset DEF Voted, Bonded, SharesOK
  <2> QED
    BY <1>6, <2>1, SumSame
<1>9. SumFunctionOnSet(g, Voting) = SumFunctionOnSet(OwnPartOf(o), Voting)
  <2>1. IsFiniteSet(Voting) /\ \A v \in Voting : OwnPartOf(o)[v] \in Int
    <3>1. Voting \in SUBSET DOMAIN valsByAddr
      BY DEF Voting
    <3> QED
      BY <3>1, OwnError, FS_Subset DEF SharesOK
  <2> QED
    BY <1>7, <2>1, SumSame
<1> QED
  BY <1>4, <1>5, <1>8, <1>9

\* The tally of an option is what the delegations add to it.
LEMMA TallyError ==
  ASSUME FilesOK, SharesOK, NEW o \in VoteOption,
         NEW all, all = SumFunctionOnSet(PartOf(o), Bonded)
  PROVE  /\ all \in Int /\ T!TallyResult.results[o] \in Int
         /\ T!TallyResult.results[o] - all <= 4 * Cardinality(Bonded)
         /\ all - T!TallyResult.results[o] <= 4 * Cardinality(Bonded)
<1> DEFINE V == DOMAIN valsByAddr
           part == PartOf(o)
           own == OwnPartOf(o)
           k == [ad \in Silent |-> ad[2].validator]
           s == [v \in V |-> SumFunctionOnSet(part, SilentAt(v))]
           one == [ad \in Silent |-> 1]
           n == [v \in V |-> SumFunctionOnSet(one, SilentAt(v))]
           at == [v \in V |-> SilentAt(v)]
<1>1. /\ IsFiniteSet(Bonded) /\ IsFiniteSet(V) /\ IsFiniteSet(Silent)
      /\ Voted \in SUBSET Bonded /\ Silent = Bonded \ Voted /\ Voting \in SUBSET V
  BY FS_Subset DEF SharesOK, Bonded, Voted, Silent, Voting
<1>2. \A ad \in Bonded : part[ad] \in Int
  BY PartTypes
<1>3. /\ \A ad \in Silent : part[ad] \in Int /\ one[ad] \in Int /\ k[ad] \in V
      /\ \A v \in V : \A ad : ad \in at[v] <=> ad \in Silent /\ k[ad] = v
  BY <1>1, <1>2, BondedPair DEF SilentAt
<1>4. \A v \in V : n[v] = Cardinality(SilentAt(v))
  <2> TAKE v \in V
  <2>1. IsFiniteSet(SilentAt(v)) /\ \A ad \in SilentAt(v) : one[ad] = 1
    BY <1>1, FS_Subset DEF SilentAt
  <2> PICK c \in Int : c = 1
    OBVIOUS
  <2>2. \A ad \in SilentAt(v) : one[ad] = c
    BY <2>1
  <2> HIDE DEF one
  <2>3. SumFunctionOnSet(one, SilentAt(v)) = c * Cardinality(SilentAt(v))
    BY <2>1, <2>2, SumConstant
  <2> QED
    BY <2>1, <2>3, FS_CardinalityType
<1>5. \A v \in V : /\ own[v] \in Int /\ s[v] \in Int
                   /\ own[v] <= s[v] + 4 * n[v] /\ s[v] <= own[v] + 4 * n[v]
                   /\ v \notin Voting => own[v] = 0
  <2> TAKE v \in V
  <2> PICK sv : sv = s[v]
    OBVIOUS
  <2>1. /\ own[v] \in Nat /\ sv \in Nat
        /\ own[v] - sv <= 4 * Cardinality(SilentAt(v))
        /\ sv - own[v] <= 4 * Cardinality(SilentAt(v))
        /\ v \notin Voting => own[v] = 0
    BY OwnError
  <2>2. Cardinality(SilentAt(v)) \in Nat /\ n[v] = Cardinality(SilentAt(v))
    BY <1>1, <1>4, FS_Subset, FS_CardinalityType DEF SilentAt
  <2> HIDE DEF own, n, s
  <2> QED
    BY <2>1, <2>2
<1>6. \A v \in V : s[v] = SumFunctionOnSet(part, at[v])
  OBVIOUS
<1>7. \A v \in V : n[v] = SumFunctionOnSet(one, at[v])
  OBVIOUS
<1>8. \A ad \in Silent : one[ad] = 1
  OBVIOUS
<1>9. T!TallyResult.results[o] = SumFunctionOnSet(part, Voted) + SumFunctionOnSet(own, Voting)
  BY TallyIs
<1>10. all = SumFunctionOnSet(part, Bonded)
  OBVIOUS
<1> HIDE DEF V, part, own, k, s, one, n, at
<1>11. SumFunctionOnSet(s, V) = SumFunctionOnSet(part, Silent)
  <2>1. Grouped(part, Silent, k, at, s, V)
    BY <1>3, <1>6 DEF Grouped
  <2> QED
    BY <1>1, <2>1, SumByGroup
<1>12. (\A v \in V : n[v] \in Int) /\ SumFunctionOnSet(n, V) = SumFunctionOnSet(one, Silent)
  <2>1. Grouped(one, Silent, k, at, n, V)
    BY <1>3, <1>7 DEF Grouped
  <2> QED
    BY <1>1, <2>1, SumByGroup
<1>13. SumFunctionOnSet(one, Silent) = Cardinality(Silent)
  <2> PICK c \in Int : c = 1
    OBVIOUS
  <2>1. SumFunctionOnSet(one, Silent) = c * Cardinality(Silent)
    BY <1>1, <1>8, SumConstant
  <2> QED
    BY <1>1, <2>1, FS_CardinalityType
<1>14. Cardinality(Silent) \in Nat /\ Cardinality(Bonded) \in Nat
       /\ Cardinality(Silent) <= Cardinality(Bonded)
  BY <1>1, FS_Subset, FS_CardinalityType
<1>15. SumFunctionOnSet(own, V) = SumFunctionOnSet(own, Voting)
  <2>1. /\ \A v \in Voting : own[v] \in Int
        /\ \A v \in V \ Voting : own[v] = 0
    BY <1>1, <1>5
  <2> QED
    BY <1>1, <2>1, SumPart
<1>16. /\ SumFunctionOnSet(own, V) \in Int /\ SumFunctionOnSet(s, V) \in Int
       /\ SumFunctionOnSet(own, V) <= SumFunctionOnSet(s, V) + 4 * SumFunctionOnSet(n, V)
       /\ SumFunctionOnSet(s, V) <= SumFunctionOnSet(own, V) + 4 * SumFunctionOnSet(n, V)
  <2>1. SumFunctionOnSet(own, V) \in Int /\ SumFunctionOnSet(s, V) \in Int
        /\ SumFunctionOnSet(n, V) \in Int
    BY <1>1, <1>5, <1>12, SumInt
  <2> PICK a \in Int, c \in Int : a = 1 /\ c = 4
    OBVIOUS
  <2>2. \A v \in V : /\ own[v] \in Int /\ s[v] \in Int /\ n[v] \in Int
                     /\ a * own[v] <= a * s[v] + c * n[v]
                     /\ a * s[v] <= a * own[v] + c * n[v]
    BY <1>5, <1>12
  <2>3. a * SumFunctionOnSet(own, V)
          <= a * SumFunctionOnSet(s, V) + c * SumFunctionOnSet(n, V)
    BY <1>1, <2>2, SumLinear
  <2>4. a * SumFunctionOnSet(s, V)
          <= a * SumFunctionOnSet(own, V) + c * SumFunctionOnSet(n, V)
    BY <1>1, <2>2, SumLinear
  <2> QED
    BY <2>1, <2>3, <2>4
<1>17. /\ SumFunctionOnSet(part, Bonded)
            = SumFunctionOnSet(part, Voted) + SumFunctionOnSet(part, Silent)
       /\ SumFunctionOnSet(part, Voted) \in Int
  <2>1. IsFiniteSet(Voted) /\ \A ad \in Voted : part[ad] \in Int
    BY <1>1, <1>2, FS_Subset
  <2>2. SumFunctionOnSet(part, Voted) \in Int
    BY <2>1, SumInt
  <2> QED
    BY <1>1, <1>2, <2>2, SumSplit
<1> QED
  BY <1>9, <1>10, <1>11, <1>12, <1>13, <1>14, <1>15, <1>16, <1>17

\* What each delegation of an address is worth and how it votes.
VoteAt(a, o) == [i \in Active(a) |-> Lookup(Lookup(votesByAddr, a,
                    valsByAddr[delegsByAddr[a][i].validator].Vote), o, 0)]
InheritedAt(a, o) ==
  [i \in Active(a) |-> Mul(VoteAt(a, o)[i], Quo(Power(a)[i], StakeOf(a)))]

LEMMA PartsAt ==
  ASSUME FilesOK, NEW o \in VoteOption, NEW a \in DOMAIN delegsByAddr, NEW i \in Active(a)
  PROVE  /\ Power(a)[i] \in Nat /\ VoteAt(a, o)[i] \in 0..One
         /\ At(PartOf(o), a)[i] = Mul(Power(a)[i], VoteAt(a, o)[i])
<1> DEFINE ad == <<a, delegsByAddr[a][i]>>
<1>1. ad \in Bonded /\ ad[1] = a /\ ad[2] = delegsByAddr[a][i]
  BY PairBonded
<1>2. PowerOf[ad] = Power(a)[i]
  BY <1>1, DelegationType DEF PowerOf, Power
<1>3. WeightOf(o)[ad] = VoteAt(a, o)[i]
  BY <1>1 DEF WeightOf, BallotOf, VoteAt
<1>4. At(PartOf(o), a)[i] = PartOf(o)[ad]
  BY DEF At
<1> HIDE DEF ad
<1>5. PowerOf[ad] \in Nat /\ WeightOf(o)[ad] \in 0..One
      /\ PartOf(o)[ad] = Mul(PowerOf[ad], WeightOf(o)[ad])
  BY <1>1, PartTypes
<1> QED
  BY <1>2, <1>3, <1>4, <1>5

LEMMA NoBallot ==
  ASSUME NEW w \in Ballots
  PROVE  w # NoVote
<1>1. \A o : Lookup(NoVote, o, 0) = 0
  BY DEF NoVote, Lookup
<1>2. IsWeightedVote(w)
  BY DEF Ballots
<1> QED
  BY <1>1, <1>2, OneAssumption DEF IsWeightedVote

\* The weights an account inherits, summed over its delegations.
LEMMA InheritedSum ==
  ASSUME FilesOK, NEW o \in VoteOption, NEW a \in DOMAIN delegsByAddr,
         NEW acc, IsAccountFor(acc, a), acc.Vote = NoVote, StakeOf(a) \in Nat \ {0}
  PROVE  VoteWeights(acc)[o] = SumFunctionOnSet(InheritedAt(a, o), Active(a))
<1> DEFINE at == Active(a)
           n == Cardinality(at)
           m == InheritedAt(a, o)
           dels == acc.Delegations
           t == StakeOf(a)
<1>1. IsFiniteSet(at) /\ at \subseteq Int
  BY IndicesOf
<1>2. \A k \in 1..n : Nth(at, k) \in at
  BY <1>1, NthLists
<1>3. /\ acc.StakedAmount = t
      /\ dels = [k \in 1..n |-> DelegationOf(delegsByAddr[a][Nth(at, k)])]
  BY Staked DEF IsAccountFor, DelegationsFor
<1>4. o \in AnyOption /\ o # "empty"
  BY DEF AnyOption, VoteOption
<1>5. VoteWeights(acc)[o] = SumFunction([k \in DOMAIN dels |-> InheritedWeight(dels[k], t, o)])
  BY <1>3, <1>4 DEF VoteWeights
<1>6. a \notin DOMAIN votesByAddr
  <2> SUFFICES ASSUME a \in DOMAIN votesByAddr PROVE FALSE
    OBVIOUS
  <2>1. votesByAddr[a] \in Ballots /\ acc.Vote = votesByAddr[a]
    BY DEF FilesOK, IsAccountFor, VoteFor, Lookup
  <2> QED
    BY <2>1, NoBallot
<1>7. \A i \in at : m[i] \in Nat /\ InheritedWeight(DelegationOf(delegsByAddr[a][i]), t, o) = m[i]
  <2> TAKE i \in at
  <2> DEFINE val == valsByAddr[delegsByAddr[a][i].validator]
             del == DelegationOf(delegsByAddr[a][i])
             w == VoteAt(a, o)[i]
             q == Quo(Power(a)[i], t)
  <2>1. del.Amount = Power(a)[i] /\ del.Vote = val.Vote
    BY DEF Power, DelegationOf
  <2>2. w = Lookup(val.Vote, o, 0)
    BY <1>6 DEF VoteAt, Lookup
  <2>3. Power(a)[i] \in Nat /\ w \in 0..One
    BY PartsAt
  <2>4. q \in Nat
    BY <2>3, QuoNat
  <2>5. m[i] = Mul(w, q)
    BY DEF InheritedAt
  <2>6. w = 0 => Mul(w, q) = 0
    BY <2>4, <1>1, ZeroPower
  <2>7. o \notin DOMAIN val.Vote => w = 0
    BY <2>2 DEF Lookup
  <2>8. o \in DOMAIN val.Vote => w = val.Vote[o] /\ val.Vote # NoVote
    BY <2>2 DEF Lookup, NoVote
  <2>9. InheritedWeight(del, t, o)
          = IF o \in DOMAIN val.Vote THEN Mul(val.Vote[o], q) ELSE 0
    BY <1>4, <2>1, <2>8 DEF InheritedWeight
  <2>10. m[i] \in Nat
    <3>1. 0..One \subseteq Nat
      BY OneAssumption
    <3> HIDE DEF w, q, m
    <3> QED
      BY <2>3, <2>4, <2>5, <3>1, MulNat
  <2> HIDE DEF val, del, w, q, m
  <2> QED
    BY <2>5, <2>6, <2>7, <2>8, <2>9, <2>10 DEF del
<1>8. \A k \in 1..n : InheritedWeight(dels[k], t, o) = m[Nth(at, k)]
  BY <1>2, <1>3, <1>7
<1>9. DOMAIN dels = 1..n
  BY <1>3
<1>10. \A i \in at : m[i] \in Int
  BY <1>7
<1> HIDE DEF at, n, m, dels, t
<1>11. [k \in DOMAIN dels |-> InheritedWeight(dels[k], t, o)] = [k \in 1..n |-> m[Nth(at, k)]]
  BY <1>8, <1>9
<1>12. SumFunction([k \in 1..Cardinality(at) |-> m[Nth(at, k)]]) = SumFunctionOnSet(m, at)
  BY <1>1, <1>10, SublistSum
<1> QED
  BY <1>5, <1>11, <1>12 DEF n, m, at

\* What an account adds to an option is what its delegations add to it.
LEMMA AccountError ==
  ASSUME FilesOK, NEW o \in VoteOption, NEW a \in DOMAIN delegsByAddr,
         NEW acc, IsAccountFor(acc, a),
         NEW x, x = Mul(VoteWeights(acc)[o], acc.StakedAmount),
         NEW s, s = SumFunctionOnSet(At(PartOf(o), a), Active(a))
  PROVE  /\ x \in Nat /\ s \in Nat
         /\ x - s <= Cardinality(Active(a)) * (3 + 2 * (StakeOf(a) \div One))
         /\ s - x <= Cardinality(Active(a)) * (3 + 2 * (StakeOf(a) \div One))
<1> DEFINE Q == Active(a)
           t == StakeOf(a)
           p == Power(a)
           w == VoteAt(a, o)
           part == At(PartOf(o), a)
           m == InheritedAt(a, o)
           u == 3 + 2 * (t \div One)
<1>1. IsFiniteSet(Q) /\ Cardinality(Q) \in Nat /\ t = SumFunctionOnSet(p, Q)
  BY StakeParts, FS_CardinalityType
<1>2. \A i \in Q : /\ p[i] \in Nat /\ w[i] \in 0..One /\ part[i] = Mul(p[i], w[i])
                   /\ m[i] = Mul(w[i], Quo(p[i], t))
  BY PartsAt DEF InheritedAt
<1>3. acc.StakedAmount = t
  BY Staked DEF IsAccountFor
<1>4. o \in AnyOption /\ o # "empty"
  BY DEF AnyOption, VoteOption
<1>5. acc.Vote = VoteFor(a)
  BY DEF IsAccountFor
<1>6. s = SumFunctionOnSet(part, Q)
  OBVIOUS
<1>7. acc.Vote # NoVote =>
        /\ acc.Vote \in Ballots
        /\ \A i \in Q : w[i] = Lookup(acc.Vote, o, 0)
  BY <1>5 DEF VoteFor, VoteAt, Lookup, FilesOK
<1>8. t = 0 => VoteWeights(acc)[o] = 0
  BY <1>3, <1>4 DEF VoteWeights
<1>9. t # 0 /\ acc.Vote # NoVote => VoteWeights(acc)[o] = Lookup(acc.Vote, o, 0)
  BY <1>3, <1>4 DEF VoteWeights
<1>10. t \in Nat
  <2> HIDE DEF Q, t, p, part, m, u, w
  <2> QED
    BY <1>1, <1>2, SumNat
<1>11. t # 0 /\ acc.Vote = NoVote => VoteWeights(acc)[o] = SumFunctionOnSet(m, Q)
  BY <1>10, InheritedSum
<1>12. u \in Nat /\ u >= 1
  <2>1. t \div One \in Nat
    BY <1>10, DivMod
  <2> QED
    BY <2>1
<1> HIDE DEF Q, t, p, w, part, m
<1>13. CASE t = 0
  <2>1. x = 0
    <3>1. Mul(0, 0) = 0
      BY MulZero
    <3> QED
      BY <1>3, <1>8, <1>13, <3>1
  <2>2. \A i \in Q : part[i] = 0
    <3> TAKE i \in Q
    <3>1. p[i] <= SumFunctionOnSet(p, Q)
      BY <1>1, <1>2, SumTerm
    <3>2. p[i] = 0
      BY <1>1, <1>2, <1>13, <3>1
    <3>3. w[i] \in Nat
      BY <1>2, OneAssumption
    <3>4. Mul(0, w[i]) = 0
      BY <3>3, OneAssumption, ZeroPower
    <3> QED
      BY <1>2, <3>2, <3>4
  <2>3. s = 0
    BY <1>1, <1>6, <2>2, SumZero
  <2>4. Cardinality(Q) * u >= 0
    <3> HIDE DEF u
    <3> QED
      BY <1>1, <1>12
  <2> QED
    BY <2>1, <2>3, <2>4 DEF Q, t
<1>14. CASE t # 0 /\ acc.Vote # NoVote
  <2> PICK wo : wo = Lookup(acc.Vote, o, 0)
    OBVIOUS
  <2>1. wo \in 0..One
    BY <1>7, <1>14, VoteWeight
  <2>2. \A i \in Q : p[i] \in Nat /\ part[i] = Mul(p[i], wo)
    BY <1>2, <1>7, <1>14
  <2>3. x = Mul(wo, t)
    BY <1>3, <1>9, <1>14
  <2>4. /\ x \in Nat /\ s \in Nat
        /\ x - s <= Cardinality(Q) /\ s - x <= Cardinality(Q)
    BY <1>1, <1>6, <2>1, <2>2, <2>3, SumOfParts
  <2>5. Cardinality(Q) * u >= Cardinality(Q)
    <3> HIDE DEF u
    <3> PICK c \in Nat : u = c + 1
      <4>1. u - 1 \in Nat
        BY <1>12
      <4> QED
        BY <1>12, <4>1
    <3>1. Cardinality(Q) * (c + 1) = Cardinality(Q) * c + Cardinality(Q)
      BY <1>1
    <3>2. Cardinality(Q) * c \in Nat
      BY <1>1
    <3> QED
      BY <1>1, <3>1, <3>2
  <2>6. Cardinality(Q) * u \in Nat
    <3> HIDE DEF u
    <3> QED
      BY <1>1, <1>12
  <2>7. x - s <= Cardinality(Q) * u /\ s - x <= Cardinality(Q) * u
    <3> HIDE DEF u
    <3> QED
      BY <1>1, <2>4, <2>5, <2>6
  <2> QED
    BY <2>4, <2>7 DEF Q, t
<1>15. CASE t # 0 /\ acc.Vote = NoVote
  <2>1. t \in Nat \ {0} /\ x = Mul(SumFunctionOnSet(m, Q), t)
    BY <1>3, <1>10, <1>11, <1>15
  <2>2. /\ \A i \in Q : p[i] \in Nat /\ w[i] \in 0..One
        /\ \A i \in Q : m[i] = Mul(w[i], Quo(p[i], t)) /\ part[i] = Mul(p[i], w[i])
    BY <1>2
  <2> HIDE DEF u
  <2>3. /\ x \in Nat /\ s \in Nat
        /\ x - s <= Cardinality(Q) * (3 + 2 * (t \div One))
        /\ s - x <= Cardinality(Q) * (3 + 2 * (t \div One))
    <3>1. IsFiniteSet(Q)
      BY <1>1
    <3>2. SharedOut(Q, t, p, w, m, part)
      BY <2>2 DEF SharedOut
    <3> QED
      BY <1>6, <2>1, <3>1, <3>2, SumOfShares
  <2> QED
    BY <2>3 DEF Q, t
<1> QED
  BY <1>13, <1>14, <1>15

\* An account without delegations adds nothing.
LEMMA NotDelegator ==
  ASSUME FilesOK, NEW o \in VoteOption, NEW a, a \notin DOMAIN delegsByAddr,
         NEW acc, IsAccountFor(acc, a)
  PROVE  Mul(VoteWeights(acc)[o], acc.StakedAmount) = 0
<1>1. DelegationsFor(a) = <<>>
  BY DEF DelegationsFor
<1>2. acc.StakedAmount = SumAmounts(<<>>)
  BY <1>1 DEF IsAccountFor
<1>3. DOMAIN (<<>>) = {}
  OBVIOUS
<1>4. acc.StakedAmount = 0
  BY <1>2, <1>3, SumEmpty DEF SumAmounts, SumFunction
<1>5. o \in AnyOption /\ o # "empty"
  BY DEF AnyOption, VoteOption
<1>6. VoteWeights(acc)[o] = 0
  BY <1>4, <1>5 DEF VoteWeights
<1>7. Mul(0, 0) = 0
  BY MulZero
<1> QED
  BY <1>4, <1>6, <1>7

\* What each account adds to an option in the first pass of the distribution,
\* and what the delegations of each address add to it, those left out and all.
AccountPart(o) ==
  [a \in Holders |->
     Mul(VoteWeights(accountsByAddr[a])[o], accountsByAddr[a].StakedAmount)]
CountedOf(o) ==
  [a \in DOMAIN delegsByAddr |-> IF IsIgnored(a) THEN 0 ELSE AccountPart(o)[a]]
AllOf(o) ==
  [a \in DOMAIN delegsByAddr |-> SumFunctionOnSet(At(PartOf(o), a), Active(a))]
LeftOf(o) ==
  [a \in DOMAIN delegsByAddr |-> IF IsIgnored(a) THEN AllOf(o)[a] ELSE 0]

LEMMA AmountIs ==
  ASSUME NEW acc, NEW o
  PROVE  DP!AtomAmount(acc, o) = Mul(VoteWeights(acc)[o], acc.StakedAmount)
<1>1. /\ DP!AnyOption = AnyOption /\ DP!NoVote = NoVote
      /\ \A map, key, zero : DP!Lookup(map, key, zero) = Lookup(map, key, zero)
  BY DEF DP!AnyOption, AnyOption, DP!VoteOption, VoteOption, DP!NoVote, NoVote,
         DP!Lookup, Lookup
<1>2. \A del, staked, option :
        DP!InheritedWeight(del, staked, option) = InheritedWeight(del, staked, option)
  BY <1>1, SameNumbers DEF DP!InheritedWeight, InheritedWeight
<1>3. \A option : [i \in DOMAIN acc.Delegations |->
                     DP!InheritedWeight(acc.Delegations[i], acc.StakedAmount, option)]
                  = [i \in DOMAIN acc.Delegations |->
                       InheritedWeight(acc.Delegations[i], acc.StakedAmount, option)]
  BY <1>2
<1>4. DP!VoteWeights(acc) = VoteWeights(acc)
  BY <1>1, <1>3, SameNumbers DEF DP!VoteWeights, VoteWeights
<1> QED
  BY <1>4, SameNumbers DEF DP!AtomAmount

LEMMA HolderIs ==
  ASSUME MadeInv, stage = "written", NEW a \in Holders
  PROVE  IsAccountFor(accountsByAddr[a], a)
BY DEF MadeInv, LoopsInv, Holders, Reached

\* After the first pass an option has what the accounts add to it.
LEMMA VotesAre ==
  ASSUME MadeInv, AirdropMade, phase \in {"distribute", "done"}, NEW o \in VoteOption
  PROVE  /\ IsFiniteSet(Holders)
         /\ \A a \in Holders : AccountPart(o)[a] \in Nat
         /\ atom.votes[o] = SumFunctionOnSet(AccountPart(o), Holders)
<1> DEFINE addrs == Sorted(Holders, AddressOrder)
           I == DOMAIN accounts
           part == AccountPart(o)
           stand == DP!StandFor(o)
<1>1. /\ stage = "written" /\ phase # "idle" /\ DP!IInv /\ DP!SurveyInv
      /\ FilesOK /\ LoopsInv
  BY DEF AirdropMade, MadeInv
<1>2. /\ I = DOMAIN addrs
      /\ \A i \in I : addrs[i] \in Holders /\ IsAccountFor(accounts[i], addrs[i])
  BY <1>1, AccountsList
<1>3. /\ addrs \in Seq(Range(addrs)) /\ Range(addrs) = Holders
      /\ \A i, j \in DOMAIN addrs : addrs[i] = addrs[j] => i = j
  <2>1. IsOrder(addrs) /\ Range(addrs) = Holders \cap Range(AddressOrder)
    BY AddressOrderAssumption, SortedKeys DEF IsOrder
  <2>2. Holders \subseteq Range(AddressOrder)
    BY <1>1, AddressOrderAssumption DEF Holders, FilesOK
  <2> HIDE DEF addrs
  <2> QED
    BY <2>1, <2>2 DEF IsOrder
<1>4. IsFiniteSet(I)
  <2> HIDE DEF addrs
  <2> QED
    BY <1>2, <1>3, FileDomain
<1>5. Holders = {addrs[i] : i \in I}
  BY <1>2, <1>3 DEF Range
<1>6. \A i \in I : accounts[i] = accountsByAddr[addrs[i]]
  <2>1. DOMAIN accountsByAddr = Holders
    BY <1>1 DEF LoopsInv, Reached, Holders
  <2> QED
    BY <1>1, <1>2, <2>1 DEF LoopsInv
<1>7. \A i \in I : stand[i] = part[addrs[i]]
  <2> TAKE i \in I
  <2>1. stand[i] = DP!AtomAmount(accounts[i], o)
    BY DEF DP!StandFor
  <2>2. addrs[i] \in Holders
    BY <1>2
  <2> HIDE DEF addrs
  <2> QED
    BY <1>6, <2>1, <2>2, AmountIs DEF AccountPart
<1>8. o \in DP!AnyOption
  BY DEF DP!AnyOption, DP!VoteOption, VoteOption
<1>9. atom.votes[o] = SumFunctionOnSet(stand, I)
  <2>1. DP!Surveyed = I
    BY DEF DP!Surveyed
  <2>2. atom.votes[o] = DP!SumFunctionOnSet(stand, DP!Surveyed)
    BY <1>1, <1>8 DEF DP!SurveyInv
  <2>3. DP!SumFunctionOnSet(stand, I) = SumFunctionOnSet(stand, I)
    BY DEF DP!SumFunctionOnSet, SumFunctionOnSet, DP!FoldFunctionOnSet,
           FoldFunctionOnSet, DP!MapThenFoldSet, MapThenFoldSet
  <2> QED
    BY <2>1, <2>2, <2>3
<1>10. \A a \in Holders : part[a] \in Nat
  <2> TAKE a \in Holders
  <2> PICK acc : acc = accountsByAddr[a]
    OBVIOUS
  <2>1. IsAccountFor(acc, a)
    BY <1>1, HolderIs
  <2>2. part[a] = Mul(VoteWeights(acc)[o], acc.StakedAmount)
    BY DEF AccountPart
  <2> HIDE DEF part
  <2>3. CASE a \in DOMAIN delegsByAddr
    BY <1>1, <2>1, <2>2, <2>3, AccountError
  <2>4. CASE a \notin DOMAIN delegsByAddr
    BY <1>1, <2>1, <2>2, <2>4, NotDelegator
  <2> QED
    BY <2>3, <2>4
<1> HIDE DEF addrs, I, part, stand
<1>11. SumFunctionOnSet(part, {addrs[i] : i \in I}) = SumFunctionOnSet(stand, I)
  <2>1. /\ \A i, j \in I : addrs[i] = addrs[j] => i = j
        /\ \A i \in I : stand[i] \in Int /\ stand[i] = part[addrs[i]]
    BY <1>2, <1>3, <1>7, <1>10
  <2> QED
    BY <1>4, <2>1, SumImage
<1>12. IsFiniteSet(Holders)
  BY <1>4, <1>5, ImageFinite
<1> QED
  BY <1>5, <1>9, <1>10, <1>11, <1>12 DEF part

\* The addresses that do not delegate add nothing.
LEMMA VotesCounted ==
  ASSUME MadeInv, AirdropMade, phase \in {"distribute", "done"}, NEW o \in VoteOption
  PROVE  atom.votes[o] = SumFunctionOnSet(CountedOf(o), DOMAIN delegsByAddr)
<1> DEFINE H == Holders
           V == DOMAIN delegsByAddr
           U == {a \in V : ~IsIgnored(a)}
           part == AccountPart(o)
           counted == CountedOf(o)
<1>1. /\ IsFiniteSet(H) /\ \A a \in H : part[a] \in Nat
      /\ atom.votes[o] = SumFunctionOnSet(part, H)
  BY VotesAre
<1>2. FilesOK /\ stage = "written"
  BY DEF MadeInv, AirdropMade
<1>3. IsFiniteSet(V)
  BY <1>2, DelegatorsFinite
<1>4. U \in SUBSET H /\ U \in SUBSET V
  BY DEF Holders
<1>5. \A a \in U : part[a] \in Int /\ counted[a] = part[a]
  BY <1>1, <1>4 DEF CountedOf
<1>6. \A a \in V \ U : counted[a] = 0
  BY DEF CountedOf
<1>7. \A a \in H \ U : part[a] = 0
  <2> TAKE a \in H \ U
  <2> PICK acc : acc = accountsByAddr[a]
    OBVIOUS
  <2>1. IsAccountFor(acc, a)
    BY <1>2, HolderIs
  <2>2. part[a] = Mul(VoteWeights(acc)[o], acc.StakedAmount)
    BY DEF AccountPart
  <2>3. a \notin DOMAIN delegsByAddr
    BY DEF Holders
  <2> HIDE DEF part
  <2> QED
    BY <1>2, <2>1, <2>2, <2>3, NotDelegator
<1> HIDE DEF H, V, U, part, counted
<1>8. SumFunctionOnSet(counted, V) = SumFunctionOnSet(part, U)
  BY <1>3, <1>4, <1>5, <1>6, SumPart
<1>9. SumFunctionOnSet(part, H) = SumFunctionOnSet(part, U)
  BY <1>1, <1>4, <1>5, <1>7, SumPart
<1> QED
  BY <1>1, <1>8, <1>9 DEF counted, V

\* A sum over the bonded delegations of each address, for each address.
Gathers(f, g) ==
  /\ \A ad \in Bonded : f[ad] \in Int
  /\ \A a \in DOMAIN delegsByAddr : g[a] = SumFunctionOnSet(At(f, a), Active(a))

LEMMA SumGathered ==
  ASSUME FilesOK, SharesOK, NEW f, NEW g, Gathers(f, g)
  PROVE  /\ IsFiniteSet(DOMAIN delegsByAddr)
         /\ \A a \in DOMAIN delegsByAddr : g[a] \in Int
         /\ SumFunctionOnSet(g, DOMAIN delegsByAddr) = SumFunctionOnSet(f, Bonded)
BY SumByDelegator DEF Gathers

LEMMA AllIs ==
  ASSUME FilesOK, SharesOK, NEW o \in VoteOption
  PROVE  /\ \A a \in DOMAIN delegsByAddr : AllOf(o)[a] \in Int
         /\ SumFunctionOnSet(AllOf(o), DOMAIN delegsByAddr)
              = SumFunctionOnSet(PartOf(o), Bonded)
<1>1. Gathers(PartOf(o), AllOf(o))
  <2>1. \A ad \in Bonded : PartOf(o)[ad] \in Int
    BY PartTypes
  <2>2. \A a \in DOMAIN delegsByAddr :
          AllOf(o)[a] = SumFunctionOnSet(At(PartOf(o), a), Active(a))
    BY DEF AllOf
  <2> QED
    BY <2>1, <2>2 DEF Gathers
<1> QED
  BY <1>1, SumGathered

\* The bonded delegations are those that are active, address by address.
LEMMA BondedCount ==
  ASSUME FilesOK, SharesOK,
         NEW n, n = [a \in DOMAIN delegsByAddr |-> Cardinality(Active(a))]
  PROVE  SumFunctionOnSet(n, DOMAIN delegsByAddr) = Cardinality(Bonded)
<1> DEFINE one == [ad \in Bonded |-> 1]
<1> PICK c \in Int : c = 1
  OBVIOUS
<1>1. IsFiniteSet(Bonded)
  BY FS_Subset DEF SharesOK, Bonded
<1>2. \A ad \in Bonded : one[ad] = c
  OBVIOUS
<1>3. \A a \in DOMAIN delegsByAddr : n[a] = SumFunctionOnSet(At(one, a), Active(a))
  <2> TAKE a \in DOMAIN delegsByAddr
  <2> DEFINE f == At(one, a)
  <2>1. \A i \in Active(a) : f[i] = c
    BY PairBonded DEF At
  <2>2. IsFiniteSet(Active(a))
    BY IndicesOf
  <2> HIDE DEF f
  <2>3. SumFunctionOnSet(f, Active(a)) = c * Cardinality(Active(a))
    BY <2>1, <2>2, SumConstant
  <2>4. n[a] = Cardinality(Active(a)) /\ Cardinality(Active(a)) \in Nat
    BY <2>2, FS_CardinalityType
  <2> QED
    BY <2>3, <2>4 DEF f
<1> HIDE DEF one
<1>4. Gathers(one, n)
  BY <1>2, <1>3 DEF Gathers
<1>5. SumFunctionOnSet(n, DOMAIN delegsByAddr) = SumFunctionOnSet(one, Bonded)
  BY <1>4, SumGathered
<1>6. SumFunctionOnSet(one, Bonded) = c * Cardinality(Bonded)
  BY <1>1, <1>2, SumConstant
<1>7. Cardinality(Bonded) \in Nat
  BY <1>1, FS_CardinalityType
<1> QED
  BY <1>5, <1>6, <1>7

\* What the accounts left out would have added is what the delegations of their
\* addresses add.
LEMMA LeftIs ==
  ASSUME FilesOK, SharesOK, NEW o \in VoteOption
  PROVE  LeftOutPower(o) = SumFunctionOnSet(LeftOf(o), DOMAIN delegsByAddr)
<1> DEFINE V == DOMAIN delegsByAddr
           part == PartOf(o)
           U == LeftOutDelegations
           f == [ad \in Bonded |-> IF IsIgnored(ad[1]) THEN part[ad] ELSE 0]
           left == LeftOf(o)
           g == [ad \in U |->
                   LET vote == Lookup(votesByAddr, ad[1], valsByAddr[ad[2].validator].Vote)
                   IN  Mul(T!DelegationPower(ad), Lookup(vote, o, 0))]
<1>1. IsFiniteSet(Bonded) /\ U = {ad \in Bonded : IsIgnored(ad[1])}
  BY FS_Subset DEF SharesOK, Bonded, LeftOutDelegations
<1>2. \A ad \in Bonded : part[ad] \in Int
  BY PartTypes
<1>3. LeftOutPower(o) = SumFunctionOnSet(g, U)
  BY DEF LeftOutPower, SumFunction
<1>4. \A ad \in U : g[ad] = part[ad]
  BY <1>1, SameTally DEF T!DelegationPower, PartOf, PowerOf, WeightOf, BallotOf
<1>5. \A ad \in Bonded : f[ad] = IF IsIgnored(ad[1]) THEN part[ad] ELSE 0
  OBVIOUS
<1>6. \A a \in V : left[a] = SumFunctionOnSet(At(f, a), Active(a))
  <2> TAKE a \in V
  <2> DEFINE fa == At(f, a)
             pa == At(part, a)
             I == Active(a)
  <2>1. IsFiniteSet(I) /\ \A i \in I : /\ pa[i] \in Int
                                       /\ fa[i] = IF IsIgnored(a) THEN pa[i] ELSE 0
    BY <1>2, IndicesOf, PairBonded DEF At
  <2>2. left[a] = IF IsIgnored(a) THEN SumFunctionOnSet(pa, I) ELSE 0
    BY DEF LeftOf, AllOf
  <2> HIDE DEF fa, pa, I, left
  <2>3. CASE IsIgnored(a)
    <3>1. \A i \in I : pa[i] \in Int /\ fa[i] = pa[i]
      BY <2>1, <2>3
    <3>2. SumFunctionOnSet(fa, I) = SumFunctionOnSet(pa, I)
      BY <2>1, <3>1, SumSame
    <3> QED
      BY <2>2, <2>3, <3>2 DEF fa, I
  <2>4. CASE ~IsIgnored(a)
    <3>1. \A i \in I : fa[i] = 0
      BY <2>1, <2>4
    <3>2. SumFunctionOnSet(fa, I) = 0
      BY <2>1, <3>1, SumZero
    <3> QED
      BY <2>2, <2>4, <3>2 DEF fa, I
  <2> QED
    BY <2>3, <2>4
<1> HIDE DEF V, part, U, f, left, g
<1>7. \A ad \in Bonded : f[ad] \in Int
  BY <1>2, <1>5
<1>8. Gathers(f, left)
  BY <1>6, <1>7 DEF Gathers, V
<1>9. SumFunctionOnSet(left, V) = SumFunctionOnSet(f, Bonded)
  BY <1>8, SumGathered DEF V
<1>10. SumFunctionOnSet(f, Bonded) = SumFunctionOnSet(part, U)
  <2>1. U \in SUBSET Bonded
    BY <1>1
  <2>2. \A ad \in U : part[ad] \in Int /\ f[ad] = part[ad]
    BY <1>1, <1>2, <1>5
  <2>3. \A ad \in Bonded \ U : f[ad] = 0
    BY <1>1, <1>5
  <2> QED
    BY <1>1, <2>1, <2>2, <2>3, SumPart
<1>11. SumFunctionOnSet(g, U) = SumFunctionOnSet(part, U)
  <2>1. IsFiniteSet(U) /\ \A ad \in U : part[ad] \in Int /\ g[ad] = part[ad]
    BY <1>1, <1>2, <1>4, FS_Subset
  <2> QED
    BY <2>1, SumSame
<1> QED
  BY <1>3, <1>9, <1>10, <1>11 DEF left, V

\* What one address adds to the two sides, and the units it may cost.
UnitsOf == [a \in DOMAIN delegsByAddr |->
              Len(delegsByAddr[a]) * (7 + 2 * (StakeOf(a) \div One))]
SharedUnits == [a \in DOMAIN delegsByAddr |->
                  Cardinality(Active(a)) * (3 + 2 * (StakeOf(a) \div One))]
ActiveOf == [a \in DOMAIN delegsByAddr |-> Cardinality(Active(a))]

LEMMA AddressUnits ==
  ASSUME FilesOK, NEW a \in DOMAIN delegsByAddr
  PROVE  /\ ActiveOf[a] \in Nat /\ SharedUnits[a] \in Nat /\ UnitsOf[a] \in Nat
         /\ 4 * ActiveOf[a] + SharedUnits[a] <= UnitsOf[a]
<1> PICK n : n = Cardinality(Active(a))
  OBVIOUS
<1> PICK l : l = Len(delegsByAddr[a])
  OBVIOUS
<1> PICK q : q = StakeOf(a) \div One
  OBVIOUS
<1>1. n \in Nat /\ l \in Nat /\ n <= l
  <2>1. /\ IsFiniteSet(1..l) /\ Active(a) \subseteq 1..l /\ l \in Nat
    BY IndicesOf
  <2>2. Cardinality(1..l) = l
    <3>1. 1 \in Int /\ l \in Int
      BY <2>1
    <3>2. Cardinality(1..l) = IF 1 > l THEN 0 ELSE l - 1 + 1
      BY <3>1, FS_Interval
    <3> QED
      BY <2>1, <3>2
  <2> QED
    BY <2>1, <2>2, FS_Subset, FS_CardinalityType
<1>2. q \in Nat
  <2>1. StakeOf(a) \in Nat
    BY Staked
  <2> QED
    BY <2>1, DivMod
<1>3. /\ ActiveOf[a] = n /\ SharedUnits[a] = n * (3 + 2 * q)
      /\ UnitsOf[a] = l * (7 + 2 * q)
  BY DEF ActiveOf, SharedUnits, UnitsOf
<1> PICK d \in Nat : l = n + d
  <2>1. l - n \in Nat
    BY <1>1
  <2> QED
    BY <1>1, <2>1
<1> PICK u \in Nat : u = 3 + 2 * q
  BY <1>2
<1>4. 7 + 2 * q = u + 4
  BY <1>2
<1>5. (n + d) * (u + 4) = n * u + 4 * n + d * (u + 4)
  BY <1>1
<1> PICK x \in Nat, y \in Nat : x = n * u /\ y = d * (u + 4)
  BY <1>1
<1>6. SharedUnits[a] = n * u /\ UnitsOf[a] = (n + d) * (u + 4)
  BY <1>3, <1>4
<1>7. SharedUnits[a] = x /\ UnitsOf[a] = x + 4 * n + y
  BY <1>5, <1>6
<1> QED
  BY <1>1, <1>3, <1>7

LEMMA AddressError ==
  ASSUME MadeInv, AirdropMade, SharesOK, phase \in {"distribute", "done"},
         NEW o \in VoteOption, NEW a \in DOMAIN delegsByAddr
  PROVE  /\ CountedOf(o)[a] \in Int /\ LeftOf(o)[a] \in Int /\ AllOf(o)[a] \in Int
         /\ CountedOf(o)[a] + LeftOf(o)[a] <= AllOf(o)[a] + SharedUnits[a]
         /\ AllOf(o)[a] <= CountedOf(o)[a] + LeftOf(o)[a] + SharedUnits[a]
<1>1. FilesOK /\ stage = "written"
  BY DEF MadeInv, AirdropMade
<1>2. AllOf(o)[a] \in Int
  BY <1>1, AllIs
<1>3. SharedUnits[a] \in Nat
  BY <1>1, AddressUnits
<1>4. CASE IsIgnored(a)
  <2>1. CountedOf(o)[a] = 0 /\ LeftOf(o)[a] = AllOf(o)[a]
    BY <1>4 DEF CountedOf, LeftOf
  <2> QED
    BY <1>2, <1>3, <2>1
<1>5. CASE ~IsIgnored(a)
  <2>1. CountedOf(o)[a] = AccountPart(o)[a] /\ LeftOf(o)[a] = 0 /\ a \in Holders
    BY <1>5 DEF CountedOf, LeftOf, Holders
  <2> PICK acc : acc = accountsByAddr[a]
    OBVIOUS
  <2>2. IsAccountFor(acc, a)
    BY <1>1, <2>1, HolderIs
  <2> PICK x : x = Mul(VoteWeights(acc)[o], acc.StakedAmount)
    OBVIOUS
  <2> PICK s : s = SumFunctionOnSet(At(PartOf(o), a), Active(a))
    OBVIOUS
  <2> PICK u : u = Cardinality(Active(a)) * (3 + 2 * (StakeOf(a) \div One))
    OBVIOUS
  <2>3. CountedOf(o)[a] = x /\ AllOf(o)[a] = s /\ SharedUnits[a] = u
    BY <2>1 DEF AccountPart, AllOf, SharedUnits
  <2>4. x \in Nat /\ s \in Nat /\ x - s <= u /\ s - x <= u
    BY <1>1, <2>2, AccountError
  <2>5. \A c, l, p, e : c = x /\ l = 0 /\ p = s /\ e = u =>
          /\ c \in Int /\ l \in Int /\ p \in Int /\ c + l <= p + e /\ p <= c + l + e
    BY <1>3, <2>3, <2>4
  <2> QED
    BY <2>1, <2>3, <2>5
<1> QED
  BY <1>4, <1>5

\* Whatever the snapshot, the distribution starts from the votes as the tally
\* counts them: of each option, the $ATOM its first pass found and the power of
\* the accounts left out make what the tally finds, to a few roundings for each
\* delegation and two more for each whole coin it shares.
THEOREM TallyAgreesCorrect == Spec => []TallyAgrees
<1>1. ASSUME MadeInv, AirdropMade, SharesOK
      PROVE  TallyAgrees
  <2> SUFFICES ASSUME phase \in {"distribute", "done"}, NEW o \in VoteOption
               PROVE  atom.votes[o] + LeftOutPower(o) - T!TallyResult.results[o]
                        \in -StakeUnits..StakeUnits
    BY DEF TallyAgrees
  <2> DEFINE V == DOMAIN delegsByAddr
             counted == CountedOf(o)
             left == LeftOf(o)
             all == AllOf(o)
             n == ActiveOf
             e == SharedUnits
             u == UnitsOf
             both == [a \in V |-> counted[a] + left[a]]
             result == T!TallyResult.results[o]
  <2>1. FilesOK
    BY <1>1 DEF MadeInv
  <2>2. IsFiniteSet(V)
    BY <2>1, DelegatorsFinite
  <2>3. \A a \in V : /\ n[a] \in Nat /\ e[a] \in Nat /\ u[a] \in Nat
                     /\ 4 * n[a] + e[a] <= u[a]
    BY <2>1, AddressUnits
  <2>4. \A a \in V : /\ counted[a] \in Int /\ left[a] \in Int /\ all[a] \in Int
                     /\ counted[a] + left[a] <= all[a] + e[a]
                     /\ all[a] <= counted[a] + left[a] + e[a]
    BY <1>1, AddressError
  <2>5. \A a \in V : both[a] = counted[a] + left[a]
    OBVIOUS
  <2>6. atom.votes[o] = SumFunctionOnSet(counted, V)
    BY <1>1, VotesCounted
  <2>7. LeftOutPower(o) = SumFunctionOnSet(left, V)
    BY <1>1, <2>1, LeftIs
  <2>8. SumFunctionOnSet(all, V) = SumFunctionOnSet(PartOf(o), Bonded)
    BY <1>1, <2>1, AllIs
  <2>9. SumFunctionOnSet(n, V) = Cardinality(Bonded)
    BY <1>1, <2>1, BondedCount DEF ActiveOf
  <2>10. StakeUnits = SumFunctionOnSet(u, V)
    BY DEF StakeUnits, UnitsOf, SumFunction
  <2> HIDE DEF V, counted, left, all, n, e, u, both, result
  <2> PICK all_ : all_ = SumFunctionOnSet(all, V)
    OBVIOUS
  <2>11. /\ all_ \in Int /\ result \in Int
         /\ result - all_ <= 4 * Cardinality(Bonded)
         /\ all_ - result <= 4 * Cardinality(Bonded)
    BY <1>1, <2>1, <2>8, TallyError DEF result
  <2> PICK c \in Int, d \in Int, m \in Int : c = 1 /\ d = 4 /\ m = -1
    OBVIOUS
  <2>12. SumFunctionOnSet(both, V) = SumFunctionOnSet(counted, V) + SumFunctionOnSet(left, V)
    BY <2>2, <2>4, <2>5, SumPlus
  <2>13. \A a \in V : /\ both[a] \in Int /\ all[a] \in Int /\ e[a] \in Int
                      /\ c * both[a] <= c * all[a] + c * e[a]
                      /\ c * all[a] <= c * both[a] + c * e[a]
    BY <2>3, <2>4, <2>5
  <2>14. c * SumFunctionOnSet(both, V)
           <= c * SumFunctionOnSet(all, V) + c * SumFunctionOnSet(e, V)
    BY <2>2, <2>13, SumLinear
  <2>15. c * SumFunctionOnSet(all, V)
           <= c * SumFunctionOnSet(both, V) + c * SumFunctionOnSet(e, V)
    BY <2>2, <2>13, SumLinear
  <2>16. \A a \in V : /\ n[a] \in Int /\ u[a] \in Int /\ e[a] \in Int
                      /\ d * n[a] <= c * u[a] + m * e[a]
    BY <2>3
  <2>17. d * SumFunctionOnSet(n, V)
           <= c * SumFunctionOnSet(u, V) + m * SumFunctionOnSet(e, V)
    BY <2>2, <2>16, SumLinear
  <2>18. /\ SumFunctionOnSet(counted, V) \in Int /\ SumFunctionOnSet(left, V) \in Int
         /\ SumFunctionOnSet(both, V) \in Int /\ SumFunctionOnSet(e, V) \in Int
         /\ SumFunctionOnSet(u, V) \in Int /\ SumFunctionOnSet(n, V) \in Int
    BY <2>2, <2>4, <2>13, <2>16, SumInt
  <2> QED
    BY <2>6, <2>7, <2>9, <2>10, <2>11, <2>12, <2>14, <2>15, <2>17, <2>18 DEF result
<1> QED
  BY <1>1, AirdropInvariance, SharesInvariance, PTL
=============================================================================
