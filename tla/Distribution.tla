---------------------------- MODULE Distribution ----------------------------
(***************************************************************************)
(* distribution.go: the $ATONE airdrop computed from the accounts.         *)
(*                                                                         *)
(* A first pass over the accounts adds up what voted what.  From these     *)
(* sums comes the multiplier of those who did not vote, chosen to keep     *)
(* them under a target share of the new supply.  A second pass multiplies  *)
(* the amounts of each account by the multiplier of its votes and credits  *)
(* it, except the ICF wallets, which are slashed.                          *)
(***************************************************************************)
EXTENDS Votes

CONSTANTS
  AccountLists,   \* the possible accounts files
  ParamSets,      \* the distribution parameters tried
  IcfWallets,     \* the addresses of the ICF
  Convert,        \* Convert[a]: a with the bech32 prefix asked for; an address
                  \* outside the domain does not convert
  TargetNonVotersPerc

ASSUME ParamsAssumption ==
  \A p \in ParamSets :
    p \in [yesVotesMultiplier : Nat, noVotesMultiplier : Nat, bonus : Nat,
           malus : Nat, supplyFactor : Nat, supplyMintFactor : Nat]

ASSUME TargetAssumption == TargetNonVotersPerc \in 0..One

\* The accounts are those the accounts command writes, from a map by address.
ASSUME AccountsAssumption ==
  \A list \in AccountLists :
    /\ list \in Seq(Range(list))
    /\ \A i \in DOMAIN list : IsAccount(list[i])
    /\ \A i, j \in DOMAIN list : list[i].Address = list[j].Address => i = j

\* Convert keeps the bytes of an address, and those of the ICF are well formed.
ASSUME ConvertAssumption ==
  /\ \A a, b \in DOMAIN Convert : Convert[a] = Convert[b] => a = b
  /\ IcfWallets \subseteq DOMAIN Convert

VARIABLES
  accounts,             \* the accounts, in the order of the file
  params,               \* the parameters of the distribution
  phase,                \* where the computation stands
  next,                 \* index of the next account of the pass
  atom,                 \* $ATOM: [supply, votes, unstaked]
  nonVotersMultiplier,
  atone,                \* $ATONE: [supply, votes, unstaked]
  icfSlash,             \* $ATOM taken from the ICF
  addresses,            \* the airdrop of each address, a whole number
  communityPool, reservedAddr

input == <<accounts, params>>
minted == <<communityPool, reservedAddr>>
airdrop == <<atone, icfSlash, addresses>>
distributionVars ==
  <<input, phase, next, atom, nonVotersMultiplier, airdrop, minted>>

EmptyDistrib == [supply |-> 0, votes |-> [o \in AnyOption |-> 0], unstaked |-> 0]

\* $ATOM of an account that stand for option o.
AtomAmount(acc, o) == Mul(VoteWeights(acc)[o], acc.StakedAmount)

\* $ATONE they are worth.  The products are rounded one by one, in this order.
Multiplied(amount, o) ==
  CASE o = "yes"     -> Mul(amount, params.yesVotesMultiplier)
    [] o = "no"      -> Mul(amount, params.noVotesMultiplier)
    [] o = "veto"    -> Mul(Mul(amount, params.noVotesMultiplier), params.bonus)
    [] o = "abstain" -> Mul(amount, nonVotersMultiplier)
    [] o = "empty"   -> Mul(Mul(amount, nonVotersMultiplier), params.malus)
AtoneAmount(acc, o) == Mul(Multiplied(AtomAmount(acc, o), o), params.supplyFactor)

\* Liquid amounts get the multiplier of those who did not vote.
LiquidAtone(acc) ==
  Mul(Mul(acc.LiquidAmount, Mul(nonVotersMultiplier, params.malus)),
      params.supplyFactor)

\* The whole number of an airdrop amount.  Mutant: it is truncated.
WholeAmount_Truncated(amount) == TruncateInt(amount)
WholeAmount(amount) == RoundInt(amount)

\* The sum over the five options.
OptionsTotal(votes) ==
  votes["yes"] + votes["no"] + votes["veto"] + votes["abstain"] + votes["empty"]

\* Mutant: the liquid amount is forgotten in the total.
AddTo_NoLiquid(distrib, votes, liquid, total) ==
  [supply   |-> distrib.supply + total - liquid,
   votes    |-> [o \in AnyOption |-> distrib.votes[o] + votes[o]],
   unstaked |-> distrib.unstaked + liquid]

\* A distribution with the votes, the liquid and the total amount added.
AddTo(distrib, votes, liquid, total) ==
  [supply   |-> distrib.supply + total,
   votes    |-> [o \in AnyOption |-> distrib.votes[o] + votes[o]],
   unstaked |-> distrib.unstaked + liquid]

-----------------------------------------------------------------------------
DistributionInit ==
  /\ phase = "idle"
  /\ params \in ParamSets
  /\ next = 1
  /\ atom = EmptyDistrib
  /\ nonVotersMultiplier = 0
  /\ atone = EmptyDistrib
  /\ icfSlash = 0
  /\ addresses = [a \in {} |-> 0]
  /\ communityPool = 0
  /\ reservedAddr = 0

\* The accounts file has been read.
Begin ==
  /\ phase = "idle"
  /\ phase' = "survey"
  /\ UNCHANGED <<input, next, atom, nonVotersMultiplier, airdrop, minted>>

\* Mutant: the staked amount alone makes the supply.
Survey_StakedOnly ==
  /\ phase = "survey"
  /\ next <= Len(accounts)
  /\ LET acc == accounts[next]
     IN  atom' = AddTo(atom, [o \in AnyOption |-> AtomAmount(acc, o)],
                       acc.LiquidAmount, acc.StakedAmount)
  /\ next' = next + 1
  /\ UNCHANGED <<input, phase, nonVotersMultiplier, airdrop, minted>>

\* First pass, one account.
Survey ==
  /\ phase = "survey"
  /\ next <= Len(accounts)
  /\ LET acc == accounts[next]
     IN  atom' = AddTo(atom, [o \in AnyOption |-> AtomAmount(acc, o)],
                       acc.LiquidAmount, acc.StakedAmount + acc.LiquidAmount)
  /\ next' = next + 1
  /\ UNCHANGED <<input, phase, nonVotersMultiplier, airdrop, minted>>

\* nonVotersMultiplier = (t x (yesAtone + noAtone)) / ((1 - t) x nonVoterAtom)
\* The division panics when every $ATOM voted yes or no.
YesAtoneTotal == Mul(atom.votes["yes"], params.yesVotesMultiplier)
NoAtoneTotal ==
  Mul(atom.votes["no"] + atom.votes["veto"], params.noVotesMultiplier)
\* Mutant: the liquid amounts are forgotten among the non-voters.
NonVotersAtom_StakedOnly == atom.votes["abstain"] + atom.votes["empty"]
NonVotersAtom == atom.votes["abstain"] + atom.votes["empty"] + atom.unstaked

ComputeMultiplier ==
  /\ phase = "survey"
  /\ next > Len(accounts)
  /\ LET divisor == Mul(One - TargetNonVotersPerc, NonVotersAtom)
         voters  == Mul(TargetNonVotersPerc, YesAtoneTotal + NoAtoneTotal)
     IN  IF divisor = 0
         THEN phase' = "panic" /\ UNCHANGED nonVotersMultiplier
         ELSE phase' = "distribute" /\ nonVotersMultiplier' = Quo(voters, divisor)
  /\ next' = 1
  /\ UNCHANGED <<input, atom, airdrop, minted>>

\* Second pass, an ICF wallet: slashed, and nothing else.
SlashIcf ==
  /\ phase = "distribute"
  /\ next <= Len(accounts)
  /\ LET acc == accounts[next]
     IN  /\ acc.Address \in IcfWallets
         /\ icfSlash' = icfSlash + acc.LiquidAmount + acc.StakedAmount
  /\ next' = next + 1
  /\ UNCHANGED <<input, phase, atom, nonVotersMultiplier, atone, addresses, minted>>

\* Second pass, any other account: its amounts are added to the sums.
AirdropAmount(acc) ==
  LiquidAtone(acc) + OptionsTotal([o \in AnyOption |-> AtoneAmount(acc, o)])

AddAirdrop ==
  /\ phase = "distribute"
  /\ next <= Len(accounts)
  /\ accounts[next].Address \notin IcfWallets
  /\ atone' = LET acc == accounts[next]
              IN  AddTo(atone, [o \in AnyOption |-> AtoneAmount(acc, o)],
                        LiquidAtone(acc), AirdropAmount(acc))
  /\ UNCHANGED <<input, atom, nonVotersMultiplier, icfSlash, minted>>

\* The whole $ATONE an account is worth.
Worth(acc) == WholeAmount(AirdropAmount(acc))
AmountOfNext == Worth(accounts[next])

\* The address and its amount make an entry.
EnterAddress ==
  LET addr == Convert[accounts[next].Address]
  IN  addresses' = [a \in DOMAIN addresses \cup {addr} |->
                      IF a = addr THEN AmountOfNext ELSE addresses[a]]

\* Mutant: an amount that truncates to zero makes no entry.
SkipZero_Truncated ==
  /\ AddAirdrop
  /\ TruncateInt(AirdropAmount(accounts[next])) = 0
  /\ next' = next + 1
  /\ UNCHANGED <<phase, addresses>>

\* An amount that rounds to zero makes no entry.
SkipZero ==
  /\ AddAirdrop
  /\ AmountOfNext = 0
  /\ next' = next + 1
  /\ UNCHANGED <<phase, addresses>>

\* Mutant: zero amounts make entries too.
Credit_EvenZero ==
  /\ AddAirdrop
  /\ accounts[next].Address \in DOMAIN Convert
  /\ EnterAddress
  /\ next' = next + 1
  /\ UNCHANGED phase

Credit ==
  /\ AddAirdrop
  /\ AmountOfNext # 0
  /\ accounts[next].Address \in DOMAIN Convert
  /\ EnterAddress
  /\ next' = next + 1
  /\ UNCHANGED phase

\* An address that does not convert ends it all, after the sums were updated.
FailToConvert ==
  /\ AddAirdrop
  /\ AmountOfNext # 0
  /\ accounts[next].Address \notin DOMAIN Convert
  /\ phase' = "error"
  /\ UNCHANGED <<next, addresses>>

\* The minted part, half for the community pool, half for the reserved address.
Mint ==
  /\ phase = "distribute"
  /\ next > Len(accounts)
  /\ LET mint == Mul(atone.supply, params.supplyMintFactor)
     IN  /\ communityPool' = Quo(mint, FromInt(2))
         /\ reservedAddr' = Quo(mint, FromInt(2))
  /\ phase' = "done"
  /\ UNCHANGED <<input, next, atom, nonVotersMultiplier, airdrop>>

\* The command has ended: nothing happens any more.
Ended == phase \in {"done", "error", "panic"} /\ UNCHANGED distributionVars

DistributionNext ==
  \/ Begin
  \/ Survey
  \/ ComputeMultiplier
  \/ SlashIcf
  \/ SkipZero
  \/ Credit
  \/ FailToConvert
  \/ Mint
  \/ Ended

Init == accounts \in AccountLists /\ DistributionInit

Spec == Init /\ [][DistributionNext]_distributionVars

-----------------------------------------------------------------------------
(* Properties                                                              *)

IsDistrib(d) ==
  /\ d.supply \in Nat
  /\ d.votes \in [AnyOption -> Nat]
  /\ d.unstaked \in Nat

TypeOK ==
  /\ phase \in {"idle", "survey", "distribute", "done", "error", "panic"}
  /\ next \in 1..(Len(accounts) + 1)
  /\ IsDistrib(atom)
  /\ IsDistrib(atone)
  /\ nonVotersMultiplier \in Nat
  /\ icfSlash \in Nat
  /\ addresses \in [DOMAIN addresses -> Nat \ {0}]
  /\ communityPool \in Nat
  /\ reservedAddr \in Nat

\* The parts of the $ATONE distribution add up to its supply, at every step and
\* to the last unit.  The code checks it for each account and panics ("WRONG").
SupplyIsSum == atone.supply = OptionsTotal(atone.votes) + atone.unstaked

\* The rounding of the product of each option and, for each delegation, three
\* units of its share of the staked amount.
AtomSlack(acc) == 3 + Len(acc.Delegations) * (1 + (3 * acc.StakedAmount) \div One)

\* Every $ATOM is accounted for by what its holder did: the options and the
\* liquid amounts add up to the supply, whatever was inherited from validators
\* that voted or not.  The slack is that of each account.
AtomAccounted ==
  phase \in {"distribute", "done"} =>
    LET slack == SumFunction([i \in DOMAIN accounts |-> AtomSlack(accounts[i])])
    IN  atom.supply - (OptionsTotal(atom.votes) + atom.unstaked) \in -slack..slack

\* What the accounts hold.
Held == [i \in DOMAIN accounts |-> accounts[i].LiquidAmount + accounts[i].StakedAmount]

\* The airdrop holds the entry an account is worth, or none if it is worth
\* nothing.
HasEntry(acc) == acc.Address \in DOMAIN Convert /\ Convert[acc.Address] \in DOMAIN addresses
IsSettled(acc) ==
  IF HasEntry(acc) THEN addresses[Convert[acc.Address]] = Worth(acc) ELSE Worth(acc) = 0

\* At every step of the second pass, and when it stops at an address that does
\* not convert, the $ATOM passed were slashed or are those of the accounts
\* whose entries the airdrop holds, each the amount its account is worth;
\* nobody else has an entry, the ICF least of all; and in the end all the
\* $ATOM have passed.
NothingLost ==
  phase \in {"distribute", "done", "error"} =>
    LET passed  == 1..(next - 1)
        settled == {i \in passed : /\ accounts[i].Address \notin IcfWallets
                                   /\ IsSettled(accounts[i])}
    IN  /\ SumFunctionOnSet(Held, passed) = icfSlash + SumFunctionOnSet(Held, settled)
        /\ DOMAIN addresses
             = {Convert[accounts[i].Address] : i \in {j \in settled : Worth(accounts[j]) # 0}}
        /\ phase = "done" => atom.supply = SumFunctionOnSet(Held, passed)

\* The amount that was added to the sums without an entry, when an address did
\* not convert.
Unpaid == IF phase = "error" THEN AirdropAmount(accounts[next]) ELSE 0

\* The whole amounts written to airdrop.json add up to the supply, but for half
\* an $ATONE for each account passed.  What a distribution that failed returns
\* is apart by the amount of the address that did not convert, no more.
CreditedIsSupply ==
  phase \in {"distribute", "done", "error"} =>
    LET slack == (next - 1) * (One \div 2)
    IN  (FromInt(SumFunction(addresses)) + Unpaid) - atone.supply \in -slack..slack

\* The comment of nonVotersMultiplier: it ensures that non-voters don't hold
\* more than 1/3 of the supply.  The slack is four units for each account, the
\* amounts the non-voters hold times the rounding of the multiplier, and the
\* multiplier times the rounding of what they hold.
NonVotersCap ==
  phase = "done" =>
    LET nonVoters == atone.votes["abstain"] + atone.votes["empty"] + atone.unstaked
        slack == 4 * Len(accounts) + (NonVotersAtom \div One)
                   + (nonVotersMultiplier \div One) + 1
    IN  3 * nonVoters <= atone.supply + 3 * slack
=============================================================================
