------------------------------- MODULE GovBox -------------------------------
(***************************************************************************)
(* The whole way from a snapshot to a genesis: govbox accounts makes the   *)
(* snapshot a list of accounts, then govbox genesis reads the list,        *)
(* computes the distribution and writes it into the genesis.               *)
(***************************************************************************)
EXTENDS Accounts

CONSTANTS ParamSets, IcfWallets, Convert, TargetNonVotersPerc,
          ReservedAddress, DistrModule, Pages, Original

\* The parameters and the conversion of addresses, as in Distribution.
ASSUME ParamsAssumption ==
  \A p \in ParamSets :
    p \in [yesVotesMultiplier : Nat, noVotesMultiplier : Nat, bonus : Nat,
           malus : Nat, supplyFactor : Nat, supplyMintFactor : Nat]

ASSUME TargetAssumption == TargetNonVotersPerc \in 0..One

ASSUME ConvertAssumption ==
  /\ \A a, b \in DOMAIN Convert : Convert[a] = Convert[b] => a = b
  /\ IcfWallets \subseteq DOMAIN Convert

\* No account has the bytes of the reserved address, 0x..bda0.  A module account
\* has the same bytes on both chains, so that the one that is to back the pool
\* is a module account of the snapshot, if the snapshot holds it.
ASSUME AddedAssumption ==
  /\ ReservedAddress # DistrModule
  /\ \A a \in Address \cap DOMAIN Convert :
       /\ Convert[a] # ReservedAddress
       /\ Convert[a] = DistrModule => \A types \in TypeFiles : types[a] = "module"

VARIABLES
  params, phase, next, atom, nonVotersMultiplier, atone, icfSlash,
  addresses, communityPool, reservedAddr,
  step, toAdd, balances, supply, authAccounts, feePool, constitution, output

Converted == Sorted(DOMAIN Convert, AddressOrder)

D == INSTANCE Distribution WITH AccountLists <- {}
G == INSTANCE Genesis WITH
       AirdropOrder <- [i \in DOMAIN Converted |-> Convert[Converted[i]]]
T == INSTANCE TallySpec WITH answer <- {}

airdropVars == <<params, phase, next, atom, nonVotersMultiplier, atone, icfSlash,
                 addresses, communityPool, reservedAddr>>
docVars == <<step, toAdd, balances, supply, authAccounts, feePool, constitution, output>>
govboxVars == <<accountsVars, airdropVars, docVars>>

Init == AccountsInit /\ D!DistributionInit /\ G!GenesisInit

\* govbox accounts
MakeAccounts ==
  /\ AccountsNext
  /\ UNCHANGED <<airdropVars, docVars>>

\* govbox genesis: the accounts are read, then distributed.
Distribute ==
  /\ stage = "written"
  /\ D!DistributionNext
  /\ UNCHANGED <<accountsVars, docVars>>

\* govbox genesis: the airdrop is written, unless the distribution failed.
WriteGenesis ==
  /\ phase = "done"
  /\ G!GenesisNext
  /\ UNCHANGED <<accountsVars, airdropVars>>

\* The commands have ended.
Ended ==
  /\ stage = "not parsed" \/ phase \in {"error", "panic"} \/ step \in {"printed", "error"}
  /\ UNCHANGED govboxVars

Next == MakeAccounts \/ Distribute \/ WriteGenesis \/ Ended

Spec == Init /\ [][Next]_govboxVars

-----------------------------------------------------------------------------
(* Properties                                                              *)

AccountsTypeOK ==
  /\ stage \in {"not parsed", "delegators", "balances", "written"}
  /\ todo \subseteq Address
  /\ DOMAIN accountsByAddr \subseteq Address
  /\ \A a \in DOMAIN accountsByAddr :
       accountsByAddr[a].Address = a /\ IsAccount(accountsByAddr[a])
  /\ step \in {"start", "addresses", "pool", "constitution", "marshal",
               "printed", "error"}

\* Whatever the order of the two loops, the list holds each address that is
\* neither a module nor an interchain account and that has a balance or a
\* delegation, once and in order, with its balance and with all its bonded
\* stake: that of its delegations to active validators.
StakeOf(a) ==
  SumFunction([i \in DOMAIN Lookup(delegsByAddr, a, <<>>) |->
    LET del == delegsByAddr[a][i]
    IN  IF del.validator \in DOMAIN valsByAddr
        THEN VotingPower(del.shares, valsByAddr[del.validator]) ELSE 0])
AccountsComplete ==
  stage = "written" =>
    LET holders == {a \in DOMAIN delegsByAddr \cup DOMAIN balancesByAddr :
                      accountTypes[a] \notin {"module", "interchain"}}
    IN  /\ [i \in DOMAIN accounts |-> accounts[i].Address]
             = Sorted(holders, AddressOrder)
        /\ \A i \in DOMAIN accounts :
             LET a == accounts[i].Address
             IN  /\ accounts[i].LiquidAmount = FromInt(Lookup(balancesByAddr, a, 0))
                 /\ accounts[i].StakedAmount = StakeOf(a)

\* The accounts say of the votes what the tally says: for each option, the
\* voting power of the tally is the $ATOM of the distribution's first pass that
\* stand for it, plus what the accounts left out would have added.  The slack
\* is a few roundings for each delegation of the snapshot.
LeftOutDelegations ==
  {ad \in Delegated(delegsByAddr) :
      IsIgnored(ad[1]) /\ ad[2].validator \in DOMAIN valsByAddr}
LeftOutPower(o) ==
  SumFunction([ad \in LeftOutDelegations |->
    LET vote == Lookup(votesByAddr, ad[1], valsByAddr[ad[2].validator].Vote)
    IN  Mul(T!DelegationPower(ad), Lookup(vote, o, 0))])
StakeUnits ==
  SumFunction([a \in DOMAIN delegsByAddr |->
                 Len(delegsByAddr[a]) * (7 + 2 * (StakeOf(a) \div One))])
TallyAgrees ==
  phase \in {"distribute", "done"} =>
    \A o \in VoteOption :
      atom.votes[o] + LeftOutPower(o) - T!TallyResult.results[o]
        \in -StakeUnits..StakeUnits

\* A genesis that is printed is one the chain starts from: no address twice
\* (not even when the snapshot holds the module account that is to back the
\* pool), a supply that is the sum of the balances, a pool that is backed.
GenesisStarts ==
  \A g \in output :
    /\ G!NoDuplicateBalance(g)
    /\ G!SupplyIsBalances(g)
    /\ G!AccountsAreBalances(g)

\* The community pool of the genesis is what the module account holds.
PoolBacked == \A g \in output : G!PoolIsBacked(g)

\* Nothing is lost between the airdrop and the genesis: the supply is what was
\* distributed and minted, but for half a coin for each account and for each of
\* the two halves of the minted part.
SupplyIsAirdrop ==
  \A g \in output :
    LET slack == (Len(accounts) + 2) * (One \div 2)
    IN  FromInt(g.supply) - (atone.supply + communityPool + reservedAddr)
          \in -slack..slack
=============================================================================
