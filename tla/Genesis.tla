------------------------------- MODULE Genesis ------------------------------
(***************************************************************************)
(* genesis.go: the airdrop written into a genesis file.                    *)
(*                                                                         *)
(* The balances, the supply and the accounts of the input are dropped and  *)
(* built again: first the addresses of the airdrop, then the reserved      *)
(* address, then the module account that backs the community pool.  The    *)
(* constitution is fetched over HTTP.  The result is printed at the very   *)
(* end, so that any error leaves no output.                                *)
(*                                                                         *)
(* The unit is the whole number of base coins.  A balance of zero is an    *)
(* entry with an empty list of coins.                                      *)
(***************************************************************************)
EXTENDS Votes

CONSTANTS
  AirdropOrder,     \* the addresses an airdrop may name, sorted
  ReservedAddress,  \* the reserved address
  DistrModule,      \* the address of the distribution module account
  Pages,            \* what the server may answer for the constitution
  Original          \* what the genesis file holds: [balances, supply, accounts,
                    \* feePool, constitution]

VARIABLES
  addresses, communityPool, reservedAddr,   \* the airdrop
  step,             \* where the writing stands
  toAdd,            \* the addresses still to add, in order
  balances,         \* bank: a sequence of [Address, Coins]
  supply,           \* bank
  authAccounts,     \* auth: a sequence of addresses
  feePool,          \* distribution: the community pool, a Dec
  constitution,     \* gov
  output            \* what was printed: a set of at most one genesis

genesisInput == <<addresses, communityPool, reservedAddr>>
doc == <<balances, supply, authAccounts, feePool, constitution>>
genesisVars == <<genesisInput, step, toAdd, doc, output>>

GenesisInit ==
  /\ step = "start"
  /\ toAdd = <<>>
  /\ balances = Original.balances
  /\ supply = Original.supply
  /\ authAccounts = Original.accounts
  /\ feePool = Original.feePool
  /\ constitution = Original.constitution
  /\ output = {}

\* Mutant: the supply is added to what the file held.
ReadGenesis_SupplyKept ==
  /\ step = "start"
  /\ balances' = <<>>
  /\ authAccounts' = <<>>
  /\ toAdd' = Sorted(DOMAIN addresses, AirdropOrder)
  /\ step' = "addresses"
  /\ UNCHANGED <<genesisInput, supply, feePool, constitution, output>>

\* The file and each of its modules decode; what they held of balances, supply
\* and accounts is reset.
ReadGenesis ==
  /\ step = "start"
  /\ balances' = <<>>
  /\ supply' = 0
  /\ authAccounts' = <<>>
  /\ toAdd' = Sorted(DOMAIN addresses, AirdropOrder)
  /\ step' = "addresses"
  /\ UNCHANGED <<genesisInput, feePool, constitution, output>>

\* The file cannot be read or decoded, an account be packed, the constitution be
\* fetched or the result be encoded.
Fail ==
  /\ step \in {"start", "addresses", "constitution", "marshal"}
  /\ step' = "error"
  /\ UNCHANGED <<genesisInput, toAdd, doc, output>>

\* A balance, and the supply with it.
AddBalance(a, amount) ==
  /\ balances' = Append(balances, [Address |-> a, Coins |-> amount])
  /\ supply' = supply + amount

AddAddress ==
  /\ step = "addresses"
  /\ toAdd # <<>>
  /\ AddBalance(Head(toAdd), addresses[Head(toAdd)])
  /\ authAccounts' = Append(authAccounts, Head(toAdd))
  /\ toAdd' = Tail(toAdd)
  /\ UNCHANGED <<genesisInput, step, feePool, constitution, output>>

AddReserved ==
  /\ step = "addresses"
  /\ toAdd = <<>>
  /\ AddBalance(ReservedAddress, RoundInt(reservedAddr))
  /\ authAccounts' = Append(authAccounts, ReservedAddress)
  /\ step' = "pool"
  /\ UNCHANGED <<genesisInput, toAdd, feePool, constitution, output>>

\* Mutant: the pool keeps the fraction the module account does not get.
AddCommunityPool_Unrounded ==
  /\ step = "pool"
  /\ feePool' = communityPool
  /\ AddBalance(DistrModule, TruncateInt(communityPool))
  /\ step' = "constitution"
  /\ UNCHANGED <<genesisInput, toAdd, authAccounts, constitution, output>>

\* The community pool, and the same amount on the module account.
AddCommunityPool ==
  /\ step = "pool"
  /\ feePool' = FromInt(RoundInt(communityPool))
  /\ AddBalance(DistrModule, RoundInt(communityPool))
  /\ step' = "constitution"
  /\ UNCHANGED <<genesisInput, toAdd, authAccounts, constitution, output>>

\* The body of the answer is taken whatever the status of the answer.
FetchConstitution ==
  /\ step = "constitution"
  /\ constitution' \in Pages
  /\ step' = "marshal"
  /\ UNCHANGED <<genesisInput, toAdd, balances, supply, authAccounts, feePool, output>>

PrintGenesis ==
  /\ step = "marshal"
  /\ output' = {[balances |-> balances, supply |-> supply, accounts |-> authAccounts,
                 feePool |-> feePool, constitution |-> constitution]}
  /\ step' = "printed"
  /\ UNCHANGED <<genesisInput, toAdd, doc>>

GenesisNext ==
  \/ ReadGenesis
  \/ Fail
  \/ AddAddress
  \/ AddReserved
  \/ AddCommunityPool
  \/ FetchConstitution
  \/ PrintGenesis

-----------------------------------------------------------------------------
(* What the chain requires of the genesis it starts from.                  *)

\* No address has two balances (the bank module refuses such a genesis).
NoDuplicateBalance(g) ==
  \A i, j \in DOMAIN g.balances :
     g.balances[i].Address = g.balances[j].Address => i = j

\* The supply is the sum of the balances (the bank module panics otherwise).
SupplyIsBalances(g) ==
  g.supply = SumFunction([i \in DOMAIN g.balances |-> g.balances[i].Coins])

BalanceOf(g, a) ==
  SumFunction([i \in {i \in DOMAIN g.balances : g.balances[i].Address = a} |->
                 g.balances[i].Coins])

\* The module account holds the community pool (the distribution module panics
\* otherwise).
PoolIsBacked(g) == g.feePool = FromInt(BalanceOf(g, DistrModule))

\* Every balance but the module account's has an auth account, once.
AccountsAreBalances(g) ==
  [i \in DOMAIN g.accounts |-> g.accounts[i]] =
  [i \in 1..(Len(g.balances) - 1) |-> g.balances[i].Address]
=============================================================================
