------------------------------ MODULE Accounts ------------------------------
(***************************************************************************)
(* accounts.go: the snapshot consolidated into one list of accounts, each  *)
(* with its liquid and staked amounts, its direct vote and the votes of    *)
(* the validators it delegates to.                                         *)
(*                                                                         *)
(* Two loops range over Go maps, in any order: the delegators make the     *)
(* accounts, then the balances complete or add to them.  Module and        *)
(* interchain accounts are left out by both loops.                         *)
(***************************************************************************)
EXTENDS Snapshot

CONSTANTS
  AddressOrder,   \* the addresses, sorted
  BalanceFiles,   \* the possible balances files
  TypeFiles       \* the possible account types, by address

VARIABLES
  votesByAddr, delegsByAddr, valsByAddr,  \* the parsed files
  balancesByAddr,
  accountTypes,
  stage,            \* where the computation stands
  todo,             \* the keys the current map range has not reached
  accountsByAddr,   \* the accounts made so far
  accounts          \* the sorted list, at the end

files == <<votesByAddr, delegsByAddr, valsByAddr, balancesByAddr, accountTypes>>
accountsVars == <<files, stage, todo, accountsByAddr, accounts>>

\* "" is the type of an address the auth genesis does not hold.
AccountType == {"", "base", "vesting", "module", "interchain"}

\* The type URL is compared with these two.
IsIgnored(a) == accountTypes[a] \in {"module", "interchain"}

ASSUME AddressOrderAssumption ==
  /\ AddressOrder \in Seq(Address)
  /\ Range(AddressOrder) = Address
  /\ \A i, j \in DOMAIN AddressOrder : AddressOrder[i] = AddressOrder[j] => i = j

ASSUME TypesAssumption == \A types \in TypeFiles : types \in [Address -> AccountType]

\* The coins of a balance, by denomination: some hold no uatom.  The bank
\* genesis has one balance for each address.
ASSUME BalancesAssumption ==
  \A file \in BalanceFiles :
     /\ file \in Seq(Range(file))
     /\ \A i \in DOMAIN file :
          /\ file[i].address \in Address
          /\ file[i].coins \in [DOMAIN file[i].coins -> Nat \ {0}]
     /\ \A i, j \in DOMAIN file : file[i].address = file[j].address => i = j

\* The balance of each address: all its coins when no denomination is asked
\* for, else the amount of it, if the address holds some.
ParseBalancesByAddr(file, denom) ==
  LET Holds(b) == denom = "" \/ denom \in DOMAIN b.coins
  IN  [a \in {file[i].address : i \in {j \in DOMAIN file : Holds(file[j])}} |->
         LET coins == file[LastIndex(file, LAMBDA b : Holds(b) /\ b.address = a)].coins
         IN  IF denom = "" THEN coins ELSE coins[denom]]

-----------------------------------------------------------------------------
\* A delegation as the account lists it, with the vote of the validator.
DelegationOf(del) ==
  LET val == valsByAddr[del.validator]
  IN  [ValidatorAddress |-> del.validator,
       Amount           |-> VotingPower(del.shares, val),
       Vote             |-> val.Vote]

SumAmounts(delegations) ==
  SumFunction([i \in DOMAIN delegations |-> delegations[i].Amount])

\* The account of a delegator.  Delegations to validators that aren't active
\* are ignored, and there may be none left.
DelegatorAccount(a) ==
  LET all == delegsByAddr[a]
      active == Sublist(all, {i \in DOMAIN all : all[i].validator \in DOMAIN valsByAddr})
      delegations == [i \in DOMAIN active |-> DelegationOf(active[i])]
  IN  [Address      |-> a,
       LiquidAmount |-> 0,
       StakedAmount |-> SumAmounts(delegations),
       Vote         |-> Lookup(votesByAddr, a, NoVote),
       Delegations  |-> delegations]

\* Mutant: the address is not set.
HolderAccount_NoAddress(a) ==
  [Address      |-> "",
   LiquidAmount |-> FromInt(balancesByAddr[a]),
   StakedAmount |-> 0,
   Vote         |-> NoVote,
   Delegations  |-> <<>>]

\* The account of an address that has a balance and no delegation.  Its vote
\* is not kept.
HolderAccount(a) ==
  [Address      |-> a,
   LiquidAmount |-> FromInt(balancesByAddr[a]),
   StakedAmount |-> 0,
   Vote         |-> NoVote,
   Delegations  |-> <<>>]

-----------------------------------------------------------------------------
AccountsInit ==
  /\ \E votes \in VotesFiles, delegs \in DelegationFiles, bals \in BalanceFiles,
        types \in TypeFiles :
       \E vals \in ValidatorFiles[delegs] :
         /\ votesByAddr = ParseVotesByAddr(votes)
         /\ delegsByAddr = ParseDelegationsByAddr(delegs)
         /\ valsByAddr = ParseValidatorsByAddr(vals, votesByAddr)
         /\ balancesByAddr = ParseBalancesByAddr(bals, "uatom")
         /\ accountTypes = types
         /\ stage = IF ValidatorsDecode(vals, "cosmos") THEN "delegators" ELSE "not parsed"
  /\ todo = DOMAIN delegsByAddr
  /\ accountsByAddr = [a \in {} |-> 0]
  /\ accounts = <<>>

\* accountsByAddr[a] = acc
Store(a, acc) ==
  accountsByAddr' = [b \in DOMAIN accountsByAddr \cup {a} |->
                       IF b = a THEN acc ELSE accountsByAddr[b]]

\* Module accounts and interchain accounts are skipped by both loops.
IgnoreAddress(a) ==
  /\ stage \in {"delegators", "balances"}
  /\ a \in todo \ DOMAIN accountsByAddr
  /\ IsIgnored(a)
  /\ todo' = todo \ {a}
  /\ UNCHANGED <<files, stage, accountsByAddr, accounts>>

FeedDelegator(a) ==
  /\ stage = "delegators"
  /\ a \in todo
  /\ ~IsIgnored(a)
  /\ Store(a, DelegatorAccount(a))
  /\ todo' = todo \ {a}
  /\ UNCHANGED <<files, stage, accounts>>

EndDelegators ==
  /\ stage = "delegators"
  /\ todo = {}
  /\ stage' = "balances"
  /\ todo' = DOMAIN balancesByAddr
  /\ UNCHANGED <<files, accountsByAddr, accounts>>

\* Mutant: the account of the delegator is replaced.
FeedBalance_Replaced(a) ==
  /\ stage = "balances"
  /\ a \in todo \cap DOMAIN accountsByAddr
  /\ Store(a, HolderAccount(a))
  /\ todo' = todo \ {a}
  /\ UNCHANGED <<files, stage, accounts>>

\* The account of the delegator gets its balance.
FeedBalance(a) ==
  /\ stage = "balances"
  /\ a \in todo \cap DOMAIN accountsByAddr
  /\ Store(a, [accountsByAddr[a] EXCEPT !.LiquidAmount = FromInt(balancesByAddr[a])])
  /\ todo' = todo \ {a}
  /\ UNCHANGED <<files, stage, accounts>>

\* Mutant: the type of the account is not looked at in the second loop.
FeedHolder_AnyType(a) ==
  /\ stage = "balances"
  /\ a \in todo \ DOMAIN accountsByAddr
  /\ Store(a, HolderAccount(a))
  /\ todo' = todo \ {a}
  /\ UNCHANGED <<files, stage, accounts>>

FeedHolder(a) ==
  /\ stage = "balances"
  /\ a \in todo \ DOMAIN accountsByAddr
  /\ ~IsIgnored(a)
  /\ Store(a, HolderAccount(a))
  /\ todo' = todo \ {a}
  /\ UNCHANGED <<files, stage, accounts>>

\* Map to slice with deterministic order.
SortAccounts ==
  /\ stage = "balances"
  /\ todo = {}
  /\ LET addrs == Sorted(DOMAIN accountsByAddr, AddressOrder)
     IN  accounts' = [i \in DOMAIN addrs |-> accountsByAddr[addrs[i]]]
  /\ stage' = "written"
  /\ UNCHANGED <<files, todo, accountsByAddr>>

AccountsNext ==
  \/ \E a \in Address :
       \/ IgnoreAddress(a)
       \/ FeedDelegator(a)
       \/ FeedBalance(a)
       \/ FeedHolder(a)
  \/ EndDelegators
  \/ SortAccounts

=============================================================================
