----------------------------- MODULE GnoAccounts ----------------------------
(***************************************************************************)
(* getGnoAccounts, for gno-accounts: the list of the accounts of a         *)
(* snapshot of AtomOne with all their coins.  It is a copy of the loops of *)
(* getAccounts, without the votes: a delegation to an active validator     *)
(* makes whole "duatone" coins, a balance is added with all its coins.     *)
(*                                                                         *)
(* The coins of an account are a function from denominations to positive   *)
(* amounts.                                                                *)
(***************************************************************************)
EXTENDS Accounts

\* Coins.Add: amounts are added by denomination, and zeros are dropped.
AddCoins(c, d) ==
  LET sum == [x \in DOMAIN c \cup DOMAIN d |-> Lookup(c, x, 0) + Lookup(d, x, 0)]
  IN  Restrict(sum, {x \in DOMAIN sum : sum[x] # 0})

\* sdk.NewCoin(denom, amount)
CoinsOf(denom, amount) == [x \in {denom} |-> amount]

\* The coins of a delegation to an active validator: its voting power,
\* truncated.
DuatoneOf(del) == TruncateInt(VotingPower(del.shares, valsByAddr[del.validator]))

\* The account of a delegator.  Delegations to validators that aren't active
\* are ignored.
GnoDelegatorAccount(a) ==
  LET all     == delegsByAddr[a]
      active  == {i \in DOMAIN all : all[i].validator \in DOMAIN valsByAddr}
      duatone == SumFunction([i \in active |-> DuatoneOf(all[i])])
  IN  [Address |-> a, Coins |-> AddCoins(<<>>, CoinsOf("duatone", duatone))]

-----------------------------------------------------------------------------
\* gno-accounts works with the prefixes of AtomOne, and parses the validators
\* with an empty map of votes.
GnoAccountsInit(delegationFiles, balanceFiles, typeFiles) ==
  /\ votesByAddr = [a \in {} |-> NoVote]
  /\ \E delegs \in delegationFiles, bals \in balanceFiles, types \in typeFiles :
       \E vals \in ValidatorFiles[delegs] :
         /\ delegsByAddr = ParseDelegationsByAddr(delegs)
         /\ valsByAddr = ParseValidatorsByAddr(vals, votesByAddr)
         /\ balancesByAddr = ParseBalancesByAddr(bals, "")
         /\ accountTypes = types
         /\ stage = IF ValidatorsDecode(vals, "atone") THEN "delegators" ELSE "not parsed"
  /\ todo = DOMAIN delegsByAddr
  /\ accountsByAddr = [a \in {} |-> 0]
  /\ accounts = <<>>

GnoFeedDelegator(a) ==
  /\ stage = "delegators"
  /\ a \in todo
  /\ ~IsIgnored(a)
  /\ Store(a, GnoDelegatorAccount(a))
  /\ todo' = todo \ {a}
  /\ UNCHANGED <<files, stage, accounts>>

\* Mutant: the balance replaces the coins of the delegator, as it does in
\* getAccounts.
GnoFeedBalance_Replaced(a) ==
  /\ stage = "balances"
  /\ a \in todo \cap DOMAIN accountsByAddr
  /\ Store(a, [accountsByAddr[a] EXCEPT !.Coins = balancesByAddr[a]])
  /\ todo' = todo \ {a}
  /\ UNCHANGED <<files, stage, accounts>>

\* The balance is added to the coins of the delegator.
GnoFeedBalance(a) ==
  /\ stage = "balances"
  /\ a \in todo \cap DOMAIN accountsByAddr
  /\ Store(a, [accountsByAddr[a] EXCEPT !.Coins = AddCoins(@, balancesByAddr[a])])
  /\ todo' = todo \ {a}
  /\ UNCHANGED <<files, stage, accounts>>

GnoFeedHolder(a) ==
  /\ stage = "balances"
  /\ a \in todo \ DOMAIN accountsByAddr
  /\ ~IsIgnored(a)
  /\ Store(a, [Address |-> a, Coins |-> balancesByAddr[a]])
  /\ todo' = todo \ {a}
  /\ UNCHANGED <<files, stage, accounts>>

\* The two loops skip the same accounts as those of getAccounts, end and sort
\* alike.
GnoAccountsNext ==
  \/ \E a \in Address :
       \/ IgnoreAddress(a)
       \/ GnoFeedDelegator(a)
       \/ GnoFeedBalance(a)
       \/ GnoFeedHolder(a)
  \/ EndDelegators
  \/ SortAccounts

=============================================================================
