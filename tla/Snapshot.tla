------------------------------ MODULE Snapshot ------------------------------
(***************************************************************************)
(* The data directory of govbox and the maps parsing.go builds from it.    *)
(* Every command starts from the files that SNAPSHOT-EXTRACT.md extracts   *)
(* from one block of the Cosmos Hub: the votes on the proposal, the        *)
(* delegations, the active validators, the balances and the account types. *)
(* gno-accounts alone is for a block of AtomOne, whose addresses have      *)
(* another prefix.                                                         *)
(*                                                                         *)
(* A file is a sequence of records.  Shares are Decs, bonded tokens are    *)
(* integers.                                                               *)
(***************************************************************************)
EXTENDS Votes

CONSTANTS
  Address,        \* the account addresses
  Operator,       \* the operator addresses of validators, active or not
  AccountOf,      \* AccountOf[v]: the account address with the bytes of v
  PrefixOf,       \* PrefixOf[v]: the chain whose bech32 prefix v has
  VotesFiles,     \* the possible contents of each file
  DelegationFiles,
  ValidatorFiles  \* for each delegations file, the validators files it may go with

\* The index of the last element of s that satisfies P.
LastIndex(s, P(_)) ==
  CHOOSE i \in DOMAIN s : P(s[i]) /\ \A j \in DOMAIN s : P(s[j]) => j <= i

\* Mutant: the options of two votes of one voter are merged.
ParseVotesByAddr_Merged(file) ==
  [a \in {file[i].voter : i \in DOMAIN file} |->
      LET mine == {i \in DOMAIN file : file[i].voter = a}
      IN  [o \in UNION {DOMAIN file[i].options : i \in mine} |->
             MapThenSumSet(LAMBDA i : Lookup(file[i].options, o, 0), mine)]]

\* votes.json may hold several votes of one voter: the last one wins.
ParseVotesByAddr(file) ==
  [a \in {file[i].voter : i \in DOMAIN file} |->
      file[LastIndex(file, LAMBDA vote : vote.voter = a)].options]

\* The delegations of each delegator, in the order of the file.
ParseDelegationsByAddr(file) ==
  [a \in {file[i].delegator : i \in DOMAIN file} |->
      Sublist(file, {i \in DOMAIN file : file[i].delegator = a})]

\* The operator addresses have the bech32 prefix the command works with; the
\* parser panics at one that does not.
ValidatorsDecode(file, prefix) ==
  \A i \in DOMAIN file : PrefixOf[file[i].operator] = prefix

\* The governance information of the active validators, by operator address.
\* A validator's vote is the vote of the account with the same bytes.
ParseValidatorsByAddr(file, votesByAddr) ==
  [v \in {file[i].operator : i \in DOMAIN file} |->
      LET val == file[LastIndex(file, LAMBDA r : r.operator = v)]
      IN  [BondedTokens        |-> val.tokens,
           DelegatorShares     |-> val.shares,
           DelegatorDeductions |-> 0,
           Vote                |-> Lookup(votesByAddr, AccountOf[v], NoVote)]]

\* The delegations, each with its delegator.
Delegated(delegsByAddr) ==
  UNION {{a} \X Range(delegsByAddr[a]) : a \in DOMAIN delegsByAddr}

\* delegation shares * bonded / total shares
VotingPower(shares, val) ==
  Quo(MulInt(shares, val.BondedTokens), val.DelegatorShares)

-----------------------------------------------------------------------------
(* What the extracted files satisfy because they come from one block.      *)

\* The shares of a validator are those of its delegations.
SharesOf(file, v) ==
  SumFunction([i \in DOMAIN file |->
                 IF file[i].validator = v THEN file[i].shares ELSE 0])

ASSUME VotesAssumption ==
  \A file \in VotesFiles :
     /\ file \in Seq(Range(file))
     /\ \A i \in DOMAIN file :
          file[i].voter \in Address /\ IsWeightedVote(file[i].options)

ASSUME DelegationsAssumption ==
  \A file \in DelegationFiles :
     /\ file \in Seq(Range(file))
     /\ \A i \in DOMAIN file :
          /\ file[i].delegator \in Address
          /\ file[i].validator \in Operator
          /\ file[i].shares \in Nat \ {0}
     \* one delegation of a delegator to a validator
     /\ \A i, j \in DOMAIN file :
          /\ file[i].delegator = file[j].delegator
          /\ file[i].validator = file[j].validator
          => i = j

ASSUME PrefixAssumption == PrefixOf \in [Operator -> {"cosmos", "atone"}]

\* A chain has active validators, all with its own prefix.
ASSUME ValidatorsAssumption ==
  \A df \in DelegationFiles : \A file \in ValidatorFiles[df] :
     /\ file \in Seq(Range(file))
     /\ \E prefix \in {"cosmos", "atone"} : ValidatorsDecode(file, prefix)
     /\ file # <<>>
     /\ \A i \in DOMAIN file :
          /\ file[i].operator \in Operator
          /\ file[i].tokens \in Nat
          /\ file[i].shares = SharesOf(df, file[i].operator)
          /\ file[i].shares > 0
     /\ \A i, j \in DOMAIN file : file[i].operator = file[j].operator => i = j
=============================================================================
