----------------------------- MODULE TallyGenesis ---------------------------
(***************************************************************************)
(* tally_genesis.go and shrink_votes.go: a genesis to measure the tally    *)
(* with, and the cut of its votes.                                         *)
(*                                                                         *)
(* The command mints for all addresses, pays each, creates the validators, *)
(* lets every governor and delegator delegate to the next validators in    *)
(* turn, submits a proposal, votes, and exports what the keepers hold.     *)
(* Every error of a keeper is a panic.  Addresses are their positions in   *)
(* addrs: validators first (the node is 0), then delegators, then          *)
(* governors.  Amounts are in millions of uatone, which all amounts of the *)
(* code are multiples of, and which is the unit of the voting power.       *)
(*                                                                         *)
(* The keepers of bank, staking and gov are external: what is modelled of  *)
(* them is who pays whom, which validators are bonded, and that votes are  *)
(* exported in the order of the voters' addresses, which are random.       *)
(***************************************************************************)
EXTENDS Integers, SequencesExt

CONSTANTS
  FlagSets,              \* the flags: [numVals, numDels, numGovs, nodeAddr, nodeConsPubkey]
  AddrAmt,               \* what an address is paid
  SelfDelegation,        \* what a validator other than the node stakes
  DelegatedAmt,          \* what a delegator delegates, to all its validators
  NumDelegsPerDelegator, \* the delegations it is split in
  MinDeposit,            \* the deposit of the proposal
  MaxValidators,         \* how many validators may be bonded
  Highs                  \* the numbers of votes to keep that are asked for

ASSUME TallyGenesisAssumption ==
  /\ \A f \in FlagSets : {f.numVals, f.numDels, f.numGovs} \subseteq Int
  /\ {AddrAmt, SelfDelegation, DelegatedAmt, MinDeposit} \subseteq Nat \ {0}
  /\ {NumDelegsPerDelegator, MaxValidators} \subseteq Nat \ {0}
  /\ Highs \subseteq Int

\* What an address is paid covers what it stakes, and then the deposit: 1_000_000
\* against 1 or 900_000, and 512.
ASSUME AmountsAssumption ==
  /\ SelfDelegation + MinDeposit <= AddrAmt
  /\ DelegatedAmt + MinDeposit <= AddrAmt

VARIABLES
  flags,           \* the flags of this run
  step,            \* where it stands
  i, j,            \* position in the loop, delegations of this delegator so far
  valIdx,          \* the validator that gets the next delegation
  module,          \* balance of the bank module's account
  balances,        \* balances of the addresses
  deposit,         \* balance of the gov module's account
  tokens,          \* tokens of the validators created so far
  delegations,     \* delegations[a]: the validators a delegated to, in order
  lastPower,       \* powers of the bonded validators, when they were bonded
  votes,           \* votes[a]: the vote of a
  genesisVotes     \* the votes of the genesis that was printed

ledger == <<module, balances, deposit, tokens>>
vars == <<flags, step, i, j, valIdx, ledger, delegations, lastPower, votes, genesisVotes>>

numAddrs == flags.numVals + flags.numDels + flags.numGovs
addrs == 0 .. numAddrs - 1
valAddrs == 0 .. flags.numVals - 1
DelAddr(k) == flags.numVals + k
GovAddr(k) == flags.numVals + flags.numDels + k

totalAddrAmt == AddrAmt * numAddrs

\* Mutant: the node is staked like the others.
nodeAmt_One == AddrAmt

\* The node gets thrice what all addresses together are minted for.
nodeAmt == 3 * totalAddrAmt

\* Mutant: what the delegator has is not split over its delegations.
delAmt_Whole == DelegatedAmt

delAmt == DelegatedAmt \div NumDelegsPerDelegator

NoEntry == [x \in {} |-> 0]

\* Map f with an entry for x.
With(f, x, value) == [y \in DOMAIN f \cup {x} |-> IF y = x THEN value ELSE f[y]]

Init ==
  /\ flags \in FlagSets
  /\ step = "flags"
  /\ i = 0 /\ j = 0 /\ valIdx = 0
  /\ module = 0 /\ deposit = 0
  /\ balances = [a \in addrs |-> 0]
  /\ tokens = NoEntry
  /\ delegations = [a \in addrs |-> <<>>]
  /\ lastPower = NoEntry
  /\ votes = NoEntry
  /\ genesisVotes = <<>>

-----------------------------------------------------------------------------
(* The loops. *)

\* One more iteration of the loop of a step that has n.
Iterate(s, n) == step = s /\ i < n /\ i' = i + 1 /\ UNCHANGED step

EndLoop(s, n, next) ==
  /\ step = s /\ i = n
  /\ step' = next
  /\ i' = 0
  /\ UNCHANGED <<flags, j, valIdx, ledger, delegations, lastPower, votes, genesisVotes>>

\* The command refuses a chain without validators and a node without a name.
IsRefused == flags.numVals < 1 \/ flags.nodeAddr = "" \/ flags.nodeConsPubkey = ""

RefuseFlags ==
  /\ step = "flags" /\ IsRefused
  /\ step' = "error"
  /\ UNCHANGED <<flags, i, j, valIdx, ledger, delegations, lastPower, votes, genesisVotes>>

\* The random addresses are cut into those of the validators, the delegators and
\* the governors, and the public key and the address of the node are decoded.
CanStart ==
  /\ flags.numVals <= numAddrs
  /\ DelAddr(0) <= GovAddr(0) /\ GovAddr(0) <= numAddrs
  /\ flags.nodeConsPubkey # "malformed" /\ flags.nodeAddr # "malformed"

MintCoins ==
  /\ step = "flags" /\ ~IsRefused
  /\ CanStart
  /\ module' = totalAddrAmt + nodeAmt
  /\ step' = "fund"
  /\ UNCHANGED <<flags, i, j, valIdx, balances, deposit, tokens, delegations,
                 lastPower, votes, genesisVotes>>

\* Mutant: the node is paid as every address is, and as the node too.
Payment_NodeTwice(a) == IF a = 0 THEN nodeAmt + AddrAmt ELSE AddrAmt

Payment(a) == IF a = 0 THEN nodeAmt ELSE AddrAmt

FundAddress ==
  /\ Iterate("fund", numAddrs)
  /\ module >= Payment(i)
  /\ module' = module - Payment(i)
  /\ balances' = [balances EXCEPT ![i] = @ + Payment(i)]
  /\ UNCHANGED <<flags, j, valIdx, deposit, tokens, delegations, lastPower, votes,
                 genesisVotes>>

OwnStake(v) == IF v = 0 THEN nodeAmt ELSE SelfDelegation

CreateValidator ==
  /\ Iterate("validators", flags.numVals)
  /\ balances[i] >= OwnStake(i)
  /\ balances' = [balances EXCEPT ![i] = @ - OwnStake(i)]
  /\ tokens' = With(tokens, i, OwnStake(i))
  /\ UNCHANGED <<flags, j, valIdx, module, deposit, delegations, lastPower, votes,
                 genesisVotes>>

\* The validators with the most tokens, ties broken by their random addresses.
MayBeBonded(B) ==
  /\ Cardinality(B) = IF flags.numVals < MaxValidators THEN flags.numVals ELSE MaxValidators
  /\ \A v \in B, w \in valAddrs \ B : tokens[v] >= tokens[w]

BondValidators ==
  /\ step = "bond"
  /\ \E B \in SUBSET valAddrs :
       /\ MayBeBonded(B)
       /\ lastPower' = [v \in B |-> tokens[v]]
  /\ step' = "governors"
  /\ UNCHANGED <<flags, i, j, valIdx, ledger, delegations, votes, genesisVotes>>

-----------------------------------------------------------------------------
(* Delegations, the proposal and the votes. *)

\* Mutant: the turn ends one too late.
NextValidator_TooLate(v) == IF v + 1 > flags.numVals THEN 0 ELSE v + 1

NextValidator(v) == IF v + 1 >= flags.numVals THEN 0 ELSE v + 1

\* Mutant: each delegator starts again from the first validator.
Delegate_FromFirst(a) ==
  /\ balances[a] >= delAmt
  /\ balances' = [balances EXCEPT ![a] = @ - delAmt]
  /\ tokens' = [tokens EXCEPT ![valIdx] = @ + delAmt]
  /\ delegations' = [delegations EXCEPT ![a] = Append(@, valIdx)]
  /\ valIdx' = IF j + 1 < NumDelegsPerDelegator THEN NextValidator(valIdx) ELSE 0
  /\ IF j + 1 < NumDelegsPerDelegator
     THEN j' = j + 1 /\ UNCHANGED i
     ELSE j' = 0 /\ i' = i + 1
  /\ UNCHANGED <<flags, step, module, deposit, lastPower, votes, genesisVotes>>

\* One delegation of one delegator; valIdx goes on from one delegator to the
\* next, and from the governors to the delegators.
Delegate(a) ==
  /\ balances[a] >= delAmt
  /\ balances' = [balances EXCEPT ![a] = @ - delAmt]
  /\ tokens' = [tokens EXCEPT ![valIdx] = @ + delAmt]
  /\ delegations' = [delegations EXCEPT ![a] = Append(@, valIdx)]
  /\ valIdx' = NextValidator(valIdx)
  /\ IF j + 1 < NumDelegsPerDelegator
     THEN j' = j + 1 /\ UNCHANGED i
     ELSE j' = 0 /\ i' = i + 1
  /\ UNCHANGED <<flags, step, module, deposit, lastPower, votes, genesisVotes>>

DelegateOfGovernor == step = "governors" /\ i < flags.numGovs /\ Delegate(GovAddr(i))

DelegateOfDelegator == step = "delegators" /\ i < flags.numDels /\ Delegate(DelAddr(i))

\* The second address proposes; its deposit is what opens the vote.
SubmitProposal ==
  /\ step = "propose"
  /\ 1 \in addrs
  /\ balances[1] >= MinDeposit
  /\ balances' = [balances EXCEPT ![1] = @ - MinDeposit]
  /\ deposit' = MinDeposit
  /\ step' = "vote"
  /\ UNCHANGED <<flags, i, j, valIdx, module, tokens, delegations, lastPower, votes,
                 genesisVotes>>

\* Mutant: the votes are those of the delegators only.
NumVoters_NoGovernors == flags.numDels

\* append(delAddrs, govAddrs...) writes the governors where they already are.
NumVoters == flags.numDels + flags.numGovs

Vote ==
  /\ Iterate("vote", NumVoters)
  /\ votes' = With(votes, DelAddr(i), (i % 3) + 1)
  /\ UNCHANGED <<flags, j, valIdx, ledger, delegations, lastPower, genesisVotes>>

\* Flags the command cannot start with, a payment nobody can make, or a second
\* address that isn't there.
Panics ==
  \/ step = "flags" /\ ~IsRefused /\ ~CanStart
  \/ step = "fund" /\ i < numAddrs /\ module < Payment(i)
  \/ step = "validators" /\ i < flags.numVals /\ balances[i] < OwnStake(i)
  \/ step = "governors" /\ i < flags.numGovs /\ balances[GovAddr(i)] < delAmt
  \/ step = "delegators" /\ i < flags.numDels /\ balances[DelAddr(i)] < delAmt
  \/ step = "propose" /\ (1 \in addrs => balances[1] < MinDeposit)

Panic ==
  /\ Panics
  /\ step' = "panic"
  /\ UNCHANGED <<flags, i, j, valIdx, ledger, delegations, lastPower, votes, genesisVotes>>

-----------------------------------------------------------------------------
(* The genesis. *)

Export ==
  /\ step = "export"
  /\ \E order \in SetToSeqs(DOMAIN votes) :
       genesisVotes' = [k \in DOMAIN order |-> [voter |-> order[k],
                                                option |-> votes[order[k]]]]
  /\ step' = "exported"
  /\ UNCHANGED <<flags, i, j, valIdx, ledger, delegations, lastPower, votes>>

\* The file of the genesis to fill, or to shrink, cannot be read or decoded.
Fail ==
  /\ step \in {"export", "exported", "shrunk"}
  /\ step' = "error"
  /\ UNCHANGED <<flags, i, j, valIdx, ledger, delegations, lastPower, votes, genesisVotes>>

\* shrink-votes on the genesis that was printed.
ShrinkVotes ==
  /\ step \in {"exported", "shrunk"}
  /\ \E high \in Highs \cap (0 .. Len(genesisVotes)) :
       genesisVotes' = SubSeq(genesisVotes, 1, high)
  /\ step' = "shrunk"
  /\ UNCHANGED <<flags, i, j, valIdx, ledger, delegations, lastPower, votes>>

\* The slice is out of range: nothing is printed.
ShrinkVotesPanics ==
  /\ step \in {"exported", "shrunk"}
  /\ \E high \in Highs : high \notin 0 .. Len(genesisVotes)
  /\ step' = "shrinkPanic"
  /\ UNCHANGED <<flags, i, j, valIdx, ledger, delegations, lastPower, votes, genesisVotes>>

Ended == step \in {"error", "panic", "shrinkPanic"} /\ UNCHANGED vars

Next ==
  \/ RefuseFlags \/ MintCoins
  \/ FundAddress \/ EndLoop("fund", numAddrs, "validators")
  \/ CreateValidator \/ EndLoop("validators", flags.numVals, "bond")
  \/ BondValidators
  \/ DelegateOfGovernor \/ EndLoop("governors", flags.numGovs, "delegators")
  \/ DelegateOfDelegator \/ EndLoop("delegators", flags.numDels, "propose")
  \/ SubmitProposal
  \/ Vote \/ EndLoop("vote", NumVoters, "export")
  \/ Panic
  \/ Export \/ Fail
  \/ ShrinkVotes \/ ShrinkVotesPanics
  \/ Ended

Spec == Init /\ [][Next]_vars

-----------------------------------------------------------------------------
(* Properties. *)

Steps == {"flags", "fund", "validators", "bond", "governors", "delegators", "propose",
          "vote", "export", "exported", "shrunk", "error", "panic", "shrinkPanic"}

\* Types.  The votes of the genesis are a sequence of votes of its voters.
TypeOK ==
  /\ flags \in FlagSets
  /\ step \in Steps
  /\ i \in Nat /\ j \in 0 .. NumDelegsPerDelegator - 1 /\ valIdx \in Nat
  /\ module \in Nat /\ deposit \in Nat
  /\ balances \in [addrs -> Nat]
  /\ DOMAIN tokens \subseteq valAddrs /\ \A v \in DOMAIN tokens : tokens[v] \in Nat
  /\ delegations \in [addrs -> Seq(valAddrs)]
  /\ DOMAIN lastPower \subseteq valAddrs /\ \A v \in DOMAIN lastPower : lastPower[v] \in Nat
  /\ DOMAIN votes \subseteq addrs /\ \A a \in DOMAIN votes : votes[a] \in 1 .. 3
  /\ genesisVotes \in Seq([voter : addrs, option : 1 .. 3])

\* A number of delegators or governors below zero, a name of the node that does
\* not decode, or no second address.
WrongFlags ==
  \/ flags.numDels < 0 \/ flags.numGovs < 0
  \/ flags.nodeConsPubkey = "malformed" \/ flags.nodeAddr = "malformed"
  \/ numAddrs = 1

\* The flags alone decide whether the command panics: the amounts that are written
\* down here and there in the program fit together, so that every payment can be
\* made, and wrong flags never get as far as a genesis; with no second address to
\* propose they get as far as the proposal (tally_genesis.go:46-71, 210).
PanicsOnFlags ==
  /\ step = "panic" => WrongFlags
  /\ step \in {"vote", "export", "exported", "shrunk"} => ~WrongFlags

\* Nothing is lost between the module, the addresses, the validators and the
\* deposit, and what stays with the bank module is the amount that was minted for
\* the node's address as one of the addresses (tally_genesis.go:106-125).
Ledger ==
  step \notin {"flags", "error", "panic"} =>
    /\ module + SumFunction(balances) + deposit + SumFunction(tokens) = totalAddrAmt + nodeAmt
    /\ step # "fund" => module = AddrAmt

\* "use full node balance for self delegation so it got >67% of voting power"
\* (tally_genesis.go:143): once validators are bonded, and through all delegations,
\* which the node gets its turns of only, both in the powers the new chain starts
\* with, those of the bonding, and in the tokens of the bonded validators.
NodeOver67(power) ==
  33 * power[0] > 67 * SumFunction([v \in DOMAIN power \ {0} |-> power[v]])

NodeRunsAlone ==
  DOMAIN lastPower # {} =>
    /\ 0 \in DOMAIN lastPower
    /\ NodeOver67(lastPower)
    /\ NodeOver67([v \in DOMAIN lastPower |-> tokens[v]])

\* Delegations over all delegators and governors so far.
Made == SumFunction([a \in addrs |-> Len(delegations[a])])

\* Delegations are dealt in turn, across delegators and the two loops: the tokens
\* of a validator are its own stake and one share of each round
\* (tally_genesis.go:178-206).
RoundRobin ==
  step \notin {"flags", "fund", "validators", "error", "panic"} =>
    \A v \in valAddrs :
      tokens[v] = OwnStake(v)
        + delAmt * Cardinality({k \in 0 .. Made - 1 : k % flags.numVals = v})

\* The votes of a genesis are of accounts that delegated, each counted once, with
\* the choice it made, all of them unless the genesis was shrunk, and with as many
\* validators bonded as there are, all that is staked counts in the tally
\* (tally_genesis.go:219-226, shrink_votes.go:34).
VotesCount ==
  step \in {"exported", "shrunk"} =>
    /\ \A k \in DOMAIN genesisVotes :
         votes[genesisVotes[k].voter] = genesisVotes[k].option
    /\ \A k, l \in DOMAIN genesisVotes :
         k # l => genesisVotes[k].voter # genesisVotes[l].voter
    /\ step = "exported" =>
         {genesisVotes[k].voter : k \in DOMAIN genesisVotes}
           = {a \in addrs : delegations[a] # <<>>}
    /\ flags.numVals <= MaxValidators =>
         \A k \in DOMAIN genesisVotes :
           ToSet(delegations[genesisVotes[k].voter]) \subseteq DOMAIN lastPower
=============================================================================
