-------------------------------- MODULE Tally -------------------------------
(***************************************************************************)
(* tally.go: the tally of a proposal recomputed from the snapshot.         *)
(*                                                                         *)
(* The direct voters come first.  Each of their delegations to an active   *)
(* validator counts for the voter's own vote, and its shares are deducted  *)
(* from those of the validator.  Then every validator that voted counts,   *)
(* with what its delegators left it.  Both loops range over Go maps, so    *)
(* they run in any order, and the deductions live in valsByAddr itself:    *)
(* the map is read, changed and written back for every delegation.         *)
(***************************************************************************)
EXTENDS Snapshot

CONSTANT NoVoter    \* no voter is being counted

ASSUME NoVoterAssumption == NoVoter \notin Address

VARIABLES
  votesByAddr,      \* direct votes, by voter
  delegsByAddr,     \* delegations, by delegator
  valsByAddr,       \* active validators, with their deductions
  pc,               \* where the computation stands
  todo,             \* the keys the current map range has not reached
  dels,             \* the delegations of the current voter still to count
  voter,            \* the current voter
  results,          \* voting power by option
  totalVotingPower,
  counted,          \* auxiliary: how many voting powers were added so far
  yesPercent        \* the percentage printed at the end

inputs == <<votesByAddr, delegsByAddr>>
sums == <<results, totalVotingPower, counted>>
vars == <<inputs, valsByAddr, pc, todo, dels, voter, sums, yesPercent>>

-----------------------------------------------------------------------------
Init ==
  /\ \E votes \in VotesFiles, delegs \in DelegationFiles :
       \E vals \in ValidatorFiles[delegs] :
         /\ votesByAddr = ParseVotesByAddr(votes)
         /\ delegsByAddr = ParseDelegationsByAddr(delegs)
         /\ valsByAddr = ParseValidatorsByAddr(vals, votesByAddr)
         /\ pc = IF ValidatorsDecode(vals, "cosmos") THEN "voters" ELSE "not parsed"
  /\ todo = DOMAIN votesByAddr
  /\ dels = <<>>
  /\ voter = NoVoter
  /\ results = [o \in VoteOption |-> 0]
  /\ totalVotingPower = 0
  /\ counted = 0
  /\ yesPercent = 0

\* Mutant: the whole power goes to every option of a split vote.
AddPower_Unweighted(vote, power) ==
  /\ results' = [o \in VoteOption |->
                   IF o \in DOMAIN vote THEN results[o] + power ELSE results[o]]
  /\ totalVotingPower' = totalVotingPower + power
  /\ counted' = counted + 1

\* Adds a voting power to the options of a vote, by weight, and to the total.
AddPower(vote, power) ==
  /\ results' = [o \in VoteOption |->
                   IF o \in DOMAIN vote
                   THEN results[o] + Mul(power, vote[o])
                   ELSE results[o]]
  /\ totalVotingPower' = totalVotingPower + power
  /\ counted' = counted + 1

\* for voterAddr, vote := range votesByAddr
RangeVoter(a) ==
  /\ pc = "voters"
  /\ a \in todo
  /\ pc' = "delegations"
  /\ todo' = todo \ {a}
  /\ voter' = a
  /\ dels' = Lookup(delegsByAddr, a, <<>>)
  /\ UNCHANGED <<inputs, valsByAddr, sums, yesPercent>>

\* The validator isn't in the active set: the delegation is ignored.
IgnoreDelegation ==
  /\ pc = "delegations"
  /\ dels # <<>>
  /\ Head(dels).validator \notin DOMAIN valsByAddr
  /\ dels' = Tail(dels)
  /\ UNCHANGED <<inputs, valsByAddr, pc, todo, voter, sums, yesPercent>>

\* The current delegation, to an active validator, deducts and adds power.
CountOf(deduction, power) ==
  /\ pc = "delegations"
  /\ valsByAddr' = [valsByAddr EXCEPT
       ![Head(dels).validator].DelegatorDeductions = @ + deduction]
  /\ AddPower(votesByAddr[voter], power)
  /\ dels' = Tail(dels)
  /\ UNCHANGED <<inputs, pc, todo, voter, yesPercent>>

\* Mutants: the validator is not written back to the map; the power of what
\* is left is shared out again; voting power is deducted instead of shares.
CountDelegation_NotStored ==
  /\ dels # <<>>
  /\ LET del == Head(dels)
     IN  /\ del.validator \in DOMAIN valsByAddr
         /\ CountOf(0, VotingPower(del.shares, valsByAddr[del.validator]))
CountDelegation_OfTheRest ==
  /\ dels # <<>>
  /\ LET del == Head(dels)
         val == valsByAddr[del.validator]
     IN  /\ del.validator \in DOMAIN valsByAddr
         /\ CountOf(del.shares, Quo(MulInt(del.shares, val.BondedTokens),
                                    val.DelegatorShares - val.DelegatorDeductions))
CountDelegation_PowerDeducted ==
  /\ dels # <<>>
  /\ LET del == Head(dels)
         power == VotingPower(del.shares, valsByAddr[del.validator])
     IN  /\ del.validator \in DOMAIN valsByAddr
         /\ CountOf(power, power)

CountDelegation ==
  /\ dels # <<>>
  /\ LET del == Head(dels)
     IN  /\ del.validator \in DOMAIN valsByAddr
         /\ CountOf(del.shares, VotingPower(del.shares, valsByAddr[del.validator]))

EndVoter ==
  /\ pc = "delegations"
  /\ dels = <<>>
  /\ pc' = "voters"
  /\ voter' = NoVoter
  /\ UNCHANGED <<inputs, valsByAddr, todo, dels, sums, yesPercent>>

EndVoters ==
  /\ pc = "voters"
  /\ todo = {}
  /\ pc' = "validators"
  /\ todo' = DOMAIN valsByAddr
  /\ UNCHANGED <<inputs, valsByAddr, dels, voter, sums, yesPercent>>

IgnoreValidator(v) ==
  /\ pc = "validators"
  /\ v \in todo
  /\ valsByAddr[v].Vote = NoVote
  /\ todo' = todo \ {v}
  /\ UNCHANGED <<inputs, valsByAddr, pc, dels, voter, sums, yesPercent>>

CountValidator(v) ==
  /\ pc = "validators"
  /\ v \in todo
  /\ LET val == valsByAddr[v]
         sharesAfterDeductions == val.DelegatorShares - val.DelegatorDeductions
     IN  /\ val.Vote # NoVote
         /\ AddPower(val.Vote, VotingPower(sharesAfterDeductions, val))
  /\ todo' = todo \ {v}
  /\ UNCHANGED <<inputs, valsByAddr, pc, dels, voter, yesPercent>>

\* The tally returns; printTallyResults divides the Yes votes by what did not
\* abstain, and the division panics when nothing is left.
PrintTallyResults ==
  /\ pc = "validators"
  /\ todo = {}
  /\ LET voting == totalVotingPower - results["abstain"]
     IN  IF voting = 0
         THEN pc' = "panic" /\ UNCHANGED yesPercent
         ELSE pc' = "printed" /\ yesPercent' = Quo(results["yes"], voting)
  /\ UNCHANGED <<inputs, valsByAddr, todo, dels, voter, sums>>

\* The command has ended, or panicked on the validators before it tallied.
Ended == pc \in {"printed", "panic", "not parsed"} /\ UNCHANGED vars

Next ==
  \/ \E a \in Address : RangeVoter(a)
  \/ IgnoreDelegation
  \/ CountDelegation
  \/ EndVoter
  \/ EndVoters
  \/ \E v \in Operator : IgnoreValidator(v) \/ CountValidator(v)
  \/ PrintTallyResults
  \/ Ended

\* The command runs on its own until it ends.
Spec == Init /\ [][Next]_vars /\ WF_vars(Next)

-----------------------------------------------------------------------------
(* Properties                                                              *)

TypeOK ==
  /\ pc \in {"not parsed", "voters", "delegations", "validators", "printed", "panic"}
  /\ todo \subseteq Address \cup Operator
  /\ voter \in Address \cup {NoVoter}
  /\ \A a \in DOMAIN votesByAddr : IsWeightedVote(votesByAddr[a])
  /\ \A v \in DOMAIN valsByAddr :
       /\ valsByAddr[v].BondedTokens \in Nat
       /\ valsByAddr[v].DelegatorShares \in Nat \ {0}
       /\ valsByAddr[v].DelegatorDeductions \in Nat
       /\ valsByAddr[v].Vote = NoVote \/ IsWeightedVote(valsByAddr[v].Vote)
  /\ results \in [VoteOption -> Int]
  /\ totalVotingPower \in Int
  /\ counted \in Nat
  /\ yesPercent \in Int

\* No validator is ever deducted more shares than it has: the delegations of
\* the direct voters are deducted once each, and the validator keeps the rest.
DeductionsWithinShares ==
  \A v \in DOMAIN valsByAddr :
     valsByAddr[v].DelegatorDeductions <= valsByAddr[v].DelegatorShares

\* The options share the voting power out: their sum is the total voting
\* power, but for the rounding of four products for each power added.
OptionsSum ==
  results["yes"] + results["abstain"] + results["no"] + results["veto"]
Conservation ==
  /\ OptionsSum - totalVotingPower <= 2 * counted
  /\ totalVotingPower - OptionsSum <= 2 * counted

\* What each share stands for once the tally is over: the vote of its
\* delegator if it voted, else the vote of its validator.  BallotPower is the
\* power at validator v of the shares that stand for option o, divided once.
BallotOf(a, v) ==
  IF a \in DOMAIN votesByAddr THEN votesByAddr[a] ELSE valsByAddr[v].Vote
BallotPower(v, o) ==
  (valsByAddr[v].BondedTokens *
     SumFunction([ad \in Delegated(delegsByAddr) |->
       IF ad[2].validator = v
       THEN ad[2].shares * Lookup(BallotOf(ad[1], v), o, 0)
       ELSE 0])) \div valsByAddr[v].DelegatorShares

\* A share is counted once, for the right vote: a direct vote overrides the
\* validator's, a validator votes with what is left to it and nothing else,
\* and a share whose validator isn't active or whose delegator and validator
\* did not vote counts for nothing.  The tolerance is two units for each power
\* added and one for each division of BallotPower.
EffectiveBallots ==
  pc \in {"printed", "panic"} =>
    \A o \in VoteOption :
      LET exact == SumFunction([v \in DOMAIN valsByAddr |-> BallotPower(v, o)])
          slack == 2 * counted + Cardinality(DOMAIN valsByAddr)
      IN  results[o] - exact \in -slack..slack

\* The order in which Go ranges over its maps does not show: the tally is the
\* one-step tally of TallySpec.
Answered ==
  IF pc \in {"printed", "panic"}
  THEN {[results |-> results, total |-> totalVotingPower]}
  ELSE {}
Abstract == INSTANCE TallySpec WITH answer <- Answered
OrderIndependent == Abstract!Spec
=============================================================================
