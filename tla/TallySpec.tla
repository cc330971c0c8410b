------------------------------ MODULE TallySpec -----------------------------
(***************************************************************************)
(* What a tally promises of a snapshot of the Cosmos Hub: one answer, a    *)
(* function of the votes, delegations and validators alone.  The powers    *)
(* are sums over sets, so no order in which they are added can show.       *)
(***************************************************************************)
EXTENDS Snapshot

VARIABLES
  votesByAddr, delegsByAddr, valsByAddr,  \* the inputs
  answer                                  \* {}, then {the tally}

\* The delegations of direct voters to active validators.
VotedDelegations ==
  {ad \in Delegated(delegsByAddr) :
      ad[1] \in DOMAIN votesByAddr /\ ad[2].validator \in DOMAIN valsByAddr}

\* The shares a validator votes with: those no direct voter disposed of.
OwnShares(v) ==
  valsByAddr[v].DelegatorShares
    - SumFunction([ad \in VotedDelegations |->
                     IF ad[2].validator = v THEN ad[2].shares ELSE 0])

VotingValidators == {v \in DOMAIN valsByAddr : valsByAddr[v].Vote # NoVote}

DelegationPower(ad) == VotingPower(ad[2].shares, valsByAddr[ad[2].validator])
ValidatorPower(v) == VotingPower(OwnShares(v), valsByAddr[v])

TallyResult ==
  [results |->
     [o \in VoteOption |->
        SumFunction([ad \in VotedDelegations |->
          Mul(DelegationPower(ad), Lookup(votesByAddr[ad[1]], o, 0))])
        + SumFunction([v \in VotingValidators |->
            Mul(ValidatorPower(v), Lookup(valsByAddr[v].Vote, o, 0))])],
   total |-> SumFunction([ad \in VotedDelegations |-> DelegationPower(ad)])
             + SumFunction([v \in VotingValidators |-> ValidatorPower(v)])]

Init == answer = {}

\* The operator addresses of the validators are those of the Cosmos Hub.
Accepted == \A v \in DOMAIN valsByAddr : PrefixOf[v] = "cosmos"

Answer ==
  /\ answer = {}
  /\ Accepted
  /\ answer' = {TallyResult}
  /\ UNCHANGED <<votesByAddr, delegsByAddr, valsByAddr>>

Spec == Init /\ [][Answer]_answer /\ WF_answer(Answer)
=============================================================================
