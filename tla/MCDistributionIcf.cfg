SPECIFICATION Spec
CONSTANTS
  One = 1000
  TargetNonVotersPerc = 330
  a1 = a1
  a2 = a2
  alien = alien
  icf = icf
  AccountLists <- MCVotingIcfLists
  ParamSets <- MCParamSets
  IcfWallets <- MCIcfWallets
  Convert <- MCConvert
INVARIANT NonVotersCap
