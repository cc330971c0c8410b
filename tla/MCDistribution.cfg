SPECIFICATION Spec
CONSTANTS
  One = 1000
  TargetNonVotersPerc = 330
  a1 = a1
  a2 = a2
  alien = alien
  icf = icf
  AccountLists <- MCLists
  ParamSets <- MCParamSets
  IcfWallets <- MCIcfWallets
  Convert <- MCConvert
INVARIANTS
  TypeOK
  SupplyIsSum
  AtomAccounted
  NothingLost
  CreditedIsSupply
  NonVotersCap
