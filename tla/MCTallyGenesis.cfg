SPECIFICATION Spec
CONSTANTS
  FlagSets <- MCFlagSets
  AddrAmt = 1000000
  SelfDelegation = 1
  DelegatedAmt = 900000
  NumDelegsPerDelegator = 5
  MinDeposit = 512
  MaxValidators = 2
  Highs <- MCHighs
INVARIANTS
  TypeOK
  PanicsOnFlags
  Ledger
  NodeRunsAlone
  RoundRobin
  VotesCount
