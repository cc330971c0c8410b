SPECIFICATION Spec
CONSTANTS
  One = 100
  a1 = a1
  a2 = a2
  a3 = a3
  v1 = v1
  v2 = v2
  other = other
  NoVoter = NoVoter
  Address <- MCAddress
  Operator <- MCOperator
  AccountOf <- MCAccountOf
  PrefixOf <- MCPrefixOf
  VotesFiles <- MCVotesFiles
  DelegationFiles <- MCDelegationFiles
  ValidatorFiles <- MCValidatorFiles
INVARIANTS
  TypeOK
  DeductionsWithinShares
  Conservation
  EffectiveBallots
PROPERTIES
  OrderIndependent
