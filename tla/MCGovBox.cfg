SPECIFICATION Spec
CONSTANTS
  One = 1000
  TargetNonVotersPerc = 330
  a1 = a1
  a2 = a2
  a3 = a3
  dist = dist
  ica = ica
  v1 = v1
  v2 = v2
  other = other
  reserved = reserved
  Address <- MCAddress
  AddressOrder <- MCAddressOrder
  Operator <- MCOperator
  AccountOf <- MCAccountOf
  PrefixOf <- MCPrefixOf
  VotesFiles <- MCVotesFiles
  DelegationFiles <- MCDelegationFiles
  ValidatorFiles <- MCValidatorFiles
  BalanceFiles <- MCBalanceFiles
  TypeFiles <- MCTypeFiles
  ParamSets <- MCParamSets
  IcfWallets = {}
  Convert <- MCConvert
  ReservedAddress <- MCReservedAddress
  DistrModule <- MCDistrModule
  Pages = {"constitution", "not found"}
  Original <- MCOriginal
INVARIANTS
  AccountsTypeOK
  AccountsComplete
  TallyAgrees
  GenesisStarts
  PoolBacked
  SupplyIsAirdrop
