SPECIFICATION ReadersSpec
CONSTANTS
  One = 1000
  ExpSupply = 700
  Malformed = Malformed
  TypeA = TypeA
  TypeB = TypeB
  Send = Send
  Untyped = Untyped
  NotAString = NotAString
  Registered = {Send}
  Responses <- MCResponses
  Transactions <- MCTransactions
  Releases <- MCReleases
  Upgrades <- MCUpgrades
  GnoFiles <- MCGnoFiles
  a1 = a1
  a2 = a2
  a3 = a3
  module = module
  ica = ica
  v1 = v1
  v2 = v2
  other = other
  Address <- MCAddress
  AddressOrder <- MCAddressOrder
  Operator <- MCOperator
  AccountOf <- MCAccountOf
  PrefixOf <- MCPrefixOf
  VotesFiles = {}
  DelegationFiles <- MCDelegationFiles
  ValidatorFiles <- MCValidatorFiles
  BalanceFiles <- MCBalanceFiles
  TypeFiles <- MCTypeFiles
INVARIANTS
  PriceOrError
  TypesFound
  BinariesVerified
  GnoConserves
  GnoSupply
