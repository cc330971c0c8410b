SPECIFICATION Spec
CONSTANTS
  Runs = {r1, r2}
  Flags <- MCFlags
  DefaultParams = 9
  Absent = Absent
  Torn = Torn
  ChainOf <- MCChainOf
  MaxSnapshots = 3
  MaxStarts = 4
INVARIANTS
  UpdatedMeansWritten
