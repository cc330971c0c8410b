SPECIFICATION Spec
CONSTANTS
  BalanceLists <- MCBalanceLists
  Algorithms = {"basic"}
  ValidatorLen = 4
  MinTokens = 15
  PowerReduction = 4
  SmallStake = 12
  LargeStake = 20
  SmallParts = 2
  MediumParts = 3
  LargeParts = 4
  SplitCondition = 7
INVARIANTS
  BasicNoRepeat
