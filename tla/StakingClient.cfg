\* Two vaults, the script's staker and another; amounts at which the shares
\* and the dues round; one reward token paid per call.
CONSTANTS
  Users = {u1, u2}
  u2 = u2  t2 = t2
  VaultA = VaultA  VaultB = VaultB
  Funders = {treasury, f2}
  RewardTokens = {t1, t2}
  Unassociated <- MCUnassociated
  Scale = 10
  MaxRewardsPerTxn = 1
  LockingPeriod = 1
  StakingEach = 4
  RewardEach = 20
  InitialStaking <- MCStaking
  InitialReward <- MCReward
  StakeAmounts = {1, 2}
  RewardAmounts = {3}
  MaxTime = 3
  Staker = u1
  Treasury = treasury
  StakeQty = 1
  RewardQty = 5
  FirstReward = t1
  SecondReward = t2
  Multipliers <- MCMultipliers
  MaxRuns = 2
  MaxActs = 2
  Worlds <- MCWorlds
SPECIFICATION Spec
CHECK_DEADLOCK FALSE
INVARIANTS
  SplitIsCovered
  ScriptGetsItsStakeBack
PROPERTIES
  SplitNearAmount
