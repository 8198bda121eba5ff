\* Amounts that leave remainders; stakers keep calling unstake.
CONSTANTS
  Users = {u1, u2}
  TheVault = TheVault
  Funders = {f1}
  Holders <- MCHolders
  RewardTokens = {t1}
  u2 = u2
  t2 = t2
  Unassociated = {}
  Scale = 2
  MaxRewardsPerTxn = 1
  LockingPeriod = 1
  StakingEach = 1
  RewardEach = 1
  InitialStaking <- MCStaking
  InitialReward <- MCReward
  StakeAmounts = {1}
  RewardAmounts = {1}
  MaxTime = 3
SPECIFICATION FairSpec
CHECK_DEADLOCK FALSE
PROPERTIES
  UnstakeCompletes
