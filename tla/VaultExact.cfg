\* Amounts that divide evenly; two reward tokens, one paid per call, the
\* first of them rewarded twice; stakers keep calling unstake, and the clock
\* allows a return after a full unstake, with its own lock, reward and leave.
CONSTANTS
  Users = {u1, u2}
  TheVault = TheVault
  Funders = {f1}
  Holders <- MCHolders
  RewardTokens = {t1, t2}
  u2 = u2
  t2 = t2
  Unassociated = {}
  Scale = 2
  MaxRewardsPerTxn = 1
  LockingPeriod = 1
  StakingEach = 4
  RewardEach = 24
  InitialStaking <- MCUnevenStaking
  InitialReward <- MCReward
  StakeAmounts = {2}
  RewardAmounts = {12}
  MaxTime = 4
SPECIFICATION FairSpec
CHECK_DEADLOCK FALSE
INVARIANTS
  RewardsCovered
  StakesBacked
  ClaimedWithinIndex
PROPERTIES
  StakeChangesSettled
  UnstakeCompletes
