------------------------------ MODULE Splitter ------------------------------
(***************************************************************************)
(* contracts/incentives/Splitter.sol over two vaults: it splits a reward   *)
(* by the vaults' weights, their supply times a multiplier, and adds the   *)
(* shares in one transaction, which one failing share undoes.  The vaults  *)
(* share the tokens' ledgers and the clock, and nothing else.              *)
(***************************************************************************)
EXTENDS Sums, SequencesExt

CONSTANTS
  Users, VaultA, VaultB, Funders, RewardTokens, Unassociated,
  Scale, MaxRewardsPerTxn, LockingPeriod, InitialStaking, InitialReward,
  StakeAmounts, RewardAmounts, MaxTime    \* as in Vault

Vaults == {VaultA, VaultB}

Holders == Users \cup Funders \cup Vaults

VARIABLES
  now, stakingBalance, rewardBalance,     \* the clock and the ledgers
  supplyA, contributionA, claimedA, listA, indexA,    \* the vaults' own state
  supplyB, contributionB, claimedB, listB, indexB,
  vaults,                                 \* in the order they were added
  vaultMultipliers                        \* [v]: 0 for a vault that is not

sharedVars == <<now, stakingBalance, rewardBalance>>
ofA == <<supplyA, contributionA, claimedA, listA, indexA>>
ofB == <<supplyB, contributionB, claimedB, listB, indexB>>
splitterVars == <<vaults, vaultMultipliers>>

A == INSTANCE Vault WITH TheVault <- VaultA, stakingTokenTotalSupply <- supplyA,
       contribution <- contributionA, rewardClaimed <- claimedA,
       rewardTokens <- listA, perShareAmount <- indexA
B == INSTANCE Vault WITH TheVault <- VaultB, stakingTokenTotalSupply <- supplyB,
       contribution <- contributionB, rewardClaimed <- claimedB,
       rewardTokens <- listB, perShareAmount <- indexB

ASSUME SplitterAssumption ==
  VaultA # VaultB /\ A!VaultAssumption /\ B!VaultAssumption

(* An operation of one vault leaves the other and the splitter alone. *)
At(v, opOfA, opOfB) ==
  /\ \/ v = VaultA /\ opOfA /\ UNCHANGED ofB
     \/ v = VaultB /\ opOfB /\ UNCHANGED ofA
  /\ UNCHANGED splitterVars

StakeIn(v, u, n) ==
  At(v, A!FirstStake(u, n) \/ A!StakeMore(u, n) \/ A!StakeDeferred(u, n),
        B!FirstStake(u, n) \/ B!StakeMore(u, n) \/ B!StakeDeferred(u, n))
UnstakeFrom(v, u, n) ==
  At(v, A!Unstake(u, n) \/ A!UnstakeDeferred(u, n),
        B!Unstake(u, n) \/ B!UnstakeDeferred(u, n))
ClaimFrom(v, u) == At(v, A!ClaimRewards(u), B!ClaimRewards(u))
AddRewardTo(v, t, n, from) == At(v, A!AddReward(t, n, from), B!AddReward(t, n, from))

StakeOf(v, u) == IF v = VaultA THEN A!Stake(u) ELSE B!Stake(u)
LockedSince(v, u) ==
  IF v = VaultA THEN contributionA[u].lastLockedTime ELSE contributionB[u].lastLockedTime
CanUnstakeFrom(v, u, n) ==
  IF v = VaultA THEN A!CanUserUnStakeTokens(u, n) ELSE B!CanUserUnStakeTokens(u, n)
PaidBy(v, u) == IF v = VaultA THEN A!Paid(u) ELSE B!Paid(u)

-----------------------------------------------------------------------------
(* getStakingTokenTotalSupply of the vaults *)
Supplies == [v \in Vaults |-> IF v = VaultA THEN supplyA ELSE supplyB]

Registered == ToSet(vaults)

(* A slip to catch: the multiplier weighs a vault, but not the total. *)
TotalSupplies == Total(Registered, Supplies)

VaultWeights == [v \in Vaults |-> Supplies[v] * vaultMultipliers[v]]
TotalVaultWeight == Total(Registered, VaultWeights)

(* getAmountToTransfer; with no weight at all the division reverts. *)
AmountToTransfer(v, n) ==
  A!FixedMul(n, A!FixedDiv(VaultWeights[v], TotalVaultWeight))

SplittedAmountList(n) == [i \in DOMAIN vaults |-> AmountToTransfer(vaults[i], n)]

(* initialize, with _addVault for each vault; none may be added twice.    *)
Initialize(added, multipliers) ==
  /\ vaults = <<>> /\ added # <<>> /\ IsInjective(added)
  /\ DOMAIN added = DOMAIN multipliers
  /\ \A i \in DOMAIN multipliers : multipliers[i] > 0
  /\ vaults' = added
  /\ vaultMultipliers' =
       [v \in Vaults |->
          IF v \in ToSet(added)
          THEN multipliers[CHOOSE i \in DOMAIN added : added[i] = v] ELSE 0]

(* The shares the vaults are added, and when splitTokens adds them: from    *)
(* pays them all, and a share of nothing is no reward.                     *)
Shares(n) == [v \in Vaults |-> IF v \in Registered THEN AmountToTransfer(v, n) ELSE 0]

CanSplit(t, from, n) ==
  /\ TotalVaultWeight > 0
  /\ \A v \in Registered : Shares(n)[v] > 0
  /\ rewardBalance[from][t] >= Total(Vaults, Shares(n))

(* splitTokens: each vault's addReward in turn. *)
SplitTokens(t, from, n) ==
  LET share == Shares(n)
      all == Total(Vaults, share)
  IN  /\ CanSplit(t, from, n)
      /\ rewardBalance' =
           [x \in Holders |->
              [rewardBalance[x] EXCEPT
                 ![t] = CASE x = from   -> @ - all
                          [] x \in Vaults -> @ + share[x]
                          [] OTHER      -> @]]
      /\ IF VaultA \in Registered
         THEN listA' = A!ListedAfter(t) /\ indexA' = A!IndexAfter(t, share[VaultA])
         ELSE UNCHANGED <<listA, indexA>>
      /\ IF VaultB \in Registered
         THEN listB' = B!ListedAfter(t) /\ indexB' = B!IndexAfter(t, share[VaultB])
         ELSE UNCHANGED <<listB, indexB>>
      /\ UNCHANGED <<now, stakingBalance, supplyA, contributionA, claimedA,
                     supplyB, contributionB, claimedB, splitterVars>>

TickAll == A!Tick /\ UNCHANGED <<ofB, splitterVars>>

SplitterInit ==
  /\ now = 0
  /\ stakingBalance =
       [x \in Holders |-> IF x \in Users THEN InitialStaking[x] ELSE 0]
  /\ rewardBalance =
       [x \in Holders |->
          [t \in RewardTokens |-> IF x \in Funders THEN InitialReward[x][t] ELSE 0]]
  /\ supplyA = 0 /\ supplyB = 0
  /\ contributionA = [u \in Users |-> A!NoContribution]
  /\ contributionB = [u \in Users |-> B!NoContribution]
  /\ claimedA = [u \in Users |-> [t \in RewardTokens |-> 0]]
  /\ claimedB = [u \in Users |-> [t \in RewardTokens |-> 0]]
  /\ listA = <<>> /\ listB = <<>>
  /\ indexA = [t \in RewardTokens |-> 0]
  /\ indexB = [t \in RewardTokens |-> 0]
  /\ vaults = <<>>
  /\ vaultMultipliers = [v \in Vaults |-> 0]
=============================================================================
