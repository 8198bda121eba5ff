---------------------------- MODULE StakingProofs ----------------------------
(***************************************************************************)
(* Safety of the splitter's two vaults and of the scripts that use them,   *)
(* from what VaultProofs shows of one vault: VA and VB are its lemmas for  *)
(* the vaults A and B of Splitter.                                         *)
(***************************************************************************)
EXTENDS StakingClient, SumsProofs, SequenceTheorems

VA == INSTANCE VaultProofs WITH TheVault <- VaultA, stakingTokenTotalSupply <- supplyA,
        contribution <- contributionA, rewardClaimed <- claimedA,
        rewardTokens <- listA, perShareAmount <- indexA
VB == INSTANCE VaultProofs WITH TheVault <- VaultB, stakingTokenTotalSupply <- supplyB,
        contribution <- contributionB, rewardClaimed <- claimedB,
        rewardTokens <- listB, perShareAmount <- indexB

VaultsGood == VA!VaultInv /\ VB!VaultInv

(* The splitter has no vaults, or the two that splitter.ts gives it.       *)
SplitterGood ==
  /\ vaults \in {<<>>, <<VaultA, VaultB>>}
  /\ vaultMultipliers \in [Vaults -> Nat]

Good ==
  /\ VaultsGood /\ SplitterGood /\ VA!ListedOnce
  /\ amount \in Nat

-----------------------------------------------------------------------------
(* The same definitions by two names *)

LEMMA SameCardinality ==
  \A S : /\ A!Cardinality(S) = Cardinality(S) /\ VA!Cardinality(S) = Cardinality(S)
         /\ B!Cardinality(S) = Cardinality(S) /\ VB!Cardinality(S) = Cardinality(S)
BY DEF A!Cardinality, VA!Cardinality, B!Cardinality, VB!Cardinality, Cardinality

(* What VaultProofs assumes of the constants, for both vaults.              *)
LEMMA VaultsAssumed ==
  /\ VA!IsFiniteSet(Users) /\ VA!IsFiniteSet(RewardTokens)
  /\ VB!IsFiniteSet(Users) /\ VB!IsFiniteSet(RewardTokens)
  /\ VaultA \notin Users \cup Funders /\ VaultB \notin Users \cup Funders
  /\ Users \cup Funders \cup {VaultA} \subseteq Holders
  /\ Users \cup Funders \cup {VaultB} \subseteq Holders
  /\ Unassociated \subseteq Users \X RewardTokens
  /\ Scale \in Nat \ {0} /\ MaxRewardsPerTxn \in Nat \ {0}
  /\ LockingPeriod \in Nat \ {0}
  /\ InitialStaking \in [Users -> Nat]
  /\ InitialReward \in [Funders -> [RewardTokens -> Nat]]
  /\ StakeAmounts \subseteq Nat /\ RewardAmounts \subseteq Nat
  /\ MaxTime \in Nat
BY SplitterAssumption DEF A!VaultAssumption, B!VaultAssumption, A!IsFiniteSet,
     B!IsFiniteSet, VA!IsFiniteSet, VB!IsFiniteSet, IsFiniteSet

LEMMA SameOfA ==
  /\ \A u, n : A!FirstStake(u, n) <=> VA!FirstStake(u, n)
  /\ \A u, n : A!StakeMore(u, n) <=> VA!StakeMore(u, n)
  /\ \A u, n : A!StakeDeferred(u, n) <=> VA!StakeDeferred(u, n)
  /\ \A u, n : A!Unstake(u, n) <=> VA!Unstake(u, n)
  /\ \A u, n : A!UnstakeDeferred(u, n) <=> VA!UnstakeDeferred(u, n)
  /\ \A u : A!ClaimRewards(u) <=> VA!ClaimRewards(u)
  /\ \A t, n, x : A!AddReward(t, n, x) <=> VA!AddReward(t, n, x)
  /\ A!Tick <=> VA!Tick
<1> USE DEF A!Stake, VA!Stake, A!Listed, VA!Listed, A!FixedDiv, VA!FixedDiv, A!FixedMul,
        VA!FixedMul, A!PerShareUnclaimed, VA!PerShareUnclaimed, A!UnclaimedAmount,
        VA!UnclaimedAmount, A!DueAt, VA!DueAt, A!PaidAt, VA!PaidAt, A!Paid, VA!Paid,
        A!NothingLeftUnclaimed, VA!NothingLeftUnclaimed, A!ClaimedAfter, VA!ClaimedAfter,
        A!PayRewards, VA!PayRewards, A!CanUserUnStakeTokens, VA!CanUserUnStakeTokens,
        A!Contributed, VA!Contributed, A!TakeStake, VA!TakeStake, A!ListedAfter,
        VA!ListedAfter, A!IndexAfter, VA!IndexAfter, A!NoContribution, VA!NoContribution,
        A!ClaimRewards, VA!ClaimRewards,
        A!Cardinality, VA!Cardinality
<1>1. \A u, n : A!FirstStake(u, n) <=> VA!FirstStake(u, n)
  BY DEF A!FirstStake, VA!FirstStake
<1>2. \A u, n : A!StakeMore(u, n) <=> VA!StakeMore(u, n)
  BY DEF A!StakeMore, VA!StakeMore
<1>3. \A u, n : A!StakeDeferred(u, n) <=> VA!StakeDeferred(u, n)
  BY DEF A!StakeDeferred, VA!StakeDeferred
<1>4. \A u, n : A!Unstake(u, n) <=> VA!Unstake(u, n)
  BY DEF A!Unstake, VA!Unstake
<1>5. \A u, n : A!UnstakeDeferred(u, n) <=> VA!UnstakeDeferred(u, n)
  BY DEF A!UnstakeDeferred, VA!UnstakeDeferred
<1>6. \A u : A!ClaimRewards(u) <=> VA!ClaimRewards(u)
  OBVIOUS
<1>7. \A t, n, x : A!AddReward(t, n, x) <=> VA!AddReward(t, n, x)
  BY DEF A!AddReward, VA!AddReward
<1>8. A!Tick <=> VA!Tick
  BY DEF A!Tick, VA!Tick
<1> QED BY <1>1, <1>2, <1>3, <1>4, <1>5, <1>6, <1>7, <1>8

LEMMA SameOfB ==
  /\ \A u, n : B!FirstStake(u, n) <=> VB!FirstStake(u, n)
  /\ \A u, n : B!StakeMore(u, n) <=> VB!StakeMore(u, n)
  /\ \A u, n : B!StakeDeferred(u, n) <=> VB!StakeDeferred(u, n)
  /\ \A u, n : B!Unstake(u, n) <=> VB!Unstake(u, n)
  /\ \A u, n : B!UnstakeDeferred(u, n) <=> VB!UnstakeDeferred(u, n)
  /\ \A u : B!ClaimRewards(u) <=> VB!ClaimRewards(u)
  /\ \A t, n, x : B!AddReward(t, n, x) <=> VB!AddReward(t, n, x)
  /\ B!Tick <=> VB!Tick
<1> USE DEF B!Stake, VB!Stake, B!Listed, VB!Listed, B!FixedDiv, VB!FixedDiv, B!FixedMul,
        VB!FixedMul, B!PerShareUnclaimed, VB!PerShareUnclaimed, B!UnclaimedAmount,
        VB!UnclaimedAmount, B!DueAt, VB!DueAt, B!PaidAt, VB!PaidAt, B!Paid, VB!Paid,
        B!NothingLeftUnclaimed, VB!NothingLeftUnclaimed, B!ClaimedAfter, VB!ClaimedAfter,
        B!PayRewards, VB!PayRewards, B!CanUserUnStakeTokens, VB!CanUserUnStakeTokens,
        B!Contributed, VB!Contributed, B!TakeStake, VB!TakeStake, B!ListedAfter,
        VB!ListedAfter, B!IndexAfter, VB!IndexAfter, B!NoContribution, VB!NoContribution,
        B!ClaimRewards, VB!ClaimRewards,
        B!Cardinality, VB!Cardinality
<1>1. \A u, n : B!FirstStake(u, n) <=> VB!FirstStake(u, n)
  BY DEF B!FirstStake, VB!FirstStake
<1>2. \A u, n : B!StakeMore(u, n) <=> VB!StakeMore(u, n)
  BY DEF B!StakeMore, VB!StakeMore
<1>3. \A u, n : B!StakeDeferred(u, n) <=> VB!StakeDeferred(u, n)
  BY DEF B!StakeDeferred, VB!StakeDeferred
<1>4. \A u, n : B!Unstake(u, n) <=> VB!Unstake(u, n)
  BY DEF B!Unstake, VB!Unstake
<1>5. \A u, n : B!UnstakeDeferred(u, n) <=> VB!UnstakeDeferred(u, n)
  BY DEF B!UnstakeDeferred, VB!UnstakeDeferred
<1>6. \A u : B!ClaimRewards(u) <=> VB!ClaimRewards(u)
  OBVIOUS
<1>7. \A t, n, x : B!AddReward(t, n, x) <=> VB!AddReward(t, n, x)
  BY DEF B!AddReward, VB!AddReward
<1>8. B!Tick <=> VB!Tick
  BY DEF B!Tick, VB!Tick
<1> QED BY <1>1, <1>2, <1>3, <1>4, <1>5, <1>6, <1>7, <1>8

-----------------------------------------------------------------------------
(* What each transaction does to the vaults *)

(* The other vault, of which nothing moves.                                *)
LEMMA OtherVault ==
  ASSUME VaultsGood
  PROVE  /\ VA!VaultInv' /\ (UNCHANGED ofB)
            /\ stakingBalance'[VaultB] = stakingBalance[VaultB] => VB!VaultInv'
         /\ VB!VaultInv' /\ (UNCHANGED ofA)
            /\ stakingBalance'[VaultA] = stakingBalance[VaultA] => VA!VaultInv'
<1>1. ASSUME VA!VaultInv', UNCHANGED ofB, stakingBalance'[VaultB] = stakingBalance[VaultB]
      PROVE  VB!VaultInv'
  BY <1>1, VB!AsideKeeps, VaultsAssumed
     DEF VaultsGood, VA!VaultInv, VA!TypeOK, ofB
<1>2. ASSUME VB!VaultInv', UNCHANGED ofA, stakingBalance'[VaultA] = stakingBalance[VaultA]
      PROVE  VA!VaultInv'
  BY <1>2, VA!AsideKeeps, VaultsAssumed
     DEF VaultsGood, VB!VaultInv, VB!TypeOK, ofA
<1> QED BY <1>1, <1>2

LEMMA VaultsKept ==
  ASSUME VaultsGood, UNCHANGED <<sharedVars, ofA, ofB>>
  PROVE  VaultsGood'
<1>1. VA!VaultInv'
  BY VA!AsideKeeps, VaultsAssumed
     DEF VaultsGood, VA!VaultInv, VA!TypeOK, ofA, sharedVars
<1> QED BY <1>1, OtherVault DEF sharedVars, VaultsGood

(* The addresses of the vaults and of everyone else differ.                *)
LEMMA Apart ==
  /\ VaultA # VaultB /\ VaultA \in Holders /\ VaultB \in Holders
  /\ \A u \in Users : u \in Holders /\ u # VaultA /\ u # VaultB
  /\ \A f \in Funders : f \in Holders /\ f # VaultA /\ f # VaultB
BY SplitterAssumption DEF A!VaultAssumption, B!VaultAssumption, Holders, Vaults

LEMMA UserKeepsVaults ==
  ASSUME VaultsGood, NEW v, NEW u \in Users, NEW n \in Nat,
         StakeIn(v, u, n) \/ UnstakeFrom(v, u, n) \/ ClaimFrom(v, u)
  PROVE  VaultsGood'
<1>1. CASE VA!Operation(u, n) /\ UNCHANGED ofB
  <2>1. /\ VA!VaultInv'
        /\ \A x \in Holders \ {u, VaultA} : stakingBalance'[x] = stakingBalance[x]
    BY <1>1, VA!OperationKeeps, VaultsAssumed DEF VaultsGood
  <2> QED BY <1>1, <2>1, Apart, OtherVault DEF VaultsGood
<1>2. CASE VB!Operation(u, n) /\ UNCHANGED ofA
  <2>1. /\ VB!VaultInv'
        /\ \A x \in Holders \ {u, VaultB} : stakingBalance'[x] = stakingBalance[x]
    BY <1>2, VB!OperationKeeps, VaultsAssumed DEF VaultsGood
  <2> QED BY <1>2, <2>1, Apart, OtherVault DEF VaultsGood
<1>3. CASE StakeIn(v, u, n)
  BY <1>1, <1>2, <1>3, SameOfA, SameOfB DEF StakeIn, At, VA!Operation, VB!Operation
<1>4. CASE UnstakeFrom(v, u, n)
  BY <1>1, <1>2, <1>4, SameOfA, SameOfB DEF UnstakeFrom, At, VA!Operation, VB!Operation
<1>5. CASE ClaimFrom(v, u)
  BY <1>1, <1>2, <1>5, SameOfA, SameOfB DEF ClaimFrom, At, VA!Operation, VB!Operation
<1> QED BY <1>3, <1>4, <1>5

LEMMA RewardKeepsVaults ==
  ASSUME VaultsGood, NEW v, NEW t \in RewardTokens, NEW n \in Nat, NEW from \in Funders,
         AddRewardTo(v, t, n, from)
  PROVE  VaultsGood'
<1>1. CASE A!AddReward(t, n, from) /\ UNCHANGED ofB
  <2>1. VA!AddReward(t, n, from) /\ UNCHANGED stakingBalance
    BY <1>1, SameOfA DEF VA!AddReward
  <2>2. VA!VaultInv'
    BY <2>1, VA!AddRewardInv, VaultsAssumed DEF VaultsGood
  <2> QED BY <1>1, <2>1, <2>2, OtherVault DEF VaultsGood
<1>2. CASE B!AddReward(t, n, from) /\ UNCHANGED ofA
  <2>1. VB!AddReward(t, n, from) /\ UNCHANGED stakingBalance
    BY <1>2, SameOfB DEF VB!AddReward
  <2>2. VB!VaultInv'
    BY <2>1, VB!AddRewardInv, VaultsAssumed DEF VaultsGood
  <2> QED BY <1>2, <2>1, <2>2, OtherVault DEF VaultsGood
<1> QED BY <1>1, <1>2 DEF AddRewardTo, At

LEMMA TickKeepsVaults ==
  ASSUME VaultsGood, TickAll
  PROVE  VaultsGood'
<1>1. VA!Tick /\ UNCHANGED ofB /\ UNCHANGED stakingBalance
  BY SameOfA DEF TickAll, VA!Tick
<1>2. VA!VaultInv'
  BY <1>1, VA!TickInv, VaultsAssumed DEF VaultsGood
<1> QED BY <1>1, <1>2, OtherVault DEF VaultsGood

-----------------------------------------------------------------------------
(* The weights of the vaults, and the shares of a split *)

Scales == Scale \in Nat /\ Scale > 0 /\ Scale \div 2 \in Nat

LEMMA ScaleFacts == Scales
<1>1. Scale \in Nat /\ Scale > 0
  BY VaultsAssumed
<1> QED BY <1>1 DEF Scales

LEMMA WeightsType ==
  ASSUME VaultsGood, SplitterGood
  PROVE  /\ Registered \in {{}, Vaults}
         /\ VaultWeights[VaultA] \in Nat /\ VaultWeights[VaultB] \in Nat
         /\ TotalVaultWeight \in Nat
         /\ TotalVaultWeight > 0 =>
              /\ vaults = <<VaultA, VaultB>> /\ Registered = Vaults
              /\ TotalVaultWeight = VaultWeights[VaultA] + VaultWeights[VaultB]
         /\ \A v \in Vaults : VaultWeights[v] > 0 => Supplies[v] > 0
<1>1. supplyA \in Nat /\ supplyB \in Nat
  BY DEF VaultsGood, VA!VaultInv, VB!VaultInv, VA!TypeOK, VB!TypeOK
<1>2. Supplies[VaultA] = supplyA /\ Supplies[VaultB] = supplyB
  BY Apart DEF Supplies, Vaults
<1>3. \A v \in Vaults : Supplies[v] \in Nat /\ vaultMultipliers[v] \in Nat
  BY <1>1, <1>2 DEF SplitterGood, Vaults
<1>4. \A v \in Vaults : VaultWeights[v] = Supplies[v] * vaultMultipliers[v]
  BY DEF VaultWeights
<1>5. \A v \in Vaults : VaultWeights[v] \in Nat /\ (VaultWeights[v] > 0 => Supplies[v] > 0)
  <2> SUFFICES ASSUME NEW v \in Vaults
               PROVE  VaultWeights[v] \in Nat /\ (VaultWeights[v] > 0 => Supplies[v] > 0)
    OBVIOUS
  <2>1. VaultWeights[v] \in Nat
    BY <1>3, <1>4, TimesIsNat
  <2>2. ASSUME Supplies[v] = 0 PROVE VaultWeights[v] = 0
    BY <1>3, <1>4, <2>2
  <2> QED BY <1>3, <2>1, <2>2
<1>6. CASE vaults = <<>>
  <2>1. Registered = {}
    BY <1>6 DEF Registered, ToSet
  <2>2. TotalVaultWeight = 0
    BY <2>1, TotalZero DEF TotalVaultWeight
  <2> QED BY <1>5, <2>1, <2>2 DEF Vaults
<1>7. CASE vaults = <<VaultA, VaultB>>
  <2>1. Registered = Vaults
    BY <1>7 DEF Registered, ToSet, Vaults
  <2>2. TotalVaultWeight = VaultWeights[VaultA] + VaultWeights[VaultB]
    BY <1>5, <2>1, Apart, TotalPair DEF TotalVaultWeight, Vaults
  <2> QED BY <1>5, <1>7, <2>1, <2>2 DEF Vaults
<1> QED BY <1>6, <1>7 DEF SplitterGood

LEMMA SharesType ==
  ASSUME VaultsGood, SplitterGood, TotalVaultWeight > 0, NEW v \in Vaults, NEW n \in Nat
  PROVE  /\ AmountToTransfer(v, n) \in Nat
         /\ AmountToTransfer(v, n) > 0 => Supplies[v] > 0
<1> DEFINE p == A!FixedDiv(VaultWeights[v], TotalVaultWeight)
<1>1. VaultWeights[v] \in Nat /\ TotalVaultWeight \in Nat
  BY WeightsType DEF Vaults
<1>2. p \in Nat
  BY <1>1, VA!FixedDivType, VaultsAssumed DEF A!FixedDiv, VA!FixedDiv
<1>3. A!FixedMul(n, p) \in Nat
  <2> HIDE DEF p
  <2> QED BY <1>2, VA!FixedMulType, VaultsAssumed DEF A!FixedMul, VA!FixedMul
<1>4. ASSUME VaultWeights[v] = 0 PROVE A!FixedMul(n, p) = 0
  <2>1. p = 0
    BY <1>1, <1>4, ScaleFacts DEF A!FixedDiv, Scales
  <2>2. n * p + Scale \div 2 = Scale \div 2
    BY <2>1, ScaleFacts DEF Scales
  <2>3. (Scale \div 2) \div Scale = 0
    BY ScaleFacts DEF Scales
  <2> HIDE DEF p
  <2> QED BY <2>2, <2>3 DEF A!FixedMul
<1> QED BY <1>1, <1>3, <1>4, WeightsType DEF AmountToTransfer

(* The rewards of x after a split. *)
AfterSplit(x, t, from, all, share) ==
  [rewardBalance[x] EXCEPT
     ![t] = CASE x = from   -> @ - all
              [] x \in Vaults -> @ + share[x]
              [] OTHER      -> @]

(* What one payer loses of a token, and the vaults get: natural amounts. *)
LEMMA SplitLedger ==
  ASSUME rewardBalance \in [Holders -> [RewardTokens -> Nat]], NEW t \in RewardTokens,
         NEW from \in Funders, NEW all \in Nat, NEW share \in [Vaults -> Nat],
         rewardBalance[from][t] >= all,
         rewardBalance' = [x \in Holders |-> AfterSplit(x, t, from, all, share)]
  PROVE  /\ rewardBalance' \in [Holders -> [RewardTokens -> Nat]]
         /\ rewardBalance'[from][t] = rewardBalance[from][t] - all
<1>1. ASSUME NEW x \in Holders
      PROVE  /\ rewardBalance'[x] \in [RewardTokens -> Nat]
             /\ x = from => rewardBalance'[x][t] = rewardBalance[x][t] - all
  <2> DEFINE b == CASE x = from   -> rewardBalance[x][t] - all
                    [] x \in Vaults -> rewardBalance[x][t] + share[x]
                    [] OTHER      -> rewardBalance[x][t]
  <2>1. rewardBalance[x] \in [RewardTokens -> Nat] /\ rewardBalance[x][t] \in Nat
    OBVIOUS
  <2>2. b \in Nat /\ (x = from => b = rewardBalance[x][t] - all)
    <3>1. CASE x = from
      BY <2>1, <3>1, Apart DEF Vaults
    <3>2. CASE x # from /\ x \in Vaults
      <4>1. share[x] \in Nat
        BY <3>2
      <4> QED BY <2>1, <3>2, <4>1
    <3>3. CASE x # from /\ x \notin Vaults
      BY <2>1, <3>3
    <3> QED BY <3>1, <3>2, <3>3
  <2>3. rewardBalance'[x] = [rewardBalance[x] EXCEPT ![t] = b]
    BY <2>1 DEF AfterSplit
  <2> HIDE DEF b
  <2> QED BY <2>1, <2>2, <2>3
<1>2. rewardBalance' \in [Holders -> [RewardTokens -> Nat]]
  BY <1>1
<1> QED BY <1>1, <1>2, Apart

LEMMA SplitKeepsVaults ==
  ASSUME VaultsGood, SplitterGood, NEW t \in RewardTokens, NEW from \in Funders,
         NEW n \in Nat, SplitTokens(t, from, n)
  PROVE  /\ VaultsGood'
         /\ rewardBalance'[from][t] =
              rewardBalance[from][t] - (AmountToTransfer(VaultA, n) + AmountToTransfer(VaultB, n))
<1> DEFINE share == Shares(n)
           all == Total(Vaults, share)
<1>1. TotalVaultWeight > 0 /\ Registered = Vaults
  BY WeightsType DEF SplitTokens, CanSplit
<1>2. \A v \in Vaults : share[v] = AmountToTransfer(v, n) /\ share[v] \in Nat
  BY <1>1, SharesType DEF Shares
<1>3. share[VaultA] > 0 /\ share[VaultB] > 0
  BY <1>1 DEF SplitTokens, CanSplit, Vaults
<1>4. supplyA > 0 /\ supplyB > 0
  <2>1. Supplies[VaultA] > 0 /\ Supplies[VaultB] > 0
    BY <1>1, <1>2, <1>3, SharesType DEF Vaults
  <2> QED BY <2>1, Apart DEF Supplies, Vaults
<1>5. share \in [Vaults -> Nat] /\ all \in Nat /\ all = share[VaultA] + share[VaultB]
  <2>1. share[VaultA] \in Nat /\ share[VaultB] \in Nat
    BY <1>2 DEF Vaults
  <2>2. share \in [Vaults -> Nat]
    BY <1>2 DEF Shares
  <2> HIDE DEF share
  <2>3. all = share[VaultA] + share[VaultB]
    BY <2>1, Apart, TotalPair DEF Vaults
  <2> QED BY <2>1, <2>2, <2>3
<1>6. /\ rewardBalance[from][t] >= all
      /\ rewardBalance' = [x \in Holders |-> AfterSplit(x, t, from, all, share)]
      /\ listA' = A!ListedAfter(t) /\ indexA' = A!IndexAfter(t, share[VaultA])
      /\ listB' = B!ListedAfter(t) /\ indexB' = B!IndexAfter(t, share[VaultB])
      /\ UNCHANGED <<now, stakingBalance, supplyA, contributionA, claimedA,
                     supplyB, contributionB, claimedB, splitterVars>>
  BY <1>1 DEF SplitTokens, CanSplit, AfterSplit, Vaults
<1>7. rewardBalance \in [Holders -> [RewardTokens -> Nat]]
  BY DEF VaultsGood, VA!VaultInv, VA!TypeOK
<1>8. share[VaultA] \in Nat /\ share[VaultB] \in Nat
  BY <1>2 DEF Vaults
<1>9. share[VaultA] = AmountToTransfer(VaultA, n) /\ share[VaultB] = AmountToTransfer(VaultB, n)
  BY <1>2 DEF Vaults
<1> HIDE DEF share, all
<1>10. /\ rewardBalance' \in [Holders -> [RewardTokens -> Nat]]
       /\ rewardBalance'[from][t] = rewardBalance[from][t] - all
  BY <1>5, <1>6, <1>7, SplitLedger
<1>11. /\ listA' = VA!ListedAfter(t) /\ indexA' = VA!IndexAfter(t, share[VaultA])
       /\ listB' = VB!ListedAfter(t) /\ indexB' = VB!IndexAfter(t, share[VaultB])
  BY <1>6 DEF A!ListedAfter, VA!ListedAfter, A!IndexAfter, VA!IndexAfter, A!FixedDiv,
              VA!FixedDiv, A!Listed, VA!Listed, B!ListedAfter, VB!ListedAfter,
              B!IndexAfter, VB!IndexAfter, B!FixedDiv, VB!FixedDiv, B!Listed, VB!Listed
<1>12. VA!VaultInv'
  BY <1>4, <1>6, <1>8, <1>10, <1>11, VA!RecordedReward, VaultsAssumed DEF VaultsGood
<1>13. VB!VaultInv'
  BY <1>4, <1>6, <1>8, <1>10, <1>11, VB!RecordedReward, VaultsAssumed DEF VaultsGood
<1> QED BY <1>5, <1>9, <1>10, <1>12, <1>13 DEF VaultsGood

-----------------------------------------------------------------------------
(* How near the shares come to the amount that is split *)

(* What the percentages of two vaults lose is less than two. *)
LEMMA PercentagesNearScale ==
  ASSUME NEW a \in Nat, NEW b \in Nat, NEW S \in Nat, S > 0, NEW W \in Nat,
         W > 0, W = a + b
  PROVE  /\ (a * S) \div W \in Nat /\ (b * S) \div W \in Nat
         /\ (a * S) \div W + (b * S) \div W <= S
         /\ S <= (a * S) \div W + (b * S) \div W + 1
<1>1. a * S \in Nat /\ b * S \in Nat /\ W * S \in Nat /\ a * S + b * S = W * S
  BY TimesIsNat
<1> DEFINE p == (a * S) \div W
           q == (b * S) \div W
<1>2. /\ p \in Nat /\ W * p <= a * S /\ a * S < W * (p + 1)
      /\ q \in Nat /\ W * q <= b * S /\ b * S < W * (q + 1)
  BY <1>1, QuotientFacts
<1> HIDE DEF p, q
<1>3. /\ W * (p + 1) = W * p + W /\ W * (q + 1) = W * q + W
      /\ W * (p + q) = W * p + W * q
      /\ W * p \in Nat /\ W * q \in Nat /\ W * (p + q) \in Nat
  BY <1>2
<1>4. W * (p + q) <= W * S /\ W * S < W * (p + q) + 2 * W
  BY <1>1, <1>2, <1>3
<1>5. p + q <= S
  <2> SUFFICES ASSUME S + 1 <= p + q PROVE FALSE
    BY <1>2
  <2>1. W * (S + 1) <= W * (p + q)
    BY <1>2, TimesOrder
  <2>2. W * (S + 1) = W * S + W
    OBVIOUS
  <2> QED BY <1>1, <1>3, <1>4, <2>1, <2>2
<1>6. S <= p + q + 1
  <2> SUFFICES ASSUME p + q + 2 <= S PROVE FALSE
    BY <1>2
  <2>1. W * (p + q + 2) <= W * S
    BY <1>2, TimesOrder
  <2>2. W * (p + q + 2) = W * (p + q) + 2 * W
    BY <1>2
  <2> QED BY <1>1, <1>3, <1>4, <2>1, <2>2
<1> QED BY <1>2, <1>5, <1>6 DEF p, q

(* A share is within one half of the percentage of the amount. *)
LEMMA ShareNearPercentage ==
  ASSUME NEW n \in Nat, NEW p \in Nat
  PROVE  /\ n * p \in Nat /\ A!FixedMul(n, p) \in Nat
         /\ 2 * (A!FixedMul(n, p) * Scale) <= 2 * (n * p) + Scale
         /\ 2 * (n * p) < 2 * (A!FixedMul(n, p) * Scale) + Scale
<1>1. n * p \in Nat /\ Scale \in Nat \ {0} /\ Scale \div 2 \in Nat
  BY TimesIsNat, ScaleFacts DEF Scales
<1> DEFINE x == n * p + Scale \div 2
           s == x \div Scale
<1>2. x \in Nat /\ 2 * x <= 2 * (n * p) + Scale /\ 2 * (n * p) + Scale <= 2 * x + 1
  BY <1>1
<1>3. s \in Nat /\ Scale * s <= x /\ x < Scale * (s + 1)
  <2> HIDE DEF x
  <2> QED BY <1>1, <1>2, QuotientFacts
<1>4. A!FixedMul(n, p) = s
  BY DEF A!FixedMul
<1> HIDE DEF x, s
<1>5. Scale * (s + 1) = s * Scale + Scale /\ Scale * s = s * Scale /\ s * Scale \in Nat
  BY <1>1, <1>3
<1> QED BY <1>1, <1>2, <1>3, <1>4, <1>5

LEMMA SharesNearAmount ==
  ASSUME VaultsGood, SplitterGood, TotalVaultWeight > 0, NEW n \in Nat,
         NEW taken, taken = AmountToTransfer(VaultA, n) + AmountToTransfer(VaultB, n)
  PROVE  /\ Len(vaults) = 2
         /\ 2 * taken <= 2 * n + 2
         /\ 2 * taken * Scale + 2 * Scale + 4 * n >= 2 * n * Scale
<1> DEFINE a == VaultWeights[VaultA]
           b == VaultWeights[VaultB]
           p == A!FixedDiv(a, TotalVaultWeight)
           q == A!FixedDiv(b, TotalVaultWeight)
           s == A!FixedMul(n, p)
           r == A!FixedMul(n, q)
<1>1. /\ a \in Nat /\ b \in Nat /\ TotalVaultWeight = a + b
      /\ TotalVaultWeight \in Nat /\ TotalVaultWeight > 0
      /\ vaults = <<VaultA, VaultB>>
  BY WeightsType
<1>2. Scale \in Nat /\ Scale > 0
  BY ScaleFacts DEF Scales
<1> HIDE DEF a, b
<1>3. p \in Nat /\ q \in Nat /\ p + q <= Scale /\ Scale <= p + q + 1
  BY <1>1, <1>2, PercentagesNearScale DEF A!FixedDiv
<1>4. taken = s + r
  BY DEF AmountToTransfer, a, b
<1> HIDE DEF p, q
<1>5. /\ n * p \in Nat /\ s \in Nat
      /\ 2 * (s * Scale) <= 2 * (n * p) + Scale
      /\ 2 * (n * p) < 2 * (s * Scale) + Scale
      /\ n * q \in Nat /\ r \in Nat
      /\ 2 * (r * Scale) <= 2 * (n * q) + Scale
      /\ 2 * (n * q) < 2 * (r * Scale) + Scale
  BY <1>3, ShareNearPercentage
<1> HIDE DEF s, r
<1>6. /\ s * Scale \in Nat /\ r * Scale \in Nat /\ n * Scale \in Nat
      /\ taken * Scale = s * Scale + r * Scale
      /\ n * (p + q) = n * p + n * q
  BY <1>2, <1>3, <1>4, <1>5
<1>7. n * (p + q) <= n * Scale /\ n * Scale <= n * (p + q) + n
  <2>1. n * Scale <= n * (p + q + 1)
    BY <1>2, <1>3, TimesOrder
  <2>2. n * (p + q + 1) = n * (p + q) + n
    BY <1>3
  <2>3. n * (p + q) <= n * Scale
    BY <1>2, <1>3, TimesOrder
  <2> QED BY <2>1, <2>2, <2>3
<1>8. 2 * (taken * Scale) <= 2 * (n * Scale) + 2 * Scale
  BY <1>2, <1>5, <1>6, <1>7
<1>9. 2 * (n * Scale) <= 2 * (taken * Scale) + 2 * Scale + 2 * n
  BY <1>2, <1>5, <1>6, <1>7
<1>10. taken \in Nat
  BY <1>4, <1>5
<1>11. taken <= n + 1
  <2> SUFFICES ASSUME n + 2 <= taken PROVE FALSE
    BY <1>10
  <2>1. (n + 2) * Scale <= taken * Scale
    BY <1>2, <1>10, TimesOrder
  <2>2. (n + 2) * Scale = n * Scale + 2 * Scale
    BY <1>2
  <2> QED BY <1>2, <1>6, <1>8, <1>10, <2>1, <2>2
<1>12. 2 * taken * Scale = 2 * (taken * Scale) /\ 2 * n * Scale = 2 * (n * Scale)
  BY <1>2, <1>10
<1>13. 2 * taken * Scale + 2 * Scale + 4 * n >= 2 * n * Scale
  BY <1>2, <1>6, <1>9, <1>10, <1>12
<1>14. Len(vaults) = 2
  BY <1>1
<1> QED BY <1>10, <1>11, <1>13, <1>14

LEMMA SplitStepNear ==
  ASSUME VaultsGood, SplitterGood, SplitStep
  PROVE  LET k == Len(vaults)
             taken == rewardBalance[Treasury][FirstReward] - rewardBalance'[Treasury][FirstReward]
         IN  /\ 2 * taken <= 2 * RewardQty + k
             /\ 2 * taken * Scale + k * Scale + 2 * k * RewardQty >= 2 * RewardQty * Scale
<1> DEFINE taken == rewardBalance[Treasury][FirstReward] - rewardBalance'[Treasury][FirstReward]
<1>1. SplitTokens(FirstReward, Treasury, RewardQty) /\ TotalVaultWeight > 0
  BY DEF SplitStep, SplitTokens, CanSplit
<1>2. /\ FirstReward \in RewardTokens /\ Treasury \in Funders /\ RewardQty \in Nat
      /\ Scale \in Nat
  BY ClientAssumption, ScaleFacts DEF Scales
<1>3. rewardBalance'[Treasury][FirstReward] = rewardBalance[Treasury][FirstReward] -
        (AmountToTransfer(VaultA, RewardQty) + AmountToTransfer(VaultB, RewardQty))
  BY <1>1, <1>2, SplitKeepsVaults
<1>4. AmountToTransfer(VaultA, RewardQty) \in Nat /\ AmountToTransfer(VaultB, RewardQty) \in Nat
  BY <1>1, <1>2, SharesType DEF Vaults
<1>5. rewardBalance[Treasury][FirstReward] \in Nat
  BY <1>2, Apart DEF VaultsGood, VA!VaultInv, VA!TypeOK
<1>6. taken = AmountToTransfer(VaultA, RewardQty) + AmountToTransfer(VaultB, RewardQty)
  BY <1>3, <1>4, <1>5
<1> HIDE DEF taken
<1>7. /\ Len(vaults) = 2
      /\ 2 * taken <= 2 * RewardQty + 2
      /\ 2 * taken * Scale + 2 * Scale + 4 * RewardQty >= 2 * RewardQty * Scale
  BY <1>1, <1>2, <1>6, SharesNearAmount
<1> QED BY <1>2, <1>7 DEF taken

-----------------------------------------------------------------------------
(* The steps keep the invariant *)

(* What a step can be for the vaults.                                      *)
VaultsMove ==
  \/ UNCHANGED <<sharedVars, ofA, ofB>>
  \/ \E v \in Vaults, u \in Users, n \in Nat :
       StakeIn(v, u, n) \/ UnstakeFrom(v, u, n) \/ ClaimFrom(v, u)
  \/ \E v \in Vaults, t \in RewardTokens, n \in Nat, from \in Funders :
       AddRewardTo(v, t, n, from)
  \/ \E t \in RewardTokens, from \in Funders, n \in Nat : SplitTokens(t, from, n)
  \/ TickAll

LEMMA MoveKeepsVaults ==
  ASSUME VaultsGood, SplitterGood, VaultsMove
  PROVE  VaultsGood'
<1>1. ASSUME NEW v \in Vaults, NEW u \in Users, NEW n \in Nat,
             StakeIn(v, u, n) \/ UnstakeFrom(v, u, n) \/ ClaimFrom(v, u)
      PROVE  VaultsGood'
  BY <1>1, UserKeepsVaults
<1>2. ASSUME NEW v \in Vaults, NEW t \in RewardTokens, NEW n \in Nat, NEW from \in Funders,
             AddRewardTo(v, t, n, from)
      PROVE  VaultsGood'
  BY <1>2, RewardKeepsVaults
<1>3. ASSUME NEW t \in RewardTokens, NEW from \in Funders, NEW n \in Nat,
             SplitTokens(t, from, n)
      PROVE  VaultsGood'
  BY <1>3, SplitKeepsVaults
<1> QED BY <1>1, <1>2, <1>3, VaultsKept, TickKeepsVaults DEF VaultsMove

LEMMA MoveKeepsList ==
  ASSUME VaultsGood, VA!ListedOnce, VaultsMove
  PROVE  VA!ListedOnce'
<1>1. ASSUME UNCHANGED listA PROVE VA!ListedOnce'
  BY <1>1 DEF VA!ListedOnce
<1>2. ASSUME NEW t \in RewardTokens, listA' = A!ListedAfter(t) PROVE VA!ListedOnce'
  <2>1. listA' = VA!ListedAfter(t)
    BY <1>2 DEF A!ListedAfter, VA!ListedAfter, A!Listed, VA!Listed
  <2> QED BY <2>1, VA!ListedOnceKept, VaultsAssumed DEF VaultsGood
<1>3. ASSUME NEW v \in Vaults, NEW u \in Users, NEW n \in Nat,
             StakeIn(v, u, n) \/ UnstakeFrom(v, u, n) \/ ClaimFrom(v, u)
      PROVE  UNCHANGED listA
  BY <1>3 DEF StakeIn, UnstakeFrom, ClaimFrom, At, ofA, A!FirstStake, A!StakeMore,
              A!StakeDeferred, A!Unstake, A!UnstakeDeferred, A!ClaimRewards
<1>4. ASSUME NEW v \in Vaults, NEW t \in RewardTokens, NEW n \in Nat, NEW from \in Funders,
             AddRewardTo(v, t, n, from)
      PROVE  UNCHANGED listA \/ listA' = A!ListedAfter(t)
  BY <1>4 DEF AddRewardTo, At, ofA, A!AddReward
<1>5. ASSUME NEW t \in RewardTokens, NEW from \in Funders, NEW n \in Nat,
             SplitTokens(t, from, n)
      PROVE  UNCHANGED listA \/ listA' = A!ListedAfter(t)
  BY <1>5 DEF SplitTokens
<1> QED BY <1>1, <1>2, <1>3, <1>4, <1>5 DEF VaultsMove, ofA, TickAll, A!Tick

LEMMA InitGood == Init => Good
<1> SUFFICES ASSUME Init PROVE Good
  OBVIOUS
<1>1. VA!Init /\ VB!Init
  BY DEF Init, SplitterInit, VA!Init, VB!Init, A!NoContribution, VA!NoContribution,
         B!NoContribution, VB!NoContribution
<1>2. VA!VaultInv
  BY <1>1, VA!InitInv, VaultsAssumed
<1>3. VB!VaultInv
  BY <1>1, VB!InitInv, VaultsAssumed
<1>4. VA!ListedOnce /\ SplitterGood /\ amount \in Nat
  BY DEF Init, SplitterInit, VA!ListedOnce, SplitterGood
<1> QED BY <1>2, <1>3, <1>4 DEF Good, VaultsGood

(* initialize gives the splitter its two vaults, with natural multipliers. *)
LEMMA InitializeGood ==
  ASSUME SplitterGood, Initialize(<<VaultA, VaultB>>, Multipliers)
  PROVE  SplitterGood'
<1> DEFINE added == <<VaultA, VaultB>>
<1>1. /\ vaults' = added /\ DOMAIN added = DOMAIN Multipliers
      /\ vaultMultipliers' =
           [v \in Vaults |->
              IF v \in ToSet(added)
              THEN Multipliers[CHOOSE i \in DOMAIN added : added[i] = v] ELSE 0]
  BY DEF Initialize
<1>2. \A i \in DOMAIN Multipliers : Multipliers[i] \in Nat
  BY ClientAssumption
<1>3. ASSUME NEW v \in Vaults, v \in ToSet(added)
      PROVE  Multipliers[CHOOSE i \in DOMAIN added : added[i] = v] \in Nat
  <2>1. \E i \in DOMAIN added : added[i] = v
    BY <1>3 DEF ToSet
  <2>2. (CHOOSE i \in DOMAIN added : added[i] = v) \in DOMAIN added
    <3> HIDE DEF added
    <3> QED BY <2>1
  <2> QED BY <1>1, <1>2, <2>2
<1> HIDE DEF added
<1>4. vaultMultipliers' \in [Vaults -> Nat]
  BY <1>1, <1>3
<1> QED BY <1>1, <1>4 DEF SplitterGood, added

LEMMA NamedOnes ==
  /\ Staker \in Users /\ Treasury \in Funders /\ TheirVault = VaultA
  /\ VaultA \in Vaults /\ VaultB \in Vaults
  /\ FirstReward \in RewardTokens /\ SecondReward \in RewardTokens
  /\ StakeQty \in Nat /\ RewardQty \in Nat
  /\ StakeAmounts \subseteq Nat /\ RewardAmounts \subseteq Nat
BY ClientAssumption, VaultsAssumed DEF TheirVault, Vaults

LEMMA StakeOfType ==
  ASSUME VaultsGood
  PROVE  StakeOf(TheirVault, Staker) \in Nat
<1>1. VA!Stake(Staker) \in Nat
  BY NamedOnes, VA!StakeType, VaultsAssumed DEF VaultsGood, VA!VaultInv
<1> QED BY <1>1, NamedOnes DEF StakeOf, A!Stake, VA!Stake

LEMMA NextMoves ==
  ASSUME Good, [Next]_allVars
  PROVE  VaultsMove /\ (UNCHANGED splitterVars \/ SplitterGood') /\ amount' \in Nat
<1> USE NamedOnes
<1>1. ASSUME UNCHANGED <<vaultVars, amount>>
      PROVE  VaultsMove /\ UNCHANGED splitterVars /\ amount' \in Nat
  BY <1>1 DEF vaultVars, VaultsMove, Good
<1>2. ASSUME NEW v \in Vaults, Stakes(v), UNCHANGED amount
      PROVE  VaultsMove /\ UNCHANGED splitterVars /\ amount' \in Nat
  BY <1>2 DEF Stakes, StakeIn, At, VaultsMove, Good
<1>3. CASE VaultInitialize \/ AssociateTokensToAccount \/ AllowStep \/ SetupDone
           \/ CheckUnstake \/ GetSplittedAmountList \/ AllowancesDone \/ Stop \/ RunAgain
           \/ UNCHANGED allVars
  BY <1>1, <1>3 DEF VaultInitialize, AssociateTokensToAccount, AllowStep, AllowStake,
       AllowReward, SetupDone, CheckUnstake, GetSplittedAmountList, AllowancesDone, Stop,
       RunAgain, allVars, clientVars, readVars, ReadsNothing
<1>4. CASE ReadStake
  BY <1>4, StakeOfType DEF ReadStake, VaultsMove, vaultVars, Good
<1>5. CASE StakeStep
  BY <1>2, <1>5 DEF StakeStep, ReadsNothing, readVars
<1>6. CASE AddRewardStep
  <2>1. ASSUME NEW t \in RewardTokens, AddsReward(TheirVault, t)
        PROVE  VaultsMove /\ UNCHANGED splitterVars
    BY <2>1 DEF AddsReward, AddRewardTo, At, VaultsMove
  <2> QED BY <1>6, <2>1 DEF AddRewardStep, ReadsNothing, readVars, Good
<1>7. CASE ClaimStep
  BY <1>7 DEF ClaimStep, ClaimFrom, At, VaultsMove, ReadsNothing, readVars, Good
<1>8. CASE UnstakeStep
  BY <1>1, <1>8 DEF UnstakeStep, UnstakeFrom, At, VaultsMove, ReadsNothing, readVars, Good
<1>9. ASSUME NEW v \in Vaults, SetupVault(v)
      PROVE  VaultsMove /\ UNCHANGED splitterVars /\ amount' \in Nat
  BY <1>1, <1>2, <1>9 DEF SetupVault, AllowStake, ReadsNothing, readVars
<1>10. CASE InitializeSplitter
  BY <1>10, InitializeGood
     DEF InitializeSplitter, VaultsMove, ReadsNothing, readVars, Good
<1>11. ASSUME NEW i \in DOMAIN vaults, SetupVaultAllowance(i)
       PROVE  VaultsMove /\ UNCHANGED splitterVars /\ amount' \in Nat
  BY <1>1, <1>11 DEF SetupVaultAllowance, AllowReward, ReadsNothing, readVars
<1>12. CASE SplitStep
  BY <1>12 DEF SplitStep, SplitTokens, VaultsMove, ReadsNothing, readVars, Good
<1>13. CASE OthersAct
  <2>1. ASSUME NEW v, NEW u \in Others, NEW n \in StakeAmounts,
               StakeIn(v, u, n) \/ UnstakeFrom(v, u, n)
        PROVE  VaultsMove /\ UNCHANGED splitterVars
    BY <2>1 DEF StakeIn, UnstakeFrom, At, VaultsMove, Others, Vaults
  <2>2. ASSUME NEW v, NEW u \in Users, ClaimFrom(v, u)
        PROVE  VaultsMove /\ UNCHANGED splitterVars
    BY <2>2 DEF ClaimFrom, At, VaultsMove, Vaults
  <2>3. ASSUME NEW v, NEW t \in RewardTokens, NEW n \in RewardAmounts,
               NEW from \in Funders, AddRewardTo(v, t, n, from)
        PROVE  VaultsMove /\ UNCHANGED splitterVars
    BY <2>3 DEF AddRewardTo, At, VaultsMove, Vaults
  <2> QED BY <1>13, <2>1, <2>2, <2>3 DEF OthersAct, readVars, Good
<1>14. CASE TimePasses
  BY <1>14 DEF TimePasses, TickAll, VaultsMove, clientVars, readVars, Good
<1> QED BY <1>3, <1>4, <1>5, <1>6, <1>7, <1>8, <1>9, <1>10, <1>11, <1>12, <1>13, <1>14
        DEF Next

LEMMA NextGood == Good /\ [Next]_allVars => Good'
<1> SUFFICES ASSUME Good, [Next]_allVars PROVE Good'
  OBVIOUS
<1>1. VaultsMove /\ (UNCHANGED splitterVars \/ SplitterGood') /\ amount' \in Nat
  BY NextMoves
<1>2. SplitterGood'
  BY <1>1 DEF Good, SplitterGood, splitterVars
<1> QED BY <1>1, <1>2, MoveKeepsVaults, MoveKeepsList DEF Good

LEMMA GoodAlways == Spec => []Good
<1> QED BY InitGood, NextGood, PTL DEF Spec

(***************************************************************************)
(* Two vaults that share the tokens' ledgers do not reach for each other's *)
(* stakes: the staking tokens either holds are the stakes of its own users *)
(* (Vault.sol:60-111, 224-259), whatever is split in between.              *)
(***************************************************************************)
THEOREM VaultsStayApart == Spec => [](A!StakesBacked /\ B!StakesBacked)
<1>1. Good => A!StakesBacked /\ B!StakesBacked
  BY DEF Good, VaultsGood, VA!VaultInv, VB!VaultInv, A!StakesBacked, VA!StakesBacked,
         B!StakesBacked, VB!StakesBacked, A!Stake, VA!Stake, B!Stake, VB!Stake,
         A!Total, VA!Total, B!Total, VB!Total, A!AllSlots, VA!AllSlots, B!AllSlots,
         VB!AllSlots, A!Slots, VA!Slots, B!Slots, VB!Slots, A!Cardinality,
         VA!Cardinality, B!Cardinality, VB!Cardinality
<1> QED BY <1>1, GoodAlways, PTL

(***************************************************************************)
(* For any number of stakers and amounts, any weights and any scale of the *)
(* percentages, a split takes the amount it was asked to take, but for     *)
(* half a unit per vault and what the percentages truncate                 *)
(* (Splitter.sol:55-83, 104-125).                                          *)
(***************************************************************************)
THEOREM SplitsAreNear == Spec => SplitNearAmount
<1>1. Good /\ [Next]_allVars =>
        [SplitStep =>
           LET k == Len(vaults)
               taken == rewardBalance[Treasury][FirstReward] - rewardBalance'[Treasury][FirstReward]
           IN  /\ 2 * taken <= 2 * RewardQty + k
               /\ 2 * taken * Scale + k * Scale + 2 * k * RewardQty >= 2 * RewardQty * Scale]_allVars
  BY SplitStepNear DEF Good
<1> QED BY <1>1, GoodAlways, PTL DEF Spec, SplitNearAmount

-----------------------------------------------------------------------------
(* The script that stakes, earns, claims and takes back *)

(* Where the script is, and what it knows there: after its claims no more  *)
(* is due to its staker than one call pays, and the amount it takes back   *)
(* is the stake.                                                           *)
Settling ==
  IsVaultScript =>
    /\ at \in 1 .. 14 /\ (stopped => at = 14) /\ waitUntil \in Nat
    /\ at \in {11, 12, 13} /\ ~rewardedLate =>
         Cardinality(VA!DueAt(Staker)) <= MaxRewardsPerTxn
    /\ at \in {12, 13} => amount = VA!Stake(Staker)
    /\ at = 14 /\ ~stopped /\ ~rewardedLate /\ WaitedEnough => VA!Stake(Staker) = 0

(* The steps of vault.ts, by number. *)
LEMMA ScriptSteps ==
  ASSUME IsVaultScript, at \in 1 .. 14
  PROVE  /\ Running <=> at <= 13
         /\ Len(Script) = 13
         /\ \A do \in {"initialize", "associate", "allowStake", "stake", "allowFirst",
                       "addFirst", "allowSecond", "addSecond"} : Now(do) => at <= 8
         /\ Now("claim") => at \in {9, 10}
         /\ Now("readStake") => at = 11
         /\ Now("check") => at = 12
         /\ Now("unstake") => at = 13
         /\ ~Now("setup") /\ ~Now("register") /\ ~Now("readAmounts")
         /\ ~Now("allow") /\ ~Now("split")
         /\ at \in {11, 12, 13} => ClaimsOver
<1>1. Script = VaultScript
  BY DEF Script
<1>2. /\ DOMAIN VaultScript = 1 .. 13 /\ Len(VaultScript) = 13
      /\ VaultScript[1] = "initialize" /\ VaultScript[2] = "associate"
      /\ VaultScript[3] = "allowStake" /\ VaultScript[4] = "stake"
      /\ VaultScript[5] = "allowFirst" /\ VaultScript[6] = "addFirst"
      /\ VaultScript[7] = "allowSecond" /\ VaultScript[8] = "addSecond"
      /\ VaultScript[9] = "claim" /\ VaultScript[10] = "claim"
      /\ VaultScript[11] = "readStake" /\ VaultScript[12] = "check"
      /\ VaultScript[13] = "unstake"
  BY DEF VaultScript
<1>3. Running <=> at <= 13
  BY <1>1, <1>2 DEF Running
<1>4. \A do : Now(do) <=> at <= 13 /\ VaultScript[at] = do
  BY <1>1, <1>3 DEF Now
<1>5. /\ at \in {1, 2, 3, 4, 5, 6, 7, 8, 9, 10, 11, 12, 13, 14}
  OBVIOUS
<1>6. /\ \A do \in {"initialize", "associate", "allowStake", "stake", "allowFirst",
                    "addFirst", "allowSecond", "addSecond"} : Now(do) => at <= 8
      /\ Now("claim") => at \in {9, 10}
      /\ Now("readStake") => at = 11
      /\ Now("check") => at = 12
      /\ Now("unstake") => at = 13
  BY <1>2, <1>4, <1>5
<1>7. /\ ~Now("setup") /\ ~Now("register") /\ ~Now("readAmounts")
      /\ ~Now("allow") /\ ~Now("split")
  BY <1>2, <1>4, <1>5
<1>8. at \in {11, 12, 13} => ClaimsOver
  <2>1. \A i \in 11 .. 13 : i = 11 \/ i = 12 \/ i = 13
    OBVIOUS
  <2> QED BY <1>1, <1>2, <2>1 DEF ClaimsOver
<1> QED BY <1>1, <1>2, <1>3, <1>6, <1>7, <1>8

LEMMA InitSettling == Init => Settling
BY DEF Init, Settling

(* A step that leaves the script and its flags alone, and of the staker's  *)
(* account what the script goes by.                                        *)
LEMMA AccountKept ==
  ASSUME Settling, UNCHANGED <<world, at, amount, waitUntil, stopped>>,
         VA!Stake(Staker)' = VA!Stake(Staker),
         UNCHANGED LockedSince(TheirVault, Staker),
         rewardedLate => rewardedLate',
         ~rewardedLate' /\ at \in {11, 12, 13} =>
           (Cardinality(VA!DueAt(Staker)) <= MaxRewardsPerTxn =>
              Cardinality(VA!DueAt(Staker)') <= MaxRewardsPerTxn)
  PROVE  Settling'
<1> DEFINE late == rewardedLate
           due == Cardinality(VA!DueAt(Staker)) <= MaxRewardsPerTxn
           back == VA!Stake(Staker) = 0
<1>1. /\ UNCHANGED <<IsVaultScript, WaitedEnough, back>>
      /\ (VA!Stake(Staker) = amount)' <=> (VA!Stake(Staker) = amount)
  BY DEF IsVaultScript, WaitedEnough
<1>2. IsVaultScript /\ at \in {11, 12, 13} /\ ~late' => due'
  BY DEF Settling
<1>3. IsVaultScript /\ at = 14 /\ ~stopped /\ ~late' /\ WaitedEnough => back
  BY DEF Settling
<1> QED BY <1>1, <1>2, <1>3 DEF Settling

LEMMA WholeAccountKept ==
  ASSUME Settling, UNCHANGED <<world, at, amount, waitUntil, stopped>>,
         UNCHANGED VA!Account(Staker), rewardedLate => rewardedLate'
  PROVE  Settling'
<1>1. VA!DueAt(Staker)' = VA!DueAt(Staker) /\ VA!Stake(Staker)' = VA!Stake(Staker)
  BY NamedOnes, VA!AccountTells, VaultsAssumed
<1>2. UNCHANGED LockedSince(TheirVault, Staker)
  BY NamedOnes DEF VA!Account, LockedSince
<1> QED BY <1>1, <1>2, AccountKept

(* A claim for the staker, whoever makes it, leaves its stake alone and    *)
(* less due to it than before.                                             *)
LEMMA ClaimKeepsAccount ==
  ASSUME Good, VA!ClaimRewards(Staker)
  PROVE  /\ VA!Stake(Staker)' = VA!Stake(Staker)
         /\ UNCHANGED LockedSince(TheirVault, Staker)
         /\ Cardinality(VA!DueAt(Staker)) <= MaxRewardsPerTxn =>
              Cardinality(VA!DueAt(Staker)') <= MaxRewardsPerTxn
<1>1. UNCHANGED contributionA
  BY DEF VA!ClaimRewards
<1>2. /\ Cardinality(VA!DueAt(Staker)) \in Nat /\ Cardinality(VA!DueAt(Staker)') \in Nat
      /\ \/ Cardinality(VA!DueAt(Staker)') = 0
         \/ Cardinality(VA!DueAt(Staker)') + MaxRewardsPerTxn <=
              Cardinality(VA!DueAt(Staker))
  BY NamedOnes, VA!ClaimShrinks, VaultsAssumed, SameCardinality DEF Good, VaultsGood
<1>3. MaxRewardsPerTxn \in Nat
  BY VaultsAssumed DEF VA!VaultAssumption
<1> QED BY <1>1, <1>2, <1>3, NamedOnes DEF VA!Stake, LockedSince

LEMMA OthersSettle ==
  ASSUME Good, Settling, OthersAct
  PROVE  Settling'
<1>1. /\ UNCHANGED <<world, at, amount, waitUntil, stopped>>
      /\ rewardedLate => rewardedLate'
  <2>1. UNCHANGED <<world, at, amount, waitUntil, stopped>>
    BY DEF OthersAct, readVars
  <2>2. UNCHANGED rewardedLate \/ rewardedLate' = (rewardedLate \/ ClaimsOver)
    BY DEF OthersAct
  <2>3. rewardedLate => rewardedLate'
    BY <2>2, Zenon
  <2> QED BY <2>1, <2>3
<1>2. ASSUME UNCHANGED ofA PROVE Settling'
  BY <1>1, <1>2, WholeAccountKept DEF ofA, VA!Account
<1>3. ASSUME NEW u \in Others, NEW n \in Nat, VA!Operation(u, n)
      PROVE  Settling'
  <2>1. UNCHANGED VA!Account(Staker)
    BY <1>3, NamedOnes, VA!OthersKeepAccount, VaultsAssumed DEF Good, VaultsGood, Others
  <2> QED BY <1>1, <2>1, WholeAccountKept
<1>4. ASSUME NEW v, NEW u \in Others, NEW n \in Nat,
             StakeIn(v, u, n) \/ UnstakeFrom(v, u, n) \/ ClaimFrom(v, u)
      PROVE  Settling'
  <2>1. UNCHANGED ofA \/ VA!Operation(u, n)
    BY <1>4, SameOfA DEF StakeIn, UnstakeFrom, ClaimFrom, At, VA!Operation
  <2> QED BY <1>2, <1>3, <2>1
<1>5. ASSUME NEW v, ClaimFrom(v, Staker) PROVE Settling'
  <2>1. UNCHANGED ofA \/ VA!ClaimRewards(Staker)
    BY <1>5, SameOfA DEF ClaimFrom, At
  <2>2. ASSUME VA!ClaimRewards(Staker) PROVE Settling'
    BY <1>1, <2>2, ClaimKeepsAccount, AccountKept
  <2> QED BY <1>2, <2>1, <2>2
<1>6. ASSUME NEW v, NEW t \in RewardTokens, NEW n \in RewardAmounts,
             NEW from \in Funders \ {Treasury}, AddRewardTo(v, t, n, from),
             rewardedLate' = (rewardedLate \/ ClaimsOver)
      PROVE  Settling'
  <2>1. UNCHANGED contributionA
    BY <1>6 DEF AddRewardTo, At, A!AddReward, ofA
  <2>2. /\ VA!Stake(Staker)' = VA!Stake(Staker)
        /\ UNCHANGED LockedSince(TheirVault, Staker)
    BY <2>1, NamedOnes DEF VA!Stake, LockedSince
  <2>3. SUFFICES ASSUME IsVaultScript PROVE Settling'
    BY <1>1 DEF Settling, IsVaultScript
  <2>4. at \in {11, 12, 13} => rewardedLate'
    <3>1. at \in {11, 12, 13} => ClaimsOver
      BY <2>3, ScriptSteps DEF Settling
    <3> QED BY <1>6, <3>1
  <2> QED BY <1>1, <2>2, <2>4, AccountKept
<1>7. Others \subseteq Users /\ 0 \in Nat
  BY DEF Others
<1>8. CASE \E v \in vaultsReady, u \in Others, n \in StakeAmounts :
             StakeIn(v, u, n) \/ UnstakeFrom(v, u, n)
  BY <1>4, <1>8, NamedOnes
<1>9. CASE \E v \in vaultsReady, u \in Users : ClaimFrom(v, u)
  BY <1>4, <1>5, <1>7, <1>9 DEF Others
<1> QED BY <1>6, <1>8, <1>9 DEF OthersAct

LEMMA ClaimSettles ==
  ASSUME Good, Settling, ClaimStep, Cardinality(RewardTokens) <= 2 * MaxRewardsPerTxn
  PROVE  Settling'
<1> SUFFICES ASSUME IsVaultScript PROVE Settling'
  BY DEF ClaimStep, Onward, Settling, IsVaultScript
<1>1. at \in {9, 10} /\ at' = at + 1 /\ UNCHANGED <<world, stopped, rewardedLate, waitUntil>>
  BY ScriptSteps DEF ClaimStep, Onward, Settling, ReadsNothing, readVars
<1>2. VA!ClaimRewards(Staker)
  BY NamedOnes, Apart, SameOfA DEF ClaimStep, ClaimFrom, At
<1>3. Cardinality(VA!DueAt(Staker)') <= MaxRewardsPerTxn
  BY <1>2, NamedOnes, VA!ClaimsPayMost, VaultsAssumed, SameCardinality DEF Good, VaultsGood
<1>4. ~stopped
  BY <1>1 DEF Settling
<1> QED BY <1>1, <1>3, <1>4 DEF Settling

(* A delay that was long enough, and nothing due that one call does not    *)
(* pay: the script finds no stake, or takes it back.                       *)
LEMMA UnstakeSettles ==
  ASSUME Good, Settling, UnstakeStep
  PROVE  Settling'
<1> SUFFICES ASSUME IsVaultScript PROVE Settling'
  BY DEF UnstakeStep, Onward, Settling, IsVaultScript
<1>1. /\ at = 13 /\ at' = 14 /\ UNCHANGED <<world, stopped, rewardedLate, waitUntil>>
      /\ waitUntil \in Nat /\ now >= waitUntil
  BY ScriptSteps DEF UnstakeStep, Onward, Settling, ReadsNothing, readVars
<1>2. amount = VA!Stake(Staker) /\ VA!Stake(Staker) \in Nat
  BY <1>1, NamedOnes, VA!StakeType, VaultsAssumed DEF Settling, Good, VaultsGood, VA!VaultInv
<1>3. ~stopped
  BY <1>1 DEF Settling
<1>4. SUFFICES ASSUME ~rewardedLate, WaitedEnough' PROVE VA!Stake(Staker)' = 0
  BY <1>1, <1>3 DEF Settling
<1>5. CASE UnstakeFrom(TheirVault, Staker, amount)
  <2>1. VA!Unstake(Staker, amount) \/ VA!UnstakeDeferred(Staker, amount)
    BY <1>5, NamedOnes, Apart, SameOfA DEF UnstakeFrom, At
  <2>2. VA!Cardinality(VA!DueAt(Staker)) <= MaxRewardsPerTxn
    BY <1>1, <1>4, SameCardinality DEF Settling
  <2> QED BY <1>2, <2>1, <2>2, NamedOnes, VA!WholeStakeReturns, VaultsAssumed
          DEF Good, VaultsGood
<1>6. CASE ~CanUnstakeFrom(TheirVault, Staker, amount) /\ UNCHANGED vaultVars
  <2>1. VA!Stake(Staker)' = VA!Stake(Staker) /\ WaitedEnough
    BY <1>1, <1>4, <1>6, NamedOnes
       DEF vaultVars, ofA, VA!Stake, WaitedEnough, LockedSince
  <2>2. ~VA!CanUserUnStakeTokens(Staker, amount)
    BY <1>6, NamedOnes DEF CanUnstakeFrom, A!CanUserUnStakeTokens, VA!CanUserUnStakeTokens,
         A!Stake, VA!Stake
  <2>3. now > contributionA[Staker].lastLockedTime + LockingPeriod
    <3>1. waitUntil > contributionA[Staker].lastLockedTime + LockingPeriod
      BY <2>1, NamedOnes DEF WaitedEnough, LockedSince
    <3>2. /\ now \in Nat /\ contributionA[Staker].lastLockedTime \in Nat
          /\ LockingPeriod \in Nat
      BY NamedOnes, VaultsAssumed
         DEF Good, VaultsGood, VA!VaultInv, VA!TypeOK, VA!Contribution, VA!VaultAssumption
    <3> QED BY <1>1, <3>1, <3>2
  <2>4. contributionA[Staker].alreadyStaked <=> VA!Stake(Staker) > 0
    BY NamedOnes DEF Good, VaultsGood, VA!VaultInv, VA!StakersKnown
  <2> QED BY <1>2, <2>1, <2>2, <2>3, <2>4 DEF VA!CanUserUnStakeTokens
<1> QED BY <1>5, <1>6 DEF UnstakeStep

LEMMA NextSettles ==
  ASSUME Good, Settling, [Next]_allVars,
         Cardinality(RewardTokens) <= 2 * MaxRewardsPerTxn
  PROVE  Settling'
<1>1. ASSUME UNCHANGED <<world, stopped, waitUntil>>, at \in 1 .. 8, at' = at + 1
      PROVE  Settling'
  BY <1>1 DEF Settling, IsVaultScript
<1>2. ASSUME UNCHANGED world, ~IsVaultScript PROVE Settling'
  BY <1>2 DEF Settling, IsVaultScript
<1>3. CASE VaultInitialize \/ AssociateTokensToAccount \/ AllowStep \/ StakeStep
           \/ AddRewardStep
  <2>1. UNCHANGED <<world, stopped, waitUntil>> /\ at' = at + 1
    BY <1>3 DEF VaultInitialize, AssociateTokensToAccount, AllowStep, StakeStep,
         AddRewardStep, Onward, ReadsNothing, readVars
  <2>2. IsVaultScript => at \in 1 .. 8
    <3> SUFFICES ASSUME IsVaultScript PROVE at \in 1 .. 8
      OBVIOUS
    <3>1. at \in 1 .. 14
      BY DEF Settling
    <3>2. \E do \in {"initialize", "associate", "allowStake", "stake", "allowFirst",
                    "addFirst", "allowSecond", "addSecond"} : Now(do)
      BY <1>3 DEF VaultInitialize, AssociateTokensToAccount, AllowStep, StakeStep,
           AddRewardStep
    <3> QED BY <3>1, <3>2, ScriptSteps
  <2> QED BY <1>1, <1>2, <2>1, <2>2
<1>4. CASE ReadStake \/ CheckUnstake
  <2> SUFFICES ASSUME IsVaultScript PROVE Settling'
    BY <1>2, <1>4 DEF ReadStake, CheckUnstake, Onward
  <2>1. UNCHANGED <<world, stopped, rewardedLate>> /\ UNCHANGED VA!Account(Staker)
    BY <1>4 DEF ReadStake, CheckUnstake, Onward, vaultVars, ofA, VA!Account
  <2>2. VA!DueAt(Staker)' = VA!DueAt(Staker) /\ VA!Stake(Staker)' = VA!Stake(Staker)
    BY <2>1, NamedOnes, VA!AccountTells, VaultsAssumed
  <2>3. CASE ReadStake
    <3>1. /\ at = 11 /\ at' = 12 /\ UNCHANGED waitUntil
          /\ amount' = VA!Stake(Staker)
      BY <2>3, NamedOnes, ScriptSteps
         DEF ReadStake, Onward, StakeOf, A!Stake, VA!Stake, Settling
    <3> QED BY <2>1, <2>2, <3>1 DEF Settling, IsVaultScript
  <2>4. CASE CheckUnstake
    <3>1. at = 12 /\ at' = 13 /\ UNCHANGED amount
      BY <2>4, ScriptSteps DEF CheckUnstake, Onward, Settling
    <3>2. now \in Nat /\ LockingPeriod \in Nat
      BY VaultsAssumed DEF Good, VaultsGood, VA!VaultInv, VA!TypeOK, VA!VaultAssumption
    <3>3. waitUntil' \in Nat
      BY <2>4, <3>2 DEF CheckUnstake
    <3> QED BY <2>1, <2>2, <3>1, <3>3 DEF Settling, IsVaultScript
  <2> QED BY <1>4, <2>3, <2>4
<1>5. ASSUME \E do \in {"setup", "register", "readAmounts", "allow", "split"} : Now(do),
             UNCHANGED world
      PROVE  Settling'
  BY <1>2, <1>5, ScriptSteps DEF Settling
<1>6. CASE (\E v \in Vaults : SetupVault(v)) \/ SetupDone \/ InitializeSplitter
           \/ GetSplittedAmountList \/ AllowancesDone \/ SplitStep
           \/ (\E i \in DOMAIN vaults : SetupVaultAllowance(i))
  BY <1>5, <1>6 DEF SetupVault, SetupDone, InitializeSplitter, GetSplittedAmountList,
       AllowancesDone, SplitStep, SetupVaultAllowance, Onward
<1>7. CASE Stop
  <2>1. ASSUME IsVaultScript PROVE at' = 14
    <3>1. Len(Script) = 13
      BY <2>1, ScriptSteps DEF Settling
    <3> QED BY <1>7, <3>1 DEF Stop
  <2> QED BY <1>7, <2>1 DEF Stop, Settling, IsVaultScript, readVars
<1>8. CASE RunAgain
  BY <1>8 DEF RunAgain, Settling, IsVaultScript, ReadsNothing, readVars
<1>9. CASE TimePasses \/ UNCHANGED allVars
  <2>1. /\ UNCHANGED <<world, at, amount, waitUntil, stopped, rewardedLate>>
        /\ UNCHANGED VA!Account(Staker)
    BY <1>9 DEF TimePasses, TickAll, A!Tick, clientVars, readVars, allVars, vaultVars,
         ofA, VA!Account
  <2> QED BY <2>1, WholeAccountKept
<1> QED BY <1>3, <1>4, <1>6, <1>7, <1>8, <1>9, OthersSettle, ClaimSettles, UnstakeSettles
        DEF Next

(***************************************************************************)
(* As long as two calls can pay every reward token, a run of vault.ts that *)
(* threw nothing has its staker's whole stake back, for any other stakers, *)
(* amounts, earlier runs that stopped anywhere, claims by anyone, and      *)
(* rewards added up to its last claim, if it did not first ask in the very *)
(* second of its stake (vault.ts:49-83, Vault.sol:98-111, 224-259).        *)
(***************************************************************************)
THEOREM StakeComesBack ==
  ASSUME Cardinality(RewardTokens) <= 2 * MaxRewardsPerTxn
  PROVE  Spec => []ScriptGetsItsStakeBack
<1>1. Good /\ Settling /\ [Next]_allVars => Settling'
  BY NextSettles
<1>2. Settling => ScriptGetsItsStakeBack
  <2> SUFFICES ASSUME Settling, IsVaultScript, ~Running, ~stopped, ~rewardedLate,
                      WaitedEnough
               PROVE  StakeOf(TheirVault, Staker) = 0
    BY DEF ScriptGetsItsStakeBack
  <2>1. at = 14
    BY ScriptSteps DEF Settling
  <2> QED BY <2>1, NamedOnes DEF Settling, StakeOf, A!Stake, VA!Stake
<1> QED BY <1>1, <1>2, InitSettling, GoodAlways, PTL DEF Spec

-----------------------------------------------------------------------------
(* The script that splits a reward *)

(* A share of the split by the supplies that the script has read.          *)
ShareRead(v) ==
  A!FixedMul(RewardQty,
    A!FixedDiv(suppliesRead[v] * vaultMultipliers[v],
               Total(Registered, [x \in Vaults |-> suppliesRead[x] * vaultMultipliers[x]])))

AllowancesShaped ==
  /\ setup = [v \in Vaults |-> setup[v]]
  /\ rewardAllowance = [v \in Vaults |-> [t \in RewardTokens |-> rewardAllowance[v][t]]]

(* Once it has read the split, the script knows the shares of the supplies *)
(* it has read, and what it approved is those shares.                      *)
Allowing ==
  ~IsVaultScript =>
    /\ at \in 1 .. 6
    /\ at \in {4, 5} =>
         /\ \A i \in DOMAIN vaults : amounts[i] = ShareRead(vaults[i])
         /\ \A i \in DOMAIN vaults : setup[vaults[i]] = "approved" =>
              rewardAllowance[vaults[i]][FirstReward] = amounts[i]
    /\ at = 5 => \A v \in Registered : setup[v] = "approved"

(* The steps of splitter.ts, by number. *)
LEMMA SplitterSteps ==
  ASSUME ~IsVaultScript, at \in 1 .. 6
  PROVE  /\ Len(Script) = 5
         /\ Running <=> at <= 5
         /\ Now("setup") => at = 1
         /\ Now("register") => at = 2
         /\ Now("readAmounts") => at = 3
         /\ Now("allow") => at = 4
         /\ Now("split") => at = 5
         /\ \A do \in {"initialize", "associate", "allowStake", "stake", "allowFirst",
                       "addFirst", "allowSecond", "addSecond", "claim", "readStake",
                       "check", "unstake"} : ~Now(do)
<1>1. Script = SplitterScript
  BY DEF Script
<1>2. /\ DOMAIN SplitterScript = 1 .. 5 /\ Len(SplitterScript) = 5
      /\ SplitterScript[1] = "setup" /\ SplitterScript[2] = "register"
      /\ SplitterScript[3] = "readAmounts" /\ SplitterScript[4] = "allow"
      /\ SplitterScript[5] = "split"
  BY DEF SplitterScript
<1>3. Running <=> at <= 5
  BY <1>1, <1>2 DEF Running
<1>4. \A do : Now(do) <=> at <= 5 /\ SplitterScript[at] = do
  BY <1>1, <1>3 DEF Now
<1>5. at \in {1, 2, 3, 4, 5, 6}
  OBVIOUS
<1> QED BY <1>1, <1>2, <1>3, <1>4, <1>5

LEMMA InitAllowing == Init => AllowancesShaped /\ Allowing
BY DEF Init, AllowancesShaped, Allowing

LEMMA NextShaped ==
  ASSUME AllowancesShaped, [Next]_allVars
  PROVE  AllowancesShaped'
<1>1. ASSUME UNCHANGED <<setup, rewardAllowance>> PROVE AllowancesShaped'
  BY <1>1 DEF AllowancesShaped
<1>2. ASSUME NEW v, NEW t, NEW n,
             UNCHANGED setup \/ \E step : setup' = [setup EXCEPT ![v] = step],
             \/ UNCHANGED rewardAllowance
             \/ rewardAllowance' = [rewardAllowance EXCEPT ![v][t] = n]
      PROVE  AllowancesShaped'
  <2>1. setup' = [x \in Vaults |-> setup'[x]]
    BY <1>2 DEF AllowancesShaped
  <2>2. rewardAllowance' =
          [x \in Vaults |-> [y \in RewardTokens |-> rewardAllowance'[x][y]]]
    BY <1>2 DEF AllowancesShaped
  <2> QED BY <2>1, <2>2 DEF AllowancesShaped
<1>3. CASE VaultInitialize \/ AssociateTokensToAccount \/ StakeStep \/ ClaimStep
           \/ ReadStake \/ CheckUnstake \/ UnstakeStep \/ SetupDone \/ InitializeSplitter
           \/ AllowancesDone \/ Stop \/ RunAgain \/ OthersAct \/ TimePasses
           \/ UNCHANGED allVars
  BY <1>1, <1>3 DEF VaultInitialize, AssociateTokensToAccount, StakeStep, Stakes,
       ClaimStep, ReadStake, CheckUnstake, UnstakeStep, SetupDone, InitializeSplitter,
       AllowancesDone, Stop, RunAgain, OthersAct, TimePasses, allVars, clientVars
<1>4. CASE AllowStep
  BY <1>1, <1>2, <1>4 DEF AllowStep, AllowStake, AllowReward
<1>5. CASE AddRewardStep
  <2>1. ASSUME NEW t, AddsReward(TheirVault, t), UNCHANGED setup PROVE AllowancesShaped'
    BY <1>2, <2>1 DEF AddsReward
  <2> QED BY <1>5, <2>1 DEF AddRewardStep
<1>6. ASSUME NEW v \in Vaults, SetupVault(v) PROVE AllowancesShaped'
  BY <1>2, <1>6 DEF SetupVault, AllowStake, Stakes
<1>7. CASE GetSplittedAmountList
  BY <1>7 DEF GetSplittedAmountList, AllowancesShaped
<1>8. ASSUME NEW i \in DOMAIN vaults, SetupVaultAllowance(i) PROVE AllowancesShaped'
  BY <1>2, <1>8 DEF SetupVaultAllowance, AllowReward
<1>9. CASE SplitStep
  <2>1. rewardAllowance' =
          [v \in Vaults |-> [rewardAllowance[v] EXCEPT ![FirstReward] =
             IF v \in Registered THEN @ - AmountToTransfer(v, RewardQty) ELSE @]]
    BY <1>9 DEF SplitStep
  <2>2. UNCHANGED setup
    BY <1>9 DEF SplitStep
  <2>3. rewardAllowance' =
          [x \in Vaults |-> [y \in RewardTokens |-> rewardAllowance'[x][y]]]
    BY <2>1 DEF AllowancesShaped
  <2> QED BY <2>2, <2>3 DEF AllowancesShaped
<1> QED BY <1>3, <1>4, <1>5, <1>6, <1>7, <1>8, <1>9 DEF Next

(* What the others and the clock do leaves the script what it knows.       *)
LEMMA KnowledgeKept ==
  ASSUME Allowing, UNCHANGED <<world, at, setup, rewardAllowance, readVars, splitterVars>>
  PROVE  Allowing'
BY DEF Allowing, IsVaultScript, readVars, splitterVars, ShareRead, Registered

LEMMA NextAllowing ==
  ASSUME Good, AllowancesShaped, Allowing, [Next]_allVars
  PROVE  Allowing'
<1>1. ASSUME UNCHANGED world, IsVaultScript PROVE Allowing'
  BY <1>1 DEF Allowing, IsVaultScript
<1>2. UNCHANGED world
  BY DEF Next, VaultInitialize, AssociateTokensToAccount, AllowStep, StakeStep,
       AddRewardStep, ClaimStep, ReadStake, CheckUnstake, UnstakeStep, SetupVault, SetupDone,
       InitializeSplitter, GetSplittedAmountList, SetupVaultAllowance, AllowancesDone,
       SplitStep, Stop, RunAgain, OthersAct, TimePasses, Onward, allVars, clientVars
<1>3. SUFFICES ASSUME ~IsVaultScript PROVE Allowing'
  BY <1>1, <1>2
<1>4. at \in 1 .. 6
  BY <1>3 DEF Allowing
<1>5. ASSUME at' \in {1, 2, 3, 6} PROVE Allowing'
  BY <1>5 DEF Allowing
<1>6. CASE VaultInitialize \/ AssociateTokensToAccount \/ AllowStep \/ StakeStep
           \/ AddRewardStep \/ ClaimStep \/ ReadStake \/ CheckUnstake \/ UnstakeStep
  BY <1>3, <1>4, <1>6, SplitterSteps
     DEF VaultInitialize, AssociateTokensToAccount, AllowStep, StakeStep, AddRewardStep,
         ClaimStep, ReadStake, CheckUnstake, UnstakeStep
<1>7. CASE (\E v \in Vaults : SetupVault(v)) \/ SetupDone \/ InitializeSplitter
           \/ Stop \/ RunAgain \/ SplitStep
  <2>1. CASE \E v \in Vaults : SetupVault(v)
    BY <1>3, <1>4, <1>5, <2>1, SplitterSteps DEF SetupVault
  <2>2. CASE SetupDone \/ InitializeSplitter \/ SplitStep
    <3>1. at' = at + 1 /\ (Now("setup") \/ Now("register") \/ Now("split"))
      BY <2>2 DEF SetupDone, InitializeSplitter, SplitStep, Onward
    <3>2. at = 1 \/ at = 2 \/ at = 5
      BY <1>3, <1>4, <3>1, SplitterSteps
    <3> QED BY <1>5, <3>1, <3>2
  <2>3. CASE Stop \/ RunAgain
    <3>1. Len(Script) = 5
      BY <1>3, <1>4, SplitterSteps
    <3>2. at' = 6 \/ at' = 1
      BY <2>3, <3>1 DEF Stop, RunAgain
    <3> QED BY <1>5, <3>2
  <2> QED BY <1>7, <2>1, <2>2, <2>3
<1>8. CASE GetSplittedAmountList
  <2>1. /\ at' = 4 /\ amounts' = SplittedAmountList(RewardQty)
        /\ suppliesRead' = Supplies /\ setup' = [v \in Vaults |-> "allowance"]
        /\ UNCHANGED splitterVars
    BY <1>3, <1>4, <1>8, SplitterSteps DEF GetSplittedAmountList, Onward, vaultVars
  <2>2. VaultWeights = [x \in Vaults |-> suppliesRead'[x] * vaultMultipliers'[x]]
    BY <2>1 DEF VaultWeights, splitterVars
  <2>3. \A i \in DOMAIN vaults : vaults[i] \in Vaults
    BY DEF Good, SplitterGood, Vaults
  <2>4. \A v \in Vaults : ShareRead(v)' = AmountToTransfer(v, RewardQty)
    BY <2>1, <2>2 DEF ShareRead, AmountToTransfer, TotalVaultWeight, splitterVars,
         Registered, VaultWeights, A!FixedMul, A!FixedDiv
  <2>5. \A i \in DOMAIN vaults' : amounts'[i] = ShareRead(vaults[i])'
    BY <2>1, <2>3, <2>4 DEF SplittedAmountList, splitterVars
  <2>6. \A i \in DOMAIN vaults' : setup'[vaults'[i]] # "approved"
    BY <2>1, <2>3 DEF splitterVars
  <2> QED BY <2>1, <2>5, <2>6 DEF Allowing, splitterVars
<1>9. ASSUME NEW i \in DOMAIN vaults, SetupVaultAllowance(i) PROVE Allowing'
  <2>1. /\ at = 4 /\ at' = 4 /\ UNCHANGED readVars /\ UNCHANGED splitterVars
        /\ setup' = [setup EXCEPT ![vaults[i]] = "approved"]
        /\ rewardAllowance' = [rewardAllowance EXCEPT ![vaults[i]][FirstReward] = amounts[i]]
    BY <1>3, <1>4, <1>9, SplitterSteps
       DEF SetupVaultAllowance, AllowReward, AmountOf, ReadsNothing, vaultVars
  <2>2. /\ UNCHANGED <<vaults, vaultMultipliers, amounts, suppliesRead>>
        /\ \A v \in Vaults : ShareRead(v)' = ShareRead(v)
    BY <2>1 DEF readVars, splitterVars, ShareRead, Registered
  <2>3. \A k \in DOMAIN vaults : vaults[k] \in Vaults /\ (vaults[k] = vaults[i] => k = i)
    BY VaultsAssumed, SplitterAssumption DEF Good, SplitterGood, Vaults
  <2>4. ASSUME NEW k \in DOMAIN vaults, setup'[vaults[k]] = "approved"
        PROVE  rewardAllowance'[vaults[k]][FirstReward] = amounts[k]
    <3>1. CASE k = i
      BY <2>1, <2>3, <3>1, NamedOnes DEF AllowancesShaped
    <3>2. CASE k # i
      <4>1. vaults[k] # vaults[i]
        BY <2>3, <3>2
      <4>2. setup[vaults[k]] = "approved"
        BY <2>1, <2>4, <4>1 DEF AllowancesShaped
      <4>3. rewardAllowance'[vaults[k]] = rewardAllowance[vaults[k]]
        BY <2>1, <2>3, <4>1 DEF AllowancesShaped
      <4> QED BY <1>3, <2>1, <4>2, <4>3 DEF Allowing
    <3> QED BY <3>1, <3>2
  <2>5. \A k \in DOMAIN vaults : amounts[k] = ShareRead(vaults[k])
    BY <1>3, <2>1 DEF Allowing
  <2>6. \A k \in DOMAIN vaults' : amounts'[k] = ShareRead(vaults[k])'
    BY <2>1, <2>2, <2>5 DEF ShareRead, Registered
  <2> QED BY <2>1, <2>2, <2>4, <2>6 DEF Allowing
<1>10. CASE AllowancesDone
  <2>1. /\ at = 4 /\ at' = 5 /\ UNCHANGED <<setup, rewardAllowance, readVars, splitterVars>>
        /\ \A v \in Registered : setup[v] = "approved"
    BY <1>3, <1>4, <1>10, SplitterSteps
       DEF AllowancesDone, Onward, ReadsNothing, vaultVars
  <2> QED BY <1>3, <2>1 DEF Allowing, IsVaultScript, readVars, splitterVars, ShareRead,
             Registered
<1>11. CASE OthersAct
  <2>1. UNCHANGED splitterVars
    BY <1>11 DEF OthersAct, StakeIn, UnstakeFrom, ClaimFrom, AddRewardTo, At
  <2> QED BY <1>11, <2>1, KnowledgeKept DEF OthersAct
<1>12. CASE TimePasses \/ UNCHANGED allVars
  BY <1>12, KnowledgeKept DEF TimePasses, TickAll, clientVars, allVars, vaultVars
<1> QED BY <1>6, <1>7, <1>8, <1>9, <1>10, <1>11, <1>12 DEF Next

(***************************************************************************)
(* The allowances with which splitter.ts starts its split are, vault by    *)
(* vault, what splitTokens takes, unless a stake has changed since it read *)
(* the shares; in whatever order it set them, and whatever was left of     *)
(* runs before it (splitter.ts:39-53, 80-93, Splitter.sol:55-83).          *)
(***************************************************************************)
THEOREM AllowancesFit ==
  Spec => [](Now("split") /\ ~IsVaultScript /\ Supplies = suppliesRead =>
               \A v \in Registered :
                 rewardAllowance[v][FirstReward] = AmountToTransfer(v, RewardQty))
<1>1. Good /\ Allowing =>
        (Now("split") /\ ~IsVaultScript /\ Supplies = suppliesRead =>
           \A v \in Registered :
             rewardAllowance[v][FirstReward] = AmountToTransfer(v, RewardQty))
  <2> SUFFICES ASSUME Good, Allowing, Now("split"), ~IsVaultScript, Supplies = suppliesRead,
                      NEW v \in Registered
               PROVE  rewardAllowance[v][FirstReward] = AmountToTransfer(v, RewardQty)
    OBVIOUS
  <2>1. at = 5
    BY SplitterSteps DEF Allowing
  <2>2. PICK i \in DOMAIN vaults : vaults[i] = v
    BY DEF Registered, ToSet
  <2>3. rewardAllowance[v][FirstReward] = ShareRead(v)
    BY <2>1, <2>2 DEF Allowing
  <2>4. v \in Vaults
    BY <2>2 DEF Good, SplitterGood, Vaults
  <2>5. VaultWeights = [x \in Vaults |-> suppliesRead[x] * vaultMultipliers[x]]
    BY DEF VaultWeights
  <2>6. ShareRead(v) = AmountToTransfer(v, RewardQty)
    BY <2>4, <2>5 DEF ShareRead, AmountToTransfer, TotalVaultWeight
  <2> QED BY <2>3, <2>6
<1>2. Spec => [](Good /\ Allowing /\ AllowancesShaped)
  BY InitAllowing, NextAllowing, NextShaped, GoodAlways, PTL DEF Spec
<1> QED BY <1>1, <1>2, PTL

-----------------------------------------------------------------------------
(* The split that the treasury can pay *)

(* The weight of the vaults by the supplies that the script has read.      *)
WeightRead == Total(Registered, [x \in Vaults |-> suppliesRead[x] * vaultMultipliers[x]])

(* The splits that the runs of the script may still make. *)
SplitsLeft == (MaxRuns - runs) + (IF at <= 5 THEN 1 ELSE 0)

(* What they may take. *)
TheyTake == SplitsLeft * (RewardQty + 1)

TreasuryHas == rewardBalance[Treasury][FirstReward]

(* What the script has read were shares, and the treasury can still pay a  *)
(* split in each run: one takes no more than a unit above RewardQty.       *)
Affording ==
  ~IsVaultScript =>
    /\ at \in {4, 5} => WeightRead > 0 /\ DOMAIN amounts = DOMAIN vaults
    /\ runs \in 1 .. MaxRuns
    /\ TreasuryHas >= TheyTake

LEMMA TreasuryType ==
  ASSUME Good
  PROVE  /\ TreasuryHas \in Nat /\ Treasury \in Holders
         /\ Treasury # VaultA /\ Treasury # VaultB
  BY NamedOnes, Apart DEF Good, VaultsGood, VA!VaultInv, VA!TypeOK, TreasuryHas

(* Whatever the others do, the treasury has no less than before.           *)
LEMMA UserLeavesTreasury ==
  ASSUME Good, NEW v, NEW u \in Users, NEW n \in Nat,
         StakeIn(v, u, n) \/ UnstakeFrom(v, u, n) \/ ClaimFrom(v, u)
  PROVE  TreasuryHas' >= TreasuryHas
<1>1. VA!Operation(u, n) \/ VB!Operation(u, n)
  BY SameOfA, SameOfB DEF StakeIn, UnstakeFrom, ClaimFrom, At, VA!Operation, VB!Operation
<1>2. /\ Treasury \in Holders \ {VaultA} /\ Treasury \in Holders \ {VaultB}
      /\ FirstReward \in RewardTokens
  BY TreasuryType, NamedOnes
<1>3. CASE VA!Operation(u, n)
  BY <1>2, <1>3, VA!OperationPays, VaultsAssumed DEF Good, VaultsGood, TreasuryHas
<1>4. CASE VB!Operation(u, n)
  BY <1>2, <1>4, VB!OperationPays, VaultsAssumed DEF Good, VaultsGood, TreasuryHas
<1> QED BY <1>1, <1>3, <1>4

LEMMA OthersLeaveTreasury ==
  ASSUME Good, OthersAct
  PROVE  TreasuryHas' >= TreasuryHas
<1>1. ASSUME NEW v, NEW t \in RewardTokens, NEW n \in RewardAmounts,
             NEW from \in Funders \ {Treasury}, AddRewardTo(v, t, n, from)
      PROVE  TreasuryHas' >= TreasuryHas
  <2>1. rewardBalance'[Treasury] = rewardBalance[Treasury]
    BY <1>1, TreasuryType DEF AddRewardTo, At, A!AddReward, B!AddReward, Good, VaultsGood,
         VA!VaultInv, VA!TypeOK
  <2> QED BY <2>1, TreasuryType DEF TreasuryHas
<1>2. Others \subseteq Users /\ StakeAmounts \subseteq Nat /\ 0 \in Nat
  BY NamedOnes DEF Others
<1>3. ASSUME NEW v, NEW u \in Others, NEW n \in StakeAmounts,
             StakeIn(v, u, n) \/ UnstakeFrom(v, u, n)
      PROVE  TreasuryHas' >= TreasuryHas
  BY <1>2, <1>3, UserLeavesTreasury
<1>4. ASSUME NEW v, NEW u \in Users, ClaimFrom(v, u)
      PROVE  TreasuryHas' >= TreasuryHas
  BY <1>2, <1>4, UserLeavesTreasury
<1> QED BY <1>1, <1>3, <1>4 DEF OthersAct

(* A split takes at most a unit above what it was asked for.               *)
LEMMA SplitTakes ==
  ASSUME Good, SplitStep
  PROVE  TreasuryHas' >= TreasuryHas - (RewardQty + 1)
<1> DEFINE taken == AmountToTransfer(VaultA, RewardQty) + AmountToTransfer(VaultB, RewardQty)
<1>1. SplitTokens(FirstReward, Treasury, RewardQty) /\ TotalVaultWeight > 0
  BY DEF SplitStep, SplitTokens, CanSplit
<1>2. TreasuryHas' = TreasuryHas - taken
  BY <1>1, NamedOnes, SplitKeepsVaults DEF Good, TreasuryHas
<1>3. taken \in Nat
  BY <1>1, NamedOnes, SharesType DEF Good
<1>4. 2 * taken <= 2 * RewardQty + 2
  <2> DEFINE given == taken
  <2> HIDE DEF given
  <2>1. given = AmountToTransfer(VaultA, RewardQty) + AmountToTransfer(VaultB, RewardQty)
    BY DEF given
  <2>2. 2 * given <= 2 * RewardQty + 2
    BY <1>1, <2>1, NamedOnes, SharesNearAmount DEF Good
  <2> QED BY <2>2 DEF given
<1> HIDE DEF taken
<1> QED BY <1>2, <1>3, <1>4, TreasuryType, NamedOnes

LEMMA InitAffording ==
  ASSUME MaxRuns \in Nat \ {0}, InitialReward[Treasury][FirstReward] >= MaxRuns * (RewardQty + 1)
  PROVE  Init => Affording
<1> SUFFICES ASSUME Init PROVE Affording
  OBVIOUS
<1>1. at = 1 /\ runs = 1 /\ TreasuryHas = InitialReward[Treasury][FirstReward]
  BY NamedOnes, Apart DEF Init, SplitterInit, TreasuryHas
<1>2. SplitsLeft = MaxRuns
  BY <1>1 DEF SplitsLeft
<1> QED BY <1>1, <1>2 DEF Affording, TheyTake

LEMMA NextAffording ==
  ASSUME MaxRuns \in Nat \ {0}, Good, Allowing, Affording, [Next]_allVars
  PROVE  Affording'
<1> USE NamedOnes
<1> DEFINE Q == RewardQty + 1
<1>1. UNCHANGED world
  BY DEF Next, VaultInitialize, AssociateTokensToAccount, AllowStep, StakeStep,
       AddRewardStep, ClaimStep, ReadStake, CheckUnstake, UnstakeStep, SetupVault, SetupDone,
       InitializeSplitter, GetSplittedAmountList, SetupVaultAllowance, AllowancesDone,
       SplitStep, Stop, RunAgain, OthersAct, TimePasses, Onward, allVars, clientVars
<1>2. SUFFICES ASSUME ~IsVaultScript PROVE Affording'
  BY <1>1 DEF Affording, IsVaultScript
<1>3. /\ at \in 1 .. 6 /\ runs \in 1 .. MaxRuns /\ Q \in Nat
      /\ TreasuryHas \in Nat /\ TreasuryHas >= SplitsLeft * Q
  BY <1>2, TreasuryType DEF Allowing, Affording, TheyTake
<1>4. MaxRuns - runs \in Nat /\ SplitsLeft \in Nat
  BY <1>3 DEF SplitsLeft
(* A step that keeps the splits that are left, or loses one. *)
<1>5. ASSUME UNCHANGED runs, TreasuryHas' \in Nat, TreasuryHas' >= TreasuryHas,
             at' \in 1 .. 6, at' = 6 \/ at <= 5,
             at' \in {4, 5} => WeightRead' > 0 /\ DOMAIN amounts' = DOMAIN vaults'
      PROVE  Affording'
  <2>1. SplitsLeft' \in Nat /\ SplitsLeft' <= SplitsLeft
    BY <1>3, <1>4, <1>5 DEF SplitsLeft
  <2>2. SplitsLeft' * Q <= SplitsLeft * Q
    BY <1>3, <1>4, <2>1, TimesOrder
  <2>3. SplitsLeft' * Q \in Nat /\ SplitsLeft * Q \in Nat
    BY <1>3, <1>4, <2>1, TimesIsNat
  <2>4. TreasuryHas' >= TheyTake'
    BY <1>3, <1>5, <2>2, <2>3 DEF TheyTake
  <2>5. runs' \in 1 .. MaxRuns
    BY <1>3, <1>5
  <2> QED BY <1>5, <2>4, <2>5 DEF Affording
<1>6. TreasuryHas' \in Nat
  <2>1. Good'
    BY NextGood
  <2>2. rewardBalance' \in [Holders -> [RewardTokens -> Nat]]
    BY <2>1 DEF Good, VaultsGood, VA!VaultInv, VA!TypeOK
  <2> QED BY <2>2, Apart DEF TreasuryHas
<1>7. ASSUME UNCHANGED <<amounts, suppliesRead, vaults, vaultMultipliers>>
      PROVE  UNCHANGED WeightRead /\ UNCHANGED <<DOMAIN amounts, DOMAIN vaults>>
  BY <1>7 DEF WeightRead, Registered
<1>8. ASSUME UNCHANGED <<runs, at, readVars, splitterVars>>, TreasuryHas' >= TreasuryHas
      PROVE  Affording'
  <2>1. at' \in {4, 5} => WeightRead' > 0 /\ DOMAIN amounts' = DOMAIN vaults'
    BY <1>2, <1>7, <1>8 DEF Affording, readVars, splitterVars
  <2> QED BY <1>3, <1>5, <1>6, <1>8, <2>1
<1>9. ASSUME UNCHANGED rewardBalance PROVE TreasuryHas' >= TreasuryHas
  BY <1>3, <1>9 DEF TreasuryHas
<1>10. CASE VaultInitialize \/ AssociateTokensToAccount \/ AllowStep \/ StakeStep
           \/ AddRewardStep \/ ClaimStep \/ ReadStake \/ CheckUnstake \/ UnstakeStep
  BY <1>2, <1>3, <1>10, SplitterSteps
     DEF VaultInitialize, AssociateTokensToAccount, AllowStep, StakeStep, AddRewardStep,
         ClaimStep, ReadStake, CheckUnstake, UnstakeStep
<1>11. ASSUME NEW v \in Vaults, SetupVault(v) PROVE Affording'
  <2>1. at = 1 /\ UNCHANGED <<runs, at>>
    BY <1>2, <1>3, <1>11, SplitterSteps DEF SetupVault
  <2>2. CASE UNCHANGED vaultVars
    BY <1>3, <1>5, <1>6, <1>9, <2>1, <2>2 DEF vaultVars, sharedVars
  <2>3. CASE Stakes(v)
    <3>1. TreasuryHas' >= TreasuryHas
      BY <2>3, UserLeavesTreasury DEF Stakes
    <3> QED BY <1>5, <1>6, <2>1, <3>1
  <2> QED BY <1>11, <2>2, <2>3 DEF SetupVault, AllowStake
<1>12. CASE SetupDone \/ InitializeSplitter
  <2>1. at \in {1, 2} /\ at' = at + 1 /\ UNCHANGED runs
    <3>1. Now("setup") \/ Now("register")
      BY <1>12 DEF SetupDone, InitializeSplitter
    <3> QED BY <1>2, <1>3, <1>12, <3>1, SplitterSteps DEF SetupDone, InitializeSplitter, Onward
  <2>2. UNCHANGED rewardBalance
    BY <1>12 DEF SetupDone, InitializeSplitter, vaultVars, sharedVars
  <2> QED BY <1>5, <1>6, <1>9, <2>1, <2>2
<1>13. CASE GetSplittedAmountList
  <2>1. /\ at = 3 /\ at' = 4 /\ TotalVaultWeight > 0 /\ UNCHANGED <<runs, rewardBalance>>
        /\ amounts' = SplittedAmountList(RewardQty) /\ suppliesRead' = Supplies
        /\ UNCHANGED splitterVars
    BY <1>2, <1>3, <1>13, SplitterSteps DEF GetSplittedAmountList, Onward, vaultVars, sharedVars
  <2>2. WeightRead' = TotalVaultWeight
    BY <2>1 DEF WeightRead, TotalVaultWeight, VaultWeights, splitterVars, Registered
  <2>3. DOMAIN amounts' = DOMAIN vaults'
    BY <2>1 DEF SplittedAmountList, splitterVars
  <2> QED BY <1>5, <1>6, <1>9, <2>1, <2>2, <2>3
<1>14. ASSUME NEW i \in DOMAIN vaults, SetupVaultAllowance(i) PROVE Affording'
  BY <1>8, <1>9, <1>14
     DEF SetupVaultAllowance, AllowReward, ReadsNothing, vaultVars, sharedVars
<1>15. CASE AllowancesDone
  <2>1. /\ at = 4 /\ at' = 5 /\ UNCHANGED <<runs, rewardBalance, readVars, splitterVars>>
    BY <1>2, <1>3, <1>15, SplitterSteps
       DEF AllowancesDone, Onward, ReadsNothing, vaultVars, sharedVars
  <2>2. WeightRead' > 0 /\ DOMAIN amounts' = DOMAIN vaults'
    BY <1>2, <1>7, <2>1 DEF Affording, readVars, splitterVars
  <2> QED BY <1>5, <1>6, <1>9, <2>1, <2>2
<1>16. CASE SplitStep
  <2>1. at = 5 /\ at' = 6 /\ UNCHANGED runs
    BY <1>2, <1>3, <1>16, SplitterSteps DEF SplitStep, Onward
  <2>2. SplitsLeft = SplitsLeft' + 1 /\ SplitsLeft' \in Nat
    BY <1>3, <1>4, <2>1 DEF SplitsLeft
  <2>3. SplitsLeft * Q = SplitsLeft' * Q + Q /\ SplitsLeft' * Q \in Nat
    <3> DEFINE left == SplitsLeft'
    <3> HIDE DEF left
    <3>1. left \in Nat /\ SplitsLeft = left + 1
      BY <2>2 DEF left
    <3>2. (left + 1) * Q = left * Q + Q /\ left * Q \in Nat
      BY <1>3, <3>1, TimesIsNat
    <3> QED BY <3>1, <3>2 DEF left
  <2>4. TreasuryHas' >= TreasuryHas - Q
    BY <1>16, SplitTakes
  <2>5. TreasuryHas' >= TheyTake'
    BY <1>3, <1>6, <2>3, <2>4 DEF TheyTake
  <2> QED BY <1>3, <2>1, <2>5 DEF Affording
<1>17. CASE Stop
  <2>1. at <= 5 /\ at' = 6 /\ UNCHANGED <<runs, rewardBalance>>
    <3>1. Len(Script) = 5 /\ (Running <=> at <= 5)
      BY <1>2, <1>3, SplitterSteps
    <3> QED BY <1>17, <3>1 DEF Stop, vaultVars, sharedVars
  <2> QED BY <1>5, <1>6, <1>9, <2>1
<1>18. CASE RunAgain
  <2>1. /\ at = 6 /\ at' = 1 /\ runs' = runs + 1 /\ runs < MaxRuns
        /\ UNCHANGED rewardBalance
    BY <1>2, <1>3, <1>18, SplitterSteps DEF RunAgain, vaultVars, sharedVars
  <2>2. SplitsLeft' = SplitsLeft /\ TreasuryHas' = TreasuryHas
    BY <1>3, <2>1 DEF SplitsLeft, TreasuryHas
  <2>3. TreasuryHas' >= TheyTake'
    BY <1>3, <2>2 DEF TheyTake
  <2> QED BY <1>3, <2>1, <2>3 DEF Affording
<1>19. CASE OthersAct
  <2>1. UNCHANGED splitterVars
    BY <1>19 DEF OthersAct, StakeIn, UnstakeFrom, ClaimFrom, AddRewardTo, At
  <2>2. UNCHANGED <<runs, at, readVars>>
    BY <1>19 DEF OthersAct
  <2>3. TreasuryHas' >= TreasuryHas
    BY <1>19, OthersLeaveTreasury
  <2> QED BY <1>8, <2>1, <2>2, <2>3
<1>20. CASE TimePasses \/ UNCHANGED allVars
  <2>1. UNCHANGED <<runs, at, readVars, splitterVars, rewardBalance>>
    BY <1>20 DEF TimePasses, TickAll, A!Tick, clientVars, allVars, vaultVars, sharedVars
  <2> QED BY <1>8, <1>9, <2>1
<1> QED BY <1>10, <1>11, <1>12, <1>13, <1>14, <1>15, <1>16, <1>17, <1>18, <1>19, <1>20
        DEF Next

(***************************************************************************)
(* With a treasury that holds a split for each run, a unit for roundings   *)
(* included, every splitter.ts whose shares are still those it read, and   *)
(* none of them nothing, finds allowances and tokens for its split: for    *)
(* any stakers, weights, scale, interleaving and earlier runs              *)
(* (splitter.ts:39-53, 80-93, Splitter.sol:55-83).                         *)
(***************************************************************************)
THEOREM SplitsAreCovered ==
  ASSUME MaxRuns \in Nat \ {0}, InitialReward[Treasury][FirstReward] >= MaxRuns * (RewardQty + 1)
  PROVE  Spec => []SplitIsCovered
<1>1. Good /\ Allowing /\ Affording => SplitIsCovered
  <2> SUFFICES ASSUME Good, Allowing, Affording, Now("split"), Supplies = suppliesRead,
                      \A i \in DOMAIN amounts : amounts[i] > 0
               PROVE  AllowancesCover /\ CanSplit(FirstReward, Treasury, RewardQty)
    BY DEF SplitIsCovered
  <2> USE NamedOnes
  <2>1. ~IsVaultScript
    <3> SUFFICES ASSUME IsVaultScript PROVE FALSE
      OBVIOUS
    <3>1. Script = VaultScript
      BY DEF Script
    <3> QED BY <3>1 DEF Now, Running, VaultScript
  <2>2. at = 5 /\ at \in 1 .. 6
    BY <2>1, SplitterSteps DEF Allowing
  <2>3. VaultWeights = [x \in Vaults |-> suppliesRead[x] * vaultMultipliers[x]]
    BY DEF VaultWeights
  <2>4. TotalVaultWeight > 0 /\ DOMAIN amounts = DOMAIN vaults
    BY <2>1, <2>2, <2>3 DEF Affording, WeightRead, TotalVaultWeight
  <2>5. Registered = Vaults
    BY <2>4, WeightsType DEF Good
  <2>6. \A v \in Vaults : ShareRead(v) = AmountToTransfer(v, RewardQty)
    BY <2>3 DEF ShareRead, AmountToTransfer, TotalVaultWeight
  <2>7. ASSUME NEW v \in Registered
        PROVE  /\ rewardAllowance[v][FirstReward] = AmountToTransfer(v, RewardQty)
               /\ AmountToTransfer(v, RewardQty) > 0
    <3>1. PICK i \in DOMAIN vaults : vaults[i] = v
      BY <2>7 DEF Registered, ToSet
    <3>2. amounts[i] = ShareRead(v) /\ rewardAllowance[v][FirstReward] = amounts[i]
      BY <2>1, <2>2, <2>7, <3>1 DEF Allowing
    <3>3. v \in Vaults
      BY <2>5, <2>7
    <3>4. amounts[i] > 0
      BY <2>4, <3>1
    <3> QED BY <2>6, <3>2, <3>3, <3>4
  <2>8. \A v \in Vaults : /\ Shares(RewardQty)[v] = AmountToTransfer(v, RewardQty)
                         /\ Shares(RewardQty)[v] \in Nat
    BY <2>4, <2>5, SharesType DEF Good, Shares
  <2>9. AllowancesCover
    BY <2>5, <2>7, <2>8 DEF AllowancesCover
  <2>10. \A v \in Registered : Shares(RewardQty)[v] > 0
    BY <2>5, <2>7, <2>8
  <2>11. rewardBalance[Treasury][FirstReward] >= Total(Vaults, Shares(RewardQty))
    <3> DEFINE share == Shares(RewardQty)
               taken == AmountToTransfer(VaultA, RewardQty) + AmountToTransfer(VaultB, RewardQty)
    <3>1. share[VaultA] \in Nat /\ share[VaultB] \in Nat
      BY <2>8
    <3>2. taken = share[VaultA] + share[VaultB]
      BY <2>8
    <3>3. Total(Vaults, share) = share[VaultA] + share[VaultB]
      <4> HIDE DEF share
      <4> QED BY <3>1, Apart, TotalPair DEF Vaults
    <3>4. 2 * taken <= 2 * RewardQty + 2
      <4> DEFINE given == taken
      <4> HIDE DEF given
      <4>1. given = AmountToTransfer(VaultA, RewardQty) + AmountToTransfer(VaultB, RewardQty)
        BY DEF given
      <4>2. 2 * given <= 2 * RewardQty + 2
        BY <2>4, <4>1, SharesNearAmount DEF Good
      <4> QED BY <4>2 DEF given
    <3>5. taken \in Nat
      BY <3>1, <3>2
    <3>6. taken <= RewardQty + 1
      <4> HIDE DEF taken
      <4> QED BY <3>4, <3>5
    <3>7. TreasuryHas >= RewardQty + 1
      <4>1. runs \in 1 .. MaxRuns /\ TreasuryHas >= SplitsLeft * (RewardQty + 1)
        BY <2>1 DEF Affording, TheyTake
      <4>2. SplitsLeft \in Nat /\ 1 <= SplitsLeft
        BY <2>2, <4>1 DEF SplitsLeft
      <4>3. 1 * (RewardQty + 1) <= SplitsLeft * (RewardQty + 1)
        BY <4>2, TimesOrder
      <4>4. SplitsLeft * (RewardQty + 1) \in Nat
        BY <4>2, TimesIsNat
      <4> QED BY <4>1, <4>3, <4>4, TreasuryType
    <3> HIDE DEF taken, share
    <3>8. Total(Vaults, share) = taken
      BY <3>2, <3>3
    <3> QED BY <3>5, <3>6, <3>7, <3>8, TreasuryType DEF share, TreasuryHas
  <2> QED BY <2>4, <2>9, <2>10, <2>11 DEF CanSplit
<1>2. Spec => [](Good /\ Allowing /\ AllowancesShaped /\ Affording)
  BY InitAllowing, NextAllowing, NextShaped, InitAffording, NextAffording, GoodAlways, PTL
     DEF Spec
<1> QED BY <1>1, <1>2, PTL

=============================================================================
