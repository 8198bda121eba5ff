------------------------------- MODULE Vault -------------------------------
(***************************************************************************)
(* contracts/incentives/Vault.sol: users stake one token and earn rewards  *)
(* in others.  Each reward raises a per-share index; a user's due is its   *)
(* stake times how far the index has moved since its last claim.  The      *)
(* arithmetic is PRBMathUD60x18's: div rounds down, mul rounds half up.    *)
(* A revert anywhere undoes the transaction, so each require is a conjunct *)
(* of the guard.                                                           *)
(***************************************************************************)
EXTENDS Sums, Sequences

CONSTANTS
  Users,
  TheVault,             \* the address of this contract
  Holders,              \* the accounts of the tokens' ledgers
  Funders,              \* addresses rewards are taken from (_from)
  RewardTokens,         \* tokens other than the staking token and address(0)
  Unassociated,         \* <<u, t>>: u's account does not accept the token t
  Scale,                \* 1e18, the fixed-point unit
  MaxRewardsPerTxn,     \* MAX_REWARDS_PER_TXN, 40
  LockingPeriod,        \* stakingTokenLockingPeriod
  InitialStaking,       \* [Users -> Nat]: staking tokens the users start with
  InitialReward,        \* [Funders -> [RewardTokens -> Nat]]
  StakeAmounts, RewardAmounts,   \* bounds: the amounts that are tried
  MaxTime               \* bound on the clock

ASSUME VaultAssumption ==
  /\ IsFiniteSet(Users) /\ IsFiniteSet(RewardTokens)
  /\ TheVault \notin Users \cup Funders
  /\ Users \cup Funders \cup {TheVault} \subseteq Holders
  /\ Unassociated \subseteq Users \X RewardTokens
  /\ Scale \in Nat \ {0} /\ MaxRewardsPerTxn \in Nat \ {0}
  /\ LockingPeriod \in Nat \ {0}
  /\ InitialStaking \in [Users -> Nat]
  /\ InitialReward \in [Funders -> [RewardTokens -> Nat]]
  /\ StakeAmounts \subseteq Nat /\ RewardAmounts \subseteq Nat
  /\ MaxTime \in Nat

VARIABLES
  now,                      \* block.timestamp
  stakingBalance,           \* the staking token's ledger (external)
  rewardBalance,            \* [holder][t]: the reward tokens' ledgers (external)
  stakingTokenTotalSupply,
  contribution,             \* [u]: usersStakingTokenContribution
  rewardClaimed,            \* [u][t]: its rewardClaimed mapping
  rewardTokens,             \* the reward tokens in the order they were added
  perShareAmount            \* [t]: tokensRewardInfo's perShareAmount

vars == <<now, stakingBalance, rewardBalance, stakingTokenTotalSupply,
          contribution, rewardClaimed, rewardTokens, perShareAmount>>

NoContribution ==
  [alreadyStaked |-> FALSE, stakingTokenTotal |-> 0, lastLockedTime |-> 0]

Contribution ==
  [alreadyStaked : BOOLEAN, stakingTokenTotal : Nat, lastLockedTime : Nat]

TypeOK ==
  /\ now \in Nat
  /\ stakingBalance \in [Holders -> Nat]
  /\ rewardBalance \in [Holders -> [RewardTokens -> Nat]]
  /\ stakingTokenTotalSupply \in Nat
  /\ contribution \in [Users -> Contribution]
  /\ rewardClaimed \in [Users -> [RewardTokens -> Nat]]
  /\ rewardTokens \in Seq(RewardTokens)
  /\ perShareAmount \in [RewardTokens -> Nat]

-----------------------------------------------------------------------------
(* PRBMathUD60x18 *)
FixedDiv(x, y) == (x * Scale) \div y
FixedMul(x, y) == (x * y + Scale \div 2) \div Scale

Stake(u) == contribution[u].stakingTokenTotal

Listed == {rewardTokens[i] : i \in DOMAIN rewardTokens}

(* _unclaimedRewardAmountDetails *)
PerShareUnclaimed(u, t) == perShareAmount[t] - rewardClaimed[u][t]
UnclaimedAmount(u, t) == FixedMul(Stake(u), PerShareUnclaimed(u, t))

(* Slips to catch: one reward too few per call; the claimed index grows by *)
(* the whole index; a stake changes with rewards left unclaimed.           *)
PaidAtOffByOne(u) ==
  LET due == {i \in DOMAIN rewardTokens : UnclaimedAmount(u, rewardTokens[i]) > 0}
  IN {i \in due : Cardinality({j \in due : j <= i}) < MaxRewardsPerTxn}

ClaimedAfterWholeIndex(u) ==
  [t \in RewardTokens |->
     IF t \in Listed /\ UnclaimedAmount(u, t) > 0
     THEN rewardClaimed[u][t] + perShareAmount[t] ELSE rewardClaimed[u][t]]

NothingLeftAssumed(u) == TRUE

(* The positions of the reward tokens that are due to u, and of those a    *)
(* call pays: the first MAX_REWARDS_PER_TXN of them, in list order.        *)
DueAt(u) ==
  {i \in DOMAIN rewardTokens : UnclaimedAmount(u, rewardTokens[i]) > 0}
PaidAt(u) ==
  {i \in DueAt(u) : Cardinality({j \in DueAt(u) : j < i}) < MaxRewardsPerTxn}
Paid(u) == {rewardTokens[i] : i \in PaidAt(u)}

(* unclaimedRewardsCount == 0 *)
NothingLeftUnclaimed(u) == PaidAt(u) = DueAt(u)

(* rewardClaimed[u] once claimRewardsInternally(u) has run. *)
ClaimedAfter(u) ==
  [t \in RewardTokens |->
     IF t \in Paid(u) THEN rewardClaimed[u][t] + PerShareUnclaimed(u, t)
     ELSE rewardClaimed[u][t]]

(* The reward transfers of one claim; a single failure reverts them all. *)
PayRewards(u) ==
  /\ \A t \in Paid(u) :
       /\ <<u, t>> \notin Unassociated
       /\ rewardBalance[TheVault][t] >= UnclaimedAmount(u, t)
  /\ rewardBalance' =
       [rewardBalance EXCEPT
          ![TheVault] = [t \in RewardTokens |->
             IF t \in Paid(u) THEN @[t] - UnclaimedAmount(u, t) ELSE @[t]],
          ![u] = [t \in RewardTokens |->
             IF t \in Paid(u) THEN @[t] + UnclaimedAmount(u, t) ELSE @[t]]]

(* canUserUnStakeTokens *)
CanUserUnStakeTokens(u, amount) ==
  /\ contribution[u].alreadyStaked
  /\ Stake(u) > 0
  /\ Stake(u) >= amount
  /\ now > contribution[u].lastLockedTime + LockingPeriod

-----------------------------------------------------------------------------
(* The user's contribution after _stake. *)
Contributed(u, amount) ==
  [alreadyStaked |-> TRUE,
   stakingTokenTotal |-> Stake(u) + amount,
   lastLockedTime |-> now]

(* A slip to catch: only a user's first stake is added to the supply. *)
TakeStakeUncounted(u, amount) ==
  /\ stakingBalance[u] >= amount
  /\ contribution' = [contribution EXCEPT ![u] = Contributed(u, amount)]
  /\ stakingTokenTotalSupply' =
       stakingTokenTotalSupply + (IF Stake(u) = 0 THEN amount ELSE 0)
  /\ stakingBalance' =
       [stakingBalance EXCEPT ![u] = @ - amount, ![TheVault] = @ + amount]

(* _stake *)
TakeStake(u, amount) ==
  /\ stakingBalance[u] >= amount
  /\ contribution' =
       [contribution EXCEPT ![u] = Contributed(u, amount)]
  /\ stakingTokenTotalSupply' = stakingTokenTotalSupply + amount
  /\ stakingBalance' =
       [stakingBalance EXCEPT ![u] = @ - amount, ![TheVault] = @ + amount]

(* A slip to catch: _setUpStaker is left out. *)
FirstStakeFromZero(u, amount) ==
  /\ amount > 0
  /\ ~contribution[u].alreadyStaked
  /\ TakeStake(u, amount)
  /\ UNCHANGED <<now, rewardBalance, rewardClaimed, rewardTokens, perShareAmount>>

(* stake by a user who has none: _setUpStaker starts it at today's index. *)
FirstStake(u, amount) ==
  /\ amount > 0
  /\ ~contribution[u].alreadyStaked
  /\ rewardClaimed' =
       [rewardClaimed EXCEPT ![u] =
          [t \in RewardTokens |-> IF t \in Listed THEN perShareAmount[t] ELSE @[t]]]
  /\ TakeStake(u, amount)
  /\ UNCHANGED <<now, rewardBalance, rewardTokens, perShareAmount>>

(* stake by a staker whose rewards one call can pay. *)
StakeMore(u, amount) ==
  /\ amount > 0
  /\ contribution[u].alreadyStaked
  /\ NothingLeftUnclaimed(u)
  /\ rewardClaimed' = [rewardClaimed EXCEPT ![u] = ClaimedAfter(u)]
  /\ PayRewards(u)
  /\ TakeStake(u, amount)
  /\ UNCHANGED <<now, rewardTokens, perShareAmount>>

(* claimRewards, by anyone for u; it is also all that happens in a stake   *)
(* or an unstake that leaves rewards unclaimed and returns false.          *)
ClaimRewards(u) ==
  /\ rewardClaimed' = [rewardClaimed EXCEPT ![u] = ClaimedAfter(u)]
  /\ PayRewards(u)
  /\ UNCHANGED <<now, stakingBalance, stakingTokenTotalSupply, contribution,
                 rewardTokens, perShareAmount>>

StakeDeferred(u, amount) ==
  /\ amount > 0
  /\ contribution[u].alreadyStaked
  /\ ~NothingLeftUnclaimed(u)
  /\ ClaimRewards(u)

UnstakeDeferred(u, amount) ==
  /\ amount > 0
  /\ CanUserUnStakeTokens(u, amount)
  /\ ~NothingLeftUnclaimed(u)
  /\ ClaimRewards(u)

(* unstake: _unstake forgets a user that takes everything back. *)
Unstake(u, amount) ==
  /\ amount > 0
  /\ CanUserUnStakeTokens(u, amount)
  /\ NothingLeftUnclaimed(u)
  /\ PayRewards(u)
  /\ stakingTokenTotalSupply' = stakingTokenTotalSupply - amount
  /\ stakingBalance[TheVault] >= amount
  /\ stakingBalance' =
       [stakingBalance EXCEPT ![u] = @ + amount, ![TheVault] = @ - amount]
  /\ \/ /\ Stake(u) = amount
        /\ contribution' = [contribution EXCEPT ![u] = NoContribution]
        /\ rewardClaimed' =
             [rewardClaimed EXCEPT ![u] =
                [t \in RewardTokens |-> IF t \in Listed THEN 0 ELSE @[t]]]
     \/ /\ Stake(u) # amount
        /\ contribution' =
             [contribution EXCEPT ![u].stakingTokenTotal = @ - amount]
        /\ rewardClaimed' = [rewardClaimed EXCEPT ![u] = ClaimedAfter(u)]
  /\ UNCHANGED <<now, rewardTokens, perShareAmount>>

(* What addReward records: the list of reward tokens and their indices.    *)
ListedAfter(t) == IF t \in Listed THEN rewardTokens ELSE Append(rewardTokens, t)
IndexAfter(t, amount) ==
  [perShareAmount EXCEPT ![t] = @ + FixedDiv(amount, stakingTokenTotalSupply)]

(* addReward, in a transaction signed by the vault-add-reward user. *)
AddReward(t, amount, from) ==
  /\ amount > 0
  /\ stakingTokenTotalSupply > 0
  /\ rewardBalance[from][t] >= amount
  /\ rewardTokens' = ListedAfter(t)
  /\ perShareAmount' = IndexAfter(t, amount)
  /\ rewardBalance' =
       [rewardBalance EXCEPT ![from][t] = @ - amount, ![TheVault][t] = @ + amount]
  /\ UNCHANGED <<now, stakingBalance, stakingTokenTotalSupply, contribution,
                 rewardClaimed>>

Tick ==
  /\ now < MaxTime
  /\ now' = now + 1
  /\ UNCHANGED <<stakingBalance, rewardBalance, stakingTokenTotalSupply,
                 contribution, rewardClaimed, rewardTokens, perShareAmount>>

-----------------------------------------------------------------------------
Init ==
  /\ now = 0
  /\ stakingBalance =
       [x \in Holders |-> IF x \in Users THEN InitialStaking[x] ELSE 0]
  /\ rewardBalance =
       [x \in Holders |->
          [t \in RewardTokens |-> IF x \in Funders THEN InitialReward[x][t] ELSE 0]]
  /\ stakingTokenTotalSupply = 0
  /\ contribution = [u \in Users |-> NoContribution]
  /\ rewardClaimed = [u \in Users |-> [t \in RewardTokens |-> 0]]
  /\ rewardTokens = <<>>
  /\ perShareAmount = [t \in RewardTokens |-> 0]

(* Bound: no stake is made whose lock would outlive the clock. *)
LockEndsInTime == now + LockingPeriod < MaxTime

StakerNext(u, amount) ==
  \/ LockEndsInTime /\ FirstStake(u, amount)
  \/ LockEndsInTime /\ StakeMore(u, amount)
  \/ StakeDeferred(u, amount)
  \/ Unstake(u, amount)
  \/ UnstakeDeferred(u, amount)

Next ==
  \/ \E u \in Users, n \in StakeAmounts : StakerNext(u, n)
  \/ \E u \in Users : ClaimRewards(u)
  \/ \E t \in RewardTokens, n \in RewardAmounts, from \in Funders :
       AddReward(t, n, from)
  \/ Tick

Spec == Init /\ [][Next]_vars

(* A staker that wants out calls unstake for its whole stake, again and    *)
(* again; rewards that one call cannot pay are paid by the next.           *)
Leave(u) == \E n \in StakeAmounts : Unstake(u, n) \/ UnstakeDeferred(u, n)

FairSpec ==
  /\ Spec
  /\ WF_vars(Tick)
  /\ \A u \in Users : WF_vars(Leave(u))

-----------------------------------------------------------------------------
(* Properties *)

(***************************************************************************)
(* The vault owns exactly the rewards it owes: what was added and not yet  *)
(* paid is the sum of what its stakers are due (Vault.sol:113-146,         *)
(* 224-259, 331-347).  Only where no division leaves a remainder: see      *)
(* UnstakeCompletes for what rounding does.                                *)
(***************************************************************************)
RewardsCovered ==
  \A t \in RewardTokens :
    rewardBalance[TheVault][t] =
      Total(Users, [u \in Users |-> UnclaimedAmount(u, t)])

(***************************************************************************)
(* The recorded supply, by which every reward is divided, is the sum of    *)
(* the recorded stakes, and the vault owns that many staking tokens        *)
(* (Vault.sol:276-318).                                                    *)
(***************************************************************************)
StakesBacked ==
  /\ stakingTokenTotalSupply = Total(Users, [u \in Users |-> Stake(u)])
  /\ stakingBalance[TheVault] >= stakingTokenTotalSupply

(***************************************************************************)
(* A user's claimed index never passes the token's index: the unsigned     *)
(* subtraction of _unclaimedRewardAmountDetails (Vault.sol:345) never      *)
(* underflows, through any order of full unstakes, restakes and rewards.   *)
(***************************************************************************)
ClaimedWithinIndex ==
  \A u \in Users, t \in RewardTokens : rewardClaimed[u][t] <= perShareAmount[t]

(***************************************************************************)
(* A stake only changes with the user's rewards settled: right after any   *)
(* stake or unstake nothing is due, so no reward is earned by tokens that  *)
(* were not staked when it was added (Vault.sol:85-111).                   *)
(***************************************************************************)
StakeChangesSettled ==
  [][\A u \in Users :
       Stake(u)' # Stake(u) => \A t \in RewardTokens : UnclaimedAmount(u, t)' = 0]_vars

(***************************************************************************)
(* "Verify existing rewards will not be given out during staking for new   *)
(* user" (test/vault-test.ts:276): a user's first stake, a return after a  *)
(* full unstake included, is due nothing, whatever the rounding.           *)
(***************************************************************************)
NewStakerOwedNothing ==
  [][\A u \in Users :
       Stake(u) = 0 /\ Stake(u)' > 0
         => \A t \in RewardTokens : PerShareUnclaimed(u, t)' = 0]_vars

(***************************************************************************)
(* "Verify multiple unstake calls required when rewards can not be claimed *)
(* automatically in one unstake call" (test/vault-test.ts:370): a staker   *)
(* that keeps calling unstake gets its tokens back in the end.             *)
(***************************************************************************)
UnstakeCompletes == \A u \in Users : (Stake(u) > 0) ~> (Stake(u) = 0)
=============================================================================
