--------------------------- MODULE StakingClient ---------------------------
(***************************************************************************)
(* The clients of vaults and splitters, integrationTest/incentives/        *)
(* vault.ts and splitter.ts, with other stakers, and others that add       *)
(* rewards, at work between any two of their steps.  A script that throws  *)
(* ends; it may be run again, and finds what the run before it left.       *)
(***************************************************************************)
EXTENDS Splitter

CONSTANTS
  Staker,           \* uiUser, who stakes
  Treasury,         \* the account rewards are taken from, one of Funders
  StakeQty,         \* STAKING_TOKEN_QTY
  RewardQty,        \* REWARD_TOKEN_QTY
  FirstReward, SecondReward,  \* REWARD_TOKEN and REWARD_TOKEN_1
  Multipliers,      \* those of initialize, [1, 14, 30]
  MaxRuns, MaxActs, \* bounds: runs of the script, transactions of the others
  Worlds            \* the script, and what the others do

ASSUME ClientAssumption ==
  /\ Staker \in Users /\ Treasury \in Funders
  /\ FirstReward \in RewardTokens /\ SecondReward \in RewardTokens
  /\ StakeQty \in Nat /\ RewardQty \in Nat /\ Multipliers \in Seq(Nat)

VARIABLES
  world,            \* one of Worlds
  at,               \* the step of the script that is next
  setup,            \* [v]: how far Promise.all has come with v
  vaultsReady,      \* the vaults that are initialised
  associated,       \* the reward tokens the staker's account accepts
  stakeAllowance,   \* [v]: what v may take of the staker's tokens
  rewardAllowance,  \* [v][t]: and of the treasury's
  amounts,          \* the split the script has read
  amount,           \* the stake it has read
  waitUntil,        \* the end of its delay, or the time of a check that held
  suppliesRead,     \* history: the vaults' supplies as it read the split
  rewardedLate,     \* history: others added a reward after the script's claims
  runs, acted, stopped

readVars == <<amounts, amount, waitUntil, suppliesRead>>
clientVars == <<world, at, setup, vaultsReady, associated, stakeAllowance,
                rewardAllowance, readVars, rewardedLate, runs, acted, stopped>>
vaultVars == <<sharedVars, ofA, ofB, splitterVars>>
allVars == <<vaultVars, clientVars>>

-----------------------------------------------------------------------------
(* A slip to catch: the claims are left to unstake. *)
VaultScriptUnclaimed ==
  <<"initialize", "associate", "allowStake", "stake", "allowFirst", "addFirst",
    "allowSecond", "addSecond", "readStake", "check", "unstake">>

VaultScript ==
  <<"initialize", "associate", "allowStake", "stake", "allowFirst", "addFirst",
    "allowSecond", "addSecond", "claim", "claim", "readStake", "check",
    "unstake">>

SplitterScript == <<"setup", "register", "readAmounts", "allow", "split">>

IsVaultScript == world.client = "vault.ts"

Script == IF IsVaultScript THEN VaultScript ELSE SplitterScript

Running == at \in DOMAIN Script

Now(do) == Running /\ Script[at] = do

(* The vault of vault.ts is the one its file names. *)
TheirVault == VaultA

(* isInitializationPending *)
SplitterPending == vaults = <<>>

Onward == at' = at + 1 /\ UNCHANGED <<world, runs, acted, stopped, rewardedLate>>

ReadsNothing == UNCHANGED readVars

(* Common.setTokenAllowance sets, and does not add. *)
AllowStake(v) ==
  /\ stakeAllowance' = [stakeAllowance EXCEPT ![v] = StakeQty]
  /\ UNCHANGED <<vaultVars, rewardAllowance>>
AllowReward(v, t, n) ==
  /\ rewardAllowance' = [rewardAllowance EXCEPT ![v][t] = n]
  /\ UNCHANGED <<vaultVars, stakeAllowance>>

(* A claim of the staker that pays a token its account does not accept     *)
(* reverts.                                                                *)
Accepted(v) == PaidBy(v, Staker) \subseteq associated

(* Vault.stake: what it returns is only logged. *)
Stakes(v) ==
  /\ v \in vaultsReady /\ stakeAllowance[v] >= StakeQty
  /\ StakeOf(v, Staker) > 0 => Accepted(v)
  /\ StakeIn(v, Staker, StakeQty)
  /\ stakeAllowance' =
       [stakeAllowance EXCEPT ![v] = IF StakeOf(v, Staker)' = StakeOf(v, Staker)
                                     THEN @ ELSE @ - StakeQty]
  /\ UNCHANGED rewardAllowance

AddsReward(v, t) ==
  /\ rewardAllowance[v][t] >= RewardQty
  /\ AddRewardTo(v, t, RewardQty, Treasury)
  /\ rewardAllowance' = [rewardAllowance EXCEPT ![v][t] = @ - RewardQty]
  /\ UNCHANGED stakeAllowance

-----------------------------------------------------------------------------
(* vault.ts *)

VaultInitialize ==
  /\ Now("initialize") /\ Onward /\ ReadsNothing
  /\ vaultsReady' = vaultsReady \cup {TheirVault}
  /\ UNCHANGED <<vaultVars, setup, associated, stakeAllowance, rewardAllowance>>

AssociateTokensToAccount ==
  /\ Now("associate") /\ Onward /\ ReadsNothing
  /\ associated' = associated \cup {FirstReward, SecondReward}
  /\ UNCHANGED <<vaultVars, setup, vaultsReady, stakeAllowance, rewardAllowance>>

AllowStep ==
  /\ \/ Now("allowStake") /\ AllowStake(TheirVault)
     \/ Now("allowFirst") /\ AllowReward(TheirVault, FirstReward, RewardQty)
     \/ Now("allowSecond") /\ AllowReward(TheirVault, SecondReward, RewardQty)
  /\ Onward /\ ReadsNothing
  /\ UNCHANGED <<setup, vaultsReady, associated>>

StakeStep ==
  /\ Now("stake") /\ Stakes(TheirVault)
  /\ Onward /\ ReadsNothing
  /\ UNCHANGED <<setup, vaultsReady, associated>>

AddRewardStep ==
  /\ \/ Now("addFirst") /\ AddsReward(TheirVault, FirstReward)
     \/ Now("addSecond") /\ AddsReward(TheirVault, SecondReward)
  /\ Onward /\ ReadsNothing
  /\ UNCHANGED <<setup, vaultsReady, associated>>

ClaimStep ==
  /\ Now("claim") /\ Accepted(TheirVault) /\ ClaimFrom(TheirVault, Staker)
  /\ Onward /\ ReadsNothing
  /\ UNCHANGED <<setup, vaultsReady, associated, stakeAllowance, rewardAllowance>>

ReadStake ==
  /\ Now("readStake")
  /\ amount' = StakeOf(TheirVault, Staker)
  /\ Onward /\ UNCHANGED <<amounts, waitUntil, suppliesRead, vaultVars, setup,
                           vaultsReady, associated, stakeAllowance, rewardAllowance>>

(* canUserUnStakeTokens; if it is false a delay as long as the lock.       *)
CheckUnstake ==
  /\ Now("check")
  /\ waitUntil' = IF CanUnstakeFrom(TheirVault, Staker, amount)
                  THEN now ELSE now + LockingPeriod
  /\ Onward /\ UNCHANGED <<amounts, amount, suppliesRead, vaultVars, setup,
                           vaultsReady, associated, stakeAllowance, rewardAllowance>>

(* It asks again, and ends without unstake if it is false again.  What     *)
(* unstake returns is only logged, too.                                    *)
UnstakeStep ==
  /\ Now("unstake") /\ now >= waitUntil
  /\ \/ /\ CanUnstakeFrom(TheirVault, Staker, amount)
        /\ Accepted(TheirVault)
        /\ UnstakeFrom(TheirVault, Staker, amount)
     \/ ~CanUnstakeFrom(TheirVault, Staker, amount) /\ UNCHANGED vaultVars
  /\ Onward /\ ReadsNothing
  /\ UNCHANGED <<setup, vaultsReady, associated, stakeAllowance, rewardAllowance>>

-----------------------------------------------------------------------------
(* splitter.ts *)

(* One step for one of the new vaults, with Promise.all in any order: it   *)
(* is initialised, allowed the stake, and staked in.                       *)
SetupVault(v) ==
  /\ Now("setup") /\ SplitterPending
  /\ \/ /\ setup[v] = "deployed"
        /\ vaultsReady' = vaultsReady \cup {v}
        /\ setup' = [setup EXCEPT ![v] = "initialized"]
        /\ UNCHANGED <<vaultVars, stakeAllowance, rewardAllowance>>
     \/ /\ setup[v] = "initialized"
        /\ AllowStake(v)
        /\ setup' = [setup EXCEPT ![v] = "allowed"]
        /\ UNCHANGED vaultsReady
     \/ /\ setup[v] = "allowed"
        /\ Stakes(v)
        /\ setup' = [setup EXCEPT ![v] = "staked"]
        /\ UNCHANGED vaultsReady
  /\ ReadsNothing
  /\ UNCHANGED <<world, at, associated, rewardedLate, runs, acted, stopped>>

SetupDone ==
  /\ Now("setup")
  /\ SplitterPending => \A v \in Vaults : setup[v] = "staked"
  /\ Onward /\ ReadsNothing
  /\ UNCHANGED <<vaultVars, setup, vaultsReady, associated, stakeAllowance,
                 rewardAllowance>>

InitializeSplitter ==
  /\ Now("register")
  /\ \/ SplitterPending /\ Initialize(<<VaultA, VaultB>>, Multipliers)
     \/ ~SplitterPending /\ UNCHANGED splitterVars
  /\ Onward /\ ReadsNothing
  /\ UNCHANGED <<sharedVars, ofA, ofB, setup, vaultsReady, associated,
                 stakeAllowance, rewardAllowance>>

GetSplittedAmountList ==
  /\ Now("readAmounts")
  /\ TotalVaultWeight > 0
  /\ amounts' = SplittedAmountList(RewardQty)
  /\ suppliesRead' = Supplies
  /\ setup' = [v \in Vaults |-> "allowance"]
  /\ Onward
  /\ UNCHANGED <<amount, waitUntil, vaultVars, vaultsReady, associated, stakeAllowance,
                 rewardAllowance>>

(* A slip to catch: the amounts are those of the vaults in another order.  *)
AmountOfOther(i) == amounts[Len(vaults) + 1 - i]

AmountOf(i) == amounts[i]

(* setupVaultAllowances, with Promise.all in any order. *)
SetupVaultAllowance(i) ==
  /\ Now("allow") /\ setup[vaults[i]] = "allowance"
  /\ AllowReward(vaults[i], FirstReward, AmountOf(i))
  /\ setup' = [setup EXCEPT ![vaults[i]] = "approved"]
  /\ ReadsNothing
  /\ UNCHANGED <<world, at, vaultsReady, associated, rewardedLate, runs, acted,
                 stopped>>

AllowancesDone ==
  /\ Now("allow")
  /\ \A v \in Registered : setup[v] = "approved"
  /\ Onward /\ ReadsNothing
  /\ UNCHANGED <<vaultVars, setup, vaultsReady, associated, stakeAllowance,
                 rewardAllowance>>

(* The vaults may take their shares of the treasury's tokens. *)
AllowancesCover ==
  \A v \in Registered :
    rewardAllowance[v][FirstReward] >= AmountToTransfer(v, RewardQty)

SplitStep ==
  /\ Now("split") /\ AllowancesCover
  /\ SplitTokens(FirstReward, Treasury, RewardQty)
  /\ rewardAllowance' =
       [v \in Vaults |-> [rewardAllowance[v] EXCEPT ![FirstReward] =
          IF v \in Registered THEN @ - AmountToTransfer(v, RewardQty) ELSE @]]
  /\ Onward /\ ReadsNothing
  /\ UNCHANGED <<setup, vaultsReady, associated, stakeAllowance>>

-----------------------------------------------------------------------------
(* An exception, at any step: Helper.processError ends the process. *)
Stop ==
  /\ Running /\ at' = Len(Script) + 1 /\ stopped' = TRUE
  /\ UNCHANGED <<vaultVars, world, setup, vaultsReady, associated, stakeAllowance,
                 rewardAllowance, readVars, rewardedLate, runs, acted>>

(* The script is run again.  Vaults that were not registered are not in    *)
(* its file: it deploys others, so a run that finds some begins no more.   *)
RunAgain ==
  /\ ~Running /\ runs < MaxRuns
  /\ IsVaultScript \/ ~SplitterPending
  /\ at' = 1 /\ runs' = runs + 1 /\ stopped' = FALSE /\ rewardedLate' = FALSE
  /\ ReadsNothing
  /\ UNCHANGED <<vaultVars, world, setup, vaultsReady, associated, stakeAllowance,
                 rewardAllowance, acted>>

Others == Users \ {Staker}

ClaimsOver == \A i \in at .. Len(Script) : Script[i] # "claim"

(* The others' transactions, claims for the script's staker among them; a  *)
(* staker with a token it does not accept is in Unassociated.              *)
OthersAct ==
  /\ acted < MaxActs /\ acted' = acted + 1
  /\ \E v \in vaultsReady :
       \/ /\ world.stakers
          /\ \E u \in Others, n \in StakeAmounts : StakeIn(v, u, n) \/ UnstakeFrom(v, u, n)
          /\ UNCHANGED rewardedLate
       \/ /\ world.stakers
          /\ \E u \in Users : (u = Staker => Accepted(v)) /\ ClaimFrom(v, u)
          /\ UNCHANGED rewardedLate
       \/ /\ world.rewards
          /\ \E t \in RewardTokens, n \in RewardAmounts, from \in Funders \ {Treasury} :
               AddRewardTo(v, t, n, from)
          /\ rewardedLate' = (rewardedLate \/ ClaimsOver)
  /\ UNCHANGED <<world, at, setup, vaultsReady, associated, stakeAllowance,
                 rewardAllowance, readVars, runs, stopped>>

TimePasses == TickAll /\ UNCHANGED clientVars

Init ==
  /\ SplitterInit
  /\ world \in Worlds
  /\ at = 1 /\ runs = 1 /\ acted = 0 /\ stopped = FALSE
  /\ setup = [v \in Vaults |-> "deployed"]
  /\ vaultsReady = {} /\ associated = {}
  /\ stakeAllowance = [v \in Vaults |-> 0]
  /\ rewardAllowance = [v \in Vaults |-> [t \in RewardTokens |-> 0]]
  /\ amounts = <<>> /\ amount = 0 /\ waitUntil = 0 /\ rewardedLate = FALSE
  /\ suppliesRead = [v \in Vaults |-> 0]

Next ==
  \/ VaultInitialize \/ AssociateTokensToAccount \/ AllowStep \/ StakeStep
  \/ AddRewardStep \/ ClaimStep \/ ReadStake \/ CheckUnstake
  \/ UnstakeStep
  \/ \E v \in Vaults : SetupVault(v)
  \/ SetupDone \/ InitializeSplitter \/ GetSplittedAmountList
  \/ \E i \in DOMAIN vaults : SetupVaultAllowance(i)
  \/ AllowancesDone \/ SplitStep
  \/ Stop \/ RunAgain \/ OthersAct \/ TimePasses

Spec == Init /\ [][Next]_allVars

-----------------------------------------------------------------------------
(* Properties *)

(***************************************************************************)
(* The allowances a script sets are those its splitTokens takes, vault by  *)
(* vault: while no stake has changed since it read the split, and no share *)
(* rounds to nothing, the split goes through (Splitter.sol:55-83,          *)
(* splitter.ts:39-53, 80-93).  A stake in between may make it revert.      *)
(***************************************************************************)
SplitIsCovered ==
  Now("split") /\ Supplies = suppliesRead /\ (\A i \in DOMAIN amounts : amounts[i] > 0)
    => AllowancesCover /\ CanSplit(FirstReward, Treasury, RewardQty)

(***************************************************************************)
(* However the percentages truncate and the shares round, what a split     *)
(* takes is the amount asked for, but for half a unit per vault and what   *)
(* the percentages lose (Splitter.sol:55-83, 104-125).                     *)
(***************************************************************************)
SplitNearAmount ==
  [][SplitStep =>
       LET k == Len(vaults)
           taken == rewardBalance[Treasury][FirstReward] - rewardBalance'[Treasury][FirstReward]
       IN  /\ 2 * taken <= 2 * RewardQty + k
           /\ 2 * taken * Scale + k * Scale + 2 * k * RewardQty >= 2 * RewardQty * Scale]_allVars

(***************************************************************************)
(* A run of vault.ts without an exception has its staker's tokens back, in *)
(* spite of the limit of rewards per call and of what the runs before it   *)
(* left, unless a reward was added after its claims, when unstake may      *)
(* return false, or it first asked in the second of its stake, when its    *)
(* delay is too short by one: the script looks at neither                  *)
(* (vault.ts:49-83, Vault.sol:98-111, 244-255).                            *)
(***************************************************************************)
WaitedEnough == waitUntil > LockedSince(TheirVault, Staker) + LockingPeriod

ScriptGetsItsStakeBack ==
  IsVaultScript /\ ~Running /\ ~stopped /\ ~rewardedLate /\ WaitedEnough =>
    StakeOf(TheirVault, Staker) = 0
=============================================================================
