------------------------------ MODULE MCVault ------------------------------
(* Values of Vault's constants for TLC. *)
EXTENDS Vault

CONSTANTS u2, t2, StakingEach, RewardEach

MCHolders == Users \cup Funders \cup {TheVault}
MCStaking == [u \in Users |-> StakingEach]
(* u2 has enough for one stake of StakeAmounts, everyone else for two. *)
MCUnevenStaking == [u \in Users |-> IF u = u2 THEN StakingEach \div 2 ELSE StakingEach]
(* There is enough for one reward of t2, and for two of any other token. *)
MCReward ==
  [f \in Funders |->
     [t \in RewardTokens |-> IF t = t2 THEN RewardEach \div 2 ELSE RewardEach]]
=============================================================================
