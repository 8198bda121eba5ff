-------------------------- MODULE MCStakingClient --------------------------
(* Values of StakingClient's constants for TLC. *)
EXTENDS StakingClient

CONSTANTS u2, t2, StakingEach, RewardEach

World(c, s, r) == [client |-> c, stakers |-> s, rewards |-> r]

MCWorlds ==
  {World("vault.ts", TRUE, FALSE), World("vault.ts", FALSE, TRUE),
   World("splitter.ts", FALSE, FALSE), World("splitter.ts", TRUE, FALSE)}
MCStaking == [u \in Users |-> StakingEach]
MCReward == [f \in Funders |-> [t \in RewardTokens |-> RewardEach]]
MCMultipliers == <<1, 2>>
(* u2 never accepted the second reward token. *)
MCUnassociated == {<<u2, t2>>}
=============================================================================
