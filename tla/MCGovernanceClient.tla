------------------------ MODULE MCGovernanceClient ------------------------
(* Values of GovernanceClient's constants for TLC. *)
EXTENDS GovernanceClient

CONSTANTS pa, pt, pu, pc, pm, pb, px

World(m, a, o) == [mode |-> m, agenda |-> a, others |-> o]

MCWorlds ==
  {World("script", <<pa, pt>>, "propose"), World("script", <<pu>>, "supply"),
   World("script", <<pu>>, "propose"), World("script", <<pc, pm>>, "supply"),
   World("script", <<pc, pb>>, "propose"),
   World("scenario", <<pu, pt>>, "propose"), World("scenario", <<pc>>, "propose")}
MCKind == [p \in ProposalIds |->
  CASE p = pa -> "associate" [] p = pt -> "transfer" [] p = pu -> "upgrade"
    [] p = pc -> "create" [] p = pm -> "mint" [] p = pb -> "burn"
    [] OTHER -> "text"]
MCAmount == [p \in ProposalIds |-> 1]
MCBalance == [a \in Accounts |-> 3]
MCThreshold == [g \in Governors |-> 0]
MCTarget == [p \in ProposalIds |-> NoTarget]
MCNewThreshold == [p \in ProposalIds |-> 0]
=============================================================================
