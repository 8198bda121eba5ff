-------------------------- MODULE MCHederaGovernor --------------------------
(* Values of HederaGovernor's constants for TLC. *)
EXTENDS HederaGovernor

CONSTANTS g1, p1, p2

MCBalance == [a \in Accounts |-> 2]
MCOneEach == [a \in Accounts |-> 1]

(* initialize is passed 0, for which the contract stores the default. *)
MCThreshold == [g \in Governors |-> 0]

(* p1 raises the threshold of g1, p2 would lower it until g1's quorum is   *)
(* undefined, every other proposal calls nothing of a governor.            *)
MCTarget == [p \in ProposalIds |-> IF p \in {p1, p2} THEN g1 ELSE NoTarget]
MCNewThreshold == [p \in ProposalIds |-> IF p = p1 THEN 4 ELSE 1]
=============================================================================
