--------------------------- MODULE WeightedPolls ---------------------------
(***************************************************************************)
(* What the governors and the token holder promise together: polls in      *)
(* which an account votes once with all it has at stake, and a stake that  *)
(* cannot shrink while one of its votes counts in an open poll.  Nothing   *)
(* of arrays, ids, deposits, quorums or clocks.                            *)
(***************************************************************************)
EXTENDS Naturals

CONSTANTS Voters, Polls

VARIABLES
  stake,    \* [voter]: what the voter has at stake
  counted,  \* [poll][voter]: the weight of the vote in an open poll, or 0
  closed    \* the polls that are over

pollVars == <<stake, counted, closed>>

Init ==
  /\ stake = [v \in Voters |-> 0]
  /\ counted = [q \in Polls |-> [v \in Voters |-> 0]]
  /\ closed = {}

Raise(v) ==
  /\ stake' \in [Voters -> Nat]
  /\ stake'[v] > stake[v]
  /\ \A u \in Voters \ {v} : stake'[u] = stake[u]
  /\ UNCHANGED <<counted, closed>>

Lower(v) ==
  /\ \A q \in Polls : counted[q][v] = 0
  /\ stake' \in [Voters -> Nat]
  /\ stake'[v] < stake[v]
  /\ \A u \in Voters \ {v} : stake'[u] = stake[u]
  /\ UNCHANGED <<counted, closed>>

Vote(v, q) ==
  /\ q \notin closed
  /\ stake[v] > 0
  /\ counted[q][v] = 0
  /\ counted' = [counted EXCEPT ![q][v] = stake[v]]
  /\ UNCHANGED <<stake, closed>>

CloseNext(q) ==
  /\ q \notin closed
  /\ closed' = closed \cup {q}
  /\ counted' = [counted EXCEPT ![q] = [v \in Voters |-> 0]]
  /\ UNCHANGED stake

Next ==
  \/ \E v \in Voters : Raise(v) \/ Lower(v)
  \/ \E q \in Polls : CloseNext(q) \/ \E v \in Voters : Vote(v, q)

Spec == Init /\ [][Next]_pollVars
=============================================================================
