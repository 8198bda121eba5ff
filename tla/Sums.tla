-------------------------------- MODULE Sums --------------------------------
(***************************************************************************)
(* The sum of a natural-valued function over a finite set, written as the  *)
(* size of a disjoint union.  A fold would read the same to TLC; this form *)
(* is the one SumsProofs can reason about with the library's cardinality   *)
(* theorems (no induction is needed to change one summand).                *)
(***************************************************************************)
EXTENDS Integers, FiniteSets

Slots(f, x) == {x} \X (1 .. f[x])

AllSlots(S, f) == UNION {Slots(f, x) : x \in S}

Total(S, f) == Cardinality(AllSlots(S, f))

(* Solidity's unsigned subtraction where the code never lets it underflow. *)
Monus(m, n) == IF m > n THEN m - n ELSE 0
=============================================================================
