-------------------------- MODULE ThresholdWallet --------------------------
(***************************************************************************)
(* What a safe promises: a fund that is spent, and a membership that       *)
(* changes, only by a transaction that a quorum of the present members     *)
(* endorsed, and by each transaction at most once.  Nothing of hashes,     *)
(* nonces, linked lists or the DAO's records.                              *)
(***************************************************************************)
EXTENDS Naturals, FiniteSets

CONSTANTS
  People,
  Transactions,
  Cost           \* [Transactions -> Nat]: what a transaction spends

VARIABLES members, quorum, endorsed, performed, funds

walletVars == <<members, quorum, endorsed, performed, funds>>

Endorsers(t) == {m \in members : <<m, t>> \in endorsed}

Init ==
  /\ members \in SUBSET People
  /\ quorum \in 1..Cardinality(members)
  /\ endorsed = {} /\ performed = {}
  /\ funds \in Nat

Endorse ==
  /\ UNCHANGED <<members, quorum, performed, funds>>
  /\ \E m \in members, t \in Transactions : endorsed' = endorsed \cup {<<m, t>>}

Receive ==
  /\ funds' \in Nat /\ funds' > funds
  /\ UNCHANGED <<members, quorum, endorsed, performed>>

(* A transaction that spends leaves the membership alone. *)
Perform ==
  /\ UNCHANGED endorsed
  /\ \E t \in Transactions \ performed :
       /\ performed' = performed \cup {t}
       /\ Cardinality(Endorsers(t)) >= quorum
       /\ funds >= Cost[t] /\ funds' = funds - Cost[t]
       /\ \/ UNCHANGED <<members, quorum>>
          \/ Cost[t] = 0 /\ members' \in SUBSET People /\ quorum' \in 1..Cardinality(members')

Next == Endorse \/ Receive \/ Perform

Spec == Init /\ [][Next]_walletVars
=============================================================================
