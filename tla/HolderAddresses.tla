-------------------------- MODULE HolderAddresses --------------------------
(***************************************************************************)
(* Who deals with a token holder, for the bags of TokenHolder and for the  *)
(* arrays of TokenHolderArrays.                                            *)
(***************************************************************************)
EXTENDS FiniteSets

CONSTANTS
  Accounts,      \* externally owned accounts
  Governors,     \* the governor contracts that share this holder
  Holder,        \* the address of the holder contract itself
  ProposalIds    \* keccak256 of targets, values, calldatas and title: the
                 \* governor's address is not part of it, so two governors
                 \* can hold proposals with the same id

ASSUME AddressesAssumption ==
  /\ Accounts \cap Governors = {}
  /\ Holder \notin Accounts \cup Governors
  /\ IsFiniteSet(Accounts) /\ IsFiniteSet(Governors)
=============================================================================
