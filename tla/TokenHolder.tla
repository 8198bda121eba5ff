---------------------------- MODULE TokenHolder ----------------------------
(***************************************************************************)
(* contracts/governance/TokenHolder.sol: which proposals keep a voter's    *)
(* tokens locked.  One holder contract exists per governance token         *)
(* (TokenHolderFactory), and every governor of that token calls it.        *)
(*                                                                         *)
(* Both arrays are kept as bags: the order of their entries is never       *)
(* observed.  TokenHolderArrays models the arrays and the swap-and-pop     *)
(* removal, and implements this module.                                    *)
(***************************************************************************)
EXTENDS HolderAddresses, Sums

VARIABLES
  balance,                 \* the token's ledger (external)
  governorProposalVoters,  \* [g][p][v]: entries v in governorProposalVoters[g][p]
  activeProposalsForUsers  \* [v][p]: entries p in activeProposalsForUsers[v]

holderVars == <<balance, governorProposalVoters, activeProposalsForUsers>>

Addresses == Accounts \cup Governors \cup {Holder}

TokenHolderTypeOK ==
  /\ balance \in [Addresses -> Nat]
  /\ governorProposalVoters \in
       [Governors -> [ProposalIds -> [Accounts -> Nat]]]
  /\ activeProposalsForUsers \in [Accounts -> [ProposalIds -> Nat]]

(* A slip to catch: the active proposals are not looked at. *)
ActiveProposalsIgnored(v) == TRUE

(* canUserClaimTokens: the voter's list of active proposals is empty. *)
HasNoActiveProposals(v) == \A p \in ProposalIds : activeProposalsForUsers[v][p] = 0

(* require(_balanceOf(_token, msg.sender) > 0) *)
CallerHoldsToken(g) == balance[g] > 0

(***************************************************************************)
(* addProposalForVoter, called by governor g in a transaction that origin  *)
(* signed: the entry is made for tx.origin, whoever's vote g is recording. *)
(***************************************************************************)
AddProposalForVoter(g, p, origin) ==
  /\ CallerHoldsToken(g)
  /\ governorProposalVoters' =
       [governorProposalVoters EXCEPT ![g][p][origin] = @ + 1]
  /\ activeProposalsForUsers' =
       [activeProposalsForUsers EXCEPT ![origin][p] = @ + 1]

(* A slip to catch: every occurrence of the id is removed, not one. *)
RemoveEveryOccurrence(g, p) ==
  /\ CallerHoldsToken(g)
  /\ activeProposalsForUsers' =
       [v \in Accounts |->
          [activeProposalsForUsers[v] EXCEPT
             ![p] = IF governorProposalVoters[g][p][v] > 0 THEN 0 ELSE @]]
  /\ governorProposalVoters' =
       [governorProposalVoters EXCEPT ![g][p] = [v \in Accounts |-> 0]]

(***************************************************************************)
(* removeActiveProposals, called by governor g: for each entry of the      *)
(* proposal's voter list one entry of that voter's list is removed (none   *)
(* when there is none left), and the voter list is deleted.                *)
(***************************************************************************)
RemoveActiveProposals(g, p) ==
  /\ CallerHoldsToken(g)
  /\ activeProposalsForUsers' =
       [v \in Accounts |->
          [activeProposalsForUsers[v] EXCEPT
             ![p] = Monus(@, governorProposalVoters[g][p][v])]]
  /\ governorProposalVoters' =
       [governorProposalVoters EXCEPT ![g][p] = [v \in Accounts |-> 0]]

TokenHolderInit ==
  /\ governorProposalVoters =
       [g \in Governors |-> [p \in ProposalIds |-> [v \in Accounts |-> 0]]]
  /\ activeProposalsForUsers = [v \in Accounts |-> [p \in ProposalIds |-> 0]]

-----------------------------------------------------------------------------
(* The holder on its own: any governor calls at any time while the token   *)
(* moves freely.                                                           *)
HolderInit == TokenHolderInit /\ balance \in [Addresses -> Nat]

LedgerMoves ==
  /\ balance' \in [Addresses -> Nat]
  /\ UNCHANGED <<governorProposalVoters, activeProposalsForUsers>>

HolderNext ==
  \/ /\ UNCHANGED balance
     /\ \E g \in Governors, p \in ProposalIds :
          \/ \E v \in Accounts : AddProposalForVoter(g, p, v)
          \/ RemoveActiveProposals(g, p)
  \/ LedgerMoves

HolderSpec == HolderInit /\ [][HolderNext]_holderVars

(***************************************************************************)
(* Every entry in a voter's list is accounted for by exactly one entry in  *)
(* one governor's voter list of the same proposal id, also when governors  *)
(* share an id: removeActiveProposals of one governor releases that        *)
(* governor's votes and no other's (TokenHolder.sol:71-91, 126-145).       *)
(***************************************************************************)
HoldsMatch ==
  \A v \in Accounts, p \in ProposalIds :
    activeProposalsForUsers[v][p] =
      Total(Governors, [g \in Governors |-> governorProposalVoters[g][p][v]])
=============================================================================
