------------------------ MODULE HederaGovernorProofs ------------------------
(***************************************************************************)
(* Safety of HederaGovernor for any number of accounts, governors and      *)
(* proposals, any deposit, thresholds, periods and supply: the bookkeeping *)
(* of the holds and their backing, the polls it implements, the outcomes   *)
(* of votes that have ended, and the tokens that are owed; and that the    *)
(* holder's arrays implement the bags all this is stated with.             *)
(***************************************************************************)
EXTENDS HederaGovernor, TokenHolderArrays, SumsProofs

USE DEF Addresses

(* Moving tokens between two addresses keeps the ledger well-typed. *)
LEMMA MovedType ==
  ASSUME balance \in [Addresses -> Nat],
         NEW from \in Addresses, NEW to \in Addresses, NEW n \in Nat,
         Transferable(from, n)
  PROVE  Moved(from, to, n) \in [Addresses -> Nat]
BY DEF Transferable, Moved

(* The states in which votes, cancels and executes are accepted are states *)
(* of live proposals.                                                      *)
LEMMA StateIsLive ==
  ASSUME TypeOK, NEW g \in Governors, NEW p \in ProposalIds,
         State(g, p) \in {"Active", "Succeeded"} \/ Cancellable(g, p)
  PROVE  Live(g, p)
<1> SUFFICES ASSUME proposals[g][p].status # "Open" PROVE FALSE
  BY DEF Live
<1>1. State(g, p) = proposals[g][p].status
  BY DEF State, Live
<1>2. proposals[g][p].status \in {"Unknown", "Executed", "Canceled"}
  BY DEF TypeOK, Proposal
<1> QED BY <1>1, <1>2 DEF Cancellable

-----------------------------------------------------------------------------
(* Type correctness *)

LEMMA InitType == Init => TypeOK
BY GovernorAssumption
   DEF Init, GODHolderInit, TokenHolderInit, TypeOK, GODHolderTypeOK,
       TokenHolderTypeOK, StoredThreshold, NoProposal, Proposal, NoBallot, Ballot

LEMMA TokenType ==
  ASSUME TypeOK, TokenNext
  PROVE  TypeOK'
<1> USE DEF TypeOK, GODHolderTypeOK, TokenHolderTypeOK
<1>1. ASSUME NEW a \in Accounts, NEW to \in Payees, NEW n \in Amounts,
             Transfer(a, to, n)
      PROVE  TypeOK'
  <2>1. n \in Nat /\ to \in Addresses
    BY GovernorAssumption
  <2>2. balance' \in [Addresses -> Nat]
    BY <1>1, <2>1, MovedType DEF Transfer
  <2> QED BY <1>1, <2>2 DEF Transfer
<1>2. ASSUME NEW a \in Accounts, Mint(a) PROVE TypeOK'
  BY <1>2 DEF Mint
<1>3. ASSUME NEW a \in Accounts, Burn(a) PROVE TypeOK'
  <2>1. totalSupply' \in Nat
    BY <1>3, GovernorAssumption DEF Burn
  <2>2. balance' \in [Addresses -> Nat]
    BY <1>3 DEF Burn
  <2> QED BY <1>3, <2>1, <2>2 DEF Burn
<1> QED BY <1>1, <1>2, <1>3 DEF TokenNext

LEMMA UserType ==
  ASSUME TypeOK, UserNext
  PROVE  TypeOK'
<1> USE DEF TypeOK, GODHolderTypeOK, TokenHolderTypeOK
<1>1. ASSUME NEW a \in Accounts, NEW n \in Amounts, Lock(a, n)
      PROVE  TypeOK'
  <2>1. n \in Nat
    BY GovernorAssumption
  <2>2. balance' \in [Addresses -> Nat]
    BY <1>1, <2>1, MovedType DEF Lock, GrabTokensFromUser
  <2>3. godTokenForUsers' \in [Accounts -> Nat]
    BY <1>1, <2>1 DEF Lock, GrabTokensFromUser
  <2> QED BY <1>1, <2>2, <2>3 DEF Lock, GrabTokensFromUser
<1>2. ASSUME NEW a \in Accounts, NEW n \in Amounts, Unlock(a, n)
      PROVE  TypeOK'
  <2>1. n \in Nat
    BY GovernorAssumption
  <2>2. balance' \in [Addresses -> Nat]
    BY <1>2, <2>1, MovedType DEF Unlock, RevertTokensForVoter
  <2>3. godTokenForUsers' \in [Accounts -> Nat]
    BY <1>2, <2>1 DEF Unlock, RevertTokensForVoter, HasLocked
  <2> QED BY <1>2, <2>2, <2>3 DEF Unlock, RevertTokensForVoter
<1> QED BY <1>1, <1>2 DEF UserNext

LEMMA CreateType ==
  ASSUME TypeOK, NEW a \in Accounts, NEW g \in Governors, NEW p \in ProposalIds,
         CreateProposal(a, g, p)
  PROVE  TypeOK'
<1> USE DEF TypeOK, GODHolderTypeOK, TokenHolderTypeOK
<1>1. balance' \in [Addresses -> Nat]
  BY GovernorAssumption, MovedType DEF CreateProposal
<1>2. proposals' \in [Governors -> [ProposalIds -> Proposal]]
  BY GovernorAssumption DEF CreateProposal, Proposal
<1> QED BY <1>1, <1>2 DEF CreateProposal

LEMMA VoteType ==
  ASSUME TypeOK, NEW a \in Accounts, NEW o \in Accounts, NEW g \in Governors,
         NEW p \in ProposalIds, NEW s \in Supports, RecordVote(a, o, g, p, s)
  PROVE  TypeOK'
<1> USE DEF TypeOK, GODHolderTypeOK, TokenHolderTypeOK
<1>1. ballots' \in [Governors -> [ProposalIds -> [Accounts -> Ballot]]]
  BY DEF RecordVote, Ballot, BalanceOfVoter
<1>2. governorProposalVoters' \in
        [Governors -> [ProposalIds -> [Accounts -> Nat]]]
  BY DEF RecordVote, AddProposalForVoter
<1>3. activeProposalsForUsers' \in [Accounts -> [ProposalIds -> Nat]]
  BY DEF RecordVote, AddProposalForVoter
<1> QED BY <1>1, <1>2, <1>3 DEF RecordVote

LEMMA CleanupType ==
  ASSUME TypeOK, NEW g \in Governors, NEW p \in ProposalIds, Cleanup(g, p),
         proposals[g][p].creator \in Accounts
  PROVE  TokenHolderTypeOK'
<1> USE DEF TypeOK, GODHolderTypeOK, TokenHolderTypeOK
<1>1. balance' \in [Addresses -> Nat]
  BY GovernorAssumption, MovedType DEF Cleanup
<1>2. governorProposalVoters' \in
        [Governors -> [ProposalIds -> [Accounts -> Nat]]]
  BY DEF Cleanup, RemoveActiveProposals
<1>3. activeProposalsForUsers' \in [Accounts -> [ProposalIds -> Nat]]
  BY DEF Cleanup, RemoveActiveProposals, Monus
<1> QED BY <1>1, <1>2, <1>3

(* A proposal that exists has a creator, to whom its deposit can go back. *)
CreatorKnown ==
  \A g \in Governors, p \in ProposalIds :
    proposals[g][p].status # "Unknown" => proposals[g][p].creator \in Accounts

TypeInv == TypeOK /\ CreatorKnown

(* Setting a proposal's status keeps the proposals well-typed. *)
LEMMA StatusType ==
  ASSUME proposals \in [Governors -> [ProposalIds -> Proposal]],
         NEW g \in Governors, NEW p \in ProposalIds,
         NEW s \in {"Executed", "Canceled"}
  PROVE  [proposals EXCEPT ![g][p].status = s]
           \in [Governors -> [ProposalIds -> Proposal]]
<1> DEFINE r == [proposals[g][p] EXCEPT !.status = s]
<1>1. proposals[g][p] \in Proposal
  OBVIOUS
<1>2. r \in Proposal
  BY <1>1 DEF Proposal
<1>3. [proposals EXCEPT ![g][p].status = s] = [proposals EXCEPT ![g][p] = r]
  OBVIOUS
<1> HIDE DEF r
<1> QED BY <1>2, <1>3

LEMMA CloseType ==
  ASSUME TypeInv, NEW g \in Governors, NEW p \in ProposalIds, Close(g, p)
  PROVE  TypeInv'
<1> USE DEF TypeInv
<1>1. ASSUME NEW a \in Accounts, Cancel(a, g, p) PROVE TypeInv'
  <2>1. TokenHolderTypeOK'
    BY <1>1, CleanupType DEF Cancel, TypeOK
  <2>2. proposals' \in [Governors -> [ProposalIds -> Proposal]]
    BY <1>1, StatusType DEF Cancel, TypeOK
  <2>3. CreatorKnown'
    <3>1. Live(g, p)
      BY <1>1, StateIsLive DEF Cancel
    <3> QED BY <1>1, <3>1 DEF Cancel, CreatorKnown, Live, TypeOK, Proposal
  <2> QED BY <1>1, <2>1, <2>2, <2>3 DEF Cancel, TypeOK, GODHolderTypeOK
<1>2. ASSUME Execute(g, p) PROVE TypeInv'
  <2>1. Live(g, p)
    BY <1>2, StateIsLive DEF Execute
  <2>2. TokenHolderTypeOK'
    BY <1>2, <2>1, CleanupType DEF Execute, Live, CreatorKnown
  <2>3. proposals' \in [Governors -> [ProposalIds -> Proposal]]
    BY <1>2, StatusType DEF Execute, TypeOK
  <2>4. quorumThreshold' \in [Governors -> Nat]
    BY <1>2, GovernorAssumption
       DEF Execute, ProposalCalls, StoredThreshold, TypeOK
  <2>5. CreatorKnown'
    BY <1>2, <2>1 DEF Execute, CreatorKnown, Live, TypeOK, Proposal
  <2> QED BY <1>2, <2>2, <2>3, <2>4, <2>5 DEF Execute, TypeOK, GODHolderTypeOK
<1> QED BY <1>1, <1>2 DEF Close

LEMMA NextType == TypeInv /\ [Next]_vars => TypeInv'
<1> SUFFICES ASSUME TypeInv, [Next]_vars PROVE TypeInv'
  OBVIOUS
<1> USE DEF TypeInv
<1>1. CASE TokenNext
  <2>1. TypeOK'
    BY <1>1, TokenType
  <2>2. UNCHANGED proposals
    BY <1>1 DEF TokenNext, Transfer, Mint, Burn
  <2> QED BY <2>1, <2>2 DEF CreatorKnown
<1>2. CASE UserNext
  <2>1. TypeOK'
    BY <1>2, UserType
  <2>2. UNCHANGED proposals
    BY <1>2 DEF UserNext, Lock, Unlock
  <2> QED BY <2>1, <2>2 DEF CreatorKnown
<1>3. ASSUME NEW g \in Governors, NEW p \in ProposalIds, ProposalNext(g, p)
      PROVE  TypeInv'
  <2>1. ASSUME NEW a \in Accounts, CreateProposal(a, g, p) PROVE TypeInv'
    <3>1. TypeOK'
      BY <2>1, CreateType
    <3>2. CreatorKnown'
      BY <2>1 DEF CreateProposal, CreatorKnown, TypeOK
    <3> QED BY <3>1, <3>2
  <2>2. CASE CastNext(g, p)
    <3>1. PICK a \in Accounts, o \in Accounts, s \in Supports :
            RecordVote(a, o, g, p, s)
      BY <2>2, GovernorAssumption DEF CastNext, CastVote, CastVoteBySig
    <3>2. TypeOK'
      BY <3>1, VoteType
    <3>3. UNCHANGED proposals
      BY <3>1 DEF RecordVote
    <3> QED BY <3>2, <3>3 DEF CreatorKnown
  <2>3. CASE Close(g, p)
    BY <2>3, CloseType
  <2> QED BY <1>3, <2>1, <2>2, <2>3 DEF ProposalNext
<1>4. CASE Tick
  BY <1>4 DEF Tick, TypeOK, GODHolderTypeOK, TokenHolderTypeOK, CreatorKnown
<1>5. CASE UNCHANGED vars
  BY <1>5 DEF vars, TypeOK, GODHolderTypeOK, TokenHolderTypeOK, CreatorKnown
<1> QED BY <1>1, <1>2, <1>3, <1>4, <1>5 DEF Next

(***************************************************************************)
(* Every variable keeps its type: no subtraction of the ledger, of a       *)
(* user's locked amount or of the bookkeeping ever goes below zero         *)
(* (HederaGovernor.sol, TokenHolder.sol, GODHolder.sol).                   *)
(***************************************************************************)
THEOREM TypeCorrect == Spec => []TypeOK
<1>1. Init => TypeInv
  <2>1. Init => CreatorKnown
    BY DEF Init, CreatorKnown, NoProposal
  <2> QED BY <2>1, InitType DEF TypeInv
<1>2. Spec => []TypeInv
  BY <1>1, NextType, PTL DEF Spec
<1> QED BY <1>2, PTL DEF TypeInv

-----------------------------------------------------------------------------
(* The holder's bookkeeping *)

(* The entries of governor g's list of proposal p, per governor. *)
Entries(v, p) == [g \in Governors |-> governorProposalVoters[g][p][v]]

LEMMA InitHolds == Init => HoldsMatch
<1> SUFFICES ASSUME Init, NEW v \in Accounts, NEW p \in ProposalIds
             PROVE  activeProposalsForUsers[v][p] = Total(Governors, Entries(v, p))
  BY DEF HoldsMatch, Entries
<1>1. \A g \in Governors : Entries(v, p)[g] = 0
  BY DEF Init, GODHolderInit, TokenHolderInit, Entries
<1>2. Total(Governors, Entries(v, p)) = 0
  BY <1>1, TotalZero
<1> QED BY <1>2 DEF Init, GODHolderInit, TokenHolderInit

LEMMA VoteHolds ==
  ASSUME TypeOK, HoldsMatch, NEW g \in Governors, NEW p \in ProposalIds,
         NEW o \in Accounts, AddProposalForVoter(g, p, o)
  PROVE  HoldsMatch'
<1> SUFFICES ASSUME NEW v \in Accounts, NEW q \in ProposalIds
             PROVE  activeProposalsForUsers'[v][q] = Total(Governors, Entries(v, q)')
  BY DEF HoldsMatch, Entries
<1>1. activeProposalsForUsers[v][q] = Total(Governors, Entries(v, q))
  BY DEF HoldsMatch, Entries
<1>2. CASE v = o /\ q = p
  <2>1. /\ \A h \in Governors : Entries(v, q)[h] \in Nat
        /\ Entries(v, q)'[g] = Entries(v, q)[g] + 1
        /\ Entries(v, q)'[g] \in Nat
        /\ \A h \in Governors \ {g} : Entries(v, q)'[h] = Entries(v, q)[h]
    BY <1>2
       DEF AddProposalForVoter, Entries,
           TypeOK, GODHolderTypeOK, TokenHolderTypeOK
  <2>2. Total(Governors, Entries(v, q)') =
          Total(Governors, Entries(v, q)) - Entries(v, q)[g] + Entries(v, q)'[g]
    BY <2>1, AddressesAssumption, TotalChange
  <2>3. activeProposalsForUsers'[v][q] = activeProposalsForUsers[v][q] + 1
    BY <1>2
       DEF AddProposalForVoter,
           TypeOK, GODHolderTypeOK, TokenHolderTypeOK
  <2>4. Total(Governors, Entries(v, q)) \in Nat
    BY <2>1, AddressesAssumption, AllSlotsFinite
  <2> QED BY <1>1, <2>1, <2>2, <2>3, <2>4
<1>3. CASE v # o \/ q # p
  <2>1. \A h \in Governors : Entries(v, q)'[h] = Entries(v, q)[h]
    BY <1>3
       DEF AddProposalForVoter, Entries,
           TypeOK, GODHolderTypeOK, TokenHolderTypeOK
  <2>2. Total(Governors, Entries(v, q)') = Total(Governors, Entries(v, q))
    BY <2>1, TotalSame
  <2>3. activeProposalsForUsers'[v][q] = activeProposalsForUsers[v][q]
    BY <1>3
       DEF AddProposalForVoter,
           TypeOK, GODHolderTypeOK, TokenHolderTypeOK
  <2> QED BY <1>1, <2>2, <2>3
<1> QED BY <1>2, <1>3

LEMMA CleanupHolds ==
  ASSUME TypeOK, HoldsMatch, NEW g \in Governors, NEW p \in ProposalIds,
         RemoveActiveProposals(g, p)
  PROVE  HoldsMatch'
<1> SUFFICES ASSUME NEW v \in Accounts, NEW q \in ProposalIds
             PROVE  activeProposalsForUsers'[v][q] = Total(Governors, Entries(v, q)')
  BY DEF HoldsMatch, Entries
<1>1. activeProposalsForUsers[v][q] = Total(Governors, Entries(v, q))
  BY DEF HoldsMatch, Entries
<1>2. CASE q = p
  <2>1. /\ \A h \in Governors : Entries(v, q)[h] \in Nat
        /\ Entries(v, q)[g] = governorProposalVoters[g][p][v]
        /\ Entries(v, q)'[g] = 0
        /\ Entries(v, q)'[g] \in Nat
        /\ \A h \in Governors \ {g} : Entries(v, q)'[h] = Entries(v, q)[h]
    BY <1>2
       DEF RemoveActiveProposals, Entries,
           TypeOK, GODHolderTypeOK, TokenHolderTypeOK
  <2>2. /\ Total(Governors, Entries(v, q)) \in Nat
        /\ Total(Governors, Entries(v, q)) >= Entries(v, q)[g]
        /\ Total(Governors, Entries(v, q)') =
             Total(Governors, Entries(v, q)) - Entries(v, q)[g] + Entries(v, q)'[g]
    BY <2>1, AddressesAssumption, TotalChange
  <2>3. activeProposalsForUsers'[v][q] =
          Monus(activeProposalsForUsers[v][q], governorProposalVoters[g][p][v])
    BY <1>2
       DEF RemoveActiveProposals,
           TypeOK, GODHolderTypeOK, TokenHolderTypeOK
  <2> QED BY <1>1, <2>1, <2>2, <2>3 DEF Monus
<1>3. CASE q # p
  <2>1. \A h \in Governors : Entries(v, q)'[h] = Entries(v, q)[h]
    BY <1>3
       DEF RemoveActiveProposals, Entries,
           TypeOK, GODHolderTypeOK, TokenHolderTypeOK
  <2>2. Total(Governors, Entries(v, q)') = Total(Governors, Entries(v, q))
    BY <2>1, TotalSame
  <2>3. activeProposalsForUsers'[v][q] = activeProposalsForUsers[v][q]
    BY <1>3
       DEF RemoveActiveProposals,
           TypeOK, GODHolderTypeOK, TokenHolderTypeOK
  <2> QED BY <1>1, <2>2, <2>3
<1> QED BY <1>2, <1>3

(* A step calls addProposalForVoter, or removeActiveProposals, or leaves   *)
(* the bookkeeping alone.                                                  *)
LEMMA HolderSteps ==
  ASSUME TypeOK, [Next]_vars
  PROVE  \/ \E g \in Governors, p \in ProposalIds, a \in Accounts,
              o \in Accounts, s \in Supports : RecordVote(a, o, g, p, s)
         \/ \E g \in Governors, p \in ProposalIds : Close(g, p)
         \/ UNCHANGED <<governorProposalVoters, activeProposalsForUsers>>
<1>1. ASSUME TokenNext
      PROVE  UNCHANGED <<governorProposalVoters, activeProposalsForUsers>>
  BY <1>1 DEF TokenNext, Transfer, Mint, Burn
<1>2. ASSUME UserNext
      PROVE  UNCHANGED <<governorProposalVoters, activeProposalsForUsers>>
  BY <1>2 DEF UserNext, Lock, Unlock, GrabTokensFromUser, RevertTokensForVoter
<1>3. ASSUME NEW g \in Governors, NEW p \in ProposalIds, NEW a \in Accounts,
             CreateProposal(a, g, p)
      PROVE  UNCHANGED <<governorProposalVoters, activeProposalsForUsers>>
  BY <1>3 DEF CreateProposal
<1>4. ASSUME NEW g \in Governors, NEW p \in ProposalIds, CastNext(g, p)
      PROVE  \E a \in Accounts, o \in Accounts, s \in Supports :
               RecordVote(a, o, g, p, s)
  BY <1>4, GovernorAssumption DEF CastNext, CastVote, CastVoteBySig
<1>5. ASSUME Tick \/ UNCHANGED vars
      PROVE  UNCHANGED <<governorProposalVoters, activeProposalsForUsers>>
  BY <1>5 DEF Tick, vars
<1> QED BY <1>1, <1>2, <1>3, <1>4, <1>5 DEF Next, ProposalNext

LEMMA NextHolds == TypeOK /\ HoldsMatch /\ [Next]_vars => HoldsMatch'
<1> SUFFICES ASSUME TypeOK, HoldsMatch, [Next]_vars PROVE HoldsMatch'
  OBVIOUS
<1>1. ASSUME NEW g \in Governors, NEW p \in ProposalIds, NEW a \in Accounts,
             NEW o \in Accounts, NEW s \in Supports, RecordVote(a, o, g, p, s)
      PROVE  HoldsMatch'
  BY <1>1, VoteHolds DEF RecordVote
<1>2. ASSUME NEW g \in Governors, NEW p \in ProposalIds, Close(g, p)
      PROVE  HoldsMatch'
  BY <1>2, CleanupHolds DEF Close, Cancel, Execute, Cleanup
<1>3. ASSUME UNCHANGED <<governorProposalVoters, activeProposalsForUsers>>
      PROVE  HoldsMatch'
  BY <1>3 DEF HoldsMatch
<1> QED BY <1>1, <1>2, <1>3, HolderSteps

(***************************************************************************)
(* Each entry in a voter's list of active proposals answers to exactly one *)
(* entry in one governor's voter list, for any number of governors, shared *)
(* proposal ids and relayed votes (TokenHolder.sol:97-145).                *)
(***************************************************************************)
THEOREM BookkeepingMatches == Spec => []HoldsMatch
<1>1. TypeOK /\ HoldsMatch /\ [Next]_vars => HoldsMatch'
  BY NextHolds
<1> QED BY <1>1, InitHolds, TypeCorrect, PTL DEF Spec

-----------------------------------------------------------------------------
(* Locked tokens back the votes that count.  What makes LockedBacking      *)
(* inductive: a counted vote has an entry in its governor's voter list,    *)
(* so (HoldsMatch) its voter's list of active proposals is not empty, and  *)
(* the voter cannot unlock.                                                *)

EmptyBallots ==
  \A g \in Governors, p \in ProposalIds, a \in Accounts :
    ~HasVoted(g, p, a) \/ proposals[g][p].status = "Unknown"
      => ballots[g][p][a].weight = 0

VotesHeld ==
  \A g \in Governors, p \in ProposalIds, a \in Accounts :
    Live(g, p) /\ ballots[g][p][a].weight > 0
      => governorProposalVoters[g][p][a] > 0

BackingInv ==
  TypeOK /\ HoldsMatch /\ EmptyBallots /\ VotesHeld /\ LockedBacking

(* A voter without active proposals has no counted vote. *)
LEMMA FreeVoter ==
  ASSUME TypeOK, HoldsMatch, VotesHeld, NEW a \in Accounts,
         HasNoActiveProposals(a), NEW g \in Governors, NEW p \in ProposalIds,
         Live(g, p)
  PROVE  ballots[g][p][a].weight = 0
<1>1. \A h \in Governors : Entries(a, p)[h] \in Nat
  BY DEF Entries, TypeOK, GODHolderTypeOK, TokenHolderTypeOK
<1>2. Total(Governors, Entries(a, p)) = 0
  BY DEF HoldsMatch, Entries, HasNoActiveProposals
<1>3. Entries(a, p)[g] <= Total(Governors, Entries(a, p))
  BY <1>1, AddressesAssumption, TotalBound
<1>4. governorProposalVoters[g][p][a] = 0
  BY <1>1, <1>2, <1>3 DEF Entries
<1>5. ballots[g][p][a].weight \in Nat
  BY DEF TypeOK, Ballot
<1> QED BY <1>4, <1>5 DEF VotesHeld

(* What each step does to ballots, proposals, voter lists and stakes. *)
LEMMA BackingSteps ==
  ASSUME TypeOK, Relayers = {}, [Next]_vars
  PROVE  \/ \E a \in Accounts, n \in Amounts : Lock(a, n)
         \/ \E a \in Accounts, n \in Amounts : Unlock(a, n)
         \/ \E a \in Accounts, g \in Governors, p \in ProposalIds :
              CreateProposal(a, g, p)
         \/ \E a \in Accounts, g \in Governors, p \in ProposalIds, s \in Supports :
              RecordVote(a, a, g, p, s)
         \/ \E g \in Governors, p \in ProposalIds : Close(g, p)
         \/ UNCHANGED <<governorProposalVoters, godTokenForUsers, proposals,
                        ballots>>
<1>1. ASSUME TokenNext \/ Tick \/ UNCHANGED vars
      PROVE  UNCHANGED <<governorProposalVoters, godTokenForUsers, proposals,
                         ballots>>
  BY <1>1 DEF TokenNext, Transfer, Mint, Burn, Tick, vars
<1>2. ASSUME NEW g \in Governors, NEW p \in ProposalIds, CastNext(g, p)
      PROVE  \E a \in Accounts, s \in Supports : RecordVote(a, a, g, p, s)
  BY <1>2 DEF CastNext, CastVote
<1> QED BY <1>1, <1>2 DEF Next, UserNext, ProposalNext

(* What closing a proposal leaves of the other variables. *)
LEMMA CloseEffect ==
  ASSUME TypeOK, NEW g \in Governors, NEW p \in ProposalIds, Close(g, p)
  PROVE  /\ Live(g, p)
         /\ proposals'[g][p].status \in {"Executed", "Canceled"}
         /\ \A h \in Governors, q \in ProposalIds :
              <<h, q>> # <<g, p>> =>
                /\ proposals'[h][q] = proposals[h][q]
                /\ governorProposalVoters'[h][q] = governorProposalVoters[h][q]
         /\ UNCHANGED <<godTokenForUsers, ballots>>
<1>1. Live(g, p)
  BY StateIsLive DEF Close, Cancel, Execute
<1>2. /\ \E s \in {"Executed", "Canceled"} :
           proposals' = [proposals EXCEPT ![g][p].status = s]
      /\ UNCHANGED <<godTokenForUsers, ballots>>
      /\ RemoveActiveProposals(g, p)
  BY DEF Close, Cancel, Execute, Cleanup
<1>3. /\ proposals'[g][p].status \in {"Executed", "Canceled"}
      /\ \A h \in Governors, q \in ProposalIds :
           <<h, q>> # <<g, p>> => proposals'[h][q] = proposals[h][q]
  BY <1>2 DEF TypeOK, Proposal
<1>4. \A h \in Governors, q \in ProposalIds :
        <<h, q>> # <<g, p>> =>
          governorProposalVoters'[h][q] = governorProposalVoters[h][q]
  BY <1>2
     DEF RemoveActiveProposals, TypeOK, GODHolderTypeOK, TokenHolderTypeOK
<1> QED BY <1>1, <1>2, <1>3, <1>4

(* Only live proposals have entries.                                       *)
EntriesLive ==
  \A g \in Governors, p \in ProposalIds, v \in Accounts :
    governorProposalVoters[g][p][v] > 0 => Live(g, p)

LEMMA VoteEntriesLive ==
  ASSUME TypeOK, EntriesLive, NEW g \in Governors, NEW p \in ProposalIds,
         NEW a \in Accounts, NEW o \in Accounts, NEW s \in Supports,
         RecordVote(a, o, g, p, s)
  PROVE  EntriesLive'
<1>1. Live(g, p) /\ UNCHANGED proposals
  BY StateIsLive DEF RecordVote, VotingOpen
<1>2. \A h \in Governors, q \in ProposalIds, v \in Accounts :
        <<h, q, v>> # <<g, p, o>> =>
          governorProposalVoters'[h][q][v] = governorProposalVoters[h][q][v]
  BY DEF RecordVote, AddProposalForVoter, TypeOK, GODHolderTypeOK, TokenHolderTypeOK
<1> QED BY <1>1, <1>2 DEF EntriesLive, Live

LEMMA CloseEntriesLive ==
  ASSUME TypeOK, EntriesLive, NEW g \in Governors, NEW p \in ProposalIds, Close(g, p)
  PROVE  EntriesLive'
<1>1. \A h \in Governors, q \in ProposalIds : <<h, q>> # <<g, p>> =>
        /\ proposals'[h][q] = proposals[h][q]
        /\ governorProposalVoters'[h][q] = governorProposalVoters[h][q]
  BY CloseEffect
<1>2. RemoveActiveProposals(g, p)
  BY DEF Close, Cancel, Execute, Cleanup
<1>3. \A v \in Accounts : governorProposalVoters'[g][p][v] = 0
  BY <1>2 DEF RemoveActiveProposals, TypeOK, GODHolderTypeOK, TokenHolderTypeOK
<1> QED BY <1>1, <1>3 DEF EntriesLive, Live

LEMMA NextEntriesLive == TypeOK /\ EntriesLive /\ [Next]_vars => EntriesLive'
<1> SUFFICES ASSUME TypeOK, EntriesLive, [Next]_vars PROVE EntriesLive'
  OBVIOUS
<1>1. ASSUME NEW g \in Governors, NEW p \in ProposalIds, NEW a \in Accounts,
             NEW o \in Accounts, NEW s \in Supports, RecordVote(a, o, g, p, s)
      PROVE  EntriesLive'
  BY <1>1, VoteEntriesLive
<1>2. ASSUME NEW g \in Governors, NEW p \in ProposalIds, Close(g, p)
      PROVE  EntriesLive'
  BY <1>2, CloseEntriesLive
<1>3. ASSUME UNCHANGED governorProposalVoters,
             \A g \in Governors, p \in ProposalIds : Live(g, p) => Live(g, p)'
      PROVE  EntriesLive'
  BY <1>3 DEF EntriesLive
<1>4. ASSUME UNCHANGED <<governorProposalVoters, proposals>> PROVE EntriesLive'
  BY <1>3, <1>4 DEF Live
<1>5. CASE TokenNext \/ UserNext \/ Tick \/ UNCHANGED vars
  BY <1>4, <1>5 DEF TokenNext, Transfer, Mint, Burn, UserNext, Lock, Unlock,
                    GrabTokensFromUser, RevertTokensForVoter, Tick, vars
<1>6. ASSUME NEW g \in Governors, NEW p \in ProposalIds, NEW a \in Accounts,
             CreateProposal(a, g, p)
      PROVE  EntriesLive'
  <2>1. \A h \in Governors, q \in ProposalIds : Live(h, q) => Live(h, q)'
    BY <1>6 DEF CreateProposal, Live, TypeOK
  <2> QED BY <1>3, <1>6, <2>1 DEF CreateProposal
<1>7. ASSUME NEW g \in Governors, NEW p \in ProposalIds, CastNext(g, p)
      PROVE  EntriesLive'
  BY <1>1, <1>7, GovernorAssumption DEF CastNext, CastVote, CastVoteBySig
<1> QED BY <1>2, <1>5, <1>6, <1>7 DEF Next, ProposalNext

(* A voter that is held is held by a live proposal. *)
HoldsAreOfLive ==
  \A v \in Accounts, p \in ProposalIds :
    activeProposalsForUsers[v][p] > 0 =>
      \E g \in Governors : governorProposalVoters[g][p][v] > 0 /\ Live(g, p)

(***************************************************************************)
(* What keeps a voter from unlocking is always a proposal that can still   *)
(* be closed, and closing it takes the entry away: no entry outlives its   *)
(* proposal, for any governors sharing ids and any relayers, so            *)
(* HoldsReleased only waits for proposals (TokenHolder.sol:71-91, 126-145, *)
(* HederaGovernor.sol:454-458).                                            *)
(***************************************************************************)
THEOREM HoldsEndWithTheirProposals == Spec => []HoldsAreOfLive
<1>1. Init => EntriesLive
  BY DEF Init, GODHolderInit, TokenHolderInit, EntriesLive
<1>2. Spec => []EntriesLive
  BY <1>1, NextEntriesLive, TypeCorrect, PTL DEF Spec
<1>3. TypeOK /\ HoldsMatch /\ EntriesLive => HoldsAreOfLive
  <2> SUFFICES ASSUME TypeOK, HoldsMatch, EntriesLive,
                      NEW v \in Accounts, NEW p \in ProposalIds,
                      activeProposalsForUsers[v][p] > 0
               PROVE  \E g \in Governors :
                        governorProposalVoters[g][p][v] > 0 /\ Live(g, p)
    BY DEF HoldsAreOfLive
  <2>1. activeProposalsForUsers[v][p] = Total(Governors, Entries(v, p))
    BY DEF HoldsMatch, Entries
  <2>2. (\A g \in Governors : Entries(v, p)[g] = 0) => Total(Governors, Entries(v, p)) = 0
    BY TotalZero
  <2>3. PICK g \in Governors : Entries(v, p)[g] # 0
    BY <2>1, <2>2
  <2>4. governorProposalVoters[g][p][v] \in Nat /\ governorProposalVoters[g][p][v] # 0
    BY <2>3 DEF Entries, TypeOK, GODHolderTypeOK, TokenHolderTypeOK
  <2> QED BY <2>4 DEF EntriesLive
<1> QED BY <1>2, <1>3, TypeCorrect, BookkeepingMatches, PTL

LEMMA InitBacking == Init => BackingInv
<1> SUFFICES ASSUME Init PROVE BackingInv
  OBVIOUS
<1>1. TypeOK /\ HoldsMatch
  BY InitType, InitHolds
<1>2. \A g \in Governors, p \in ProposalIds, a \in Accounts :
        ballots[g][p][a].weight = 0 /\ ~Live(g, p)
  BY DEF Init, NoBallot, NoProposal, Live
<1> QED BY <1>1, <1>2 DEF BackingInv, EmptyBallots, VotesHeld, LockedBacking

LEMMA LockBacking ==
  ASSUME BackingInv, NEW a \in Accounts, NEW n \in Amounts,
         Lock(a, n) \/ Unlock(a, n)
  PROVE  EmptyBallots' /\ VotesHeld' /\ LockedBacking'
<1>1. UNCHANGED <<governorProposalVoters, proposals, ballots>>
  BY DEF Lock, Unlock, GrabTokensFromUser, RevertTokensForVoter
<1>2. EmptyBallots' /\ VotesHeld'
  BY <1>1 DEF BackingInv, EmptyBallots, VotesHeld, HasVoted, Live
<1>3. ASSUME NEW g \in Governors, NEW p \in ProposalIds, NEW b \in Accounts,
             Live(g, p)
      PROVE  ballots[g][p][b].weight <= godTokenForUsers'[b]
  <2>1. n \in Nat
    BY GovernorAssumption
  <2>2. /\ ballots[g][p][b].weight \in Nat
        /\ godTokenForUsers \in [Accounts -> Nat]
    BY DEF BackingInv, TypeOK, GODHolderTypeOK, Ballot
  <2>3. ballots[g][p][b].weight <= godTokenForUsers[b]
    BY <1>3 DEF BackingInv, LockedBacking
  <2>4. CASE Lock(a, n)
    BY <2>1, <2>2, <2>3, <2>4 DEF Lock, GrabTokensFromUser
  <2>5. CASE Unlock(a, n) /\ b = a
    <3>1. ballots[g][p][b].weight = 0
      BY <1>3, <2>5, FreeVoter DEF Unlock, RevertTokensForVoter, BackingInv
    <3>2. godTokenForUsers'[b] \in Nat
      BY <2>1, <2>2, <2>5 DEF Unlock, RevertTokensForVoter, HasLocked
    <3> QED BY <3>1, <3>2
  <2>6. CASE Unlock(a, n) /\ b # a
    BY <2>2, <2>3, <2>6 DEF Unlock, RevertTokensForVoter
  <2> QED BY <2>4, <2>5, <2>6
<1> QED BY <1>1, <1>2, <1>3 DEF LockedBacking, Live

LEMMA CreateBacking ==
  ASSUME BackingInv, NEW a \in Accounts, NEW g \in Governors,
         NEW p \in ProposalIds, CreateProposal(a, g, p)
  PROVE  EmptyBallots' /\ VotesHeld' /\ LockedBacking'
<1>1. /\ UNCHANGED <<governorProposalVoters, godTokenForUsers, ballots>>
      /\ proposals[g][p].status = "Unknown"
      /\ proposals'[g][p].status = "Open"
      /\ \A h \in Governors, q \in ProposalIds :
           <<h, q>> # <<g, p>> => proposals'[h][q] = proposals[h][q]
  BY DEF CreateProposal, BackingInv, TypeOK
<1>2. \A b \in Accounts : ballots[g][p][b].weight = 0 /\ godTokenForUsers[b] \in Nat
  BY <1>1 DEF BackingInv, EmptyBallots, TypeOK, GODHolderTypeOK
<1>3. EmptyBallots'
  BY <1>1, <1>2 DEF BackingInv, EmptyBallots, HasVoted
<1>4. VotesHeld'
  BY <1>1, <1>2 DEF BackingInv, VotesHeld, Live
<1>5. LockedBacking'
  BY <1>1, <1>2 DEF BackingInv, LockedBacking, Live
<1> QED BY <1>3, <1>4, <1>5

LEMMA VoteBacking ==
  ASSUME BackingInv, NEW a \in Accounts, NEW g \in Governors,
         NEW p \in ProposalIds, NEW s \in Supports, RecordVote(a, a, g, p, s)
  PROVE  EmptyBallots' /\ VotesHeld' /\ LockedBacking'
<1>1. /\ UNCHANGED <<godTokenForUsers, proposals>>
      /\ ballots'[g][p][a] = [support |-> s, weight |-> godTokenForUsers[a]]
      /\ \A h \in Governors, q \in ProposalIds, b \in Accounts :
           <<h, q, b>> # <<g, p, a>> => ballots'[h][q][b] = ballots[h][q][b]
  BY DEF RecordVote, BalanceOfVoter, BackingInv, TypeOK
<1>2. /\ governorProposalVoters'[g][p][a] > 0
      /\ \A h \in Governors, q \in ProposalIds, b \in Accounts :
           governorProposalVoters[h][q][b] > 0
             => governorProposalVoters'[h][q][b] > 0
  BY DEF RecordVote, AddProposalForVoter, BackingInv, TypeOK, GODHolderTypeOK,
         TokenHolderTypeOK
<1>3. Live(g, p)
  BY StateIsLive DEF RecordVote, VotingOpen, BackingInv
<1>4. s # "None" /\ godTokenForUsers[a] \in Nat
  BY DEF Supports, BackingInv, TypeOK, GODHolderTypeOK
<1>5. EmptyBallots'
  BY <1>1, <1>3, <1>4 DEF BackingInv, EmptyBallots, HasVoted, Live
<1>6. VotesHeld'
  BY <1>1, <1>2 DEF BackingInv, VotesHeld, Live
<1>7. LockedBacking'
  BY <1>1, <1>4 DEF BackingInv, LockedBacking, Live
<1> QED BY <1>5, <1>6, <1>7

LEMMA CloseBacking ==
  ASSUME BackingInv, NEW g \in Governors, NEW p \in ProposalIds, Close(g, p)
  PROVE  EmptyBallots' /\ VotesHeld' /\ LockedBacking'
<1>1. /\ Live(g, p)
      /\ proposals'[g][p].status \in {"Executed", "Canceled"}
      /\ \A h \in Governors, q \in ProposalIds :
           <<h, q>> # <<g, p>> =>
             /\ proposals'[h][q] = proposals[h][q]
             /\ governorProposalVoters'[h][q] = governorProposalVoters[h][q]
      /\ UNCHANGED <<godTokenForUsers, ballots>>
  BY CloseEffect DEF BackingInv
<1>2. EmptyBallots'
  BY <1>1 DEF BackingInv, EmptyBallots, HasVoted
<1>3. VotesHeld'
  BY <1>1 DEF BackingInv, VotesHeld, Live
<1>4. LockedBacking'
  BY <1>1 DEF BackingInv, LockedBacking, Live
<1> QED BY <1>2, <1>3, <1>4

LEMMA NextBacking ==
  ASSUME Relayers = {}, BackingInv, TypeOK', [Next]_vars
  PROVE  BackingInv'
<1>1. HoldsMatch'
  BY NextHolds DEF BackingInv
<1>2. EmptyBallots' /\ VotesHeld' /\ LockedBacking'
  <2>1. ASSUME UNCHANGED <<governorProposalVoters, godTokenForUsers, proposals,
                           ballots>>
        PROVE  EmptyBallots' /\ VotesHeld' /\ LockedBacking'
    BY <2>1 DEF BackingInv, EmptyBallots, VotesHeld, LockedBacking, HasVoted, Live
  <2> QED BY <2>1, BackingSteps, LockBacking, CreateBacking, VoteBacking,
             CloseBacking DEF BackingInv
<1> QED BY <1>1, <1>2 DEF BackingInv

(***************************************************************************)
(* No token counts twice in votes that are still open, for any number of   *)
(* governors, proposals, amounts and interleavings, as long as voters sign *)
(* their own transactions (HederaGovernor.sol:424-435, GODHolder.sol:24-57)*)
(***************************************************************************)
THEOREM VotesAreBacked ==
  ASSUME Relayers = {}
  PROVE  Spec => []LockedBacking
<1>1. BackingInv /\ TypeOK' /\ [Next]_vars => BackingInv'
  BY NextBacking
<1>2. Spec => []BackingInv
  BY <1>1, InitBacking, TypeCorrect, PTL DEF Spec
<1> QED BY <1>2, PTL DEF BackingInv

-----------------------------------------------------------------------------
(* The refinement of WeightedPolls *)

Counted(g, p, a) == IF Live(g, p) THEN ballots[g][p][a].weight ELSE 0

AllCounted ==
  [q \in Governors \X ProposalIds |-> [a \in Accounts |-> Counted(q[1], q[2], a)]]

Closed ==
  {q \in Governors \X ProposalIds :
     proposals[q[1]][q[2]].status \in {"Executed", "Canceled"}}

LEMMA InitRefines == Init => Polls!Init
<1> SUFFICES ASSUME Init PROVE Polls!Init
  OBVIOUS
<1>1. godTokenForUsers = [v \in Accounts |-> 0]
  BY DEF Init, GODHolderInit
<1>2. AllCounted = [q \in Governors \X ProposalIds |-> [v \in Accounts |-> 0]]
  BY DEF Init, NoProposal, AllCounted, Counted, Live
<1>3. Closed = {}
  BY DEF Init, NoProposal, Closed
<1> QED BY <1>1, <1>2, <1>3 DEF Polls!Init, AllCounted, Counted, Closed

LEMMA LockRefines ==
  ASSUME BackingInv, NEW a \in Accounts, NEW n \in Amounts, Lock(a, n)
  PROVE  Polls!Raise(a)
<1>1. n \in Nat
  BY GovernorAssumption
<1>2. /\ n > 0
      /\ godTokenForUsers' = [godTokenForUsers EXCEPT ![a] = @ + n]
      /\ UNCHANGED <<proposals, ballots>>
  BY DEF Lock, GrabTokensFromUser
<1>3. godTokenForUsers \in [Accounts -> Nat]
  BY DEF BackingInv, TypeOK, GODHolderTypeOK
<1>4. /\ godTokenForUsers' \in [Accounts -> Nat]
      /\ godTokenForUsers'[a] > godTokenForUsers[a]
      /\ \A u \in Accounts \ {a} : godTokenForUsers'[u] = godTokenForUsers[u]
  BY <1>1, <1>2, <1>3
<1> QED BY <1>2, <1>4 DEF Polls!Raise, Live

LEMMA UnlockRefines ==
  ASSUME BackingInv, NEW a \in Accounts, NEW n \in Amounts, Unlock(a, n)
  PROVE  Polls!Lower(a)
<1>1. n \in Nat
  BY GovernorAssumption
<1>2. /\ n > 0
      /\ godTokenForUsers[a] >= n
      /\ godTokenForUsers' = [godTokenForUsers EXCEPT ![a] = @ - n]
      /\ UNCHANGED <<proposals, ballots>>
  BY DEF Unlock, RevertTokensForVoter, HasLocked
<1>3. godTokenForUsers \in [Accounts -> Nat]
  BY DEF BackingInv, TypeOK, GODHolderTypeOK
<1>4. /\ godTokenForUsers' \in [Accounts -> Nat]
      /\ godTokenForUsers'[a] < godTokenForUsers[a]
      /\ \A u \in Accounts \ {a} : godTokenForUsers'[u] = godTokenForUsers[u]
  BY <1>1, <1>2, <1>3
<1>5. \A q \in Governors \X ProposalIds : Counted(q[1], q[2], a) = 0
  BY FreeVoter DEF Unlock, RevertTokensForVoter, BackingInv, Counted
<1>6. \A q \in Governors \X ProposalIds : AllCounted[q][a] = 0
  BY <1>5 DEF AllCounted
<1> QED BY <1>2, <1>4, <1>6 DEF Polls!Lower, AllCounted, Counted, Live

LEMMA CreateRefines ==
  ASSUME BackingInv, NEW a \in Accounts, NEW g \in Governors,
         NEW p \in ProposalIds, CreateProposal(a, g, p)
  PROVE  UNCHANGED Polls!pollVars
<1>1. /\ UNCHANGED <<godTokenForUsers, ballots>>
      /\ proposals[g][p].status = "Unknown"
      /\ proposals'[g][p].status = "Open"
      /\ \A h \in Governors, q \in ProposalIds :
           <<h, q>> # <<g, p>> => proposals'[h][q] = proposals[h][q]
  BY DEF CreateProposal, BackingInv, TypeOK
<1>2. \A b \in Accounts : ballots[g][p][b].weight = 0
  BY <1>1 DEF BackingInv, EmptyBallots
<1>3. \A h \in Governors, q \in ProposalIds, b \in Accounts :
        Counted(h, q, b)' = Counted(h, q, b)
  BY <1>1, <1>2 DEF Counted, Live
<1>4. AllCounted' = AllCounted
  BY <1>3 DEF AllCounted
<1>5. Closed' = Closed
  BY <1>1 DEF Closed
<1> QED BY <1>1, <1>4, <1>5 DEF Polls!pollVars, AllCounted, Counted, Closed

LEMMA VoteRefines ==
  ASSUME BackingInv, NEW a \in Accounts, NEW g \in Governors,
         NEW p \in ProposalIds, NEW s \in Supports, RecordVote(a, a, g, p, s)
  PROVE  Polls!Vote(a, <<g, p>>)
<1>1. /\ UNCHANGED <<godTokenForUsers, proposals>>
      /\ godTokenForUsers[a] > 0
      /\ ~HasVoted(g, p, a)
      /\ ballots'[g][p][a].weight = godTokenForUsers[a]
      /\ \A h \in Governors, q \in ProposalIds, b \in Accounts :
           <<h, q, b>> # <<g, p, a>> => ballots'[h][q][b] = ballots[h][q][b]
  BY DEF RecordVote, BalanceOfVoter, BackingInv, TypeOK
<1>2. Live(g, p)
  BY StateIsLive DEF RecordVote, VotingOpen, BackingInv
<1>3. Counted(g, p, a) = 0 /\ Counted(g, p, a)' = godTokenForUsers[a]
  BY <1>1, <1>2 DEF BackingInv, EmptyBallots, Counted, Live
<1>4. \A h \in Governors, q \in ProposalIds, b \in Accounts :
        <<h, q, b>> # <<g, p, a>> => Counted(h, q, b)' = Counted(h, q, b)
  BY <1>1 DEF Counted, Live
<1>5. AllCounted' = [AllCounted EXCEPT ![<<g, p>>][a] = godTokenForUsers[a]]
  <2>1. \A q \in Governors \X ProposalIds :
          q = <<q[1], q[2]>> /\ q[1] \in Governors /\ q[2] \in ProposalIds
    OBVIOUS
  <2>2. \A b \in Accounts : b # a => Counted(g, p, b)' = Counted(g, p, b)
    BY <1>4
  <2>3. [b \in Accounts |-> Counted(g, p, b)'] =
          [[b \in Accounts |-> Counted(g, p, b)] EXCEPT ![a] = godTokenForUsers[a]]
    BY <1>3, <2>2
  <2>4. \A q \in Governors \X ProposalIds :
          q # <<g, p>> =>
            [b \in Accounts |-> Counted(q[1], q[2], b)'] =
              [b \in Accounts |-> Counted(q[1], q[2], b)]
    BY <1>4, <2>1
  <2>5. AllCounted'[<<g, p>>] =
          [AllCounted[<<g, p>>] EXCEPT ![a] = godTokenForUsers[a]]
    BY <2>3 DEF AllCounted
  <2>6. \A q \in Governors \X ProposalIds :
          q # <<g, p>> => AllCounted'[q] = AllCounted[q]
    BY <2>4 DEF AllCounted
  <2>7. /\ AllCounted = [q \in Governors \X ProposalIds |-> AllCounted[q]]
        /\ AllCounted' = [q \in Governors \X ProposalIds |-> AllCounted'[q]]
    BY DEF AllCounted
  <2> QED BY <2>5, <2>6, <2>7
<1>6. AllCounted[<<g, p>>][a] = 0
  BY <1>3 DEF AllCounted
<1>7. <<g, p>> \notin Closed /\ Closed' = Closed
  BY <1>1, <1>2 DEF Closed, Live
<1> QED BY <1>1, <1>5, <1>6, <1>7 DEF Polls!Vote, AllCounted, Counted, Closed

LEMMA CloseRefines ==
  ASSUME BackingInv, NEW g \in Governors, NEW p \in ProposalIds, Close(g, p)
  PROVE  Polls!CloseNext(<<g, p>>)
<1>1. /\ Live(g, p)
      /\ proposals'[g][p].status \in {"Executed", "Canceled"}
      /\ \A h \in Governors, q \in ProposalIds :
           <<h, q>> # <<g, p>> => proposals'[h][q] = proposals[h][q]
      /\ UNCHANGED <<godTokenForUsers, ballots>>
  BY CloseEffect DEF BackingInv
<1>2. \A b \in Accounts : Counted(g, p, b)' = 0
  BY <1>1 DEF Counted, Live
<1>3. \A h \in Governors, q \in ProposalIds, b \in Accounts :
        <<h, q>> # <<g, p>> => Counted(h, q, b)' = Counted(h, q, b)
  BY <1>1 DEF Counted, Live
<1>4. AllCounted' = [AllCounted EXCEPT ![<<g, p>>] = [b \in Accounts |-> 0]]
  <2>1. \A q \in Governors \X ProposalIds :
          q = <<q[1], q[2]>> /\ q[1] \in Governors /\ q[2] \in ProposalIds
    OBVIOUS
  <2>2. \A q \in Governors \X ProposalIds :
          q # <<g, p>> =>
            [b \in Accounts |-> Counted(q[1], q[2], b)'] =
              [b \in Accounts |-> Counted(q[1], q[2], b)]
    BY <1>3, <2>1
  <2>3. [b \in Accounts |-> Counted(g, p, b)'] = [b \in Accounts |-> 0]
    BY <1>2
  <2>4. AllCounted'[<<g, p>>] = [b \in Accounts |-> 0]
    BY <2>3 DEF AllCounted
  <2>5. \A q \in Governors \X ProposalIds :
          q # <<g, p>> => AllCounted'[q] = AllCounted[q]
    BY <2>2 DEF AllCounted
  <2>6. /\ AllCounted = [q \in Governors \X ProposalIds |-> AllCounted[q]]
        /\ AllCounted' = [q \in Governors \X ProposalIds |-> AllCounted'[q]]
    BY DEF AllCounted
  <2> QED BY <2>4, <2>5, <2>6
<1>5. <<g, p>> \notin Closed /\ Closed' = Closed \cup {<<g, p>>}
  BY <1>1 DEF Closed, Live
<1> QED BY <1>1, <1>4, <1>5 DEF Polls!CloseNext, AllCounted, Counted, Closed

LEMMA NextRefines ==
  ASSUME Relayers = {}, BackingInv, [Next]_vars
  PROVE  [Polls!Next]_(Polls!pollVars)
<1>1. ASSUME NEW g \in Governors, NEW p \in ProposalIds, Close(g, p)
      PROVE  Polls!Next
  BY <1>1, CloseRefines DEF Polls!Next
<1>2. ASSUME NEW g \in Governors, NEW p \in ProposalIds, NEW a \in Accounts,
             NEW s \in Supports, RecordVote(a, a, g, p, s)
      PROVE  Polls!Next
  BY <1>2, VoteRefines DEF Polls!Next
<1>3. ASSUME NEW a \in Accounts, NEW n \in Amounts, Lock(a, n) \/ Unlock(a, n)
      PROVE  Polls!Next
  BY <1>3, LockRefines, UnlockRefines DEF Polls!Next
<1>4. ASSUME UNCHANGED <<governorProposalVoters, godTokenForUsers, proposals,
                         ballots>>
      PROVE  UNCHANGED Polls!pollVars
  BY <1>4 DEF Polls!pollVars, Live
<1> QED BY <1>1, <1>2, <1>3, <1>4, BackingSteps, CreateRefines DEF BackingInv

(***************************************************************************)
(* The governors and the holder implement WeightedPolls: one vote per      *)
(* account and poll, with all its stake, and no stake shrinks while one of *)
(* its votes counts (HederaGovernor.sol:311-509, GODHolder.sol:24-88).     *)
(***************************************************************************)
THEOREM GovernorsImplementPolls ==
  ASSUME Relayers = {}
  PROVE  Spec => ImplementsPolls
<1>1. BackingInv /\ TypeOK' /\ [Next]_vars => BackingInv'
  BY NextBacking
<1>2. Spec => []BackingInv
  BY <1>1, InitBacking, TypeCorrect, PTL DEF Spec
<1>3. BackingInv /\ [Next]_vars => [Polls!Next]_(Polls!pollVars)
  BY NextRefines
<1> QED BY <1>2, <1>3, InitRefines, PTL DEF Spec, ImplementsPolls, Polls!Spec

-----------------------------------------------------------------------------
(* A vote that has ended is not reopened: its outcome depends on the       *)
(* supply and on its own governor's threshold only.                        *)

Decided(g, p) == State(g, p) \in {"Succeeded", "Defeated"}

(* What the outcome is computed from, once the vote has ended.             *)
Verdict(g, p) ==
  IF ~QuorumDefined(totalSupply, quorumThreshold[g]) THEN "Reverted"
  ELSE IF QuorumReached(g, p) /\ VoteSucceeded(g, p) THEN "Succeeded"
  ELSE "Defeated"

Ended(g, p) ==
  /\ Live(g, p)
  /\ proposals[g][p].voteStart < now
  /\ proposals[g][p].voteEnd < now

LEMMA DecidedHasEnded ==
  ASSUME TypeOK, NEW g \in Governors, NEW p \in ProposalIds, Decided(g, p)
  PROVE  Ended(g, p)
<1>1. proposals[g][p] \in Proposal /\ now \in Nat
  BY DEF TypeOK
<1>2. proposals[g][p].voteStart \in Nat /\ proposals[g][p].voteEnd \in Nat
  BY <1>1 DEF Proposal
<1>3. Live(g, p)
  <2> SUFFICES ASSUME proposals[g][p].status # "Open" PROVE FALSE
    BY DEF Live
  <2>1. State(g, p) = proposals[g][p].status
    BY DEF State, Live
  <2>2. proposals[g][p].status \in {"Unknown", "Executed", "Canceled"}
    BY <1>1 DEF Proposal
  <2> QED BY <2>1, <2>2 DEF Decided
<1>4. ASSUME now <= proposals[g][p].voteStart PROVE FALSE
  <2>1. State(g, p) = "Pending"
    BY <1>1, <1>2, <1>3, <1>4 DEF State, Live
  <2> QED BY <2>1 DEF Decided
<1>5. ASSUME proposals[g][p].voteStart < now, now <= proposals[g][p].voteEnd
      PROVE  FALSE
  <2>1. State(g, p) = "Active"
    BY <1>1, <1>2, <1>3, <1>5 DEF State, Live
  <2> QED BY <2>1 DEF Decided
<1> QED BY <1>1, <1>2, <1>3, <1>4, <1>5 DEF Ended

LEMMA EndedVerdict ==
  ASSUME TypeOK, NEW g \in Governors, NEW p \in ProposalIds, Ended(g, p)
  PROVE  State(g, p) = Verdict(g, p)
<1>1. proposals[g][p] \in Proposal /\ now \in Nat
  BY DEF TypeOK
<1>2. proposals[g][p].voteStart \in Nat /\ proposals[g][p].voteEnd \in Nat
  BY <1>1 DEF Proposal
<1> QED BY <1>1, <1>2 DEF State, Verdict, Ended, Live

(* A step closes a proposal whose vote has ended, or leaves it and its     *)
(* ballots as they are.                                                    *)
LEMMA EndedSteps ==
  ASSUME TypeOK, [Next]_vars, NEW g \in Governors, NEW p \in ProposalIds,
         Ended(g, p)
  PROVE  \/ proposals'[g][p].status \in {"Executed", "Canceled"}
         \/ /\ proposals'[g][p] = proposals[g][p]
            /\ ballots'[g][p] = ballots[g][p]
            /\ now' \in Nat /\ now <= now'
<1>1. now \in Nat /\ proposals[g][p] \in Proposal
  BY DEF TypeOK
<1>2. proposals[g][p].voteStart \in Nat /\ proposals[g][p].voteEnd \in Nat
  BY <1>1 DEF Proposal
<1>3. CASE TokenNext \/ UserNext \/ UNCHANGED vars
  BY <1>1, <1>3
     DEF TokenNext, Transfer, Mint, Burn, UserNext, Lock, Unlock, vars
<1>4. CASE Tick
  BY <1>1, <1>4 DEF Tick
<1>5. ASSUME NEW a \in Accounts, NEW h \in Governors, NEW q \in ProposalIds,
             CreateProposal(a, h, q)
      PROVE  /\ proposals'[g][p] = proposals[g][p]
             /\ UNCHANGED <<ballots, now>>
  <2>1. <<h, q>> # <<g, p>>
    BY <1>5 DEF CreateProposal, Ended, Live
  <2> QED BY <1>5, <2>1 DEF CreateProposal, TypeOK
<1>6. ASSUME NEW a \in Accounts, NEW o \in Accounts, NEW h \in Governors,
             NEW q \in ProposalIds, NEW s \in Supports, RecordVote(a, o, h, q, s)
      PROVE  /\ ballots'[g][p] = ballots[g][p]
             /\ UNCHANGED <<proposals, now>>
  <2>1. <<h, q>> # <<g, p>>
    <3> SUFFICES ASSUME h = g, q = p PROVE FALSE
      OBVIOUS
    <3>1. State(g, p) = "Active"
      BY <1>6 DEF RecordVote, VotingOpen
    <3>2. State(g, p) = Verdict(g, p)
      BY EndedVerdict
    <3> QED BY <3>1, <3>2 DEF Verdict
  <2> QED BY <1>6, <2>1 DEF RecordVote, TypeOK
<1>7. ASSUME NEW h \in Governors, NEW q \in ProposalIds, Close(h, q)
      PROVE  \/ proposals'[g][p].status \in {"Executed", "Canceled"}
             \/ /\ proposals'[g][p] = proposals[g][p]
                /\ UNCHANGED <<ballots, now>>
  <2>1. UNCHANGED now
    BY <1>7 DEF Close, Cancel, Execute
  <2> QED BY <1>7, <2>1, CloseEffect
<1>8. ASSUME NEW h \in Governors, NEW q \in ProposalIds, CastNext(h, q)
      PROVE  \E a \in Accounts, o \in Accounts, s \in Supports :
               RecordVote(a, o, h, q, s)
  BY <1>8, GovernorAssumption DEF CastNext, CastVote, CastVoteBySig
<1> QED
  BY <1>1, <1>3, <1>4, <1>5, <1>6, <1>7, <1>8 DEF Next, ProposalNext

LEMMA StepKeepsOutcome ==
  ASSUME TypeOK, TypeOK', [Next]_vars,
         NEW g \in Governors, NEW p \in ProposalIds, Decided(g, p),
         totalSupply' = totalSupply, quorumThreshold'[g] = quorumThreshold[g]
  PROVE  State(g, p)' \in {State(g, p), "Executed", "Canceled"}
<1>1. Ended(g, p) /\ State(g, p) = Verdict(g, p)
  BY DecidedHasEnded, EndedVerdict
<1>2. CASE proposals'[g][p].status \in {"Executed", "Canceled"}
  BY <1>2 DEF State, Live
<1>3. CASE /\ proposals'[g][p] = proposals[g][p]
           /\ ballots'[g][p] = ballots[g][p]
           /\ now' \in Nat /\ now <= now'
  <2>1. now \in Nat /\ proposals[g][p] \in Proposal
    BY DEF TypeOK
  <2>2. proposals[g][p].voteStart \in Nat /\ proposals[g][p].voteEnd \in Nat
    BY <2>1 DEF Proposal
  <2>3. Ended(g, p)'
    BY <1>1, <1>3, <2>1, <2>2 DEF Ended, Live
  <2>4. \A s \in {"For", "Against", "Abstain"} : Tally(g, p, s)' = Tally(g, p, s)
    BY <1>3 DEF Tally
  <2>5. Verdict(g, p)' = Verdict(g, p)
    BY <2>4 DEF Verdict, QuorumReached, VoteSucceeded, Quorum, QuorumDefined
  <2>6. State(g, p)' = Verdict(g, p)'
    <3>1. (proposals[g][p] \in Proposal /\ now \in Nat)'
      BY DEF TypeOK
    <3>2. (proposals[g][p].voteStart \in Nat /\ proposals[g][p].voteEnd \in Nat)'
      BY <3>1 DEF Proposal
    <3> QED BY <2>3, <3>1, <3>2 DEF State, Verdict, Ended, Live
  <2> QED BY <1>1, <2>5, <2>6
<1> QED BY <1>1, <1>2, <1>3, EndedSteps

(***************************************************************************)
(* Between two changes of the supply or of its governor's threshold, the   *)
(* outcome of a vote that has ended does not move, whoever votes, locks,   *)
(* unlocks or closes other proposals (HederaGovernor.sol:240-247, 311-509).*)
(***************************************************************************)
THEOREM OutcomesAreStable == Spec => OutcomeStable
<1>1. TypeOK /\ TypeOK' /\ [Next]_vars =>
        [\A g \in Governors, p \in ProposalIds :
           /\ State(g, p) \in {"Succeeded", "Defeated"}
           /\ totalSupply' = totalSupply
           /\ quorumThreshold'[g] = quorumThreshold[g]
           => State(g, p)' \in {State(g, p), "Executed", "Canceled"}]_vars
  BY StepKeepsOutcome DEF Decided
<1> QED BY <1>1, TypeCorrect, PTL DEF Spec, OutcomeStable
-----------------------------------------------------------------------------
(* The quorum stays defined *)

(* No burn takes the supply below what a threshold in use needs.           *)
BurnLeavesQuorum ==
  \A a \in Accounts, g \in Governors :
    Burn(a) /\ QuorumDefined(totalSupply, quorumThreshold[g]) =>
      QuorumDefined(totalSupply', quorumThreshold[g])

(* More supply keeps a quorum defined. *)
LEMMA MoreSupply ==
  ASSUME NEW s \in Nat, NEW n \in Nat, NEW t \in Nat, s <= n, QuorumDefined(s, t)
  PROVE  QuorumDefined(n, t)
<1>1. s * t <= n * t /\ s * t \in Nat /\ n * t \in Nat /\ Bsp \in Nat
  BY TimesOrder, TimesIsNat, GovernorAssumption
<1> QED BY <1>1 DEF QuorumDefined

LEMMA StepKeepsQuorum ==
  ASSUME TypeOK, QuorumDefinedForProposals, [Next]_vars, BurnLeavesQuorum
  PROVE  QuorumDefinedForProposals'
<1> SUFFICES ASSUME NEW g \in Governors,
                    \E p \in ProposalIds : proposals'[g][p].status # "Unknown"
             PROVE  QuorumDefined(totalSupply', quorumThreshold'[g])
  BY DEF QuorumDefinedForProposals, QuorumDefined
<1>1. ASSUME UNCHANGED <<totalSupply, quorumThreshold, proposals>>
      PROVE  QuorumDefined(totalSupply', quorumThreshold'[g])
  BY <1>1 DEF QuorumDefinedForProposals
<1>2. ASSUME UNCHANGED <<quorumThreshold, proposals>>
      PROVE  QuorumDefined(totalSupply, quorumThreshold[g])
  BY <1>2 DEF QuorumDefinedForProposals
<1>3. CASE TokenNext
  <2>1. ASSUME NEW a \in Accounts, NEW to \in Payees, NEW n \in Amounts,
               Transfer(a, to, n)
        PROVE  QuorumDefined(totalSupply', quorumThreshold'[g])
    BY <1>1, <2>1 DEF Transfer
  <2>2. ASSUME NEW a \in Accounts, Mint(a)
        PROVE  QuorumDefined(totalSupply', quorumThreshold'[g])
    <3>1. /\ totalSupply \in Nat /\ quorumThreshold[g] \in Nat
          /\ totalSupply' = totalSupply + 1
          /\ UNCHANGED <<quorumThreshold, proposals>>
      BY <2>2 DEF Mint, TypeOK
    <3> QED BY <1>2, <3>1, MoreSupply
  <2>3. ASSUME NEW a \in Accounts, Burn(a)
        PROVE  QuorumDefined(totalSupply', quorumThreshold'[g])
    <3>1. UNCHANGED <<quorumThreshold, proposals>>
      BY <2>3 DEF Burn
    <3> QED BY <1>2, <2>3, <3>1 DEF BurnLeavesQuorum
  <2> QED BY <1>3, <2>1, <2>2, <2>3 DEF TokenNext
<1>4. CASE UserNext \/ Tick \/ UNCHANGED vars
  BY <1>1, <1>4 DEF UserNext, Lock, Unlock, Tick, vars
<1>5. ASSUME NEW h \in Governors, NEW q \in ProposalIds, ProposalNext(h, q)
      PROVE  QuorumDefined(totalSupply', quorumThreshold'[g])
  <2>1. UNCHANGED totalSupply
    <3>1. CASE CastNext(h, q)
      BY <3>1 DEF CastNext, CastVote, CastVoteBySig, RecordVote
    <3>2. CASE Close(h, q)
      BY <3>2 DEF Close, Cancel, Execute
    <3> QED BY <1>5, <3>1, <3>2 DEF ProposalNext, CreateProposal
  <2>2. CASE h = g
    <3>1. CASE CastNext(h, q)
      BY <2>2, <3>1 DEF CastNext, CastVote, CastVoteBySig, RecordVote,
                        CanEmitVotingInformation
    <3>2. CASE Close(h, q)
      BY <2>2, <3>2 DEF Close, Cancel, Execute, CanEmitVotingInformation
    <3> QED BY <1>5, <2>2, <3>1, <3>2
            DEF ProposalNext, CreateProposal, CanEmitVotingInformation
  <2>3. CASE h # g
    <3>1. proposals'[g] = proposals[g] /\ quorumThreshold'[g] = quorumThreshold[g]
      <4>1. CASE CastNext(h, q)
        BY <4>1 DEF CastNext, CastVote, CastVoteBySig, RecordVote
      <4>2. CASE Close(h, q)
        BY <2>3, <4>2 DEF Close, Cancel, Execute, ProposalCalls, TypeOK
      <4> QED BY <1>5, <2>3, <4>1, <4>2 DEF ProposalNext, CreateProposal, TypeOK
    <3>2. QuorumDefined(totalSupply, quorumThreshold[g])
      BY <3>1 DEF QuorumDefinedForProposals
    <3> QED BY <2>1, <3>1, <3>2
  <2> QED BY <2>2, <2>3
<1> QED BY <1>3, <1>4, <1>5 DEF Next

(***************************************************************************)
(* While no burn takes the supply below what the thresholds in use need, a *)
(* governor that has a proposal has a defined quorum: a call that would    *)
(* make it undefined reverts with the execution that makes it, since the   *)
(* voting information is emitted last (HederaGovernor.sol:240-247, 311-403).*)
(***************************************************************************)
THEOREM QuorumStaysDefined ==
  Spec /\ [][BurnLeavesQuorum]_vars => []QuorumDefinedForProposals
<1>1. Init => QuorumDefinedForProposals
  BY DEF Init, NoProposal, QuorumDefinedForProposals
<1>2. TypeOK /\ QuorumDefinedForProposals /\ [Next]_vars /\ [BurnLeavesQuorum]_vars
      => QuorumDefinedForProposals'
  <2>1. CASE UNCHANGED vars
    BY <2>1 DEF vars, QuorumDefinedForProposals, QuorumDefined
  <2> QED BY <2>1, StepKeepsQuorum
<1> QED BY <1>1, <1>2, TypeCorrect, PTL DEF Spec

-----------------------------------------------------------------------------
(* The tokens the holder and the governors owe are in their accounts.      *)

(* What is locked in all, after a change of what one user has locked.       *)
LEMMA OwedChange ==
  ASSUME NEW owed, \A b \in Accounts : owed[b] \in Nat,
         NEW a \in Accounts, NEW owedNext, owedNext[a] \in Nat,
         \A b \in Accounts \ {a} : owedNext[b] = owed[b]
  PROVE  /\ Total(Accounts, owed) \in Nat
         /\ Total(Accounts, owedNext) = Total(Accounts, owed) - owed[a] + owedNext[a]
BY AddressesAssumption, TotalChange

USE DEF Addresses, TypeInv, TypeOK, GODHolderTypeOK, TokenHolderTypeOK

(* A transfer lowers the balance of its sender only.                       *)
LEMMA OnlySenderPays ==
  ASSUME balance \in [Addresses -> Nat],
         NEW from \in Addresses, NEW to \in Addresses, NEW n \in Nat,
         Transferable(from, n), NEW x \in Addresses, x # from
  PROVE  /\ Moved(from, to, n)[x] >= balance[x]
         /\ x # to => Moved(from, to, n)[x] = balance[x]
         /\ x = to => Moved(from, to, n)[x] = balance[x] + n
BY DEF Moved, Transferable

(* Who pays in each step: plain transfers and the token's own operations   *)
(* take from accounts, a cleanup from the governor that closes a proposal. *)
LEMMA CloseMoves ==
  ASSUME TypeInv, NEW g \in Governors, NEW p \in ProposalIds, Close(g, p)
  PROVE  /\ Live(g, p)
         /\ Transferable(g, Deposit)
         /\ proposals[g][p].creator \in Accounts
         /\ balance' = Moved(g, proposals[g][p].creator, Deposit)
<1>1. Live(g, p)
  BY CloseEffect
<1>2. proposals[g][p].creator \in Accounts
  BY <1>1 DEF Live, CreatorKnown
<1> QED BY <1>1, <1>2 DEF Close, Cancel, Execute, Cleanup

LEMMA TokenStepMoves ==
  ASSUME TypeInv, TokenNext \/ Tick \/ UNCHANGED vars,
         NEW x \in Governors \cup {Holder}
  PROVE  /\ balance'[x] \in Nat /\ balance'[x] >= balance[x]
         /\ UNCHANGED <<godTokenForUsers, proposals>>
<1> x \in Addresses /\ x \notin Accounts /\ balance[x] \in Nat
  BY AddressesAssumption
<1>1. ASSUME NEW a \in Accounts, NEW to \in Payees, NEW n \in Amounts,
             Transfer(a, to, n)
      PROVE  balance'[x] >= balance[x]
  <2>1. n \in Nat /\ to \in Addresses /\ a \in Addresses
    BY GovernorAssumption
  <2> QED BY <1>1, <2>1, OnlySenderPays DEF Transfer
<1>2. ASSUME NEW a \in Accounts, Mint(a) \/ Burn(a)
      PROVE  balance'[x] = balance[x]
  BY <1>2 DEF Mint, Burn
<1>3. ASSUME Tick \/ UNCHANGED vars
      PROVE  balance'[x] = balance[x]
  BY <1>3 DEF Tick, vars
<1>4. balance'[x] \in Nat
  <2>1. [Next]_vars
    BY DEF Next
  <2>2. TypeInv'
    BY <2>1, NextType
  <2> QED BY <2>2
<1> QED
  BY <1>1, <1>2, <1>3, <1>4 DEF TokenNext, Transfer, Mint, Burn, Tick, vars

-----------------------------------------------------------------------------
(* The holder owns what it recorded as locked *)

LEMMA InitHolderBacked == Init => HolderBacked
<1> SUFFICES ASSUME Init PROVE HolderBacked
  OBVIOUS
<1>1. Total(Accounts, godTokenForUsers) = 0
  BY TotalZero DEF Init, GODHolderInit
<1>2. balance[Holder] = 0
  BY AddressesAssumption DEF Init
<1> QED BY <1>1, <1>2 DEF HolderBacked

LEMMA LockHolderBacked ==
  ASSUME TypeInv, HolderBacked, NEW a \in Accounts, NEW n \in Amounts, Lock(a, n)
  PROVE  HolderBacked'
<1>1. n \in Nat /\ a # Holder
  BY GovernorAssumption, AddressesAssumption
<1>2. balance'[Holder] = balance[Holder] + n
  BY <1>1 DEF Lock, GrabTokensFromUser, Transferable, Moved
<1>3. /\ godTokenForUsers'[a] = godTokenForUsers[a] + n
      /\ \A b \in Accounts \ {a} : godTokenForUsers'[b] = godTokenForUsers[b]
      /\ godTokenForUsers'[a] \in Nat
  BY <1>1 DEF Lock, GrabTokensFromUser
<1>4. balance[Holder] \in Nat /\ \A b \in Accounts : godTokenForUsers[b] \in Nat
  OBVIOUS
<1>5. /\ Total(Accounts, godTokenForUsers) \in Nat
      /\ Total(Accounts, godTokenForUsers') =
           Total(Accounts, godTokenForUsers)
             - godTokenForUsers[a] + godTokenForUsers'[a]
  BY <1>3, <1>4, OwedChange
<1> QED BY <1>1, <1>2, <1>3, <1>4, <1>5 DEF HolderBacked

LEMMA UnlockHolderBacked ==
  ASSUME TypeInv, HolderBacked, NEW a \in Accounts, NEW n \in Amounts,
         Unlock(a, n)
  PROVE  HolderBacked'
<1>1. n \in Nat /\ a # Holder
  BY GovernorAssumption, AddressesAssumption
<1>2. balance'[Holder] = balance[Holder] - n
  BY <1>1 DEF Unlock, RevertTokensForVoter, Moved
<1>3. /\ godTokenForUsers'[a] = godTokenForUsers[a] - n
      /\ godTokenForUsers'[a] \in Nat
      /\ \A b \in Accounts \ {a} : godTokenForUsers'[b] = godTokenForUsers[b]
  BY <1>1 DEF Unlock, RevertTokensForVoter, HasLocked
<1>4. balance[Holder] \in Nat /\ \A b \in Accounts : godTokenForUsers[b] \in Nat
  OBVIOUS
<1>5. /\ Total(Accounts, godTokenForUsers) \in Nat
      /\ Total(Accounts, godTokenForUsers') =
           Total(Accounts, godTokenForUsers)
             - godTokenForUsers[a] + godTokenForUsers'[a]
  BY <1>3, <1>4, OwedChange
<1> QED BY <1>1, <1>2, <1>3, <1>4, <1>5 DEF HolderBacked

LEMMA NextHolderBacked == TypeInv /\ HolderBacked /\ [Next]_vars => HolderBacked'
<1> SUFFICES ASSUME TypeInv, HolderBacked, [Next]_vars PROVE HolderBacked'
  OBVIOUS
<1>1. ASSUME balance'[Holder] \in Nat, balance'[Holder] >= balance[Holder],
             UNCHANGED godTokenForUsers
      PROVE  HolderBacked'
  <2>1. Total(Accounts, godTokenForUsers) \in Nat
    BY AddressesAssumption, AllSlotsFinite
  <2>2. balance[Holder] \in Nat
    OBVIOUS
  <2> QED BY <1>1, <2>1, <2>2 DEF HolderBacked
<1>2. balance'[Holder] \in Nat
  <2>1. TypeInv'
    BY NextType
  <2> QED BY <2>1
<1>3. CASE TokenNext \/ Tick \/ UNCHANGED vars
  BY <1>1, <1>3, TokenStepMoves
<1>4. CASE UserNext
  BY <1>4, LockHolderBacked, UnlockHolderBacked DEF UserNext
<1>5. ASSUME NEW g \in Governors, NEW p \in ProposalIds, ProposalNext(g, p)
      PROVE  HolderBacked'
  <2>1. ASSUME NEW a \in Accounts, CreateProposal(a, g, p) PROVE HolderBacked'
    <3>1. a # Holder /\ Deposit \in Nat
      BY AddressesAssumption, GovernorAssumption
    <3>2. balance'[Holder] >= balance[Holder]
      BY <2>1, <3>1, OnlySenderPays DEF CreateProposal
    <3> QED BY <1>1, <1>2, <2>1, <3>2 DEF CreateProposal
  <2>2. CASE CastNext(g, p)
    <3>1. UNCHANGED <<balance, godTokenForUsers>>
      BY <2>2 DEF CastNext, CastVote, CastVoteBySig, RecordVote
    <3> QED BY <3>1 DEF HolderBacked
  <2>3. CASE Close(g, p)
    <3>1. g # Holder /\ Deposit \in Nat
      BY AddressesAssumption, GovernorAssumption
    <3>2. balance'[Holder] >= balance[Holder]
      BY <2>3, <3>1, CloseMoves, OnlySenderPays
    <3>3. UNCHANGED godTokenForUsers
      BY <2>3, CloseEffect
    <3> QED BY <1>1, <1>2, <3>2, <3>3
  <2> QED BY <1>5, <2>1, <2>2, <2>3 DEF ProposalNext
<1> QED BY <1>3, <1>4, <1>5 DEF Next

(***************************************************************************)
(* The holder always owns what it owes its users, whatever the governors,  *)
(* relayers and the token do (GODHolder.sol:24-57).                        *)
(***************************************************************************)
THEOREM HolderOwnsItsDebt == Spec => []HolderBacked
<1>1. Init => TypeInv
  <2>1. Init => CreatorKnown
    BY DEF Init, CreatorKnown, NoProposal
  <2> QED BY <2>1, InitType
<1>2. Spec => []TypeInv
  BY <1>1, NextType, PTL DEF Spec
<1> QED BY <1>2, InitHolderBacked, NextHolderBacked, PTL DEF Spec

-----------------------------------------------------------------------------
(* The governors own the deposits they owe.  The count of live proposals   *)
(* is a number because they are finitely many in every reachable state,    *)
(* however many ids there are.                                             *)

LiveIds(g) == {p \in ProposalIds : Live(g, p)}

DepositsInv ==
  \A g \in Governors :
    /\ IsFiniteSet(LiveIds(g))
    /\ balance[g] >= Deposit * Cardinality(LiveIds(g))

(* One more deposit, and one less. *)
LEMMA OneMoreDeposit ==
  ASSUME NEW d \in Nat, NEW c \in Nat
  PROVE  d * c \in Nat /\ d * (c + 1) = d * c + d
OBVIOUS

(* A governor keeps what it owes when its balance does not fall and its    *)
(* live proposals stay the same.                                           *)
LEMMA DepositsKept ==
  ASSUME TypeInv, DepositsInv, NEW g \in Governors,
         balance'[g] \in Nat, balance'[g] >= balance[g],
         LiveIds(g)' = LiveIds(g)
  PROVE  /\ IsFiniteSet(LiveIds(g)')
         /\ balance'[g] >= Deposit * Cardinality(LiveIds(g)')
<1>1. /\ IsFiniteSet(LiveIds(g)) /\ balance[g] \in Nat
      /\ balance[g] >= Deposit * Cardinality(LiveIds(g))
  BY DEF DepositsInv
<1>2. Cardinality(LiveIds(g)) \in Nat
  BY <1>1, FS_CardinalityType
<1> DEFINE owed == Deposit * Cardinality(LiveIds(g))
<1>3. owed \in Nat
  BY <1>2, GovernorAssumption, OneMoreDeposit
<1>4. balance[g] >= owed
  BY <1>1
<1> HIDE DEF owed
<1>5. balance'[g] >= owed
  BY <1>1, <1>3, <1>4
<1> QED BY <1>1, <1>5 DEF owed

LEMMA CreateDeposits ==
  ASSUME TypeInv, DepositsInv, NEW a \in Accounts, NEW g \in Governors,
         NEW p \in ProposalIds, CreateProposal(a, g, p)
  PROVE  DepositsInv'
<1>1. /\ Deposit \in Nat /\ a # g /\ proposals[g][p].status = "Unknown"
      /\ balance' = Moved(a, g, Deposit) /\ Transferable(a, Deposit)
      /\ a \in Addresses /\ \A h \in Governors : h \in Addresses /\ h # a
  BY GovernorAssumption, AddressesAssumption DEF CreateProposal
<1>2. \A h \in Governors : balance'[h] \in Nat
  BY CreateType
<1>3. /\ proposals'[g][p].status = "Open"
      /\ \A h \in Governors, q \in ProposalIds :
           <<h, q>> # <<g, p>> => proposals'[h][q] = proposals[h][q]
  BY DEF CreateProposal
<1>4. ASSUME NEW h \in Governors, h # g
      PROVE  /\ IsFiniteSet(LiveIds(h)')
             /\ balance'[h] >= Deposit * Cardinality(LiveIds(h)')
  <2>1. LiveIds(h)' = LiveIds(h)
    BY <1>3, <1>4 DEF LiveIds, Live
  <2>2. balance'[h] >= balance[h]
    BY <1>1, OnlySenderPays
  <2> QED BY <1>2, <2>1, <2>2, DepositsKept
<1>5. LiveIds(g)' = LiveIds(g) \cup {p} /\ p \notin LiveIds(g)
  BY <1>1, <1>3 DEF LiveIds, Live
<1>6. /\ IsFiniteSet(LiveIds(g))
      /\ balance[g] >= Deposit * Cardinality(LiveIds(g))
  BY DEF DepositsInv
<1>7. /\ IsFiniteSet(LiveIds(g)')
      /\ Cardinality(LiveIds(g)') = Cardinality(LiveIds(g)) + 1
      /\ Cardinality(LiveIds(g)) \in Nat
  BY <1>5, <1>6, FS_AddElement, FS_CardinalityType
<1>8. balance'[g] = balance[g] + Deposit /\ balance[g] \in Nat
  BY <1>1, OnlySenderPays
<1>9. balance'[g] >= Deposit * Cardinality(LiveIds(g)')
  <2> DEFINE owed == Deposit * Cardinality(LiveIds(g))
  <2>1. owed \in Nat /\ Deposit * Cardinality(LiveIds(g)') = owed + Deposit
    BY <1>1, <1>7, OneMoreDeposit
  <2>2. balance[g] >= owed
    BY <1>6
  <2> HIDE DEF owed
  <2> QED BY <1>1, <1>8, <2>1, <2>2
<1> QED BY <1>4, <1>7, <1>9 DEF DepositsInv

LEMMA CloseDeposits ==
  ASSUME TypeInv, DepositsInv, NEW g \in Governors, NEW p \in ProposalIds,
         Close(g, p)
  PROVE  DepositsInv'
<1> DEFINE creator == proposals[g][p].creator
<1>1. /\ Deposit \in Nat /\ Live(g, p) /\ Transferable(g, Deposit)
      /\ creator \in Accounts /\ creator # g
      /\ balance' = Moved(g, creator, Deposit)
      /\ creator \in Addresses /\ \A h \in Governors : h \in Addresses
  BY CloseMoves, GovernorAssumption, AddressesAssumption
<1> HIDE DEF creator
<1>2. \A h \in Governors : balance'[h] \in Nat
  BY CloseType
<1>3. /\ proposals'[g][p].status \in {"Executed", "Canceled"}
      /\ \A h \in Governors, q \in ProposalIds :
           <<h, q>> # <<g, p>> => proposals'[h][q] = proposals[h][q]
  BY CloseEffect
<1>4. ASSUME NEW h \in Governors, h # g
      PROVE  /\ IsFiniteSet(LiveIds(h)')
             /\ balance'[h] >= Deposit * Cardinality(LiveIds(h)')
  <2>1. LiveIds(h)' = LiveIds(h)
    BY <1>3, <1>4 DEF LiveIds, Live
  <2>2. balance'[h] >= balance[h]
    BY <1>1, <1>4, OnlySenderPays
  <2> QED BY <1>2, <2>1, <2>2, DepositsKept
<1>5. LiveIds(g)' = LiveIds(g) \ {p} /\ p \in LiveIds(g)
  BY <1>1, <1>3 DEF LiveIds, Live
<1>6. /\ IsFiniteSet(LiveIds(g))
      /\ balance[g] >= Deposit * Cardinality(LiveIds(g))
  BY DEF DepositsInv
<1>7. /\ IsFiniteSet(LiveIds(g)')
      /\ Cardinality(LiveIds(g)) = Cardinality(LiveIds(g)') + 1
      /\ Cardinality(LiveIds(g)') \in Nat
  <2>1. /\ IsFiniteSet(LiveIds(g) \ {p})
        /\ Cardinality(LiveIds(g) \ {p}) = Cardinality(LiveIds(g)) - 1
    BY <1>5, <1>6, FS_RemoveElement
  <2>2. /\ Cardinality(LiveIds(g)) \in Nat
        /\ Cardinality(LiveIds(g) \ {p}) \in Nat
    BY <1>6, <2>1, FS_CardinalityType
  <2> QED BY <1>5, <2>1, <2>2
<1>8. balance'[g] = balance[g] - Deposit /\ balance[g] \in Nat
  BY <1>1 DEF Moved
<1>9. balance'[g] >= Deposit * Cardinality(LiveIds(g)')
  <2> DEFINE owed == Deposit * Cardinality(LiveIds(g)')
  <2>1. owed \in Nat /\ Deposit * Cardinality(LiveIds(g)) = owed + Deposit
    BY <1>1, <1>7, OneMoreDeposit
  <2>2. balance[g] >= owed + Deposit
    BY <1>6, <2>1
  <2> HIDE DEF owed
  <2>3. balance'[g] >= owed
    BY <1>1, <1>8, <2>1, <2>2
  <2> QED BY <2>3 DEF owed
<1> QED BY <1>4, <1>7, <1>9 DEF DepositsInv

LEMMA NextDeposits == TypeInv /\ DepositsInv /\ [Next]_vars => DepositsInv'
<1> SUFFICES ASSUME TypeInv, DepositsInv, [Next]_vars PROVE DepositsInv'
  OBVIOUS
<1>1. \A g \in Governors : balance'[g] \in Nat /\ balance[g] \in Nat
  BY NextType
<1>2. ASSUME UNCHANGED proposals, \A g \in Governors : balance'[g] >= balance[g]
      PROVE  DepositsInv'
  <2> SUFFICES ASSUME NEW g \in Governors
               PROVE  /\ IsFiniteSet(LiveIds(g)')
                      /\ balance'[g] >= Deposit * Cardinality(LiveIds(g)')
    BY DEF DepositsInv
  <2>1. LiveIds(g)' = LiveIds(g)
    BY <1>2 DEF LiveIds, Live
  <2> QED BY <1>1, <1>2, <2>1, DepositsKept
<1>3. CASE TokenNext \/ Tick \/ UNCHANGED vars
  <2>1. /\ \A g \in Governors : balance'[g] >= balance[g]
        /\ UNCHANGED proposals
    BY <1>3, TokenStepMoves DEF TokenNext, Transfer, Mint, Burn, Tick, vars
  <2> QED BY <1>2, <2>1
<1>4. ASSUME NEW a \in Accounts, NEW n \in Amounts, Lock(a, n) \/ Unlock(a, n)
      PROVE  DepositsInv'
  <2>1. /\ n \in Nat /\ a \in Addresses /\ Holder \in Addresses
        /\ \A g \in Governors : g \in Addresses /\ g # a /\ g # Holder
    BY GovernorAssumption, AddressesAssumption
  <2>2. \/ balance' = Moved(a, Holder, n) /\ Transferable(a, n)
        \/ balance' = Moved(Holder, a, n) /\ Transferable(Holder, n)
    BY <1>4 DEF Lock, Unlock, GrabTokensFromUser, RevertTokensForVoter
  <2>3. ASSUME NEW g \in Governors PROVE balance'[g] >= balance[g]
    <3>1. CASE balance' = Moved(a, Holder, n) /\ Transferable(a, n)
      BY <2>1, <3>1, OnlySenderPays
    <3>2. CASE balance' = Moved(Holder, a, n) /\ Transferable(Holder, n)
      BY <2>1, <3>2, OnlySenderPays
    <3> QED BY <2>2, <3>1, <3>2
  <2> QED BY <1>2, <1>4, <2>3 DEF Lock, Unlock
<1>5. ASSUME NEW g \in Governors, NEW p \in ProposalIds, CastNext(g, p)
      PROVE  DepositsInv'
  <2>1. UNCHANGED <<balance, proposals>>
    BY <1>5 DEF CastNext, CastVote, CastVoteBySig, RecordVote
  <2>2. \A h \in Governors : balance'[h] >= balance[h]
    BY <1>1, <2>1
  <2> QED BY <1>2, <2>1, <2>2
<1> QED
  BY <1>3, <1>4, <1>5, CreateDeposits, CloseDeposits
  DEF Next, UserNext, ProposalNext
LEMMA DepositsCounted == Spec => [](TypeInv /\ DepositsInv)
<1>1. Init => TypeInv
  <2>1. Init => CreatorKnown
    BY DEF Init, CreatorKnown, NoProposal
  <2> QED BY <2>1, InitType
<1>2. Init => DepositsInv
  <2> SUFFICES ASSUME Init, NEW g \in Governors
               PROVE  /\ IsFiniteSet(LiveIds(g))
                      /\ balance[g] >= Deposit * Cardinality(LiveIds(g))
    BY DEF DepositsInv
  <2>1. LiveIds(g) = {}
    BY DEF Init, LiveIds, Live, NoProposal
  <2>2. IsFiniteSet(LiveIds(g)) /\ Cardinality(LiveIds(g)) = 0
    BY <2>1, FS_EmptySet
  <2>3. balance[g] = 0
    BY AddressesAssumption DEF Init, Addresses
  <2> QED BY <2>2, <2>3, GovernorAssumption
<1>3. Spec => []TypeInv
  BY <1>1, NextType, PTL DEF Spec
<1> QED BY <1>2, <1>3, NextDeposits, PTL DEF Spec


(***************************************************************************)
(* Every governor always owns the deposits of its live proposals, so no    *)
(* cancel or execute fails for want of a deposit to return, whatever its   *)
(* proposals, the votes and the token do (HederaGovernor.sol:454-509).     *)
(***************************************************************************)
THEOREM DepositsAreHeld == Spec => []DepositsHeld
<1>1. DepositsInv => DepositsHeld
  BY DEF DepositsInv, DepositsHeld, LiveIds
<1> QED BY <1>1, DepositsCounted, PTL

-----------------------------------------------------------------------------
(* A live proposal can be closed                                           *)

(* What cancel requires of the state, and all that it then does.           *)
CanCancel(user, g, p) ==
  /\ Cancellable(g, p)
  /\ user = proposals[g][p].creator
  /\ CallerHoldsToken(g)
  /\ Transferable(g, Deposit)
  /\ QuorumDefined(totalSupply, quorumThreshold[g])

CancelEffect(g, p) ==
  /\ proposals' = [proposals EXCEPT ![g][p].status = "Canceled"]
  /\ activeProposalsForUsers' =
       [v \in Accounts |->
          [activeProposalsForUsers[v] EXCEPT
             ![p] = Monus(@, governorProposalVoters[g][p][v])]]
  /\ governorProposalVoters' =
       [governorProposalVoters EXCEPT ![g][p] = [v \in Accounts |-> 0]]
  /\ balance' = Moved(g, proposals[g][p].creator, Deposit)
  /\ UNCHANGED <<godTokenForUsers, now, totalSupply, quorumThreshold, ballots>>

(* So CanCancel is all that a cancel needs: its effect fixes the next      *)
(* value of each variable.                                                 *)
LEMMA CancelIsGuarded ==
  ASSUME NEW user, NEW g, NEW p
  PROVE  Cancel(user, g, p) <=> CanCancel(user, g, p) /\ CancelEffect(g, p)
BY DEF Cancel, CanCancel, CancelEffect, Cleanup, RemoveActiveProposals,
       CanEmitVotingInformation

(* Somebody, its creator, can cancel each live proposal. *)
LiveCanBeCanceled ==
  \A g \in Governors, p \in ProposalIds :
    Live(g, p) => \E user \in Accounts : CanCancel(user, g, p)

(***************************************************************************)
(* Nothing reachable makes cancel revert for the creator of a live         *)
(* proposal: neither what the holder asks of the governor, nor the deposit *)
(* that goes back, nor the quorum that is emitted at the end, as long as   *)
(* no burn takes the supply below what the thresholds in use need.  So     *)
(* ProposalsClose only waits for somebody to act (HederaGovernor.sol:      *)
(* 311-335, 454-458, 490-509, TokenHolder.sol:126-131).                    *)
(***************************************************************************)
THEOREM LiveProposalsCanBeCanceled ==
  Spec /\ [][BurnLeavesQuorum]_vars => []LiveCanBeCanceled
<1>1. TypeInv /\ DepositsInv /\ QuorumDefinedForProposals => LiveCanBeCanceled
  <2> SUFFICES ASSUME TypeInv, DepositsInv, QuorumDefinedForProposals,
                      NEW g \in Governors, NEW p \in ProposalIds, Live(g, p)
               PROVE  /\ proposals[g][p].creator \in Accounts
                      /\ CanCancel(proposals[g][p].creator, g, p)
    BY DEF LiveCanBeCanceled
  <2>1. proposals[g][p].creator \in Accounts
    BY DEF Live, CreatorKnown
  <2>2. QuorumDefined(totalSupply, quorumThreshold[g])
    BY DEF QuorumDefinedForProposals, Live
  <2>3. balance[g] \in Nat /\ balance[g] >= Deposit
    <3>1. p \in LiveIds(g) /\ IsFiniteSet(LiveIds(g))
      BY DEF LiveIds, DepositsInv
    <3>2. Cardinality(LiveIds(g)) \in Nat /\ Cardinality(LiveIds(g)) # 0
      BY <3>1, FS_CardinalityType, FS_EmptySet
    <3>3. balance[g] \in Nat /\ Deposit \in Nat
      BY GovernorAssumption
    <3>4. Deposit <= Deposit * Cardinality(LiveIds(g))
      <4> DEFINE c == Cardinality(LiveIds(g))
      <4>1. c \in Nat /\ 1 <= c
        BY <3>2
      <4> HIDE DEF c
      <4>2. Deposit * 1 <= Deposit * c
        BY <3>3, <4>1, TimesOrder
      <4> QED BY <3>3, <4>2 DEF c
    <3>5. balance[g] >= Deposit * Cardinality(LiveIds(g))
      BY DEF DepositsInv
    <3>6. Deposit * Cardinality(LiveIds(g)) \in Nat
      BY <3>2, <3>3, TimesIsNat
    <3> QED BY <3>3, <3>4, <3>5, <3>6
  <2>4. Cancellable(g, p)
    <3>1. now \in Nat /\ proposals[g][p].voteStart \in Nat /\ proposals[g][p].voteEnd \in Nat
      BY DEF Proposal
    <3>2. State(g, p) \in {"Pending", "Active", "Succeeded", "Defeated"}
      BY <2>2, <3>1 DEF State, Live
    <3> QED BY <3>2 DEF Cancellable
  <2> QED BY <2>1, <2>2, <2>3, <2>4, GovernorAssumption
          DEF CanCancel, CallerHoldsToken, Transferable
<1> QED BY <1>1, DepositsCounted, QuorumStaysDefined, PTL

-----------------------------------------------------------------------------
(* The holder's arrays (TokenHolderArrays) implement its bags              *)

(* The places of an item in a list, and how many they are among the first. *)
PlacesOf(list, item) == {i \in DOMAIN list : list[i] = item}

PlacesUpTo(n, list, item) == {i \in 1 .. n : list[i] = item}

LEMMA OccurrencesAre ==
  \A list, item : Occurrences(list, item) = Cardinality(PlacesOf(list, item))
BY DEF Occurrences, PlacesOf

LEMMA PlacesFinite ==
  ASSUME NEW S, NEW list \in Seq(S), NEW item
  PROVE  /\ IsFiniteSet(PlacesOf(list, item))
         /\ Cardinality(PlacesOf(list, item)) \in Nat
<1>1. DOMAIN list = 1 .. Len(list) /\ Len(list) \in Nat
  OBVIOUS
<1>2. PlacesOf(list, item) \subseteq 1 .. Len(list)
  BY <1>1 DEF PlacesOf
<1>3. IsFiniteSet(1 .. Len(list))
  BY <1>1, FS_Interval
<1> QED BY <1>2, <1>3, FS_Subset, FS_CardinalityType

(* A push adds one occurrence of what it pushes. *)
LEMMA OccurrencesAppend ==
  ASSUME NEW S, NEW list \in Seq(S), NEW new \in S, NEW item
  PROVE  /\ Append(list, new) \in Seq(S)
         /\ Occurrences(Append(list, new), item)
              = Occurrences(list, item) + (IF item = new THEN 1 ELSE 0)
<1> DEFINE old == PlacesOf(list, item)
<1>1. Append(list, new) \in Seq(S) /\ Len(list) \in Nat
  OBVIOUS
<1>2. IsFiniteSet(old) /\ Cardinality(old) \in Nat
  BY PlacesFinite
<1>3. CASE item = new
  <2>1. PlacesOf(Append(list, new), item) = old \cup {Len(list) + 1}
    BY <1>3 DEF PlacesOf
  <2>2. Len(list) + 1 \notin old
    BY DEF PlacesOf
  <2>3. Cardinality(old \cup {Len(list) + 1}) = Cardinality(old) + 1
    BY <1>2, <2>2, FS_AddElement
  <2> QED BY <1>1, <1>3, <2>1, <2>3, OccurrencesAre
<1>4. CASE item # new
  <2>1. PlacesOf(Append(list, new), item) = old
    BY <1>4 DEF PlacesOf
  <2>2. Cardinality(old) + 0 = Cardinality(old)
    BY <1>2
  <2> QED BY <1>1, <1>4, <2>1, <2>2, OccurrencesAre
<1> QED BY <1>3, <1>4

(* What _removeAnArrayElement leaves when something matches: the last      *)
(* element stands at the place of the first match, or is that match.       *)
LEMMA RemovedIs ==
  ASSUME NEW S, NEW list \in Seq(S), NEW item, PlacesOf(list, item) # {}
  PROVE  \E index \in PlacesOf(list, item) :
           LET rest == RemoveAnArrayElement(item, list)
           IN  /\ Len(list) \in Nat \ {0} /\ index \in 1 .. Len(list)
               /\ rest \in Seq(S) /\ Len(rest) = Len(list) - 1
               /\ \A i \in 1 .. (Len(list) - 1) :
                    rest[i] = IF i = index THEN list[Len(list)] ELSE list[i]
<1> DEFINE matches == {i \in DOMAIN list : list[i] = item}
           index == CHOOSE i \in matches : \A j \in matches : i <= j
           last == Len(list)
           moved == [list EXCEPT ![index] = list[last]]
<1>1. matches = PlacesOf(list, item)
  BY DEF PlacesOf
<1>2. DOMAIN list = 1 .. last /\ last \in Nat
  OBVIOUS
<1>3. \E i \in matches : \A j \in matches : i <= j
  <2> HIDE DEF matches
  <2>1. matches \subseteq Nat /\ matches # {}
    BY <1>1, <1>2 DEF matches
  <2> QED BY <2>1, LeastElement
<1>4. index \in matches
  <2> HIDE DEF matches
  <2> QED BY <1>3
<1>5. index \in 1 .. last /\ last \in Nat \ {0}
  <2> HIDE DEF index, last
  <2> QED BY <1>2, <1>4 DEF last
<1>6. RemoveAnArrayElement(item, list) = SubSeq(moved, 1, last - 1)
  BY <1>4 DEF RemoveAnArrayElement
<1> HIDE DEF index
<1>7. moved \in Seq(S) /\ Len(moved) = last
  BY <1>2, <1>5
<1>8. \A i \in 1 .. last : moved[i] = IF i = index THEN list[last] ELSE list[i]
  BY <1>2, <1>5
<1> HIDE DEF moved
<1>9. SubSeq(moved, 1, last - 1) \in Seq(S) /\ Len(SubSeq(moved, 1, last - 1)) = last - 1
  BY <1>5, <1>7
<1>10. \A i \in 1 .. (last - 1) : SubSeq(moved, 1, last - 1)[i] = moved[i]
  BY <1>5, <1>7
<1> QED BY <1>1, <1>4, <1>5, <1>6, <1>8, <1>9, <1>10

(* The removal takes one occurrence of the item, if there is one, and none *)
(* of any other: nothing is lost to the swap.                              *)
LEMMA OccurrencesRemove ==
  ASSUME NEW S, NEW list \in Seq(S), NEW item, NEW other
  PROVE  LET rest == RemoveAnArrayElement(item, list)
         IN  /\ rest \in Seq(S)
             /\ Occurrences(rest, other) =
                  IF other = item THEN Monus(Occurrences(list, other), 1)
                                  ELSE Occurrences(list, other)
<1> DEFINE rest == RemoveAnArrayElement(item, list)
           last == Len(list)
           old == PlacesOf(list, other)
           new == PlacesOf(rest, other)
<1>1. IsFiniteSet(old) /\ Cardinality(old) \in Nat
  BY PlacesFinite
<1>2. CASE PlacesOf(list, item) = {}
  <2>1. rest = list
    BY <1>2 DEF RemoveAnArrayElement, PlacesOf
  <2>2. other = item => Cardinality(old) = 0
    BY <1>2, FS_EmptySet
  <2> QED BY <1>1, <2>1, <2>2, OccurrencesAre DEF Monus
<1>3. CASE PlacesOf(list, item) # {}
  <2>1. PICK index \in PlacesOf(list, item) :
          /\ last \in Nat \ {0} /\ index \in 1 .. last
          /\ rest \in Seq(S) /\ Len(rest) = last - 1
          /\ \A i \in 1 .. (last - 1) :
               rest[i] = IF i = index THEN list[last] ELSE list[i]
    BY <1>3, RemovedIs
  <2> HIDE DEF rest
  <2>2. DOMAIN rest = 1 .. (last - 1) /\ DOMAIN list = 1 .. last /\ list[index] = item
    BY <2>1 DEF PlacesOf
  <2>3. \A i : i \in old <=> i \in 1 .. last /\ list[i] = other
    BY <2>2 DEF PlacesOf
  <2>4. \A i : i \in new <=> /\ i \in 1 .. (last - 1)
                             /\ (IF i = index THEN list[last] ELSE list[i]) = other
    BY <2>1, <2>2 DEF PlacesOf
  <2> HIDE DEF old, new
  <2>5. CASE other = item
    <3> DEFINE gone == IF list[last] = item THEN last ELSE index
    <3>1. new = old \ {gone} /\ gone \in old
      BY <2>1, <2>2, <2>3, <2>4, <2>5
    <3> HIDE DEF gone
    <3>2. Cardinality(new) = Cardinality(old) - 1 /\ Cardinality(old) # 0
      BY <1>1, <3>1, FS_RemoveElement, FS_EmptySet
    <3>3. Cardinality(new) = Monus(Cardinality(old), 1)
      BY <1>1, <3>2 DEF Monus
    <3> QED BY <2>1, <2>5, <3>3, OccurrencesAre DEF old, new, rest
  <2>6. CASE other # item /\ list[last] = other
    <3>1. last \in old /\ index \notin old /\ index # last
      BY <2>1, <2>2, <2>3, <2>6
    <3>2. new = (old \ {last}) \cup {index}
      BY <2>1, <2>2, <2>3, <2>4, <2>6, <3>1
    <3>3. IsFiniteSet(old \ {last}) /\ Cardinality(old \ {last}) = Cardinality(old) - 1
      BY <1>1, <3>1, FS_RemoveElement
    <3>4. Cardinality((old \ {last}) \cup {index}) = Cardinality(old \ {last}) + 1
      BY <3>1, <3>3, FS_AddElement
    <3>5. Cardinality(new) = Cardinality(old)
      BY <1>1, <3>2, <3>3, <3>4
    <3> QED BY <2>1, <2>6, <3>5, OccurrencesAre DEF old, new, rest
  <2>7. CASE other # item /\ list[last] # other
    <3>1. \A i : i \in new <=> i \in old
      BY <2>1, <2>2, <2>3, <2>4, <2>7
    <3>2. new = old
      BY <3>1
    <3> QED BY <2>1, <2>7, <3>2, OccurrencesAre DEF old, new, rest
  <2> QED BY <2>5, <2>6, <2>7
<1> QED BY <1>2, <1>3

-----------------------------------------------------------------------------
(* The loop of removeActiveProposals over a voter list, as a run.          *)
IsLoop(f, p, voters, n) ==
  f = [i \in 0 .. n |->
         IF i = 0 THEN proposalLists
         ELSE [f[i - 1] EXCEPT ![voters[i]] = RemoveAnArrayElement(p, @)]]

(* After n voters each list has lost one entry of the proposal for every   *)
(* entry of its voter among them, as far as it had any.                    *)
LoopEffect(lists, p, voters, n) ==
  /\ lists \in [Accounts -> Seq(ProposalIds)]
  /\ \A v \in Accounts, q \in ProposalIds :
       Occurrences(lists[v], q) =
         IF q = p THEN Monus(Occurrences(proposalLists[v], q),
                             Cardinality(PlacesUpTo(n, voters, v)))
                  ELSE Occurrences(proposalLists[v], q)

LEMMA OccurrencesNat ==
  ASSUME NEW S, NEW list \in Seq(S), NEW item
  PROVE  Occurrences(list, item) \in Nat
BY PlacesFinite, OccurrencesAre

LEMMA UpToNext ==
  ASSUME NEW n \in Nat, NEW list, NEW item
  PROVE  /\ Cardinality(PlacesUpTo(n, list, item)) \in Nat
         /\ Cardinality(PlacesUpTo(n + 1, list, item)) =
              Cardinality(PlacesUpTo(n, list, item))
              + (IF list[n + 1] = item THEN 1 ELSE 0)
         /\ Cardinality(PlacesUpTo(0, list, item)) = 0
<1> DEFINE old == PlacesUpTo(n, list, item)
<1>1. IsFiniteSet(old) /\ Cardinality(old) \in Nat
  <2>1. old \subseteq 1 .. n /\ IsFiniteSet(1 .. n)
    BY FS_Interval DEF PlacesUpTo
  <2> QED BY <2>1, FS_Subset, FS_CardinalityType
<1>2. PlacesUpTo(n + 1, list, item) =
        IF list[n + 1] = item THEN old \cup {n + 1} ELSE old
  BY DEF PlacesUpTo
<1>3. n + 1 \notin old
  BY DEF PlacesUpTo
<1>4. Cardinality(old \cup {n + 1}) = Cardinality(old) + 1
  BY <1>1, <1>3, FS_AddElement
<1>5. PlacesUpTo(0, list, item) = {}
  BY DEF PlacesUpTo
<1> HIDE DEF old
<1>6. Cardinality(PlacesUpTo(n + 1, list, item)) =
        Cardinality(old) + (IF list[n + 1] = item THEN 1 ELSE 0)
  BY <1>1, <1>2, <1>4
<1> QED BY <1>1, <1>5, <1>6, FS_EmptySet DEF old

(* One round of the loop. *)
LEMMA LoopRound ==
  ASSUME proposalLists \in [Accounts -> Seq(ProposalIds)],
         NEW p \in ProposalIds, NEW voters \in Seq(Accounts),
         NEW n \in Nat, n < Len(voters), NEW lists, LoopEffect(lists, p, voters, n)
  PROVE  LoopEffect([lists EXCEPT ![voters[n + 1]] = RemoveAnArrayElement(p, @)],
                    p, voters, n + 1)
<1> DEFINE u == voters[n + 1]
           next == [lists EXCEPT ![u] = RemoveAnArrayElement(p, @)]
<1>1. u \in Accounts /\ lists \in [Accounts -> Seq(ProposalIds)]
  BY DEF LoopEffect
<1> HIDE DEF u
<1>2. RemoveAnArrayElement(p, lists[u]) \in Seq(ProposalIds)
  BY <1>1, OccurrencesRemove
<1>3. next \in [Accounts -> Seq(ProposalIds)]
  BY <1>1, <1>2
<1>4. ASSUME NEW v \in Accounts, NEW q \in ProposalIds
      PROVE  Occurrences(next[v], q) =
               IF q = p THEN Monus(Occurrences(proposalLists[v], q),
                                   Cardinality(PlacesUpTo(n + 1, voters, v)))
                        ELSE Occurrences(proposalLists[v], q)
  <2>1. Occurrences(next[v], q) =
          IF v = u /\ q = p THEN Monus(Occurrences(lists[v], q), 1)
                            ELSE Occurrences(lists[v], q)
    <3>1. next[v] = IF v = u THEN RemoveAnArrayElement(p, lists[v]) ELSE lists[v]
      BY <1>1
    <3>2. lists[v] \in Seq(ProposalIds)
      BY <1>1
    <3>3. Occurrences(RemoveAnArrayElement(p, lists[v]), q) =
            IF q = p THEN Monus(Occurrences(lists[v], q), 1)
                     ELSE Occurrences(lists[v], q)
      BY <3>2, OccurrencesRemove
    <3> HIDE DEF next
    <3> QED BY <3>1, <3>3
  <2>2. Occurrences(lists[v], q) =
          IF q = p THEN Monus(Occurrences(proposalLists[v], q),
                              Cardinality(PlacesUpTo(n, voters, v)))
                   ELSE Occurrences(proposalLists[v], q)
    BY DEF LoopEffect
  <2>3. Occurrences(proposalLists[v], q) \in Nat
    BY OccurrencesNat
  <2>4. /\ Cardinality(PlacesUpTo(n, voters, v)) \in Nat
        /\ Cardinality(PlacesUpTo(n + 1, voters, v)) =
              Cardinality(PlacesUpTo(n, voters, v)) + (IF u = v THEN 1 ELSE 0)
    BY UpToNext DEF u
  <2> HIDE DEF next
  <2>5. \A a, b \in Nat : /\ Monus(Monus(a, b), 1) = Monus(a, b + 1)
                          /\ Monus(a, b + 0) = Monus(a, b)
    BY DEF Monus
  <2>6. CASE q # p
    BY <2>1, <2>2, <2>6
  <2>7. CASE q = p /\ v = u
    BY <2>1, <2>2, <2>3, <2>4, <2>5, <2>7
  <2>8. CASE q = p /\ v # u
    BY <2>1, <2>2, <2>3, <2>4, <2>5, <2>8
  <2> QED BY <2>6, <2>7, <2>8
<1> HIDE DEF next
<1>5. LoopEffect(next, p, voters, n + 1)
  BY <1>3, <1>4 DEF LoopEffect
<1> QED BY <1>5 DEF next, u


(* The run of the loop exists: the least n for which it did not would have *)
(* a run before it.                                                        *)
LEMMA LoopExists ==
  ASSUME NEW p, NEW voters, NEW n \in Nat
  PROVE  \E f : IsLoop(f, p, voters, n)
<1> DEFINE T == {k \in Nat : ~ \E f : IsLoop(f, p, voters, k)}
           Round(lists, i) ==
             [lists EXCEPT ![voters[i]] = RemoveAnArrayElement(p, @)]
<1>1. SUFFICES ASSUME T # {} PROVE FALSE
  OBVIOUS
<1>2. PICK m \in T : \A k \in T : m <= k
  <2>1. T \subseteq Nat
    OBVIOUS
  <2> HIDE DEF T
  <2> QED BY <1>1, <2>1, LeastElement
<1>3. m # 0
  <2>1. IsLoop([i \in 0 .. 0 |-> proposalLists], p, voters, 0)
    BY DEF IsLoop
  <2> QED BY <2>1
<1>4. m \in Nat /\ m - 1 \in Nat /\ m - 1 \notin T
  BY <1>2, <1>3
<1>5. PICK g : IsLoop(g, p, voters, m - 1)
  BY <1>4
<1> DEFINE h == [i \in 0 .. m |-> IF i = m THEN Round(g[m - 1], m) ELSE g[i]]
<1>6. \A i \in 0 .. m : h[i] = IF i = 0 THEN proposalLists ELSE Round(h[i - 1], i)
  <2> SUFFICES ASSUME NEW i \in 0 .. m
               PROVE  h[i] = IF i = 0 THEN proposalLists ELSE Round(h[i - 1], i)
    OBVIOUS
  <2>1. CASE i = m
    <3>1. h[i] = Round(g[m - 1], m) /\ h[m - 1] = g[m - 1]
      BY <1>3, <1>4, <2>1
    <3> HIDE DEF h, Round
    <3> QED BY <1>3, <2>1, <3>1
  <2>2. CASE i # m
    <3>1. i \in 0 .. (m - 1) /\ h[i] = g[i]
      BY <1>4, <2>2
    <3>2. g[i] = IF i = 0 THEN proposalLists ELSE Round(g[i - 1], i)
      BY <1>5, <3>1 DEF IsLoop
    <3>3. i # 0 => h[i - 1] = g[i - 1]
      BY <1>4, <2>2
    <3> HIDE DEF h, Round
    <3> QED BY <3>1, <3>2, <3>3
  <2> QED BY <2>1, <2>2
<1>7. IsLoop(h, p, voters, m)
  <2>1. h = [i \in 0 .. m |-> h[i]]
    OBVIOUS
  <2> HIDE DEF h
  <2> QED BY <1>6, <2>1, Zenon DEF IsLoop
<1> QED BY <1>2, <1>7

(* Its effect, by the same argument on the rounds. *)
LEMMA LoopHasEffect ==
  ASSUME proposalLists \in [Accounts -> Seq(ProposalIds)],
         NEW p \in ProposalIds, NEW voters \in Seq(Accounts),
         NEW f, IsLoop(f, p, voters, Len(voters))
  PROVE  LoopEffect(f[Len(voters)], p, voters, Len(voters))
<1> DEFINE T == {k \in 0 .. Len(voters) : ~ LoopEffect(f[k], p, voters, k)}
<1>1. Len(voters) \in Nat
  OBVIOUS
<1>2. SUFFICES ASSUME T # {} PROVE FALSE
  BY <1>1
<1>3. PICK m \in T : \A k \in T : m <= k
  <2>1. T \subseteq Nat
    BY <1>1
  <2> HIDE DEF T
  <2> QED BY <1>2, <2>1, LeastElement
<1>4. m \in 0 .. Len(voters) /\ ~ LoopEffect(f[m], p, voters, m)
  BY <1>3
<1>5. m # 0
  <2>1. f[0] = proposalLists
    BY <1>1 DEF IsLoop
  <2>2. ASSUME NEW v \in Accounts, NEW q \in ProposalIds
        PROVE  Occurrences(proposalLists[v], q) =
                 IF q = p THEN Monus(Occurrences(proposalLists[v], q),
                                     Cardinality(PlacesUpTo(0, voters, v)))
                          ELSE Occurrences(proposalLists[v], q)
    <3>1. Occurrences(proposalLists[v], q) \in Nat
      BY OccurrencesNat
    <3>2. Cardinality(PlacesUpTo(0, voters, v)) = 0
      BY UpToNext
    <3> QED BY <3>1, <3>2 DEF Monus
  <2>3. LoopEffect(proposalLists, p, voters, 0)
    BY <2>2 DEF LoopEffect
  <2> QED BY <1>4, <2>1, <2>3
<1>6. m - 1 \in Nat /\ m - 1 < Len(voters) /\ m - 1 \in 0 .. Len(voters)
      /\ (m - 1) + 1 = m
  BY <1>1, <1>4, <1>5
<1>7. LoopEffect(f[m - 1], p, voters, m - 1)
  <2>1. m - 1 \notin T
    BY <1>3, <1>6
  <2> QED BY <1>6, <2>1
<1>8. f[m] = [f[m - 1] EXCEPT ![voters[m]] = RemoveAnArrayElement(p, @)]
  BY <1>4, <1>5 DEF IsLoop
<1>9. LoopEffect(f[m], p, voters, m)
  <2> DEFINE k == m - 1
  <2>1. k \in Nat /\ k < Len(voters) /\ k + 1 = m /\ LoopEffect(f[k], p, voters, k)
    BY <1>6, <1>7
  <2>2. f[m] = [f[k] EXCEPT ![voters[k + 1]] = RemoveAnArrayElement(p, @)]
    BY <1>6, <1>8
  <2> HIDE DEF k
  <2>3. LoopEffect([f[k] EXCEPT ![voters[k + 1]] = RemoveAnArrayElement(p, @)],
                   p, voters, k + 1)
    BY <2>1, LoopRound
  <2> QED BY <2>1, <2>2, <2>3
<1> QED BY <1>4, <1>9

LEMMA AfterLoopIs ==
  ASSUME proposalLists \in [Accounts -> Seq(ProposalIds)],
         NEW p \in ProposalIds, NEW voters \in Seq(Accounts)
  PROVE  /\ AfterLoop(p, voters) \in [Accounts -> Seq(ProposalIds)]
         /\ \A v \in Accounts, q \in ProposalIds :
              Occurrences(AfterLoop(p, voters)[v], q) =
                IF q = p THEN Monus(Occurrences(proposalLists[v], q),
                                    Occurrences(voters, v))
                         ELSE Occurrences(proposalLists[v], q)
<1> DEFINE f == CHOOSE g : IsLoop(g, p, voters, Len(voters))
<1>1. IsLoop(f, p, voters, Len(voters))
  <2>1. \E g : IsLoop(g, p, voters, Len(voters))
    <3>1. Len(voters) \in Nat
      OBVIOUS
    <3> QED BY <3>1, LoopExists
  <2> QED BY <2>1
<1>2. AfterLoop(p, voters) = f[Len(voters)]
  BY Zenon DEF AfterLoop, IsLoop
<1> HIDE DEF f
<1>3. LoopEffect(AfterLoop(p, voters), p, voters, Len(voters))
  BY <1>1, <1>2, LoopHasEffect
<1>4. \A v \in Accounts :
        Cardinality(PlacesUpTo(Len(voters), voters, v)) = Occurrences(voters, v)
  <2>1. \A v : PlacesUpTo(Len(voters), voters, v) = PlacesOf(voters, v)
    BY DEF PlacesUpTo, PlacesOf
  <2> QED BY <2>1, OccurrencesAre
<1> QED BY <1>3, <1>4 DEF LoopEffect


ArraysTypeOK ==
  /\ holdsToken \in [Governors -> BOOLEAN]
  /\ voterLists \in [Governors -> [ProposalIds -> Seq(Accounts)]]
  /\ proposalLists \in [Accounts -> Seq(ProposalIds)]

(* What the arrays are to the bags. *)
BagOfVoters(lists) ==
  [g \in Governors |-> [p \in ProposalIds |-> [v \in Accounts |->
     Occurrences(lists[g][p], v)]]]

BagOfProposals(lists) ==
  [v \in Accounts |-> [p \in ProposalIds |-> Occurrences(lists[v], p)]]

LEMMA PushIsAdd ==
  ASSUME ArraysTypeOK, NEW g \in Governors, NEW p \in ProposalIds, NEW v \in Accounts,
         PushProposalForVoter(g, p, v)
  PROVE  ArraysTypeOK' /\ Bags!HolderNext
<1>1. /\ holdsToken[g] /\ UNCHANGED holdsToken
      /\ voterLists' = [voterLists EXCEPT ![g][p] = Append(@, v)]
      /\ proposalLists' = [proposalLists EXCEPT ![v] = Append(@, p)]
  BY DEF PushProposalForVoter
<1>2. ArraysTypeOK'
  <2>1. Append(voterLists[g][p], v) \in Seq(Accounts)
        /\ Append(proposalLists[v], p) \in Seq(ProposalIds)
    BY DEF ArraysTypeOK
  <2> QED BY <1>1, <2>1 DEF ArraysTypeOK
<1>3. BagOfVoters(voterLists') =
        [BagOfVoters(voterLists) EXCEPT ![g][p][v] = @ + 1]
  <2>1. ASSUME NEW h \in Governors, NEW q \in ProposalIds, NEW u \in Accounts
        PROVE  Occurrences(voterLists'[h][q], u) =
                 IF h = g /\ q = p /\ u = v
                 THEN Occurrences(voterLists[h][q], u) + 1
                 ELSE Occurrences(voterLists[h][q], u)
    <3>1. voterLists[h][q] \in Seq(Accounts)
      BY DEF ArraysTypeOK
    <3>2. Occurrences(voterLists[h][q], u) \in Nat
      BY <3>1, OccurrencesNat
    <3>3. Occurrences(Append(voterLists[h][q], v), u) =
            Occurrences(voterLists[h][q], u) + (IF u = v THEN 1 ELSE 0)
      BY <3>1, OccurrencesAppend
    <3>4. voterLists'[h][q] = IF h = g /\ q = p THEN Append(voterLists[h][q], v)
                                              ELSE voterLists[h][q]
      BY <1>1 DEF ArraysTypeOK
    <3> QED BY <3>2, <3>3, <3>4
  <2> DEFINE old == BagOfVoters(voterLists)
             new == BagOfVoters(voterLists')
  <2>2. ASSUME NEW h \in Governors, NEW q \in ProposalIds
        PROVE  new[h][q] = IF h = g /\ q = p THEN [old[h][q] EXCEPT ![v] = @ + 1]
                                            ELSE old[h][q]
    BY <2>1 DEF BagOfVoters
  <2>3. /\ new = [h \in Governors |-> [q \in ProposalIds |-> new[h][q]]]
        /\ old = [h \in Governors |-> [q \in ProposalIds |-> old[h][q]]]
    BY DEF BagOfVoters
  <2> HIDE DEF old, new
  <2>4. ASSUME NEW h \in Governors
        PROVE  new[h] = IF h = g THEN [old[h] EXCEPT ![p][v] = @ + 1] ELSE old[h]
    <3>1. /\ new[h] = [q \in ProposalIds |-> new[h][q]]
          /\ old[h] = [q \in ProposalIds |-> old[h][q]]
      BY <2>3, Zenon
    <3>2. CASE h = g
      <4> DEFINE bumped == [old[h][p] EXCEPT ![v] = @ + 1]
      <4>1. \A q \in ProposalIds : new[h][q] = IF q = p THEN bumped ELSE old[h][q]
        BY <2>2, <3>2
      <4> HIDE DEF bumped
      <4>2. new[h] = [old[h] EXCEPT ![p] = bumped]
        BY <3>1, <4>1
      <4> QED BY <3>2, <4>2 DEF bumped
    <3>3. CASE h # g
      <4>1. \A q \in ProposalIds : new[h][q] = old[h][q]
        BY <2>2, <3>3
      <4> QED BY <3>1, <3>3, <4>1
    <3> QED BY <3>2, <3>3
  <2>5. new = [old EXCEPT ![g][p][v] = @ + 1]
    BY <2>3, <2>4
  <2> QED BY <2>5 DEF old, new
<1>4. BagOfProposals(proposalLists') =
        [BagOfProposals(proposalLists) EXCEPT ![v][p] = @ + 1]
  <2>1. ASSUME NEW u \in Accounts, NEW q \in ProposalIds
        PROVE  Occurrences(proposalLists'[u], q) =
                 IF u = v /\ q = p THEN Occurrences(proposalLists[u], q) + 1
                                  ELSE Occurrences(proposalLists[u], q)
    <3>1. proposalLists[u] \in Seq(ProposalIds)
      BY DEF ArraysTypeOK
    <3>2. Occurrences(proposalLists[u], q) \in Nat
      BY <3>1, OccurrencesNat
    <3>3. Occurrences(Append(proposalLists[u], p), q) =
            Occurrences(proposalLists[u], q) + (IF q = p THEN 1 ELSE 0)
      BY <3>1, OccurrencesAppend
    <3>4. proposalLists'[u] = IF u = v THEN Append(proposalLists[u], p)
                                       ELSE proposalLists[u]
      BY <1>1 DEF ArraysTypeOK
    <3> QED BY <3>2, <3>3, <3>4
  <2> QED BY <2>1 DEF BagOfProposals
<1>5. Bags!AddProposalForVoter(g, p, v)
  <2>1. Bags!CallerHoldsToken(g)
    BY <1>1 DEF Bags!CallerHoldsToken
  <2> QED BY <2>1, <1>3, <1>4
          DEF Bags!AddProposalForVoter, BagOfVoters, BagOfProposals
<1>6. Bags!HolderNext
  BY <1>1, <1>5 DEF Bags!HolderNext
<1> QED BY <1>2, <1>6

LEMMA PopIsRemove ==
  ASSUME ArraysTypeOK, NEW g \in Governors, NEW p \in ProposalIds,
         PopActiveProposals(g, p)
  PROVE  ArraysTypeOK' /\ Bags!HolderNext
<1> DEFINE voters == voterLists[g][p]
<1>1. /\ holdsToken[g] /\ UNCHANGED holdsToken
      /\ voterLists' = [voterLists EXCEPT ![g][p] = <<>>]
      /\ proposalLists' = AfterLoop(p, voters)
  BY DEF PopActiveProposals
<1>2. voters \in Seq(Accounts) /\ proposalLists \in [Accounts -> Seq(ProposalIds)]
  BY DEF ArraysTypeOK
<1>3. /\ proposalLists' \in [Accounts -> Seq(ProposalIds)]
      /\ \A v \in Accounts, q \in ProposalIds :
           Occurrences(proposalLists'[v], q) =
             IF q = p THEN Monus(Occurrences(proposalLists[v], q),
                                 Occurrences(voters, v))
                      ELSE Occurrences(proposalLists[v], q)
  <2> HIDE DEF voters
  <2> QED BY <1>1, <1>2, AfterLoopIs
<1>4. ArraysTypeOK'
  BY <1>1, <1>3 DEF ArraysTypeOK
<1>5. BagOfVoters(voterLists') =
        [BagOfVoters(voterLists) EXCEPT ![g][p] = [v \in Accounts |-> 0]]
  <2>1. \A v : Occurrences(<<>>, v) = 0
    <3>1. \A v : PlacesOf(<<>>, v) = {}
      BY DEF PlacesOf
    <3> QED BY <3>1, OccurrencesAre, FS_EmptySet
  <2>2. \A h \in Governors, q \in ProposalIds :
          voterLists'[h][q] = IF h = g /\ q = p THEN <<>> ELSE voterLists[h][q]
    BY <1>1 DEF ArraysTypeOK
  <2>3. ASSUME NEW h \in Governors, NEW q \in ProposalIds
        PROVE  BagOfVoters(voterLists')[h][q] =
                 IF h = g /\ q = p THEN [v \in Accounts |-> 0]
                                  ELSE BagOfVoters(voterLists)[h][q]
    BY <2>1, <2>2 DEF BagOfVoters
  <2> DEFINE old == BagOfVoters(voterLists)
             new == BagOfVoters(voterLists')
  <2>4. /\ new = [h \in Governors |-> [q \in ProposalIds |-> new[h][q]]]
        /\ old = [h \in Governors |-> [q \in ProposalIds |-> old[h][q]]]
    BY DEF BagOfVoters
  <2>5. \A h \in Governors, q \in ProposalIds :
          new[h][q] = IF h = g /\ q = p THEN [v \in Accounts |-> 0] ELSE old[h][q]
    BY <2>3
  <2> HIDE DEF old, new
  <2>6. ASSUME NEW h \in Governors
        PROVE  new[h] = IF h = g THEN [old[h] EXCEPT ![p] = [v \in Accounts |-> 0]]
                                 ELSE old[h]
    BY <2>4, <2>5
  <2>7. new = [old EXCEPT ![g][p] = [v \in Accounts |-> 0]]
    BY <2>4, <2>6
  <2> QED BY <2>7 DEF old, new
<1>6. BagOfProposals(proposalLists') =
        [v \in Accounts |->
           [BagOfProposals(proposalLists)[v] EXCEPT
              ![p] = Monus(@, BagOfVoters(voterLists)[g][p][v])]]
  BY <1>3 DEF BagOfProposals, BagOfVoters
<1>7. Bags!RemoveActiveProposals(g, p)
  <2>1. Bags!CallerHoldsToken(g)
    BY <1>1 DEF Bags!CallerHoldsToken
  <2>2. \A m, n : Bags!Monus(m, n) = Monus(m, n)
    BY DEF Bags!Monus, Monus
  <2> QED BY <2>1, <2>2, <1>5, <1>6
          DEF Bags!RemoveActiveProposals, BagOfVoters, BagOfProposals
<1>8. Bags!HolderNext
  BY <1>1, <1>7 DEF Bags!HolderNext
<1> QED BY <1>4, <1>8

(* The arrays of TokenHolder.sol with their swap-and-pop removal           *)
(* (98-145, 182-197) implement the bags of TokenHolder, for any number of  *)
(* governors, ids and entries: the order of the entries never matters and  *)
(* the swap loses no entry of another proposal.                            *)
THEOREM ArraysImplementBags == ArraysSpec => ImplementsBags
<1>1. ArraysInit => ArraysTypeOK /\ Bags!HolderInit
  <2> SUFFICES ASSUME ArraysInit PROVE ArraysTypeOK /\ Bags!HolderInit
    OBVIOUS
  <2>1. \A v : Occurrences(<<>>, v) = 0
    <3>1. \A v : PlacesOf(<<>>, v) = {}
      BY DEF PlacesOf
    <3> QED BY <3>1, OccurrencesAre, FS_EmptySet
  <2>2. ArraysTypeOK
    BY DEF ArraysInit, ArraysTypeOK
  <2>3. Bags!HolderInit
    BY <2>1 DEF ArraysInit, Bags!HolderInit,
                Bags!TokenHolderInit, Bags!Addresses
  <2> QED BY <2>2, <2>3
<1>2. ArraysTypeOK /\ [ArraysNext]_arrayVars
        => ArraysTypeOK' /\ [Bags!HolderNext]_(Bags!holderVars)
  <2> SUFFICES ASSUME ArraysTypeOK, [ArraysNext]_arrayVars
               PROVE  ArraysTypeOK' /\ [Bags!HolderNext]_(Bags!holderVars)
    OBVIOUS
  <2>1. ASSUME NEW g \in Governors, NEW p \in ProposalIds, NEW v \in Accounts,
               PushProposalForVoter(g, p, v)
        PROVE  ArraysTypeOK' /\ Bags!HolderNext
    BY <2>1, PushIsAdd
  <2>2. ASSUME NEW g \in Governors, NEW p \in ProposalIds,
               PopActiveProposals(g, p)
        PROVE  ArraysTypeOK' /\ Bags!HolderNext
    BY <2>2, PopIsRemove
  <2>3. ASSUME TokenMoves
        PROVE  ArraysTypeOK' /\ Bags!HolderNext
    <3>1. ArraysTypeOK'
      BY <2>3 DEF TokenMoves, ArraysTypeOK
    <3>2. Bags!LedgerMoves
      BY <2>3 DEF TokenMoves, Bags!LedgerMoves, Bags!Addresses
    <3> QED BY <3>1, <3>2 DEF Bags!HolderNext
  <2>4. ASSUME UNCHANGED arrayVars
        PROVE  ArraysTypeOK' /\ UNCHANGED Bags!holderVars
    BY <2>4 DEF arrayVars, ArraysTypeOK, Bags!holderVars
  <2> QED BY <2>1, <2>2, <2>3, <2>4 DEF ArraysNext
<1> QED BY <1>1, <1>2, PTL
        DEF ArraysSpec, ImplementsBags, Bags!HolderSpec
=============================================================================
