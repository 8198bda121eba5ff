-------------------------- MODULE GovernanceProofs --------------------------
(***************************************************************************)
(* What the script and the scenarios of governance leave behind, for any   *)
(* proposals, amounts, accounts and relayers, any lag of the mirror node   *)
(* and any number of exceptions.                                           *)
(***************************************************************************)
EXTENDS GovernanceClient, HederaGovernorProofs

Places ==
  {"quorum", "allowLock", "lock", "allow", "propose", "vote", "poll", "fund",
   "handOver", "execute", "cancel", "fetch", "claim", "unlock", "cleanup",
   "clean", "cancelOne", "end"}

ThisKind == Kind[agenda[item]]

(* Where the client is, and what it remembers there.                       *)
PlaceOK ==
  /\ mode \in {"script", "scenario"}
  /\ agenda \in Seq(ProposalIds)
  /\ \A i, j \in DOMAIN agenda : agenda[i] = agenda[j] => i = j
  /\ item \in 1 .. Len(agenda)
  /\ at \in Places
  /\ at = "fund" => ThisKind = "transfer"
  /\ at = "handOver" => ThisKind = "upgrade"
  /\ current \in ProposalIds \cup {NoProposalYet}
  /\ mode = "script" /\ at \in {"vote", "poll", "fund", "handOver", "execute", "cancel"}
       => current = agenda[item]
  /\ mode = "scenario" => at # "cancel"
  /\ at = "cancelOne" => current \in ProposalIds
  /\ known \in Nat /\ lastToken \in Nat /\ stops \in Nat
  /\ target \in [ProposalIds -> Nat]

AssetsOK ==
  /\ heldAssets \in Nat /\ paidAssets \in Nat /\ upgrades \in Nat
  /\ tokenSupplies \in Seq(Nat)
  /\ proxyAdmin \in {ProxyAdmin, AssetsHolderId}

-----------------------------------------------------------------------------
(* The steps of a flow *)

(* NextStep, spelled out: the common steps, then those of the kind.        *)
LEMMA FlowSteps ==
  ASSUME PlaceOK, NextStep,
         at \in {"allow", "propose", "vote", "poll", "fund", "handOver", "execute"}
  PROVE  \/ at = "allow" /\ at' = "propose" /\ item' = item
         \/ at = "propose" /\ at' = "vote" /\ item' = item
         \/ at = "vote" /\ at' = "poll" /\ item' = item
         \/ /\ at = "poll" /\ item' = item
            /\ at' = IF ThisKind = "transfer" THEN "fund"
                     ELSE IF ThisKind = "upgrade" THEN "handOver" ELSE "execute"
         \/ at \in {"fund", "handOver"} /\ at' = "execute" /\ item' = item
         \/ at = "execute" /\ ThisKind = "create" /\ at' = "fetch" /\ item' = item
         \/ at = "execute" /\ ThisKind # "create" /\ AfterItem
<1> DEFINE flow == Flow[ThisKind]
           i == CHOOSE j \in DOMAIN flow : flow[j] = at
<1>1. ThisKind \in Kinds
  BY ClientAssumption DEF PlaceOK, ThisKind
<1>2. IF i < Len(flow) THEN at' = flow[i + 1] /\ item' = item ELSE AfterItem
  BY DEF NextStep, ThisKind
<1>3. CASE ThisKind \in {"associate", "text", "mint", "burn"}
  <2>1. flow = VoteFlow \o <<"execute">>
    BY <1>3 DEF Flow, TokenAssociationFlow, TextFlow, MintTokenFlow, BurnTokenFlow
  <2>2. /\ Len(flow) = 5 /\ DOMAIN flow = 1 .. 5
        /\ flow[1] = "allow" /\ flow[2] = "propose" /\ flow[3] = "vote"
        /\ flow[4] = "poll" /\ flow[5] = "execute"
    BY <2>1 DEF VoteFlow
  <2>3. at # "fund" /\ at # "handOver"
    BY <1>3 DEF PlaceOK
  <2> HIDE DEF flow
  <2>4. \E j \in 1 .. 5 : flow[j] = at
    BY <2>2, <2>3
  <2>5. i \in 1 .. 5 /\ flow[i] = at
    BY <2>2, <2>4
  <2> HIDE DEF i
  <2> QED BY <1>2, <1>3, <2>2, <2>5
<1>4. CASE ThisKind = "transfer"
  <2>1. flow = VoteFlow \o <<"fund", "execute">>
    BY <1>4 DEF Flow, AssetTransferFlow
  <2>2. /\ Len(flow) = 6 /\ DOMAIN flow = 1 .. 6
        /\ flow[1] = "allow" /\ flow[2] = "propose" /\ flow[3] = "vote"
        /\ flow[4] = "poll" /\ flow[5] = "fund" /\ flow[6] = "execute"
    BY <2>1 DEF VoteFlow
  <2>3. at # "handOver"
    BY <1>4 DEF PlaceOK
  <2> HIDE DEF flow
  <2>4. \E j \in 1 .. 6 : flow[j] = at
    BY <2>2, <2>3
  <2>5. i \in 1 .. 6 /\ flow[i] = at
    BY <2>2, <2>4
  <2> HIDE DEF i
  <2> QED BY <1>2, <1>4, <2>2, <2>5
<1>5. CASE ThisKind = "upgrade"
  <2>1. flow = VoteFlow \o <<"handOver", "execute">>
    BY <1>5 DEF Flow, ContractUpgradeFlow
  <2>2. /\ Len(flow) = 6 /\ DOMAIN flow = 1 .. 6
        /\ flow[1] = "allow" /\ flow[2] = "propose" /\ flow[3] = "vote"
        /\ flow[4] = "poll" /\ flow[5] = "handOver" /\ flow[6] = "execute"
    BY <2>1 DEF VoteFlow
  <2>3. at # "fund"
    BY <1>5 DEF PlaceOK
  <2> HIDE DEF flow
  <2>4. \E j \in 1 .. 6 : flow[j] = at
    BY <2>2, <2>3
  <2>5. i \in 1 .. 6 /\ flow[i] = at
    BY <2>2, <2>4
  <2> HIDE DEF i
  <2> QED BY <1>2, <1>5, <2>2, <2>5
<1>6. CASE ThisKind = "create"
  <2>1. flow = VoteFlow \o <<"execute", "fetch">>
    BY <1>6 DEF Flow, TokenCreateFlow
  <2>2. /\ Len(flow) = 6 /\ DOMAIN flow = 1 .. 6
        /\ flow[1] = "allow" /\ flow[2] = "propose" /\ flow[3] = "vote"
        /\ flow[4] = "poll" /\ flow[5] = "execute" /\ flow[6] = "fetch"
    BY <2>1 DEF VoteFlow
  <2>3. at # "fund" /\ at # "handOver"
    BY <1>6 DEF PlaceOK
  <2> HIDE DEF flow
  <2>4. \E j \in 1 .. 6 : flow[j] = at
    BY <2>2, <2>3
  <2>5. i \in 1 .. 6 /\ flow[i] = at
    BY <2>2, <2>4
  <2> HIDE DEF i
  <2> QED BY <1>2, <1>6, <2>2, <2>5
<1> QED BY <1>1, <1>3, <1>4, <1>5, <1>6 DEF Kinds
(* The three ways in which a step moves the client. *)
Remembers ==
  /\ UNCHANGED <<mode, agenda>>
  /\ current' \in ProposalIds \cup {NoProposalYet}
  /\ known' \in Nat /\ lastToken' \in Nat /\ stops' \in Nat
  /\ target' \in [ProposalIds -> Nat]

LEMMA AfterItemPlace ==
  ASSUME PlaceOK, AfterItem, Remembers
  PROVE  PlaceOK'
<1>1. item' \in 1 .. Len(agenda) /\ at' \in {"allow", "claim", "cleanup"}
  BY DEF AfterItem, PlaceOK
<1> QED BY <1>1 DEF PlaceOK, Remembers, Places

LEMMA FlowPlace ==
  ASSUME PlaceOK, NextStep, Remembers,
         at \in {"allow", "propose", "vote", "poll", "fund", "handOver", "execute"},
         at = "propose" /\ mode = "script" => current' = agenda[item],
         at # "propose" => current' = current
  PROVE  PlaceOK'
<1>1. CASE AfterItem
  BY <1>1, AfterItemPlace
<1>2. CASE /\ item' = item
           /\ \/ at' \in {"propose", "vote", "poll", "execute", "fetch"}
              \/ at' = "fund" /\ ThisKind = "transfer"
              \/ at' = "handOver" /\ ThisKind = "upgrade"
  <2>1. ThisKind' = ThisKind
    BY <1>2 DEF Remembers, ThisKind
  <2>2. ASSUME mode = "script",
               at' \in {"vote", "poll", "fund", "handOver", "execute", "cancel"}
        PROVE  current' = agenda[item]
    <3>1. at \in {"propose", "vote", "poll", "fund", "handOver"}
      BY <1>2, <2>2, FlowSteps DEF AfterItem
    <3> QED BY <2>2, <3>1 DEF PlaceOK
  <2> QED BY <1>2, <2>1, <2>2 DEF PlaceOK, Remembers, Places
<1> QED BY <1>1, <1>2, FlowSteps

LEMMA GoToPlace ==
  ASSUME PlaceOK, Remembers, item' = item,
         \/ at' \in {"quorum", "allowLock", "lock", "allow", "claim", "unlock",
                     "cleanup", "clean", "end"}
         \/ at' = "cancelOne" /\ current' \in ProposalIds
         \/ /\ at' \in {"fetch", "cancel"} /\ at \in {"poll", "cancel"}
            /\ mode = "script" /\ current' = current
  PROVE  PlaceOK'
<1>1. ASSUME mode = "script", at' = "cancel" PROVE current' = agenda[item]
  BY <1>1 DEF PlaceOK
<1> QED BY <1>1 DEF PlaceOK, Remembers, Places

LEMMA StayPlace ==
  ASSUME PlaceOK, UNCHANGED <<mode, agenda, item, at, current, known, lastToken,
                              stops, target>>
  PROVE  PlaceOK'
BY DEF PlaceOK, ThisKind

-----------------------------------------------------------------------------
(* The client's actions keep it *)

LEMMA LockPlace ==
  ASSUME TypeOK, PlaceOK, LockNext
  PROVE  PlaceOK'
<1>1. Monus(Quorum(Gov), BalanceOfVoter(Treasury)) \in Nat
  <2>1. /\ totalSupply \in Nat /\ quorumThreshold[Gov] \in Nat
        /\ godTokenForUsers[Treasury] \in Nat /\ Bsp \in Nat \ {0}
    BY ClientAssumption, GovernorAssumption DEF TypeOK, GODHolderTypeOK
  <2>2. Quorum(Gov) \in Nat
    BY <2>1, TimesIsNat, QuotientFacts DEF Quorum
  <2> QED BY <2>1, <2>2 DEF Monus, BalanceOfVoter
<1>2. CASE ReadQuorum
  <2>1. Remembers
    BY <1>1, <1>2 DEF ReadQuorum, MissingVotingPower, Remembers, PlaceOK, run, books
  <2> QED BY <1>2, <2>1, GoToPlace DEF ReadQuorum
<1>3. CASE SetUpScenarioLock
  <2>1. Remembers
    BY <1>3, ClientAssumption DEF SetUpScenarioLock, Remembers, PlaceOK, run, books
  <2> QED BY <1>3, <2>1, GoToPlace DEF SetUpScenarioLock
<1>4. CASE SetupAllowanceForTokenLocking
  <2>1. Remembers
    BY <1>4 DEF SetupAllowanceForTokenLocking, Remembers, PlaceOK, run, memory
  <2> QED BY <1>4, <2>1, GoToPlace DEF SetupAllowanceForTokenLocking
<1>5. CASE LockForVoting
  <2>1. Remembers
    BY <1>5 DEF LockForVoting, Remembers, PlaceOK, run, memory
  <2> QED BY <1>5, <2>1, GoToPlace DEF LockForVoting
<1> QED BY <1>2, <1>3, <1>4, <1>5 DEF LockNext

LEMMA ItemPlace ==
  ASSUME PlaceOK, ItemNext
  PROVE  PlaceOK'
<1>1. CASE SetupProposalCreationAllowance
  <2>1. Remembers /\ current' = current
    BY <1>1 DEF SetupProposalCreationAllowance, Remembers, PlaceOK, run, memory
  <2> QED BY <1>1, <2>1, FlowPlace DEF SetupProposalCreationAllowance
<1>2. CASE Propose
  <2>1. agenda[item] \in ProposalIds
    BY DEF PlaceOK
  <2>2. Remembers /\ current' = agenda[item]
    BY <1>2, <2>1 DEF Propose, Remembers, PlaceOK, run
  <2> QED BY <1>2, <2>2, FlowPlace DEF Propose
<1>3. CASE Vote
  <2>1. Remembers /\ current' = current
    BY <1>3 DEF Vote, Remembers, PlaceOK, run, memory, books
  <2> QED BY <1>3, <2>1, FlowPlace DEF Vote
<1>4. CASE PollSucceeded \/ WaitEnds
  <2>1. Remembers /\ current' = current
    BY <1>4 DEF PollSucceeded, WaitEnds, Remembers, PlaceOK, run, memory, books
  <2> QED BY <1>4, <2>1, FlowPlace DEF PollSucceeded, WaitEnds
<1>5. CASE PollGivesUp
  <2>1. Remembers /\ current' = current
    BY <1>5 DEF PollGivesUp, Remembers, PlaceOK, run, memory, books
  <2> QED BY <1>5, <2>1, GoToPlace DEF PollGivesUp
<1>6. CASE TransferAssets \/ ChangeAdmin
  <2>1. Remembers /\ current' = current
    BY <1>6 DEF TransferAssets, ChangeAdmin, Remembers, PlaceOK, run, memory, books
  <2> QED BY <1>6, <2>1, FlowPlace DEF TransferAssets, ChangeAdmin
<1>7. CASE ExecuteCurrent
  <2>1. Remembers /\ current' = current
    BY <1>7 DEF ExecuteCurrent, Remembers, PlaceOK, run, memory
  <2> QED BY <1>7, <2>1, FlowPlace DEF ExecuteCurrent
<1>8. CASE CancelCurrent
  <2>1. Remembers /\ current' = current
    BY <1>8 DEF CancelCurrent, Remembers, PlaceOK, run, memory
  <2>2. mode = "script" /\ at = "cancel"
    BY <1>8 DEF CancelCurrent, PlaceOK
  <2> QED BY <1>8, <2>1, <2>2, AfterItemPlace, GoToPlace DEF CancelCurrent
<1>9. CASE FetchLastToken
  <2>1. PICK n \in 0 .. Len(log) :
          /\ lastToken' = SeenTokens(n)
          /\ IF SeenTokens(n) = 0 /\ mode = "script"
             THEN at' = "end" /\ item' = item ELSE AfterItem
    BY <1>9 DEF FetchLastToken
  <2>2. SeenTokens(n) \in Nat
    <3>1. IsFiniteSet(1 .. n)
      BY FS_Interval
    <3>2. IsFiniteSet({i \in 1 .. n : log[i][1] = "token"})
      BY <3>1, FS_Subset
    <3> QED BY <3>2, FS_CardinalityType DEF SeenTokens
  <2>3. Remembers
    BY <1>9, <2>1, <2>2 DEF FetchLastToken, Remembers, PlaceOK, run, books
  <2> QED BY <2>1, <2>3, AfterItemPlace, GoToPlace
<1> QED BY <1>1, <1>2, <1>3, <1>4, <1>5, <1>6, <1>7, <1>8, <1>9 DEF ItemNext

LEMMA CleanupPlace ==
  ASSUME TypeOK, PlaceOK, CleanupNext, todo \subseteq ProposalIds
  PROVE  PlaceOK'
<1>1. CASE CheckClaim
  <2>1. godTokenForUsers[Treasury] \in Nat
    BY ClientAssumption DEF TypeOK, GODHolderTypeOK
  <2>2. Remembers
    BY <1>1, <2>1 DEF CheckClaim, BalanceOfVoter, Remembers, PlaceOK, run, books
  <2> QED BY <1>1, <2>2, GoToPlace DEF CheckClaim
<1>2. CASE RevertTokens \/ ClaimFails
  <2>1. Remembers
    BY <1>2 DEF RevertTokens, ClaimFails, Remembers, PlaceOK, run, memory, books
  <2> QED BY <1>2, <2>1, GoToPlace DEF RevertTokens, ClaimFails
<1>3. CASE ListProposals \/ AbortCancels \/ CancelsDone
  <2>1. Remembers
    BY <1>3 DEF ListProposals, AbortCancels, CancelsDone, Remembers, PlaceOK,
                run, memory, books
  <2> QED BY <1>3, <2>1, GoToPlace DEF ListProposals, AbortCancels, CancelsDone
<1>4. CASE CleanOne
  <2>1. PICK p \in todo : IF NeedsNoCancel(p) THEN at' = at /\ current' = current
                          ELSE at' = "cancelOne" /\ current' = p
    BY <1>4 DEF CleanOne
  <2>2. Remembers
    BY <1>4, <2>1 DEF CleanOne, Remembers, PlaceOK, run, books
  <2> QED BY <1>4, <2>1, <2>2, GoToPlace DEF CleanOne
<1>5. CASE CancelOne
  <2>1. Remembers
    BY <1>5 DEF CancelOne, Remembers, PlaceOK, run, memory
  <2> QED BY <1>5, <2>1, GoToPlace DEF CancelOne
<1> QED BY <1>1, <1>2, <1>3, <1>4, <1>5 DEF CleanupNext

LEMMA ErrorPlace ==
  ASSUME PlaceOK, ErrorNext
  PROVE  PlaceOK'
<1>1. Remembers /\ current' = current
  BY DEF ErrorNext, ScriptStops, ErrorIsSwallowed, ScenarioFails, Remembers, PlaceOK,
         memory, books
<1>2. CASE ScriptStops
  BY <1>1, <1>2, GoToPlace DEF ScriptStops
<1>3. CASE ErrorIsSwallowed
  BY <1>1, <1>3, FlowPlace DEF ErrorIsSwallowed
<1>4. CASE ScenarioFails
  BY <1>1, <1>4, AfterItemPlace, GoToPlace DEF ScenarioFails
<1> QED BY <1>2, <1>3, <1>4 DEF ErrorNext

(* What everyone else does. *)
OthersNext ==
  \/ AnyoneExecutes
  \/ \E a \in Accounts \ {Treasury}, p \in ProposalIds :
       OtherProposes(a, p) \/ OtherCancels(a, p)
  \/ OthersAct

LEMMA OthersPlace ==
  ASSUME PlaceOK, OthersNext \/ UNCHANGED allVars
  PROVE  PlaceOK'
<1>1. UNCHANGED <<mode, agenda, item, at, current, known, lastToken, stops, target>>
  BY DEF OthersNext, AnyoneExecutes, OtherProposes, OtherCancels, OthersAct, OthersUnchanged,
         allVars, clientVars, run, place, memory, books
<1> QED BY <1>1, StayPlace
-----------------------------------------------------------------------------
(* What a step does on the ledger *)

(* A lock or an unlock of any amount, a vote, the token, the clock.        *)
QuietStep ==
  \/ \E a \in Accounts, n \in Nat : Lock(a, n)
  \/ \E a \in Accounts, n \in Nat : Unlock(a, n)
  \/ \E a \in Accounts, o \in Accounts, p \in ProposalIds, s \in Supports :
       RecordVote(a, o, Gov, p, s)
  \/ TokenNext
  \/ Tick

HolderReceives == ReceiveProxy \/ \E n \in Nat : ReceiveAssets(n)

ChainStep ==
  \/ UNCHANGED <<vars, target>> /\ (UNCHANGED assetVars \/ HolderReceives)
  \/ QuietStep /\ UNCHANGED <<assetVars, target>>
  \/ /\ \E a \in Accounts, p \in ProposalIds :
          /\ CreateProposal(a, Gov, p)
          /\ \A q \in ProposalIds \ {p} : target'[q] = target[q]
     /\ UNCHANGED assetVars
  \/ \E p \in ProposalIds : ExecuteProposal(p) /\ UNCHANGED target
  \/ \E a \in Accounts, p \in ProposalIds : CancelProposal(a, p) /\ UNCHANGED target

LEMMA ChainSteps ==
  ASSUME PlaceOK, ClientNext \/ UNCHANGED allVars
  PROVE  ChainStep
<1>1. CASE UNCHANGED allVars
  BY <1>1 DEF allVars, clientVars, books, ChainStep
<1>2. CASE LockNext
  <2>1. CASE LockForVoting
    <3>1. UNCHANGED <<assetVars, target>>
      BY <2>1 DEF LockForVoting
    <3>2. Lock(Treasury, known) \/ UNCHANGED vars
      BY <2>1 DEF LockForVoting
    <3>3. Treasury \in Accounts /\ known \in Nat
      BY ClientAssumption DEF PlaceOK
    <3> QED BY <3>1, <3>2, <3>3 DEF ChainStep, QuietStep
  <2>2. CASE ~LockForVoting
    BY <1>2, <2>2 DEF LockNext, ReadQuorum, SetUpScenarioLock, ChainUnchanged,
                      SetupAllowanceForTokenLocking, books, ChainStep
  <2> QED BY <2>1, <2>2
<1>3. CASE ItemNext
  <2>1. CASE SetupProposalCreationAllowance \/ PollSucceeded \/ PollGivesUp \/ WaitEnds
             \/ FetchLastToken
    BY <2>1 DEF SetupProposalCreationAllowance, PollSucceeded, PollGivesUp, WaitEnds,
                FetchLastToken, ChainUnchanged, books, ChainStep
  <2>2. CASE Propose
    <3>1. agenda[item] \in ProposalIds /\ Treasury \in Accounts
      BY ClientAssumption DEF PlaceOK
    <3>2. /\ CreateProposal(Treasury, Gov, agenda[item])
          /\ UNCHANGED assetVars
          /\ target' = [target EXCEPT ![agenda[item]] = lastToken]
      BY <2>2 DEF Propose
    <3>3. \A q \in ProposalIds \ {agenda[item]} : target'[q] = target[q]
      BY <3>2 DEF PlaceOK
    <3> QED BY <3>1, <3>2, <3>3 DEF ChainStep
  <2>3. CASE Vote
    <3>1. current \in ProposalIds /\ Treasury \in Accounts /\ "For" \in Supports
      BY <2>3, ClientAssumption DEF Vote, PlaceOK, Supports
    <3>2. RecordVote(Treasury, Treasury, Gov, current, "For")
      BY <2>3 DEF Vote, CastVote
    <3>3. UNCHANGED <<assetVars, target>>
      BY <2>3 DEF Vote, books
    <3> QED BY <3>1, <3>2, <3>3 DEF ChainStep, QuietStep
  <2>4. CASE TransferAssets
    <3>1. agenda[item] \in ProposalIds
      BY DEF PlaceOK
    <3>2. Amount[agenda[item]] \in Nat
      BY <3>1, ClientAssumption
    <3>3. ReceiveAssets(Amount[agenda[item]]) /\ UNCHANGED <<vars, target>>
      BY <2>4 DEF TransferAssets, books
    <3> QED BY <3>2, <3>3 DEF ChainStep, HolderReceives
  <2>5. CASE ChangeAdmin
    <3>1. (ReceiveProxy \/ UNCHANGED assetVars) /\ UNCHANGED <<vars, target>>
      BY <2>5 DEF ChangeAdmin, books
    <3> QED BY <3>1 DEF ChainStep, HolderReceives
  <2>6. CASE ExecuteCurrent
    <3>1. current \in ProposalIds
      BY <2>6 DEF ExecuteCurrent, PlaceOK
    <3>2. ExecuteProposal(current) /\ UNCHANGED target
      BY <2>6 DEF ExecuteCurrent
    <3> QED BY <3>1, <3>2 DEF ChainStep
  <2>7. CASE CancelCurrent
    <3>1. current \in ProposalIds
      BY <2>7 DEF CancelCurrent, PlaceOK
    <3>2. CancelProposal(Treasury, current) /\ UNCHANGED target
      BY <2>7 DEF CancelCurrent
    <3> QED BY <3>1, <3>2, ClientAssumption DEF ChainStep
  <2> QED BY <1>3, <2>1, <2>2, <2>3, <2>4, <2>5, <2>6, <2>7 DEF ItemNext
<1>4. CASE CleanupNext
  <2>1. CASE CheckClaim \/ ClaimFails \/ ListProposals \/ CleanOne \/ AbortCancels
             \/ CancelsDone
    BY <2>1 DEF CheckClaim, ClaimFails, ListProposals, CleanOne, AbortCancels,
                CancelsDone, ChainUnchanged, books, ChainStep
  <2>2. CASE RevertTokens
    <3>1. UNCHANGED <<assetVars, target>> /\ Unlock(Treasury, known)
      BY <2>2 DEF RevertTokens, books
    <3>2. Treasury \in Accounts /\ known \in Nat
      BY ClientAssumption DEF PlaceOK
    <3> QED BY <3>1, <3>2 DEF ChainStep, QuietStep
  <2>3. CASE CancelOne
    <3>1. current \in ProposalIds
      BY <2>3 DEF CancelOne, PlaceOK
    <3>2. CancelProposal(Treasury, current) /\ UNCHANGED target
      BY <2>3 DEF CancelOne
    <3> QED BY <3>1, <3>2, ClientAssumption DEF ChainStep
  <2> QED BY <1>4, <2>1, <2>2, <2>3 DEF CleanupNext
<1>5. CASE ErrorNext
  BY <1>5 DEF ErrorNext, ScriptStops, ErrorIsSwallowed, ScenarioFails, ChainUnchanged,
              books, ChainStep
<1>6. CASE AnyoneExecutes
  <2>1. PICK p \in ProposalIds : ExecuteProposal(p)
    BY <1>6 DEF AnyoneExecutes
  <2>2. UNCHANGED target
    BY <1>6 DEF AnyoneExecutes, OthersUnchanged
  <2> QED BY <2>1, <2>2 DEF ChainStep
<1>7. ASSUME NEW a \in Accounts \ {Treasury}, NEW p \in ProposalIds,
             OtherProposes(a, p) \/ OtherCancels(a, p)
      PROVE  ChainStep
  BY <1>7 DEF OtherProposes, OtherCancels, OthersUnchanged, ChainStep
<1>8. CASE OthersAct
  <2>1. UNCHANGED <<assetVars, target>>
    BY <1>8 DEF OthersAct, OthersUnchanged
  <2>2. QuietStep
    <3>1. CASE \E a \in Accounts \ {Treasury}, n \in Amounts : Lock(a, n)
      BY <3>1, GovernorAssumption DEF QuietStep
    <3>2. ASSUME NEW a \in Accounts \ {Treasury}, NEW r \in Relayers, NEW p \in Contested,
                 NEW s \in {"For", "Against"}, CastVoteBySig(a, r, Gov, p, s)
          PROVE  QuietStep
      <4>1. r \in Accounts /\ s \in Supports /\ p \in ProposalIds
        BY GovernorAssumption, ClientAssumption DEF Supports
      <4> QED BY <3>2, <4>1 DEF QuietStep, CastVoteBySig
    <3> QED BY <1>8, <3>1, <3>2 DEF OthersAct, QuietStep
  <2> QED BY <2>1, <2>2 DEF ChainStep
<1> QED BY <1>1, <1>2, <1>3, <1>4, <1>5, <1>6, <1>7, <1>8 DEF ClientNext
LEMMA LockKeepsType ==
  ASSUME TypeInv, NEW a \in Accounts, NEW n \in Nat, Lock(a, n) \/ Unlock(a, n)
  PROVE  TypeInv'
<1> USE DEF TypeOK, GODHolderTypeOK, TokenHolderTypeOK
<1>1. CASE Lock(a, n)
  <2>1. balance' \in [Addresses -> Nat]
    BY <1>1, MovedType DEF TypeInv, Lock, GrabTokensFromUser, Addresses
  <2>2. godTokenForUsers' \in [Accounts -> Nat]
    BY <1>1 DEF TypeInv, Lock, GrabTokensFromUser
  <2> QED BY <1>1, <2>1, <2>2 DEF TypeInv, CreatorKnown, Lock, GrabTokensFromUser
<1>2. CASE Unlock(a, n)
  <2>1. balance' \in [Addresses -> Nat]
    BY <1>2, MovedType DEF TypeInv, Unlock, RevertTokensForVoter, Addresses
  <2>2. godTokenForUsers' \in [Accounts -> Nat]
    BY <1>2 DEF TypeInv, Unlock, RevertTokensForVoter, HasLocked
  <2> QED BY <1>2, <2>1, <2>2 DEF TypeInv, CreatorKnown, Unlock, RevertTokensForVoter
<1> QED BY <1>1, <1>2

LEMMA ChainKeepsType ==
  ASSUME TypeInv, ChainStep
  PROVE  TypeInv'
<1>1. CASE UNCHANGED vars
  BY <1>1, NextType
<1>2. CASE QuietStep
  <2>1. ASSUME NEW a \in Accounts, NEW n \in Nat, Lock(a, n) \/ Unlock(a, n)
        PROVE  TypeInv'
    BY <2>1, LockKeepsType
  <2>2. ASSUME NEW a \in Accounts, NEW o \in Accounts, NEW p \in ProposalIds,
               NEW s \in Supports, RecordVote(a, o, Gov, p, s)
        PROVE  TypeInv'
    <3>1. TypeOK'
      BY <2>2, VoteType, ClientAssumption DEF TypeInv
    <3> QED BY <2>2, <3>1 DEF TypeInv, CreatorKnown, RecordVote
  <2>3. CASE TokenNext \/ Tick
    <3>1. Next
      BY <2>3 DEF Next
    <3> QED BY <3>1, NextType
  <2> QED BY <1>2, <2>1, <2>2, <2>3 DEF QuietStep
<1>3. ASSUME NEW a \in Accounts, NEW p \in ProposalIds, CreateProposal(a, Gov, p)
      PROVE  TypeInv'
  <2>1. TypeOK'
    BY <1>3, CreateType, ClientAssumption DEF TypeInv
  <2> QED BY <1>3, <2>1, ClientAssumption
          DEF CreateProposal, CreatorKnown, TypeInv, TypeOK
<1>4. ASSUME NEW a \in Accounts, NEW p \in ProposalIds,
             ExecuteProposal(p) \/ CancelProposal(a, p)
      PROVE  TypeInv'
  <2>1. Close(Gov, p)
    BY <1>4, ClientAssumption DEF ExecuteProposal, CancelProposal, Close
  <2> QED BY <2>1, CloseType, ClientAssumption
<1> QED BY <1>1, <1>2, <1>3, <1>4, ClientAssumption DEF ChainStep

(* Only an execution marks a proposal as executed, and only one.           *)
LEMMA ExecutedStep ==
  ASSUME TypeInv, ChainStep
  PROVE  \/ \E p \in ProposalIds :
              /\ ExecuteProposal(p) /\ UNCHANGED target
              /\ ~Executed(p) /\ Executed(p)'
              /\ \A q \in ProposalIds \ {p} : Executed(q)' <=> Executed(q)
         \/ /\ \A q \in ProposalIds : Executed(q)' <=> Executed(q)
            /\ \A q \in ProposalIds : Executed(q) => target'[q] = target[q]
            /\ UNCHANGED assetVars \/ HolderReceives
<1> USE ClientAssumption
<1>1. CASE UNCHANGED <<vars, target>> /\ (UNCHANGED assetVars \/ HolderReceives)
  BY <1>1 DEF vars, Executed
<1>2. CASE QuietStep /\ UNCHANGED <<assetVars, target>>
  <2>1. UNCHANGED proposals
    BY <1>2 DEF QuietStep, Lock, Unlock, RecordVote, TokenNext, Transfer, Mint, Burn, Tick
  <2> QED BY <1>2, <2>1 DEF Executed
<1>3. ASSUME NEW a \in Accounts, NEW p \in ProposalIds, CreateProposal(a, Gov, p),
             \A q \in ProposalIds \ {p} : target'[q] = target[q],
             UNCHANGED assetVars
      PROVE  /\ \A q \in ProposalIds : Executed(q)' <=> Executed(q)
             /\ \A q \in ProposalIds : Executed(q) => target'[q] = target[q]
  <2>1. ~Executed(p) /\ ~Executed(p)'
    BY <1>3 DEF CreateProposal, Executed, TypeInv, TypeOK
  <2>2. \A q \in ProposalIds \ {p} : proposals'[Gov][q] = proposals[Gov][q]
    BY <1>3 DEF CreateProposal, TypeInv, TypeOK
  <2> QED BY <1>3, <2>1, <2>2 DEF Executed
<1>4. ASSUME NEW a \in Accounts, NEW p \in ProposalIds, CancelProposal(a, p),
             UNCHANGED target
      PROVE  /\ \A q \in ProposalIds : Executed(q)' <=> Executed(q)
             /\ UNCHANGED assetVars
  <2>1. Close(Gov, p)
    BY <1>4 DEF CancelProposal, Close
  <2>2. Live(Gov, p) /\ \A q \in ProposalIds \ {p} : proposals'[Gov][q] = proposals[Gov][q]
    BY <2>1, CloseEffect DEF TypeInv
  <2>3. proposals'[Gov][p].status = "Canceled"
    BY <1>4 DEF CancelProposal, Cancel, TypeInv, TypeOK, Proposal
  <2> QED BY <1>4, <2>2, <2>3 DEF CancelProposal, Executed, Live
<1>5. ASSUME NEW p \in ProposalIds, ExecuteProposal(p)
      PROVE  /\ ~Executed(p) /\ Executed(p)'
             /\ \A q \in ProposalIds \ {p} : Executed(q)' <=> Executed(q)
  <2>1. Close(Gov, p)
    BY <1>5 DEF ExecuteProposal, Close
  <2>2. Live(Gov, p) /\ \A q \in ProposalIds \ {p} : proposals'[Gov][q] = proposals[Gov][q]
    BY <2>1, CloseEffect DEF TypeInv
  <2>3. proposals'[Gov][p].status = "Executed"
    BY <1>5 DEF ExecuteProposal, Execute, TypeInv, TypeOK, Proposal
  <2> QED BY <2>2, <2>3 DEF Executed, Live
<1> QED BY <1>1, <1>2, <1>3, <1>4, <1>5 DEF ChainStep
-----------------------------------------------------------------------------
(* What the calls of the proposals do *)

LEMMA CallEffect ==
  ASSUME AssetsOK, PlaceOK, NEW p \in ProposalIds, HolderCall(p)
  PROVE  /\ Kind[p] = "transfer" => /\ paidAssets' = paidAssets + Amount[p]
                                    /\ heldAssets >= Amount[p]
                                    /\ heldAssets' = heldAssets - Amount[p]
         /\ Kind[p] # "transfer" => UNCHANGED <<paidAssets, heldAssets>>
         /\ Kind[p] = "create" => tokenSupplies' = Append(tokenSupplies, CreatedSupply)
         /\ Kind[p] = "mint" =>
              /\ target[p] \in DOMAIN tokenSupplies
              /\ tokenSupplies' = [tokenSupplies EXCEPT ![target[p]] = @ + Amount[p]]
         /\ Kind[p] = "burn" =>
              /\ target[p] \in DOMAIN tokenSupplies
              /\ tokenSupplies[target[p]] >= Amount[p]
              /\ tokenSupplies' = [tokenSupplies EXCEPT ![target[p]] = @ - Amount[p]]
         /\ Kind[p] \notin {"create", "mint", "burn"} => UNCHANGED tokenSupplies
         /\ Kind[p] = "upgrade" => /\ proxyAdmin = AssetsHolderId
                                   /\ proxyAdmin' = ProxyAdmin
                                   /\ upgrades' = upgrades + 1
         /\ Kind[p] # "upgrade" => UNCHANGED <<proxyAdmin, upgrades>>
BY DEF HolderCall, AssociationCall, AssetTransferCall, TextCall, UpgradeCall,
       TokenCreateCall, MintTokenCall, BurnTokenCall, Associate, TransferAsset, SetText,
       UpgradeProxy, CreateToken, MintToken, BurnToken, assetVars

(* A supply that changes in one place. *)
LEMMA SupplySet ==
  ASSUME NEW s \in Seq(Nat), NEW i \in DOMAIN s, NEW n \in Nat
  PROVE  /\ [s EXCEPT ![i] = n] \in Seq(Nat)
         /\ Len([s EXCEPT ![i] = n]) = Len(s)
         /\ DOMAIN [s EXCEPT ![i] = n] = DOMAIN s
OBVIOUS

(* A token that is added to those there are.                               *)
LEMMA SupplyAdded ==
  ASSUME NEW s \in Seq(Nat), NEW n \in Nat
  PROVE  Append(s, n) \in Seq(Nat) /\ DOMAIN s \subseteq DOMAIN Append(s, n)
OBVIOUS

LEMMA CallKeepsAssets ==
  ASSUME AssetsOK, PlaceOK, NEW p \in ProposalIds, HolderCall(p)
  PROVE  AssetsOK' /\ DOMAIN tokenSupplies \subseteq DOMAIN tokenSupplies'
<1>1. Amount[p] \in Nat /\ Kind[p] \in Kinds /\ CreatedSupply \in Nat
  BY ClientAssumption, AssetsHolderAssumption
<1>2. heldAssets' \in Nat /\ paidAssets' \in Nat
  BY <1>1, CallEffect DEF AssetsOK
<1>3. upgrades' \in Nat /\ proxyAdmin' \in {ProxyAdmin, AssetsHolderId}
  BY CallEffect DEF AssetsOK
<1>4. tokenSupplies' \in Seq(Nat) /\ DOMAIN tokenSupplies \subseteq DOMAIN tokenSupplies'
  <2>0. tokenSupplies \in Seq(Nat)
    BY DEF AssetsOK
  <2>1. CASE Kind[p] = "create"
    <3>1. tokenSupplies' = Append(tokenSupplies, CreatedSupply)
      BY <2>1, CallEffect
    <3> QED BY <1>1, <2>0, <3>1, SupplyAdded
  <2>2. CASE Kind[p] = "mint"
    <3>1. tokenSupplies[target[p]] + Amount[p] \in Nat
      BY <1>1, <2>0, <2>2, CallEffect
    <3> QED BY <2>0, <2>2, <3>1, CallEffect, SupplySet
  <2>3. CASE Kind[p] = "burn"
    <3>1. tokenSupplies[target[p]] - Amount[p] \in Nat
      BY <1>1, <2>0, <2>3, CallEffect
    <3> QED BY <2>0, <2>3, <3>1, CallEffect, SupplySet
  <2>4. CASE Kind[p] \notin {"create", "mint", "burn"}
    BY <2>0, <2>4, CallEffect
  <2> QED BY <2>1, <2>2, <2>3, <2>4
<1> QED BY <1>2, <1>3, <1>4 DEF AssetsOK

LEMMA ReceivesAssets ==
  ASSUME AssetsOK, UNCHANGED assetVars \/ HolderReceives
  PROVE  AssetsOK' /\ UNCHANGED <<paidAssets, tokenSupplies, upgrades>>
BY DEF AssetsOK, assetVars, HolderReceives, ReceiveProxy, ReceiveAssets

-----------------------------------------------------------------------------
(* The receiver is paid what was voted, once *)

BooksInv == TypeInv /\ PlaceOK /\ AssetsOK

LEMMA PaidStep ==
  ASSUME BooksInv, TransfersPaidOnce, ChainStep
  PROVE  TransfersPaidOnce'
<1>1. IsFiniteSet(ProposalIds) /\ \A q \in ProposalIds : Amount[q] \in Nat
  BY ClientAssumption
<1>2. \A q \in ProposalIds : Paid[q] \in Nat /\ Paid'[q] \in Nat
  BY <1>1 DEF Paid
<1>3. CASE /\ \A q \in ProposalIds : Executed(q)' <=> Executed(q)
           /\ UNCHANGED assetVars \/ HolderReceives
  <2>1. \A q \in ProposalIds : Paid'[q] = Paid[q]
    BY <1>3 DEF Paid
  <2>2. Total(ProposalIds, Paid') = Total(ProposalIds, Paid)
    BY <2>1, TotalSame
  <2>3. paidAssets' = paidAssets
    BY <1>3, ReceivesAssets DEF BooksInv
  <2> QED BY <2>2, <2>3 DEF TransfersPaidOnce
<1>4. ASSUME NEW p \in ProposalIds, ExecuteProposal(p), ~Executed(p), Executed(p)',
             \A q \in ProposalIds \ {p} : Executed(q)' <=> Executed(q)
      PROVE  TransfersPaidOnce'
  <2>1. \A q \in ProposalIds \ {p} : Paid'[q] = Paid[q]
    BY <1>4 DEF Paid
  <2>2. /\ Paid[p] = 0
        /\ Paid'[p] = IF Kind[p] = "transfer" THEN Amount[p] ELSE 0
    BY <1>4 DEF Paid
  <2>3. /\ Total(ProposalIds, Paid) \in Nat
        /\ Total(ProposalIds, Paid') = Total(ProposalIds, Paid) - Paid[p] + Paid'[p]
    BY <1>1, <1>2, <2>1, TotalChange
  <2>4. paidAssets' = paidAssets + Paid'[p]
    BY <1>1, <1>4, <2>2, CallEffect DEF ExecuteProposal, BooksInv, AssetsOK
  <2> QED BY <1>1, <2>2, <2>3, <2>4 DEF TransfersPaidOnce
<1> QED BY <1>3, <1>4, ExecutedStep DEF BooksInv

-----------------------------------------------------------------------------
(* The supplies are those that were voted *)

(* A mint or burn that was executed named a token that is there.           *)
TargetsExist ==
  \A p \in ExecutedOf("mint") \cup ExecutedOf("burn") :
    target[p] \in DOMAIN tokenSupplies

Of(kind, t) == {p \in ExecutedOf(kind) : target[p] = t}

(* Voted amounts are sums over finite sets. *)
LEMMA VotedType ==
  ASSUME NEW S \in SUBSET ProposalIds
  PROVE  IsFiniteSet(S) /\ Cardinality(S) \in Nat /\ Total(S, Amount) \in Nat
<1>1. IsFiniteSet(S) /\ \A q \in S : Amount[q] \in Nat
  BY ClientAssumption, FS_Subset
<1> QED BY <1>1, FS_CardinalityType, AllSlotsFinite

LEMMA VotedMore ==
  ASSUME NEW S \in SUBSET ProposalIds, NEW p \in ProposalIds \ S
  PROVE  /\ Total(S \cup {p}, Amount) = Total(S, Amount) + Amount[p]
         /\ Cardinality(S \cup {p}) = Cardinality(S) + 1
<1>1. IsFiniteSet(S \cup {p}) /\ \A q \in S \cup {p} : Amount[q] \in Nat
  BY ClientAssumption, FS_Subset
<1>2. (S \cup {p}) \ {p} = S
  OBVIOUS
<1>3. Total(S \cup {p}, Amount) = Amount[p] + Total(S, Amount)
  BY <1>1, <1>2, TotalSplit
<1>4. Total(S, Amount) \in Nat /\ Amount[p] \in Nat /\ IsFiniteSet(S)
  BY VotedType, ClientAssumption
<1>5. Cardinality(S \cup {p}) = Cardinality(S) + 1
  BY <1>4, FS_AddElement
<1>6. Total(S \cup {p}, Amount) = Total(S, Amount) + Amount[p]
  BY <1>3, <1>4
<1> QED BY <1>5, <1>6

LEMMA SuppliesStep ==
  ASSUME BooksInv, SuppliesVoted, TargetsExist, ChainStep
  PROVE  SuppliesVoted' /\ TargetsExist'
<1>1. /\ Len(tokenSupplies) = EarlierTokens + Cardinality(ExecutedOf("create"))
      /\ \A t \in DOMAIN tokenSupplies :
           tokenSupplies[t] + Total(Of("burn", t), Amount) =
             CreatedSupply + Total(Of("mint", t), Amount)
  BY DEF SuppliesVoted, Of
<1>2. SUFFICES
        /\ Len(tokenSupplies') = EarlierTokens + Cardinality(ExecutedOf("create")')
        /\ \A t \in DOMAIN tokenSupplies' :
             tokenSupplies'[t] + Total(Of("burn", t)', Amount) =
               CreatedSupply + Total(Of("mint", t)', Amount)
        /\ TargetsExist'
  BY DEF SuppliesVoted, Of
<1>3. CASE /\ \A q \in ProposalIds : Executed(q)' <=> Executed(q)
           /\ \A q \in ProposalIds : Executed(q) => target'[q] = target[q]
           /\ UNCHANGED assetVars \/ HolderReceives
  <2>1. \A kind \in Kinds : ExecutedOf(kind)' = ExecutedOf(kind)
    BY <1>3 DEF ExecutedOf
  <2>2. \A kind \in Kinds, t \in DOMAIN tokenSupplies : Of(kind, t)' = Of(kind, t)
    BY <1>3, <2>1 DEF ExecutedOf, Of
  <2>3. tokenSupplies' = tokenSupplies
    BY <1>3, ReceivesAssets DEF BooksInv
  <2>4. TargetsExist'
    BY <1>3, <2>1, <2>3 DEF TargetsExist, Kinds, ExecutedOf
  <2> QED BY <1>1, <2>1, <2>2, <2>3, <2>4 DEF Kinds
<1>4. ASSUME NEW p \in ProposalIds, ExecuteProposal(p), ~Executed(p), Executed(p)',
             \A q \in ProposalIds \ {p} : Executed(q)' <=> Executed(q),
             UNCHANGED target
      PROVE  /\ Len(tokenSupplies') = EarlierTokens + Cardinality(ExecutedOf("create")')
             /\ \A t \in DOMAIN tokenSupplies' :
                  tokenSupplies'[t] + Total(Of("burn", t)', Amount) =
                    CreatedSupply + Total(Of("mint", t)', Amount)
             /\ TargetsExist'
  <2>1. /\ Kind[p] \in Kinds /\ Amount[p] \in Nat
        /\ CreatedSupply \in Nat /\ EarlierTokens \in Nat /\ HolderCall(p)
    BY <1>4, ClientAssumption, AssetsHolderAssumption DEF ExecuteProposal
  <2>2. \A kind \in Kinds :
          ExecutedOf(kind)' = IF Kind[p] = kind THEN ExecutedOf(kind) \cup {p}
                              ELSE ExecutedOf(kind)
    BY <1>4 DEF ExecutedOf
  <2>3. \A kind \in Kinds, t \in Nat :
          Of(kind, t)' = IF Kind[p] = kind /\ target[p] = t THEN Of(kind, t) \cup {p}
                         ELSE Of(kind, t)
    BY <1>4, <2>2 DEF Of
  <2>4. \A kind \in Kinds : /\ ExecutedOf(kind) \in SUBSET ProposalIds
                            /\ p \notin ExecutedOf(kind)
    BY <1>4 DEF ExecutedOf
  <2>5. \A kind \in Kinds, t \in Nat : /\ Of(kind, t) \in SUBSET ProposalIds
                                       /\ p \notin Of(kind, t)
    BY <2>4 DEF Of
  <2>6. \A kind \in Kinds, t \in Nat :
          /\ Total(Of(kind, t), Amount) \in Nat
          /\ Total(Of(kind, t)', Amount) =
               Total(Of(kind, t), Amount)
                 + (IF Kind[p] = kind /\ target[p] = t THEN Amount[p] ELSE 0)
    BY <2>1, <2>3, <2>5, VotedType, VotedMore
  <2>7. /\ Cardinality(ExecutedOf("create")) \in Nat
        /\ Cardinality(ExecutedOf("create")') =
             Cardinality(ExecutedOf("create")) + (IF Kind[p] = "create" THEN 1 ELSE 0)
    BY <2>2, <2>4, VotedType, VotedMore DEF Kinds
  <2>8. /\ tokenSupplies \in Seq(Nat) /\ DOMAIN tokenSupplies = 1 .. Len(tokenSupplies)
        /\ Len(tokenSupplies) \in Nat
    BY DEF BooksInv, AssetsOK
  <2>9. /\ Kind[p] = "create" => tokenSupplies' = Append(tokenSupplies, CreatedSupply)
        /\ Kind[p] = "mint" =>
             /\ target[p] \in DOMAIN tokenSupplies
             /\ tokenSupplies' = [tokenSupplies EXCEPT ![target[p]] = @ + Amount[p]]
        /\ Kind[p] = "burn" =>
             /\ target[p] \in DOMAIN tokenSupplies
             /\ tokenSupplies[target[p]] >= Amount[p]
             /\ tokenSupplies' = [tokenSupplies EXCEPT ![target[p]] = @ - Amount[p]]
        /\ Kind[p] \notin {"create", "mint", "burn"} => UNCHANGED tokenSupplies
    BY <2>1, CallEffect DEF BooksInv
  <2>10. DOMAIN tokenSupplies \subseteq DOMAIN tokenSupplies'
    BY <2>1, CallKeepsAssets DEF BooksInv
  <2>11. TargetsExist'
    BY <1>4, <2>2, <2>9, <2>10 DEF TargetsExist, Kinds
  <2>12. CASE Kind[p] = "create"
    <3> DEFINE n == Len(tokenSupplies)
    <3>1. /\ Len(tokenSupplies') = n + 1 /\ DOMAIN tokenSupplies' = 1 .. (n + 1)
          /\ \A t \in 1 .. n : tokenSupplies'[t] = tokenSupplies[t]
          /\ tokenSupplies'[n + 1] = CreatedSupply
      BY <2>1, <2>8, <2>9, <2>12
    <3>2. Of("burn", n + 1) = {} /\ Of("mint", n + 1) = {}
      BY <2>8 DEF TargetsExist, Of
    <3>3. Total({}, Amount) = 0
      BY TotalZero
    <3>4. ASSUME NEW t \in DOMAIN tokenSupplies'
          PROVE  tokenSupplies'[t] + Total(Of("burn", t)', Amount) =
                   CreatedSupply + Total(Of("mint", t)', Amount)
      <4>1. Of("burn", t)' = Of("burn", t) /\ Of("mint", t)' = Of("mint", t)
        BY <2>3, <2>8, <2>12, <3>1 DEF Kinds
      <4>2. CASE t \in 1 .. n
        BY <1>1, <2>8, <3>1, <4>1, <4>2
      <4>3. CASE t = n + 1
        BY <2>1, <3>1, <3>2, <3>3, <4>1, <4>3
      <4> QED BY <2>8, <3>1, <4>2, <4>3
    <3> QED BY <1>1, <2>1, <2>7, <2>8, <2>11, <2>12, <3>1, <3>4
  <2>13. CASE Kind[p] # "create"
    <3>1. Len(tokenSupplies') = Len(tokenSupplies) /\ DOMAIN tokenSupplies' = DOMAIN tokenSupplies
      <4>1. CASE Kind[p] \in {"mint", "burn"}
        <5>1. /\ target[p] \in DOMAIN tokenSupplies
              /\ \E m \in Nat : tokenSupplies' = [tokenSupplies EXCEPT ![target[p]] = m]
          BY <2>1, <2>8, <2>9, <4>1
        <5> QED BY <2>8, <5>1, SupplySet
      <4> QED BY <2>9, <2>13, <4>1
    <3>2. \A t \in DOMAIN tokenSupplies :
            tokenSupplies'[t] = tokenSupplies[t]
              + (IF Kind[p] = "mint" /\ target[p] = t THEN Amount[p] ELSE 0)
              - (IF Kind[p] = "burn" /\ target[p] = t THEN Amount[p] ELSE 0)
      BY <2>1, <2>8, <2>9, <2>13
    <3>3. ASSUME NEW t \in DOMAIN tokenSupplies'
          PROVE  tokenSupplies'[t] + Total(Of("burn", t)', Amount) =
                   CreatedSupply + Total(Of("mint", t)', Amount)
      <4> DEFINE burnt == Total(Of("burn", t), Amount)
                 minted == Total(Of("mint", t), Amount)
                 down == IF Kind[p] = "burn" /\ target[p] = t THEN Amount[p] ELSE 0
                 up == IF Kind[p] = "mint" /\ target[p] = t THEN Amount[p] ELSE 0
      <4>1. t \in Nat /\ t \in DOMAIN tokenSupplies /\ tokenSupplies[t] \in Nat
        BY <2>8, <3>1
      <4>2. /\ burnt \in Nat /\ Total(Of("burn", t)', Amount) = burnt + down
            /\ minted \in Nat /\ Total(Of("mint", t)', Amount) = minted + up
        BY <2>6, <4>1 DEF Kinds
      <4>3. tokenSupplies'[t] = tokenSupplies[t] + up - down
        BY <3>2, <4>1
      <4>4. tokenSupplies[t] + burnt = CreatedSupply + minted
        BY <1>1, <4>1
      <4>5. up \in Nat /\ down \in Nat
        BY <2>1
      <4> HIDE DEF burnt, minted, up, down
      <4> QED BY <2>1, <4>1, <4>2, <4>3, <4>4, <4>5
    <3> QED BY <1>1, <2>7, <2>11, <2>13, <3>1, <3>3
  <2> QED BY <2>12, <2>13
<1> QED BY <1>3, <1>4, ExecutedStep DEF BooksInv
-----------------------------------------------------------------------------
(* The invariant that both rest on *)

ListOK == todo \subseteq ProposalIds

LEMMA BooksStart ==
  ASSUME ClientInit
  PROVE  BooksInv /\ ListOK
<1>1. TypeInv
  BY InitType DEF ClientInit, Init, TypeInv, CreatorKnown, NoProposal
<1>2. AssetsOK
  BY AssetsHolderAssumption DEF ClientInit, AssetsInit, AssetsOK
<1>3. PlaceOK
  <2>1. PICK w \in Worlds : mode = w.mode /\ agenda = w.agenda /\ others = w.others
    BY DEF ClientInit
  <2>2. /\ mode \in {"script", "scenario"} /\ agenda \in Seq(ProposalIds)
        /\ agenda # <<>>
        /\ \A i, j \in DOMAIN agenda : agenda[i] = agenda[j] => i = j
    BY <2>1, ClientAssumption
  <2>3. 1 \in 1 .. Len(agenda)
    BY <2>2
  <2> QED BY <2>2, <2>3 DEF ClientInit, PlaceOK, Places
<1> QED BY <1>1, <1>2, <1>3 DEF BooksInv, ListOK, ClientInit

LEMMA ChainKeepsAssets ==
  ASSUME PlaceOK, AssetsOK, ChainStep
  PROVE  AssetsOK'
<1>1. CASE UNCHANGED assetVars \/ HolderReceives
  BY <1>1, ReceivesAssets
<1>2. ASSUME NEW p \in ProposalIds, ExecuteProposal(p)
      PROVE  AssetsOK'
  BY <1>2, CallKeepsAssets DEF ExecuteProposal
<1>3. ASSUME NEW a \in Accounts, NEW p \in ProposalIds, CancelProposal(a, p)
      PROVE  AssetsOK'
  BY <1>1, <1>3 DEF CancelProposal
<1> QED BY <1>1, <1>2, <1>3 DEF ChainStep

LEMMA ListStep ==
  ASSUME ListOK, ClientNext \/ UNCHANGED allVars
  PROVE  ListOK'
<1>1. CASE ListProposals
  BY <1>1 DEF ListProposals, ListOK, Seen
<1>2. CASE CleanOne
  BY <1>2 DEF CleanOne, ListOK
<1>3. CASE ~(ListProposals \/ CleanOne)
  <2>1. UNCHANGED todo
    <3>1. CASE LockNext
      BY <3>1 DEF LockNext, ReadQuorum, SetUpScenarioLock,
                  SetupAllowanceForTokenLocking, LockForVoting, cleanupVars
    <3>2. CASE ItemNext
      BY <3>2 DEF ItemNext, SetupProposalCreationAllowance, Propose, Vote,
                  PollSucceeded, PollGivesUp, WaitEnds, TransferAssets, ChangeAdmin,
                  ExecuteCurrent, CancelCurrent, FetchLastToken, cleanupVars
    <3>3. CASE CleanupNext
      BY <1>3, <3>3 DEF CleanupNext, CheckClaim, RevertTokens, ClaimFails, CancelOne,
                        AbortCancels, CancelsDone, cleanupVars
    <3>4. CASE ErrorNext
      BY <3>4 DEF ErrorNext, ScriptStops, ErrorIsSwallowed, ScenarioFails, cleanupVars
    <3>5. CASE OthersNext \/ UNCHANGED allVars
      BY <3>5 DEF OthersNext, AnyoneExecutes, OtherProposes, OtherCancels, OthersAct,
                  OthersUnchanged, allVars, clientVars, cleanupVars
    <3> QED BY <3>1, <3>2, <3>3, <3>4, <3>5 DEF ClientNext, OthersNext
  <2> QED BY <2>1 DEF ListOK
<1> QED BY <1>1, <1>2, <1>3

LEMMA PlaceStep ==
  ASSUME BooksInv, ListOK, ClientNext \/ UNCHANGED allVars
  PROVE  PlaceOK'
<1>1. CASE LockNext
  BY <1>1, LockPlace DEF BooksInv, TypeInv
<1>2. CASE ItemNext
  BY <1>2, ItemPlace DEF BooksInv
<1>3. CASE CleanupNext
  BY <1>3, CleanupPlace DEF BooksInv, TypeInv, ListOK
<1>4. CASE ErrorNext
  BY <1>4, ErrorPlace DEF BooksInv
<1>5. CASE OthersNext \/ UNCHANGED allVars
  BY <1>5, OthersPlace DEF BooksInv
<1> QED BY <1>1, <1>2, <1>3, <1>4, <1>5 DEF ClientNext, OthersNext

LEMMA BooksStep ==
  ASSUME BooksInv, ListOK, ClientNext \/ UNCHANGED allVars
  PROVE  BooksInv' /\ ListOK' /\ ChainStep
<1>1. ChainStep
  BY ChainSteps DEF BooksInv
<1>2. TypeInv' /\ AssetsOK'
  BY <1>1, ChainKeepsType, ChainKeepsAssets DEF BooksInv
<1> QED BY <1>1, <1>2, PlaceStep, ListStep DEF BooksInv

(***************************************************************************)
(* The client is always at a place of the flow of its proposal, with the   *)
(* proposal and the amounts it remembers there, whatever threw and whoever *)
(* else acted (governance.ts:69-243).                                      *)
(***************************************************************************)
THEOREM ClientKnowsItsPlace == ClientSpec => [](BooksInv /\ ListOK)
<1>1. ClientInit => BooksInv /\ ListOK
  BY BooksStart
<1>2. BooksInv /\ ListOK /\ [ClientNext]_allVars => (BooksInv /\ ListOK)'
  BY BooksStep
<1> QED BY <1>1, <1>2, PTL DEF ClientSpec

(***************************************************************************)
(* TransfersPaidOnce for every set of proposals, amounts and accounts: no  *)
(* retry, cancel or execution by somebody else pays a transfer twice or    *)
(* loses one (AssetsHolder.sol:101-120, HederaGovernor.sol:376-396).       *)
(***************************************************************************)
THEOREM TransfersArePaidOnce == ClientSpec => []TransfersPaidOnce
<1>1. ClientInit => TransfersPaidOnce
  <2> SUFFICES ASSUME ClientInit PROVE TransfersPaidOnce
    OBVIOUS
  <2>1. \A p \in ProposalIds : Paid[p] = 0
    BY ClientAssumption DEF ClientInit, Init, Paid, Executed, NoProposal
  <2>2. Total(ProposalIds, Paid) = 0
    BY <2>1, TotalZero
  <2> QED BY <2>2 DEF TransfersPaidOnce, ClientInit, AssetsInit
<1>2. BooksInv /\ ListOK /\ TransfersPaidOnce /\ [ClientNext]_allVars
        => TransfersPaidOnce'
  BY BooksStep, PaidStep
<1> QED BY <1>1, <1>2, ClientKnowsItsPlace, PTL DEF ClientSpec

(***************************************************************************)
(* SuppliesVoted for every set of proposals and amounts: a mint or burn    *)
(* changes the token that it named when it was proposed, however late the  *)
(* client learnt of it (governance.ts:532-556, AssetsHolder.sol:58-99).    *)
(***************************************************************************)
THEOREM SuppliesAreVoted == ClientSpec => []SuppliesVoted
<1>1. ClientInit => SuppliesVoted /\ TargetsExist
  <2> SUFFICES ASSUME ClientInit PROVE SuppliesVoted /\ TargetsExist
    OBVIOUS
  <2>1. \A kind \in Kinds : ExecutedOf(kind) = {}
    BY ClientAssumption DEF ClientInit, Init, ExecutedOf, Executed, NoProposal
  <2>2. Cardinality({}) = 0 /\ Total({}, Amount) = 0
    BY FS_EmptySet, TotalZero
  <2>3. /\ Len(tokenSupplies) = EarlierTokens
        /\ \A t \in DOMAIN tokenSupplies : tokenSupplies[t] = CreatedSupply
    BY AssetsHolderAssumption DEF ClientInit, AssetsInit
  <2>4. \A t \in DOMAIN tokenSupplies : Of("burn", t) = {} /\ Of("mint", t) = {}
    BY <2>1 DEF Of, Kinds
  <2>5. /\ ExecutedOf("create") = {} /\ ExecutedOf("mint") = {}
        /\ ExecutedOf("burn") = {}
    BY <2>1 DEF Kinds
  <2>6. Len(tokenSupplies) = EarlierTokens + Cardinality(ExecutedOf("create"))
    <3>1. Cardinality(ExecutedOf("create")) = 0 /\ EarlierTokens \in Nat
      BY <2>2, <2>5, AssetsHolderAssumption
    <3> QED BY <2>3, <3>1
  <2>7. \A t \in DOMAIN tokenSupplies :
          tokenSupplies[t] + Total(Of("burn", t), Amount) =
            CreatedSupply + Total(Of("mint", t), Amount)
    BY <2>2, <2>3, <2>4
  <2> QED BY <2>5, <2>6, <2>7 DEF SuppliesVoted, TargetsExist, Of
<1>2. BooksInv /\ ListOK /\ SuppliesVoted /\ TargetsExist /\ [ClientNext]_allVars
        => (SuppliesVoted /\ TargetsExist)'
  BY BooksStep, SuppliesStep
<1> QED BY <1>1, <1>2, ClientKnowsItsPlace, PTL DEF ClientSpec
-----------------------------------------------------------------------------
(* The proxy comes back *)

BeforeHandOver ==
  {"quorum", "allowLock", "lock", "allow", "propose", "vote", "poll", "fund",
   "handOver"}

(* The upgrades the client may have handed the proxy over for.             *)
HandedOver ==
  {p \in ProposalIds :
     /\ Kind[p] = "upgrade"
     /\ \E i \in 1 .. item : agenda[i] = p /\ (i < item \/ at \notin BeforeHandOver)}

(* The holder was given the proxy once more often than it gave it back,    *)
(* when it has it, and at most once for each of these.                     *)
ProxyCount ==
  Cardinality(ExecutedOf("upgrade"))
    + (IF proxyAdmin = AssetsHolderId THEN 1 ELSE 0) =< Cardinality(HandedOver)

(* Where the script is while the holder has the proxy.                     *)
ProxyPlace ==
  proxyAdmin = AssetsHolderId /\ mode = "script" /\ stops = 0 =>
    at = "execute" /\ Kind[current] = "upgrade"

Onward ==
  \/ item' = item /\ (at \notin BeforeHandOver => at' \notin BeforeHandOver)
  \/ item' = item + 1

(* The client never goes back. *)
LEMMA Advances ==
  ASSUME PlaceOK, ClientNext \/ UNCHANGED allVars
  PROVE  agenda' = agenda /\ Onward
<1>1. agenda' = agenda
  BY DEF ClientNext, LockNext, ReadQuorum, SetUpScenarioLock,
         SetupAllowanceForTokenLocking, LockForVoting, ItemNext,
         SetupProposalCreationAllowance, Propose, Vote, PollSucceeded, PollGivesUp,
         WaitEnds, TransferAssets, ChangeAdmin, ExecuteCurrent, CancelCurrent,
         FetchLastToken, CleanupNext, CheckClaim, RevertTokens, ClaimFails,
         ListProposals, CleanOne, CancelOne, AbortCancels, CancelsDone, ErrorNext,
         ScriptStops, ErrorIsSwallowed, ScenarioFails, AnyoneExecutes, OtherProposes,
         OtherCancels, OthersAct, OthersUnchanged, allVars, clientVars, run
<1>0. SUFFICES Onward
  BY <1>1
<1>2. ASSUME AfterItem PROVE Onward
  BY <1>2 DEF AfterItem, Onward, BeforeHandOver
<1>3. ASSUME NextStep,
             at \in {"allow", "propose", "vote", "poll", "fund", "handOver", "execute"}
      PROVE  Onward
  BY <1>2, <1>3, FlowSteps DEF Onward, BeforeHandOver
<1>4. CASE LockNext
  BY <1>4 DEF LockNext, ReadQuorum, SetUpScenarioLock, SetupAllowanceForTokenLocking,
              LockForVoting, Onward, BeforeHandOver
<1>5. CASE ItemNext
  <2>1. CASE PollGivesUp
    BY <2>1 DEF PollGivesUp, Onward, BeforeHandOver
  <2>2. CASE CancelCurrent \/ FetchLastToken
    BY <1>2, <2>2 DEF CancelCurrent, FetchLastToken, Onward, BeforeHandOver
  <2>3. CASE ~(PollGivesUp \/ CancelCurrent \/ FetchLastToken)
    BY <1>3, <1>5, <2>3
       DEF ItemNext, SetupProposalCreationAllowance, Propose, Vote, PollSucceeded,
           WaitEnds, TransferAssets, ChangeAdmin, ExecuteCurrent
  <2> QED BY <2>1, <2>2, <2>3
<1>6. CASE CleanupNext
  BY <1>6 DEF CleanupNext, CheckClaim, RevertTokens, ClaimFails, ListProposals,
              CleanOne, CancelOne, AbortCancels, CancelsDone, Onward, BeforeHandOver
<1>7. CASE ErrorNext
  <2>1. CASE ScriptStops
    BY <2>1 DEF ScriptStops, Onward, BeforeHandOver
  <2>2. CASE ErrorIsSwallowed
    BY <1>3, <2>2 DEF ErrorIsSwallowed
  <2>3. CASE ScenarioFails
    BY <1>2, <2>3 DEF ScenarioFails, Onward, BeforeHandOver
  <2> QED BY <1>7, <2>1, <2>2, <2>3 DEF ErrorNext
<1>8. CASE OthersNext \/ UNCHANGED allVars
  BY <1>8 DEF OthersNext, AnyoneExecutes, OtherProposes, OtherCancels, OthersAct, OthersUnchanged,
              allVars, clientVars, place, Onward
<1> QED BY <1>1, <1>4, <1>5, <1>6, <1>7, <1>8 DEF ClientNext, OthersNext

(* Only the hand-over gives the holder the proxy. *)
LEMMA HandsOver ==
  ASSUME BooksInv, ClientNext \/ UNCHANGED allVars,
         proxyAdmin # AssetsHolderId, proxyAdmin' = AssetsHolderId
  PROVE  ChangeAdmin
<1>1. \A p \in ProposalIds : ~HolderCall(p)
  BY CallEffect DEF BooksInv, AssetsOK
<1>2. ~UNCHANGED assetVars
  BY DEF assetVars
<1>3. ~TransferAssets
  BY DEF TransferAssets, ReceiveAssets
<1>4. ~ExecuteCurrent /\ ~AnyoneExecutes
  BY <1>1 DEF ExecuteCurrent, AnyoneExecutes, ExecuteProposal, BooksInv, PlaceOK
<1>5. CASE LockNext
  BY <1>2, <1>5 DEF LockNext, ReadQuorum, SetUpScenarioLock, ChainUnchanged,
                    SetupAllowanceForTokenLocking, LockForVoting
<1>6. CASE ItemNext
  BY <1>2, <1>3, <1>4, <1>6
     DEF ItemNext, SetupProposalCreationAllowance, Propose, Vote, PollSucceeded,
         PollGivesUp, WaitEnds, CancelCurrent, CancelProposal, FetchLastToken,
         ChainUnchanged
<1>7. CASE CleanupNext
  BY <1>2, <1>7 DEF CleanupNext, CheckClaim, RevertTokens, ClaimFails, ListProposals,
                    CleanOne, CancelOne, CancelProposal, AbortCancels, CancelsDone,
                    ChainUnchanged
<1>8. CASE ErrorNext
  BY <1>2, <1>8 DEF ErrorNext, ScriptStops, ErrorIsSwallowed, ScenarioFails,
                    ChainUnchanged
<1>9. CASE OthersNext \/ UNCHANGED allVars
  BY <1>2, <1>4, <1>9 DEF OthersNext, OtherProposes, OtherCancels, CancelProposal,
                          OthersAct, allVars
<1> QED BY <1>5, <1>6, <1>7, <1>8, <1>9 DEF ClientNext, OthersNext

LEMMA CountStep ==
  ASSUME BooksInv, ProxyCount, ClientNext \/ UNCHANGED allVars, PlaceOK', ChainStep
  PROVE  ProxyCount'
<1>1. IsFiniteSet(ProposalIds) /\ AssetsOK /\ PlaceOK
  BY ClientAssumption DEF BooksInv
<1>2. /\ HandedOver \in SUBSET ProposalIds /\ HandedOver' \in SUBSET ProposalIds
      /\ ExecutedOf("upgrade") \in SUBSET ProposalIds
  BY DEF HandedOver, ExecutedOf
<1>3. HandedOver \subseteq HandedOver'
  <2> SUFFICES ASSUME NEW p \in HandedOver PROVE p \in HandedOver'
    OBVIOUS
  <2>1. PICK i \in 1 .. item : agenda[i] = p /\ (i < item \/ at \notin BeforeHandOver)
    BY DEF HandedOver
  <2>2. item \in Nat
    BY <1>1 DEF PlaceOK
  <2>3. i \in 1 .. item' /\ agenda'[i] = p /\ (i < item' \/ at' \notin BeforeHandOver')
    BY <1>1, <2>1, <2>2, Advances DEF Onward, BeforeHandOver
  <2> QED BY <2>3 DEF HandedOver
<1>4. /\ Cardinality(HandedOver) \in Nat /\ Cardinality(HandedOver') \in Nat
      /\ Cardinality(ExecutedOf("upgrade")) \in Nat
      /\ IsFiniteSet(HandedOver')
  BY <1>2, VotedType
<1>5. Cardinality(HandedOver) =< Cardinality(HandedOver')
  BY <1>3, <1>4, FS_Subset
<1>6. CASE /\ proxyAdmin # AssetsHolderId /\ proxyAdmin' = AssetsHolderId
  <2>1. ChangeAdmin
    BY <1>6, HandsOver
  <2>2. /\ at = "handOver" /\ NextStep /\ UNCHANGED vars
        /\ ThisKind = "upgrade" /\ agenda[item] \in ProposalIds
    BY <1>1, <2>1 DEF ChangeAdmin, PlaceOK
  <2>3. at' = "execute" /\ item' = item /\ agenda' = agenda
    <3>1. at' = "execute" /\ item' = item
      BY <1>1, <2>2, FlowSteps
    <3>2. agenda' = agenda
      BY <1>1, Advances
    <3> QED BY <3>1, <3>2
  <2>4. agenda[item] \notin HandedOver
    <3>1. /\ item \in Nat /\ item \in DOMAIN agenda
          /\ \A i \in 1 .. item : i \in DOMAIN agenda
          /\ \A i, j \in DOMAIN agenda : agenda[i] = agenda[j] => i = j
      <4>1. /\ agenda \in Seq(ProposalIds) /\ item \in 1 .. Len(agenda)
            /\ \A i, j \in DOMAIN agenda : agenda[i] = agenda[j] => i = j
        BY <1>1 DEF PlaceOK
      <4>2. DOMAIN agenda = 1 .. Len(agenda) /\ Len(agenda) \in Nat
        BY <4>1
      <4> QED BY <4>1, <4>2
    <3>2. ASSUME NEW i \in 1 .. item, agenda[i] = agenda[item], i < item PROVE FALSE
      BY <3>1, <3>2
    <3> QED BY <2>2, <3>2 DEF HandedOver, BeforeHandOver
  <2>5. agenda[item] \in HandedOver'
    BY <1>1, <2>2, <2>3 DEF HandedOver, PlaceOK, BeforeHandOver, ThisKind
  <2>6. Cardinality(HandedOver \cup {agenda[item]}) = Cardinality(HandedOver) + 1
    BY <1>2, <2>2, <2>4, VotedMore
  <2>7. Cardinality(HandedOver \cup {agenda[item]}) =< Cardinality(HandedOver')
    <3>1. HandedOver \cup {agenda[item]} \subseteq HandedOver'
      BY <1>3, <2>5
    <3> QED BY <1>4, <3>1, FS_Subset
  <2>8. ExecutedOf("upgrade")' = ExecutedOf("upgrade")
    BY <2>2 DEF vars, ExecutedOf, Executed
  <2> QED BY <1>4, <1>6, <2>6, <2>7, <2>8 DEF ProxyCount
<1>7. CASE ~(proxyAdmin # AssetsHolderId /\ proxyAdmin' = AssetsHolderId)
  <2>1. CASE \A q \in ProposalIds : Executed(q)' <=> Executed(q)
    <3>1. ExecutedOf("upgrade")' = ExecutedOf("upgrade")
      BY <2>1 DEF ExecutedOf
    <3> QED BY <1>4, <1>5, <1>7, <3>1 DEF ProxyCount
  <2>2. ASSUME NEW p \in ProposalIds, ExecuteProposal(p), ~Executed(p), Executed(p)',
               \A q \in ProposalIds \ {p} : Executed(q)' <=> Executed(q)
        PROVE  ProxyCount'
    <3>1. CASE Kind[p] = "upgrade"
      <4>1. ExecutedOf("upgrade")' = ExecutedOf("upgrade") \cup {p}
        BY <2>2, <3>1 DEF ExecutedOf
      <4>2. p \notin ExecutedOf("upgrade")
        BY <2>2 DEF ExecutedOf
      <4>3. Cardinality(ExecutedOf("upgrade")') = Cardinality(ExecutedOf("upgrade")) + 1
        BY <1>2, <4>1, <4>2, VotedMore
      <4>4. proxyAdmin = AssetsHolderId /\ proxyAdmin' # AssetsHolderId
        BY <1>1, <2>2, <3>1, CallEffect, AssetsHolderAssumption DEF ExecuteProposal
      <4> QED BY <1>4, <1>5, <4>3, <4>4 DEF ProxyCount
    <3>2. CASE Kind[p] # "upgrade"
      <4>1. ExecutedOf("upgrade")' = ExecutedOf("upgrade")
        BY <2>2, <3>2 DEF ExecutedOf
      <4> QED BY <1>4, <1>5, <1>7, <4>1 DEF ProxyCount
    <3> QED BY <3>1, <3>2
  <2> QED BY <2>1, <2>2, ExecutedStep DEF BooksInv
<1> QED BY <1>6, <1>7

(* The script is at the execution of an upgrade until that gives it back.  *)
LEMMA ProxyPlaceStep ==
  ASSUME BooksInv, ProxyPlace, ClientNext \/ UNCHANGED allVars
  PROVE  ProxyPlace'
<1> SUFFICES ASSUME proxyAdmin' = AssetsHolderId, mode' = "script", stops' = 0
             PROVE  at' = "execute" /\ Kind[current'] = "upgrade"
  BY DEF ProxyPlace
<1>1. mode = "script" /\ stops = 0 /\ ~ErrorNext
  <2>1. ~ErrorNext
    BY DEF ErrorNext, ScriptStops, ErrorIsSwallowed, ScenarioFails, BooksInv, PlaceOK
  <2>2. UNCHANGED <<mode, stops>>
    BY <2>1
       DEF ClientNext, LockNext, ReadQuorum, SetUpScenarioLock,
         SetupAllowanceForTokenLocking, LockForVoting, ItemNext,
         SetupProposalCreationAllowance, Propose, Vote, PollSucceeded, PollGivesUp,
         WaitEnds, TransferAssets, ChangeAdmin, ExecuteCurrent, CancelCurrent,
         FetchLastToken, CleanupNext, CheckClaim, RevertTokens, ClaimFails,
         ListProposals, CleanOne, CancelOne, AbortCancels, CancelsDone,
         AnyoneExecutes, OtherProposes,
         OtherCancels, OthersAct, OthersUnchanged, allVars, clientVars, run
  <2> QED BY <2>1, <2>2
<1>2. CASE proxyAdmin # AssetsHolderId
  <2>1. ChangeAdmin
    BY <1>2, HandsOver
  <2>2. /\ at = "handOver" /\ NextStep /\ ThisKind = "upgrade"
        /\ current' = current /\ current = agenda[item]
    BY <1>1, <2>1 DEF ChangeAdmin, memory, BooksInv, PlaceOK
  <2> QED BY <2>2, FlowSteps DEF BooksInv, ThisKind
<1>3. CASE proxyAdmin = AssetsHolderId
  <2>1. at = "execute" /\ Kind[current] = "upgrade"
    BY <1>1, <1>3 DEF ProxyPlace
  <2>2. ~ExecuteCurrent
    <3>1. ASSUME ExecuteCurrent PROVE FALSE
      <4>1. current \in ProposalIds /\ HolderCall(current)
        BY <3>1 DEF ExecuteCurrent, ExecuteProposal, BooksInv, PlaceOK
      <4> QED BY <2>1, <4>1, CallEffect, AssetsHolderAssumption DEF BooksInv
    <3> QED BY <3>1
  <2>3. OthersNext \/ UNCHANGED allVars
    BY <1>1, <2>1, <2>2
       DEF ClientNext, OthersNext, LockNext, ReadQuorum, SetUpScenarioLock,
           SetupAllowanceForTokenLocking, LockForVoting, ItemNext,
           SetupProposalCreationAllowance, Propose, Vote, PollSucceeded, PollGivesUp,
           WaitEnds, TransferAssets, ChangeAdmin, CancelCurrent, FetchLastToken,
           CleanupNext, CheckClaim, RevertTokens, ClaimFails, ListProposals, CleanOne,
           CancelOne, AbortCancels, CancelsDone
  <2>4. UNCHANGED <<at, current>>
    BY <2>3 DEF OthersNext, AnyoneExecutes, OtherProposes, OtherCancels, OthersAct, OthersUnchanged,
                allVars, clientVars, place, memory
  <2> QED BY <2>1, <2>4
<1> QED BY <1>2, <1>3

(***************************************************************************)
(* ProxyReturned for any proposals: the holder is given the proxy at most  *)
(* once for each upgrade the client comes to, and gives it back with each  *)
(* that is executed, so while it has it one of them is not executed; and a *)
(* script without an exception then stands before that execution           *)
(* (governance.ts:233-243, AssetsHolder.sol:126-144).                      *)
(***************************************************************************)
THEOREM ProxyIsReturned == ClientSpec => []ProxyReturned
<1>1. ClientInit => ProxyCount /\ ProxyPlace
  <2> SUFFICES ASSUME ClientInit PROVE ProxyCount /\ ProxyPlace
    OBVIOUS
  <2>1. ExecutedOf("upgrade") = {}
    BY ClientAssumption DEF ClientInit, Init, ExecutedOf, Executed, NoProposal
  <2>2. Cardinality(HandedOver) \in Nat
    <3>1. HandedOver \in SUBSET ProposalIds
      BY DEF HandedOver
    <3> QED BY <3>1, VotedType
  <2>3. proxyAdmin # AssetsHolderId
    BY AssetsHolderAssumption DEF ClientInit, AssetsInit
  <2>4. Cardinality(ExecutedOf("upgrade")) = 0
    BY <2>1, FS_EmptySet
  <2> QED BY <2>2, <2>3, <2>4 DEF ProxyCount, ProxyPlace
<1>2. BooksInv /\ ListOK /\ ProxyCount /\ ProxyPlace /\ [ClientNext]_allVars
        => (ProxyCount /\ ProxyPlace)'
  BY BooksStep, CountStep, ProxyPlaceStep DEF BooksInv
<1>3. ProxyCount /\ ProxyPlace => ProxyReturned
  <2> SUFFICES ASSUME ProxyCount, ProxyPlace, proxyAdmin = AssetsHolderId
               PROVE  \E p \in ProposalIds : Kind[p] = "upgrade" /\ ~Executed(p)
    BY DEF ProxyPlace, ProxyReturned
  <2>1. SUFFICES ASSUME \A p \in ProposalIds : Kind[p] = "upgrade" => Executed(p)
                 PROVE  FALSE
    OBVIOUS
  <2>2. /\ HandedOver \subseteq ExecutedOf("upgrade")
        /\ ExecutedOf("upgrade") \in SUBSET ProposalIds
        /\ HandedOver \in SUBSET ProposalIds
    BY <2>1 DEF HandedOver, ExecutedOf
  <2>3. /\ Cardinality(HandedOver) \in Nat /\ Cardinality(ExecutedOf("upgrade")) \in Nat
        /\ IsFiniteSet(ExecutedOf("upgrade"))
    BY <2>2, VotedType
  <2>4. Cardinality(HandedOver) =< Cardinality(ExecutedOf("upgrade"))
    BY <2>2, <2>3, FS_Subset
  <2> QED BY <2>3, <2>4 DEF ProxyCount
<1> QED BY <1>1, <1>2, <1>3, ClientKnowsItsPlace, PTL DEF ClientSpec
-----------------------------------------------------------------------------
(* What the script locks is enough *)

VotePlaces ==
  {"allow", "propose", "vote", "poll", "fund", "handOver", "execute", "cancel",
   "fetch"}

LockPlaces == {"allowLock", "lock"}

(* Does the quorum stay what it was when the script read it?               *)
Alone == mode = "script" /\ others # "supply"

(* What the script has locked, or is about to, reaches the quorum, and so  *)
(* does each of its ballots.                                               *)
Power ==
  Alone =>
    /\ at \in VotePlaces => godTokenForUsers[Treasury] >= Quorum(Gov)
    /\ at \in LockPlaces => godTokenForUsers[Treasury] + known >= Quorum(Gov)
    /\ \A p \in ProposalIds : HasVoted(Gov, p, Treasury) =>
         /\ ballots[Gov][p][Treasury].support = "For"
         /\ ballots[Gov][p][Treasury].weight > 0
         /\ ballots[Gov][p][Treasury].weight >= Quorum(Gov)

LEMMA WorldStays ==
  ASSUME ClientNext \/ UNCHANGED allVars
  PROVE  UNCHANGED <<mode, others>>
BY DEF ClientNext, LockNext, ReadQuorum, SetUpScenarioLock,
       SetupAllowanceForTokenLocking, LockForVoting, ItemNext,
       SetupProposalCreationAllowance, Propose, Vote, PollSucceeded, PollGivesUp,
       WaitEnds, TransferAssets, ChangeAdmin, ExecuteCurrent, CancelCurrent,
       FetchLastToken, CleanupNext, CheckClaim, RevertTokens, ClaimFails,
       ListProposals, CleanOne, CancelOne, AbortCancels, CancelsDone, ErrorNext,
       ScriptStops, ErrorIsSwallowed, ScenarioFails, AnyoneExecutes, OtherProposes,
       OtherCancels, OthersAct, OthersUnchanged, allVars, clientVars, run

(* How the script comes to a place where it counts on what it locked.      *)
LEMMA Arrives ==
  ASSUME PlaceOK, mode = "script", ClientNext \/ UNCHANGED allVars
  PROVE  \/ at' \notin VotePlaces \cup LockPlaces
         \/ at \in VotePlaces /\ at' \in VotePlaces
         \/ ReadQuorum
         \/ LockForVoting /\ at' = "allow"
         \/ at \in LockPlaces /\ at' \in LockPlaces /\ known' = known
<1>1. ASSUME AfterItem PROVE at' \in {"allow", "claim"}
  BY <1>1 DEF AfterItem
<1>2. ASSUME NextStep,
             at \in {"allow", "propose", "vote", "poll", "fund", "handOver", "execute"}
      PROVE  at \in VotePlaces /\ at' \in VotePlaces \cup {"claim"}
  BY <1>1, <1>2, FlowSteps DEF VotePlaces
<1>3. CASE LockNext
  BY <1>3 DEF LockNext, ReadQuorum, SetUpScenarioLock, SetupAllowanceForTokenLocking,
              LockForVoting, LockPlaces, memory
<1>4. CASE ItemNext
  <2>1. CASE PollGivesUp
    BY <2>1 DEF PollGivesUp, VotePlaces
  <2>2. CASE CancelCurrent \/ FetchLastToken
    BY <1>1, <2>2 DEF CancelCurrent, FetchLastToken, VotePlaces, LockPlaces
  <2>3. CASE ~(PollGivesUp \/ CancelCurrent \/ FetchLastToken)
    <3>1. NextStep /\ at \in {"allow", "propose", "vote", "poll", "fund", "handOver",
                              "execute"}
      BY <1>4, <2>3
         DEF ItemNext, SetupProposalCreationAllowance, Propose, Vote, PollSucceeded,
             WaitEnds, TransferAssets, ChangeAdmin, ExecuteCurrent
    <3> QED BY <1>2, <3>1 DEF VotePlaces, LockPlaces
  <2> QED BY <2>1, <2>2, <2>3
<1>5. CASE CleanupNext
  BY <1>5 DEF CleanupNext, CheckClaim, RevertTokens, ClaimFails, ListProposals,
              CleanOne, CancelOne, AbortCancels, CancelsDone, VotePlaces, LockPlaces
<1>6. CASE ErrorNext
  BY <1>6 DEF ErrorNext, ScriptStops, ErrorIsSwallowed, ScenarioFails, VotePlaces,
              LockPlaces
<1>7. CASE OthersNext \/ UNCHANGED allVars
  <2>1. UNCHANGED <<at, known>>
    BY <1>7 DEF OthersNext, AnyoneExecutes, OtherProposes, OtherCancels, OthersAct, OthersUnchanged,
                allVars, clientVars, place, memory
  <2> QED BY <2>1
<1> QED BY <1>3, <1>4, <1>5, <1>6, <1>7 DEF ClientNext, OthersNext

(* A proposal that is closed leaves votes, locked tokens, supply and, as   *)
(* its calls are the holder's, the threshold alone.                        *)
LEMMA CloseLeaves ==
  ASSUME NEW a, NEW p \in ProposalIds, ExecuteProposal(p) \/ CancelProposal(a, p)
  PROVE  UNCHANGED <<ballots, godTokenForUsers, totalSupply, quorumThreshold>>
BY ClientAssumption, GovernorAssumption
   DEF ExecuteProposal, CancelProposal, Execute, Cancel, ProposalCalls

(* What the script's quorum, tokens and ballots depend on.                 *)
LEMMA PowerMoves ==
  ASSUME BooksInv, ClientNext \/ UNCHANGED allVars
  PROVE  /\ others # "supply" => UNCHANGED <<totalSupply, quorumThreshold>>
         /\ \/ godTokenForUsers'[Treasury] = godTokenForUsers[Treasury]
            \/ LockForVoting \/ RevertTokens
         /\ \/ \A p \in ProposalIds :
                 ballots'[Gov][p][Treasury] = ballots[Gov][p][Treasury]
            \/ Vote
<1>1. CASE UNCHANGED vars
  BY <1>1 DEF vars
<1>2. CASE LockForVoting \/ RevertTokens
  BY <1>2 DEF LockForVoting, RevertTokens, Lock, Unlock, vars
<1>3. CASE Vote
  BY <1>3 DEF Vote, CastVote, RecordVote
<1>4. ASSUME NEW a \in Accounts, NEW p \in ProposalIds, CreateProposal(a, Gov, p)
      PROVE  UNCHANGED <<totalSupply, quorumThreshold, godTokenForUsers, ballots>>
  BY <1>4 DEF CreateProposal
<1>5. CASE Propose
  <2>1. agenda[item] \in ProposalIds /\ Treasury \in Accounts
    BY ClientAssumption DEF BooksInv, PlaceOK
  <2>2. CreateProposal(Treasury, Gov, agenda[item])
    BY <1>5 DEF Propose
  <2> QED BY <1>4, <2>1, <2>2
<1>6. CASE ExecuteCurrent \/ CancelCurrent \/ CancelOne
  <2>1. current \in ProposalIds
    BY <1>6 DEF ExecuteCurrent, CancelCurrent, CancelOne, BooksInv, PlaceOK
  <2> QED BY <1>6, <2>1, CloseLeaves DEF ExecuteCurrent, CancelCurrent, CancelOne
<1>7. CASE AnyoneExecutes
  BY <1>7, CloseLeaves DEF AnyoneExecutes
<1>8. CASE \E a \in Accounts \ {Treasury}, p \in ProposalIds :
             OtherProposes(a, p) \/ OtherCancels(a, p)
  BY <1>4, <1>8, CloseLeaves DEF OtherProposes, OtherCancels
<1>9. CASE OthersAct
  <2>0. CASE others = "supply" /\ TokenNext
    BY <2>0 DEF TokenNext, Transfer, Mint, Burn
  <2>1. CASE Tick
    BY <2>1 DEF Tick
  <2>2. ASSUME NEW a \in Accounts \ {Treasury}, NEW n \in Amounts, Lock(a, n)
        PROVE  /\ UNCHANGED <<totalSupply, quorumThreshold, ballots>>
               /\ godTokenForUsers'[Treasury] = godTokenForUsers[Treasury]
    BY <2>2, ClientAssumption
       DEF Lock, GrabTokensFromUser, BooksInv, TypeInv, TypeOK, GODHolderTypeOK
  <2>3. ASSUME NEW a \in Accounts \ {Treasury}, NEW r \in Relayers, NEW p \in Contested,
               NEW s \in {"For", "Against"}, CastVoteBySig(a, r, Gov, p, s)
        PROVE  /\ UNCHANGED <<totalSupply, quorumThreshold, godTokenForUsers>>
               /\ \A q \in ProposalIds :
                    ballots'[Gov][q][Treasury] = ballots[Gov][q][Treasury]
    <3>1. Gov \in Governors /\ Treasury \in Accounts /\ p \in ProposalIds
      BY ClientAssumption
    <3> QED BY <2>3, <3>1 DEF CastVoteBySig, RecordVote, BooksInv, TypeInv, TypeOK
  <2> QED BY <1>9, <2>0, <2>1, <2>2, <2>3 DEF OthersAct
<1>10. CASE ~(LockForVoting \/ RevertTokens \/ Vote \/ Propose \/ ExecuteCurrent
              \/ CancelCurrent \/ CancelOne \/ AnyoneExecutes \/ OthersAct
              \/ \E a \in Accounts \ {Treasury}, p \in ProposalIds :
                   OtherProposes(a, p) \/ OtherCancels(a, p))
  <2>1. UNCHANGED vars
    BY <1>10 DEF ClientNext, LockNext, ReadQuorum, SetUpScenarioLock,
         SetupAllowanceForTokenLocking, ItemNext, SetupProposalCreationAllowance,
         PollSucceeded, PollGivesUp, WaitEnds, TransferAssets, ChangeAdmin,
         FetchLastToken, CleanupNext, CheckClaim, ClaimFails, ListProposals, CleanOne,
         AbortCancels, CancelsDone, ErrorNext, ScriptStops, ErrorIsSwallowed,
         ScenarioFails, ChainUnchanged, allVars
  <2> QED BY <1>1, <2>1
<1> QED BY <1>2, <1>3, <1>5, <1>6, <1>7, <1>8, <1>9, <1>10

LEMMA PowerStep ==
  ASSUME BooksInv, Power, ClientNext \/ UNCHANGED allVars
  PROVE  Power'
<1> SUFFICES ASSUME Alone'
             PROVE  /\ at' \in VotePlaces => godTokenForUsers'[Treasury] >= Quorum(Gov)'
                    /\ at' \in LockPlaces =>
                         godTokenForUsers'[Treasury] + known' >= Quorum(Gov)'
                    /\ \A p \in ProposalIds : HasVoted(Gov, p, Treasury)' =>
                         /\ ballots'[Gov][p][Treasury].support = "For"
                         /\ ballots'[Gov][p][Treasury].weight > 0
                         /\ ballots'[Gov][p][Treasury].weight >= Quorum(Gov)'
  BY DEF Power, VotePlaces, LockPlaces
<1>1. mode = "script" /\ others # "supply" /\ Alone
  BY WorldStays DEF Alone
<1>2. Quorum(Gov)' = Quorum(Gov)
  BY <1>1, PowerMoves DEF Quorum
<1>3. /\ godTokenForUsers[Treasury] \in Nat /\ known \in Nat /\ Quorum(Gov) \in Nat
      /\ Treasury \in Accounts /\ Gov \in Governors
  <2>1. /\ totalSupply \in Nat /\ quorumThreshold[Gov] \in Nat
        /\ godTokenForUsers[Treasury] \in Nat /\ Bsp \in Nat \ {0}
    BY ClientAssumption, GovernorAssumption DEF BooksInv, TypeInv, TypeOK, GODHolderTypeOK
  <2>2. Quorum(Gov) \in Nat
    BY <2>1, TimesIsNat, QuotientFacts DEF Quorum
  <2> QED BY <2>1, <2>2, ClientAssumption DEF BooksInv, PlaceOK
<1>4. /\ at' \in VotePlaces => godTokenForUsers'[Treasury] >= Quorum(Gov)
      /\ at' \in LockPlaces => godTokenForUsers'[Treasury] + known' >= Quorum(Gov)
  <2>1. CASE at' \notin VotePlaces \cup LockPlaces
    BY <2>1
  <2>2. CASE at \in VotePlaces /\ at' \in VotePlaces
    <3>1. ~LockForVoting /\ ~RevertTokens
      BY <2>2 DEF LockForVoting, RevertTokens, VotePlaces
    <3>2. godTokenForUsers'[Treasury] = godTokenForUsers[Treasury]
      BY <1>1, <3>1, PowerMoves
    <3> QED BY <1>1, <2>2, <3>2 DEF Power, VotePlaces, LockPlaces
  <2>3. CASE ReadQuorum
    <3>1. /\ UNCHANGED godTokenForUsers
          /\ known' = Monus(Quorum(Gov), godTokenForUsers[Treasury])
          /\ at' = IF known' > 0 THEN "allowLock" ELSE "allow"
      BY <2>3 DEF ReadQuorum, ChainUnchanged, vars, MissingVotingPower, BalanceOfVoter
    <3> QED BY <1>3, <3>1 DEF Monus, VotePlaces, LockPlaces
  <2>4. CASE LockForVoting /\ at' = "allow"
    <3>1. at = "lock" /\ Lock(Treasury, known)
      BY <1>1, <2>4 DEF LockForVoting
    <3>2. godTokenForUsers'[Treasury] = godTokenForUsers[Treasury] + known
      BY <1>3, <3>1
         DEF Lock, GrabTokensFromUser, BooksInv, TypeInv, TypeOK, GODHolderTypeOK
    <3> QED BY <1>1, <2>4, <3>1, <3>2 DEF Power, VotePlaces, LockPlaces
  <2>5. CASE at \in LockPlaces /\ at' \in LockPlaces /\ known' = known
    <3>1. ~LockForVoting /\ ~RevertTokens
      BY <2>5 DEF LockForVoting, RevertTokens, LockPlaces
    <3>2. godTokenForUsers'[Treasury] = godTokenForUsers[Treasury]
      BY <1>1, <3>1, PowerMoves
    <3> QED BY <1>1, <2>5, <3>2 DEF Power, VotePlaces, LockPlaces
  <2> QED BY <1>1, <2>1, <2>2, <2>3, <2>4, <2>5, Arrives DEF BooksInv
<1>5. ASSUME NEW p \in ProposalIds, HasVoted(Gov, p, Treasury)'
      PROVE  /\ ballots'[Gov][p][Treasury].support = "For"
             /\ ballots'[Gov][p][Treasury].weight > 0
             /\ ballots'[Gov][p][Treasury].weight >= Quorum(Gov)
  <2>1. CASE ballots'[Gov][p][Treasury] = ballots[Gov][p][Treasury]
    BY <1>1, <1>5, <2>1 DEF HasVoted, Power
  <2>2. CASE Vote /\ ballots'[Gov][p][Treasury] # ballots[Gov][p][Treasury]
    <3>1. /\ at = "vote" /\ current \in ProposalIds
          /\ RecordVote(Treasury, Treasury, Gov, current, "For")
      BY <2>2 DEF Vote, CastVote, BooksInv, PlaceOK
    <3>2. godTokenForUsers[Treasury] >= Quorum(Gov)
      BY <1>1, <3>1 DEF Power, VotePlaces
    <3>3. /\ godTokenForUsers[Treasury] > 0
          /\ ballots' = [ballots EXCEPT ![Gov][current][Treasury] =
                           [support |-> "For", weight |-> godTokenForUsers[Treasury]]]
      BY <3>1 DEF RecordVote, BalanceOfVoter
    <3>4. ballots \in [Governors -> [ProposalIds -> [Accounts -> Ballot]]]
      BY DEF BooksInv, TypeInv, TypeOK
    <3>5. ballots'[Gov][p][Treasury] =
            [support |-> "For", weight |-> godTokenForUsers[Treasury]]
      BY <1>3, <2>2, <3>1, <3>3, <3>4
    <3> QED BY <1>3, <3>2, <3>3, <3>5
  <2> QED BY <1>1, <2>1, <2>2, PowerMoves
<1> QED BY <1>2, <1>4, <1>5

LEMMA PowerDecides == BooksInv /\ Power => LockedEnough
<1> SUFFICES ASSUME BooksInv, Power, NEW p \in ProposalIds,
                    mode = "script", others # "supply",
                    HasVoted(Gov, p, Treasury), Tally(Gov, p, "Against") = 0,
                    State(Gov, p) = "Defeated"
             PROVE  FALSE
  BY DEF LockedEnough
<1>1. TypeOK /\ Gov \in Governors /\ Treasury \in Accounts /\ IsFiniteSet(Accounts)
  BY ClientAssumption, AddressesAssumption DEF BooksInv, TypeInv
<1>2. Verdict(Gov, p) = "Defeated"
  BY <1>1, DecidedHasEnded, EndedVerdict DEF Decided
<1>3. ~(QuorumReached(Gov, p) /\ VoteSucceeded(Gov, p))
  BY <1>2 DEF Verdict
<1> DEFINE w == [a \in Accounts |-> ballots[Gov][p][a].weight]
           For == {a \in Accounts : ballots[Gov][p][a].support = "For"}
           Abstain == {a \in Accounts : ballots[Gov][p][a].support = "Abstain"}
<1>4. \A a \in Accounts : w[a] \in Nat
  <2>1. \A a \in Accounts : ballots[Gov][p][a] \in Ballot
    BY <1>1 DEF TypeOK
  <2> QED BY <2>1 DEF Ballot
<1>5. /\ Treasury \in For /\ w[Treasury] > 0 /\ w[Treasury] >= Quorum(Gov)
  BY <1>1 DEF Power, Alone
<1>6. IsFiniteSet(For) /\ IsFiniteSet(Abstain)
  BY <1>1, FS_Subset
<1>7. Total(For, w) \in Nat /\ w[Treasury] <= Total(For, w)
  BY <1>4, <1>5, <1>6, TotalBound
<1>8. Total(Abstain, w) \in Nat
  BY <1>4, <1>6, AllSlotsFinite
<1>9. Tally(Gov, p, "For") = Total(For, w) /\ Tally(Gov, p, "Abstain") = Total(Abstain, w)
  BY DEF Tally
<1>10. Quorum(Gov) \in Nat
  <2>1. /\ totalSupply \in Nat /\ quorumThreshold[Gov] \in Nat /\ Bsp \in Nat \ {0}
    BY <1>1, GovernorAssumption DEF TypeOK
  <2> QED BY <2>1, TimesIsNat, QuotientFacts DEF Quorum
<1>11. w[Treasury] \in Nat
  BY <1>1, <1>4
<1> HIDE DEF w, For, Abstain
<1> QED BY <1>3, <1>5, <1>7, <1>8, <1>9, <1>10, <1>11 DEF QuorumReached, VoteSucceeded

(***************************************************************************)
(* LockedEnough for any proposals and accounts: the script votes only with *)
(* at least the quorum that it read locked, and nobody but it takes its    *)
(* tokens back, so its own ballot carries each proposal nobody votes       *)
(* against while the supply stays (governance.ts:29-67).                   *)
(***************************************************************************)
THEOREM LockedIsEnough == ClientSpec => []LockedEnough
<1>1. ClientInit => Power
  <2> SUFFICES ASSUME ClientInit PROVE Power
    OBVIOUS
  <2>1. at \notin VotePlaces \cup LockPlaces
    BY DEF ClientInit, VotePlaces, LockPlaces
  <2>2. \A p \in ProposalIds : ~HasVoted(Gov, p, Treasury)
    BY ClientAssumption DEF ClientInit, Init, HasVoted, NoBallot
  <2> QED BY <2>1, <2>2 DEF Power
<1>2. BooksInv /\ ListOK /\ Power /\ [ClientNext]_allVars => Power'
  BY PowerStep
<1>3. BooksInv /\ Power => LockedEnough
  BY PowerDecides
<1> QED BY <1>1, <1>2, <1>3, ClientKnowsItsPlace, PTL DEF ClientSpec
-----------------------------------------------------------------------------
(* What the cleanup task leaves *)

Over(p) == proposals[Gov][p].status \in {"Executed", "Canceled"}

Mine(p) == proposals[Gov][p].creator = Treasury

Events ==
  {"created", "closed", "token"} \X (ProposalIds \cup {NoProposalYet})

(* The mirror node calls closed what is closed. *)
LogTrue ==
  /\ log \in Seq(Events)
  /\ \A i \in DOMAIN log, p \in ProposalIds : log[i] = <<"closed", p>> => Over(p)

(* A proposal that is not there has no creator. *)
NoneUnknown ==
  \A p \in ProposalIds :
    proposals[Gov][p].status = "Unknown" => proposals[Gov][p].creator = ZeroAddress

(* Only live proposals of the client's governor hold tokens. *)
HoldsLive ==
  \A g \in Governors, p \in ProposalIds, v \in Accounts :
    governorProposalVoters[g][p][v] > 0 => g = Gov /\ Live(g, p)

(* The places the client does not leave for another proposal. *)
Ending == {"cleanup", "clean", "cancelOne", "claim", "unlock", "end"}

(* Until then it works with proposals of its own. *)
OwnCurrent == at \notin Ending /\ current # NoProposalYet => Mine(current)

(* What the task has found closed, or has closed. *)
ListClosed ==
  /\ cleanup # "none" => at \in Ending
  /\ at = "clean" => \A p \in listed \ todo : Over(p)
  /\ at = "cancelOne" => \A p \in (listed \ todo) \ {current} : Over(p)
  /\ cleanup = "finished" => \A p \in listed : Over(p)

(* What it claims. *)
Claims == at = "unlock" => known = godTokenForUsers[Treasury]

LedgerTrue == LogTrue /\ NoneUnknown /\ HoldsLive /\ HoldsMatch

CleanupInv == LedgerTrue /\ OwnCurrent /\ ListClosed /\ Claims

(* A step as the bookkeeping and the events see it. *)
LedgerStep ==
  \/ UNCHANGED <<proposals, ballots, governorProposalVoters, activeProposalsForUsers, log>>
  \/ /\ \E a \in Accounts, o \in Accounts, p \in ProposalIds, s \in Supports :
          RecordVote(a, o, Gov, p, s)
     /\ UNCHANGED log
  \/ \E a \in Accounts, p \in ProposalIds :
       CreateProposal(a, Gov, p) /\ log' = Append(log, <<"created", p>>)
  \/ \E a \in Accounts, p \in ProposalIds : ExecuteProposal(p) \/ CancelProposal(a, p)

LEMMA LedgerSteps ==
  ASSUME PlaceOK, ClientNext \/ UNCHANGED allVars
  PROVE  LedgerStep
<1>1. CASE UNCHANGED <<vars, log>>
  BY <1>1 DEF vars, LedgerStep
<1>2. CASE LockForVoting \/ RevertTokens
  <2>1. UNCHANGED log
    BY <1>2 DEF LockForVoting, RevertTokens, books
  <2> QED BY <1>2, <2>1 DEF LockForVoting, RevertTokens, Lock, Unlock,
                GrabTokensFromUser, RevertTokensForVoter, vars, LedgerStep
<1>3. CASE Vote
  <2>1. current \in ProposalIds /\ Treasury \in Accounts /\ "For" \in Supports
    BY <1>3, ClientAssumption DEF Vote, PlaceOK, Supports
  <2>2. RecordVote(Treasury, Treasury, Gov, current, "For") /\ UNCHANGED log
    BY <1>3 DEF Vote, CastVote, books
  <2> QED BY <2>1, <2>2 DEF LedgerStep
<1>4. CASE Propose
  <2>1. agenda[item] \in ProposalIds /\ Treasury \in Accounts
    BY ClientAssumption DEF PlaceOK
  <2>2. /\ CreateProposal(Treasury, Gov, agenda[item])
        /\ log' = Append(log, <<"created", agenda[item]>>)
    BY <1>4 DEF Propose
  <2> QED BY <2>1, <2>2 DEF LedgerStep
<1>5. CASE ExecuteCurrent \/ CancelCurrent \/ CancelOne
  <2>1. current \in ProposalIds
    BY <1>5 DEF ExecuteCurrent, CancelCurrent, CancelOne, PlaceOK
  <2>2. ExecuteProposal(current) \/ CancelProposal(Treasury, current)
    BY <1>5 DEF ExecuteCurrent, CancelCurrent, CancelOne
  <2> QED BY <2>1, <2>2, ClientAssumption DEF LedgerStep
<1>6. CASE AnyoneExecutes
  BY <1>6, ClientAssumption DEF AnyoneExecutes, LedgerStep
<1>7. ASSUME NEW a \in Accounts \ {Treasury}, NEW p \in ProposalIds,
             OtherProposes(a, p) \/ OtherCancels(a, p)
      PROVE  LedgerStep
  BY <1>7 DEF OtherProposes, OtherCancels, LedgerStep
<1>8. CASE OthersAct
  <2>1. UNCHANGED log
    BY <1>8 DEF OthersAct
  <2>2. CASE TokenNext \/ Tick \/ \E a \in Accounts \ {Treasury}, n \in Amounts : Lock(a, n)
    BY <2>1, <2>2 DEF TokenNext, Transfer, Mint, Burn, Tick, Lock, GrabTokensFromUser,
                      LedgerStep
  <2>3. ASSUME NEW a \in Accounts \ {Treasury}, NEW r \in Relayers, NEW p \in Contested,
               NEW s \in {"For", "Against"}, CastVoteBySig(a, r, Gov, p, s)
        PROVE  LedgerStep
    <3>1. r \in Accounts /\ s \in Supports /\ p \in ProposalIds
      BY GovernorAssumption, ClientAssumption DEF Supports
    <3> QED BY <2>1, <2>3, <3>1 DEF CastVoteBySig, LedgerStep
  <2> QED BY <1>8, <2>2, <2>3 DEF OthersAct
<1>9. CASE ~(LockForVoting \/ RevertTokens \/ Vote \/ Propose \/ ExecuteCurrent
             \/ CancelCurrent \/ CancelOne \/ AnyoneExecutes \/ OthersAct
             \/ \E a \in Accounts \ {Treasury}, p \in ProposalIds :
                  OtherProposes(a, p) \/ OtherCancels(a, p))
  <2>1. UNCHANGED <<vars, log>>
    BY <1>9 DEF ClientNext, LockNext, ReadQuorum, SetUpScenarioLock,
         SetupAllowanceForTokenLocking, ItemNext, SetupProposalCreationAllowance,
         PollSucceeded, PollGivesUp, WaitEnds, TransferAssets, ChangeAdmin,
         FetchLastToken, CleanupNext, CheckClaim, ClaimFails, ListProposals, CleanOne,
         AbortCancels, CancelsDone, ErrorNext, ScriptStops, ErrorIsSwallowed,
         ScenarioFails, ChainUnchanged, allVars, clientVars, books
  <2> QED BY <1>1, <2>1
<1> QED BY <1>2, <1>3, <1>4, <1>5, <1>6, <1>7, <1>8, <1>9

(* An execution or a cancel closes a proposal; whose it is does not change.*)
LEMMA Closes ==
  ASSUME TypeInv, NEW a \in Accounts, NEW p \in ProposalIds,
         ExecuteProposal(p) \/ CancelProposal(a, p)
  PROVE  /\ Close(Gov, p)
         /\ \A q \in ProposalIds : Mine(q)' <=> Mine(q)
<1>0. Gov \in Governors
  BY ClientAssumption
<1>1. Close(Gov, p)
  BY <1>0 DEF ExecuteProposal, CancelProposal, Close
<1>2. \A q \in ProposalIds : proposals'[Gov][q].creator = proposals[Gov][q].creator
  <2>1. \E s \in {"Executed", "Canceled"} :
          proposals' = [proposals EXCEPT ![Gov][p].status = s]
    BY <1>1 DEF Close, Cancel, Execute
  <2> QED BY <1>0, <2>1 DEF TypeInv, TypeOK, Proposal
<1> QED BY <1>1, <1>2 DEF Mine

(* It is reported, after the event of a token it created.                  *)
LEMMA Reports ==
  ASSUME LogTrue, NEW a, NEW p \in ProposalIds,
         ExecuteProposal(p) \/ CancelProposal(a, p)
  PROVE  log' \in {Append(log, <<"closed", p>>),
                  Append(Append(log, <<"token", p>>), <<"closed", p>>)}
<1>1. CASE CancelProposal(a, p)
  BY <1>1 DEF CancelProposal
<1>2. CASE ExecuteProposal(p)
  <2>1. log \in Seq(Events) /\ <<"closed", p>> \in Events /\ <<"token", p>> \in Events
    BY DEF LogTrue, Events
  <2>2. CASE Kind[p] = "create"
    <3>1. log' = log \o <<<<"token", p>>>> \o <<<<"closed", p>>>>
      BY <1>2, <2>2 DEF ExecuteProposal
    <3> QED BY <2>1, <3>1
  <2>3. CASE Kind[p] # "create"
    <3>1. log' = log \o <<>> \o <<<<"closed", p>>>>
      BY <1>2, <2>3 DEF ExecuteProposal
    <3> QED BY <2>1, <3>1
  <2> QED BY <2>2, <2>3
<1> QED BY <1>1, <1>2
LEMMA LogAdds ==
  ASSUME NEW s \in Seq(Events), NEW e \in Events
  PROVE  /\ Append(s, e) \in Seq(Events)
         /\ \A i \in DOMAIN Append(s, e) :
              Append(s, e)[i] = e \/ (i \in DOMAIN s /\ Append(s, e)[i] = s[i])
OBVIOUS

(* What is closed stays closed, and an own proposal stays one. *)
LEMMA Fates ==
  ASSUME TypeInv, NoneUnknown, LedgerStep, NEW q \in ProposalIds
  PROVE  /\ Over(q) => Over(q)'
         /\ Mine(q) => Mine(q)'
<1> USE DEF TypeInv, TypeOK, GODHolderTypeOK, TokenHolderTypeOK
<1>0. Gov \in Governors /\ Treasury \in Accounts /\ Treasury # ZeroAddress
  BY ClientAssumption, GovernorAssumption DEF Addresses
<1>1. CASE UNCHANGED proposals
  BY <1>1 DEF Over, Mine
<1>2. ASSUME NEW a \in Accounts, NEW o \in Accounts, NEW p \in ProposalIds,
             NEW s \in Supports, RecordVote(a, o, Gov, p, s)
      PROVE  UNCHANGED proposals
  BY <1>2 DEF RecordVote
<1>3. ASSUME NEW a \in Accounts, NEW p \in ProposalIds, CreateProposal(a, Gov, p)
      PROVE  (Over(q) => Over(q)') /\ (Mine(q) => Mine(q)')
  <2>1. q # p => proposals'[Gov][q] = proposals[Gov][q]
    BY <1>0, <1>3 DEF CreateProposal
  <2>2. ~Over(p) /\ ~Mine(p)
    BY <1>0, <1>3 DEF CreateProposal, Over, Mine, NoneUnknown
  <2> QED BY <2>1, <2>2 DEF Over, Mine
<1>4. ASSUME NEW a \in Accounts, NEW p \in ProposalIds,
             ExecuteProposal(p) \/ CancelProposal(a, p)
      PROVE  (Over(q) => Over(q)') /\ (Mine(q) => Mine(q)')
  <2>1. Close(Gov, p) /\ (Mine(q)' <=> Mine(q))
    BY <1>4, Closes
  <2>2. /\ proposals'[Gov][p].status \in {"Executed", "Canceled"}
        /\ q # p => proposals'[Gov][q] = proposals[Gov][q]
    BY <1>0, <2>1, CloseEffect
  <2> QED BY <2>1, <2>2 DEF Over
<1> QED BY <1>1, <1>2, <1>3, <1>4 DEF LedgerStep

LEMMA LogStep ==
  ASSUME TypeInv, NoneUnknown, LogTrue, LedgerStep
  PROVE  LogTrue'
<1>1. \A q \in ProposalIds : Over(q) => Over(q)'
  BY Fates
<1>2. ASSUME NEW e \in Events,
             \A q \in ProposalIds : e = <<"closed", q>> => Over(q)',
             log' = Append(log, e)
      PROVE  LogTrue'
  <2>1. log \in Seq(Events)
    BY DEF LogTrue
  <2>2. /\ log' \in Seq(Events)
        /\ \A i \in DOMAIN log' : log'[i] = e \/ (i \in DOMAIN log /\ log'[i] = log[i])
    BY <1>2, <2>1, LogAdds
  <2> QED BY <1>1, <1>2, <2>2 DEF LogTrue, Events
<1>3. CASE UNCHANGED log
  BY <1>1, <1>3 DEF LogTrue, Events
<1>4. ASSUME NEW p \in ProposalIds, log' = Append(log, <<"created", p>>)
      PROVE  LogTrue'
  <2>1. <<"created", p>> \in Events
    BY DEF Events
  <2>2. \A q \in ProposalIds : <<"created", p>> # <<"closed", q>>
    OBVIOUS
  <2> QED BY <1>2, <1>4, <2>1, <2>2
<1>5. ASSUME NEW a \in Accounts, NEW p \in ProposalIds,
             ExecuteProposal(p) \/ CancelProposal(a, p)
      PROVE  LogTrue'
  <2>1. /\ Close(Gov, p)
        /\ log' \in {Append(log, <<"closed", p>>),
                     Append(Append(log, <<"token", p>>), <<"closed", p>>)}
    BY <1>5, Closes, Reports
  <2>2. Over(p)'
    BY <2>1, CloseEffect, ClientAssumption DEF Over, TypeInv
  <2>3. <<"closed", p>> \in Events /\ <<"token", p>> \in Events
    BY DEF Events
  <2>4. \A q \in ProposalIds : <<"closed", p>> = <<"closed", q>> => q = p
    OBVIOUS
  <2>5. CASE log' = Append(log, <<"closed", p>>)
    BY <1>2, <2>2, <2>3, <2>4, <2>5
  <2>6. CASE log' = Append(Append(log, <<"token", p>>), <<"closed", p>>)
    <3>1. log \in Seq(Events)
      BY DEF LogTrue
    <3>2. PICK s : s = Append(log, <<"token", p>>)
      OBVIOUS
    <3>3. /\ s \in Seq(Events)
          /\ \A i \in DOMAIN s : s[i] = <<"token", p>> \/ (i \in DOMAIN log /\ s[i] = log[i])
      BY <2>3, <3>1, <3>2, LogAdds
    <3>4. log' = Append(s, <<"closed", p>>)
      BY <2>6, <3>2
    <3>5. /\ log' \in Seq(Events)
          /\ \A i \in DOMAIN log' :
               log'[i] = <<"closed", p>> \/ (i \in DOMAIN s /\ log'[i] = s[i])
      BY <2>3, <3>3, <3>4, LogAdds
    <3>6. \A q \in ProposalIds : <<"token", p>> # <<"closed", q>>
      OBVIOUS
    <3> QED BY <1>1, <2>2, <2>4, <3>3, <3>5, <3>6 DEF LogTrue, Events
  <2> QED BY <2>1, <2>5, <2>6
<1> QED BY <1>3, <1>4, <1>5 DEF LedgerStep

LEMMA HoldsStep ==
  ASSUME TypeInv, HoldsLive, HoldsMatch, LedgerStep
  PROVE  HoldsLive' /\ HoldsMatch'
<1>0. Gov \in Governors
  BY ClientAssumption
<1>1. CASE UNCHANGED <<proposals, ballots, governorProposalVoters,
                       activeProposalsForUsers, log>>
  BY <1>1 DEF HoldsLive, HoldsMatch, Live
<1>2. ASSUME NEW a \in Accounts, NEW o \in Accounts, NEW p \in ProposalIds,
             NEW s \in Supports, RecordVote(a, o, Gov, p, s)
      PROVE  HoldsLive' /\ HoldsMatch'
  <2>1. HoldsMatch'
    BY <1>0, <1>2, VoteHolds DEF RecordVote, TypeInv
  <2>2. Live(Gov, p) /\ UNCHANGED proposals
    BY <1>0, <1>2, StateIsLive DEF RecordVote, VotingOpen, TypeInv
  <2>3. \A g \in Governors, q \in ProposalIds, v \in Accounts :
          <<g, q, v>> # <<Gov, p, o>> =>
            governorProposalVoters'[g][q][v] = governorProposalVoters[g][q][v]
    BY <1>0, <1>2 DEF RecordVote, AddProposalForVoter, TypeInv, TypeOK, GODHolderTypeOK,
                      TokenHolderTypeOK
  <2> QED BY <2>1, <2>2, <2>3 DEF HoldsLive, Live
<1>3. ASSUME NEW a \in Accounts, NEW p \in ProposalIds, CreateProposal(a, Gov, p)
      PROVE  HoldsLive' /\ HoldsMatch'
  <2>1. UNCHANGED <<governorProposalVoters, activeProposalsForUsers>>
    BY <1>3 DEF CreateProposal
  <2>2. \A q \in ProposalIds : Live(Gov, q) => Live(Gov, q)'
    BY <1>0, <1>3 DEF CreateProposal, Live, TypeInv, TypeOK
  <2> QED BY <2>1, <2>2 DEF HoldsLive, HoldsMatch
<1>4. ASSUME NEW a \in Accounts, NEW p \in ProposalIds,
             ExecuteProposal(p) \/ CancelProposal(a, p)
      PROVE  HoldsLive' /\ HoldsMatch'
  <2>1. Close(Gov, p) /\ RemoveActiveProposals(Gov, p)
    BY <1>4, Closes DEF Close, Cancel, Execute, Cleanup
  <2>2. HoldsMatch'
    BY <1>0, <2>1, CleanupHolds DEF TypeInv
  <2>3. \A g \in Governors, q \in ProposalIds :
          <<g, q>> # <<Gov, p>> =>
            /\ proposals'[g][q] = proposals[g][q]
            /\ governorProposalVoters'[g][q] = governorProposalVoters[g][q]
    BY <1>0, <2>1, CloseEffect DEF TypeInv
  <2>4. \A v \in Accounts : governorProposalVoters'[Gov][p][v] = 0
    BY <1>0, <2>1 DEF RemoveActiveProposals, TypeInv, TypeOK, GODHolderTypeOK,
                      TokenHolderTypeOK
  <2> QED BY <2>2, <2>3, <2>4 DEF HoldsLive, Live
<1> QED BY <1>1, <1>2, <1>3, <1>4 DEF LedgerStep

LEMMA UnknownStep ==
  ASSUME TypeInv, NoneUnknown, LedgerStep
  PROVE  NoneUnknown'
<1>0. Gov \in Governors
  BY ClientAssumption
<1>1. CASE UNCHANGED proposals
  BY <1>1 DEF NoneUnknown
<1>2. ASSUME NEW a \in Accounts, NEW o \in Accounts, NEW p \in ProposalIds,
             NEW s \in Supports, RecordVote(a, o, Gov, p, s)
      PROVE  UNCHANGED proposals
  BY <1>2 DEF RecordVote
<1>3. ASSUME NEW a \in Accounts, NEW p \in ProposalIds, CreateProposal(a, Gov, p)
      PROVE  NoneUnknown'
  <2>1. \A q \in ProposalIds \ {p} : proposals'[Gov][q] = proposals[Gov][q]
    BY <1>0, <1>3 DEF CreateProposal, TypeInv, TypeOK
  <2>2. proposals'[Gov][p].status = "Open"
    BY <1>0, <1>3 DEF CreateProposal, TypeInv, TypeOK
  <2> QED BY <2>1, <2>2 DEF NoneUnknown
<1>4. ASSUME NEW a \in Accounts, NEW p \in ProposalIds,
             ExecuteProposal(p) \/ CancelProposal(a, p)
      PROVE  NoneUnknown'
  <2>1. Close(Gov, p)
    BY <1>4, Closes
  <2>2. /\ proposals'[Gov][p].status \in {"Executed", "Canceled"}
        /\ \A q \in ProposalIds \ {p} : proposals'[Gov][q] = proposals[Gov][q]
    BY <1>0, <2>1, CloseEffect DEF TypeInv
  <2> QED BY <2>1, <2>2 DEF NoneUnknown
<1> QED BY <1>1, <1>2, <1>3, <1>4 DEF LedgerStep

LEMMA LedgerTrueStep ==
  ASSUME BooksInv, LedgerTrue, OwnCurrent, ClientNext \/ UNCHANGED allVars
  PROVE  LedgerTrue'
<1>1. LedgerStep /\ TypeInv
  BY LedgerSteps DEF BooksInv
<1> QED BY <1>1, LogStep, HoldsStep, UnknownStep DEF LedgerTrue
LEMMA EndingStays ==
  ASSUME PlaceOK, ClientNext \/ UNCHANGED allVars
  PROVE  /\ at \in Ending => at' \in Ending
         /\ at' \notin Ending => Propose \/ current' = current
<1>1. CASE LockNext
  BY <1>1 DEF LockNext, ReadQuorum, SetUpScenarioLock, SetupAllowanceForTokenLocking,
              LockForVoting, memory, Ending
<1>2. CASE ItemNext
  BY <1>2 DEF ItemNext, SetupProposalCreationAllowance, Propose, Vote, PollSucceeded,
              PollGivesUp, WaitEnds, TransferAssets, ChangeAdmin, ExecuteCurrent,
              CancelCurrent, FetchLastToken, memory, Ending
<1>3. CASE CleanupNext
  BY <1>3 DEF CleanupNext, CheckClaim, RevertTokens, ClaimFails, ListProposals,
              CleanOne, CancelOne, AbortCancels, CancelsDone, Ending
<1>4. CASE ErrorNext
  BY <1>4 DEF ErrorNext, ScriptStops, ErrorIsSwallowed, ScenarioFails, memory, Ending
<1>5. CASE OthersNext \/ UNCHANGED allVars
  <2>1. UNCHANGED <<at, current>>
    BY <1>5 DEF OthersNext, AnyoneExecutes, OtherProposes, OtherCancels, OthersAct, OthersUnchanged,
                allVars, clientVars, place, memory
  <2> QED BY <2>1 DEF Ending
<1> QED BY <1>1, <1>2, <1>3, <1>4, <1>5 DEF ClientNext, OthersNext

LEMMA OwnStep ==
  ASSUME BooksInv, LedgerTrue, OwnCurrent, ClientNext \/ UNCHANGED allVars
  PROVE  OwnCurrent'
<1> SUFFICES ASSUME at' \notin Ending, current' # NoProposalYet PROVE Mine(current)'
  BY DEF OwnCurrent, Ending
<1>1. at \notin Ending /\ (Propose \/ current' = current)
  BY EndingStays DEF BooksInv
<1>2. CASE Propose
  <2>1. /\ agenda[item] \in ProposalIds /\ current' = agenda[item]
        /\ CreateProposal(Treasury, Gov, agenda[item])
    BY <1>2 DEF Propose, BooksInv, PlaceOK
  <2> QED BY <2>1, ClientAssumption DEF CreateProposal, Mine, BooksInv, TypeInv, TypeOK
<1>3. CASE current' = current
  <2>1. Mine(current) /\ current \in ProposalIds
    BY <1>1, <1>3 DEF OwnCurrent, BooksInv, PlaceOK
  <2>2. LedgerStep /\ TypeInv /\ NoneUnknown
    BY LedgerSteps DEF BooksInv, LedgerTrue
  <2>3. Mine(current) => proposals'[Gov][current].creator = Treasury
    BY <2>1, <2>2, Fates DEF Mine
  <2> QED BY <1>3, <2>1, <2>3 DEF Mine
<1> QED BY <1>1, <1>2, <1>3

LEMMA NoCancelIsOver ==
  ASSUME TypeInv, NEW p \in ProposalIds, NeedsNoCancel(p)
  PROVE  Over(p)
<1>1. /\ proposals[Gov][p] \in Proposal /\ now \in Nat
      /\ State(Gov, p) \in {"Canceled", "Executed"}
  BY ClientAssumption DEF TypeInv, TypeOK, NeedsNoCancel
<1>2. proposals[Gov][p].voteStart \in Nat /\ proposals[Gov][p].voteEnd \in Nat
  BY <1>1 DEF Proposal
<1>3. CASE ~Live(Gov, p)
  <2>1. State(Gov, p) = proposals[Gov][p].status
    BY <1>3 DEF State, Live
  <2> QED BY <1>1, <2>1 DEF Over
<1>4. ASSUME Live(Gov, p) PROVE FALSE
  <2>1. CASE now <= proposals[Gov][p].voteStart
    <3>1. State(Gov, p) = "Pending"
      BY <1>1, <1>2, <1>4, <2>1 DEF State, Live
    <3> QED BY <1>1, <3>1
  <2>2. CASE proposals[Gov][p].voteStart < now /\ now <= proposals[Gov][p].voteEnd
    <3>1. State(Gov, p) = "Active"
      BY <1>1, <1>2, <1>4, <2>2 DEF State, Live
    <3> QED BY <1>1, <3>1
  <2>3. CASE proposals[Gov][p].voteStart < now /\ proposals[Gov][p].voteEnd < now
    <3>1. State(Gov, p) = Verdict(Gov, p)
      BY <1>4, <2>3, EndedVerdict, ClientAssumption DEF Ended, TypeInv
    <3> QED BY <1>1, <3>1 DEF Verdict
  <2> QED BY <1>1, <1>2, <2>1, <2>2, <2>3
<1> QED BY <1>3, <1>4

(* Only the cleanup task moves through its list. *)
LEMMA ListStays ==
  ASSUME PlaceOK, ClientNext \/ UNCHANGED allVars,
         ~(ListProposals \/ CleanOne \/ CancelOne \/ AbortCancels \/ CancelsDone)
  PROVE  /\ UNCHANGED <<listed, todo, cleanup>>
         /\ at' \in {"clean", "cancelOne"} => at' = at /\ current' = current
<1>1. ASSUME AfterItem PROVE at' \in {"allow", "claim", "cleanup"}
  BY <1>1 DEF AfterItem
<1>2. ASSUME NextStep,
             at \in {"allow", "propose", "vote", "poll", "fund", "handOver", "execute"}
      PROVE  at' \notin {"clean", "cancelOne"}
  BY <1>1, <1>2, FlowSteps
<1>3. CASE LockNext
  BY <1>3 DEF LockNext, ReadQuorum, SetUpScenarioLock, SetupAllowanceForTokenLocking,
              LockForVoting, cleanupVars
<1>4. CASE ItemNext
  <2>1. UNCHANGED cleanupVars
    BY <1>4 DEF ItemNext, SetupProposalCreationAllowance, Propose, Vote, PollSucceeded,
                PollGivesUp, WaitEnds, TransferAssets, ChangeAdmin, ExecuteCurrent,
                CancelCurrent, FetchLastToken
  <2>2. CASE PollGivesUp \/ CancelCurrent \/ FetchLastToken
    BY <1>1, <2>1, <2>2 DEF PollGivesUp, CancelCurrent, FetchLastToken, cleanupVars
  <2>3. CASE ~(PollGivesUp \/ CancelCurrent \/ FetchLastToken)
    <3>1. NextStep /\ at \in {"allow", "propose", "vote", "poll", "fund", "handOver",
                              "execute"}
      BY <1>4, <2>3
         DEF ItemNext, SetupProposalCreationAllowance, Propose, Vote, PollSucceeded,
             WaitEnds, TransferAssets, ChangeAdmin, ExecuteCurrent
    <3> QED BY <1>2, <2>1, <3>1 DEF cleanupVars
  <2> QED BY <2>2, <2>3
<1>5. CASE CleanupNext
  BY <1>5 DEF CleanupNext, CheckClaim, RevertTokens, ClaimFails, cleanupVars
<1>6. CASE ErrorNext
  <2>1. UNCHANGED cleanupVars
    BY <1>6 DEF ErrorNext, ScriptStops, ErrorIsSwallowed, ScenarioFails
  <2>2. at' \notin {"clean", "cancelOne"}
    BY <1>1, <1>2, <1>6 DEF ErrorNext, ScriptStops, ErrorIsSwallowed, ScenarioFails
  <2> QED BY <2>1, <2>2 DEF cleanupVars
<1>7. CASE OthersNext \/ UNCHANGED allVars
  BY <1>7 DEF OthersNext, AnyoneExecutes, OtherProposes, OtherCancels, OthersAct, OthersUnchanged,
              allVars, clientVars, place, memory, cleanupVars
<1> QED BY <1>3, <1>4, <1>5, <1>6, <1>7 DEF ClientNext, OthersNext

LEMMA ListClosedStep ==
  ASSUME BooksInv, ListOK, LedgerTrue, ListClosed,
         listed \subseteq ProposalIds, ClientNext \/ UNCHANGED allVars
  PROVE  ListClosed' /\ listed' \subseteq ProposalIds
<1>1. \A p \in ProposalIds : Over(p) => Over(p)'
  <2>1. LedgerStep /\ TypeInv /\ NoneUnknown
    BY LedgerSteps DEF BooksInv, LedgerTrue
  <2> QED BY <2>1, Fates
<1>2. at \in Ending => at' \in Ending
  BY EndingStays DEF BooksInv
<1>3. CASE ListProposals
  <2>1. PICK n \in 0 .. Len(log) : /\ listed' = Seen(n, "created")
                                   /\ todo' = Seen(n, "created") \ Seen(n, "closed")
    BY <1>3 DEF ListProposals
  <2>2. \A p \in Seen(n, "closed") : Over(p)
    <3>1. log \in Seq(Events)
      BY DEF LedgerTrue, LogTrue
    <3>2. \A i \in 1 .. n : i \in DOMAIN log
      BY <3>1
    <3> QED BY <3>2 DEF Seen, LedgerTrue, LogTrue
  <2>3. \A p \in listed' \ todo' : Over(p)'
    BY <1>1, <2>1, <2>2 DEF Seen
  <2>4. listed' \subseteq ProposalIds
    BY <2>1 DEF Seen
  <2> QED BY <1>3, <2>3, <2>4 DEF ListProposals, ListClosed, Ending, Over
<1>4. CASE CleanOne
  <2>1. PICK p \in todo :
          /\ todo' = todo \ {p}
          /\ IF NeedsNoCancel(p) THEN at' = at /\ current' = current
                                 ELSE at' = "cancelOne" /\ current' = p
    BY <1>4 DEF CleanOne
  <2>2. at = "clean" /\ UNCHANGED <<listed, cleanup>> /\ p \in ProposalIds
    BY <1>4, <2>1 DEF CleanOne, ListOK
  <2>3. NeedsNoCancel(p) => Over(p)
    BY <2>2, NoCancelIsOver DEF BooksInv
  <2>4. \A q \in listed \ todo : Over(q)'
    BY <1>1, <2>2 DEF ListClosed
  <2>5. cleanup = "finished" => \A q \in listed : Over(q)'
    BY <1>1 DEF ListClosed
  <2> QED BY <1>1, <2>1, <2>2, <2>3, <2>4, <2>5 DEF ListClosed, Ending, Over
<1>5. CASE CancelOne
  <2>1. /\ at = "cancelOne" /\ CancelProposal(Treasury, current) /\ at' = "clean"
        /\ UNCHANGED <<current, listed, todo, cleanup>> /\ current \in ProposalIds
    BY <1>5 DEF CancelOne, memory, cleanupVars, BooksInv, PlaceOK
  <2>2. Over(current)'
    <3>1. Close(Gov, current)
      BY <2>1, Closes, ClientAssumption DEF BooksInv, LedgerTrue
    <3>2. proposals'[Gov][current].status \in {"Executed", "Canceled"}
      BY <2>1, <3>1, CloseEffect, ClientAssumption DEF BooksInv, TypeInv
    <3> QED BY <2>1, <3>2 DEF Over
  <2>3. \A q \in (listed \ todo) \ {current} : Over(q)'
    BY <1>1, <2>1 DEF ListClosed
  <2>4. cleanup = "finished" => \A q \in listed : Over(q)'
    BY <1>1 DEF ListClosed
  <2> QED BY <2>1, <2>2, <2>3, <2>4 DEF ListClosed, Ending, Over
<1>6. CASE AbortCancels
  BY <1>6 DEF AbortCancels, ListClosed, Ending
<1>7. CASE CancelsDone
  <2>1. /\ at = "clean" /\ todo = {} /\ at' = "claim"
        /\ UNCHANGED listed /\ cleanup' = "finished"
    BY <1>7 DEF CancelsDone
  <2>2. \A q \in listed : Over(q)'
    BY <1>1, <2>1 DEF ListClosed
  <2> QED BY <2>1, <2>2 DEF ListClosed, Ending, Over
<1>8. CASE ~(ListProposals \/ CleanOne \/ CancelOne \/ AbortCancels \/ CancelsDone)
  <2>1. /\ UNCHANGED <<listed, todo, cleanup>>
        /\ at' \in {"clean", "cancelOne"} => at' = at /\ current' = current
    BY <1>8, ListStays DEF BooksInv
  <2>2. at = "clean" => \A q \in listed \ todo : Over(q)'
    BY <1>1 DEF ListClosed
  <2>3. at = "cancelOne" => \A q \in (listed \ todo) \ {current} : Over(q)'
    BY <1>1 DEF ListClosed
  <2>4. cleanup = "finished" => \A q \in listed : Over(q)'
    BY <1>1 DEF ListClosed
  <2>5. cleanup # "none" => at' \in Ending
    BY <1>2 DEF ListClosed
  <2> QED BY <2>1, <2>2, <2>3, <2>4, <2>5 DEF ListClosed, Ending, Over
<1> QED BY <1>3, <1>4, <1>5, <1>6, <1>7, <1>8
(* A voter that is held is held by a live proposal of the governor.        *)
LEMMA HeldByLive ==
  ASSUME TypeInv, HoldsLive, HoldsMatch, NEW a \in Accounts, ~HasNoActiveProposals(a)
  PROVE  \E p \in ProposalIds : /\ governorProposalVoters[Gov][p][a] > 0
                                /\ activeProposalsForUsers[a][p] > 0
                                /\ Live(Gov, p)
<1> USE DEF TypeInv, TypeOK, GODHolderTypeOK, TokenHolderTypeOK
<1>1. PICK p \in ProposalIds : activeProposalsForUsers[a][p] # 0
  BY DEF HasNoActiveProposals
<1>2. activeProposalsForUsers[a][p] = Total(Governors, Entries(a, p))
  BY DEF HoldsMatch, Entries
<1>3. ~\A g \in Governors : Entries(a, p)[g] = 0
  <2> SUFFICES ASSUME \A g \in Governors : Entries(a, p)[g] = 0 PROVE FALSE
    OBVIOUS
  <2>1. Total(Governors, Entries(a, p)) = 0
    BY TotalZero
  <2> QED BY <1>1, <1>2, <2>1
<1>4. PICK g \in Governors : governorProposalVoters[g][p][a] # 0
  BY <1>3 DEF Entries
<1>5. governorProposalVoters[g][p][a] \in Nat /\ activeProposalsForUsers[a][p] \in Nat
  OBVIOUS
<1>6. governorProposalVoters[g][p][a] > 0 /\ activeProposalsForUsers[a][p] > 0
  BY <1>1, <1>4, <1>5
<1>7. g = Gov /\ Live(Gov, p)
  BY <1>6 DEF HoldsLive
<1> QED BY <1>6, <1>7

LEMMA EndArrives ==
  ASSUME PlaceOK, ClientNext \/ UNCHANGED allVars, at' \in {"unlock", "end"}
  PROVE  \/ CheckClaim \/ RevertTokens \/ ClaimFails \/ FetchLastToken
         \/ UNCHANGED <<at, known, listed, cleanup>>
<1>1. ASSUME AfterItem PROVE FALSE
  BY <1>1 DEF AfterItem
<1>2. ASSUME NextStep,
             at \in {"allow", "propose", "vote", "poll", "fund", "handOver", "execute"}
      PROVE  FALSE
  BY <1>1, <1>2, FlowSteps
<1>3. ~LockNext
  BY DEF LockNext, ReadQuorum, SetUpScenarioLock, SetupAllowanceForTokenLocking,
         LockForVoting
<1>4. ~ErrorNext
  BY <1>1, <1>2 DEF ErrorNext, ScriptStops, ErrorIsSwallowed, ScenarioFails
<1>5. ItemNext => FetchLastToken
  BY <1>1, <1>2
     DEF ItemNext, SetupProposalCreationAllowance, Propose, Vote, PollSucceeded,
         WaitEnds, TransferAssets, ChangeAdmin, ExecuteCurrent, PollGivesUp, CancelCurrent
<1>6. CleanupNext => CheckClaim \/ RevertTokens \/ ClaimFails
  BY DEF CleanupNext, ListProposals, CleanOne, CancelOne, AbortCancels, CancelsDone
<1>7. CASE OthersNext \/ UNCHANGED allVars
  BY <1>7 DEF OthersNext, AnyoneExecutes, OtherProposes, OtherCancels, OthersAct, OthersUnchanged,
              allVars, clientVars, place, memory, cleanupVars
<1> QED BY <1>3, <1>4, <1>5, <1>6, <1>7 DEF ClientNext, OthersNext

LEMMA ClaimsStep ==
  ASSUME BooksInv, Claims, ClientNext \/ UNCHANGED allVars
  PROVE  Claims'
<1>1. ASSUME at' = "unlock" PROVE known' = godTokenForUsers'[Treasury]
  <2>1. CASE CheckClaim
    BY <2>1 DEF CheckClaim, ChainUnchanged, vars, BalanceOfVoter
  <2>2. CASE UNCHANGED <<at, known, listed, cleanup>>
    <3>1. at = "unlock" /\ ~LockForVoting /\ ~RevertTokens
      BY <1>1, <2>2 DEF LockForVoting, RevertTokens
    <3>2. godTokenForUsers'[Treasury] = godTokenForUsers[Treasury]
      BY <3>1, PowerMoves
    <3> QED BY <2>2, <3>1, <3>2 DEF Claims
  <2>3. CASE RevertTokens \/ ClaimFails \/ FetchLastToken
    BY <1>1, <2>3 DEF RevertTokens, ClaimFails, FetchLastToken, AfterItem
  <2> QED BY <1>1, <2>1, <2>2, <2>3, EndArrives DEF BooksInv
<1> QED BY <1>1 DEF Claims

LEMMA CleanupStart ==
  ASSUME ClientInit
  PROVE  CleanupInv
<1>1. Treasury \in Accounts /\ Gov \in Governors /\ Treasury # ZeroAddress
  BY ClientAssumption, GovernorAssumption DEF Addresses
<1>2. \A p \in ProposalIds :
        /\ proposals[Gov][p].status = "Unknown"
        /\ proposals[Gov][p].creator = ZeroAddress
  BY <1>1 DEF ClientInit, Init, NoProposal
<1>3. NoneUnknown
  BY <1>2 DEF NoneUnknown
<1>4. HoldsLive /\ HoldsMatch
  <2>1. Init
    BY DEF ClientInit
  <2>2. HoldsLive
    BY <2>1 DEF Init, GODHolderInit, TokenHolderInit, HoldsLive
  <2> QED BY <2>1, <2>2, InitHolds
<1>5. LogTrue
  <2>1. <<"token", NoProposalYet>> \in Events
    BY DEF Events
  <2>2. log = [t \in 1 .. EarlierTokens |-> <<"token", NoProposalYet>>]
    BY DEF ClientInit
  <2>3. log \in Seq(Events)
    BY <2>1, <2>2, AssetsHolderAssumption
  <2>4. \A i \in DOMAIN log, p \in ProposalIds : log[i] # <<"closed", p>>
    BY <2>2
  <2> QED BY <2>3, <2>4 DEF LogTrue
<1>6. OwnCurrent /\ ListClosed /\ Claims
  BY DEF ClientInit, OwnCurrent, ListClosed, Claims, Ending
<1> QED BY <1>3, <1>4, <1>5, <1>6 DEF CleanupInv, LedgerTrue

(* The last step of a task that listed all of the client's proposals. *)
LEMMA CleanupEnds ==
  ASSUME BooksInv, CleanupInv, ClientNext \/ UNCHANGED allVars,
         cleanup = "finished", OwnProposals \subseteq listed, at # "end", at' = "end"
  PROVE  /\ \A p \in OwnProposals : ~Live(Gov, p)'
         /\ godTokenForUsers'[Treasury] > 0 => HeldByOthers'
<1>0. /\ Gov \in Governors /\ Treasury \in Accounts
      /\ godTokenForUsers[Treasury] \in Nat /\ known \in Nat
  BY ClientAssumption DEF BooksInv, PlaceOK, TypeInv, TypeOK, GODHolderTypeOK
<1>1. \A p \in OwnProposals : Over(p)
  BY DEF CleanupInv, ListClosed
<1>2. \A p \in OwnProposals : ~Live(Gov, p)'
  <2>1. LedgerStep /\ TypeInv /\ NoneUnknown
    BY LedgerSteps DEF BooksInv, CleanupInv, LedgerTrue
  <2>2. \A p \in OwnProposals : Over(p)'
    BY <1>1, <2>1, Fates DEF OwnProposals
  <2> QED BY <2>2 DEF Over, Live
<1>3. ASSUME UNCHANGED vars, ~HasNoActiveProposals(Treasury) PROVE HeldByOthers'
  <2>1. PICK p \in ProposalIds : activeProposalsForUsers[Treasury][p] > 0 /\ Live(Gov, p)
    BY <1>0, <1>3, HeldByLive DEF BooksInv, CleanupInv, LedgerTrue
  <2>2. HeldByOthers
    BY <1>1, <2>1 DEF HeldByOthers, Over, Live
  <2> QED BY <1>3, <2>2 DEF HeldByOthers, OwnProposals, Live, vars
<1>4. CASE CheckClaim
  BY <1>2, <1>3, <1>4 DEF CheckClaim, ChainUnchanged
<1>5. CASE RevertTokens
  <2>1. at = "unlock" /\ Unlock(Treasury, known)
    BY <1>5 DEF RevertTokens
  <2>2. godTokenForUsers'[Treasury] = godTokenForUsers[Treasury] - known
    BY <1>0, <2>1 DEF Unlock, RevertTokensForVoter, BooksInv, TypeInv, TypeOK,
                      GODHolderTypeOK
  <2> QED BY <1>0, <1>2, <2>1, <2>2 DEF CleanupInv, Claims
<1>6. CASE ClaimFails
  <2>1. /\ at = "unlock" /\ UNCHANGED vars
        /\ known = 0 \/ ~HasNoActiveProposals(Treasury)
    BY <1>6 DEF ClaimFails, ChainUnchanged
  <2>2. godTokenForUsers'[Treasury] = known
    BY <2>1 DEF CleanupInv, Claims, vars
  <2> QED BY <1>2, <1>3, <2>1, <2>2
<1>7. ~FetchLastToken
  BY DEF FetchLastToken, CleanupInv, ListClosed, Ending
<1> QED BY <1>4, <1>5, <1>6, <1>7, EndArrives DEF BooksInv

(***************************************************************************)
(* CleanupFrees for any proposals, accounts and lag of the mirror node: a  *)
(* task that ends without an abort has closed all that it listed, whoever  *)
(* voted, executed and canceled in between, and what it could not claim    *)
(* was held, when it tried, by an open proposal of somebody else           *)
(* (HederaGovernor.ts:556-592, GodHolder.ts:46-54).                        *)
(***************************************************************************)
THEOREM CleanupLeavesNothing == ClientSpec => CleanupFrees
<1>1. ClientInit => CleanupInv /\ listed \subseteq ProposalIds
  <2>1. ClientInit => listed \subseteq ProposalIds
    BY DEF ClientInit
  <2> QED BY <2>1, CleanupStart
<1>2. BooksInv /\ ListOK /\ CleanupInv /\ listed \subseteq ProposalIds
        /\ [ClientNext]_allVars => (CleanupInv /\ listed \subseteq ProposalIds)'
  <2> SUFFICES ASSUME BooksInv, ListOK, CleanupInv, listed \subseteq ProposalIds,
                      ClientNext \/ UNCHANGED allVars
               PROVE  CleanupInv' /\ listed' \subseteq ProposalIds
    OBVIOUS
  <2>1. LedgerTrue' /\ OwnCurrent' /\ ListClosed' /\ listed' \subseteq ProposalIds
    BY LedgerTrueStep, OwnStep, ListClosedStep DEF CleanupInv
  <2>2. Claims'
    BY ClaimsStep DEF CleanupInv
  <2> QED BY <2>1, <2>2 DEF CleanupInv
<1>3. BooksInv /\ CleanupInv /\ [ClientNext]_allVars =>
        [/\ cleanup = "finished" /\ OwnProposals \subseteq listed
         /\ at # "end" /\ at' = "end"
         => /\ \A p \in OwnProposals : ~Live(Gov, p)'
            /\ godTokenForUsers'[Treasury] > 0 => HeldByOthers']_allVars
  BY CleanupEnds
<1> QED BY <1>1, <1>2, <1>3, ClientKnowsItsPlace, PTL DEF ClientSpec, CleanupFrees
-----------------------------------------------------------------------------
(* The client is a user of the contracts like any other                    *)

(* What HederaGovernorProofs shows, where users lock and unlock any amount.*)
Chain == INSTANCE HederaGovernorProofs WITH Amounts <- Nat

LEMMA ChainSame ==
  /\ Chain!vars = vars /\ Chain!Supports = Supports
  /\ Chain!Init <=> Init
  /\ \A a, n : Chain!Lock(a, n) <=> Lock(a, n)
  /\ \A a, n : Chain!Unlock(a, n) <=> Unlock(a, n)
  /\ \A a, b, n : Chain!Transfer(a, b, n) <=> Transfer(a, b, n)
  /\ \A a : (Chain!Mint(a) <=> Mint(a)) /\ (Chain!Burn(a) <=> Burn(a))
  /\ \A a, g, p : Chain!CreateProposal(a, g, p) <=> CreateProposal(a, g, p)
  /\ \A a, g, p, s : Chain!CastVote(a, g, p, s) <=> CastVote(a, g, p, s)
  /\ \A a, r, g, p, s : Chain!CastVoteBySig(a, r, g, p, s) <=> CastVoteBySig(a, r, g, p, s)
  /\ \A a, g, p : Chain!Cancel(a, g, p) <=> Cancel(a, g, p)
  /\ \A g, p : Chain!Execute(g, p) <=> Execute(g, p)
  /\ Chain!Tick <=> Tick
<1> USE DEF Chain!Transferable, Transferable, Chain!Moved, Moved, Chain!Cardinality, Cardinality,
        Chain!CanEmitVotingInformation, CanEmitVotingInformation,
        Chain!QuorumDefined, QuorumDefined, Chain!BalanceOfVoter, BalanceOfVoter
<1>1. Chain!vars = vars /\ Chain!Supports = Supports
  BY DEF Chain!vars, vars, Chain!Supports, Supports
<1>2. Chain!Init <=> Init
  BY DEF Chain!Init, Init, Chain!GODHolderInit, GODHolderInit, Chain!TokenHolderInit,
         TokenHolderInit, Chain!NoProposal, NoProposal, Chain!NoBallot, NoBallot,
         Chain!StoredThreshold, StoredThreshold, Chain!Addresses, Addresses
<1>3. \A a, n : Chain!Lock(a, n) <=> Lock(a, n)
  BY DEF Chain!Lock, Lock, Chain!GrabTokensFromUser, GrabTokensFromUser
<1>4. \A a, n : Chain!Unlock(a, n) <=> Unlock(a, n)
  BY DEF Chain!Unlock, Unlock, Chain!RevertTokensForVoter, RevertTokensForVoter,
         Chain!HasNoActiveProposals, HasNoActiveProposals, Chain!HasLocked, HasLocked
<1>5. \A a, b, n : Chain!Transfer(a, b, n) <=> Transfer(a, b, n)
  BY DEF Chain!Transfer, Transfer
<1>6. \A a : (Chain!Mint(a) <=> Mint(a)) /\ (Chain!Burn(a) <=> Burn(a))
  BY DEF Chain!Mint, Mint, Chain!Burn, Burn
<1>7. \A a, g, p : Chain!CreateProposal(a, g, p) <=> CreateProposal(a, g, p)
  BY DEF Chain!CreateProposal, CreateProposal
<1>8. Chain!Tick <=> Tick
  BY DEF Chain!Tick, Tick
<1>9. \A S, f : Chain!Total(S, f) = Total(S, f)
  BY DEF Chain!Total, Total, Chain!AllSlots, AllSlots, Chain!Slots, Slots
<1>10. \A g, p : Chain!State(g, p) = State(g, p)
  <2>1. \A g, p, s : Chain!Tally(g, p, s) = Tally(g, p, s)
    BY <1>9 DEF Chain!Tally, Tally
  <2>2. \A g, p : /\ Chain!QuorumReached(g, p) <=> QuorumReached(g, p)
                  /\ Chain!VoteSucceeded(g, p) <=> VoteSucceeded(g, p)
    BY <2>1 DEF Chain!QuorumReached, QuorumReached, Chain!VoteSucceeded, VoteSucceeded,
                Chain!Quorum, Quorum
  <2> QED BY <2>2 DEF Chain!State, State, Chain!Live, Live
<1>11. \A a, o, g, p, s : Chain!RecordVote(a, o, g, p, s) <=> RecordVote(a, o, g, p, s)
  BY <1>10 DEF Chain!RecordVote, RecordVote, Chain!VotingOpen, VotingOpen, Chain!HasVoted,
               HasVoted, Chain!AddProposalForVoter, AddProposalForVoter,
               Chain!CallerHoldsToken, CallerHoldsToken
<1>12. \A g, p : Chain!Cleanup(g, p) <=> Cleanup(g, p)
  BY DEF Chain!Cleanup, Cleanup, Chain!RemoveActiveProposals, RemoveActiveProposals,
         Chain!CallerHoldsToken, CallerHoldsToken, Chain!Monus, Monus
<1>13. \A a, g, p : Chain!Cancel(a, g, p) <=> Cancel(a, g, p)
  BY <1>10, <1>12 DEF Chain!Cancel, Cancel, Chain!Cancellable, Cancellable
<1>14. \A g, p : Chain!Execute(g, p) <=> Execute(g, p)
  BY <1>10, <1>12 DEF Chain!Execute, Execute, Chain!ProposalCalls, ProposalCalls,
                      Chain!StoredThreshold, StoredThreshold
<1>15. \A a, g, p, s : Chain!CastVote(a, g, p, s) <=> CastVote(a, g, p, s)
  BY <1>11 DEF Chain!CastVote, CastVote
<1>16. \A a, r, g, p, s : Chain!CastVoteBySig(a, r, g, p, s) <=> CastVoteBySig(a, r, g, p, s)
  BY <1>11 DEF Chain!CastVoteBySig, CastVoteBySig
<1> QED BY <1>1, <1>2, <1>3, <1>4, <1>5, <1>6, <1>7, <1>8, <1>13, <1>14, <1>15, <1>16

(* Each step of the client and of the others is one of the contracts' or   *)
(* changes nothing of theirs.                                              *)
LEMMA ClientTransacts ==
  ASSUME PlaceOK, ClientNext \/ UNCHANGED allVars
  PROVE  Chain!Next \/ UNCHANGED vars
<1> DEFINE Goal == Chain!Next \/ UNCHANGED vars
<1> USE DEF Chain!Next, Chain!ProposalNext, Chain!CastNext, Chain!Close
<1>0. Gov \in Governors /\ Treasury \in Accounts
  BY ClientAssumption
<1>1. ASSUME NEW a \in Accounts, NEW n \in Nat, Lock(a, n) \/ Unlock(a, n) PROVE Goal
  BY <1>1, ChainSame DEF Chain!UserNext
<1>2. ASSUME TokenNext \/ Tick PROVE Goal
  <2>1. CASE Tick
    BY <2>1, ChainSame
  <2>2. ASSUME NEW a \in Accounts, NEW to \in Payees, NEW n \in Amounts, Transfer(a, to, n)
        PROVE  Goal
    <3>1. n \in Nat
      BY GovernorAssumption
    <3> QED BY <2>2, <3>1, ChainSame DEF Chain!TokenNext
  <2>3. ASSUME NEW a \in Accounts, Mint(a) \/ Burn(a) PROVE Goal
    BY <2>3, ChainSame DEF Chain!TokenNext
  <2> QED BY <1>2, <2>1, <2>2, <2>3 DEF TokenNext
<1>3. ASSUME NEW a \in Accounts, NEW p \in ProposalIds, CreateProposal(a, Gov, p) PROVE Goal
  BY <1>0, <1>3, ChainSame
<1>4. ASSUME NEW p \in ProposalIds, CastVote(Treasury, Gov, p, "For") PROVE Goal
  BY <1>0, <1>4, ChainSame DEF Supports
<1>5. ASSUME NEW a \in Accounts, NEW r \in Relayers, NEW p \in ProposalIds,
             NEW s \in {"For", "Against"}, CastVoteBySig(a, r, Gov, p, s)
      PROVE  Goal
  BY <1>0, <1>5, ChainSame DEF Supports
<1>6. ASSUME NEW p \in ProposalIds, ExecuteProposal(p) PROVE Goal
  BY <1>0, <1>6, ChainSame DEF ExecuteProposal
<1>7. ASSUME NEW a \in Accounts, NEW p \in ProposalIds, CancelProposal(a, p) PROVE Goal
  BY <1>0, <1>7, ChainSame DEF CancelProposal
<1> HIDE DEF Goal
<1>8. UNCHANGED vars => Goal
  BY DEF Goal
<1>9. CASE UNCHANGED allVars
  BY <1>8, <1>9 DEF allVars, Goal
<1>10. CASE LockNext
  <2>1. CASE LockForVoting
    <3>1. known \in Nat /\ (Lock(Treasury, known) \/ UNCHANGED vars)
      BY <2>1 DEF LockForVoting, PlaceOK
    <3> QED BY <1>0, <1>1, <1>8, <3>1 DEF Goal
  <2> QED BY <1>8, <1>10, <2>1 DEF LockNext, ReadQuorum, SetUpScenarioLock, ChainUnchanged,
                     SetupAllowanceForTokenLocking, Goal
<1>11. CASE ItemNext
  <2>1. CASE Propose
    <3>1. agenda[item] \in ProposalIds
      BY DEF PlaceOK
    <3> QED BY <1>0, <1>3, <2>1, <3>1 DEF Propose, Goal
  <2>2. CASE Vote
    <3>1. current \in ProposalIds
      BY <2>2 DEF Vote, PlaceOK
    <3> QED BY <1>4, <2>2, <3>1 DEF Vote, Goal
  <2>3. CASE ExecuteCurrent
    <3>1. current \in ProposalIds
      BY <2>3 DEF ExecuteCurrent, PlaceOK
    <3> QED BY <1>6, <2>3, <3>1 DEF ExecuteCurrent, Goal
  <2>4. CASE CancelCurrent
    <3>1. current \in ProposalIds
      BY <2>4 DEF CancelCurrent, PlaceOK
    <3> QED BY <1>0, <1>7, <2>4, <3>1 DEF CancelCurrent, Goal
  <2>5. CASE ~(Propose \/ Vote \/ ExecuteCurrent \/ CancelCurrent)
    <3>1. UNCHANGED vars
      BY <1>11, <2>5 DEF ItemNext, SetupProposalCreationAllowance, PollSucceeded, PollGivesUp,
           WaitEnds, TransferAssets, ChangeAdmin, FetchLastToken, ChainUnchanged
    <3> QED BY <1>8, <3>1 DEF Goal
  <2> QED BY <2>1, <2>2, <2>3, <2>4, <2>5
<1>12. CASE CleanupNext
  <2>1. CASE RevertTokens
    <3>1. known \in Nat
      BY DEF PlaceOK
    <3> QED BY <1>0, <1>1, <2>1, <3>1 DEF RevertTokens, Goal
  <2>2. CASE CancelOne
    <3>1. current \in ProposalIds
      BY <2>2 DEF CancelOne, PlaceOK
    <3> QED BY <1>0, <1>7, <2>2, <3>1 DEF CancelOne, Goal
  <2>3. CASE ~(RevertTokens \/ CancelOne)
    <3>1. UNCHANGED vars
      BY <1>12, <2>3 DEF CleanupNext, CheckClaim, ClaimFails, ListProposals, CleanOne,
           AbortCancels, CancelsDone, ChainUnchanged
    <3> QED BY <1>8, <3>1 DEF Goal
  <2> QED BY <2>1, <2>2, <2>3
<1>13. CASE ErrorNext
  <2>1. UNCHANGED vars
    BY <1>13 DEF ErrorNext, ScriptStops, ErrorIsSwallowed, ScenarioFails, ChainUnchanged
  <2> QED BY <1>8, <2>1 DEF Goal
<1>14. CASE AnyoneExecutes
  BY <1>6, <1>14 DEF AnyoneExecutes, Goal
<1>15. ASSUME NEW a \in Accounts \ {Treasury}, NEW p \in ProposalIds,
              OtherProposes(a, p) \/ OtherCancels(a, p)
       PROVE  Goal
  BY <1>3, <1>7, <1>15 DEF OtherProposes, OtherCancels, Goal
<1>16. CASE OthersAct
  <2>1. ASSUME NEW a \in Accounts \ {Treasury}, NEW n \in Amounts, Lock(a, n) PROVE Goal
    <3>1. n \in Nat
      BY GovernorAssumption
    <3> QED BY <1>1, <2>1, <3>1 DEF Goal
  <2>2. ASSUME NEW a \in Accounts \ {Treasury}, NEW r \in Relayers, NEW p \in Contested,
               NEW s \in {"For", "Against"}, CastVoteBySig(a, r, Gov, p, s)
        PROVE  Goal
    <3>1. p \in ProposalIds
      BY ClientAssumption
    <3> QED BY <1>5, <2>2, <3>1 DEF Goal
  <2> QED BY <1>2, <1>16, <2>1, <2>2 DEF OthersAct, Goal
<1> QED BY <1>9, <1>10, <1>11, <1>12, <1>13, <1>14, <1>15, <1>16 DEF ClientNext, Goal

(***************************************************************************)
(* Whatever script or scenario runs, with its retries, its swallowed       *)
(* exceptions and everybody else beside it, the ledger sees a behaviour of *)
(* the contracts: all that is shown of HederaGovernor holds of every run   *)
(* of a client (governance.ts:29-163, e2e-test/business/).                 *)
(***************************************************************************)
THEOREM ClientUsesTheContracts == ClientSpec => Chain!Spec
<1>1. ClientInit => Chain!Init
  BY ChainSame DEF ClientInit
<1>2. PlaceOK /\ [ClientNext]_allVars => [Chain!Next]_(Chain!vars)
  <2> SUFFICES ASSUME PlaceOK, ClientNext \/ UNCHANGED allVars
               PROVE  Chain!Next \/ UNCHANGED Chain!vars
    OBVIOUS
  <2>1. UNCHANGED vars => UNCHANGED Chain!vars
    BY DEF Chain!vars, vars
  <2> QED BY <2>1, ClientTransacts
<1>3. ClientSpec => []PlaceOK
  <2>1. BooksInv => PlaceOK
    BY DEF BooksInv
  <2> QED BY <2>1, ClientKnowsItsPlace, PTL
<1> QED BY <1>1, <1>2, <1>3, PTL DEF ClientSpec, Chain!Spec

(* What HederaGovernorProofs assumes of the constants. *)
LEMMA ChainAssumed ==
  /\ Accounts \cap Governors = {} /\ Holder \notin Accounts \cup Governors
  /\ Chain!IsFiniteSet(Accounts) /\ Chain!IsFiniteSet(Governors)
  /\ Relayers \subseteq Accounts /\ Payees \subseteq Chain!Addresses
  /\ Nat \subseteq Nat
  /\ InitialBalance \in [Accounts -> Nat]
  /\ {InitialSupply, MinSupply, MaxSupply, MaxTime} \subseteq Nat
  /\ Deposit \in Nat \ {0} /\ Bsp \in Nat \ {0}
  /\ DefaultThreshold \in Nat /\ InitialThreshold \in [Governors -> Nat]
  /\ VotingDelay \in Nat /\ VotingPeriod \in Nat \ {0}
  /\ NoTarget \notin Governors
  /\ CallTarget \in [ProposalIds -> Governors \cup {NoTarget}]
  /\ CallThreshold \in [ProposalIds -> Nat]
  /\ ZeroAddress \notin Chain!Addresses
BY GovernorAssumption, AddressesAssumption
   DEF Chain!IsFiniteSet, IsFiniteSet, Chain!Addresses, Addresses

(***************************************************************************)
(* While clients lock, vote, cancel and clean up, stop and start again,    *)
(* the holder owns what it recorded as locked, its two lists of votes      *)
(* agree, and each governor owns the deposits of its open proposals, so    *)
(* none of a client's claims, cancels or executes fails for want of tokens *)
(* (GodHolder.ts:46-54, HederaGovernor.ts:556-592, GODHolder.sol:24-57).   *)
(***************************************************************************)
THEOREM ClientsLeaveTheHolderWhole ==
  ClientSpec => [](HolderBacked /\ HoldsMatch /\ DepositsHeld)
<1>1. Chain!Spec => []Chain!HolderBacked
  BY Chain!HolderOwnsItsDebt, ChainAssumed
<1>2. Chain!Spec => []Chain!HoldsMatch
  BY Chain!BookkeepingMatches, ChainAssumed
<1>3. Chain!Spec => []Chain!DepositsHeld
  BY Chain!DepositsAreHeld, ChainAssumed
<1>4. \A S, f : Chain!Total(S, f) = Total(S, f)
  BY DEF Chain!Total, Total, Chain!AllSlots, AllSlots, Chain!Slots, Slots,
         Chain!Cardinality, Cardinality
<1>5. Chain!HolderBacked => HolderBacked
  BY <1>4 DEF Chain!HolderBacked, HolderBacked
<1>6. Chain!HoldsMatch => HoldsMatch
  BY <1>4 DEF Chain!HoldsMatch, HoldsMatch
<1>7. Chain!DepositsHeld => DepositsHeld
  BY DEF Chain!DepositsHeld, DepositsHeld, Chain!Live, Live, Chain!Cardinality, Cardinality
<1> QED BY <1>1, <1>2, <1>3, <1>5, <1>6, <1>7, ClientUsesTheContracts, PTL

(***************************************************************************)
(* A script that votes with its own account cannot take its tokens back    *)
(* and vote with them again: what its ballots and everybody else's count   *)
(* for on open proposals stays locked, also after exceptions, second       *)
(* claims and cleanups (governance.ts:29-67, 105-163, GodHolder.ts:46-54). *)
(***************************************************************************)
THEOREM ClientVotesAreBacked ==
  ASSUME Relayers = {}
  PROVE  ClientSpec => []LockedBacking
<1>1. Chain!Spec => []Chain!LockedBacking
  BY Chain!VotesAreBacked, ChainAssumed
<1>2. Chain!LockedBacking => LockedBacking
  BY DEF Chain!LockedBacking, LockedBacking, Chain!Live, Live
<1> QED BY <1>1, <1>2, ClientUsesTheContracts, PTL

(***************************************************************************)
(* As long as no burn leaves a threshold in use undefined, the creator of  *)
(* an open proposal can cancel it in every state a client reaches: only    *)
(* somebody else's proposal, or one closed since its state was read, makes *)
(* a cancel of the cleanup task revert (HederaGovernor.ts:556-592).        *)
(***************************************************************************)
THEOREM ClientsCanCancel ==
  ClientSpec /\ [][BurnLeavesQuorum]_vars => []LiveCanBeCanceled
<1>1. Chain!Spec /\ [][Chain!BurnLeavesQuorum]_(Chain!vars) => []Chain!LiveCanBeCanceled
  BY Chain!LiveProposalsCanBeCanceled, ChainAssumed
<1>2. [BurnLeavesQuorum]_vars => [Chain!BurnLeavesQuorum]_(Chain!vars)
  <2>1. UNCHANGED vars => UNCHANGED Chain!vars
    BY DEF Chain!vars, vars
  <2>2. BurnLeavesQuorum => Chain!BurnLeavesQuorum
    BY ChainSame DEF Chain!BurnLeavesQuorum, BurnLeavesQuorum, Chain!QuorumDefined,
                     QuorumDefined
  <2> QED BY <2>1, <2>2
<1>3. \A S, f : Chain!Total(S, f) = Total(S, f)
  BY DEF Chain!Total, Total, Chain!AllSlots, AllSlots, Chain!Slots, Slots,
         Chain!Cardinality, Cardinality
<1>4. \A g, p : Chain!State(g, p) = State(g, p)
  <2>1. \A g, p, s : Chain!Tally(g, p, s) = Tally(g, p, s)
    BY <1>3 DEF Chain!Tally, Tally
  <2>2. \A g, p : /\ Chain!QuorumReached(g, p) <=> QuorumReached(g, p)
                  /\ Chain!VoteSucceeded(g, p) <=> VoteSucceeded(g, p)
    BY <2>1 DEF Chain!QuorumReached, QuorumReached, Chain!VoteSucceeded, VoteSucceeded,
                Chain!Quorum, Quorum
  <2> QED BY <2>2 DEF Chain!State, State, Chain!Live, Live, Chain!QuorumDefined, QuorumDefined
<1>5. Chain!LiveCanBeCanceled => LiveCanBeCanceled
  BY <1>4 DEF Chain!LiveCanBeCanceled, LiveCanBeCanceled, Chain!Live, Live,
       Chain!CanCancel, CanCancel, Chain!Cancellable, Cancellable, Chain!CallerHoldsToken,
       CallerHoldsToken, Chain!Transferable, Transferable, Chain!QuorumDefined, QuorumDefined
<1> QED BY <1>1, <1>2, <1>5, ClientUsesTheContracts, PTL
=============================================================================
