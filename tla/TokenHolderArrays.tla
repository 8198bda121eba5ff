------------------------- MODULE TokenHolderArrays -------------------------
(***************************************************************************)
(* The arrays of contracts/governance/TokenHolder.sol as the code keeps    *)
(* them: pushes at the end, a linear search for the first match, removal   *)
(* by overwriting with the last element and popping.  The bags of          *)
(* TokenHolder are what remains when the order is forgotten, and this      *)
(* module implements TokenHolder!HolderSpec.                               *)
(***************************************************************************)
EXTENDS HolderAddresses, Naturals, Sequences

CONSTANT MaxVotes             \* bound: entries in all the voter lists together

VARIABLES
  holdsToken,                 \* [g]: the caller's token balance is positive
  voterLists,                 \* [g][p]: governorProposalVoters, an address[]
  proposalLists               \* [v]: activeProposalsForUsers, a uint256[]

arrayVars == <<holdsToken, voterLists, proposalLists>>

Occurrences(list, item) == Cardinality({i \in DOMAIN list : list[i] = item})

(* _removeAnArrayElement: the first match is overwritten with the last     *)
(* element, which is popped; the array is left alone when nothing matches. *)
RemoveAnArrayElement(item, items) ==
  LET matches == {i \in DOMAIN items : items[i] = item}
      index   == CHOOSE i \in matches : \A j \in matches : i <= j
      last    == Len(items)
  IN IF matches = {} THEN items
     ELSE SubSeq([items EXCEPT ![index] = items[last]], 1, last - 1)

(* The loop over a voter list, one removal per entry, in its order.        *)
AfterLoop(p, voters) ==
  LET after[i \in 0 .. Len(voters)] ==
        IF i = 0 THEN proposalLists
        ELSE [after[i - 1] EXCEPT ![voters[i]] = RemoveAnArrayElement(p, @)]
  IN  after[Len(voters)]

VotesRecorded ==
  {r \in Governors \X ProposalIds \X (1 .. MaxVotes) :
     r[3] <= Len(voterLists[r[1]][r[2]])}

PushProposalForVoter(g, p, origin) ==
  /\ holdsToken[g]
  /\ Cardinality(VotesRecorded) < MaxVotes
  /\ voterLists' = [voterLists EXCEPT ![g][p] = Append(@, origin)]
  /\ proposalLists' = [proposalLists EXCEPT ![origin] = Append(@, p)]
  /\ UNCHANGED holdsToken

(* A slip to catch: the voter list is not deleted. *)
PopAndKeepVoters(g, p) ==
  /\ holdsToken[g]
  /\ proposalLists' = AfterLoop(p, voterLists[g][p])
  /\ UNCHANGED <<holdsToken, voterLists>>

PopActiveProposals(g, p) ==
  /\ holdsToken[g]
  /\ proposalLists' = AfterLoop(p, voterLists[g][p])
  /\ voterLists' = [voterLists EXCEPT ![g][p] = <<>>]
  /\ UNCHANGED holdsToken

TokenMoves ==
  /\ \E g \in Governors : holdsToken' = [holdsToken EXCEPT ![g] = ~@]
  /\ UNCHANGED <<voterLists, proposalLists>>

ArraysInit ==
  /\ holdsToken = [g \in Governors |-> FALSE]
  /\ voterLists = [g \in Governors |-> [p \in ProposalIds |-> <<>>]]
  /\ proposalLists = [v \in Accounts |-> <<>>]

ArraysNext ==
  \/ \E g \in Governors, p \in ProposalIds, v \in Accounts :
       PushProposalForVoter(g, p, v)
  \/ \E g \in Governors, p \in ProposalIds : PopActiveProposals(g, p)
  \/ TokenMoves

ArraysSpec == ArraysInit /\ [][ArraysNext]_arrayVars

-----------------------------------------------------------------------------
Bags == INSTANCE TokenHolder WITH
  balance <- [x \in Accounts \cup Governors \cup {Holder} |->
                IF x \in Governors /\ holdsToken[x] THEN 1 ELSE 0],
  governorProposalVoters <-
    [g \in Governors |-> [p \in ProposalIds |-> [v \in Accounts |->
       Occurrences(voterLists[g][p], v)]]],
  activeProposalsForUsers <-
    [v \in Accounts |-> [p \in ProposalIds |-> Occurrences(proposalLists[v], p)]]

(* The array operations have exactly the effect of the bag operations on   *)
(* every list (TokenHolder.sol:98-145, 182-197): order never matters, no   *)
(* entry of another proposal is lost to the swap.                          *)
ImplementsBags == Bags!HolderSpec

=============================================================================
