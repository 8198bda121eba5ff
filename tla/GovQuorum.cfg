\* One governor, two proposals that change its quorum threshold, and a supply
\* that moves.
CONSTANTS
  g1 = g1  p1 = p1  p2 = p2
  Holder = Holder
  NoTarget = NoTarget
  ZeroAddress = ZeroAddress
  Accounts = {a1, a2}
  Governors = {g1}
  ProposalIds = {p1, p2}
  Relayers = {}
  Payees = {}
  Amounts = {1, 2}
  InitialBalance <- MCOneEach
  InitialSupply = 4
  MinSupply = 4
  MaxSupply = 5
  Deposit = 1
  Bsp = 10
  DefaultThreshold = 3
  InitialThreshold <- MCThreshold
  VotingDelay = 0
  VotingPeriod = 1
  MaxTime = 2
  CallTarget <- MCTarget
  CallThreshold <- MCNewThreshold
SPECIFICATION FairSpec
CHECK_DEADLOCK FALSE
INVARIANTS
  DepositsHeld
  QuorumDefinedForProposals
PROPERTIES
  OutcomeStable
  ProposalsClose
  HoldsReleased
