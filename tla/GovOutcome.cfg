\* The quorum an ended proposal is measured against still moves.
CONSTANTS
  g1 = g1  p1 = p1  p2 = p2
  Holder = Holder
  NoTarget = NoTarget
  ZeroAddress = ZeroAddress
  Accounts = {a1, a2}
  Governors = {g1}
  ProposalIds = {p1, p2}
  Relayers = {}
  Payees = {}
  Amounts = {1, 2}
  InitialBalance <- MCBalance
  InitialSupply = 5
  MinSupply = 5
  MaxSupply = 5
  Deposit = 1
  Bsp = 10
  DefaultThreshold = 3
  InitialThreshold <- MCThreshold
  VotingDelay = 0
  VotingPeriod = 1
  MaxTime = 3
  CallTarget <- MCTarget
  CallThreshold <- MCNewThreshold
SPECIFICATION Spec
CHECK_DEADLOCK FALSE
PROPERTIES
  DecidedOutcomeIsFinal
