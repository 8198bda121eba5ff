\* Two governors share a proposal id; every voter signs its own votes.
CONSTANTS
  g1 = g1  p1 = p1  p2 = p2
  Holder = Holder
  NoTarget = NoTarget
  ZeroAddress = ZeroAddress
  Accounts = {a1, a2}
  Governors = {g1, g2}
  ProposalIds = {p3}
  Relayers = {}
  Payees = {a2}
  Amounts = {1}
  InitialBalance <- MCBalance
  InitialSupply = 4
  MinSupply = 4
  MaxSupply = 4
  Deposit = 1
  Bsp = 10
  DefaultThreshold = 5
  InitialThreshold <- MCThreshold
  VotingDelay = 0
  VotingPeriod = 1
  MaxTime = 2
  CallTarget <- MCTarget
  CallThreshold <- MCNewThreshold
SPECIFICATION Spec
CHECK_DEADLOCK FALSE
INVARIANTS
  TypeOK
  LockedBacking
  HoldsMatch
  HolderBacked
PROPERTIES
  ImplementsPolls
