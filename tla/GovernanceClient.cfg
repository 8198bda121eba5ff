\* One governor; the treasury runs the script or the scenarios, critic is the
\* other account and votes through a relayer.
CONSTANTS
  pa = pa  pt = pt  pu = pu  pc = pc  pm = pm  pb = pb  px = px
  Holder = Holder
  NoTarget = NoTarget
  ZeroAddress = ZeroAddress
  Accounts = {treasury, critic}
  Governors = {g1}
  ProposalIds = {pa, pt, pu, pc, pm, pb, px}
  Relayers = {treasury}
  Payees = {g1}
  Amounts = {2}
  InitialBalance <- MCBalance
  InitialSupply = 6
  MinSupply = 6
  MaxSupply = 7
  Deposit = 1
  Bsp = 20
  DefaultThreshold = 9
  InitialThreshold <- MCThreshold
  VotingDelay = 0
  VotingPeriod = 1
  MaxTime = 4
  CallTarget <- MCTarget
  CallThreshold <- MCNewThreshold
  ProxyAdmin = ProxyAdmin
  AssetsHolderId = AssetsHolderId
  CreatedSupply = 2
  EarlierTokens = 1
  Gov = g1
  Treasury = treasury
  Kind <- MCKind
  Amount <- MCAmount
  ScenarioLock = 2
  Foreign = {px}
  Contested = {pu, px}
  MaxStops = 1
  Worlds <- MCWorlds
SPECIFICATION ClientSpec
CHECK_DEADLOCK FALSE
INVARIANTS
  TransfersPaidOnce
  SuppliesVoted
  ProxyReturned
  LockedEnough
PROPERTIES
  CleanupFrees
