\* The clients of a DAO with two safes of two owners, and everyone else.
CONSTANTS
  s1 = s1  s2 = s2
  Safes = {s1, s2}
  Client = client
  FirstOwner = a1  SecondOwner = a2  Replacement = a3
  Accounts = {client, a1, a2, a3}
  Sentinel = Sentinel
  ProxyAdmin = ProxyAdmin
  FeeUser = FeeUser
  Calls <- MCCalls
  InitialOwners <- MCOwners
  InitialThreshold <- MCThreshold
  InitialAssets <- MCNoAssets
  MaxAssets = 4
  MaxNonce = 9
  MaxStops = 2
  FirstSafe = s1
  Worlds <- MCWorlds
SPECIFICATION ClientSpec
CHECK_DEADLOCK FALSE
INVARIANTS
  JourneyHolds
  HandedOverIsApproved
  ApprovedIsCovered
PROPERTIES
  ImplementsWallets
  NewProposalIsPending
