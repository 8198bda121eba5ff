\* The client and one other account; the quantities are such that every
\* division of a quote, of a fee and of the shares rounds in some world.
CONSTANTS
  ta = ta  hbar = hbar  tb = tb
  Tokens = {ta, hbar, tb}
  Hbar = hbar
  Users = {client, other}
  Client = client
  Operator = other
  Treasury = treasury
  Fees = {50, 100, 250}
  FeePrecision = 100
  Precision = 100
  DefaultSlippage = 80
  MaxPools = 2
  InitialWallet = 30
  Services = {1, 2}
  NewService = 2
  Address <- MCAddress
  TransactionFees <- MCTransactionFees
  FirstQty = 9
  SecondQty = 6
  LpQty = 3
  SwapQty = 5
  MaxAllowance = 99
  ScenarioSlippage = 200
  Trades = {4, 7}
  MaxActs = 2
  MaxStops = 1
  Worlds <- MCWorlds
SPECIFICATION Spec
CHECK_DEADLOCK FALSE
INVARIANTS
  ReservesBacked
  OnePairEach
  BestRecommended
  AloneIsAnswered
PROPERTIES
  ProductKept
  SharesKept
  HbarPoolNeverEmpties
