SPECIFICATION Spec
CONSTANTS
  Names = {pair, factory}
  MaxContracts = 6
INVARIANTS
  ImplementationRecorded
  DoneIsVisible
PROPERTIES
  ProxyNeverGoesBack
  NoDeploymentLost
