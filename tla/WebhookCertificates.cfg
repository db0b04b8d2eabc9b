SPECIFICATION FairSpec
CONSTANTS
  Replicas = {"a", "b"}
  TargetList <- MCTargetList
  Scenarios <- MCScenarios
  caValidity = 8
  servingCertValidity = 4
  servingCertRenewBefore = 2
  caRotationLeadTime = 4
  forcedSwitchLeadTime = 2
  minimumRotationAge = 1
  foreignCertRetention = 1

  
PROPERTIES
  EventuallyAgreed
CHECK_DEADLOCK FALSE
