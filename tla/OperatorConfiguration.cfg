SPECIFICATION FairSpec
CONSTANTS
  Scenarios <- MCScenarios
  MaxSteps = 6

  
PROPERTIES
  ManualConfigurationIsKept
  EventuallySettled
CHECK_DEADLOCK FALSE
