SPECIFICATION FairSpec
CONSTANTS
  Namespaces <- MCNamespaces
  Scenarios <- MCScenarios

  
  
PROPERTIES
  ManualResourcesAreKept
  EventuallySettled
CHECK_DEADLOCK FALSE
