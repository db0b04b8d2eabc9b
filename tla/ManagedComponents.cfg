SPECIFICATION FairSpec
CONSTANTS
  Scenarios <- MCScenarios
  MaxRepetitions = 3
  OperatorNamespace = "operator"
  NoNamespace = "none"
  NoEnvVar = NoEnvVar
  UserLabels <- MCUserLabels
INVARIANTS
  ComponentsAreAsDesired
  AgentCanOnlyRead
PROPERTIES
  PodsHaveWhatTheyNeed
  
  EventuallySettled
CHECK_DEADLOCK FALSE
