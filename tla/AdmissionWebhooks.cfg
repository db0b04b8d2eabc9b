SPECIFICATION FairSpec
CONSTANTS
  OperatorNamespace = "operator"
  RestrictedNamespaces = {"kube-system"}
  Defaults <- MCDefaults
  Namespaces <- MCNamespaces
  Scenarios <- MCScenarios
INVARIANTS
  NoNeedlessDenial
  
PROPERTIES
  OldClientsKeepNewerSettings
  DeletedMonitoringGoes
CHECK_DEADLOCK FALSE
