SPECIFICATION Spec
CONSTANTS
  Configurations <- MCConfigurationSet
  Records <- MCRecords
  OperatorNamespace = "operator"
  NoNamespace = "none"
  NoEnvVar = NoEnvVar
  UserLabels <- MCUserLabels
INVARIANTS
  EveryExportReceivesTheRecordOnce
  FiltersAreExact
  RenderedReferencesResolve
CHECK_DEADLOCK FALSE
