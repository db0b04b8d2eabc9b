SPECIFICATION FairSpec
CONSTANTS
    v1 = v1
    v2 = v2
    defaultConfig = defaultConfig
    ownConfig = ownConfig
    Resources = {r1}
    Contents = {v1, v2}
    Absent = Absent
    NoResource = NoResource
    DefaultConfigs = {defaultConfig}
    NamespacedConfigs = {ownConfig}
    Scenarios <- AllScenarios
INVARIANTS
  
  OwnExportKeepsOutOfDefaultBackend
PROPERTIES
  SyncsAreKeptApart
  
CHECK_DEADLOCK FALSE
