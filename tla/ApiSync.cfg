SPECIFICATION FairSpec
CONSTANTS
    r1 = r1
    r2 = r2
    a = a
    b = b
    v1 = v1
    v2 = v2
    d1 = d1
    d2 = d2
    n1 = n1
    Resources = {r1, r2}
    Items = {a, b}
    Contents = {v1, v2}
    Absent = Absent
    NoJob = NoJob
    DefaultConfigs = {d1, d2}
    NamespacedConfigs = {n1}
    MaxResyncs = 2
    Scenarios <- AllScenarios
INVARIANTS
  
  OwnExportKeepsOutOfDefaultBackend

  
  
CHECK_DEADLOCK FALSE
