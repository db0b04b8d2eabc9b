SPECIFICATION FairSpec
CONSTANTS
    d1 = d1
    d2 = d2
    rs = rs
    job = job
    pod = pod
    p1 = p1
    p2 = p2
    NoPropagators = NoPropagators
    Absent = Absent
    Unborn = Unborn
    Gone = Gone
    Workloads = {d1, d2, rs, job, pod}
    Propagators = {NoPropagators, p1, p2}
    MaxVersion = 2
    Kind <- KindOf
    Scenarios <- AllScenarios
INVARIANTS
  InstrumentedAsConfigured
PROPERTIES
  ChangedWorkloadsAreInstrumented
  EventuallySettled
CHECK_DEADLOCK FALSE
