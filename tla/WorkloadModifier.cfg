SPECIFICATION FairSpec
CONSTANTS
  Containers = {"app", "sidecar"}
  Libraries = {"lib1", "lib2"}
  Scenarios <- MCScenarios
INVARIANTS
  WhatUsersWriteIsKept
  ModificationsAreConsistent
PROPERTIES
  EventuallySettled
CHECK_DEADLOCK FALSE
