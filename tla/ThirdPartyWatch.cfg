SPECIFICATION FairSpec
CONSTANTS
    ResourceTypes = {"rules", "dashboards"}
    PreferredVersions <- Versions
    OtherVersion = "v9"
    MaxCrdChanges = 2
    MaxConfigChanges = 3
    MaxFailures = 1

  
PROPERTIES
  EventuallySettled
CHECK_DEADLOCK FALSE
