------------------------ MODULE MCOwnedResourceSync ------------------------
(* Small instances of OwnedResourceSync. *)
EXTENDS OwnedResourceSync

CONSTANTS v1, v2, defaultConfig, ownConfig

Quiet ==
    [contents |-> {v1}, exportChoices |-> {{}}, failureCodes |-> {"retryable", "permanent"},
     hasConflictGuard |-> FALSE, quietSync |-> TRUE, maxChanges |-> 0, maxConfigChanges |-> 0,
     maxCrdChanges |-> 0, maxFailures |-> 0, maxReadFailures |-> 0]

\* A resource changes and API calls fail.
ResourceChanges ==
    [Quiet EXCEPT !.contents = {v1, v2}, !.maxChanges = 1, !.maxFailures = 1]

\* The operator starts in a namespace that has an export of its own, or none.
Startup == [Quiet EXCEPT !.exportChoices = {{}, {ownConfig}}, !.maxFailures = 1]

\* The export of the namespace is added or removed.
ConfigChanges == [Quiet EXCEPT !.exportChoices = {{}, {ownConfig}}, !.maxConfigChanges = 2]

\* SLOs: the CRD is found to be foreign and to be the operator's, reading fails.
ForeignCrd ==
    [Quiet EXCEPT !.hasConflictGuard = TRUE, !.maxCrdChanges = 2, !.maxReadFailures = 1]

AllScenarios == {ResourceChanges, Startup, ConfigChanges, ForeignCrd}

\* A resource changes while it is being synchronized.
ChangeDuringSync == {[Quiet EXCEPT !.contents = {v1, v2}, !.quietSync = FALSE, !.maxChanges = 1]}
=============================================================================
