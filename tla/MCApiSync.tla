----------------------------- MODULE MCApiSync -----------------------------
(***************************************************************************)
(* Instances of ApiSync for TLC: what happens to two resources with up to  *)
(* two rules, and to the monitoring resource of their namespace.           *)
(***************************************************************************)
EXTENDS ApiSync

CONSTANTS r1, r2, a, b, v1, v2, d1, d2, n1

\* One version of a resource: which rules are valid, which are invalid.
Resource(valid, invalid, v, off) ==
  [rules |-> [i \in Items |-> IF i \in valid THEN v ELSE IF i \in invalid THEN "invalid" ELSE "none"],
   disabled |-> off]

\* The versions of a PrometheusRule: any subset of the rules, all of them
\* invalid, or the label dash0.com/enable=false.
RuleSnapshots(items, contents) ==
  {Resource(x, {}, v, FALSE) : x \in SUBSET items, v \in contents} \cup
  {Resource({}, items, v, FALSE) : v \in contents} \cup
  {Resource(items, {}, v, TRUE) : v \in contents}

\* A PersesDashboard has one item, which is always there.
DashboardSnapshots == {Resource({a}, {}, v, off) : v \in {v1, v2}, off \in BOOLEAN}

\* The resources rs exist and have the given items.
With(rs, items) == [r \in Resources |-> IF r \in rs THEN Resource(items, {}, v1, FALSE) ELSE Absent]

Monitoring(exports, enabled) ==
  [exists |-> TRUE, exports |-> exports, tokens |-> exports, enabled |-> enabled]
NoMonitoring == [exists |-> FALSE, exports |-> {}, tokens |-> {}, enabled |-> FALSE]
Plain == Monitoring({}, TRUE)
OwnExport == Monitoring({n1}, TRUE)
SyncDisabled == Monitoring({}, FALSE)

Quiet ==
  [snapshots |-> RuleSnapshots({a, b}, {v1}), cluster |-> With({r1, r2}, {a, b}),
   changeable |-> {r1, r2}, mapsToMultipleApiObjects |-> TRUE, monitoring |-> Plain,
   monitoringStates |-> {}, defaultConfigs |-> {d1},
   failureCodes |-> {"retryable", "permanent"}, statusWritesFail |-> FALSE,
   quietResync |-> TRUE, maxChanges |-> 0, maxMonitoringChanges |-> 0, maxFailures |-> 0,
   maxRestarts |-> 0]

\* The rules in a resource change, and an API request fails.
RulesChange ==
  [Quiet EXCEPT !.cluster = With({r1}, {a, b}), !.changeable = {r1}, !.maxChanges = 2,
     !.maxFailures = 1]

\* A dashboard changes while up to two API requests fail.
DashboardChanges ==
  [Quiet EXCEPT !.snapshots = DashboardSnapshots, !.cluster = With({r1}, {a}),
     !.changeable = {r1}, !.mapsToMultipleApiObjects = FALSE, !.maxChanges = 2, !.maxFailures = 2]

\* A resource is deleted and created again; the monitoring resource is deleted.
RuleIsDeleted ==
  [Quiet EXCEPT !.cluster = With({r1}, {a, b}),
     !.changeable = {r1}, !.monitoringStates = {NoMonitoring}, !.statusWritesFail = TRUE,
     !.maxChanges = 3, !.maxMonitoringChanges = 1]

\* The monitoring resource gets an export, or its synchronization is switched off and on.
ConfigChanges ==
  [Quiet EXCEPT !.cluster = With({r1}, {a, b}),
     !.changeable = {r1}, !.monitoringStates = {Plain, OwnExport, SyncDisabled},
     !.maxChanges = 1, !.maxMonitoringChanges = 2]

\* Two resources share the origins that a resync has fetched.
TwoResources ==
  [Quiet EXCEPT !.snapshots = RuleSnapshots({a}, {v1}), !.cluster = With({r1, r2}, {a}),
     !.changeable = {r1}, !.monitoring = OwnExport, !.failureCodes = {"permanent"},
     !.maxChanges = 1, !.maxFailures = 1]

\* The operator is restarted in a namespace with an export of its own.
OperatorRestarts ==
  [Quiet EXCEPT !.cluster = With({r1}, {a, b}),
     !.changeable = {r1}, !.monitoring = OwnExport, !.maxChanges = 1, !.maxFailures = 1,
     !.maxRestarts = 1]

\* Two API configs, and requests that fail with an error worth a retry.
RequestsAreRetried ==
  [Quiet EXCEPT !.cluster = With({r1}, {a, b}), !.changeable = {r1}, !.defaultConfigs = {d1, d2},
     !.failureCodes = {"retryable"}, !.maxChanges = 1, !.maxFailures = 2]

AllScenarios == {RulesChange, DashboardChanges, RuleIsDeleted, ConfigChanges, TwoResources,
                 OperatorRestarts, RequestsAreRetried}

\* A resource changes while a resync is under way.
BusyResync ==
  {[Quiet EXCEPT !.monitoring = OwnExport, !.quietResync = FALSE, !.maxChanges = 1,
      !.cluster = With({r1}, {a}), !.snapshots = RuleSnapshots({a}, {v1}), !.changeable = {r1}]}

\* The monitoring resource is created after the resources.
LateMonitoring ==
  {[Quiet EXCEPT !.monitoring = NoMonitoring, !.monitoringStates = {Plain},
      !.maxMonitoringChanges = 1]}
=============================================================================
