------------------------- MODULE MCInstrumentation -------------------------
(***************************************************************************)
(* Instances of Instrumentation for TLC: what happens to at most four      *)
(* workloads and to the monitoring resource of their namespace.            *)
(***************************************************************************)
EXTENDS Instrumentation, TLC

CONSTANTS d1, d2, rs, job, pod, p1, p2

KindOf ==
  d1 :> "deployment" @@ d2 :> "deployment" @@ rs :> "replicaset" @@ job :> "job" @@ pod :> "pod"

Plain == NewWorkload("unset")

\* The workloads of existing have been deployed, those of later will be.
Deployed(existing, later, obj) ==
  [w \in Workloads |-> IF w \in existing THEN obj ELSE IF w \in later THEN Unborn ELSE Gone]

Instrumented == [Plain EXCEPT !.label = "true", !.version = 1, !.running = 1]

WithMode(m) == [mode |-> m, selector |-> "optOut", propagators |-> NoPropagators]
WithSelector(s) == [mode |-> "all", selector |-> s, propagators |-> NoPropagators]
WithPropagators(p) == [mode |-> "all", selector |-> "optOut", propagators |-> p]
AllOrNone == {WithMode("all"), WithMode("none")}

\* A monitoring resource that has been reconciled before.
Reconciled(s) ==
  [NewMonitoring(s) EXCEPT !.finalizer = TRUE, !.cond = "available", !.prevMode = s.mode,
                           !.prevSelector = s.selector, !.prevPropagators = s.propagators]

Budget(updates, monitoringChanges) ==
  [updates |-> updates, monitoringChanges |-> monitoringChanges, listFailures |-> 0,
   failures |-> 0, missed |-> 0, restarts |-> 0]

Quiet ==
  [workloads |-> Deployed({d1}, {d2}, Plain), enables |-> {"unset"}, editable |-> {d1},
   deletable |-> {}, monitoringSpecs |-> {WithMode(m) : m \in Modes}, monitoring |-> Absent,
   monitoringIsDeleted |-> FALSE, operatorIsStarting |-> FALSE, promptReconcile |-> TRUE,
   earlyDeploy |-> FALSE, budget |-> Budget(1, 2)]

\* The mode changes while workloads of several kinds are deployed, changed and deleted.
ModeChanges ==
  [Quiet EXCEPT !.workloads = Deployed({d1}, {d2, job, pod}, Plain), !.deletable = {d2},
     !.monitoring = Reconciled(WithMode("none")),
     !.budget = [Budget(2, 2) EXCEPT !.listFailures = 1, !.failures = 1]]

\* Jobs and pods that already run when the mode changes.
JobsAndPods ==
  [Quiet EXCEPT !.workloads = Deployed({job, pod}, {}, Plain), !.editable = {job},
     !.enables = {"unset", "false"}, !.monitoring = Reconciled(WithMode("none")),
     !.budget = Budget(1, 3)]

\* The monitoring resource is created and deleted, admission requests get lost.
MonitoringComesAndGoes ==
  [Quiet EXCEPT !.monitoringIsDeleted = TRUE, !.earlyDeploy = TRUE,
     !.budget = [Budget(1, 3) EXCEPT !.missed = 1, !.listFailures = 1, !.restarts = 1]]

\* A new operator version starts, and is restarted before it has come to rest.
Upgrade ==
  [Quiet EXCEPT !.workloads = Deployed({d1, d2}, {}, Plain), !.operatorIsStarting = TRUE,
     !.monitoring = NewMonitoring(WithMode("all")), !.monitoringSpecs = AllOrNone,
     !.budget = [Budget(0, 2) EXCEPT !.restarts = 2]]

\* The label selector changes from opt-out to opt-in and back.
SelectorChanges ==
  [Quiet EXCEPT !.workloads = Deployed({d1}, {d2}, Instrumented), !.editable = {},
     !.enables = Enables, !.monitoring = Reconciled(WithMode("all")),
     !.monitoringSpecs = {WithSelector("optOut"), WithSelector("optIn")},
     !.budget = [Budget(2, 3) EXCEPT !.restarts = 1]]

\* Mode, selector and labels change, the resource is deleted; the propagators are always the same.
EverythingChanges ==
  [Quiet EXCEPT !.workloads = Deployed({d1}, {}, Plain), !.enables = Enables,
     !.monitoringSpecs = [mode : Modes, selector : {"optOut", "optIn"}, propagators : {p1}],
     !.monitoringIsDeleted = TRUE,
     !.budget = [Budget(1, 2) EXCEPT !.restarts = 1, !.listFailures = 1, !.missed = 1]]

\* The propagators are set, changed and removed.
PropagatorsChange ==
  [Quiet EXCEPT !.workloads = Deployed({d1}, {d2}, Instrumented),
     !.monitoring = Reconciled(WithMode("all")),
     !.monitoringSpecs = {WithPropagators(p) : p \in {NoPropagators, p1, p2}},
     !.budget = [Budget(2, 3) EXCEPT !.restarts = 1]]

\* A replica set, whose pods the operator has to restart.
ReplicaSet ==
  [Quiet EXCEPT !.workloads = Deployed({d1, rs}, {}, Plain), !.monitoringIsDeleted = TRUE,
     !.budget = [Budget(1, 3) EXCEPT !.failures = 1]]

\* Users change the monitoring resource while the operator is still at work.
HastyUsers ==
  [Quiet EXCEPT !.workloads = Deployed({d1}, {}, Plain), !.monitoringIsDeleted = TRUE,
     !.monitoringSpecs = AllOrNone, !.promptReconcile = FALSE, !.earlyDeploy = TRUE,
     !.budget = [Budget(1, 3) EXCEPT !.restarts = 1, !.listFailures = 1]]

AllScenarios ==
  {ModeChanges, JobsAndPods, MonitoringComesAndGoes, Upgrade, SelectorChanges, EverythingChanges,
   PropagatorsChange, ReplicaSet, HastyUsers}

\* The mode goes from "none" to "all" and back before the operator is at rest.
ModeFlip ==
  {[Quiet EXCEPT !.workloads = Deployed({d1}, {}, Plain), !.promptReconcile = FALSE,
      !.monitoring = Reconciled(WithMode("none")), !.monitoringSpecs = AllOrNone,
      !.budget = Budget(0, 2)]}

\* A workload is deployed during the first reconcile of the monitoring resource.
EarlyDeploy ==
  {[Quiet EXCEPT !.monitoringSpecs = {WithMode("all")}, !.earlyDeploy = TRUE,
      !.budget = Budget(1, 1)]}
=============================================================================
