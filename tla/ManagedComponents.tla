-------------------------- MODULE ManagedComponents --------------------------
(***************************************************************************)
(* How the operator brings the resources of a managed component (the       *)
(* collectors, the target allocator, the Agent0 connector, the Edge Proxy, *)
(* the synthetics workers, the profiler) to their desired state.           *)
(*                                                                         *)
(* Every component has a manager, which is called from several places: by  *)
(* the reconciler of the operator configuration, after a change of the     *)
(* extra configuration, and by the component's own controller, which       *)
(* watches the resources.  One run reads the configuration, and then       *)
(* executes one API request after the other; configurations change, users  *)
(* delete resources and requests fail in between.                          *)
(***************************************************************************)
EXTENDS ComponentResources

CONSTANTS Scenarios,        \* the component, its configurations over time, and the faults
          MaxRepetitions    \* bound of ReconcileGuard.Run

VARIABLES scenario,         \* the chosen scenario, never changes
          current,          \* position of the configuration that is in force
          cluster,          \* the existing resources of the component, by kind and name
          pods,             \* pods of the debug info proxy exist
          queue,            \* callers with a request that is not yet taken up
          argument,         \* what a caller has read before it calls ReconcileSignalControl
          guard,            \* ReconcileGuard of the manager, or updateInProgress
          work,             \* the run in progress
          status,           \* what the status of the resources reports
          kubelet,          \* cached endpoint of the kubelet
          obsoleteDeleted,  \* obsoleteResourcesHaveBeenDeleted
          lost,             \* a request was dropped, served with a stale argument, or failed for good
          left              \* faults, deletions by users and restarts that may still happen

vars == <<scenario, current, cluster, pods, queue, argument, guard, work, status,
          kubelet, obsoleteDeleted, lost, left>>

component == scenario.component
cfg == scenario.configs[current]

Callers == {"configuration", "extraConfig", "watch"}
\* Variant of Guarded in which a request that arrives during a run is dropped.
GuardedCollectorOnly == {"collector"}

Guarded == {"collector", "ta", "a0c", "sw"}     \* the managers that use a ReconcileGuard

id(r) == <<r.kind, r.name>>

NotRead == [index |-> 0, degraded |-> FALSE]
Idle == [stage |-> "idle", caller |-> "watch", config |-> cfg, ops |-> <<>>, errors |-> <<>>,
         results |-> <<>>, repetitions |-> 0, requeue |-> FALSE]

-----------------------------------------------------------------------------
(* The endpoint of the kubelet: kubeletstats_endpoint_probe.go             *)

probeNodeIpEndpoints(n) ==
  CASE n.ip.secure = "ok"                            -> "nodeIp"
    [] n.ip.secure = "tlsError" /\ n.ip.insecure     -> "nodeIpInsecure"
    [] OTHER -> IF n.ip.readOnly THEN "nodeIpReadOnly" ELSE "disabled"

probeNodeNameEndpoint(n) ==
  CASE n.name.secure = "ok"                          -> "nodeName"
    [] n.name.secure = "tlsError" /\ n.name.insecure -> "nodeNameInsecure"
    [] OTHER                                         -> "disabled"

executeProbes(n) ==
  IF n.ip.known /\ probeNodeIpEndpoints(n) # "disabled" THEN probeNodeIpEndpoints(n)
  ELSE IF n.name.known THEN probeNodeNameEndpoint(n) ELSE "disabled"

\* A cached result is used as long as the metrics stay enabled.
determineKubeletstatsReceiverEndpoint(c, cached) ==
  CASE ~c.infrastructureMetrics -> [endpoint |-> "disabled", cache |-> "unset"]
    [] OTHER -> LET e == IF cached # "unset" THEN cached
                         ELSE IF ~c.autoDetect THEN "explicit" ELSE executeProbes(c.node)
                IN  [endpoint |-> e, cache |-> e]

\* Variant of targetAllocatorMtlsCaSha in which an unreadable certificate has no hash.
targetAllocatorMtlsCaShaOrNone(c, resources) == IF c.mtls THEN c.caCert ELSE ""

\* An unreadable certificate keeps the hash of the existing daemon set.
targetAllocatorMtlsCaSha(c, resources) ==
  LET existing == <<"DaemonSet", DaemonSetName>>
  IN  IF ~c.mtls THEN ""
      ELSE IF c.caCert # "" THEN c.caCert
      ELSE IF existing \in DOMAIN resources THEN resources[existing].spec.extra ELSE ""

-----------------------------------------------------------------------------
(* Plans: the API requests of a run, in order                              *)

op(name, r, group, phase) == [op |-> name, resource |-> r, group |-> group, phase |-> phase]
NoResource == [kind |-> "none", name |-> <<>>]

upserts(rs, group) == [k \in DOMAIN rs |-> op("apply", rs[k], group, 0)]
deletes(rs, phase) ==
  [k \in DOMAIN rs |-> op("delete", [kind |-> rs[k].kind, name |-> rs[k].name], "", phase)]
report(outcome, phase) == <<op("report", NoResource, outcome, phase)>>

\* errors are the failures known before the first request.
Plan(ops, errors) == [ops |-> ops, errors |-> errors, results |-> <<>>]

collectorEnabled(c) == c.present /\ (c.telemetry \/ c.sceOnly) /\ c.exports # <<>>

deleteObsoleteResourcesFromPreviousOperatorVersions ==
  IF obsoleteDeleted THEN <<>> ELSE deletes(compileObsoleteResources, 2)

createOrUpdateOpenTelemetryCollector(c, desired) ==
  IF getDefaultOtlpExporters(c.exports).ok
  THEN Plan(Concat(<<upserts(desired, ""), deletes(noLongerDesired(c, desired), 1),
                     deleteObsoleteResourcesFromPreviousOperatorVersions>>), <<>>)
  ELSE Plan(<<>>, <<"invalid">>)

removeOpenTelemetryCollector(c) == Plan(deletes(assembleDesiredStateForDelete(c), 1), <<>>)

reconcileOpenTelemetryCollector(c) ==
  IF collectorEnabled(c) THEN createOrUpdateOpenTelemetryCollector(c, assembleDesiredStateForUpsert(c))
  ELSE removeOpenTelemetryCollector(c)

targetAllocatorEnabled(c) ==
  c.present /\ c.telemetry /\ c.prometheusCrd /\ namespaceLists(c).scraping # {}

createOrUpdateTargetAllocator(c) ==
  Plan(upserts(taAssembleDesiredState(c, namespaceLists(c).scraping, FALSE), ""), <<>>)

removeTargetAllocator(c) == Plan(deletes(taAssembleDesiredState(c, {}, TRUE), 1), <<>>)

reconcileTargetAllocator(c) ==
  IF targetAllocatorEnabled(c) THEN createOrUpdateTargetAllocator(c) ELSE removeTargetAllocator(c)

agent0ConnectorEnabled(c) == c.present /\ c.agent0

\* A misconfiguration leaves the existing resources as they are.
misconfiguration(c) ==
  CASE ~validateClusterRoleRules(c.agent0Rules) -> <<"InvalidClusterRoleRules">>
    [] ~c.agent0Token                           -> <<"NoAuthorizationToken">>
    [] OTHER                                    -> <<>>

createOrUpdateAgent0Connector(c) ==
  IF misconfiguration(c) = <<>>
  THEN Plan(upserts(a0cAssembleDesiredState(c), "") \o report("Deployed", 0), <<>>)
  ELSE Plan(report("Deployed", 0), misconfiguration(c))

\* Without an operator configuration there is nothing to report to.
removeAgent0Connector(c) ==
  Plan(deletes(a0cAssembleDesiredState(c), 1) \o (IF c.present THEN report("Disabled", 2) ELSE <<>>), <<>>)

reconcileAgent0Connector(c) ==
  IF agent0ConnectorEnabled(c) THEN createOrUpdateAgent0Connector(c) ELSE removeAgent0Connector(c)

syntheticsWorkerEnabled(c) == c.present /\ c.syntheticsEnabled

\* The instances come one after the other, then the orphaned resources.
createOrUpdateSyntheticsWorker(c, instances) ==
  [Plan(Concat(Append([k \in DOMAIN instances |-> upserts(swAssembleDesiredState(c, instances[k]), instances[k])],
                      <<op("list", NoResource, "", 0)>> \o report("Deployed", 0))), <<>>)
   EXCEPT !.results = [l \in c.synthetics \cap c.syntheticsNoToken |-> "NoAuthorizationToken"]]

removeSyntheticsWorker(c) ==
  Plan(<<op("list", NoResource, "", 0)>> \o (IF c.present THEN report("Disabled", 2) ELSE <<>>), <<>>)

reconcileSyntheticsWorker(c) ==
  IF syntheticsWorkerEnabled(c)
  THEN createOrUpdateSyntheticsWorker(c, SetToSeq(c.synthetics \ c.syntheticsNoToken))
  ELSE removeSyntheticsWorker(c)

hasDash0Export(c) == c.present /\ deriveDash0EndpointsAndDataset(c.exports).found

signalControlEnabled(c) == c.sc.present /\ c.sc.enabled

\* By name, like noLongerDesired.
createOrUpdateSignalControl(desired, possible) ==
  Plan(upserts(desired, "") \o
       deletes(SelectSeq(possible, LAMBDA r : \A d \in ToSet(desired) : d.name # r.name), 1), <<>>)

removeSignalControl(possible) == Plan(deletes(possible, 1), <<>>)

\* The resource is the one the caller has read (or none); the operator
\* configuration and the extra configuration are read now.
ReconcileSignalControl(read, c) ==
  LET e == [c EXCEPT !.sc = IF read.degraded THEN [@ EXCEPT !.present = FALSE]
                            ELSE scenario.configs[read.index].sc]
      possible == scAssembleDesiredState(e, TRUE)
  IN  IF signalControlEnabled(e) /\ hasDash0Export(e)
      THEN createOrUpdateSignalControl(scAssembleDesiredState(e, FALSE), possible)
      ELSE removeSignalControl(possible)

profilingEnabled(c) == c.present /\ c.telemetry /\ c.exports # <<>> /\ c.profiling

\* Variant of prDeleteResources that does not wait for the pods of the proxy.
prDeleteResourcesAtOnce(proxyOnly) ==
  deletes([k \in 1 .. 5 |-> [kind |-> <<"DaemonSet", "Service", "ConfigMap", "NetworkPolicy", "ServiceAccount">>[k],
                             name |-> prName(proxyComponent)]], 1)

\* The proxy's pods have to be gone before what they depend on is deleted.
prDeleteResources(proxyOnly) ==
  LET of(comp, kinds) == deletes([k \in DOMAIN kinds |-> [kind |-> kinds[k], name |-> prName(comp)]], 1)
  IN  Concat(<<IF proxyOnly THEN <<>> ELSE of(profilerComponent, <<"DaemonSet", "ServiceAccount">>),
               of(proxyComponent, <<"DaemonSet">>), <<op("drain", NoResource, "", 1)>>,
               of(proxyComponent, <<"Service", "ConfigMap", "NetworkPolicy", "ServiceAccount">>)>>)

prCreateOrUpdateResources(c) ==
  IF validateImages(c)
  THEN Plan(upserts(prAssembleDesiredState(c), "") \o (IF uploads(c) THEN <<>> ELSE prDeleteResources(TRUE)), <<>>)
  ELSE Plan(<<>>, <<"invalid">>)

reconcileProfiling(c) ==
  IF profilingEnabled(c) THEN prCreateOrUpdateResources(c) ELSE Plan(prDeleteResources(FALSE), <<>>)

PlanOf(c, read) ==
  CASE component = "collector" -> reconcileOpenTelemetryCollector(c)
    [] component = "ta"        -> reconcileTargetAllocator(c)
    [] component = "a0c"       -> reconcileAgent0Connector(c)
    [] component = "sw"        -> reconcileSyntheticsWorker(c)
    [] component = "sc"        -> ReconcileSignalControl(read, c)
    [] component = "pr"        -> reconcileProfiling(c)

-----------------------------------------------------------------------------
(* One request                                                             *)

\* The controller of a component is called when one of these resources changes.
collectorWatches ==
       {<<"ConfigMap", n>> : n \in {DaemonSetCollectorConfigConfigMapName, DeploymentCollectorConfigConfigMapName,
                                    SignalControlCollectorConfigConfigMapName}}
  \cup {<<"ClusterRole", n>> : n \in {DaemonSetClusterRoleName, DeploymentClusterRoleName}}
  \cup {<<"ClusterRoleBinding", n>> : n \in {DaemonSetClusterRoleBindingName, DeploymentClusterRoleBindingName}}
  \cup {<<"Service", n>> : n \in {ServiceName, SignalControlCollectorServiceName}}
  \cup {<<"DaemonSet", DaemonSetName>>, <<"Deployment", DeploymentName>>,
        <<"Deployment", SignalControlCollectorDeploymentName>>, <<"PodDisruptionBudget", SignalControlCollectorPdbName>>}

taWatches ==
  {<<"ConfigMap", taConfigMapName>>, <<"ServiceAccount", taServiceAccountName>>, <<"ClusterRole", taClusterRoleName>>,
   <<"ClusterRoleBinding", taClusterRoleBindingName>>, <<"Service", taServiceName>>, <<"Deployment", taDeploymentName>>}

a0cWatches ==
  {<<"ServiceAccount", a0cServiceAccountName>>, <<"ClusterRole", a0cClusterRoleName>>,
   <<"ClusterRoleBinding", a0cClusterRoleBindingName>>, <<"Deployment", a0cDeploymentName>>}

swWatches == {"ServiceAccount", "Deployment"}       \* with the label of the feature
prWatches == {"DaemonSet", "ServiceAccount", "ConfigMap", "Service", "NetworkPolicy"}

watched(i) ==
  CASE component = "collector" -> i \in collectorWatches
    [] component = "ta"        -> i \in taWatches
    [] component = "a0c"       -> i \in a0cWatches
    [] component = "sw"        -> i[1] \in swWatches
    [] component = "pr"        -> i[1] \in prWatches
    [] OTHER                   -> FALSE

event(i) == IF watched(i) THEN {"watch"} ELSE {}

\* Secrets are watched as well: the certificate authority, and the tokens.
targetAllocatorMtlsClientCertSecretPredicate(old, new) == new.mtls /\ old.caCert # new.caCert
secretRequests(old, new) == new.present /\ old.secretVersion # new.secretVersion

isWorkload(r) == r.kind \in {"DaemonSet", "Deployment"}

\* These workloads get their own UID as an environment variable.
selfReferencing(r) ==
  component = "collector" /\ r.name \in {DaemonSetName, DeploymentName, SignalControlCollectorDeploymentName}

Live(r, selfRef) ==
  [spec |-> r, selfRef |-> selfRef, adjusted |-> isWorkload(r) /\ work.config.gkeAutopilot,
   terminating |-> FALSE, foreign |-> FALSE]

\* Variant of AdoptGkeAutopilotResourceAdjustments in which the raised values are a change.
KeepRequestedResources(live, r) == FALSE

\* GKE Autopilot raises the resources of the containers, and records its input.
\* The raised values count as unchanged if the input is what is desired.
AdoptGkeAutopilotResourceAdjustments(live, r) == live.spec.pod.resources = r.pod.resources

\* External: the patch maker reports the selector of a disruption budget every time.
Patch(live, r) ==
       (IF live.spec # r THEN {"spec"} ELSE {})
  \cup (IF live.adjusted /\ ~AdoptGkeAutopilotResourceAdjustments(live, r) THEN {"resources"} ELSE {})
  \cup (IF r.kind = "PodDisruptionBudget" THEN {"selector"} ELSE {})

isKnownIrrelevantPatch(r, patch) == r.kind = "PodDisruptionBudget" /\ patch = {"selector"}

\* The update functions of the managers: is the resource written?
collectorUpdateResource(live, r) ==
  LET patch == Patch(live, r) \cup (IF selfReferencing(r) /\ ~live.selfRef THEN {"selfRef"} ELSE {})
  IN  patch # {} /\ ~isKnownIrrelevantPatch(r, patch)
taUpdateResource(live, r)  == Patch(live, r) # {}
a0cUpdateResource(live, r) == Patch(live, r) # {}
scUpdateResource(live, r)  == Patch(live, r) # {}
swUpdateResource(live, r)  == Patch(live, r) # {}
prApply(live, r)           == live.spec # r

updateResource(live, r) ==
  CASE component = "collector" -> collectorUpdateResource(live, r)
    [] component = "ta"        -> taUpdateResource(live, r)
    [] component = "a0c"       -> a0cUpdateResource(live, r)
    [] component = "sc"        -> scUpdateResource(live, r)
    [] component = "sw"        -> swUpdateResource(live, r)
    [] component = "pr"        -> prApply(live, r)

\* The resources after a request has been served, and the callers it notifies.
createOrUpdateResource(r) ==
  IF id(r) \notin DOMAIN cluster
  THEN [cluster |-> id(r) :> Live(r, FALSE) @@ cluster, notify |-> event(id(r))]
  ELSE IF updateResource(cluster[id(r)], r)
  THEN [cluster |-> [cluster EXCEPT ![id(r)] = [Live(r, selfReferencing(r)) EXCEPT !.terminating = cluster[id(r)].terminating]],
        notify |-> event(id(r))]
  ELSE [cluster |-> cluster, notify |-> {}]

\* The daemon set of the proxy stays until its pods are gone.
isProxyDaemonSet(i) == i = <<"DaemonSet", prName(proxyComponent)>>

deleteResource(r) ==
  IF id(r) \notin DOMAIN cluster THEN [cluster |-> cluster, notify |-> {}]
  ELSE IF isProxyDaemonSet(id(r))
  THEN [cluster |-> [cluster EXCEPT ![id(r)].terminating = TRUE],
        notify |-> IF cluster[id(r)].terminating THEN {} ELSE event(id(r))]
  ELSE [cluster |-> Without(cluster, {id(r)}), notify |-> event(id(r))]

isForeign(r) == id(r) \in DOMAIN cluster /\ cluster[id(r)].foreign

\* The resources with the feature label that belong to none of the instances.
orphaned ==
  LET locations == IF work.config.present /\ work.config.syntheticsEnabled THEN work.config.synthetics ELSE {}
      names == {swServiceAccountName(l) : l \in locations} \cup {swDeploymentName(l) : l \in locations}
      all == {cluster[i].spec : i \in DOMAIN cluster}
      listed == {r \in all : selects(FeatureLabelSelector, r.extra) /\ r.name \notin names}
      of(kind) == SetToSeq({r \in listed : r.kind = kind})
  IN  deletes(of("Deployment") \o of("ServiceAccount"), 1)

\* The programmatic reason of a failure.
a0cFailureReason(kind) ==
  CASE kind = "forbidden" -> "OperatorMissingPermissions"
    [] kind \in {"InvalidClusterRoleRules", "NoAuthorizationToken"} -> kind
    [] OTHER -> "ReconcileFailed"

swFailureReason(kind) ==
  CASE kind = "NoAuthorizationToken" -> kind
    [] kind = "forbidden" -> "OperatorMissingPermissions"
    [] OTHER -> "ReconcileFailed"

a0cReportStatus(outcome) ==
  agent0Connector :> (IF work.errors = <<>> THEN outcome ELSE a0cFailureReason(work.errors[1]))

\* One entry for every instance; none if the feature is disabled.
swReportStatus(outcome) ==
  IF outcome = "Disabled" THEN <<>>
  ELSE [l \in work.config.synthetics |->
          IF l \in DOMAIN work.results THEN swFailureReason(work.results[l]) ELSE outcome]

\* Variant of reportStatus that does not look at the errors.
reportStatusOfAttempt(outcome) ==
  IF component = "a0c" THEN agent0Connector :> outcome ELSE [l \in work.config.synthetics |-> outcome]

reportStatus(outcome) == IF component = "a0c" THEN a0cReportStatus(outcome) ELSE swReportStatus(outcome)

\* What is left of the run after a request has failed.
remaining(failed) ==
  LET keep(o) ==
        CASE o.op = "report"     -> o.phase = 0
          [] component = "pr"    -> FALSE
          [] component = "sw"    -> failed.op = "apply" => ~(o.op = "apply" /\ o.group = failed.group)
          [] failed.op = "delete" -> o.phase = failed.phase
          [] OTHER               -> FALSE
  IN  SelectSeq(Tail(work.ops), keep)

-----------------------------------------------------------------------------
(* Actions                                                                 *)

Init ==
  /\ scenario \in Scenarios
  /\ current = 1
  /\ cluster = scenario.initial
  /\ pods = FALSE
  /\ queue = {"configuration"} \cup (IF component = "sc" THEN {"watch"} ELSE {})
  /\ argument = [caller \in Callers |-> NotRead]
  /\ guard = [running |-> FALSE, pending |-> FALSE]
  /\ work = Idle
  /\ status = <<>>
  /\ kubelet = "unset"
  /\ obsoleteDeleted = FALSE
  /\ lost = FALSE
  /\ left = scenario.left

ChangeConfig ==
  /\ current < Len(scenario.configs)
  /\ current' = current + 1
  /\ LET new == scenario.configs[current + 1]
         secret == \/ component = "collector" /\ targetAllocatorMtlsClientCertSecretPredicate(cfg, new)
                   \/ component = "pr" /\ secretRequests(cfg, new)
     IN  queue' = (queue \cup (IF secret THEN {"watch"} ELSE {})) \cup ({new.via} \cap Callers)
  /\ UNCHANGED <<scenario, cluster, pods, argument, guard, work, status, kubelet, obsoleteDeleted, lost, left>>

busy(caller) == work.stage # "idle" /\ work.caller = caller

\* SignalControlReconciler.Reconcile and SignalControlManager.Reconcile read the
\* resource before they call ReconcileSignalControl; the latter is not called
\* by the manager if there is none.
ReadResource(caller) ==
  /\ component = "sc" /\ caller \in queue /\ ~busy(caller) /\ argument[caller] = NotRead
  /\ queue' = queue \ {caller}
  /\ argument' = IF caller = "watch"
                 THEN [argument EXCEPT ![caller] = [index    |-> current,
                                                    degraded |-> signalControlEnabled(cfg) /\ ~hasDash0Export(cfg)]]
                 ELSE IF cfg.sc.present
                 THEN [argument EXCEPT ![caller] = [index |-> current, degraded |-> FALSE]]
                 ELSE argument
  /\ UNCHANGED <<scenario, current, cluster, pods, guard, work, status, kubelet, obsoleteDeleted, lost, left>>

calls(caller) ==
  ~busy(caller) /\ IF component = "sc" THEN argument[caller] # NotRead ELSE caller \in queue

\* ReconcileGuard.acquire, or the compare-and-swap of updateInProgress.
Acquire(caller) ==
  /\ calls(caller) /\ ~guard.running
  /\ queue' = IF component = "sc" THEN queue ELSE queue \ {caller}
  /\ guard' = [guard EXCEPT !.running = TRUE]
  /\ work' = [Idle EXCEPT !.stage = IF component \in Guarded THEN "clear" ELSE "read", !.caller = caller]
  /\ UNCHANGED <<scenario, current, cluster, pods, argument, status, kubelet, obsoleteDeleted, lost, left>>

\* A run is in progress.  The guard remembers the request; Signal Control does
\* not, but reports the resource as available; the controller of the profiler
\* has one worker, so that the request waits in its queue.
Skip(caller) ==
  /\ calls(caller) /\ guard.running /\ component # "pr"
  /\ queue' = IF component # "sc" THEN queue \ {caller}
              ELSE IF argument[caller].degraded THEN queue \cup {caller} ELSE queue
  /\ guard' = [guard EXCEPT !.pending = component \in Guarded]
  /\ argument' = [argument EXCEPT ![caller] = NotRead]
  /\ lost' = (lost \/ component = "sc")
  /\ status' = IF component = "sc" /\ caller = "watch" /\ cfg.sc.present
               THEN "resource" :> (IF argument[caller].degraded THEN "NoDash0Export" ELSE "Available") ELSE status
  /\ UNCHANGED <<scenario, current, cluster, pods, work, kubelet, obsoleteDeleted, left>>

ClearPending ==
  /\ work.stage = "clear"
  /\ guard' = [guard EXCEPT !.pending = FALSE]
  /\ work' = [work EXCEPT !.stage = "read"]
  /\ UNCHANGED <<scenario, current, cluster, pods, queue, argument, status, kubelet, obsoleteDeleted, lost, left>>

\* The run reads the configuration, from which everything else follows.
ReadConfig ==
  /\ work.stage = "read"
  /\ \E probed \in {IF component = "collector" /\ ~cfg.sceOnly
                    THEN determineKubeletstatsReceiverEndpoint(cfg, kubelet)
                    ELSE [endpoint |-> "disabled", cache |-> kubelet]} :
       /\ \E c \in {[cfg EXCEPT !.kubelet = probed.endpoint, !.caSha = targetAllocatorMtlsCaSha(cfg, cluster)]} :
            \E plan \in {PlanOf(c, argument[work.caller])} :
              work' = [work EXCEPT !.stage = "run", !.config = c, !.ops = plan.ops,
                                   !.errors = plan.errors, !.results = plan.results]
       /\ kubelet' = IF component = "collector" /\ collectorEnabled(cfg) THEN probed.cache ELSE kubelet
  /\ lost' = (component = "sc" /\ argument[work.caller].index # current)
  /\ UNCHANGED <<scenario, current, cluster, pods, queue, argument, guard, status, obsoleteDeleted, left>>

\* The next request of the run is served.
Execute ==
  /\ work.stage = "run" /\ work.ops # <<>>
  /\ LET o == Head(work.ops)
         rest == [work EXCEPT !.ops = Tail(@)]
         apply == createOrUpdateResource(o.resource)
         delete == deleteResource(o.resource)
     IN  \/ /\ o.op = "apply" /\ ~isForeign(o.resource)
            /\ cluster' = apply.cluster /\ queue' = queue \cup apply.notify
            /\ pods' = (pods \/ isProxyDaemonSet(id(o.resource)))
            /\ work' = rest /\ UNCHANGED status
         \/ /\ o.op = "apply" /\ isForeign(o.resource)
            /\ work' = [work EXCEPT !.ops = remaining(o), !.errors = Append(@, "foreign")]
            /\ UNCHANGED <<cluster, queue, pods, status>>
         \/ /\ o.op = "delete" /\ ~isForeign(o.resource)
            /\ cluster' = delete.cluster /\ queue' = queue \cup delete.notify
            /\ work' = rest /\ UNCHANGED <<pods, status>>
         \/ /\ o.op = "delete" /\ isForeign(o.resource)
            /\ work' = [rest EXCEPT !.ops = SelectSeq(@, LAMBDA x : isProxyDaemonSet(id(o.resource)) => x.op # "drain")]
            /\ UNCHANGED <<cluster, queue, pods, status>>
         \/ /\ o.op = "list"
            /\ work' = [work EXCEPT !.ops = orphaned \o Tail(@)]
            /\ UNCHANGED <<cluster, queue, pods, status>>
         \/ /\ o.op = "drain"
            /\ work' = IF pods \/ <<"DaemonSet", prName(proxyComponent)>> \in DOMAIN cluster
                       THEN [work EXCEPT !.ops = <<>>, !.requeue = TRUE] ELSE rest
            /\ UNCHANGED <<cluster, queue, pods, status>>
         \/ /\ o.op = "report"
            /\ status' = IF cfg.present THEN reportStatus(o.group) ELSE status
            /\ work' = rest /\ UNCHANGED <<cluster, queue, pods>>
  /\ UNCHANGED <<scenario, current, argument, guard, kubelet, obsoleteDeleted, lost, left>>

\* The next request fails: a response of the API server, a missing permission, or
\* no response at all.  A failed update of the status is only logged, and one of
\* an instance for lack of a permission does not count as a failure of the run.
Fail(kind) ==
  /\ work.stage = "run" /\ work.ops # <<>> /\ left.faults > 0 /\ kind \in scenario.faults
  /\ left' = [left EXCEPT !.faults = @ - 1]
  /\ LET o == Head(work.ops)
         instance == component = "sw" /\ o.op = "apply"
     IN  IF o.op = "report"
         THEN work' = [work EXCEPT !.ops = Tail(@)] /\ lost' = TRUE
         ELSE /\ work' = [work EXCEPT !.ops = remaining(o),
                                      !.errors = IF instance /\ kind = "forbidden" THEN @ ELSE Append(@, kind),
                                      !.results = IF instance THEN o.group :> kind @@ @ ELSE @]
              /\ UNCHANGED lost
  /\ UNCHANGED <<scenario, current, cluster, pods, queue, argument, guard, status, kubelet, obsoleteDeleted>>

\* IsNonBlockingError: the first error of the API server in the joined errors.
nonBlocking(errors) ==
  LET fromServer == SelectSeq(errors, LAMBDA k : k \in {"api", "forbidden"})
  IN  CASE component = "a0c" -> \E k \in ToSet(errors) : k \in {"InvalidClusterRoleRules", "NoAuthorizationToken"}
        [] component = "sw"  -> /\ work.config.present /\ work.config.syntheticsEnabled
                                /\ fromServer # <<>> /\ fromServer[1] = "forbidden"
        [] OTHER             -> FALSE

\* The run ends: ReconcileGuard.releaseUnlessPending, and what the caller does
\* with the result.  A failure is tried again by a controller, but not after a
\* change of the extra configuration.
Finish ==
  /\ work.stage = "run" /\ work.ops = <<>>
  /\ LET failed == work.errors # <<>> /\ ~nonBlocking(work.errors)
         repeat == ~failed /\ guard.pending /\ work.repetitions < MaxRepetitions
         dropping == ~failed /\ guard.pending /\ ~repeat
         degraded == argument[work.caller].degraded
         again == failed \/ degraded \/ work.requeue
         missing == component = "sw" /\ ~failed /\
                    (work.errors # <<>> \/ \E l \in DOMAIN work.results : work.results[l] = "forbidden")
     IN  /\ guard' = IF repeat THEN guard ELSE [running |-> FALSE, pending |-> guard.pending /\ ~dropping]
         /\ work' = IF repeat THEN [Idle EXCEPT !.stage = "clear", !.caller = work.caller,
                                                !.repetitions = work.repetitions + 1]
                    ELSE Idle
         /\ queue' = IF again /\ work.caller # "extraConfig" THEN queue \cup {work.caller} ELSE queue
         /\ lost' = (lost \/ dropping \/ missing \/ (failed /\ work.caller = "extraConfig"))
         /\ argument' = [argument EXCEPT ![work.caller] = NotRead]
         /\ obsoleteDeleted' = (obsoleteDeleted \/ (component = "collector" /\ work.errors = <<>>
                                                     /\ collectorEnabled(work.config)))
         /\ status' = IF component = "sc" /\ work.caller = "watch" /\ cfg.sc.present /\ ~(degraded /\ failed)
                      THEN "resource" :> (IF degraded THEN "NoDash0Export"
                                          ELSE IF failed THEN "ReconcileFailed" ELSE "Available")
                      ELSE status
  /\ UNCHANGED <<scenario, current, cluster, pods, kubelet, left>>

\* The pods of a deleted proxy come to their end, then its daemon set.
PodsTerminate ==
  LET i == <<"DaemonSet", prName(proxyComponent)>>
  IN  /\ pods /\ (i \in DOMAIN cluster => cluster[i].terminating)
      /\ pods' = FALSE
      /\ cluster' = Without(cluster, {i})
      /\ queue' = queue \cup (IF i \in DOMAIN cluster THEN {"watch"} ELSE {})
      /\ UNCHANGED <<scenario, current, argument, guard, work, status, kubelet, obsoleteDeleted, lost, left>>

\* Somebody deletes a resource of the component.
Tamper(i) ==
  /\ i \in scenario.tampered /\ i \in DOMAIN cluster /\ left.tampering > 0
  /\ left' = [left EXCEPT !.tampering = @ - 1]
  /\ cluster' = Without(cluster, {i})
  /\ queue' = queue \cup event(i)
  /\ lost' = (lost \/ ~watched(i))
  /\ UNCHANGED <<scenario, current, pods, argument, guard, work, status, kubelet, obsoleteDeleted>>

\* The operator restarts: the controllers see every existing resource they watch.
Restart ==
  /\ left.restarts > 0
  /\ left' = [left EXCEPT !.restarts = @ - 1]
  /\ queue' =    (IF cfg.present THEN {"configuration"} ELSE {})
            \cup (IF \E i \in DOMAIN cluster : watched(i) THEN {"watch"} ELSE {})
            \cup (IF component = "sc" /\ cfg.sc.present THEN {"watch"} ELSE {})
  /\ argument' = [caller \in Callers |-> NotRead]
  /\ guard' = [running |-> FALSE, pending |-> FALSE]
  /\ work' = Idle
  /\ kubelet' = "unset" /\ obsoleteDeleted' = FALSE
  /\ lost' = (queue' = {} \/ (component = "sc" /\ ~cfg.sc.present))
  /\ UNCHANGED <<scenario, current, cluster, pods, status>>

Next ==
  \/ ChangeConfig
  \/ \E caller \in Callers : ReadResource(caller) \/ Acquire(caller) \/ Skip(caller)
  \/ ClearPending \/ ReadConfig \/ Execute \/ Finish
  \/ \E kind \in {"api", "net", "forbidden"} : Fail(kind)
  \/ PodsTerminate
  \/ \E i \in scenario.tampered : Tamper(i)
  \/ Restart

Spec == Init /\ [][Next]_vars

\* The controllers take up requests and runs make progress; pods terminate.
\* The second conjunct is the weak fairness of ReadConfig, which is enabled
\* exactly in that stage.
Fairness ==
  /\ WF_vars(ClearPending \/ Execute \/ Finish)
  /\ []<>(work.stage # "read")
  /\ \A caller \in Callers : WF_vars(ReadResource(caller) \/ Acquire(caller) \/ Skip(caller))
  /\ WF_vars(PodsTerminate)

FairSpec == Spec /\ Fairness

-----------------------------------------------------------------------------
(* Properties                                                              *)

\* Every variable has a value of its kind, and a run has one caller.
TypeOK ==
  /\ scenario \in Scenarios /\ current \in DOMAIN scenario.configs
  /\ \A i \in DOMAIN cluster : i = id(cluster[i].spec)
  /\ queue \subseteq Callers
  /\ guard \in [running : BOOLEAN, pending : BOOLEAN]
  /\ work.stage \in {"idle", "clear", "read", "run"}
  /\ work.caller \in Callers /\ work.repetitions \in 0 .. MaxRepetitions
  /\ guard.running = (work.stage # "idle")
  /\ pods \in BOOLEAN /\ lost \in BOOLEAN /\ obsoleteDeleted \in BOOLEAN

\* The configuration as the next run would see it.  An endpoint of the kubelet that
\* was found once is kept while metrics are enabled, even if the node changes.
Effective(c) ==
  [c EXCEPT !.kubelet = IF component # "collector" \/ c.sceOnly \/ ~c.infrastructureMetrics THEN "disabled"
                        ELSE IF kubelet # "unset" THEN kubelet
                        ELSE IF c.autoDetect THEN executeProbes(c.node) ELSE "explicit",
            !.caSha   = targetAllocatorMtlsCaSha(c, cluster)]

\* What has to exist for a configuration.
Wanted(c) ==
  CASE component = "collector" -> IF collectorEnabled(c) THEN assembleDesiredStateForUpsert(c) ELSE <<>>
    [] component = "ta"  -> IF targetAllocatorEnabled(c)
                            THEN taAssembleDesiredState(c, namespaceLists(c).scraping, FALSE) ELSE <<>>
    [] component = "a0c" -> IF agent0ConnectorEnabled(c) THEN a0cAssembleDesiredState(c) ELSE <<>>
    [] component = "sc"  -> IF signalControlEnabled(c) /\ hasDash0Export(c)
                            THEN scAssembleDesiredState(c, FALSE) ELSE <<>>
    [] component = "sw"  -> IF c.present /\ c.syntheticsEnabled
                            THEN Concat([k \in DOMAIN SetToSeq(c.synthetics \ c.syntheticsNoToken) |->
                                   swAssembleDesiredState(c, SetToSeq(c.synthetics \ c.syntheticsNoToken)[k])])
                            ELSE <<>>
    [] component = "pr"  -> IF profilingEnabled(c) THEN prAssembleDesiredState(c) ELSE <<>>

\* What may exist beside that: resources of others, the offsets of the log files
\* once they are kept in a volume, resources of earlier versions while there are
\* no collectors, and those of an instance that has lost its token.
Tolerated(c) ==
       {i \in DOMAIN cluster : cluster[i].foreign}
  \cup (IF component = "collector" /\ c.offsetStorageVolume
        THEN {<<"ConfigMap", FilelogReceiverOffsetsConfigMapName>>} ELSE {})
  \cup (IF component = "collector" /\ ~collectorEnabled(c)
        THEN {id(o) : o \in ToSet(compileObsoleteResources)} ELSE {})
  \cup (IF component = "sw"
        THEN UNION {{<<"ServiceAccount", swServiceAccountName(l)>>, <<"Deployment", swDeploymentName(l)>>} :
                    l \in c.synthetics \cap c.syntheticsNoToken}
        ELSE {})

AsWanted(c) ==
  LET wanted == ToSet(Wanted(Effective(c)))
  IN  /\ \A r \in wanted : /\ id(r) \in DOMAIN cluster
                           /\ cluster[id(r)].spec = r
                           /\ selfReferencing(r) => cluster[id(r)].selfRef
      /\ DOMAIN cluster \subseteq {id(r) : r \in wanted} \cup Tolerated(c)

AtRest == queue = {} /\ work.stage = "idle" /\ \A caller \in Callers : argument[caller] = NotRead

Misconfigured(c) == component = "a0c" /\ agent0ConnectorEnabled(c) /\ misconfiguration(c) # <<>>

\* Once nothing is left to do, exactly the resources that the latest
\* configuration asks for exist, whatever changed or failed while a run was in
\* progress (ReconcileGuard, requeued requests, events of the written resources).
AtRestAsDesired == AtRest /\ ~lost /\ ~Misconfigured(cfg) => AsWanted(cfg)

\* Configurations that fail in every run, and are tried again until they change.
Rejected(c) ==
  CASE component = "collector" -> collectorEnabled(c) /\ ~getDefaultOtlpExporters(c.exports).ok
    [] component = "sc"        -> signalControlEnabled(c) /\ ~hasDash0Export(c)
    [] component = "pr"        -> profilingEnabled(c) /\ ~validateImages(c)
    [] OTHER                   -> FALSE

\* The operator comes to rest: a run that has nothing to change writes nothing,
\* so that its own writes do not trigger it again (AdoptGkeAutopilotResourceAdjustments).
EventuallySettled == <>[](AtRest \/ Rejected(cfg))

\* While pods of the debug info proxy run, the service account, the
\* configuration and the network policy they need are there (DeleteResources).
ProxyDependenciesStay ==
  pods => \A kind \in {"ServiceAccount", "ConfigMap", "NetworkPolicy"} :
            <<kind, prName(proxyComponent)>> \in DOMAIN cluster

\* Pods find what they need in every state a run passes through, whether it creates
\* resources or deletes them, and wherever it fails: a workload is created after its
\* service account and the config maps it mounts (the order of the assembled
\* resources), and the proxy's pods are gone before what they need is deleted.
PodsHaveWhatTheyNeed ==
  [][/\ ProxyDependenciesStay'
     /\ \A i \in DOMAIN cluster' \ DOMAIN cluster :
          isWorkload(cluster'[i].spec) =>
            LET pod == cluster'[i].spec.pod
            IN  /\ pod.sa = <<>> \/ pod.sa = cfg.daemonSetServiceAccount
                   \/ <<"ServiceAccount", pod.sa>> \in DOMAIN cluster'
                /\ \A v \in pod.volumes :
                     v.source[1] = "configMap" => <<"ConfigMap", v.source[2]>> \in DOMAIN cluster']_vars

\* What the status says of the Agent0 connector and of every synthetics worker
\* is true once nothing is left to do: one reported as deployed exists as
\* desired, and one that is reported as disabled does not exist.
StatusTellsTheTruth ==
  AtRest /\ ~lost /\ cfg.present =>
    \A subject \in DOMAIN status :
      CASE status[subject] = "Disabled" -> DOMAIN cluster = {}
        [] status[subject] = "Deployed" ->
             \A r \in ToSet(IF component = "a0c" THEN a0cAssembleDesiredState(cfg)
                            ELSE swAssembleDesiredState(cfg, subject)) :
               id(r) \in DOMAIN cluster /\ cluster[id(r)].spec = r
        [] status[subject] = "Available" -> AsWanted(cfg)
        [] OTHER -> TRUE

\* At rest, cluster, configuration and status agree.
ComponentsAreAsDesired == TypeOK /\ AtRestAsDesired /\ StatusTellsTheTruth

\* The cluster role of the Agent0 connector never grants more than reading,
\* whatever rules the user configures; the one exception are the reviews of the
\* connector's own permissions (validateClusterRoleRules).
AgentCanOnlyRead ==
  LET i == <<"ClusterRole", a0cClusterRoleName>>
  IN  i \in DOMAIN cluster =>
        \A r \in cluster[i].spec.rules : \A verb \in r.verbs \ {"get", "list"} :
          /\ verb = "create" /\ r.urls = {}
          /\ \A g \in r.groups, res \in r.resources :
               g = "authorization.k8s.io" /\ res \in {"selfsubjectaccessreviews", "selfsubjectrulesreviews"}

\* While the certificate authority of the target allocator cannot be read, the
\* pods of the existing daemon set are not restarted because of it, since they
\* could not mount the secret either (targetAllocatorMtlsCaSha).
UnreadableSecretDoesNotRestart ==
  [][LET i == <<"DaemonSet", DaemonSetName>>
     IN  work.stage = "run" /\ work.config.mtls /\ work.config.caCert = ""
         /\ i \in DOMAIN cluster /\ i \in DOMAIN cluster' =>
           cluster'[i].spec.extra = cluster[i].spec.extra]_vars

=============================================================================
