------------------------- MODULE CollectorPipelines -------------------------
(***************************************************************************)
(* One telemetry record on its way through the collectors the operator has *)
(* rendered for a configuration: the filters and the transformations of    *)
(* the producer collectors, then the routing to the exporters, directly or *)
(* through the Signal Control collector.                                   *)
(***************************************************************************)
EXTENDS ComponentResources

CONSTANTS Configurations,   \* configurations with the filters and transformations for all namespaces
          Records           \* the records that may arrive

VARIABLES config,     \* the configuration
          rendered,   \* what the operator has derived from it
          record      \* the record, how far it has come and what has happened to it

vars == <<config, rendered, record>>

nothing == [done |-> FALSE]
noRecord == [stage |-> "none"]

SignalOf(slot) == CASE slot \in {"span", "spanEvent"}    -> "traces"
                    [] slot \in {"metric", "dataPoint"}  -> "metrics"
                    [] slot = "logRecord"                -> "logs"
                    [] slot = "profile"                  -> "profiles"

\* The workloads of the operator whose telemetry is kept although their namespace
\* is not monitored.
selfMonitoringExclusions(c) ==
  IF ~c.selfMonitoring THEN {}
  ELSE    {<<"operator-manager">>, DaemonSetName, DeploymentName}
    \cup  (IF c.prometheusCrd THEN {taDeploymentName} ELSE {})
    \cup  (IF signalControlGatewayActive(c) THEN {SignalControlCollectorDeploymentName} ELSE {})
    \cup  (IF SignalControl(c).EdgeProxyEnabled THEN {scDeploymentName} ELSE {})
    \cup  (IF c.agent0 THEN {a0cDeploymentName} ELSE {})
    \cup  {swDeploymentName(l) : l \in c.synthetics}

\* Whether the namespace filter drops what a workload in a namespace emits.
renderOttlNamespaceFilter(c, w, ns) ==
  /\ ~(w \in selfMonitoringExclusions(c) /\ ns = OperatorNamespace)
  /\ ns # NoNamespace
  /\ \A m \in c.monitorings : ns # m.ns

-----------------------------------------------------------------------------
(* Actions                                                                 *)

Render ==
  /\ ~rendered.done
  /\ rendered' = [done       |-> TRUE,
                  resources  |-> ToSet(assembleDesiredStateForUpsert(config)),
                  filters    |-> aggregateCustomFilters(config.monitorings, config.globalFilter),
                  transforms |-> aggregateCustomTransforms(config.monitorings, config.globalTransform)]
  /\ UNCHANGED <<config, record>>

Receive(r) ==
  /\ rendered.done /\ record.stage = "none"
  /\ record' = [stage |-> "received", slot |-> r.slot, ns |-> r.ns, workload |-> r.workload,
                truths |-> r.truths, statements |-> <<>>, exporters |-> <<>>]
  /\ UNCHANGED <<config, rendered>>

\* Metrics and profiles are collected in all namespaces and filtered here.
FilterByNamespace ==
  /\ record.stage = "received"
  /\ record' = [record EXCEPT !.stage =
       IF /\ SignalOf(record.slot) \in {"metrics", "profiles"}
          /\ renderOttlNamespaceFilter(config, record.workload, record.ns)
       THEN "outside" ELSE "monitored"]
  /\ UNCHANGED <<config, rendered>>

FilterByConditions ==
  /\ record.stage = "monitored"
  /\ record' = [record EXCEPT !.stage =
       IF dropped(rendered.filters.conditions[record.slot], record.ns, record.truths)
       THEN "dropped" ELSE "filtered"]
  /\ UNCHANGED <<config, rendered>>

Transform ==
  /\ record.stage = "filtered"
  /\ LET groups == rendered.transforms.groups[SignalOf(record.slot)]
         run == SelectSeq(groups, LAMBDA g : applies(g, record.ns, record.truths))
     IN  record' = [record EXCEPT !.stage = "transformed",
                                  !.statements = [k \in DOMAIN run |-> run[k].statement]]
  /\ UNCHANGED <<config, rendered>>

Export ==
  /\ record.stage = "transformed"
  /\ record' = [record EXCEPT !.stage = "exported",
                              !.exporters = delivered(config, SignalOf(record.slot), record.ns)]
  /\ UNCHANGED <<config, rendered>>

Init ==
  /\ config \in Configurations
  /\ rendered = nothing
  /\ record = noRecord

Next == \/ Render
        \/ \E r \in Records : Receive(r)
        \/ FilterByNamespace
        \/ FilterByConditions
        \/ Transform
        \/ Export

Spec == Init /\ [][Next]_vars

-----------------------------------------------------------------------------
(* Properties                                                              *)

\* The exporters for the exports of one owner: one for each protocol.
Destinations(owner, exports) ==
  UNION {{<<p, NameSuffix(owner, i)>> : p \in DOMAIN exports[i]} : i \in DOMAIN exports}

OwnMonitoring(ns) == {m \in config.monitorings : m.ns = ns}

\* The exports of the namespace, if it has any, else the default ones; profiles
\* always go to the default ones.
ExpectedDestinations ==
  LET own == {m \in OwnMonitoring(record.ns) : m.exports # <<>>}
  IN  IF record.slot # "profile" /\ own # {}
      THEN UNION {Destinations(m.ns, m.exports) : m \in own}
      ELSE Destinations(Default, config.exports)

DestinationOf(exporter) ==
  <<CASE exporter.name[1] = "otlp_grpc/dash0" -> "dash0"
      [] exporter.name[1] = "otlp_grpc"       -> "grpc"
      [] exporter.name[1] = "otlp_http"       -> "http", exporter.name[2]>>

\* With valid exports, a record is sent exactly once to each export of its
\* namespace or, without any, to each default export, and to no other, whether or
\* not Signal Control is in between, and with or without sampling (exporter.go, the
\* routing connectors and pipelines of the configuration templates).
EveryExportReceivesTheRecordOnce ==
  record.stage = "exported" =>
    /\ {DestinationOf(record.exporters[k]) : k \in DOMAIN record.exporters} = ExpectedDestinations
    /\ Len(record.exporters) = Cardinality(ExpectedDestinations)

\* What the user's resources say about the record.
Judges(conditions) == \E k \in DOMAIN conditions : conditions[k] \in record.truths

AppliesTo(group) == group.conditions = {} \/ group.conditions \cap record.truths # {}

StatementsOf(t) ==
  LET groups == SelectSeq(t.groups[SignalOf(record.slot)], AppliesTo)
  IN  {groups[k].statement : k \in DOMAIN groups}

\* A record is dropped by the custom filters exactly if a condition of its own
\* namespace or of the operator configuration is met, and it is transformed by the
\* statements of these two only: the resources of other namespaces do not matter,
\* although all are merged into one processor (aggregateCustomFilters,
\* aggregateCustomTransforms).
NamespacesAreIsolated ==
  /\ record.stage \in {"dropped", "filtered", "transformed", "exported"} =>
       ((record.stage = "dropped") <=> \/ Judges(config.globalFilter.conditions[record.slot])
                                       \/ \E m \in OwnMonitoring(record.ns) :
                                            Judges(m.filter.conditions[record.slot]))
  /\ record.stage \in {"transformed", "exported"} =>
       ToSet(record.statements) = StatementsOf(config.globalTransform) \cup
                                  UNION {StatementsOf(m.transform) : m \in OwnMonitoring(record.ns)}

\* The processors have one error mode for all namespaces. It is the strictest one
\* among the resources that filter at all, in whichever order they are listed
\* (compareErrorMode), so no namespace gets a laxer mode than it asks for.
TheStrictestErrorModeIsUsed ==
  rendered.done =>
    LET filters == {f \in {m.filter : m \in config.monitorings} \cup {config.globalFilter} : HasAnyFilters(f)}
        transforms == {t \in {m.transform : m \in config.monitorings} \cup {config.globalTransform} :
                         HasAnyStatements(t)}
    IN  /\ \A f \in filters : Severity[f.errorMode] <= Severity[rendered.filters.errorMode]
        /\ \A t \in transforms : Severity[t.errorMode] <= Severity[rendered.transforms.errorMode]
        /\ rendered.filters.errorMode \in {f.errorMode : f \in filters} \cup {"ignore"}

\* The filters and transformations of all namespaces are merged into one processor
\* each; no namespace notices the others, neither in what happens to its records nor
\* in a laxer treatment of errors (aggregateCustomFilters, aggregateCustomTransforms).
NamespacesDoNotInterfere == NamespacesAreIsolated /\ TheStrictestErrorModeIsUsed

Workloads == {r \in rendered.resources : r.kind \in {"DaemonSet", "Deployment"}}

\* The environment variables a collector configuration mentions.
MentionedEnvVars(w) ==
  UNION {r.data.refs : r \in {x \in rendered.resources :
                                x.kind = "ConfigMap" /\ \E v \in w.pod.volumes : v.source = <<"configMap", x.name>>}}

\* What the service account of a pod may do.
GrantedTo(w) ==
  LET bound == {b.roleRef : b \in {x \in rendered.resources :
                                     x.kind \in {"RoleBinding", "ClusterRoleBinding"} /\ x.subject = w.pod.sa}}
  IN  UNION {r.grants : r \in {x \in rendered.resources : x.kind \in {"Role", "ClusterRole"} /\ x.name \in bound}}

\* Whatever is switched on or off, the rendered collectors start and work: mounts
\* have their volume, volumes their config map, the configurations mention only
\* variables the collector container has, a variable only refers to one defined
\* before it, services and budgets select the pods, the pods have a service account
\* that exists and may do what the containers do (desired_state.go).
RenderedReferencesResolve ==
  rendered.done =>
    /\ \A w \in Workloads :
         /\ \A k \in w.pod.containers \cup w.pod.init :
              /\ \A m \in k.mounts : Cardinality({v \in w.pod.volumes : v.name = m.volume}) = 1
              /\ k.access \subseteq GrantedTo(w)
              /\ k.refs \subseteq ToSet(k.env)
              /\ k.name = openTelemetryCollector => MentionedEnvVars(w) \subseteq ToSet(k.env)
              /\ k.name = fileLogOffsetSync => assembleFilelogOffsetsConfigMap \in rendered.resources
         /\ \A v \in w.pod.volumes : v.source[1] = "configMap" =>
              \E r \in rendered.resources : r.kind = "ConfigMap" /\ r.name = v.source[2]
         /\ \/ w.pod.sa \in {<<>>, config.daemonSetServiceAccount}
            \/ ServiceAccount(w.pod.sa) \in rendered.resources
         /\ selects(w.selector, w.pod.labels)
    /\ \A s \in {r \in rendered.resources : r.kind \in {"Service", "PodDisruptionBudget"}} :
         Cardinality({w \in Workloads : selects(s.selects, w.pod.labels)}) = 1

\* The workloads the operator deploys for a configuration, without the profiler's.
DeployedWorkloads(c) ==
  LET resources == UNION {rendered.resources,
                          IF c.prometheusCrd THEN ToSet(taAssembleDesiredState(c, {}, FALSE)) ELSE {},
                          IF c.agent0 THEN ToSet(a0cAssembleDesiredState(c)) ELSE {},
                          IF SignalControl(c).Enabled THEN ToSet(scAssembleDesiredState(c, FALSE)) ELSE {},
                          UNION {ToSet(swAssembleDesiredState(c, l)) : l \in c.synthetics}}
  IN  {r.name : r \in {x \in resources : x.kind \in {"DaemonSet", "Deployment"}}}

\* With self-monitoring, the namespace filter never drops the metrics of a workload
\* the operator itself deploys, although the operator namespace is not monitored
\* (renderOttlNamespaceFilter and the desired states of all components).
OwnWorkloadsAreObserved ==
  /\ record.stage = "outside" => record.ns # NoNamespace /\ OwnMonitoring(record.ns) = {}
  /\ (record.stage = "outside" /\ record.ns = OperatorNamespace /\ config.selfMonitoring) =>
        record.workload \notin DeployedWorkloads(config)

\* Filters and transformations act on the records they are meant for and on no others: those
\* of one namespace not on another one, that of the unmonitored namespaces not on the
\* operator's own workloads (aggregateCustomFilters, aggregateCustomTransforms, renderOttlNamespaceFilter).
FiltersAreExact == NamespacesDoNotInterfere /\ OwnWorkloadsAreObserved

=============================================================================
