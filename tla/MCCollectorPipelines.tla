------------------------ MODULE MCCollectorPipelines ------------------------
(* Configurations and records for model checking CollectorPipelines.       *)
EXTENDS CollectorPipelines, MCConfigurations

plain(c) == [c EXCEPT !.monitorings = {monitoring("ns1"), monitoring("ns2")}] @@
            [globalFilter |-> noFilter, globalTransform |-> noTransform]

datasetExport(d) == [dash0Export EXCEPT !["dash0"].dataset = d]
mixedExport == dash0Export @@ httpExport
secretHeaders == <<[value |-> FALSE, valueFrom |-> "complete"], [value |-> TRUE, valueFrom |-> "none"]>>
headerExport == [httpExport EXCEPT !["http"].headers = secretHeaders]
grpcExport == "grpc" :> httpSettings

\* Exports: none of Dash0, one, several datasets, several protocols in one export.
exportLists == {<<dash0Export>>, <<httpExport>>, <<mixedExport>>, <<httpExport, dash0Export>>,
                <<datasetExport("a"), grpcExport, datasetExport("b"), datasetExport("a")>>}

signalControls == {noSignalControl, fullSignalControl, [fullSignalControl EXCEPT !.sampling = FALSE]}

exportConfigurations ==
  {[plain(base) EXCEPT !.exports = d, !.sc = sc,
                       !.monitorings = {[monitoring("ns1") EXCEPT !.exports = n], monitoring("ns2")}] :
     d \in exportLists, n \in exportLists \cup {<<>>}, sc \in signalControls}

filterOn(slot, conditions, mode) == [noFilter EXCEPT !.conditions[slot] = conditions, !.errorMode = mode]

transformOn(signal, groups, mode) == [noTransform EXCEPT !.groups[signal] = groups, !.errorMode = mode]

group(statement, conditions) == [statement |-> statement, conditions |-> conditions]

\* Filters in two namespaces and for all namespaces, with every mix of error modes.
filterConfigurations ==
  {[plain(base) EXCEPT !.monitorings = {[monitoring("ns1") EXCEPT !.filter = filterOn(s, <<"c1">>, m1)],
                                        [monitoring("ns2") EXCEPT !.filter = filterOn("metric", <<"c2", "c1">>, m2)]},
                       !.globalFilter = g] :
     s \in {"metric", "logRecord"}, m1 \in {"", "silent", "propagate"}, m2 \in {"silent", "ignore"},
     g \in {noFilter, filterOn("metric", <<"c2">>, "ignore")}}

transformConfigurations ==
  {[plain(base) EXCEPT !.monitorings = {[monitoring("ns1") EXCEPT
                                           !.transform = transformOn("metrics", <<group("s1", d1), group("s2", {"c2"})>>, "silent")],
                                        [monitoring("ns2") EXCEPT !.transform = transformOn("metrics", <<group("s3", {})>>, m)]},
                       !.globalTransform = g] :
     d1 \in {{}, {"c1", "c2"}}, m \in {"", "propagate"},
     g \in {noTransform, transformOn("metrics", <<group("s4", {"c1"})>>, "ignore")}}

\* With and without the components whose workloads the namespace filter has to keep.
workloadConfigurations ==
  {[plain(base) EXCEPT !.selfMonitoring = s, !.prometheusCrd = p, !.agent0 = p, !.sc = sc, !.exports = e, !.edgeProxyImage = i] :
     s \in BOOLEAN, p \in BOOLEAN, i \in BOOLEAN, sc \in signalControls, e \in {<<dash0Export>>, <<httpExport>>}}

\* Everything that adds or removes a volume, a variable or a resource.
resourceConfigurations ==
  {[plain(base) EXCEPT !.compressConfigMap = z, !.offsetStorageVolume = o, !.gkeAutopilot = g, !.mtls = g, !.docker = z,
                       !.infrastructureMetrics = i, !.objectCollection = z, !.sc = sc, !.daemonSetServiceAccount = sa,
                       !.monitorings = {[monitoring("ns1") EXCEPT !.objects = TRUE, !.events = o, !.exports = n]}] :
     z \in BOOLEAN, o \in BOOLEAN, g \in BOOLEAN, i \in BOOLEAN, sa \in {<<>>, <<"external">>},
     sc \in {noSignalControl, [fullSignalControl EXCEPT !.reservoir = "disk", !.edgeProxy = FALSE]},
     n \in {<<dash0Export>>, <<headerExport>>}}

MCConfigurationSet ==
  resourceConfigurations \cup exportConfigurations \cup filterConfigurations \cup transformConfigurations \cup workloadConfigurations

sample(slot, ns, w, truths) == [slot |-> slot, ns |-> ns, workload |-> w, truths |-> truths]

app == <<"app">>

MCRecords ==
       {sample(s, ns, app, {}) : s \in {"span", "logRecord", "profile"}, ns \in {"ns1", "ns2"}}
  \cup {sample("metric", ns, app, t) : ns \in {"ns1", "ns2", "other", "none"}, t \in {{}, {"c1"}, {"c2"}}}
  \cup {sample("metric", "operator", w, {}) : w \in {app, DaemonSetName, SignalControlCollectorDeploymentName, taDeploymentName,
                                                     a0cDeploymentName, scDeploymentName, swDeploymentName("eu")}}

=============================================================================
