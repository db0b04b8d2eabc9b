------------------------- MODULE MCWorkloadModifier -------------------------
(***************************************************************************)
(* Scenarios for WorkloadModifier: two containers, and small sets of       *)
(* manifests, settings, configurations, labels and annotations.            *)
(***************************************************************************)
EXTENDS WorkloadModifier

NoEnv == [k \in {"endpoint", "protocol", "logsExporter", "propagators", "captureSql",
                 "configFile", "logLevel", "legacyLogLevel", "baseUrl", "injector",
                 "legacy", "nodeIp"} |-> Unset]
UserEnv == [NoEnv EXCEPT !.propagators = "user", !.captureSql = "false",
                         !.logsExporter = "user", !.legacyLogLevel = "user"]
FromEnv == [NoEnv EXCEPT !.propagators = "from", !.captureSql = "from",
                         !.logsExporter = "from", !.logLevel = "user"]
ExportEnv(endpoint, protocol) ==
  [NoEnv EXCEPT !.endpoint = endpoint, !.protocol = protocol]

Linux == [podLabels |-> {}, workloadLabels |-> {}, podAnnotations |-> {},
          workloadAnnotations |-> {}, os |-> "linux", lowStorage |-> {}, owned |-> FALSE]

Config(version, url, delivery, runtimes) ==
  [version |-> version, url |-> url, delivery |-> delivery, runtimes |-> runtimes,
   debug |-> FALSE]
Plain == Config(1, "nodeLocal", "initContainer", {})

Settings(propagators, captureSql, logCollection) ==
  [propagators |-> propagators, captureSql |-> captureSql, logCollection |-> logCollection]
Default == Settings(Unset, FALSE, TRUE)

Budget(edits, changes, restarts, switches) ==
  [edits |-> edits, changes |-> changes, restarts |-> restarts, switches |-> switches]

Base ==
  [metas |-> {Linux}, volumes |-> {<<>>}, ldPreloads |-> {<<>>}, nodeOptions |-> {<<>>},
   ownAttributes |-> {{}}, edits |-> {NoEnv}, apply |-> TRUE, mode |-> "all",
   clusterConfigs |-> {Plain}, namespaceConfigs |-> {Default},
   budget |-> Budget(0, 0, 0, 1)]

\* The settings of the namespace change, twice in a row or with pauses, and
\* instrumentation is turned off.
SettingsChange ==
  [Base EXCEPT
     !.edits = {NoEnv, UserEnv, FromEnv},
     !.namespaceConfigs = {Default, Settings("p1", TRUE, TRUE), Settings("p2", FALSE, FALSE)},
     !.budget = Budget(1, 2, 0, 2)]

\* The endpoint of the collectors changes, users choose their own.
ExportChanges ==
  [Base EXCEPT
     !.apply = FALSE,
     !.edits = {NoEnv, ExportEnv("user", Unset), ExportEnv(Unset, "grpc"),
                ExportEnv("nodeLocal", "grpc"), ExportEnv("from", "from"),
                ExportEnv("service", "http/protobuf")},
     !.clusterConfigs = {Plain, Config(1, "service", "initContainer", {}),
                         Config(2, "nodeLocalOtherPort", "initContainer", {})},
     !.budget = Budget(1, 0, 2, 1)]

\* The operator is upgraded and changes the way of delivery; the workload has
\* lists of its own, and traces of an early version of the operator.
Upgrade ==
  [Base EXCEPT
     !.volumes = {<<>>, <<"user">>},
     !.ldPreloads = {<<>>, ListFrom, << <<"lib1", "lib2">> >>, << <<LegacyInjector>> >>,
                     << <<"lib1", LegacyInjector>> >>},
     !.nodeOptions = {<<>>, <<LegacyRequire, "lib1">>, <<"from">>},
     !.clusterConfigs = {Plain, Config(1, "nodeLocal", "initContainer", {"python"}),
                         Config(2, "nodeLocal", "imageVolume", {"python", "ruby"}),
                         [Plain EXCEPT !.version = 3, !.debug = TRUE]},
     !.budget = Budget(0, 0, 2, 2)]

\* Lists that the operator can extend, but not restore (see the README).
ForeignLists ==
  [Base EXCEPT
     !.volumes = {<<"user", "like">>, <<"like">>},
     !.ldPreloads = {<< <<"lib1">>, <<"lib2">> >>, << <<"lib1">>, <<LegacyInjector>> >>},
     !.clusterConfigs = {Plain, Config(2, "service", "initContainer", {"ruby"}),
                         Config(2, "service", "imageVolume", {"ruby"})},
     !.edits = {NoEnv, UserEnv},
     !.budget = Budget(1, 0, 1, 0)]

\* Labels and annotations that become resource attributes.
Described ==
  [Base EXCEPT
     !.metas = {[Linux EXCEPT !.podLabels = pl, !.workloadLabels = wl,
                              !.podAnnotations = pa, !.workloadAnnotations = wa] :
                  pl \in {{}, {"name"}, {"version"}, {"name", "version"}},
                  wl \in {{}, {"name", "namespace"}, {"version"}, Attributes},
                  pa \in {{}, {"name"}, {"other"}},
                  wa \in {{}, {"name", "namespace"}, {"other"}}},
     !.ownAttributes = {{}, {"name"}, {"version"}}]

\* Existing workloads are left alone, updated ones are instrumented.
CreatedAndUpdated ==
  [Base EXCEPT
     !.mode = "created-and-updated",
     !.edits = {NoEnv, UserEnv, [NoEnv EXCEPT !.logLevel = "user"]},
     !.namespaceConfigs = {Default, Settings("p1", TRUE, FALSE)},
     !.clusterConfigs = {Plain, Config(2, "service", "initContainer", {"ruby"})},
     !.budget = Budget(2, 1, 1, 1)]

\* Workloads that are not eligible, some of them only for one way of delivery.
Ineligible ==
  [Base EXCEPT
     !.metas = {[Linux EXCEPT !.os = "other"], [Linux EXCEPT !.owned = TRUE],
                [Linux EXCEPT !.lowStorage = Containers]},
     !.edits = {NoEnv, UserEnv},
     !.namespaceConfigs = {Default, Settings("p1", FALSE, TRUE)},
     !.budget = Budget(1, 1, 0, 1)]
LowStorage ==
  [Ineligible EXCEPT
     !.metas = {[Linux EXCEPT !.lowStorage = Containers]},
     !.clusterConfigs = {Plain, Config(1, "service", "imageVolume", {"ruby"})},
     !.budget = Budget(1, 1, 2, 1)]

MCScenarios ==
  {SettingsChange, ExportChanges, Upgrade, ForeignLists, Described, CreatedAndUpdated,
   Ineligible, LowStorage}

\* An endpoint is added to a manifest, and taken out again.
AppliedExport ==
  [Base EXCEPT !.edits = {NoEnv, ExportEnv("user", Unset)}, !.budget = Budget(2, 0, 0, 0)]
AppliedExportScenarios == {AppliedExport}
=============================================================================
