-------------------------- MODULE WorkloadModifier --------------------------
(***************************************************************************)
(* What the operator writes into the pod spec of a workload and takes out  *)
(* of it again (workload_modifier.go), over the life of one workload: its  *)
(* user edits it, the settings of the namespace change, the operator is    *)
(* restarted with another configuration, instrumentation is turned off.    *)
(*                                                                         *)
(* Environment variables are grouped by how they are treated.  A variable  *)
(* that is absent and one with an empty value are both "unset"; "from" is  *)
(* a variable with valueFrom.  LD_PRELOAD is the sequence of its           *)
(* colon-separated parts, each a sequence of space-separated libraries.    *)
(* The order of variables is kept as far as it matters: is DASH0_NODE_IP,  *)
(* which others refer to, the first one?                                   *)
(*                                                                         *)
(* captureSql stands for three variables with equal treatment, injector    *)
(* for those that are the operator's own and always have the same value,   *)
(* legacy for variables of earlier operator versions.                      *)
(***************************************************************************)
EXTENDS Naturals, Sequences, FiniteSets, SequencesExt

CONSTANTS
  Containers,     \* names of the containers
  Libraries,      \* the user's libraries in LD_PRELOAD, options in NODE_OPTIONS
  Scenarios       \* what happens around the operator, see ScenariosAssumption

Attributes == {"name", "namespace", "version"}    \* service.name, ...
Keys == Attributes \cup {"other"}                 \* of resource attributes
Injector == "injector"                            \* envVarLdPreloadValue
LegacyInjector == "legacyInjector"                \* envVarLdPreloadLegacyValue
LegacyRequire == "legacyRequire"                  \* legacyEnvVarNodeOptionsValue
ListFrom == << <<"from">> >>                      \* LD_PRELOAD with valueFrom
NodeLocal == {"nodeLocal", "nodeLocalOtherPort"}  \* http://$(DASH0_NODE_IP):<port>

Unset == "unset"
ConfigFiles == {"plain", "python", "ruby", "pythonAndRuby"}
EnvValues ==
  [endpoint : {Unset, "from", "user", "service"} \cup NodeLocal,
   protocol : {Unset, "from", "grpc", "http/protobuf"},
   logsExporter : {Unset, "from", "user", "none"},
   propagators : {Unset, "from", "user", "p1", "p2"},
   captureSql : {Unset, "from", "false", "true"},
   configFile : {Unset, "from"} \cup ConfigFiles,
   logLevel : {Unset, "user", "debug"},            \* OTEL_INJECTOR_LOG_LEVEL
   legacyLogLevel : {Unset, "user"},               \* DASH0_INJECTOR_LOG_LEVEL
   baseUrl : {Unset, "service"} \cup NodeLocal,    \* DASH0_OTEL_COLLECTOR_BASE_URL
   injector : {Unset, "operator"},
   legacy : {Unset, "operator"},
   nodeIp : {Unset, "first", "later"}]

\* What the operator's configuration consists of as far as workloads see it,
\* and what a monitoring resource does.
ClusterConfigs ==
  [version : Nat, url : {"service"} \cup NodeLocal, delivery : {"initContainer", "imageVolume"},
   runtimes : SUBSET {"python", "ruby"}, debug : BOOLEAN]
NamespaceConfigs ==
  [propagators : {Unset, "p1", "p2"}, captureSql : BOOLEAN, logCollection : BOOLEAN]
\* Labels and annotations of workload and pod that become resource attributes,
\* and what decides whether the workload may be modified at all.
Metas ==
  [podLabels : SUBSET Attributes, workloadLabels : SUBSET Attributes,
   podAnnotations : SUBSET Keys, workloadAnnotations : SUBSET Keys,
   os : {"linux", "other"}, lowStorage : SUBSET Containers, owned : BOOLEAN]

Bounds == {"edits", "changes", "restarts", "switches"}

ASSUME ScenariosAssumption ==
  \A s \in Scenarios :
    /\ s.metas \subseteq Metas                       \* one of them is the workload's
    /\ s.volumes \subseteq Seq({"user", "like"})     \* the user's safe-to-evict annotation
    /\ s.ldPreloads \subseteq Seq(Seq(Libraries \cup {LegacyInjector, "from"}))
    /\ s.nodeOptions \subseteq Seq(Libraries \cup {LegacyRequire, "from"})
    /\ s.ownAttributes \subseteq SUBSET Attributes   \* what the container sets itself
    /\ s.edits \subseteq EnvValues                   \* variables users put into a container
    /\ s.apply \in BOOLEAN             \* are manifests applied, or do they replace the workload?
    /\ s.mode \in {"all", "created-and-updated"}
    /\ s.clusterConfigs \subseteq ClusterConfigs
    /\ s.namespaceConfigs \subseteq NamespaceConfigs
    /\ \A b \in Bounds : s.budget[b] \in Nat

VARIABLES
  scenario,      \* a member of Scenarios; never changes
  meta,          \* labels and annotations; never change
  own,           \* own[c]: container c as the user has written it
  workload,      \* the workload; image: of its init container or image volume
  cluster,       \* configuration of the running operator
  settings,      \* settings in the monitoring resource
  previous,      \* settings in its status
  mode,          \* instrumentWorkloads.mode
  previousMode,  \* the mode in the status; "unset" until the first reconcile is through
  pass,          \* "none", "todo": a reconcile is due, "status": it has still to write
  seen,          \* the settings that reconcile has read
  startup,       \* the startup pass is due
  forgotten,     \* the workload may have settings that the status does not know of
  used           \* how much of each bound has been used

vars == <<scenario, meta, own, workload, cluster, settings, previous, mode, previousMode,
          pass, seen, startup, forgotten, used>>
-----------------------------------------------------------------------------
(***************************************************************************)
(* Deciding what to do with a container                                    *)
(***************************************************************************)

\* Variant: does not know node-local URLs with another port.
IsDefaultCollectorEndpoint(e) == e.endpoint \in {"service", "nodeLocal"}

\* isOperatorCollectorEndpoint
IsOperatorCollectorEndpoint(e) == e.endpoint \in {"service"} \cup NodeLocal

\* Variant: looks at the endpoint only.
OtelExportEnvVarsCanBeUpdatedIgnoringProtocol(e, cl) ==
  \/ e.endpoint = Unset
  \/ /\ IsOperatorCollectorEndpoint(e)
     /\ e.endpoint # cl.url \/ e.protocol = Unset

\* otelExportEnvVarsCanBeUpdatedForContainer
OtelExportEnvVarsCanBeUpdated(e, cl) ==
  \/ e.endpoint = Unset /\ e.protocol = Unset
  \/ /\ IsOperatorCollectorEndpoint(e)
     /\ e.protocol \in {Unset, "http/protobuf"}
     /\ e.endpoint # cl.url \/ e.protocol = Unset

\* otelPropagatorsCanBeUpdatedForContainer
OtelPropagatorsCanBeUpdated(e, ns, prev) ==
  /\ e.propagators # "from"
  /\ e.propagators # ns.propagators
  /\ e.propagators # Unset => prev.propagators # Unset /\ e.propagators = prev.propagators

\* captureSqlQueryParametersCanBeUpdatedForContainer
CaptureSqlQueryParametersCanBeUpdated(e, ns, prev) ==
  IF ns.captureSql THEN e.captureSql = Unset ELSE prev.captureSql /\ e.captureSql = "true"

\* otelLogsExporterEnvVarWillBeUpdatedForAtLeastOneContainer, for one container
OtelLogsExporterWillBeUpdated(e, ns, prev) ==
  IF ns.logCollection THEN e.logsExporter = Unset ELSE prev.logCollection /\ e.logsExporter = "none"

\* otelInjectorConfigFileFor
OtelInjectorConfigFileFor(cl) ==
  CASE cl.runtimes = {"python", "ruby"} -> "pythonAndRuby"
    [] cl.runtimes = {"python"} -> "python"
    [] cl.runtimes = {"ruby"} -> "ruby"
    [] OTHER -> "plain"

\* Variant: trusts the labels.
InstrumentationIsUpToDateByLabel(w, cl, ns, prev) ==
  w.label = "true" /\ w.version = cl.version

\* InstrumentationIsUpToDate. The labels have the images of the operator that
\* has modified the workload, here its version.
InstrumentationIsUpToDate(w, cl, ns, prev) ==
  /\ w.label = "true" /\ w.version = cl.version
  /\ \A c \in Containers :
       LET e == w.containers[c].env IN
       /\ ~OtelExportEnvVarsCanBeUpdated(e, cl)
       /\ ~OtelPropagatorsCanBeUpdated(e, ns, prev)
       /\ e.configFile = OtelInjectorConfigFileFor(cl)
       /\ ~OtelLogsExporterWillBeUpdated(e, ns, prev)
       /\ ~CaptureSqlQueryParametersCanBeUpdated(e, ns, prev)

\* checkEligibleForModification, checkEphemeralStorageLimit, and for pods and
\* replica sets hasMatchingOwnerReference
IsEligible(cl) ==
  /\ ~meta.owned /\ meta.os = "linux"
  /\ cl.delivery = "initContainer" => meta.lowStorage = {}
-----------------------------------------------------------------------------
(***************************************************************************)
(* Modifying a container                                                   *)
(***************************************************************************)

\* addOrAppendToLdPreloadEnvVar
AddToLdPreload(list) ==
  IF list = ListFrom \/ \E i \in DOMAIN list : Injector \in Range(list[i]) THEN list
  ELSE IF list = <<>> THEN << <<Injector>> >>
  ELSE << <<Injector>> \o Head(list) >> \o Tail(list)

\* Variant: throws the user's libraries away together with the entry.
RemoveLdPreloadEntirely(list, entry) ==
  IF \E i \in DOMAIN list : entry \in Range(list[i]) THEN <<>> ELSE list

\* removeEntryFromLdPreload: a list without colon is split at spaces, any
\* other one at its colons.
RemoveEntryFromLdPreload(list, entry) ==
  IF Len(list) = 1
    THEN SelectSeq(<<SelectSeq(list[1], LAMBDA l : l # entry)>>, LAMBDA part : part # <<>>)
    ELSE SelectSeq(list, LAMBDA part : part # <<entry>>)

\* removeLegacyEnvVarNodeOptions
RemoveLegacyNodeOptions(options) == SelectSeq(options, LAMBDA o : o # LegacyRequire)

\* removeLegacyEnvironmentVariables
RemoveLegacyEnvironmentVariables(k) ==
  [k EXCEPT !.nodeOptions = RemoveLegacyNodeOptions(@), !.env.legacy = Unset,
            !.ldPreload = RemoveEntryFromLdPreload(@, LegacyInjector)]

\* addOrUpdateOtelExporterOtlpEnvVars
AddOtelExporterOtlpEnvVars(e, cl) ==
  IF OtelExportEnvVarsCanBeUpdated(e, cl)
    THEN [e EXCEPT !.endpoint = cl.url, !.protocol = "http/protobuf"] ELSE e

\* removeOtelLogsExporterEnvVar
RemoveOtelLogsExporter(e, prev) ==
  IF prev.logCollection /\ e.logsExporter = "none" THEN [e EXCEPT !.logsExporter = Unset] ELSE e

\* addOtelLogsExporterEnvVar
AddOtelLogsExporter(e, ns, prev) ==
  IF ~ns.logCollection THEN RemoveOtelLogsExporter(e, prev)
  ELSE IF e.logsExporter = Unset THEN [e EXCEPT !.logsExporter = "none"] ELSE e

\* addOTelPropagatorsEnvVar
AddOtelPropagators(e, ns, prev) ==
  IF OtelPropagatorsCanBeUpdated(e, ns, prev) THEN [e EXCEPT !.propagators = ns.propagators] ELSE e

\* addCaptureSqlQueryParametersEnvVar
AddCaptureSqlQueryParameters(e, ns, prev) ==
  IF CaptureSqlQueryParametersCanBeUpdated(e, ns, prev)
    THEN [e EXCEPT !.captureSql = IF ns.captureSql THEN "true" ELSE Unset] ELSE e

\* Variant: uses the old name.
MigrateLogLevelToLegacy(e, cl) ==
  IF cl.debug THEN [e EXCEPT !.legacyLogLevel = "debug"] ELSE e

\* migrateLegacyInjectorLogLevel, after the variable for debugging
MigrateLogLevel(e, cl) ==
  LET debugged == IF cl.debug THEN [e EXCEPT !.logLevel = "debug"] ELSE e
  IN IF e.legacyLogLevel # Unset /\ debugged.logLevel = Unset
       THEN [debugged EXCEPT !.logLevel = e.legacyLogLevel, !.legacyLogLevel = Unset]
       ELSE debugged

\* Labels: those of the pod, or else those of the workload, never both.
\* Annotations: those of the pod take precedence over those of the workload,
\* and both over labels. What the container sets itself is not touched.
ServiceAttributeMixingLabels(a, k) ==
  CASE a \in k.ownAttributes -> k.service[a]
    [] a \notin k.ownAttributes /\ a \in meta.podAnnotations -> "podAnnotation"
    [] a \notin k.ownAttributes \cup meta.podAnnotations /\ a \in meta.workloadAnnotations ->
         "workloadAnnotation"
    [] OTHER -> IF a \in meta.podLabels THEN "podLabel"
                ELSE IF a \in meta.workloadLabels THEN "workloadLabel" ELSE k.service[a]

ServiceAttribute(a, k) ==
  CASE a \in k.ownAttributes -> k.service[a]
    [] a \notin k.ownAttributes /\ a \in meta.podAnnotations -> "podAnnotation"
    [] a \notin k.ownAttributes \cup meta.podAnnotations /\ a \in meta.workloadAnnotations ->
         "workloadAnnotation"
    [] OTHER ->
         IF "name" \in meta.podLabels
           THEN IF a \in meta.podLabels THEN "podLabel" ELSE k.service[a]
           ELSE IF "name" \in meta.workloadLabels /\ a \in meta.workloadLabels
                  THEN "workloadLabel" ELSE k.service[a]

\* deriveResourceAttributesFromAnnotations, first for the workload and then
\* for the pod; without annotations the variable is left as it is.
ResourceAttributes(k) ==
  IF meta.podAnnotations \cup meta.workloadAnnotations = {} THEN k.resource
  ELSE [key \in Keys |-> IF key \in meta.podAnnotations THEN "podAnnotation"
                         ELSE IF key \in meta.workloadAnnotations THEN "workloadAnnotation"
                         ELSE Unset]

\* prependDash0NodeIp, and the variables that are set without looking at them
PrependDash0NodeIp(e, cl) ==
  [e EXCEPT !.nodeIp = "first", !.injector = "operator", !.baseUrl = cl.url]

\* addMount
MountFor(cl) == IF cl.delivery = "imageVolume" THEN "subPath" ELSE "plain"

\* instrumentContainer: addMount and addEnvironmentVariables, in its order
InstrumentContainer(k, cl, ns, prev) ==
  LET cleaned == RemoveLegacyEnvironmentVariables(k)
      exporting == AddOtelExporterOtlpEnvVars(PrependDash0NodeIp(cleaned.env, cl), cl)
      logging == AddOtelLogsExporter(exporting, ns, prev)
      configured == [logging EXCEPT !.configFile = OtelInjectorConfigFileFor(cl)]
      capturing ==
        AddCaptureSqlQueryParameters(AddOtelPropagators(configured, ns, prev), ns, prev)
  IN [cleaned EXCEPT !.mount = MountFor(cl), !.env = MigrateLogLevel(capturing, cl),
                     !.ldPreload = AddToLdPreload(@),
                     !.service = [a \in Attributes |-> ServiceAttribute(a, cleaned)],
                     !.resource = ResourceAttributes(cleaned)]

-----------------------------------------------------------------------------
(***************************************************************************)
(* Modifying and reverting the workload                                    *)
(***************************************************************************)

\* The annotation is searched for the name of the volume as a substring.
ListsVolume(names) == \E i \in DOMAIN names : names[i] \in {"dash0", "like"}

\* addSafeToEvictLocalVolumesAnnotation
AddSafeToEvict(names) == IF ListsVolume(names) THEN names ELSE Append(names, "dash0")

\* removeSafeToEvictLocalVolumesAnnotation; slices.Delete panics at index -1.
RemoveSafeToEvictPanics(names) == ListsVolume(names) /\ "dash0" \notin Range(names)
RemoveSafeToEvict(names) ==
  IF ListsVolume(names) THEN RemoveFirst(names, "dash0") ELSE names

Panics(w, cl) == cl.delivery = "imageVolume" /\ RemoveSafeToEvictPanics(w.safeToEvict)

\* Variant: does not clean up after the other way of delivery.
ModifyPodSpecAddingOnly(w, cl, ns, prev) ==
  [w EXCEPT !.volume = cl.delivery, !.image = cl.version,
            !.initContainer = @ \/ cl.delivery = "initContainer",
            !.safeToEvict = IF cl.delivery = "initContainer" THEN AddSafeToEvict(@) ELSE @,
            !.containers = [c \in Containers |-> InstrumentContainer(@[c], cl, ns, prev)]]

\* modifyPodSpec
ModifyPodSpec(w, cl, ns, prev) ==
  [w EXCEPT !.volume = cl.delivery, !.image = cl.version,
            !.initContainer = cl.delivery = "initContainer",
            !.safeToEvict = IF cl.delivery = "initContainer" THEN AddSafeToEvict(@)
                            ELSE RemoveSafeToEvict(@),
            !.containers = [c \in Containers |-> InstrumentContainer(@[c], cl, ns, prev)]]

\* Is the pod spec the same? The annotation is not part of it.
SameSpec(w1, w2) == w1 = [w2 EXCEPT !.safeToEvict = w1.safeToEvict]

\* modifyResource, ModifyPod, ModifyReplicaSet and
\* AddInstrumentationLabelsAndAnnotations. A workload whose pod spec has not
\* changed is not written.
Modify(w, cl, ns, prev) ==
  LET modified == ModifyPodSpec(w, cl, ns, prev) IN
  IF ~IsEligible(cl) \/ Panics(w, cl) \/ SameSpec(w, modified) THEN w
  ELSE [modified EXCEPT !.label = "true", !.version = cl.version]

\* removeOtelExporterOtlpEnvVarsIfSetByOperator
RemoveOtelExporterOtlpEnvVars(e) ==
  IF IsOperatorCollectorEndpoint(e) /\ e.protocol = "http/protobuf"
    THEN [e EXCEPT !.endpoint = Unset, !.protocol = Unset] ELSE e

\* removeOtelPropagatorsIfCurrentValueMatchesConfig
RemoveOtelPropagators(e, ns) ==
  IF ns.propagators # Unset /\ e.propagators = ns.propagators
    THEN [e EXCEPT !.propagators = Unset] ELSE e

\* removeCaptureSqlQueryParametersIfCurrentValueMatchesConfig
RemoveCaptureSqlQueryParameters(e, ns) ==
  IF ns.captureSql /\ e.captureSql = "true" THEN [e EXCEPT !.captureSql = Unset] ELSE e

\* uninstrumentContainer: removeMount and removeEnvironmentVariables
UninstrumentContainer(k, ns, prev) ==
  LET cleaned == RemoveLegacyEnvironmentVariables(k)
      exported == RemoveOtelExporterOtlpEnvVars(cleaned.env)
      reverted == RemoveOtelLogsExporter(
        RemoveCaptureSqlQueryParameters(RemoveOtelPropagators(exported, ns), ns), prev)
  IN [cleaned EXCEPT
        !.mount = "none", !.ldPreload = RemoveEntryFromLdPreload(@, Injector),
        !.env = [reverted EXCEPT !.nodeIp = Unset, !.configFile = Unset, !.injector = Unset,
                                 !.baseUrl = Unset, !.logLevel = Unset],
        !.service = [a \in Attributes |-> Unset], !.resource = [key \in Keys |-> Unset]]

\* revertPodSpec
RevertPodSpec(w, ns, prev) ==
  [w EXCEPT !.volume = "none", !.image = 0, !.initContainer = FALSE,
            !.safeToEvict = RemoveSafeToEvict(@),
            !.containers = [c \in Containers |-> UninstrumentContainer(@[c], ns, prev)]]

\* revertResource, RevertReplicaSet and RemoveInstrumentationLabelsAndAnnotations
Revert(w, ns, prev) ==
  LET reverted == RevertPodSpec(w, ns, prev) IN
  IF meta.owned \/ SameSpec(w, reverted) THEN w
  ELSE [reverted EXCEPT !.label = "none", !.version = 0]

-----------------------------------------------------------------------------
(***************************************************************************)
(* The life of the workload                                                *)
(***************************************************************************)
\* A container as its manifest has it, without anything of the operator.
Pristine(env, ldPreload, nodeOptions, attributes) ==
  [env |-> env, ldPreload |-> ldPreload, nodeOptions |-> nodeOptions, mount |-> "none",
   service |-> [a \in Attributes |-> Unset], resource |-> [key \in Keys |-> Unset],
   ownAttributes |-> attributes]

\* Without monitoring resource status, log collection counts as enabled.
NoStatus == [propagators |-> Unset, captureSql |-> FALSE, logCollection |-> TRUE]

\* The monitoring resource has just been created. A workload with traces of an
\* earlier version of the operator has its label, too.
Init ==
  /\ scenario \in Scenarios
  /\ meta \in scenario.metas
  /\ \E names \in scenario.volumes, list \in scenario.ldPreloads,
        options \in scenario.nodeOptions, attributes \in scenario.ownAttributes,
        env \in [Containers -> scenario.edits] :
       LET old == \/ \E k \in DOMAIN list : LegacyInjector \in Range(list[k])
                  \/ LegacyRequire \in Range(options)
           found(c) == [env[c] EXCEPT !.legacy = IF old THEN "operator" ELSE Unset]
           libraries == [i \in DOMAIN list |->
                           SelectSeq(list[i], LAMBDA l : l # LegacyInjector)]
       IN /\ workload = [label |-> IF old THEN "true" ELSE "none", version |-> 0,
                         volume |-> "none", image |-> 0, initContainer |-> FALSE,
                         safeToEvict |-> names,
                         containers |-> [c \in Containers |->
                           Pristine(found(c), list, options, attributes)]]
          /\ own = [c \in Containers |->
               Pristine(env[c], SelectSeq(libraries, LAMBDA part : part # <<>>),
                        RemoveLegacyNodeOptions(options), attributes)]
  /\ cluster \in scenario.clusterConfigs
  /\ settings \in scenario.namespaceConfigs
  /\ seen = settings
  /\ previous = NoStatus
  /\ mode = scenario.mode
  /\ previousMode = "unset"
  /\ pass = "todo"
  /\ startup = FALSE
  /\ forgotten = FALSE
  /\ used = [b \in Bounds |-> 0]

Spend(b) == used[b] < scenario.budget[b] /\ used' = [used EXCEPT ![b] = @ + 1]

\* A manifest is applied: variables that are no longer in it are removed, those
\* of the operator stay, and DASH0_NODE_IP may no longer be the first one.
Apply(e, before, after) ==
  [k \in DOMAIN e |->
     CASE k = "nodeIp" -> IF e.nodeIp = Unset THEN Unset ELSE "later"
       [] k # "nodeIp" /\ after[k] # Unset -> after[k]
       [] OTHER -> IF before[k] # Unset THEN Unset ELSE e[k]]

\* The workload without what the manifest does not have
Replaced(manifest) ==
  [workload EXCEPT !.label = "none", !.version = 0, !.volume = "none",
                   !.image = 0, !.initContainer = FALSE, !.safeToEvict = RemoveSafeToEvict(@),
                   !.containers = manifest]

Applied(c, e) == [workload EXCEPT !.containers[c].env = Apply(@, own[c].env, e)]

\* The webhook (Handle and handleDeployment)
Admitted(w) ==
  IF mode = "none" THEN w ELSE Modify(w, cluster, settings, previous)

\* The user changes the variables of a container. (The webhook is active once
\* the first reconcile is through; module Instrumentation has users who are
\* faster than that.)
UserEdits ==
  \E c \in Containers, e \in scenario.edits :
    LET manifest == [own EXCEPT ![c].env = e] IN
    /\ previousMode # "unset"
    /\ manifest # own
    /\ Spend("edits")
    /\ own' = manifest
    /\ workload' = Admitted(IF scenario.apply THEN Applied(c, e) ELSE Replaced(manifest))
    /\ UNCHANGED <<scenario, meta, cluster, settings, previous, mode, previousMode, pass,
                   seen, startup, forgotten>>

\* The settings in the monitoring resource are changed.
ChangeSettings ==
  \E ns \in scenario.namespaceConfigs \ {settings} :
    /\ Spend("changes")
    /\ settings' = ns
    /\ forgotten' = (forgotten \/ pass # "none")
    /\ pass' = IF pass = "status" THEN pass ELSE "todo"
    /\ UNCHANGED <<scenario, meta, own, workload, cluster, previous, mode, previousMode,
                   seen, startup>>

\* Instrumentation is turned off, or on again.
SwitchMode ==
  /\ pass = "none"
  /\ Spend("switches")
  /\ mode' = IF mode = "none" THEN scenario.mode ELSE "none"
  /\ pass' = "todo"
  /\ UNCHANGED <<scenario, meta, own, workload, cluster, settings, previous, previousMode,
                 seen, startup, forgotten>>

\* manageInstrumentWorkloadsChanges
RequiredAction ==
  CASE previousMode = "unset" -> "instrument"
    [] previousMode \notin {"unset", "all"} /\ mode = "all" -> "instrument"
    [] previousMode \notin {"unset", "none"} /\ mode = "none" -> "uninstrument"
    [] OTHER -> IF settings # previous THEN "instrument" ELSE "nothing"

\* CheckSettingsAndInstrumentExistingWorkloads and instrumentWorkload
Instrumented(w) ==
  IF mode # "all" \/ InstrumentationIsUpToDate(w, cluster, settings, previous) THEN w
  ELSE Modify(w, cluster, settings, previous)

InstrumentPanics(w) ==
  /\ mode = "all" /\ IsEligible(cluster) /\ Panics(w, cluster)
  /\ ~InstrumentationIsUpToDate(w, cluster, settings, previous)

\* uninstrumentAllWorkloads: those with the label
Uninstrumented(w) == IF w.label = "none" THEN w ELSE Revert(w, settings, previous)

UninstrumentPanics(w) ==
  w.label # "none" /\ ~meta.owned /\ RemoveSafeToEvictPanics(w.safeToEvict)

\* The reconciler handles the workload. A panic is recovered, and the request
\* is queued again.
Reconcile ==
  LET action == RequiredAction
      panics == \/ action = "instrument" /\ InstrumentPanics(workload)
                \/ action = "uninstrument" /\ UninstrumentPanics(workload)
  IN /\ pass = "todo"
     /\ seen' = settings
     /\ pass' = IF panics THEN pass ELSE "status"
     /\ workload' = CASE action = "instrument" /\ ~panics -> Instrumented(workload)
                      [] action = "uninstrument" /\ ~panics -> Uninstrumented(workload)
                      [] OTHER -> workload
     /\ UNCHANGED <<scenario, meta, own, cluster, settings, previous, mode, previousMode,
                    startup, forgotten, used>>

\* Variant: reconciles once more because of its own update of the status.
WriteStatusAndReconcile ==
  /\ pass = "status"
  /\ pass' = "todo" /\ previous' = settings /\ previousMode' = mode
  /\ UNCHANGED <<scenario, meta, own, workload, cluster, settings, mode, seen, startup,
                 forgotten, used>>

\* updateStatusAfterReconcile; a change of the resource since the reconciler has
\* read it is a conflict.
WriteStatus ==
  /\ pass = "status"
  /\ IF seen = settings
       THEN /\ pass' = "none" /\ previous' = settings /\ previousMode' = mode
            /\ forgotten' = (forgotten \/ (/\ previous # settings /\ workload.label = "true"
                                           /\ mode # "all" \/ ~IsEligible(cluster)))
       ELSE pass' = "todo" /\ UNCHANGED <<previous, previousMode, forgotten>>
  /\ UNCHANGED <<scenario, meta, own, workload, cluster, settings, mode, seen, startup, used>>

\* The operator is restarted with another configuration.
Restart ==
  \E cl \in scenario.clusterConfigs \ {cluster} :
    /\ Spend("restarts")
    /\ cluster' = cl
    /\ startup' = TRUE
    /\ pass' = IF pass = "status" THEN "todo" ELSE pass
    /\ UNCHANGED <<scenario, meta, own, workload, settings, previous, mode, previousMode,
                   seen, forgotten>>

\* InstrumentAtStartup
InstrumentAtStartup ==
  /\ startup
  /\ startup' = (previousMode # "unset" /\ InstrumentPanics(workload))
  /\ workload' = IF startup' \/ previousMode = "unset" THEN workload
                 ELSE Instrumented(workload)
  /\ UNCHANGED <<scenario, meta, own, cluster, settings, previous, mode, previousMode, pass,
                 seen, forgotten, used>>

Next ==
  \/ UserEdits \/ ChangeSettings \/ SwitchMode \/ Reconcile \/ WriteStatus
  \/ Restart \/ InstrumentAtStartup

Fairness == WF_vars(Reconcile) /\ WF_vars(WriteStatus) /\ WF_vars(InstrumentAtStartup)

Spec == Init /\ [][Next]_vars
FairSpec == Spec /\ Fairness

-----------------------------------------------------------------------------
(***************************************************************************)
(* Properties                                                              *)
(***************************************************************************)
AtRest == pass = "none" /\ ~startup
CanBeModified == IsEligible(cluster) /\ ~Panics(workload, cluster)

Env(c) == workload.containers[c].env

\* The state has the shape the operators above expect.
TypeOK ==
  /\ scenario \in Scenarios /\ meta \in Metas
  /\ cluster \in ClusterConfigs /\ {settings, previous, seen} \subseteq NamespaceConfigs
  /\ mode \in {"all", "created-and-updated", "none"}
  /\ previousMode \in {"unset", "all", "created-and-updated", "none"}
  /\ pass \in {"none", "todo", "status"} /\ {startup, forgotten} \subseteq BOOLEAN
  /\ \A b \in Bounds : used[b] \in 0..scenario.budget[b]
  /\ workload.label \in {"none", "true"} /\ {workload.version, workload.image} \subseteq Nat
  /\ workload.volume \in {"none", "initContainer", "imageVolume"}
  /\ workload.initContainer \in BOOLEAN
  /\ Range(workload.safeToEvict) \subseteq {"user", "like", "dash0"}
  /\ \A c \in Containers :
       LET k == workload.containers[c] IN
       /\ {k.env, own[c].env} \subseteq EnvValues
       /\ k.mount \in {"none", "plain", "subPath"}
       /\ k.ownAttributes = own[c].ownAttributes

\* Another operating system, too little ephemeral storage for the init container,
\* or owned by a workload that is instrumented itself
MustBeLeftAlone ==
  \/ meta.owned
  \/ meta.os # "linux"
  \/ meta.lowStorage # {} /\ \A cl \in scenario.clusterConfigs : cl.delivery = "initContainer"

\* The user has chosen another endpoint or protocol than the operator would.
ExportsManually(e) ==
  \/ e.endpoint = Unset /\ e.protocol # Unset
  \/ e.endpoint # Unset /\ ~IsOperatorCollectorEndpoint(e)
  \/ e.protocol \notin {Unset, "http/protobuf"}

\* Whatever the operator does to the workload, in whichever order of edits,
\* settings, restarts and mode changes: variables the user has set to a value
\* the operator would not set keep it, endpoint and protocol as a pair, and
\* service attributes the container sets itself are not set a second time
\* (otelExportEnvVarsCanBeUpdatedForContainer and its siblings, which recognise
\* the operator's own values by comparing them with settings and status). A
\* workload the operator must not instrument stays as the user has written it
\* (checkEligibleForModification).
UserValuesAreKept ==
  \A c \in Containers :
    LET o == own[c].env IN
    /\ \A k \in {"propagators", "captureSql", "logsExporter"} :
         o[k] \in {"user", "from", "false"} => Env(c)[k] = o[k]
    /\ ExportsManually(o) =>
         Env(c).endpoint = o.endpoint /\ Env(c).protocol = o.protocol
    /\ \A a \in own[c].ownAttributes : workload.containers[c].service[a] = Unset
    /\ MustBeLeftAlone => workload.containers[c] = own[c]

UserLibraries(list) == SelectSeq(FlattenSeq(list), LAMBDA l : l \in Libraries)

\* The user's entries in LD_PRELOAD, NODE_OPTIONS and the safe-to-evict
\* annotation survive, in their order, what the operator adds to and removes
\* from these lists, its earlier versions' entries included
\* (addOrAppendToLdPreloadEnvVar, removeEntryFromLdPreload,
\* removeLegacyEnvVarNodeOptions, removeSafeToEvictLocalVolumesAnnotation).
UserEntriesAreKept ==
  /\ \A c \in Containers :
       LET k == workload.containers[c] IN
       /\ UserLibraries(k.ldPreload) = UserLibraries(own[c].ldPreload)
       /\ RemoveLegacyNodeOptions(k.nodeOptions) = own[c].nodeOptions
  /\ SelectSeq(workload.safeToEvict, LAMBDA n : n # "dash0") \in scenario.volumes

\* Whatever ModifyPodSpec and RevertPodSpec do over the life of a workload, what the
\* user has written stays.
WhatUsersWriteIsKept == UserValuesAreKept /\ UserEntriesAreKept

\* What a workload with the label says about itself is true for each of its
\* containers: it has the injector in LD_PRELOAD (unless LD_PRELOAD is beyond
\* the operator's reach), volume and mount fit together, an init container is
\* there exactly for the volume that needs one, no traces of earlier versions
\* are left once this version has touched it, and where the operator's endpoint
\* refers to DASH0_NODE_IP, that variable is defined before it.
InstrumentationIsComplete ==
  workload.label = "true" /\ workload.version > 0 =>
    /\ workload.initContainer = (workload.volume = "initContainer")
    /\ workload.volume # "imageVolume" => "dash0" \in Range(workload.safeToEvict)
                                          \/ ListsVolume(workload.safeToEvict)
    /\ workload.volume = "imageVolume" => "dash0" \notin Range(workload.safeToEvict)
    /\ \A c \in Containers :
         LET k == workload.containers[c] IN
         /\ k.mount = (IF workload.volume = "imageVolume" THEN "subPath" ELSE "plain")
         /\ k.ldPreload # ListFrom => Injector \in Range(FlattenSeq(k.ldPreload))
         /\ k.env.legacy = Unset /\ LegacyRequire \notin Range(k.nodeOptions)
         /\ CanBeModified /\ mode # "none" /\ k.env.endpoint \in NodeLocal =>
              k.env.nodeIp = "first"

\* At rest, with mode "all", the workload has the settings of the monitoring
\* resource and of the running operator wherever the user has not chosen
\* otherwise: no change is lost between InstrumentationIsUpToDate, which decides
\* by a few variables whether a workload needs an update, and the status the
\* operator compares with to recognise its own values.
SettingsAreApplied ==
  AtRest /\ mode = "all" /\ CanBeModified /\ ~forgotten =>
    /\ workload.label = "true" /\ workload.version = cluster.version
    /\ \A c \in Containers :
         LET o == own[c].env IN
         /\ o.endpoint = Unset /\ o.protocol = Unset =>
              Env(c).endpoint = cluster.url /\ Env(c).protocol = "http/protobuf"
         /\ o.propagators = Unset => Env(c).propagators = settings.propagators
         /\ o.captureSql = Unset =>
              Env(c).captureSql = IF settings.captureSql THEN "true" ELSE Unset
         /\ o.logsExporter = Unset =>
              Env(c).logsExporter = IF settings.logCollection THEN "none" ELSE Unset
         /\ Env(c).configFile = OtelInjectorConfigFileFor(cluster)

\* At rest, with mode "none", a workload is what its user has written: nothing
\* of what the operator has put into it, over all settings and configurations
\* it has had since, is left (revertPodSpec).
NothingIsLeftBehind ==
  AtRest /\ mode = "none" /\ ~meta.owned /\ ~forgotten =>
    /\ workload.label = "none" /\ workload.volume = "none" /\ ~workload.initContainer
    /\ "dash0" \notin Range(workload.safeToEvict)
    /\ \A c \in Containers :
         LET k == workload.containers[c] IN
         /\ k.mount = "none" /\ Injector \notin Range(FlattenSeq(k.ldPreload))
         /\ \A a \in Attributes : k.service[a] = Unset
         /\ \A key \in Keys : k.resource[key] = Unset
         /\ \A v \in {"endpoint", "protocol", "logsExporter", "propagators", "captureSql",
                      "configFile", "baseUrl", "injector", "legacy", "nodeIp"} :
              own[c].env[v] = Unset => k.env[v] = Unset

\* Where service.name and its siblings of an instrumented container come from:
\* annotations of the pod before those of the workload, both before labels;
\* labels from one of pod and workload, never from both; and the attribute
\* list agrees with the variables.
ServiceAttributesAreConsistent ==
  workload.version > 0 =>
    \A c \in Containers :
      LET k == workload.containers[c] IN
      /\ ~\E a, b \in Attributes : k.service[a] = "podLabel" /\ k.service[b] = "workloadLabel"
      /\ \A a \in Attributes \ k.ownAttributes :
           /\ k.resource[a] # Unset => k.service[a] = k.resource[a]
           /\ a \in meta.podAnnotations => k.service[a] = "podAnnotation"
           /\ "name" \in meta.podLabels => k.service[a] # "workloadLabel"

\* The operator's own part of the pod spec is complete and current where the workload
\* is to be instrumented, and gone where it is not (modifyPodSpec, revertPodSpec).
ModificationsAreConsistent ==
  /\ TypeOK
  /\ InstrumentationIsComplete /\ SettingsAreApplied
  /\ NothingIsLeftBehind /\ ServiceAttributesAreConsistent

\* A container whose user takes OTEL_EXPORTER_OTLP_* out of the manifest again
\* is set up by the operator again.
RemovedExportIsReplaced ==
  AtRest /\ mode = "all" /\ CanBeModified =>
    \A c \in Containers :
      own[c].env.endpoint = Unset /\ own[c].env.protocol = Unset =>
        Env(c).endpoint = cluster.url

\* Every reconcile and every startup pass comes to its end, unless the name of
\* one of the user's volumes makes removeSafeToEvictLocalVolumesAnnotation panic.
EventuallySettled == <>[](AtRest \/ "like" \in Range(workload.safeToEvict))
=============================================================================
