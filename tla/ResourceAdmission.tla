------------------------- MODULE ResourceAdmission -------------------------
(***************************************************************************)
(* What the admission webhooks make of one request: the mutating and the   *)
(* validating webhooks for monitoring resources and for the operator       *)
(* configuration, the validating webhook for Signal Control, and the       *)
(* conversion between the two versions of the monitoring resource.         *)
(*                                                                         *)
(* A request has an operation, a namespace, the object and, for an update, *)
(* the old object. An environment tells what else the webhooks look at: the*)
(* Helm values and the resources in the cluster. Optional values are       *)
(* sequences with at most one element, optional flags are "on", "off" or   *)
(* "unset".                                                                *)
(***************************************************************************)
EXTENDS ContainerResources, Sequences, FiniteSets

CONSTANTS OperatorNamespace, RestrictedNamespaces,
          Defaults              \* the Helm chart's default resources of a collector container

Range1(s) == {s[k] : k \in DOMAIN s}

\* ReadBoolPointerWithDefault
read(value, default) == IF value = "unset" THEN default ELSE value = "on"
flag(b) == IF b THEN "on" ELSE "off"
orElse(value, default) == IF value = "unset" THEN default ELSE value

-----------------------------------------------------------------------------
(* Shared checks                                                           *)

validateGrpcExportInsecureFlags(export) == export.kind = "grpc" => ~(export.insecure /\ export.insecureSkipVerify)

WebhookReachabilityCheckResourceName == "webhook-reachability-check"

\* The dry-run requests of the post-install hook.
isReachabilityCheck(r) == r.dryRun /\ r.op = "create" /\ r.name = WebhookReachabilityCheckResourceName

componentSettingsAreUnchanged(r, before, after) == r.op = "update" /\ before = after

CheckComponentSettings(components) ==
  \A k \in DOMAIN components : validateContainerResourcesWithGoMemLimit(components[k], Defaults)

EffectiveExtraConfig(helmResources, components) ==
  IF components = <<>> THEN helmResources ELSE mergeContainerResources(Defaults, components[1])

-----------------------------------------------------------------------------
(* Filters and transformations                                             *)

\* Whether the collector's parser accepts a condition or a statement.
Parses(expression) == expression # "broken"

errorModes == {"unset", "ignore", "silent", "propagate"}

Signals == {"traces", "metrics", "logs", "profiles"}

\* A group is a statement, or a map with lists of conditions and statements; an
\* invalid error mode is dropped, other invalid parts are an error.
normalizeTransformGroup(g) ==
  IF g.form = "statement"
  THEN <<[statements |-> g.statements, conditions |-> <<>>, errorMode |-> "unset"]>>
  ELSE IF g.form = "map" /\ g.lists
  THEN <<[statements |-> g.statements, conditions |-> g.conditions,
          errorMode |-> IF g.errorMode \in errorModes THEN g.errorMode ELSE "unset"]>>
  ELSE <<>>

\* The groups of one signal in their order, <<>> if one of them is invalid.
normalizeTransformGroupsForOneSignal(groups) ==
  IF \E k \in DOMAIN groups : normalizeTransformGroup(groups[k]) = <<>> THEN <<>>
  ELSE <<[k \in DOMAIN groups |-> normalizeTransformGroup(groups[k])[1]]>>

normalizeTransform(t) ==
  IF \E s \in Signals : normalizeTransformGroupsForOneSignal(t.groups[s]) = <<>> THEN <<>>
  ELSE <<[errorMode |-> t.errorMode,
          groups    |-> [s \in Signals |-> normalizeTransformGroupsForOneSignal(t.groups[s])[1]]]>>

\* The configuration of the filter processor: only slots with conditions.
renderFilterProcessorConfig(f) ==
  [errorMode  |-> f.errorMode,
   conditions |-> [slot \in {s \in DOMAIN f.conditions : f.conditions[s] # <<>>} |-> f.conditions[slot]]]

renderTransformProcessorConfig(n) ==
  [errorMode |-> n.errorMode,
   groups    |-> [s \in {s \in Signals : n.groups[s] # <<>>} |-> n.groups[s]]]

\* The processors check their configuration themselves.
validateFilter(f) ==
  LET config == renderFilterProcessorConfig(f)
  IN  /\ config.errorMode \in errorModes
      /\ \A s \in DOMAIN config.conditions : \A c \in Range1(config.conditions[s]) : Parses(c)

validateTransform(n) ==
  LET config == renderTransformProcessorConfig(n)
  IN  /\ config.errorMode \in errorModes
      /\ \A s \in DOMAIN config.groups : \A g \in Range1(config.groups[s]) :
           \A e \in Range1(g.statements) \cup Range1(g.conditions) : Parses(e)

validateOttl(spec) ==
  /\ \A f \in Range1(spec.filter) : validateFilter(f)
  /\ \A n \in Range1(spec.normalizedTransform) : validateTransform(n)

-----------------------------------------------------------------------------
(* Deprecated exports                                                      *)

\* The merge of kubectl has carried the stored exports over.
isExportsUnchanged(r) == r.op = "update" /\ r.object.exports = r.old.exports

migratedExports(r) ==
  IF r.object.export # <<>> /\ (r.object.exports = <<>> \/ isExportsUnchanged(r))
  THEN r.object.export ELSE r.object.exports

EffectiveExports(spec) == IF spec.exports # <<>> THEN spec.exports ELSE spec.export

\* Variant of hasDash0Export that takes every export for a Dash0 export.
hasAnyExport(spec) == EffectiveExports(spec) # <<>>

hasDash0Export(spec) == \E e \in Range1(EffectiveExports(spec)) : e.kind = "dash0"

-----------------------------------------------------------------------------
(* Monitoring resources                                                    *)

loadAvailableOperatorConfigurationResources(env) == {c \in env.configurations : c.available}

\* Any of the available ones, as the list has no order.
firstOf(configurations) == (CHOOSE c \in configurations : TRUE).spec

telemetryCollectionEnabled(env) ==
  LET available == loadAvailableOperatorConfigurationResources(env)
  IN  /\ ~env.helm.sceOnly
      /\ available # {} => read(firstOf(available).telemetryCollection, TRUE)

setTelemetryCollectionRelatedDefaults(r, env) ==
  LET enabled  == telemetryCollectionEnabled(env)
      operator == r.ns = OperatorNamespace
  IN  [r.object EXCEPT !.mode     = IF @ # "unset" THEN @ ELSE IF operator \/ ~enabled THEN "none" ELSE "all",
                       !.logs     = orElse(@, flag(~operator /\ enabled)),
                       !.events   = orElse(@, flag(enabled)),
                       !.scraping = orElse(@, flag(enabled))]

\* Never collect the operator's own logs.
overrideLogCollectionDefault(r, spec) ==
  IF r.ns = OperatorNamespace /\ read(spec.logs, TRUE) THEN [spec EXCEPT !.logs = "off"] ELSE spec

\* The mutated object, <<>> if the transformation is invalid. What has been derived
\* from a transformation that is no longer there stays.
normalizeMonitoringResourceSpec(r, env) ==
  LET spec == [overrideLogCollectionDefault(r, setTelemetryCollectionRelatedDefaults(r, env))
                 EXCEPT !.exports = migratedExports(r), !.export = <<>>]
      normalized == IF spec.transform = <<>> THEN spec.normalizedTransform ELSE normalizeTransform(spec.transform[1])
  IN  IF spec.transform # <<>> /\ normalized = <<>> THEN <<>>
      ELSE <<[spec EXCEPT !.normalizedTransform = normalized]>>

mutateMonitoring(r, env) ==
  IF isReachabilityCheck(r) THEN <<r.object>> ELSE normalizeMonitoringResourceSpec(r, env)

isAutoMonitoring(r, env) ==
  LET available == loadAvailableOperatorConfigurationResources(env)
  IN  /\ available # {}
      /\ read(firstOf(available).autoMonitor, FALSE)
      /\ firstOf(available).autoSelector # "invalid"

rejectCustomMonitoringResourceInAutomaticallyMonitoredNamespace(r, env) ==
  /\ isAutoMonitoring(r, env)
  /\ ~r.auto
  /\ r.ns # OperatorNamespace /\ r.ns \notin RestrictedNamespaces
  /\ r.op = "create"
  /\ r.ns \in env.labelled

validateExport(r, env) ==
  LET available == loadAvailableOperatorConfigurationResources(env)
  IN  /\ ~(r.object.export # <<>> /\ r.object.exports # <<>>)
      /\ r.object.exports = <<>> => Cardinality(available) = 1 /\ firstOf(available).exports # <<>>
      /\ \A e \in Range1(r.object.exports) : validateGrpcExportInsecureFlags(e)

validateTelemetryRelatedSettingsIfTelemetryCollectionIsDisabled(r, env) ==
  LET available == loadAvailableOperatorConfigurationResources(env)
      disabled  == available # {} /\ ~read(firstOf(available).telemetryCollection, TRUE)
  IN  disabled => /\ r.object.mode = "none"
                  /\ ~read(r.object.logs, TRUE)
                  /\ ~read(r.object.events, TRUE)
                  /\ ~read(r.object.objects, FALSE)
                  /\ ~read(r.object.scraping, TRUE)
                  /\ r.object.filter = <<>>
                  /\ r.object.transform = <<>>

validateLabelSelector(spec) == spec.selector \notin {"", "invalid"}

validTraceContextPropagators == {"tracecontext", "baggage", "b3", "b3multi", "jaeger", "xray", "ottrace", "none"}

validateTraceContextPropagators(spec) == Range1(spec.propagators) \subseteq validTraceContextPropagators

\* Variant of removesFinalizer that validates the removal of the finalizer.
removesFinalizerNever(r) == FALSE

\* Otherwise the resource could not be deleted.
removesFinalizer(r) == r.op = "update" /\ ~r.finalizer

validateMonitoring(r, env) ==
  \/ isReachabilityCheck(r)
  \/ removesFinalizer(r)
  \/ /\ (r.ns \in RestrictedNamespaces \/ r.ns = OperatorNamespace) => r.object.mode = "none"
     /\ ~rejectCustomMonitoringResourceInAutomaticallyMonitoredNamespace(r, env)
     /\ validateExport(r, env)
     /\ validateTelemetryRelatedSettingsIfTelemetryCollectionIsDisabled(r, env)
     /\ validateLabelSelector(r.object)
     /\ validateTraceContextPropagators(r.object)
     /\ validateOttl(r.object)

-----------------------------------------------------------------------------
(* The operator configuration                                              *)

\* Set where the user has not decided, for automatically monitored namespaces.
monitoringTemplateDefaults == [mode |-> "created-and-updated", selector |-> "default",
                               logs |-> "on", events |-> "on", scraping |-> "on", exports |-> <<>>]
noTemplate == [mode |-> "unset", selector |-> "unset", logs |-> "unset", events |-> "unset",
               scraping |-> "unset", exports |-> <<>>]

setMonitoringTemplateDefaults(spec) ==
  IF ~read(spec.autoMonitor, FALSE) /\ spec.template = <<>> THEN <<>>
  ELSE LET t == IF spec.template = <<>> THEN noTemplate ELSE spec.template[1]
       IN  <<[f \in DOMAIN t |-> IF f = "exports" THEN t[f] ELSE orElse(t[f], monitoringTemplateDefaults[f])]>>

\* The affinity every workload has unless it is set.
setSyntheticsWorkerInstanceDefaults(spec) ==
  [k \in DOMAIN spec.instances |-> orElse(spec.instances[k], "linux")]

\* Variant of derivedTransform that keeps what has been derived before.
derivedTransformOrStale(spec) ==
  IF spec.transform = <<>> THEN spec.normalizedTransform ELSE normalizeTransform(spec.transform[1])

\* A merge that removes the transformation leaves the derived one behind.
derivedTransform(spec) == IF spec.transform = <<>> THEN <<>> ELSE normalizeTransform(spec.transform[1])

normalizeOperatorConfigurationResourceSpec(r) ==
  LET telemetry == orElse(r.object.telemetryCollection, "on")
      spec == [r.object EXCEPT !.exports = migratedExports(r), !.export = <<>>,
                 !.telemetryCollection = telemetry,
                 !.selfMonitoring = orElse(@, "on"),
                 !.infrastructureMetrics = orElse(@, telemetry),
                 !.legacyInfrastructureMetrics = orElse(@, telemetry),
                 !.podLabels = orElse(@, telemetry),
                 !.namespaceLabels = orElse(@, "off"),
                 !.nodeLabels = orElse(@, "off"),
                 !.prometheusCrd = orElse(@, "off"),
                 !.template = setMonitoringTemplateDefaults(r.object),
                 !.normalizedTransform = derivedTransform(r.object),
                 !.instances = setSyntheticsWorkerInstanceDefaults(r.object)]
  IN  IF spec.transform # <<>> /\ spec.normalizedTransform = <<>> THEN <<>> ELSE <<spec>>

mutateConfiguration(r) ==
  IF isReachabilityCheck(r) THEN <<r.object>> ELSE normalizeOperatorConfigurationResourceSpec(r)

\* Variant of isFeatureNewlyEnabled that only looks at the request.
isFeatureNewlyEnabledByRequest(r, wasEnabled) == TRUE

\* A feature that has been enabled before may stay so, whatever Helm says now.
isFeatureNewlyEnabled(r, wasEnabled) == r.op # "update" \/ ~wasEnabled

validateTelemetryCollectionEnabledConsistency(r, helm) ==
  (~helm.telemetry /\ read(r.object.telemetryCollection, FALSE)) =>
    ~isFeatureNewlyEnabled(r, r.op = "update" /\ read(r.old.telemetryCollection, TRUE))

validateAgent0ConnectorEnabledConsistency(r, helm) ==
  (~helm.agent0 /\ read(r.object.agent0Connector, FALSE)) =>
    ~isFeatureNewlyEnabled(r, r.op = "update" /\ read(r.old.agent0Connector, FALSE))

validateSyntheticsWorkerEnabledConsistency(r, helm) ==
  (~helm.synthetics /\ read(r.object.syntheticsWorker, FALSE)) =>
    ~isFeatureNewlyEnabled(r, r.op = "update" /\ read(r.old.syntheticsWorker, FALSE))

runsNoInstance(spec, helm) == helm.synthetics /\ read(spec.syntheticsWorker, TRUE) /\ spec.instances = <<>>

validateSyntheticsWorkerHasInstances(r, helm) ==
  runsNoInstance(r.object, helm) => ~isFeatureNewlyEnabled(r, r.op = "update" /\ runsNoInstance(r.old, helm))

MaxDash0Exports == 64

validateEbpfProfiler(r, helm) ==
  read(r.object.ebpfProfiler, FALSE) =>
    IF ~helm.ebpf THEN ~isFeatureNewlyEnabled(r, r.op = "update" /\ read(r.old.ebpfProfiler, FALSE))
    ELSE /\ read(r.object.profiling, FALSE)
         /\ helm.telemetry /\ read(r.object.telemetryCollection, TRUE)
         /\ read(r.object.debuginfoUpload, TRUE) =>
              Cardinality({k \in DOMAIN r.object.exports : r.object.exports[k].kind = "dash0"}) <= MaxDash0Exports

\* Without telemetry collection, nothing may be collected or processed.
validateTelemetryCollectionDisabledConsistency(spec) ==
  ~read(spec.telemetryCollection, TRUE) =>
    /\ ~read(spec.infrastructureMetrics, TRUE) /\ ~read(spec.legacyInfrastructureMetrics, TRUE)
    /\ ~read(spec.podLabels, TRUE) /\ ~read(spec.namespaceLabels, TRUE) /\ ~read(spec.nodeLabels, TRUE)
    /\ ~read(spec.objects, FALSE) /\ ~read(spec.prometheusCrd, TRUE) /\ ~read(spec.profiling, FALSE)
    /\ spec.filter = <<>> /\ spec.transform = <<>>

validateOttlOfOperatorConfiguration(spec) == validateOttl(spec)

hasEnabledSignalControl(env) == \E sc \in env.signalControls : read(sc.enabled, TRUE)

validateComponentSettings(r) ==
  componentSettingsAreUnchanged(r, r.old.components, r.object.components) \/ CheckComponentSettings(r.object.components)

validateConfiguration(r, env) ==
  \/ isReachabilityCheck(r)
  \/ /\ validateTelemetryCollectionEnabledConsistency(r, env.helm)
     /\ validateAgent0ConnectorEnabledConsistency(r, env.helm)
     /\ validateSyntheticsWorkerEnabledConsistency(r, env.helm)
     /\ validateSyntheticsWorkerHasInstances(r, env.helm)
     /\ validateEbpfProfiler(r, env.helm)
     /\ ~(r.object.export # <<>> /\ r.object.exports # <<>>)
     /\ read(r.object.selfMonitoring, TRUE) => r.object.exports # <<>>
     /\ validateTelemetryCollectionDisabledConsistency(r.object)
     /\ \A e \in Range1(r.object.exports) : validateGrpcExportInsecureFlags(e)
     /\ \A t \in Range1(r.object.template) : t.exports = <<>>
     /\ hasDash0Export(r.object) \/ ~hasEnabledSignalControl(env)
     /\ validateOttlOfOperatorConfiguration(r.object)
     /\ r.op = "create" => env.configurations = {}
     /\ validateComponentSettings(r)

-----------------------------------------------------------------------------
(* Signal Control                                                          *)

durationBoundMin == 10
durationBoundMax == 3600

\* Zero means the default of the component.
validateDurationBounds(d) == d = 0 \/ (durationBoundMin <= d /\ d <= durationBoundMax)

validateOperationProcessorCardinalityRules(rules) ==
  \A rule \in Range1(rules) : rule.compiles /\ rule.groups = rule.replacements

hasDash0ExportConfigured(env) == \E c \in env.configurations : hasDash0Export(c.spec)

reservoirDefaultMaxDiskMiB == 1024
reservoirMaxDiskMiBFloor == 64

usesDiskReservoir(spec) == read(spec.enabled, TRUE) /\ read(spec.sampling, TRUE) /\ spec.reservoir = "disk"

\* A quarter more than the size of the reservoir.
ReservoirEphemeralStorageRequest(spec) ==
  LET size == IF spec.maxDisk = <<>> THEN reservoirDefaultMaxDiskMiB
              ELSE IF spec.maxDisk[1] < reservoirMaxDiskMiBFloor THEN reservoirMaxDiskMiBFloor ELSE spec.maxDisk[1]
  IN  (size * 5 + 3) \div 4

reservoirStorageSettingsOf(spec) == <<spec.enabled, spec.sampling, spec.reservoir, spec.maxDisk, spec.components>>

validateReservoirEphemeralStorageLimit(spec, helm) ==
  usesDiskReservoir(spec) =>
    LET limits == EffectiveExtraConfig(helm.resources, spec.components).limits
    IN  "ephemeral-storage" \in DOMAIN limits => limits["ephemeral-storage"] >= ReservoirEphemeralStorageRequest(spec)

validateSignalControl(r, env) ==
  /\ r.op = "create" => env.signalControls = {}
  /\ read(r.object.enabled, TRUE) => hasDash0ExportConfigured(env)
  /\ validateOperationProcessorCardinalityRules(r.object.rules)
  /\ \A k \in DOMAIN r.object.durations : validateDurationBounds(r.object.durations[k])
  /\ componentSettingsAreUnchanged(r, r.old.components, r.object.components) \/ CheckComponentSettings(r.object.components)
  /\ componentSettingsAreUnchanged(r, reservoirStorageSettingsOf(r.old), reservoirStorageSettingsOf(r.object))
     \/ validateReservoirEphemeralStorageLimit(r.object, env.helm)

-----------------------------------------------------------------------------
(* The versions of the monitoring resource                                 *)

\* Variant of newerSettings without the object collection.
newerSettingsButObjects(hub) ==
  [selector |-> IF hub.selector \in {"", "default"} THEN "unset" ELSE hub.selector,
   propagators |-> hub.propagators, captureSql |-> hub.captureSql, events |-> hub.events, objects |-> "unset"]

\* The settings v1alpha1 does not have are kept in annotations.
newerSettings(hub) ==
  [selector |-> IF hub.selector \in {"", "default"} THEN "unset" ELSE hub.selector,
   propagators |-> hub.propagators, captureSql |-> hub.captureSql, events |-> hub.events, objects |-> hub.objects]

\* From v1beta1, the stored version, to v1alpha1.
ConvertFrom(hub) ==
  [export |-> hub.export, exports |-> hub.exports, mode |-> hub.mode, logs |-> hub.logs, scraping |-> hub.scraping,
   scrapingLegacy |-> "unset", filter |-> hub.filter, transform |-> hub.transform,
   normalizedTransform |-> hub.normalizedTransform, annotations |-> newerSettings(hub)]

\* Scraping is off if either flag says so.
ConvertTo(old) ==
  [export |-> old.export, exports |-> old.exports, mode |-> old.mode, logs |-> old.logs,
   scraping |-> IF ~read(old.scrapingLegacy, TRUE) \/ ~read(old.scraping, TRUE) THEN "off" ELSE old.scraping,
   filter |-> old.filter, transform |-> old.transform, normalizedTransform |-> old.normalizedTransform,
   selector |-> orElse(old.annotations.selector, "default"), propagators |-> old.annotations.propagators,
   captureSql |-> old.annotations.captureSql, events |-> old.annotations.events, objects |-> old.annotations.objects]

=============================================================================
