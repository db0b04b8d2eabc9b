---------------------- MODULE AdmissionWebhooksProofs ----------------------
(***************************************************************************)
(* Proofs about the admission of resources. For every memory limit the     *)
(* derived thresholds are in order, and settings that pass the validation  *)
(* are accepted by the API server; whatever users apply, in one version or *)
(* the other, one after the other or at the same time, what is stored is   *)
(* sound, and clients of the older version do not lose newer settings.     *)
(***************************************************************************)
EXTENDS AdmissionWebhooks, FiniteSetTheorems, TLAPS

\* Whenever DeriveCollectorMemorySettings finds the limit large enough, the
\* thresholds are in order: the Go runtime collects garbage harder before the memory
\* limiter refuses data, and it refuses all data well before the container is killed.
THEOREM MemoryThresholdsAreInOrder ==
  ASSUME NEW limit \in Int, DeriveCollectorMemorySettings(limit).ok
  PROVE  LET s == DeriveCollectorMemorySettings(limit)
         IN  /\ 0 < s.goMem /\ s.goMem + 24 <= s.soft
             /\ s.soft + 32 <= s.hard /\ s.hard + 96 <= limit
             /\ s.hard - s.spike = s.soft
<1> DEFINE reserve  == clampInt((limit * 10) \div 100, 96, 512)
           spike    == clampInt((limit * 5) \div 100, 32, 256)
           goMemGap == clampInt((limit * 3) \div 100, 24, 128)
<1>1. (limit * 10) \div 100 \in Int /\ (limit * 5) \div 100 \in Int /\ (limit * 3) \div 100 \in Int
  OBVIOUS
<1>2. reserve \in 96 .. 512 /\ spike \in 32 .. 256 /\ goMemGap \in 24 .. 128
  BY <1>1 DEF clampInt
<1>3. DeriveCollectorMemorySettings(limit) =
        [ok    |-> limit > 0 /\ limit - reserve - spike - goMemGap > 0
                     /\ limit - reserve - spike > 0 /\ limit - reserve > 0,
         goMem |-> limit - reserve - spike - goMemGap, soft |-> limit - reserve - spike,
         hard  |-> limit - reserve, spike |-> spike]
  BY DEF DeriveCollectorMemorySettings
<1> HIDE DEF reserve, spike, goMemGap
<1>4. limit - reserve - spike - goMemGap > 0
  BY DEF DeriveCollectorMemorySettings, reserve, spike, goMemGap
<1> QED
  BY <1>2, <1>3, <1>4

\* GOMEMLIMIT of a container without memory limiter leaves the headroom that
\* DeriveGoMemLimitFromLimit asks for, or is not set at all.
THEOREM GoMemLimitLeavesHeadroom ==
  ASSUME NEW limit \in Int, NEW percent \in Nat
  PROVE  LET goMem == DeriveGoMemLimitFromLimit(limit, percent)
         IN  goMem # 0 => 0 < goMem /\ goMem + goMemLimitMinHeadroomMiB <= limit
<1> DEFINE share == (limit * percent) \div 100
<1>1. share \in Int
  OBVIOUS
<1>2. DeriveGoMemLimitFromLimit(limit, percent) =
        LET goMem == IF share < limit - 8 THEN share ELSE limit - 8
        IN  IF limit <= 0 \/ goMem <= 0 THEN 0 ELSE goMem
  BY DEF DeriveGoMemLimitFromLimit, goMemLimitMinHeadroomMiB
<1> HIDE DEF share
<1> QED
  BY <1>1, <1>2 DEF goMemLimitMinHeadroomMiB

-----------------------------------------------------------------------------
(* Merging *)

\* Settings that pass validateContainerResources can be merged with any defaults: in
\* the result no request is above its limit and nothing is negative, although requests
\* and limits come from different places (mergeContainerResources adjusts whichever
\* of the two is a default, and the validation only compares explicit values).
THEOREM ValidSettingsAreDeployable ==
  ASSUME NEW defaults, NEW settings,
         IsResourceList(defaults.limits, Nat), IsResourceList(defaults.requests, Nat),
         IsResourceList(settings.limits, Int), IsResourceList(settings.requests, Int),
         validateContainerResources(settings)
  PROVE  Deployable(mergeContainerResources(defaults, settings))
<1> DEFINE limits   == mergeResourceList(defaults.limits, settings.limits)
           demands  == mergeResourceList(defaults.requests, settings.requests)
           merged   == mergeContainerResources(defaults, settings)
<1>1. /\ merged.limits = [n \in DOMAIN limits |-> adjustedLimit(limits, demands, settings, n)]
      /\ merged.requests = [n \in DOMAIN demands |-> adjustedRequest(limits, demands, settings, n)]
  BY DEF mergeContainerResources
<1>2. validateResourceList(settings.limits, TRUE) /\ validateResourceList(settings.requests, FALSE)
  BY DEF validateContainerResources
<1>3. /\ \A n \in DOMAIN limits : limits[n] \in Nat
      /\ \A n \in DOMAIN limits \cap DOMAIN settings.limits : limits[n] = settings.limits[n]
      /\ \A n \in DOMAIN limits :
           ~(n \in DOMAIN settings.limits /\ settings.limits[n] = removeResourceQuantity)
  BY <1>2 DEF mergeResourceList, removed, isRemoveResourceQuantity, removeResourceQuantity,
              validateResourceList, IsResourceList
<1>4. /\ \A n \in DOMAIN demands : demands[n] \in Nat
      /\ \A n \in DOMAIN demands \cap DOMAIN settings.requests : demands[n] = settings.requests[n]
  BY <1>2 DEF mergeResourceList, removed, isRemoveResourceQuantity, removeResourceQuantity,
              validateResourceList, IsResourceList
<1>5. ASSUME NEW n \in DOMAIN demands \cap DOMAIN limits,
             n \in DOMAIN settings.requests, n \in DOMAIN settings.limits
      PROVE  demands[n] <= limits[n]
  BY <1>3, <1>4, <1>5 DEF validateContainerResources, isRemoveResourceQuantity
<1> HIDE DEF limits, demands, merged
<1>6. \A n \in DOMAIN limits : adjustedLimit(limits, demands, settings, n) \in Nat
  BY <1>3, <1>4 DEF adjustedLimit
<1>7. \A n \in DOMAIN demands : adjustedRequest(limits, demands, settings, n) \in Nat
  BY <1>3, <1>4 DEF adjustedRequest
<1>8. \A n \in DOMAIN demands \cap DOMAIN limits :
        adjustedRequest(limits, demands, settings, n) <= adjustedLimit(limits, demands, settings, n)
  BY <1>3, <1>4, <1>5 DEF adjustedRequest, adjustedLimit
<1>9. DOMAIN merged.limits = DOMAIN limits /\ DOMAIN merged.requests = DOMAIN demands
  BY <1>1
<1>10. Deployable(merged)
  BY <1>1, <1>6, <1>7, <1>8, <1>9 DEF Deployable
<1> QED
  BY <1>10 DEF merged

-----------------------------------------------------------------------------
(* What is known of resources and requests                                 *)

Clients == {"apply", "addFinalizer", "removeFinalizer"}

\* A spec has the fields of its kind; a selector is set, and the components are settings.
IsSpec(kind, spec) ==
  /\ DOMAIN spec = DOMAIN SchemaDefaults[kind]
  /\ kind = "monitoring" => spec.selector \notin {"", "unset"}
  /\ kind # "monitoring" => AreComponents(spec.components)

\* What the mutating webhooks leave: no deprecated export, exports and a transformation that
\* follow the manifest `last`, and events decided.
IsMutated(kind, spec, last) ==
  /\ kind \in {"configuration", "monitoring"} => ExportsFollow([spec |-> spec, last |-> last])
  /\ kind = "configuration" =>
       spec.normalizedTransform = IF spec.transform = None THEN None ELSE normalizeTransform(spec.transform[1])
  /\ kind = "monitoring" =>
       /\ spec.transform # None => spec.normalizedTransform = normalizeTransform(spec.transform[1])
       /\ spec.events # "unset"

\* What the validating webhooks leave: components that can be merged with the defaults.
IsValidated(kind, spec) == kind # "monitoring" => CheckComponentSettings(spec.components)

IsResource(kind, r) ==
  /\ DOMAIN r = {"spec", "available", "finalizer", "deleting", "auto", "last"}
  /\ "annotations" \notin DOMAIN r.last
  /\ IsSpec(kind, r.spec) /\ IsMutated(kind, r.spec, r.last) /\ IsValidated(kind, r.spec)

RequestFields == {"key", "client", "version", "manifest", "dryRun", "stage", "base", "op", "name", "ns", "auto",
                  "finalizer", "object", "old"}

\* Users apply all kinds of resources, the reconciler updates monitoring resources.
IsRequest(q) ==
  /\ DOMAIN q = RequestFields
  /\ q.key[1] \in Kinds /\ q.client \in Clients /\ q.stage \in {"mutate", "validate", "persist"}
  /\ IsManifest(q.key[1], q.manifest)
  /\ q.version = "v1alpha1" => q.key[1] = "monitoring" /\ q.client = "apply"
  /\ q.client # "apply" => q.key[1] = "monitoring" /\ q.base # None

\* What the request goes back to is a resource, and is what its webhooks compare with.
IsBased(q) ==
  \/ q.base = None /\ q.op = "create" /\ q.old = SchemaDefaults[q.key[1]]
  \/ /\ q.base = <<q.base[1]>> /\ q.op = "update" /\ q.old = q.base[1].spec
     /\ IsResource(q.key[1], q.base[1])

\* The manifest that what the request stores has been made from.
LastOf(q) == IF q.client = "apply" THEN q.manifest ELSE q.base[1].last

\* A client of the older version has left the settings alone that it does not know.
KeepsNewerSettings(q) ==
  (q.version = "v1alpha1" /\ q.base # None) => \A f \in NewerFields : q.object[f] = q.base[1].spec[f]

\* How far the request has got. A dry run is not stored, the reachability check is one.
IsUnderWay(q) ==
  /\ (q.client # "apply" \/ q.stage # "mutate") => IsBased(q)
  /\ (q.client # "apply" /\ q.stage = "mutate") => q.object = q.base[1].spec
  /\ (q.stage # "mutate" /\ ~q.dryRun) =>
       IsSpec(q.key[1], q.object) /\ IsMutated(q.key[1], q.object, LastOf(q)) /\ KeepsNewerSettings(q)
  /\ (q.stage = "persist" /\ ~q.dryRun) => IsValidated(q.key[1], q.object)

StoredAreResources == \A k \in DOMAIN stored : k[1] \in Kinds /\ IsResource(k[1], stored[k])
RequestsAreSound == \A q \in requests : IsRequest(q) /\ IsUnderWay(q)
HelmIsSound == scenario \in DOMAIN Scenarios /\ AreHelmValues(helm)

AdmissionInv == StoredAreResources /\ RequestsAreSound /\ HelmIsSound

-----------------------------------------------------------------------------
(* One configuration, one Signal Control                                   *)

Singletons == {"configuration", "signalcontrol"}

OneUserAtATime == \A p, q \in requests : (p.client = "apply" /\ q.client = "apply") => p = q

\* A request for a new resource is about to be stored, and there still is none of its kind.
StillFirst(q) ==
  (q.stage = "persist" /\ ~q.dryRun /\ q.base = None /\ q.key[1] \in Singletons) => \A k \in DOMAIN stored : k[1] # q.key[1]

\* Without overlap there is one request of a user at a time, so what it has been compared
\* with is still there when it is stored.
UniqueInv ==
  ~setting.overlap =>
    /\ OneUserAtATime
    /\ AtMostOne("configuration") /\ AtMostOne("signalcontrol")
    /\ \A q \in requests : StillFirst(q)

-----------------------------------------------------------------------------
(* Signal Control and the configuration                                    *)

HasDash0Export == \E k \in DOMAIN stored : k[1] = "configuration" /\ hasDash0Export(stored[k].spec)
HasSignalControl == \E k \in DOMAIN stored : k[1] = "signalcontrol" /\ read(stored[k].spec.enabled, TRUE)

NoConfigurationGoes == \A k \in DOMAIN stored : k[1] = "configuration" => ~stored[k].deleting

\* What the validating webhooks have found still holds when the request is stored.
StillValid(q) ==
  (q.stage = "persist" /\ ~q.dryRun) =>
    /\ q.key[1] = "configuration" => hasDash0Export(q.object) \/ ~HasSignalControl
    /\ (q.key[1] = "signalcontrol" /\ read(q.object.enabled, TRUE)) => HasDash0Export

SignalControlInv ==
  (~setting.overlap /\ ConfigurationsStay) =>
    /\ NoConfigurationGoes
    /\ \A q \in requests : StillValid(q)
    /\ HasSignalControl => HasDash0Export

-----------------------------------------------------------------------------
(* The trace reservoir                                                     *)

\* The values with which a reservoir has been compared are still those of the operator.
ReservoirInv ==
  HelmResourcesStay =>
    /\ helm.resources = setting.helm.resources
    /\ \A k \in DOMAIN stored : k[1] = "signalcontrol" => validateReservoirEphemeralStorageLimit(stored[k].spec, helm)
    /\ \A q \in requests :
         /\ (q.key[1] = "signalcontrol" /\ q.base # None) => validateReservoirEphemeralStorageLimit(q.base[1].spec, helm)
         /\ (q.key[1] = "signalcontrol" /\ q.stage = "persist" /\ ~q.dryRun) => validateReservoirEphemeralStorageLimit(q.object, helm)

-----------------------------------------------------------------------------
(* Specs                                                                   *)

LEMMA FieldsOfConfiguration ==
  /\ {"export", "exports", "transform", "normalizedTransform", "components"} \subseteq DOMAIN SchemaDefaults["configuration"]
  /\ SchemaDefaults["configuration"].export = None /\ SchemaDefaults["configuration"].exports = None
  /\ SchemaDefaults["configuration"].components = None
  BY DEF SchemaDefaults

LEMMA FieldsOfMonitoring ==
  /\ DOMAIN SchemaDefaults["monitoring"] =
       {"export", "exports", "mode", "selector", "propagators", "captureSql", "logs", "events", "objects", "scraping",
        "filter", "transform", "normalizedTransform"}
  /\ SchemaDefaults["monitoring"].export = None /\ SchemaDefaults["monitoring"].exports = None
  /\ SchemaDefaults["monitoring"].selector = "default"
  BY DEF SchemaDefaults

LEMMA FieldsOfSignalControl ==
  /\ "components" \in DOMAIN SchemaDefaults["signalcontrol"]
  /\ SchemaDefaults["signalcontrol"].components = None
  BY DEF SchemaDefaults

LEMMA NoComponents == AreComponents(None)
  BY DEF AreComponents, None

\* The schema's defaults are a spec, with no exports.
LEMMA DefaultsAreSpec ==
  ASSUME NEW kind \in Kinds
  PROVE  /\ IsSpec(kind, SchemaDefaults[kind])
         /\ kind # "signalcontrol" => SchemaDefaults[kind].export = None /\ SchemaDefaults[kind].exports = None
  <1>1. CASE kind = "configuration"
    BY <1>1, FieldsOfConfiguration, NoComponents DEF IsSpec
  <1>2. CASE kind = "monitoring"
    BY <1>2, FieldsOfMonitoring DEF IsSpec
  <1>3. CASE kind = "signalcontrol"
    BY <1>3, FieldsOfSignalControl, NoComponents DEF IsSpec
  <1> QED
    BY <1>1, <1>2, <1>3 DEF Kinds

\* A field of a merge: from the manifest, removed, or kept.
LEMMA MergedField ==
  ASSUME NEW live, NEW last, NEW manifest, NEW defaults
  PROVE  /\ DOMAIN Merge(live, last, manifest, defaults) = DOMAIN live
         /\ \A f \in DOMAIN live :
              Merge(live, last, manifest, defaults)[f] = IF f \in DOMAIN manifest THEN manifest[f]
                                                         ELSE IF f \in DOMAIN last THEN defaults[f] ELSE live[f]
  BY DEF Merge

\* The exports of an applied object, where live is without the deprecated export.
AppliedExports(object, live, last, manifest) ==
  /\ "export" \in DOMAIN manifest => object.export = manifest.export
  /\ "export" \notin DOMAIN manifest => object.export = None
  /\ "exports" \in DOMAIN manifest => object.exports = manifest.exports
  /\ "exports" \notin DOMAIN manifest => object.exports \in {None, live.exports}

\* An apply with the current version.
LEMMA AppliedCurrent ==
  ASSUME NEW kind \in Kinds, NEW version, version # "v1alpha1", NEW live, NEW last, NEW manifest,
         IsSpec(kind, live), kind # "signalcontrol" => live.export = None, IsManifest(kind, manifest)
  PROVE  /\ IsSpec(kind, Applied(kind, version, live, last, manifest))
         /\ kind # "signalcontrol" => AppliedExports(Applied(kind, version, live, last, manifest), live, last, manifest)
  <1> DEFINE object == Applied(kind, version, live, last, manifest)
             defaults == SchemaDefaults[kind]
  <1>1. /\ DOMAIN object = DOMAIN live
        /\ \A f \in DOMAIN live : object[f] = IF f \in DOMAIN manifest THEN manifest[f]
                                              ELSE IF f \in DOMAIN last THEN defaults[f] ELSE live[f]
    BY MergedField DEF Applied
  <1>2. IsSpec(kind, defaults) /\ DOMAIN live = DOMAIN defaults /\ "components" \in DOMAIN SchemaDefaults["configuration"]
        /\ "components" \in DOMAIN SchemaDefaults["signalcontrol"] /\ "selector" \in DOMAIN SchemaDefaults["monitoring"]
    BY DefaultsAreSpec, FieldsOfConfiguration, FieldsOfMonitoring, FieldsOfSignalControl DEF IsSpec
  <1>3. kind # "signalcontrol" => /\ "export" \in DOMAIN live /\ "exports" \in DOMAIN live
                                  /\ defaults.export = None /\ defaults.exports = None
    BY <1>2, DefaultsAreSpec, FieldsOfConfiguration, FieldsOfMonitoring DEF Kinds
  <1> HIDE DEF object, defaults
  <1>4. kind = "monitoring" => object.selector \notin {"", "unset"}
    BY <1>1, <1>2 DEF IsSpec, IsManifest, defaults
  <1>5. ASSUME kind # "monitoring" PROVE AreComponents(object.components)
    <2>1. "components" \in DOMAIN live
      BY <1>2, <1>5 DEF Kinds, defaults
    <2>2. AreComponents(live.components) /\ AreComponents(defaults.components)
      BY <1>2, <1>5 DEF IsSpec
    <2>3. "components" \in DOMAIN manifest => AreComponents(manifest.components)
      BY <1>5 DEF IsManifest
    <2>4. object.components = live.components \/ object.components = defaults.components
          \/ ("components" \in DOMAIN manifest /\ object.components = manifest.components)
      BY <1>1, <2>1
    <2> QED
      BY <2>2, <2>3, <2>4
  <1>6. IsSpec(kind, object)
    BY <1>1, <1>2, <1>4, <1>5 DEF IsSpec, defaults
  <1>7. kind # "signalcontrol" => AppliedExports(object, live, last, manifest)
    BY <1>1, <1>3 DEF AppliedExports
  <1> QED
    BY <1>6, <1>7 DEF object

\* An apply with the older version: the newer settings come back from the annotations.
LEMMA AppliedOld ==
  ASSUME NEW live, NEW last, NEW manifest, IsSpec("monitoring", live), live.export = None,
         IsManifest("monitoring", manifest), "annotations" \notin DOMAIN last
  PROVE  LET object == Applied("monitoring", "v1alpha1", live, last, manifest)
         IN  /\ IsSpec("monitoring", object) /\ AppliedExports(object, live, last, manifest)
             /\ \A f \in NewerFields : object[f] = live[f]
  <1> DEFINE old == ConvertFrom(live)
             defaults == ConvertFrom(SchemaDefaults["monitoring"])
             merged == Merge(old, last, manifest, defaults)
             object == Applied("monitoring", "v1alpha1", live, last, manifest)
  <1>1. object = ConvertTo(merged)
    BY DEF Applied
  <1>2. /\ {"export", "exports", "annotations"} \subseteq DOMAIN old
        /\ old.export = None /\ old.exports = live.exports /\ old.annotations = newerSettings(live)
        /\ defaults.export = None /\ defaults.exports = None
    BY FieldsOfMonitoring DEF ConvertFrom
  <1> HIDE DEF old, defaults
  <1>3. \A f \in DOMAIN old : merged[f] = IF f \in DOMAIN manifest THEN manifest[f]
                                          ELSE IF f \in DOMAIN last THEN defaults[f] ELSE old[f]
    BY MergedField
  <1> HIDE DEF merged, object
  <1>4. merged.annotations = newerSettings(live)
    BY <1>2, <1>3 DEF IsManifest
  <1>5. object.export = merged.export /\ object.exports = merged.exports
    BY <1>1 DEF ConvertTo
  <1>6. DOMAIN object = DOMAIN SchemaDefaults["monitoring"]
    BY <1>1, FieldsOfMonitoring DEF ConvertTo
  <1>7. /\ object.selector = orElse(merged.annotations.selector, "default")
        /\ object.propagators = merged.annotations.propagators /\ object.captureSql = merged.annotations.captureSql
        /\ object.events = merged.annotations.events /\ object.objects = merged.annotations.objects
    BY <1>1 DEF ConvertTo
  <1>8. /\ newerSettings(live).selector = IF live.selector \in {"", "default"} THEN "unset" ELSE live.selector
        /\ newerSettings(live).propagators = live.propagators /\ newerSettings(live).captureSql = live.captureSql
        /\ newerSettings(live).events = live.events /\ newerSettings(live).objects = live.objects
    BY DEF newerSettings
  <1>9. object.selector = live.selector /\ live.selector \notin {"", "unset"}
    BY <1>4, <1>7, <1>8 DEF orElse, IsSpec
  <1>10. AppliedExports(object, live, last, manifest)
    BY <1>2, <1>3, <1>5 DEF AppliedExports
  <1> QED
    BY <1>4, <1>6, <1>7, <1>8, <1>9, <1>10 DEF IsSpec, NewerFields, object

-----------------------------------------------------------------------------
(* The mutating webhooks                                                   *)

LEMMA SingletonSequence == \A x : <<x>> # None /\ <<x>>[1] = x /\ DOMAIN <<x>> = {1}
  BY DEF None

\* What is left of the object of a monitoring resource.
IsMutatedMonitoring(r, object) ==
  /\ DOMAIN object = DOMAIN SchemaDefaults["monitoring"]
  /\ object.export = None /\ object.exports = migratedExports(r)
  /\ \A f \in {"selector", "propagators", "captureSql", "objects", "transform"} : object[f] = r.object[f]
  /\ object.events \in (IF r.object.events = "unset" THEN {"on", "off"} ELSE {r.object.events})
  /\ object.transform # None => object.normalizedTransform = normalizeTransform(object.transform[1])

LEMMA MutatedMonitoring ==
  ASSUME NEW r, NEW e, ~isReachabilityCheck(r), DOMAIN r.object = DOMAIN SchemaDefaults["monitoring"],
         mutateMonitoring(r, e) # None
  PROVE  IsMutatedMonitoring(r, mutateMonitoring(r, e)[1])
  <1> DEFINE fields == DOMAIN SchemaDefaults["monitoring"]
             kept == {"selector", "propagators", "captureSql", "objects", "transform"}
             first == setTelemetryCollectionRelatedDefaults(r, e)
             second == overrideLogCollectionDefault(r, first)
             third == [second EXCEPT !.exports = migratedExports(r), !.export = <<>>]
             normalized == IF third.transform = <<>> THEN third.normalizedTransform ELSE normalizeTransform(third.transform[1])
             fourth == [third EXCEPT !.normalizedTransform = normalized]
             events == IF r.object.events = "unset" THEN {"on", "off"} ELSE {r.object.events}
  <1>1. /\ kept \cup {"events", "export", "exports", "normalizedTransform"} \subseteq fields
        /\ kept \cap {"events", "export", "exports", "normalizedTransform", "mode", "logs", "scraping"} = {}
    BY FieldsOfMonitoring
  <1> HIDE DEF fields
  <1>2. DOMAIN first = fields /\ (\A f \in kept : first[f] = r.object[f]) /\ first.events \in events
    BY <1>1 DEF setTelemetryCollectionRelatedDefaults, orElse, flag, fields
  <1> HIDE DEF first
  <1>3. DOMAIN second = fields /\ (\A f \in kept : second[f] = r.object[f]) /\ second.events \in events
    BY <1>1, <1>2 DEF overrideLogCollectionDefault
  <1> HIDE DEF second, events
  <1>4. /\ DOMAIN third = fields /\ (\A f \in kept : third[f] = r.object[f]) /\ third.events \in events
        /\ third.export = <<>> /\ third.exports = migratedExports(r)
    BY <1>1, <1>3
  <1>5. mutateMonitoring(r, e) = IF third.transform # <<>> /\ normalized = <<>> THEN <<>> ELSE <<fourth>>
    BY DEF mutateMonitoring, normalizeMonitoringResourceSpec, first, second
  <1> HIDE DEF third
  <1>6. mutateMonitoring(r, e)[1] = fourth
    BY <1>5, SingletonSequence DEF None
  <1>7. /\ DOMAIN fourth = fields /\ (\A f \in kept : fourth[f] = r.object[f]) /\ fourth.events \in events
        /\ fourth.export = None /\ fourth.exports = migratedExports(r)
        /\ fourth.transform # None => fourth.normalizedTransform = normalizeTransform(fourth.transform[1])
    BY <1>1, <1>4 DEF None
  <1> HIDE DEF fourth
  <1> QED
    BY <1>6, <1>7 DEF IsMutatedMonitoring, fields, events

\* What is left of the object of a configuration.
LEMMA MutatedConfiguration ==
  ASSUME NEW r, ~isReachabilityCheck(r), DOMAIN r.object = DOMAIN SchemaDefaults["configuration"],
         mutateConfiguration(r) # None
  PROVE  LET object == mutateConfiguration(r)[1]
         IN  /\ DOMAIN object = DOMAIN SchemaDefaults["configuration"]
             /\ object.export = None /\ object.exports = migratedExports(r)
             /\ object.components = r.object.components
             /\ object.normalizedTransform = IF object.transform = None THEN None
                                             ELSE normalizeTransform(object.transform[1])
  <1> DEFINE fields == DOMAIN SchemaDefaults["configuration"]
             telemetry == orElse(r.object.telemetryCollection, "on")
             spec == [r.object EXCEPT !.exports = migratedExports(r), !.export = <<>>,
                        !.telemetryCollection = telemetry,
                        !.selfMonitoring = orElse(@, "on"),
                        !.infrastructureMetrics = orElse(@, telemetry),
                        !.legacyInfrastructureMetrics = orElse(@, telemetry),
                        !.podLabels = orElse(@, telemetry),
                        !.namespaceLabels = orElse(@, "off"),
                        !.nodeLabels = orElse(@, "off"),
                        !.prometheusCrd = orElse(@, "off"),
                        !.template = setMonitoringTemplateDefaults(r.object),
                        !.normalizedTransform = derivedTransform(r.object),
                        !.instances = setSyntheticsWorkerInstanceDefaults(r.object)]
  <1>1. {"export", "exports", "transform", "normalizedTransform", "components"} \subseteq fields
    BY FieldsOfConfiguration
  <1>2. mutateConfiguration(r) = IF spec.transform # <<>> /\ spec.normalizedTransform = <<>> THEN <<>> ELSE <<spec>>
    BY DEF mutateConfiguration, normalizeOperatorConfigurationResourceSpec
  <1> HIDE DEF fields
  <1>3. /\ DOMAIN spec = fields /\ spec.export = None /\ spec.exports = migratedExports(r)
        /\ spec.components = r.object.components /\ spec.transform = r.object.transform
        /\ spec.normalizedTransform = derivedTransform(r.object)
    BY <1>1 DEF None, fields
  <1> HIDE DEF spec
  <1>4. mutateConfiguration(r)[1] = spec
    BY <1>2, SingletonSequence DEF None
  <1> QED
    BY <1>3, <1>4 DEF fields, derivedTransform, None

\* The exports after the migration are those of the manifest, whether it has the deprecated
\* export or the list, and whatever the merge has brought back.
LEMMA ExportsAreMigrated ==
  ASSUME NEW r, NEW live, NEW last, NEW manifest, NEW kind, NEW object,
         AppliedExports(r.object, live, last, manifest), IsManifest(kind, manifest),
         (r.op = "update" /\ r.old.exports = live.exports) \/ live.exports = None,
         object.export = None, object.exports = migratedExports(r)
  PROVE  ExportsFollow([spec |-> object, last |-> manifest])
  <1>1. ASSUME "export" \in DOMAIN manifest, "exports" \notin DOMAIN manifest PROVE object.exports = manifest.export
    <2>1. r.object.export = manifest.export /\ manifest.export # None /\ r.object.exports \in {None, live.exports}
      BY <1>1 DEF AppliedExports, IsManifest
    <2>2. r.object.exports = None \/ isExportsUnchanged(r)
      BY <2>1 DEF isExportsUnchanged
    <2> QED
      BY <2>1, <2>2 DEF migratedExports, None
  <1>2. ASSUME "exports" \in DOMAIN manifest, "export" \notin DOMAIN manifest PROVE object.exports = manifest.exports
    BY <1>2 DEF AppliedExports, migratedExports, None
  <1> QED
    BY <1>1, <1>2 DEF ExportsFollow

-----------------------------------------------------------------------------
(* Requests                                                                *)

\* The resource a request goes back to, with the defaults if there is none yet.
LiveResource(q) == IF q.key \in DOMAIN stored THEN stored[q.key] ELSE NewResource(q.key[1])

LEMMA NothingIsKept == DOMAIN None = {}
  BY DEF None

LEMMA LiveIsSpec ==
  ASSUME StoredAreResources, NEW q, q.key[1] \in Kinds
  PROVE  /\ IsSpec(q.key[1], LiveResource(q).spec)
         /\ q.key[1] # "signalcontrol" => LiveResource(q).spec.export = None
         /\ "annotations" \notin DOMAIN LiveResource(q).last
         /\ (q.key \notin DOMAIN stored /\ q.key[1] # "signalcontrol") => LiveResource(q).spec.exports = None
  <1>1. CASE q.key \in DOMAIN stored
    <2>1. LiveResource(q) = stored[q.key] /\ IsResource(q.key[1], stored[q.key])
      BY <1>1 DEF LiveResource, StoredAreResources
    <2>2. q.key[1] # "signalcontrol" => stored[q.key].spec.export = None
      BY <2>1 DEF IsResource, IsMutated, ExportsFollow, Kinds
    <2> QED
      BY <1>1, <2>1, <2>2 DEF IsResource
  <1>2. CASE q.key \notin DOMAIN stored
    <2>1. LiveResource(q).spec = SchemaDefaults[q.key[1]] /\ LiveResource(q).last = None
      BY <1>2 DEF LiveResource, NewResource
    <2> QED
      BY <2>1, DefaultsAreSpec, NothingIsKept
  <1> QED
    BY <1>1, <1>2

\* What a request knows once it has read the live resource.
LEMMA ReadingIsBased ==
  ASSUME StoredAreResources, NEW q, DOMAIN q = RequestFields, q.key[1] \in Kinds
  PROVE  LET p == Reading(q)
         IN  /\ DOMAIN p = RequestFields
             /\ \A f \in {"key", "client", "version", "manifest", "dryRun", "stage", "name", "ns"} : p[f] = q[f]
             /\ IsBased(p) /\ p.old = LiveResource(q).spec
             /\ p.base = IF q.key \in DOMAIN stored THEN <<stored[q.key]>> ELSE None
             /\ p.op = IF q.key \in DOMAIN stored THEN "update" ELSE "create"
             /\ p.object = IF q.client = "apply"
                           THEN Applied(q.key[1], q.version, LiveResource(q).spec, LiveResource(q).last, q.manifest)
                           ELSE LiveResource(q).spec
  <1> DEFINE p == Reading(q)
  <1>1. /\ DOMAIN p = RequestFields
        /\ \A f \in {"key", "client", "version", "manifest", "dryRun", "stage", "name", "ns"} : p[f] = q[f]
    BY DEF Reading, RequestFields
  <1>2. /\ p.old = LiveResource(q).spec
        /\ p.base = Live(q.key)
        /\ p.op = IF q.key \in DOMAIN stored THEN "update" ELSE "create"
        /\ p.object = IF q.client = "apply"
                      THEN Applied(q.key[1], q.version, LiveResource(q).spec, LiveResource(q).last, q.manifest)
                      ELSE LiveResource(q).spec
    BY DEF Reading, RequestFields, LiveResource
  <1> HIDE DEF p
  <1>3. p.base = IF q.key \in DOMAIN stored THEN <<stored[q.key]>> ELSE None
    BY <1>2 DEF Live
  <1>4. CASE q.key \in DOMAIN stored
    <2>1. p.base = <<stored[q.key]>> /\ p.base[1] = stored[q.key] /\ p.op = "update" /\ p.old = stored[q.key].spec
      BY <1>2, <1>3, <1>4, SingletonSequence DEF LiveResource
    <2>2. IsResource(q.key[1], stored[q.key]) /\ p.key = q.key
      BY <1>1, <1>4 DEF StoredAreResources
    <2> QED
      BY <1>1, <1>2, <1>3, <2>1, <2>2 DEF IsBased, p
  <1>5. CASE q.key \notin DOMAIN stored
    <2>1. p.base = None /\ p.op = "create" /\ p.old = SchemaDefaults[q.key[1]] /\ p.key = q.key
      BY <1>1, <1>2, <1>3, <1>5 DEF LiveResource, NewResource
    <2> QED
      BY <1>1, <1>2, <1>3, <2>1 DEF IsBased, p
  <1> QED
    BY <1>4, <1>5

\* What an apply asks for.
LEMMA AppliedIsSpec ==
  ASSUME StoredAreResources, NEW q, IsRequest(q), q.client = "apply"
  PROVE  LET p == Reading(q)
         IN  /\ IsSpec(q.key[1], p.object)
             /\ q.key[1] # "signalcontrol" =>
                  AppliedExports(p.object, LiveResource(q).spec, LiveResource(q).last, q.manifest)
             /\ q.version = "v1alpha1" => \A f \in NewerFields : p.object[f] = LiveResource(q).spec[f]
  <1> DEFINE live == LiveResource(q)
             object == Reading(q).object
  <1>1. q.key[1] \in Kinds /\ DOMAIN q = RequestFields /\ IsManifest(q.key[1], q.manifest)
        /\ (q.version = "v1alpha1" => q.key[1] = "monitoring")
    BY DEF IsRequest
  <1>2. object = Applied(q.key[1], q.version, live.spec, live.last, q.manifest)
    BY <1>1, ReadingIsBased
  <1>3. /\ IsSpec(q.key[1], live.spec) /\ "annotations" \notin DOMAIN live.last
        /\ q.key[1] # "signalcontrol" => live.spec.export = None
    BY <1>1, LiveIsSpec
  <1> HIDE DEF live, object
  <1>4. CASE q.version = "v1alpha1"
    <2>1. q.key[1] = "monitoring" /\ live.spec.export = None
      BY <1>1, <1>3, <1>4
    <2>2. /\ IsSpec("monitoring", object) /\ AppliedExports(object, live.spec, live.last, q.manifest)
          /\ \A f \in NewerFields : object[f] = live.spec[f]
      BY <1>1, <1>2, <1>3, <1>4, <2>1, AppliedOld
    <2> QED
      BY <2>1, <2>2 DEF live, object
  <1>5. CASE q.version # "v1alpha1"
    <2>1. /\ IsSpec(q.key[1], object)
          /\ q.key[1] # "signalcontrol" => AppliedExports(object, live.spec, live.last, q.manifest)
      BY <1>1, <1>2, <1>3, <1>5, AppliedCurrent
    <2> QED
      BY <1>5, <2>1 DEF live, object
  <1> QED
    BY <1>4, <1>5

\* A request as it comes out of a mutating webhook.
Mutant(p, object) == [p EXCEPT !.stage = "validate", !.object = object]

LEMMA MutantKeeps ==
  ASSUME NEW p, NEW object, IsRequest(p), IsBased(p)
  PROVE  LET m == Mutant(p, object)
         IN  /\ IsRequest(m) /\ IsBased(m) /\ m.stage = "validate" /\ m.object = object
             /\ \A f \in RequestFields \ {"stage", "object"} : m[f] = p[f]
             /\ LastOf(m) = LastOf(p)
  <1> DEFINE m == Mutant(p, object)
  <1>1. /\ DOMAIN m = RequestFields /\ m.stage = "validate" /\ m.object = object
        /\ \A f \in RequestFields \ {"stage", "object"} : m[f] = p[f]
    BY DEF Mutant, IsRequest, RequestFields
  <1> HIDE DEF m
  <1>2. /\ m.key = p.key /\ m.client = p.client /\ m.version = p.version /\ m.manifest = p.manifest
        /\ m.base = p.base /\ m.op = p.op /\ m.old = p.old /\ m.dryRun = p.dryRun
    BY <1>1 DEF RequestFields
  <1>3. IsRequest(m)
    BY <1>1, <1>2 DEF IsRequest
  <1>4. IsBased(m) /\ LastOf(m) = LastOf(p)
    BY <1>2 DEF IsBased, LastOf
  <1> QED
    BY <1>1, <1>3, <1>4 DEF m

\* The mutating webhooks on what a user applies.
LEMMA MutatedApply ==
  ASSUME StoredAreResources, NEW q, IsRequest(q), q.client = "apply", ~q.dryRun,
         mutated(Reading(q)) # None
  PROVE  LET object == mutated(Reading(q))[1]
         IN  /\ IsSpec(q.key[1], object) /\ IsMutated(q.key[1], object, q.manifest)
             /\ (q.version = "v1alpha1" /\ q.key \in DOMAIN stored) =>
                  \A f \in NewerFields : object[f] = stored[q.key].spec[f]
  <1> DEFINE p == Reading(q)
             object == mutated(p)[1]
             live == LiveResource(q)
  <1>1. /\ q.key[1] \in Kinds /\ DOMAIN q = RequestFields /\ IsManifest(q.key[1], q.manifest)
        /\ q.version = "v1alpha1" => q.key[1] = "monitoring"
    BY DEF IsRequest
  <1>2. /\ p.key = q.key /\ p.dryRun = q.dryRun /\ p.old = live.spec
        /\ p.op = IF q.key \in DOMAIN stored THEN "update" ELSE "create"
    BY <1>1, ReadingIsBased
  <1>3. ~isReachabilityCheck(p)
    BY <1>2 DEF isReachabilityCheck
  <1>4. /\ IsSpec(q.key[1], p.object)
        /\ q.key[1] # "signalcontrol" => AppliedExports(p.object, live.spec, live.last, q.manifest)
        /\ q.version = "v1alpha1" => \A f \in NewerFields : p.object[f] = live.spec[f]
    BY AppliedIsSpec
  <1>5. q.key[1] # "signalcontrol" => (p.op = "update" /\ p.old.exports = live.spec.exports) \/ live.spec.exports = None
    BY <1>1, <1>2, LiveIsSpec
  <1> HIDE DEF p, live
  <1>6. CASE q.key[1] = "configuration"
    <2>1. mutated(p) = mutateConfiguration(p)
      BY <1>2, <1>6 DEF mutated
    <2>2. DOMAIN p.object = DOMAIN SchemaDefaults["configuration"] /\ AreComponents(p.object.components)
      BY <1>4, <1>6 DEF IsSpec
    <2>3. /\ DOMAIN object = DOMAIN SchemaDefaults["configuration"]
          /\ object.export = None /\ object.exports = migratedExports(p)
          /\ object.components = p.object.components
          /\ object.normalizedTransform = IF object.transform = None THEN None
                                          ELSE normalizeTransform(object.transform[1])
      BY <1>3, <2>1, <2>2, MutatedConfiguration DEF p
    <2> HIDE DEF object
    <2>4. ExportsFollow([spec |-> object, last |-> q.manifest])
      BY <1>1, <1>4, <1>5, <1>6, <2>3, ExportsAreMigrated
    <2>5. IsSpec(q.key[1], object) /\ IsMutated(q.key[1], object, q.manifest) /\ q.version # "v1alpha1"
      BY <1>1, <1>6, <2>2, <2>3, <2>4 DEF IsSpec, IsMutated
    <2> QED
      BY <2>5 DEF object, p
  <1>7. CASE q.key[1] = "monitoring"
    <2>1. mutated(p) = mutateMonitoring(p, env)
      BY <1>2, <1>7 DEF mutated
    <2>2. DOMAIN p.object = DOMAIN SchemaDefaults["monitoring"] /\ p.object.selector \notin {"", "unset"}
      BY <1>4, <1>7 DEF IsSpec
    <2>3. /\ DOMAIN object = DOMAIN SchemaDefaults["monitoring"]
          /\ object.export = None /\ object.exports = migratedExports(p)
          /\ \A f \in {"selector", "propagators", "captureSql", "objects", "transform"} : object[f] = p.object[f]
          /\ object.events \in (IF p.object.events = "unset" THEN {"on", "off"} ELSE {p.object.events})
          /\ object.transform # None => object.normalizedTransform = normalizeTransform(object.transform[1])
      <3>1. IsMutatedMonitoring(p, mutateMonitoring(p, env)[1])
        BY <1>3, <2>1, <2>2, MutatedMonitoring DEF p
      <3> QED
        BY <2>1, <3>1 DEF IsMutatedMonitoring
    <2> HIDE DEF object
    <2>4. ExportsFollow([spec |-> object, last |-> q.manifest])
      BY <1>1, <1>4, <1>5, <1>7, <2>3, ExportsAreMigrated
    <2>5. IsSpec(q.key[1], object) /\ IsMutated(q.key[1], object, q.manifest)
      BY <1>7, <2>2, <2>3, <2>4 DEF IsSpec, IsMutated
    <2>6. ASSUME q.version = "v1alpha1", q.key \in DOMAIN stored
          PROVE  \A f \in NewerFields : object[f] = stored[q.key].spec[f]
      <3>1. live = stored[q.key] /\ IsResource("monitoring", stored[q.key])
        BY <1>7, <2>6 DEF live, LiveResource, StoredAreResources
      <3>2. stored[q.key].spec.events # "unset"
        BY <3>1 DEF IsResource, IsMutated
      <3>3. \A f \in NewerFields : p.object[f] = stored[q.key].spec[f]
        BY <1>4, <2>6, <3>1
      <3> QED
        BY <2>3, <3>2, <3>3 DEF NewerFields
    <2> QED
      BY <2>5, <2>6 DEF object, p
  <1>8. CASE q.key[1] = "signalcontrol"
    <2>1. object = p.object
      BY <1>2, <1>8, SingletonSequence DEF mutated
    <2>2. IsSpec(q.key[1], object) /\ q.version # "v1alpha1"
      BY <1>1, <1>4, <1>8, <2>1
    <2> QED
      BY <1>8, <2>2 DEF IsMutated, object, p
  <1> QED
    BY <1>1, <1>6, <1>7, <1>8 DEF Kinds

\* The mutating webhook on an update of the reconciler: nothing is derived anew.
LEMMA MutatedUpdate ==
  ASSUME NEW q, IsRequest(q), IsUnderWay(q), q.client # "apply", q.stage = "mutate",
         mutated(q) # None
  PROVE  ~q.dryRun => IsSpec(q.key[1], mutated(q)[1]) /\ IsMutated(q.key[1], mutated(q)[1], q.base[1].last)
  <1> SUFFICES ASSUME ~q.dryRun
               PROVE  IsSpec(q.key[1], mutated(q)[1]) /\ IsMutated(q.key[1], mutated(q)[1], q.base[1].last)
    OBVIOUS
  <1> DEFINE object == mutated(q)[1]
  <1>1. /\ q.key[1] = "monitoring" /\ q.object = q.base[1].spec /\ IsResource("monitoring", q.base[1])
        /\ q.old = q.base[1].spec
    BY DEF IsRequest, IsUnderWay, IsBased
  <1>2. /\ IsSpec("monitoring", q.object) /\ ExportsFollow([spec |-> q.object, last |-> q.base[1].last])
        /\ q.object.transform # None => q.object.normalizedTransform = normalizeTransform(q.object.transform[1])
        /\ q.object.events # "unset"
    BY <1>1 DEF IsResource, IsMutated
  <1>3. ~isReachabilityCheck(q)
    BY DEF isReachabilityCheck
  <1>4. mutated(q) = mutateMonitoring(q, env)
    BY <1>1 DEF mutated
  <1>5. DOMAIN q.object = DOMAIN SchemaDefaults["monitoring"] /\ q.object.selector \notin {"", "unset"}
    BY <1>2 DEF IsSpec
  <1>6. /\ DOMAIN object = DOMAIN SchemaDefaults["monitoring"]
        /\ object.export = None /\ object.exports = migratedExports(q)
        /\ \A f \in {"selector", "propagators", "captureSql", "objects", "transform"} : object[f] = q.object[f]
        /\ object.events \in (IF q.object.events = "unset" THEN {"on", "off"} ELSE {q.object.events})
        /\ object.transform # None => object.normalizedTransform = normalizeTransform(object.transform[1])
    <2>1. IsMutatedMonitoring(q, mutateMonitoring(q, env)[1])
      BY <1>3, <1>4, <1>5, MutatedMonitoring
    <2> QED
      BY <1>4, <2>1 DEF IsMutatedMonitoring
  <1> HIDE DEF object
  <1>7. q.object.export = None
    BY <1>2 DEF ExportsFollow
  <1>8. object.exports = q.object.exports
    BY <1>6, <1>7 DEF migratedExports, None
  <1>9. ExportsFollow([spec |-> object, last |-> q.base[1].last])
    BY <1>2, <1>6, <1>8 DEF ExportsFollow
  <1>10. IsSpec(q.key[1], object) /\ IsMutated(q.key[1], object, q.base[1].last)
    BY <1>1, <1>2, <1>5, <1>6, <1>9 DEF IsSpec, IsMutated
  <1> QED
    BY <1>10 DEF object

\* A request that has passed the mutating webhook.
LEMMA MutateIsSound ==
  ASSUME StoredAreResources, NEW q, IsRequest(q), IsUnderWay(q), q.stage = "mutate",
         NEW p, p = (IF q.client = "apply" THEN Reading(q) ELSE q), mutated(p) # None
  PROVE  IsRequest(Mutant(p, mutated(p)[1])) /\ IsUnderWay(Mutant(p, mutated(p)[1]))
  <1> DEFINE object == mutated(p)[1]
             m == Mutant(p, object)
  <1>1. /\ IsRequest(p) /\ IsBased(p)
        /\ p.key = q.key /\ p.client = q.client /\ p.version = q.version /\ p.manifest = q.manifest /\ p.dryRun = q.dryRun
    <2>1. CASE q.client = "apply"
      <3>1. q.key[1] \in Kinds /\ DOMAIN q = RequestFields
        BY DEF IsRequest
      <3>2. p = Reading(q)
        BY <2>1
      <3>3. /\ DOMAIN p = RequestFields /\ IsBased(p)
            /\ \A f \in {"key", "client", "version", "manifest", "dryRun", "stage", "name", "ns"} : p[f] = q[f]
        BY <3>1, <3>2, ReadingIsBased
      <3>4. /\ p.key = q.key /\ p.client = q.client /\ p.version = q.version /\ p.manifest = q.manifest
            /\ p.dryRun = q.dryRun /\ p.stage = q.stage
        BY <3>3
      <3> QED
        BY <2>1, <3>3, <3>4 DEF IsRequest
    <2>2. CASE q.client # "apply"
      BY <2>2 DEF IsUnderWay
    <2> QED
      BY <2>1, <2>2
  <1>2. ASSUME ~q.dryRun
        PROVE  /\ IsSpec(q.key[1], object) /\ IsMutated(q.key[1], object, LastOf(p))
               /\ (q.version = "v1alpha1" /\ p.base # None) => \A f \in NewerFields : object[f] = p.base[1].spec[f]
    <2>1. CASE q.client = "apply"
      <3>1. q.key[1] \in Kinds /\ DOMAIN q = RequestFields /\ p = Reading(q) /\ LastOf(p) = q.manifest
        BY <1>1, <2>1 DEF IsRequest, LastOf
      <3>2. /\ IsSpec(q.key[1], object) /\ IsMutated(q.key[1], object, q.manifest)
            /\ (q.version = "v1alpha1" /\ q.key \in DOMAIN stored) =>
                 \A f \in NewerFields : object[f] = stored[q.key].spec[f]
        BY <1>2, <2>1, <3>1, MutatedApply
      <3>3. p.base = IF q.key \in DOMAIN stored THEN <<stored[q.key]>> ELSE None
        BY <3>1, ReadingIsBased
      <3>4. p.base # None => q.key \in DOMAIN stored /\ p.base[1] = stored[q.key]
        BY <3>3, SingletonSequence
      <3> QED
        BY <3>1, <3>2, <3>4
    <2>2. CASE q.client # "apply"
      <3>1. p = q /\ LastOf(p) = q.base[1].last /\ q.version # "v1alpha1"
        BY <2>2 DEF IsRequest, LastOf
      <3>2. IsSpec(q.key[1], object) /\ IsMutated(q.key[1], object, q.base[1].last)
        BY <1>2, <2>2, <3>1, MutatedUpdate
      <3> QED
        BY <3>1, <3>2
    <2> QED
      BY <2>1, <2>2
  <1> HIDE DEF object
  <1>3. /\ IsRequest(m) /\ IsBased(m) /\ m.stage = "validate" /\ m.object = object
        /\ \A f \in RequestFields \ {"stage", "object"} : m[f] = p[f]
        /\ LastOf(m) = LastOf(p)
    BY <1>1, MutantKeeps
  <1>4. m.key = q.key /\ m.version = q.version /\ m.base = p.base /\ m.dryRun = q.dryRun
    BY <1>1, <1>3 DEF RequestFields
  <1> HIDE DEF m
  <1>5. IsUnderWay(m)
    BY <1>2, <1>3, <1>4 DEF IsUnderWay, KeepsNewerSettings
  <1> QED
    BY <1>3, <1>5 DEF m, object

\* A request that has passed the validating webhook: settings it does not look at again
\* have been looked at before.
LEMMA ValidateIsSound ==
  ASSUME NEW q, IsRequest(q), IsUnderWay(q), q.stage = "validate", validated(q)
  PROVE  IsRequest([q EXCEPT !.stage = "persist"]) /\ IsUnderWay([q EXCEPT !.stage = "persist"])
  <1> DEFINE m == [q EXCEPT !.stage = "persist"]
  <1>1. /\ DOMAIN m = RequestFields /\ m.stage = "persist"
        /\ \A f \in RequestFields \ {"stage"} : m[f] = q[f]
    BY DEF IsRequest, RequestFields
  <1> HIDE DEF m
  <1>2. /\ m.key = q.key /\ m.client = q.client /\ m.version = q.version /\ m.manifest = q.manifest
        /\ m.base = q.base /\ m.op = q.op /\ m.old = q.old /\ m.dryRun = q.dryRun /\ m.object = q.object
    BY <1>1 DEF RequestFields
  <1>3. IsRequest(m)
    BY <1>1, <1>2 DEF IsRequest
  <1>4. IsBased(q) /\ q.key[1] \in Kinds
    BY DEF IsUnderWay, IsRequest
  <1>5. IsBased(m) /\ LastOf(m) = LastOf(q)
    BY <1>2, <1>4 DEF IsBased, LastOf
  <1>6. ASSUME ~q.dryRun PROVE IsValidated(q.key[1], q.object)
    <2>1. ~isReachabilityCheck(q)
      BY <1>6 DEF isReachabilityCheck
    <2>2. ASSUME q.key[1] # "monitoring"
          PROVE  componentSettingsAreUnchanged(q, q.old.components, q.object.components) \/ CheckComponentSettings(q.object.components)
      <3>1. CASE q.key[1] = "configuration"
        BY <2>1, <3>1 DEF validated, validateConfiguration, validateComponentSettings
      <3>2. CASE q.key[1] = "signalcontrol"
        BY <3>2 DEF validated, validateSignalControl
      <3> QED
        BY <1>4, <2>2, <3>1, <3>2 DEF Kinds
    <2>3. ASSUME q.key[1] # "monitoring", componentSettingsAreUnchanged(q, q.old.components, q.object.components)
          PROVE  CheckComponentSettings(q.object.components)
      <3>1. q.op = "update" /\ q.old.components = q.object.components
        BY <2>3 DEF componentSettingsAreUnchanged
      <3>2. q.old = q.base[1].spec /\ IsValidated(q.key[1], q.base[1].spec)
        BY <1>4, <3>1 DEF IsBased, IsResource
      <3> QED
        BY <2>3, <3>1, <3>2 DEF IsValidated
    <2> QED
      BY <2>2, <2>3 DEF IsValidated
  <1>7. IsUnderWay(m)
    BY <1>1, <1>2, <1>5, <1>6 DEF IsUnderWay, KeepsNewerSettings
  <1> QED
    BY <1>3, <1>7 DEF m

\* A request of a user at its beginning.
LEMMA RequestIsSound ==
  ASSUME NEW key, NEW version, NEW manifest, NEW dryRun, key[1] \in Kinds, IsManifest(key[1], manifest),
         version = "v1alpha1" => key[1] = "monitoring"
  PROVE  IsRequest(Request(key, "apply", version, manifest, dryRun)) /\ IsUnderWay(Request(key, "apply", version, manifest, dryRun))
  <1> DEFINE q == Request(key, "apply", version, manifest, dryRun)
  <1>1. /\ DOMAIN q = RequestFields /\ q.key = key /\ q.client = "apply" /\ q.version = version
        /\ q.manifest = manifest /\ q.stage = "mutate"
    BY DEF Request, RequestFields
  <1> HIDE DEF q
  <1>2. IsRequest(q) /\ IsUnderWay(q)
    BY <1>1 DEF IsRequest, IsUnderWay, Clients
  <1> QED
    BY <1>2 DEF q

\* A request of the reconciler at its beginning.
ReconcilerRequest(key, client) == Reading(Request(key, client, "v1beta1", None, FALSE))

LEMMA ReconcilerRequestIsSound ==
  ASSUME StoredAreResources, NEW key \in DOMAIN stored, key[1] = "monitoring", NEW client \in {"addFinalizer", "removeFinalizer"}
  PROVE  /\ IsRequest(ReconcilerRequest(key, client)) /\ IsUnderWay(ReconcilerRequest(key, client))
         /\ ReconcilerRequest(key, client).client = client /\ ReconcilerRequest(key, client).stage = "mutate"
         /\ ReconcilerRequest(key, client).key = key
  <1> DEFINE q == Request(key, client, "v1beta1", None, FALSE)
             p == Reading(q)
  <1>1. /\ DOMAIN q = RequestFields /\ q.key = key /\ q.client = client /\ q.version = "v1beta1"
        /\ q.manifest = None /\ q.stage = "mutate"
    BY DEF Request, RequestFields
  <1> HIDE DEF q
  <1>2. /\ DOMAIN p = RequestFields /\ IsBased(p)
        /\ \A f \in {"key", "client", "version", "manifest", "dryRun", "stage", "name", "ns"} : p[f] = q[f]
        /\ p.base = IF q.key \in DOMAIN stored THEN <<stored[q.key]>> ELSE None
        /\ p.object = IF q.client = "apply"
                      THEN Applied(q.key[1], q.version, LiveResource(q).spec, LiveResource(q).last, q.manifest)
                      ELSE LiveResource(q).spec
    BY <1>1, ReadingIsBased DEF Kinds
  <1> HIDE DEF p
  <1>3. /\ p.key = key /\ p.client = client /\ p.version = "v1beta1" /\ p.manifest = None /\ p.stage = "mutate"
        /\ p.base = <<stored[key]>> /\ p.object = stored[key].spec
    BY <1>1, <1>2 DEF LiveResource
  <1>4. p.base # None /\ p.base[1] = stored[key]
    BY <1>3, SingletonSequence
  <1>5. IsManifest("monitoring", None)
    BY NothingIsKept DEF IsManifest
  <1>6. IsRequest(p)
    BY <1>2, <1>3, <1>4, <1>5 DEF IsRequest, Clients, Kinds
  <1>7. IsUnderWay(p)
    BY <1>2, <1>3, <1>4 DEF IsUnderWay
  <1> QED
    BY <1>3, <1>6, <1>7 DEF ReconcilerRequest, p, q

\* What a request stores.
LEMMA WrittenIsResource ==
  ASSUME NEW q, IsRequest(q), IsUnderWay(q), q.stage = "persist", ~q.dryRun
  PROVE  /\ IsResource(q.key[1], Written(q)) /\ Written(q).spec = q.object
         /\ Written(q).deleting = IF q.base = None THEN FALSE ELSE q.base[1].deleting
  <1> DEFINE before == IF q.base = None THEN NewResource(q.key[1]) ELSE q.base[1]
             w == Written(q)
  <1>1. IsBased(q) /\ q.key[1] \in Kinds /\ "annotations" \notin DOMAIN q.manifest
    BY DEF IsUnderWay, IsRequest, IsManifest
  <1>2. DOMAIN before = {"spec", "available", "finalizer", "deleting", "auto", "last"}
    BY <1>1 DEF NewResource, IsBased, IsResource
  <1>3. /\ before.deleting = IF q.base = None THEN FALSE ELSE q.base[1].deleting
        /\ q.client # "apply" => before.last = q.base[1].last
    BY DEF NewResource, IsRequest
  <1>4. w = [before EXCEPT !.spec = q.object, !.finalizer = q.finalizer,
                           !.last = IF q.client = "apply" THEN q.manifest ELSE before.last]
    BY DEF Written
  <1> HIDE DEF before, w
  <1>5. /\ DOMAIN w = {"spec", "available", "finalizer", "deleting", "auto", "last"}
        /\ w.spec = q.object /\ w.deleting = before.deleting /\ w.last = LastOf(q)
    BY <1>2, <1>3, <1>4 DEF LastOf
  <1>6. "annotations" \notin DOMAIN LastOf(q)
    <2>1. CASE q.client = "apply"
      BY <1>1, <2>1 DEF LastOf
    <2>2. CASE q.client # "apply"
      BY <1>1, <2>2 DEF LastOf, IsBased, IsResource, IsRequest
    <2> QED
      BY <2>1, <2>2
  <1>7. IsSpec(q.key[1], q.object) /\ IsMutated(q.key[1], q.object, LastOf(q)) /\ IsValidated(q.key[1], q.object)
    BY DEF IsUnderWay
  <1>8. IsResource(q.key[1], w)
    BY <1>5, <1>6, <1>7 DEF IsResource
  <1> QED
    BY <1>3, <1>5, <1>8 DEF w

\* A mark on a resource leaves it sound.
LEMMA MarkedIsResource ==
  ASSUME NEW kind, NEW r, NEW m, IsResource(kind, r), DOMAIN m = DOMAIN r, m.spec = r.spec, m.last = r.last
  PROVE  IsResource(kind, m)
  BY DEF IsResource

-----------------------------------------------------------------------------
(* The invariant                                                           *)

LEMMA InitIsSound == Init => AdmissionInv
  <1> SUFFICES ASSUME Init PROVE AdmissionInv
    OBVIOUS
  <1>1. StoredAreResources
    BY NothingIsKept DEF Init, StoredAreResources
  <1>2. RequestsAreSound
    BY DEF Init, RequestsAreSound
  <1>3. HelmIsSound
    BY ScenariosAssumption DEF Init, HelmIsSound, setting
  <1> QED
    BY <1>1, <1>2, <1>3 DEF AdmissionInv

\* The manifests and the Helm values of a command are as assumed.
LEMMA CommandIsKnown ==
  ASSUME HelmIsSound, NEW c \in setting.choices
  PROVE  /\ c.cmd \in {"apply", "dryrun"} => /\ c.key[1] \in Kinds
                                             /\ IsManifest(c.key[1], c.manifest)
                                             /\ c.version = "v1alpha1" => c.key[1] = "monitoring"
         /\ c.cmd = "helm" => AreHelmValues(c.helm)
  BY ScenariosAssumption DEF HelmIsSound, setting

\* What is stored when a request ends.
LEMMA PersistStores ==
  ASSUME AdmissionInv, NEW q \in requests, q.stage = "persist",
         stored' = IF Live(q.key) # q.base \/ q.dryRun THEN stored
                   ELSE IF Written(q).deleting /\ ~q.finalizer THEN Without(stored, q.key)
                   ELSE Put(stored, q.key, Written(q))
  PROVE  /\ \/ stored' = stored
            \/ ~q.dryRun /\ Live(q.key) = q.base /\ Written(q).deleting /\ stored' = Without(stored, q.key)
            \/ ~q.dryRun /\ Live(q.key) = q.base /\ stored' = Put(stored, q.key, Written(q))
         /\ ~q.dryRun => /\ IsResource(q.key[1], Written(q)) /\ Written(q).spec = q.object
                         /\ Written(q).deleting = IF q.base = None THEN FALSE ELSE q.base[1].deleting
         /\ IsRequest(q) /\ IsUnderWay(q)
  <1>1. IsRequest(q) /\ IsUnderWay(q)
    BY DEF AdmissionInv, RequestsAreSound
  <1>2. ~q.dryRun => /\ IsResource(q.key[1], Written(q)) /\ Written(q).spec = q.object
                     /\ Written(q).deleting = IF q.base = None THEN FALSE ELSE q.base[1].deleting
    BY <1>1, WrittenIsResource
  <1>3. \/ stored' = stored
        \/ ~q.dryRun /\ Live(q.key) = q.base /\ Written(q).deleting /\ stored' = Without(stored, q.key)
        \/ ~q.dryRun /\ Live(q.key) = q.base /\ stored' = Put(stored, q.key, Written(q))
    OBVIOUS
  <1> QED
    BY <1>1, <1>2, <1>3

LEMMA NextIsSound == AdmissionInv /\ [Next]_vars => AdmissionInv'
  <1> SUFFICES ASSUME AdmissionInv, [Next]_vars PROVE AdmissionInv'
    OBVIOUS
  <1>1. StoredAreResources /\ RequestsAreSound /\ HelmIsSound
    BY DEF AdmissionInv
  <1>2. ASSUME stored' = stored PROVE StoredAreResources'
    BY <1>1, <1>2 DEF StoredAreResources
  <1>3. ASSUME \A q \in requests' : q \in requests \/ (IsRequest(q) /\ IsUnderWay(q))
        PROVE  RequestsAreSound'
    BY <1>1, <1>3 DEF RequestsAreSound
  <1>4. ASSUME requests' = requests PROVE RequestsAreSound'
    BY <1>1, <1>4 DEF RequestsAreSound
  <1>5. ASSUME scenario' = scenario, helm' = helm PROVE HelmIsSound'
    BY <1>1, <1>5 DEF HelmIsSound
  <1>6. CASE UNCHANGED vars
    BY <1>2, <1>4, <1>5, <1>6 DEF vars, AdmissionInv
  <1>7. CASE Submit
    <2>1. PICK c \in setting.choices :
            /\ c.cmd \in {"apply", "dryrun"}
            /\ requests' = requests \cup {Request(c.key, "apply", c.version, c.manifest, c.cmd = "dryrun")}
            /\ UNCHANGED <<scenario, helm, stored>>
      BY <1>7 DEF Submit
    <2>2. \A q \in {Request(c.key, "apply", c.version, c.manifest, c.cmd = "dryrun")} : IsRequest(q) /\ IsUnderWay(q)
      BY <1>1, <2>1, CommandIsKnown, RequestIsSound
    <2>3. RequestsAreSound'
      BY <1>3, <2>1, <2>2
    <2> QED
      BY <1>2, <1>5, <2>1, <2>3 DEF AdmissionInv
  <1>8. CASE Mutate
    <2>1. PICK q \in requests :
            /\ q.stage = "mutate"
            /\ \E update \in {IF q.client = "apply" THEN Reading(q) ELSE q} : \E object \in {mutated(update)} :
                 requests' = (requests \ {q}) \cup
                   (IF object = <<>> THEN {} ELSE {[update EXCEPT !.stage = "validate", !.object = object[1]]})
            /\ UNCHANGED <<scenario, commands, helm, stored>>
      BY <1>8 DEF Mutate
    <2>2. PICK p : /\ p = IF q.client = "apply" THEN Reading(q) ELSE q
                   /\ requests' = (requests \ {q}) \cup (IF mutated(p) = None THEN {} ELSE {Mutant(p, mutated(p)[1])})
      BY <2>1 DEF Mutant, None
    <2>3. IsRequest(q) /\ IsUnderWay(q)
      BY <1>1 DEF RequestsAreSound
    <2>4. mutated(p) # None => IsRequest(Mutant(p, mutated(p)[1])) /\ IsUnderWay(Mutant(p, mutated(p)[1]))
      BY <1>1, <2>1, <2>2, <2>3, MutateIsSound
    <2>5. RequestsAreSound'
      BY <1>3, <2>2, <2>4
    <2> QED
      BY <1>2, <1>5, <2>1, <2>5 DEF AdmissionInv
  <1>9. CASE Validate
    <2>1. PICK q \in requests :
            /\ q.stage = "validate"
            /\ requests' = (requests \ {q}) \cup (IF validated(q) THEN {[q EXCEPT !.stage = "persist"]} ELSE {})
            /\ UNCHANGED <<scenario, commands, helm, stored>>
      BY <1>9 DEF Validate
    <2>2. IsRequest(q) /\ IsUnderWay(q)
      BY <1>1 DEF RequestsAreSound
    <2>3. validated(q) => IsRequest([q EXCEPT !.stage = "persist"]) /\ IsUnderWay([q EXCEPT !.stage = "persist"])
      BY <2>1, <2>2, ValidateIsSound
    <2>4. RequestsAreSound'
      BY <1>3, <2>1, <2>3
    <2> QED
      BY <1>2, <1>5, <2>1, <2>4 DEF AdmissionInv
  <1>10. CASE Persist
    <2>1. PICK q \in requests :
            /\ q.stage = "persist"
            /\ stored' = IF Live(q.key) # q.base \/ q.dryRun THEN stored
                         ELSE IF Written(q).deleting /\ ~q.finalizer THEN Without(stored, q.key)
                         ELSE Put(stored, q.key, Written(q))
            /\ requests' = (requests \ {q}) \cup
                 (IF Live(q.key) # q.base /\ q.client = "apply"
                  THEN {Request(q.key, q.client, q.version, q.manifest, q.dryRun)} ELSE {})
            /\ UNCHANGED <<scenario, commands, helm>>
      BY <1>10 DEF Persist
    <2>2. /\ \/ stored' = stored
             \/ ~q.dryRun /\ Live(q.key) = q.base /\ Written(q).deleting /\ stored' = Without(stored, q.key)
             \/ ~q.dryRun /\ Live(q.key) = q.base /\ stored' = Put(stored, q.key, Written(q))
          /\ ~q.dryRun => IsResource(q.key[1], Written(q))
          /\ IsRequest(q) /\ IsUnderWay(q)
      BY <2>1, PersistStores
    <2>3. StoredAreResources'
      <3>1. CASE stored' = stored
        BY <1>2, <3>1
      <3>2. CASE stored' = Without(stored, q.key)
        BY <1>1, <3>2 DEF StoredAreResources, Without
      <3>3. CASE ~q.dryRun /\ stored' = Put(stored, q.key, Written(q))
        <4>1. q.key[1] \in Kinds /\ IsResource(q.key[1], Written(q))
          BY <2>2, <3>3 DEF IsRequest
        <4>2. /\ DOMAIN stored' = DOMAIN stored \cup {q.key} /\ stored'[q.key] = Written(q)
              /\ \A k \in DOMAIN stored : k # q.key => stored'[k] = stored[k]
          BY <3>3 DEF Put
        <4> QED
          BY <1>1, <4>1, <4>2 DEF StoredAreResources
      <3> QED
        BY <2>2, <3>1, <3>2, <3>3
    <2>4. q.client = "apply" =>
            /\ IsRequest(Request(q.key, q.client, q.version, q.manifest, q.dryRun))
            /\ IsUnderWay(Request(q.key, q.client, q.version, q.manifest, q.dryRun))
      BY <2>2, RequestIsSound DEF IsRequest
    <2>5. RequestsAreSound'
      BY <1>3, <2>1, <2>4
    <2> QED
      BY <1>5, <2>1, <2>3, <2>5 DEF AdmissionInv
  <1>11. CASE Delete
    <2>1. PICK c \in setting.choices :
            /\ c.key \in DOMAIN stored
            /\ stored' = IF stored[c.key].finalizer THEN [stored EXCEPT ![c.key].deleting = TRUE] ELSE Without(stored, c.key)
            /\ UNCHANGED <<scenario, helm, requests>>
      BY <1>11 DEF Delete
    <2>2. StoredAreResources'
      <3>1. CASE stored' = Without(stored, c.key)
        BY <1>1, <3>1 DEF StoredAreResources, Without
      <3>2. CASE stored' = [stored EXCEPT ![c.key].deleting = TRUE]
        <4>1. IsResource(c.key[1], stored[c.key])
          BY <1>1, <2>1 DEF StoredAreResources
        <4>2. /\ DOMAIN stored' = DOMAIN stored /\ stored'[c.key] = [stored[c.key] EXCEPT !.deleting = TRUE]
              /\ \A k \in DOMAIN stored : k # c.key => stored'[k] = stored[k]
          BY <2>1, <3>2
        <4>3. /\ DOMAIN stored'[c.key] = DOMAIN stored[c.key]
              /\ stored'[c.key].spec = stored[c.key].spec /\ stored'[c.key].last = stored[c.key].last
          BY <4>1, <4>2 DEF IsResource
        <4>4. IsResource(c.key[1], stored'[c.key])
          BY <4>1, <4>3, MarkedIsResource
        <4> QED
          BY <1>1, <4>2, <4>4 DEF StoredAreResources
      <3> QED
        BY <2>1, <3>1, <3>2
    <2> QED
      BY <1>4, <1>5, <2>1, <2>2 DEF AdmissionInv
  <1>12. CASE HelmUpgrade
    <2>1. PICK c \in setting.choices : c.cmd = "helm" /\ helm' = c.helm /\ UNCHANGED <<scenario, stored, requests>>
      BY <1>12 DEF HelmUpgrade
    <2>2. AreHelmValues(c.helm)
      BY <1>1, <2>1, CommandIsKnown
    <2>3. HelmIsSound'
      BY <1>1, <2>1, <2>2 DEF HelmIsSound
    <2> QED
      BY <1>2, <1>4, <2>1, <2>3 DEF AdmissionInv
  <1>13. CASE MarkAvailable
    <2>1. PICK key \in DOMAIN stored : /\ stored' = [stored EXCEPT ![key].available = TRUE]
                                       /\ UNCHANGED <<scenario, commands, helm, requests>>
      BY <1>13 DEF MarkAvailable
    <2>2. IsResource(key[1], stored[key])
      BY <1>1 DEF StoredAreResources
    <2>3. /\ DOMAIN stored' = DOMAIN stored /\ stored'[key] = [stored[key] EXCEPT !.available = TRUE]
          /\ \A k \in DOMAIN stored : k # key => stored'[k] = stored[k]
      BY <2>1
    <2>4. /\ DOMAIN stored'[key] = DOMAIN stored[key]
          /\ stored'[key].spec = stored[key].spec /\ stored'[key].last = stored[key].last
      BY <2>2, <2>3 DEF IsResource
    <2>5. IsResource(key[1], stored'[key])
      BY <2>2, <2>4, MarkedIsResource
    <2>6. StoredAreResources'
      BY <1>1, <2>3, <2>5 DEF StoredAreResources
    <2> QED
      BY <1>4, <1>5, <2>1, <2>6 DEF AdmissionInv
  <1>14. CASE AddFinalizer \/ RemoveFinalizer
    <2>1. PICK k \in DOMAIN stored, client \in {"addFinalizer", "removeFinalizer"} :
            /\ k[1] = "monitoring"
            /\ requests' = requests \cup {ReconcilerRequest(k, client)}
            /\ UNCHANGED <<scenario, commands, helm, stored>>
      BY <1>14 DEF AddFinalizer, RemoveFinalizer, ReconcilerRequest
    <2>2. IsRequest(ReconcilerRequest(k, client)) /\ IsUnderWay(ReconcilerRequest(k, client))
      BY <1>1, <2>1, ReconcilerRequestIsSound
    <2>3. RequestsAreSound'
      BY <1>3, <2>1, <2>2
    <2> QED
      BY <1>2, <1>5, <2>1, <2>3 DEF AdmissionInv
  <1> QED
    BY <1>6, <1>7, <1>8, <1>9, <1>10, <1>11, <1>12, <1>13, <1>14 DEF Next

\* Only the request that is stored ends in this stage, and it has not been overtaken: the
\* resource is the one it has read.
LEMMA OldClientsKeep == AdmissionInv /\ [Next]_vars => [NewerSettingsStay]_vars
  <1> SUFFICES ASSUME AdmissionInv, Next,
                      NEW q \in requests \ requests', q.stage = "persist", q.version = "v1alpha1",
                      q.key \in DOMAIN stored \cap DOMAIN stored', NEW f \in NewerFields
               PROVE  stored'[q.key].spec[f] = stored[q.key].spec[f]
    BY DEF NewerSettingsStay
  <1>1. CASE Persist
    <2>1. PICK p \in requests :
            /\ p.stage = "persist"
            /\ stored' = IF Live(p.key) # p.base \/ p.dryRun THEN stored
                         ELSE IF Written(p).deleting /\ ~p.finalizer THEN Without(stored, p.key)
                         ELSE Put(stored, p.key, Written(p))
            /\ requests' = (requests \ {p}) \cup
                 (IF Live(p.key) # p.base /\ p.client = "apply"
                  THEN {Request(p.key, p.client, p.version, p.manifest, p.dryRun)} ELSE {})
      BY <1>1 DEF Persist
    <2>2. p = q
      BY <2>1
    <2>3. /\ \/ stored' = stored
             \/ ~q.dryRun /\ Live(q.key) = q.base /\ Written(q).deleting /\ stored' = Without(stored, q.key)
             \/ ~q.dryRun /\ Live(q.key) = q.base /\ stored' = Put(stored, q.key, Written(q))
          /\ ~q.dryRun => Written(q).spec = q.object
          /\ IsRequest(q) /\ IsUnderWay(q)
      BY <2>1, <2>2, PersistStores
    <2>4. CASE ~q.dryRun /\ Live(q.key) = q.base /\ stored' = Put(stored, q.key, Written(q))
      <3>1. stored'[q.key] = Written(q)
        BY <2>4 DEF Put
      <3>2. q.base = <<stored[q.key]>>
        BY <2>4 DEF Live
      <3>3. q.base # None /\ q.base[1] = stored[q.key]
        BY <3>2, SingletonSequence
      <3>4. KeepsNewerSettings(q)
        BY <2>3, <2>4 DEF IsUnderWay
      <3> QED
        BY <2>3, <2>4, <3>1, <3>3, <3>4 DEF KeepsNewerSettings
    <2>5. ~(stored' = Without(stored, q.key))
      BY DEF Without
    <2> QED
      BY <2>3, <2>4, <2>5
  <1>2. CASE Mutate \/ Validate
    BY <1>2 DEF Mutate, Validate
  <1>3. CASE Submit \/ Delete \/ HelmUpgrade \/ MarkAvailable \/ AddFinalizer \/ RemoveFinalizer
    BY <1>3 DEF Submit, Delete, HelmUpgrade, MarkAvailable, AddFinalizer, RemoveFinalizer
  <1> QED
    BY <1>1, <1>2, <1>3 DEF Next

\* An apply by a client of the older version leaves the settings alone that this version
\* does not have, for any manifests of both versions, any number of requests at the same time
\* and any retries: the conversion keeps them in annotations, the merge does not touch
\* these, and the webhook has nothing left to decide (ConvertFrom, ConvertTo).
THEOREM OldClientsDoNoHarm == Spec => OldClientsKeepNewerSettings
  <1>1. Init => AdmissionInv
    BY InitIsSound
  <1>2. AdmissionInv /\ [Next]_vars => AdmissionInv'
    BY NextIsSound
  <1>3. AdmissionInv /\ [Next]_vars => [NewerSettingsStay]_vars
    BY OldClientsKeep
  <1> QED
    BY <1>1, <1>2, <1>3, PTL DEF Spec, OldClientsKeepNewerSettings

-----------------------------------------------------------------------------
(* Fields the webhooks derive, and containers                              *)

LEMMA DerivedFieldsFollow == AdmissionInv => DerivedFieldsFollowTheManifest
  <1> SUFFICES ASSUME AdmissionInv PROVE DerivedFieldsFollowTheManifest
    OBVIOUS
  <1>1. \A k \in DOMAIN stored : IsMutated(k[1], stored[k].spec, stored[k].last)
    BY DEF AdmissionInv, StoredAreResources, IsResource
  <1>2. ASSUME NEW kind \in {"configuration", "monitoring"}, NEW r \in StoredOf(kind) PROVE ExportsFollow(r)
    <2>1. PICK k \in DOMAIN stored : k[1] = kind /\ r = stored[k]
      BY DEF StoredOf
    <2>2. ExportsFollow([spec |-> r.spec, last |-> r.last])
      BY <1>1, <2>1 DEF IsMutated
    <2> QED
      BY <2>2 DEF ExportsFollow
  <1>3. ASSUME NEW s \in Specs("configuration")
        PROVE  s.normalizedTransform = IF s.transform = None THEN None ELSE normalizeTransform(s.transform[1])
    <2>1. PICK k \in DOMAIN stored : k[1] = "configuration" /\ s = stored[k].spec
      BY <1>3 DEF Specs, StoredOf
    <2> QED
      BY <1>1, <2>1 DEF IsMutated
  <1>4. ASSUME NEW s \in Specs("monitoring"), s.transform # None PROVE s.normalizedTransform = normalizeTransform(s.transform[1])
    <2>1. PICK k \in DOMAIN stored : k[1] = "monitoring" /\ s = stored[k].spec
      BY <1>4 DEF Specs, StoredOf
    <2> QED
      BY <1>1, <1>4, <2>1 DEF IsMutated
  <1> QED
    BY <1>2, <1>3, <1>4 DEF DerivedFieldsFollowTheManifest

\* A GOMEMLIMIT that is below the memory limit where it is set is so where it is derived.
LEMMA GoMemLimitIsBelowLimit ==
  ASSUME NEW rr, "memory" \in DOMAIN rr.limits, rr.limits["memory"] \in Nat,
         \/ rr.goMemLimit = None
         \/ DOMAIN rr.goMemLimit = {1} /\ rr.goMemLimit[1] < rr.limits["memory"]
  PROVE  \A goMem \in Range1(EffectiveGoMemLimit(rr)) \cup Range1(EffectiveGoMemLimitPercent(rr, GoMemLimitDefaultPercent)) :
           goMem < rr.limits["memory"]
  <1> DEFINE limit == rr.limits["memory"]
             settings == DeriveCollectorMemorySettings(limit)
             share == DeriveGoMemLimitFromLimit(limit, 80)
  <1>1. memoryLimit(rr.limits) = limit /\ limit \in Int
    BY DEF memoryLimit
  <1>2. \A x : Range1(<<x>>) = {x}
    BY SingletonSequence DEF Range1
  <1>3. Range1(None) = {}
    BY NothingIsKept DEF Range1
  <1>4. settings.ok => settings.goMem < limit
    <2>1. settings.ok => /\ 0 < settings.goMem /\ settings.goMem + 24 <= settings.soft
                         /\ settings.soft + 32 <= settings.hard /\ settings.hard + 96 <= limit
      BY <1>1, MemoryThresholdsAreInOrder
    <2>2. settings.goMem \in Int /\ settings.soft \in Int /\ settings.hard \in Int
      BY <1>1 DEF DeriveCollectorMemorySettings, clampInt
    <2> QED
      BY <1>1, <2>1, <2>2
  <1>5. share # 0 => share < limit
    <2>1. share # 0 => 0 < share /\ share + goMemLimitMinHeadroomMiB <= limit
      BY <1>1, GoMemLimitLeavesHeadroom
    <2>2. share \in Int
      BY <1>1 DEF DeriveGoMemLimitFromLimit, goMemLimitMinHeadroomMiB
    <2> QED
      BY <1>1, <2>1, <2>2 DEF goMemLimitMinHeadroomMiB
  <1> HIDE DEF limit, settings, share
  <1>6. CASE rr.goMemLimit = None
    <2>1. EffectiveGoMemLimit(rr) = IF settings.ok THEN <<settings.goMem>> ELSE None
      BY <1>1, <1>6 DEF EffectiveGoMemLimit, settings, None
    <2>2. EffectiveGoMemLimitPercent(rr, GoMemLimitDefaultPercent) = IF share # 0 THEN <<share>> ELSE None
      BY <1>1, <1>6 DEF EffectiveGoMemLimitPercent, GoMemLimitDefaultPercent, share, None
    <2> QED
      BY <1>2, <1>3, <1>4, <1>5, <2>1, <2>2 DEF limit
  <1>7. CASE DOMAIN rr.goMemLimit = {1} /\ rr.goMemLimit[1] < limit
    <2>1. rr.goMemLimit # <<>>
      BY <1>7, NothingIsKept DEF None
    <2>2. EffectiveGoMemLimit(rr) = rr.goMemLimit /\ EffectiveGoMemLimitPercent(rr, GoMemLimitDefaultPercent) = rr.goMemLimit
      BY <2>1 DEF EffectiveGoMemLimit, EffectiveGoMemLimitPercent
    <2>3. Range1(rr.goMemLimit) = {rr.goMemLimit[1]}
      BY <1>7 DEF Range1
    <2> QED
      BY <1>7, <2>2, <2>3 DEF limit
  <1> QED
    BY <1>6, <1>7 DEF limit

\* Limits stay positive when settings are merged with the defaults.
LEMMA MergedLimitsArePositive ==
  ASSUME NEW settings, IsResourceList(settings.limits, Int), IsResourceList(settings.requests, Int),
         validateContainerResources(settings)
  PROVE  \A n \in DOMAIN mergeContainerResources(Defaults, settings).limits :
           mergeContainerResources(Defaults, settings).limits[n] \in Nat \ {0}
  <1> DEFINE limits  == mergeResourceList(Defaults.limits, settings.limits)
             demands == mergeResourceList(Defaults.requests, settings.requests)
  <1>1. validateResourceList(settings.limits, TRUE) /\ validateResourceList(settings.requests, FALSE)
    BY DEF validateContainerResources
  <1>2. IsResourceList(Defaults.limits, Nat \ {0}) /\ IsResourceList(Defaults.requests, Nat)
    BY DefaultsAssumption DEF AreHelmResources
  <1>3. \A n \in DOMAIN limits : limits[n] \in Nat \ {0}
    BY <1>1, <1>2 DEF mergeResourceList, removed, isRemoveResourceQuantity, removeResourceQuantity,
                      validateResourceList, IsResourceList
  <1>4. \A n \in DOMAIN demands : demands[n] \in Nat
    BY <1>1, <1>2 DEF mergeResourceList, removed, isRemoveResourceQuantity, removeResourceQuantity,
                      validateResourceList, IsResourceList
  <1>5. mergeContainerResources(Defaults, settings).limits = [n \in DOMAIN limits |-> adjustedLimit(limits, demands, settings, n)]
    BY DEF mergeContainerResources
  <1> HIDE DEF limits, demands
  <1>6. \A n \in DOMAIN limits : adjustedLimit(limits, demands, settings, n) \in Nat \ {0}
    BY <1>3, <1>4 DEF adjustedLimit
  <1> QED
    BY <1>5, <1>6

LEMMA ContainersAreDeployable ==
  ASSUME NEW resources, NEW components, AreHelmResources(resources), AreComponents(components),
         CheckComponentSettings(components), NEW rr, rr = EffectiveExtraConfig(resources, components)
  PROVE  /\ Deployable(rr)
         /\ "memory" \in DOMAIN rr.limits =>
              \A goMem \in Range1(EffectiveGoMemLimit(rr)) \cup Range1(EffectiveGoMemLimitPercent(rr, GoMemLimitDefaultPercent)) :
                goMem < rr.limits["memory"]
  <1>1. CASE components = None
    <2>1. rr = resources
      BY <1>1 DEF EffectiveExtraConfig, None
    <2>2. /\ \A n \in DOMAIN rr.limits : rr.limits[n] \in Nat \ {0}
          /\ \A n \in DOMAIN rr.requests : rr.requests[n] \in Nat
          /\ \A n \in DOMAIN rr.requests \cap DOMAIN rr.limits : rr.requests[n] <= rr.limits[n]
      BY <2>1 DEF AreHelmResources, IsResourceList
    <2>3. Deployable(rr)
      BY <2>2 DEF Deployable
    <2>4. ASSUME "memory" \in DOMAIN rr.limits
          PROVE  /\ rr.limits["memory"] \in Nat
                 /\ rr.goMemLimit = None \/ (DOMAIN rr.goMemLimit = {1} /\ rr.goMemLimit[1] < rr.limits["memory"])
      BY <2>1, <2>2, <2>4 DEF AreHelmResources
    <2> QED
      BY <2>3, <2>4, GoMemLimitIsBelowLimit
  <1>2. CASE components # None
    <2> DEFINE settings == components[1]
    <2>1. rr = mergeContainerResources(Defaults, settings)
      BY <1>2 DEF EffectiveExtraConfig, None
    <2>2. 1 \in DOMAIN components
      BY <1>2 DEF AreComponents
    <2>3. /\ IsResourceList(settings.limits, Int) /\ IsResourceList(settings.requests, Int)
          /\ settings.goMemLimit = None \/ (DOMAIN settings.goMemLimit = {1} /\ settings.goMemLimit[1] \in Int)
      BY <2>2 DEF AreComponents
    <2>4. /\ validateContainerResources(settings)
          /\ validateGoMemLimit(settings.goMemLimit, mergeContainerResources(Defaults, settings).limits)
      BY <2>2 DEF CheckComponentSettings, validateContainerResourcesWithGoMemLimit
    <2>5. IsResourceList(Defaults.limits, Nat) /\ IsResourceList(Defaults.requests, Nat) /\ Defaults.goMemLimit = None
      BY DefaultsAssumption DEF AreHelmResources, IsResourceList
    <2> HIDE DEF settings
    <2>6. Deployable(rr)
      BY <2>1, <2>3, <2>4, <2>5, ValidSettingsAreDeployable
    <2>7. \A n \in DOMAIN rr.limits : rr.limits[n] \in Nat \ {0}
      BY <2>1, <2>3, <2>4, MergedLimitsArePositive
    <2>8. rr.goMemLimit = IF settings.goMemLimit # None THEN settings.goMemLimit ELSE None
      BY <2>1, <2>5 DEF mergeContainerResources, None
    <2>9. validateGoMemLimit(settings.goMemLimit, rr.limits)
      BY <2>1, <2>4
    <2>10. ASSUME "memory" \in DOMAIN rr.limits
           PROVE  /\ rr.limits["memory"] \in Nat
                  /\ rr.goMemLimit = None \/ (DOMAIN rr.goMemLimit = {1} /\ rr.goMemLimit[1] < rr.limits["memory"])
      <3>1. rr.limits["memory"] \in Nat \ {0}
        BY <2>7, <2>10
      <3>2. settings.goMemLimit = None \/ settings.goMemLimit = <<Off>> \/ settings.goMemLimit[1] < rr.limits["memory"]
        BY <2>9, <2>10, <3>1 DEF validateGoMemLimit, None
      <3>3. settings.goMemLimit = <<Off>> => settings.goMemLimit[1] < rr.limits["memory"]
        BY <3>1, SingletonSequence DEF Off
      <3> QED
        BY <2>3, <2>8, <3>1, <3>2, <3>3
    <2> QED
      BY <2>6, <2>10, GoMemLimitIsBelowLimit
  <1> QED
    BY <1>1, <1>2

LEMMA ScenarioStays == [Next]_vars => scenario' = scenario /\ setting' = setting
  BY DEF Next, Submit, Mutate, Validate, Persist, Delete, HelmUpgrade, MarkAvailable, AddFinalizer, RemoveFinalizer, vars, setting

\* Room for a reservoir is a matter of its settings and of the resources.
LEMMA SameReservoir ==
  ASSUME NEW a, NEW b, NEW h, NEW i, reservoirStorageSettingsOf(a) = reservoirStorageSettingsOf(b),
         h.resources = i.resources, validateReservoirEphemeralStorageLimit(a, h)
  PROVE  validateReservoirEphemeralStorageLimit(b, i)
  <1>1. /\ a.enabled = b.enabled /\ a.sampling = b.sampling /\ a.reservoir = b.reservoir
        /\ a.maxDisk = b.maxDisk /\ a.components = b.components
    BY DEF reservoirStorageSettingsOf
  <1>2. usesDiskReservoir(a) <=> usesDiskReservoir(b)
    BY <1>1 DEF usesDiskReservoir
  <1>3. ReservoirEphemeralStorageRequest(a) = ReservoirEphemeralStorageRequest(b)
    BY <1>1 DEF ReservoirEphemeralStorageRequest
  <1> QED
    BY <1>1, <1>2, <1>3 DEF validateReservoirEphemeralStorageLimit

\* One resource and one request, with the resources of the operator.
ReservoirFits(kind, spec) == kind = "signalcontrol" => validateReservoirEphemeralStorageLimit(spec, setting.helm)
RequestFits(q) ==
  /\ q.base # None => ReservoirFits(q.key[1], q.base[1].spec)
  /\ (q.stage = "persist" /\ ~q.dryRun) => ReservoirFits(q.key[1], q.object)

LEMMA ReservoirParts ==
  ASSUME HelmResourcesStay
  PROVE  ReservoirInv <=> /\ helm.resources = setting.helm.resources
                          /\ \A k \in DOMAIN stored : ReservoirFits(k[1], stored[k].spec)
                          /\ \A q \in requests : RequestFits(q)
  <1>1. \A spec : helm.resources = setting.helm.resources =>
                    (validateReservoirEphemeralStorageLimit(spec, helm) <=> validateReservoirEphemeralStorageLimit(spec, setting.helm))
    BY SameReservoir
  <1> QED
    BY <1>1 DEF ReservoirInv, ReservoirFits, RequestFits

LEMMA InitFits == Init => ReservoirInv
  BY NothingIsKept DEF Init, ReservoirInv

\* The request with the object made from the live resource goes back to what is stored.
LEMMA ReadingFits ==
  ASSUME StoredAreResources, \A k \in DOMAIN stored : ReservoirFits(k[1], stored[k].spec),
         NEW q, DOMAIN q = RequestFields, q.key[1] \in Kinds, q.stage = "mutate"
  PROVE  RequestFits(Reading(q))
  <1> DEFINE p == Reading(q)
  <1>1. /\ p.key = q.key /\ p.stage = "mutate"
        /\ p.base = IF q.key \in DOMAIN stored THEN <<stored[q.key]>> ELSE None
    BY ReadingIsBased
  <1> HIDE DEF p
  <1>2. p.base # None => q.key \in DOMAIN stored /\ p.base[1] = stored[q.key]
    BY <1>1, SingletonSequence
  <1>3. RequestFits(p)
    BY <1>1, <1>2 DEF RequestFits
  <1> QED
    BY <1>3 DEF p

LEMMA NextFits == AdmissionInv /\ ReservoirInv /\ [Next]_vars => ReservoirInv'
  <1> SUFFICES ASSUME AdmissionInv, ReservoirInv, [Next]_vars, HelmResourcesStay PROVE ReservoirInv'
    BY ScenarioStays DEF ReservoirInv, HelmResourcesStay
  <1>1. setting' = setting /\ HelmResourcesStay'
    BY ScenarioStays DEF HelmResourcesStay
  <1>2. /\ helm.resources = setting.helm.resources
        /\ \A k \in DOMAIN stored : ReservoirFits(k[1], stored[k].spec)
        /\ \A q \in requests : RequestFits(q)
    BY ReservoirParts
  <1> SUFFICES /\ helm'.resources = setting.helm.resources
               /\ \A k \in DOMAIN stored' : ReservoirFits(k[1], stored'[k].spec)
               /\ \A q \in requests' : RequestFits(q)
    <2>1. \A spec : helm'.resources = setting.helm.resources =>
                      (validateReservoirEphemeralStorageLimit(spec, helm') <=> validateReservoirEphemeralStorageLimit(spec, setting.helm))
      BY SameReservoir
    <2> QED
      BY <1>1, <2>1 DEF ReservoirInv, ReservoirFits, RequestFits
  <1>3. StoredAreResources /\ RequestsAreSound /\ HelmIsSound
    BY DEF AdmissionInv
  <1>4. CASE UNCHANGED vars
    BY <1>2, <1>4 DEF vars
  <1>5. CASE Submit
    <2>1. PICK c \in setting.choices :
            /\ requests' = requests \cup {Request(c.key, "apply", c.version, c.manifest, c.cmd = "dryrun")}
            /\ UNCHANGED <<scenario, helm, stored>>
      BY <1>5 DEF Submit
    <2>2. RequestFits(Request(c.key, "apply", c.version, c.manifest, c.cmd = "dryrun"))
      BY DEF RequestFits, Request
    <2> QED
      BY <1>2, <2>1, <2>2
  <1>6. CASE Mutate
    <2>1. PICK q \in requests :
            /\ q.stage = "mutate"
            /\ \E update \in {IF q.client = "apply" THEN Reading(q) ELSE q} : \E object \in {mutated(update)} :
                 requests' = (requests \ {q}) \cup
                   (IF object = <<>> THEN {} ELSE {[update EXCEPT !.stage = "validate", !.object = object[1]]})
            /\ UNCHANGED <<scenario, commands, helm, stored>>
      BY <1>6 DEF Mutate
    <2>2. PICK p : /\ p = IF q.client = "apply" THEN Reading(q) ELSE q
                   /\ requests' = (requests \ {q}) \cup (IF mutated(p) = None THEN {} ELSE {Mutant(p, mutated(p)[1])})
      BY <2>1 DEF Mutant, None
    <2>3. DOMAIN q = RequestFields /\ q.key[1] \in Kinds
      BY <1>3 DEF RequestsAreSound, IsRequest
    <2>4. RequestFits(p) /\ DOMAIN p = RequestFields
      BY <1>2, <1>3, <2>1, <2>2, <2>3, ReadingFits, ReadingIsBased
    <2>5. \A object : /\ Mutant(p, object).base = p.base /\ Mutant(p, object).key = p.key
                      /\ Mutant(p, object).stage = "validate"
      BY <2>4 DEF Mutant, RequestFields
    <2>6. \A object : RequestFits(Mutant(p, object))
      BY <2>4, <2>5 DEF RequestFits
    <2> QED
      BY <1>2, <2>1, <2>2, <2>6
  <1>7. CASE Validate
    <2>1. PICK q \in requests :
            /\ q.stage = "validate"
            /\ requests' = (requests \ {q}) \cup (IF validated(q) THEN {[q EXCEPT !.stage = "persist"]} ELSE {})
            /\ UNCHANGED <<scenario, commands, helm, stored>>
      BY <1>7 DEF Validate
    <2>2. DOMAIN q = RequestFields /\ IsBased(q) /\ RequestFits(q)
      BY <1>2, <1>3, <2>1 DEF RequestsAreSound, IsRequest, IsUnderWay
    <2>3. ASSUME validated(q), q.key[1] = "signalcontrol" PROVE validateReservoirEphemeralStorageLimit(q.object, setting.helm)
      <3>1. componentSettingsAreUnchanged(q, reservoirStorageSettingsOf(q.old), reservoirStorageSettingsOf(q.object))
            \/ validateReservoirEphemeralStorageLimit(q.object, helm)
        BY <2>3 DEF validated, validateSignalControl, env
      <3>2. ASSUME componentSettingsAreUnchanged(q, reservoirStorageSettingsOf(q.old), reservoirStorageSettingsOf(q.object))
            PROVE  validateReservoirEphemeralStorageLimit(q.object, setting.helm)
        <4>1. q.op = "update" /\ reservoirStorageSettingsOf(q.old) = reservoirStorageSettingsOf(q.object)
          BY <3>2 DEF componentSettingsAreUnchanged
        <4>2. q.base = <<q.base[1]>> /\ q.old = q.base[1].spec
          BY <2>2, <4>1 DEF IsBased
        <4>3. q.base # None
          BY <4>2, SingletonSequence
        <4>4. validateReservoirEphemeralStorageLimit(q.old, setting.helm)
          BY <2>2, <2>3, <4>2, <4>3 DEF RequestFits, ReservoirFits
        <4> QED
          BY <4>1, <4>4, SameReservoir
      <3>3. ASSUME validateReservoirEphemeralStorageLimit(q.object, helm)
            PROVE  validateReservoirEphemeralStorageLimit(q.object, setting.helm)
        BY <1>2, <3>3, SameReservoir
      <3> QED
        BY <3>1, <3>2, <3>3
    <2> DEFINE m == [q EXCEPT !.stage = "persist"]
    <2>4. m.base = q.base /\ m.key = q.key /\ m.object = q.object
      BY <2>2 DEF RequestFields
    <2> HIDE DEF m
    <2>5. validated(q) => RequestFits(m)
      BY <2>2, <2>3, <2>4 DEF RequestFits, ReservoirFits
    <2>6. requests' = (requests \ {q}) \cup (IF validated(q) THEN {m} ELSE {})
      BY <2>1 DEF m
    <2> QED
      BY <1>2, <2>1, <2>5, <2>6
  <1>8. CASE Persist
    <2>1. PICK q \in requests :
            /\ q.stage = "persist"
            /\ stored' = IF Live(q.key) # q.base \/ q.dryRun THEN stored
                         ELSE IF Written(q).deleting /\ ~q.finalizer THEN Without(stored, q.key)
                         ELSE Put(stored, q.key, Written(q))
            /\ requests' = (requests \ {q}) \cup
                 (IF Live(q.key) # q.base /\ q.client = "apply"
                  THEN {Request(q.key, q.client, q.version, q.manifest, q.dryRun)} ELSE {})
            /\ UNCHANGED <<scenario, commands, helm>>
      BY <1>8 DEF Persist
    <2>2. /\ \/ stored' = stored
             \/ stored' = Without(stored, q.key)
             \/ ~q.dryRun /\ stored' = Put(stored, q.key, Written(q))
          /\ ~q.dryRun => Written(q).spec = q.object
      BY <2>1, PersistStores
    <2>3. \A k \in DOMAIN stored' : ReservoirFits(k[1], stored'[k].spec)
      <3>1. CASE stored' = stored \/ stored' = Without(stored, q.key)
        BY <1>2, <3>1 DEF Without
      <3>2. CASE ~q.dryRun /\ stored' = Put(stored, q.key, Written(q))
        <4>1. /\ DOMAIN stored' = DOMAIN stored \cup {q.key} /\ stored'[q.key] = Written(q)
              /\ \A k \in DOMAIN stored : k # q.key => stored'[k] = stored[k]
          BY <3>2 DEF Put
        <4>2. ReservoirFits(q.key[1], Written(q).spec)
          BY <1>2, <2>1, <2>2, <3>2 DEF RequestFits
        <4> QED
          BY <1>2, <4>1, <4>2
      <3> QED
        BY <2>2, <3>1, <3>2
    <2>4. RequestFits(Request(q.key, q.client, q.version, q.manifest, q.dryRun))
      BY DEF RequestFits, Request
    <2> QED
      BY <1>2, <2>1, <2>3, <2>4
  <1>9. CASE Delete
    <2>1. PICK c \in setting.choices :
            /\ c.key \in DOMAIN stored
            /\ stored' = IF stored[c.key].finalizer THEN [stored EXCEPT ![c.key].deleting = TRUE] ELSE Without(stored, c.key)
            /\ UNCHANGED <<scenario, helm, requests>>
      BY <1>9 DEF Delete
    <2>2. \A k \in DOMAIN stored' : k \in DOMAIN stored /\ stored'[k].spec = stored[k].spec
      <3>1. IsResource(c.key[1], stored[c.key])
        BY <1>3, <2>1 DEF StoredAreResources
      <3>2. CASE stored' = Without(stored, c.key)
        BY <3>2 DEF Without
      <3>3. CASE stored' = [stored EXCEPT ![c.key].deleting = TRUE]
        BY <3>1, <3>3 DEF IsResource
      <3> QED
        BY <2>1, <3>2, <3>3
    <2> QED
      BY <1>2, <2>1, <2>2
  <1>10. CASE HelmUpgrade
    <2>1. PICK c \in setting.choices : c.cmd = "helm" /\ helm' = c.helm /\ UNCHANGED <<scenario, stored, requests>>
      BY <1>10 DEF HelmUpgrade
    <2>2. helm'.resources = setting.helm.resources
      BY <2>1 DEF HelmResourcesStay
    <2> QED
      BY <1>2, <2>1, <2>2
  <1>11. CASE MarkAvailable
    <2>1. PICK key \in DOMAIN stored : /\ stored' = [stored EXCEPT ![key].available = TRUE]
                                       /\ UNCHANGED <<scenario, commands, helm, requests>>
      BY <1>11 DEF MarkAvailable
    <2>2. IsResource(key[1], stored[key])
      BY <1>3 DEF StoredAreResources
    <2>3. \A k \in DOMAIN stored' : k \in DOMAIN stored /\ stored'[k].spec = stored[k].spec
      BY <2>1, <2>2 DEF IsResource
    <2> QED
      BY <1>2, <2>1, <2>3
  <1>12. CASE AddFinalizer \/ RemoveFinalizer
    <2>1. PICK k \in DOMAIN stored, client \in {"addFinalizer", "removeFinalizer"} :
            /\ k[1] = "monitoring"
            /\ requests' = requests \cup {ReconcilerRequest(k, client)}
            /\ UNCHANGED <<scenario, commands, helm, stored>>
      BY <1>12 DEF AddFinalizer, RemoveFinalizer, ReconcilerRequest
    <2>2. ReconcilerRequest(k, client).key = k
      BY <1>3, <2>1, ReconcilerRequestIsSound
    <2>3. RequestFits(ReconcilerRequest(k, client))
      BY <2>1, <2>2 DEF RequestFits, ReservoirFits
    <2> QED
      BY <1>2, <2>1, <2>3
  <1> QED
    BY <1>4, <1>5, <1>6, <1>7, <1>8, <1>9, <1>10, <1>11, <1>12 DEF Next

LEMMA AdmittedContainers == AdmissionInv /\ ReservoirInv => AdmittedContainersAreDeployable
  <1> SUFFICES ASSUME AdmissionInv, ReservoirInv,
                      NEW kind \in {"configuration", "signalcontrol"}, NEW s \in Specs(kind),
                      NEW rr, rr = EffectiveExtraConfig(helm.resources, s.components)
               PROVE  /\ Deployable(rr)
                      /\ "memory" \in DOMAIN rr.limits =>
                           \A goMem \in Range1(EffectiveGoMemLimit(rr)) \cup Range1(EffectiveGoMemLimitPercent(rr, GoMemLimitDefaultPercent)) :
                             goMem < rr.limits["memory"]
                      /\ (kind = "signalcontrol" /\ HelmResourcesStay /\ usesDiskReservoir(s) /\ "ephemeral-storage" \in DOMAIN rr.limits) =>
                           rr.limits["ephemeral-storage"] >= ReservoirEphemeralStorageRequest(s)
    BY DEF AdmittedContainersAreDeployable
  <1>1. PICK k \in DOMAIN stored : k[1] = kind /\ s = stored[k].spec
    BY DEF Specs, StoredOf
  <1>2. AreComponents(s.components) /\ CheckComponentSettings(s.components) /\ AreHelmResources(helm.resources)
    BY <1>1 DEF AdmissionInv, StoredAreResources, HelmIsSound, AreHelmValues, IsResource, IsSpec, IsValidated
  <1>3. ASSUME kind = "signalcontrol", HelmResourcesStay PROVE validateReservoirEphemeralStorageLimit(s, helm)
    BY <1>1, <1>3 DEF ReservoirInv
  <1>4. (kind = "signalcontrol" /\ HelmResourcesStay /\ usesDiskReservoir(s) /\ "ephemeral-storage" \in DOMAIN rr.limits) =>
          rr.limits["ephemeral-storage"] >= ReservoirEphemeralStorageRequest(s)
    BY <1>3 DEF validateReservoirEphemeralStorageLimit
  <1> QED
    BY <1>2, <1>4, ContainersAreDeployable

-----------------------------------------------------------------------------
(* One configuration, one Signal Control                                   *)

\* Only users write configurations and Signal Controls.
LEMMA OnlyUsersWrite ==
  ASSUME NEW q, IsRequest(q), q.key[1] \in Singletons
  PROVE  q.client = "apply"
  BY DEF IsRequest, Singletons

LEMMA InitIsUnique == Init => UniqueInv
  BY NothingIsKept DEF Init, UniqueInv, OneUserAtATime, AtMostOne

\* The parts of the invariant that speak of what is stored.
LEMMA SameKeys ==
  ASSUME \A k \in DOMAIN stored' : k[1] \in Singletons => k \in DOMAIN stored
  PROVE  /\ AtMostOne("configuration") => AtMostOne("configuration")'
         /\ AtMostOne("signalcontrol") => AtMostOne("signalcontrol")'
         /\ \A q : StillFirst(q) => StillFirst(q)'
  <1>1. ASSUME NEW kind \in Singletons, AtMostOne(kind) PROVE AtMostOne(kind)'
    BY <1>1 DEF AtMostOne
  <1>2. \A q : StillFirst(q) => StillFirst(q)'
    BY DEF StillFirst
  <1> QED
    BY <1>1, <1>2 DEF Singletons

\* What the validating webhooks have seen is the first of its kind.
LEMMA ValidatedIsFirst ==
  ASSUME NEW q, IsBased(q), validated(q), ~q.dryRun, q.base = None, q.key[1] \in Singletons
  PROVE  \A k \in DOMAIN stored : k[1] # q.key[1]
  <1>1. q.op = "create" /\ ~isReachabilityCheck(q)
    BY SingletonSequence DEF IsBased, isReachabilityCheck
  <1>2. CASE q.key[1] = "configuration"
    <2>1. env.configurations = {}
      BY <1>1, <1>2 DEF validated, validateConfiguration
    <2>2. \A k \in DOMAIN stored : k[1] = "configuration" =>
            [spec |-> stored[k].spec, available |-> stored[k].available] \in env.configurations
      BY DEF env, StoredOf
    <2> QED
      BY <1>2, <2>1, <2>2
  <1>3. CASE q.key[1] = "signalcontrol"
    <2>1. env.signalControls = {}
      BY <1>1, <1>3 DEF validated, validateSignalControl
    <2> QED
      BY <1>3, <2>1 DEF env, StoredOf
  <1> QED
    BY <1>2, <1>3 DEF Singletons

LEMMA NextIsUnique == AdmissionInv /\ UniqueInv /\ [Next]_vars => UniqueInv'
  <1> SUFFICES ASSUME AdmissionInv, UniqueInv, [Next]_vars, ~setting.overlap
               PROVE  /\ OneUserAtATime'
                      /\ AtMostOne("configuration")' /\ AtMostOne("signalcontrol")'
                      /\ \A q \in requests' : StillFirst(q)'
    BY ScenarioStays DEF UniqueInv
  <1>1. StoredAreResources /\ RequestsAreSound
    BY DEF AdmissionInv
  <1>2. /\ OneUserAtATime
        /\ AtMostOne("configuration") /\ AtMostOne("signalcontrol")
        /\ \A q \in requests : StillFirst(q)
    BY DEF UniqueInv
  <1>3. ASSUME \A k \in DOMAIN stored' : k[1] \in Singletons => k \in DOMAIN stored, requests' = requests
        PROVE  /\ OneUserAtATime'
               /\ AtMostOne("configuration")' /\ AtMostOne("signalcontrol")'
               /\ \A q \in requests' : StillFirst(q)'
    BY <1>2, <1>3, SameKeys DEF OneUserAtATime
  <1>4. ASSUME NEW p, StillFirst(p), \A k \in DOMAIN stored' : k[1] \in Singletons => k \in DOMAIN stored,
               \/ \E q \in requests : p.client = q.client /\ requests' \subseteq (requests \ {q}) \cup {p}
               \/ p.client # "apply" /\ requests' \subseteq requests \cup {p}
        PROVE  /\ OneUserAtATime'
               /\ AtMostOne("configuration")' /\ AtMostOne("signalcontrol")'
               /\ \A q \in requests' : StillFirst(q)'
    <2>1. OneUserAtATime'
      BY <1>2, <1>4 DEF OneUserAtATime
    <2>2. \A q \in requests' : StillFirst(q)
      BY <1>2, <1>4
    <2> QED
      BY <1>2, <1>4, <2>1, <2>2, SameKeys
  <1>5. CASE UNCHANGED vars
    BY <1>3, <1>5 DEF vars
  <1>6. CASE Submit
    <2>1. PICK c \in setting.choices :
            /\ requests = {}
            /\ requests' = requests \cup {Request(c.key, "apply", c.version, c.manifest, c.cmd = "dryrun")}
            /\ UNCHANGED <<scenario, helm, stored>>
      BY <1>6 DEF Submit, Command
    <2>2. StillFirst(Request(c.key, "apply", c.version, c.manifest, c.cmd = "dryrun"))
      BY DEF StillFirst, Request
    <2>3. OneUserAtATime'
      BY <2>1 DEF OneUserAtATime
    <2> QED
      BY <1>2, <2>1, <2>2, <2>3, SameKeys
  <1>7. CASE Mutate
    <2>1. PICK q \in requests :
            /\ q.stage = "mutate"
            /\ \E update \in {IF q.client = "apply" THEN Reading(q) ELSE q} : \E object \in {mutated(update)} :
                 requests' = (requests \ {q}) \cup
                   (IF object = <<>> THEN {} ELSE {[update EXCEPT !.stage = "validate", !.object = object[1]]})
            /\ UNCHANGED <<scenario, commands, helm, stored>>
      BY <1>7 DEF Mutate
    <2>2. PICK p : /\ p = IF q.client = "apply" THEN Reading(q) ELSE q
                   /\ requests' = (requests \ {q}) \cup (IF mutated(p) = None THEN {} ELSE {Mutant(p, mutated(p)[1])})
      BY <2>1 DEF Mutant, None
    <2>3. DOMAIN q = RequestFields /\ q.key[1] \in Kinds
      BY <1>1 DEF RequestsAreSound, IsRequest
    <2>4. DOMAIN p = RequestFields /\ p.client = q.client
      BY <1>1, <2>1, <2>2, <2>3, ReadingIsBased
    <2>5. PICK m : m = Mutant(p, mutated(p)[1])
      OBVIOUS
    <2>6. m.client = q.client /\ m.stage = "validate"
      BY <2>4, <2>5 DEF Mutant, RequestFields
    <2>7. StillFirst(m) /\ requests' \subseteq (requests \ {q}) \cup {m}
      BY <2>2, <2>5, <2>6 DEF StillFirst
    <2> QED
      BY <1>4, <2>1, <2>6, <2>7
  <1>8. CASE Validate
    <2>1. PICK q \in requests :
            /\ q.stage = "validate"
            /\ requests' = (requests \ {q}) \cup (IF validated(q) THEN {[q EXCEPT !.stage = "persist"]} ELSE {})
            /\ UNCHANGED <<scenario, commands, helm, stored>>
      BY <1>8 DEF Validate
    <2>2. DOMAIN q = RequestFields /\ IsBased(q)
      BY <1>1, <2>1 DEF RequestsAreSound, IsRequest, IsUnderWay
    <2>3. PICK m : m = [q EXCEPT !.stage = "persist"]
      OBVIOUS
    <2>4. m.client = q.client /\ m.key = q.key /\ m.base = q.base /\ m.dryRun = q.dryRun
      BY <2>2, <2>3 DEF RequestFields
    <2>5. CASE validated(q)
      <3>1. StillFirst(m)
        BY <2>2, <2>4, <2>5, ValidatedIsFirst DEF StillFirst
      <3>2. requests' \subseteq (requests \ {q}) \cup {m}
        BY <2>1, <2>3
      <3> QED
        BY <1>4, <2>1, <2>4, <3>1, <3>2
    <2>6. CASE ~validated(q)
      <3>1. requests' \subseteq (requests \ {q}) \cup {q}
        BY <2>1, <2>6
      <3> QED
        BY <1>2, <1>4, <2>1, <3>1
    <2> QED
      BY <2>5, <2>6
  <1>9. CASE Persist
    <2>1. PICK q \in requests :
            /\ q.stage = "persist"
            /\ stored' = IF Live(q.key) # q.base \/ q.dryRun THEN stored
                         ELSE IF Written(q).deleting /\ ~q.finalizer THEN Without(stored, q.key)
                         ELSE Put(stored, q.key, Written(q))
            /\ requests' = (requests \ {q}) \cup
                 (IF Live(q.key) # q.base /\ q.client = "apply"
                  THEN {Request(q.key, q.client, q.version, q.manifest, q.dryRun)} ELSE {})
            /\ UNCHANGED <<scenario, commands, helm>>
      BY <1>9 DEF Persist
    <2>2. /\ \/ stored' = stored
             \/ stored' = Without(stored, q.key)
             \/ ~q.dryRun /\ Live(q.key) = q.base /\ stored' = Put(stored, q.key, Written(q))
          /\ IsRequest(q)
      BY <2>1, PersistStores
    <2>3. PICK n : n = Request(q.key, q.client, q.version, q.manifest, q.dryRun)
      OBVIOUS
    <2>4. n.client = q.client /\ n.stage = "mutate"
      BY <2>3 DEF Request
    <2>5. requests' \subseteq (requests \ {q}) \cup {n} /\ StillFirst(n)
      BY <2>1, <2>3, <2>4 DEF StillFirst
    <2>6. CASE \A k \in DOMAIN stored' : k[1] \in Singletons => k \in DOMAIN stored
      BY <1>4, <2>4, <2>5, <2>6
    <2>7. CASE ~(\A k \in DOMAIN stored' : k[1] \in Singletons => k \in DOMAIN stored)
      <3>1. ~q.dryRun /\ Live(q.key) = q.base /\ stored' = Put(stored, q.key, Written(q))
        BY <2>2, <2>7 DEF Without
      <3>2. DOMAIN stored' = DOMAIN stored \cup {q.key}
        BY <3>1 DEF Put
      <3>3. q.key \notin DOMAIN stored /\ q.key[1] \in Singletons
        BY <2>7, <3>2
      <3>4. \A k \in DOMAIN stored : k[1] # q.key[1]
        BY <1>2, <2>1, <3>1, <3>3 DEF StillFirst, Live
      <3>5. ASSUME NEW kind \in Singletons, AtMostOne(kind) PROVE AtMostOne(kind)'
        BY <3>2, <3>4, <3>5 DEF AtMostOne
      <3>6. OneUserAtATime'
        BY <1>2, <2>4, <2>5 DEF OneUserAtATime
      <3>7. ASSUME NEW r \in requests' PROVE StillFirst(r)'
        <4>1. ASSUME r.key[1] \in Singletons, r.stage = "persist" PROVE FALSE
          <5>1. r \in requests /\ r # q
            BY <2>4, <2>5, <4>1
          <5>2. r.client = "apply" /\ q.client = "apply"
            BY <1>1, <2>2, <3>3, <4>1, <5>1, OnlyUsersWrite DEF RequestsAreSound
          <5> QED
            BY <1>2, <5>1, <5>2 DEF OneUserAtATime
        <4> QED
          BY <4>1 DEF StillFirst
      <3> QED
        BY <1>2, <3>5, <3>6, <3>7 DEF Singletons
    <2> QED
      BY <2>6, <2>7
  <1>10. CASE Delete
    <2>1. PICK c \in setting.choices :
            /\ stored' = IF stored[c.key].finalizer THEN [stored EXCEPT ![c.key].deleting = TRUE] ELSE Without(stored, c.key)
            /\ UNCHANGED <<scenario, helm, requests>>
      BY <1>10 DEF Delete
    <2>2. DOMAIN stored' \subseteq DOMAIN stored
      BY <2>1 DEF Without
    <2> QED
      BY <1>3, <2>1, <2>2
  <1>11. CASE HelmUpgrade
    BY <1>3, <1>11 DEF HelmUpgrade
  <1>12. CASE MarkAvailable
    <2>1. DOMAIN stored' = DOMAIN stored /\ requests' = requests
      BY <1>12 DEF MarkAvailable
    <2> QED
      BY <1>3, <2>1
  <1>13. CASE AddFinalizer \/ RemoveFinalizer
    <2>1. PICK k \in DOMAIN stored, client \in {"addFinalizer", "removeFinalizer"} :
            /\ k[1] = "monitoring"
            /\ requests' = requests \cup {ReconcilerRequest(k, client)}
            /\ UNCHANGED <<scenario, commands, helm, stored>>
      BY <1>13 DEF AddFinalizer, RemoveFinalizer, ReconcilerRequest
    <2>2. PICK n : n = ReconcilerRequest(k, client)
      OBVIOUS
    <2>3. n.client # "apply" /\ n.stage = "mutate"
      BY <1>1, <2>1, <2>2, ReconcilerRequestIsSound
    <2>4. StillFirst(n) /\ requests' \subseteq requests \cup {n}
      BY <2>1, <2>2, <2>3 DEF StillFirst
    <2> QED
      BY <1>4, <2>1, <2>3, <2>4
  <1> QED
    BY <1>5, <1>6, <1>7, <1>8, <1>9, <1>10, <1>11, <1>12, <1>13 DEF Next

-----------------------------------------------------------------------------
(* Signal Control needs an export                                          *)

\* The webhooks look at what is stored.
LEMMA WebhooksSeeStored ==
  /\ hasEnabledSignalControl(env) <=> HasSignalControl
  /\ hasDash0ExportConfigured(env) <=> HasDash0Export
  <1>1. hasEnabledSignalControl(env) <=> HasSignalControl
    BY DEF hasEnabledSignalControl, env, StoredOf, HasSignalControl
  <1>2. env.configurations = {[spec |-> c.spec, available |-> c.available] : c \in StoredOf("configuration")}
    BY DEF env
  <1>3. ASSUME hasDash0ExportConfigured(env) PROVE HasDash0Export
    <2>1. PICK c \in StoredOf("configuration") : hasDash0Export(c.spec)
      BY <1>2, <1>3 DEF hasDash0ExportConfigured
    <2> QED
      BY <2>1 DEF StoredOf, HasDash0Export
  <1>4. ASSUME HasDash0Export PROVE hasDash0ExportConfigured(env)
    <2>1. PICK k \in DOMAIN stored : k[1] = "configuration" /\ hasDash0Export(stored[k].spec)
      BY <1>4 DEF HasDash0Export
    <2>2. [spec |-> stored[k].spec, available |-> stored[k].available] \in env.configurations
      BY <1>2, <2>1 DEF StoredOf
    <2> QED
      BY <2>1, <2>2 DEF hasDash0ExportConfigured
  <1> QED
    BY <1>1, <1>3, <1>4

\* A step that leaves both kinds of resources alone.
LEMMA SameExports ==
  ASSUME \A k : k[1] \in Singletons =>
           /\ k \in DOMAIN stored' <=> k \in DOMAIN stored
           /\ k \in DOMAIN stored => stored'[k].spec = stored[k].spec
  PROVE  (HasDash0Export' <=> HasDash0Export) /\ (HasSignalControl' <=> HasSignalControl)
  <1>1. ASSUME NEW k, k[1] = "configuration" \/ k[1] = "signalcontrol"
        PROVE  /\ k \in DOMAIN stored' <=> k \in DOMAIN stored
               /\ k \in DOMAIN stored => stored'[k].spec = stored[k].spec
    BY <1>1 DEF Singletons
  <1>2. HasDash0Export' <=> HasDash0Export
    <2>1. ASSUME HasDash0Export' PROVE HasDash0Export
      <3>1. PICK k \in DOMAIN stored' : k[1] = "configuration" /\ hasDash0Export(stored'[k].spec)
        BY <2>1 DEF HasDash0Export
      <3> QED
        BY <1>1, <3>1 DEF HasDash0Export
    <2>2. ASSUME HasDash0Export PROVE HasDash0Export'
      <3>1. PICK k \in DOMAIN stored : k[1] = "configuration" /\ hasDash0Export(stored[k].spec)
        BY <2>2 DEF HasDash0Export
      <3> QED
        BY <1>1, <3>1 DEF HasDash0Export
    <2> QED
      BY <2>1, <2>2
  <1>3. HasSignalControl' <=> HasSignalControl
    <2>1. ASSUME HasSignalControl' PROVE HasSignalControl
      <3>1. PICK k \in DOMAIN stored' : k[1] = "signalcontrol" /\ read(stored'[k].spec.enabled, TRUE)
        BY <2>1 DEF HasSignalControl
      <3> QED
        BY <1>1, <3>1 DEF HasSignalControl
    <2>2. ASSUME HasSignalControl PROVE HasSignalControl'
      <3>1. PICK k \in DOMAIN stored : k[1] = "signalcontrol" /\ read(stored[k].spec.enabled, TRUE)
        BY <2>2 DEF HasSignalControl
      <3> QED
        BY <1>1, <3>1 DEF HasSignalControl
    <2> QED
      BY <2>1, <2>2
  <1> QED
    BY <1>2, <1>3

\* The parts of the invariant after a step that stores nothing.
LEMMA StoredStays ==
  ASSUME stored' = stored
  PROVE  /\ NoConfigurationGoes => NoConfigurationGoes'
         /\ (HasDash0Export' <=> HasDash0Export) /\ (HasSignalControl' <=> HasSignalControl)
  BY DEF NoConfigurationGoes, HasDash0Export, HasSignalControl

LEMMA InitHasExport == Init => SignalControlInv
  BY NothingIsKept DEF Init, SignalControlInv, NoConfigurationGoes, HasSignalControl

LEMMA NextHasExport == AdmissionInv /\ UniqueInv /\ SignalControlInv /\ [Next]_vars => SignalControlInv'
  <1> SUFFICES ASSUME AdmissionInv, UniqueInv, SignalControlInv, [Next]_vars, ~setting.overlap, ConfigurationsStay
               PROVE  /\ NoConfigurationGoes'
                      /\ \A q \in requests' : StillValid(q)'
                      /\ HasSignalControl' => HasDash0Export'
    BY ScenarioStays DEF SignalControlInv, ConfigurationsStay
  <1>1. StoredAreResources /\ RequestsAreSound /\ HelmIsSound
    BY DEF AdmissionInv
  <1>2. /\ OneUserAtATime /\ NoConfigurationGoes
        /\ \A q \in requests : StillValid(q)
        /\ HasSignalControl => HasDash0Export
    BY DEF UniqueInv, SignalControlInv
  <1>3. ASSUME HasDash0Export' <=> HasDash0Export, HasSignalControl' <=> HasSignalControl, NEW q
        PROVE  StillValid(q)' <=> StillValid(q)
    BY <1>3 DEF StillValid
  <1>4. CASE UNCHANGED vars
    BY <1>2, <1>3, <1>4, StoredStays DEF vars
  <1>5. CASE Submit
    <2>1. PICK c \in setting.choices :
            /\ requests' = requests \cup {Request(c.key, "apply", c.version, c.manifest, c.cmd = "dryrun")}
            /\ UNCHANGED <<scenario, helm, stored>>
      BY <1>5 DEF Submit
    <2>2. StillValid(Request(c.key, "apply", c.version, c.manifest, c.cmd = "dryrun"))
      BY DEF StillValid, Request
    <2>3. \A q \in requests' : StillValid(q)
      BY <1>2, <2>1, <2>2
    <2> QED
      BY <1>2, <1>3, <2>1, <2>3, StoredStays
  <1>6. ASSUME NEW p, StillValid(p), requests' \subseteq requests \cup {p}, stored' = stored
        PROVE  /\ NoConfigurationGoes'
               /\ \A r \in requests' : StillValid(r)'
               /\ HasSignalControl' => HasDash0Export'
    <2>1. \A r \in requests' : StillValid(r)
      BY <1>2, <1>6
    <2> QED
      BY <1>2, <1>3, <1>6, <2>1, StoredStays
  <1>7. CASE Mutate
    <2>1. PICK q \in requests :
            /\ q.stage = "mutate"
            /\ \E update \in {IF q.client = "apply" THEN Reading(q) ELSE q} : \E object \in {mutated(update)} :
                 requests' = (requests \ {q}) \cup
                   (IF object = <<>> THEN {} ELSE {[update EXCEPT !.stage = "validate", !.object = object[1]]})
            /\ UNCHANGED <<scenario, commands, helm, stored>>
      BY <1>7 DEF Mutate
    <2>2. PICK p : /\ p = IF q.client = "apply" THEN Reading(q) ELSE q
                   /\ requests' = (requests \ {q}) \cup (IF mutated(p) = None THEN {} ELSE {Mutant(p, mutated(p)[1])})
      BY <2>1 DEF Mutant, None
    <2>3. DOMAIN q = RequestFields /\ q.key[1] \in Kinds
      BY <1>1 DEF RequestsAreSound, IsRequest
    <2>4. DOMAIN p = RequestFields
      BY <1>1, <2>1, <2>2, <2>3, ReadingIsBased
    <2>5. PICK m : m = Mutant(p, mutated(p)[1])
      OBVIOUS
    <2>6. m.stage = "validate"
      BY <2>4, <2>5 DEF Mutant, RequestFields
    <2>7. StillValid(m)
      BY <2>6 DEF StillValid
    <2>8. requests' \subseteq requests \cup {m}
      BY <2>2, <2>5
    <2> QED
      BY <1>6, <2>1, <2>7, <2>8
  <1>8. CASE Validate
    <2>1. PICK q \in requests :
            /\ q.stage = "validate"
            /\ requests' = (requests \ {q}) \cup (IF validated(q) THEN {[q EXCEPT !.stage = "persist"]} ELSE {})
            /\ UNCHANGED <<scenario, commands, helm, stored>>
      BY <1>8 DEF Validate
    <2>2. DOMAIN q = RequestFields
      BY <1>1 DEF RequestsAreSound, IsRequest
    <2>3. PICK m : m = [q EXCEPT !.stage = "persist"]
      OBVIOUS
    <2>4. m.key = q.key /\ m.object = q.object /\ m.dryRun = q.dryRun
      BY <2>2, <2>3 DEF RequestFields
    <2>5. ASSUME validated(q), ~q.dryRun, q.key[1] = "configuration" PROVE hasDash0Export(q.object) \/ ~HasSignalControl
      <3>1. ~isReachabilityCheck(q)
        BY <2>5 DEF isReachabilityCheck
      <3>2. hasDash0Export(q.object) \/ ~hasEnabledSignalControl(env)
        BY <2>5, <3>1 DEF validated, validateConfiguration
      <3> QED
        BY <3>2, WebhooksSeeStored
    <2>6. ASSUME validated(q), q.key[1] = "signalcontrol", read(q.object.enabled, TRUE) PROVE HasDash0Export
      <3>1. hasDash0ExportConfigured(env)
        BY <2>6 DEF validated, validateSignalControl
      <3> QED
        BY <3>1, WebhooksSeeStored
    <2>7. CASE validated(q)
      <3>1. StillValid(m)
        BY <2>4, <2>5, <2>6, <2>7 DEF StillValid
      <3>2. requests' \subseteq requests \cup {m}
        BY <2>1, <2>3
      <3> QED
        BY <1>6, <2>1, <3>1, <3>2
    <2>8. CASE ~validated(q)
      <3>1. requests' \subseteq requests \cup {q}
        BY <2>1, <2>8
      <3> QED
        BY <1>2, <1>6, <2>1, <3>1
    <2> QED
      BY <2>7, <2>8
  <1>9. CASE Persist
    <2>1. PICK q \in requests :
            /\ q.stage = "persist"
            /\ stored' = IF Live(q.key) # q.base \/ q.dryRun THEN stored
                         ELSE IF Written(q).deleting /\ ~q.finalizer THEN Without(stored, q.key)
                         ELSE Put(stored, q.key, Written(q))
            /\ requests' = (requests \ {q}) \cup
                 (IF Live(q.key) # q.base /\ q.client = "apply"
                  THEN {Request(q.key, q.client, q.version, q.manifest, q.dryRun)} ELSE {})
            /\ UNCHANGED <<scenario, commands, helm>>
      BY <1>9 DEF Persist
    <2>2. /\ \/ stored' = stored
             \/ ~q.dryRun /\ Live(q.key) = q.base /\ Written(q).deleting /\ stored' = Without(stored, q.key)
             \/ ~q.dryRun /\ Live(q.key) = q.base /\ stored' = Put(stored, q.key, Written(q))
          /\ ~q.dryRun => /\ Written(q).spec = q.object
                          /\ Written(q).deleting = IF q.base = None THEN FALSE ELSE q.base[1].deleting
          /\ IsRequest(q)
      BY <2>1, PersistStores
    <2>3. PICK n : n = Request(q.key, q.client, q.version, q.manifest, q.dryRun)
      OBVIOUS
    <2>4. n.stage = "mutate"
      BY <2>3 DEF Request
    <2>5. requests' \subseteq (requests \ {q}) \cup {n}
      BY <2>1, <2>3
    <2>6. StillValid(n)
      BY <2>4 DEF StillValid
    <2>7. CASE stored' = stored
      BY <1>6, <2>5, <2>6, <2>7
    <2>9. ASSUME ~q.dryRun, Live(q.key) = q.base, q.key[1] = "configuration" PROVE ~Written(q).deleting
      <3>1. CASE q.key \in DOMAIN stored
        <4>1. q.base # None /\ q.base[1] = stored[q.key]
          BY <2>9, <3>1, SingletonSequence DEF Live
        <4> QED
          BY <1>2, <2>2, <2>9, <3>1, <4>1 DEF NoConfigurationGoes
      <3>2. CASE q.key \notin DOMAIN stored
        BY <2>2, <2>9, <3>2 DEF Live
      <3> QED
        BY <3>1, <3>2
    <2>10. ASSUME q.key[1] \notin Singletons,
                  stored' = Without(stored, q.key) \/ stored' = Put(stored, q.key, Written(q))
           PROVE  (HasDash0Export' <=> HasDash0Export) /\ (HasSignalControl' <=> HasSignalControl)
      <3>1. \A k : k[1] \in Singletons =>
              /\ k \in DOMAIN stored' <=> k \in DOMAIN stored
              /\ k \in DOMAIN stored => stored'[k].spec = stored[k].spec
        BY <2>10 DEF Put, Without, Singletons
      <3> QED
        BY <3>1, SameExports
    \* While a user writes one of the two kinds, nobody else does.
    <2>11. ASSUME q.key[1] \in Singletons, NEW r \in requests' PROVE StillValid(r)'
      <3>1. ASSUME r.key[1] \in Singletons, r.stage = "persist" PROVE FALSE
        <4>1. r \in requests /\ r # q
          BY <2>4, <2>5, <3>1
        <4>2. r.client = "apply" /\ q.client = "apply"
          BY <1>1, <2>2, <2>11, <3>1, <4>1, OnlyUsersWrite DEF RequestsAreSound
        <4> QED
          BY <1>2, <4>1, <4>2 DEF OneUserAtATime
      <3> QED
        BY <3>1 DEF StillValid, Singletons
    <2>12. \A r \in requests' : StillValid(r)
      BY <1>2, <2>5, <2>6
    <2>13. CASE ~q.dryRun /\ Live(q.key) = q.base /\ Written(q).deleting /\ stored' = Without(stored, q.key)
      <3>1. q.key[1] # "configuration"
        BY <2>9, <2>13
      <3>2. NoConfigurationGoes'
        BY <1>2, <2>13 DEF NoConfigurationGoes, Without
      <3>3. CASE q.key[1] = "signalcontrol"
        <4>1. HasSignalControl' => HasSignalControl
          BY <2>13 DEF HasSignalControl, Without
        <4>2. HasDash0Export => HasDash0Export'
          BY <2>13, <3>1 DEF HasDash0Export, Without
        <4> QED
          BY <1>2, <2>11, <3>2, <3>3, <4>1, <4>2 DEF Singletons
      <3>4. CASE q.key[1] # "signalcontrol"
        BY <1>2, <1>3, <2>10, <2>12, <2>13, <3>1, <3>2, <3>4 DEF Singletons
      <3> QED
        BY <3>3, <3>4
    <2>14. CASE ~q.dryRun /\ Live(q.key) = q.base /\ stored' = Put(stored, q.key, Written(q))
      <3>1. /\ DOMAIN stored' = DOMAIN stored \cup {q.key} /\ stored'[q.key] = Written(q)
            /\ \A k \in DOMAIN stored : k # q.key => stored'[k] = stored[k]
        BY <2>14 DEF Put
      <3>2. NoConfigurationGoes'
        BY <1>2, <2>9, <2>14, <3>1 DEF NoConfigurationGoes
      <3>3. stored'[q.key].spec = q.object /\ StillValid(q)
        BY <1>2, <2>2, <2>14, <3>1
      <3>4. CASE q.key[1] = "configuration"
        <4>1. hasDash0Export(q.object) \/ ~HasSignalControl
          BY <2>1, <2>14, <3>3, <3>4 DEF StillValid
        <4>2. hasDash0Export(q.object) => HasDash0Export'
          BY <3>1, <3>3, <3>4 DEF HasDash0Export
        <4>3. HasSignalControl' => HasSignalControl
          BY <3>1, <3>4 DEF HasSignalControl
        <4> QED
          BY <2>11, <3>2, <3>4, <4>1, <4>2, <4>3 DEF Singletons
      <3>5. CASE q.key[1] = "signalcontrol"
        <4>1. HasDash0Export => HasDash0Export'
          BY <3>1, <3>5 DEF HasDash0Export
        <4>2. HasSignalControl' => HasSignalControl \/ read(q.object.enabled, TRUE)
          BY <3>1, <3>3 DEF HasSignalControl
        <4>3. read(q.object.enabled, TRUE) => HasDash0Export
          BY <2>1, <2>14, <3>3, <3>5 DEF StillValid
        <4> QED
          BY <1>2, <2>11, <3>2, <3>5, <4>1, <4>2, <4>3 DEF Singletons
      <3>6. CASE q.key[1] \notin Singletons
        BY <1>2, <1>3, <2>10, <2>12, <2>14, <3>2, <3>6
      <3> QED
        BY <3>4, <3>5, <3>6 DEF Singletons
    <2> QED
      BY <2>2, <2>7, <2>13, <2>14
  <1>10. CASE Delete
    <2>1. PICK c \in setting.choices :
            /\ c.cmd = "delete" /\ c.key \in DOMAIN stored /\ requests = {}
            /\ stored' = IF stored[c.key].finalizer THEN [stored EXCEPT ![c.key].deleting = TRUE] ELSE Without(stored, c.key)
            /\ UNCHANGED <<scenario, helm, requests>>
      BY <1>10 DEF Delete, Command
    <2>2. c.key[1] # "configuration"
      BY <2>1 DEF ConfigurationsStay
    <2>3. /\ DOMAIN stored' \subseteq DOMAIN stored
          /\ \A k \in DOMAIN stored' : stored'[k].spec = stored[k].spec
          /\ \A k \in DOMAIN stored : k[1] = "configuration" => k \in DOMAIN stored' /\ stored'[k] = stored[k]
      <3>1. IsResource(c.key[1], stored[c.key])
        BY <1>1, <2>1 DEF StoredAreResources
      <3>2. CASE stored' = Without(stored, c.key)
        BY <2>2, <3>2 DEF Without
      <3>3. CASE stored' = [stored EXCEPT ![c.key].deleting = TRUE]
        BY <2>2, <3>1, <3>3 DEF IsResource
      <3> QED
        BY <2>1, <3>2, <3>3
    <2>4. HasSignalControl' => HasSignalControl
      BY <2>3 DEF HasSignalControl
    <2>5. HasDash0Export => HasDash0Export'
      BY <2>3 DEF HasDash0Export
    <2>6. NoConfigurationGoes'
      BY <1>2, <2>3 DEF NoConfigurationGoes
    <2> QED
      BY <1>2, <2>1, <2>4, <2>5, <2>6
  <1>11. CASE HelmUpgrade
    BY <1>2, <1>3, <1>11, StoredStays DEF HelmUpgrade
  <1>12. CASE MarkAvailable
    <2>1. PICK key \in DOMAIN stored : /\ stored' = [stored EXCEPT ![key].available = TRUE]
                                       /\ UNCHANGED <<scenario, commands, helm, requests>>
      BY <1>12 DEF MarkAvailable
    <2>2. IsResource(key[1], stored[key])
      BY <1>1 DEF StoredAreResources
    <2>3. /\ DOMAIN stored' = DOMAIN stored
          /\ \A k \in DOMAIN stored : stored'[k].spec = stored[k].spec /\ stored'[k].deleting = stored[k].deleting
      BY <2>1, <2>2 DEF IsResource
    <2>4. (HasDash0Export' <=> HasDash0Export) /\ (HasSignalControl' <=> HasSignalControl)
      BY <2>3, SameExports
    <2>5. NoConfigurationGoes'
      BY <1>2, <2>3 DEF NoConfigurationGoes
    <2> QED
      BY <1>2, <1>3, <2>1, <2>4, <2>5
  <1>13. CASE AddFinalizer \/ RemoveFinalizer
    <2>1. PICK k \in DOMAIN stored, client \in {"addFinalizer", "removeFinalizer"} :
            /\ k[1] = "monitoring"
            /\ requests' = requests \cup {ReconcilerRequest(k, client)}
            /\ UNCHANGED <<scenario, commands, helm, stored>>
      BY <1>13 DEF AddFinalizer, RemoveFinalizer, ReconcilerRequest
    <2>2. PICK n : n = ReconcilerRequest(k, client)
      OBVIOUS
    <2>3. n.stage = "mutate"
      BY <1>1, <2>1, <2>2, ReconcilerRequestIsSound
    <2>4. StillValid(n)
      BY <2>3 DEF StillValid
    <2>5. requests' \subseteq requests \cup {n}
      BY <2>1, <2>2
    <2> QED
      BY <1>6, <2>1, <2>4, <2>5
  <1> QED
    BY <1>4, <1>5, <1>7, <1>8, <1>9, <1>10, <1>11, <1>12, <1>13 DEF Next

\* What is stored has no deprecated export, so the export found is in the list.
LEMMA ExportIsListed == AdmissionInv /\ SignalControlInv => SignalControlKeepsItsExport
  <1> SUFFICES ASSUME AdmissionInv, SignalControlInv, ~setting.overlap, ConfigurationsStay,
                      NEW s \in Specs("signalcontrol"), s.enabled = "on"
               PROVE  \E c \in Specs("configuration") : \E k \in DOMAIN c.exports : c.exports[k].kind = "dash0"
    BY DEF SignalControlKeepsItsExport
  <1>1. HasSignalControl
    BY DEF Specs, StoredOf, HasSignalControl, read
  <1>2. PICK k \in DOMAIN stored : k[1] = "configuration" /\ hasDash0Export(stored[k].spec)
    BY <1>1 DEF SignalControlInv, HasDash0Export
  <1>3. stored[k].spec.export = None
    BY <1>2 DEF AdmissionInv, StoredAreResources, IsResource, IsMutated, ExportsFollow
  <1>4. EffectiveExports(stored[k].spec) = stored[k].spec.exports
    BY <1>3 DEF EffectiveExports, None
  <1>5. \E n \in DOMAIN stored[k].spec.exports : stored[k].spec.exports[n].kind = "dash0"
    BY <1>2, <1>4 DEF hasDash0Export, Range1
  <1>6. stored[k].spec \in Specs("configuration")
    BY <1>2 DEF Specs, StoredOf
  <1> QED
    BY <1>5, <1>6

-----------------------------------------------------------------------------
(* What is stored passes the webhooks again                                *)

IsFunction(spec) == spec = [f \in DOMAIN spec |-> spec[f]]

\* A spec the mutating webhooks can work with.
IsShaped(kind, spec) == IsFunction(spec) /\ (kind = "configuration" => IsTemplate(spec.template))

DecidedFlags == {"telemetryCollection", "selfMonitoring", "infrastructureMetrics", "legacyInfrastructureMetrics",
                 "podLabels", "namespaceLabels", "nodeLabels", "prometheusCrd"}

\* The mutating webhooks have nothing left to decide.
IsFixed(kind, ns, spec) ==
  /\ IsShaped(kind, spec)
  /\ kind = "configuration" =>
       /\ \A f \in DecidedFlags : spec[f] # "unset"
       /\ spec.template = setMonitoringTemplateDefaults(spec)
       /\ spec.instances = setSyntheticsWorkerInstanceDefaults(spec)
       /\ spec.transform # None => spec.normalizedTransform # None
  /\ kind = "monitoring" =>
       /\ \A f \in {"mode", "logs", "events", "scraping"} : spec[f] # "unset"
       /\ ns = OperatorNamespace => ~read(spec.logs, TRUE)
       /\ spec.transform # None => spec.normalizedTransform # None

\* The checks of the validating webhooks that depend on nothing but the spec.
IsAdmissible(kind, spec) ==
  /\ kind = "configuration" =>
       /\ read(spec.selfMonitoring, TRUE) => spec.exports # None
       /\ validateTelemetryCollectionDisabledConsistency(spec)
       /\ \A e \in Range1(spec.exports) : validateGrpcExportInsecureFlags(e)
       /\ \A t \in Range1(spec.template) : t.exports = None
       /\ validateOttlOfOperatorConfiguration(spec)
  /\ kind = "signalcontrol" =>
       /\ validateOperationProcessorCardinalityRules(spec.rules)
       /\ \A k \in DOMAIN spec.durations : validateDurationBounds(spec.durations[k])

ResourceIsFixed(k, spec) ==
  k[2] # WebhookReachabilityCheckResourceName /\ IsFixed(k[1], k[2], spec) /\ IsAdmissible(k[1], spec)

RequestIsFixed(q) ==
  /\ q.ns = q.key[2] /\ q.name = q.key[2]
  /\ (~q.dryRun /\ (q.client # "apply" \/ q.stage # "mutate")) => IsFixed(q.key[1], q.key[2], q.object)
  /\ (~q.dryRun /\ q.stage = "persist") => IsAdmissible(q.key[1], q.object)
  /\ q.key[2] = WebhookReachabilityCheckResourceName => q.dryRun /\ q.op = "create" /\ q.key[1] # "signalcontrol"

FixedInv == (\A k \in DOMAIN stored : ResourceIsFixed(k, stored[k].spec)) /\ (\A q \in requests : RequestIsFixed(q))

LEMMA DefaultsAreShaped == \A kind \in Kinds : IsShaped(kind, SchemaDefaults[kind])
  <1>1. IsFunction(SchemaDefaults["configuration"]) /\ SchemaDefaults["configuration"].template = None
    BY DEF SchemaDefaults, IsFunction
  <1>2. IsFunction(SchemaDefaults["monitoring"]) /\ IsFunction(SchemaDefaults["signalcontrol"])
    BY DEF SchemaDefaults, IsFunction
  <1> QED
    BY <1>1, <1>2 DEF IsShaped, IsTemplate, Kinds

LEMMA TemplateField == "template" \in DOMAIN SchemaDefaults["configuration"]
  BY DEF SchemaDefaults

\* What an apply asks for has the shape of a spec.
LEMMA AppliedIsShaped ==
  ASSUME NEW kind \in Kinds, NEW version, NEW live, NEW last, NEW manifest, IsShaped(kind, live),
         DOMAIN live = DOMAIN SchemaDefaults[kind], IsManifest(kind, manifest), version = "v1alpha1" => kind = "monitoring"
  PROVE  IsShaped(kind, Applied(kind, version, live, last, manifest))
  <1> DEFINE object == Applied(kind, version, live, last, manifest)
             defaults == SchemaDefaults[kind]
  <1>1. CASE version = "v1alpha1"
    <2>1. PICK old : object = ConvertTo(old)
      BY <1>1 DEF Applied
    <2>2. IsFunction(ConvertTo(old))
      BY DEF ConvertTo, IsFunction
    <2> QED
      BY <1>1, <2>1, <2>2 DEF IsShaped
  <1>2. CASE version # "v1alpha1"
    <2>1. object = Merge(live, last, manifest, defaults)
      BY <1>2 DEF Applied
    <2>2. IsFunction(object)
      BY <2>1 DEF Merge, IsFunction
    <2>3. /\ DOMAIN object = DOMAIN live
          /\ \A f \in DOMAIN live : object[f] = IF f \in DOMAIN manifest THEN manifest[f]
                                                ELSE IF f \in DOMAIN last THEN defaults[f] ELSE live[f]
      BY <2>1, MergedField
    <2>4. IsShaped(kind, defaults)
      BY DefaultsAreShaped
    <2> HIDE DEF object, defaults
    <2>5. ASSUME kind = "configuration" PROVE IsTemplate(object.template)
      <3>1. "template" \in DOMAIN live
        BY <2>5, TemplateField
      <3>2. object.template = live.template \/ object.template = defaults.template
            \/ ("template" \in DOMAIN manifest /\ object.template = manifest.template)
        BY <2>3, <3>1
      <3>3. IsTemplate(live.template) /\ IsTemplate(defaults.template)
        BY <2>4, <2>5 DEF IsShaped
      <3>4. "template" \in DOMAIN manifest => IsTemplate(manifest.template)
        BY <2>5 DEF IsManifest
      <3> QED
        BY <3>2, <3>3, <3>4
    <2> QED
      BY <2>2, <2>5 DEF IsShaped, object
  <1> QED
    BY <1>1, <1>2

\* Defaults that have been set are left alone from then on.
LEMMA TemplateIsSettled ==
  ASSUME NEW before, NEW after, IsTemplate(before.template),
         after.autoMonitor = before.autoMonitor, after.template = setMonitoringTemplateDefaults(before)
  PROVE  IsTemplate(after.template) /\ after.template = setMonitoringTemplateDefaults(after)
  <1> DEFINE t == IF before.template = <<>> THEN noTemplate ELSE before.template[1]
             d == [f \in DOMAIN t |-> IF f = "exports" THEN t[f] ELSE orElse(t[f], monitoringTemplateDefaults[f])]
  <1>1. CASE ~read(before.autoMonitor, FALSE) /\ before.template = <<>>
    <2>1. after.template = <<>> /\ ~read(after.autoMonitor, FALSE)
      BY <1>1 DEF setMonitoringTemplateDefaults
    <2> QED
      BY <2>1 DEF setMonitoringTemplateDefaults, IsTemplate, None
  <1>2. CASE ~(~read(before.autoMonitor, FALSE) /\ before.template = <<>>)
    <2>1. after.template = <<d>>
      BY <1>2 DEF setMonitoringTemplateDefaults
    <2>2. DOMAIN t \subseteq DOMAIN monitoringTemplateDefaults
      BY DEF IsTemplate, noTemplate, monitoringTemplateDefaults, None
    <2>3. \A f \in DOMAIN monitoringTemplateDefaults \ {"exports"} : monitoringTemplateDefaults[f] # "unset"
      BY DEF monitoringTemplateDefaults
    <2>4. DOMAIN d = DOMAIN t /\ (\A f \in DOMAIN t : f # "exports" => d[f] # "unset") /\ d = [f \in DOMAIN d |-> d[f]]
      BY <2>2, <2>3 DEF orElse
    <2> HIDE DEF d
    <2>5. after.template # <<>> /\ after.template[1] = d
      BY <2>1, SingletonSequence DEF None
    <2>6. [f \in DOMAIN d |-> IF f = "exports" THEN d[f] ELSE orElse(d[f], monitoringTemplateDefaults[f])] = d
      <3>1. \A f \in DOMAIN d : (IF f = "exports" THEN d[f] ELSE orElse(d[f], monitoringTemplateDefaults[f])) = d[f]
        BY <2>4 DEF orElse
      <3> QED
        BY <2>4, <3>1
    <2>7. setMonitoringTemplateDefaults(after) = <<d>>
      BY <2>5, <2>6 DEF setMonitoringTemplateDefaults
    <2> QED
      BY <2>1, <2>2, <2>4, <2>5, <2>7 DEF IsTemplate
  <1> QED
    BY <1>1, <1>2

LEMMA InstancesAreSettled ==
  ASSUME NEW before, NEW after, after.instances = setSyntheticsWorkerInstanceDefaults(before)
  PROVE  after.instances = setSyntheticsWorkerInstanceDefaults(after)
  <1> DEFINE i == after.instances
  <1>1. i = [k \in DOMAIN before.instances |-> orElse(before.instances[k], "linux")]
    BY DEF setSyntheticsWorkerInstanceDefaults
  <1>2. DOMAIN i = DOMAIN before.instances /\ \A k \in DOMAIN i : i[k] = orElse(i[k], "linux")
    BY <1>1 DEF orElse
  <1>3. i = [k \in DOMAIN i |-> i[k]]
    BY <1>1
  <1> HIDE DEF i
  <1>4. i = [k \in DOMAIN i |-> orElse(i[k], "linux")]
    BY <1>2, <1>3
  <1> QED
    BY <1>4 DEF setSyntheticsWorkerInstanceDefaults, i

\* What the mutating webhook leaves of a configuration is left alone from then on.
LEMMA ConfigurationIsSettled ==
  ASSUME NEW r, NEW ns, ~isReachabilityCheck(r), DOMAIN r.object = DOMAIN SchemaDefaults["configuration"],
         IsShaped("configuration", r.object), mutateConfiguration(r) # None
  PROVE  IsFixed("configuration", ns, mutateConfiguration(r)[1])
  <1> DEFINE telemetry == orElse(r.object.telemetryCollection, "on")
             spec == [r.object EXCEPT !.exports = migratedExports(r), !.export = <<>>,
                        !.telemetryCollection = telemetry,
                        !.selfMonitoring = orElse(@, "on"),
                        !.infrastructureMetrics = orElse(@, telemetry),
                        !.legacyInfrastructureMetrics = orElse(@, telemetry),
                        !.podLabels = orElse(@, telemetry),
                        !.namespaceLabels = orElse(@, "off"),
                        !.nodeLabels = orElse(@, "off"),
                        !.prometheusCrd = orElse(@, "off"),
                        !.template = setMonitoringTemplateDefaults(r.object),
                        !.normalizedTransform = derivedTransform(r.object),
                        !.instances = setSyntheticsWorkerInstanceDefaults(r.object)]
  <1>1. DecidedFlags \cup {"export", "exports", "transform", "normalizedTransform", "template", "instances", "autoMonitor"}
          \subseteq DOMAIN r.object
    BY DEF SchemaDefaults, DecidedFlags
  <1>2. mutateConfiguration(r) = IF spec.transform # <<>> /\ spec.normalizedTransform = <<>> THEN <<>> ELSE <<spec>>
    BY DEF mutateConfiguration, normalizeOperatorConfigurationResourceSpec
  <1>3. telemetry # "unset"
    BY DEF orElse
  <1> HIDE DEF telemetry
  <1>4. IsFunction(spec)
    BY DEF IsFunction
  <1>5. /\ spec.telemetryCollection = telemetry
        /\ spec.selfMonitoring = orElse(r.object.selfMonitoring, "on")
        /\ spec.infrastructureMetrics = orElse(r.object.infrastructureMetrics, telemetry)
        /\ spec.legacyInfrastructureMetrics = orElse(r.object.legacyInfrastructureMetrics, telemetry)
        /\ spec.podLabels = orElse(r.object.podLabels, telemetry)
        /\ spec.namespaceLabels = orElse(r.object.namespaceLabels, "off")
        /\ spec.nodeLabels = orElse(r.object.nodeLabels, "off")
        /\ spec.prometheusCrd = orElse(r.object.prometheusCrd, "off")
    BY <1>1 DEF DecidedFlags
  <1>6. /\ spec.template = setMonitoringTemplateDefaults(r.object) /\ spec.autoMonitor = r.object.autoMonitor
        /\ spec.instances = setSyntheticsWorkerInstanceDefaults(r.object)
    BY <1>1
  <1> HIDE DEF spec
  <1>7. mutateConfiguration(r)[1] = spec /\ (spec.transform # None => spec.normalizedTransform # None)
    BY <1>2, SingletonSequence DEF None
  <1>8. \A f \in DecidedFlags : spec[f] # "unset"
    BY <1>3, <1>5 DEF DecidedFlags, orElse
  <1>9. IsTemplate(spec.template) /\ spec.template = setMonitoringTemplateDefaults(spec)
    BY <1>6, TemplateIsSettled DEF IsShaped
  <1>10. spec.instances = setSyntheticsWorkerInstanceDefaults(spec)
    BY <1>6, InstancesAreSettled
  <1> QED
    BY <1>4, <1>7, <1>8, <1>9, <1>10 DEF IsFixed, IsShaped

\* What the mutating webhook leaves of a monitoring resource is left alone from then on.
LEMMA MonitoringIsSettled ==
  ASSUME NEW r, NEW e, ~isReachabilityCheck(r), DOMAIN r.object = DOMAIN SchemaDefaults["monitoring"],
         mutateMonitoring(r, e) # None
  PROVE  IsFixed("monitoring", r.ns, mutateMonitoring(r, e)[1])
  <1> DEFINE fields == DOMAIN SchemaDefaults["monitoring"]
             first == setTelemetryCollectionRelatedDefaults(r, e)
             second == overrideLogCollectionDefault(r, first)
             third == [second EXCEPT !.exports = migratedExports(r), !.export = <<>>]
             normalized == IF third.transform = <<>> THEN third.normalizedTransform ELSE normalizeTransform(third.transform[1])
             fourth == [third EXCEPT !.normalizedTransform = normalized]
             decided == {"mode", "logs", "events", "scraping"}
  <1>1. /\ decided \cup {"transform", "export", "exports", "normalizedTransform"} \subseteq fields
        /\ decided \cap {"export", "exports", "normalizedTransform"} = {}
    BY FieldsOfMonitoring
  <1> HIDE DEF fields
  <1>2. DOMAIN first = fields /\ \A f \in decided : first[f] # "unset"
    BY <1>1 DEF setTelemetryCollectionRelatedDefaults, orElse, flag, fields
  <1> HIDE DEF first
  <1>3. /\ DOMAIN second = fields /\ \A f \in decided : second[f] # "unset"
        /\ r.ns = OperatorNamespace => ~read(second.logs, TRUE)
    BY <1>1, <1>2 DEF overrideLogCollectionDefault, read
  <1> HIDE DEF second
  <1>4. /\ DOMAIN third = fields /\ \A f \in decided : third[f] = second[f]
    BY <1>1, <1>3
  <1>5. mutateMonitoring(r, e) = IF third.transform # <<>> /\ normalized = <<>> THEN <<>> ELSE <<fourth>>
    BY DEF mutateMonitoring, normalizeMonitoringResourceSpec, first, second
  <1> HIDE DEF third
  <1>6. mutateMonitoring(r, e)[1] = fourth /\ (third.transform # None => normalized # None)
    BY <1>5, SingletonSequence DEF None
  <1>7. /\ \A f \in decided : fourth[f] = third[f]
        /\ fourth.transform = third.transform /\ fourth.normalizedTransform = normalized
    BY <1>1, <1>4
  <1>8. IsFunction(fourth)
    BY DEF IsFunction
  <1> HIDE DEF fourth, normalized
  <1>9. fourth.logs = second.logs
    BY <1>4, <1>7
  <1>10. \A f \in decided : fourth[f] # "unset"
    BY <1>3, <1>4, <1>7
  <1> QED
    BY <1>3, <1>6, <1>7, <1>8, <1>9, <1>10 DEF IsFixed, IsShaped

\* The same for all kinds.
LEMMA MutatedIsFixed ==
  ASSUME NEW p, p.key[1] \in Kinds, p.ns = p.key[2], ~p.dryRun, DOMAIN p.object = DOMAIN SchemaDefaults[p.key[1]],
         IsShaped(p.key[1], p.object), mutated(p) # None
  PROVE  IsFixed(p.key[1], p.key[2], mutated(p)[1])
  <1>1. ~isReachabilityCheck(p)
    BY DEF isReachabilityCheck
  <1>2. CASE p.key[1] = "configuration"
    <2>1. mutated(p) = mutateConfiguration(p)
      BY <1>2 DEF mutated
    <2> QED
      BY <1>1, <1>2, <2>1, ConfigurationIsSettled
  <1>3. CASE p.key[1] = "monitoring"
    <2>1. mutated(p) = mutateMonitoring(p, env)
      BY <1>3 DEF mutated
    <2>2. IsFixed("monitoring", p.ns, mutateMonitoring(p, env)[1])
      BY <1>1, <1>3, <2>1, MonitoringIsSettled
    <2> QED
      BY <1>3, <2>1, <2>2
  <1>4. CASE p.key[1] = "signalcontrol"
    <2>1. mutated(p)[1] = p.object
      BY <1>4, SingletonSequence DEF mutated
    <2> QED
      BY <1>4, <2>1 DEF IsFixed
  <1> QED
    BY <1>2, <1>3, <1>4 DEF Kinds

\* What has passed the validating webhook is admissible.
LEMMA ValidatedIsAdmissible ==
  ASSUME NEW q, ~q.dryRun, validated(q)
  PROVE  IsAdmissible(q.key[1], q.object)
  <1>1. ~isReachabilityCheck(q)
    BY DEF isReachabilityCheck
  <1>2. ASSUME q.key[1] = "configuration" PROVE IsAdmissible("configuration", q.object)
    <2>1. validateConfiguration(q, env)
      BY <1>2 DEF validated
    <2> QED
      BY <1>1, <2>1 DEF validateConfiguration, IsAdmissible, None
  <1>3. ASSUME q.key[1] = "signalcontrol" PROVE IsAdmissible("signalcontrol", q.object)
    <2>1. validateSignalControl(q, env)
      BY <1>3 DEF validated
    <2> QED
      BY <2>1 DEF validateSignalControl, IsAdmissible
  <1> QED
    BY <1>2, <1>3 DEF IsAdmissible

LEMMA InitIsFixed == Init => FixedInv
  BY NothingIsKept DEF Init, FixedInv

\* The live resource of a request has the shape of a spec.
LEMMA LiveIsShaped ==
  ASSUME StoredAreResources, FixedInv, NEW q, q.key[1] \in Kinds
  PROVE  IsShaped(q.key[1], LiveResource(q).spec) /\ DOMAIN LiveResource(q).spec = DOMAIN SchemaDefaults[q.key[1]]
  <1>1. DOMAIN LiveResource(q).spec = DOMAIN SchemaDefaults[q.key[1]]
    BY LiveIsSpec DEF IsSpec
  <1>2. CASE q.key \in DOMAIN stored
    <2>1. ResourceIsFixed(q.key, stored[q.key].spec) /\ LiveResource(q) = stored[q.key]
      BY <1>2 DEF FixedInv, LiveResource
    <2> QED
      BY <1>1, <2>1 DEF ResourceIsFixed, IsFixed
  <1>3. CASE q.key \notin DOMAIN stored
    <2>1. LiveResource(q).spec = SchemaDefaults[q.key[1]]
      BY <1>3 DEF LiveResource, NewResource
    <2> QED
      BY <1>1, <2>1, DefaultsAreShaped
  <1> QED
    BY <1>2, <1>3

\* A request that has passed the mutating webhook.
LEMMA MutateFixes ==
  ASSUME StoredAreResources, FixedInv, NEW q \in requests, IsRequest(q), IsUnderWay(q), q.stage = "mutate",
         NEW p, p = (IF q.client = "apply" THEN Reading(q) ELSE q), mutated(p) # None
  PROVE  RequestIsFixed(Mutant(p, mutated(p)[1]))
  <1> DEFINE object == mutated(p)[1]
             m == Mutant(p, object)
  <1>1. RequestIsFixed(q) /\ q.key[1] \in Kinds /\ DOMAIN q = RequestFields
    BY DEF FixedInv, IsRequest
  <1>2. /\ DOMAIN p = RequestFields
        /\ p.key = q.key /\ p.dryRun = q.dryRun /\ p.ns = q.ns /\ p.name = q.name
        /\ p.op = q.op \/ p.op = IF q.key \in DOMAIN stored THEN "update" ELSE "create"
        /\ q.client # "apply" => p.op = q.op
    BY <1>1, ReadingIsBased
  <1>3. ASSUME ~q.dryRun PROVE DOMAIN p.object = DOMAIN SchemaDefaults[q.key[1]] /\ IsShaped(q.key[1], p.object)
    <2>1. CASE q.client = "apply"
      <3>1. p.object = Applied(q.key[1], q.version, LiveResource(q).spec, LiveResource(q).last, q.manifest)
        BY <1>1, <2>1, ReadingIsBased
      <3>2. IsSpec(q.key[1], p.object)
        BY <2>1, AppliedIsSpec
      <3>3. IsShaped(q.key[1], LiveResource(q).spec) /\ DOMAIN LiveResource(q).spec = DOMAIN SchemaDefaults[q.key[1]]
        BY <1>1, LiveIsShaped
      <3>4. IsManifest(q.key[1], q.manifest) /\ (q.version = "v1alpha1" => q.key[1] = "monitoring")
        BY DEF IsRequest
      <3>5. IsShaped(q.key[1], p.object)
        BY <1>1, <3>1, <3>3, <3>4, AppliedIsShaped
      <3> QED
        BY <3>2, <3>5 DEF IsSpec
    <2>2. CASE q.client # "apply"
      <3>1. p = q /\ IsFixed(q.key[1], q.key[2], q.object)
        BY <1>1, <1>3, <2>2 DEF RequestIsFixed
      <3>2. q.key[1] = "monitoring" /\ q.object = q.base[1].spec /\ IsResource("monitoring", q.base[1])
        BY <2>2 DEF IsRequest, IsUnderWay, IsBased
      <3> QED
        BY <3>1, <3>2 DEF IsFixed, IsResource, IsSpec
    <2> QED
      BY <2>1, <2>2
  <1>4. ~q.dryRun => IsFixed(q.key[1], q.key[2], object)
    BY <1>1, <1>2, <1>3, MutatedIsFixed DEF RequestIsFixed
  <1>5. ASSUME q.key[2] = WebhookReachabilityCheckResourceName PROVE p.op = "create"
    <2>1. q.key \notin DOMAIN stored
      BY <1>5 DEF FixedInv, ResourceIsFixed
    <2> QED
      BY <1>1, <1>2, <1>5, <2>1 DEF RequestIsFixed
  <1> HIDE DEF object
  <1>6. /\ m.key = p.key /\ m.ns = p.ns /\ m.name = p.name /\ m.dryRun = p.dryRun /\ m.op = p.op
        /\ m.stage = "validate" /\ m.object = object
    BY <1>2 DEF Mutant, RequestFields
  <1> HIDE DEF m
  <1>7. RequestIsFixed(m)
    BY <1>1, <1>2, <1>4, <1>5, <1>6 DEF RequestIsFixed
  <1> QED
    BY <1>7 DEF m, object

LEMMA NextIsFixed == AdmissionInv /\ FixedInv /\ [Next]_vars => FixedInv'
  <1> SUFFICES ASSUME AdmissionInv, FixedInv, [Next]_vars
               PROVE  /\ \A k \in DOMAIN stored' : ResourceIsFixed(k, stored'[k].spec)
                      /\ \A q \in requests' : RequestIsFixed(q)
    BY DEF FixedInv
  <1>1. StoredAreResources /\ RequestsAreSound /\ HelmIsSound
    BY DEF AdmissionInv
  <1>2. /\ \A k \in DOMAIN stored : ResourceIsFixed(k, stored[k].spec)
        /\ \A q \in requests : RequestIsFixed(q)
    BY DEF FixedInv
  <1>3. CASE UNCHANGED vars
    BY <1>2, <1>3 DEF vars
  <1>4. CASE Submit
    <2>1. PICK c \in setting.choices :
            /\ c.cmd \in {"apply", "dryrun"}
            /\ requests' = requests \cup {Request(c.key, "apply", c.version, c.manifest, c.cmd = "dryrun")}
            /\ UNCHANGED <<scenario, helm, stored>>
      BY <1>4 DEF Submit
    <2>2. c.key[2] = WebhookReachabilityCheckResourceName => c.cmd = "dryrun" /\ c.key[1] # "signalcontrol"
      BY <1>1, <2>1, ScenariosAssumption DEF HelmIsSound, setting
    <2>3. RequestIsFixed(Request(c.key, "apply", c.version, c.manifest, c.cmd = "dryrun"))
      BY <2>2 DEF RequestIsFixed, Request
    <2> QED
      BY <1>2, <2>1, <2>3
  <1>5. CASE Mutate
    <2>1. PICK q \in requests :
            /\ q.stage = "mutate"
            /\ \E update \in {IF q.client = "apply" THEN Reading(q) ELSE q} : \E object \in {mutated(update)} :
                 requests' = (requests \ {q}) \cup
                   (IF object = <<>> THEN {} ELSE {[update EXCEPT !.stage = "validate", !.object = object[1]]})
            /\ UNCHANGED <<scenario, commands, helm, stored>>
      BY <1>5 DEF Mutate
    <2>2. PICK p : /\ p = IF q.client = "apply" THEN Reading(q) ELSE q
                   /\ requests' = (requests \ {q}) \cup (IF mutated(p) = None THEN {} ELSE {Mutant(p, mutated(p)[1])})
      BY <2>1 DEF Mutant, None
    <2>3. IsRequest(q) /\ IsUnderWay(q)
      BY <1>1 DEF RequestsAreSound
    <2>4. mutated(p) # None => RequestIsFixed(Mutant(p, mutated(p)[1]))
      BY <1>1, <2>1, <2>2, <2>3, MutateFixes
    <2> QED
      BY <1>2, <2>1, <2>2, <2>4
  <1>6. CASE Validate
    <2>1. PICK q \in requests :
            /\ q.stage = "validate"
            /\ requests' = (requests \ {q}) \cup (IF validated(q) THEN {[q EXCEPT !.stage = "persist"]} ELSE {})
            /\ UNCHANGED <<scenario, commands, helm, stored>>
      BY <1>6 DEF Validate
    <2>2. DOMAIN q = RequestFields
      BY <1>1 DEF RequestsAreSound, IsRequest
    <2>3. PICK m : m = [q EXCEPT !.stage = "persist"]
      OBVIOUS
    <2>4. /\ m.key = q.key /\ m.object = q.object /\ m.dryRun = q.dryRun /\ m.client = q.client
          /\ m.ns = q.ns /\ m.name = q.name /\ m.op = q.op /\ m.stage = "persist"
      BY <2>2, <2>3 DEF RequestFields
    <2>5. (validated(q) /\ ~q.dryRun) => IsAdmissible(q.key[1], q.object)
      BY ValidatedIsAdmissible
    <2>6. validated(q) => RequestIsFixed(m)
      BY <1>2, <2>1, <2>4, <2>5 DEF RequestIsFixed
    <2> QED
      BY <1>2, <2>1, <2>3, <2>6
  <1>7. CASE Persist
    <2>1. PICK q \in requests :
            /\ q.stage = "persist"
            /\ stored' = IF Live(q.key) # q.base \/ q.dryRun THEN stored
                         ELSE IF Written(q).deleting /\ ~q.finalizer THEN Without(stored, q.key)
                         ELSE Put(stored, q.key, Written(q))
            /\ requests' = (requests \ {q}) \cup
                 (IF Live(q.key) # q.base /\ q.client = "apply"
                  THEN {Request(q.key, q.client, q.version, q.manifest, q.dryRun)} ELSE {})
            /\ UNCHANGED <<scenario, commands, helm>>
      BY <1>7 DEF Persist
    <2>2. /\ \/ stored' = stored
             \/ stored' = Without(stored, q.key)
             \/ ~q.dryRun /\ stored' = Put(stored, q.key, Written(q))
          /\ ~q.dryRun => Written(q).spec = q.object
      BY <2>1, PersistStores
    <2>3. RequestIsFixed(q)
      BY <1>2
    <2>4. \A k \in DOMAIN stored' : ResourceIsFixed(k, stored'[k].spec)
      <3>1. CASE stored' = stored \/ stored' = Without(stored, q.key)
        BY <1>2, <3>1 DEF Without
      <3>2. CASE ~q.dryRun /\ stored' = Put(stored, q.key, Written(q))
        <4>1. /\ DOMAIN stored' = DOMAIN stored \cup {q.key} /\ stored'[q.key] = Written(q)
              /\ \A k \in DOMAIN stored : k # q.key => stored'[k] = stored[k]
          BY <3>2 DEF Put
        <4>2. ResourceIsFixed(q.key, q.object)
          BY <2>1, <2>3, <3>2 DEF RequestIsFixed, ResourceIsFixed
        <4> QED
          BY <1>2, <2>2, <3>2, <4>1, <4>2
      <3> QED
        BY <2>2, <3>1, <3>2
    <2>5. q.client = "apply" => RequestIsFixed(Request(q.key, q.client, q.version, q.manifest, q.dryRun))
      BY <2>3 DEF RequestIsFixed, Request
    <2> QED
      BY <1>2, <2>1, <2>4, <2>5
  <1>8. CASE Delete
    <2>1. PICK c \in setting.choices :
            /\ c.key \in DOMAIN stored
            /\ stored' = IF stored[c.key].finalizer THEN [stored EXCEPT ![c.key].deleting = TRUE] ELSE Without(stored, c.key)
            /\ UNCHANGED <<scenario, helm, requests>>
      BY <1>8 DEF Delete
    <2>2. \A k \in DOMAIN stored' : k \in DOMAIN stored /\ stored'[k].spec = stored[k].spec
      <3>1. IsResource(c.key[1], stored[c.key])
        BY <1>1, <2>1 DEF StoredAreResources
      <3>2. CASE stored' = Without(stored, c.key)
        BY <3>2 DEF Without
      <3>3. CASE stored' = [stored EXCEPT ![c.key].deleting = TRUE]
        BY <3>1, <3>3 DEF IsResource
      <3> QED
        BY <2>1, <3>2, <3>3
    <2> QED
      BY <1>2, <2>1, <2>2
  <1>9. CASE HelmUpgrade
    BY <1>2, <1>9 DEF HelmUpgrade
  <1>10. CASE MarkAvailable
    <2>1. PICK key \in DOMAIN stored : /\ stored' = [stored EXCEPT ![key].available = TRUE]
                                       /\ UNCHANGED <<scenario, commands, helm, requests>>
      BY <1>10 DEF MarkAvailable
    <2>2. IsResource(key[1], stored[key])
      BY <1>1 DEF StoredAreResources
    <2>3. \A k \in DOMAIN stored' : k \in DOMAIN stored /\ stored'[k].spec = stored[k].spec
      BY <2>1, <2>2 DEF IsResource
    <2> QED
      BY <1>2, <2>1, <2>3
  <1>11. CASE AddFinalizer \/ RemoveFinalizer
    <2>1. PICK k \in DOMAIN stored, client \in {"addFinalizer", "removeFinalizer"} :
            /\ k[1] = "monitoring"
            /\ requests' = requests \cup {ReconcilerRequest(k, client)}
            /\ UNCHANGED <<scenario, commands, helm, stored>>
      BY <1>11 DEF AddFinalizer, RemoveFinalizer, ReconcilerRequest
    <2> DEFINE q == Request(k, client, "v1beta1", None, FALSE)
    <2>2. /\ DOMAIN q = RequestFields /\ q.key = k /\ q.client = client /\ q.stage = "mutate"
          /\ q.name = k[2] /\ q.ns = k[2]
      BY DEF Request, RequestFields
    <2>3. PICK p : p = ReconcilerRequest(k, client)
      OBVIOUS
    <2> HIDE DEF q
    <2>4. p = Reading(q)
      BY <2>3 DEF ReconcilerRequest, q
    <2>5. p.key = k /\ p.stage = "mutate" /\ p.name = k[2] /\ p.ns = k[2] /\ p.object = stored[k].spec
      BY <1>1, <2>1, <2>2, <2>4, ReadingIsBased DEF LiveResource, Kinds
    <2>6. ResourceIsFixed(k, stored[k].spec)
      BY <1>2
    <2>7. RequestIsFixed(p)
      BY <2>5, <2>6 DEF RequestIsFixed, ResourceIsFixed
    <2> QED
      BY <1>2, <2>1, <2>3, <2>7
  <1> QED
    BY <1>3, <1>4, <1>5, <1>6, <1>7, <1>8, <1>9, <1>10, <1>11 DEF Next

-----------------------------------------------------------------------------
(* What is stored can be written back                                      *)

\* An update that changes nothing.
IsUnchanged(q, k) ==
  /\ q.key = k /\ q.op = "update" /\ ~q.dryRun /\ q.ns = k[2] /\ q.object = stored[k].spec /\ q.old = stored[k].spec
  /\ q = [q EXCEPT !.object = stored[k].spec]

LEMMA UnchangedIsUnchanged == \A k \in DOMAIN stored : IsUnchanged(Unchanged(k), k)
  <1> TAKE k \in DOMAIN stored
  <1>1. PICK n : n = Request(k, "apply", "v1beta1", None, FALSE)
    OBVIOUS
  <1>2. /\ DOMAIN n = RequestFields /\ n.key = k /\ n.dryRun = FALSE /\ n.ns = k[2]
        /\ n = [f \in RequestFields |-> n[f]]
    BY <1>1 DEF Request, RequestFields
  <1>3. PICK p : p = Reading(n)
    OBVIOUS
  <1>4. /\ DOMAIN p = RequestFields /\ p.key = k /\ p.dryRun = FALSE /\ p.ns = k[2] /\ p.op = "update" /\ p.old = stored[k].spec
    BY <1>2, <1>3 DEF Reading, RequestFields
  <1>5. PICK q : q = [p EXCEPT !.object = stored[k].spec]
    OBVIOUS
  <1>6. /\ q.key = k /\ q.dryRun = FALSE /\ q.ns = k[2] /\ q.op = "update" /\ q.old = stored[k].spec
        /\ q.object = stored[k].spec
    BY <1>4, <1>5 DEF RequestFields
  <1>7. q = [q EXCEPT !.object = stored[k].spec]
    BY <1>4, <1>5 DEF RequestFields
  <1>8. q = Unchanged(k)
    BY <1>1, <1>3, <1>5 DEF Unchanged
  <1> QED
    BY <1>6, <1>7, <1>8 DEF IsUnchanged

\* The webhook for configurations changes nothing of a spec it has been at before.
LEMMA ConfigurationStays ==
  ASSUME NEW r, NEW s, NEW ns, NEW last, r.object = s, r.old = s, ~isReachabilityCheck(r),
         IsSpec("configuration", s), IsMutated("configuration", s, last), IsFixed("configuration", ns, s)
  PROVE  mutateConfiguration(r) = <<s>>
  <1> DEFINE telemetry == orElse(s.telemetryCollection, "on")
             spec == [s EXCEPT !.exports = migratedExports(r), !.export = <<>>,
                        !.telemetryCollection = telemetry,
                        !.selfMonitoring = orElse(@, "on"),
                        !.infrastructureMetrics = orElse(@, telemetry),
                        !.legacyInfrastructureMetrics = orElse(@, telemetry),
                        !.podLabels = orElse(@, telemetry),
                        !.namespaceLabels = orElse(@, "off"),
                        !.nodeLabels = orElse(@, "off"),
                        !.prometheusCrd = orElse(@, "off"),
                        !.template = setMonitoringTemplateDefaults(s),
                        !.normalizedTransform = derivedTransform(s),
                        !.instances = setSyntheticsWorkerInstanceDefaults(s)]
  <1>1. DecidedFlags \cup {"export", "exports", "transform", "normalizedTransform", "template", "instances", "autoMonitor"}
          \subseteq DOMAIN s
    BY DEF SchemaDefaults, DecidedFlags, IsSpec
  <1>2. mutateConfiguration(r) = IF spec.transform # <<>> /\ spec.normalizedTransform = <<>> THEN <<>> ELSE <<spec>>
    BY DEF mutateConfiguration, normalizeOperatorConfigurationResourceSpec
  <1>3. s.export = <<>> /\ migratedExports(r) = s.exports
    BY DEF IsMutated, ExportsFollow, migratedExports, None
  <1>4. \A f \in DecidedFlags : \A d : orElse(s[f], d) = s[f]
    BY DEF IsFixed, orElse
  <1>5. s.normalizedTransform = derivedTransform(s)
    BY DEF IsMutated, derivedTransform, None
  <1>6. s.template = setMonitoringTemplateDefaults(s) /\ s.instances = setSyntheticsWorkerInstanceDefaults(s)
    BY DEF IsFixed
  <1>7. s = [f \in DOMAIN s |-> s[f]] /\ (s.transform # <<>> => s.normalizedTransform # <<>>)
    BY DEF IsFixed, IsShaped, IsFunction, None
  <1>8. /\ telemetry = s.telemetryCollection
        /\ orElse(s.selfMonitoring, "on") = s.selfMonitoring
        /\ orElse(s.infrastructureMetrics, telemetry) = s.infrastructureMetrics
        /\ orElse(s.legacyInfrastructureMetrics, telemetry) = s.legacyInfrastructureMetrics
        /\ orElse(s.podLabels, telemetry) = s.podLabels
        /\ orElse(s.namespaceLabels, "off") = s.namespaceLabels
        /\ orElse(s.nodeLabels, "off") = s.nodeLabels
        /\ orElse(s.prometheusCrd, "off") = s.prometheusCrd
    BY <1>4 DEF DecidedFlags
  <1>9. spec = s
    <2>1. DOMAIN spec = DOMAIN s /\ spec = [f \in DOMAIN s |-> spec[f]]
      OBVIOUS
    <2> HIDE DEF telemetry
    <2>2. \A f \in DOMAIN s : spec[f] = s[f]
      BY <1>1, <1>3, <1>5, <1>6, <1>8
    <2> QED
      BY <1>7, <2>1, <2>2
  <1> QED
    BY <1>2, <1>7, <1>9

\* Nor does the webhook for monitoring resources, whatever else it sees.
LEMMA MonitoringStays ==
  ASSUME NEW r, NEW e, NEW s, NEW last, r.object = s, r.old = s, ~isReachabilityCheck(r),
         IsSpec("monitoring", s), IsMutated("monitoring", s, last), IsFixed("monitoring", r.ns, s)
  PROVE  mutateMonitoring(r, e) = <<s>>
  <1> DEFINE first == setTelemetryCollectionRelatedDefaults(r, e)
             third == [s EXCEPT !.exports = migratedExports(r), !.export = <<>>]
             normalized == IF s.transform = <<>> THEN s.normalizedTransform ELSE normalizeTransform(s.transform[1])
  <1>1. {"mode", "logs", "events", "scraping", "transform", "export", "exports", "normalizedTransform"} \subseteq DOMAIN s
    BY FieldsOfMonitoring DEF IsSpec
  <1>2. s = [f \in DOMAIN s |-> s[f]]
    BY DEF IsFixed, IsShaped, IsFunction
  <1>3. s.export = <<>> /\ migratedExports(r) = s.exports
    BY DEF IsMutated, ExportsFollow, migratedExports, None
  <1>4. s.mode # "unset" /\ s.logs # "unset" /\ s.events # "unset" /\ s.scraping # "unset"
    BY DEF IsFixed
  <1>5. first = s
    <2>1. PICK operator, enabled :
            first = [s EXCEPT !.mode     = IF @ # "unset" THEN @ ELSE IF operator \/ ~enabled THEN "none" ELSE "all",
                              !.logs     = orElse(@, flag(~operator /\ enabled)),
                              !.events   = orElse(@, flag(enabled)),
                              !.scraping = orElse(@, flag(enabled))]
      BY DEF setTelemetryCollectionRelatedDefaults
    <2>2. DOMAIN first = DOMAIN s /\ first = [f \in DOMAIN s |-> first[f]]
      BY <2>1
    <2>3. \A f \in DOMAIN s : first[f] = s[f]
      BY <1>1, <1>4, <2>1 DEF orElse
    <2> HIDE DEF first
    <2> QED
      BY <1>2, <2>2, <2>3
  <1>6. overrideLogCollectionDefault(r, first) = s
    BY <1>5 DEF IsFixed, overrideLogCollectionDefault
  <1>7. third = s
    BY <1>1, <1>2, <1>3
  <1>8. mutateMonitoring(r, e) =
          IF third.transform # <<>> /\ (IF third.transform = <<>> THEN third.normalizedTransform ELSE normalizeTransform(third.transform[1])) = <<>>
          THEN <<>>
          ELSE <<[third EXCEPT !.normalizedTransform = IF third.transform = <<>> THEN third.normalizedTransform
                                                       ELSE normalizeTransform(third.transform[1])]>>
    BY <1>6 DEF mutateMonitoring, normalizeMonitoringResourceSpec
  <1>9. normalized = s.normalizedTransform /\ (s.transform # <<>> => normalized # <<>>)
    BY DEF IsMutated, IsFixed, None
  <1>10. mutateMonitoring(r, e) = <<[s EXCEPT !.normalizedTransform = normalized]>>
    BY <1>7, <1>8, <1>9
  <1> HIDE DEF normalized
  <1>11. [s EXCEPT !.normalizedTransform = normalized] = s
    BY <1>1, <1>2, <1>9
  <1> QED
    BY <1>10, <1>11

LEMMA MutationStays ==
  ASSUME AdmissionInv, FixedInv, NEW k \in DOMAIN stored, NEW q, IsUnchanged(q, k)
  PROVE  mutated(q) = <<stored[k].spec>>
  <1>1. k[1] \in Kinds /\ IsResource(k[1], stored[k]) /\ ResourceIsFixed(k, stored[k].spec)
    BY DEF AdmissionInv, StoredAreResources, FixedInv
  <1>2. /\ q.key = k /\ q.ns = k[2] /\ q.object = stored[k].spec /\ q.old = stored[k].spec /\ ~isReachabilityCheck(q)
    BY DEF IsUnchanged, isReachabilityCheck
  <1>3. /\ IsSpec(k[1], stored[k].spec) /\ IsMutated(k[1], stored[k].spec, stored[k].last)
        /\ IsFixed(k[1], k[2], stored[k].spec)
    BY <1>1 DEF IsResource, ResourceIsFixed
  <1>4. CASE k[1] = "configuration"
    <2>1. mutateConfiguration(q) = <<stored[k].spec>>
      BY <1>2, <1>3, <1>4, ConfigurationStays
    <2> QED
      BY <1>2, <1>4, <2>1 DEF mutated
  <1>5. CASE k[1] = "monitoring"
    <2>1. mutateMonitoring(q, env) = <<stored[k].spec>>
      BY <1>2, <1>3, <1>5, MonitoringStays
    <2> QED
      BY <1>2, <1>5, <2>1 DEF mutated
  <1>6. CASE k[1] = "signalcontrol"
    BY <1>2, <1>6 DEF mutated
  <1> QED
    BY <1>1, <1>4, <1>5, <1>6 DEF Kinds

\* The update of a configuration passes, as long as there is no other and it keeps its export.
LEMMA ConfigurationIsAccepted ==
  ASSUME AdmissionInv, FixedInv, AtMostOne("configuration"), SignalControlHasExport,
         NEW k \in DOMAIN stored, k[1] = "configuration", ~EbpfProfilerIsStranded(stored[k].spec),
         NEW q, IsUnchanged(q, k)
  PROVE  validateConfiguration(q, env)
  <1> DEFINE s == stored[k].spec
  <1>1. IsMutated("configuration", s, stored[k].last) /\ IsAdmissible("configuration", s)
    BY DEF AdmissionInv, StoredAreResources, IsResource, FixedInv, ResourceIsFixed
  <1>2. q.op = "update" /\ q.object = s /\ q.old = s
    BY DEF IsUnchanged
  <1>3. env.helm = helm
    BY DEF env
  <1>4. hasDash0Export(s) \/ ~hasEnabledSignalControl(env)
    <2>1. SUFFICES ASSUME hasEnabledSignalControl(env) PROVE hasDash0Export(s)
      OBVIOUS
    <2>2. PICK c \in Specs("configuration") : hasDash0Export(c)
      BY <2>1 DEF hasEnabledSignalControl, env, SignalControlHasExport, Specs
    <2>3. PICK j \in DOMAIN stored : j[1] = "configuration" /\ c = stored[j].spec
      BY DEF Specs, StoredOf
    <2>4. j = k
      BY <2>3 DEF AtMostOne
    <2> QED
      BY <2>2, <2>3, <2>4
  <1> HIDE DEF s
  <1>5. /\ validateTelemetryCollectionEnabledConsistency(q, helm)
        /\ validateAgent0ConnectorEnabledConsistency(q, helm)
        /\ validateSyntheticsWorkerEnabledConsistency(q, helm)
    BY <1>2 DEF validateTelemetryCollectionEnabledConsistency, validateAgent0ConnectorEnabledConsistency,
                validateSyntheticsWorkerEnabledConsistency, isFeatureNewlyEnabled, read
  <1>6. validateSyntheticsWorkerHasInstances(q, helm)
    BY <1>2 DEF validateSyntheticsWorkerHasInstances, isFeatureNewlyEnabled
  <1>7. validateEbpfProfiler(q, helm)
    <2>1. helm.ebpf => helm.telemetry
      BY DEF AdmissionInv, HelmIsSound, AreHelmValues
    <2> QED
      BY <1>2, <2>1 DEF validateEbpfProfiler, EbpfProfilerIsStranded, isFeatureNewlyEnabled, s
  <1>8. s.export = <<>>
    BY <1>1 DEF IsMutated, ExportsFollow, None
  <1>9. validateComponentSettings(q)
    BY <1>2 DEF validateComponentSettings, componentSettingsAreUnchanged
  <1>10. /\ read(s.selfMonitoring, TRUE) => s.exports # <<>>
         /\ validateTelemetryCollectionDisabledConsistency(s)
         /\ \A e \in Range1(s.exports) : validateGrpcExportInsecureFlags(e)
         /\ \A t \in Range1(s.template) : t.exports = <<>>
         /\ validateOttlOfOperatorConfiguration(s)
    BY <1>1 DEF IsAdmissible, None
  <1> QED
    BY <1>2, <1>3, <1>4, <1>5, <1>6, <1>7, <1>8, <1>9, <1>10 DEF validateConfiguration

\* So does the update of a Signal Control, as long as it has an export.
LEMMA SignalControlIsAccepted ==
  ASSUME AdmissionInv, FixedInv, SignalControlHasExport,
         NEW k \in DOMAIN stored, k[1] = "signalcontrol", NEW q, IsUnchanged(q, k)
  PROVE  validateSignalControl(q, env)
  <1> DEFINE s == stored[k].spec
  <1>1. IsAdmissible("signalcontrol", s)
    BY DEF FixedInv, ResourceIsFixed
  <1>2. q.op = "update" /\ q.object = s /\ q.old = s
    BY DEF IsUnchanged
  <1>3. read(s.enabled, TRUE) => hasDash0ExportConfigured(env)
    <2>1. SUFFICES ASSUME read(s.enabled, TRUE) PROVE hasDash0ExportConfigured(env)
      OBVIOUS
    <2>2. s \in Specs("signalcontrol")
      BY DEF Specs, StoredOf
    <2>3. PICK c \in Specs("configuration") : hasDash0Export(c)
      BY <2>1, <2>2 DEF SignalControlHasExport
    <2>4. PICK j \in DOMAIN stored : j[1] = "configuration" /\ c = stored[j].spec
      BY DEF Specs, StoredOf
    <2>5. [spec |-> stored[j].spec, available |-> stored[j].available] \in env.configurations
      BY <2>4 DEF env, StoredOf
    <2> QED
      BY <2>3, <2>4, <2>5 DEF hasDash0ExportConfigured
  <1> HIDE DEF s
  <1> QED
    BY <1>1, <1>2, <1>3 DEF validateSignalControl, IsAdmissible, componentSettingsAreUnchanged

LEMMA StoredIsUpdatable == AdmissionInv /\ FixedInv => StoredResourcesStayUpdatable
  <1> SUFFICES ASSUME AdmissionInv, FixedInv, NEW k \in DOMAIN stored
               PROVE  /\ mutated(Unchanged(k)) = <<stored[k].spec>>
                      /\ (AtMostOne("configuration") /\ SignalControlHasExport) =>
                           /\ (k[1] = "configuration" /\ ~EbpfProfilerIsStranded(stored[k].spec)) => Accepts(Unchanged(k))
                           /\ k[1] = "signalcontrol" => Accepts(Unchanged(k))
    BY DEF StoredResourcesStayUpdatable
  <1>1. PICK q : q = Unchanged(k)
    OBVIOUS
  <1>2. IsUnchanged(q, k)
    BY <1>1, UnchangedIsUnchanged
  <1>3. mutated(q) = <<stored[k].spec>>
    BY <1>2, MutationStays
  <1>4. q = [q EXCEPT !.object = stored[k].spec] /\ q.key = k
    BY <1>2 DEF IsUnchanged
  <1>5. mutated(q) # None /\ [q EXCEPT !.object = mutated(q)[1]] = q
    BY <1>3, <1>4, SingletonSequence DEF None
  <1>6. ASSUME validated(q) PROVE Accepts(q)
    BY <1>5, <1>6 DEF Accepts
  <1>7. ASSUME AtMostOne("configuration"), SignalControlHasExport, k[1] = "configuration",
               ~EbpfProfilerIsStranded(stored[k].spec)
        PROVE  validated(q)
    BY <1>2, <1>4, <1>7, ConfigurationIsAccepted DEF validated
  <1>8. ASSUME SignalControlHasExport, k[1] = "signalcontrol" PROVE validated(q)
    BY <1>2, <1>4, <1>8, SignalControlIsAccepted DEF validated
  <1> QED
    BY <1>1, <1>3, <1>6, <1>7, <1>8

\* The webhooks let the reachability check pass.
LEMMA ReachabilityCheck == AdmissionInv /\ FixedInv => ReachabilityCheckIsAccepted
  <1> SUFFICES ASSUME AdmissionInv, FixedInv, NEW q \in requests, q.key[2] = WebhookReachabilityCheckResourceName
               PROVE  validated(q)
    BY DEF ReachabilityCheckIsAccepted
  <1>1. isReachabilityCheck(q) /\ q.key[1] # "signalcontrol" /\ q.key[1] \in Kinds
    BY DEF FixedInv, RequestIsFixed, isReachabilityCheck, AdmissionInv, RequestsAreSound, IsRequest
  <1> QED
    BY <1>1 DEF validated, validateConfiguration, validateMonitoring, Kinds

\* The webhooks see the only configuration, if it is available.
LEMMA OneIsAvailable ==
  ASSUME AtMostOne("configuration"), NEW c \in StoredOf("configuration"), c.available, c.spec.exports # None
  PROVE  \E d : /\ loadAvailableOperatorConfigurationResources(env) = {d} /\ d.spec.exports # <<>>
                /\ Cardinality({d}) = 1 /\ firstOf({d}) = d.spec
  <1>1. PICK d : d = [spec |-> c.spec, available |-> c.available]
    OBVIOUS
  <1>2. d.spec.exports # <<>> /\ d.available
    BY <1>1 DEF None
  <1>3. StoredOf("configuration") = {c}
    BY DEF StoredOf, AtMostOne
  <1>4. env.configurations = {d}
    BY <1>1, <1>3 DEF env
  <1>5. loadAvailableOperatorConfigurationResources(env) = {d}
    BY <1>2, <1>4 DEF loadAvailableOperatorConfigurationResources
  <1>6. (CHOOSE e \in {d} : TRUE) = d
    OBVIOUS
  <1>7. Cardinality({d}) = 1
    BY FS_Singleton
  <1> QED
    BY <1>2, <1>5, <1>6, <1>7 DEF firstOf

\* A manifest that sets nothing asks for the defaults.
LEMMA EmptyManifest == Applied("monitoring", "v1beta1", SchemaDefaults["monitoring"], None, None) = SchemaDefaults["monitoring"]
  <1>1. IsFunction(SchemaDefaults["monitoring"])
    BY DefaultsAreShaped DEF IsShaped, Kinds
  <1>2. PICK s : s = SchemaDefaults["monitoring"]
    OBVIOUS
  <1>3. DOMAIN None = {}
    BY DEF None
  <1>4. Merge(s, None, None, s) = [f \in DOMAIN s |-> s[f]]
    BY <1>3 DEF Merge
  <1> QED
    BY <1>1, <1>2, <1>4 DEF Applied, IsFunction

\* A request for a monitoring resource for which nothing is set.
IsDefaultRequest(q, ns) ==
  /\ DOMAIN q = RequestFields /\ q.key = <<"monitoring", ns>> /\ q.op = "create" /\ ~q.dryRun /\ q.ns = ns
  /\ q.object = SchemaDefaults["monitoring"] /\ q.old = SchemaDefaults["monitoring"]

LEMMA DefaultRequest ==
  ASSUME NEW ns, <<"monitoring", ns>> \notin DOMAIN stored
  PROVE  IsDefaultRequest(Reading(Request(<<"monitoring", ns>>, "apply", "v1beta1", None, FALSE)), ns)
  <1>1. PICK n : n = Request(<<"monitoring", ns>>, "apply", "v1beta1", None, FALSE)
    OBVIOUS
  <1>2. /\ DOMAIN n = RequestFields /\ n.key = <<"monitoring", ns>> /\ n.dryRun = FALSE /\ n.ns = ns
        /\ n.client = "apply" /\ n.version = "v1beta1" /\ n.manifest = None
    BY <1>1 DEF Request, RequestFields
  <1>3. /\ NewResource("monitoring").spec = SchemaDefaults["monitoring"] /\ NewResource("monitoring").last = None
    BY DEF NewResource
  <1>4. n.key[1] = "monitoring"
    BY <1>2
  <1>5. PICK p : p = Reading(n)
    OBVIOUS
  <1>6. /\ DOMAIN p = RequestFields /\ p.key = <<"monitoring", ns>> /\ p.dryRun = FALSE /\ p.ns = ns /\ p.op = "create"
        /\ p.old = NewResource("monitoring").spec
        /\ p.object = Applied("monitoring", "v1beta1", NewResource("monitoring").spec, NewResource("monitoring").last, None)
    BY <1>2, <1>4, <1>5 DEF Reading, RequestFields
  <1> QED
    BY <1>1, <1>3, <1>5, <1>6, EmptyManifest DEF IsDefaultRequest

LEMMA DefaultsArePassed ==
  ASSUME AtMostOne("configuration"), NEW c \in StoredOf("configuration"), c.available, c.spec.exports # None,
         NEW ns, ns \notin RestrictedNamespaces, ns \notin setting.labelled, NEW q, IsDefaultRequest(q, ns)
  PROVE  Accepts(q)
  <1> DEFINE s == SchemaDefaults["monitoring"]
             enabled == telemetryCollectionEnabled(env)
             operator == ns = OperatorNamespace
             first == setTelemetryCollectionRelatedDefaults(q, env)
  <1>1. PICK d : /\ loadAvailableOperatorConfigurationResources(env) = {d} /\ d.spec.exports # <<>>
                 /\ Cardinality({d}) = 1 /\ firstOf({d}) = d.spec
    BY OneIsAvailable
  <1>2. /\ DOMAIN q = RequestFields /\ q.key[1] = "monitoring" /\ q.op = "create" /\ q.ns = ns
        /\ q.object = s /\ q.old = s /\ ~isReachabilityCheck(q)
    BY DEF IsDefaultRequest, isReachabilityCheck
  <1>3. /\ s.export = <<>> /\ s.exports = <<>> /\ s.selector = "default" /\ s.propagators = <<>>
        /\ s.objects = "unset" /\ s.filter = <<>> /\ s.transform = <<>> /\ s.normalizedTransform = <<>>
        /\ s.mode = "unset" /\ s.logs = "unset" /\ s.events = "unset" /\ s.scraping = "unset"
    BY DEF SchemaDefaults, None
  <1>4. {"mode", "logs", "events", "scraping", "transform", "export", "exports", "normalizedTransform"} \subseteq DOMAIN s
    BY FieldsOfMonitoring
  <1>5. migratedExports(q) = <<>>
    BY <1>2, <1>3 DEF migratedExports
  <1> HIDE DEF s, enabled
  <1>6. first = [s EXCEPT !.mode     = IF operator \/ ~enabled THEN "none" ELSE "all",
                          !.logs     = flag(~operator /\ enabled),
                          !.events   = flag(enabled),
                          !.scraping = flag(enabled)]
    BY <1>2, <1>3 DEF setTelemetryCollectionRelatedDefaults, orElse, enabled
  <1>7. /\ DOMAIN first = DOMAIN s
        /\ first.mode = (IF operator \/ ~enabled THEN "none" ELSE "all") /\ first.logs = flag(~operator /\ enabled)
        /\ first.events = flag(enabled) /\ first.scraping = flag(enabled)
        /\ \A f \in DOMAIN s \ {"mode", "logs", "events", "scraping"} : first[f] = s[f]
    BY <1>4, <1>6
  <1> HIDE DEF first
  <1>8. overrideLogCollectionDefault(q, first) = first
    BY <1>2, <1>7 DEF overrideLogCollectionDefault, read, flag
  <1>9. PICK o : o = [first EXCEPT !.exports = migratedExports(q), !.export = <<>>, !.normalizedTransform = <<>>]
    OBVIOUS
  <1>10. mutated(q) = <<o>>
    <2>1. PICK third : third = [first EXCEPT !.exports = migratedExports(q), !.export = <<>>]
      OBVIOUS
    <2>2. third.transform = <<>> /\ third.normalizedTransform = <<>>
      BY <1>3, <1>4, <1>7, <2>1, FieldsOfMonitoring DEF s
    <2>3. mutateMonitoring(q, env) =
            IF third.transform # <<>> /\ (IF third.transform = <<>> THEN third.normalizedTransform ELSE normalizeTransform(third.transform[1])) = <<>>
            THEN <<>>
            ELSE <<[third EXCEPT !.normalizedTransform = IF third.transform = <<>> THEN third.normalizedTransform
                                                         ELSE normalizeTransform(third.transform[1])]>>
      BY <1>2, <1>8, <2>1 DEF mutateMonitoring, normalizeMonitoringResourceSpec, first
    <2>4. mutateMonitoring(q, env) = <<[third EXCEPT !.normalizedTransform = <<>>]>>
      BY <2>2, <2>3
    <2> QED
      BY <1>2, <1>9, <2>1, <2>4 DEF mutated
  <1>11. /\ o.mode = (IF operator \/ ~enabled THEN "none" ELSE "all") /\ o.logs = flag(~operator /\ enabled)
         /\ o.events = flag(enabled) /\ o.scraping = flag(enabled)
         /\ o.exports = <<>> /\ o.export = <<>> /\ o.normalizedTransform = <<>>
         /\ o.selector = "default" /\ o.propagators = <<>> /\ o.objects = "unset" /\ o.filter = <<>> /\ o.transform = <<>>
    <2>1. {"selector", "propagators", "objects", "filter", "transform"} \subseteq DOMAIN s
      BY DEF s, SchemaDefaults
    <2> QED
      BY <1>3, <1>4, <1>5, <1>7, <1>9, <2>1
  <1>12. PICK m : m = [q EXCEPT !.object = o]
    OBVIOUS
  <1>13. m.key = q.key /\ m.op = "create" /\ m.ns = ns /\ m.object = o
    BY <1>2, <1>12 DEF RequestFields
  <1>14. operator => o.mode = "none"
    BY <1>11
  <1>15. ~rejectCustomMonitoringResourceInAutomaticallyMonitoredNamespace(m, env)
    BY <1>13 DEF rejectCustomMonitoringResourceInAutomaticallyMonitoredNamespace, env
  <1>16. validateExport(m, env)
    BY <1>1, <1>11, <1>13 DEF validateExport, Range1
  <1>17. validateTelemetryRelatedSettingsIfTelemetryCollectionIsDisabled(m, env)
    <2>1. ASSUME ~read(d.spec.telemetryCollection, TRUE) PROVE ~enabled
      BY <1>1, <2>1 DEF enabled, telemetryCollectionEnabled
    <2>2. ASSUME ~enabled
          PROVE  /\ o.mode = "none" /\ ~read(o.logs, TRUE) /\ ~read(o.events, TRUE) /\ ~read(o.objects, FALSE)
                 /\ ~read(o.scraping, TRUE) /\ o.filter = <<>> /\ o.transform = <<>>
      BY <1>11, <2>2 DEF read, flag
    <2> QED
      BY <1>1, <1>13, <2>1, <2>2 DEF validateTelemetryRelatedSettingsIfTelemetryCollectionIsDisabled
  <1>18. validateLabelSelector(o) /\ validateTraceContextPropagators(o) /\ validateOttl(o)
    BY <1>11 DEF validateLabelSelector, validateTraceContextPropagators, validateOttl, Range1
  <1>19. validateMonitoring(m, env)
    BY <1>13, <1>14, <1>15, <1>16, <1>17, <1>18 DEF validateMonitoring
  <1>20. validated(m)
    BY <1>2, <1>13, <1>19 DEF validated
  <1>21. mutated(q) # None /\ mutated(q)[1] = o
    BY <1>10, SingletonSequence
  <1> QED
    BY <1>12, <1>20, <1>21 DEF Accepts

LEMMA DefaultsPass == DefaultsAreAccepted
  <1> SUFFICES ASSUME AtMostOne("configuration"), NEW c \in StoredOf("configuration"), c.available, c.spec.exports # None,
                      NEW ns \in Namespaces \ (RestrictedNamespaces \cup setting.labelled),
                      <<"monitoring", ns>> \notin DOMAIN stored
               PROVE  Accepts(Reading(Request(<<"monitoring", ns>>, "apply", "v1beta1", None, FALSE)))
    BY DEF DefaultsAreAccepted
  <1>1. PICK q : q = Reading(Request(<<"monitoring", ns>>, "apply", "v1beta1", None, FALSE))
    OBVIOUS
  <1>2. IsDefaultRequest(q, ns)
    BY <1>1, DefaultRequest
  <1> QED
    BY <1>1, <1>2, DefaultsArePassed

-----------------------------------------------------------------------------

\* Whatever passes the webhooks is sound, for any manifests, Helm values, commands and
\* interleavings of the requests of users and of the reconciler: the fields the mutating
\* webhooks derive follow the manifest, containers can be deployed, there is one configuration
\* and one Signal Control, and an enabled Signal Control has a Dash0 export (mutateConfiguration, mutateMonitoring, validateConfiguration,
\* validateMonitoring, validateSignalControl).
THEOREM AdmittedResourcesStaySound == Spec => []AdmittedResourcesAreSound
  <1>1. Init => AdmissionInv /\ ReservoirInv /\ UniqueInv /\ SignalControlInv
    BY InitIsSound, InitFits, InitIsUnique, InitHasExport
  <1>2. AdmissionInv /\ ReservoirInv /\ UniqueInv /\ SignalControlInv /\ [Next]_vars =>
          (AdmissionInv /\ ReservoirInv /\ UniqueInv /\ SignalControlInv)'
    BY NextIsSound, NextFits, NextIsUnique, NextHasExport
  <1>3. AdmissionInv /\ ReservoirInv /\ UniqueInv /\ SignalControlInv => AdmittedResourcesAreSound
    <2>1. UniqueInv => SingletonsAreUnique
      BY DEF UniqueInv, SingletonsAreUnique
    <2> QED
      BY <2>1, DerivedFieldsFollow, AdmittedContainers, ExportIsListed DEF AdmittedResourcesAreSound
  <1> QED
    BY <1>1, <1>2, <1>3, PTL DEF Spec

\* The webhooks deny nothing that they have accepted before or that asks for nothing: what is
\* stored can be written back whatever the Helm values have become, unless they strand the eBPF
\* profiler, and a resource for which nothing is set passes once a configuration with an export
\* is available (isFeatureNewlyEnabled, setTelemetryCollectionRelatedDefaults).
THEOREM NothingIsDeniedNeedlessly == Spec => []NoNeedlessDenial
  <1>1. Init => AdmissionInv /\ FixedInv
    BY InitIsSound, InitIsFixed
  <1>2. AdmissionInv /\ FixedInv /\ [Next]_vars => (AdmissionInv /\ FixedInv)'
    BY NextIsSound, NextIsFixed
  <1>3. AdmissionInv /\ FixedInv => NoNeedlessDenial
    BY StoredIsUpdatable, DefaultsPass, ReachabilityCheck DEF NoNeedlessDenial
  <1> QED
    BY <1>1, <1>2, <1>3, PTL DEF Spec

=============================================================================
