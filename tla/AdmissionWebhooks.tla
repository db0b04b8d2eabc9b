------------------------- MODULE AdmissionWebhooks -------------------------
(***************************************************************************)
(* The life of the operator's configuration resources in the API server:   *)
(* users apply manifests (as v1beta1 or as the older v1alpha1), every      *)
(* request passes the operator's webhooks one after the other and is       *)
(* stored if nothing has changed meanwhile; the reconciler updates the     *)
(* resources through the same webhooks to add and to remove its finalizer; *)
(* a Helm upgrade changes the values the webhooks compare with.            *)
(*                                                                         *)
(* kubectl apply merges three ways: a field of the manifest is set, a field*)
(* that the last applied manifest had and this one has not is removed, all *)
(* others keep their stored value. So what the mutating webhooks have set  *)
(* comes back with the next request.                                       *)
(***************************************************************************)
EXTENDS ResourceAdmission

CONSTANTS Scenarios,            \* by name: the commands, how many, the Helm values, overlapping or not
          Namespaces

VARIABLES scenario,
          commands,             \* how many commands are left
          helm,                 \* the Helm values of the running operator
          stored,               \* the resources, by kind and name
          requests              \* the requests in flight

vars == <<scenario, commands, helm, stored, requests>>

setting == Scenarios[scenario]

None == <<>>
Put(f, k, v) == [x \in DOMAIN f \cup {k} |-> IF x = k THEN v ELSE f[x]]
Without(f, k) == [x \in DOMAIN f \ {k} |-> f[x]]

StoredOf(kind) == {stored[k] : k \in {k \in DOMAIN stored : k[1] = kind}}

env == [helm           |-> helm,
        configurations |-> {[spec |-> c.spec, available |-> c.available] : c \in StoredOf("configuration")},
        signalControls |-> {s.spec : s \in StoredOf("signalcontrol")},
        labelled       |-> setting.labelled]

-----------------------------------------------------------------------------
(* What users and Helm values may say                                      *)

\* A list of quantities.
IsResourceList(list, quantities) == list = [n \in DOMAIN list |-> list[n]] /\ \A n \in DOMAIN list : list[n] \in quantities

\* The settings of at most one container; whether they are valid is for the webhooks to say.
AreComponents(components) ==
  /\ components # None => 1 \in DOMAIN components
  /\ \A k \in DOMAIN components :
       /\ IsResourceList(components[k].limits, Int) /\ IsResourceList(components[k].requests, Int)
       /\ components[k].goMemLimit = None
            \/ (DOMAIN components[k].goMemLimit = {1} /\ components[k].goMemLimit[1] \in Int)

\* The resources of a container as Helm values have them: no request above its limit, and
\* a GOMEMLIMIT, if there is one, below the memory limit.
AreHelmResources(rr) ==
  /\ IsResourceList(rr.limits, Nat \ {0}) /\ IsResourceList(rr.requests, Nat)
  /\ \A n \in DOMAIN rr.requests \cap DOMAIN rr.limits : rr.requests[n] <= rr.limits[n]
  /\ \/ rr.goMemLimit = None
     \/ /\ DOMAIN rr.goMemLimit = {1} /\ rr.goMemLimit[1] \in Int
        /\ "memory" \in DOMAIN rr.limits => rr.goMemLimit[1] < rr.limits["memory"]

\* The chart refuses the eBPF profiler without the collection of telemetry.
AreHelmValues(values) == AreHelmResources(values.resources) /\ (values.ebpf => values.telemetry)

IsTemplate(template) == template = None \/ DOMAIN template[1] \subseteq DOMAIN monitoringTemplateDefaults

\* A field that a manifest sets has a value, a template has the fields of one; the annotations
\* the conversion works with are not for users.
IsManifest(kind, manifest) ==
  /\ "annotations" \notin DOMAIN manifest
  /\ "export" \in DOMAIN manifest => manifest.export # None
  /\ (kind = "monitoring" /\ "selector" \in DOMAIN manifest) => manifest.selector \notin {"", "unset"}
  /\ (kind # "monitoring" /\ "components" \in DOMAIN manifest) => AreComponents(manifest.components)
  /\ (kind = "configuration" /\ "template" \in DOMAIN manifest) => IsTemplate(manifest.template)

Kinds == {"configuration", "monitoring", "signalcontrol"}

\* The older version is one of the monitoring resource; the name of the reachability check is
\* for the post-install hook.
ASSUME ScenariosAssumption ==
  \A s \in DOMAIN Scenarios :
    /\ AreHelmValues(Scenarios[s].helm)
    /\ \A c \in Scenarios[s].choices :
         /\ c.cmd \in {"apply", "dryrun"} =>
              /\ c.key[1] \in Kinds
              /\ IsManifest(c.key[1], c.manifest)
              /\ c.version = "v1alpha1" => c.key[1] = "monitoring"
              /\ c.key[2] = WebhookReachabilityCheckResourceName => c.cmd = "dryrun" /\ c.key[1] # "signalcontrol"
         /\ c.cmd = "helm" => AreHelmValues(c.helm)

\* The Helm chart sets no GOMEMLIMIT for collectors: it is derived from the memory limit.
ASSUME DefaultsAssumption == AreHelmResources(Defaults) /\ Defaults.goMemLimit = None

-----------------------------------------------------------------------------
(* The API server                                                          *)

\* A resource before any manifest: the defaults of the custom resource definitions.
SchemaDefaults ==
  [configuration |->
     [export |-> None, exports |-> None, telemetryCollection |-> "on", selfMonitoring |-> "on",
      infrastructureMetrics |-> "unset", legacyInfrastructureMetrics |-> "unset", podLabels |-> "unset",
      namespaceLabels |-> "unset", nodeLabels |-> "unset", objects |-> "unset", prometheusCrd |-> "unset",
      profiling |-> "unset", ebpfProfiler |-> "unset", debuginfoUpload |-> "unset", agent0Connector |-> "unset",
      syntheticsWorker |-> "unset", instances |-> None, autoMonitor |-> "off", autoSelector |-> "default",
      template |-> None, filter |-> None, transform |-> None, normalizedTransform |-> None, components |-> None],
   monitoring |->
     [export |-> None, exports |-> None, mode |-> "unset", selector |-> "default", propagators |-> None,
      captureSql |-> "unset", logs |-> "unset", events |-> "unset", objects |-> "unset", scraping |-> "unset",
      filter |-> None, transform |-> None, normalizedTransform |-> None],
   signalcontrol |->
     [enabled |-> "on", sampling |-> "unset", reservoir |-> "serialized_memory", maxDisk |-> None, rules |-> None,
      durations |-> None, components |-> None]]

\* The three-way merge.
Merge(live, last, manifest, defaults) ==
  [f \in DOMAIN live |-> IF f \in DOMAIN manifest THEN manifest[f]
                         ELSE IF f \in DOMAIN last THEN defaults[f] ELSE live[f]]

\* The object of an apply: an old client sees and merges the old version.
Applied(kind, version, live, last, manifest) ==
  IF version = "v1alpha1"
  THEN ConvertTo(Merge(ConvertFrom(live), last, manifest, ConvertFrom(SchemaDefaults[kind])))
  ELSE Merge(live, last, manifest, SchemaDefaults[kind])

NewResource(kind) == [spec |-> SchemaDefaults[kind], available |-> FALSE, finalizer |-> FALSE, deleting |-> FALSE,
                      auto |-> FALSE, last |-> None]

Live(key) == IF key \in DOMAIN stored THEN <<stored[key]>> ELSE None

\* A request of a client for a resource; it has not read the live one yet.
Request(key, client, version, manifest, dryRun) ==
  [key |-> key, client |-> client, version |-> version, manifest |-> manifest, dryRun |-> dryRun, stage |-> "mutate",
   base |-> None, op |-> "create", name |-> key[2], ns |-> key[2], auto |-> FALSE, finalizer |-> FALSE,
   object |-> SchemaDefaults[key[1]], old |-> SchemaDefaults[key[1]]]

\* The request with the object made from the live resource.
Reading(q) ==
  LET live == IF q.key \in DOMAIN stored THEN stored[q.key] ELSE NewResource(q.key[1])
  IN  [q EXCEPT !.base      = Live(q.key),
                !.op        = IF q.key \in DOMAIN stored THEN "update" ELSE "create",
                !.auto      = live.auto,
                !.finalizer = q.client = "addFinalizer" \/ (q.client = "apply" /\ live.finalizer),
                !.object    = IF q.client = "apply" THEN Applied(q.key[1], q.version, live.spec, live.last, q.manifest)
                              ELSE live.spec,
                !.old       = live.spec]

\* What the request stores.
Written(q) ==
  [(IF q.base = None THEN NewResource(q.key[1]) ELSE q.base[1])
     EXCEPT !.spec = q.object, !.finalizer = q.finalizer, !.last = IF q.client = "apply" THEN q.manifest ELSE @]

mutated(q) ==
  CASE q.key[1] = "configuration" -> mutateConfiguration(q)
    [] q.key[1] = "monitoring"    -> mutateMonitoring(q, env)
    [] q.key[1] = "signalcontrol" -> <<q.object>>

validated(q) ==
  CASE q.key[1] = "configuration" -> validateConfiguration(q, env)
    [] q.key[1] = "monitoring"    -> validateMonitoring(q, env)
    [] q.key[1] = "signalcontrol" -> validateSignalControl(q, env)

-----------------------------------------------------------------------------

Init ==
  /\ scenario \in DOMAIN Scenarios
  /\ commands = setting.commands
  /\ helm = setting.helm
  /\ stored = None
  /\ requests = {}

Command(c) ==
  /\ commands > 0
  /\ c \in setting.choices
  /\ setting.overlap \/ requests = {}
  /\ commands' = commands - 1

\* kubectl apply, with or without --dry-run=server; the reachability check of the post-install hook.
Submit ==
  \E c \in setting.choices :
    /\ c.cmd \in {"apply", "dryrun"}
    /\ Command(c)
    /\ requests' = requests \cup {Request(c.key, "apply", c.version, c.manifest, c.cmd = "dryrun")}
    /\ UNCHANGED <<scenario, helm, stored>>

\* The mutating webhook; it may refuse the request.
Mutate ==
  \E q \in requests :
    /\ q.stage = "mutate"
    /\ \E update \in {IF q.client = "apply" THEN Reading(q) ELSE q} : \E object \in {mutated(update)} :
         requests' = (requests \ {q}) \cup
           (IF object = <<>> THEN {} ELSE {[update EXCEPT !.stage = "validate", !.object = object[1]]})
    /\ UNCHANGED <<scenario, commands, helm, stored>>

Validate ==
  \E q \in requests :
    /\ q.stage = "validate"
    /\ requests' = (requests \ {q}) \cup (IF validated(q) THEN {[q EXCEPT !.stage = "persist"]} ELSE {})
    /\ UNCHANGED <<scenario, commands, helm, stored>>

\* A patch starts again if the resource has changed since it was read, the update of
\* the reconciler fails then; a resource without a finalizer goes once it is deleted.
Persist ==
  \E q \in requests :
    /\ q.stage = "persist"
    /\ LET conflict == Live(q.key) # q.base
       IN  /\ stored' = IF conflict \/ q.dryRun THEN stored
                        ELSE IF Written(q).deleting /\ ~q.finalizer THEN Without(stored, q.key)
                        ELSE Put(stored, q.key, Written(q))
           /\ requests' = (requests \ {q}) \cup
                (IF conflict /\ q.client = "apply" THEN {Request(q.key, q.client, q.version, q.manifest, q.dryRun)} ELSE {})
    /\ UNCHANGED <<scenario, commands, helm>>

\* Deletions pass no webhook.
Delete ==
  \E c \in setting.choices :
    /\ c.cmd = "delete"
    /\ c.key \in DOMAIN stored
    /\ Command(c)
    /\ stored' = IF stored[c.key].finalizer THEN [stored EXCEPT ![c.key].deleting = TRUE] ELSE Without(stored, c.key)
    /\ UNCHANGED <<scenario, helm, requests>>

\* The operator restarts with the new values.
HelmUpgrade ==
  \E c \in setting.choices :
    /\ c.cmd = "helm"
    /\ helm # c.helm
    /\ Command(c)
    /\ helm' = c.helm
    /\ UNCHANGED <<scenario, stored, requests>>

-----------------------------------------------------------------------------
(* The reconcilers                                                         *)

MarkAvailable ==
  \E k \in DOMAIN stored :
    /\ k[1] = "configuration"
    /\ ~stored[k].available
    /\ stored' = [stored EXCEPT ![k].available = TRUE]
    /\ UNCHANGED <<scenario, commands, helm, requests>>

Reconciling(k) == \E q \in requests : q.key = k /\ q.client # "apply"

AddFinalizer ==
  \E k \in DOMAIN stored :
    /\ k[1] = "monitoring"
    /\ ~stored[k].deleting /\ ~stored[k].finalizer
    /\ ~Reconciling(k)
    /\ requests' = requests \cup {Reading(Request(k, "addFinalizer", "v1beta1", None, FALSE))}
    /\ UNCHANGED <<scenario, commands, helm, stored>>

\* After the workloads of the namespace have been reverted.
RemoveFinalizer ==
  \E k \in DOMAIN stored :
    /\ k[1] = "monitoring"
    /\ stored[k].deleting /\ stored[k].finalizer
    /\ ~Reconciling(k)
    /\ requests' = requests \cup {Reading(Request(k, "removeFinalizer", "v1beta1", None, FALSE))}
    /\ UNCHANGED <<scenario, commands, helm, stored>>

Next == Submit \/ Mutate \/ Validate \/ Persist \/ Delete \/ HelmUpgrade \/ MarkAvailable \/ AddFinalizer \/ RemoveFinalizer

Fairness == WF_vars(Mutate) /\ WF_vars(Validate) /\ WF_vars(Persist) /\ WF_vars(MarkAvailable) /\ WF_vars(AddFinalizer)
            /\ WF_vars(RemoveFinalizer)

Spec == Init /\ [][Next]_vars

FairSpec == Spec /\ Fairness

-----------------------------------------------------------------------------
(* Properties                                                              *)

Specs(kind) == {r.spec : r \in StoredOf(kind)}

\* An update that changes nothing.
Unchanged(k) == [Reading(Request(k, "apply", "v1beta1", None, FALSE)) EXCEPT !.object = stored[k].spec]

\* Both webhooks in one go, as far as the rest of the cluster is concerned.
Accepts(q) == LET object == mutated(q) IN object # None /\ validated([q EXCEPT !.object = object[1]])

AtMostOne(kind) == \A j, k \in DOMAIN stored : (j[1] = kind /\ k[1] = kind) => j = k

SignalControlHasExport ==
  (\E s \in Specs("signalcontrol") : read(s.enabled, TRUE)) => \E c \in Specs("configuration") : hasDash0Export(c)

\* Helm allows the eBPF profiler again, and what it requires has been taken away meanwhile.
EbpfProfilerIsStranded(spec) ==
  /\ helm.ebpf /\ read(spec.ebpfProfiler, FALSE)
  /\ ~(/\ read(spec.profiling, FALSE) /\ read(spec.telemetryCollection, TRUE)
       /\ read(spec.debuginfoUpload, TRUE) =>
            Cardinality({k \in DOMAIN spec.exports : spec.exports[k].kind = "dash0"}) <= MaxDash0Exports)

StoredResourcesStayUpdatable ==
  \A k \in DOMAIN stored :
    /\ mutated(Unchanged(k)) = <<stored[k].spec>>
    /\ (AtMostOne("configuration") /\ SignalControlHasExport) =>
         /\ (k[1] = "configuration" /\ ~EbpfProfilerIsStranded(stored[k].spec)) => Accepts(Unchanged(k))
         /\ k[1] = "signalcontrol" => Accepts(Unchanged(k))

DefaultsAreAccepted ==
  (AtMostOne("configuration") /\ \E c \in StoredOf("configuration") : c.available /\ c.spec.exports # None) =>
    \A ns \in Namespaces \ (RestrictedNamespaces \cup setting.labelled) :
      <<"monitoring", ns>> \notin DOMAIN stored => Accepts(Reading(Request(<<"monitoring", ns>>, "apply", "v1beta1", None, FALSE)))

ReachabilityCheckIsAccepted ==
  \A q \in requests : (q.stage = "validate" /\ q.key[2] = WebhookReachabilityCheckResourceName) => validated(q)

\* The mutating webhooks leave what they have stored alone, whatever else has changed in the
\* cluster, and a stored configuration or Signal Control can be written back whatever the Helm
\* values have become, unless they strand the eBPF profiler; a monitoring resource for which
\* nothing is set passes once a configuration with an export is available, whether telemetry
\* is collected or not and in the operator's namespace too; the reachability check always
\* passes. Overlapping requests may leave two configurations, or a Signal Control without
\* export, and these block each other (isFeatureNewlyEnabled, setTelemetryCollectionRelatedDefaults).
NoNeedlessDenial == StoredResourcesStayUpdatable /\ DefaultsAreAccepted /\ ReachabilityCheckIsAccepted

ExportsFollow(r) ==
  /\ r.spec.export = None
  /\ ("export" \in DOMAIN r.last /\ "exports" \notin DOMAIN r.last) => r.spec.exports = r.last.export
  /\ ("exports" \in DOMAIN r.last /\ "export" \notin DOMAIN r.last) => r.spec.exports = r.last.exports

\* What the mutating webhooks derive follows the last manifest, although the merge of kubectl
\* brings the derived fields back: the exports are those of the deprecated export or of the
\* list, whichever the manifest has, and the normalized transformation of a configuration is
\* that of its transformation, none if it has been removed (isExportsUnchanged, derivedTransform).
DerivedFieldsFollowTheManifest ==
  /\ \A kind \in {"configuration", "monitoring"} : \A r \in StoredOf(kind) : ExportsFollow(r)
  /\ \A s \in Specs("configuration") :
       s.normalizedTransform = IF s.transform = None THEN None ELSE normalizeTransform(s.transform[1])
  /\ \A s \in Specs("monitoring") : s.transform # None => s.normalizedTransform = normalizeTransform(s.transform[1])

ConfigurationsStay == \A c \in setting.choices : c.cmd = "delete" => c.key[1] # "configuration"
HelmResourcesStay == \A c \in setting.choices : c.cmd = "helm" => c.helm.resources = setting.helm.resources

\* An enabled Signal Control has a Dash0 export, as long as requests do not overlap and the
\* configuration is not deleted: neither of the two can be stored or changed without the other
\* (hasEnabledSignalControl, hasDash0ExportConfigured).
SignalControlKeepsItsExport ==
  (~setting.overlap /\ ConfigurationsStay /\ \E s \in Specs("signalcontrol") : s.enabled = "on") =>
    \E c \in Specs("configuration") : \E k \in DOMAIN c.exports : c.exports[k].kind = "dash0"

\* What is stored can be deployed: no request above its limit, GOMEMLIMIT below the memory
\* limit whether it is set or derived, and room for the trace reservoir on disk unless a
\* Helm upgrade has changed the resources since
\* (mergeContainerResources, validateContainerResourcesWithGoMemLimit, validateReservoirEphemeralStorageLimit).
AdmittedContainersAreDeployable ==
  \A kind \in {"configuration", "signalcontrol"} : \A s \in Specs(kind) :
    LET rr     == EffectiveExtraConfig(helm.resources, s.components)
        goMems == Range1(EffectiveGoMemLimit(rr)) \cup Range1(EffectiveGoMemLimitPercent(rr, GoMemLimitDefaultPercent))
    IN  /\ Deployable(rr)
        /\ "memory" \in DOMAIN rr.limits => \A goMem \in goMems : goMem < rr.limits["memory"]
        /\ (kind = "signalcontrol" /\ HelmResourcesStay /\ usesDiskReservoir(s) /\ "ephemeral-storage" \in DOMAIN rr.limits) =>
             rr.limits["ephemeral-storage"] >= ReservoirEphemeralStorageRequest(s)

\* There is one configuration and one Signal Control, unless requests overlap
\* (validateConfiguration, validateSignalControl).
SingletonsAreUnique == ~setting.overlap => AtMostOne("configuration") /\ AtMostOne("signalcontrol")

\* Whatever passes the webhooks is sound and can be worked with by the reconcilers.
AdmittedResourcesAreSound ==
  DerivedFieldsFollowTheManifest /\ SignalControlKeepsItsExport /\ AdmittedContainersAreDeployable /\ SingletonsAreUnique

NewerFields == {"selector", "propagators", "captureSql", "events", "objects"}

NewerSettingsStay ==
  \A q \in requests \ requests' :
    (q.stage = "persist" /\ q.version = "v1alpha1" /\ q.key \in DOMAIN stored \cap DOMAIN stored') =>
      \A f \in NewerFields : stored'[q.key].spec[f] = stored[q.key].spec[f]

\* An apply by a client of the older version leaves the settings alone that this version does
\* not have: they survive the conversion there and back (ConvertFrom, ConvertTo).
OldClientsKeepNewerSettings == [][NewerSettingsStay]_vars

\* A monitoring resource that is being deleted goes, although the removal of its finalizer is
\* an update that passes the webhooks, and whatever has become of the configuration (removesFinalizer).
DeletedMonitoringGoes ==
  \A ns \in Namespaces :
    (\E k \in DOMAIN stored : k = <<"monitoring", ns>> /\ stored[k].deleting) ~> (<<"monitoring", ns>> \notin DOMAIN stored)

=============================================================================
