----------------------- MODULE OperatorConfiguration -----------------------
(***************************************************************************)
(* The operator configuration resource: the handler that creates it from   *)
(* the Helm values (AutoOperatorConfigurationResourceHandler), the         *)
(* reconciler that distributes its settings to the API clients, to the     *)
(* managers of the components and to the operator's own telemetry, and the *)
(* goroutine that starts the OpenTelemetry SDK (OTelSdkStarter).           *)
(*                                                                         *)
(* Users act according to the script of a scenario, interleaved with the   *)
(* operator in every way.                                                  *)
(***************************************************************************)
EXTENDS Integers, Sequences, FiniteSets, TLC

CONSTANTS Scenarios,
          MaxSteps      \* attempts to create or update the resource; 6 in the code

Commands(s) == {s.script[k] : k \in DOMAIN s.script}

\* What users do in a scenario is a sequence of commands, and finitely many requests fail.
ASSUME ScenariosAreScripted == \A s \in Scenarios : s.script \in Seq(Commands(s)) /\ s.faults \in Nat

VARIABLES scenario,
          script,     \* what users and the cluster still do, in this order
          left,       \* how many requests to the API server may still fail
          cluster,    \* the operator configuration resources by name
          queue,      \* the requests of the reconciler, and those that have failed
          work,       \* the reconcile request in progress
          settings,   \* the default API configurations of all API clients, the delivery of the instrumentation
          seen,       \* the configuration a component has last been reconciled with
          sdk,        \* the OpenTelemetry SDK and the goroutine that starts it
          helm,       \* the Helm values and the goroutines that apply them
          leader, webhookReady,
          history     \* creations so far, the latest Helm values, what has been lost

vars == <<scenario, script, left, cluster, queue, work, settings, seen, sdk, helm, leader, webhookReady, history>>

autoResource == "auto"           \* the name of the resource the handler manages

None == [v |-> 0]                \* no resource, no settings

Components == <<"collector", "targetAllocator", "agent0Connector", "syntheticsWorker", "signalControl">>

NoRequests == [events |-> <<>>, retries |-> {}]
Idle == [stage |-> "idle"]

Names == DOMAIN cluster

\* The resource created last; a deleted one is gone at once, as it has no finalizer.
MostRecent == CHOOSE n \in Names : \A m \in Names : cluster[m].age <= cluster[n].age

\* What may be found: a copy of the list is sorted and the last entry of the list
\* itself is returned, whose order is arbitrary.
FindUniqueOrMostRecentResourceInScope == IF Names = {} THEN {None} ELSE {cluster[n].spec : n \in Names}

Without(f, n) == [x \in DOMAIN f \ {n} |-> f[x]]

-----------------------------------------------------------------------------
(* Settings derived from a configuration                                   *)

\* The value of a secret the configuration refers to.
getSecretValue(readable) == IF readable THEN {"value"} ELSE {}

ExchangeSecretRefForToken(spec, readable) == getSecretValue(readable)

GetAuthTokenForDash0Export(spec, readable) ==
  CASE spec.auth = "secretRef" -> ExchangeSecretRefForToken(spec, readable)
    [] spec.auth = "literal"   -> {"literal"}
    [] OTHER                   -> {}

\* Headers taken from secrets fail as a whole.
resolveSelfMonitoringHeaderSecrets(spec, readable) ==
  spec.auth = "secretRef" => getSecretValue(readable) # {}

enabledFor(spec) == [error |-> FALSE, config |-> [export |-> spec.export, v |-> spec.v]]
disabled == [error |-> FALSE, config |-> None]

convertResourceToDash0ExportConfiguration(spec) == enabledFor(spec)

convertResourceToGrpcExportConfiguration(spec, readable) ==
  IF resolveSelfMonitoringHeaderSecrets(spec, readable) THEN enabledFor(spec) ELSE disabled

\* JSON encoding is an error.
convertResourceToHttpExportConfiguration(spec, readable) ==
  IF spec.export = "httpJson" THEN [disabled EXCEPT !.error = TRUE]
  ELSE IF resolveSelfMonitoringHeaderSecrets(spec, readable) THEN enabledFor(spec) ELSE disabled

\* Self-monitoring only uses the first export.
ConvertOperatorConfigurationResourceToSelfMonitoringConfiguration(spec, readable) ==
  CASE ~spec.selfMonitoring \/ spec.export = "none" -> disabled
    [] spec.export = "dash0" -> IF GetAuthTokenForDash0Export(spec, readable) = {} THEN disabled
                                ELSE convertResourceToDash0ExportConfiguration(spec)
    [] spec.export = "grpc"  -> convertResourceToGrpcExportConfiguration(spec, readable)
    [] OTHER                 -> convertResourceToHttpExportConfiguration(spec, readable)

\* The configuration of the SDK, which is incomplete without an export.
convertExportConfigurationToOTelSDKConfig(input) ==
  IF input = None THEN None
  ELSE [protocol |-> IF input.export = "http" THEN "http/protobuf" ELSE "grpc", v |-> input.v]

HasDash0ApiAccessConfigured(spec) == spec.export = "dash0" /\ spec.apiAccess

\* The exports with API access whose token can be read.
apiConfigs(spec, readable) ==
  IF HasDash0ApiAccessConfigured(spec) /\ GetAuthTokenForDash0Export(spec, readable) # {} THEN {spec.v} ELSE {}

-----------------------------------------------------------------------------
(* The resource in the cluster                                             *)

\* Spec changes and the transition to available pass the event filter.
operatorConfigurationPredicate(old, new) ==
  old.spec # new.spec \/ (old.status # "available" /\ new.status = "available")

\* Requests are handled in their order and not queued twice.
Enqueued(n) == IF \E k \in DOMAIN queue.events : queue.events[k] = n THEN queue
               ELSE [queue EXCEPT !.events = Append(@, n)]

\* Every write makes a new version.
NewVersion(r) == [r EXCEPT !.rv = r.rv + 1]

Write(n, new) ==
  /\ cluster' = IF new = cluster[n] THEN cluster ELSE [cluster EXCEPT ![n] = NewVersion(new)]
  /\ queue' = IF operatorConfigurationPredicate(cluster[n], new) THEN Enqueued(n) ELSE queue

NewResource(spec) ==
  [spec |-> spec, status |-> "none", rv |-> 1, age |-> history.created + 1]

Create(n, spec) ==
  /\ cluster' = [m \in Names \cup {n} |-> IF m = n THEN NewResource(spec) ELSE cluster[m]]
  /\ queue' = Enqueued(n)
  /\ history' = [history EXCEPT !.created = @ + 1]

\* The validating webhook refuses a second resource, if it is called.
admitted(n) == scenario.validated => Names \subseteq {n}

-----------------------------------------------------------------------------
(* Users                                                                   *)

step == Head(script)
scripted(op) == script # <<>> /\ step.op = op /\ script' = Tail(script)

Apply ==
  /\ scripted("apply")
  /\ IF step.name \in Names THEN Write(step.name, [cluster[step.name] EXCEPT !.spec = step.spec]) /\ UNCHANGED history
     ELSE IF admitted(step.name) THEN Create(step.name, step.spec)
     ELSE UNCHANGED <<cluster, queue, history>>
  /\ UNCHANGED <<scenario, left, work, settings, seen, sdk, helm, leader, webhookReady>>

\* What a deletion leaves behind is not reconciled.
Delete ==
  /\ scripted("delete")
  /\ cluster' = Without(cluster, step.name)
  /\ queue' = IF step.name \in Names THEN Enqueued(step.name) ELSE queue
  /\ history' = [history EXCEPT !.disturbed = @ \/ (step.name \in Names /\ Names # {step.name})]
  /\ UNCHANGED <<scenario, left, work, settings, seen, sdk, helm, leader, webhookReady>>

BecomeLeader ==
  /\ ~leader
  /\ leader' = TRUE
  /\ UNCHANGED <<scenario, script, left, cluster, queue, work, settings, seen, sdk, helm, webhookReady, history>>

WebhookBecomesReady ==
  /\ ~webhookReady
  /\ webhookReady' = TRUE
  /\ UNCHANGED <<scenario, script, left, cluster, queue, work, settings, seen, sdk, helm, leader, history>>

-----------------------------------------------------------------------------
(* The handler for the Helm values                                         *)

validateExportFromHelm(export) == export.kind # "none" /\ export.endpoint

\* The Dash0 export with a token or a secret, or at least one other export.
validateOperatorConfiguration(values) ==
  /\ values.endpoint \/ values.exports # <<>>
  /\ values.endpoint => values.auth # "none"
  /\ \A k \in DOMAIN values.exports : validateExportFromHelm(values.exports[k])

dash0ExportFromValues(values) == [export |-> "dash0", auth |-> values.auth, apiAccess |-> TRUE]

\* The Dash0 export comes first.
convertValuesToResource(values) ==
  [v |-> values.v, selfMonitoring |-> values.selfMonitoring, delivery |-> values.delivery]
  @@ IF values.endpoint THEN dash0ExportFromValues(values)
     ELSE [export |-> Head(values.exports).kind, auth |-> "none", apiAccess |-> FALSE]

accepted(values) == validateOperatorConfiguration(values) /\ values.parses

\* CreateOrUpdateOperatorConfigurationResource: the values are converted now and
\* written by a goroutine later.
NewJob(values) ==
  IF accepted(values)
  THEN {[stage |-> "wait", spec |-> convertValuesToResource(values), attempts |-> MaxSteps, rv |-> 0, target |-> autoResource]} ELSE {}

hasExtraConfigValuesChanged(previous, new) == previous # new

\* Variant of UpdateExtraConfig that forgets the new values.
UpdateExtraConfigWithoutSwap(values) ==
  helm' = IF ~hasExtraConfigValuesChanged(helm.values, values) THEN helm
          ELSE [helm EXCEPT !.jobs = @ \cup NewJob(helm.values)]

UpdateExtraConfig(values) ==
  helm' = IF ~hasExtraConfigValuesChanged(helm.values, values) THEN helm
          ELSE [values |-> values, jobs |-> helm.jobs \cup NewJob(values)]

ChangeHelmValues ==
  /\ scripted("helm")
  /\ UpdateExtraConfig(step.values)
  /\ history' = [history EXCEPT !.released = step.values,
                                !.lost = IF step.values = history.released THEN @ ELSE helm.jobs # {}]
  /\ UNCHANGED <<scenario, left, cluster, queue, work, settings, seen, sdk, leader, webhookReady>>

\* Only the leader writes, and only once the validating webhook can be called.
AwaitLeadership(j) ==
  /\ j.stage = "wait" /\ leader /\ webhookReady
  /\ helm' = [helm EXCEPT !.jobs = (@ \ {j}) \cup {[j EXCEPT !.stage = "list"]}]
  /\ UNCHANGED <<scenario, script, left, cluster, queue, work, settings, seen, sdk, leader, webhookReady, history>>

FirstListed == IF autoResource \in Names THEN autoResource ELSE CHOOSE n \in Names : TRUE

\* Variant of refusesToOverwrite that takes every resource for its own.
neverRefuses == FALSE

\* A resource that the handler has not created is left alone.
refusesToOverwrite == Names # {} /\ FirstListed # autoResource

\* The next attempt lists the resources again; after the last one the values are lost.
Retry(j) ==
  /\ helm' = [helm EXCEPT !.jobs =
       (@ \ {j}) \cup (IF j.attempts > 1 THEN {[j EXCEPT !.stage = "list", !.attempts = @ - 1]} ELSE {})]
  /\ history' = [history EXCEPT !.lost = @ \/ ~(j.attempts > 1)]

ListResources(j) ==
  /\ j.stage = "list"
  /\ \/ left > 0 /\ left' = left - 1 /\ Retry(j)
     \/ /\ helm' = [helm EXCEPT !.jobs =
             IF refusesToOverwrite THEN @ \ {j}
             ELSE IF Names = {} THEN (@ \ {j}) \cup {[j EXCEPT !.stage = "write", !.rv = 0, !.target = autoResource]}
             ELSE (@ \ {j}) \cup {[j EXCEPT !.stage = "write", !.rv = cluster[FirstListed].rv, !.target = FirstListed]}]
        /\ UNCHANGED <<left, history>>
  /\ UNCHANGED <<scenario, script, cluster, queue, work, settings, seen, sdk, leader, webhookReady>>

\* An update names the version that has been listed, a creation needs a free name.
CreateOrUpdate(j) ==
  LET conflict == IF j.rv = 0 THEN ~admitted(j.target) \/ j.target \in Names
                  ELSE IF j.target \in Names THEN cluster[j.target].rv # j.rv ELSE TRUE
  IN  /\ j.stage = "write"
      /\ \/ /\ (conflict \/ left > 0) = TRUE
            /\ left' = IF conflict THEN left ELSE left - 1
            /\ Retry(j)
            /\ UNCHANGED <<cluster, queue>>
         \/ /\ ~conflict
            /\ IF j.rv = 0 THEN Create(j.target, j.spec)
               ELSE Write(j.target, [cluster[j.target] EXCEPT !.spec = j.spec]) /\ UNCHANGED history
            /\ helm' = [helm EXCEPT !.jobs = @ \ {j}]
            /\ UNCHANGED left
      /\ UNCHANGED <<scenario, script, work, settings, seen, sdk, leader, webhookReady>>

-----------------------------------------------------------------------------
(* The reconciler                                                          *)

Others == <<scenario, script, helm, leader, webhookReady>>

\* A request that fails is handled again after some time.
Retried == [queue EXCEPT !.retries = @ \cup {work.name}]

Requeue ==
  /\ left > 0
  /\ left' = left - 1
  /\ queue' = Retried
  /\ work' = Idle
  /\ UNCHANGED <<cluster, settings, seen, sdk>>

Goto(stage) == work' = [work EXCEPT !.stage = stage]

\* What has been read of a resource that may be gone.
Read(n) == IF n \in Names THEN cluster[n] ELSE [spec |-> None, status |-> "none", rv |-> 0, age |-> 0]

\* Handling a deletion switches off the settings of any other resource, until the most
\* recent one is reconciled.
BeginReconcile(n) ==
  /\ work.stage = "idle"
  /\ \/ queue.events # <<>> /\ n = Head(queue.events) /\ queue' = [queue EXCEPT !.events = Tail(@)]
     \/ n \in queue.retries /\ queue' = [queue EXCEPT !.retries = @ \ {n}]
  /\ work' = [stage |-> IF n \in Names THEN "unique" ELSE "remove", name |-> n, deleted |-> n \notin Names,
              spec |-> Read(n).spec, status |-> Read(n).status, rv |-> Read(n).rv,
              next |-> 1, config |-> None, after |-> "components"]
  /\ history' = [history EXCEPT !.disturbed = IF n \in Names THEN @ /\ n # MostRecent ELSE Names # {}]
  /\ UNCHANGED <<left, cluster, settings, seen, sdk>> /\ UNCHANGED Others

\* The version that has been read is no longer the current one.
stale == IF work.name \in Names THEN cluster[work.name].rv # work.rv ELSE TRUE

Fail ==
  /\ queue' = Retried
  /\ work' = Idle
  /\ UNCHANGED <<left, cluster, settings, seen, sdk>>

RemoveDefaultApiConfigs == settings' = [settings EXCEPT !.api = {}]

\* Variant of removeAllOperatorConfigurationSettings that forgets the API clients.
removeOnlyOTelSdkParameters == settings' = settings /\ Goto("parameters")

\* The API clients, then the parameters of the SDK.
removeAllOperatorConfigurationSettings == RemoveDefaultApiConfigs /\ Goto("parameters")

RemoveSettings ==
  /\ work.stage = "remove"
  /\ removeAllOperatorConfigurationSettings
  /\ UNCHANGED <<left, queue, cluster, seen, sdk>> /\ UNCHANGED Others /\ UNCHANGED history

EnsureResourceIsMarkedAsDegraded(r) == [r EXCEPT !.status = "degraded"]
EnsureResourceIsMarkedAsAvailable(r) == [r EXCEPT !.status = "available"]
SetAvailableConditionToUnknown(r) == [r EXCEPT !.status = "unknown"]

degraded(n) == NewVersion(EnsureResourceIsMarkedAsDegraded(cluster[n]))

\* Variant of MarkOthers that leaves the other resources as they are.
MarkNone(kept) == cluster' = cluster

MarkOthers(kept) ==
  cluster' = [n \in Names |-> IF n \in kept \/ cluster[n].status = "degraded" THEN cluster[n] ELSE degraded(n)]

\* All but the most recent one are marked, whichever of them is reconciled; that
\* marking another resource fails is ignored.
VerifyThatResourceIsUniqueInScope ==
  /\ work.stage = "unique"
  /\ \/ Requeue
     \/ Cardinality(Names) <= 1 /\ Goto("init") /\ UNCHANGED <<left, cluster, queue, settings, seen, sdk>>
     \/ /\ Cardinality(Names) > 1 /\ MostRecent # work.name /\ work.status # "degraded" /\ stale
        /\ Fail
     \/ /\ Cardinality(Names) > 1
        /\ (MostRecent = work.name \/ work.status = "degraded" \/ ~stale)
        /\ \/ MarkOthers({MostRecent}) /\ UNCHANGED left
           \/ left > 0 /\ MarkOthers(Names \ ({work.name} \ {MostRecent})) /\ left' = left - 1
        /\ IF MostRecent = work.name THEN Goto("init") ELSE work' = Idle
        /\ UNCHANGED <<queue, settings, seen, sdk>>
  /\ UNCHANGED Others /\ UNCHANGED history

\* Fails if the resource has changed since it has been read.
InitStatusConditions ==
  /\ work.stage = "init"
  /\ \/ Requeue
     \/ work.status = "none" /\ stale /\ Fail
     \/ /\ work.status = "none" /\ ~stale
        /\ cluster' = [cluster EXCEPT ![work.name] = NewVersion(SetAvailableConditionToUnknown(@))]
        /\ Goto("convert")
        /\ UNCHANGED <<left, queue, settings, seen, sdk>>
     \/ /\ work.status # "none"
        /\ Goto("convert")
        /\ UNCHANGED <<left, queue, cluster, settings, seen, sdk>>
  /\ UNCHANGED Others /\ UNCHANGED history

\* A secret that is there may still be unreadable for once; it is not read again.
ReadSecret(readable) ==
  \/ readable = scenario.secret /\ UNCHANGED <<left, history>>
  \/ /\ scenario.secret /\ work.spec.auth = "secretRef" /\ ~readable /\ left > 0
     /\ left' = left - 1
     /\ history' = [history EXCEPT !.disturbed = TRUE]

\* An error also ends the self-monitoring, before the request is queued again.
ConvertConfiguration ==
  /\ work.stage = "convert"
  /\ \E readable \in BOOLEAN :
       /\ ReadSecret(readable)
       /\ \E result \in {ConvertOperatorConfigurationResourceToSelfMonitoringConfiguration(work.spec, readable)} :
            work' = [work EXCEPT !.stage = "parameters", 
                                 !.config = convertExportConfigurationToOTelSDKConfig(result.config),
                                 !.after = IF result.error THEN "fail" ELSE "api"]
  /\ UNCHANGED <<queue, cluster, settings, seen, sdk>> /\ UNCHANGED Others

FailAfterwards == work.stage = "fail" /\ Fail /\ UNCHANGED Others /\ UNCHANGED history

\* onParametersHaveChanged: what happens depends on the flag and on the active
\* configuration, which the starting goroutine sets, possibly too late.
OnParametersHaveChanged ==
  /\ work.stage = "parameters"
  /\ history' = [history EXCEPT !.raced = @ \/ sdk.starter.stage \notin {"idle", "ended"}]
  /\ Goto(IF work.config # None
          THEN IF ~sdk.isActive THEN "send"
               ELSE IF sdk.activeConfig # work.config THEN "restart" ELSE work.after
          ELSE IF sdk.isActive THEN "shutdown" ELSE work.after)
  /\ UNCHANGED <<left, queue, cluster, settings, seen, sdk>> /\ UNCHANGED Others

ShutDownOTelSdk ==
  /\ work.stage \in {"restart", "shutdown"}
  /\ sdk' = [sdk EXCEPT !.running = None, !.isActive = FALSE, !.activeConfig = None]
  /\ Goto(IF work.stage = "restart" THEN "send" ELSE work.after)
  /\ UNCHANGED <<left, queue, cluster, settings, seen>> /\ UNCHANGED Others /\ UNCHANGED history

\* The channel has no buffer: the goroutine has to be waiting.
SendToStarter ==
  /\ work.stage = "send" /\ sdk.starter.stage = "idle"
  /\ sdk' = [sdk EXCEPT !.starter = [stage |-> "received", config |-> work.config]]
  /\ Goto(work.after)
  /\ UNCHANGED <<left, queue, cluster, settings, seen>> /\ UNCHANGED Others /\ UNCHANGED history

\* Variant of AwaitNextConfiguration: the goroutine receives one configuration only.
AwaitNoConfiguration == [stage |-> "ended"]

AwaitNextConfiguration == Idle

\* waitForCompleteOTelSDKConfiguration: the flag, the active configuration, the start.
WaitForCompleteOTelSDKConfiguration ==
  /\ sdk.starter.stage \in {"received", "flagged", "stored"}
  /\ sdk' = CASE sdk.starter.stage = "received" -> [sdk EXCEPT !.isActive = TRUE, !.starter.stage = "flagged"]
              [] sdk.starter.stage = "flagged"  -> [sdk EXCEPT !.activeConfig = sdk.starter.config,
                                                               !.starter.stage = "stored"]
              [] sdk.starter.stage = "stored"   -> [sdk EXCEPT !.running = sdk.starter.config,
                                                               !.starter = AwaitNextConfiguration]
  /\ UNCHANGED <<left, queue, cluster, work, settings, seen>> /\ UNCHANGED Others /\ UNCHANGED history

\* The API clients, then the delivery of the instrumentation.
applyApiAccessSettings ==
  /\ work.stage = "api"
  /\ \E readable \in BOOLEAN :
       /\ ReadSecret(readable)
       /\ settings' = [api |-> apiConfigs(work.spec, readable), delivery |-> work.spec.delivery]
  /\ Goto("components")
  /\ UNCHANGED <<queue, cluster, seen, sdk>> /\ UNCHANGED Others

\* Every manager looks up the resource itself; the first failure ends the request.
ReconcileComponent ==
  /\ work.stage = "components"
  /\ \/ Requeue
     \/ /\ \E spec \in FindUniqueOrMostRecentResourceInScope : seen' = [seen EXCEPT ![Components[work.next]] = spec]
        /\ work' = IF work.next < Len(Components) THEN [work EXCEPT !.next = @ + 1]
                   ELSE IF work.deleted THEN Idle ELSE [work EXCEPT !.stage = "available"]
        /\ UNCHANGED <<left, queue, cluster, settings, sdk>>
  /\ UNCHANGED Others /\ UNCHANGED history

\* The resource is read again before its status is written.
MarkAsAvailable ==
  /\ work.stage = "available"
  /\ \/ Requeue
     \/ /\ IF work.name \in Names THEN Write(work.name, EnsureResourceIsMarkedAsAvailable(cluster[work.name]))
           ELSE UNCHANGED cluster /\ queue' = Retried
        /\ work' = Idle
        /\ UNCHANGED <<left, settings, seen, sdk>>
  /\ UNCHANGED Others /\ UNCHANGED history

-----------------------------------------------------------------------------

Init ==
  /\ scenario \in Scenarios
  /\ script = scenario.script
  /\ left = scenario.faults
  /\ cluster = <<>>
  /\ queue = NoRequests
  /\ work = Idle
  /\ settings = [api |-> {}, delivery |-> "auto"]
  /\ seen = [c \in {Components[k] : k \in DOMAIN Components} |-> None]
  /\ sdk = [isActive |-> FALSE, activeConfig |-> None, running |-> None, starter |-> Idle]
  /\ helm = [values |-> scenario.values, jobs |-> IF scenario.values = None THEN {} ELSE NewJob(scenario.values)]
  /\ leader = FALSE
  /\ webhookReady = FALSE
  /\ history = [created |-> 0, released |-> scenario.values, lost |-> FALSE, disturbed |-> FALSE, raced |-> FALSE]

Users == Apply \/ Delete \/ ChangeHelmValues

Handler == \E j \in helm.jobs : AwaitLeadership(j) \/ ListResources(j) \/ CreateOrUpdate(j)

Reconciler ==
  \/ \E n \in {queue.events[k] : k \in DOMAIN queue.events} \cup queue.retries : BeginReconcile(n)
  \/ RemoveSettings
  \/ VerifyThatResourceIsUniqueInScope
  \/ InitStatusConditions
  \/ ConvertConfiguration
  \/ FailAfterwards
  \/ OnParametersHaveChanged
  \/ ShutDownOTelSdk
  \/ SendToStarter
  \/ applyApiAccessSettings
  \/ ReconcileComponent
  \/ MarkAsAvailable

Operator == Handler \/ Reconciler \/ WaitForCompleteOTelSDKConfiguration \/ BecomeLeader \/ WebhookBecomesReady

Next == Users \/ Operator

\* The operator's goroutines keep running; users need not do anything.
Fairness == WF_vars(Handler) /\ WF_vars(Reconciler) /\ WF_vars(WaitForCompleteOTelSDKConfiguration)
            /\ WF_vars(BecomeLeader) /\ WF_vars(WebhookBecomesReady)

Spec == Init /\ [][Next]_vars

FairSpec == Spec /\ Fairness

-----------------------------------------------------------------------------
(* Properties                                                              *)

AtRest == /\ script = <<>> /\ queue = NoRequests /\ work = Idle /\ helm.jobs = {} /\ sdk.starter = Idle

mostRecentSpec == IF Names = {} THEN None ELSE cluster[MostRecent].spec

\* What the most recent resource should lead to, its secret being readable or not.
expectedApi == IF Names = {} THEN {} ELSE apiConfigs(mostRecentSpec, scenario.secret)

selfMonitoringOf(spec) ==
  convertExportConfigurationToOTelSDKConfig(
    ConvertOperatorConfigurationResourceToSelfMonitoringConfiguration(spec, scenario.secret).config)

expectedConfig == IF Names = {} THEN None ELSE selfMonitoringOf(mostRecentSpec)

\* Once everything has been handled, the API clients and the operator's own
\* telemetry use the settings of the most recent resource, which is marked as
\* available, or none if there is no resource: whatever has failed, and whichever
\* change has come during a reconcile request (Reconcile of
\* operator_configuration_controller.go and otel_init_wait.go). The components use
\* it as well, as long as it is the only one. Until the most recent resource is
\* reconciled again, this does not hold after one of several resources has been
\* deleted, or its deletion has been handled, and when a secret could not be read; and
\* not any more once a configuration was handed over while the SDK was being started.
SettingsFollowTheConfiguration ==
  (AtRest /\ ~history.disturbed /\ ~history.raced) =>
    /\ settings.api = expectedApi
    /\ sdk.running = expectedConfig
    /\ Names # {} => /\ cluster[MostRecent].status = "available"
                     /\ settings.delivery = mostRecentSpec.delivery
    /\ Cardinality(Names) <= 1 => \A c \in DOMAIN seen : seen[c] = mostRecentSpec

\* The components use the most recent resource, also when there are several
\* (FindUniqueOrMostRecentResourceInScope: "If multiple resources exist, it returns
\* the most recent one").
ComponentsUseTheMostRecentResource == AtRest => \A c \in DOMAIN seen : seen[c] = mostRecentSpec

\* With several resources, only the most recent one is available and all others
\* say that they are degraded, unless a status update has failed
\* (VerifyThatResourceIsUniqueInScope).
OnlyTheMostRecentIsAvailable ==
  (AtRest /\ left = scenario.faults /\ Names # {}) => \A n \in Names \ {MostRecent} : cluster[n].status = "degraded"

KeepsManualConfiguration ==
  /\ \A n \in Names \cap DOMAIN cluster' :
       (n # autoResource /\ cluster'[n].spec # cluster[n].spec) => script' # script
  /\ (autoResource \in DOMAIN cluster' \ Names) => (leader \/ script' # script)

\* The handler for the Helm values never changes a resource it has not created, and
\* does not write before this replica is the leader
\* (createOrUpdateOperatorConfigurationResourceOnce).
ManualConfigurationIsKept == [][KeepsManualConfiguration]_vars

HelmOnly == \A c \in Commands(scenario) : c.op = "helm"

\* Without a manual resource, the values of the latest Helm release end up in the
\* resource, unless they are invalid, all attempts have failed or the previous ones
\* were still being written (UpdateExtraConfig,
\* createOrUpdateOperatorConfigurationResourceWithRetry).
HelmValuesArrive ==
  (AtRest /\ HelmOnly /\ ~history.lost /\ history.released # None /\ accepted(history.released)) =>
     autoResource \in Names /\ cluster[autoResource].spec = convertValuesToResource(history.released)

\* The way from the Helm values to the resource, and from the resource to the API
\* clients, the components and the SDK, ends with the latest values everywhere.
LatestConfigurationIsInForce ==
  SettingsFollowTheConfiguration /\ OnlyTheMostRecentIsAvailable /\ HelmValuesArrive

\* The status updates of the reconciler do not keep it busy, and handing over a
\* configuration to the goroutine that starts the SDK does not block it forever:
\* once users have stopped, every request ends (operatorConfigurationPredicate,
\* onParametersHaveChanged).
EventuallySettled == <>[](script = <<>>) => <>[]AtRest

=============================================================================
