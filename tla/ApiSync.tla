------------------------------ MODULE ApiSync ------------------------------
(***************************************************************************)
(* Synchronization of third-party resources (PrometheusRule,               *)
(* PersesDashboard) of one namespace to the Dash0 API: the event handlers, *)
(* the job queue (here the mailbox per resource that SyncQueue is shown to *)
(* implement), the one worker, the resync of a whole namespace after a     *)
(* configuration change, the periodic retry of failed synchronizations and *)
(* the configuration that the monitoring reconciler hands over.            *)
(*                                                                         *)
(* The watch on the resource type is assumed to be running; ThirdPartyWatch*)
(* models when it is.  The Dash0 API is a map from the origin of an object *)
(* (its Kubernetes resource and the rule in it) to the object's content.   *)
(***************************************************************************)
EXTENDS Naturals, Sequences, FiniteSets, SequencesExt

CONSTANTS
  Resources,          \* the third-party resources of the namespace
  Items,              \* the rules a resource may contain
  Contents,           \* the contents of a valid rule
  Absent,             \* the resource does not exist
  NoJob,              \* no job
  DefaultConfigs,     \* API configs of the operator configuration resource
  NamespacedConfigs,  \* API configs a monitoring resource may define
  MaxResyncs,         \* bound: resyncs of the namespace at the same time
  Scenarios           \* what happens around the operator, see ScenariosAssumption

Rules == {"none", "invalid"} \cup Contents
Configs == DefaultConfigs \cup NamespacedConfigs
Runs == 1 .. MaxResyncs

Snapshots == [rules : [Items -> Rules], disabled : BOOLEAN]
MonitoringResources ==
  [exists : BOOLEAN, exports : SUBSET NamespacedConfigs,
   tokens : SUBSET NamespacedConfigs, enabled : BOOLEAN]

JobRecords ==
  [resource : Resources, action : {"upsert", "delete"}, snapshot : Snapshots, run : 0 .. MaxResyncs]

\* The versions of its resources that occur in a scenario.
VersionsIn(s) == s.snapshots \cup {s.cluster[r] : r \in {x \in Resources : s.cluster[x] # Absent}}

ASSUME ResourcesAssumption == IsFiniteSet(Resources) /\ IsFiniteSet(Items)
ASSUME NoValueAssumption ==
  Absent \notin Snapshots /\ NoJob \notin JobRecords /\ NoJob \notin MonitoringResources
ASSUME MaxResyncsAssumption == MaxResyncs \in Nat
ASSUME ScenariosAssumption ==
  \A s \in Scenarios :
    /\ s.snapshots \subseteq Snapshots         \* the states a resource may be put in
    /\ s.cluster \in [Resources -> Snapshots \cup {Absent}]     \* at the start
    /\ s.changeable \subseteq Resources        \* resources that users change
    /\ s.mapsToMultipleApiObjects \in BOOLEAN  \* TRUE for PrometheusRule, whose rules come and go
    /\ s.mapsToMultipleApiObjects \/
         \A x, y \in VersionsIn(s), i \in Items : x.rules[i] # "none" => y.rules[i] # "none"
    /\ s.monitoring \in MonitoringResources    \* at the start
    /\ s.monitoringStates \subseteq MonitoringResources \* what it may be changed to
    /\ \A m \in s.monitoringStates \cup {s.monitoring} : m.tokens \subseteq m.exports
    /\ s.defaultConfigs \subseteq DefaultConfigs
    /\ s.failureCodes \subseteq {"retryable", "permanent"}  \* of the Dash0 API
    /\ s.statusWritesFail \in BOOLEAN  \* may all three attempts to write the status fail?
    /\ s.quietResync \in BOOLEAN       \* is the namespace at rest while a resync enqueues?
    /\ {s.maxChanges, s.maxMonitoringChanges, s.maxFailures, s.maxRestarts} \subseteq Nat

VARIABLES
  scenario,    \* a member of Scenarios; never changes
  cluster,     \* the resources as the informer's cache has them
  events,      \* informer events that no handler has seen yet, in order
  pending,     \* the job queue: at most one job per resource
  pc,          \* the worker: "idle", "check", "configs"
  job,         \* the job it processes
  action,      \* what it does: "upsert" or "delete"
  todo,        \* validated API configs it has not gone through yet
  results,     \* results per API config of this job
  monitoring,  \* the monitoring resource of the namespace
  unreconciled,\* the monitoring resource has changed since its last reconcile
  reconciling, \* monitoring resource as a reconcile has read it, or NoJob
  namespacedApiConfigs,  \* API configs the reconciler has handed over
  namespacedSyncEnabled, \* the flag it has handed over: "unset", "on", "off"
  resyncs,     \* runs of synchronizeNamespacedResources
  retry,       \* job the retry runnable is about to enqueue
  objects,     \* the Dash0 API: content per config, resource and rule
  status,      \* synchronization results in the monitoring status
  changes, monitoringChanges, failures, restarts  \* bound the environment

workerVars == <<pc, job, action, todo, results>>
configVars == <<monitoring, unreconciled, reconciling, namespacedApiConfigs,
                namespacedSyncEnabled, monitoringChanges>>
vars == <<scenario, cluster, events, pending, workerVars, configVars, resyncs, retry,
          objects, status, changes, failures, restarts>>

-----------------------------------------------------------------------------
(* Jobs, results, origins *)

\* ThirdPartyResourceSyncJob; run 0 stands for originsInNamespace = nil.
Job(r, act, snap, run) == [resource |-> r, action |-> act, snapshot |-> snap, run |-> run]

\* No synchronization result is recorded for the resource.
NoStatus == [summary |-> "none", errors |-> [c \in Configs |-> "ok"]]

OriginsInResourceOnlyValid(snap) == {i \in Items : snap.rules[i] \in Contents}

\* Origins in the resource: rules that cannot be synchronized keep theirs.
OriginsInResource(snap) == {i \in Items : snap.rules[i] # "none"}

\* What a list call on the API answers: the origins, or an error.
NotFetched == [known |-> FALSE, err |-> "ok", origins |-> [r \in Resources |-> {}]]
Fetch(c) ==
  {[known |-> TRUE, err |-> "ok",
    origins |-> [r \in Resources |-> {i \in Items : objects[c][r][i] # "none"}]]}
  \cup
  {[NotFetched EXCEPT !.err = e] : e \in IF failures < scenario.maxFailures THEN scenario.failureCodes ELSE {}}

\* existingOriginsInNamespace.get: the first answer, also an error, is kept.
IsMemoized(n, c) == resyncs[n].memo[c] # NotFetched
GetOriginsInNamespace(n, c) == IF IsMemoized(n, c) THEN {resyncs[n].memo[c]} ELSE Fetch(c)

UsesOriginsInNamespace ==
  job.run # 0 /\ (scenario.mapsToMultipleApiObjects \/ action = "delete")

FetchExistingOriginsForResource(c) ==
  IF UsesOriginsInNamespace THEN GetOriginsInNamespace(job.run, c)
  ELSE IF scenario.mapsToMultipleApiObjects THEN Fetch(c)
  ELSE {NotFetched}

\* Rules the worker sends a request for: PUT for the valid ones of an upsert,
\* DELETE for all of a delete that are not known to be gone, and DELETE for
\* objects the resource no longer contains.
MapResourceToApiCalls(snap) ==
  IF action = "upsert" THEN {i \in Items : snap.rules[i] \in Contents}
  ELSE OriginsInResource(snap)

RemoveDeleteRequestsEvenIfUnknown(requests, fetched) ==
  IF action = "delete" THEN requests \cap fetched.origins[job.resource] ELSE requests

RemoveDeleteRequestsForObjectsThatDoNotExist(requests, fetched) ==
  IF action = "delete" /\ fetched.known
  THEN requests \cap fetched.origins[job.resource] ELSE requests

CreateNoDeleteRequests(snap, fetched) == {}

CreateDeleteRequests(snap, fetched) ==
  IF scenario.mapsToMultipleApiObjects /\ fetched.known
  THEN fetched.origins[job.resource] \ OriginsInResource(snap) ELSE {}

\* Errors of one config, as isRetryableHttpStatusCode tells them apart.
Worst(errs) ==
  IF "retryable" \in errs THEN "retryable"
  ELSE IF "permanent" \in errs THEN "permanent" ELSE "ok"

HasOnlyRetryableErrors(r) == \A c \in Configs : status[r].errors[c] = "retryable"

HasRetryableError(r) == \E c \in Configs : status[r].errors[c] = "retryable"

\* writeSynchronizationResultToDash0MonitoringStatus: the recorded result.
Summary ==
  LET hasSuccess == \E c \in DOMAIN results : results[c].success
      hasError == \E c \in DOMAIN results : results[c].err # "ok"
  IN  IF hasSuccess /\ hasError THEN "partially-successful"
      ELSE IF hasSuccess \/ (action = "delete" /\ ~hasError) THEN "successful"
      ELSE "failed"

SynchronizationResult ==
  [summary |-> Summary,
   errors |-> [c \in Configs |-> IF c \in DOMAIN results THEN results[c].err ELSE "ok"]]
-----------------------------------------------------------------------------
Init ==
  /\ scenario \in Scenarios
  /\ cluster = scenario.cluster
  /\ events = SetToSeq({[resource |-> r, action |-> "upsert", snapshot |-> cluster[r]] :
                          r \in {x \in Resources : cluster[x] # Absent}})
  /\ pending = [r \in Resources |-> NoJob]
  /\ pc = "idle" /\ job = NoJob /\ action = "upsert" /\ todo = {} /\ results = <<>>
  /\ monitoring = scenario.monitoring
  /\ unreconciled = monitoring.exists
  /\ reconciling = NoJob
  /\ namespacedApiConfigs = {} /\ namespacedSyncEnabled = "unset"
  /\ resyncs = [n \in Runs |->
                  [pc |-> "free", list |-> {}, memo |-> [c \in Configs |-> NotFetched]]]
  /\ retry = NoJob
  /\ objects = [c \in Configs |-> [r \in Resources |-> [i \in Items |-> "none"]]]
  /\ status = [r \in Resources |-> NoStatus]
  /\ changes = 0 /\ monitoringChanges = 0 /\ failures = 0 /\ restarts = 0

(* The cluster: a resource is created, updated or deleted. *)

EnqueuingRuns == {n \in Runs : resyncs[n].pc = "enqueue"}

ChangeResource(r, snap) ==
  /\ r \in scenario.changeable
  /\ changes < scenario.maxChanges
  /\ snap # cluster[r]
  /\ scenario.quietResync => EnqueuingRuns = {} /\ retry = NoJob
  /\ cluster' = [cluster EXCEPT ![r] = snap]
  /\ events' = Append(events,
       IF snap = Absent
       THEN [resource |-> r, action |-> "delete", snapshot |-> cluster[r]]
       ELSE [resource |-> r, action |-> "upsert", snapshot |-> snap])
  /\ changes' = changes + 1
  /\ UNCHANGED <<pending, workerVars, configVars, resyncs, retry, objects,
                 status, failures, restarts, scenario>>

\* Create, Update, Delete: enqueue a job, replacing a pending one.
HandleEvent ==
  /\ events # <<>>
  /\ LET e == Head(events) IN
     pending' = [pending EXCEPT ![e.resource] = Job(e.resource, e.action, e.snapshot, 0)]
  /\ events' = Tail(events)
  /\ UNCHANGED <<cluster, workerVars, configVars, resyncs, retry, objects,
                 status, changes, failures, restarts, scenario>>
-----------------------------------------------------------------------------
(* The worker *)

TakeJob(r) ==
  /\ pc = "idle" /\ pending[r] # NoJob
  /\ job' = pending[r]
  /\ pending' = [pending EXCEPT ![r] = NoJob]
  /\ pc' = "check"
  /\ UNCHANGED <<cluster, events, action, todo, results, configVars, resyncs,
                 retry, objects, status, changes, failures, restarts, scenario>>

ValidatedApiConfigsIgnoringExport ==
  IF ~monitoring.exists \/ ~monitoring.enabled THEN {}
  ELSE IF namespacedApiConfigs # {} THEN namespacedApiConfigs
  ELSE scenario.defaultConfigs

\* The API configs that validatePreconditionsAndPreprocess finds valid, none if
\* the resource is not to be synchronized at all.
ValidatedApiConfigs ==
  IF ~monitoring.exists \/ ~monitoring.enabled THEN {}
  ELSE IF monitoring.exports # {} /\ namespacedApiConfigs = {} THEN {}
  ELSE IF namespacedApiConfigs # {} THEN namespacedApiConfigs
  ELSE scenario.defaultConfigs

ValidatePreconditionsWithoutDone ==
  /\ pc = "check"
  /\ pc' = IF ValidatedApiConfigs = {} THEN "idle" ELSE "configs"
  /\ action' = IF job.snapshot.disabled THEN "delete" ELSE job.action
  /\ todo' = ValidatedApiConfigs
  /\ results' = <<>>
  /\ UNCHANGED <<cluster, events, pending, job, configVars, resyncs, retry, objects,
                 status, changes, failures, restarts, scenario>>

ValidatePreconditions ==
  /\ pc = "check"
  /\ IF ValidatedApiConfigs = {}
     THEN /\ pc' = "idle" /\ job' = NoJob
          /\ UNCHANGED <<action, todo, results>>
     ELSE /\ pc' = "configs"
          /\ action' = IF job.snapshot.disabled THEN "delete" ELSE job.action
          /\ todo' = ValidatedApiConfigs
          /\ results' = <<>>
          /\ UNCHANGED job
  /\ UNCHANGED <<cluster, events, pending, configVars, resyncs, retry, objects,
                 status, changes, failures, restarts, scenario>>

\* executeAllApiCalls: every request succeeds or fails; a request that failed
\* without a definite answer may have taken effect nevertheless.
ExecuteAllApiCalls(c, requests, outcome, landed) ==
  LET r == job.resource
      content(i) == IF action = "upsert" /\ i \in MapResourceToApiCalls(job.snapshot)
                    THEN job.snapshot.rules[i] ELSE "none"
  IN  objects' = [objects EXCEPT ![c][r] =
        [i \in Items |-> IF i \in requests /\ (outcome[i] = "ok" \/ i \in landed)
                         THEN content(i) ELSE @[i]]]

SynchronizeViaApi(c) ==
  /\ pc = "configs" /\ c \in todo
  /\ \E fetched \in FetchExistingOriginsForResource(c) :
       LET isNew == ~(UsesOriginsInNamespace /\ IsMemoized(job.run, c))
           fetchFailed == fetched.err # "ok"
           skip == fetchFailed /\ job.action # "delete" /\ action # "upsert"
           requests ==
             IF skip THEN {}
             ELSE RemoveDeleteRequestsForObjectsThatDoNotExist(
                    MapResourceToApiCalls(job.snapshot), fetched)
                  \cup CreateDeleteRequests(job.snapshot, fetched)
           spent == failures + IF fetchFailed /\ isNew THEN 1 ELSE 0
       IN  /\ resyncs' = IF UsesOriginsInNamespace
                         THEN [resyncs EXCEPT ![job.run].memo[c] = fetched] ELSE resyncs
           /\ \E outcome \in [requests -> {"ok"} \cup scenario.failureCodes] :
                LET failed == {i \in requests : outcome[i] # "ok"}
                    errs == {outcome[i] : i \in requests} \cup
                            IF skip \/ action = "upsert" THEN {fetched.err} ELSE {}
                IN  /\ spent + Cardinality(failed) <= scenario.maxFailures
                    /\ failures' = spent + Cardinality(failed)
                    /\ \E landed \in SUBSET {i \in failed : outcome[i] = "retryable"} :
                         ExecuteAllApiCalls(c, requests, outcome, landed)
                    /\ results' = [x \in DOMAIN results \cup {c} |->
                         IF x = c THEN [err |-> Worst(errs), success |-> requests # failed]
                         ELSE results[x]]
  /\ todo' = todo \ {c}
  /\ UNCHANGED <<cluster, events, pending, pc, job, action, configVars, retry,
                 status, changes, restarts, scenario>>

\* The last config is done: write the result to the monitoring resource as the
\* API server has it (nothing to write to if it is gone), mark the job as done.
WriteSynchronizationResult ==
  /\ pc = "configs" /\ todo = {}
  /\ \/ /\ monitoring.exists
        /\ status' = [status EXCEPT ![job.resource] = SynchronizationResult]
     \/ /\ scenario.statusWritesFail \/ ~monitoring.exists
        /\ UNCHANGED status
  /\ pc' = "idle" /\ job' = NoJob /\ results' = <<>>
  /\ UNCHANGED <<cluster, events, pending, action, todo, configVars, resyncs,
                 retry, objects, changes, failures, restarts, scenario>>
-----------------------------------------------------------------------------
(* Resync of the namespace *)

RunsInUse ==
  {n \in Runs : resyncs[n].pc # "free"} \cup
  {pending[r].run : r \in {x \in Resources : pending[x] # NoJob}} \cup
  (IF job = NoJob THEN {} ELSE {job.run})

\* synchronizeNamespacedResources starts a goroutine.
StartResync ==
  \E n \in Runs \ RunsInUse :
    /\ \A m \in Runs \ RunsInUse : n <= m
    /\ resyncs' = [resyncs EXCEPT ![n] =
         [pc |-> "list", list |-> {}, memo |-> [c \in Configs |-> NotFetched]]]

\* The goroutine lists the resources of the namespace ...
ListResources(n) ==
  /\ resyncs[n].pc = "list"
  /\ scenario.quietResync => events = <<>>
  /\ LET list == {Job(r, "upsert", cluster[r], n) : r \in {x \in Resources : cluster[x] # Absent}} IN
     resyncs' = [resyncs EXCEPT ![n].pc = IF list = {} THEN "free" ELSE "enqueue",
                                ![n].list = list]
  /\ UNCHANGED <<cluster, events, pending, workerVars, configVars, retry,
                 objects, status, changes, failures, restarts, scenario>>

\* ... and enqueues them one by one, with a pause after each.
ResyncViaApi(n) ==
  /\ resyncs[n].pc = "enqueue"
  /\ \E j \in resyncs[n].list :
       /\ pending' = [pending EXCEPT ![j.resource] = j]
       /\ resyncs' = [resyncs EXCEPT ![n].list = @ \ {j},
                        ![n].pc = IF resyncs[n].list = {j} THEN "free" ELSE @]
  /\ UNCHANGED <<cluster, events, workerVars, configVars, retry, objects,
                 status, changes, failures, restarts, scenario>>
-----------------------------------------------------------------------------
(* The monitoring resource and its reconciler *)

\* Users wait for the last change to be reconciled before they make the next.
ChangeMonitoring(m) ==
  /\ monitoringChanges < scenario.maxMonitoringChanges
  /\ m.exists /\ m # monitoring
  /\ ~unreconciled /\ reconciling = NoJob
  /\ monitoring' = m
  /\ unreconciled' = TRUE
  /\ monitoringChanges' = monitoringChanges + 1
  /\ UNCHANGED <<cluster, events, pending, workerVars, reconciling,
                 namespacedApiConfigs, namespacedSyncEnabled, resyncs, retry,
                 objects, status, changes, failures, restarts, scenario>>

\* The resource is deleted; runCleanupActions forgets the flag (and keeps the
\* API configs) before the resource and its status disappear.
DeleteMonitoring ==
  /\ monitoringChanges < scenario.maxMonitoringChanges
  /\ \E m \in scenario.monitoringStates : ~m.exists
  /\ monitoring.exists /\ reconciling = NoJob
  /\ monitoring' = [exists |-> FALSE, exports |-> {}, tokens |-> {}, enabled |-> FALSE]
  /\ unreconciled' = FALSE
  /\ namespacedSyncEnabled' = "unset"
  /\ status' = [r \in Resources |-> NoStatus]
  /\ monitoringChanges' = monitoringChanges + 1
  /\ UNCHANGED <<cluster, events, pending, workerVars, reconciling,
                 namespacedApiConfigs, resyncs, retry, objects, changes,
                 failures, restarts, scenario>>

\* applyApiAccessSettings: hand over the API configs whose token is known, or
\* remove them; resync if that is a change.
ApplyApiAccessSettings ==
  /\ unreconciled /\ reconciling = NoJob
  /\ namespacedApiConfigs' = monitoring.tokens
  /\ IF monitoring.tokens # namespacedApiConfigs THEN StartResync ELSE UNCHANGED resyncs
  /\ reconciling' = monitoring
  /\ unreconciled' = FALSE
  /\ UNCHANGED <<cluster, events, pending, workerVars, monitoring,
                 namespacedSyncEnabled, monitoringChanges, retry, objects,
                 status, changes, failures, restarts, scenario>>

SetSynchronizationEnabled ==
  /\ reconciling # NoJob
  /\ namespacedSyncEnabled' = IF reconciling.enabled THEN "on" ELSE "off"
  /\ IF namespacedSyncEnabled = "off" /\ reconciling.enabled
     THEN StartResync ELSE UNCHANGED resyncs
  /\ reconciling' = NoJob
  /\ UNCHANGED <<cluster, events, pending, workerVars, monitoring, unreconciled,
                 namespacedApiConfigs, monitoringChanges, retry, objects, status,
                 changes, failures, restarts, scenario>>
-----------------------------------------------------------------------------
(* The retry runnable and a restart of the operator *)

\* retryThirdPartyResource reads a resource with a retryable error ...
RetryFailedSynchronization(r) ==
  /\ retry = NoJob /\ monitoring.exists
  /\ HasRetryableError(r)
  /\ cluster[r] # Absent
  /\ retry' = Job(r, "upsert", cluster[r], 0)
  /\ UNCHANGED <<cluster, events, pending, workerVars, configVars, resyncs,
                 objects, status, changes, failures, restarts, scenario>>

\* ... and enqueues it.
EnqueueRetry ==
  /\ retry # NoJob
  /\ pending' = [pending EXCEPT ![retry.resource] = retry]
  /\ retry' = NoJob
  /\ UNCHANGED <<cluster, events, workerVars, configVars, resyncs, objects,
                 status, changes, failures, restarts, scenario>>

\* Everything in memory is lost; the new process gets a Create event for every
\* resource and reconciles the monitoring resource.
Restart ==
  /\ restarts < scenario.maxRestarts
  /\ restarts' = restarts + 1
  /\ events' = SetToSeq({[resource |-> r, action |-> "upsert", snapshot |-> cluster[r]] :
                           r \in {x \in Resources : cluster[x] # Absent}})
  /\ pending' = [r \in Resources |-> NoJob]
  /\ pc' = "idle" /\ job' = NoJob /\ action' = "upsert" /\ todo' = {} /\ results' = <<>>
  /\ unreconciled' = monitoring.exists
  /\ reconciling' = NoJob
  /\ namespacedApiConfigs' = {} /\ namespacedSyncEnabled' = "unset"
  /\ resyncs' = [n \in Runs |->
                   [pc |-> "free", list |-> {}, memo |-> [c \in Configs |-> NotFetched]]]
  /\ retry' = NoJob
  /\ UNCHANGED <<scenario, cluster, monitoring, objects, status, changes,
                 monitoringChanges, failures>>

Worker ==
  \/ \E r \in Resources : TakeJob(r)
  \/ ValidatePreconditions
  \/ \E c \in Configs : SynchronizeViaApi(c)
  \/ WriteSynchronizationResult

Reconciler == ApplyApiAccessSettings \/ SetSynchronizationEnabled

Environment ==
  \/ \E r \in Resources, snap \in scenario.snapshots \cup {Absent} : ChangeResource(r, snap)
  \/ \E m \in scenario.monitoringStates : ChangeMonitoring(m)
  \/ DeleteMonitoring
  \/ Restart

Next ==
  \/ Environment \/ HandleEvent \/ Worker \/ Reconciler
  \/ \E n \in Runs : ListResources(n) \/ ResyncViaApi(n)
  \/ \E r \in Resources : RetryFailedSynchronization(r)
  \/ EnqueueRetry

Spec == Init /\ [][Next]_vars

\* Handlers, worker, goroutines and reconciler keep running, the ticker of the
\* retry runnable keeps firing; the environment is under no obligation.
Fairness ==
  /\ WF_vars(HandleEvent) /\ WF_vars(Worker) /\ WF_vars(Reconciler)
  /\ WF_vars(EnqueueRetry)
  /\ \A n \in Runs : WF_vars(ListResources(n)) /\ WF_vars(ResyncViaApi(n))
  /\ \A r \in Resources : SF_vars(RetryFailedSynchronization(r))

FairSpec == Spec /\ Fairness
-----------------------------------------------------------------------------
Jobs == {NoJob} \cup JobRecords
Errors == {"ok", "retryable", "permanent"}

(* The state has its type; in particular a job in the queue is filed under its own resource. *)
TypeOK ==
  /\ cluster \in [Resources -> Snapshots \cup {Absent}]
  /\ \A k \in 1 .. Len(events) :
       events[k] \in [resource : Resources, action : {"upsert", "delete"}, snapshot : Snapshots]
  /\ \A r \in Resources : pending[r] \in Jobs /\ (pending[r] # NoJob => pending[r].resource = r)
  /\ pc \in {"idle", "check", "configs"}
  /\ job \in Jobs /\ (job = NoJob <=> pc = "idle")
  /\ action \in {"upsert", "delete"} /\ todo \subseteq Configs
  /\ DOMAIN results \subseteq Configs /\ DOMAIN results \cap todo = {}
  /\ namespacedApiConfigs \subseteq NamespacedConfigs
  /\ namespacedSyncEnabled \in {"unset", "on", "off"}
  /\ objects \in [Configs -> [Resources -> [Items -> {"none"} \cup Contents]]]
  /\ status \in [Resources -> [summary : {"none", "successful", "partially-successful", "failed"},
                               errors : [Configs -> Errors]]]
  /\ failures \in 0 .. scenario.maxFailures

\* Nothing is under way: no event, job, resync, retry or reconcile.
Settled ==
  /\ events = <<>> /\ pc = "idle" /\ \A r \in Resources : pending[r] = NoJob
  /\ \A n \in Runs : resyncs[n].pc = "free"
  /\ retry = NoJob /\ ~unreconciled /\ reconciling = NoJob

\* The API objects of r in c are what the resource asks for.  A rule that is
\* invalid keeps the object of its last valid state, if it has one.
IsRemoved(r, c) == \A i \in Items : objects[c][r][i] = "none"
InSync(r, c) ==
  IF cluster[r] = Absent THEN IsRemoved(r, c)
  ELSE IF cluster[r].disabled THEN IsRemoved(r, c)
  ELSE \A i \in Items :
         cluster[r].rules[i] # "invalid" => objects[c][r][i] = cluster[r].rules[i]

(* When everything has settled, every existing resource is in sync with every API config *)
(* in force, or an error is on record for that config (which is what makes the retry     *)
(* runnable and the user look at it again).                                              *)
InSyncOrErrorRecorded ==
  Settled => \A r \in Resources, c \in ValidatedApiConfigs :
    cluster[r] # Absent => InSync(r, c) \/ status[r].errors[c] # "ok"

(* As long as the namespace's configuration stays as it is and the operator keeps running,  *)
(* the objects of a deleted resource are removed from the API, unless an error is on record *)
(* (docs, Managing Dash0 Check Rules).  For rules this is only claimed without API failures:*)
(* a list call that fails during a delete leaves no trace in the status.                    *)
DeletedResourceIsRemoved ==
  /\ Settled
  /\ monitoringChanges = 0 /\ restarts = 0
  /\ scenario.mapsToMultipleApiObjects => failures = 0
  => \A r \in Resources, c \in ValidatedApiConfigs :
       cluster[r] = Absent => IsRemoved(r, c) \/ status[r].errors[c] # "ok"

\* Resources rest while a resync or a retry enqueues what it has read; an error that occurs is
\* recorded; there is a monitoring resource, which is not created again after its deletion;
\* and if it defines exports, the token of at least one of them is known.
Undisturbed ==
  /\ scenario.quietResync
  /\ scenario.statusWritesFail => failures = 0
  /\ scenario.monitoring.exists
  /\ \A m, k \in scenario.monitoringStates : m.exists = k.exists
  /\ \A m \in scenario.monitoringStates \cup {scenario.monitoring} : m.exports # {} => m.tokens # {}

(* At rest, the Dash0 API has what the cluster has, or the status says that it has not: for    *)
(* resources that exist as well as for deleted ones (synchronizeViaApiAndUpdateStatus).         *)
SettledIsInSync ==
  TypeOK /\ (Undisturbed => InSyncOrErrorRecorded /\ DeletedResourceIsRemoved)

\* Objects are removed by the job of their resource, for rules it does not contain.
KeepsObjects ==
  \A c \in Configs, r \in Resources, i \in Items :
    objects[c][r][i] # "none" /\ objects'[c][r][i] = "none" =>
      /\ job # NoJob /\ job.resource = r
      /\ action = "delete" \/ job.snapshot.rules[i] = "none"

(* A rule that is still in the resource never loses its API object, even while it is invalid:  *)
(* objects are only removed for a resource that is deleted or disabled, or for a rule that the  *)
(* job's version of the resource does not contain.                                               *)
InvalidRuleKeepsItsObject == [][KeepsObjects]_vars

(* A namespace whose monitoring resource defines its own export is never synchronized to the   *)
(* default backend, also not right after a restart, when the operator configuration resource   *)
(* has been reconciled and the monitoring resource has not.                                     *)
OwnExportKeepsOutOfDefaultBackend ==
  monitoring.exports # {} /\ monitoringChanges = 0 =>
    \A c \in DefaultConfigs \ NamespacedConfigs, r \in Resources : IsRemoved(r, c)

(* Once cluster, configuration and API stop misbehaving, every existing resource of a          *)
(* namespace with a usable configuration ends up in sync with every API config, or with an     *)
(* error on record that is not worth a retry: all other failures are retried until they succeed.*)
EventuallyInSync ==
  <>[](\A r \in Resources, c \in ValidatedApiConfigs :
         cluster[r] # Absent => InSync(r, c) \/ status[r].errors[c] = "permanent")

(* What the docs promise of every namespace with a monitoring resource: its resources are      *)
(* synchronized (no API failures in this run).                                                  *)
NamespaceWithMonitoringIsSynchronized ==
  Settled => \A r \in Resources, c \in ValidatedApiConfigs :
    cluster[r] # Absent => InSync(r, c)

=============================================================================
