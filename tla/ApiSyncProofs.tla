---------------------------- MODULE ApiSyncProofs ----------------------------
(***************************************************************************)
(* Proofs about ApiSync: what may reach which backend, when an API object  *)
(* may be removed, and that the API is in sync at rest, for any number of  *)
(* resources, rules, API configs, resyncs, failures and restarts.          *)
(***************************************************************************)
EXTENDS ApiSync, FiniteSetTheorems, TLAPS

\* A namespace with an export of its own: the worker has picked no default config, the
\* reconciler has handed none over, and nothing has got into the default backend.
NoDefaultConfigInUse ==
  /\ scenario \in Scenarios
  /\ monitoringChanges \in Nat
  /\ DOMAIN objects = Configs
  /\ monitoring.tokens \subseteq NamespacedConfigs
  /\ namespacedApiConfigs \subseteq NamespacedConfigs
  /\ monitoring.exports # {} /\ monitoringChanges = 0 =>
       /\ todo \subseteq NamespacedConfigs
       /\ \A c \in DefaultConfigs \ NamespacedConfigs, r \in Resources : IsRemoved(r, c)

\* The configs validatePreconditionsAndPreprocess settles on are those of the namespace.
LEMMA OwnConfigsOnly ==
  ASSUME NoDefaultConfigInUse, monitoring.exports # {}
  PROVE  ValidatedApiConfigs \subseteq NamespacedConfigs
  BY DEF NoDefaultConfigInUse, ValidatedApiConfigs

\* Requests for one API config leave the objects of all others alone.
LEMMA OtherConfigsAreLeftAlone ==
  ASSUME NEW c, SynchronizeViaApi(c), DOMAIN objects = Configs
  PROVE  /\ DOMAIN objects' = Configs
         /\ \A d \in Configs : d # c => objects'[d] = objects[d]
  <1>1. PICK requests, outcome, landed : ExecuteAllApiCalls(c, requests, outcome, landed)
    BY DEF SynchronizeViaApi
  <1>2. \E new : objects' = [objects EXCEPT ![c] = new]
    BY <1>1 DEF ExecuteAllApiCalls
  <1> QED
    BY <1>2

\* As long as the monitoring resource of a namespace defines an export, its rules and
\* dashboards are kept out of the default backend, also right after a restart, when the
\* reconciler has not yet handed over the export (validatePreconditionsAndPreprocess).
THEOREM OwnExportIsRespected == Spec => []OwnExportKeepsOutOfDefaultBackend
<1>1. Init => NoDefaultConfigInUse
  <2> SUFFICES ASSUME Init PROVE NoDefaultConfigInUse
    OBVIOUS
  <2>1. monitoring \in MonitoringResources
    BY ScenariosAssumption DEF Init
  <2>2. \A c \in Configs, r \in Resources : IsRemoved(r, c)
    BY DEF Init, IsRemoved
  <2> QED
    BY <2>1, <2>2 DEF Init, NoDefaultConfigInUse, MonitoringResources, Configs
<1>2. NoDefaultConfigInUse /\ [Next]_vars => NoDefaultConfigInUse'
  <2> SUFFICES ASSUME NoDefaultConfigInUse, [Next]_vars
               PROVE  NoDefaultConfigInUse'
    OBVIOUS
  <2> USE DEF NoDefaultConfigInUse, IsRemoved
  <2>1. CASE \E c \in Configs : SynchronizeViaApi(c)
    <3> PICK c \in Configs : SynchronizeViaApi(c)
      BY <2>1
    <3>1. c \in todo /\ todo' = todo \ {c} /\ UNCHANGED <<scenario, configVars>>
      BY DEF SynchronizeViaApi
    <3>2. \A d \in Configs : d # c => objects'[d] = objects[d]
      BY OtherConfigsAreLeftAlone
    <3>3. DOMAIN objects' = Configs
      BY OtherConfigsAreLeftAlone
    <3> QED
      BY <3>1, <3>2, <3>3 DEF configVars, Configs
  <2>2. CASE ValidatePreconditions
    BY <2>2, OwnConfigsOnly DEF ValidatePreconditions, configVars
  <2>3. CASE WriteSynchronizationResult \/ \E r \in Resources : TakeJob(r)
    BY <2>3 DEF WriteSynchronizationResult, TakeJob, configVars
  <2>4. CASE ApplyApiAccessSettings
    BY <2>4 DEF ApplyApiAccessSettings, workerVars
  <2>5. CASE SetSynchronizationEnabled
    BY <2>5 DEF SetSynchronizationEnabled, workerVars
  <2>6. CASE \E m \in scenario.monitoringStates : ChangeMonitoring(m)
    <3> PICK m \in scenario.monitoringStates : ChangeMonitoring(m)
      BY <2>6
    <3>1. m \in MonitoringResources
      BY ScenariosAssumption
    <3>2. monitoringChanges' # 0 /\ monitoringChanges' \in Nat
      BY DEF ChangeMonitoring
    <3> QED
      BY <3>1, <3>2 DEF ChangeMonitoring, workerVars, MonitoringResources
  <2>7. CASE DeleteMonitoring
    <3>1. monitoringChanges' # 0 /\ monitoringChanges' \in Nat
      BY <2>7 DEF DeleteMonitoring
    <3> QED
      BY <2>7, <3>1 DEF DeleteMonitoring, workerVars
  <2>8. CASE Restart
    BY <2>8 DEF Restart
  <2>9. CASE HandleEvent \/ EnqueueRetry \/ \E n \in Runs : ListResources(n) \/ ResyncViaApi(n)
    BY <2>9 DEF HandleEvent, EnqueueRetry, ListResources, ResyncViaApi, workerVars, configVars
  <2>10. CASE \/ \E r \in Resources : RetryFailedSynchronization(r)
              \/ \E r \in Resources, snap \in scenario.snapshots \cup {Absent} : ChangeResource(r, snap)
    <3>1. UNCHANGED <<scenario, objects, workerVars, configVars>>
      BY <2>10 DEF RetryFailedSynchronization, ChangeResource
    <3> QED
      BY <3>1 DEF workerVars, configVars
  <2>11. CASE UNCHANGED vars
    BY <2>11 DEF vars, workerVars, configVars
  <2> QED
    BY <2>1, <2>2, <2>3, <2>4, <2>5, <2>6, <2>7, <2>8, <2>9, <2>10, <2>11
       DEF Next, Environment, Worker, Reconciler
<1>3. NoDefaultConfigInUse => OwnExportKeepsOutOfDefaultBackend
  BY DEF NoDefaultConfigInUse, OwnExportKeepsOutOfDefaultBackend
<1> QED
  BY <1>1, <1>2, <1>3, PTL DEF Spec
-----------------------------------------------------------------------------
(* The inductive invariant for SettledIsInSync.                            *)

Actions == {"upsert", "delete"}

Fetched == [known : BOOLEAN, err : Errors, origins : [Resources -> SUBSET Items]]
Results == [err : Errors, success : BOOLEAN]

\* Jobs about versions that occur, and the jobs that resync n enqueues.
JobsAbout(versions) ==
  [resource : Resources, action : Actions, snapshot : versions, run : 0 .. MaxResyncs]
ResyncJobs(versions, n) ==
  {j \in JobsAbout(versions) : j.action = "upsert" /\ j.run = n}

EventsAbout(versions) == [resource : Resources, action : Actions, snapshot : versions]

\* Types of what is in the cluster and on its way to the worker.
QueueTypes ==
  LET versions == VersionsIn(scenario) IN
  /\ scenario \in Scenarios
  /\ cluster \in [Resources -> versions \cup {Absent}]
  /\ events \in Seq(EventsAbout(versions))
  /\ pending \in [Resources -> JobsAbout(versions) \cup {NoJob}]
  /\ \A r \in Resources : pending[r] # NoJob => pending[r].resource = r
  /\ retry \in {j \in JobsAbout(versions) : j.run = 0 /\ j.action = "upsert"} \cup {NoJob}
  /\ job \in JobsAbout(versions) \cup {NoJob}
  /\ \A r \in Resources : pending[r] # NoJob /\ pending[r].run # 0 => pending[r].action = "upsert"
  /\ job # NoJob /\ job.run # 0 => job.action = "upsert"

WorkerTypes ==
  /\ pc \in {"idle", "check", "configs"}
  /\ job = NoJob <=> pc = "idle"
  /\ action \in Actions
  /\ pc = "configs" => action = IF job.snapshot.disabled THEN "delete" ELSE job.action
  /\ todo \subseteq Configs
  /\ DOMAIN results \subseteq Configs /\ DOMAIN results \cap todo = {}
  /\ \A c \in DOMAIN results : results[c] \in Results
  /\ scenario.maxFailures \in Nat /\ failures \in 0 .. scenario.maxFailures
  /\ objects \in [Configs -> [Resources -> [Items -> {"none"} \cup Contents]]]
  /\ status \in [Resources -> [summary : {"none", "successful", "partially-successful", "failed"},
                               errors : [Configs -> Errors]]]

\* A resync is free, about to list the resources or enqueuing them; its jobs upsert.
ResyncTypes ==
  /\ DOMAIN resyncs = Runs
  /\ \A n \in Runs :
       /\ DOMAIN resyncs[n] = {"pc", "list", "memo"}
       /\ resyncs[n].pc \in {"free", "list", "enqueue"}
       /\ resyncs[n].list \subseteq ResyncJobs(VersionsIn(scenario), n)
       /\ resyncs[n].memo \in [Configs -> Fetched]

\* What the reconciler has handed over, and what the monitoring resource asks for.
ConfigInv ==
  /\ monitoring \in MonitoringResources /\ monitoringChanges \in Nat /\ restarts \in Nat
  /\ unreconciled \in BOOLEAN
  /\ \/ monitoring \in scenario.monitoringStates \cup {scenario.monitoring}
     \/ ~monitoring.exists /\ monitoring.exports = {} /\ monitoring.tokens = {}
  /\ ~monitoring.exists => ~scenario.monitoring.exists \/ \E m \in scenario.monitoringStates : ~m.exists
  /\ namespacedApiConfigs \subseteq NamespacedConfigs
  /\ namespacedSyncEnabled \in {"unset", "on", "off"}
  /\ reconciling # NoJob => reconciling = monitoring /\ ~unreconciled
  /\ monitoring.exists /\ ~unreconciled => namespacedApiConfigs = monitoring.tokens
  /\ monitoring.exists /\ ~unreconciled /\ reconciling = NoJob =>
       namespacedSyncEnabled = IF monitoring.enabled THEN "on" ELSE "off"

TypeInv == QueueTypes /\ WorkerTypes /\ ResyncTypes /\ ConfigInv

\* A job or an event is about the resource as it is now.
IsCurrent(j) ==
  IF cluster[j.resource] = Absent THEN j.action = "delete"
  ELSE j.action = "upsert" /\ j.snapshot = cluster[j.resource]

HasEvent(r) == \E k \in 1 .. Len(events) : events[k].resource = r
IsLastEvent(k) == \A l \in 1 .. Len(events) : l > k => events[l].resource # events[k].resource

\* What comes last for a resource is current: the last event, else the pending job,
\* else the job the worker is busy with.
CurrentInv ==
  /\ \A k \in 1 .. Len(events) : IsLastEvent(k) => IsCurrent(events[k])
  /\ \A r \in Resources : pending[r] # NoJob /\ ~HasEvent(r) => IsCurrent(pending[r])
  /\ job # NoJob /\ pending[job.resource] = NoJob /\ ~HasEvent(job.resource) => IsCurrent(job)
  /\ retry # NoJob => IsCurrent(retry)
  /\ \A n \in Runs : resyncs[n].pc = "enqueue" =>
       events = <<>> /\ \A j \in resyncs[n].list : IsCurrent(j)

HasPending(r, n) == pending[r] # NoJob /\ pending[r].run = n
IsWorkingOn(r, n) == job # NoJob /\ job.resource = r /\ job.run = n

\* A resync has one job per resource: to be enqueued, pending or in progress.
RunInv ==
  \A n \in Runs :
    /\ resyncs[n].pc = "list" => \A r \in Resources : ~HasPending(r, n) /\ ~IsWorkingOn(r, n)
    /\ resyncs[n].pc = "list" => \A c \in Configs : ~resyncs[n].memo[c].known
    /\ resyncs[n].pc = "enqueue" =>
         \A j \in resyncs[n].list :
           /\ ~HasPending(j.resource, n) /\ ~IsWorkingOn(j.resource, n)
           /\ \A k \in resyncs[n].list : k.resource = j.resource => k = j
    /\ \A r \in Resources : ~(HasPending(r, n) /\ IsWorkingOn(r, n))

\* j is a job of resync n that the worker has not taken yet.
IsWaiting(j, n) ==
  \/ resyncs[n].pc = "enqueue" /\ j \in resyncs[n].list
  \/ HasPending(j.resource, n) /\ pending[j.resource] = j

\* Objects of r in c that the memoized answer does not know are in the version at hand.
Covers(memo, c, r, snap) ==
  \A i \in Items : objects[c][r][i] # "none" =>
    i \in memo.origins[r] \/ (~snap.disabled /\ snap.rules[i] # "none")

\* The memoized answer is good enough for the jobs that are left of the resync: since the
\* call nobody has handled another version of their resources.
MemoInv ==
  /\ \A n \in Runs, c \in Configs : ~resyncs[n].memo[c].known =>
       resyncs[n].memo[c].err # "ok" \/ resyncs[n].memo[c] = NotFetched
  /\ \A n \in Runs, c \in Configs : resyncs[n].memo[c].known =>
       /\ resyncs[n].memo[c].err = "ok"
       /\ \A j \in JobsAbout(VersionsIn(scenario)) : IsWaiting(j, n) =>
            /\ Covers(resyncs[n].memo[c], c, j.resource, j.snapshot)
            /\ job # NoJob /\ job.resource = j.resource => job.snapshot = j.snapshot /\ job.action = "upsert"
       /\ job # NoJob /\ job.run = n /\ (pc = "check" \/ c \in todo) =>
            Covers(resyncs[n].memo[c], c, job.resource, job.snapshot)

\* A dashboard has no other objects than its one.
DashboardInv ==
  scenario.mapsToMultipleApiObjects \/
    \A c \in Configs, r \in Resources, i \in Items, x \in VersionsIn(scenario) :
      objects[c][r][i] # "none" => x.rules[i] # "none"

\* The configs in force once the monitoring resource has been reconciled.
Target ==
  IF ~monitoring.exists \/ ~monitoring.enabled THEN {}
  ELSE IF monitoring.tokens # {} THEN monitoring.tokens ELSE scenario.defaultConfigs

\* A reconcile is about to resync the namespace.
ConfigDue ==
  \/ unreconciled /\ monitoring.tokens # namespacedApiConfigs
  \/ (unreconciled \/ reconciling # NoJob) /\ monitoring.enabled /\ namespacedSyncEnabled = "off"

\* A resync is about to come to r.
ResyncDue(r) ==
  \/ ConfigDue
  \/ \E n \in Runs : \/ resyncs[n].pc = "list"
                     \/ resyncs[n].pc = "enqueue" /\ \E j \in resyncs[n].list : j.resource = r

IsBusyWith(r) == job # NoJob /\ job.resource = r

\* The worker has the result for c or is going to.
IsHandled(r, c) ==
  IsBusyWith(r) /\ \/ pc = "check" \/ c \in todo
                   \/ c \in DOMAIN results /\ (InSync(r, c) \/ results[c].err # "ok")

ErrorIsKnown(r, c) == ~IsBusyWith(r) /\ (InSync(r, c) \/ status[r].errors[c] # "ok")

\* The deletion of resources is only made sure of under these circumstances.
DeletionsCount ==
  monitoringChanges = 0 /\ restarts = 0 /\ (scenario.mapsToMultipleApiObjects => failures = 0)

\* r will be looked at again, is in sync with c or known to have failed.
IsAccountedFor(r, c) ==
  \/ HasEvent(r) \/ pending[r] # NoJob \/ IsHandled(r, c) \/ ErrorIsKnown(r, c)
  \/ IF cluster[r] = Absent THEN ~DeletionsCount ELSE ResyncDue(r)

\* No resource is forgotten.
DueInv == \A r \in Resources, c \in Target : IsAccountedFor(r, c)

\* Before the first reconcile of a namespace with an export nothing reaches the API,
\* from then on each job is about the configs in force.
FirstReconcileInv ==
  monitoringChanges = 0 /\ restarts = 0 =>
    /\ unreconciled => namespacedApiConfigs = {}
    /\ unreconciled /\ monitoring.exports # {} =>
         pc # "configs" /\ \A c \in Configs, r \in Resources : IsRemoved(r, c)
    /\ pc = "configs" => Target \subseteq todo \cup DOMAIN results

\* Without failures there is no error in the results.
ErrorsInv == failures = 0 => /\ \A c \in DOMAIN results : results[c].err = "ok"
                             /\ \A n \in Runs, c \in Configs : resyncs[n].memo[c].err = "ok"

SyncInv ==
  /\ TypeInv
  /\ RunInv /\ DashboardInv /\ ErrorsInv
  /\ Undisturbed => CurrentInv /\ MemoInv /\ FirstReconcileInv /\ DueInv
-----------------------------------------------------------------------------
(* What the scenarios are made of.                                         *)

LEMMA VersionsAreSnapshots ==
  ASSUME scenario \in Scenarios
  PROVE  VersionsIn(scenario) \subseteq Snapshots /\ Absent \notin VersionsIn(scenario)
  BY ScenariosAssumption, NoValueAssumption DEF VersionsIn

LEMMA JobsAreRecords ==
  ASSUME scenario \in Scenarios, NEW j \in JobsAbout(VersionsIn(scenario))
  PROVE  j \in JobRecords /\ j # NoJob
  <1>1. j \in JobRecords
    BY VersionsAreSnapshots DEF JobsAbout, JobRecords, Actions
  <1> QED
    BY <1>1, NoValueAssumption

\* The informer announces all existing resources, as they are.
LEMMA EveryResourceIsAnnounced ==
  ASSUME NEW V, cluster \in [Resources -> V \cup {Absent}]
  PROVE  LET s == SetToSeq({[resource |-> r, action |-> "upsert", snapshot |-> cluster[r]] :
                              r \in {x \in Resources : cluster[x] # Absent}})
         IN  /\ s \in Seq(EventsAbout(V))
             /\ \A r \in Resources : cluster[r] # Absent => \E k \in 1 .. Len(s) : s[k].resource = r
             /\ \A k \in 1 .. Len(s) : /\ s[k].action = "upsert" /\ cluster[s[k].resource] # Absent
                                       /\ s[k].snapshot = cluster[s[k].resource]
  <1> DEFINE present == {x \in Resources : cluster[x] # Absent}
             announce == [r \in present |-> [resource |-> r, action |-> "upsert", snapshot |-> cluster[r]]]
             E == {[resource |-> r, action |-> "upsert", snapshot |-> cluster[r]] : r \in present}
             s == SetToSeq(E)
  <1>1. IsFiniteSet(present)
    BY ResourcesAssumption, FS_Subset
  <1>2. announce \in Surjection(present, E)
    BY DEF Surjection
  <1>3. IsFiniteSet(E)
    BY <1>1, <1>2, FS_Surjection
  <1>4. Cardinality(E) \in Nat /\ \E f \in [1 .. Cardinality(E) -> E] : IsInjective(f)
    BY <1>3, FS_CardinalityType DEF ExistsBijection, Bijection, Injection
  <1>5. s \in [1 .. Cardinality(E) -> E] /\ IsInjective(s)
    BY <1>4 DEF SetToSeq
  <1>6. E \subseteq EventsAbout(V)
    BY DEF EventsAbout, Actions
  <1>7. \A n \in Nat : \A f \in [1 .. n -> E] : f \in Seq(EventsAbout(V)) /\ Len(f) = n
    <2> HIDE DEF E
    <2> QED
      BY <1>6
  <1>8. s \in Seq(EventsAbout(V)) /\ Len(s) = Cardinality(E)
    <2> HIDE DEF E, s
    <2> QED
      BY <1>4, <1>5, <1>7
  <1>9. \A e \in E : \E k \in 1 .. Len(s) : s[k] = e
    <2> HIDE DEF E, s
    <2>1. s \in Injection(1 .. Cardinality(E), E)
      BY <1>5 DEF Injection, IsInjective
    <2>2. IsFiniteSet(1 .. Cardinality(E)) /\ Cardinality(1 .. Cardinality(E)) = Cardinality(E)
      BY <1>4, FS_Interval
    <2>3. s \in Surjection(1 .. Cardinality(E), E)
      BY <1>3, <2>1, <2>2, FS_Injection
    <2> QED
      BY <1>8, <2>3 DEF Surjection
  <1>10. \A k \in 1 .. Len(s) : s[k] \in E
    <2> HIDE DEF E, s
    <2> QED
      BY <1>5, <1>8
  <1>11. \A r \in present : [resource |-> r, action |-> "upsert", snapshot |-> cluster[r]] \in E
    OBVIOUS
  <1>12. \A e \in E : /\ e.action = "upsert" /\ cluster[e.resource] # Absent
                      /\ e.snapshot = cluster[e.resource]
    OBVIOUS
  <1>13. \A r \in Resources : cluster[r] # Absent => \E k \in 1 .. Len(s) : s[k].resource = r
    <2> HIDE DEF E, s
    <2> TAKE r \in Resources
    <2> HAVE cluster[r] # Absent
    <2>1. PICK k \in 1 .. Len(s) : s[k] = [resource |-> r, action |-> "upsert", snapshot |-> cluster[r]]
      BY <1>9, <1>11
    <2> QED
      BY <2>1
  <1>14. \A k \in 1 .. Len(s) : /\ s[k].action = "upsert" /\ cluster[s[k].resource] # Absent
                                /\ s[k].snapshot = cluster[s[k].resource]
    <2> HIDE DEF E, s
    <2> QED
      BY <1>10, <1>12
  <1> QED
    BY <1>8, <1>13, <1>14
-----------------------------------------------------------------------------
(* Requests to the API.                                                    *)

IsSkipped(fetched) == fetched.err # "ok" /\ job.action # "delete" /\ action # "upsert"

RequestsFor(fetched) ==
  IF IsSkipped(fetched) THEN {}
  ELSE RemoveDeleteRequestsForObjectsThatDoNotExist(MapResourceToApiCalls(job.snapshot), fetched)
       \cup CreateDeleteRequests(job.snapshot, fetched)

ErrorsOf(requests, outcome, fetched) ==
  {outcome[i] : i \in requests} \cup IF IsSkipped(fetched) \/ action = "upsert" THEN {fetched.err} ELSE {}

Failed(requests, outcome) == {i \in requests : outcome[i] # "ok"}

\* SynchronizeViaApi(c) with its choices: the answer to the list call, the outcome of
\* every request, and the failed requests that have taken effect.
ApiStep(c, fetched, outcome, landed) ==
  LET requests == RequestsFor(fetched)
      isNew == ~(UsesOriginsInNamespace /\ IsMemoized(job.run, c))
      spent == failures + IF fetched.err # "ok" /\ isNew THEN 1 ELSE 0
  IN  /\ fetched \in FetchExistingOriginsForResource(c)
      /\ resyncs' = IF UsesOriginsInNamespace
                    THEN [resyncs EXCEPT ![job.run].memo[c] = fetched] ELSE resyncs
      /\ outcome \in [requests -> {"ok"} \cup scenario.failureCodes]
      /\ spent + Cardinality(Failed(requests, outcome)) <= scenario.maxFailures
      /\ failures' = spent + Cardinality(Failed(requests, outcome))
      /\ landed \subseteq Failed(requests, outcome)
      /\ ExecuteAllApiCalls(c, requests, outcome, landed)
      /\ results' = [x \in DOMAIN results \cup {c} |->
           IF x = c THEN [err |-> Worst(ErrorsOf(requests, outcome, fetched)),
                          success |-> requests # Failed(requests, outcome)]
           ELSE results[x]]

LEMMA ApiStepExists ==
  ASSUME NEW c, SynchronizeViaApi(c)
  PROVE  \E fetched, outcome, landed : ApiStep(c, fetched, outcome, landed)
  <1>1. PICK fetched \in FetchExistingOriginsForResource(c) :
          LET isNew == ~(UsesOriginsInNamespace /\ IsMemoized(job.run, c))
              requests == RequestsFor(fetched)
              spent == failures + IF fetched.err # "ok" /\ isNew THEN 1 ELSE 0
          IN  /\ resyncs' = IF UsesOriginsInNamespace
                            THEN [resyncs EXCEPT ![job.run].memo[c] = fetched] ELSE resyncs
              /\ \E outcome \in [requests -> {"ok"} \cup scenario.failureCodes] :
                   /\ spent + Cardinality(Failed(requests, outcome)) <= scenario.maxFailures
                   /\ failures' = spent + Cardinality(Failed(requests, outcome))
                   /\ \E landed \in SUBSET {i \in Failed(requests, outcome) : outcome[i] = "retryable"} :
                        ExecuteAllApiCalls(c, requests, outcome, landed)
                   /\ results' = [x \in DOMAIN results \cup {c} |->
                        IF x = c THEN [err |-> Worst(ErrorsOf(requests, outcome, fetched)),
                                       success |-> requests # Failed(requests, outcome)]
                        ELSE results[x]]
    BY DEF SynchronizeViaApi, RequestsFor, IsSkipped, Failed, ErrorsOf
  <1> DEFINE requests == RequestsFor(fetched)
  <1>2. PICK outcome \in [requests -> {"ok"} \cup scenario.failureCodes] :
          LET isNew == ~(UsesOriginsInNamespace /\ IsMemoized(job.run, c))
              spent == failures + IF fetched.err # "ok" /\ isNew THEN 1 ELSE 0
          IN  /\ spent + Cardinality(Failed(requests, outcome)) <= scenario.maxFailures
              /\ failures' = spent + Cardinality(Failed(requests, outcome))
              /\ \E landed \in SUBSET {i \in Failed(requests, outcome) : outcome[i] = "retryable"} :
                   ExecuteAllApiCalls(c, requests, outcome, landed)
              /\ results' = [x \in DOMAIN results \cup {c} |->
                   IF x = c THEN [err |-> Worst(ErrorsOf(requests, outcome, fetched)),
                                  success |-> requests # Failed(requests, outcome)]
                   ELSE results[x]]
    BY <1>1
  <1>3. PICK landed : landed \subseteq Failed(requests, outcome) /\ ExecuteAllApiCalls(c, requests, outcome, landed)
    BY <1>2
  <1>4. ApiStep(c, fetched, outcome, landed)
    BY <1>1, <1>2, <1>3 DEF ApiStep
  <1> QED
    BY <1>4

\* What a list call answers: the objects that are there, or an error.
LEMMA FetchAnswers ==
  ASSUME TypeInv, NEW c \in Configs, NEW fetched \in Fetch(c)
  PROVE  /\ fetched \in Fetched
         /\ \/ /\ fetched.known /\ fetched.err = "ok"
               /\ \A r \in Resources : fetched.origins[r] = {i \in Items : objects[c][r][i] # "none"}
            \/ ~fetched.known /\ fetched.err # "ok"
  <1>1. scenario.failureCodes \subseteq {"retryable", "permanent"}
    BY ScenariosAssumption DEF TypeInv, QueueTypes
  <1>2. CASE fetched = [known |-> TRUE, err |-> "ok",
                        origins |-> [r \in Resources |-> {i \in Items : objects[c][r][i] # "none"}]]
    BY <1>2 DEF Fetched, Errors
  <1>3. CASE \E e \in scenario.failureCodes : fetched = [NotFetched EXCEPT !.err = e]
    BY <1>1, <1>3 DEF Fetched, Errors, NotFetched
  <1> QED
    BY <1>2, <1>3 DEF Fetch

LEMMA NotFetchedIsFetched == NotFetched \in Fetched /\ ~NotFetched.known /\ NotFetched.err = "ok"
  BY DEF NotFetched, Fetched, Errors

\* Every answer has its type.
LEMMA AnswersHaveTheirType ==
  ASSUME TypeInv, NEW c \in Configs, pc = "configs", NEW fetched \in FetchExistingOriginsForResource(c)
  PROVE  fetched \in Fetched
  <1>1. job \in JobsAbout(VersionsIn(scenario))
    BY DEF TypeInv, QueueTypes, WorkerTypes
  <1>2. CASE fetched \in Fetch(c)
    BY <1>2, FetchAnswers
  <1>3. CASE fetched = NotFetched
    BY <1>3, NotFetchedIsFetched
  <1>4. CASE UsesOriginsInNamespace /\ fetched = resyncs[job.run].memo[c]
    <2>1. job.run \in Runs
      BY <1>1, <1>4, MaxResyncsAssumption DEF UsesOriginsInNamespace, JobsAbout, Runs
    <2>2. resyncs[job.run].memo \in [Configs -> Fetched]
      BY <2>1 DEF TypeInv, ResyncTypes
    <2> QED
      BY <1>4, <2>2
  <1> QED
    BY <1>2, <1>3, <1>4 DEF FetchExistingOriginsForResource, GetOriginsInNamespace

\* A request for one item of the resource changes this item only.
LEMMA ObjectsOfTheStep ==
  ASSUME TypeInv, NEW c \in Configs, NEW requests, NEW outcome, NEW landed, pc = "configs",
         ExecuteAllApiCalls(c, requests, outcome, landed)
  PROVE  /\ objects' \in [Configs -> [Resources -> [Items -> {"none"} \cup Contents]]]
         /\ \A d \in Configs, r \in Resources :
              d # c \/ r # job.resource => objects'[d][r] = objects[d][r]
         /\ \A i \in Items :
              objects'[c][job.resource][i] =
                IF i \in requests /\ (outcome[i] = "ok" \/ i \in landed)
                THEN IF action = "upsert" /\ job.snapshot.rules[i] \in Contents
                     THEN job.snapshot.rules[i] ELSE "none"
                ELSE objects[c][job.resource][i]
  <1> DEFINE r == job.resource
             content(i) == IF action = "upsert" /\ i \in MapResourceToApiCalls(job.snapshot)
                           THEN job.snapshot.rules[i] ELSE "none"
             new == [i \in Items |-> IF i \in requests /\ (outcome[i] = "ok" \/ i \in landed)
                                     THEN content(i) ELSE objects[c][r][i]]
  <1>1. objects' = [objects EXCEPT ![c][r] = new]
    BY DEF ExecuteAllApiCalls
  <1>2. r \in Resources
    BY DEF TypeInv, QueueTypes, WorkerTypes, JobsAbout
  <1>3. objects \in [Configs -> [Resources -> [Items -> {"none"} \cup Contents]]]
    BY DEF TypeInv, WorkerTypes
  <1>4. \A i \in Items : content(i) = IF action = "upsert" /\ job.snapshot.rules[i] \in Contents
                                      THEN job.snapshot.rules[i] ELSE "none"
    BY DEF MapResourceToApiCalls
  <1>5. new \in [Items -> {"none"} \cup Contents]
    <2> HIDE DEF content
    <2>1. \A i \in Items : content(i) \in {"none"} \cup Contents
      BY <1>4
    <2> QED
      BY <1>2, <1>3, <2>1
  <1>6. \A i \in Items : new[i] = IF i \in requests /\ (outcome[i] = "ok" \/ i \in landed)
                                  THEN content(i) ELSE objects[c][r][i]
    OBVIOUS
  <1>7. objects'[c][r] = new
    <2> HIDE DEF new
    <2> QED
      BY <1>1, <1>2, <1>3
  <1>8. objects' \in [Configs -> [Resources -> [Items -> {"none"} \cup Contents]]]
    <2> HIDE DEF new
    <2> QED
      BY <1>1, <1>2, <1>3, <1>5
  <1>9. \A d \in Configs, q \in Resources : d # c \/ q # r => objects'[d][q] = objects[d][q]
    <2> HIDE DEF new
    <2> QED
      BY <1>1, <1>2, <1>3
  <1> QED
    BY <1>4, <1>6, <1>7, <1>8, <1>9
-----------------------------------------------------------------------------
(* Types.                                                                  *)

LEMMA ScenarioStays == [Next]_vars => scenario' = scenario
  BY DEF Next, Environment, Worker, Reconciler, ChangeResource, ChangeMonitoring, DeleteMonitoring,
     Restart, HandleEvent, TakeJob, ValidatePreconditions, SynchronizeViaApi, WriteSynchronizationResult,
     ApplyApiAccessSettings, SetSynchronizationEnabled, ListResources, ResyncViaApi,
     RetryFailedSynchronization, EnqueueRetry, vars

LEMMA VersionsStay == [Next]_vars => VersionsIn(scenario)' = VersionsIn(scenario)
  BY ScenarioStays DEF VersionsIn

LEMMA InitTypes == Init => TypeInv
  <1> SUFFICES ASSUME Init PROVE TypeInv
    OBVIOUS
  <1>1. scenario \in Scenarios /\ cluster = scenario.cluster
    BY DEF Init
  <1>2. cluster \in [Resources -> VersionsIn(scenario) \cup {Absent}]
    BY <1>1, ScenariosAssumption DEF VersionsIn
  <1>3. events \in Seq(EventsAbout(VersionsIn(scenario)))
    BY <1>2, EveryResourceIsAnnounced DEF Init
  <1>4. QueueTypes
    BY <1>1, <1>2, <1>3 DEF Init, QueueTypes
  <1>5. WorkerTypes
    <2>1. scenario.maxFailures \in Nat
      BY <1>1, ScenariosAssumption
    <2>2. status \in [Resources -> [summary : {"none", "successful", "partially-successful", "failed"},
                                    errors : [Configs -> Errors]]]
      BY DEF Init, NoStatus, Errors
    <2>3. results = <<>> /\ DOMAIN results = {}
      BY DEF Init
    <2> QED
      BY <2>1, <2>2, <2>3 DEF Init, WorkerTypes, Actions
  <1>6. ResyncTypes
    BY NotFetchedIsFetched DEF Init, ResyncTypes
  <1>7. ConfigInv
    BY <1>1, ScenariosAssumption DEF Init, ConfigInv, MonitoringResources
  <1> QED
    BY <1>4, <1>5, <1>6, <1>7 DEF TypeInv

LEMMA QueueTypesStay ==
  ASSUME TypeInv, [Next]_vars
  PROVE  QueueTypes'
  <1> PICK V : V = VersionsIn(scenario)
    OBVIOUS
  <1>V. VersionsIn(scenario)' = V
    BY VersionsStay
  <1>S. scenario \in Scenarios /\ scenario' = scenario
    BY ScenarioStays DEF TypeInv, QueueTypes
  <1>N. \A j \in JobsAbout(V) : j # NoJob
    BY <1>S, JobsAreRecords
  <1>Q. /\ cluster \in [Resources -> V \cup {Absent}]
        /\ events \in Seq(EventsAbout(V))
        /\ pending \in [Resources -> JobsAbout(V) \cup {NoJob}]
        /\ \A r \in Resources : pending[r] # NoJob => pending[r].resource = r
        /\ retry \in {j \in JobsAbout(V) : j.run = 0 /\ j.action = "upsert"} \cup {NoJob}
        /\ job \in JobsAbout(V) \cup {NoJob}
        /\ \A r \in Resources : pending[r] # NoJob /\ pending[r].run # 0 => pending[r].action = "upsert"
        /\ job # NoJob /\ job.run # 0 => job.action = "upsert"
    BY DEF TypeInv, QueueTypes
  <1>0. 0 \in 0 .. MaxResyncs
    BY MaxResyncsAssumption
  <1> DEFINE Typed ==
        /\ cluster' \in [Resources -> V \cup {Absent}]
        /\ events' \in Seq(EventsAbout(V))
        /\ pending' \in [Resources -> JobsAbout(V) \cup {NoJob}]
        /\ \A r \in Resources : pending'[r] # NoJob => pending'[r].resource = r
        /\ retry' \in {j \in JobsAbout(V) : j.run = 0 /\ j.action = "upsert"} \cup {NoJob}
        /\ job' \in JobsAbout(V) \cup {NoJob}
        /\ \A r \in Resources : pending'[r] # NoJob /\ pending'[r].run # 0 => pending'[r].action = "upsert"
        /\ job' # NoJob /\ job'.run # 0 => job'.action = "upsert"
  <1> SUFFICES Typed
    BY <1>S, <1>V DEF QueueTypes
  <1>1. ASSUME NEW r \in Resources, NEW snap \in scenario.snapshots \cup {Absent}, ChangeResource(r, snap)
        PROVE  Typed
    <2>1. snap \in V \cup {Absent}
      BY DEF VersionsIn
    <2>2. cluster' \in [Resources -> V \cup {Absent}]
      BY <1>1, <1>Q, <2>1 DEF ChangeResource
    <2>3. \E e \in EventsAbout(V) : events' = Append(events, e)
      BY <1>1, <1>Q, <2>1 DEF ChangeResource, EventsAbout, Actions
    <2>4. events' \in Seq(EventsAbout(V))
      BY <1>Q, <2>3
    <2>5. UNCHANGED <<pending, retry, job>>
      BY <1>1 DEF ChangeResource, workerVars
    <2> QED
      BY <1>Q, <2>2, <2>4, <2>5
  <1>2. ASSUME HandleEvent
        PROVE  Typed
    <2>1. events' \in Seq(EventsAbout(V)) /\ Head(events) \in EventsAbout(V)
      BY <1>2, <1>Q DEF HandleEvent
    <2> DEFINE e == Head(events)
               j == Job(e.resource, e.action, e.snapshot, 0)
    <2>2. pending' = [pending EXCEPT ![e.resource] = j]
      BY <1>2 DEF HandleEvent
    <2>3. j \in JobsAbout(V) /\ j.run = 0 /\ j.resource = e.resource
      BY <2>1, <1>0 DEF Job, JobsAbout, EventsAbout
    <2>4. UNCHANGED <<cluster, retry, job>>
      BY <1>2 DEF HandleEvent, workerVars
    <2> HIDE DEF j, e
    <2> QED
      BY <1>Q, <2>1, <2>2, <2>3, <2>4
  <1>3. ASSUME NEW r \in Resources, TakeJob(r)
        PROVE  Typed
    BY <1>3, <1>Q DEF TakeJob
  <1>4. ASSUME ValidatePreconditions \/ WriteSynchronizationResult
        PROVE  Typed
    <2>1. job' \in {job, NoJob} /\ UNCHANGED <<cluster, events, pending, retry>>
      BY <1>4 DEF ValidatePreconditions, WriteSynchronizationResult
    <2> QED
      BY <1>Q, <2>1
  <1>5. ASSUME NEW n \in Runs, ResyncViaApi(n)
        PROVE  Typed
    <2>1. PICK j \in resyncs[n].list : pending' = [pending EXCEPT ![j.resource] = j]
      BY <1>5 DEF ResyncViaApi
    <2>2. j \in JobsAbout(V) /\ j.action = "upsert" /\ j.resource \in Resources
      BY DEF TypeInv, ResyncTypes, ResyncJobs, JobsAbout
    <2>3. UNCHANGED <<cluster, events, retry, job>>
      BY <1>5 DEF ResyncViaApi, workerVars
    <2> QED
      BY <1>Q, <2>1, <2>2, <2>3
  <1>6. ASSUME NEW r \in Resources, RetryFailedSynchronization(r)
        PROVE  Typed
    <2>1. retry' = Job(r, "upsert", cluster[r], 0) /\ cluster[r] \in V
      BY <1>6, <1>Q DEF RetryFailedSynchronization
    <2>2. Job(r, "upsert", cluster[r], 0) \in {j \in JobsAbout(V) : j.run = 0 /\ j.action = "upsert"}
      BY <2>1, <1>0 DEF Job, JobsAbout, Actions
    <2>3. UNCHANGED <<cluster, events, pending, job>>
      BY <1>6 DEF RetryFailedSynchronization, workerVars
    <2> QED
      BY <1>Q, <2>1, <2>2, <2>3
  <1>7. ASSUME EnqueueRetry
        PROVE  Typed
    <2>1. retry # NoJob /\ pending' = [pending EXCEPT ![retry.resource] = retry] /\ retry' = NoJob
      BY <1>7 DEF EnqueueRetry
    <2>2. retry \in JobsAbout(V) /\ retry.action = "upsert" /\ retry.resource \in Resources
      BY <1>Q, <2>1 DEF JobsAbout
    <2>3. UNCHANGED <<cluster, events, job>>
      BY <1>7 DEF EnqueueRetry, workerVars
    <2> QED
      BY <1>Q, <2>1, <2>2, <2>3
  <1>8. ASSUME Restart
        PROVE  Typed
    <2>1. events' \in Seq(EventsAbout(V))
      BY <1>8, <1>Q, EveryResourceIsAnnounced DEF Restart
    <2>2. pending' = [r \in Resources |-> NoJob] /\ job' = NoJob /\ retry' = NoJob /\ cluster' = cluster
      BY <1>8 DEF Restart
    <2> QED
      BY <1>Q, <2>1, <2>2
  <1>9. ASSUME UNCHANGED <<cluster, events, pending, retry, job>>
        PROVE  Typed
    BY <1>9, <1>Q
  <1>10. ASSUME \/ DeleteMonitoring \/ Reconciler \/ UNCHANGED vars
                \/ \E m \in scenario.monitoringStates : ChangeMonitoring(m)
                \/ \E c \in Configs : SynchronizeViaApi(c)
                \/ \E n \in Runs : ListResources(n)
         PROVE  UNCHANGED <<cluster, events, pending, retry, job>>
    BY <1>10 DEF DeleteMonitoring, Reconciler, ApplyApiAccessSettings, SetSynchronizationEnabled, vars,
       workerVars, ChangeMonitoring, SynchronizeViaApi, ListResources
  <1> HIDE DEF Typed
  <1> QED
    BY <1>1, <1>2, <1>3, <1>4, <1>5, <1>6, <1>7, <1>8, <1>9, <1>10 DEF Next, Environment, Worker

\* Requests are about items, as many as fail are counted, and an error shows in the result.
LEMMA RequestsAreAboutItems ==
  ASSUME TypeInv, NEW c \in Configs, pc = "configs", NEW fetched, NEW outcome, NEW landed,
         ApiStep(c, fetched, outcome, landed)
  PROVE  /\ fetched \in Fetched /\ RequestsFor(fetched) \subseteq Items
         /\ IsFiniteSet(Failed(RequestsFor(fetched), outcome))
         /\ Cardinality(Failed(RequestsFor(fetched), outcome)) \in Nat
  <1>1. fetched \in Fetched
    BY AnswersHaveTheirType DEF ApiStep
  <1>2. job.resource \in Resources
    BY DEF TypeInv, QueueTypes, WorkerTypes, JobsAbout
  <1>3. fetched.origins[job.resource] \subseteq Items
    BY <1>1, <1>2 DEF Fetched
  <1>4. RequestsFor(fetched) \subseteq Items
    BY <1>3 DEF RequestsFor, RemoveDeleteRequestsForObjectsThatDoNotExist, MapResourceToApiCalls,
       OriginsInResource, CreateDeleteRequests
  <1>5. Failed(RequestsFor(fetched), outcome) \subseteq Items
    BY <1>4 DEF Failed
  <1>6. IsFiniteSet(Failed(RequestsFor(fetched), outcome))
    BY <1>5, ResourcesAssumption, FS_Subset
  <1> QED
    BY <1>1, <1>4, <1>6, FS_CardinalityType

LEMMA WorkerTypesStay ==
  ASSUME TypeInv, [Next]_vars
  PROVE  WorkerTypes'
  <1>S. scenario' = scenario /\ QueueTypes'
    BY ScenarioStays, QueueTypesStay
  <1>W. WorkerTypes
    BY DEF TypeInv
  <1>1. ASSUME NEW r \in Resources, TakeJob(r)
        PROVE  WorkerTypes'
    BY <1>1, <1>S, <1>W DEF TakeJob, WorkerTypes
  <1>2. ASSUME ValidatePreconditions
        PROVE  WorkerTypes'
    <2>1. job.action \in Actions
      BY <1>2 DEF TypeInv, QueueTypes, WorkerTypes, JobsAbout, ValidatePreconditions
    <2>2. ValidatedApiConfigs \subseteq Configs
      <3>1. scenario.defaultConfigs \subseteq DefaultConfigs
        BY ScenariosAssumption DEF TypeInv, QueueTypes
      <3> QED
        BY <3>1 DEF ValidatedApiConfigs, Configs, TypeInv, ConfigInv
    <2>3. UNCHANGED <<failures, objects, status>>
      BY <1>2 DEF ValidatePreconditions
    <2>4. CASE ValidatedApiConfigs = {}
      BY <1>2, <1>S, <1>W, <2>3, <2>4 DEF ValidatePreconditions, WorkerTypes
    <2>5. CASE ValidatedApiConfigs # {}
      <3>1. /\ pc = "check" /\ pc' = "configs" /\ job' = job
            /\ action' = IF job.snapshot.disabled THEN "delete" ELSE job.action
            /\ todo' = ValidatedApiConfigs /\ results' = <<>>
        BY <1>2, <2>5 DEF ValidatePreconditions
      <3>2. DOMAIN results' = {}
        BY <3>1
      <3>3. action' \in Actions
        BY <2>1, <3>1 DEF Actions
      <3> QED
        BY <1>S, <1>W, <2>2, <2>3, <3>1, <3>2, <3>3 DEF WorkerTypes
    <2> QED
      BY <2>4, <2>5
  <1>3. ASSUME NEW c \in Configs, SynchronizeViaApi(c)
        PROVE  WorkerTypes'
    <2>1. pc = "configs" /\ c \in todo /\ todo' = todo \ {c} /\ UNCHANGED <<pc, job, action, status>>
      BY <1>3 DEF SynchronizeViaApi
    <2>2. PICK fetched, outcome, landed : ApiStep(c, fetched, outcome, landed)
      BY <1>3, ApiStepExists
    <2> DEFINE requests == RequestsFor(fetched)
               spent == failures + IF fetched.err # "ok" /\ ~(UsesOriginsInNamespace /\ IsMemoized(job.run, c))
                                   THEN 1 ELSE 0
    <2>3. failures' \in 0 .. scenario.maxFailures
      <3>1. Cardinality(Failed(requests, outcome)) \in Nat
        BY <2>1, <2>2, RequestsAreAboutItems
      <3>2. /\ spent + Cardinality(Failed(requests, outcome)) <= scenario.maxFailures
            /\ failures' = spent + Cardinality(Failed(requests, outcome))
        BY <2>2 DEF ApiStep
      <3>3. spent \in Nat
        BY <1>W DEF WorkerTypes
      <3> HIDE DEF spent, requests
      <3> QED
        BY <1>W, <3>1, <3>2, <3>3 DEF WorkerTypes
    <2>4. objects' \in [Configs -> [Resources -> [Items -> {"none"} \cup Contents]]]
      BY <2>1, <2>2, ObjectsOfTheStep DEF ApiStep
    <2>5. results' = [x \in DOMAIN results \cup {c} |->
             IF x = c THEN [err |-> Worst(ErrorsOf(requests, outcome, fetched)),
                            success |-> requests # Failed(requests, outcome)]
             ELSE results[x]]
      BY <2>2 DEF ApiStep
    <2>6. [err |-> Worst(ErrorsOf(requests, outcome, fetched)),
           success |-> requests # Failed(requests, outcome)] \in Results
      BY DEF Worst, Results, Errors
    <2>7. DOMAIN results' = DOMAIN results \cup {c} /\ \A x \in DOMAIN results' : results'[x] \in Results
      <3> HIDE DEF requests
      <3> QED
        BY <1>W, <2>5, <2>6 DEF WorkerTypes
    <2> QED
      BY <1>S, <1>W, <2>1, <2>3, <2>4, <2>7 DEF WorkerTypes
  <1>4. ASSUME WriteSynchronizationResult
        PROVE  WorkerTypes'
    <2>1. SynchronizationResult \in [summary : {"none", "successful", "partially-successful", "failed"},
                                     errors : [Configs -> Errors]]
      <3>1. Summary \in {"none", "successful", "partially-successful", "failed"}
        BY DEF Summary
      <3>2. [c \in Configs |-> IF c \in DOMAIN results THEN results[c].err ELSE "ok"] \in [Configs -> Errors]
        BY <1>W DEF WorkerTypes, Results, Errors
      <3> QED
        BY <3>1, <3>2 DEF SynchronizationResult
    <2>2. status' \in [Resources -> [summary : {"none", "successful", "partially-successful", "failed"},
                                     errors : [Configs -> Errors]]]
      <3> PICK T : T = [summary : {"none", "successful", "partially-successful", "failed"},
                        errors : [Configs -> Errors]]
        OBVIOUS
      <3>1. status \in [Resources -> T]
        BY <1>W DEF WorkerTypes
      <3>2. status' = status \/ status' = [status EXCEPT ![job.resource] = SynchronizationResult]
        BY <1>4 DEF WriteSynchronizationResult
      <3>3. SynchronizationResult \in T
        BY <2>1
      <3> QED
        BY <3>1, <3>2, <3>3
    <2>3. /\ pc' = "idle" /\ job' = NoJob /\ results' = <<>>
          /\ UNCHANGED <<action, todo, objects, failures>>
      BY <1>4 DEF WriteSynchronizationResult
    <2>4. DOMAIN results' = {}
      BY <2>3
    <2> QED
      BY <1>S, <1>W, <2>2, <2>3, <2>4 DEF WorkerTypes
  <1>5. ASSUME DeleteMonitoring
        PROVE  WorkerTypes'
    <2>1. status' \in [Resources -> [summary : {"none", "successful", "partially-successful", "failed"},
                                     errors : [Configs -> Errors]]]
      BY <1>5 DEF DeleteMonitoring, NoStatus, Errors
    <2>2. UNCHANGED <<pc, job, action, todo, results, objects, failures>>
      BY <1>5 DEF DeleteMonitoring, workerVars
    <2> QED
      BY <1>S, <1>W, <2>1, <2>2 DEF WorkerTypes
  <1>6. ASSUME Restart
        PROVE  WorkerTypes'
    <2>1. /\ pc' = "idle" /\ job' = NoJob /\ action' = "upsert" /\ todo' = {} /\ results' = <<>>
          /\ UNCHANGED <<objects, status, failures>>
      BY <1>6 DEF Restart
    <2>2. DOMAIN results' = {}
      BY <2>1
    <2> QED
      BY <1>S, <1>W, <2>1, <2>2 DEF WorkerTypes, Actions
  <1>7. ASSUME UNCHANGED <<workerVars, objects, status, failures>>
        PROVE  WorkerTypes'
    BY <1>7, <1>S, <1>W DEF WorkerTypes, workerVars
  <1>8. ASSUME \/ HandleEvent \/ Reconciler \/ EnqueueRetry \/ UNCHANGED vars
               \/ \E m \in scenario.monitoringStates : ChangeMonitoring(m)
               \/ \E r \in Resources, snap \in scenario.snapshots \cup {Absent} : ChangeResource(r, snap)
               \/ \E n \in Runs : ListResources(n) \/ ResyncViaApi(n)
               \/ \E r \in Resources : RetryFailedSynchronization(r)
        PROVE  UNCHANGED <<workerVars, objects, status, failures>>
    BY <1>8 DEF HandleEvent, Reconciler, ApplyApiAccessSettings, SetSynchronizationEnabled, EnqueueRetry,
       vars, ChangeMonitoring, ChangeResource, ListResources, ResyncViaApi, RetryFailedSynchronization
  <1> QED
    BY <1>1, <1>2, <1>3, <1>4, <1>5, <1>6, <1>7, <1>8 DEF Next, Environment, Worker

LEMMA ResyncTypesStay ==
  ASSUME TypeInv, [Next]_vars
  PROVE  ResyncTypes'
  <1> PICK V : V = VersionsIn(scenario)
    OBVIOUS
  <1>V. VersionsIn(scenario)' = V
    BY VersionsStay
  <1> DEFINE Typed ==
        /\ DOMAIN resyncs' = Runs
        /\ \A n \in Runs :
             /\ DOMAIN resyncs'[n] = {"pc", "list", "memo"}
             /\ resyncs'[n].pc \in {"free", "list", "enqueue"}
             /\ resyncs'[n].list \subseteq ResyncJobs(V, n)
             /\ resyncs'[n].memo \in [Configs -> Fetched]
  <1> SUFFICES Typed
    BY <1>V DEF ResyncTypes
  <1>R. /\ DOMAIN resyncs = Runs
        /\ \A n \in Runs :
             /\ DOMAIN resyncs[n] = {"pc", "list", "memo"}
             /\ resyncs[n].pc \in {"free", "list", "enqueue"}
             /\ resyncs[n].list \subseteq ResyncJobs(V, n)
             /\ resyncs[n].memo \in [Configs -> Fetched]
    BY DEF TypeInv, ResyncTypes
  <1>0. [c \in Configs |-> NotFetched] \in [Configs -> Fetched]
    BY NotFetchedIsFetched
  <1>1. ASSUME NEW c \in Configs, SynchronizeViaApi(c)
        PROVE  Typed
    <2>1. pc = "configs"
      BY <1>1 DEF SynchronizeViaApi
    <2>2. PICK fetched, outcome, landed : ApiStep(c, fetched, outcome, landed)
      BY <1>1, ApiStepExists
    <2>3. fetched \in Fetched
      BY <2>1, <2>2, RequestsAreAboutItems
    <2>4. resyncs' = resyncs \/ resyncs' = [resyncs EXCEPT ![job.run].memo[c] = fetched]
      BY <2>2 DEF ApiStep
    <2> QED
      BY <1>R, <2>3, <2>4
  <1>2. ASSUME NEW n \in Runs, ListResources(n)
        PROVE  Typed
    <2> DEFINE list == {Job(r, "upsert", cluster[r], n) : r \in {x \in Resources : cluster[x] # Absent}}
    <2>1. list \subseteq ResyncJobs(V, n)
      BY MaxResyncsAssumption DEF Job, ResyncJobs, JobsAbout, Actions, TypeInv, QueueTypes, Runs
    <2>2. \E v \in {"free", "enqueue"} : resyncs' = [resyncs EXCEPT ![n].pc = v, ![n].list = list]
      BY <1>2 DEF ListResources
    <2> HIDE DEF list
    <2> QED
      BY <1>R, <2>1, <2>2
  <1>3. ASSUME NEW n \in Runs, ResyncViaApi(n)
        PROVE  Typed
    <2>1. \E v \in {"free", "enqueue"}, l \in SUBSET resyncs[n].list :
            resyncs' = [resyncs EXCEPT ![n].list = l, ![n].pc = v]
      BY <1>3 DEF ResyncViaApi
    <2> QED
      BY <1>R, <2>1
  <1>4. ASSUME StartResync
        PROVE  Typed
    <2>1. \E n \in Runs : resyncs' = [resyncs EXCEPT ![n] =
            [pc |-> "list", list |-> {}, memo |-> [c \in Configs |-> NotFetched]]]
      BY <1>4 DEF StartResync
    <2> QED
      BY <1>R, <1>0, <2>1
  <1>5. ASSUME Restart
        PROVE  Typed
    <2>1. resyncs' = [n \in Runs |-> [pc |-> "free", list |-> {}, memo |-> [c \in Configs |-> NotFetched]]]
      BY <1>5 DEF Restart
    <2> QED
      BY <1>0, <2>1
  <1>6. ASSUME UNCHANGED resyncs
        PROVE  Typed
    BY <1>6, <1>R
  <1>7. ASSUME \/ HandleEvent \/ EnqueueRetry \/ UNCHANGED vars \/ DeleteMonitoring
               \/ \E m \in scenario.monitoringStates : ChangeMonitoring(m)
               \/ \E r \in Resources, snap \in scenario.snapshots \cup {Absent} : ChangeResource(r, snap)
               \/ \E r \in Resources : RetryFailedSynchronization(r) \/ TakeJob(r)
               \/ ValidatePreconditions \/ WriteSynchronizationResult
        PROVE  UNCHANGED resyncs
    BY <1>7 DEF HandleEvent, EnqueueRetry, vars, DeleteMonitoring, ChangeMonitoring, ChangeResource,
       RetryFailedSynchronization, TakeJob, ValidatePreconditions, WriteSynchronizationResult
  <1>8. ASSUME Reconciler
        PROVE  StartResync \/ UNCHANGED resyncs
    BY <1>8 DEF Reconciler, ApplyApiAccessSettings, SetSynchronizationEnabled
  <1> HIDE DEF Typed
  <1> QED
    BY <1>1, <1>2, <1>3, <1>4, <1>5, <1>6, <1>7, <1>8 DEF Next, Environment, Worker

LEMMA ConfigInvStays ==
  ASSUME TypeInv, [Next]_vars
  PROVE  ConfigInv'
  <1>S. scenario' = scenario /\ scenario \in Scenarios
    BY ScenarioStays DEF TypeInv, QueueTypes
  <1>C. ConfigInv
    BY DEF TypeInv
  <1>1. ASSUME NEW m \in scenario.monitoringStates, ChangeMonitoring(m)
        PROVE  ConfigInv'
    <2>1. m \in MonitoringResources
      BY <1>S, ScenariosAssumption
    <2>2. /\ monitoring' = m /\ m.exists /\ unreconciled' = TRUE /\ reconciling = NoJob
          /\ monitoringChanges' = monitoringChanges + 1
          /\ UNCHANGED <<reconciling, namespacedApiConfigs, namespacedSyncEnabled, restarts>>
      BY <1>1 DEF ChangeMonitoring
    <2> QED
      BY <1>S, <1>C, <2>1, <2>2 DEF ConfigInv
  <1>2. ASSUME DeleteMonitoring
        PROVE  ConfigInv'
    <2>1. /\ monitoring' = [exists |-> FALSE, exports |-> {}, tokens |-> {}, enabled |-> FALSE]
          /\ unreconciled' = FALSE /\ namespacedSyncEnabled' = "unset" /\ reconciling = NoJob
          /\ monitoringChanges' = monitoringChanges + 1
          /\ \E m \in scenario.monitoringStates : ~m.exists
          /\ UNCHANGED <<reconciling, namespacedApiConfigs, restarts>>
      BY <1>2 DEF DeleteMonitoring
    <2>2. monitoring' \in MonitoringResources /\ ~monitoring'.exists
          /\ monitoring'.exports = {} /\ monitoring'.tokens = {}
      BY <2>1 DEF MonitoringResources
    <2>3. monitoringChanges' \in Nat /\ restarts' \in Nat
      BY <1>C, <2>1 DEF ConfigInv
    <2>4. unreconciled' \in BOOLEAN /\ ~unreconciled'
      BY <2>1
    <2>5. reconciling' = NoJob /\ namespacedApiConfigs' \subseteq NamespacedConfigs
          /\ namespacedSyncEnabled' \in {"unset", "on", "off"}
      BY <1>C, <2>1 DEF ConfigInv
    <2>6. \E m \in scenario'.monitoringStates : ~m.exists
      BY <1>S, <2>1
    <2> QED
      BY <2>2, <2>3, <2>4, <2>5, <2>6 DEF ConfigInv
  <1>3. ASSUME ApplyApiAccessSettings
        PROVE  ConfigInv'
    <2>1. /\ unreconciled /\ namespacedApiConfigs' = monitoring.tokens /\ reconciling' = monitoring
          /\ unreconciled' = FALSE
          /\ UNCHANGED <<monitoring, namespacedSyncEnabled, monitoringChanges, restarts>>
      BY <1>3 DEF ApplyApiAccessSettings
    <2>2. monitoring # NoJob
      BY <1>C, NoValueAssumption DEF ConfigInv
    <2> QED
      BY <1>S, <1>C, <2>1, <2>2 DEF ConfigInv, MonitoringResources
  <1>4. ASSUME SetSynchronizationEnabled
        PROVE  ConfigInv'
    <2>1. /\ reconciling # NoJob /\ reconciling' = NoJob
          /\ namespacedSyncEnabled' = IF reconciling.enabled THEN "on" ELSE "off"
          /\ UNCHANGED <<monitoring, unreconciled, namespacedApiConfigs, monitoringChanges, restarts>>
      BY <1>4 DEF SetSynchronizationEnabled
    <2> QED
      BY <1>S, <1>C, <2>1 DEF ConfigInv
  <1>5. ASSUME Restart
        PROVE  ConfigInv'
    <2>1. /\ restarts' = restarts + 1 /\ unreconciled' = monitoring.exists /\ reconciling' = NoJob
          /\ namespacedApiConfigs' = {} /\ namespacedSyncEnabled' = "unset"
          /\ UNCHANGED <<monitoring, monitoringChanges>>
      BY <1>5 DEF Restart
    <2> QED
      BY <1>S, <1>C, <2>1 DEF ConfigInv, MonitoringResources
  <1>6. ASSUME UNCHANGED <<configVars, restarts>>
        PROVE  ConfigInv'
    BY <1>6, <1>S, <1>C DEF ConfigInv, configVars
  <1>7. ASSUME \/ HandleEvent \/ EnqueueRetry \/ UNCHANGED vars
               \/ \E r \in Resources, snap \in scenario.snapshots \cup {Absent} : ChangeResource(r, snap)
               \/ \E r \in Resources : RetryFailedSynchronization(r) \/ TakeJob(r)
               \/ ValidatePreconditions \/ WriteSynchronizationResult
               \/ \E c \in Configs : SynchronizeViaApi(c)
               \/ \E n \in Runs : ListResources(n) \/ ResyncViaApi(n)
        PROVE  UNCHANGED <<configVars, restarts>>
    BY <1>7 DEF HandleEvent, EnqueueRetry, vars, ChangeResource, RetryFailedSynchronization, TakeJob,
       ValidatePreconditions, WriteSynchronizationResult, SynchronizeViaApi, ListResources, ResyncViaApi
  <1> QED
    BY <1>1, <1>2, <1>3, <1>4, <1>5, <1>6, <1>7 DEF Next, Environment, Worker, Reconciler

LEMMA TypesStay == TypeInv /\ [Next]_vars => TypeInv'
  BY QueueTypesStay, WorkerTypesStay, ResyncTypesStay, ConfigInvStays DEF TypeInv
-----------------------------------------------------------------------------
(* Objects are removed with their rule or resource only.                   *)

\* An upsert only sends DELETE requests for rules that the resource does not contain.
LEMMA UpsertDeletesNoContainedRule ==
  ASSUME action \in Actions, NEW c, NEW d \in Configs, NEW r \in Resources, NEW i \in Items,
         DOMAIN objects = Configs, SynchronizeViaApi(c),
         objects[d][r][i] # "none", objects'[d][r][i] = "none"
  PROVE  job.resource = r /\ (action = "delete" \/ job.snapshot.rules[i] = "none")
  <1>1. PICK fetched, requests, outcome, landed :
          /\ \/ requests = {}
             \/ requests = RemoveDeleteRequestsForObjectsThatDoNotExist(MapResourceToApiCalls(job.snapshot), fetched)
                           \cup CreateDeleteRequests(job.snapshot, fetched)
          /\ ExecuteAllApiCalls(c, requests, outcome, landed)
    BY DEF SynchronizeViaApi
  <1> DEFINE content(k) == IF action = "upsert" /\ k \in MapResourceToApiCalls(job.snapshot)
                           THEN job.snapshot.rules[k] ELSE "none"
             new == [k \in Items |-> IF k \in requests /\ (outcome[k] = "ok" \/ k \in landed)
                                     THEN content(k) ELSE objects[c][job.resource][k]]
  <1>2. objects' = [objects EXCEPT ![c][job.resource] = new]
    BY <1>1 DEF ExecuteAllApiCalls
  <1>3. d = c /\ job.resource = r
    BY <1>2
  <1>4. objects'[d][r] = new \/ objects'[d][r] = objects[d][r]
    BY <1>2, <1>3
  <1>5. new[i] = "none" /\ objects[c][job.resource][i] # "none"
    BY <1>3, <1>4
  <1>6. i \in requests /\ content(i) = "none"
    BY <1>5
  <1>7. CASE action = "upsert"
    <2>1. i \in MapResourceToApiCalls(job.snapshot) \/ i \in CreateDeleteRequests(job.snapshot, fetched)
      BY <1>1, <1>6, <1>7 DEF RemoveDeleteRequestsForObjectsThatDoNotExist
    <2>2. CASE i \in MapResourceToApiCalls(job.snapshot)
      BY <1>3, <1>6, <1>7, <2>2
    <2>3. CASE i \in CreateDeleteRequests(job.snapshot, fetched)
      BY <1>3, <2>3 DEF CreateDeleteRequests, OriginsInResource
    <2> QED
      BY <2>1, <2>2, <2>3
  <1> QED
    BY <1>3, <1>7 DEF Actions

\* A rule that the resource still contains keeps its API object, even while it is
\* invalid: whatever the list call of a resync has memoized and however the requests
\* end, an object goes only with its resource or with its rule (CreateDeleteRequests).
THEOREM ContainedRulesKeepTheirObjects == Spec => InvalidRuleKeepsItsObject
<1>1. Init => TypeInv
  BY InitTypes
<1>2. TypeInv /\ [Next]_vars => TypeInv' /\ [KeepsObjects]_vars
  <2> SUFFICES ASSUME TypeInv, [Next]_vars PROVE TypeInv' /\ [KeepsObjects]_vars
    OBVIOUS
  <2>1. TypeInv'
    BY TypesStay
  <2>2. CASE \E c \in Configs : SynchronizeViaApi(c)
    <3> PICK c \in Configs : SynchronizeViaApi(c)
      BY <2>2
    <3>1. job # NoJob /\ action \in Actions /\ DOMAIN objects = Configs
      BY DEF TypeInv, WorkerTypes, SynchronizeViaApi
    <3>2. KeepsObjects
      BY <3>1, UpsertDeletesNoContainedRule DEF KeepsObjects
    <3> QED
      BY <2>1, <3>2
  <2>3. CASE UNCHANGED objects
    BY <2>1, <2>3 DEF KeepsObjects
  <2>4. ASSUME Next, ~(\E c \in Configs : SynchronizeViaApi(c)) PROVE UNCHANGED objects
    BY <2>4 DEF Next, Environment, Worker, Reconciler, ChangeResource, ChangeMonitoring, DeleteMonitoring,
        Restart, HandleEvent, TakeJob, ValidatePreconditions, WriteSynchronizationResult,
        ApplyApiAccessSettings, SetSynchronizationEnabled, ListResources, ResyncViaApi,
        RetryFailedSynchronization, EnqueueRetry
  <2> QED
    BY <2>2, <2>3, <2>4 DEF vars
<1> QED
  BY <1>1, <1>2, PTL DEF Spec, InvalidRuleKeepsItsObject
-----------------------------------------------------------------------------
(* What the steps do to the resyncs.                                       *)

\* One answer is memoized, or none.
LEMMA OneAnswerIsMemoized ==
  ASSUME TypeInv, NEW c \in Configs, pc = "configs", NEW fetched, NEW outcome, NEW landed,
         ApiStep(c, fetched, outcome, landed)
  PROVE  /\ \A n \in Runs : resyncs'[n].pc = resyncs[n].pc /\ resyncs'[n].list = resyncs[n].list
         /\ \A n \in Runs, d \in Configs :
              \/ UsesOriginsInNamespace /\ n = job.run /\ d = c /\ resyncs'[n].memo[d] = fetched
              \/ ~(UsesOriginsInNamespace /\ n = job.run /\ d = c) /\ resyncs'[n].memo[d] = resyncs[n].memo[d]
  <1>1. /\ DOMAIN resyncs = Runs
        /\ \A n \in Runs : /\ DOMAIN resyncs[n] = {"pc", "list", "memo"}
                           /\ resyncs[n].memo \in [Configs -> Fetched]
    BY DEF TypeInv, ResyncTypes
  <1>2. CASE UsesOriginsInNamespace
    <2>1. job.run \in Runs
      BY <1>2, MaxResyncsAssumption DEF UsesOriginsInNamespace, TypeInv, QueueTypes, WorkerTypes, JobsAbout, Runs
    <2> PICK k : k = job.run
      OBVIOUS
    <2>2. resyncs' = [resyncs EXCEPT ![k].memo[c] = fetched]
      BY <1>2 DEF ApiStep
    <2>3. \A n \in Runs : n # k => resyncs'[n] = resyncs[n]
      BY <1>1, <2>2
    <2>4. resyncs'[k] = [resyncs[k] EXCEPT !.memo[c] = fetched]
      BY <1>1, <2>1, <2>2
    <2>5. resyncs'[k].pc = resyncs[k].pc /\ resyncs'[k].list = resyncs[k].list
      BY <1>1, <2>1, <2>4
    <2>6. resyncs'[k].memo = [resyncs[k].memo EXCEPT ![c] = fetched]
      BY <1>1, <2>1, <2>4
    <2>7. \A d \in Configs : resyncs'[k].memo[d] = IF d = c THEN fetched ELSE resyncs[k].memo[d]
      BY <1>1, <2>1, <2>6
    <2> QED
      BY <1>2, <2>3, <2>5, <2>7
  <1>3. CASE ~UsesOriginsInNamespace
    BY <1>3 DEF ApiStep
  <1> QED
    BY <1>2, <1>3

\* The list of the existing resources.
Listed(n) == {Job(r, "upsert", cluster[r], n) : r \in {x \in Resources : cluster[x] # Absent}}

LEMMA ResourcesAreListed ==
  ASSUME TypeInv, NEW n \in Runs, ListResources(n)
  PROVE  /\ \A m \in Runs : m # n => resyncs'[m] = resyncs[m]
         /\ resyncs'[n].list = Listed(n) /\ resyncs'[n].memo = resyncs[n].memo
         /\ resyncs'[n].pc = IF Listed(n) = {} THEN "free" ELSE "enqueue"
  <1>1. DOMAIN resyncs = Runs /\ DOMAIN resyncs[n] = {"pc", "list", "memo"}
    BY DEF TypeInv, ResyncTypes
  <1>2. resyncs' = [resyncs EXCEPT ![n].pc = IF Listed(n) = {} THEN "free" ELSE "enqueue",
                                   ![n].list = Listed(n)]
    BY DEF ListResources, Listed
  <1> QED
    BY <1>1, <1>2

LEMMA OneJobIsEnqueued ==
  ASSUME TypeInv, NEW n \in Runs, ResyncViaApi(n)
  PROVE  \E j \in resyncs[n].list :
           /\ pending' = [pending EXCEPT ![j.resource] = j]
           /\ \A m \in Runs : m # n => resyncs'[m] = resyncs[m]
           /\ resyncs'[n].list = resyncs[n].list \ {j} /\ resyncs'[n].memo = resyncs[n].memo
           /\ resyncs'[n].pc = IF resyncs[n].list = {j} THEN "free" ELSE "enqueue"
  <1>1. DOMAIN resyncs = Runs /\ DOMAIN resyncs[n] = {"pc", "list", "memo"}
    BY DEF TypeInv, ResyncTypes
  <1>2. PICK j \in resyncs[n].list :
          /\ pending' = [pending EXCEPT ![j.resource] = j]
          /\ resyncs' = [resyncs EXCEPT ![n].list = resyncs[n].list \ {j},
                           ![n].pc = IF resyncs[n].list = {j} THEN "free" ELSE resyncs[n].pc]
    BY <1>1 DEF ResyncViaApi
  <1>3. resyncs[n].pc = "enqueue"
    BY DEF ResyncViaApi
  <1>4. \A m \in Runs : m # n => resyncs'[m] = resyncs[m]
    BY <1>1, <1>2
  <1>5. resyncs'[n].list = resyncs[n].list \ {j} /\ resyncs'[n].memo = resyncs[n].memo
    BY <1>1, <1>2
  <1>6. resyncs'[n].pc = IF resyncs[n].list = {j} THEN "free" ELSE "enqueue"
    BY <1>1, <1>2, <1>3
  <1> QED
    BY <1>2, <1>4, <1>5, <1>6

LEMMA OneResyncStarts ==
  ASSUME TypeInv, StartResync
  PROVE  \E n \in Runs \ RunsInUse :
           /\ \A m \in Runs : m # n => resyncs'[m] = resyncs[m]
           /\ resyncs'[n].pc = "list" /\ resyncs'[n].list = {}
           /\ resyncs'[n].memo = [c \in Configs |-> NotFetched]
  <1>1. DOMAIN resyncs = Runs
    BY DEF TypeInv, ResyncTypes
  <1>2. PICK n \in Runs \ RunsInUse : resyncs' = [resyncs EXCEPT ![n] =
           [pc |-> "list", list |-> {}, memo |-> [c \in Configs |-> NotFetched]]]
    BY DEF StartResync
  <1> QED
    BY <1>1, <1>2
-----------------------------------------------------------------------------
(* Errors, dashboards and the runs of a resync.                            *)

\* As long as nothing has failed, no answer and no result is an error.
LEMMA NothingHasFailed ==
  ASSUME TypeInv, ErrorsInv, NEW c \in Configs, pc = "configs", NEW fetched, NEW outcome, NEW landed,
         ApiStep(c, fetched, outcome, landed), failures' = 0
  PROVE  /\ failures = 0 /\ fetched.err = "ok"
         /\ \A i \in RequestsFor(fetched) : outcome[i] = "ok"
         /\ Worst(ErrorsOf(RequestsFor(fetched), outcome, fetched)) = "ok"
  <1> DEFINE requests == RequestsFor(fetched)
             isNew == ~(UsesOriginsInNamespace /\ IsMemoized(job.run, c))
             spent == failures + IF fetched.err # "ok" /\ isNew THEN 1 ELSE 0
  <1>1. IsFiniteSet(Failed(requests, outcome)) /\ Cardinality(Failed(requests, outcome)) \in Nat
    BY RequestsAreAboutItems
  <1>2. 0 = spent + Cardinality(Failed(requests, outcome))
    BY DEF ApiStep
  <1>3. failures \in Nat
    BY DEF TypeInv, WorkerTypes
  <1>4. failures = 0 /\ ~(fetched.err # "ok" /\ isNew) /\ Cardinality(Failed(requests, outcome)) = 0
    <2> HIDE DEF requests, isNew
    <2> QED
      BY <1>1, <1>2, <1>3
  <1>5. Failed(requests, outcome) = {}
    BY <1>1, <1>4, FS_EmptySet
  <1>6. \A i \in requests : outcome[i] = "ok"
    BY <1>5 DEF Failed
  <1>7. fetched.err = "ok"
    <2>1. CASE isNew
      BY <1>4, <2>1
    <2>2. CASE ~isNew
      <3>1. fetched = resyncs[job.run].memo[c]
        BY <2>2 DEF ApiStep, FetchExistingOriginsForResource, GetOriginsInNamespace
      <3>2. job.run \in Runs
        BY <2>2, MaxResyncsAssumption DEF UsesOriginsInNamespace, TypeInv, QueueTypes, WorkerTypes, JobsAbout, Runs
      <3> QED
        BY <1>4, <3>1, <3>2 DEF ErrorsInv
    <2> QED
      BY <2>1, <2>2
  <1>8. \A e \in ErrorsOf(requests, outcome, fetched) : e = "ok"
    BY <1>6, <1>7 DEF ErrorsOf
  <1> QED
    BY <1>4, <1>6, <1>7, <1>8 DEF Worst

LEMMA ErrorsInvStays ==
  ASSUME TypeInv, ErrorsInv, [Next]_vars
  PROVE  ErrorsInv'
  <1>R. DOMAIN resyncs = Runs /\ \A n \in Runs : DOMAIN resyncs[n] = {"pc", "list", "memo"}
        /\ resyncs[n].memo \in [Configs -> Fetched]
    BY DEF TypeInv, ResyncTypes
  <1>N. NotFetched.err = "ok" /\ \A c \in Configs : [d \in Configs |-> NotFetched][c].err = "ok"
    BY NotFetchedIsFetched
  <1>1. ASSUME NEW c \in Configs, SynchronizeViaApi(c)
        PROVE  ErrorsInv'
    <2> SUFFICES ASSUME failures' = 0
                 PROVE  /\ \A d \in DOMAIN results' : results'[d].err = "ok"
                        /\ \A n \in Runs, d \in Configs : resyncs'[n].memo[d].err = "ok"
      BY DEF ErrorsInv
    <2>1. pc = "configs"
      BY <1>1 DEF SynchronizeViaApi
    <2>2. PICK fetched, outcome, landed : ApiStep(c, fetched, outcome, landed)
      BY <1>1, ApiStepExists
    <2>3. /\ failures = 0 /\ fetched.err = "ok"
          /\ Worst(ErrorsOf(RequestsFor(fetched), outcome, fetched)) = "ok"
      BY <2>1, <2>2, NothingHasFailed
    <2>4. \A d \in DOMAIN results' : results'[d].err = "ok"
      BY <2>2, <2>3 DEF ApiStep, ErrorsInv
    <2>5. \A n \in Runs, d \in Configs : resyncs'[n].memo[d] \in {resyncs[n].memo[d], fetched}
      BY <2>1, <2>2, OneAnswerIsMemoized
    <2>6. \A n \in Runs, d \in Configs : resyncs'[n].memo[d].err = "ok"
      BY <2>3, <2>5 DEF ErrorsInv
    <2> QED
      BY <2>4, <2>6
  <1>2. ASSUME /\ failures' = failures
               /\ DOMAIN results' = {} \/ results' = results
               /\ \A n \in Runs : resyncs'[n].memo = resyncs[n].memo \/ resyncs'[n].memo = [d \in Configs |-> NotFetched]
        PROVE  ErrorsInv'
    BY <1>2, <1>N DEF ErrorsInv
  <1>3. ASSUME ValidatePreconditions \/ WriteSynchronizationResult \/ Restart
        PROVE  ErrorsInv'
    <2>1. failures' = failures /\ (results' = <<>> \/ results' = results)
      BY <1>3 DEF ValidatePreconditions, WriteSynchronizationResult, Restart
    <2>2. resyncs' = resyncs \/ resyncs' = [n \in Runs |->
             [pc |-> "free", list |-> {}, memo |-> [c \in Configs |-> NotFetched]]]
      BY <1>3 DEF ValidatePreconditions, WriteSynchronizationResult, Restart
    <2>3. DOMAIN results' = {} \/ results' = results
      BY <2>1
    <2>4. \A n \in Runs : resyncs'[n].memo = resyncs[n].memo \/ resyncs'[n].memo = [d \in Configs |-> NotFetched]
      BY <2>2
    <2> QED
      BY <1>2, <2>1, <2>3, <2>4
  <1>4. ASSUME Reconciler \/ \E n \in Runs : ListResources(n) \/ ResyncViaApi(n)
        PROVE  ErrorsInv'
    <2>1. failures' = failures /\ results' = results
      BY <1>4 DEF Reconciler, ApplyApiAccessSettings, SetSynchronizationEnabled, ListResources, ResyncViaApi, workerVars
    <2>2. CASE Reconciler
      <3>1. resyncs' = resyncs \/ StartResync
        BY <2>2 DEF Reconciler, ApplyApiAccessSettings, SetSynchronizationEnabled
      <3>2. ASSUME StartResync
            PROVE  \A n \in Runs : resyncs'[n].memo = resyncs[n].memo \/ resyncs'[n].memo = [d \in Configs |-> NotFetched]
        BY <3>2, OneResyncStarts
      <3> QED
        BY <1>2, <2>1, <3>1, <3>2
    <2>3. CASE \E n \in Runs : ListResources(n) \/ ResyncViaApi(n)
      <3> PICK n \in Runs : ListResources(n) \/ ResyncViaApi(n)
        BY <2>3
      <3>1. \A m \in Runs : resyncs'[m].memo = resyncs[m].memo
        BY ResourcesAreListed, OneJobIsEnqueued
      <3> QED
        BY <1>2, <2>1, <3>1
    <2> QED
      BY <1>4, <2>2, <2>3
  <1>5. ASSUME \/ HandleEvent \/ EnqueueRetry \/ UNCHANGED vars \/ DeleteMonitoring
               \/ \E m \in scenario.monitoringStates : ChangeMonitoring(m)
               \/ \E r \in Resources, snap \in scenario.snapshots \cup {Absent} : ChangeResource(r, snap)
               \/ \E r \in Resources : RetryFailedSynchronization(r) \/ TakeJob(r)
        PROVE  ErrorsInv'
    <2>1. UNCHANGED <<failures, results, resyncs>>
      BY <1>5 DEF HandleEvent, EnqueueRetry, vars, workerVars, DeleteMonitoring, ChangeMonitoring, ChangeResource,
         RetryFailedSynchronization, TakeJob
    <2> QED
      BY <1>2, <2>1
  <1> QED
    BY <1>1, <1>3, <1>4, <1>5 DEF Next, Environment, Worker

LEMMA DashboardInvStays ==
  ASSUME TypeInv, DashboardInv, [Next]_vars
  PROVE  DashboardInv'
  <1>S. scenario' = scenario /\ scenario \in Scenarios /\ VersionsIn(scenario)' = VersionsIn(scenario)
    BY ScenarioStays, VersionsStay DEF TypeInv, QueueTypes
  <1>1. ASSUME NEW c \in Configs, SynchronizeViaApi(c)
        PROVE  DashboardInv'
    <2> SUFFICES ASSUME ~scenario.mapsToMultipleApiObjects, NEW d \in Configs, NEW r \in Resources,
                        NEW i \in Items, NEW x \in VersionsIn(scenario), objects'[d][r][i] # "none"
                 PROVE  x.rules[i] # "none"
      BY <1>S DEF DashboardInv
    <2>1. pc = "configs"
      BY <1>1 DEF SynchronizeViaApi
    <2>2. PICK fetched, outcome, landed : ApiStep(c, fetched, outcome, landed)
      BY <1>1, ApiStepExists
    <2>3. PICK requests : ExecuteAllApiCalls(c, requests, outcome, landed)
      BY <2>2 DEF ApiStep
    <2>4. objects[d][r][i] # "none" \/ job.snapshot.rules[i] # "none"
      BY <2>1, <2>3, ObjectsOfTheStep
    <2>5. job.snapshot \in VersionsIn(scenario)
      BY <2>1 DEF TypeInv, QueueTypes, WorkerTypes, JobsAbout
    <2> QED
      BY <1>S, <2>4, <2>5, ScenariosAssumption DEF DashboardInv
  <1>2. ASSUME UNCHANGED objects
        PROVE  DashboardInv'
    BY <1>2, <1>S DEF DashboardInv
  <1>3. ASSUME Next, ~(\E c \in Configs : SynchronizeViaApi(c)) PROVE UNCHANGED objects
    BY <1>3 DEF Next, Environment, Worker, Reconciler, ChangeResource, ChangeMonitoring, DeleteMonitoring,
        Restart, HandleEvent, TakeJob, ValidatePreconditions, WriteSynchronizationResult,
        ApplyApiAccessSettings, SetSynchronizationEnabled, ListResources, ResyncViaApi,
        RetryFailedSynchronization, EnqueueRetry
  <1> QED
    BY <1>1, <1>2, <1>3 DEF vars

LEMMA RunInvStays ==
  ASSUME TypeInv, RunInv, [Next]_vars
  PROVE  RunInv'
  <1> PICK V : V = VersionsIn(scenario)
    OBVIOUS
  <1>N. \A n \in Runs : n # 0
    BY DEF Runs
  <1>J. \A j \in JobsAbout(V) : j # NoJob /\ j.resource \in Resources
    BY JobsAreRecords DEF TypeInv, QueueTypes, JobsAbout
  <1>P. /\ pending \in [Resources -> JobsAbout(V) \cup {NoJob}] /\ job \in JobsAbout(V) \cup {NoJob}
        /\ \A r \in Resources : pending[r] # NoJob => pending[r].resource = r
    BY DEF TypeInv, QueueTypes
  <1>R. /\ DOMAIN resyncs = Runs
        /\ \A n \in Runs : /\ DOMAIN resyncs[n] = {"pc", "list", "memo"}
                           /\ resyncs[n].list \subseteq ResyncJobs(V, n)
                           /\ resyncs[n].memo \in [Configs -> Fetched]
    BY DEF TypeInv, ResyncTypes
  \* Nothing is new for any run.
  <1>1. ASSUME /\ \A r \in Resources, n \in Runs : HasPending(r, n)' => HasPending(r, n)
               /\ \A r \in Resources, n \in Runs : IsWorkingOn(r, n)' => IsWorkingOn(r, n)
               /\ resyncs' = resyncs
        PROVE  RunInv'
    <2>1. \A n \in Runs : resyncs[n].list \subseteq JobsAbout(V)
      BY <1>R DEF ResyncJobs
    <2> QED
      BY <1>1, <1>J, <2>1 DEF RunInv
  <1>2. ASSUME HandleEvent \/ EnqueueRetry
        PROVE  RunInv'
    <2>1. \E r, j : j.run = 0 /\ pending' = [pending EXCEPT ![r] = j]
      BY <1>2 DEF HandleEvent, EnqueueRetry, Job, TypeInv, QueueTypes
    <2>2. resyncs' = resyncs /\ job' = job
      BY <1>2 DEF HandleEvent, EnqueueRetry, workerVars
    <2>3. \A r \in Resources, n \in Runs : HasPending(r, n)' => HasPending(r, n)
      BY <1>N, <1>P, <2>1 DEF HasPending
    <2>4. \A r \in Resources, n \in Runs : IsWorkingOn(r, n)' => IsWorkingOn(r, n)
      BY <2>2 DEF IsWorkingOn
    <2> QED
      BY <1>1, <2>2, <2>3, <2>4
  <1>3. ASSUME NEW r \in Resources, TakeJob(r)
        PROVE  RunInv'
    <2>1. /\ pending[r] # NoJob /\ job' = pending[r] /\ pending' = [pending EXCEPT ![r] = NoJob]
          /\ resyncs' = resyncs
      BY <1>3 DEF TakeJob
    <2>2. \A q \in Resources, n \in Runs : HasPending(q, n)' => q # r /\ HasPending(q, n)
      BY <1>P, <2>1 DEF HasPending
    <2>3. \A q \in Resources, n \in Runs : IsWorkingOn(q, n)' => q = r /\ HasPending(q, n)
      BY <1>P, <2>1 DEF HasPending, IsWorkingOn
    <2>4. \A n \in Runs : resyncs[n].list \subseteq JobsAbout(V)
      BY <1>R DEF ResyncJobs
    <2> QED
      BY <1>J, <2>1, <2>2, <2>3, <2>4 DEF RunInv
  <1>4. ASSUME ValidatePreconditions \/ WriteSynchronizationResult
        PROVE  RunInv'
    <2>1. job' \in {job, NoJob} /\ UNCHANGED <<pending, resyncs>>
      BY <1>4 DEF ValidatePreconditions, WriteSynchronizationResult
    <2>2. \A r \in Resources, n \in Runs : HasPending(r, n)' => HasPending(r, n)
      BY <2>1 DEF HasPending
    <2>3. \A r \in Resources, n \in Runs : IsWorkingOn(r, n)' => IsWorkingOn(r, n)
      BY <2>1 DEF IsWorkingOn
    <2> QED
      BY <1>1, <2>1, <2>2, <2>3
  <1>5. ASSUME NEW c \in Configs, SynchronizeViaApi(c)
        PROVE  RunInv'
    <2>1. pc = "configs" /\ UNCHANGED <<pending, job>>
      BY <1>5 DEF SynchronizeViaApi
    <2>2. PICK fetched, outcome, landed : ApiStep(c, fetched, outcome, landed)
      BY <1>5, ApiStepExists
    <2>3. IsWorkingOn(job.resource, job.run) /\ job.resource \in Resources
      BY <1>J, <1>P, <2>1 DEF IsWorkingOn, TypeInv, WorkerTypes
    <2>4. \A n \in Runs : resyncs'[n].pc = resyncs[n].pc /\ resyncs'[n].list = resyncs[n].list
      BY <2>1, <2>2, OneAnswerIsMemoized
    <2>5. \A n \in Runs : resyncs[n].pc = "list" => n # job.run
      BY <2>3 DEF RunInv
    <2>6. \A n \in Runs : resyncs[n].pc = "list" => \A d \in Configs : resyncs'[n].memo[d] = resyncs[n].memo[d]
      BY <2>1, <2>2, <2>5, OneAnswerIsMemoized
    <2> QED
      BY <2>1, <2>4, <2>6 DEF RunInv, HasPending, IsWorkingOn
  <1>6. ASSUME StartResync, UNCHANGED <<pending, job>>
        PROVE  RunInv'
    <2>1. PICK n \in Runs \ RunsInUse :
             /\ \A m \in Runs : m # n => resyncs'[m] = resyncs[m]
             /\ resyncs'[n].pc = "list" /\ resyncs'[n].memo = [c \in Configs |-> NotFetched]
      BY <1>6, OneResyncStarts
    <2>2. \A r \in Resources : ~HasPending(r, n) /\ ~IsWorkingOn(r, n)
      BY DEF RunsInUse, HasPending, IsWorkingOn
    <2>3. resyncs'[n].pc = "list" /\ \A c \in Configs : ~resyncs'[n].memo[c].known
      BY <2>1, NotFetchedIsFetched
    <2> QED
      BY <1>6, <2>1, <2>2, <2>3 DEF RunInv, HasPending, IsWorkingOn
  <1>7. ASSUME NEW n \in Runs, ListResources(n)
        PROVE  RunInv'
    <2>1. /\ \A m \in Runs : m # n => resyncs'[m] = resyncs[m]
          /\ resyncs'[n].list = Listed(n) /\ resyncs'[n].pc \in {"free", "enqueue"}
      BY <1>7, ResourcesAreListed
    <2>2. resyncs[n].pc = "list" /\ UNCHANGED <<pending, job>>
      BY <1>7 DEF ListResources, workerVars
    <2>3. \A j, k \in Listed(n) : j.resource \in Resources /\ (j.resource = k.resource => j = k)
      BY DEF Listed, Job
    <2>6. \A r \in Resources : ~HasPending(r, n)' /\ ~IsWorkingOn(r, n)'
      BY <2>2 DEF RunInv, HasPending, IsWorkingOn
    <2>7. \A m \in Runs : m # n => \A r \in Resources : /\ HasPending(r, m)' <=> HasPending(r, m)
                                                        /\ IsWorkingOn(r, m)' <=> IsWorkingOn(r, m)
      BY <2>2 DEF HasPending, IsWorkingOn
    <2>8. \A m \in Runs : resyncs[m].list \subseteq JobsAbout(V)
      BY <1>R DEF ResyncJobs
    <2> QED
      BY <1>J, <2>1, <2>3, <2>6, <2>7, <2>8 DEF RunInv
  <1>8. ASSUME NEW n \in Runs, ResyncViaApi(n)
        PROVE  RunInv'
    <2>1. PICK j \in resyncs[n].list :
            /\ pending' = [pending EXCEPT ![j.resource] = j]
            /\ \A m \in Runs : m # n => resyncs'[m] = resyncs[m]
            /\ resyncs'[n].list = resyncs[n].list \ {j} /\ resyncs'[n].memo = resyncs[n].memo
            /\ resyncs'[n].pc \in {"free", "enqueue"}
      BY <1>8, OneJobIsEnqueued
    <2>2. resyncs[n].pc = "enqueue" /\ job' = job
      BY <1>8 DEF ResyncViaApi, workerVars
    <2>3. j \in JobsAbout(V) /\ j.run = n
      BY <1>R DEF ResyncJobs
    <2>7. \A r \in Resources, m \in Runs : HasPending(r, m)' => HasPending(r, m) \/ (r = j.resource /\ m = n)
      BY <1>P, <2>1, <2>3 DEF HasPending
    <2>8. \A r \in Resources, m \in Runs : IsWorkingOn(r, m)' <=> IsWorkingOn(r, m)
      BY <2>2 DEF IsWorkingOn
    <2>9. ~IsWorkingOn(j.resource, n) /\ \A k \in resyncs[n].list : k.resource = j.resource => k = j
      BY <2>2 DEF RunInv
    <2>10. \A m \in Runs : resyncs[m].list \subseteq JobsAbout(V)
      BY <1>R DEF ResyncJobs
    <2> QED
      BY <1>J, <2>1, <2>2, <2>3, <2>7, <2>8, <2>9, <2>10 DEF RunInv
  <1>9. ASSUME Restart
        PROVE  RunInv'
    <2>1. /\ pending' = [r \in Resources |-> NoJob] /\ job' = NoJob
          /\ \A n \in Runs : resyncs'[n].pc = "free"
      BY <1>9 DEF Restart
    <2> QED
      BY <2>1 DEF RunInv, HasPending, IsWorkingOn
  <1>10. ASSUME Reconciler
         PROVE  UNCHANGED <<pending, job>> /\ (StartResync \/ resyncs' = resyncs)
    BY <1>10 DEF Reconciler, ApplyApiAccessSettings, SetSynchronizationEnabled, workerVars
  <1>11. ASSUME UNCHANGED <<pending, job, resyncs>>
         PROVE  RunInv'
    BY <1>11 DEF RunInv, HasPending, IsWorkingOn
  <1>12. ASSUME \/ UNCHANGED vars \/ DeleteMonitoring
                \/ \E m \in scenario.monitoringStates : ChangeMonitoring(m)
                \/ \E r \in Resources, snap \in scenario.snapshots \cup {Absent} : ChangeResource(r, snap)
                \/ \E r \in Resources : RetryFailedSynchronization(r)
         PROVE  UNCHANGED <<pending, job, resyncs>>
    BY <1>12 DEF vars, workerVars, DeleteMonitoring, ChangeMonitoring, ChangeResource, RetryFailedSynchronization
  <1> QED
    BY <1>2, <1>3, <1>4, <1>5, <1>6, <1>7, <1>8, <1>9, <1>10, <1>11, <1>12 DEF Next, Environment, Worker
-----------------------------------------------------------------------------
(* The last word about a resource is about its current version.            *)

LEMMA CurrentInvStays ==
  ASSUME TypeInv, scenario.quietResync, CurrentInv, [Next]_vars
  PROVE  CurrentInv'
  <1> PICK V : V = VersionsIn(scenario)
    OBVIOUS
  <1>V. Absent \notin V
    BY VersionsAreSnapshots DEF TypeInv, QueueTypes
  <1>J. \A j \in JobsAbout(V) : j # NoJob /\ j.resource \in Resources
    BY JobsAreRecords DEF TypeInv, QueueTypes, JobsAbout
  <1>Q. /\ cluster \in [Resources -> V \cup {Absent}] /\ events \in Seq(EventsAbout(V))
        /\ pending \in [Resources -> JobsAbout(V) \cup {NoJob}] /\ job \in JobsAbout(V) \cup {NoJob}
        /\ \A r \in Resources : pending[r] # NoJob => pending[r].resource = r
        /\ retry \in JobsAbout(V) \cup {NoJob}
    BY DEF TypeInv, QueueTypes
  <1>E. Len(events) \in Nat /\ \A k \in 1 .. Len(events) : events[k] \in EventsAbout(V) /\ events[k].resource \in Resources
    <2>1. \A e \in EventsAbout(V) : e.resource \in Resources
      BY DEF EventsAbout
    <2>2. events \in Seq(EventsAbout(V))
      BY <1>Q
    <2>3. Len(events) \in Nat /\ \A k \in 1 .. Len(events) : events[k] \in EventsAbout(V)
      BY <2>2
    <2> QED
      BY <2>1, <2>3
  <1>R. \A n \in Runs : resyncs[n].list \subseteq JobsAbout(V)
    BY DEF TypeInv, ResyncTypes, ResyncJobs
  <1>1. ASSUME UNCHANGED <<cluster, events, pending, retry>>, job' \in {job, NoJob},
               \A n \in Runs : resyncs'[n].pc = "enqueue" =>
                 resyncs[n].pc = "enqueue" /\ resyncs'[n].list = resyncs[n].list
        PROVE  CurrentInv'
    BY <1>1 DEF CurrentInv, IsCurrent, IsLastEvent, HasEvent
  <1>2. ASSUME NEW r \in Resources, NEW snap \in scenario.snapshots \cup {Absent}, ChangeResource(r, snap)
        PROVE  CurrentInv'
    <2>1. /\ cluster' = [cluster EXCEPT ![r] = snap]
          /\ retry = NoJob /\ \A n \in Runs : resyncs[n].pc # "enqueue"
          /\ UNCHANGED <<pending, job, retry, resyncs>>
      BY <1>2 DEF ChangeResource, EnqueuingRuns, workerVars
    <2>2. PICK e : /\ events' = Append(events, e) /\ e.resource = r
                   /\ IF snap = Absent THEN e.action = "delete" ELSE e.action = "upsert" /\ e.snapshot = snap
      BY <1>2 DEF ChangeResource
    <2>3. \A q \in Resources : q # r => cluster'[q] = cluster[q]
      BY <1>Q, <2>1
    <2>4. cluster'[r] = snap
      BY <1>Q, <2>1
    <2>5. /\ Len(events') = Len(events) + 1 /\ events'[Len(events) + 1] = e
          /\ \A k \in 1 .. Len(events) : events'[k] = events[k]
      BY <1>Q, <2>2
    <2>6. \A q \in Resources : HasEvent(q)' <=> HasEvent(q) \/ q = r
      BY <1>E, <2>2, <2>5 DEF HasEvent
    <2>7. ASSUME NEW k \in 1 .. Len(events'), IsLastEvent(k)'
          PROVE  IsCurrent(events[k])'
      <3>1. CASE k = Len(events) + 1
        BY <2>2, <2>4, <2>5, <3>1 DEF IsCurrent
      <3>2. CASE k # Len(events) + 1
        <4>1. k \in 1 .. Len(events) /\ events'[k] = events[k]
          BY <1>E, <2>5, <3>2
        <4>2. events[k].resource # r
          BY <1>E, <2>2, <2>5, <2>7, <4>1 DEF IsLastEvent
        <4>3. IsLastEvent(k)
          BY <1>E, <2>5, <2>7, <4>1 DEF IsLastEvent
        <4>4. IsCurrent(events[k])
          BY <4>1, <4>3 DEF CurrentInv
        <4> QED
          BY <1>E, <2>3, <4>1, <4>2, <4>4 DEF IsCurrent
      <3> QED
        BY <3>1, <3>2
    <2>8. ASSUME NEW q \in Resources, pending[q] # NoJob, ~HasEvent(q)'
          PROVE  IsCurrent(pending[q])'
      <3>1. q # r /\ ~HasEvent(q)
        BY <2>6, <2>8
      <3>2. IsCurrent(pending[q]) /\ pending[q].resource = q
        BY <1>Q, <2>8, <3>1 DEF CurrentInv
      <3> QED
        BY <2>1, <2>3, <3>1, <3>2 DEF IsCurrent
    <2>9. ASSUME job # NoJob, pending[job.resource] = NoJob, ~HasEvent(job.resource)'
          PROVE  IsCurrent(job)'
      <3>0. job.resource \in Resources
        BY <1>J, <1>Q, <2>9
      <3>1. job.resource # r /\ ~HasEvent(job.resource)
        <4> PICK q : q = job.resource
          OBVIOUS
        <4>1. ~HasEvent(q)'
          BY <2>1, <2>9 DEF HasEvent
        <4> QED
          BY <2>6, <3>0, <4>1
      <3>2. IsCurrent(job)
        BY <2>9, <3>1 DEF CurrentInv
      <3> QED
        BY <2>1, <2>3, <3>0, <3>1, <3>2 DEF IsCurrent
    <2> QED
      BY <2>1, <2>7, <2>8, <2>9 DEF CurrentInv
  <1>3. ASSUME HandleEvent
        PROVE  CurrentInv'
    <2> DEFINE e == Head(events)
               j == Job(e.resource, e.action, e.snapshot, 0)
    <2>1. /\ events # <<>> /\ events' = Tail(events) /\ pending' = [pending EXCEPT ![e.resource] = j]
          /\ UNCHANGED <<cluster, job, retry, resyncs>>
      BY <1>3 DEF HandleEvent, workerVars
    <2>2. /\ Len(events) >= 1 /\ e = events[1] /\ Len(events') = Len(events) - 1
          /\ \A k \in 1 .. Len(events') : events'[k] = events[k + 1]
      BY <1>Q, <2>1
    <2>3. j.resource = e.resource /\ j.action = e.action /\ j.snapshot = e.snapshot /\ e.resource \in Resources
      BY <1>E, <2>2 DEF Job
    <2> HIDE DEF j, e
    <2> PICK a \in Resources : a = e.resource
      BY <2>3
    <2>4. \A q \in Resources : q # e.resource => (HasEvent(q)' <=> HasEvent(q))
      <3> SUFFICES ASSUME NEW q \in Resources, q # e.resource
                   PROVE  HasEvent(q)' <=> HasEvent(q)
        OBVIOUS
      <3>1. ASSUME HasEvent(q)' PROVE HasEvent(q)
        BY <1>E, <2>2, <3>1 DEF HasEvent
      <3>2. ASSUME HasEvent(q) PROVE HasEvent(q)'
        <4>1. PICK k \in 1 .. Len(events) : events[k].resource = q
          BY <3>2 DEF HasEvent
        <4>2. k # 1
          BY <2>2, <4>1
        <4>3. k - 1 \in 1 .. Len(events') /\ events'[k - 1] = events[k]
          BY <1>E, <2>2, <4>2
        <4> QED
          BY <4>1, <4>3 DEF HasEvent
      <3> QED
        BY <3>1, <3>2
    <2>5. ASSUME ~HasEvent(a)'
          PROVE  IsLastEvent(1)
      <3> SUFFICES ASSUME NEW l \in 1 .. Len(events), l > 1, events[l].resource = events[1].resource
                   PROVE  FALSE
        BY DEF IsLastEvent
      <3>1. l - 1 \in 1 .. Len(events') /\ events'[l - 1] = events[l]
        BY <1>E, <2>2
      <3>2. events'[l - 1].resource = a
        BY <2>2, <3>1
      <3> QED
        BY <2>5, <3>1, <3>2 DEF HasEvent
    <2>6. ASSUME NEW k \in 1 .. Len(events'), IsLastEvent(k)'
          PROVE  IsCurrent(events[k])'
      <3>1. k + 1 \in 1 .. Len(events) /\ events'[k] = events[k + 1]
        BY <1>E, <2>2
      <3>2. IsLastEvent(k + 1)
        <4> SUFFICES ASSUME NEW l \in 1 .. Len(events), l > k + 1
                     PROVE  events[l].resource # events[k + 1].resource
          BY DEF IsLastEvent
        <4>1. l - 1 \in 1 .. Len(events') /\ events'[l - 1] = events[l] /\ l - 1 > k
          BY <1>E, <2>2
        <4> QED
          BY <2>6, <3>1, <4>1 DEF IsLastEvent
      <3> QED
        BY <2>1, <3>1, <3>2 DEF CurrentInv, IsCurrent
    <2>7. ASSUME NEW q \in Resources, pending'[q] # NoJob, ~HasEvent(q)'
          PROVE  IsCurrent(pending[q])'
      <3>1. CASE q = e.resource
        <4>1. IsLastEvent(1)
          <5>1. ~HasEvent(a)'
            BY <2>7, <3>1
          <5> QED
            BY <2>5, <5>1
        <4>2. IsCurrent(e)
          BY <1>E, <2>2, <4>1 DEF CurrentInv
        <4>3. pending'[q] = j
          BY <1>Q, <2>1, <3>1
        <4> QED
          BY <2>1, <2>3, <4>2, <4>3 DEF IsCurrent
      <3>2. CASE q # e.resource
        <4>1. pending'[q] = pending[q] /\ ~HasEvent(q)
          BY <1>Q, <2>1, <2>4, <2>7, <3>2
        <4>2. IsCurrent(pending[q])
          BY <2>7, <4>1 DEF CurrentInv
        <4> QED
          BY <2>1, <4>1, <4>2 DEF IsCurrent
      <3> QED
        BY <3>1, <3>2
    <2>8. ASSUME job # NoJob, pending'[job.resource] = NoJob, ~HasEvent(job.resource)'
          PROVE  IsCurrent(job)'
      <3>0. PICK q \in Resources : q = job.resource
        BY <1>J, <1>Q, <2>8
      <3>1. q # e.resource
        <4>1. j # NoJob
          <5>1. j \in JobsAbout(V)
            BY <1>E, <2>2, MaxResyncsAssumption DEF j, Job, JobsAbout, EventsAbout
          <5> QED
            BY <1>J, <5>1
        <4> QED
          BY <1>Q, <2>1, <2>8, <3>0, <4>1
      <3>2. ~HasEvent(q)' /\ pending[q] = NoJob
        BY <1>Q, <2>1, <2>8, <3>0, <3>1 DEF HasEvent
      <3>3. ~HasEvent(q)
        BY <2>4, <3>1, <3>2
      <3>4. IsCurrent(job)
        BY <2>8, <3>0, <3>2, <3>3 DEF CurrentInv
      <3> QED
        BY <2>1, <3>4 DEF IsCurrent
    <2>9. ASSUME retry # NoJob PROVE IsCurrent(retry)'
      BY <2>1, <2>9 DEF CurrentInv, IsCurrent
    <2>10. ASSUME NEW n \in Runs PROVE resyncs'[n].pc # "enqueue"
      BY <2>1, <2>10 DEF CurrentInv
    <2> QED
      BY <2>1, <2>6, <2>7, <2>8, <2>9, <2>10 DEF CurrentInv
  <1>4. ASSUME NEW r \in Resources, TakeJob(r)
        PROVE  CurrentInv'
    <2>1. /\ pending[r] # NoJob /\ job' = pending[r] /\ pending' = [pending EXCEPT ![r] = NoJob]
          /\ UNCHANGED <<cluster, events, retry, resyncs>>
      BY <1>4 DEF TakeJob
    <2>2. \A q \in Resources : pending'[q] # NoJob => pending'[q] = pending[q]
      BY <1>Q, <2>1
    <2>3. job'.resource = r
      BY <1>Q, <2>1
    <2> QED
      BY <2>1, <2>2, <2>3 DEF CurrentInv, IsCurrent, IsLastEvent, HasEvent
  \* A current job is enqueued.
  <1>5. ASSUME NEW j \in JobsAbout(V), IsCurrent(j), pending' = [pending EXCEPT ![j.resource] = j],
               UNCHANGED <<cluster, events, job>>, retry' \in {retry, NoJob},
               \A n \in Runs : resyncs'[n].pc = "enqueue" =>
                 resyncs[n].pc = "enqueue" /\ resyncs'[n].list \subseteq resyncs[n].list
        PROVE  CurrentInv'
    <2>1. \A q \in Resources : pending'[q] = IF q = j.resource THEN j ELSE pending[q]
      BY <1>Q, <1>J, <1>5
    <2>2. \A q : HasEvent(q)' <=> HasEvent(q)
      BY <1>5 DEF HasEvent
    <2>3. ASSUME NEW q \in Resources, pending'[q] # NoJob, ~HasEvent(q)'
          PROVE  IsCurrent(pending[q])'
      BY <1>5, <2>1, <2>2, <2>3 DEF CurrentInv, IsCurrent
    <2>4. ASSUME job' # NoJob, pending'[job.resource] = NoJob, ~HasEvent(job.resource)'
          PROVE  IsCurrent(job)'
      <3>0. PICK q \in Resources : q = job.resource
        BY <1>J, <1>Q, <1>5, <2>4
      <3>1. ~HasEvent(q)' /\ pending[q] = NoJob
        BY <1>5, <1>J, <2>1, <2>4, <3>0 DEF HasEvent
      <3>2. IsCurrent(job)
        BY <1>5, <2>2, <2>4, <3>0, <3>1 DEF CurrentInv
      <3> QED
        BY <1>5, <3>2 DEF IsCurrent
    <2>5. \A k \in 1 .. Len(events) : IsLastEvent(k)' => IsCurrent(events[k])'
      BY <1>5 DEF CurrentInv, IsCurrent, IsLastEvent
    <2>6. retry' # NoJob => IsCurrent(retry)'
      BY <1>5 DEF CurrentInv, IsCurrent
    <2>7. \A n \in Runs : resyncs'[n].pc = "enqueue" =>
            events' = <<>> /\ \A k \in resyncs'[n].list : IsCurrent(k)'
      BY <1>5 DEF CurrentInv, IsCurrent
    <2> QED
      BY <1>5, <2>3, <2>4, <2>5, <2>6, <2>7 DEF CurrentInv
  <1>6. ASSUME NEW n \in Runs, ResyncViaApi(n)
        PROVE  CurrentInv'
    <2>1. PICK j \in resyncs[n].list :
           /\ pending' = [pending EXCEPT ![j.resource] = j]
           /\ \A m \in Runs : m # n => resyncs'[m] = resyncs[m]
           /\ resyncs'[n].list = resyncs[n].list \ {j}
      BY <1>6, OneJobIsEnqueued
    <2>2. resyncs[n].pc = "enqueue" /\ UNCHANGED <<cluster, events, job, retry>>
      BY <1>6 DEF ResyncViaApi, workerVars
    <2>3. j \in JobsAbout(V) /\ IsCurrent(j)
      BY <1>R, <2>2 DEF CurrentInv
    <2>4. \A m \in Runs : resyncs'[m].pc = "enqueue" =>
                 resyncs[m].pc = "enqueue" /\ resyncs'[m].list \subseteq resyncs[m].list
      BY <2>1, <2>2
    <2> QED
      BY <1>5, <2>1, <2>2, <2>3, <2>4
  <1>7. ASSUME EnqueueRetry
        PROVE  CurrentInv'
    <2>1. /\ retry # NoJob /\ pending' = [pending EXCEPT ![retry.resource] = retry] /\ retry' = NoJob
          /\ UNCHANGED <<cluster, events, job, resyncs>>
      BY <1>7 DEF EnqueueRetry, workerVars
    <2>2. retry \in JobsAbout(V) /\ IsCurrent(retry)
      BY <1>Q, <2>1 DEF CurrentInv
    <2> QED
      BY <1>5, <2>1, <2>2
  <1>8. ASSUME NEW r \in Resources, RetryFailedSynchronization(r)
        PROVE  CurrentInv'
    <2>1. /\ retry' = Job(r, "upsert", cluster[r], 0) /\ cluster[r] # Absent
          /\ UNCHANGED <<cluster, events, pending, job, resyncs>>
      BY <1>8 DEF RetryFailedSynchronization, workerVars
    <2>2. IsCurrent(retry)'
      BY <2>1 DEF IsCurrent, Job
    <2> QED
      BY <2>1, <2>2 DEF CurrentInv, IsCurrent, IsLastEvent, HasEvent
  <1>9. ASSUME NEW n \in Runs, ListResources(n)
        PROVE  CurrentInv'
    <2>1. events = <<>> /\ UNCHANGED <<cluster, events, pending, job, retry>>
      BY <1>9 DEF ListResources, workerVars
    <2>2. \A m \in Runs : m # n => resyncs'[m] = resyncs[m]
      BY <1>9, ResourcesAreListed
    <2>3. resyncs'[n].list = Listed(n)
      BY <1>9, ResourcesAreListed
    <2>4. \A j \in Listed(n) : IsCurrent(j)'
      BY <2>1 DEF Listed, Job, IsCurrent
    <2>5. \A m \in Runs : resyncs'[m].pc = "enqueue" =>
            events' = <<>> /\ \A j \in resyncs'[m].list : IsCurrent(j)'
      BY <2>1, <2>2, <2>3, <2>4 DEF CurrentInv, IsCurrent
    <2> QED
      BY <2>1, <2>5 DEF CurrentInv, IsCurrent, IsLastEvent, HasEvent
  <1>10. ASSUME Restart
         PROVE  CurrentInv'
    <2>1. /\ pending' = [r \in Resources |-> NoJob] /\ job' = NoJob /\ retry' = NoJob /\ cluster' = cluster
          /\ \A n \in Runs : resyncs'[n].pc = "free"
      BY <1>10 DEF Restart
    <2>2. \A k \in 1 .. Len(events') : /\ events'[k].action = "upsert" /\ cluster[events'[k].resource] # Absent
                                       /\ events'[k].snapshot = cluster[events'[k].resource]
      BY <1>10, <1>Q, EveryResourceIsAnnounced DEF Restart
    <2> QED
      BY <2>1, <2>2 DEF CurrentInv, IsCurrent
  <1>11. ASSUME NEW c \in Configs, SynchronizeViaApi(c)
         PROVE  CurrentInv'
    <2>1. pc = "configs" /\ UNCHANGED <<cluster, events, pending, retry, job>>
      BY <1>11 DEF SynchronizeViaApi
    <2>2. PICK fetched, outcome, landed : ApiStep(c, fetched, outcome, landed)
      BY <1>11, ApiStepExists
    <2>3. \A n \in Runs : resyncs'[n].pc = resyncs[n].pc /\ resyncs'[n].list = resyncs[n].list
      BY <2>1, <2>2, OneAnswerIsMemoized
    <2> QED
      BY <1>1, <2>1, <2>3
  <1>12. ASSUME Reconciler
         PROVE  CurrentInv'
    <2>1. UNCHANGED <<cluster, events, pending, retry, job>> /\ (StartResync \/ resyncs' = resyncs)
      BY <1>12 DEF Reconciler, ApplyApiAccessSettings, SetSynchronizationEnabled, workerVars
    <2>2. \A n \in Runs : resyncs'[n].pc = "enqueue" =>
                 resyncs[n].pc = "enqueue" /\ resyncs'[n].list = resyncs[n].list
      <3>1. ASSUME StartResync
            PROVE  \A n \in Runs : resyncs'[n].pc = "enqueue" =>
                     resyncs[n].pc = "enqueue" /\ resyncs'[n].list = resyncs[n].list
        BY <3>1, OneResyncStarts
      <3> QED
        BY <2>1, <3>1
    <2> QED
      BY <1>1, <2>1, <2>2
  <1>13. ASSUME \/ UNCHANGED vars \/ DeleteMonitoring \/ ValidatePreconditions \/ WriteSynchronizationResult
                \/ \E m \in scenario.monitoringStates : ChangeMonitoring(m)
         PROVE  CurrentInv'
    <2>1. UNCHANGED <<cluster, events, pending, retry, resyncs>> /\ job' \in {job, NoJob}
      BY <1>13 DEF vars, workerVars, DeleteMonitoring, ChangeMonitoring, ValidatePreconditions, WriteSynchronizationResult
    <2> QED
      BY <1>1, <2>1
  <1> QED
    BY <1>2, <1>3, <1>4, <1>6, <1>7, <1>8, <1>9, <1>10, <1>11, <1>12, <1>13 DEF Next, Environment, Worker
-----------------------------------------------------------------------------
(* The answers of the list call and what the requests achieve.             *)

\* Where the answer comes from: it is a new one, a memoized one, or none is needed.
LEMMA AnswerIsGoodEnough ==
  ASSUME TypeInv, MemoInv, NEW c \in Configs, pc = "configs", c \in todo,
         NEW fetched \in FetchExistingOriginsForResource(c)
  PROVE  /\ fetched.known => fetched.err = "ok"
         /\ fetched.known => Covers(fetched, c, job.resource, job.snapshot)
         /\ fetched.known /\ job.run = 0 =>
              \A i \in Items : objects[c][job.resource][i] # "none" => i \in fetched.origins[job.resource]
         /\ ~fetched.known /\ fetched.err = "ok" =>
              ~UsesOriginsInNamespace /\ ~scenario.mapsToMultipleApiObjects
         /\ UsesOriginsInNamespace /\ ~IsMemoized(job.run, c) => fetched \in Fetch(c)
         /\ UsesOriginsInNamespace /\ IsMemoized(job.run, c) => fetched = resyncs[job.run].memo[c]
  <1>1. job.resource \in Resources /\ job.run \in 0 .. MaxResyncs /\ job # NoJob
    BY DEF TypeInv, QueueTypes, WorkerTypes, JobsAbout
  <1>2. CASE UsesOriginsInNamespace /\ IsMemoized(job.run, c)
    <2>1. fetched = resyncs[job.run].memo[c] /\ fetched # NotFetched
      BY <1>2 DEF FetchExistingOriginsForResource, GetOriginsInNamespace, IsMemoized
    <2>2. job.run \in Runs /\ job.run # 0
      BY <1>1, <1>2, MaxResyncsAssumption DEF UsesOriginsInNamespace, Runs
    <2>3. ~fetched.known => fetched.err # "ok"
      BY <2>1, <2>2 DEF MemoInv
    <2>4. fetched.known => fetched.err = "ok" /\ Covers(fetched, c, job.resource, job.snapshot)
      BY <1>1, <2>1, <2>2 DEF MemoInv
    <2> QED
      BY <1>2, <2>1, <2>2, <2>3, <2>4
  <1>3. CASE fetched \in Fetch(c) /\ ~(UsesOriginsInNamespace /\ IsMemoized(job.run, c))
    <2>1. \/ /\ fetched.known /\ fetched.err = "ok"
             /\ \A r \in Resources : fetched.origins[r] = {i \in Items : objects[c][r][i] # "none"}
          \/ ~fetched.known /\ fetched.err # "ok"
      BY <1>3, FetchAnswers
    <2> QED
      BY <1>1, <1>3, <2>1 DEF Covers
  <1>4. CASE ~UsesOriginsInNamespace /\ ~scenario.mapsToMultipleApiObjects /\ fetched = NotFetched
    BY <1>4, NotFetchedIsFetched
  <1> QED
    BY <1>2, <1>3, <1>4 DEF FetchExistingOriginsForResource, GetOriginsInNamespace

\* If there is no error in the result, none has occurred.
LEMMA NoErrorMeansSuccess ==
  ASSUME TypeInv, NEW c \in Configs, pc = "configs", NEW fetched, NEW outcome, NEW landed,
         ApiStep(c, fetched, outcome, landed), results'[c].err = "ok"
  PROVE  /\ \A i \in RequestsFor(fetched) : outcome[i] = "ok"
         /\ ~IsSkipped(fetched)
         /\ action = "upsert" => fetched.err = "ok"
  <1>1. results'[c].err = Worst(ErrorsOf(RequestsFor(fetched), outcome, fetched))
    BY DEF ApiStep
  <1>2. scenario.failureCodes \subseteq {"retryable", "permanent"}
    BY ScenariosAssumption DEF TypeInv, QueueTypes
  <1>3. fetched.err \in Errors
    BY RequestsAreAboutItems DEF Fetched
  <1>4. \A i \in RequestsFor(fetched) : outcome[i] \in Errors
    BY <1>2 DEF ApiStep, Errors
  <1>5. "retryable" \notin ErrorsOf(RequestsFor(fetched), outcome, fetched)
        /\ "permanent" \notin ErrorsOf(RequestsFor(fetched), outcome, fetched)
    BY <1>1 DEF Worst
  <1> QED
    BY <1>3, <1>4, <1>5 DEF ErrorsOf, Errors, IsSkipped

\* A delete that covers all there is removes it.
LEMMA DeleteRemovesAll ==
  ASSUME TypeInv, DashboardInv, NEW c \in Configs, pc = "configs", NEW fetched, NEW outcome, NEW landed,
         ApiStep(c, fetched, outcome, landed), action = "delete", results'[c].err = "ok",
         \/ /\ fetched.known
            /\ \A i \in Items : objects[c][job.resource][i] # "none" => i \in fetched.origins[job.resource]
         \/ ~fetched.known /\ ~scenario.mapsToMultipleApiObjects
  PROVE  \A i \in Items : objects'[c][job.resource][i] = "none"
  <1> SUFFICES ASSUME NEW i \in Items
               PROVE  objects'[c][job.resource][i] = "none"
    OBVIOUS
  <1>1. \A k \in RequestsFor(fetched) : outcome[k] = "ok"
    BY NoErrorMeansSuccess
  <1>2. ~IsSkipped(fetched)
    BY NoErrorMeansSuccess
  <1>3. objects'[c][job.resource][i] =
          IF i \in RequestsFor(fetched) THEN "none" ELSE objects[c][job.resource][i]
    <2>1. ExecuteAllApiCalls(c, RequestsFor(fetched), outcome, landed) /\ landed \subseteq RequestsFor(fetched)
      BY DEF ApiStep, Failed
    <2> QED
      BY <1>1, <2>1, ObjectsOfTheStep
  <1>4. job.snapshot \in VersionsIn(scenario) /\ job.resource \in Resources
    BY DEF TypeInv, QueueTypes, WorkerTypes, JobsAbout
  <1>5. ASSUME objects[c][job.resource][i] # "none"
        PROVE  i \in RequestsFor(fetched)
    <2>1. scenario.mapsToMultipleApiObjects \/ job.snapshot.rules[i] # "none"
      BY <1>4, <1>5 DEF DashboardInv
    <2>2. fetched.known => i \in fetched.origins[job.resource]
      BY <1>5
    <2>3. scenario.mapsToMultipleApiObjects => fetched.known
      OBVIOUS
    <2> QED
      BY <1>2, <2>1, <2>2, <2>3 DEF RequestsFor, RemoveDeleteRequestsForObjectsThatDoNotExist,
         MapResourceToApiCalls, OriginsInResource, CreateDeleteRequests
  <1> QED
    BY <1>3, <1>5

\* An upsert writes the valid rules and removes what the resource does not contain.
LEMMA UpsertWritesAll ==
  ASSUME TypeInv, DashboardInv, MemoInv, NEW c \in Configs, pc = "configs", c \in todo,
         NEW fetched, NEW outcome, NEW landed,
         ApiStep(c, fetched, outcome, landed), action = "upsert", results'[c].err = "ok",
         NEW i \in Items, job.snapshot.rules[i] # "invalid"
  PROVE  objects'[c][job.resource][i] = job.snapshot.rules[i]
  <1>1. \A k \in RequestsFor(fetched) : outcome[k] = "ok"
    BY NoErrorMeansSuccess
  <1>2. ~IsSkipped(fetched) /\ fetched.err = "ok"
    BY NoErrorMeansSuccess
  <1>3. objects'[c][job.resource][i] =
          IF i \in RequestsFor(fetched)
          THEN IF job.snapshot.rules[i] \in Contents THEN job.snapshot.rules[i] ELSE "none"
          ELSE objects[c][job.resource][i]
    <2>1. ExecuteAllApiCalls(c, RequestsFor(fetched), outcome, landed) /\ landed \subseteq RequestsFor(fetched)
      BY DEF ApiStep, Failed
    <2> QED
      BY <1>1, <2>1, ObjectsOfTheStep
  <1>4. job.snapshot \in VersionsIn(scenario) /\ job.resource \in Resources
    BY DEF TypeInv, QueueTypes, WorkerTypes, JobsAbout
  <1>5. job.snapshot.rules[i] \in Contents \/ job.snapshot.rules[i] = "none"
    BY <1>4, VersionsAreSnapshots DEF TypeInv, QueueTypes, Snapshots, Rules
  <1>6. CASE job.snapshot.rules[i] \in Contents
    <2>1. i \in RequestsFor(fetched)
      BY <1>2, <1>6 DEF RequestsFor, RemoveDeleteRequestsForObjectsThatDoNotExist, MapResourceToApiCalls
    <2> QED
      BY <1>3, <1>6, <2>1
  <1>7. ASSUME job.snapshot.rules[i] = "none", objects[c][job.resource][i] # "none"
        PROVE  i \in RequestsFor(fetched)
    <2>1. scenario.mapsToMultipleApiObjects
      BY <1>4, <1>7 DEF DashboardInv
    <2>2. fetched \in FetchExistingOriginsForResource(c)
      BY DEF ApiStep
    <2>3. fetched.known
      BY <1>2, <2>1, <2>2, AnswerIsGoodEnough
    <2>4. i \in fetched.origins[job.resource]
      BY <1>7, <2>2, <2>3, AnswerIsGoodEnough DEF Covers
    <2> QED
      BY <1>2, <1>7, <2>1, <2>3, <2>4 DEF RequestsFor, OriginsInResource, CreateDeleteRequests
  <1> QED
    BY <1>3, <1>5, <1>6, <1>7

\* After the requests for a current job the API is in sync, or the result has an error.
LEMMA CurrentJobIsSynchronized ==
  ASSUME TypeInv, DashboardInv, ErrorsInv, MemoInv, NEW c \in Configs, SynchronizeViaApi(c),
         IsCurrent(job),
         cluster[job.resource] = Absent => (scenario.mapsToMultipleApiObjects => failures' = 0)
  PROVE  InSync(job.resource, c)' \/ results'[c].err # "ok"
  <1> SUFFICES ASSUME results'[c].err = "ok"
               PROVE  InSync(job.resource, c)'
    OBVIOUS
  <1>1. pc = "configs" /\ c \in todo /\ UNCHANGED <<cluster, job, scenario>>
    BY DEF SynchronizeViaApi
  <1>2. PICK fetched, outcome, landed : ApiStep(c, fetched, outcome, landed)
    BY ApiStepExists
  <1>3. fetched \in FetchExistingOriginsForResource(c)
    BY <1>2 DEF ApiStep
  <1>4. action = IF job.snapshot.disabled THEN "delete" ELSE job.action
    BY <1>1 DEF TypeInv, WorkerTypes
  <1>5. CASE cluster[job.resource] # Absent /\ ~cluster[job.resource].disabled
    <2>1. action = "upsert" /\ job.snapshot = cluster[job.resource]
      BY <1>4, <1>5 DEF IsCurrent
    <2>2. \A i \in Items : job.snapshot.rules[i] # "invalid" =>
            objects'[c][job.resource][i] = job.snapshot.rules[i]
      BY <1>1, <1>2, <2>1, UpsertWritesAll
    <2> QED
      BY <1>1, <1>5, <2>1, <2>2 DEF InSync
  <1>6. CASE cluster[job.resource] # Absent /\ cluster[job.resource].disabled
    <2>1. action = "delete" /\ job.action = "upsert" /\ job.snapshot.disabled
      BY <1>4, <1>6 DEF IsCurrent
    <2>2. fetched.err = "ok"
      BY <1>1, <1>2, <2>1, NoErrorMeansSuccess DEF IsSkipped
    <2>3. CASE fetched.known
      <3>1. \A i \in Items : objects[c][job.resource][i] # "none" => i \in fetched.origins[job.resource]
        BY <1>1, <1>3, <2>1, <2>3, AnswerIsGoodEnough DEF Covers
      <3>2. \A i \in Items : objects'[c][job.resource][i] = "none"
        BY <1>1, <1>2, <2>1, <2>3, <3>1, DeleteRemovesAll
      <3> QED
        BY <1>1, <1>6, <3>2 DEF InSync, IsRemoved
    <2>4. CASE ~fetched.known
      <3>1. ~scenario.mapsToMultipleApiObjects
        BY <1>1, <1>3, <2>2, <2>4, AnswerIsGoodEnough
      <3>2. \A i \in Items : objects'[c][job.resource][i] = "none"
        BY <1>1, <1>2, <2>1, <2>4, <3>1, DeleteRemovesAll
      <3> QED
        BY <1>1, <1>6, <3>2 DEF InSync, IsRemoved
    <2> QED
      BY <2>3, <2>4
  <1>7. CASE cluster[job.resource] = Absent
    <2>1. action = "delete" /\ job.action = "delete"
      BY <1>4, <1>7 DEF IsCurrent
    <2>2. job.run = 0
      BY <1>1, <2>1 DEF TypeInv, QueueTypes, WorkerTypes
    <2>3. CASE fetched.known
      <3>1. \A i \in Items : objects[c][job.resource][i] # "none" => i \in fetched.origins[job.resource]
        BY <1>1, <1>3, <2>2, <2>3, AnswerIsGoodEnough
      <3>2. \A i \in Items : objects'[c][job.resource][i] = "none"
        BY <1>1, <1>2, <2>1, <2>3, <3>1, DeleteRemovesAll
      <3> QED
        BY <1>1, <1>7, <3>2 DEF InSync, IsRemoved
    <2>4. CASE ~fetched.known
      <3>1. ~scenario.mapsToMultipleApiObjects
        <4> SUFFICES ASSUME scenario.mapsToMultipleApiObjects
                     PROVE  FALSE
          OBVIOUS
        <4>1. fetched.err = "ok"
          BY <1>1, <1>2, <1>7, NothingHasFailed
        <4> QED
          BY <1>1, <1>3, <2>4, <4>1, AnswerIsGoodEnough
      <3>2. \A i \in Items : objects'[c][job.resource][i] = "none"
        BY <1>1, <1>2, <2>1, <2>4, <3>1, DeleteRemovesAll
      <3> QED
        BY <1>1, <1>7, <3>2 DEF InSync, IsRemoved
    <2> QED
      BY <2>3, <2>4
  <1> QED
    BY <1>5, <1>6, <1>7
-----------------------------------------------------------------------------
(* A memoized answer stays good enough.                                    *)

LEMMA MemoInvStays ==
  ASSUME TypeInv, RunInv, CurrentInv, MemoInv, [Next]_vars
  PROVE  MemoInv'
  <1> PICK V : V = VersionsIn(scenario)
    OBVIOUS
  <1>V. V = VersionsIn(scenario)'
    BY VersionsStay DEF TypeInv, QueueTypes
  <1>N. \A n \in Runs : n # 0
    BY DEF Runs
  <1>J. \A j \in JobsAbout(V) : j # NoJob /\ j.resource \in Resources /\ j.snapshot \in V
    BY JobsAreRecords DEF TypeInv, QueueTypes, JobsAbout
  <1>P. /\ pending \in [Resources -> JobsAbout(V) \cup {NoJob}] /\ job \in JobsAbout(V) \cup {NoJob}
        /\ \A r \in Resources : pending[r] # NoJob => pending[r].resource = r
    BY DEF TypeInv, QueueTypes
  <1>R. /\ DOMAIN resyncs = Runs
        /\ \A n \in Runs : /\ DOMAIN resyncs[n] = {"pc", "list", "memo"}
                           /\ resyncs[n].list \subseteq ResyncJobs(V, n)
                           /\ resyncs[n].memo \in [Configs -> Fetched]
    BY DEF TypeInv, ResyncTypes
  <1>L. \A n \in Runs : \A j \in resyncs[n].list : j \in JobsAbout(V) /\ j.action = "upsert" /\ j.run = n
    BY <1>R DEF ResyncJobs
  \* Steps that call no API and take no job.
  <1>1. ASSUME UNCHANGED objects,
               \A n \in Runs, c \in Configs : ~resyncs'[n].memo[c].known =>
                 resyncs'[n].memo[c] = resyncs[n].memo[c] \/ resyncs'[n].memo[c] = NotFetched,
               \A n \in Runs, c \in Configs : resyncs'[n].memo[c].known =>
                 /\ resyncs'[n].memo[c] = resyncs[n].memo[c]
                 /\ \A j \in JobsAbout(V) : IsWaiting(j, n)' => IsWaiting(j, n),
               \/ job' = NoJob
               \/ /\ job' = job
                  /\ \A c \in Configs : pc' = "check" \/ c \in todo' => pc = "check" \/ c \in todo
        PROVE  MemoInv'
    <2>1. \A n \in Runs, c \in Configs : ~resyncs'[n].memo[c].known =>
            resyncs'[n].memo[c].err # "ok" \/ resyncs'[n].memo[c] = NotFetched
      BY <1>1 DEF MemoInv
    <2>2. ASSUME NEW n \in Runs, NEW c \in Configs, resyncs'[n].memo[c].known
          PROVE  /\ resyncs'[n].memo[c].err = "ok"
                 /\ \A j \in JobsAbout(V) : IsWaiting(j, n)' =>
                      /\ Covers(resyncs[n].memo[c], c, j.resource, j.snapshot)'
                      /\ job' # NoJob /\ job'.resource = j.resource => job'.snapshot = j.snapshot /\ job'.action = "upsert"
                 /\ job' # NoJob /\ job'.run = n /\ (pc' = "check" \/ c \in todo') =>
                      Covers(resyncs[n].memo[c], c, job.resource, job.snapshot)'
      <3>1. resyncs'[n].memo[c] = resyncs[n].memo[c] /\ \A j \in JobsAbout(V) : IsWaiting(j, n)' => IsWaiting(j, n)
        BY <1>1, <2>2
      <3>2. /\ resyncs[n].memo[c].err = "ok"
            /\ \A j \in JobsAbout(V) : IsWaiting(j, n) =>
                      /\ Covers(resyncs[n].memo[c], c, j.resource, j.snapshot)
                      /\ job # NoJob /\ job.resource = j.resource => job.snapshot = j.snapshot /\ job.action = "upsert"
            /\ job # NoJob /\ job.run = n /\ (pc = "check" \/ c \in todo) =>
                      Covers(resyncs[n].memo[c], c, job.resource, job.snapshot)
        BY <2>2, <3>1 DEF MemoInv
      <3>3. \A r, s : Covers(resyncs[n].memo[c], c, r, s) => Covers(resyncs[n].memo[c], c, r, s)'
        BY <1>1, <3>1 DEF Covers
      <3> QED
        BY <1>1, <3>1, <3>2, <3>3
    <2> QED
      BY <1>V, <2>1, <2>2 DEF MemoInv
  <1>2. ASSUME HandleEvent \/ EnqueueRetry
        PROVE  MemoInv'
    <2>1. \E r, j : j.run = 0 /\ pending' = [pending EXCEPT ![r] = j]
      BY <1>2 DEF HandleEvent, EnqueueRetry, Job, TypeInv, QueueTypes
    <2>2. UNCHANGED <<objects, resyncs, job, pc, todo>>
      BY <1>2 DEF HandleEvent, EnqueueRetry, workerVars
    <2>3. \A n \in Runs, j \in JobsAbout(V) : IsWaiting(j, n)' => IsWaiting(j, n)
      BY <1>N, <1>J, <1>P, <2>1, <2>2 DEF IsWaiting, HasPending
    <2> QED
      BY <1>1, <2>2, <2>3
  <1>3. ASSUME NEW n \in Runs, ResyncViaApi(n)
        PROVE  MemoInv'
    <2>1. PICK j \in resyncs[n].list :
            /\ pending' = [pending EXCEPT ![j.resource] = j]
            /\ \A m \in Runs : m # n => resyncs'[m] = resyncs[m]
            /\ resyncs'[n].list = resyncs[n].list \ {j} /\ resyncs'[n].memo = resyncs[n].memo
      BY <1>3, OneJobIsEnqueued
    <2>2. resyncs[n].pc = "enqueue" /\ UNCHANGED <<objects, job, pc, todo>>
      BY <1>3 DEF ResyncViaApi, workerVars
    <2>3. \A m \in Runs : resyncs'[m].memo = resyncs[m].memo
      BY <2>1
    <2>4. \A m \in Runs, k \in JobsAbout(V) : IsWaiting(k, m)' => IsWaiting(k, m)
      <3> SUFFICES ASSUME NEW m \in Runs, NEW k \in JobsAbout(V), IsWaiting(k, m)'
                   PROVE  IsWaiting(k, m)
        OBVIOUS
      <3>1. CASE k = j
        BY <1>J, <1>P, <1>L, <2>1, <2>2, <3>1 DEF IsWaiting, HasPending
      <3>2. CASE k # j /\ k.resource = j.resource
        BY <1>J, <1>P, <1>L, <2>1, <2>2, <3>2 DEF IsWaiting, HasPending
      <3>3. CASE k.resource # j.resource
        BY <1>J, <1>P, <1>L, <2>1, <2>2, <3>3 DEF IsWaiting, HasPending
      <3> QED
        BY <3>1, <3>2, <3>3
    <2> QED
      BY <1>1, <2>2, <2>3, <2>4
  <1>4. ASSUME NEW n \in Runs, ListResources(n)
        PROVE  MemoInv'
    <2>1. /\ \A m \in Runs : m # n => resyncs'[m] = resyncs[m]
          /\ resyncs'[n].memo = resyncs[n].memo
      BY <1>4, ResourcesAreListed
    <2>2. resyncs[n].pc = "list" /\ UNCHANGED <<objects, pending, job, pc, todo>>
      BY <1>4 DEF ListResources, workerVars
    <2>3. \A m \in Runs : resyncs'[m].memo = resyncs[m].memo
      BY <2>1
    <2>4. \A c \in Configs : ~resyncs'[n].memo[c].known
      BY <2>1, <2>2 DEF RunInv
    <2>5. \A m \in Runs, j \in JobsAbout(V) : m # n /\ IsWaiting(j, m)' => IsWaiting(j, m)
      BY <2>1, <2>2 DEF IsWaiting, HasPending
    <2>6. \A m \in Runs, c \in Configs : resyncs'[m].memo[c].known => m # n
      BY <2>4
    <2> QED
      BY <1>1, <2>2, <2>3, <2>5, <2>6
  <1>5. ASSUME StartResync, UNCHANGED <<objects, pending, job, pc, todo>>
        PROVE  MemoInv'
    <2>1. PICK n \in Runs \ RunsInUse :
             /\ \A m \in Runs : m # n => resyncs'[m] = resyncs[m]
             /\ resyncs'[n].memo = [c \in Configs |-> NotFetched]
      BY <1>5, OneResyncStarts
    <2>2. \A c \in Configs : resyncs'[n].memo[c] = NotFetched /\ ~resyncs'[n].memo[c].known
      BY <2>1, NotFetchedIsFetched
    <2>3. \A m \in Runs, j \in JobsAbout(V) : m # n /\ IsWaiting(j, m)' => IsWaiting(j, m)
      BY <1>5, <2>1 DEF IsWaiting, HasPending
    <2>4. \A m \in Runs, c \in Configs : resyncs'[m].memo[c].known => m # n
      BY <2>2
    <2> QED
      BY <1>1, <1>5, <2>1, <2>2, <2>3, <2>4
  <1>6. ASSUME Restart
        PROVE  MemoInv'
    <2>1. /\ UNCHANGED objects /\ job' = NoJob
          /\ \A n \in Runs : resyncs'[n].memo = [c \in Configs |-> NotFetched]
      BY <1>6 DEF Restart
    <2>2. \A n \in Runs, c \in Configs : resyncs'[n].memo[c] = NotFetched /\ ~resyncs'[n].memo[c].known
      BY <2>1, NotFetchedIsFetched
    <2> QED
      BY <1>1, <2>1, <2>2
  <1>7. ASSUME ValidatePreconditions \/ WriteSynchronizationResult
        PROVE  MemoInv'
    <2>1. UNCHANGED <<objects, pending, resyncs>>
      BY <1>7 DEF ValidatePreconditions, WriteSynchronizationResult
    <2>2. \/ job' = NoJob
          \/ job' = job /\ \A c \in Configs : pc' = "check" \/ c \in todo' => pc = "check" \/ c \in todo
      BY <1>7 DEF ValidatePreconditions, WriteSynchronizationResult
    <2>3. \A n \in Runs, j \in JobsAbout(V) : IsWaiting(j, n)' => IsWaiting(j, n)
      BY <2>1 DEF IsWaiting, HasPending
    <2> QED
      BY <1>1, <2>1, <2>2, <2>3
  <1>8. ASSUME \/ UNCHANGED vars \/ DeleteMonitoring
               \/ \E m \in scenario.monitoringStates : ChangeMonitoring(m)
               \/ \E r \in Resources, snap \in scenario.snapshots \cup {Absent} : ChangeResource(r, snap)
               \/ \E r \in Resources : RetryFailedSynchronization(r)
        PROVE  MemoInv'
    <2>1. UNCHANGED <<objects, pending, resyncs, job, pc, todo>>
      BY <1>8 DEF vars, workerVars, DeleteMonitoring, ChangeMonitoring, ChangeResource, RetryFailedSynchronization
    <2>2. \A n \in Runs, j \in JobsAbout(V) : IsWaiting(j, n)' => IsWaiting(j, n)
      BY <2>1 DEF IsWaiting, HasPending
    <2> QED
      BY <1>1, <2>1, <2>2
  <1>9. ASSUME NEW r \in Resources, TakeJob(r)
        PROVE  MemoInv'
    <2>1. /\ pc = "idle" /\ pending[r] # NoJob /\ pending' = [pending EXCEPT ![r] = NoJob]
          /\ job' = pending[r] /\ UNCHANGED <<objects, resyncs, cluster, events>>
      BY <1>9 DEF TakeJob
    <2> PICK k \in JobsAbout(V) : k = pending[r]
      BY <1>P, <2>1
    <2>2. k.resource = r /\ job' = k
      BY <1>P, <2>1
    <2>3. \A n \in Runs, j \in JobsAbout(V) : IsWaiting(j, n)' => IsWaiting(j, n)
      BY <1>J, <1>P, <2>1 DEF IsWaiting, HasPending
    <2>4. \A n \in Runs : k.run = n => IsWaiting(k, n)
      BY <2>1, <2>2 DEF IsWaiting, HasPending
    <2>5. ASSUME NEW n \in Runs, NEW j \in JobsAbout(V), IsWaiting(j, n)', k.resource = j.resource
          PROVE  k.snapshot = j.snapshot /\ k.action = "upsert"
      <3>1. resyncs[n].pc = "enqueue" /\ j \in resyncs[n].list
        BY <1>P, <2>1, <2>2, <2>5 DEF IsWaiting, HasPending
      <3>2. events = <<>> /\ IsCurrent(j)
        BY <3>1 DEF CurrentInv
      <3>3. ~HasEvent(r)
        BY <3>2 DEF HasEvent
      <3>4. IsCurrent(k)
        BY <2>1, <3>3 DEF CurrentInv
      <3>5. j.action = "upsert"
        BY <1>L, <3>1
      <3> QED
        BY <2>5, <3>2, <3>4, <3>5 DEF IsCurrent
    <2>6. ASSUME NEW n \in Runs, NEW c \in Configs, resyncs'[n].memo[c].known
          PROVE  /\ resyncs'[n].memo[c].err = "ok"
                 /\ \A j \in JobsAbout(V) : IsWaiting(j, n)' =>
                      /\ Covers(resyncs[n].memo[c], c, j.resource, j.snapshot)'
                      /\ job' # NoJob /\ job'.resource = j.resource => job'.snapshot = j.snapshot /\ job'.action = "upsert"
                 /\ job' # NoJob /\ job'.run = n /\ (pc' = "check" \/ c \in todo') =>
                      Covers(resyncs[n].memo[c], c, job.resource, job.snapshot)'
      <3>1. /\ resyncs[n].memo[c].err = "ok"
            /\ \A j \in JobsAbout(V) : IsWaiting(j, n) => Covers(resyncs[n].memo[c], c, j.resource, j.snapshot)
        BY <2>1, <2>6 DEF MemoInv
      <3>2. \A q, s : Covers(resyncs[n].memo[c], c, q, s) => Covers(resyncs[n].memo[c], c, q, s)'
        BY <2>1 DEF Covers
      <3> QED
        BY <2>1, <2>2, <2>3, <2>4, <2>5, <3>1, <3>2
    <2>7. \A n \in Runs, c \in Configs : ~resyncs'[n].memo[c].known =>
            resyncs'[n].memo[c].err # "ok" \/ resyncs'[n].memo[c] = NotFetched
      BY <2>1 DEF MemoInv
    <2> QED
      BY <1>V, <2>6, <2>7 DEF MemoInv
  <1>10. ASSUME NEW c \in Configs, SynchronizeViaApi(c)
         PROVE  MemoInv'
    <2>1. pc = "configs" /\ c \in todo /\ UNCHANGED <<pending, pc, job>> /\ todo' = todo \ {c}
      BY <1>10 DEF SynchronizeViaApi
    <2>2. PICK fetched, outcome, landed : ApiStep(c, fetched, outcome, landed)
      BY <1>10, ApiStepExists
    <2>3. fetched \in FetchExistingOriginsForResource(c)
      BY <2>2 DEF ApiStep
    <2>4. /\ \A n \in Runs : resyncs'[n].pc = resyncs[n].pc /\ resyncs'[n].list = resyncs[n].list
          /\ \A n \in Runs, d \in Configs :
               \/ UsesOriginsInNamespace /\ n = job.run /\ d = c /\ resyncs'[n].memo[d] = fetched
               \/ ~(UsesOriginsInNamespace /\ n = job.run /\ d = c) /\ resyncs'[n].memo[d] = resyncs[n].memo[d]
      BY <2>1, <2>2, OneAnswerIsMemoized
    <2>5. job \in JobsAbout(V) /\ job # NoJob
      BY <1>J, <1>P, <2>1 DEF TypeInv, WorkerTypes
    <2>6. \A n \in Runs, j \in JobsAbout(V) : IsWaiting(j, n)' => IsWaiting(j, n)
      BY <2>1, <2>4 DEF IsWaiting, HasPending
    <2>7. /\ fetched.known => fetched.err = "ok"
          /\ ~fetched.known /\ fetched.err = "ok" => ~UsesOriginsInNamespace
          /\ UsesOriginsInNamespace /\ ~IsMemoized(job.run, c) => fetched \in Fetch(c)
          /\ UsesOriginsInNamespace /\ IsMemoized(job.run, c) => fetched = resyncs[job.run].memo[c]
      BY <2>1, <2>3, AnswerIsGoodEnough
    <2>8. \A n \in Runs, d \in Configs : ~resyncs'[n].memo[d].known =>
            resyncs'[n].memo[d].err # "ok" \/ resyncs'[n].memo[d] = NotFetched
      BY <2>4, <2>7 DEF MemoInv
    \* The resources of other jobs are left alone, and only rules of its version are added.
    <2>9. /\ \A d \in Configs, r \in Resources : d # c \/ r # job.resource => objects'[d][r] = objects[d][r]
          /\ \A i \in Items : \/ objects'[c][job.resource][i] = objects[c][job.resource][i]
                              \/ objects'[c][job.resource][i] = "none"
                              \/ action = "upsert" /\ objects'[c][job.resource][i] = job.snapshot.rules[i]
      <3>1. ExecuteAllApiCalls(c, RequestsFor(fetched), outcome, landed)
        BY <2>2 DEF ApiStep
      <3> QED
        BY <2>1, <3>1, ObjectsOfTheStep
    <2>10. action = "upsert" => ~job.snapshot.disabled
      BY <2>1 DEF TypeInv, WorkerTypes
    <2>11. ASSUME NEW n \in Runs, NEW d \in Configs, resyncs'[n].memo[d].known
           PROVE  /\ resyncs'[n].memo[d].err = "ok"
                  /\ \A j \in JobsAbout(V) : IsWaiting(j, n)' =>
                       /\ Covers(resyncs[n].memo[d], d, j.resource, j.snapshot)'
                       /\ job' # NoJob /\ job'.resource = j.resource => job'.snapshot = j.snapshot /\ job'.action = "upsert"
                  /\ job' # NoJob /\ job'.run = n /\ (pc' = "check" \/ d \in todo') =>
                       Covers(resyncs[n].memo[d], d, job.resource, job.snapshot)'
      <3>1. CASE UsesOriginsInNamespace /\ n = job.run /\ d = c
        <4>1. resyncs'[n].memo[d] = fetched /\ fetched.known /\ fetched.err = "ok"
          BY <2>4, <2>7, <2>11, <3>1
        <4>2. IsWorkingOn(job.resource, n) /\ job.resource \in Resources
          BY <1>J, <2>5, <3>1 DEF IsWorkingOn
        <4>3. \A j \in JobsAbout(V) : IsWaiting(j, n) => j.resource # job.resource
          BY <1>J, <4>2 DEF IsWaiting, RunInv
        <4>4. ASSUME NEW j \in JobsAbout(V), IsWaiting(j, n)
              PROVE  Covers(fetched, c, j.resource, j.snapshot)'
          <5>1. objects'[c][j.resource] = objects[c][j.resource] /\ j.resource \in Resources
            BY <1>J, <2>9, <4>3, <4>4
          <5>2. CASE fetched \in Fetch(c)
            <6>1. \A q \in Resources : fetched.origins[q] = {i \in Items : objects[c][q][i] # "none"}
              BY <4>1, <5>2, FetchAnswers
            <6> QED
              BY <5>1, <6>1 DEF Covers
          <5>3. CASE fetched = resyncs[job.run].memo[c]
            <6>1. Covers(resyncs[n].memo[c], c, j.resource, j.snapshot)
              BY <3>1, <4>1, <4>4, <5>3 DEF MemoInv
            <6> QED
              BY <3>1, <5>1, <5>3, <6>1 DEF Covers
          <5> QED
            BY <2>7, <3>1, <5>2, <5>3
        <4>5. ASSUME NEW j \in JobsAbout(V), IsWaiting(j, n)
              PROVE  Covers(resyncs[n].memo[d], d, j.resource, j.snapshot)'
          BY <3>1, <4>1, <4>4, <4>5 DEF Covers
        <4> QED
          BY <2>1, <2>6, <3>1, <4>1, <4>3, <4>5
      <3>2. CASE ~(UsesOriginsInNamespace /\ n = job.run /\ d = c)
        <4>1. resyncs'[n].memo[d] = resyncs[n].memo[d]
          BY <2>4, <3>2
        <4>2. /\ resyncs[n].memo[d].err = "ok"
              /\ \A j \in JobsAbout(V) : IsWaiting(j, n) =>
                       /\ Covers(resyncs[n].memo[d], d, j.resource, j.snapshot)
                       /\ job.resource = j.resource => job.snapshot = j.snapshot /\ job.action = "upsert"
              /\ job.run = n /\ d \in todo => Covers(resyncs[n].memo[d], d, job.resource, job.snapshot)
          BY <2>5, <2>11, <4>1 DEF MemoInv
        <4>3. ASSUME NEW j \in JobsAbout(V), IsWaiting(j, n)
              PROVE  Covers(resyncs[n].memo[d], d, j.resource, j.snapshot)'
          <5>1. j.resource \in Resources /\ Covers(resyncs[n].memo[d], d, j.resource, j.snapshot)
            BY <1>J, <4>2, <4>3
          <5>2. CASE d # c \/ j.resource # job.resource
            <6>1. objects'[d][j.resource] = objects[d][j.resource]
              BY <2>9, <5>1, <5>2
            <6> QED
              BY <4>1, <5>1, <6>1 DEF Covers
          <5>3. CASE d = c /\ j.resource = job.resource
            <6>1. job.snapshot = j.snapshot
              BY <4>2, <4>3, <5>3
            <6> QED
              BY <2>9, <2>10, <4>1, <5>1, <5>3, <6>1 DEF Covers
          <5> QED
            BY <5>2, <5>3
        <4>4. ASSUME job.run = n, d \in todo'
              PROVE  Covers(resyncs[n].memo[d], d, job.resource, job.snapshot)'
          <5>1. d # c /\ Covers(resyncs[n].memo[d], d, job.resource, job.snapshot)
            BY <2>1, <4>2, <4>4
          <5>2. objects'[d][job.resource] = objects[d][job.resource]
            BY <1>J, <2>5, <2>9, <5>1
          <5> QED
            BY <2>1, <4>1, <5>1, <5>2 DEF Covers
        <4> QED
          BY <2>1, <2>6, <4>1, <4>2, <4>3, <4>4
      <3> QED
        BY <3>1, <3>2
    <2> QED
      BY <1>V, <2>8, <2>11 DEF MemoInv
  <1>11. ASSUME Reconciler
         PROVE  MemoInv'
    <2>1. UNCHANGED <<objects, pending, job, pc, todo>> /\ (StartResync \/ resyncs' = resyncs)
      BY <1>11 DEF Reconciler, ApplyApiAccessSettings, SetSynchronizationEnabled, workerVars
    <2>2. resyncs' = resyncs => \A n \in Runs, j \in JobsAbout(V) : IsWaiting(j, n)' => IsWaiting(j, n)
      BY <2>1 DEF IsWaiting, HasPending
    <2> QED
      BY <1>1, <1>5, <2>1, <2>2
  <1> QED
    BY <1>2, <1>3, <1>4, <1>6, <1>7, <1>8, <1>9, <1>10, <1>11 DEF Next, Environment, Worker
-----------------------------------------------------------------------------
(* The configs in force.                                                   *)

\* The environment's counters only grow.
LEMMA CountersGrow ==
  ASSUME TypeInv, [Next]_vars
  PROVE  /\ failures' = 0 => failures = 0
         /\ monitoringChanges' = 0 => monitoringChanges = 0
         /\ restarts' = 0 => restarts = 0
  <1>1. failures \in Nat /\ monitoringChanges \in Nat /\ restarts \in Nat
    BY DEF TypeInv, WorkerTypes, ConfigInv
  <1>2. ASSUME NEW c \in Configs, SynchronizeViaApi(c)
        PROVE  UNCHANGED <<monitoringChanges, restarts>> /\ (failures' = 0 => failures = 0)
    <2>1. pc = "configs" /\ UNCHANGED <<monitoringChanges, restarts>>
      BY <1>2 DEF SynchronizeViaApi, configVars
    <2>2. PICK fetched, outcome, landed : ApiStep(c, fetched, outcome, landed)
      BY <1>2, ApiStepExists
    <2>3. Cardinality(Failed(RequestsFor(fetched), outcome)) \in Nat
      BY <2>1, <2>2, RequestsAreAboutItems
    <2>4. PICK spent : spent \in {failures, failures + 1} /\
                       failures' = spent + Cardinality(Failed(RequestsFor(fetched), outcome))
      BY <1>1, <2>2 DEF ApiStep
    <2> QED
      BY <1>1, <2>1, <2>3, <2>4
  <1>3. ASSUME Next, ~(\E c \in Configs : SynchronizeViaApi(c))
        PROVE  /\ failures' = failures /\ monitoringChanges' \in {monitoringChanges, monitoringChanges + 1}
               /\ restarts' \in {restarts, restarts + 1}
    BY <1>3 DEF Next, Environment, Worker, Reconciler, ChangeResource, ChangeMonitoring, DeleteMonitoring,
        Restart, HandleEvent, TakeJob, ValidatePreconditions, WriteSynchronizationResult,
        ApplyApiAccessSettings, SetSynchronizationEnabled, ListResources, ResyncViaApi,
        RetryFailedSynchronization, EnqueueRetry, configVars
  <1>4. CASE Next /\ ~(\E c \in Configs : SynchronizeViaApi(c))
    BY <1>1, <1>3, <1>4
  <1>5. CASE UNCHANGED vars
    BY <1>5 DEF vars, configVars
  <1> QED
    BY <1>2, <1>4, <1>5

LEMMA UndisturbedBefore ==
  ASSUME TypeInv, [Next]_vars, Undisturbed'
  PROVE  Undisturbed
  <1>1. scenario' = scenario
    BY ScenarioStays
  <1>2. failures' = 0 => failures = 0
    BY CountersGrow
  <1> QED
    BY <1>1, <1>2 DEF Undisturbed

LEMMA DeletionsCountedBefore ==
  ASSUME TypeInv, [Next]_vars, DeletionsCount'
  PROVE  DeletionsCount
  <1>1. scenario' = scenario
    BY ScenarioStays
  <1> QED
    BY <1>1, CountersGrow DEF DeletionsCount

\* What a monitoring resource exports to is also what there are tokens for.
LEMMA ExportsHaveTokens ==
  ASSUME TypeInv, Undisturbed
  PROVE  monitoring.exports = {} <=> monitoring.tokens = {}
  <1>1. scenario \in Scenarios
    BY DEF TypeInv, QueueTypes
  <1>2. \A m \in scenario.monitoringStates \cup {scenario.monitoring} :
          m.tokens \subseteq m.exports /\ (m.exports # {} => m.tokens # {})
    BY <1>1, ScenariosAssumption DEF Undisturbed
  <1> QED
    BY <1>2 DEF TypeInv, ConfigInv

\* The worker uses the configs in force, once the reconciler has handed them over.
LEMMA ValidatedOrDue ==
  ASSUME TypeInv, Undisturbed
  PROVE  \/ ValidatedApiConfigs = Target
         \/ /\ monitoring.exists /\ unreconciled /\ monitoring.tokens # namespacedApiConfigs
            /\ ConfigDue
  <1>1. CASE ~monitoring.exists
    BY <1>1 DEF ValidatedApiConfigs, Target
  <1>2. CASE monitoring.exists /\ namespacedApiConfigs = monitoring.tokens
    BY <1>2, ExportsHaveTokens DEF ValidatedApiConfigs, Target
  <1>3. CASE monitoring.exists /\ namespacedApiConfigs # monitoring.tokens
    BY <1>3 DEF TypeInv, ConfigInv, ConfigDue
  <1> QED
    BY <1>1, <1>2, <1>3

LEMMA FirstReconcileInvStays ==
  ASSUME TypeInv, Undisturbed, FirstReconcileInv, [Next]_vars
  PROVE  FirstReconcileInv'
  <1> SUFFICES ASSUME monitoringChanges' = 0, restarts' = 0
               PROVE  /\ unreconciled' => namespacedApiConfigs' = {}
                      /\ unreconciled' /\ monitoring'.exports # {} =>
                           pc' # "configs" /\ \A c \in Configs, r \in Resources : IsRemoved(r, c)'
                      /\ pc' = "configs" => Target' \subseteq todo' \cup DOMAIN results'
    BY DEF FirstReconcileInv
  <1> DEFINE Goal == /\ unreconciled' => namespacedApiConfigs' = {}
                     /\ unreconciled' /\ monitoring'.exports # {} =>
                           pc' # "configs" /\ \A c \in Configs, r \in Resources : IsRemoved(r, c)'
                     /\ pc' = "configs" => Target' \subseteq todo' \cup DOMAIN results'
  <1>1. /\ monitoringChanges = 0 /\ restarts = 0
        /\ unreconciled => namespacedApiConfigs = {}
        /\ unreconciled /\ monitoring.exports # {} =>
             pc # "configs" /\ \A c \in Configs, r \in Resources : IsRemoved(r, c)
        /\ pc = "configs" => Target \subseteq todo \cup DOMAIN results
    BY CountersGrow DEF FirstReconcileInv
  <1>2. scenario' = scenario
    BY ScenarioStays
  <1>3. monitoringChanges \in Nat /\ restarts \in Nat
    BY DEF TypeInv, ConfigInv
  <1>4. ASSUME UNCHANGED monitoring
        PROVE  Target' = Target
    BY <1>2, <1>4 DEF Target
  \* Steps that call no API.
  <1>5. ASSUME UNCHANGED <<monitoring, objects>>,
               unreconciled' => unreconciled /\ namespacedApiConfigs' = namespacedApiConfigs,
               pc' # "configs" \/ UNCHANGED <<pc, todo, results>>
        PROVE  Goal
    <2>1. \A c \in Configs, r \in Resources : IsRemoved(r, c)' <=> IsRemoved(r, c)
      BY <1>5 DEF IsRemoved
    <2>2. Target' = Target
      BY <1>4, <1>5
    <2> QED
      BY <1>1, <1>5, <2>1, <2>2
  <1>6. ASSUME ValidatePreconditions
        PROVE  Goal
    <2>1. UNCHANGED <<monitoring, unreconciled, namespacedApiConfigs, objects>>
      BY <1>6 DEF ValidatePreconditions, configVars
    <2>2. CASE ValidatedApiConfigs = {}
      <3>1. pc' # "configs"
        BY <1>6, <2>2 DEF ValidatePreconditions
      <3> QED
        BY <1>5, <2>1, <3>1
    <2>3. CASE ValidatedApiConfigs # {}
      <3>1. pc' = "configs" /\ todo' = ValidatedApiConfigs
        BY <1>6, <2>3 DEF ValidatePreconditions
      <3>2. monitoring.exists /\ (unreconciled => namespacedApiConfigs = {} /\ monitoring.exports = {})
        BY <1>1, <2>3 DEF ValidatedApiConfigs
      <3>3. namespacedApiConfigs = monitoring.tokens
        BY <3>2, ExportsHaveTokens DEF TypeInv, ConfigInv
      <3>4. Target = ValidatedApiConfigs
        BY <3>3, ValidatedOrDue
      <3>5. Target' = Target
        BY <1>4, <2>1
      <3> QED
        BY <2>1, <3>1, <3>2, <3>4, <3>5
    <2> QED
      BY <2>2, <2>3
  <1>7. ASSUME NEW c \in Configs, SynchronizeViaApi(c)
        PROVE  Goal
    <2>1. /\ pc = "configs" /\ c \in todo /\ todo' = todo \ {c}
          /\ UNCHANGED <<monitoring, unreconciled, namespacedApiConfigs, pc>>
      BY <1>7 DEF SynchronizeViaApi, configVars
    <2>2. PICK fetched, outcome, landed : ApiStep(c, fetched, outcome, landed)
      BY <1>7, ApiStepExists
    <2>3. DOMAIN results' = DOMAIN results \cup {c}
      BY <2>2 DEF ApiStep
    <2>4. Target' = Target
      BY <1>4, <2>1
    <2> QED
      BY <1>1, <2>1, <2>3, <2>4
  <1>8. ASSUME \/ HandleEvent \/ EnqueueRetry \/ WriteSynchronizationResult \/ Reconciler
               \/ \E r \in Resources, snap \in scenario.snapshots \cup {Absent} : ChangeResource(r, snap)
               \/ \E n \in Runs : ListResources(n) \/ ResyncViaApi(n)
               \/ \E r \in Resources : TakeJob(r) \/ RetryFailedSynchronization(r)
               \/ UNCHANGED vars
        PROVE  Goal
    <2>1. UNCHANGED <<monitoring, objects>>
      BY <1>8 DEF HandleEvent, EnqueueRetry, WriteSynchronizationResult, Reconciler, ApplyApiAccessSettings,
         SetSynchronizationEnabled, ChangeResource, ListResources, ResyncViaApi, TakeJob,
         RetryFailedSynchronization, vars, configVars
    <2>2. unreconciled' => unreconciled /\ namespacedApiConfigs' = namespacedApiConfigs
      BY <1>8 DEF HandleEvent, EnqueueRetry, WriteSynchronizationResult, Reconciler, ApplyApiAccessSettings,
         SetSynchronizationEnabled, ChangeResource, ListResources, ResyncViaApi, TakeJob,
         RetryFailedSynchronization, vars, configVars
    <2>3. pc' # "configs" \/ UNCHANGED <<pc, todo, results>>
      BY <1>8 DEF HandleEvent, EnqueueRetry, WriteSynchronizationResult, Reconciler, ApplyApiAccessSettings,
         SetSynchronizationEnabled, ChangeResource, ListResources, ResyncViaApi, TakeJob,
         RetryFailedSynchronization, vars, workerVars
    <2> QED
      BY <1>5, <2>1, <2>2, <2>3
  <1>9. ASSUME \/ DeleteMonitoring \/ Restart
               \/ \E m \in scenario.monitoringStates : ChangeMonitoring(m)
        PROVE  FALSE
    <2>1. monitoringChanges' = monitoringChanges + 1 \/ restarts' = restarts + 1
      BY <1>9 DEF DeleteMonitoring, Restart, ChangeMonitoring
    <2> QED
      BY <1>1, <2>1
  <1> HIDE DEF Goal
  <1>10. Goal
    BY <1>6, <1>7, <1>8, <1>9 DEF Next, Environment, Worker
  <1> QED
    BY <1>10 DEF Goal
-----------------------------------------------------------------------------
(* No resource is forgotten.                                               *)

\* Only what happens to r and c matters to whether they are in sync.
LEMMA InSyncStays ==
  ASSUME NEW r, NEW c, cluster'[r] = cluster[r], objects'[c][r] = objects[c][r]
  PROVE  InSync(r, c)' <=> InSync(r, c)
  BY DEF InSync, IsRemoved

\* A resync goes on to the resources it has not come to yet.
LEMMA ResyncStaysDue ==
  ASSUME TypeInv, NEW r \in Resources, ConfigDue => ConfigDue',
         \A n \in Runs : /\ resyncs[n].pc = "list" => resyncs'[n].pc = "list"
                         /\ resyncs[n].pc = "enqueue" =>
                              resyncs'[n].pc = "enqueue" /\ resyncs'[n].list = resyncs[n].list
  PROVE  ResyncDue(r) => ResyncDue(r)'
  BY DEF ResyncDue

LEMMA ConfigStaysDue ==
  ASSUME TypeInv, UNCHANGED configVars
  PROVE  (ConfigDue' <=> ConfigDue) /\ (\A c \in Configs : c \in Target' /\ scenario' = scenario => c \in Target)
  BY DEF ConfigDue, Target, configVars

LEMMA DueInvStays ==
  ASSUME TypeInv, RunInv, DashboardInv, ErrorsInv, Undisturbed, CurrentInv, MemoInv, FirstReconcileInv, DueInv,
         [Next]_vars
  PROVE  DueInv'
  <1> PICK V : V = VersionsIn(scenario)
    OBVIOUS
  <1>J. \A j \in JobsAbout(V) : j # NoJob /\ j.resource \in Resources
    BY JobsAreRecords DEF TypeInv, QueueTypes, JobsAbout
  <1>Q. /\ cluster \in [Resources -> V \cup {Absent}] /\ events \in Seq(EventsAbout(V))
        /\ pending \in [Resources -> JobsAbout(V) \cup {NoJob}] /\ job \in JobsAbout(V) \cup {NoJob}
        /\ \A r \in Resources : pending[r] # NoJob => pending[r].resource = r
        /\ retry \in JobsAbout(V) \cup {NoJob}
    BY DEF TypeInv, QueueTypes
  <1>S. scenario' = scenario /\ scenario \in Scenarios
    BY ScenarioStays DEF TypeInv, QueueTypes
  <1>R. \A n \in Runs : resyncs[n].list \subseteq JobsAbout(V)
    BY DEF TypeInv, ResyncTypes, ResyncJobs
  <1>T. Target \subseteq Configs
    BY <1>S, ScenariosAssumption DEF Target, Configs, TypeInv, ConfigInv, MonitoringResources
  <1>D. DeletionsCount' => DeletionsCount
    BY DeletionsCountedBefore
  \* Whatever accounted for r still does.
  <1>1. ASSUME NEW r \in Resources, NEW c \in Target, cluster'[r] = cluster[r],
               HasEvent(r) => HasEvent(r)' \/ pending'[r] # NoJob,
               pending[r] # NoJob => pending'[r] # NoJob \/ IsHandled(r, c)',
               IsHandled(r, c) => IsAccountedFor(r, c)',
               ErrorIsKnown(r, c) => ErrorIsKnown(r, c)',
               cluster[r] # Absent => (ResyncDue(r) => ResyncDue(r)' \/ pending'[r] # NoJob)
        PROVE  IsAccountedFor(r, c)'
    <2>1. IsAccountedFor(r, c)
      BY DEF DueInv
    <2> QED
      BY <1>1, <1>D, <2>1 DEF IsAccountedFor
  \* Steps that leave the worker, the API and the status alone.
  <1>2. ASSUME UNCHANGED <<pc, job, todo, results, objects, status, monitoring>>,
               NEW r \in Resources, NEW c \in Target', cluster'[r] = cluster[r],
               HasEvent(r) => HasEvent(r)' \/ pending'[r] # NoJob,
               pending[r] # NoJob => pending'[r] # NoJob,
               cluster[r] # Absent => (ResyncDue(r) => ResyncDue(r)' \/ pending'[r] # NoJob)
        PROVE  IsAccountedFor(r, c)'
    <2>1. c \in Target
      BY <1>2, <1>S DEF Target
    <2>2. InSync(r, c)' <=> InSync(r, c)
      BY <1>2, InSyncStays
    <2>3. IsHandled(r, c) => IsHandled(r, c)'
      BY <1>2, <2>2 DEF IsHandled, IsBusyWith
    <2>4. ErrorIsKnown(r, c) => ErrorIsKnown(r, c)'
      BY <1>2, <2>2 DEF ErrorIsKnown, IsBusyWith
    <2>5. IsHandled(r, c) => IsAccountedFor(r, c)'
      BY <2>3 DEF IsAccountedFor
    <2> QED
      BY <1>1, <1>2, <2>1, <2>4, <2>5
  <1>3. ASSUME NEW q \in Resources, NEW snap \in scenario.snapshots \cup {Absent}, ChangeResource(q, snap)
        PROVE  DueInv'
    <2>1. /\ cluster' = [cluster EXCEPT ![q] = snap]
          /\ UNCHANGED <<pc, job, todo, results, objects, status, pending, resyncs>> /\ UNCHANGED configVars
      BY <1>3 DEF ChangeResource, workerVars
    <2>2. PICK e : events' = Append(events, e) /\ e.resource = q
      BY <1>3 DEF ChangeResource
    <2>3. /\ Len(events) \in Nat /\ Len(events') = Len(events) + 1 /\ events'[Len(events) + 1] = e
          /\ \A k \in 1 .. Len(events) : events'[k] = events[k]
      BY <1>Q, <2>2
    <2>4. \A r \in Resources : HasEvent(r) \/ r = q => HasEvent(r)'
      BY <2>2, <2>3 DEF HasEvent
    <2>5. ASSUME NEW r \in Resources, NEW c \in Target'
          PROVE  IsAccountedFor(r, c)'
      <3>1. CASE r = q
        BY <2>4, <3>1 DEF IsAccountedFor
      <3>2. CASE r # q
        <4>1. cluster'[r] = cluster[r]
          BY <1>Q, <2>1, <3>2
        <4>2. ConfigDue => ConfigDue'
          BY <2>1, ConfigStaysDue
        <4>3. ResyncDue(r) => ResyncDue(r)'
          BY <2>1, <4>2, ResyncStaysDue
        <4>4. UNCHANGED monitoring
          BY <2>1 DEF configVars
        <4> QED
          BY <1>2, <2>1, <2>4, <4>1, <4>3, <4>4
      <3> QED
        BY <3>1, <3>2
    <2> QED
      BY <2>5 DEF DueInv
  <1>4. ASSUME HandleEvent
        PROVE  DueInv'
    <2>1. /\ events # <<>> /\ events' = Tail(events)
          /\ UNCHANGED <<cluster, pc, job, todo, results, objects, status, resyncs>> /\ UNCHANGED configVars
      BY <1>4 DEF HandleEvent, workerVars
    <2>2. PICK e, j : e = events[1] /\ pending' = [pending EXCEPT ![e.resource] = j] /\ j = Job(e.resource, e.action, e.snapshot, 0)
      <3>1. Head(events) = events[1]
        BY <1>Q, <2>1
      <3> QED
        BY <1>4, <3>1 DEF HandleEvent
    <2>3. /\ Len(events) \in Nat /\ Len(events) >= 1 /\ Len(events') = Len(events) - 1 /\ events[1] \in EventsAbout(V)
          /\ \A k \in 1 .. Len(events) : k # 1 => events[k] = events'[k - 1]
      BY <1>Q, <2>1
    <2>4. j # NoJob
      <3>1. e \in EventsAbout(V)
        BY <2>2, <2>3
      <3>2. j \in JobsAbout(V)
        BY <2>2, <3>1, MaxResyncsAssumption DEF EventsAbout, JobsAbout, Job
      <3> QED
        BY <1>J, <3>2
    <2>5. \A r \in Resources : HasEvent(r) => HasEvent(r)' \/ pending'[r] # NoJob
      <3> SUFFICES ASSUME NEW r \in Resources, NEW k \in 1 .. Len(events), events[k].resource = r
                   PROVE  HasEvent(r)' \/ pending'[r] # NoJob
        BY DEF HasEvent
      <3>1. CASE k = 1
        BY <1>Q, <2>2, <2>4, <3>1
      <3>2. CASE k # 1
        <4>1. events'[k - 1].resource = r /\ k - 1 \in 1 .. Len(events')
          BY <2>3, <3>2
        <4> QED
          BY <4>1 DEF HasEvent
      <3> QED
        BY <3>1, <3>2
    <2>6. \A r \in Resources : pending[r] # NoJob => pending'[r] # NoJob
      BY <1>Q, <2>2, <2>4
    <2>7. ConfigDue => ConfigDue'
      BY <2>1, ConfigStaysDue
    <2>8. \A r \in Resources : ResyncDue(r) => ResyncDue(r)'
      BY <2>1, <2>7, ResyncStaysDue
    <2>9. UNCHANGED monitoring
      BY <2>1 DEF configVars
    <2> QED
      BY <1>2, <2>1, <2>5, <2>6, <2>8, <2>9 DEF DueInv
  <1>5. ASSUME NEW j \in JobsAbout(V), pending' = [pending EXCEPT ![j.resource] = j],
               UNCHANGED <<cluster, events, pc, job, todo, results, objects, status>>, UNCHANGED configVars,
               \A n \in Runs : /\ resyncs[n].pc = "list" => resyncs'[n].pc = "list"
                               /\ resyncs[n].pc = "enqueue" => \A k \in resyncs[n].list :
                                    k.resource # j.resource => resyncs'[n].pc = "enqueue" /\ k \in resyncs'[n].list
        PROVE  DueInv'
    <2>1. \A r \in Resources : HasEvent(r) => HasEvent(r)'
      BY <1>5 DEF HasEvent
    <2>2. \A r \in Resources : pending[r] # NoJob => pending'[r] # NoJob
      BY <1>Q, <1>J, <1>5
    <2>3. pending'[j.resource] # NoJob
      BY <1>Q, <1>J, <1>5
    <2>4. ConfigDue => ConfigDue'
      BY <1>5, ConfigStaysDue
    <2>5. \A r \in Resources : ResyncDue(r) => ResyncDue(r)' \/ pending'[r] # NoJob
      <3> SUFFICES ASSUME NEW r \in Resources, ResyncDue(r), r # j.resource
                   PROVE  ResyncDue(r)'
        BY <2>3
      <3> QED
        BY <1>5, <2>4 DEF ResyncDue
    <2>6. UNCHANGED monitoring
      BY <1>5 DEF configVars
    <2> QED
      BY <1>2, <1>5, <2>1, <2>2, <2>5, <2>6 DEF DueInv
  <1>6. ASSUME EnqueueRetry
        PROVE  DueInv'
    <2>1. /\ retry \in JobsAbout(V) /\ pending' = [pending EXCEPT ![retry.resource] = retry]
          /\ UNCHANGED <<cluster, events, pc, job, todo, results, objects, status, resyncs>> /\ UNCHANGED configVars
      BY <1>6, <1>Q DEF EnqueueRetry, workerVars
    <2> QED
      BY <1>5, <2>1
  <1>7. ASSUME NEW n \in Runs, ResyncViaApi(n)
        PROVE  DueInv'
    <2>1. PICK j \in resyncs[n].list :
            /\ pending' = [pending EXCEPT ![j.resource] = j]
            /\ \A m \in Runs : m # n => resyncs'[m] = resyncs[m]
            /\ resyncs'[n].list = resyncs[n].list \ {j} /\ resyncs'[n].memo = resyncs[n].memo
            /\ resyncs'[n].pc = IF resyncs[n].list = {j} THEN "free" ELSE "enqueue"
      BY <1>7, OneJobIsEnqueued
    <2>2. /\ resyncs[n].pc = "enqueue" /\ UNCHANGED <<cluster, events, pc, job, todo, results, objects, status>>
          /\ UNCHANGED configVars
      BY <1>7 DEF ResyncViaApi, workerVars
    <2>3. j \in JobsAbout(V)
      BY <1>R
    <2>4. \A m \in Runs : /\ resyncs[m].pc = "list" => resyncs'[m].pc = "list"
                          /\ resyncs[m].pc = "enqueue" => \A k \in resyncs[m].list :
                               k.resource # j.resource => resyncs'[m].pc = "enqueue" /\ k \in resyncs'[m].list
      BY <2>1, <2>2
    <2> QED
      BY <1>5, <2>1, <2>2, <2>3, <2>4
  <1>8. ASSUME NEW n \in Runs, ListResources(n)
        PROVE  DueInv'
    <2>1. /\ \A m \in Runs : m # n => resyncs'[m] = resyncs[m]
          /\ resyncs'[n].list = Listed(n) /\ resyncs'[n].memo = resyncs[n].memo
          /\ resyncs'[n].pc = IF Listed(n) = {} THEN "free" ELSE "enqueue"
      BY <1>8, ResourcesAreListed
    <2>2. /\ resyncs[n].pc = "list" /\ UNCHANGED <<cluster, events, pending, pc, job, todo, results, objects, status>>
          /\ UNCHANGED configVars
      BY <1>8 DEF ListResources, workerVars
    <2>3. \A r \in Resources : cluster[r] # Absent => \E j \in Listed(n) : j.resource = r
      <3> SUFFICES ASSUME NEW r \in Resources, cluster[r] # Absent
                   PROVE  \E j \in Listed(n) : j.resource = r
        OBVIOUS
      <3>1. Job(r, "upsert", cluster[r], n) \in Listed(n) /\ Job(r, "upsert", cluster[r], n).resource = r
        BY DEF Listed, Job
      <3> QED
        BY <3>1
    <2>4. \A r \in Resources : cluster[r] # Absent => ResyncDue(r)'
      BY <2>1, <2>3 DEF ResyncDue
    <2>5. \A r \in Resources : HasEvent(r) => HasEvent(r)'
      BY <2>2 DEF HasEvent
    <2>6. UNCHANGED monitoring
      BY <2>2 DEF configVars
    <2> QED
      BY <1>2, <2>2, <2>4, <2>5, <2>6 DEF DueInv
  <1>9. ASSUME Reconciler
        PROVE  DueInv'
    <2>1. UNCHANGED <<cluster, events, pending, pc, job, todo, results, objects, status, monitoring>>
      BY <1>9 DEF Reconciler, ApplyApiAccessSettings, SetSynchronizationEnabled, workerVars
    <2>2. \A r \in Resources : HasEvent(r) => HasEvent(r)'
      BY <2>1 DEF HasEvent
    <2>3. ASSUME StartResync, NEW r \in Resources
          PROVE  ResyncDue(r)'
      BY <2>3, OneResyncStarts DEF ResyncDue
    <2>4. StartResync \/ (resyncs' = resyncs /\ (ConfigDue => ConfigDue'))
      <3>1. CASE ApplyApiAccessSettings
        <4>1. CASE monitoring.tokens # namespacedApiConfigs
          BY <3>1, <4>1 DEF ApplyApiAccessSettings
        <4>2. CASE monitoring.tokens = namespacedApiConfigs
          <5>1. resyncs' = resyncs /\ reconciling' = monitoring /\ UNCHANGED <<monitoring, namespacedSyncEnabled>>
            BY <3>1, <4>2 DEF ApplyApiAccessSettings
          <5>2. reconciling' # NoJob
            BY <5>1, NoValueAssumption DEF TypeInv, ConfigInv
          <5> QED
            BY <4>2, <5>1, <5>2 DEF ConfigDue
        <4> QED
          BY <4>1, <4>2
      <3>2. CASE SetSynchronizationEnabled
        <4>1. reconciling = monitoring /\ ~unreconciled /\ reconciling # NoJob
          BY <3>2 DEF SetSynchronizationEnabled, TypeInv, ConfigInv
        <4>2. ConfigDue => namespacedSyncEnabled = "off" /\ reconciling.enabled
          BY <4>1 DEF ConfigDue
        <4> QED
          BY <3>2, <4>2 DEF SetSynchronizationEnabled
      <3> QED
        BY <1>9, <3>1, <3>2 DEF Reconciler
    <2>5. ASSUME resyncs' = resyncs, ConfigDue => ConfigDue', NEW r \in Resources
          PROVE  ResyncDue(r) => ResyncDue(r)'
      BY <2>5, ResyncStaysDue
    <2>6. \A r \in Resources : ResyncDue(r) => ResyncDue(r)'
      BY <2>3, <2>4, <2>5
    <2> QED
      BY <1>2, <2>1, <2>2, <2>6 DEF DueInv
  <1>10. ASSUME NEW q \in Resources, TakeJob(q)
         PROVE  DueInv'
    <2>1. /\ pc = "idle" /\ pending[q] # NoJob /\ job' = pending[q] /\ pending' = [pending EXCEPT ![q] = NoJob]
          /\ pc' = "check" /\ UNCHANGED <<cluster, events, objects, status, resyncs>> /\ UNCHANGED configVars
      BY <1>10 DEF TakeJob
    <2>2. job = NoJob /\ job' # NoJob /\ job'.resource = q
      BY <1>Q, <2>1 DEF TypeInv, WorkerTypes
    <2>3. UNCHANGED monitoring
      BY <2>1 DEF configVars
    <2>4. ConfigDue => ConfigDue'
      BY <2>1, ConfigStaysDue
    <2>5. ASSUME NEW r \in Resources, NEW c \in Target'
          PROVE  IsAccountedFor(r, c)'
      <3>1. CASE r = q
        BY <2>1, <2>2, <3>1 DEF IsAccountedFor, IsHandled, IsBusyWith
      <3>2. CASE r # q
        <4>1. c \in Target
          BY <1>S, <2>3, <2>5 DEF Target
        <4>2. HasEvent(r) => HasEvent(r)'
          BY <2>1 DEF HasEvent
        <4>3. pending[r] # NoJob => pending'[r] # NoJob
          BY <1>Q, <2>1, <3>2
        <4>4. ~IsHandled(r, c)
          BY <2>2 DEF IsHandled, IsBusyWith
        <4>5. ErrorIsKnown(r, c) => ErrorIsKnown(r, c)'
          BY <2>1, <2>2, <3>2, InSyncStays DEF ErrorIsKnown, IsBusyWith
        <4>6. ResyncDue(r) => ResyncDue(r)'
          BY <2>1, <2>4, ResyncStaysDue
        <4> QED
          BY <1>1, <2>1, <4>1, <4>2, <4>3, <4>4, <4>5, <4>6
      <3> QED
        BY <3>1, <3>2
    <2> QED
      BY <2>5 DEF DueInv
  \* Steps of the worker that are about other resources than r.
  <1>11. ASSUME pc # "idle", job' \in {job, NoJob}, UNCHANGED <<cluster, events, pending>>, UNCHANGED configVars,
                NEW r \in Resources, r # job.resource, NEW c \in Target,
                \A n \in Runs : resyncs'[n].pc = resyncs[n].pc /\ resyncs'[n].list = resyncs[n].list,
                objects'[c][r] = objects[c][r], status'[r] = status[r]
         PROVE  IsAccountedFor(r, c)'
    <2>1. ~IsBusyWith(r) /\ ~IsBusyWith(r)'
      BY <1>11 DEF IsBusyWith
    <2>2. InSync(r, c)' <=> InSync(r, c)
      BY <1>11, InSyncStays
    <2>3. ErrorIsKnown(r, c) => ErrorIsKnown(r, c)'
      BY <1>11, <2>1, <2>2 DEF ErrorIsKnown
    <2>4. ~IsHandled(r, c)
      BY <2>1 DEF IsHandled
    <2>5. HasEvent(r) => HasEvent(r)'
      BY <1>11 DEF HasEvent
    <2>6. ConfigDue => ConfigDue'
      BY <1>11, ConfigStaysDue
    <2>7. ResyncDue(r) => ResyncDue(r)'
      BY <1>11, <2>6, ResyncStaysDue
    <2> QED
      BY <1>1, <1>11, <2>3, <2>4, <2>5, <2>7
  \* ... and about r: it has the result or is going to.
  <1>12. ASSUME UNCHANGED <<cluster, events, pending>>, UNCHANGED configVars,
                job # NoJob, NEW r \in Resources, r = job.resource, NEW c \in Target,
                \A n \in Runs : resyncs'[n].pc = resyncs[n].pc /\ resyncs'[n].list = resyncs[n].list,
                IsHandled(r, c) => IsAccountedFor(r, c)'
         PROVE  IsAccountedFor(r, c)'
    <2>1. ~ErrorIsKnown(r, c)
      BY <1>12 DEF ErrorIsKnown, IsBusyWith
    <2>2. HasEvent(r) => HasEvent(r)'
      BY <1>12 DEF HasEvent
    <2>3. ConfigDue => ConfigDue'
      BY <1>12, ConfigStaysDue
    <2>4. ResyncDue(r) => ResyncDue(r)'
      BY <1>12, <2>3, ResyncStaysDue
    <2> QED
      BY <1>1, <1>12, <2>1, <2>2, <2>4
  <1>13. ASSUME ValidatePreconditions
         PROVE  DueInv'
    <2>1. /\ pc = "check" /\ UNCHANGED <<cluster, events, pending, objects, status, resyncs>> /\ UNCHANGED configVars
          /\ job' \in {job, NoJob}
      BY <1>13 DEF ValidatePreconditions
    <2>2. job # NoJob
      BY <2>1 DEF TypeInv, WorkerTypes
    <2>3. UNCHANGED <<monitoring, unreconciled, monitoringChanges>>
      BY <2>1 DEF configVars
    <2>4. ASSUME NEW r \in Resources, NEW c \in Target, c \notin ValidatedApiConfigs, r = job.resource
          PROVE  IsAccountedFor(r, c)'
      <3>1. monitoring.exists /\ unreconciled /\ monitoring.tokens # namespacedApiConfigs /\ ConfigDue
        BY <2>4, ValidatedOrDue
      <3>2. CASE cluster[r] # Absent
        <4>1. ConfigDue'
          BY <2>1, <3>1, ConfigStaysDue
        <4>2. ResyncDue(r)'
          BY <4>1 DEF ResyncDue
        <4> QED
          BY <2>1, <3>2, <4>2 DEF IsAccountedFor
      <3>3. CASE cluster[r] = Absent
        <4>1. CASE ~DeletionsCount'
          BY <2>1, <3>3, <4>1 DEF IsAccountedFor
        <4>2. CASE DeletionsCount'
          <5>1. namespacedApiConfigs = {}
            BY <1>D, <3>1, <4>2 DEF DeletionsCount, FirstReconcileInv
          <5>2. monitoring.exports # {}
            BY <3>1, <5>1, ExportsHaveTokens
          <5>3. ValidatedApiConfigs = {}
            BY <5>1, <5>2 DEF ValidatedApiConfigs
          <5>4. job' = NoJob
            BY <1>13, <5>3 DEF ValidatePreconditions
          <5>5. IsRemoved(r, c) /\ c \in Configs
            BY <1>D, <1>T, <2>4, <3>1, <4>2, <5>2 DEF DeletionsCount, FirstReconcileInv
          <5>6. InSync(r, c)'
            BY <2>1, <3>3, <5>5 DEF InSync, IsRemoved
          <5> QED
            BY <5>4, <5>6 DEF IsAccountedFor, ErrorIsKnown, IsBusyWith
        <4> QED
          BY <4>1, <4>2
      <3> QED
        BY <3>2, <3>3
    <2>5. ASSUME NEW r \in Resources, NEW c \in Target'
          PROVE  IsAccountedFor(r, c)'
      <3>1. c \in Target
        BY <1>S, <2>3, <2>5 DEF Target
      <3>2. CASE r # job.resource
        BY <1>11, <2>1, <3>1, <3>2
      <3>3. CASE r = job.resource /\ c \notin ValidatedApiConfigs
        BY <2>4, <3>1, <3>3
      <3>4. CASE r = job.resource /\ c \in ValidatedApiConfigs
        <4>1. job' = job /\ todo' = ValidatedApiConfigs
          BY <1>13, <3>4 DEF ValidatePreconditions
        <4>2. IsHandled(r, c)'
          BY <2>2, <3>4, <4>1 DEF IsHandled, IsBusyWith
        <4> QED
          BY <4>2 DEF IsAccountedFor
      <3> QED
        BY <3>2, <3>3, <3>4
    <2> QED
      BY <2>5 DEF DueInv
  <1>14. ASSUME NEW d \in Configs, SynchronizeViaApi(d)
         PROVE  DueInv'
    <2>1. /\ pc = "configs" /\ d \in todo /\ todo' = todo \ {d}
          /\ UNCHANGED <<cluster, events, pending, status, pc, job>> /\ UNCHANGED configVars
      BY <1>14 DEF SynchronizeViaApi
    <2>2. PICK fetched, outcome, landed : ApiStep(d, fetched, outcome, landed)
      BY <1>14, ApiStepExists
    <2>3. job # NoJob /\ DOMAIN results \cap todo = {} /\ job.resource \in Resources
      BY <1>J, <1>Q, <2>1 DEF TypeInv, WorkerTypes
    <2>4. UNCHANGED monitoring
      BY <2>1 DEF configVars
    <2>5. \A n \in Runs : resyncs'[n].pc = resyncs[n].pc /\ resyncs'[n].list = resyncs[n].list
      BY <2>1, <2>2, OneAnswerIsMemoized
    <2>6. \A c \in Configs, r \in Resources : c # d \/ r # job.resource => objects'[c][r] = objects[c][r]
      <3>1. ExecuteAllApiCalls(d, RequestsFor(fetched), outcome, landed)
        BY <2>2 DEF ApiStep
      <3> QED
        BY <2>1, <3>1, ObjectsOfTheStep
    <2>7. DOMAIN results' = DOMAIN results \cup {d} /\ \A c \in DOMAIN results : c # d => results'[c] = results[c]
      BY <2>2 DEF ApiStep
    <2>8. ASSUME NEW r \in Resources, NEW c \in Target, r = job.resource, IsHandled(r, c)
          PROVE  IsAccountedFor(r, c)'
      <3>1. CASE c \in todo /\ c # d
        <4>1. IsHandled(r, c)'
          BY <2>1, <2>3, <2>8, <3>1 DEF IsHandled, IsBusyWith
        <4> QED
          BY <4>1 DEF IsAccountedFor
      <3>2. CASE c \in DOMAIN results /\ c \notin todo /\ (InSync(r, c) \/ results[c].err # "ok")
        <4>1. c # d /\ results'[c] = results[c] /\ objects'[c][r] = objects[c][r]
          BY <1>T, <2>1, <2>6, <2>7, <3>2
        <4>2. InSync(r, c)' <=> InSync(r, c)
          BY <2>1, <4>1, InSyncStays
        <4>3. IsHandled(r, c)'
          BY <2>1, <2>3, <2>7, <2>8, <3>2, <4>1, <4>2 DEF IsHandled, IsBusyWith
        <4> QED
          BY <4>3 DEF IsAccountedFor
      <3>3. CASE c = d
        <4>1. CASE HasEvent(r) \/ pending[r] # NoJob
          BY <2>1, <4>1 DEF IsAccountedFor, HasEvent
        <4>2. CASE cluster[r] = Absent /\ ~DeletionsCount'
          BY <2>1, <4>2 DEF IsAccountedFor
        <4>3. CASE ~HasEvent(r) /\ pending[r] = NoJob /\ (cluster[r] = Absent => DeletionsCount')
          <5>1. IsCurrent(job)
            BY <2>3, <2>8, <4>3 DEF CurrentInv
          <5>2. cluster[job.resource] = Absent => (scenario.mapsToMultipleApiObjects => failures' = 0)
            BY <1>S, <2>8, <4>3 DEF DeletionsCount
          <5>3. InSync(job.resource, d)' \/ results'[d].err # "ok"
            BY <1>14, <5>1, <5>2, CurrentJobIsSynchronized
          <5>4. InSync(r, d)' \/ results'[d].err # "ok"
            BY <2>1, <2>8, <5>3 DEF InSync, IsRemoved
          <5>5. IsHandled(r, c)'
            BY <2>1, <2>3, <2>7, <2>8, <3>3, <5>4 DEF IsHandled, IsBusyWith
          <5> QED
            BY <5>5 DEF IsAccountedFor
        <4> QED
          BY <4>1, <4>2, <4>3
      <3> QED
        BY <2>1, <2>3, <2>8, <3>1, <3>2, <3>3 DEF IsHandled
    <2>9. ASSUME NEW r \in Resources, NEW c \in Target'
          PROVE  IsAccountedFor(r, c)'
      <3>1. c \in Target
        BY <1>S, <2>4, <2>9 DEF Target
      <3>2. CASE r # job.resource
        <4>1. objects'[c][r] = objects[c][r] /\ status'[r] = status[r]
          BY <1>T, <2>1, <2>6, <3>1, <3>2
        <4> QED
          BY <1>11, <2>1, <2>5, <3>1, <3>2, <4>1
      <3>3. CASE r = job.resource
        BY <1>12, <2>1, <2>3, <2>5, <2>8, <3>1, <3>3
      <3> QED
        BY <3>2, <3>3
    <2> QED
      BY <2>9 DEF DueInv
  <1>15. ASSUME WriteSynchronizationResult
         PROVE  DueInv'
    <2>1. /\ pc = "configs" /\ todo = {} /\ job' = NoJob
          /\ UNCHANGED <<cluster, events, pending, objects, resyncs>> /\ UNCHANGED configVars
      BY <1>15 DEF WriteSynchronizationResult
    <2>2. job # NoJob /\ job.resource \in Resources /\ DOMAIN status = Resources
      BY <1>J, <1>Q, <2>1 DEF TypeInv, WorkerTypes
    <2>3. \/ status' = [status EXCEPT ![job.resource] = SynchronizationResult]
          \/ status' = status /\ (scenario.statusWritesFail \/ ~monitoring.exists)
      BY <1>15 DEF WriteSynchronizationResult
    <2>4. UNCHANGED monitoring
      BY <2>1 DEF configVars
    <2>5. \A r \in Resources : r # job.resource => status'[r] = status[r]
      BY <2>2, <2>3
    <2>6. ASSUME NEW r \in Resources, NEW c \in Target, r = job.resource, IsHandled(r, c)
          PROVE  IsAccountedFor(r, c)'
      <3>1. c \in DOMAIN results /\ (InSync(r, c) \/ results[c].err # "ok")
        BY <2>1, <2>6 DEF IsHandled
      <3>2. ASSUME results[c].err # "ok"
            PROVE  status'[r].errors[c] # "ok"
        <4>1. failures # 0
          BY <3>1, <3>2 DEF ErrorsInv
        <4>2. monitoring.exists /\ ~scenario.statusWritesFail
          BY <2>6, <4>1 DEF Target, Undisturbed
        <4>3. status'[r] = SynchronizationResult
          BY <2>2, <2>3, <2>6, <4>2
        <4>4. SynchronizationResult.errors[c] = results[c].err
          BY <1>T, <2>6, <3>1 DEF SynchronizationResult
        <4> QED
          BY <3>2, <4>3, <4>4
      <3>3. InSync(r, c)' <=> InSync(r, c)
        BY <2>1, InSyncStays
      <3>4. ErrorIsKnown(r, c)'
        BY <2>1, <3>1, <3>2, <3>3 DEF ErrorIsKnown, IsBusyWith
      <3> QED
        BY <3>4 DEF IsAccountedFor
    <2>7. ASSUME NEW r \in Resources, NEW c \in Target'
          PROVE  IsAccountedFor(r, c)'
      <3>1. c \in Target
        BY <1>S, <2>4, <2>7 DEF Target
      <3>2. CASE r # job.resource
        BY <1>11, <2>1, <2>5, <3>1, <3>2
      <3>3. CASE r = job.resource
        BY <1>12, <2>1, <2>2, <2>6, <3>1, <3>3
      <3> QED
        BY <3>2, <3>3
    <2> QED
      BY <2>7 DEF DueInv
  <1>16. ASSUME NEW m \in scenario.monitoringStates, ChangeMonitoring(m)
         PROVE  DueInv'
    <2>1. /\ m.exists /\ ~unreconciled /\ reconciling = NoJob /\ monitoring' = m /\ unreconciled' = TRUE
          /\ monitoringChanges' = monitoringChanges + 1
          /\ UNCHANGED <<cluster, events, pending, pc, job, todo, results, objects, status, resyncs,
                         namespacedApiConfigs, namespacedSyncEnabled, reconciling>>
      BY <1>16 DEF ChangeMonitoring, workerVars
    <2>2. ~DeletionsCount' /\ ~ConfigDue
      <3>1. monitoringChanges \in Nat
        BY DEF TypeInv, ConfigInv
      <3>2. monitoringChanges' # 0
        BY <2>1, <3>1
      <3> QED
        BY <2>1, <3>2 DEF DeletionsCount, ConfigDue
    <2>3. monitoring.exists
      BY <2>1 DEF TypeInv, ConfigInv, Undisturbed
    <2>4. /\ namespacedApiConfigs = monitoring.tokens
          /\ namespacedSyncEnabled = IF monitoring.enabled THEN "on" ELSE "off"
      BY <2>1, <2>3 DEF TypeInv, ConfigInv
    <2>5. ASSUME NEW c \in Target', c \notin Target
          PROVE  ConfigDue'
      <3>1. m.exists /\ m.enabled
        BY <2>1, <2>5 DEF Target
      <3>2. CASE m.tokens # monitoring.tokens
        BY <2>1, <2>4, <3>2 DEF ConfigDue
      <3>3. CASE m.tokens = monitoring.tokens /\ monitoring.enabled
        BY <1>S, <2>1, <2>3, <2>5, <3>1, <3>3 DEF Target
      <3>4. CASE ~monitoring.enabled
        BY <2>1, <2>4, <3>1, <3>4 DEF ConfigDue
      <3> QED
        BY <3>2, <3>3, <3>4
    <2>6. ASSUME NEW r \in Resources, NEW c \in Target'
          PROVE  IsAccountedFor(r, c)'
      <3>1. CASE cluster[r] = Absent
        BY <2>1, <2>2, <3>1 DEF IsAccountedFor
      <3>2. CASE cluster[r] # Absent /\ c \notin Target
        <4>1. ResyncDue(r)'
          BY <2>5, <2>6, <3>2 DEF ResyncDue
        <4> QED
          BY <2>1, <3>2, <4>1 DEF IsAccountedFor
      <3>3. CASE cluster[r] # Absent /\ c \in Target
        <4>1. HasEvent(r) => HasEvent(r)'
          BY <2>1 DEF HasEvent
        <4>2. InSync(r, c)' <=> InSync(r, c)
          BY <2>1, InSyncStays
        <4>3. IsHandled(r, c) => IsHandled(r, c)'
          BY <2>1, <4>2 DEF IsHandled, IsBusyWith
        <4>4. ErrorIsKnown(r, c) => ErrorIsKnown(r, c)'
          BY <2>1, <4>2 DEF ErrorIsKnown, IsBusyWith
        <4>5. ConfigDue => ConfigDue'
          BY <2>2
        <4>6. ResyncDue(r) => ResyncDue(r)'
          BY <2>1, <4>5, ResyncStaysDue
        <4>7. IsHandled(r, c) => IsAccountedFor(r, c)'
          BY <4>3 DEF IsAccountedFor
        <4> QED
          BY <1>1, <2>1, <3>3, <4>1, <4>4, <4>6, <4>7
      <3> QED
        BY <3>1, <3>2, <3>3
    <2> QED
      BY <2>6 DEF DueInv
  <1>17. ASSUME DeleteMonitoring
         PROVE  DueInv'
    <2>1. ~monitoring'.exists
      BY <1>17 DEF DeleteMonitoring
    <2>2. Target' = {}
      BY <2>1 DEF Target
    <2> QED
      BY <2>2 DEF DueInv
  <1>18. ASSUME Restart
         PROVE  DueInv'
    <2>1. restarts' = restarts + 1 /\ restarts \in Nat /\ cluster' = cluster
      BY <1>18 DEF Restart, TypeInv, ConfigInv
    <2>2. restarts' # 0
      BY <2>1
    <2>3. ~DeletionsCount'
      BY <2>2 DEF DeletionsCount
    <2>4. \A r \in Resources : cluster[r] # Absent => \E k \in 1 .. Len(events') : events'[k].resource = r
      BY <1>18, <1>Q, EveryResourceIsAnnounced DEF Restart
    <2>5. \A r \in Resources : cluster[r] # Absent => HasEvent(r)'
      BY <2>4 DEF HasEvent
    <2> QED
      BY <2>1, <2>3, <2>5 DEF DueInv, IsAccountedFor
  <1>19. ASSUME UNCHANGED vars \/ \E r \in Resources : RetryFailedSynchronization(r)
         PROVE  DueInv'
    <2>1. /\ UNCHANGED <<cluster, events, pending, pc, job, todo, results, objects, status, resyncs>>
          /\ UNCHANGED configVars
      BY <1>19 DEF vars, workerVars, RetryFailedSynchronization
    <2>2. \A r \in Resources : HasEvent(r) => HasEvent(r)'
      BY <2>1 DEF HasEvent
    <2>3. ConfigDue => ConfigDue'
      BY <2>1, ConfigStaysDue
    <2>4. \A r \in Resources : ResyncDue(r) => ResyncDue(r)'
      BY <2>1, <2>3, ResyncStaysDue
    <2>5. UNCHANGED monitoring
      BY <2>1 DEF configVars
    <2> QED
      BY <1>2, <2>1, <2>2, <2>4, <2>5 DEF DueInv
  <1> QED
    BY <1>3, <1>4, <1>6, <1>7, <1>8, <1>9, <1>10, <1>13, <1>14, <1>15, <1>16, <1>17, <1>18, <1>19
       DEF Next, Environment, Worker
-----------------------------------------------------------------------------
(* At rest the API is in sync.                                             *)

LEMMA InitSync == Init => SyncInv
  <1> SUFFICES ASSUME Init PROVE SyncInv
    OBVIOUS
  <1>1. TypeInv
    BY InitTypes
  <1>2. /\ pending = [r \in Resources |-> NoJob] /\ job = NoJob /\ pc = "idle" /\ retry = NoJob
        /\ DOMAIN results = {} /\ namespacedApiConfigs = {}
        /\ objects = [c \in Configs |-> [r \in Resources |-> [i \in Items |-> "none"]]]
        /\ \A n \in Runs : resyncs[n].pc = "free" /\ resyncs[n].memo = [c \in Configs |-> NotFetched]
    BY DEF Init
  <1>3. \A n \in Runs, c \in Configs : /\ resyncs[n].memo[c] = NotFetched /\ ~resyncs[n].memo[c].known
                                       /\ resyncs[n].memo[c].err = "ok"
    BY <1>2, NotFetchedIsFetched
  <1>4. \A c \in Configs, r \in Resources : IsRemoved(r, c)
    BY <1>2 DEF IsRemoved
  <1>5. RunInv
    BY <1>2 DEF RunInv, HasPending, IsWorkingOn
  <1>6. DashboardInv
    BY <1>2 DEF DashboardInv
  <1>7. ErrorsInv
    BY <1>2, <1>3 DEF ErrorsInv
  <1>8. cluster \in [Resources -> VersionsIn(scenario) \cup {Absent}]
    BY <1>1 DEF TypeInv, QueueTypes
  <1>9. /\ \A r \in Resources : cluster[r] # Absent => \E k \in 1 .. Len(events) : events[k].resource = r
        /\ \A k \in 1 .. Len(events) : /\ events[k].action = "upsert" /\ cluster[events[k].resource] # Absent
                                       /\ events[k].snapshot = cluster[events[k].resource]
    BY <1>8, EveryResourceIsAnnounced DEF Init
  <1>10. CurrentInv
    BY <1>2, <1>9 DEF CurrentInv, IsCurrent
  <1>11. MemoInv
    BY <1>3 DEF MemoInv
  <1>12. FirstReconcileInv
    BY <1>2, <1>4 DEF FirstReconcileInv
  <1>13. Target \subseteq Configs
    BY <1>1, ScenariosAssumption DEF Target, Configs, TypeInv, QueueTypes, ConfigInv, MonitoringResources
  <1>14. ASSUME NEW r \in Resources, NEW c \in Target
         PROVE  IsAccountedFor(r, c)
    <2>1. CASE cluster[r] # Absent
      BY <1>9, <2>1 DEF IsAccountedFor, HasEvent
    <2>2. CASE cluster[r] = Absent
      <3>1. InSync(r, c)
        BY <1>4, <1>13, <2>2 DEF InSync
      <3> QED
        BY <1>2, <3>1 DEF IsAccountedFor, ErrorIsKnown, IsBusyWith
    <2> QED
      BY <2>1, <2>2
  <1> QED
    BY <1>1, <1>5, <1>6, <1>7, <1>10, <1>11, <1>12, <1>14 DEF SyncInv, DueInv

LEMMA SyncInvStays == SyncInv /\ [Next]_vars => SyncInv'
  <1> SUFFICES ASSUME SyncInv, [Next]_vars PROVE SyncInv'
    OBVIOUS
  <1>1. TypeInv /\ RunInv /\ DashboardInv /\ ErrorsInv
    BY DEF SyncInv
  <1>2. TypeInv'
    BY <1>1, TypesStay
  <1>3. RunInv'
    BY <1>1, RunInvStays
  <1>4. DashboardInv'
    BY <1>1, DashboardInvStays
  <1>5. ErrorsInv'
    BY <1>1, ErrorsInvStays
  <1>6. ASSUME Undisturbed'
        PROVE  CurrentInv' /\ MemoInv' /\ FirstReconcileInv' /\ DueInv'
    <2>1. Undisturbed
      BY <1>1, <1>6, UndisturbedBefore
    <2>2. CurrentInv /\ MemoInv /\ FirstReconcileInv /\ DueInv
      BY <2>1 DEF SyncInv
    <2>3. scenario.quietResync
      BY <2>1 DEF Undisturbed
    <2>4. CurrentInv'
      BY <1>1, <2>2, <2>3, CurrentInvStays
    <2>5. MemoInv'
      BY <1>1, <2>2, MemoInvStays
    <2>6. FirstReconcileInv'
      BY <1>1, <2>1, <2>2, FirstReconcileInvStays
    <2>7. DueInv'
      BY <1>1, <2>1, <2>2, DueInvStays
    <2> QED
      BY <2>4, <2>5, <2>6, <2>7
  <1> QED
    BY <1>2, <1>3, <1>4, <1>5, <1>6 DEF SyncInv

LEMMA TypesAreOK == TypeInv => TypeOK
  <1> SUFFICES ASSUME TypeInv PROVE TypeOK
    OBVIOUS
  <1> PICK V : V = VersionsIn(scenario)
    OBVIOUS
  <1>1. V \subseteq Snapshots
    BY VersionsAreSnapshots DEF TypeInv, QueueTypes
  <1>2. JobsAbout(V) \subseteq JobRecords
    BY JobsAreRecords DEF TypeInv, QueueTypes
  <1>3. cluster \in [Resources -> Snapshots \cup {Absent}]
    <2>1. cluster \in [Resources -> V \cup {Absent}]
      BY DEF TypeInv, QueueTypes
    <2> QED
      BY <1>1, <2>1
  <1>4. \A k \in 1 .. Len(events) :
          events[k] \in [resource : Resources, action : {"upsert", "delete"}, snapshot : Snapshots]
    <2>1. events \in Seq(EventsAbout(V))
      BY DEF TypeInv, QueueTypes
    <2>2. \A k \in 1 .. Len(events) : events[k] \in EventsAbout(V)
      BY <2>1
    <2> QED
      BY <1>1, <2>2 DEF EventsAbout, Actions
  <1>5. /\ \A r \in Resources : pending[r] \in Jobs /\ (pending[r] # NoJob => pending[r].resource = r)
        /\ job \in Jobs
    BY <1>2 DEF TypeInv, QueueTypes, Jobs
  <1>6. action \in {"upsert", "delete"}
    BY DEF TypeInv, WorkerTypes, Actions
  <1> QED
    BY <1>3, <1>4, <1>5, <1>6 DEF TypeOK, TypeInv, WorkerTypes, ConfigInv

\* Once nothing is under way, nothing but the API itself can account for a resource.
LEMMA SettledAccounts == SyncInv => SettledIsInSync
  <1> SUFFICES ASSUME SyncInv PROVE SettledIsInSync
    OBVIOUS
  <1>1. TypeInv /\ TypeOK
    BY TypesAreOK DEF SyncInv
  <1>2. ASSUME Undisturbed, Settled, NEW r \in Resources, NEW c \in ValidatedApiConfigs,
               cluster[r] = Absent => DeletionsCount
        PROVE  InSync(r, c) \/ status[r].errors[c] # "ok"
    <2>1. /\ events = <<>> /\ pc = "idle" /\ pending[r] = NoJob /\ ~unreconciled /\ reconciling = NoJob
          /\ \A n \in Runs : resyncs[n].pc = "free"
      BY <1>2 DEF Settled
    <2>2. ValidatedApiConfigs = Target
      BY <1>1, <1>2, <2>1, ValidatedOrDue
    <2>3. IsAccountedFor(r, c)
      BY <1>2, <2>2 DEF SyncInv, DueInv
    <2>4. ~HasEvent(r) /\ ~IsHandled(r, c) /\ ~ResyncDue(r)
      <3>1. ~HasEvent(r)
        BY <2>1 DEF HasEvent
      <3>2. job = NoJob
        BY <1>1, <2>1 DEF TypeInv, WorkerTypes
      <3>3. ~IsHandled(r, c)
        BY <3>2 DEF IsHandled, IsBusyWith
      <3>4. ~ResyncDue(r)
        BY <2>1 DEF ResyncDue, ConfigDue
      <3> QED
        BY <3>1, <3>3, <3>4
    <2> QED
      BY <1>2, <2>1, <2>3, <2>4 DEF IsAccountedFor, ErrorIsKnown
  <1>3. Undisturbed => InSyncOrErrorRecorded
    BY <1>2 DEF InSyncOrErrorRecorded
  <1>4. ASSUME Undisturbed, Settled, DeletionsCount
        PROVE  \A r \in Resources, c \in ValidatedApiConfigs :
                 cluster[r] = Absent => IsRemoved(r, c) \/ status[r].errors[c] # "ok"
    BY <1>2, <1>4 DEF InSync
  <1>5. Undisturbed => DeletedResourceIsRemoved
    BY <1>4 DEF DeletedResourceIsRemoved, DeletionsCount
  <1> QED
    BY <1>1, <1>3, <1>5 DEF SettledIsInSync

\* When events, queue, worker, resyncs, retry and reconciler have come to rest, the Dash0 API
\* has what the cluster has, or the status says that it has not, for every resource and every
\* API config in force: whatever changes have been made in between, however the requests have
\* failed, and although a resync relies on an answer it got before it came to the resource
\* (synchronizeViaApiAndUpdateStatus, synchronizeNamespacedResources).
THEOREM NothingIsForgottenAtRest == Spec => []SettledIsInSync
<1>1. Spec => []SyncInv
  BY InitSync, SyncInvStays, PTL DEF Spec
<1> QED
  BY <1>1, SettledAccounts, PTL
=============================================================================
