-------------------------- MODULE OwnedResourceSync --------------------------
(***************************************************************************)
(* Synchronization of the resource types the operator owns (views,         *)
(* synthetic checks, SLOs, sampling rules, spam filters, signal-to-metrics *)
(* rules, time series aggregations, notification channels, teams) to the   *)
(* Dash0 API.  All nine reconcilers have the same structure; this module   *)
(* models one of them, for the resources of one namespace.                 *)
(*                                                                         *)
(* There is no job queue here, unlike for third-party resources: Reconcile *)
(* is called by four goroutines that know nothing of each other.  These    *)
(* are the worker of the controller, the initial synchronization of all    *)
(* resources, the resynchronization of a namespace after its API config    *)
(* has changed, and the retry runnable.                                    *)
(***************************************************************************)
EXTENDS Naturals, FiniteSets

CONSTANTS
    Resources,          \* names of resources in the namespace
    Contents,           \* what a resource may contain
    Absent,             \* the resource does not exist
    NoResource,         \* a goroutine is not busy with a resource
    DefaultConfigs,     \* API configs of the operator configuration resource
    NamespacedConfigs,  \* API configs the monitoring resource may define
    Scenarios           \* what happens around the operator, see ScenariosAssumption

Snapshots == [content : Contents, disabled : BOOLEAN]
Configs == DefaultConfigs \cup NamespacedConfigs

ASSUME ValuesAssumption == Absent \notin Snapshots /\ NoResource \notin Resources
ASSUME ScenariosAssumption ==
    \A s \in Scenarios :
        /\ s.contents \subseteq Contents
        /\ s.exportChoices \subseteq SUBSET NamespacedConfigs  \* what users may choose
        /\ s.failureCodes \subseteq {"retryable", "permanent"} \* of the Dash0 API
        /\ s.hasConflictGuard \in BOOLEAN  \* TRUE for SLOs, whose CRD others may have installed
        /\ s.quietSync \in BOOLEAN         \* is no resource changed while it is synchronized?
        /\ {s.maxChanges, s.maxConfigChanges, s.maxCrdChanges, s.maxFailures,
            s.maxReadFailures} \subseteq Nat

Procs == {"controller", "initial", "namespaced", "retry"}
Callers == {"leader", "config", "crd"}  \* of maybeDoInitialSynchronizationOfAllResources

VARIABLES
    scenario,       \* a member of Scenarios; never changes
    \* the cluster and the Dash0 API
    cluster,        \* cluster[r]: the resource, or Absent
    status,         \* status[r][c]: recorded result for config c
    objects,        \* objects[c][r]: content of the object in the API, or Absent
    exports,        \* API configs the monitoring resource of the namespace defines
    foreignCrd,     \* the CRD in the cluster is not the operator's
    \* the reconciler struct
    isLeader,
    defaultApiConfigs, namespacedApiConfigs,
    initialSyncMutex,       \* who holds it, "free" if nobody does
    initialSyncInProgress, initialSyncHasHappened,
    namespacedSyncLocked,   \* namespacedSyncMutex of the namespace
    conflictingCrdDetected,
    \* the goroutines that call Reconcile
    queue,          \* workqueue of the controller
    pc,             \* pc[p]: where p is
    list,           \* list[p]: resources p has still to go through
    cur,            \* cur[p]: the resource it reconciles
    snap,           \* snap[p]: what Get returned, Absent for NotFound
    stale,          \* stale[p]: the resource has changed since
    todo,           \* todo[p]: API configs it has still to go through
    results,        \* results[p][c]: result of the call for config c
    \* the goroutines that change the configuration
    callerPc,       \* callerPc[c]: where caller c is
    reconcilerPc,   \* monitoring reconciler: "changed", "lock", "idle"
    crdChanged,     \* the CRD has changed since the handler has looked at it
    \* bounds
    changes, configChanges, crdChanges, failures, readFailures

clusterVars == <<scenario, cluster, status, exports, foreignCrd, changes, configChanges, crdChanges>>
configVars == <<isLeader, defaultApiConfigs, namespacedApiConfigs, conflictingCrdDetected,
                callerPc, reconcilerPc, crdChanged>>
syncVars == <<initialSyncMutex, initialSyncInProgress, initialSyncHasHappened, namespacedSyncLocked>>
procVars == <<pc, list, cur, snap, stale, todo, results>>
vars == <<clusterVars, objects, configVars, syncVars, queue, procVars, failures, readFailures>>

NoResults == [c \in Configs |-> "none"]
Existing == {r \in Resources : cluster[r] # Absent}

Init ==
    /\ scenario \in Scenarios
    /\ cluster \in [Resources -> {Absent} \cup [content : scenario.contents, disabled : {FALSE}]]
    /\ status = [r \in Resources |-> NoResults]
    /\ objects = [c \in Configs |-> [r \in Resources |-> Absent]]
    /\ exports \in scenario.exportChoices
    /\ foreignCrd \in IF scenario.hasConflictGuard THEN BOOLEAN ELSE {FALSE}
    /\ isLeader = FALSE
    /\ defaultApiConfigs = {} /\ namespacedApiConfigs = {}
    /\ initialSyncMutex = "free"
    /\ initialSyncInProgress = FALSE /\ initialSyncHasHappened = FALSE
    /\ namespacedSyncLocked = FALSE
    /\ conflictingCrdDetected = foreignCrd
    /\ queue = Existing
    /\ pc = [p \in Procs |-> "idle"] /\ list = [p \in Procs |-> {}]
    /\ cur = [p \in Procs |-> NoResource] /\ snap = [p \in Procs |-> Absent]
    /\ stale = [p \in Procs |-> FALSE] /\ todo = [p \in Procs |-> {}]
    /\ results = [p \in Procs |-> NoResults]
    /\ callerPc = [c \in Callers |-> "idle"]
    /\ reconcilerPc = "changed" /\ crdChanged = FALSE
    /\ changes = 0 /\ configChanges = 0 /\ crdChanges = 0
    /\ failures = 0 /\ readFailures = 0

-----------------------------------------------------------------------------
(* Reconcile, called by goroutine p for resource cur[p]. *)

StartReconcile(p, r) ==
    /\ cur' = [cur EXCEPT ![p] = r]
    /\ pc' = [pc EXCEPT ![p] = "get"]

\* Mutation: the goroutine still refers to the resource after it is done.
EndReconcileKeepsResource(p) ==
    /\ pc' = [pc EXCEPT ![p] = IF p = "controller" THEN "idle" ELSE "loop"]
    /\ snap' = [snap EXCEPT ![p] = Absent]
    /\ stale' = [stale EXCEPT ![p] = FALSE]
    /\ todo' = [todo EXCEPT ![p] = {}]
    /\ results' = [results EXCEPT ![p] = NoResults]
    /\ UNCHANGED cur

\* Reconcile returns: the controller takes the next request, the others go on
\* with their list.
EndReconcile(p) ==
    /\ cur' = [cur EXCEPT ![p] = NoResource]
    /\ pc' = [pc EXCEPT ![p] = IF p = "controller" THEN "idle" ELSE "loop"]
    /\ snap' = [snap EXCEPT ![p] = Absent]
    /\ stale' = [stale EXCEPT ![p] = FALSE]
    /\ todo' = [todo EXCEPT ![p] = {}]
    /\ results' = [results EXCEPT ![p] = NoResults]

\* Nothing is synchronized while the CRD is not the operator's.
SkipOnConflict(p) ==
    /\ pc[p] = "get" /\ conflictingCrdDetected
    /\ EndReconcile(p)
    /\ UNCHANGED <<clusterVars, objects, configVars, syncVars, queue, list, failures, readFailures>>

GetResource(p) ==
    /\ pc[p] = "get" /\ ~conflictingCrdDetected
    /\ snap' = [snap EXCEPT ![p] = cluster[cur[p]]]
    /\ stale' = [stale EXCEPT ![p] = FALSE]
    /\ pc' = [pc EXCEPT ![p] = "check"]
    /\ UNCHANGED <<clusterVars, objects, configVars, syncVars, queue, list, cur, todo, results,
                   failures, readFailures>>

\* Get fails: the controller queues the request again, the others ignore it.
GetFails(p) ==
    /\ pc[p] = "get" /\ ~conflictingCrdDetected
    /\ readFailures < scenario.maxReadFailures
    /\ readFailures' = readFailures + 1
    /\ queue' = IF p = "controller" THEN queue \cup {cur[p]} ELSE queue
    /\ EndReconcile(p)
    /\ UNCHANGED <<clusterVars, objects, configVars, syncVars, list, failures>>

\* Mutation: the check for an export of the namespace itself is missing.
ValidatedApiConfigsIgnoringExport ==
    IF namespacedApiConfigs # {} THEN namespacedApiConfigs ELSE defaultApiConfigs

\* validatePreconditionsAndPreprocess, with a monitoring resource in the
\* namespace: the API configs to use, none if there is nothing to do.
ValidatedApiConfigs ==
    IF exports # {} /\ namespacedApiConfigs = {} THEN {}
    ELSE IF namespacedApiConfigs # {} THEN namespacedApiConfigs
    ELSE defaultApiConfigs

CheckPreconditions(p) ==
    /\ pc[p] = "check"
    /\ IF ValidatedApiConfigs = {}
       THEN EndReconcile(p)
       ELSE /\ todo' = [todo EXCEPT ![p] = ValidatedApiConfigs]
            /\ pc' = [pc EXCEPT ![p] = "call"]
            /\ UNCHANGED <<cur, snap, stale, results>>
    /\ UNCHANGED <<clusterVars, objects, configVars, syncVars, queue, list, failures, readFailures>>

\* Mutation: the label dash0.com/enable is only looked at for new resources.
MapResourceToApiCallsIgnoringLabel(s) == IF s = Absent THEN Absent ELSE s.content

\* The object after the one API call of an owned resource: PUT, or DELETE for a
\* resource that is gone or that opts out via its label.
MapResourceToApiCalls(s) == IF s = Absent \/ s.disabled THEN Absent ELSE s.content

\* The call succeeds, fails for good (a 4xx answer, or the resource cannot be
\* converted and nothing is sent), or fails with an error that is worth a retry;
\* without an answer it may have taken effect nevertheless.
CallApi(p, c) ==
    /\ pc[p] = "call" /\ c \in todo[p]
    /\ \E outcome \in {"ok"} \cup scenario.failureCodes, landed \in BOOLEAN :
         /\ outcome = "ok" => landed
         /\ outcome = "permanent" => ~landed
         /\ failures' = IF outcome = "ok" THEN failures ELSE failures + 1
         /\ failures' <= scenario.maxFailures
         /\ objects' = IF landed
                       THEN [objects EXCEPT ![c][cur[p]] = MapResourceToApiCalls(snap[p])]
                       ELSE objects
         /\ results' = [results EXCEPT ![p][c] = outcome]
    /\ todo' = [todo EXCEPT ![p] = @ \ {c}]
    /\ UNCHANGED <<clusterVars, configVars, syncVars, queue, pc, list, cur, snap, stale, readFailures>>

\* Others that have read the resource will find that it has changed.
Invalidate(r, p) == [q \in Procs |-> IF q # p /\ cur[q] = r THEN TRUE ELSE stale[q]]

\* Mutation: only successful results are written.
WriteStatusOnlyOnSuccess(p) ==
    /\ pc[p] = "call" /\ todo[p] = {}
    /\ LET r == cur[p] IN
       /\ IF snap[p] # Absent /\ ~stale[p] /\ \A c \in Configs : results[p][c] \in {"none", "ok"}
          THEN status' = [status EXCEPT ![r] = results[p]]
          ELSE UNCHANGED status
       /\ stale' = [stale EXCEPT ![p] = FALSE]
       /\ cur' = [cur EXCEPT ![p] = NoResource]
       /\ pc' = [pc EXCEPT ![p] = IF p = "controller" THEN "idle" ELSE "loop"]
       /\ snap' = [snap EXCEPT ![p] = Absent]
       /\ results' = [results EXCEPT ![p] = NoResults]
    /\ UNCHANGED <<scenario, cluster, exports, foreignCrd, changes, configChanges, crdChanges, objects,
                   configVars, syncVars, queue, list, todo, failures, readFailures>>

\* WriteSynchronizationResultToSynchronizedResource: the update is rejected if
\* the resource has changed since Get, which is logged and otherwise ignored.
\* A deleted resource has no status.  (An update with the same content in the
\* same second is no change for the API server.)
WriteStatus(p) ==
    /\ pc[p] = "call" /\ todo[p] = {}
    /\ LET r == cur[p]
           written == snap[p] # Absent /\ ~stale[p]
       IN  /\ status' = IF written THEN [status EXCEPT ![r] = results[p]] ELSE status
           /\ \/ stale' = [Invalidate(r, p) EXCEPT ![p] = FALSE] /\ written
              \/ stale' = [stale EXCEPT ![p] = FALSE] /\ status' = status
           /\ cur' = [cur EXCEPT ![p] = NoResource]
           /\ pc' = [pc EXCEPT ![p] = IF p = "controller" THEN "idle" ELSE "loop"]
           /\ snap' = [snap EXCEPT ![p] = Absent]
           /\ results' = [results EXCEPT ![p] = NoResults]
    /\ UNCHANGED <<scenario, cluster, exports, foreignCrd, changes, configChanges, crdChanges, objects,
                   configVars, syncVars, queue, list, todo, failures, readFailures>>

ReconcileStep(p) ==
    \/ SkipOnConflict(p) \/ GetResource(p) \/ GetFails(p) \/ CheckPreconditions(p)
    \/ \E c \in Configs : CallApi(p, c)
    \/ WriteStatus(p)

-----------------------------------------------------------------------------
(* The goroutines *)

ControllerTakesRequest(r) ==
    /\ pc["controller"] = "idle" /\ r \in queue
    /\ queue' = queue \ {r}
    /\ StartReconcile("controller", r)
    /\ UNCHANGED <<clusterVars, objects, configVars, syncVars, list, snap, stale, todo, results,
                   failures, readFailures>>

\* The synchronizations of all resources and of a namespace list them first.
ListResources(p) ==
    /\ pc[p] = "list"
    /\ list' = [list EXCEPT ![p] = Existing]
    /\ pc' = [pc EXCEPT ![p] = "loop"]
    /\ UNCHANGED <<clusterVars, objects, configVars, syncVars, queue, cur, snap, stale, todo,
                   results, failures, readFailures>>

\* List fails: the goroutine returns, its deferred calls are executed.
ListFails(p) ==
    /\ pc[p] = "list"
    /\ readFailures < scenario.maxReadFailures
    /\ readFailures' = readFailures + 1
    /\ pc' = [pc EXCEPT ![p] = IF p = "initial" THEN "returning" ELSE "idle"]
    /\ namespacedSyncLocked' = IF p = "namespaced" THEN FALSE ELSE namespacedSyncLocked
    /\ UNCHANGED <<clusterVars, objects, configVars, initialSyncMutex, initialSyncInProgress,
                   initialSyncHasHappened, queue, list, cur, snap, stale, todo, results, failures>>

ReconcileNext(p) ==
    /\ pc[p] = "loop"
    /\ \E r \in list[p] :
         /\ list' = [list EXCEPT ![p] = @ \ {r}]
         /\ StartReconcile(p, r)
    /\ UNCHANGED <<clusterVars, objects, configVars, syncVars, queue, snap, stale, todo, results,
                   failures, readFailures>>

\* The initial synchronization has finished ...
InitialSyncFinishes ==
    /\ pc["initial"] = "loop" /\ list["initial"] = {}
    /\ initialSyncHasHappened' = TRUE
    /\ pc' = [pc EXCEPT !["initial"] = "returning"]
    /\ UNCHANGED <<clusterVars, objects, configVars, initialSyncMutex, initialSyncInProgress,
                   namespacedSyncLocked, queue, list, cur, snap, stale, todo, results, failures,
                   readFailures>>

\* ... and the deferred call marks it as no longer in progress.
InitialSyncReturns ==
    /\ pc["initial"] = "returning"
    /\ initialSyncInProgress' = FALSE
    /\ pc' = [pc EXCEPT !["initial"] = "idle"]
    /\ UNCHANGED <<clusterVars, objects, configVars, initialSyncMutex, initialSyncHasHappened,
                   namespacedSyncLocked, queue, list, cur, snap, stale, todo, results, failures,
                   readFailures>>

NamespacedSyncFinishes ==
    /\ pc["namespaced"] = "loop" /\ list["namespaced"] = {}
    /\ namespacedSyncLocked' = FALSE
    /\ pc' = [pc EXCEPT !["namespaced"] = "idle"]
    /\ UNCHANGED <<clusterVars, objects, configVars, initialSyncMutex, initialSyncInProgress,
                   initialSyncHasHappened, queue, list, cur, snap, stale, todo, results, failures,
                   readFailures>>

HasRetryableError(r) == \E c \in Configs : status[r][c] = "retryable"

\* CreateReconcileRequestsForRetryableSyncErrors, on a tick of the retry runnable.
RetryFailedSynchronizations ==
    /\ pc["retry"] = "idle" /\ ~conflictingCrdDetected
    /\ \E r \in Existing : HasRetryableError(r)
    /\ list' = [list EXCEPT !["retry"] = {r \in Existing : HasRetryableError(r)}]
    /\ pc' = [pc EXCEPT !["retry"] = "loop"]
    /\ UNCHANGED <<clusterVars, objects, configVars, syncVars, queue, cur, snap, stale, todo,
                   results, failures, readFailures>>

RetryFinishes ==
    /\ pc["retry"] = "loop" /\ list["retry"] = {}
    /\ pc' = [pc EXCEPT !["retry"] = "idle"]
    /\ UNCHANGED <<clusterVars, objects, configVars, syncVars, queue, list, cur, snap, stale,
                   todo, results, failures, readFailures>>

-----------------------------------------------------------------------------
(* maybeDoInitialSynchronizationOfAllResources and its callers *)

\* LeaderElectionAwareRunnable#Start, then NotifyOperatorManagerJustBecameLeader.
BecomeLeader ==
    /\ ~isLeader
    /\ isLeader' = TRUE
    /\ callerPc' = [callerPc EXCEPT !["leader"] = "enter"]
    /\ UNCHANGED <<clusterVars, objects, defaultApiConfigs, namespacedApiConfigs,
                   conflictingCrdDetected, reconcilerPc, crdChanged, syncVars, queue, procVars,
                   failures, readFailures>>

\* SetDefaultApiConfigs, called when the operator configuration resource is
\* reconciled for the first time.
SetDefaultApiConfigs ==
    /\ callerPc["config"] = "idle" /\ defaultApiConfigs = {}
    /\ defaultApiConfigs' = DefaultConfigs
    /\ callerPc' = [callerPc EXCEPT !["config"] = "enter"]
    /\ UNCHANGED <<clusterVars, objects, isLeader, namespacedApiConfigs, conflictingCrdDetected,
                   reconcilerPc, crdChanged, syncVars, queue, procVars, failures, readFailures>>

\* The conflict guard, the mutex and the first of the two flags.
EnterInitialSync(c) ==
    /\ callerPc[c] = "enter"
    /\ initialSyncMutex = "free" \/ conflictingCrdDetected
    /\ IF conflictingCrdDetected \/ initialSyncHasHappened
       THEN /\ callerPc' = [callerPc EXCEPT ![c] = "idle"]
            /\ UNCHANGED initialSyncMutex
       ELSE /\ callerPc' = [callerPc EXCEPT ![c] = "decide"]
            /\ initialSyncMutex' = c
    /\ UNCHANGED <<clusterVars, objects, isLeader, defaultApiConfigs, namespacedApiConfigs,
                   conflictingCrdDetected, reconcilerPc, crdChanged, initialSyncInProgress,
                   initialSyncHasHappened, namespacedSyncLocked, queue, procVars, failures,
                   readFailures>>

\* Mutation: a synchronization that is under way does not count.
DecideInitialSyncIgnoringProgress(c) ==
    /\ callerPc[c] = "decide"
    /\ callerPc' = [callerPc EXCEPT ![c] = "idle"]
    /\ initialSyncMutex' = "free"
    /\ IF ~isLeader \/ defaultApiConfigs = {}
       THEN UNCHANGED <<initialSyncInProgress, pc>>
       ELSE /\ initialSyncInProgress' = TRUE
            /\ pc' = [pc EXCEPT !["initial"] = "list"]
    /\ UNCHANGED <<clusterVars, objects, isLeader, defaultApiConfigs, namespacedApiConfigs,
                   conflictingCrdDetected, reconcilerPc, crdChanged, initialSyncHasHappened,
                   namespacedSyncLocked, queue, list, cur, snap, stale, todo, results, failures,
                   readFailures>>

\* The second flag, leadership and the API config; starts the goroutine.
DecideInitialSync(c) ==
    /\ callerPc[c] = "decide"
    /\ callerPc' = [callerPc EXCEPT ![c] = "idle"]
    /\ initialSyncMutex' = "free"
    /\ IF initialSyncInProgress \/ ~isLeader \/ defaultApiConfigs = {}
       THEN UNCHANGED <<initialSyncInProgress, pc>>
       ELSE /\ initialSyncInProgress' = TRUE
            /\ pc' = [pc EXCEPT !["initial"] = "list"]
    /\ UNCHANGED <<clusterVars, objects, isLeader, defaultApiConfigs, namespacedApiConfigs,
                   conflictingCrdDetected, reconcilerPc, crdChanged, initialSyncHasHappened,
                   namespacedSyncLocked, queue, list, cur, snap, stale, todo, results, failures,
                   readFailures>>

\* The reconciler for the CRD records the verdict; when a conflict has been
\* resolved, the initial synchronization is to run again from scratch.
SetConflictingCrdDetected ==
    /\ crdChanged /\ callerPc["crd"] = "idle"
    /\ crdChanged' = FALSE
    /\ conflictingCrdDetected' = foreignCrd
    /\ callerPc' = [callerPc EXCEPT !["crd"] =
                      IF conflictingCrdDetected /\ ~foreignCrd THEN "reset" ELSE "idle"]
    /\ UNCHANGED <<clusterVars, objects, isLeader, defaultApiConfigs, namespacedApiConfigs,
                   reconcilerPc, syncVars, queue, procVars, failures, readFailures>>

ResetInitialSyncHasHappened ==
    /\ callerPc["crd"] = "reset"
    /\ initialSyncHasHappened' = FALSE
    /\ callerPc' = [callerPc EXCEPT !["crd"] = "enter"]
    /\ UNCHANGED <<clusterVars, objects, isLeader, defaultApiConfigs, namespacedApiConfigs,
                   conflictingCrdDetected, reconcilerPc, crdChanged, initialSyncMutex,
                   initialSyncInProgress, namespacedSyncLocked, queue, procVars, failures,
                   readFailures>>

-----------------------------------------------------------------------------
(* The monitoring reconciler *)

\* SetNamespacedApiConfigs, or RemoveNamespacedApiConfigs without an export: a
\* change of the API configs is followed by a synchronization of the namespace.
SetNamespacedApiConfigs ==
    /\ reconcilerPc = "changed"
    /\ namespacedApiConfigs' = exports
    /\ reconcilerPc' = IF exports # namespacedApiConfigs /\ isLeader /\ ~conflictingCrdDetected
                       THEN "lock" ELSE "idle"
    /\ UNCHANGED <<clusterVars, objects, isLeader, defaultApiConfigs, conflictingCrdDetected,
                   callerPc, crdChanged, syncVars, queue, procVars, failures, readFailures>>

\* Mutation: the mutex is not waited for.
SynchronizeNamespacedResourcesUnlocked ==
    /\ reconcilerPc = "lock"
    /\ namespacedSyncLocked' = TRUE
    /\ pc' = [pc EXCEPT !["namespaced"] = "list"]
    /\ reconcilerPc' = "idle"
    /\ UNCHANGED <<clusterVars, objects, isLeader, defaultApiConfigs, namespacedApiConfigs,
                   conflictingCrdDetected, callerPc, crdChanged, initialSyncMutex,
                   initialSyncInProgress, initialSyncHasHappened, queue, list, cur, snap, stale,
                   todo, results, failures, readFailures>>

\* synchronizeNamespacedResources, from the call of Lock on.  It is the caller
\* that takes the mutex, and the goroutine it starts that releases it.
SynchronizeNamespacedResources ==
    /\ reconcilerPc = "lock" /\ ~namespacedSyncLocked
    /\ namespacedSyncLocked' = TRUE
    /\ pc' = [pc EXCEPT !["namespaced"] = "list"]
    /\ reconcilerPc' = "idle"
    /\ UNCHANGED <<clusterVars, objects, isLeader, defaultApiConfigs, namespacedApiConfigs,
                   conflictingCrdDetected, callerPc, crdChanged, initialSyncMutex,
                   initialSyncInProgress, initialSyncHasHappened, queue, list, cur, snap, stale,
                   todo, results, failures, readFailures>>

-----------------------------------------------------------------------------
(* The users of the cluster *)

\* A resource is created, changed or deleted.  The predicate of the controller
\* passes these events on, other than changes of the status.
ChangeResource(r, new) ==
    /\ changes < scenario.maxChanges
    /\ new # cluster[r]
    /\ scenario.quietSync => \A p \in Procs : cur[p] # r
    /\ changes' = changes + 1
    /\ cluster' = [cluster EXCEPT ![r] = new]
    /\ status' = IF Absent \in {new, cluster[r]} THEN [status EXCEPT ![r] = NoResults] ELSE status
    /\ stale' = Invalidate(r, "none")
    /\ queue' = queue \cup {r}
    /\ UNCHANGED <<scenario, exports, foreignCrd, configChanges, crdChanges, objects, configVars, syncVars,
                   pc, list, cur, snap, todo, results, failures, readFailures>>

ChangeExports(e) ==
    /\ configChanges < scenario.maxConfigChanges
    /\ reconcilerPc = "idle" /\ e # exports
    /\ configChanges' = configChanges + 1
    /\ exports' = e
    /\ reconcilerPc' = "changed"
    /\ UNCHANGED <<scenario, cluster, status, foreignCrd, changes, crdChanges, objects, isLeader,
                   defaultApiConfigs, namespacedApiConfigs, conflictingCrdDetected, callerPc,
                   crdChanged, syncVars, queue, procVars, failures, readFailures>>

ChangeCrd ==
    /\ scenario.hasConflictGuard /\ crdChanges < scenario.maxCrdChanges
    /\ crdChanges' = crdChanges + 1
    /\ foreignCrd' = ~foreignCrd
    /\ crdChanged' = TRUE
    /\ UNCHANGED <<scenario, cluster, status, exports, changes, configChanges, objects, isLeader,
                   defaultApiConfigs, namespacedApiConfigs, conflictingCrdDetected, callerPc,
                   reconcilerPc, syncVars, queue, procVars, failures, readFailures>>

-----------------------------------------------------------------------------
ProcStep(p) == ReconcileStep(p) \/ ListResources(p) \/ ListFails(p) \/ ReconcileNext(p)

CallerStep(c) == EnterInitialSync(c) \/ DecideInitialSync(c)

Operator ==
    \/ \E p \in Procs : ProcStep(p)
    \/ \E r \in Resources : ControllerTakesRequest(r)
    \/ InitialSyncFinishes \/ InitialSyncReturns \/ NamespacedSyncFinishes
    \/ RetryFailedSynchronizations \/ RetryFinishes
    \/ BecomeLeader \/ SetDefaultApiConfigs
    \/ \E c \in Callers : CallerStep(c)
    \/ SetConflictingCrdDetected \/ ResetInitialSyncHasHappened
    \/ SetNamespacedApiConfigs \/ SynchronizeNamespacedResources

Environment ==
    \/ \E r \in Resources, new \in [content : scenario.contents, disabled : BOOLEAN] \cup {Absent} :
           ChangeResource(r, new)
    \/ \E e \in scenario.exportChoices : ChangeExports(e)
    \/ ChangeCrd

Next == Operator \/ Environment

Spec == Init /\ [][Next]_vars

\* Goroutines, workers and reconcilers keep running, the replica becomes leader,
\* the operator configuration resource exists, the ticker keeps ticking; users
\* are under no obligation.
Fairness ==
    /\ \A p \in Procs : WF_vars(ProcStep(p))
    /\ WF_vars(\E r \in Resources : ControllerTakesRequest(r))
    /\ WF_vars(InitialSyncFinishes) /\ WF_vars(InitialSyncReturns)
    /\ WF_vars(NamespacedSyncFinishes) /\ WF_vars(RetryFinishes)
    /\ WF_vars(RetryFailedSynchronizations)
    /\ WF_vars(BecomeLeader) /\ WF_vars(SetDefaultApiConfigs)
    /\ \A c \in Callers : WF_vars(CallerStep(c))
    /\ WF_vars(SetConflictingCrdDetected) /\ WF_vars(ResetInitialSyncHasHappened)
    /\ WF_vars(SetNamespacedApiConfigs) /\ WF_vars(SynchronizeNamespacedResources)

FairSpec == Spec /\ Fairness

-----------------------------------------------------------------------------
(* Properties *)

Outcomes == {"none", "ok", "retryable", "permanent"}

\* The state has its type, and a goroutine has a resource exactly while it is in
\* Reconcile, API configs to go through only while it calls the API.
TypeOK ==
    /\ cluster \in [Resources -> Snapshots \cup {Absent}]
    /\ status \in [Resources -> [Configs -> Outcomes]]
    /\ objects \in [Configs -> [Resources -> Contents \cup {Absent}]]
    /\ exports \in scenario.exportChoices
    /\ defaultApiConfigs \in {{}, DefaultConfigs} /\ namespacedApiConfigs \in SUBSET NamespacedConfigs
    /\ initialSyncMutex \in Callers \cup {"free"}
    /\ queue \subseteq Resources
    /\ pc \in [Procs -> {"idle", "list", "loop", "get", "check", "call", "returning"}]
    /\ list \in [Procs -> SUBSET Resources]
    /\ cur \in [Procs -> Resources \cup {NoResource}]
    /\ \A p \in Procs : cur[p] \in Resources <=> pc[p] \in {"get", "check", "call"}
    /\ snap \in [Procs -> Snapshots \cup {Absent}]
    /\ stale \in [Procs -> BOOLEAN]
    /\ todo \in [Procs -> SUBSET Configs]
    /\ \A p \in Procs : todo[p] # {} => pc[p] = "call"
    /\ results \in [Procs -> [Configs -> Outcomes]]
    /\ callerPc \in [Callers -> {"idle", "reset", "enter", "decide"}]
    /\ reconcilerPc \in {"idle", "changed", "lock"}

\* Nothing is under way, and leadership and the default API config are there.
Settled ==
    /\ queue = {} /\ \A p \in Procs : pc[p] = "idle"
    /\ \A c \in Callers : callerPc[c] = "idle"
    /\ reconcilerPc = "idle" /\ ~crdChanged
    /\ isLeader /\ defaultApiConfigs # {}

\* The object that the resource asks for, Absent if there should be none.
Wanted(r) ==
    IF r \in Existing /\ ~cluster[r].disabled THEN cluster[r].content ELSE Absent

InSync(r, c) == objects[c][r] = Wanted(r)

\* What can make the operator forget a resource has not happened: a failure to read from
\* the cluster, which is only logged; a CRD that has changed hands; a resource that changes
\* while it is synchronized; a failed call whose result is not written, because another
\* goroutine has meanwhile written the results for the API configs of before.
Undisturbed ==
    /\ ~conflictingCrdDetected /\ readFailures = 0 /\ crdChanges = 0
    /\ scenario.quietSync
    /\ failures = 0 \/ configChanges = 0

\* When everything has settled, every resource of the namespace is in sync with
\* every API config in force, or an error is on record for that config: nothing
\* is forgotten between the controller, the two kinds of synchronization, and
\* the retries, which run concurrently and overwrite each other's results (the
\* docs: the status shows whether an error occurred during synchronization).
InSyncOrErrorRecorded ==
    Settled /\ Undisturbed =>
        \A r \in Existing, c \in ValidatedApiConfigs :
            InSync(r, c) \/ status[r][c] \in {"retryable", "permanent"}

\* At rest, the Dash0 API has what the cluster has, or the status says that it has
\* not (Reconcile of the controllers of owned resources, and all its callers).
SettledIsInSync == TypeOK /\ InSyncOrErrorRecorded

\* A namespace with an export of its own is never synchronized to the default
\* API config, however early the operator configuration resource is reconciled.
OwnExportKeepsOutOfDefaultBackend ==
    configChanges = 0 /\ exports # {} =>
        \A c \in DefaultConfigs \ NamespacedConfigs, r \in Resources : objects[c][r] = Absent

StartsAlone(goroutine) ==
    pc'[goroutine] = "list" /\ pc[goroutine] # "list" => pc[goroutine] = "idle"

\* There is at most one initial synchronization at a time, although the flags that
\* guard it are written by the goroutine without the mutex, and at most one
\* synchronization per namespace, although the goroutine that releases the mutex is
\* not the one that has taken it (maybeDoInitialSynchronizationOfAllResources,
\* synchronizeNamespacedResources).
SyncsAreKeptApart == [][StartsAlone("initial") /\ StartsAlone("namespaced")]_vars

(* The inductive invariants behind these properties, see OwnedResourceSyncProofs. *)

\* A goroutine that is running has its flag or its mutex.
SyncsAreFlagged ==
    /\ pc \in [Procs -> {"idle", "list", "loop", "get", "check", "call", "returning"}]
    /\ pc["initial"] # "idle" => initialSyncInProgress = TRUE
    /\ pc["namespaced"] # "idle" => namespacedSyncLocked = TRUE

\* In a namespace whose monitoring resource has an export and has not changed,
\* no goroutine is about to call, and none has called, another API config.
NoDefaultConfigInUse ==
    /\ DOMAIN todo = Procs /\ DOMAIN objects = Configs /\ configChanges \in Nat
    /\ configChanges = 0 =>
         /\ exports \subseteq NamespacedConfigs
         /\ namespacedApiConfigs \in {{}, exports}
         /\ exports # {} => \A p \in Procs : todo[p] \subseteq NamespacedConfigs
         /\ exports # {} => \A c \in DefaultConfigs \ NamespacedConfigs, r \in Resources :
                               objects[c][r] = Absent

\* Once users and API leave it alone, the operator brings every resource in sync
\* with every API config, or leaves an error on record that is not worth a retry,
\* and that stays so.  (Claimed where reading the cluster does not fail and the
\* CRD is the operator's.)
EventuallyInSync ==
    scenario.maxReadFailures = 0 /\ ~scenario.hasConflictGuard =>
        <>[](\A r \in Existing, c \in ValidatedApiConfigs :
               InSync(r, c) \/ status[r][c] = "permanent")

\* What the docs say of changed and deleted resources: the corresponding object
\* is updated or deleted (no API failures).
ChangesReachTheApi ==
    Settled /\ failures = 0 => \A r \in Resources, c \in ValidatedApiConfigs : InSync(r, c)
=============================================================================
