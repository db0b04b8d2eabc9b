--------------------------- MODULE Instrumentation ---------------------------
(***************************************************************************)
(* Automatic workload instrumentation in one namespace: the monitoring     *)
(* resource and its reconciler, the Instrumenter that modifies existing    *)
(* workloads (from the reconciler and once at operator start), and the     *)
(* admission webhook that modifies workloads when they are deployed or     *)
(* changed.  Both read the monitoring resource from the informer cache.    *)
(*                                                                         *)
(* A workload is abstracted to what the decisions look at: the label the   *)
(* selector tests (enable), dash0.com/instrumented (label), the operator   *)
(* version whose modifications its pod spec has (0: none), the value of    *)
(* OTEL_PROPAGATORS (propagators), and dash0.com/webhook-ignore-once.      *)
(* "deployment" stands for every kind Kubernetes rolls out by itself       *)
(* (cron jobs, daemon sets, deployments, stateful sets), "replicaset" for  *)
(* a replica set without owner; running is the version its pods run.       *)
(*                                                                         *)
(* Get, modify and Update of one object are one step: an Update based on   *)
(* a stale read is refused by the API server (resourceVersion) and tried   *)
(* again.  Running out of attempts is UpdateFails.  Deletion of a workload *)
(* is one step, and a name is not used again for another object.           *)
(***************************************************************************)
EXTENDS Naturals, Sequences, FiniteSets

CONSTANTS
  Workloads,        \* names of workloads
  Kind,             \* [Workloads -> Kinds]
  Propagators,      \* values of OTEL_PROPAGATORS
  NoPropagators,    \* spec.instrumentWorkloads.traceContext.propagators unset
  Absent, Unborn, Gone,
  MaxVersion,       \* bound: operator versions
  Scenarios         \* what happens around the operator, see ScenariosAssumption

Kinds == {"deployment", "replicaset", "job", "pod"}
Modes == {"all", "created-and-updated", "none"}
Actors == {"reconcile", "startup"}
Enables == {"unset", "true", "false"}  \* the label that the selector tests

WorkloadObjects ==
  [enable : Enables, label : {"none", "true", "false"}, version : 0..MaxVersion,
   propagators : Propagators, ignoreOnce : BOOLEAN, running : 0..MaxVersion]

MonitoringSpecs ==
  [mode : Modes, selector : {"optOut", "optIn"}, propagators : Propagators]

MonitoringResources ==
  [mode : Modes, selector : {"optOut", "optIn"}, propagators : Propagators,
   marked : BOOLEAN, finalizer : BOOLEAN,
   cond : {"none", "unknown", "available", "degraded"},
   prevMode : Modes \cup {""}, prevSelector : {"optOut", "optIn", ""},
   prevPropagators : Propagators]

SpecOf(m) == [mode |-> m.mode, selector |-> m.selector, propagators |-> m.propagators]

\* The label dash0.com/instrumented=true is there if and only if the modifications are.
LabelMatches(obj) == (obj.label = "true") <=> (obj.version > 0)

ASSUME ConstantsAssumption ==
  /\ Kind \in [Workloads -> Kinds] /\ NoPropagators \in Propagators /\ MaxVersion \in Nat \ {0}
  /\ Unborn # Gone /\ Unborn \notin WorkloadObjects \cup Workloads /\ Gone \notin WorkloadObjects
  /\ Absent \notin MonitoringResources
ASSUME ScenariosAssumption ==
  \A s \in Scenarios :
    /\ s.workloads \in [Workloads -> WorkloadObjects \cup {Unborn, Gone}] \* at the start
    \* No unanswered admission request and no restart before the start has left anything behind.
    /\ \A w \in Workloads : s.workloads[w] \notin {Unborn, Gone} =>
         /\ LabelMatches(s.workloads[w]) /\ ~s.workloads[w].ignoreOnce
         /\ s.workloads[w].running = s.workloads[w].version
    /\ s.enables \subseteq Enables              \* the labels users choose
    /\ s.editable \subseteq Workloads           \* workloads that users update
    /\ s.deletable \subseteq Workloads          \* workloads that users delete
    /\ s.monitoringSpecs \subseteq MonitoringSpecs  \* what users may write
    /\ s.monitoring \in MonitoringResources \cup {Absent}  \* at the start
    /\ s.monitoringIsDeleted \in BOOLEAN        \* may users delete it?
    /\ s.operatorIsStarting \in BOOLEAN         \* has the operator just been started?
    /\ s.promptReconcile \in BOOLEAN \* do users change it only when the operator is at rest?
    /\ s.earlyDeploy \in BOOLEAN     \* do users deploy before its first reconcile is through?
    /\ \A b \in {"updates", "monitoringChanges", "listFailures", "failures", "missed",
                  "restarts"} : s.budget[b] \in Nat

VARIABLES
  scenario,    \* a member of Scenarios; never changes
  workload,    \* [Workloads -> WorkloadObjects \cup {Unborn, Gone}]
  monitoring,  \* the monitoring resource in the API server, or Absent
  cache,       \* the same resource in the operator's informer cache
  queued,      \* the reconcile request is in the work queue
  version,     \* the version of the running operator
  run,         \* [Actors -> the run of Reconcile / InstrumentAtStartup]
  missed,      \* number of admission requests that went unanswered
  used         \* how much of each other bound has been used

vars == <<scenario, workload, monitoring, cache, queued, version, run, missed, used>>

Spend(b) ==
  /\ used[b] < scenario.budget[b]
  /\ used' = [used EXCEPT ![b] = @ + 1]

Live == {w \in Workloads : workload[w] \notin {Unborn, Gone}}

(***************************************************************************)
(* The label selector.  Its default is the opt-out selector                *)
(* dash0.com/enable!=false; a custom one may be opt-in (enable=true).      *)
(***************************************************************************)
ShouldBeInstrumented(obj, selector) ==
  IF selector = "optIn" THEN obj.enable = "true" ELSE obj.enable # "false"

HasOptedOutOfInstrumentation(obj, selector) == ~ShouldBeInstrumented(obj, selector)

(***************************************************************************)
(* The workload modifier, for the parts whose outcome depends on earlier   *)
(* reconciles: the operator recognises its own OTEL_PROPAGATORS only by    *)
(* comparing it with the previous setting in the status.                   *)
(***************************************************************************)
OtelPropagatorsCanBeUpdated(obj, m) ==
  IF m.propagators = NoPropagators
    THEN /\ obj.propagators # NoPropagators
         /\ obj.propagators = m.prevPropagators
    ELSE \/ obj.propagators = NoPropagators
         \/ /\ obj.propagators # m.propagators
            /\ obj.propagators = m.prevPropagators

InstrumentationIsUpToDate(obj, m) ==
  /\ obj.label = "true"
  /\ obj.version = version
  /\ ~OtelPropagatorsCanBeUpdated(obj, m)

\* modifyResource: labels are only written when the pod spec has changed.
Modify(obj, m) ==
  LET value == IF OtelPropagatorsCanBeUpdated(obj, m) THEN m.propagators
                                                       ELSE obj.propagators
  IN IF obj.version = version /\ value = obj.propagators
       THEN obj
       ELSE [obj EXCEPT !.version = version, !.propagators = value, !.label = "true"]

\* revertResource: only the value of the current setting is removed.
Revert(obj, m) ==
  LET value == IF m.propagators = obj.propagators THEN NoPropagators
                                                  ELSE obj.propagators
  IN CASE obj.label = "false" -> [obj EXCEPT !.label = "none"]
       [] obj.label # "false" /\ obj.version = 0 /\ value = obj.propagators -> obj
       [] OTHER -> [obj EXCEPT !.version = 0, !.propagators = value, !.label = "none"]

(***************************************************************************)
(* The admission webhook.                                                  *)
(***************************************************************************)
\* Variant: honours the label, but leaves it on the workload.
KeepIgnoreOnceLabel(obj) == obj

ConsumeIgnoreOnceLabel(obj) == [obj EXCEPT !.ignoreOnce = FALSE]

\* Variant: a resource that is about to be deleted still counts.
WebhookIsActiveDuringDeletion(m) ==
  m # Absent /\ m.cond = "available" /\ m.mode # "none"

WebhookIsActive(m) ==
  m # Absent /\ m.cond = "available" /\ ~m.marked /\ m.mode # "none"

\* What Handle answers to an admission request for obj.
Handle(w, obj) ==
  LET optedOut == HasOptedOutOfInstrumentation(obj, cache.selector)
  IN CASE obj.ignoreOnce -> ConsumeIgnoreOnceLabel(obj)
       [] ~obj.ignoreOnce /\ ~WebhookIsActive(cache) -> obj
       [] OTHER -> CASE optedOut /\ obj.label # "true" -> obj
                     [] optedOut /\ obj.label = "true" ->
                          IF Kind[w] \in {"job", "pod"} THEN obj ELSE Revert(obj, cache)
                     [] ~optedOut -> Modify(obj, cache)

Store(w, obj) == workload' = [workload EXCEPT ![w] = obj]

\* An admission request that is answered, or not (failurePolicy Ignore).
Admit(w, obj) ==
  \/ Store(w, Handle(w, obj)) /\ UNCHANGED missed
  \/ missed < scenario.budget.missed /\ missed' = missed + 1 /\ Store(w, obj)

\* The webhook is not registered for updates of jobs and pods.
Update(w, obj) ==
  IF Kind[w] \in {"job", "pod"} THEN Store(w, obj) /\ UNCHANGED missed
                                ELSE Admit(w, obj)

(***************************************************************************)
(* Runs.  m is the monitoring resource as the run has read it; todo maps   *)
(* the workloads of the kind listed last that are still to be handled to   *)
(* the objects in the list response.                                       *)
(***************************************************************************)
Idle == [pc |-> "idle", m |-> Absent, first |-> FALSE, op |-> "nothing",
         kinds |-> <<>>, todo |-> <<>>, failed |-> FALSE, restart |-> Unborn]

InitialRun == [Idle EXCEPT !.pc = "pending"]

KindOrder == <<"deployment", "job", "replicaset">>

Work(m, op) == [Idle EXCEPT !.pc = "work", !.m = m, !.op = op, !.kinds = KindOrder]

SetRun(a, r) == run' = [run EXCEPT ![a] = r]

Without(f, x) == [y \in DOMAIN f \ {x} |-> f[y]]

Settled ==
  /\ cache = monitoring
  /\ ~queued
  /\ \A a \in Actors : run[a].pc = "idle"

-----------------------------------------------------------------------------
(***************************************************************************)
(* What the Instrumenter does to one workload: the object to store, or the *)
(* object as it is when nothing needs to be written.  The action is chosen *)
(* by the listed object seen, and applied to the current object obj.       *)
(***************************************************************************)
RemoveLeftoverWebhookIgnoreOnceLabel(obj) == [obj EXCEPT !.ignoreOnce = FALSE]

\* Variant: a workload that has opted out is skipped, instrumented or not.
InstrumentWorkloadSkippingOptedOut(seen, obj, m) ==
  LET change == Modify(obj, m)
  IN CASE HasOptedOutOfInstrumentation(seen, m.selector) -> obj
       [] OTHER -> IF change = obj THEN obj ELSE [change EXCEPT !.ignoreOnce = TRUE]

InstrumentWorkload(seen, obj, m) ==
  LET optedOut == HasOptedOutOfInstrumentation(seen, m.selector)
      change   == IF seen.label = "true" /\ optedOut
                    THEN Revert(obj, m)
                    ELSE Modify(obj, m)
      isSkipped == \/ ~optedOut /\ InstrumentationIsUpToDate(seen, m)
                   \/ optedOut /\ seen.label # "true"
  IN CASE isSkipped /\ ~seen.ignoreOnce -> obj
       [] isSkipped /\ seen.ignoreOnce -> RemoveLeftoverWebhookIgnoreOnceLabel(obj)
       [] ~isSkipped /\ change = obj -> RemoveLeftoverWebhookIgnoreOnceLabel(obj)
       [] ~isSkipped /\ change # obj ->
            IF optedOut THEN change ELSE [change EXCEPT !.ignoreOnce = TRUE]

\* Variant: labels every job as one that cannot be instrumented.
HandleJobOnInstrumentationAlways(seen, obj, m) ==
  IF HasOptedOutOfInstrumentation(seen, m.selector)
    THEN [obj EXCEPT !.label = "none"] ELSE [obj EXCEPT !.label = "false"]

HandleJobOnInstrumentation(seen, obj, m) ==
  LET optedOut == HasOptedOutOfInstrumentation(seen, m.selector)
  IN CASE optedOut /\ seen.label = "false" -> [obj EXCEPT !.label = "none"]
       [] ~optedOut /\ seen.label = "none" -> [obj EXCEPT !.label = "false"]
       [] OTHER -> obj

RevertWorkloadInstrumentation(obj, m) ==
  LET change == Revert(obj, m)
  IN IF change = obj THEN obj ELSE [change EXCEPT !.ignoreOnce = TRUE]

HandleJobOnUninstrumentation(obj) ==
  IF obj.label = "false" THEN [obj EXCEPT !.label = "none"] ELSE obj

Desired(w, seen, r) ==
  LET obj == workload[w]
  IN CASE r.op = "instrument" /\ Kind[w] = "job" -> HandleJobOnInstrumentation(seen, obj, r.m)
       [] r.op = "instrument" /\ Kind[w] # "job" -> InstrumentWorkload(seen, obj, r.m)
       [] r.op = "uninstrument" /\ Kind[w] = "job" -> HandleJobOnUninstrumentation(obj)
       [] r.op = "uninstrument" /\ Kind[w] # "job" -> RevertWorkloadInstrumentation(obj, r.m)

(***************************************************************************)
(* The loop over the kinds and their workloads, run by both actors.        *)
(***************************************************************************)
Listed(k, op) ==
  {w \in Live : Kind[w] = k /\ (op = "uninstrument" => workload[w].label # "none")}

ListKind(a) ==
  /\ run[a].pc = "work" /\ run[a].todo = <<>> /\ run[a].kinds # <<>>
  /\ SetRun(a, [run[a] EXCEPT
       !.kinds = Tail(@),
       !.todo = [w \in Listed(Head(run[a].kinds), run[a].op) |-> workload[w]]])
  /\ UNCHANGED <<scenario, workload, monitoring, cache, queued, version, missed, used>>

\* The other kinds are processed before the error is returned.
ListKindFails(a) ==
  /\ run[a].pc = "work" /\ run[a].todo = <<>> /\ run[a].kinds # <<>>
  /\ Spend("listFailures")
  /\ SetRun(a, [run[a] EXCEPT !.kinds = Tail(@), !.failed = TRUE])
  /\ UNCHANGED <<scenario, workload, monitoring, cache, queued, version, missed>>

\* Variant: removing the instrumentation does not count.
HasBeenInstrumented(old, new) == old.version # new.version /\ new.version > 0

\* HasBeenModified: more than the ignore-once label differs.
HasBeenModified(old, new) ==
  <<old.label, old.version, old.propagators>> # <<new.label, new.version, new.propagators>>

\* A workload that has been deleted since the List makes Get fail: no update.
HandleWorkload(a) ==
  \E w \in DOMAIN run[a].todo :
    LET r    == run[a]
        done == [r EXCEPT !.todo = Without(@, w)]
    IN /\ r.pc = "work"
       /\ IF w \in Live /\ Desired(w, r.todo[w], r) # workload[w]
            THEN LET obj == Desired(w, r.todo[w], r)
                 IN /\ Update(w, obj)
                    /\ SetRun(a, IF Kind[w] = "replicaset" /\ HasBeenModified(workload[w], obj)
                                   THEN [done EXCEPT !.pc = "restartPods", !.restart = w]
                                   ELSE done)
            ELSE UNCHANGED <<workload, missed>> /\ SetRun(a, done)
       /\ UNCHANGED <<scenario, monitoring, cache, queued, version, used>>

\* Every attempt to update the workload has failed: an event, and no error.
UpdateFails(a) ==
  \E w \in DOMAIN run[a].todo :
    /\ run[a].pc = "work"
    /\ Spend("failures")
    /\ SetRun(a, [run[a] EXCEPT !.todo = Without(@, w)])
    /\ UNCHANGED <<scenario, workload, monitoring, cache, queued, version, missed>>

\* The pods of a replica set that has been updated are deleted.
RestartPodsOfReplicaSet(a) ==
  LET w == run[a].restart
  IN /\ run[a].pc = "restartPods"
     /\ IF w \in Live THEN Store(w, [workload[w] EXCEPT !.running = workload[w].version])
                      ELSE UNCHANGED workload
     /\ SetRun(a, [run[a] EXCEPT !.pc = "work", !.restart = Unborn])
     /\ UNCHANGED <<scenario, monitoring, cache, queued, version, missed, used>>

RestartPodsFails(a) ==
  /\ run[a].pc = "restartPods"
  /\ Spend("failures")
  /\ SetRun(a, [run[a] EXCEPT !.pc = "work", !.restart = Unborn])
  /\ UNCHANGED <<scenario, workload, monitoring, cache, queued, version, missed>>

WorkIsDone(a) ==
  run[a].pc = "work" /\ run[a].todo = <<>> /\ run[a].kinds = <<>>

-----------------------------------------------------------------------------
(***************************************************************************)
(* InstrumentAtStartup, which runs once, beside the reconciler.            *)
(***************************************************************************)
InstrumentAtStartup ==
  /\ run["startup"].pc = "pending"
  /\ SetRun("startup",
       IF /\ cache # Absent
          /\ ~cache.marked
          /\ cache.cond \notin {"unknown", "degraded"}
          /\ cache.mode = "all"
         THEN Work(cache, "instrument")
         ELSE Idle)
  /\ UNCHANGED <<scenario, workload, monitoring, cache, queued, version, missed, used>>

FinishStartup ==
  /\ WorkIsDone("startup")
  /\ SetRun("startup", Idle)
  /\ UNCHANGED <<scenario, workload, monitoring, cache, queued, version, missed, used>>

-----------------------------------------------------------------------------
(***************************************************************************)
(* The monitoring reconciler.  A write of the monitoring resource based on *)
(* a copy that is no longer current is a conflict: Reconcile returns the   *)
(* error and the request is queued again.                                  *)
(***************************************************************************)
\* Variant: keeps the copy of the resource that is no longer current.
RequeueWithSameCopy ==
  /\ queued' = TRUE
  /\ UNCHANGED <<run, monitoring>>

Requeue ==
  /\ queued' = TRUE
  /\ SetRun("reconcile", Idle)
  /\ UNCHANGED monitoring

WriteMonitoring(m, next) ==
  IF monitoring = run["reconcile"].m
    THEN /\ monitoring' = m
         /\ SetRun("reconcile", next)
         /\ UNCHANGED queued
    ELSE Requeue

\* The first reconcile is the one that finds no status conditions.
InitStatusConditions ==
  LET read(m, first) == [Idle EXCEPT !.pc = "finalizers", !.m = m, !.first = first]
      unknown == [cache EXCEPT !.cond = "unknown"]
  IN \/ /\ cache.cond # "none"
        /\ queued' = FALSE
        /\ SetRun("reconcile", read(cache, FALSE))
        /\ UNCHANGED monitoring
     \/ /\ cache.cond = "none"
        /\ IF monitoring = cache
             THEN /\ monitoring' = unknown
                  /\ queued' = FALSE
                  /\ SetRun("reconcile", read(unknown, TRUE))
             ELSE Requeue

BeginReconcile ==
  /\ run["reconcile"].pc = "idle" /\ queued
  /\ \/ cache = Absent /\ queued' = FALSE /\ UNCHANGED <<run, monitoring>>
     \/ cache # Absent /\ InitStatusConditions
  /\ UNCHANGED <<scenario, workload, cache, version, missed, used>>

\* Variant: misses the change from created-and-updated to all.
RequiredActionFromNone(m, first) ==
  CASE first -> "nothing"
    [] ~first /\ m.prevMode = "none" /\ m.mode = "all" -> "instrument"
    [] ~first /\ m.prevMode # "none" /\ m.mode = "none" -> "uninstrument"
    [] OTHER -> IF m.prevSelector # m.selector \/ m.prevPropagators # m.propagators
                  THEN "instrument" ELSE "nothing"

\* manageInstrumentWorkloadsChanges
RequiredAction(m, first) ==
  CASE first -> "nothing"
    [] ~first /\ m.prevMode \notin {"all", ""} /\ m.mode = "all" -> "instrument"
    [] ~first /\ m.prevMode # "none" /\ m.mode = "none" -> "uninstrument"
    [] OTHER -> IF m.prevSelector # m.selector \/ m.prevPropagators # m.propagators
                  THEN "instrument" ELSE "nothing"

\* CheckSettingsAndInstrumentExistingWorkloads, UninstrumentWorkloadsIfAvailable
WorkRequired(m, first) ==
  IF first \/ RequiredAction(m, first) = "instrument"
    THEN IF m.mode = "all" THEN "instrument" ELSE "nothing"
    ELSE IF RequiredAction(m, first) = "uninstrument" /\ m.cond = "available"
           THEN "uninstrument" ELSE "nothing"

Proceed(m, first) ==
  IF WorkRequired(m, first) = "nothing"
    THEN [Idle EXCEPT !.pc = "status", !.m = m]
    ELSE Work(m, WorkRequired(m, first))

\* CheckImminentDeletionAndHandleFinalizers, and what follows from it.
HandleFinalizers ==
  LET r == run["reconcile"]
      withFinalizer == [r.m EXCEPT !.finalizer = TRUE]
  IN /\ r.pc = "finalizers"
     /\ \/ /\ ~r.m.marked
           /\ IF r.m.finalizer
                THEN SetRun("reconcile", Proceed(r.m, r.first)) /\ UNCHANGED <<monitoring, queued>>
                ELSE WriteMonitoring(withFinalizer, Proceed(withFinalizer, r.first))
        \/ /\ r.m.marked
           /\ SetRun("reconcile",
                CASE ~r.m.finalizer -> Idle
                  [] r.m.finalizer /\ r.m.cond = "available" -> Work(r.m, "uninstrument")
                  [] r.m.finalizer /\ r.m.cond # "available" ->
                       [Idle EXCEPT !.pc = "cleanup", !.m = r.m])
           /\ UNCHANGED <<monitoring, queued>>
     /\ UNCHANGED <<scenario, workload, cache, version, missed, used>>

\* Variant: goes on without the resource it has read.
FinishWorkWithoutResource ==
  /\ WorkIsDone("reconcile")
  /\ SetRun("reconcile", [Idle EXCEPT !.pc = "status"])
  /\ UNCHANGED <<scenario, workload, monitoring, cache, queued, version, missed, used>>

FinishWork ==
  LET r == run["reconcile"]
  IN /\ WorkIsDone("reconcile")
     /\ IF r.failed
          THEN Requeue
          ELSE /\ SetRun("reconcile", [Idle EXCEPT
                    !.pc = IF r.m.marked THEN "cleanup" ELSE "status", !.m = r.m])
               /\ UNCHANGED <<monitoring, queued>>
     /\ UNCHANGED <<scenario, workload, cache, version, missed, used>>

UpdateStatusAfterReconcile ==
  LET m == run["reconcile"].m
  IN /\ run["reconcile"].pc = "status"
     /\ WriteMonitoring([m EXCEPT !.cond = "available", !.prevMode = m.mode,
                                  !.prevSelector = m.selector,
                                  !.prevPropagators = m.propagators], Idle)
     /\ UNCHANGED <<scenario, workload, cache, version, missed, used>>

\* runCleanupActions: first the status, then the finalizer.
MarkAboutToBeDeleted ==
  LET m == [run["reconcile"].m EXCEPT !.cond = "degraded"]
  IN /\ run["reconcile"].pc = "cleanup"
     /\ WriteMonitoring(m, [Idle EXCEPT !.pc = "removeFinalizer", !.m = m])
     /\ UNCHANGED <<scenario, workload, cache, version, missed, used>>

RemoveFinalizer ==
  /\ run["reconcile"].pc = "removeFinalizer"
  /\ WriteMonitoring(Absent, Idle)
  /\ UNCHANGED <<scenario, workload, cache, version, missed, used>>

-----------------------------------------------------------------------------
(***************************************************************************)
(* The informer and the operator process.                                  *)
(***************************************************************************)
\* monitoringPredicate
TriggersReconcile(old, new) ==
  \/ old = Absent
  \/ new = Absent
  \/ ~old.marked /\ new.marked
  \/ SpecOf(old) # SpecOf(new)
  \/ old.cond # "available" /\ new.cond = "available"

InformerEvent ==
  /\ cache # monitoring
  /\ cache' = monitoring
  /\ queued' = (queued \/ TriggersReconcile(cache, monitoring))
  /\ UNCHANGED <<scenario, workload, monitoring, version, run, missed, used>>

\* The operator is restarted, maybe with a newer version.  Its caches are
\* synchronized before it reconciles every resource they hold.
Restart ==
  /\ Spend("restarts")
  /\ version' \in {version, version + 1} \cap (1..MaxVersion)
  /\ cache' = monitoring
  /\ queued' = (monitoring # Absent)
  /\ run' = [a \in Actors |-> IF a = "startup" THEN InitialRun ELSE Idle]
  /\ UNCHANGED <<scenario, workload, monitoring, missed>>

-----------------------------------------------------------------------------
(***************************************************************************)
(* Users.                                                                  *)
(***************************************************************************)
NewWorkload(e) == [enable |-> e, label |-> "none", version |-> 0,
                   propagators |-> NoPropagators, ignoreOnce |-> FALSE, running |-> 0]

\* Users may have to wait until the webhook takes notice of the monitoring resource.
MayDeploy == scenario.earlyDeploy \/ monitoring = Absent \/ (cache # Absent /\ cache.cond = "available")

\* The first pods of a workload are created from the admitted object.
CreateWorkload(w) ==
  /\ workload[w] = Unborn /\ MayDeploy
  /\ Spend("updates")
  /\ \E e \in scenario.enables :
       \/ /\ LET obj == Handle(w, NewWorkload(e))
             IN Store(w, [obj EXCEPT !.running = obj.version])
          /\ UNCHANGED missed
       \/ /\ missed < scenario.budget.missed /\ missed' = missed + 1
          /\ Store(w, NewWorkload(e))
  /\ UNCHANGED <<scenario, monitoring, cache, queued, version, run>>

\* An update that keeps the operator's modifications (apply), or not (replace).
UpdateWorkload(w) ==
  /\ w \in Live \cap scenario.editable /\ MayDeploy
  /\ Spend("updates")
  /\ \E e \in scenario.enables :
       \/ Update(w, [workload[w] EXCEPT !.enable = e])
       \/ /\ Kind[w] = "deployment"
          /\ Update(w, NewWorkload(e))
  /\ UNCHANGED <<scenario, monitoring, cache, queued, version, run>>

DeleteWorkload(w) ==
  /\ w \in Live \cap scenario.deletable
  /\ Spend("updates")
  /\ Store(w, Gone)
  /\ UNCHANGED <<scenario, monitoring, cache, queued, version, run, missed>>

NewMonitoring(s) ==
  [mode |-> s.mode, selector |-> s.selector, propagators |-> s.propagators,
   marked |-> FALSE, finalizer |-> FALSE, cond |-> "none",
   prevMode |-> "", prevSelector |-> "", prevPropagators |-> NoPropagators]

\* A resource that has a finalizer is only marked for deletion.
ChangeMonitoring ==
  /\ scenario.promptReconcile => Settled
  /\ Spend("monitoringChanges")
  /\ \/ /\ monitoring = Absent
        /\ \E s \in scenario.monitoringSpecs : monitoring' = NewMonitoring(s)
     \/ /\ monitoring # Absent
        /\ ~monitoring.marked
        /\ \/ \E s \in scenario.monitoringSpecs \ {SpecOf(monitoring)} :
                monitoring' = [monitoring EXCEPT !.mode = s.mode, !.selector = s.selector,
                                                 !.propagators = s.propagators]
           \/ /\ scenario.monitoringIsDeleted
              /\ monitoring' = IF monitoring.finalizer
                                 THEN [monitoring EXCEPT !.marked = TRUE]
                                 ELSE Absent
  /\ UNCHANGED <<scenario, workload, cache, queued, version, run, missed>>

\* What the reconciler leaves behind when it is through with an unmarked resource.
IsReconciled(m) ==
  /\ ~m.marked /\ m.finalizer /\ m.cond = "available"
  /\ m.prevMode = m.mode /\ m.prevSelector = m.selector /\ m.prevPropagators = m.propagators

\* Users who wait for the operator start from what it has left behind: the monitoring
\* resource has been reconciled, or is new to an operator that is just being started.
ASSUME StartAssumption ==
  \A s \in Scenarios : s.promptReconcile =>
    /\ \/ s.monitoring = Absent \/ IsReconciled(s.monitoring)
       \/ s.operatorIsStarting /\ \E spec \in MonitoringSpecs : s.monitoring = NewMonitoring(spec)
    /\ (s.monitoring = Absent \/ s.monitoring.mode = "none") =>
         \A w \in Workloads :
           s.workloads[w] \notin {Unborn, Gone} /\ Kind[w] \in {"deployment", "replicaset"}
             => s.workloads[w].version = 0
    /\ (s.monitoring # Absent /\ s.monitoring.mode = "all" /\ s.monitoring.cond = "available") =>
         \A w \in Workloads :
           s.workloads[w] \notin {Unborn, Gone} /\ Kind[w] \in {"deployment", "replicaset"} =>
             IF ShouldBeInstrumented(s.workloads[w], s.monitoring.selector)
               THEN s.operatorIsStarting \/ s.workloads[w].version = 1
               ELSE s.workloads[w].version = 0
    \* The propagators on a workload are the operator's.
    /\ \A w \in Workloads : s.workloads[w] \notin {Unborn, Gone} =>
         s.workloads[w].propagators =
           IF s.workloads[w].version = 0 \/ s.monitoring = Absent
             THEN NoPropagators ELSE s.monitoring.propagators

-----------------------------------------------------------------------------
Init ==
  /\ scenario \in Scenarios
  /\ workload = scenario.workloads
  /\ monitoring = scenario.monitoring
  /\ cache = monitoring
  /\ queued = (scenario.operatorIsStarting /\ monitoring # Absent)
  /\ version = 1
  /\ run = [a \in Actors |-> IF a = "startup" /\ scenario.operatorIsStarting THEN InitialRun ELSE Idle]
  /\ missed = 0
  /\ used = [b \in {"updates", "monitoringChanges", "listFailures", "failures", "restarts"} |-> 0]

Reconcile ==
  \/ BeginReconcile
  \/ HandleFinalizers
  \/ FinishWork
  \/ UpdateStatusAfterReconcile
  \/ MarkAboutToBeDeleted
  \/ RemoveFinalizer

Instrument(a) ==
  \/ ListKind(a)
  \/ HandleWorkload(a)
  \/ RestartPodsOfReplicaSet(a)

Fails(a) ==
  \/ ListKindFails(a)
  \/ UpdateFails(a)
  \/ RestartPodsFails(a)

Users ==
  \/ ChangeMonitoring
  \/ \E w \in Workloads : CreateWorkload(w) \/ UpdateWorkload(w) \/ DeleteWorkload(w)

Next ==
  \/ Reconcile
  \/ InstrumentAtStartup
  \/ FinishStartup
  \/ \E a \in Actors : Instrument(a) \/ Fails(a)
  \/ InformerEvent
  \/ Restart
  \/ Users

Spec == Init /\ [][Next]_vars

\* Scheduling: goroutines, informers and the API server make progress.
Fairness ==
  /\ WF_vars(Reconcile)
  /\ WF_vars(InstrumentAtStartup)
  /\ WF_vars(FinishStartup)
  /\ \A a \in Actors : WF_vars(Instrument(a))
  /\ WF_vars(InformerEvent)

FairSpec == Spec /\ Fairness

-----------------------------------------------------------------------------
(***************************************************************************)
(* Properties.                                                             *)
(***************************************************************************)
\* Every object and every run has its type; in particular a run that waits
\* for its pods to be restarted knows the replica set, and one that writes
\* the status has read a monitoring resource.
TypeOK ==
  /\ \A w \in Workloads : workload[w] \in WorkloadObjects \cup {Unborn, Gone}
  /\ \A m \in {monitoring, cache} : m = Absent \/ m \in MonitoringResources
  /\ queued \in BOOLEAN
  /\ version \in 1..MaxVersion
  /\ \A a \in Actors :
       /\ run[a].pc \in {"pending", "idle", "finalizers", "work", "restartPods",
                         "status", "cleanup", "removeFinalizer"}
       /\ run[a].pc \notin {"pending", "idle"} => run[a].m \in MonitoringResources
       /\ (run[a].pc = "restartPods") = (run[a].restart # Unborn)
       /\ \A w \in DOMAIN run[a].todo : run[a].todo[w] \in WorkloadObjects
  /\ missed \in 0..scenario.budget.missed
  /\ \A b \in DOMAIN used : used[b] \in 0..scenario.budget[b]

\* Workloads that the operator can modify after they have been created.
Mutable == {w \in Live : Kind[w] \in {"deployment", "replicaset"}}

IsActive(mode) ==
  /\ monitoring # Absent
  /\ ~monitoring.marked
  /\ monitoring.cond = "available"
  /\ monitoring.mode = mode

\* No request has failed whose failure is not made up for: an update for which every
\* attempt fails is only recorded as an event, a List of the startup pass only logged.
NothingIsSkipped ==
  /\ used.failures = 0
  /\ used.listFailures = 0 \/ (used.restarts = 0 /\ ~scenario.operatorIsStarting)

\* What the docs say of mode "all": once the operator has come to rest, every
\* workload that the label selector matches has the modifications of this
\* operator version.
AllWorkloadsAreInstrumented ==
  Settled /\ IsActive("all") /\ missed = 0 /\ NothingIsSkipped =>
    \A w \in Mutable :
      ShouldBeInstrumented(workload[w], monitoring.selector) => workload[w].version = version

\* This holds whatever is deployed, changed, upgraded or restarted while a
\* reconcile or the startup pass is under way, if users wait for the operator:
\* with the next change of the monitoring resource until it is at rest, with
\* deploying workloads until the resource has been reconciled once.
EveryWorkloadIsInstrumented ==
  scenario.promptReconcile /\ ~scenario.earlyDeploy => AllWorkloadsAreInstrumented

\* The specs that the monitoring resource ever has.
SpecsInUse ==
  scenario.monitoringSpecs
    \cup (IF scenario.monitoring = Absent THEN {} ELSE {SpecOf(scenario.monitoring)})

\* Users never change the propagators, or change them while the operator keeps
\* every workload instrumented.
PropagatorsAreRecognised ==
  \/ \A s, t \in SpecsInUse : s.propagators = t.propagators
  \/ \A s \in SpecsInUse :
       /\ s.mode = "all"
       /\ \A e \in scenario.enables : ShouldBeInstrumented(NewWorkload(e), s.selector)
       /\ \A w \in Workloads : scenario.workloads[w] \notin {Unborn, Gone} =>
            ShouldBeInstrumented(scenario.workloads[w], s.selector)

\* With the modifications comes the value of OTEL_PROPAGATORS. A value that the operator
\* has left behind because the propagators changed together with the mode, the label
\* selector or the label of the workload is not recognised as the operator's own later.
PropagatorsAreSet ==
  scenario.promptReconcile /\ ~scenario.earlyDeploy /\ PropagatorsAreRecognised =>
    (Settled /\ IsActive("all") /\ missed = 0 /\ NothingIsSkipped =>
       \A w \in Mutable :
         ShouldBeInstrumented(workload[w], monitoring.selector) =>
           workload[w].propagators = monitoring.propagators)

\* What the docs say of mode "none", and of a namespace without monitoring
\* resource: once the operator has come to rest, no workload that can be changed
\* is still instrumented.
NothingIsInstrumented ==
  Settled /\ (monitoring = Absent \/ IsActive("none")) /\ used.failures = 0 =>
    \A w \in Mutable : workload[w].version = 0

\* This holds, also with lost admission requests, failed List requests and
\* restarts, if users change the monitoring resource only when the operator is
\* at rest.
InstrumentationIsRemoved == scenario.promptReconcile => NothingIsInstrumented

\* A workload that the label selector does not match is left alone: mode
\* "all" has removed its instrumentation once the operator is at rest. This holds
\* for users who wait with the next change of the monitoring resource, and for workloads
\* whose labels they do not change: a label that is set between the list and the
\* update, or whose admission request is lost, is not noticed.
OptedOutIsLeftAlone ==
  scenario.promptReconcile =>
    (Settled /\ IsActive("all") /\ used.failures = 0 =>
       \A w \in Mutable \ scenario.editable :
         HasOptedOutOfInstrumentation(workload[w], monitoring.selector) =>
           workload[w].version = 0)

\* The label dash0.com/instrumented=true is on exactly the workloads whose pod
\* spec the operator has modified, jobs and pods included: it is what decides
\* whether the operator later looks at the workload to remove the changes.
LabelTellsTheTruth == \A w \in Live : LabelMatches(workload[w])

\* As long as the webhook has answered every admission request, a workload
\* that the label selector matches is instrumented by the very update a user
\* makes: no ignore-once label of an earlier operator update swallows it.
ChangedWorkloadsAreInstrumented ==
  [][\A w \in Workloads :
       UpdateWorkload(w) /\ missed' = 0 /\ Kind[w] \in {"deployment", "replicaset"}
       /\ WebhookIsActive(cache) /\ ShouldBeInstrumented(workload'[w], cache.selector)
         => workload'[w].version = version]_vars

\* The pods of a replica set that users leave alone run what its spec says
\* once the operator is at rest: nobody but the operator restarts them. Neither
\* a restart of the operator between the update and the deletion of the pods nor
\* a leftover ignore-once label is made up for.
ReplicaSetPodsAreRestarted ==
  Settled /\ used.failures = 0 /\ used.restarts = 0 /\ missed = 0 =>
    \A w \in Live \ scenario.editable :
      Kind[w] = "replicaset" => workload[w].running = workload[w].version

\* All workloads are as the monitoring resource says, with what all three of the
\* reconciler, the startup pass and the webhook have done to them: those that should
\* be instrumented are, the others are not, the labels and the running pods agree.
InstrumentedAsConfigured ==
  /\ TypeOK
  /\ EveryWorkloadIsInstrumented /\ PropagatorsAreSet
  /\ InstrumentationIsRemoved /\ OptedOutIsLeftAlone
  /\ LabelTellsTheTruth /\ ReplicaSetPodsAreRestarted

\* The operator comes to rest: conflicts, requeued requests and the events
\* that its own status updates cause do not keep it going for ever.
EventuallySettled == <>[]Settled

====
