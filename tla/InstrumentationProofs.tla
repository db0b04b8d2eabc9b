------------------------ MODULE InstrumentationProofs ------------------------
(***************************************************************************)
(* The label dash0.com/instrumented=true is what decides whether the       *)
(* operator later removes its changes from a workload. Reconciler, startup *)
(* pass, webhook and users write it, the first two from lists that may be  *)
(* out of date: it is nevertheless always true to the pod spec, for any    *)
(* number of workloads, operator versions, failures and restarts.          *)
(* Three more results: the ignore-once label, by which the operator's own  *)
(* updates pass the webhook, never lets an update of a user pass; the pods *)
(* of replica sets, which nobody but the operator restarts, do run what    *)
(* the spec says once the operator is at rest; and every workload is then  *)
(* as the monitoring resource says, if users wait for the operator.        *)
(***************************************************************************)
EXTENDS Instrumentation, TLAPS

Valid(obj) == obj \in WorkloadObjects /\ LabelMatches(obj)

Fields == {"pc", "m", "first", "op", "kinds", "todo", "failed", "restart"}

\* A run has read the monitoring resource before it does anything with it.
RunIsTyped(r) ==
  /\ DOMAIN r = Fields
  /\ r.m \in MonitoringResources \cup {Absent}
  /\ r.pc \notin {"idle", "pending"} => r.m \in MonitoringResources
  /\ r.pc \in {"work", "restartPods"} => r.op \in {"instrument", "uninstrument"}

\* What a run knows of a workload may be out of date, except for one thing: a job that
\* was not instrumented when it was listed, is not instrumented now, since jobs
\* cannot be changed after they have been created.
ListIsUsable(todo, objs) ==
  \A w \in DOMAIN todo :
    /\ w \in Workloads /\ todo[w] \in WorkloadObjects /\ objs[w] # Unborn
    /\ (Kind[w] = "job" /\ todo[w].label # "true" /\ objs[w] # Gone) => objs[w].label # "true"

WorkloadsAreTyped == workload \in [Workloads -> WorkloadObjects \cup {Unborn, Gone}]

LabelInv ==
  /\ scenario \in Scenarios
  /\ version \in 1 .. MaxVersion
  /\ monitoring \in MonitoringResources \cup {Absent}
  /\ cache \in MonitoringResources \cup {Absent}
  /\ WorkloadsAreTyped /\ LabelTellsTheTruth
  /\ DOMAIN run = Actors
  /\ \A a \in Actors : RunIsTyped(run[a]) /\ ListIsUsable(run[a].todo, workload)

-----------------------------------------------------------------------------
(* Workload objects *)

LEMMA ModifyIsValid ==
  ASSUME version \in 1 .. MaxVersion, NEW obj, Valid(obj), NEW m \in MonitoringResources
  PROVE  Valid(Modify(obj, m))
  <1> DEFINE value == IF OtelPropagatorsCanBeUpdated(obj, m) THEN m.propagators ELSE obj.propagators
             new == [obj EXCEPT !.version = version, !.propagators = value, !.label = "true"]
  <1>1. value \in Propagators
    BY DEF Valid, WorkloadObjects, MonitoringResources
  <1> HIDE DEF value
  <1>2. version \in 0 .. MaxVersion /\ version > 0
    BY ConstantsAssumption
  <1>3. new \in WorkloadObjects /\ new.label = "true" /\ new.version = version
    BY <1>1, <1>2 DEF Valid, WorkloadObjects
  <1>4. Valid(new)
    BY <1>2, <1>3 DEF Valid, LabelMatches
  <1> QED
    BY <1>4 DEF Modify, value

LEMMA RevertIsValid ==
  ASSUME NEW obj, Valid(obj), NEW m
  PROVE  Valid(Revert(obj, m))
  <1> DEFINE value == IF m.propagators = obj.propagators THEN NoPropagators ELSE obj.propagators
             unlabelled == [obj EXCEPT !.label = "none"]
             new == [obj EXCEPT !.version = 0, !.propagators = value, !.label = "none"]
  <1>1. value \in Propagators
    BY ConstantsAssumption DEF Valid, WorkloadObjects
  <1> HIDE DEF value
  <1>2. 0 \in 0 .. MaxVersion /\ ~(0 > 0)
    BY ConstantsAssumption
  <1>3. new \in WorkloadObjects /\ new.label = "none" /\ new.version = 0
    BY <1>1, <1>2 DEF Valid, WorkloadObjects
  <1>4. Valid(new)
    BY <1>2, <1>3 DEF Valid, LabelMatches
  <1>5. obj.label = "false" => Valid(unlabelled)
    <2> SUFFICES ASSUME obj.label = "false" PROVE Valid(unlabelled)
      OBVIOUS
    <2>1. unlabelled \in WorkloadObjects /\ unlabelled.label = "none" /\ unlabelled.version = obj.version
      BY DEF Valid, WorkloadObjects
    <2> QED
      BY <2>1 DEF Valid, LabelMatches
  <1> QED
    BY <1>4, <1>5 DEF Revert, value

LEMMA NewIsValid ==
  ASSUME NEW e \in Enables
  PROVE  Valid(NewWorkload(e)) /\ NewWorkload(e).label = "none"
  <1>1. 0 \in 0 .. MaxVersion /\ ~(0 > 0)
    BY ConstantsAssumption
  <1> QED
    BY <1>1, ConstantsAssumption DEF NewWorkload, Valid, WorkloadObjects, LabelMatches

LEMMA HandleIsValid ==
  ASSUME LabelInv, NEW w \in Workloads, NEW obj, Valid(obj)
  PROVE  Valid(Handle(w, obj))
  <1>1. Valid(ConsumeIgnoreOnceLabel(obj))
    BY DEF ConsumeIgnoreOnceLabel, Valid, WorkloadObjects, LabelMatches
  <1>2. ASSUME WebhookIsActive(cache) PROVE Valid(Modify(obj, cache)) /\ Valid(Revert(obj, cache))
    <2>1. cache \in MonitoringResources /\ version \in 1 .. MaxVersion
      BY <1>2 DEF WebhookIsActive, LabelInv
    <2> QED
      BY <2>1, ModifyIsValid, RevertIsValid
  <1> DEFINE optedOut == HasOptedOutOfInstrumentation(obj, cache.selector)
  <1>3. optedOut \in BOOLEAN
    BY DEF HasOptedOutOfInstrumentation
  <1>4. obj.ignoreOnce \in BOOLEAN
    BY DEF Valid, WorkloadObjects
  <1> HIDE DEF optedOut
  <1> QED
    BY <1>1, <1>2, <1>3, <1>4 DEF Handle, optedOut

\* A job gets the label true only when it is created.
JobStays(w, old, new) == (Kind[w] = "job" /\ new.label = "true") => old.label = "true"

LEMMA InstrumentWorkloadIsValid ==
  ASSUME version \in 1 .. MaxVersion, NEW seen \in WorkloadObjects, NEW obj, Valid(obj), NEW m \in MonitoringResources
  PROVE  Valid(InstrumentWorkload(seen, obj, m))
  <1> DEFINE optedOut == HasOptedOutOfInstrumentation(seen, m.selector)
             change == IF seen.label = "true" /\ optedOut THEN Revert(obj, m) ELSE Modify(obj, m)
             isSkipped == \/ ~optedOut /\ InstrumentationIsUpToDate(seen, m)
                          \/ optedOut /\ seen.label # "true"
  <1>1. Valid(change)
    BY ModifyIsValid, RevertIsValid
  <1>2. Valid(RemoveLeftoverWebhookIgnoreOnceLabel(obj))
    BY DEF RemoveLeftoverWebhookIgnoreOnceLabel, Valid, WorkloadObjects, LabelMatches
  <1>3. seen.ignoreOnce \in BOOLEAN /\ isSkipped \in BOOLEAN
    BY DEF WorkloadObjects
  <1> HIDE DEF change, isSkipped, optedOut
  <1>4. Valid([change EXCEPT !.ignoreOnce = TRUE])
    BY <1>1 DEF Valid, WorkloadObjects, LabelMatches
  <1>5. InstrumentWorkload(seen, obj, m) =
          CASE isSkipped /\ ~seen.ignoreOnce -> obj
            [] isSkipped /\ seen.ignoreOnce -> RemoveLeftoverWebhookIgnoreOnceLabel(obj)
            [] ~isSkipped /\ change = obj -> RemoveLeftoverWebhookIgnoreOnceLabel(obj)
            [] ~isSkipped /\ change # obj -> IF optedOut THEN change ELSE [change EXCEPT !.ignoreOnce = TRUE]
    BY DEF InstrumentWorkload, change, isSkipped, optedOut
  <1> QED
    BY <1>1, <1>2, <1>3, <1>4, <1>5

\* The label of a job says that it cannot be instrumented, or nothing; it is only
\* written for a job that was not instrumented when it was listed.
LEMMA JobIsValid ==
  ASSUME NEW seen \in WorkloadObjects, NEW obj, Valid(obj), NEW m,
         seen.label # "true" => obj.label # "true"
  PROVE  /\ Valid(HandleJobOnInstrumentation(seen, obj, m)) /\ Valid(HandleJobOnUninstrumentation(obj))
         /\ HandleJobOnInstrumentation(seen, obj, m).label = "true" => obj.label = "true"
         /\ HandleJobOnUninstrumentation(obj).label = "true" => obj.label = "true"
  <1> DEFINE labelled(l) == [obj EXCEPT !.label = l]
  <1>1. ASSUME NEW l \in {"none", "false"}, obj.label # "true"
        PROVE  Valid(labelled(l)) /\ labelled(l).label = l
    <2>1. labelled(l) \in WorkloadObjects /\ labelled(l).label = l /\ labelled(l).version = obj.version
      BY DEF Valid, WorkloadObjects
    <2> QED
      BY <1>1, <2>1 DEF Valid, LabelMatches
  <1>2. \/ HandleJobOnInstrumentation(seen, obj, m) = obj
        \/ seen.label # "true" /\ \E l \in {"none", "false"} : HandleJobOnInstrumentation(seen, obj, m) = labelled(l)
    BY DEF HandleJobOnInstrumentation
  <1>3. \/ HandleJobOnUninstrumentation(obj) = obj
        \/ obj.label = "false" /\ HandleJobOnUninstrumentation(obj) = labelled("none")
    BY DEF HandleJobOnUninstrumentation
  <1> HIDE DEF labelled
  <1> QED
    BY <1>1, <1>2, <1>3

LEMMA DesiredIsValid ==
  ASSUME LabelInv, NEW a \in Actors, run[a].pc = "work", NEW w \in DOMAIN run[a].todo, w \in Live
  PROVE  /\ w \in Workloads /\ Valid(workload[w])
         /\ Valid(Desired(w, run[a].todo[w], run[a])) /\ JobStays(w, workload[w], Desired(w, run[a].todo[w], run[a]))
  <1> DEFINE r == run[a]
             obj == workload[w]
             seen == r.todo[w]
  <1>1. /\ version \in 1 .. MaxVersion /\ r.m \in MonitoringResources /\ r.op \in {"instrument", "uninstrument"}
        /\ w \in Workloads /\ seen \in WorkloadObjects
    BY DEF LabelInv, RunIsTyped, ListIsUsable
  <1>2. Valid(obj)
    BY DEF LabelInv, WorkloadsAreTyped, LabelTellsTheTruth, Live, Valid
  <1>3. (Kind[w] = "job" /\ seen.label # "true") => obj.label # "true"
    BY DEF LabelInv, ListIsUsable, Live
  <1> HIDE DEF r, obj, seen
  <1>4. CASE Kind[w] = "job"
    <2>1. /\ Valid(HandleJobOnInstrumentation(seen, obj, r.m)) /\ Valid(HandleJobOnUninstrumentation(obj))
          /\ HandleJobOnInstrumentation(seen, obj, r.m).label = "true" => obj.label = "true"
          /\ HandleJobOnUninstrumentation(obj).label = "true" => obj.label = "true"
      BY <1>1, <1>2, <1>3, <1>4, JobIsValid
    <2>2. Desired(w, seen, r) \in {HandleJobOnInstrumentation(seen, obj, r.m), HandleJobOnUninstrumentation(obj)}
      BY <1>1, <1>4 DEF Desired, obj
    <2> QED
      BY <1>1, <1>2, <2>1, <2>2 DEF JobStays, r, obj, seen
  <1>5. CASE Kind[w] # "job"
    <2> DEFINE change == Revert(obj, r.m)
    <2>1. Valid(change)
      BY <1>2, RevertIsValid
    <2> HIDE DEF change
    <2>2. Valid([change EXCEPT !.ignoreOnce = TRUE])
      BY <2>1 DEF Valid, WorkloadObjects, LabelMatches
    <2>3. Valid(RevertWorkloadInstrumentation(obj, r.m))
      BY <1>2, <2>2 DEF RevertWorkloadInstrumentation, change
    <2>4. Valid(InstrumentWorkload(seen, obj, r.m))
      BY <1>1, <1>2, InstrumentWorkloadIsValid
    <2>5. Desired(w, seen, r) \in {InstrumentWorkload(seen, obj, r.m), RevertWorkloadInstrumentation(obj, r.m)}
      BY <1>1, <1>5 DEF Desired, obj
    <2> QED
      BY <1>1, <1>2, <1>5, <2>3, <2>4, <2>5 DEF JobStays, r, obj, seen
  <1> QED
    BY <1>4, <1>5

-----------------------------------------------------------------------------
(* Steps *)

\* A workload that exists, or does not exist yet, is stored or deleted.
LEMMA StoreKeepsLabels ==
  ASSUME LabelInv, NEW w \in Workloads, NEW obj, Store(w, obj), obj = Gone \/ Valid(obj),
         workload[w] = Unborn \/ obj = Gone \/ (w \in Live /\ JobStays(w, workload[w], obj))
  PROVE  /\ WorkloadsAreTyped' /\ LabelTellsTheTruth'
         /\ \A todo : ListIsUsable(todo, workload) => ListIsUsable(todo, workload')
  <1>1. workload' = [workload EXCEPT ![w] = obj] /\ workload \in [Workloads -> WorkloadObjects \cup {Unborn, Gone}]
    BY DEF Store, LabelInv, WorkloadsAreTyped
  <1>2. workload'[w] = obj /\ \A v \in Workloads : v # w => workload'[v] = workload[v]
    BY <1>1
  <1>3. WorkloadsAreTyped'
    BY <1>1 DEF WorkloadsAreTyped, Valid
  <1>4. LabelTellsTheTruth'
    BY <1>2 DEF LabelInv, LabelTellsTheTruth, Live, Valid
  <1>5. ASSUME NEW todo, ListIsUsable(todo, workload), NEW v \in DOMAIN todo
        PROVE  /\ v \in Workloads /\ todo[v] \in WorkloadObjects /\ workload'[v] # Unborn
               /\ (Kind[v] = "job" /\ todo[v].label # "true" /\ workload'[v] # Gone) => workload'[v].label # "true"
    <2>1. CASE v # w
      BY <1>2, <1>5, <2>1 DEF ListIsUsable
    <2>2. CASE v = w
      <3>1. workload[w] # Unborn
        BY <1>5, <2>2 DEF ListIsUsable
      <3>2. obj # Unborn
        BY ConstantsAssumption DEF Valid
      <3>3. (obj # Gone /\ workload[w] # Gone /\ Kind[w] = "job" /\ obj.label = "true") => workload[w].label = "true"
        BY <3>1 DEF JobStays
      <3>4. obj # Gone => workload[w] # Gone
        BY <3>1 DEF Live
      <3> QED
        BY <1>2, <1>5, <2>2, <3>2, <3>3, <3>4 DEF ListIsUsable
    <2> QED
      BY <2>1, <2>2
  <1> QED
    BY <1>3, <1>4, <1>5 DEF ListIsUsable

LEMMA UpdateIsStored ==
  ASSUME LabelInv, NEW w \in Live, NEW obj, Valid(obj), JobStays(w, workload[w], obj), Update(w, obj)
  PROVE  \E new : Store(w, new) /\ Valid(new) /\ JobStays(w, workload[w], new)
  <1>1. w \in Workloads
    BY DEF Live
  <1>2. CASE Kind[w] \in {"job", "pod"}
    BY <1>2 DEF Update
  <1>3. CASE Kind[w] \notin {"job", "pod"}
    <2>1. Store(w, Handle(w, obj)) \/ Store(w, obj)
      BY <1>3 DEF Update, Admit
    <2>2. Valid(Handle(w, obj))
      BY <1>1, HandleIsValid
    <2> QED
      BY <1>3, <2>1, <2>2 DEF JobStays
  <1> QED
    BY <1>2, <1>3

\* A run that has not listed anything.
Fresh(r) == RunIsTyped(r) /\ r.todo = <<>>

LEMMA FreshRuns ==
  ASSUME NEW m \in MonitoringResources, NEW pc, pc \notin {"work", "restartPods"}, NEW b,
         NEW op \in {"instrument", "uninstrument"}
  PROVE  /\ Fresh(Idle) /\ Fresh(InitialRun)
         /\ Fresh([Idle EXCEPT !.pc = pc, !.m = m]) /\ Fresh([Idle EXCEPT !.pc = pc, !.m = m, !.first = b])
         /\ Fresh(Work(m, op))
  BY DEF Fresh, RunIsTyped, Idle, InitialRun, Work, Fields

LEMMA ProceedIsFresh ==
  ASSUME NEW m \in MonitoringResources, NEW first
  PROVE  Fresh(Proceed(m, first))
  <1>1. WorkRequired(m, first) \in {"nothing", "instrument", "uninstrument"}
    BY DEF WorkRequired
  <1> QED
    BY <1>1, FreshRuns DEF Proceed

LEMMA EmptyListIsUsable ==
  ASSUME NEW objs
  PROVE  ListIsUsable(<<>>, objs)
  BY DEF ListIsUsable

\* One run goes on; the workloads may change as StoreKeepsLabels says.
LEMMA RunStep ==
  ASSUME LabelInv, NEW a \in Actors, NEW r, run' = [run EXCEPT ![a] = r], RunIsTyped(r),
         ListIsUsable(r.todo, workload'),
         \A todo : ListIsUsable(todo, workload) => ListIsUsable(todo, workload')
  PROVE  DOMAIN run' = Actors /\ \A b \in Actors : RunIsTyped(run'[b]) /\ ListIsUsable(run'[b].todo, workload')
  BY DEF LabelInv

\* Steps of the reconciler, which do not change any workload.
LEMMA ReconcilerStep ==
  ASSUME LabelInv, UNCHANGED <<scenario, workload, version>>, NEW a \in Actors,
         monitoring' \in MonitoringResources \cup {Absent}, cache' \in MonitoringResources \cup {Absent},
         UNCHANGED run \/ \E r : run' = [run EXCEPT ![a] = r] /\ Fresh(r)
  PROVE  LabelInv'
  <1>1. WorkloadsAreTyped' /\ LabelTellsTheTruth'
    BY DEF LabelInv, WorkloadsAreTyped, LabelTellsTheTruth, Live
  <1>2. DOMAIN run' = Actors /\ \A b \in Actors : RunIsTyped(run'[b]) /\ ListIsUsable(run'[b].todo, workload')
    <2>1. CASE UNCHANGED run
      BY <2>1 DEF LabelInv
    <2>2. CASE \E r : run' = [run EXCEPT ![a] = r] /\ Fresh(r)
      BY <2>2, RunStep, EmptyListIsUsable DEF Fresh
    <2> QED
      BY <2>1, <2>2
  <1> QED
    BY <1>1, <1>2 DEF LabelInv

\* Every write of the monitoring resource, and what the run does then.
LEMMA WriteStep ==
  ASSUME LabelInv, UNCHANGED <<scenario, workload, cache, version>>,
         NEW m \in MonitoringResources \cup {Absent}, NEW next, Fresh(next), WriteMonitoring(m, next)
  PROVE  LabelInv'
  <1>1. monitoring' \in MonitoringResources \cup {Absent} /\ cache' \in MonitoringResources \cup {Absent}
    BY DEF WriteMonitoring, Requeue, LabelInv
  <1>2. Fresh(Idle)
    BY DEF Fresh, RunIsTyped, Idle, Fields
  <1>3. \E r : run' = [run EXCEPT !["reconcile"] = r] /\ Fresh(r)
    BY <1>2 DEF WriteMonitoring, Requeue, SetRun
  <1> QED
    BY <1>1, <1>3, ReconcilerStep DEF Actors

LEMMA ReconcileKeeps == LabelInv /\ Reconcile => LabelInv'
  <1> SUFFICES ASSUME LabelInv, Reconcile PROVE LabelInv'
    OBVIOUS
  <1> DEFINE r == run["reconcile"]
  <1>0. Fresh(Idle) /\ "reconcile" \in Actors
    BY DEF Fresh, RunIsTyped, Idle, Fields, Actors
  <1>1. RunIsTyped(r)
    BY <1>0 DEF LabelInv
  <1>2. CASE BeginReconcile
    <2>1. UNCHANGED <<scenario, workload, cache, version>>
      BY <1>2 DEF BeginReconcile
    <2>2. CASE cache = Absent /\ UNCHANGED <<run, monitoring>>
      BY <1>0, <2>1, <2>2, ReconcilerStep DEF LabelInv
    <2>3. CASE cache # Absent /\ InitStatusConditions
      <3> DEFINE unknown == [cache EXCEPT !.cond = "unknown"]
      <3>1. cache \in MonitoringResources
        BY <2>3 DEF LabelInv
      <3>2. unknown \in MonitoringResources
        BY <3>1 DEF MonitoringResources
      <3> HIDE DEF unknown
      <3>3. /\ Fresh([Idle EXCEPT !.pc = "finalizers", !.m = cache, !.first = FALSE])
            /\ Fresh([Idle EXCEPT !.pc = "finalizers", !.m = unknown, !.first = TRUE])
        BY <3>1, <3>2, FreshRuns
      <3>4. monitoring' \in {monitoring, unknown}
        BY <2>3 DEF InitStatusConditions, Requeue, unknown
      <3>5. \/ run' = [run EXCEPT !["reconcile"] = [Idle EXCEPT !.pc = "finalizers", !.m = cache, !.first = FALSE]]
            \/ run' = [run EXCEPT !["reconcile"] = [Idle EXCEPT !.pc = "finalizers", !.m = unknown, !.first = TRUE]]
            \/ run' = [run EXCEPT !["reconcile"] = Idle]
        BY <2>3 DEF InitStatusConditions, Requeue, SetRun, unknown
      <3>6. \E x : run' = [run EXCEPT !["reconcile"] = x] /\ Fresh(x)
        BY <1>0, <3>3, <3>5
      <3>7. monitoring' \in MonitoringResources \cup {Absent} /\ cache' \in MonitoringResources \cup {Absent}
        BY <2>1, <3>2, <3>4 DEF LabelInv
      <3> QED
        BY <1>0, <2>1, <3>6, <3>7, ReconcilerStep
    <2> QED
      BY <1>2, <2>2, <2>3 DEF BeginReconcile
  <1>3. CASE HandleFinalizers
    <2>1. UNCHANGED <<scenario, workload, cache, version>> /\ r.pc = "finalizers"
      BY <1>3 DEF HandleFinalizers
    <2>2. r.m \in MonitoringResources
      BY <1>1, <2>1 DEF RunIsTyped
    <2> DEFINE withFinalizer == [r.m EXCEPT !.finalizer = TRUE]
    <2>3. withFinalizer \in MonitoringResources
      BY <2>2 DEF MonitoringResources
    <2> HIDE DEF withFinalizer
    <2>4. CASE WriteMonitoring(withFinalizer, Proceed(withFinalizer, r.first))
      BY <2>1, <2>3, <2>4, ProceedIsFresh, WriteStep
    <2>5. CASE /\ UNCHANGED monitoring
               /\ \E x \in {Proceed(r.m, r.first), Idle, Work(r.m, "uninstrument"), [Idle EXCEPT !.pc = "cleanup", !.m = r.m]} :
                    SetRun("reconcile", x)
      <3>1. Fresh(Proceed(r.m, r.first))
        BY <2>2, ProceedIsFresh
      <3>2. Fresh(Work(r.m, "uninstrument"))
        BY <2>2 DEF Fresh, RunIsTyped, Idle, Work, Fields
      <3>3. Fresh([Idle EXCEPT !.pc = "cleanup", !.m = r.m])
        BY <2>2 DEF Fresh, RunIsTyped, Idle, Fields
      <3>4. \E x : run' = [run EXCEPT !["reconcile"] = x] /\ Fresh(x)
        BY <1>0, <2>5, <3>1, <3>2, <3>3 DEF SetRun
      <3> QED
        BY <1>0, <2>1, <2>5, <3>4, ReconcilerStep DEF LabelInv
    <2>6. r.m.marked \in BOOLEAN /\ r.m.finalizer \in BOOLEAN
      BY <2>2 DEF MonitoringResources
    <2> QED
      BY <1>3, <2>4, <2>5, <2>6 DEF HandleFinalizers, withFinalizer
  <1>4. CASE FinishWork
    <2>1. UNCHANGED <<scenario, workload, cache, version, monitoring>> /\ r.pc = "work"
      BY <1>4 DEF FinishWork, WorkIsDone, Requeue
    <2>2. r.m \in MonitoringResources
      BY <1>1, <2>1 DEF RunIsTyped
    <2>3. \A pc \in {"cleanup", "status"} : Fresh([Idle EXCEPT !.pc = pc, !.m = r.m])
      BY <2>2, FreshRuns
    <2>4. \/ run' = [run EXCEPT !["reconcile"] = Idle]
          \/ \E pc \in {"cleanup", "status"} : run' = [run EXCEPT !["reconcile"] = [Idle EXCEPT !.pc = pc, !.m = r.m]]
      BY <1>4 DEF FinishWork, Requeue, SetRun
    <2>5. \E x : run' = [run EXCEPT !["reconcile"] = x] /\ Fresh(x)
      BY <1>0, <2>3, <2>4
    <2> QED
      BY <1>0, <2>1, <2>5, ReconcilerStep DEF LabelInv
  <1>5. CASE UpdateStatusAfterReconcile
    <2>1. UNCHANGED <<scenario, workload, cache, version>> /\ r.pc = "status"
      BY <1>5 DEF UpdateStatusAfterReconcile
    <2>2. r.m \in MonitoringResources
      BY <1>1, <2>1 DEF RunIsTyped
    <2> DEFINE new == [r.m EXCEPT !.cond = "available", !.prevMode = r.m.mode,
                         !.prevSelector = r.m.selector, !.prevPropagators = r.m.propagators]
    <2>3. new \in MonitoringResources
      BY <2>2 DEF MonitoringResources
    <2>4. WriteMonitoring(new, Idle)
      BY <1>5 DEF UpdateStatusAfterReconcile
    <2> HIDE DEF new
    <2> QED
      BY <1>0, <2>1, <2>3, <2>4, WriteStep
  <1>6. CASE MarkAboutToBeDeleted
    <2>1. UNCHANGED <<scenario, workload, cache, version>> /\ r.pc = "cleanup"
      BY <1>6 DEF MarkAboutToBeDeleted
    <2>2. r.m \in MonitoringResources
      BY <1>1, <2>1 DEF RunIsTyped
    <2> DEFINE new == [r.m EXCEPT !.cond = "degraded"]
    <2>3. new \in MonitoringResources
      BY <2>2 DEF MonitoringResources
    <2>4. WriteMonitoring(new, [Idle EXCEPT !.pc = "removeFinalizer", !.m = new])
      BY <1>6 DEF MarkAboutToBeDeleted
    <2> HIDE DEF new
    <2>5. Fresh([Idle EXCEPT !.pc = "removeFinalizer", !.m = new])
      BY <2>3, FreshRuns
    <2> QED
      BY <2>1, <2>3, <2>4, <2>5, WriteStep
  <1>7. CASE RemoveFinalizer
    BY <1>0, <1>7, WriteStep DEF RemoveFinalizer
  <1> QED
    BY <1>2, <1>3, <1>4, <1>5, <1>6, <1>7 DEF Reconcile

\* The steps in which a run works on the workloads: what is left of its list stays usable.
LEMMA WorkStep ==
  ASSUME LabelInv, UNCHANGED <<scenario, monitoring, cache, version>>, NEW a \in Actors, NEW r,
         run' = [run EXCEPT ![a] = r], RunIsTyped(r), ListIsUsable(r.todo, workload),
         \/ UNCHANGED workload
         \/ \E w \in Workloads : \E obj :
                 /\ Store(w, obj) /\ Valid(obj) /\ w \in Live /\ JobStays(w, workload[w], obj)
  PROVE  LabelInv'
  <1>1. /\ WorkloadsAreTyped' /\ LabelTellsTheTruth'
        /\ \A todo : ListIsUsable(todo, workload) => ListIsUsable(todo, workload')
    <2>1. CASE UNCHANGED workload
      BY <2>1 DEF LabelInv, WorkloadsAreTyped, LabelTellsTheTruth, Live
    <2>2. CASE \E w \in Workloads : \E obj :
                    /\ Store(w, obj) /\ Valid(obj) /\ w \in Live /\ JobStays(w, workload[w], obj)
      BY <2>2, StoreKeepsLabels
    <2> QED
      BY <2>1, <2>2
  <1>2. DOMAIN run' = Actors /\ \A b \in Actors : RunIsTyped(run'[b]) /\ ListIsUsable(run'[b].todo, workload')
    BY <1>1, RunStep
  <1> QED
    BY <1>1, <1>2 DEF LabelInv

LEMMA ListKindKeeps ==
  ASSUME LabelInv, NEW a \in Actors, ListKind(a) \/ ListKindFails(a)
  PROVE  LabelInv'
  <1> DEFINE r == run[a]
             todo == [w \in Listed(Head(r.kinds), r.op) |-> workload[w]]
             kinds == Tail(r.kinds)
  <1>1. RunIsTyped(r) /\ ListIsUsable(r.todo, workload) /\ r.pc = "work"
    BY DEF LabelInv, ListKind, ListKindFails
  <1>2. ListIsUsable(todo, workload)
    BY DEF ListIsUsable, Listed, Live, LabelInv, WorkloadsAreTyped
  <1> HIDE DEF todo, kinds
  <1>3. UNCHANGED <<scenario, workload, monitoring, cache, version>>
    BY DEF ListKind, ListKindFails
  <1>4. CASE ListKind(a)
    <2> DEFINE new == [r EXCEPT !.kinds = kinds, !.todo = todo]
    <2>1. run' = [run EXCEPT ![a] = new]
      BY <1>4 DEF ListKind, SetRun, todo, kinds
    <2>2. RunIsTyped(new) /\ new.todo = todo
      BY <1>1 DEF RunIsTyped, Fields
    <2> HIDE DEF new
    <2> QED
      BY <1>2, <1>3, <2>1, <2>2, WorkStep
  <1>5. CASE ListKindFails(a)
    <2> DEFINE new == [r EXCEPT !.kinds = kinds, !.failed = TRUE]
    <2>1. run' = [run EXCEPT ![a] = new]
      BY <1>5 DEF ListKindFails, SetRun, kinds
    <2>2. RunIsTyped(new) /\ new.todo = r.todo
      BY <1>1 DEF RunIsTyped, Fields
    <2> HIDE DEF new
    <2> QED
      BY <1>1, <1>3, <2>1, <2>2, WorkStep
  <1> QED
    BY <1>4, <1>5

\* Less is left to do.
LEMMA DoneIsTyped ==
  ASSUME LabelInv, NEW a \in Actors, run[a].pc = "work", NEW w
  PROVE  LET done == [run[a] EXCEPT !.todo = Without(run[a].todo, w)]
         IN  /\ RunIsTyped(done) /\ RunIsTyped([done EXCEPT !.pc = "restartPods", !.restart = w])
             /\ ListIsUsable(done.todo, workload)
             /\ [done EXCEPT !.pc = "restartPods", !.restart = w].todo = done.todo
  <1> DEFINE r == run[a]
             rest == Without(r.todo, w)
             done == [r EXCEPT !.todo = rest]
  <1>1. RunIsTyped(r) /\ ListIsUsable(r.todo, workload) /\ r.pc = "work"
    BY DEF LabelInv
  <1>2. ListIsUsable(rest, workload)
    BY <1>1 DEF ListIsUsable, Without
  <1> HIDE DEF rest
  <1>3. /\ RunIsTyped(done) /\ done.todo = rest /\ done.pc = "work"
        /\ RunIsTyped([done EXCEPT !.pc = "restartPods", !.restart = w])
        /\ [done EXCEPT !.pc = "restartPods", !.restart = w].todo = rest
    BY <1>1 DEF RunIsTyped, Fields
  <1> QED
    BY <1>2, <1>3 DEF rest

\* A workload is updated as its listed state demands: the update goes through the
\* webhook, and replica sets are handed on to the restart of their pods.
LEMMA HandleWorkloadKeeps ==
  ASSUME LabelInv, NEW a \in Actors, HandleWorkload(a) \/ UpdateFails(a)
  PROVE  LabelInv'
  <1>1. run[a].pc = "work" /\ UNCHANGED <<scenario, monitoring, cache, version>>
    BY DEF HandleWorkload, UpdateFails
  <1> DEFINE done(w) == [run[a] EXCEPT !.todo = Without(run[a].todo, w)]
             restart(w) == [done(w) EXCEPT !.pc = "restartPods", !.restart = w]
  <1>2. ASSUME NEW w \in DOMAIN run[a].todo
        PROVE  /\ RunIsTyped(done(w)) /\ ListIsUsable(done(w).todo, workload)
               /\ RunIsTyped(restart(w)) /\ ListIsUsable(restart(w).todo, workload)
    BY <1>1, DoneIsTyped
  <1>3. CASE UpdateFails(a)
    <2>1. PICK w \in DOMAIN run[a].todo : run' = [run EXCEPT ![a] = done(w)]
      BY <1>3 DEF UpdateFails, SetRun
    <2>2. UNCHANGED workload
      BY <1>3 DEF UpdateFails
    <2> HIDE DEF done, restart
    <2> QED
      BY <1>1, <1>2, <2>1, <2>2, WorkStep
  <1>4. CASE HandleWorkload(a)
    <2>1. PICK w \in DOMAIN run[a].todo :
            /\ run' \in {[run EXCEPT ![a] = done(w)], [run EXCEPT ![a] = restart(w)]}
            /\ \/ UNCHANGED workload
               \/ w \in Live /\ Update(w, Desired(w, run[a].todo[w], run[a]))
      BY <1>4 DEF HandleWorkload, SetRun
    <2> HIDE DEF done, restart
    <2>2. \/ UNCHANGED workload
          \/ \E v \in Workloads : \E obj :
                  /\ Store(v, obj) /\ Valid(obj) /\ v \in Live /\ JobStays(v, workload[v], obj)
      <3>1. CASE UNCHANGED workload
        BY <3>1
      <3>2. CASE w \in Live /\ Update(w, Desired(w, run[a].todo[w], run[a]))
        <4>1. /\ w \in Workloads /\ Valid(Desired(w, run[a].todo[w], run[a]))
              /\ JobStays(w, workload[w], Desired(w, run[a].todo[w], run[a]))
          BY <1>1, <3>2, DesiredIsValid
        <4>2. \E new : Store(w, new) /\ Valid(new) /\ JobStays(w, workload[w], new)
          BY <3>2, <4>1, UpdateIsStored
        <4> QED
          BY <3>2, <4>1, <4>2
      <3> QED
        BY <2>1, <3>1, <3>2
    <2>3. CASE run' = [run EXCEPT ![a] = done(w)]
      BY <1>1, <1>2, <2>2, <2>3, WorkStep
    <2>4. CASE run' = [run EXCEPT ![a] = restart(w)]
      BY <1>1, <1>2, <2>2, <2>4, WorkStep
    <2> QED
      BY <2>1, <2>3, <2>4
  <1> QED
    BY <1>3, <1>4

LEMMA RestartPodsKeeps ==
  ASSUME LabelInv, NEW a \in Actors, RestartPodsOfReplicaSet(a) \/ RestartPodsFails(a)
  PROVE  LabelInv'
  <1> DEFINE new == [run[a] EXCEPT !.pc = "work", !.restart = Unborn]
             w == run[a].restart
  <1>1. /\ run[a].pc = "restartPods" /\ UNCHANGED <<scenario, monitoring, cache, version>>
        /\ run' = [run EXCEPT ![a] = new]
    BY DEF RestartPodsOfReplicaSet, RestartPodsFails, SetRun
  <1>2. RunIsTyped(new) /\ new.todo = run[a].todo
    BY <1>1 DEF LabelInv, RunIsTyped, Fields
  <1>3. ListIsUsable(new.todo, workload)
    BY <1>2 DEF LabelInv
  <1> HIDE DEF new
  <1>4. \/ UNCHANGED workload
        \/ \E v \in Workloads : \E obj :
                /\ Store(v, obj) /\ Valid(obj) /\ v \in Live /\ JobStays(v, workload[v], obj)
    <2>1. UNCHANGED workload \/ (w \in Live /\ Store(w, [workload[w] EXCEPT !.running = workload[w].version]))
      BY DEF RestartPodsOfReplicaSet, RestartPodsFails
    <2>2. ASSUME w \in Live
          PROVE  /\ w \in Workloads /\ Valid([workload[w] EXCEPT !.running = workload[w].version])
                 /\ JobStays(w, workload[w], [workload[w] EXCEPT !.running = workload[w].version])
      <3>1. w \in Workloads /\ Valid(workload[w])
        BY <2>2 DEF LabelInv, WorkloadsAreTyped, LabelTellsTheTruth, Live, Valid
      <3>2. workload[w].version \in 0 .. MaxVersion
        BY <3>1 DEF Valid, WorkloadObjects
      <3> HIDE DEF w
      <3>3. /\ Valid([workload[w] EXCEPT !.running = workload[w].version])
            /\ [workload[w] EXCEPT !.running = workload[w].version].label = workload[w].label
        BY <3>1, <3>2 DEF Valid, WorkloadObjects, LabelMatches
      <3> QED
        BY <3>1, <3>3 DEF JobStays
    <2> HIDE DEF w
    <2> QED
      BY <2>1, <2>2
  <1> QED
    BY <1>1, <1>2, <1>3, <1>4, WorkStep

LEMMA OperatorKeeps ==
  ASSUME LabelInv, InstrumentAtStartup \/ FinishStartup \/ InformerEvent \/ Restart
  PROVE  LabelInv'
  <1>0. "startup" \in Actors /\ Fresh(Idle) /\ Fresh(InitialRun)
    BY DEF Fresh, RunIsTyped, Idle, InitialRun, Fields, Actors
  <1>1. CASE InstrumentAtStartup
    <2>1. UNCHANGED <<scenario, workload, version, monitoring, cache>>
      BY <1>1 DEF InstrumentAtStartup
    <2>2. \E r : run' = [run EXCEPT !["startup"] = r] /\ Fresh(r)
      <3>1. \/ run' = [run EXCEPT !["startup"] = Idle]
            \/ cache # Absent /\ run' = [run EXCEPT !["startup"] = Work(cache, "instrument")]
        BY <1>1 DEF InstrumentAtStartup, SetRun
      <3>2. cache # Absent => Fresh(Work(cache, "instrument"))
        BY DEF LabelInv, Fresh, RunIsTyped, Idle, Work, Fields
      <3> QED
        BY <1>0, <3>1, <3>2
    <2> QED
      BY <1>0, <2>1, <2>2, ReconcilerStep DEF LabelInv
  <1>2. CASE FinishStartup
    <2>1. UNCHANGED <<scenario, workload, version, monitoring, cache>> /\ run' = [run EXCEPT !["startup"] = Idle]
      BY <1>2 DEF FinishStartup, SetRun
    <2> QED
      BY <1>0, <2>1, ReconcilerStep DEF LabelInv
  <1>3. CASE InformerEvent
    BY <1>0, <1>3, ReconcilerStep DEF InformerEvent, LabelInv
  <1>4. CASE Restart
    <2>1. UNCHANGED <<scenario, workload, monitoring>> /\ version' \in 1 .. MaxVersion /\ cache' = monitoring
      BY <1>4 DEF Restart
    <2>2. DOMAIN run' = Actors /\ \A a \in Actors : Fresh(run'[a])
      BY <1>0, <1>4 DEF Restart
    <2>3. \A a \in Actors : RunIsTyped(run'[a]) /\ ListIsUsable(run'[a].todo, workload')
      BY <2>2, EmptyListIsUsable DEF Fresh
    <2>4. WorkloadsAreTyped' /\ LabelTellsTheTruth'
      BY <2>1 DEF LabelInv, WorkloadsAreTyped, LabelTellsTheTruth, Live
    <2> QED
      BY <2>1, <2>2, <2>3, <2>4 DEF LabelInv
  <1> QED
    BY <1>1, <1>2, <1>3, <1>4

\* Users change one workload, or the monitoring resource.
LEMMA UserStep ==
  ASSUME LabelInv, UNCHANGED <<scenario, monitoring, cache, version, run>>, NEW w \in Workloads, NEW obj,
         Store(w, obj), obj = Gone \/ Valid(obj),
         workload[w] = Unborn \/ obj = Gone \/ (w \in Live /\ JobStays(w, workload[w], obj))
  PROVE  LabelInv'
  <1>1. /\ WorkloadsAreTyped' /\ LabelTellsTheTruth'
        /\ \A todo : ListIsUsable(todo, workload) => ListIsUsable(todo, workload')
    BY StoreKeepsLabels
  <1> QED
    BY <1>1 DEF LabelInv

LEMMA UsersKeep == LabelInv /\ Users => LabelInv'
  <1> SUFFICES ASSUME LabelInv, Users PROVE LabelInv'
    OBVIOUS
  <1>0. /\ scenario.enables \subseteq Enables /\ scenario.monitoringSpecs \subseteq MonitoringSpecs
        /\ "reconcile" \in Actors
    BY ScenariosAssumption DEF LabelInv, Actors
  <1>1. ASSUME ChangeMonitoring PROVE LabelInv'
    <2>1. UNCHANGED <<scenario, workload, cache, version, run>>
      BY <1>1 DEF ChangeMonitoring
    <2>2. monitoring' \in MonitoringResources \cup {Absent}
      <3>1. \A s \in scenario.monitoringSpecs : NewMonitoring(s) \in MonitoringResources
        BY <1>0, ConstantsAssumption DEF NewMonitoring, MonitoringSpecs, MonitoringResources
      <3>2. ASSUME monitoring # Absent
            PROVE  /\ \A s \in scenario.monitoringSpecs :
                        [monitoring EXCEPT !.mode = s.mode, !.selector = s.selector, !.propagators = s.propagators]
                          \in MonitoringResources
                   /\ [monitoring EXCEPT !.marked = TRUE] \in MonitoringResources
        <4>1. monitoring \in MonitoringResources
          BY <3>2 DEF LabelInv
        <4> QED
          BY <1>0, <4>1 DEF MonitoringSpecs, MonitoringResources
      <3> QED
        BY <1>1, <3>1, <3>2 DEF ChangeMonitoring
    <2> QED
      BY <1>0, <2>1, <2>2, ReconcilerStep DEF LabelInv
  <1>2. ASSUME NEW w \in Workloads, CreateWorkload(w) PROVE LabelInv'
    <2>1. UNCHANGED <<scenario, monitoring, cache, version, run>> /\ workload[w] = Unborn
      BY <1>2 DEF CreateWorkload
    <2>2. PICK e \in scenario.enables :
            \/ Store(w, [Handle(w, NewWorkload(e)) EXCEPT !.running = Handle(w, NewWorkload(e)).version])
            \/ Store(w, NewWorkload(e))
      BY <1>2 DEF CreateWorkload
    <2>3. Valid(NewWorkload(e))
      BY <1>0, NewIsValid
    <2> DEFINE obj == Handle(w, NewWorkload(e))
    <2>4. Valid(obj)
      BY <2>3, HandleIsValid
    <2> HIDE DEF obj
    <2>5. Valid([obj EXCEPT !.running = obj.version])
      BY <2>4 DEF Valid, WorkloadObjects, LabelMatches
    <2>6. \E new : Store(w, new) /\ Valid(new)
      BY <2>2, <2>3, <2>5 DEF obj
    <2> QED
      BY <2>1, <2>6, UserStep
  <1>3. ASSUME NEW w \in Workloads, UpdateWorkload(w) PROVE LabelInv'
    <2>1. UNCHANGED <<scenario, monitoring, cache, version, run>> /\ w \in Live
      BY <1>3 DEF UpdateWorkload
    <2>2. PICK e \in scenario.enables :
            \/ Update(w, [workload[w] EXCEPT !.enable = e])
            \/ Kind[w] = "deployment" /\ Update(w, NewWorkload(e))
      BY <1>3 DEF UpdateWorkload
    <2>3. Valid(workload[w])
      BY <2>1 DEF LabelInv, WorkloadsAreTyped, LabelTellsTheTruth, Live, Valid
    <2> DEFINE edited == [workload[w] EXCEPT !.enable = e]
    <2>4. Valid(edited) /\ edited.label = workload[w].label
      BY <1>0, <2>3 DEF Valid, WorkloadObjects, LabelMatches
    <2>5. Valid(NewWorkload(e)) /\ (Kind[w] = "deployment" => JobStays(w, workload[w], NewWorkload(e)))
      BY <1>0, NewIsValid DEF JobStays
    <2>6. JobStays(w, workload[w], edited)
      BY <2>4 DEF JobStays
    <2>7. \E obj : Valid(obj) /\ JobStays(w, workload[w], obj) /\ Update(w, obj)
      BY <2>2, <2>4, <2>5, <2>6
    <2>8. \E new : Store(w, new) /\ Valid(new) /\ JobStays(w, workload[w], new)
      BY <2>1, <2>7, UpdateIsStored
    <2> QED
      BY <2>1, <2>8, UserStep
  <1>4. ASSUME NEW w \in Workloads, DeleteWorkload(w) PROVE LabelInv'
    BY <1>4, UserStep DEF DeleteWorkload
  <1> QED
    BY <1>1, <1>2, <1>3, <1>4 DEF Users

-----------------------------------------------------------------------------
(* The label is always true *)

LEMMA InitLabels == Init => LabelInv
  <1> SUFFICES ASSUME Init PROVE LabelInv
    OBVIOUS
  <1>1. /\ scenario \in Scenarios /\ version \in 1 .. MaxVersion
        /\ monitoring \in MonitoringResources \cup {Absent} /\ cache \in MonitoringResources \cup {Absent}
    BY ScenariosAssumption, ConstantsAssumption DEF Init
  <1>2. WorkloadsAreTyped /\ LabelTellsTheTruth
    BY ScenariosAssumption DEF Init, WorkloadsAreTyped, LabelTellsTheTruth, Live
  <1>3. Fresh(Idle) /\ Fresh(InitialRun)
    BY DEF Fresh, RunIsTyped, Idle, InitialRun, Fields
  <1>4. DOMAIN run = Actors /\ \A a \in Actors : Fresh(run[a])
    BY <1>3 DEF Init
  <1> QED
    BY <1>1, <1>2, <1>4, EmptyListIsUsable DEF LabelInv, Fresh

LEMMA NextKeepsLabels == LabelInv /\ [Next]_vars => LabelInv'
  <1> SUFFICES ASSUME LabelInv, [Next]_vars PROVE LabelInv'
    OBVIOUS
  <1>1. ASSUME NEW a \in Actors, Instrument(a) \/ Fails(a) PROVE LabelInv'
    BY <1>1, ListKindKeeps, HandleWorkloadKeeps, RestartPodsKeeps DEF Instrument, Fails
  <1>2. CASE UNCHANGED vars
    BY <1>2 DEF vars, LabelInv, WorkloadsAreTyped, LabelTellsTheTruth, Live
  <1> QED
    BY <1>1, <1>2, ReconcileKeeps, OperatorKeeps, UsersKeep DEF Next

\* modifyResource and revertResource write dash0.com/instrumented together with the pod
\* spec, and handleJobOnInstrumentation writes it alone from a list that may be out of
\* date: still, at any time, it is true on exactly the workloads that are instrumented.
THEOREM LabelIsTrue == Spec => []LabelTellsTheTruth
  <1>1. Init => LabelInv
    BY InitLabels
  <1>2. LabelInv /\ [Next]_vars => LabelInv'
    BY NextKeepsLabels
  <1>3. LabelInv => LabelTellsTheTruth
    BY DEF LabelInv
  <1> QED
    BY <1>1, <1>2, <1>3, PTL DEF Spec

-----------------------------------------------------------------------------
(* The ignore-once label and the pods of replica sets *)

Bounds == {"updates", "monitoringChanges", "listFailures", "failures", "restarts"}

Stages == {"pending", "idle", "finalizers", "work", "restartPods", "status", "cleanup", "removeFinalizer"}

Counters ==
  /\ missed \in 0 .. scenario.budget.missed
  /\ DOMAIN used = Bounds /\ \A b \in Bounds : used[b] \in 0 .. scenario.budget[b]

RunsAreComplete ==
  \A a \in Actors : run[a].pc \in Stages /\ (run[a].pc = "restartPods") = (run[a].restart # Unborn)

RolledOut(w) == Kind[w] \in {"deployment", "replicaset"}

\* Every update of a rolled out workload passes the webhook, which takes the label away.
NoIgnoreOnceLabelIsLeft ==
  missed = 0 => \A w \in Live : RolledOut(w) => ~workload[w].ignoreOnce

CaresFor(a, w) == run[a].pc = "restartPods" /\ run[a].restart = w

\* A run that has updated a replica set does not let go of it before its pods are restarted.
PodsAreCaredFor ==
  used.failures = 0 /\ used.restarts = 0 /\ missed = 0 =>
    \A w \in Live \ scenario.editable : Kind[w] = "replicaset" =>
      workload[w].running = workload[w].version \/ \E a \in Actors : CaresFor(a, w)

PodsInv ==
  /\ queued \in BOOLEAN
  /\ Counters /\ RunsAreComplete
  /\ NoIgnoreOnceLabelIsLeft /\ PodsAreCaredFor

LEMMA InitPods == Init => PodsInv
  <1> SUFFICES ASSUME Init PROVE PodsInv
    OBVIOUS
  <1> DEFINE ws == scenario.workloads
  <1>1. /\ scenario \in Scenarios /\ scenario.operatorIsStarting \in BOOLEAN
        /\ scenario.budget.missed \in Nat /\ \A b \in Bounds : scenario.budget[b] \in Nat
        /\ \A w \in Workloads : ws[w] \notin {Unborn, Gone} => ~ws[w].ignoreOnce /\ ws[w].running = ws[w].version
    BY ScenariosAssumption DEF Init, Bounds
  <1>2. queued \in BOOLEAN
    BY <1>1 DEF Init
  <1>3. Counters
    BY <1>1 DEF Init, Counters, Bounds
  <1>4. RunsAreComplete
    BY DEF Init, RunsAreComplete, Idle, InitialRun, Stages
  <1>5. NoIgnoreOnceLabelIsLeft /\ PodsAreCaredFor
    BY <1>1 DEF Init, NoIgnoreOnceLabelIsLeft, PodsAreCaredFor, Live
  <1> QED
    BY <1>2, <1>3, <1>4, <1>5 DEF PodsInv

\* A counter is used up by one, and the budget is not exceeded.
LEMMA SpendCounts ==
  ASSUME PodsInv, LabelInv, NEW b \in Bounds, Spend(b), UNCHANGED <<scenario, missed>>
  PROVE  /\ Counters' /\ \A c \in Bounds : used'[c] = 0 => used[c] = 0
         /\ used'[b] # 0
  <1>1. scenario.budget[b] \in Nat
    BY ScenariosAssumption DEF LabelInv, Bounds
  <1> QED
    BY <1>1 DEF Spend, PodsInv, Counters

\* What a step must see to: the label of the workload it stores, and the pods of the replica
\* sets that were cared for.
LEMMA PodStep ==
  ASSUME PodsInv, UNCHANGED <<scenario, queued>>, Counters', RunsAreComplete',
         \A c \in Bounds : used'[c] = 0 => used[c] = 0,
         missed' = 0 => missed = 0,
         NEW w \in Workloads, NEW obj, workload' = [workload EXCEPT ![w] = obj], DOMAIN workload = Workloads,
         (obj \notin {Unborn, Gone} /\ missed' = 0 /\ RolledOut(w)) => ~obj.ignoreOnce,
         (obj \notin {Unborn, Gone} /\ missed' = 0 /\ w \notin scenario.editable /\ Kind[w] = "replicaset"
            /\ used'.failures = 0 /\ used'.restarts = 0) =>
           obj.running = obj.version \/ \E a \in Actors : CaresFor(a, w)',
         \A v \in Workloads : v # w => \A a \in Actors : CaresFor(a, v) => CaresFor(a, v)'
  PROVE  PodsInv'
  <1>1. used'.failures = 0 => used.failures = 0
    BY DEF Bounds
  <1>2. used'.restarts = 0 => used.restarts = 0
    BY DEF Bounds
  <1>3. workload'[w] = obj /\ \A v \in Workloads : v # w => workload'[v] = workload[v]
    OBVIOUS
  <1>4. NoIgnoreOnceLabelIsLeft'
    BY <1>3 DEF NoIgnoreOnceLabelIsLeft, PodsInv, Live, RolledOut
  <1>5. PodsAreCaredFor'
    BY <1>1, <1>2, <1>3 DEF PodsAreCaredFor, PodsInv, Live
  <1> QED
    BY <1>4, <1>5 DEF PodsInv

\* Steps that change one run, but neither workloads nor counters.
LEMMA QuietStep ==
  ASSUME LabelInv, PodsInv, UNCHANGED <<scenario, workload, missed>>, queued' \in BOOLEAN,
         Counters', \A c \in Bounds : used'[c] = 0 => used[c] = 0,
         NEW a \in Actors, UNCHANGED run \/ (run[a].pc # "restartPods" /\ \E r : run' = [run EXCEPT ![a] = r]),
         run'[a].pc \in Stages, (run'[a].pc = "restartPods") = (run'[a].restart # Unborn)
  PROVE  PodsInv'
  <1>1. \A b \in Actors : b # a => run'[b] = run[b]
    BY DEF LabelInv
  <1>2. RunsAreComplete'
    BY <1>1 DEF PodsInv, RunsAreComplete
  <1>3. \A v \in Workloads : \A b \in Actors : CaresFor(b, v) => CaresFor(b, v)'
    BY <1>1 DEF CaresFor
  <1>4. used'.failures = 0 => used.failures = 0
    BY DEF Bounds
  <1>5. used'.restarts = 0 => used.restarts = 0
    BY DEF Bounds
  <1>6. NoIgnoreOnceLabelIsLeft'
    BY DEF NoIgnoreOnceLabelIsLeft, PodsInv, Live, RolledOut
  <1>7. PodsAreCaredFor'
    BY <1>3, <1>4, <1>5 DEF PodsAreCaredFor, PodsInv, Live
  <1> QED
    BY <1>2, <1>6, <1>7 DEF PodsInv

\* What is not used up stays as it is.
LEMMA CountersStay ==
  ASSUME PodsInv, UNCHANGED <<scenario, missed, used>>
  PROVE  Counters' /\ \A c \in Bounds : used'[c] = 0 => used[c] = 0
  BY DEF PodsInv, Counters

LEMMA ReconcileKeepsPods ==
  ASSUME LabelInv, PodsInv, Reconcile
  PROVE  PodsInv'
  <1>0. "reconcile" \in Actors /\ RunIsTyped(run["reconcile"])
    BY DEF Actors, LabelInv
  <1>1. UNCHANGED <<scenario, workload, missed, used>>
    BY DEF Reconcile, BeginReconcile, HandleFinalizers, FinishWork, UpdateStatusAfterReconcile,
           MarkAboutToBeDeleted, RemoveFinalizer
  <1>2. run["reconcile"].pc # "restartPods"
    BY DEF Reconcile, BeginReconcile, HandleFinalizers, FinishWork, UpdateStatusAfterReconcile,
           MarkAboutToBeDeleted, RemoveFinalizer, WorkIsDone
  <1>3. queued' \in BOOLEAN
    BY DEF Reconcile, BeginReconcile, HandleFinalizers, FinishWork, UpdateStatusAfterReconcile,
           MarkAboutToBeDeleted, RemoveFinalizer, InitStatusConditions, WriteMonitoring, Requeue, PodsInv
  <1> DEFINE plain(r) == r.pc \in Stages \ {"restartPods"} /\ r.restart = Unborn
  <1>4. \A m, op : plain(Work(m, op)) /\ plain(Idle)
    BY DEF Work, Idle, Stages
  <1>5. \A m, first : plain(Proceed(m, first))
    BY DEF Proceed, Work, Idle, Stages
  <1>6. \A m, first, pc : pc \in Stages \ {"restartPods"} =>
          plain([Idle EXCEPT !.pc = pc, !.m = m]) /\ plain([Idle EXCEPT !.pc = pc, !.m = m, !.first = first])
    BY DEF Idle
  <1> HIDE DEF plain
  <1>7. UNCHANGED run \/ \E r : run' = [run EXCEPT !["reconcile"] = r] /\ plain(r)
    <2>1. CASE BeginReconcile
      <3>1. \/ UNCHANGED run \/ run' = [run EXCEPT !["reconcile"] = Idle]
            \/ \E m, first : run' = [run EXCEPT !["reconcile"] = [Idle EXCEPT !.pc = "finalizers", !.m = m, !.first = first]]
        BY <2>1 DEF BeginReconcile, InitStatusConditions, Requeue, SetRun
      <3>2. "finalizers" \in Stages \ {"restartPods"}
        BY DEF Stages
      <3> QED
        BY <3>1, <3>2, <1>4, <1>6
    <2>2. CASE HandleFinalizers
      BY <2>2, <1>4, <1>5, <1>6 DEF HandleFinalizers, WriteMonitoring, Requeue, SetRun, Stages
    <2>3. CASE FinishWork
      BY <2>3, <1>4, <1>6 DEF FinishWork, Requeue, SetRun, Stages
    <2>4. CASE UpdateStatusAfterReconcile \/ RemoveFinalizer
      BY <2>4, <1>4 DEF UpdateStatusAfterReconcile, RemoveFinalizer, WriteMonitoring, Requeue, SetRun
    <2>5. CASE MarkAboutToBeDeleted
      BY <2>5, <1>4, <1>6 DEF MarkAboutToBeDeleted, WriteMonitoring, Requeue, SetRun, Stages
    <2> QED
      BY <2>1, <2>2, <2>3, <2>4, <2>5 DEF Reconcile
  <1>8. run'["reconcile"].pc \in Stages /\ (run'["reconcile"].pc = "restartPods") = (run'["reconcile"].restart # Unborn)
    BY <1>0, <1>7 DEF plain, LabelInv, PodsInv, RunsAreComplete
  <1> QED
    BY <1>0, <1>1, <1>2, <1>3, <1>7, <1>8, CountersStay, QuietStep

LEMMA OperatorKeepsPods ==
  ASSUME LabelInv, PodsInv, InstrumentAtStartup \/ FinishStartup \/ InformerEvent \/ Restart
  PROVE  PodsInv'
  <1>0. "startup" \in Actors
    BY DEF Actors
  <1>1. CASE InstrumentAtStartup \/ FinishStartup
    <2>1. UNCHANGED <<scenario, workload, missed, used, queued>> /\ run["startup"].pc # "restartPods"
      BY <1>1 DEF InstrumentAtStartup, FinishStartup, WorkIsDone
    <2>2. \E r : run' = [run EXCEPT !["startup"] = r] /\ r.pc \in {"work", "idle"} /\ r.restart = Unborn
      <3>1. run' = [run EXCEPT !["startup"] = Idle] \/ run' = [run EXCEPT !["startup"] = Work(cache, "instrument")]
        BY <1>1 DEF InstrumentAtStartup, FinishStartup, SetRun
      <3>2. Idle.pc = "idle" /\ Idle.restart = Unborn
        BY DEF Idle
      <3>3. Work(cache, "instrument").pc = "work" /\ Work(cache, "instrument").restart = Unborn
        BY DEF Work, Idle
      <3> QED
        BY <3>1, <3>2, <3>3
    <2>3. run'["startup"].pc \in {"work", "idle"} /\ run'["startup"].restart = Unborn
      BY <1>0, <2>2 DEF LabelInv
    <2>4. queued' \in BOOLEAN
      BY <2>1 DEF PodsInv
    <2> QED
      BY <1>0, <2>1, <2>2, <2>3, <2>4, CountersStay, QuietStep DEF Stages
  <1>2. CASE InformerEvent
    <2>1. UNCHANGED <<scenario, workload, missed, used, run>> /\ queued' \in BOOLEAN
      BY <1>2 DEF InformerEvent
    <2>2. run'["startup"].pc \in Stages /\ (run'["startup"].pc = "restartPods") = (run'["startup"].restart # Unborn)
      BY <1>0, <2>1 DEF PodsInv, RunsAreComplete
    <2> QED
      BY <1>0, <2>1, <2>2, CountersStay, QuietStep
  <1>3. CASE Restart
    <2>1. UNCHANGED <<scenario, workload, missed>> /\ queued' \in BOOLEAN /\ Spend("restarts")
      BY <1>3 DEF Restart
    <2>2. Counters' /\ used'["restarts"] # 0
      BY <2>1, SpendCounts DEF Bounds
    <2>3. RunsAreComplete'
      BY <1>3 DEF Restart, RunsAreComplete, InitialRun, Idle, Stages
    <2>4. NoIgnoreOnceLabelIsLeft'
      BY <2>1 DEF PodsInv, NoIgnoreOnceLabelIsLeft, Live
    <2> QED
      BY <2>1, <2>2, <2>3, <2>4 DEF PodsInv, PodsAreCaredFor
  <1> QED
    BY <1>1, <1>2, <1>3

\* What modifying, reverting and the webhook do not touch.
SameOtherwise(old, new) == new.enable = old.enable /\ new.running = old.running

LEMMA ChangesKeepTheRest ==
  ASSUME NEW obj \in WorkloadObjects, NEW m
  PROVE  /\ SameOtherwise(obj, Modify(obj, m)) /\ Modify(obj, m).ignoreOnce = obj.ignoreOnce
         /\ SameOtherwise(obj, Revert(obj, m)) /\ Revert(obj, m).ignoreOnce = obj.ignoreOnce
  BY DEF Modify, Revert, SameOtherwise, WorkloadObjects

\* The webhook takes the ignore-once label away, and then does nothing else.
LEMMA HandleTakesTheLabel ==
  ASSUME NEW w, NEW obj \in WorkloadObjects
  PROVE  /\ ~Handle(w, obj).ignoreOnce
         /\ obj.ignoreOnce => Handle(w, obj).version = obj.version /\ Handle(w, obj).running = obj.running
  <1>1. obj.ignoreOnce \in BOOLEAN
    BY DEF WorkloadObjects
  <1>2. CASE obj.ignoreOnce
    BY <1>2 DEF Handle, ConsumeIgnoreOnceLabel, WorkloadObjects
  <1>3. CASE ~obj.ignoreOnce
    <2> DEFINE optedOut == HasOptedOutOfInstrumentation(obj, cache.selector)
    <2>1. optedOut \in BOOLEAN
      BY DEF HasOptedOutOfInstrumentation
    <2> HIDE DEF optedOut
    <2>2. Handle(w, obj) \in {obj, Modify(obj, cache), Revert(obj, cache)}
      BY <1>3, <2>1 DEF Handle, optedOut
    <2> QED
      BY <1>1, <1>3, <2>2, ChangesKeepTheRest
  <1> QED
    BY <1>1, <1>2, <1>3

\* A rolled out workload that has been updated without an unanswered request has no label.
LEMMA UpdateTakesTheLabel ==
  ASSUME PodsInv, LabelInv, NEW w \in Workloads, NEW obj \in WorkloadObjects, RolledOut(w), Update(w, obj)
  PROVE  \/ missed' = missed /\ Store(w, Handle(w, obj)) /\ ~Handle(w, obj).ignoreOnce
         \/ missed' = missed + 1 /\ missed' # 0 /\ missed' \in 0 .. scenario.budget.missed /\ Store(w, obj)
  <1>1. Kind[w] \notin {"job", "pod"}
    BY DEF RolledOut
  <1>2. missed \in Nat /\ scenario.budget.missed \in Nat /\ missed \in 0 .. scenario.budget.missed
    BY ScenariosAssumption DEF PodsInv, Counters, LabelInv
  <1> QED
    BY <1>1, <1>2, HandleTakesTheLabel DEF Update, Admit

\* The Instrumenter leaves the rest alone, too.
LEMMA DesiredKeepsTheRest ==
  ASSUME LabelInv, NEW a \in Actors, run[a].pc = "work", NEW w \in DOMAIN run[a].todo, w \in Live, Kind[w] # "job"
  PROVE  SameOtherwise(workload[w], Desired(w, run[a].todo[w], run[a]))
  <1> DEFINE r == run[a]
             obj == workload[w]
             seen == r.todo[w]
             desired == Desired(w, seen, r)
  <1>1. obj \in WorkloadObjects /\ r.op \in {"instrument", "uninstrument"}
    BY DesiredIsValid DEF Valid, LabelInv, RunIsTyped
  <1>2. desired \in {InstrumentWorkload(seen, obj, r.m), RevertWorkloadInstrumentation(obj, r.m)}
    BY <1>1 DEF Desired
  <1> HIDE DEF obj, seen, r, desired
  <1> DEFINE modified == Modify(obj, r.m)
             reverted == Revert(obj, r.m)
  <1>3. SameOtherwise(obj, modified) /\ SameOtherwise(obj, reverted)
    BY <1>1, ChangesKeepTheRest
  <1> HIDE DEF modified, reverted
  <1>4. \A x : SameOtherwise(obj, x) => SameOtherwise(obj, [x EXCEPT !.ignoreOnce = TRUE])
    BY DEF SameOtherwise
  <1>5. SameOtherwise(obj, RevertWorkloadInstrumentation(obj, r.m))
    BY <1>3, <1>4 DEF RevertWorkloadInstrumentation, reverted, SameOtherwise
  <1>6. SameOtherwise(obj, obj) /\ SameOtherwise(obj, RemoveLeftoverWebhookIgnoreOnceLabel(obj))
    BY <1>1 DEF SameOtherwise, RemoveLeftoverWebhookIgnoreOnceLabel, WorkloadObjects
  <1>7. SameOtherwise(obj, InstrumentWorkload(seen, obj, r.m))
    <2> DEFINE optedOut == HasOptedOutOfInstrumentation(seen, r.m.selector)
               change == IF seen.label = "true" /\ optedOut THEN reverted ELSE modified
               isSkipped == \/ ~optedOut /\ InstrumentationIsUpToDate(seen, r.m)
                            \/ optedOut /\ seen.label # "true"
    <2>1. SameOtherwise(obj, change) /\ SameOtherwise(obj, [change EXCEPT !.ignoreOnce = TRUE])
      BY <1>3, <1>4
    <2>2. isSkipped \in BOOLEAN /\ seen.ignoreOnce \in BOOLEAN
      BY DEF LabelInv, ListIsUsable, WorkloadObjects, seen, r
    <2> HIDE DEF change, isSkipped, optedOut
    <2>3. InstrumentWorkload(seen, obj, r.m) =
            CASE isSkipped /\ ~seen.ignoreOnce -> obj
              [] isSkipped /\ seen.ignoreOnce -> RemoveLeftoverWebhookIgnoreOnceLabel(obj)
              [] ~isSkipped /\ change = obj -> RemoveLeftoverWebhookIgnoreOnceLabel(obj)
              [] ~isSkipped /\ change # obj -> IF optedOut THEN change ELSE [change EXCEPT !.ignoreOnce = TRUE]
      BY DEF InstrumentWorkload, change, isSkipped, optedOut, modified, reverted
    <2> QED
      BY <1>6, <2>1, <2>2, <2>3
  <1> QED
    BY <1>2, <1>5, <1>7 DEF desired, r, obj, seen

LEMMA ListKindKeepsPods ==
  ASSUME LabelInv, PodsInv, NEW a \in Actors, ListKind(a) \/ ListKindFails(a) \/ UpdateFails(a)
  PROVE  PodsInv'
  <1>1. run[a].pc = "work" /\ UNCHANGED <<scenario, workload, missed, queued>>
    BY DEF ListKind, ListKindFails, UpdateFails
  <1>2. Counters' /\ \A c \in Bounds : used'[c] = 0 => used[c] = 0
    <2>1. CASE ListKind(a)
      BY <2>1, CountersStay DEF ListKind
    <2>2. CASE ListKindFails(a)
      BY <1>1, <2>2, SpendCounts DEF ListKindFails, Bounds
    <2>3. CASE UpdateFails(a)
      BY <1>1, <2>3, SpendCounts DEF UpdateFails, Bounds
    <2> QED
      BY <2>1, <2>2, <2>3
  <1>3. \E r : run' = [run EXCEPT ![a] = r] /\ r.pc = "work" /\ r.restart = run[a].restart
    <2>1. RunIsTyped(run[a])
      BY DEF LabelInv
    <2> DEFINE listed(todo) == [run[a] EXCEPT !.kinds = Tail(run[a].kinds), !.todo = todo]
               unlisted == [run[a] EXCEPT !.kinds = Tail(run[a].kinds), !.failed = TRUE]
               left(todo) == [run[a] EXCEPT !.todo = todo]
    <2>2. \/ \E todo : run' = [run EXCEPT ![a] = listed(todo)]
          \/ run' = [run EXCEPT ![a] = unlisted]
          \/ \E todo : run' = [run EXCEPT ![a] = left(todo)]
      BY DEF ListKind, ListKindFails, UpdateFails, SetRun
    <2>3. \A todo : /\ listed(todo).pc = "work" /\ listed(todo).restart = run[a].restart
                    /\ left(todo).pc = "work" /\ left(todo).restart = run[a].restart
                    /\ unlisted.pc = "work" /\ unlisted.restart = run[a].restart
      BY <1>1, <2>1 DEF RunIsTyped, Fields
    <2> HIDE DEF listed, unlisted, left
    <2> QED
      BY <2>2, <2>3
  <1>4. run'[a].pc \in Stages /\ (run'[a].pc = "restartPods") = (run'[a].restart # Unborn)
    BY <1>1, <1>3 DEF LabelInv, PodsInv, RunsAreComplete, Stages
  <1>5. queued' \in BOOLEAN
    BY <1>1 DEF PodsInv
  <1> QED
    BY <1>1, <1>2, <1>3, <1>4, <1>5, QuietStep

LEMMA RestartPodsKeepsPods ==
  ASSUME LabelInv, PodsInv, NEW a \in Actors, RestartPodsOfReplicaSet(a) \/ RestartPodsFails(a)
  PROVE  PodsInv'
  <1> DEFINE new == [run[a] EXCEPT !.pc = "work", !.restart = Unborn]
             w == run[a].restart
  <1>1. /\ run[a].pc = "restartPods" /\ UNCHANGED <<scenario, queued, missed>> /\ run' = [run EXCEPT ![a] = new]
    BY DEF RestartPodsOfReplicaSet, RestartPodsFails, SetRun
  <1>2. new.pc = "work" /\ new.restart = Unborn
    BY DEF LabelInv, RunIsTyped, Fields
  <1> HIDE DEF new
  <1>3. run'[a] = new /\ \A b \in Actors : b # a => run'[b] = run[b]
    BY <1>1 DEF LabelInv
  <1>4. RunsAreComplete'
    BY <1>2, <1>3 DEF PodsInv, RunsAreComplete, Stages
  <1>5. \A v \in Workloads : v # w => \A b \in Actors : CaresFor(b, v) => CaresFor(b, v)'
    BY <1>3 DEF CaresFor
  <1>6. CASE RestartPodsFails(a)
    <2>1. Counters' /\ used'["failures"] # 0 /\ UNCHANGED workload
      BY <1>1, <1>6, SpendCounts DEF RestartPodsFails, Bounds
    <2>2. NoIgnoreOnceLabelIsLeft'
      BY <1>1, <2>1 DEF PodsInv, NoIgnoreOnceLabelIsLeft, Live
    <2> QED
      BY <1>1, <1>4, <2>1, <2>2 DEF PodsInv, PodsAreCaredFor
  <1>7. CASE RestartPodsOfReplicaSet(a)
    <2>1. Counters' /\ \A c \in Bounds : used'[c] = 0 => used[c] = 0
      BY <1>7, CountersStay DEF RestartPodsOfReplicaSet
    <2>2. CASE w \in Live
      <3> DEFINE obj == [workload[w] EXCEPT !.running = workload[w].version]
      <3>1. workload' = [workload EXCEPT ![w] = obj] /\ w \in Workloads /\ DOMAIN workload = Workloads
        BY <1>7, <2>2 DEF RestartPodsOfReplicaSet, Store, Live, LabelInv, WorkloadsAreTyped
      <3>2. workload[w] \in WorkloadObjects
        BY <2>2 DEF LabelInv, WorkloadsAreTyped, Live
      <3>3. obj.running = obj.version /\ obj.ignoreOnce = workload[w].ignoreOnce
        BY <3>2 DEF WorkloadObjects
      <3> HIDE DEF obj
      <3>4. (missed' = 0 /\ RolledOut(w)) => ~obj.ignoreOnce
        BY <1>1, <2>2, <3>3 DEF PodsInv, NoIgnoreOnceLabelIsLeft
      <3> HIDE DEF w
      <3> QED
        BY <1>1, <1>4, <1>5, <2>1, <3>1, <3>3, <3>4, PodStep
    <2>3. CASE w \notin Live
      <3>1. UNCHANGED workload
        BY <1>7, <2>3 DEF RestartPodsOfReplicaSet
      <3>2. NoIgnoreOnceLabelIsLeft'
        BY <1>1, <3>1 DEF PodsInv, NoIgnoreOnceLabelIsLeft, Live
      <3>3. PodsAreCaredFor'
        <4>1. UNCHANGED used
          BY <1>7 DEF RestartPodsOfReplicaSet
        <4>2. \A v \in Live : v # w /\ v \in Workloads
          BY <2>3 DEF Live
        <4>3. Live' = Live
          BY <3>1 DEF Live
        <4> QED
          BY <1>1, <1>5, <3>1, <4>1, <4>2, <4>3 DEF PodsInv, PodsAreCaredFor
      <3> QED
        BY <1>1, <1>4, <2>1, <3>2, <3>3 DEF PodsInv
    <2> QED
      BY <2>2, <2>3
  <1> QED
    BY <1>6, <1>7

\* Unless an update changes nothing but the ignore-once label, it is followed by a restart of
\* the pods; the former kind of update is one to which the webhook adds nothing.
LEMMA HandleWorkloadKeepsPods ==
  ASSUME LabelInv, PodsInv, NEW a \in Actors, HandleWorkload(a)
  PROVE  PodsInv'
  <1> DEFINE done(w) == [run[a] EXCEPT !.todo = Without(run[a].todo, w)]
             restart(w) == [done(w) EXCEPT !.pc = "restartPods", !.restart = w]
             desired(w) == Desired(w, run[a].todo[w], run[a])
  <1>1. PICK w \in DOMAIN run[a].todo :
          \/ UNCHANGED <<workload, missed>> /\ run' = [run EXCEPT ![a] = done(w)]
          \/ /\ w \in Live /\ desired(w) # workload[w] /\ Update(w, desired(w))
             /\ run' = [run EXCEPT ![a] = IF Kind[w] = "replicaset" /\ HasBeenModified(workload[w], desired(w))
                                            THEN restart(w) ELSE done(w)]
    BY DEF HandleWorkload, SetRun
  <1>2. /\ run[a].pc = "work" /\ run[a].restart = Unborn /\ UNCHANGED <<scenario, queued, used>> /\ w \in Workloads
    BY DEF HandleWorkload, PodsInv, RunsAreComplete, LabelInv, ListIsUsable
  <1>3. /\ done(w).pc = "work" /\ done(w).restart = Unborn
        /\ restart(w).pc = "restartPods" /\ restart(w).restart = w /\ w # Unborn
    BY <1>2, ConstantsAssumption DEF LabelInv, RunIsTyped, Fields
  <1>4. Counters /\ \A c \in Bounds : used'[c] = 0 => used[c] = 0
    BY <1>2 DEF PodsInv
  <1> HIDE DEF done, restart
  <1>5. CASE UNCHANGED <<workload, missed>> /\ run' = [run EXCEPT ![a] = done(w)]
    <2>1. run'[a] = done(w) /\ Counters'
      BY <1>2, <1>5, CountersStay DEF LabelInv
    <2> QED
      BY <1>2, <1>3, <1>4, <1>5, <2>1, QuietStep DEF PodsInv, Stages
  <1>6. CASE /\ w \in Live /\ desired(w) # workload[w] /\ Update(w, desired(w))
             /\ run' = [run EXCEPT ![a] = IF Kind[w] = "replicaset" /\ HasBeenModified(workload[w], desired(w))
                                            THEN restart(w) ELSE done(w)]
    <2> DEFINE obj == desired(w)
               old == workload[w]
    <2>1. /\ old \in WorkloadObjects /\ obj \in WorkloadObjects /\ DOMAIN workload = Workloads
      BY <1>2, <1>6, DesiredIsValid DEF Valid, LabelInv, WorkloadsAreTyped
    <2>2. Kind[w] # "job" => SameOtherwise(old, obj)
      BY <1>2, <1>6, DesiredKeepsTheRest
    <2>3. /\ run'[a] \in {restart(w), done(w)} /\ \A b \in Actors : b # a => run'[b] = run[b]
          /\ (Kind[w] = "replicaset" /\ HasBeenModified(old, obj)) => run'[a] = restart(w)
      BY <1>6 DEF LabelInv
    <2> HIDE DEF desired, old
    <2>4. RunsAreComplete'
      BY <1>3, <2>3 DEF PodsInv, RunsAreComplete, Stages
    <2>5. \A v : \A b \in Actors : CaresFor(b, v) => CaresFor(b, v)'
      BY <1>2, <2>3 DEF CaresFor
    <2>6. CASE ~RolledOut(w)
      <3>1. Store(w, obj) /\ UNCHANGED missed
        BY <1>2, <1>6, <2>6, ConstantsAssumption DEF RolledOut, Update, Kinds
      <3>2. Counters'
        BY <1>2, <3>1, CountersStay
      <3> QED
        BY <1>2, <1>4, <2>1, <2>4, <2>5, <2>6, <3>1, <3>2, PodStep DEF Store, RolledOut
    <2>7. CASE RolledOut(w) /\ missed' = missed /\ Store(w, Handle(w, obj)) /\ ~Handle(w, obj).ignoreOnce
      <3> DEFINE new == Handle(w, obj)
      <3>1. Counters'
        BY <1>2, <2>7, CountersStay
      <3>2. ASSUME missed' = 0, w \notin scenario.editable, Kind[w] = "replicaset", used'.failures = 0, used'.restarts = 0
            PROVE  new.running = new.version \/ \E b \in Actors : CaresFor(b, w)'
        <4>1. CASE HasBeenModified(old, obj)
          BY <1>3, <2>3, <3>2, <4>1 DEF CaresFor
        <4>2. CASE ~HasBeenModified(old, obj)
          <5>1. obj.label = old.label /\ obj.version = old.version /\ obj.propagators = old.propagators
            BY <4>2 DEF HasBeenModified
          <5>2. obj.enable = old.enable /\ obj.running = old.running
            BY <2>2, <3>2 DEF SameOtherwise
          <5>3. obj.ignoreOnce # old.ignoreOnce
            BY <1>6, <2>1, <5>1, <5>2 DEF WorkloadObjects, old
          <5>4. ~old.ignoreOnce
            BY <1>6, <2>7, <3>2 DEF PodsInv, NoIgnoreOnceLabelIsLeft, old
          <5>5. obj.ignoreOnce
            BY <2>1, <5>3, <5>4 DEF WorkloadObjects
          <5>6. new.version = old.version /\ new.running = old.running
            BY <2>1, <5>1, <5>2, <5>5, HandleTakesTheLabel
          <5>7. old.running = old.version \/ \E b \in Actors : CaresFor(b, w)
            BY <1>2, <1>6, <2>7, <3>2 DEF PodsInv, PodsAreCaredFor, old
          <5> QED
            BY <2>5, <5>6, <5>7
        <4> QED
          BY <4>1, <4>2
      <3> HIDE DEF new, obj
      <3>3. workload' = [workload EXCEPT ![w] = new] /\ (missed' = 0 => missed = 0) /\ ~new.ignoreOnce
        BY <2>7 DEF Store, new
      <3> QED
        BY <1>2, <1>4, <2>1, <2>4, <2>5, <3>1, <3>2, <3>3, PodStep
    <2>8. CASE /\ RolledOut(w) /\ missed' = missed + 1 /\ missed' # 0 /\ missed' \in 0 .. scenario.budget.missed
               /\ Store(w, obj)
      <3>1. Counters'
        BY <1>2, <1>4, <2>8 DEF Counters
      <3> HIDE DEF obj
      <3> QED
        BY <1>2, <1>4, <2>1, <2>4, <2>5, <2>8, <3>1, PodStep DEF Store
    <2> QED
      BY <1>2, <1>6, <2>1, <2>6, <2>7, <2>8, UpdateTakesTheLabel
  <1> QED
    BY <1>1, <1>5, <1>6

LEMMA UsersKeepPods ==
  ASSUME LabelInv, PodsInv, Users
  PROVE  PodsInv'
  <1>0. "reconcile" \in Actors /\ scenario.enables \subseteq Enables /\ DOMAIN workload = Workloads
    BY ScenariosAssumption DEF Actors, LabelInv, WorkloadsAreTyped
  <1>1. ASSUME ChangeMonitoring PROVE PodsInv'
    <2>1. UNCHANGED <<scenario, workload, queued, run, missed>> /\ Spend("monitoringChanges")
      BY <1>1 DEF ChangeMonitoring
    <2>2. Counters' /\ \A c \in Bounds : used'[c] = 0 => used[c] = 0
      BY <2>1, SpendCounts DEF Bounds
    <2>3. run'["reconcile"].pc \in Stages /\ (run'["reconcile"].pc = "restartPods") = (run'["reconcile"].restart # Unborn)
      BY <1>0, <2>1 DEF PodsInv, RunsAreComplete
    <2> QED
      BY <1>0, <2>1, <2>2, <2>3, QuietStep DEF PodsInv
  <1>2. ASSUME NEW w \in Workloads, CreateWorkload(w) \/ UpdateWorkload(w) \/ DeleteWorkload(w)
        PROVE  /\ UNCHANGED <<scenario, queued, run>> /\ Spend("updates")
               /\ DOMAIN used' = Bounds /\ \A b \in Bounds : used'[b] \in 0 .. scenario.budget[b]
               /\ \A c \in Bounds : used'[c] = 0 => used[c] = 0
               /\ RunsAreComplete' /\ \A v : \A a \in Actors : CaresFor(a, v) => CaresFor(a, v)'
    <2>1. UNCHANGED <<scenario, queued, run>> /\ Spend("updates")
      BY <1>2 DEF CreateWorkload, UpdateWorkload, DeleteWorkload
    <2>2. scenario.budget["updates"] \in Nat
      BY ScenariosAssumption DEF LabelInv
    <2>3. /\ DOMAIN used' = Bounds /\ \A b \in Bounds : used'[b] \in 0 .. scenario.budget[b]
          /\ \A c \in Bounds : used'[c] = 0 => used[c] = 0
      BY <2>1, <2>2 DEF Spend, PodsInv, Counters, Bounds
    <2> QED
      BY <2>1, <2>3 DEF PodsInv, RunsAreComplete, CaresFor
  <1>3. missed \in Nat /\ scenario.budget.missed \in Nat /\ missed \in 0 .. scenario.budget.missed
    BY ScenariosAssumption DEF LabelInv, PodsInv, Counters
  <1>4. ASSUME NEW w \in Workloads, CreateWorkload(w) PROVE PodsInv'
    <2>1. PICK e \in scenario.enables :
            \/ /\ Store(w, [Handle(w, NewWorkload(e)) EXCEPT !.running = Handle(w, NewWorkload(e)).version])
               /\ UNCHANGED missed
            \/ missed < scenario.budget.missed /\ missed' = missed + 1 /\ Store(w, NewWorkload(e))
      BY <1>4 DEF CreateWorkload
    <2> DEFINE obj == Handle(w, NewWorkload(e))
               new == [obj EXCEPT !.running = obj.version]
    <2>2. Valid(NewWorkload(e))
      BY <1>0, NewIsValid
    <2>3. Valid(obj) /\ ~obj.ignoreOnce
      BY <2>2, HandleIsValid, HandleTakesTheLabel DEF Valid
    <2> HIDE DEF obj
    <2>4. new.running = new.version /\ ~new.ignoreOnce
      BY <2>3 DEF Valid, WorkloadObjects
    <2>5. CASE Store(w, new) /\ UNCHANGED missed
      <3>1. Counters' /\ workload' = [workload EXCEPT ![w] = new] /\ (missed' = 0 => missed = 0)
        BY <1>2, <1>3, <1>4, <2>5 DEF Counters, Store
      <3> HIDE DEF new
      <3> QED
        BY <1>0, <1>2, <1>4, <2>4, <3>1, PodStep
    <2>6. CASE missed < scenario.budget.missed /\ missed' = missed + 1 /\ Store(w, NewWorkload(e))
      <3>1. Counters' /\ workload' = [workload EXCEPT ![w] = NewWorkload(e)] /\ missed' # 0
        BY <1>2, <1>3, <1>4, <2>6 DEF Counters, Store
      <3> QED
        BY <1>0, <1>2, <1>4, <3>1, PodStep
    <2> QED
      BY <2>1, <2>5, <2>6 DEF obj
  <1>5. ASSUME NEW w \in Workloads, UpdateWorkload(w) PROVE PodsInv'
    <2>1. w \in Live /\ w \in scenario.editable
      BY <1>5 DEF UpdateWorkload
    <2>2. PICK e \in scenario.enables : \E o \in {[workload[w] EXCEPT !.enable = e], NewWorkload(e)} : Update(w, o)
      BY <1>5 DEF UpdateWorkload
    <2>3. PICK o \in {[workload[w] EXCEPT !.enable = e], NewWorkload(e)} : Update(w, o)
      BY <2>2
    <2>4. o \in WorkloadObjects
      <3>1. workload[w] \in WorkloadObjects
        BY <2>1 DEF LabelInv, WorkloadsAreTyped, Live
      <3>2. [workload[w] EXCEPT !.enable = e] \in WorkloadObjects
        BY <1>0, <3>1 DEF WorkloadObjects
      <3> QED
        BY <1>0, <2>3, <3>2, NewIsValid DEF Valid
    <2>5. CASE ~RolledOut(w)
      <3>1. Store(w, o) /\ UNCHANGED missed
        BY <2>3, <2>5, ConstantsAssumption DEF RolledOut, Update, Kinds
      <3>2. Counters' /\ workload' = [workload EXCEPT ![w] = o]
        BY <1>2, <1>3, <1>5, <3>1 DEF Counters, Store
      <3> QED
        BY <1>0, <1>2, <1>5, <2>1, <2>5, <3>1, <3>2, PodStep
    <2>6. CASE RolledOut(w)
      <3>1. \/ missed' = missed /\ Store(w, Handle(w, o)) /\ ~Handle(w, o).ignoreOnce
            \/ missed' = missed + 1 /\ missed' # 0 /\ missed' \in 0 .. scenario.budget.missed /\ Store(w, o)
        BY <2>3, <2>4, <2>6, UpdateTakesTheLabel
      <3>2. Counters'
        BY <1>2, <1>3, <1>5, <3>1 DEF Counters
      <3>3. \E new : workload' = [workload EXCEPT ![w] = new] /\ (missed' = 0 => missed = 0 /\ ~new.ignoreOnce)
        BY <3>1 DEF Store
      <3> QED
        BY <1>0, <1>2, <1>5, <2>1, <3>2, <3>3, PodStep
    <2> QED
      BY <2>5, <2>6
  <1>6. ASSUME NEW w \in Workloads, DeleteWorkload(w) PROVE PodsInv'
    <2>1. workload' = [workload EXCEPT ![w] = Gone] /\ UNCHANGED missed
      BY <1>6 DEF DeleteWorkload, Store
    <2>2. Counters'
      BY <1>2, <1>3, <1>6, <2>1 DEF Counters
    <2> QED
      BY <1>0, <1>2, <1>6, <2>1, <2>2, PodStep
  <1> QED
    BY <1>1, <1>4, <1>5, <1>6 DEF Users

LEMMA NextKeepsPods == LabelInv /\ PodsInv /\ [Next]_vars => PodsInv'
  <1> SUFFICES ASSUME LabelInv, PodsInv, [Next]_vars PROVE PodsInv'
    OBVIOUS
  <1>1. ASSUME NEW a \in Actors, Instrument(a) \/ Fails(a) PROVE PodsInv'
    BY <1>1, ListKindKeepsPods, HandleWorkloadKeepsPods, RestartPodsKeepsPods DEF Instrument, Fails
  <1>2. CASE UNCHANGED vars
    BY <1>2 DEF vars, PodsInv, Counters, RunsAreComplete, NoIgnoreOnceLabelIsLeft, PodsAreCaredFor, CaresFor, Live
  <1> QED
    BY <1>1, <1>2, ReconcileKeepsPods, OperatorKeepsPods, UsersKeepPods DEF Next

LEMMA PodsInvHolds == Spec => [](LabelInv /\ PodsInv)
  <1>1. Init => LabelInv /\ PodsInv
    BY InitLabels, InitPods
  <1>2. LabelInv /\ PodsInv /\ [Next]_vars => (LabelInv /\ PodsInv)'
    BY NextKeepsLabels, NextKeepsPods
  <1> QED
    BY <1>1, <1>2, PTL DEF Spec

\* Every object and every run has its type: whatever fails or is restarted, a run that waits
\* for its pods to be restarted knows the replica set (postProcessInstrumentation), and one that
\* writes the status has read a monitoring resource (Reconcile).
THEOREM TypesAreKept == Spec => []TypeOK
  <1>1. LabelInv /\ PodsInv => TypeOK
    <2> SUFFICES ASSUME LabelInv, PodsInv PROVE TypeOK
      OBVIOUS
    <2>1. \A w \in Workloads : workload[w] \in WorkloadObjects \cup {Unborn, Gone}
      BY DEF LabelInv, WorkloadsAreTyped
    <2>2. \A m \in {monitoring, cache} : m = Absent \/ m \in MonitoringResources
      BY DEF LabelInv
    <2>3. ASSUME NEW a \in Actors
          PROVE  /\ run[a].pc \in Stages
                 /\ run[a].pc \notin {"pending", "idle"} => run[a].m \in MonitoringResources
                 /\ (run[a].pc = "restartPods") = (run[a].restart # Unborn)
                 /\ \A w \in DOMAIN run[a].todo : run[a].todo[w] \in WorkloadObjects
      BY DEF LabelInv, PodsInv, RunsAreComplete, RunIsTyped, ListIsUsable
    <2> QED
      BY <2>1, <2>2, <2>3 DEF TypeOK, LabelInv, PodsInv, Counters, Stages
  <1> QED
    BY <1>1, PodsInvHolds, PTL

\* The pods of a replica set that users leave alone run what its spec says once the operator is
\* at rest: restartPodsOfReplicaSet is called after every update that changes more than the ignore-once
\* label, and an update of which the webhook makes more cannot happen unless such a label was left over.
THEOREM PodsAreRestarted == Spec => []ReplicaSetPodsAreRestarted
  <1>1. PodsInv => ReplicaSetPodsAreRestarted
    BY DEF PodsInv, PodsAreCaredFor, ReplicaSetPodsAreRestarted, CaresFor, Settled
  <1> QED
    BY <1>1, PodsInvHolds, PTL

\* As long as the webhook has answered every admission request, the update a user makes is never
\* swallowed by the ignore-once label of an earlier update of the operator: Handle instruments the
\* workload if the label selector matches it.
THEOREM UserUpdatesAreInstrumented == Spec => ChangedWorkloadsAreInstrumented
  <1>1. ASSUME LabelInv, PodsInv, NEW w \in Workloads, UpdateWorkload(w), missed' = 0,
               Kind[w] \in {"deployment", "replicaset"}, WebhookIsActive(cache),
               ShouldBeInstrumented(workload'[w], cache.selector)
        PROVE  workload'[w].version = version
    <2>1. w \in Live /\ RolledOut(w) /\ DOMAIN workload = Workloads /\ workload[w] \in WorkloadObjects
      BY <1>1 DEF UpdateWorkload, RolledOut, LabelInv, WorkloadsAreTyped, Live
    <2>2. scenario.enables \subseteq Enables /\ missed \in Nat
      BY <1>1, ScenariosAssumption DEF LabelInv, PodsInv, Counters
    <2>3. PICK e \in scenario.enables : \E o \in {[workload[w] EXCEPT !.enable = e], NewWorkload(e)} : Update(w, o)
      BY <1>1 DEF UpdateWorkload
    <2>4. PICK o \in {[workload[w] EXCEPT !.enable = e], NewWorkload(e)} : Update(w, o)
      BY <2>3
    <2>5. NewWorkload(e) \in WorkloadObjects /\ [workload[w] EXCEPT !.enable = e] \in WorkloadObjects
      BY <2>1, <2>2, NewIsValid DEF Valid, WorkloadObjects
    <2>6. missed = 0 /\ Store(w, Handle(w, o))
      BY <1>1, <2>1, <2>2, <2>4, <2>5, UpdateTakesTheLabel
    <2>7. ~o.ignoreOnce
      <3>1. ~workload[w].ignoreOnce /\ ~NewWorkload(e).ignoreOnce
        BY <1>1, <2>1, <2>6 DEF PodsInv, NoIgnoreOnceLabelIsLeft, NewWorkload
      <3>2. [workload[w] EXCEPT !.enable = e].ignoreOnce = workload[w].ignoreOnce
        BY <2>1 DEF WorkloadObjects
      <3> QED
        BY <2>4, <3>1, <3>2
    <2> DEFINE optedOut == HasOptedOutOfInstrumentation(o, cache.selector)
    <2>8. workload'[w] = Handle(w, o)
      BY <2>1, <2>6 DEF Store
    <2>9. Handle(w, o).enable = o.enable
      <3>1. Handle(w, o) \in {o, Modify(o, cache), Revert(o, cache)}
        <4>1. optedOut \in BOOLEAN
          BY DEF HasOptedOutOfInstrumentation
        <4> HIDE DEF optedOut
        <4> QED
          BY <1>1, <2>7, <4>1 DEF Handle, optedOut
      <3> QED
        BY <2>4, <2>5, <3>1, ChangesKeepTheRest DEF SameOtherwise
    <2>10. ~optedOut
      BY <1>1, <2>8, <2>9 DEF HasOptedOutOfInstrumentation, ShouldBeInstrumented
    <2> HIDE DEF optedOut
    <2>11. Handle(w, o) = Modify(o, cache)
      BY <1>1, <2>7, <2>10 DEF Handle, optedOut
    <2>12. o \in WorkloadObjects
      BY <2>4, <2>5
    <2>13. Modify(o, cache).version = version
      BY <2>12 DEF Modify, WorkloadObjects
    <2> QED
      BY <2>8, <2>11, <2>13
  <1>2. LabelInv /\ PodsInv => [\A w \in Workloads :
           UpdateWorkload(w) /\ missed' = 0 /\ Kind[w] \in {"deployment", "replicaset"}
           /\ WebhookIsActive(cache) /\ ShouldBeInstrumented(workload'[w], cache.selector)
             => workload'[w].version = version]_vars
    BY <1>1
  <1> QED
    BY <1>2, PodsInvHolds, PTL DEF ChangedWorkloadsAreInstrumented

-----------------------------------------------------------------------------
(* The monitoring resource and the copies that the operator has of it *)

PrevIsSpec(m) ==
  m.prevMode = m.mode /\ m.prevSelector = m.selector /\ m.prevPropagators = m.propagators

SameSpec(m, n) == m.mode = n.mode /\ m.selector = n.selector /\ m.propagators = n.propagators

\* What the reconciler writes into the resource fits together.
Sound(m) ==
  /\ m.cond \in {"none", "unknown"} <=> m.prevMode = ""
  /\ m.cond \in {"none", "unknown"} =>
       ~m.marked /\ m.prevSelector = "" /\ m.prevPropagators = NoPropagators
  /\ m.marked => m.finalizer /\ PrevIsSpec(m)
  /\ m.cond = "degraded" => m.marked

\* A copy m of the resource mon is not more than the reconciler's own updates behind.
AgreesWith(m, mon) ==
  IF mon = Absent THEN m.marked ELSE SameSpec(m, mon) /\ m.marked = mon.marked
Follows(m, mon) ==
  /\ AgreesWith(m, mon) /\ Sound(m)
  /\ (~m.marked /\ m.cond = "available") => mon.cond = "available"

\* A user has changed the resource, and the cache has not seen it.
JustChanged(mon, c) ==
  /\ mon # Absent
  /\ \/ c = Absent /\ ~mon.marked /\ mon.cond = "none"
     \/ /\ c # Absent /\ IsReconciled(c) /\ (mon.marked \/ ~SameSpec(c, mon))
        /\ mon.cond = "available" /\ mon.finalizer
        /\ mon.prevMode = c.mode /\ mon.prevSelector = c.selector /\ mon.prevPropagators = c.propagators

Quiescent == ~queued /\ \A a \in Actors : run[a].pc = "idle"

IsAtWork(r) == r.pc \in {"work", "restartPods"}

ReconcilerFollows(r, mon) ==
  /\ r.pc # "pending"
  /\ r.pc # "idle" =>
       /\ Follows(r.m, mon) /\ r.m.cond # "none"
       /\ r.pc = "finalizers" => r.first \in BOOLEAN /\ (r.first => r.m.cond = "unknown")
       /\ r.pc # "finalizers" => r.m.finalizer
       /\ (IsAtWork(r) /\ r.op = "instrument") => r.m.mode = "all" /\ ~r.m.marked
       /\ (IsAtWork(r) /\ r.op = "uninstrument") => r.m.mode = "none" \/ r.m.marked
       /\ r.pc \in {"cleanup", "removeFinalizer"} => r.m.marked
       /\ r.pc = "status" => ~r.m.marked

StartupFollows(r, mon) ==
  /\ r.pc \in {"idle", "pending", "work", "restartPods"}
  /\ IsAtWork(r) => AgreesWith(r.m, mon) /\ r.op = "instrument" /\ r.m.mode = "all" /\ ~r.m.marked

\* The cache is as the reconciler's updates have made it, or a user's change is on its way; in
\* the latter case the operator is at rest.
CacheFollows ==
  \/ monitoring = Absent /\ cache = Absent
  \/ cache # Absent /\ Follows(cache, monitoring)
  \/ Quiescent /\ JustChanged(monitoring, cache)

ReconcileIsDue ==
  monitoring # Absent /\ ~IsReconciled(monitoring) =>
    queued \/ run["reconcile"].pc # "idle" \/ TriggersReconcile(cache, monitoring)

ControlInv ==
  /\ monitoring # Absent => Sound(monitoring)
  /\ CacheFollows /\ ReconcileIsDue
  /\ ReconcilerFollows(run["reconcile"], monitoring) /\ StartupFollows(run["startup"], monitoring)

\* All that the resource asks for was done when this copy of it was written.
Through(m) ==
  \/ m.cond = "degraded"
  \/ m.mode = "none" /\ m.prevMode \in {"none", ""}
  \/ m.mode = "all" /\ ~m.marked /\ PrevIsSpec(m)

\* What the reconciler may write.
Advances(mon, new) ==
  /\ mon # Absent
  /\ \/ new = Absent /\ mon.marked
     \/ /\ new # Absent /\ SameSpec(new, mon) /\ new.marked = mon.marked
        /\ (~mon.marked /\ mon.cond = "available") => new.cond = "available"

\* The reconciler and the startup pass.
LEMMA ActorsAre == "reconcile" \in Actors /\ "startup" \in Actors /\ \A a \in Actors : a = "reconcile" \/ a = "startup"
  BY DEF Actors

\* What the reconciler writes does not put any copy out of date.
LEMMA AdvancedIsFollowed ==
  ASSUME NEW m \in MonitoringResources, NEW mon \in MonitoringResources, NEW new, Advances(mon, new), AgreesWith(m, mon)
  PROVE  /\ AgreesWith(m, new)
         /\ Follows(m, mon) => Follows(m, new)
         /\ ~m.marked => new # Absent
  <1>1. m.marked \in BOOLEAN /\ mon.marked \in BOOLEAN /\ mon # Absent /\ m.marked = mon.marked /\ SameSpec(m, mon)
    BY DEF MonitoringResources, Advances, AgreesWith
  <1>2. AgreesWith(m, new)
    BY <1>1 DEF Advances, AgreesWith, SameSpec
  <1>3. Follows(m, mon) => Follows(m, new)
    BY <1>1, <1>2 DEF Follows, Advances
  <1>4. ~m.marked => new # Absent
    BY <1>1 DEF Advances
  <1> QED
    BY <1>2, <1>3, <1>4

LEMMA SelfFollows ==
  ASSUME NEW m \in MonitoringResources, Sound(m)
  PROVE  Follows(m, m)
  <1>1. m # Absent
    BY ConstantsAssumption
  <1> QED
    BY <1>1 DEF Follows, AgreesWith, SameSpec

\* A step of the reconciler: what it writes and goes on with.
LEMMA ReconcilerControl ==
  ASSUME LabelInv, ControlInv, UNCHANGED cache, queued \/ run["reconcile"].pc # "idle",
         run'["startup"] = run["startup"],
         \/ monitoring' = monitoring
         \/ Advances(monitoring, monitoring') /\ (monitoring' # Absent => Sound(monitoring')),
         ReconcilerFollows(run'["reconcile"], monitoring'),
         (monitoring' # Absent /\ ~IsReconciled(monitoring')) =>
            queued' \/ run'["reconcile"].pc # "idle" \/ (monitoring' = monitoring /\ cache = Absent)
  PROVE  ControlInv'
  <1>1. (monitoring = Absent /\ cache = Absent) \/ (cache # Absent /\ Follows(cache, monitoring))
    BY ActorsAre DEF ControlInv, CacheFollows, Quiescent
  <1>2. monitoring' # Absent => Sound(monitoring')
    BY DEF ControlInv
  <1>3. CacheFollows'
    <2>1. CASE monitoring' = monitoring
      BY <1>1, <2>1 DEF CacheFollows
    <2>2. CASE Advances(monitoring, monitoring')
      <3>1. monitoring \in MonitoringResources /\ cache \in MonitoringResources /\ Follows(cache, monitoring) /\ cache # Absent
        BY <1>1, <2>2 DEF LabelInv, Advances
      <3>2. Follows(cache, monitoring')
        BY <2>2, <3>1, AdvancedIsFollowed DEF Follows
      <3> QED
        BY <3>1, <3>2 DEF CacheFollows
    <2> QED
      BY <2>1, <2>2
  <1>4. ReconcileIsDue'
    BY DEF ReconcileIsDue, TriggersReconcile
  <1>5. StartupFollows(run'["startup"], monitoring')
    <2> DEFINE r == run["startup"]
    <2>1. CASE ~IsAtWork(r) \/ monitoring' = monitoring
      BY <2>1 DEF ControlInv, StartupFollows
    <2>2. CASE IsAtWork(r) /\ Advances(monitoring, monitoring')
      <3>1. r.m \in MonitoringResources /\ monitoring \in MonitoringResources
        BY <2>2, ActorsAre DEF LabelInv, RunIsTyped, IsAtWork, Advances
      <3>2. AgreesWith(r.m, monitoring)
        BY <2>2 DEF ControlInv, StartupFollows
      <3>3. AgreesWith(r.m, monitoring')
        BY <2>2, <3>1, <3>2, AdvancedIsFollowed
      <3> QED
        BY <2>2, <3>3 DEF ControlInv, StartupFollows
    <2> QED
      BY <2>1, <2>2
  <1> QED
    BY <1>2, <1>3, <1>4, <1>5 DEF ControlInv

LEMMA IdleFollows == \A mon : ReconcilerFollows(Idle, mon)
  BY DEF ReconcilerFollows, Idle

\* What manageInstrumentWorkloadsChanges decides.
LEMMA ProceedFollows ==
  ASSUME NEW m \in MonitoringResources, NEW mon, Follows(m, mon), m.finalizer, ~m.marked, m.cond # "none",
         NEW first \in BOOLEAN, first => m.cond = "unknown"
  PROVE  LET r == Proceed(m, first)
         IN  /\ ReconcilerFollows(r, mon) /\ r.pc \in {"work", "status"} /\ r.m = m
             /\ r.pc = "work" => r.kinds = KindOrder
             /\ r.pc = "status" => Through(m) \/ m.mode = "created-and-updated"
  <1> DEFINE op == WorkRequired(m, first)
             r == Proceed(m, first)
  <1>1. op \in {"nothing", "instrument", "uninstrument"}
    BY DEF WorkRequired
  <1>2. op = "instrument" => m.mode = "all"
    BY DEF WorkRequired
  <1>3. op = "uninstrument" => m.mode = "none"
    BY DEF WorkRequired, RequiredAction
  <1>4. op = "nothing" => Through(m) \/ m.mode = "created-and-updated"
    <2>1. m.mode \in Modes /\ m.selector # "" /\ m.cond \in {"unknown", "available", "degraded"} /\ m.prevMode \in Modes \cup {""}
      BY DEF MonitoringResources
    <2>2. m.cond # "degraded" /\ (m.cond = "unknown" <=> m.prevMode = "") /\ (m.prevMode = "" => m.prevSelector = "")
      BY <2>1 DEF Follows, Sound
    <2>3. CASE m.mode = "all"
      BY <2>1, <2>2, <2>3 DEF WorkRequired, RequiredAction, Through, PrevIsSpec
    <2>4. CASE m.mode = "none"
      BY <2>1, <2>2, <2>4 DEF WorkRequired, RequiredAction, Through
    <2> QED
      BY <2>1, <2>3, <2>4 DEF Modes
  <1> HIDE DEF op
  <1>5. CASE op = "nothing"
    <2>1. r = [Idle EXCEPT !.pc = "status", !.m = m]
      BY <1>5 DEF Proceed, op
    <2>2. r.pc = "status" /\ r.m = m
      BY <2>1 DEF Idle
    <2> HIDE DEF r
    <2>3. ReconcilerFollows(r, mon)
      BY <2>2 DEF ReconcilerFollows, IsAtWork
    <2> QED
      BY <1>4, <1>5, <2>2, <2>3 DEF r
  <1>6. CASE op # "nothing"
    <2>1. r = Work(m, op)
      BY <1>6 DEF Proceed, op
    <2>2. r.pc = "work" /\ r.m = m /\ r.op = op /\ r.kinds = KindOrder
      BY <2>1 DEF Work, Idle
    <2> HIDE DEF r
    <2>3. ReconcilerFollows(r, mon)
      BY <1>1, <1>2, <1>3, <2>2 DEF ReconcilerFollows, IsAtWork
    <2> QED
      BY <2>2, <2>3 DEF r
  <1> QED
    BY <1>5, <1>6

\* The reconciler takes the request up again with another copy of the resource.
IsRequeued == UNCHANGED monitoring /\ queued' = TRUE /\ run'["reconcile"] = Idle

\* What the steps of the reconciler have in common, and then what each of them does.
LEMMA ReconcileFrame ==
  ASSUME LabelInv, Reconcile
  PROVE  /\ UNCHANGED <<scenario, workload, cache, version, missed, used>> /\ run'["startup"] = run["startup"]
         /\ queued \/ run["reconcile"].pc # "idle"
         /\ run["reconcile"].pc \notin {"idle", "pending"} => run["reconcile"].m \in MonitoringResources
  <1>1. /\ UNCHANGED <<scenario, workload, cache, version, missed, used>>
        /\ queued \/ run["reconcile"].pc # "idle"
    BY DEF Reconcile, BeginReconcile, HandleFinalizers, FinishWork, UpdateStatusAfterReconcile,
           MarkAboutToBeDeleted, RemoveFinalizer, WorkIsDone
  <1>2. UNCHANGED run \/ \E r : run' = [run EXCEPT !["reconcile"] = r]
    BY DEF Reconcile, BeginReconcile, HandleFinalizers, FinishWork, UpdateStatusAfterReconcile,
           MarkAboutToBeDeleted, RemoveFinalizer, InitStatusConditions, WriteMonitoring, Requeue, SetRun
  <1> QED
    BY <1>1, <1>2, ActorsAre DEF LabelInv, RunIsTyped

LEMMA WriteOutcome ==
  ASSUME LabelInv, NEW m, NEW next, WriteMonitoring(m, next)
  PROVE  \/ IsRequeued
         \/ monitoring = run["reconcile"].m /\ monitoring' = m /\ run'["reconcile"] = next /\ UNCHANGED queued
  BY ActorsAre DEF LabelInv, WriteMonitoring, Requeue, SetRun, IsRequeued

LEMMA BeginOutcome ==
  ASSUME LabelInv, BeginReconcile
  PROVE  LET r == run'["reconcile"]
             unknown == [cache EXCEPT !.cond = "unknown"]
         IN  /\ run["reconcile"].pc = "idle"
             /\ \/ IsRequeued
                \/ cache = Absent /\ UNCHANGED <<monitoring, run>>
                \/ /\ cache \in MonitoringResources /\ r.pc = "finalizers"
                   /\ \/ r.m = cache /\ cache.cond # "none" /\ r.first = FALSE /\ UNCHANGED monitoring
                      \/ /\ r.m = unknown /\ cache.cond = "none" /\ r.first = TRUE
                         /\ monitoring = cache /\ monitoring' = unknown
  <1>1. run["reconcile"].pc = "idle" /\ (cache # Absent => cache \in MonitoringResources)
    BY DEF BeginReconcile, LabelInv
  <1>2. CASE cache = Absent /\ UNCHANGED <<monitoring, run>>
    BY <1>1, <1>2
  <1>3. CASE cache # Absent /\ InitStatusConditions
    <2> DEFINE read(m, first) == [Idle EXCEPT !.pc = "finalizers", !.m = m, !.first = first]
               unknown == [cache EXCEPT !.cond = "unknown"]
    <2>1. /\ read(cache, FALSE).pc = "finalizers" /\ read(cache, FALSE).m = cache /\ read(cache, FALSE).first = FALSE
          /\ read(unknown, TRUE).pc = "finalizers" /\ read(unknown, TRUE).m = unknown /\ read(unknown, TRUE).first = TRUE
      BY DEF Idle
    <2>2. \/ cache.cond # "none" /\ SetRun("reconcile", read(cache, FALSE)) /\ UNCHANGED monitoring
          \/ cache.cond = "none" /\ monitoring = cache /\ monitoring' = unknown /\ SetRun("reconcile", read(unknown, TRUE))
          \/ Requeue
      BY <1>3 DEF InitStatusConditions
    <2> HIDE DEF read, unknown
    <2>3. \/ cache.cond # "none" /\ run'["reconcile"] = read(cache, FALSE) /\ UNCHANGED monitoring
          \/ cache.cond = "none" /\ monitoring = cache /\ monitoring' = unknown /\ run'["reconcile"] = read(unknown, TRUE)
          \/ IsRequeued
      BY <2>2, ActorsAre DEF SetRun, Requeue, IsRequeued, LabelInv
    <2> QED
      BY <1>1, <1>3, <2>1, <2>3 DEF unknown
  <1> QED
    BY <1>2, <1>3 DEF BeginReconcile

LEMMA BeginControl ==
  ASSUME LabelInv, ControlInv, BeginReconcile
  PROVE  ControlInv'
  <1> DEFINE r == run'["reconcile"]
             unknown == [cache EXCEPT !.cond = "unknown"]
  <1>0. Reconcile
    BY DEF Reconcile
  <1>1. UNCHANGED cache /\ run'["startup"] = run["startup"] /\ (queued \/ run["reconcile"].pc # "idle")
    BY <1>0, ReconcileFrame
  <1>2. CASE IsRequeued
    BY <1>1, <1>2, IdleFollows, ReconcilerControl DEF IsRequeued
  <1>3. CASE cache = Absent /\ UNCHANGED <<monitoring, run>>
    BY <1>1, <1>3, ReconcilerControl DEF ControlInv
  <1>4. CASE /\ cache \in MonitoringResources /\ r.pc = "finalizers"
             /\ \/ r.m = cache /\ cache.cond # "none" /\ r.first = FALSE /\ UNCHANGED monitoring
                \/ /\ r.m = unknown /\ cache.cond = "none" /\ r.first = TRUE
                   /\ monitoring = cache /\ monitoring' = unknown
    <2>1. cache # Absent /\ Follows(cache, monitoring)
      BY <1>1, <1>4, ConstantsAssumption, ActorsAre DEF ControlInv, CacheFollows, Quiescent
    <2>2. CASE r.m = cache /\ cache.cond # "none" /\ r.first = FALSE /\ UNCHANGED monitoring
      <3>1. ReconcilerFollows(r, monitoring')
        BY <1>4, <2>1, <2>2 DEF ReconcilerFollows, IsAtWork
      <3> QED
        BY <1>1, <1>4, <2>2, <3>1, ReconcilerControl
    <2>3. CASE /\ r.m = unknown /\ cache.cond = "none" /\ r.first = TRUE
               /\ monitoring = cache /\ monitoring' = unknown
      <3>1. unknown \in MonitoringResources /\ unknown # Absent
        BY <1>4, ConstantsAssumption DEF MonitoringResources
      <3>2. Sound(unknown)
        BY <1>4, <2>1, <2>3 DEF MonitoringResources, Sound, Follows
      <3>3. Advances(cache, unknown) /\ unknown.cond = "unknown"
        BY <1>4, <2>1, <2>3, <3>1 DEF MonitoringResources, Advances, SameSpec
      <3> HIDE DEF unknown
      <3>4. Follows(unknown, unknown)
        BY <3>1, <3>2, SelfFollows
      <3>5. ReconcilerFollows(r, monitoring')
        BY <1>4, <2>3, <3>3, <3>4 DEF ReconcilerFollows, IsAtWork
      <3> QED
        BY <1>1, <1>4, <2>3, <3>2, <3>3, <3>5, ReconcilerControl
    <2> QED
      BY <1>4, <2>2, <2>3
  <1> QED
    BY <1>2, <1>3, <1>4, BeginOutcome

LEMMA FinalizersOutcome ==
  ASSUME LabelInv, HandleFinalizers
  PROVE  LET m == run["reconcile"].m
             first == run["reconcile"].first
             r == run'["reconcile"]
             withFinalizer == [m EXCEPT !.finalizer = TRUE]
         IN  /\ m \in MonitoringResources /\ run["reconcile"].pc = "finalizers"
             /\ \/ IsRequeued
                \/ ~m.marked /\ m.finalizer /\ r = Proceed(m, first) /\ UNCHANGED monitoring
                \/ ~m.marked /\ r = Proceed(withFinalizer, first) /\ monitoring = m /\ monitoring' = withFinalizer
                \/ m.marked /\ ~m.finalizer /\ UNCHANGED monitoring
                \/ /\ m.marked /\ m.cond = "available" /\ UNCHANGED monitoring
                   /\ r.pc = "work" /\ r.m = m /\ r.op = "uninstrument" /\ r.kinds = KindOrder
                \/ m.marked /\ m.cond # "available" /\ r.pc = "cleanup" /\ r.m = m /\ UNCHANGED monitoring
  <1> DEFINE m == run["reconcile"].m
             first == run["reconcile"].first
             r == run'["reconcile"]
             withFinalizer == [m EXCEPT !.finalizer = TRUE]
             cleanup == [Idle EXCEPT !.pc = "cleanup", !.m = m]
  <1>1. run["reconcile"].pc = "finalizers" /\ m \in MonitoringResources
    BY ActorsAre DEF HandleFinalizers, LabelInv, RunIsTyped
  <1>2. m.marked \in BOOLEAN /\ m.finalizer \in BOOLEAN
    BY <1>1 DEF MonitoringResources
  <1>3. /\ Work(m, "uninstrument").pc = "work" /\ Work(m, "uninstrument").m = m
        /\ Work(m, "uninstrument").op = "uninstrument" /\ Work(m, "uninstrument").kinds = KindOrder
    BY DEF Work, Idle
  <1>4. cleanup.pc = "cleanup" /\ cleanup.m = m
    BY DEF Idle
  <1> HIDE DEF cleanup, withFinalizer
  <1>5. CASE ~m.marked /\ m.finalizer
    BY <1>1, <1>5, ActorsAre DEF HandleFinalizers, SetRun, LabelInv
  <1>6. CASE ~m.marked /\ ~m.finalizer
    <2>1. WriteMonitoring(withFinalizer, Proceed(withFinalizer, first))
      BY <1>6 DEF HandleFinalizers, withFinalizer
    <2> QED
      BY <1>1, <1>6, <2>1, WriteOutcome DEF withFinalizer
  <1>7. CASE m.marked
    <2>1. /\ UNCHANGED monitoring
          /\ \/ ~m.finalizer
             \/ m.cond = "available" /\ SetRun("reconcile", Work(m, "uninstrument"))
             \/ m.cond # "available" /\ SetRun("reconcile", cleanup)
      BY <1>2, <1>7 DEF HandleFinalizers, cleanup
    <2>2. \/ ~m.finalizer
          \/ m.cond = "available" /\ r = Work(m, "uninstrument")
          \/ m.cond # "available" /\ r = cleanup
      BY <2>1, ActorsAre DEF SetRun, LabelInv
    <2> QED
      BY <1>1, <1>3, <1>4, <1>7, <2>1, <2>2
  <1> QED
    BY <1>2, <1>5, <1>6, <1>7

LEMMA FinalizersControl ==
  ASSUME LabelInv, ControlInv, HandleFinalizers
  PROVE  ControlInv'
  <1> DEFINE m == run["reconcile"].m
             first == run["reconcile"].first
             r == run'["reconcile"]
             withFinalizer == [m EXCEPT !.finalizer = TRUE]
  <1>0. Reconcile
    BY DEF Reconcile
  <1>1. UNCHANGED cache /\ run'["startup"] = run["startup"] /\ (queued \/ run["reconcile"].pc # "idle")
    BY <1>0, ReconcileFrame
  <1>2. m \in MonitoringResources /\ run["reconcile"].pc = "finalizers"
    BY FinalizersOutcome
  <1>3. Follows(m, monitoring) /\ m.cond # "none" /\ first \in BOOLEAN /\ (first => m.cond = "unknown")
    BY <1>2 DEF ControlInv, ReconcilerFollows
  <1>4. CASE IsRequeued
    BY <1>1, <1>4, IdleFollows, ReconcilerControl DEF IsRequeued
  <1>5. CASE ~m.marked /\ m.finalizer /\ r = Proceed(m, first) /\ UNCHANGED monitoring
    <2> HIDE DEF m, first, r
    <2>1. ReconcilerFollows(r, monitoring) /\ r.pc # "idle"
      BY <1>2, <1>3, <1>5, ProceedFollows
    <2> QED
      BY <1>1, <1>5, <2>1, ReconcilerControl DEF r
  <1>6. CASE ~m.marked /\ r = Proceed(withFinalizer, first) /\ monitoring = m /\ monitoring' = withFinalizer
    <2>1. /\ withFinalizer \in MonitoringResources /\ withFinalizer # Absent /\ withFinalizer.finalizer
          /\ ~withFinalizer.marked /\ withFinalizer.cond = m.cond
      BY <1>2, <1>6, ConstantsAssumption DEF MonitoringResources
    <2>2. Sound(withFinalizer)
      BY <1>2, <1>3, <1>6 DEF MonitoringResources, Sound, Follows
    <2>3. Advances(m, withFinalizer)
      BY <1>2, <1>6, <2>1, ConstantsAssumption DEF MonitoringResources, Advances, SameSpec
    <2> HIDE DEF m, first, r, withFinalizer
    <2>4. Follows(withFinalizer, withFinalizer)
      BY <2>1, <2>2, SelfFollows
    <2>5. ReconcilerFollows(r, monitoring') /\ r.pc # "idle"
      BY <1>3, <1>6, <2>1, <2>4, ProceedFollows
    <2> QED
      BY <1>1, <1>6, <2>2, <2>3, <2>5, ReconcilerControl DEF r
  <1>7. m.marked => m.finalizer
    BY <1>3 DEF Follows, Sound
  <1>8. CASE /\ m.marked /\ UNCHANGED monitoring /\ r.m = m
             /\ (r.pc = "work" /\ r.op = "uninstrument") \/ r.pc = "cleanup"
    <2>1. ReconcilerFollows(r, monitoring') /\ r.pc # "idle"
      BY <1>3, <1>7, <1>8 DEF ReconcilerFollows, IsAtWork
    <2> QED
      BY <1>1, <1>8, <2>1, ReconcilerControl
  <1> QED
    BY <1>4, <1>5, <1>6, <1>7, <1>8, FinalizersOutcome

LEMMA FinishWorkOutcome ==
  ASSUME LabelInv, FinishWork
  PROVE  LET old == run["reconcile"]
             r == run'["reconcile"]
         IN  /\ old.pc = "work" /\ old.m \in MonitoringResources /\ old.todo = <<>> /\ old.kinds = <<>>
             /\ UNCHANGED monitoring
             /\ \/ IsRequeued
                \/ ~old.failed /\ r.m = old.m /\ r.pc = IF old.m.marked THEN "cleanup" ELSE "status"
  <1> DEFINE old == run["reconcile"]
             next == [Idle EXCEPT !.pc = IF old.m.marked THEN "cleanup" ELSE "status", !.m = old.m]
  <1>1. old.pc = "work" /\ old.m \in MonitoringResources /\ old.todo = <<>> /\ old.kinds = <<>>
    BY ActorsAre DEF FinishWork, WorkIsDone, LabelInv, RunIsTyped
  <1>2. next.m = old.m /\ next.pc = IF old.m.marked THEN "cleanup" ELSE "status"
    BY DEF Idle
  <1> HIDE DEF next
  <1>3. Requeue \/ (~old.failed /\ SetRun("reconcile", next) /\ UNCHANGED monitoring)
    BY DEF FinishWork, next
  <1>4. IsRequeued \/ (~old.failed /\ run'["reconcile"] = next /\ UNCHANGED monitoring)
    BY <1>3, ActorsAre DEF Requeue, SetRun, IsRequeued, LabelInv
  <1> QED
    BY <1>1, <1>2, <1>4 DEF IsRequeued

LEMMA FinishWorkControl ==
  ASSUME LabelInv, ControlInv, FinishWork
  PROVE  ControlInv'
  <1> DEFINE old == run["reconcile"]
             r == run'["reconcile"]
  <1>0. Reconcile
    BY DEF Reconcile
  <1>1. UNCHANGED cache /\ run'["startup"] = run["startup"] /\ (queued \/ run["reconcile"].pc # "idle")
    BY <1>0, ReconcileFrame
  <1>2. CASE IsRequeued
    BY <1>1, <1>2, IdleFollows, ReconcilerControl DEF IsRequeued
  <1>3. CASE ~old.failed /\ r.m = old.m /\ r.pc = IF old.m.marked THEN "cleanup" ELSE "status"
    <2>1. old.pc = "work" /\ UNCHANGED monitoring
      BY FinishWorkOutcome
    <2>2. ReconcilerFollows(r, monitoring') /\ r.pc # "idle"
      BY <1>3, <2>1 DEF ControlInv, ReconcilerFollows, IsAtWork
    <2> QED
      BY <1>1, <2>1, <2>2, ReconcilerControl
  <1> QED
    BY <1>2, <1>3, FinishWorkOutcome

LEMMA StatusOutcome ==
  ASSUME LabelInv, UpdateStatusAfterReconcile
  PROVE  LET m == run["reconcile"].m
             new == [m EXCEPT !.cond = "available", !.prevMode = m.mode,
                              !.prevSelector = m.selector, !.prevPropagators = m.propagators]
         IN  /\ run["reconcile"].pc = "status" /\ m \in MonitoringResources
             /\ IsRequeued \/ (monitoring = m /\ monitoring' = new /\ run'["reconcile"] = Idle)
  <1> DEFINE m == run["reconcile"].m
             new == [m EXCEPT !.cond = "available", !.prevMode = m.mode,
                              !.prevSelector = m.selector, !.prevPropagators = m.propagators]
  <1>1. run["reconcile"].pc = "status" /\ m \in MonitoringResources
    BY ActorsAre DEF UpdateStatusAfterReconcile, LabelInv, RunIsTyped
  <1>2. WriteMonitoring(new, Idle)
    BY DEF UpdateStatusAfterReconcile
  <1> HIDE DEF new
  <1> QED
    BY <1>1, <1>2, WriteOutcome DEF new

LEMMA StatusControl ==
  ASSUME LabelInv, ControlInv, UpdateStatusAfterReconcile
  PROVE  ControlInv'
  <1> DEFINE m == run["reconcile"].m
             new == [m EXCEPT !.cond = "available", !.prevMode = m.mode,
                              !.prevSelector = m.selector, !.prevPropagators = m.propagators]
  <1>0. Reconcile
    BY DEF Reconcile
  <1>1. UNCHANGED cache /\ run'["startup"] = run["startup"] /\ (queued \/ run["reconcile"].pc # "idle")
    BY <1>0, ReconcileFrame
  <1>2. CASE IsRequeued
    BY <1>1, <1>2, IdleFollows, ReconcilerControl DEF IsRequeued
  <1>3. CASE monitoring = m /\ monitoring' = new /\ run'["reconcile"] = Idle
    <2>1. m \in MonitoringResources /\ run["reconcile"].pc = "status"
      BY StatusOutcome
    <2>2. m.finalizer /\ ~m.marked
      BY <2>1 DEF ControlInv, ReconcilerFollows
    <2>3. Sound(new) /\ IsReconciled(new)
      BY <2>1, <2>2 DEF MonitoringResources, Modes, Sound, PrevIsSpec, IsReconciled
    <2>4. new \in MonitoringResources /\ new # Absent /\ m # Absent
      BY <2>1, ConstantsAssumption DEF MonitoringResources
    <2>5. Advances(m, new)
      BY <2>1, <2>4 DEF MonitoringResources, Advances, SameSpec
    <2> HIDE DEF m, new
    <2> QED
      BY <1>1, <1>3, <2>3, <2>5, IdleFollows, ReconcilerControl
  <1> QED
    BY <1>2, <1>3, StatusOutcome

LEMMA CleanupOutcome ==
  ASSUME LabelInv, MarkAboutToBeDeleted
  PROVE  LET m == run["reconcile"].m
             r == run'["reconcile"]
             new == [m EXCEPT !.cond = "degraded"]
         IN  /\ run["reconcile"].pc = "cleanup" /\ m \in MonitoringResources
             /\ \/ IsRequeued
                \/ monitoring = m /\ monitoring' = new /\ r.pc = "removeFinalizer" /\ r.m = new
  <1> DEFINE m == run["reconcile"].m
             new == [m EXCEPT !.cond = "degraded"]
             next == [Idle EXCEPT !.pc = "removeFinalizer", !.m = new]
  <1>1. run["reconcile"].pc = "cleanup" /\ m \in MonitoringResources
    BY ActorsAre DEF MarkAboutToBeDeleted, LabelInv, RunIsTyped
  <1>2. WriteMonitoring(new, next)
    BY DEF MarkAboutToBeDeleted
  <1> HIDE DEF new
  <1>3. next.pc = "removeFinalizer" /\ next.m = new
    BY DEF Idle
  <1> HIDE DEF next
  <1> QED
    BY <1>1, <1>2, <1>3, WriteOutcome DEF new

LEMMA CleanupControl ==
  ASSUME LabelInv, ControlInv, MarkAboutToBeDeleted
  PROVE  ControlInv'
  <1> DEFINE m == run["reconcile"].m
             r == run'["reconcile"]
             new == [m EXCEPT !.cond = "degraded"]
  <1>0. Reconcile
    BY DEF Reconcile
  <1>1. UNCHANGED cache /\ run'["startup"] = run["startup"] /\ (queued \/ run["reconcile"].pc # "idle")
    BY <1>0, ReconcileFrame
  <1>2. CASE IsRequeued
    BY <1>1, <1>2, IdleFollows, ReconcilerControl DEF IsRequeued
  <1>3. CASE monitoring = m /\ monitoring' = new /\ r.pc = "removeFinalizer" /\ r.m = new
    <2>1. m \in MonitoringResources /\ run["reconcile"].pc = "cleanup"
      BY CleanupOutcome
    <2>2. m.finalizer /\ m.marked /\ Sound(m)
      BY <2>1 DEF ControlInv, ReconcilerFollows, Follows
    <2>3. Sound(new) /\ new.cond = "degraded" /\ new.finalizer /\ new.marked
      BY <2>1, <2>2 DEF MonitoringResources, Modes, Sound, PrevIsSpec
    <2>4. new \in MonitoringResources /\ new # Absent /\ m # Absent
      BY <2>1, ConstantsAssumption DEF MonitoringResources
    <2>5. Advances(m, new)
      BY <2>1, <2>2, <2>4 DEF MonitoringResources, Advances, SameSpec
    <2> HIDE DEF m, new
    <2>6. Follows(new, new)
      BY <2>3, <2>4, SelfFollows
    <2>7. ReconcilerFollows(r, monitoring')
      BY <1>3, <2>3, <2>6 DEF ReconcilerFollows, IsAtWork
    <2> QED
      BY <1>1, <1>3, <2>3, <2>5, <2>7, ReconcilerControl
  <1> QED
    BY <1>2, <1>3, CleanupOutcome

LEMMA RemoveFinalizerControl ==
  ASSUME LabelInv, ControlInv, RemoveFinalizer
  PROVE  /\ ControlInv'
         /\ run["reconcile"].pc = "removeFinalizer" /\ run["reconcile"].m.marked
         /\ \/ IsRequeued
            \/ monitoring = run["reconcile"].m /\ monitoring' = Absent /\ run'["reconcile"] = Idle
  <1> DEFINE m == run["reconcile"].m
  <1>0. Reconcile
    BY DEF Reconcile
  <1>1. UNCHANGED cache /\ run'["startup"] = run["startup"] /\ (queued \/ run["reconcile"].pc # "idle")
    BY <1>0, ReconcileFrame
  <1>2. run["reconcile"].pc = "removeFinalizer" /\ m \in MonitoringResources
    BY ActorsAre DEF RemoveFinalizer, LabelInv, RunIsTyped
  <1>3. m.marked
    BY <1>2 DEF ControlInv, ReconcilerFollows
  <1>4. IsRequeued \/ (monitoring = m /\ monitoring' = Absent /\ run'["reconcile"] = Idle)
    BY WriteOutcome DEF RemoveFinalizer
  <1>5. CASE IsRequeued
    BY <1>1, <1>2, <1>3, <1>5, IdleFollows, ReconcilerControl DEF IsRequeued
  <1>6. CASE monitoring = m /\ monitoring' = Absent /\ run'["reconcile"] = Idle
    <2>1. Advances(monitoring, monitoring')
      BY <1>2, <1>3, <1>6, ConstantsAssumption DEF Advances
    <2> QED
      BY <1>1, <1>2, <1>3, <1>6, <2>1, IdleFollows, ReconcilerControl
  <1> QED
    BY <1>4, <1>5, <1>6

LEMMA ReconcileControl ==
  ASSUME LabelInv, ControlInv, Reconcile
  PROVE  ControlInv'
  BY BeginControl, FinalizersControl, FinishWorkControl, StatusControl, CleanupControl, RemoveFinalizerControl
     DEF Reconcile

LEMMA StartupOutcome ==
  ASSUME LabelInv, InstrumentAtStartup \/ FinishStartup
  PROVE  LET old == run["startup"]
             r == run'["startup"]
         IN  /\ UNCHANGED <<scenario, workload, monitoring, cache, queued, version, missed, used>>
             /\ run'["reconcile"] = run["reconcile"] /\ old.pc # "idle"
             /\ \/ r = Idle /\ old.pc = "work" /\ old.todo = <<>> /\ old.kinds = <<>>
                \/ /\ r = Idle /\ old.pc = "pending"
                   /\ ~(cache # Absent /\ ~cache.marked /\ cache.cond \notin {"unknown", "degraded"} /\ cache.mode = "all")
                \/ /\ r = Work(cache, "instrument") /\ old.pc = "pending" /\ cache \in MonitoringResources
                   /\ ~cache.marked /\ cache.cond \notin {"unknown", "degraded"} /\ cache.mode = "all"
  BY ActorsAre DEF InstrumentAtStartup, FinishStartup, WorkIsDone, SetRun, LabelInv

LEMMA WorkFields ==
  ASSUME NEW m, NEW op
  PROVE  /\ Work(m, op).pc = "work" /\ Work(m, op).m = m /\ Work(m, op).op = op /\ Work(m, op).kinds = KindOrder
         /\ Work(m, op).todo = <<>> /\ Work(m, op).failed = FALSE
         /\ Idle.pc = "idle" /\ Idle.m = Absent /\ Idle.todo = <<>> /\ Idle.kinds = <<>> /\ Idle.failed = FALSE
         /\ InitialRun.pc = "pending" /\ InitialRun.m = Absent /\ InitialRun.todo = <<>> /\ InitialRun.failed = FALSE
  BY DEF Work, Idle, InitialRun

LEMMA StartupControl ==
  ASSUME LabelInv, ControlInv, InstrumentAtStartup \/ FinishStartup
  PROVE  ControlInv'
  <1> DEFINE old == run["startup"]
             r == run'["startup"]
  <1>1. /\ UNCHANGED <<monitoring, cache, queued>> /\ run'["reconcile"] = run["reconcile"] /\ old.pc # "idle"
        /\ \/ r.pc = "idle"
           \/ /\ r = Work(cache, "instrument") /\ cache \in MonitoringResources
              /\ ~cache.marked /\ cache.mode = "all"
    BY StartupOutcome, WorkFields
  <1>2. (monitoring = Absent /\ cache = Absent) \/ (cache # Absent /\ Follows(cache, monitoring))
    BY <1>1, ActorsAre DEF ControlInv, CacheFollows, Quiescent
  <1>3. StartupFollows(r, monitoring)
    <2>1. CASE r.pc = "idle"
      BY <2>1 DEF StartupFollows, IsAtWork
    <2>2. CASE /\ r = Work(cache, "instrument") /\ cache \in MonitoringResources
               /\ ~cache.marked /\ cache.mode = "all"
      <3> HIDE DEF r
      <3>1. r.pc = "work" /\ r.m = cache /\ r.op = "instrument"
        BY <2>2 DEF Work, Idle
      <3>2. AgreesWith(cache, monitoring)
        BY <1>2, <2>2, ConstantsAssumption DEF Follows
      <3> QED
        BY <2>2, <3>1, <3>2 DEF StartupFollows, IsAtWork
    <2> QED
      BY <1>1, <2>1, <2>2
  <1> QED
    BY <1>1, <1>2, <1>3 DEF ControlInv, CacheFollows, ReconcileIsDue

LEMMA InformerControl ==
  ASSUME LabelInv, ControlInv, InformerEvent
  PROVE  ControlInv'
  <1>1. UNCHANGED <<monitoring, run>> /\ cache' = monitoring /\ queued' = (queued \/ TriggersReconcile(cache, monitoring))
    BY DEF InformerEvent
  <1>2. CacheFollows'
    BY <1>1, SelfFollows DEF CacheFollows, ControlInv, LabelInv
  <1>3. ReconcileIsDue'
    BY <1>1 DEF ReconcileIsDue, ControlInv
  <1> QED
    BY <1>1, <1>2, <1>3 DEF ControlInv

LEMMA RestartControl ==
  ASSUME LabelInv, ControlInv, Restart
  PROVE  ControlInv'
  <1>1. /\ UNCHANGED monitoring /\ cache' = monitoring /\ queued' = (monitoring # Absent)
        /\ run'["reconcile"] = Idle /\ run'["startup"] = InitialRun
    BY ActorsAre DEF Restart
  <1>2. CacheFollows'
    BY <1>1, SelfFollows DEF CacheFollows, ControlInv, LabelInv
  <1>3. ReconcileIsDue'
    BY <1>1 DEF ReconcileIsDue
  <1>4. StartupFollows(run'["startup"], monitoring')
    BY <1>1, WorkFields DEF StartupFollows, IsAtWork
  <1> QED
    BY <1>1, <1>2, <1>3, <1>4, IdleFollows DEF ControlInv

\* Users who wait find a resource that has been reconciled.
LEMMA RestIsReconciled ==
  ASSUME ControlInv, Settled, monitoring \in MonitoringResources
  PROVE  IsReconciled(monitoring)
  <1>1. run["reconcile"].pc = "idle" /\ ~queued /\ cache = monitoring /\ monitoring # Absent
    BY ActorsAre, ConstantsAssumption DEF Settled
  <1>2. monitoring.marked \in BOOLEAN
    BY DEF MonitoringResources
  <1> QED
    BY <1>1, <1>2 DEF ControlInv, ReconcileIsDue, TriggersReconcile

LEMMA ChangeOutcome ==
  ASSUME LabelInv, ControlInv, scenario.promptReconcile, ChangeMonitoring
  PROVE  /\ Settled /\ UNCHANGED <<scenario, workload, cache, queued, version, run, missed>> /\ Spend("monitoringChanges")
         /\ \/ /\ monitoring = Absent
               /\ \E s \in scenario.monitoringSpecs : monitoring' = NewMonitoring(s)
            \/ /\ monitoring \in MonitoringResources /\ IsReconciled(monitoring)
               /\ \/ \E s \in scenario.monitoringSpecs \ {SpecOf(monitoring)} :
                       monitoring' = [monitoring EXCEPT !.mode = s.mode, !.selector = s.selector,
                                                        !.propagators = s.propagators]
                  \/ monitoring' = [monitoring EXCEPT !.marked = TRUE]
  <1>1. Settled /\ UNCHANGED <<scenario, workload, cache, queued, version, run, missed>> /\ Spend("monitoringChanges")
    BY DEF ChangeMonitoring
  <1>2. CASE monitoring = Absent
    BY <1>1, <1>2 DEF ChangeMonitoring
  <1>3. CASE monitoring # Absent
    <2>1. monitoring \in MonitoringResources /\ IsReconciled(monitoring)
      BY <1>1, <1>3, RestIsReconciled DEF LabelInv
    <2>2. monitoring.finalizer
      BY <2>1 DEF IsReconciled
    <2> QED
      BY <1>1, <1>3, <2>1, <2>2 DEF ChangeMonitoring
  <1> QED
    BY <1>2, <1>3

LEMMA ChangeIsSeen ==
  ASSUME LabelInv, ControlInv, scenario.promptReconcile, ChangeMonitoring
  PROVE  Sound(monitoring') /\ JustChanged(monitoring', cache) /\ TriggersReconcile(cache, monitoring')
  <1>1. /\ cache = monitoring /\ ~queued /\ \A a \in Actors : run[a].pc = "idle"
        /\ UNCHANGED <<cache, queued, run>> /\ scenario.monitoringSpecs \subseteq MonitoringSpecs
    BY ChangeOutcome, ScenariosAssumption DEF Settled, LabelInv
  <1>4. CASE monitoring = Absent
    <2>1. PICK s \in scenario.monitoringSpecs : monitoring' = NewMonitoring(s)
      BY <1>4, ChangeOutcome, ConstantsAssumption
    <2>2. s \in MonitoringSpecs
      BY <1>1
    <2>3. NewMonitoring(s) \in MonitoringResources
      BY <2>2, ConstantsAssumption DEF NewMonitoring, MonitoringResources, MonitoringSpecs
    <2>4. Sound(NewMonitoring(s)) /\ NewMonitoring(s).cond = "none" /\ ~NewMonitoring(s).marked
      BY DEF NewMonitoring, Sound
    <2> QED
      BY <1>1, <1>4, <2>1, <2>3, <2>4, ConstantsAssumption DEF JustChanged, TriggersReconcile
  <1>5. CASE monitoring # Absent
    <2>1. monitoring \in MonitoringResources /\ IsReconciled(monitoring)
      BY <1>5, ChangeOutcome
    <2>2. CASE monitoring' = [monitoring EXCEPT !.marked = TRUE]
      <3> DEFINE new == [monitoring EXCEPT !.marked = TRUE]
      <3>1. /\ new \in MonitoringResources /\ new.marked /\ new.finalizer /\ new.cond = "available"
            /\ new.prevMode = monitoring.mode /\ new.prevSelector = monitoring.selector /\ new.prevPropagators = monitoring.propagators
            /\ new.mode = monitoring.mode /\ new.selector = monitoring.selector /\ new.propagators = monitoring.propagators
        BY <2>1 DEF MonitoringResources, IsReconciled
      <3>2. new.mode # "" /\ new # Absent
        BY <3>1, ConstantsAssumption DEF MonitoringResources, Modes
      <3> HIDE DEF new
      <3>3. Sound(new)
        BY <3>1, <3>2 DEF Sound, PrevIsSpec
      <3> QED
        BY <1>1, <1>5, <2>1, <2>2, <3>1, <3>2, <3>3 DEF JustChanged, TriggersReconcile, IsReconciled, new
    <2>3. ASSUME NEW s \in scenario.monitoringSpecs \ {SpecOf(monitoring)},
                 monitoring' = [monitoring EXCEPT !.mode = s.mode, !.selector = s.selector, !.propagators = s.propagators]
          PROVE  Sound(monitoring') /\ JustChanged(monitoring', cache) /\ TriggersReconcile(cache, monitoring')
      <3> DEFINE new == [monitoring EXCEPT !.mode = s.mode, !.selector = s.selector, !.propagators = s.propagators]
      <3>0. s \in MonitoringSpecs
        BY <1>1
      <3>1. /\ new \in MonitoringResources /\ ~new.marked /\ new.finalizer /\ new.cond = "available"
            /\ new.prevMode = monitoring.mode /\ new.prevSelector = monitoring.selector /\ new.prevPropagators = monitoring.propagators
            /\ new.mode = s.mode /\ new.selector = s.selector /\ new.propagators = s.propagators
        BY <2>1, <3>0 DEF MonitoringResources, MonitoringSpecs, IsReconciled
      <3>2. new.prevMode # "" /\ new # Absent
        BY <2>1, <3>1, ConstantsAssumption DEF MonitoringResources, Modes
      <3> HIDE DEF new
      <3>3. Sound(new)
        BY <3>1, <3>2 DEF Sound, PrevIsSpec
      <3>4. ~SameSpec(monitoring, new)
        BY <3>0, <3>1 DEF SameSpec, SpecOf, MonitoringSpecs
      <3>5. SpecOf(monitoring) # SpecOf(new)
        BY <3>4 DEF SameSpec, SpecOf
      <3> QED
        BY <1>1, <1>5, <2>1, <2>3, <3>1, <3>2, <3>3, <3>4, <3>5 DEF JustChanged, TriggersReconcile, new
    <2> QED
      BY <1>5, <2>2, <2>3, ChangeOutcome
  <1> QED
    BY <1>4, <1>5

LEMMA ChangeControl ==
  ASSUME LabelInv, ControlInv, scenario.promptReconcile, ChangeMonitoring
  PROVE  ControlInv'
  <1>1. cache = monitoring /\ ~queued /\ (\A a \in Actors : run[a].pc = "idle") /\ UNCHANGED <<cache, queued, run>>
    BY ChangeOutcome DEF Settled
  <1>2. /\ ReconcilerFollows(run'["reconcile"], monitoring') /\ StartupFollows(run'["startup"], monitoring')
        /\ Quiescent'
    BY <1>1, ActorsAre DEF ReconcilerFollows, StartupFollows, IsAtWork, Quiescent
  <1>3. Sound(monitoring') /\ JustChanged(monitoring', cache) /\ TriggersReconcile(cache, monitoring')
    BY ChangeIsSeen
  <1> QED
    BY <1>1, <1>2, <1>3 DEF ControlInv, CacheFollows, ReconcileIsDue

\* What the steps of the loop over the workloads have in common.
WorkFrame(a) ==
  /\ UNCHANGED <<scenario, monitoring, cache, queued, version>>
  /\ \A b \in Actors : b # a => run'[b] = run[b]
  /\ IsAtWork(run[a]) /\ IsAtWork(run'[a])
  /\ run'[a].m = run[a].m /\ run'[a].op = run[a].op

LEMMA ListOutcome ==
  ASSUME LabelInv, NEW a \in Actors, ListKind(a)
  PROVE  /\ WorkFrame(a) /\ UNCHANGED <<workload, missed, used>>
         /\ run[a].todo = <<>> /\ run[a].kinds # <<>>
         /\ run'[a].kinds = Tail(run[a].kinds) /\ run'[a].failed = run[a].failed
         /\ run'[a].todo = [w \in Listed(Head(run[a].kinds), run[a].op) |-> workload[w]]
  <1> DEFINE r == run[a]
             todo == [w \in Listed(Head(r.kinds), r.op) |-> workload[w]]
             kinds == Tail(r.kinds)
             new == [r EXCEPT !.kinds = kinds, !.todo = todo]
  <1>1. DOMAIN r = Fields /\ r.pc = "work" /\ DOMAIN run = Actors
    BY DEF LabelInv, ListKind, RunIsTyped
  <1>2. run' = [run EXCEPT ![a] = new]
    BY DEF ListKind, SetRun
  <1> HIDE DEF todo, kinds
  <1>3. new.pc = "work" /\ new.m = r.m /\ new.op = r.op /\ new.kinds = kinds /\ new.todo = todo /\ new.failed = r.failed
    BY <1>1 DEF Fields
  <1> HIDE DEF new
  <1>4. run'[a] = new /\ \A b \in Actors : b # a => run'[b] = run[b]
    BY <1>1, <1>2
  <1>5. WorkFrame(a)
    BY <1>1, <1>3, <1>4 DEF WorkFrame, IsAtWork, ListKind
  <1> QED
    BY <1>3, <1>4, <1>5 DEF ListKind, todo, kinds

LEMMA ListFailsOutcome ==
  ASSUME LabelInv, NEW a \in Actors, ListKindFails(a)
  PROVE  /\ WorkFrame(a) /\ UNCHANGED <<workload, missed>> /\ Spend("listFailures")
         /\ run[a].todo = <<>> /\ run'[a].todo = <<>> /\ run'[a].failed = TRUE
         /\ run[a].kinds # <<>> /\ run'[a].kinds = Tail(run[a].kinds)
  <1> DEFINE r == run[a]
             kinds == Tail(r.kinds)
             new == [r EXCEPT !.kinds = kinds, !.failed = TRUE]
  <1>1. DOMAIN r = Fields /\ r.pc = "work" /\ DOMAIN run = Actors
    BY DEF LabelInv, ListKindFails, RunIsTyped
  <1>2. run' = [run EXCEPT ![a] = new]
    BY DEF ListKindFails, SetRun
  <1> HIDE DEF kinds
  <1>3. new.pc = "work" /\ new.m = r.m /\ new.op = r.op /\ new.kinds = kinds /\ new.todo = r.todo /\ new.failed = TRUE
    BY <1>1 DEF Fields
  <1> HIDE DEF new
  <1>4. run'[a] = new /\ \A b \in Actors : b # a => run'[b] = run[b]
    BY <1>1, <1>2
  <1>5. WorkFrame(a)
    BY <1>1, <1>3, <1>4 DEF WorkFrame, IsAtWork, ListKindFails
  <1> QED
    BY <1>3, <1>4, <1>5 DEF ListKindFails, kinds

\* The workload w has been dealt with, or is not there any more.
IsHandled(a, w) ==
  /\ WorkFrame(a) /\ w \in DOMAIN run[a].todo /\ run[a].pc = "work"
  /\ run'[a].kinds = run[a].kinds /\ run'[a].failed = run[a].failed
  /\ run'[a].todo = Without(run[a].todo, w)
  /\ \/ UNCHANGED <<workload, missed>> /\ Spend("failures")
     \/ /\ UNCHANGED <<workload, missed, used>>
        /\ w \notin Live \/ Desired(w, run[a].todo[w], run[a]) = workload[w]
     \/ /\ w \in Live /\ Update(w, Desired(w, run[a].todo[w], run[a]))
        /\ UNCHANGED used

LEMMA HandleOutcome ==
  ASSUME LabelInv, NEW a \in Actors, HandleWorkload(a) \/ UpdateFails(a)
  PROVE  \E w : IsHandled(a, w)
  <1> DEFINE r == run[a]
             done(w) == [r EXCEPT !.todo = Without(r.todo, w)]
             restart(w) == [done(w) EXCEPT !.pc = "restartPods", !.restart = w]
  <1>1. DOMAIN r = Fields /\ r.pc = "work" /\ DOMAIN run = Actors
    BY DEF LabelInv, HandleWorkload, UpdateFails, RunIsTyped
  <1>2. PICK w \in DOMAIN run[a].todo :
          /\ run' \in {[run EXCEPT ![a] = done(w)], [run EXCEPT ![a] = restart(w)]}
          /\ \/ UNCHANGED <<workload, missed>> /\ Spend("failures")
             \/ /\ UNCHANGED <<workload, missed, used>>
                /\ w \notin Live \/ Desired(w, run[a].todo[w], run[a]) = workload[w]
             \/ /\ w \in Live /\ Update(w, Desired(w, run[a].todo[w], run[a]))
                /\ UNCHANGED used
    BY DEF HandleWorkload, UpdateFails, SetRun
  <1> DEFINE rest == Without(r.todo, w)
             d == [r EXCEPT !.todo = rest]
             s == [d EXCEPT !.pc = "restartPods", !.restart = w]
  <1>3. d = done(w) /\ s = restart(w)
    OBVIOUS
  <1> HIDE DEF rest, done, restart
  <1>4. /\ d.pc = "work" /\ d.m = r.m /\ d.op = r.op /\ d.kinds = r.kinds /\ d.todo = rest /\ d.failed = r.failed
        /\ s.pc = "restartPods" /\ s.m = r.m /\ s.op = r.op /\ s.kinds = r.kinds /\ s.todo = rest /\ s.failed = r.failed
    BY <1>1 DEF Fields
  <1> HIDE DEF d, s
  <1>5. run'[a] \in {d, s} /\ \A b \in Actors : b # a => run'[b] = run[b]
    BY <1>1, <1>2, <1>3
  <1>6. UNCHANGED <<scenario, monitoring, cache, queued, version>>
    BY DEF HandleWorkload, UpdateFails
  <1>7. WorkFrame(a)
    BY <1>1, <1>4, <1>5, <1>6 DEF WorkFrame, IsAtWork
  <1>8. run'[a].kinds = r.kinds /\ run'[a].failed = r.failed /\ run'[a].todo = rest
    BY <1>4, <1>5
  <1>9. IsHandled(a, w)
    BY <1>1, <1>2, <1>7, <1>8 DEF IsHandled, rest
  <1> QED
    BY <1>9

LEMMA RestartPodsOutcome ==
  ASSUME LabelInv, NEW a \in Actors, RestartPodsOfReplicaSet(a) \/ RestartPodsFails(a)
  PROVE  /\ WorkFrame(a) /\ UNCHANGED missed
         /\ run'[a].kinds = run[a].kinds /\ run'[a].failed = run[a].failed /\ run'[a].todo = run[a].todo
         /\ \/ UNCHANGED workload /\ (UNCHANGED used \/ Spend("failures"))
            \/ /\ UNCHANGED used
               /\ \E w \in Live : Store(w, [workload[w] EXCEPT !.running = workload[w].version])
  <1> DEFINE r == run[a]
             new == [r EXCEPT !.pc = "work", !.restart = Unborn]
  <1>1. DOMAIN r = Fields /\ r.pc = "restartPods" /\ DOMAIN run = Actors
    BY DEF LabelInv, RestartPodsOfReplicaSet, RestartPodsFails, RunIsTyped
  <1>2. run' = [run EXCEPT ![a] = new]
    BY DEF RestartPodsOfReplicaSet, RestartPodsFails, SetRun
  <1>3. new.pc = "work" /\ new.m = r.m /\ new.op = r.op /\ new.kinds = r.kinds /\ new.todo = r.todo /\ new.failed = r.failed
    BY <1>1 DEF Fields
  <1> HIDE DEF new
  <1>4. run'[a] = new /\ \A b \in Actors : b # a => run'[b] = run[b]
    BY <1>1, <1>2
  <1>5. WorkFrame(a) /\ UNCHANGED missed
    BY <1>1, <1>3, <1>4 DEF WorkFrame, IsAtWork, RestartPodsOfReplicaSet, RestartPodsFails
  <1>6. \/ UNCHANGED workload /\ (UNCHANGED used \/ Spend("failures"))
        \/ /\ UNCHANGED used
           /\ \E w \in Live : Store(w, [workload[w] EXCEPT !.running = workload[w].version])
    <2> DEFINE w == run[a].restart
    <2>1. CASE RestartPodsOfReplicaSet(a)
      <3>1. UNCHANGED used
        BY <2>1 DEF RestartPodsOfReplicaSet
      <3>2. UNCHANGED workload \/ (w \in Live /\ Store(w, [workload[w] EXCEPT !.running = workload[w].version]))
        BY <2>1 DEF RestartPodsOfReplicaSet
      <3> HIDE DEF w
      <3> QED
        BY <3>1, <3>2
    <2>2. CASE RestartPodsFails(a)
      BY <2>2 DEF RestartPodsFails
    <2> QED
      BY <2>1, <2>2
  <1> QED
    BY <1>3, <1>4, <1>5, <1>6

LEMMA WorkIsFramed ==
  ASSUME LabelInv, NEW a \in Actors, Instrument(a) \/ Fails(a)
  PROVE  WorkFrame(a)
  BY ListOutcome, ListFailsOutcome, HandleOutcome, RestartPodsOutcome DEF Instrument, Fails, IsHandled

LEMMA WorkControl ==
  ASSUME LabelInv, ControlInv, NEW a \in Actors, WorkFrame(a)
  PROVE  ControlInv'
  <1>1. \A b \in Actors : /\ IsAtWork(run[b]) => IsAtWork(run'[b]) /\ run'[b].m = run[b].m /\ run'[b].op = run[b].op
                          /\ ~IsAtWork(run[b]) => run'[b] = run[b]
    BY DEF WorkFrame
  <1>2. ReconcilerFollows(run'["reconcile"], monitoring')
    BY <1>1, ActorsAre DEF ControlInv, ReconcilerFollows, IsAtWork, WorkFrame
  <1>3. StartupFollows(run'["startup"], monitoring')
    BY <1>1, ActorsAre DEF ControlInv, StartupFollows, IsAtWork, WorkFrame
  <1>4. ~Quiescent
    BY DEF WorkFrame, Quiescent, IsAtWork
  <1>5. CacheFollows'
    BY <1>4 DEF ControlInv, CacheFollows, WorkFrame
  <1>6. run["reconcile"].pc # "idle" => run'["reconcile"].pc # "idle"
    BY <1>1, ActorsAre DEF IsAtWork
  <1>7. ReconcileIsDue'
    BY <1>6 DEF ControlInv, ReconcileIsDue, WorkFrame
  <1> QED
    BY <1>2, <1>3, <1>5, <1>7 DEF ControlInv, WorkFrame

LEMMA InitControl ==
  ASSUME Init, scenario.promptReconcile
  PROVE  ControlInv
  <1>1. scenario \in Scenarios /\ LabelInv
    BY InitLabels DEF Init
  <1>2. /\ run["reconcile"] = Idle /\ run["startup"] \in {Idle, InitialRun}
        /\ cache = monitoring /\ monitoring = scenario.monitoring
        /\ queued = (scenario.operatorIsStarting /\ monitoring # Absent)
    BY ActorsAre DEF Init
  <1>3. ReconcilerFollows(run["reconcile"], monitoring) /\ StartupFollows(run["startup"], monitoring)
    BY <1>2, IdleFollows, WorkFields DEF StartupFollows, IsAtWork
  <1>4. \/ monitoring = Absent \/ IsReconciled(monitoring)
        \/ scenario.operatorIsStarting /\ \E spec \in MonitoringSpecs : monitoring = NewMonitoring(spec)
    BY <1>1, <1>2, StartAssumption
  <1>5. monitoring # Absent => Sound(monitoring)
    <2>1. ASSUME IsReconciled(monitoring), monitoring \in MonitoringResources PROVE Sound(monitoring)
      BY <2>1 DEF IsReconciled, Sound, MonitoringResources, Modes
    <2>2. ASSUME NEW spec \in MonitoringSpecs PROVE Sound(NewMonitoring(spec))
      BY DEF NewMonitoring, Sound
    <2> QED
      BY <1>1, <1>4, <2>1, <2>2 DEF LabelInv
  <1>6. CacheFollows
    BY <1>1, <1>2, <1>5, SelfFollows DEF CacheFollows, LabelInv
  <1>7. ReconcileIsDue
    BY <1>2, <1>4 DEF ReconcileIsDue
  <1> QED
    BY <1>3, <1>5, <1>6, <1>7 DEF ControlInv

\* The rest of what users do does not concern the resource or the runs.
WorkloadFrame == UNCHANGED <<scenario, monitoring, cache, queued, version, run>>

\* Users who wait never change the resource under a reconcile: every copy that is acted by is one
\* of the current spec.
LEMMA NextKeepsControl ==
  ASSUME LabelInv, scenario.promptReconcile => ControlInv, [Next]_vars
  PROVE  UNCHANGED scenario /\ (scenario.promptReconcile => ControlInv')
  <1>0. UNCHANGED scenario
    BY DEF Next, vars, Reconcile, BeginReconcile, HandleFinalizers, FinishWork, UpdateStatusAfterReconcile,
           MarkAboutToBeDeleted, RemoveFinalizer, InstrumentAtStartup, FinishStartup, Instrument, Fails, ListKind,
           ListKindFails, HandleWorkload, UpdateFails, RestartPodsOfReplicaSet, RestartPodsFails, InformerEvent,
           Restart, Users, ChangeMonitoring, CreateWorkload, UpdateWorkload, DeleteWorkload
  <1>1. SUFFICES ASSUME scenario.promptReconcile, ControlInv PROVE ControlInv'
    BY <1>0
  <1>2. CASE Reconcile
    BY <1>1, <1>2, ReconcileControl
  <1>3. CASE InstrumentAtStartup \/ FinishStartup
    BY <1>1, <1>3, StartupControl
  <1>4. ASSUME NEW a \in Actors, Instrument(a) \/ Fails(a) PROVE ControlInv'
    BY <1>1, <1>4, WorkIsFramed, WorkControl
  <1>5. CASE InformerEvent
    BY <1>1, <1>5, InformerControl
  <1>6. CASE Restart
    BY <1>1, <1>6, RestartControl
  <1>7. CASE ChangeMonitoring
    BY <1>1, <1>7, ChangeControl
  <1>8. CASE WorkloadFrame
    BY <1>1, <1>8 DEF WorkloadFrame, ControlInv, CacheFollows, ReconcileIsDue, Quiescent
  <1>9. CASE UNCHANGED vars
    BY <1>8, <1>9 DEF vars, WorkloadFrame
  <1>10. (\E w \in Workloads : CreateWorkload(w) \/ UpdateWorkload(w) \/ DeleteWorkload(w)) => WorkloadFrame
    BY DEF CreateWorkload, UpdateWorkload, DeleteWorkload, WorkloadFrame
  <1> QED
    BY <1>2, <1>3, <1>4, <1>5, <1>6, <1>7, <1>8, <1>9, <1>10 DEF Next, Users

-----------------------------------------------------------------------------
(* What the webhook and the Instrumenter make of one workload *)

Removing == monitoring = Absent \/ monitoring.marked \/ monitoring.mode = "none"
AllInForce == ~Removing /\ monitoring.mode = "all"

\* The operator can tell that the propagators on the workload are its own.
Recognised(obj, m) == obj.propagators \in {NoPropagators, m.propagators, m.prevPropagators}

IsRight(obj) ==
  obj.version = version /\ (PropagatorsAreRecognised => obj.propagators = monitoring.propagators)
MustBeRight(obj) == AllInForce /\ ShouldBeInstrumented(obj, monitoring.selector)
MustBeClean(w, obj) ==
  Removing \/ (AllInForce /\ w \notin scenario.editable /\ HasOptedOutOfInstrumentation(obj, monitoring.selector))
RightO(w) == MustBeClean(w, workload[w]) => workload[w].version = 0
RightV(w) == MustBeRight(workload[w]) => IsRight(workload[w])

\* The webhook does what the resource says.
HookFits ==
  /\ Removing => ~WebhookIsActive(cache)
  /\ (~Removing /\ cache # Absent) => SameSpec(cache, monitoring) /\ ~cache.marked

\* Setting and removing the modifications, with the propagators.
LEMMA ModifyIsRight ==
  ASSUME NEW obj \in WorkloadObjects, NEW m
  PROVE  /\ Modify(obj, m).version = version /\ Modify(obj, m).propagators \in {obj.propagators, m.propagators}
         /\ Recognised(obj, m) => Modify(obj, m).propagators = m.propagators
  <1> DEFINE value == IF OtelPropagatorsCanBeUpdated(obj, m) THEN m.propagators ELSE obj.propagators
             new == [obj EXCEPT !.version = version, !.propagators = value, !.label = "true"]
  <1>1. value \in {obj.propagators, m.propagators} /\ (Recognised(obj, m) => value = m.propagators)
    BY DEF Recognised, OtelPropagatorsCanBeUpdated
  <1>2. Modify(obj, m) = IF obj.version = version /\ value = obj.propagators THEN obj ELSE new
    BY DEF Modify
  <1> HIDE DEF value
  <1>3. new.version = version /\ new.propagators = value
    BY DEF WorkloadObjects
  <1> HIDE DEF new
  <1> QED
    BY <1>1, <1>2, <1>3

LEMMA RevertClears ==
  ASSUME NEW obj, Valid(obj), NEW m
  PROVE  /\ Revert(obj, m).version = 0 /\ Revert(obj, m).propagators \in {obj.propagators, NoPropagators}
         /\ (obj.propagators \in {NoPropagators, m.propagators} /\ (obj.version = 0 => obj.propagators = NoPropagators))
              => Revert(obj, m).propagators = NoPropagators
  <1> DEFINE value == IF m.propagators = obj.propagators THEN NoPropagators ELSE obj.propagators
             unlabelled == [obj EXCEPT !.label = "none"]
             new == [obj EXCEPT !.version = 0, !.propagators = value, !.label = "none"]
  <1>1. value \in {obj.propagators, NoPropagators} /\ (obj.propagators \in {NoPropagators, m.propagators} => value = NoPropagators)
    OBVIOUS
  <1>2. obj.label = "false" => obj.version = 0
    <2>1. obj.version \in Nat
      BY ConstantsAssumption DEF Valid, WorkloadObjects
    <2>2. obj.label = "false" => ~(obj.version > 0)
      BY DEF Valid, LabelMatches
    <2> QED
      BY <2>1, <2>2
  <1>3. Revert(obj, m) = CASE obj.label = "false" -> unlabelled
                           [] obj.label # "false" /\ obj.version = 0 /\ value = obj.propagators -> obj
                           [] OTHER -> new
    BY DEF Revert
  <1> HIDE DEF value
  <1>4. /\ new.version = 0 /\ new.propagators = value
        /\ unlabelled.version = obj.version /\ unlabelled.propagators = obj.propagators
    BY DEF Valid, WorkloadObjects
  <1> HIDE DEF new, unlabelled
  <1> QED
    BY <1>1, <1>2, <1>3, <1>4

\* The answers of the webhook for a workload that can be changed later.
LEMMA HandleCases ==
  ASSUME LabelInv, NEW w, RolledOut(w), NEW obj \in WorkloadObjects
  PROVE  LET new == Handle(w, obj)
         IN  /\ obj.ignoreOnce => new = ConsumeIgnoreOnceLabel(obj)
             /\ (~obj.ignoreOnce /\ ~WebhookIsActive(cache)) => new = obj
             /\ (~obj.ignoreOnce /\ WebhookIsActive(cache) /\ HasOptedOutOfInstrumentation(obj, cache.selector))
                  => new \in {obj, Revert(obj, cache)}
             /\ (~obj.ignoreOnce /\ WebhookIsActive(cache) /\ ShouldBeInstrumented(obj, cache.selector))
                  => new = Modify(obj, cache)
  <1> DEFINE optedOut == HasOptedOutOfInstrumentation(obj, cache.selector)
             active == WebhookIsActive(cache)
  <1>1. optedOut \in BOOLEAN /\ (ShouldBeInstrumented(obj, cache.selector) => ~optedOut)
    BY DEF HasOptedOutOfInstrumentation
  <1>2. obj.ignoreOnce \in BOOLEAN /\ Kind[w] \notin {"job", "pod"}
    BY DEF WorkloadObjects, RolledOut
  <1>3. active \in BOOLEAN
    BY DEF WebhookIsActive, LabelInv, MonitoringResources
  <1>4. Handle(w, obj) =
          CASE obj.ignoreOnce -> ConsumeIgnoreOnceLabel(obj)
            [] ~obj.ignoreOnce /\ ~active -> obj
            [] OTHER -> CASE optedOut /\ obj.label # "true" -> obj
                          [] optedOut /\ obj.label = "true" ->
                               IF Kind[w] \in {"job", "pod"} THEN obj ELSE Revert(obj, cache)
                          [] ~optedOut -> Modify(obj, cache)
    BY DEF Handle
  <1> HIDE DEF optedOut, active
  <1> QED
    BY <1>1, <1>2, <1>3, <1>4 DEF optedOut, active

LEMMA ConsumedFields ==
  ASSUME NEW obj \in WorkloadObjects, NEW b \in BOOLEAN
  PROVE  LET new == [obj EXCEPT !.ignoreOnce = b]
         IN  /\ new.version = obj.version /\ new.propagators = obj.propagators /\ new.label = obj.label
             /\ new.enable = obj.enable /\ new.ignoreOnce = b /\ new \in WorkloadObjects
             /\ obj.ignoreOnce = b => new = obj
  BY DEF WorkloadObjects

LEMMA HandleFields ==
  ASSUME LabelInv, NEW w, RolledOut(w), NEW obj, Valid(obj)
  PROVE  LET new == Handle(w, obj)
         IN  new.enable = obj.enable
  <1>1. obj \in WorkloadObjects
    BY DEF Valid
  <1>2. /\ Modify(obj, cache).enable = obj.enable /\ Revert(obj, cache).enable = obj.enable
        /\ ConsumeIgnoreOnceLabel(obj).enable = obj.enable
    BY <1>1, ChangesKeepTheRest, ConsumedFields DEF SameOtherwise, ConsumeIgnoreOnceLabel
  <1>3. Handle(w, obj) \in {obj, ConsumeIgnoreOnceLabel(obj), Modify(obj, cache), Revert(obj, cache)}
    BY <1>1, HandleCases DEF HasOptedOutOfInstrumentation
  <1> QED
    BY <1>2, <1>3

\* What must not be instrumented stays so on its way through the webhook.
LEMMA HandleKeepsClean ==
  ASSUME LabelInv, HookFits, NEW w, RolledOut(w), NEW obj, Valid(obj), MustBeClean(w, obj), obj.version = 0
  PROVE  Handle(w, obj).version = 0
  <1>1. obj \in WorkloadObjects
    BY DEF Valid
  <1>2. ConsumeIgnoreOnceLabel(obj).version = 0 /\ Revert(obj, cache).version = 0
    BY <1>1, RevertClears, ConsumedFields DEF ConsumeIgnoreOnceLabel
  <1>3. WebhookIsActive(cache) => HasOptedOutOfInstrumentation(obj, cache.selector)
    BY DEF HookFits, MustBeClean, WebhookIsActive, SameSpec, AllInForce
  <1> QED
    BY <1>1, <1>2, <1>3, HandleCases

\* An active webhook instruments what must be instrumented.
LEMMA HandleMakesRight ==
  ASSUME LabelInv, HookFits, NEW w, RolledOut(w), NEW obj \in WorkloadObjects, MustBeRight(obj),
         ~obj.ignoreOnce, cache # Absent, cache.cond = "available",
         PropagatorsAreRecognised => Recognised(obj, cache)
  PROVE  IsRight(Handle(w, obj))
  <1>1. SameSpec(cache, monitoring) /\ ~cache.marked /\ monitoring.mode = "all"
    BY DEF HookFits, MustBeRight, AllInForce
  <1>2. WebhookIsActive(cache) /\ ShouldBeInstrumented(obj, cache.selector) /\ cache.propagators = monitoring.propagators
    BY <1>1 DEF WebhookIsActive, SameSpec, MustBeRight
  <1>3. Handle(w, obj) = Modify(obj, cache)
    BY <1>2, HandleCases
  <1>4. /\ Modify(obj, cache).version = version
        /\ Recognised(obj, cache) => Modify(obj, cache).propagators = cache.propagators
    BY ModifyIsRight
  <1> QED
    BY <1>2, <1>3, <1>4 DEF IsRight

\* The workload was listed as one that does not have what the resource asks for.
IsOutdated(seen, m) ==
  /\ ShouldBeInstrumented(seen, m.selector)
  /\ ~(seen.version = version /\ (PropagatorsAreRecognised => seen.propagators = m.propagators))

LEMMA OutdatedIsNoticed ==
  ASSUME NEW seen, NEW m, IsOutdated(seen, m), PropagatorsAreRecognised => Recognised(seen, m)
  PROVE  ~InstrumentationIsUpToDate(seen, m)
  BY DEF IsOutdated, Recognised, InstrumentationIsUpToDate, OtelPropagatorsCanBeUpdated

\* How the action chosen by the listed object and the current object go together.
LEMMA InstrumentCases ==
  ASSUME NEW seen \in WorkloadObjects, NEW obj \in WorkloadObjects, NEW m
  PROVE  LET new == InstrumentWorkload(seen, obj, m)
             should == ShouldBeInstrumented(seen, m.selector)
             unmarked == [obj EXCEPT !.ignoreOnce = FALSE]
         IN  /\ (should /\ InstrumentationIsUpToDate(seen, m)) => new \in {obj, unmarked}
             /\ (should /\ ~InstrumentationIsUpToDate(seen, m)) =>
                   \/ new = unmarked /\ Modify(obj, m) = obj
                   \/ new = [Modify(obj, m) EXCEPT !.ignoreOnce = TRUE]
             /\ (~should /\ seen.label # "true") => new \in {obj, unmarked}
             /\ (~should /\ seen.label = "true") =>
                   \/ new = unmarked /\ Revert(obj, m) = obj
                   \/ new = Revert(obj, m)
  <1> DEFINE optedOut == HasOptedOutOfInstrumentation(seen, m.selector)
             should == ShouldBeInstrumented(seen, m.selector)
             upToDate == InstrumentationIsUpToDate(seen, m)
             labelled == seen.label = "true"
             modified == Modify(obj, m)
             reverted == Revert(obj, m)
             change == IF labelled /\ optedOut THEN reverted ELSE modified
             isSkipped == \/ ~optedOut /\ upToDate
                          \/ optedOut /\ ~labelled
             unmarked == [obj EXCEPT !.ignoreOnce = FALSE]
  <1>1. optedOut \in BOOLEAN /\ should \in BOOLEAN /\ (optedOut <=> ~should) /\ upToDate \in BOOLEAN /\ seen.ignoreOnce \in BOOLEAN
    BY DEF HasOptedOutOfInstrumentation, ShouldBeInstrumented, InstrumentationIsUpToDate, WorkloadObjects
  <1>2. InstrumentWorkload(seen, obj, m) =
          CASE isSkipped /\ ~seen.ignoreOnce -> obj
            [] isSkipped /\ seen.ignoreOnce -> unmarked
            [] ~isSkipped /\ change = obj -> unmarked
            [] ~isSkipped /\ change # obj -> IF optedOut THEN change ELSE [change EXCEPT !.ignoreOnce = TRUE]
    BY DEF InstrumentWorkload, RemoveLeftoverWebhookIgnoreOnceLabel
  <1> HIDE DEF optedOut, should, upToDate, modified, reverted, unmarked
  <1>3. isSkipped \in BOOLEAN
    OBVIOUS
  <1>4. CASE should /\ upToDate
    <2>1. isSkipped
      BY <1>1, <1>4
    <2> QED
      BY <1>1, <1>2, <1>4, <2>1 DEF should, upToDate, unmarked
  <1>5. CASE should /\ ~upToDate
    <2>1. ~isSkipped /\ ~optedOut /\ change = modified
      BY <1>1, <1>5
    <2> HIDE DEF isSkipped, change
    <2>2. \/ InstrumentWorkload(seen, obj, m) = unmarked /\ modified = obj
          \/ InstrumentWorkload(seen, obj, m) = [modified EXCEPT !.ignoreOnce = TRUE]
      BY <1>2, <2>1
    <2> QED
      BY <1>5, <2>2 DEF should, upToDate, unmarked, modified
  <1>6. CASE ~should /\ ~labelled
    <2>1. isSkipped
      BY <1>1, <1>6
    <2> QED
      BY <1>1, <1>2, <1>6, <2>1 DEF should, unmarked
  <1>7. CASE ~should /\ labelled
    <2>1. ~isSkipped /\ optedOut /\ change = reverted
      BY <1>1, <1>7
    <2> HIDE DEF isSkipped, change
    <2>2. \/ InstrumentWorkload(seen, obj, m) = unmarked /\ reverted = obj
          \/ InstrumentWorkload(seen, obj, m) = reverted
      BY <1>2, <2>1
    <2> QED
      BY <1>7, <2>2 DEF should, unmarked, reverted
  <1> QED
    BY <1>1, <1>4, <1>5, <1>6, <1>7 DEF should, upToDate

LEMMA InstrumentCleans ==
  ASSUME NEW seen \in WorkloadObjects, NEW obj, Valid(obj), NEW m,
         HasOptedOutOfInstrumentation(seen, m.selector), seen.label = "true" \/ obj.version = 0
  PROVE  InstrumentWorkload(seen, obj, m).version = 0
  <1> DEFINE unmarked == [obj EXCEPT !.ignoreOnce = FALSE]
             new == InstrumentWorkload(seen, obj, m)
  <1>1. unmarked.version = obj.version
    BY ConsumedFields DEF Valid
  <1>2. Revert(obj, m).version = 0
    BY RevertClears
  <1>3. /\ seen.label # "true" => new \in {obj, unmarked}
        /\ seen.label = "true" => (new = unmarked /\ Revert(obj, m) = obj) \/ new = Revert(obj, m)
    BY InstrumentCases DEF HasOptedOutOfInstrumentation, Valid
  <1> HIDE DEF unmarked, new
  <1> QED
    BY <1>1, <1>2, <1>3 DEF new

\* How the Instrumenter's update of a workload comes out.
LEMMA UninstrumentCleans ==
  ASSUME NEW obj, Valid(obj), NEW m
  PROVE  RevertWorkloadInstrumentation(obj, m).version = 0
  <1> DEFINE change == Revert(obj, m)
  <1>1. change.version = 0 /\ change \in WorkloadObjects
    BY RevertClears, RevertIsValid DEF Valid
  <1> HIDE DEF change
  <1>2. [change EXCEPT !.ignoreOnce = TRUE].version = 0
    BY <1>1, ConsumedFields
  <1> QED
    BY <1>1, <1>2 DEF RevertWorkloadInstrumentation, change

\* What a run at work and the resource have to do with each other.
Agreement(a) ==
  /\ run[a].m \in MonitoringResources /\ AgreesWith(run[a].m, monitoring) /\ HookFits
  /\ run[a].op \in {"instrument", "uninstrument"}
  /\ run[a].op = "instrument" =>
       /\ AllInForce /\ SameSpec(run[a].m, monitoring) /\ ~run[a].m.marked
       /\ monitoring \in MonitoringResources
  /\ run[a].op = "uninstrument" => Removing

\* A run at work does what the resource asks for now, and so does the webhook.
LEMMA WorkAgrees ==
  ASSUME LabelInv, ControlInv, NEW a \in Actors, IsAtWork(run[a])
  PROVE  Agreement(a)
  <1>1. run[a].m \in MonitoringResources /\ run[a].op \in {"instrument", "uninstrument"}
    BY DEF LabelInv, RunIsTyped, IsAtWork
  <1>2. AgreesWith(run[a].m, monitoring)
    BY ActorsAre DEF ControlInv, ReconcilerFollows, StartupFollows, Follows, IsAtWork
  <1>3. /\ run[a].op = "instrument" => run[a].m.mode = "all" /\ ~run[a].m.marked
        /\ run[a].op = "uninstrument" => run[a].m.mode = "none" \/ run[a].m.marked
    BY ActorsAre DEF ControlInv, ReconcilerFollows, StartupFollows, IsAtWork
  <1>4. (monitoring = Absent /\ cache = Absent) \/ (cache # Absent /\ AgreesWith(cache, monitoring))
    BY DEF ControlInv, CacheFollows, Quiescent, Follows, IsAtWork
  <1>5. HookFits
    BY <1>4 DEF HookFits, Removing, AgreesWith, WebhookIsActive, SameSpec
  <1>6. /\ run[a].op = "instrument" => AllInForce /\ SameSpec(run[a].m, monitoring) /\ monitoring \in MonitoringResources
        /\ run[a].op = "uninstrument" => Removing
    BY <1>2, <1>3 DEF AgreesWith, AllInForce, Removing, SameSpec, LabelInv
  <1> QED
    BY <1>1, <1>2, <1>3, <1>5, <1>6 DEF Agreement

\* The runs know the labels that the selector looks at; where they do not, the webhook is
\* active and will correct what they do.
Suffixes == {KindOrder, <<"job", "replicaset">>, <<"replicaset">>, <<>>}
SeenInv ==
  \A a \in Actors : IsAtWork(run[a]) =>
    /\ run[a].kinds \in Suffixes
    /\ \A w \in DOMAIN run[a].todo : w \in Mutable =>
       /\ w \notin scenario.editable => run[a].todo[w].enable = workload[w].enable
       /\ (~scenario.earlyDeploy /\ run[a].op = "instrument" /\ run[a].todo[w].enable # workload[w].enable)
             => WebhookIsActive(cache)

Undisturbed == ~scenario.earlyDeploy /\ missed = 0 /\ NothingIsSkipped

LEMMA SpentIsNotZero ==
  ASSUME LabelInv, PodsInv, NEW b \in Bounds, Spend(b)
  PROVE  used'[b] # 0 /\ \A c \in Bounds : c # b => used'[c] = used[c]
  BY ScenariosAssumption DEF PodsInv, Counters, Spend, LabelInv

\* What HandleWorkload stores.
LEMMA HandledResult ==
  ASSUME LabelInv, PodsInv, NEW a \in Actors, NEW w \in Mutable, IsHandled(a, w), used'.failures = 0
  PROVE  LET new == Desired(w, run[a].todo[w], run[a])
         IN  /\ w \in Workloads /\ RolledOut(w) /\ Valid(workload[w]) /\ run[a].todo[w] \in WorkloadObjects
             /\ Valid(new) /\ new.enable = workload[w].enable /\ UNCHANGED used
             /\ \A v \in Workloads : v # w => workload'[v] = workload[v]
             /\ \/ UNCHANGED <<workload, missed>> /\ new = workload[w]
                \/ UNCHANGED missed /\ workload'[w] = Handle(w, new)
                \/ missed' # 0 /\ workload'[w] = new
  <1> DEFINE new == Desired(w, run[a].todo[w], run[a])
  <1>1. w \in Live /\ w \in Workloads /\ RolledOut(w) /\ w \in DOMAIN run[a].todo /\ run[a].pc = "work"
    BY DEF Mutable, RolledOut, Live, IsHandled
  <1>2. Valid(workload[w]) /\ Valid(new)
    BY <1>1, DesiredIsValid
  <1>3. new.enable = workload[w].enable
    BY <1>1, DesiredKeepsTheRest DEF RolledOut, SameOtherwise
  <1>4. run[a].todo[w] \in WorkloadObjects /\ DOMAIN workload = Workloads
    BY <1>1 DEF LabelInv, ListIsUsable, WorkloadsAreTyped
  <1> HIDE DEF new
  <1>5. ~Spend("failures")
    BY SpentIsNotZero DEF Bounds
  <1>6. CASE UNCHANGED <<workload, missed, used>> /\ new = workload[w]
    BY <1>1, <1>2, <1>3, <1>4, <1>6 DEF new
  <1>7. CASE Update(w, new) /\ UNCHANGED used
    <2>1. \/ missed' = missed /\ Store(w, Handle(w, new))
          \/ missed' # 0 /\ Store(w, new)
      BY <1>1, <1>2, <1>7, UpdateTakesTheLabel DEF Valid
    <2> QED
      BY <1>1, <1>2, <1>3, <1>4, <1>7, <2>1 DEF Store, new
  <1> QED
    BY <1>1, <1>5, <1>6, <1>7 DEF IsHandled, new

\* Removing the instrumentation works with a stale list too, and with lost admission requests.
LEMMA HandledIsClean ==
  ASSUME LabelInv, PodsInv, ControlInv, SeenInv, NEW a \in Actors, NEW w \in Mutable, IsHandled(a, w),
         used'.failures = 0,
         RightO(w) \/ (run[a].op = "instrument" => run[a].todo[w].label = "true")
  PROVE  RightO(w)'
  <1> DEFINE seen == run[a].todo[w]
             new == Desired(w, seen, run[a])
             obj == workload[w]
  <1>1. /\ w \in Workloads /\ RolledOut(w) /\ Valid(obj) /\ seen \in WorkloadObjects
        /\ Valid(new) /\ new.enable = obj.enable
        /\ workload'[w] \in {new, Handle(w, new)}
    BY HandledResult
  <1>2. /\ UNCHANGED <<scenario, monitoring, cache>> /\ IsAtWork(run[a]) /\ w \in DOMAIN run[a].todo /\ w \in Live
    BY DEF IsHandled, WorkFrame, Mutable
  <1>3. Agreement(a)
    BY <1>2, WorkAgrees
  <1>4. w \notin scenario.editable => seen.enable = obj.enable
    BY <1>2 DEF SeenInv
  <1>5. Kind[w] # "job"
    BY <1>1 DEF RolledOut
  <1>6. Handle(w, new).enable = new.enable
    BY <1>1, HandleFields
  <1>7. /\ run[a].op = "instrument" => new = InstrumentWorkload(seen, obj, run[a].m)
        /\ run[a].op = "uninstrument" => new = RevertWorkloadInstrumentation(obj, run[a].m)
    BY <1>5 DEF Desired
  <1> HIDE DEF new, seen, obj
  <1>8. SUFFICES ASSUME MustBeClean(w, new) PROVE new.version = 0
    <2>1. MustBeClean(w, workload[w])' => MustBeClean(w, new)
      <3>1. workload'[w].enable = new.enable
        BY <1>1, <1>6
      <3> QED
        BY <1>2, <3>1 DEF MustBeClean, Removing, AllInForce, HasOptedOutOfInstrumentation, ShouldBeInstrumented
    <2>2. (MustBeClean(w, new) /\ new.version = 0) => workload'[w].version = 0
      BY <1>1, <1>3, HandleKeepsClean DEF Agreement
    <2> QED
      BY <1>8, <2>1, <2>2 DEF RightO
  <1>9. CASE run[a].op = "uninstrument"
    BY <1>1, <1>7, <1>9, UninstrumentCleans
  <1>10. CASE run[a].op = "instrument"
    <2>1. AllInForce /\ w \notin scenario.editable /\ HasOptedOutOfInstrumentation(new, monitoring.selector)
      BY <1>3, <1>8, <1>10 DEF Agreement, AllInForce, MustBeClean
    <2>2. HasOptedOutOfInstrumentation(seen, run[a].m.selector) /\ HasOptedOutOfInstrumentation(obj, monitoring.selector)
      BY <1>1, <1>3, <1>4, <1>10, <2>1 DEF HasOptedOutOfInstrumentation, ShouldBeInstrumented, Agreement, SameSpec
    <2>3. seen.label = "true" \/ obj.version = 0
      BY <1>10, <2>1, <2>2 DEF RightO, MustBeClean, obj, seen
    <2> QED
      BY <1>1, <1>7, <1>10, <2>2, <2>3, InstrumentCleans
  <1> QED
    BY <1>3, <1>9, <1>10 DEF Agreement

\* What the prover must know of the propagators on the workload and in the list.
KnowsPropagators(a, w) ==
  PropagatorsAreRecognised =>
    /\ Recognised(run[a].todo[w], run[a].m) /\ Recognised(workload[w], run[a].m)
    /\ cache # Absent => Recognised(workload[w], cache)

\* Instrumenting works with a stale list if the webhook is there to correct it.
LEMMA HandledIsRight ==
  ASSUME LabelInv, PodsInv, ControlInv, SeenInv, NEW a \in Actors, NEW w \in Mutable, IsHandled(a, w),
         used'.failures = 0, Undisturbed, missed' = 0, KnowsPropagators(a, w),
         RightV(w) \/ IsOutdated(run[a].todo[w], run[a].m)
  PROVE  RightV(w)'
  <1> DEFINE r == run[a]
             seen == r.todo[w]
             new == Desired(w, seen, r)
             obj == workload[w]
             unmarked == [obj EXCEPT !.ignoreOnce = FALSE]
             marked == [Modify(obj, r.m) EXCEPT !.ignoreOnce = TRUE]
  <1>1. /\ w \in Workloads /\ RolledOut(w) /\ Valid(obj) /\ seen \in WorkloadObjects
        /\ Valid(new) /\ new.enable = obj.enable
        /\ (workload'[w] = obj /\ new = obj) \/ workload'[w] = Handle(w, new)
    BY HandledResult
  <1>2. /\ UNCHANGED <<scenario, monitoring, cache, version>> /\ IsAtWork(r) /\ w \in DOMAIN r.todo /\ w \in Live
    BY DEF IsHandled, WorkFrame, Mutable
  <1>3. Agreement(a)
    BY <1>2, WorkAgrees
  <1>4. Handle(w, new).enable = new.enable /\ Kind[w] # "job"
    BY <1>1, HandleFields DEF RolledOut
  <1>5. ~obj.ignoreOnce /\ unmarked = obj /\ obj \in WorkloadObjects
    <2>1. ~obj.ignoreOnce /\ obj \in WorkloadObjects
      BY <1>1, <1>2 DEF PodsInv, NoIgnoreOnceLabelIsLeft, Undisturbed, Valid
    <2>2. obj.ignoreOnce = FALSE
      BY <2>1 DEF WorkloadObjects
    <2> QED
      BY <2>1, <2>2 DEF WorkloadObjects
  <1>6. SUFFICES ASSUME MustBeRight(obj) PROVE IsRight(workload'[w])
    <2>1. workload'[w].enable = obj.enable
      BY <1>1, <1>4
    <2>2. MustBeRight(workload[w])' => MustBeRight(obj)
      BY <1>2, <2>1 DEF MustBeRight, AllInForce, Removing, ShouldBeInstrumented
    <2>3. IsRight(workload'[w]) => IsRight(workload[w])'
      BY <1>2 DEF IsRight, PropagatorsAreRecognised, SpecsInUse
    <2> QED
      BY <1>6, <2>2, <2>3 DEF RightV
  <1>7. /\ r.op = "instrument" /\ SameSpec(r.m, monitoring) /\ ShouldBeInstrumented(obj, r.m.selector)
        /\ r.m \in MonitoringResources /\ HookFits
    BY <1>3, <1>6 DEF Agreement, MustBeRight, AllInForce, SameSpec
  <1>8. new = InstrumentWorkload(seen, obj, r.m)
    BY <1>4, <1>7 DEF Desired
  <1>9. /\ Modify(obj, r.m).version = version /\ Modify(obj, r.m) \in WorkloadObjects
        /\ PropagatorsAreRecognised => Modify(obj, r.m).propagators = r.m.propagators
    <2>1. Valid(Modify(obj, r.m))
      BY <1>1, <1>7, ModifyIsValid DEF LabelInv
    <2> QED
      BY <1>5, <2>1, ModifyIsRight DEF KnowsPropagators, Valid
  <1>10. IsRight(Modify(obj, r.m))
    BY <1>7, <1>9 DEF IsRight, SameSpec
  <1> HIDE DEF unmarked
  <1>11. CASE ShouldBeInstrumented(seen, r.m.selector)
    <2>1. CASE InstrumentationIsUpToDate(seen, r.m)
      <3>1. new = obj /\ ~IsOutdated(seen, r.m)
        BY <1>1, <1>5, <1>8, <1>11, <2>1, InstrumentCases, OutdatedIsNoticed DEF KnowsPropagators, unmarked
      <3>2. IsRight(obj)
        BY <1>6, <3>1 DEF RightV
      <3>3. CASE workload'[w] = Handle(w, new)
        <4>1. \/ Handle(w, obj) = obj
              \/ Handle(w, obj) = Modify(obj, cache) /\ WebhookIsActive(cache)
          <5>1. WebhookIsActive(cache) => ShouldBeInstrumented(obj, cache.selector)
            BY <1>6, <1>7 DEF HookFits, MustBeRight, AllInForce, WebhookIsActive, SameSpec
          <5> QED
            BY <1>1, <1>5, <5>1, HandleCases
        <4>2. CASE Handle(w, obj) = Modify(obj, cache) /\ WebhookIsActive(cache)
          <5>1. cache # Absent /\ cache.cond = "available"
            BY <4>2 DEF WebhookIsActive
          <5>2. IsRight(Handle(w, obj))
            BY <1>1, <1>5, <1>6, <1>7, <5>1, HandleMakesRight DEF KnowsPropagators
          <5> QED
            BY <3>1, <3>3, <5>2
        <4> QED
          BY <3>1, <3>2, <3>3, <4>1, <4>2
      <3> QED
        BY <1>1, <3>1, <3>2, <3>3
    <2>2. CASE ~InstrumentationIsUpToDate(seen, r.m)
      <3>1. (new = obj /\ Modify(obj, r.m) = obj) \/ new = marked
        BY <1>1, <1>5, <1>8, <1>11, <2>2, InstrumentCases DEF unmarked
      <3>2. CASE new = marked
        <4>1. marked.ignoreOnce /\ marked \in WorkloadObjects
          BY <1>9, ConsumedFields
        <4>2. Handle(w, new) = ConsumeIgnoreOnceLabel(marked)
          BY <1>1, <3>2, <4>1, HandleCases
        <4>3. marked.version = Modify(obj, r.m).version /\ marked.propagators = Modify(obj, r.m).propagators
          BY <1>9, ConsumedFields
        <4>4. /\ ConsumeIgnoreOnceLabel(marked).version = marked.version
              /\ ConsumeIgnoreOnceLabel(marked).propagators = marked.propagators
          BY <4>1, ConsumedFields DEF ConsumeIgnoreOnceLabel
        <4>5. IsRight(Handle(w, new)) /\ IsRight(new)
          BY <1>10, <3>2, <4>2, <4>3, <4>4 DEF IsRight
        <4> QED
          BY <1>1, <4>5
      <3>3. CASE new = obj /\ Modify(obj, r.m) = obj
        <4>1. CASE workload'[w] = Handle(w, new)
          <5>1. CASE WebhookIsActive(cache)
            <6>1. cache # Absent /\ cache.cond = "available"
              BY <5>1 DEF WebhookIsActive
            <6> QED
              BY <1>1, <1>5, <1>6, <1>7, <3>3, <4>1, <6>1, HandleMakesRight DEF KnowsPropagators
          <5>2. CASE ~WebhookIsActive(cache)
            BY <1>1, <1>5, <1>10, <3>3, <4>1, <5>2, HandleCases
          <5> QED
            BY <5>1, <5>2
        <4> QED
          BY <1>1, <1>10, <3>3, <4>1
      <3> QED
        BY <3>1, <3>2, <3>3
    <2> QED
      BY <2>1, <2>2
  <1>12. CASE ~ShouldBeInstrumented(seen, r.m.selector)
    <2>1. seen.enable # obj.enable
      BY <1>7, <1>12 DEF ShouldBeInstrumented
    <2>2. WebhookIsActive(cache)
      BY <1>2, <1>7, <2>1 DEF SeenInv, Undisturbed
    <2>3. new \in {obj, Revert(obj, r.m)}
      BY <1>1, <1>5, <1>8, <1>12, InstrumentCases DEF unmarked
    <2>4. new \in WorkloadObjects /\ ~new.ignoreOnce /\ new.propagators \in {obj.propagators, NoPropagators}
      <3>1. Revert(obj, r.m).ignoreOnce = obj.ignoreOnce
        BY <1>5, ChangesKeepTheRest
      <3> QED
        BY <1>1, <1>5, <2>3, <3>1, RevertClears DEF Valid
    <2>5. MustBeRight(new) /\ cache # Absent /\ cache.cond = "available"
      BY <1>1, <1>6, <2>2 DEF MustBeRight, ShouldBeInstrumented, WebhookIsActive
    <2>6. PropagatorsAreRecognised => Recognised(new, cache)
      BY <2>4, <2>5 DEF KnowsPropagators, Recognised
    <2>7. IsRight(Handle(w, new))
      BY <1>1, <1>7, <2>4, <2>5, <2>6, HandleMakesRight
    <2>8. CASE new = obj
      \* nothing to remove, and nothing was outdated
      <3>1. ~IsOutdated(seen, r.m)
        BY <1>12 DEF IsOutdated
      <3> QED
        BY <1>1, <1>6, <2>7, <2>8, <3>1 DEF RightV
    <2> QED
      BY <1>1, <2>3, <2>7, <2>8
  <1> QED
    BY <1>11, <1>12

-----------------------------------------------------------------------------
(* What has been done, and what the runs are still going to do *)

\* The reconciler, or one before it, has done all that the resource asks for.
Over ==
  \/ monitoring = Absent \/ Through(monitoring)
  \/ cache # Absent /\ AgreesWith(cache, monitoring) /\ Through(cache)
  \/ run["reconcile"].pc # "idle" /\ Through(run["reconcile"].m)
Complete ==
  \/ run["reconcile"].pc \in {"cleanup", "removeFinalizer"}
  \/ run["reconcile"].pc = "status" /\ ~Through(run["reconcile"].m)

\* What a run is still going to put right.
Pending(w, kinds) == kinds = KindOrder \/ (kinds # <<>> /\ Kind[w] = "replicaset")
TakesO(r, w) ==
  Pending(w, r.kinds) \/ (w \in DOMAIN r.todo /\ (r.op = "instrument" => r.todo[w].label = "true"))
TakesV(r, w) ==
  Pending(w, r.kinds) \/ (w \in DOMAIN r.todo /\ IsOutdated(r.todo[w], r.m))
StartupIsDue ==
  /\ run["startup"].pc = "pending" /\ cache # Absent /\ ~cache.marked
  /\ cache.cond \notin {"unknown", "degraded"} /\ cache.mode = "all"
StartupWill(w) == StartupIsDue \/ (IsAtWork(run["startup"]) /\ TakesV(run["startup"], w))

ReconcilerWill(w) ==
  (IsAtWork(run["reconcile"]) /\ ~run["reconcile"].failed) =>
    /\ RightO(w) \/ TakesO(run["reconcile"], w)
    /\ Undisturbed => RightV(w) \/ TakesV(run["reconcile"], w)

Result(w) ==
  /\ Over \/ Complete => RightO(w)
  /\ Undisturbed /\ Complete => RightV(w)
  /\ Undisturbed /\ Over => RightV(w) \/ StartupWill(w)
  /\ ReconcilerWill(w)
ResultInv == used.failures = 0 => \A w \in Mutable : Result(w)

LEMMA StaysUndisturbed ==
  ASSUME LabelInv, PodsInv, UNCHANGED scenario, missed' = missed \/ missed' = missed + 1 \/ missed' # 0,
         UNCHANGED used \/ \E b \in Bounds : Spend(b)
  PROVE  /\ used'.failures = 0 => used.failures = 0
         /\ NothingIsSkipped' => NothingIsSkipped
         /\ Undisturbed' => Undisturbed
  <1>1. \A c \in Bounds : used'[c] = 0 => used[c] = 0
    BY SpentIsNotZero
  <1>2. missed' = 0 => missed = 0
    BY DEF PodsInv, Counters
  <1>3. /\ used'.failures = 0 => used.failures = 0
        /\ used'.restarts = 0 => used.restarts = 0
        /\ used'.listFailures = 0 => used.listFailures = 0
    BY <1>1 DEF Bounds
  <1>4. NothingIsSkipped' => NothingIsSkipped
    BY <1>3 DEF NothingIsSkipped
  <1> QED
    BY <1>2, <1>3, <1>4 DEF Undisturbed

\* The resource asks for the same as before.
TargetIsKept ==
  /\ UNCHANGED scenario
  /\ Removing' <=> Removing
  /\ AllInForce' <=> AllInForce
  /\ AllInForce => monitoring'.selector = monitoring.selector /\ monitoring'.propagators = monitoring.propagators

LEMMA SameTarget ==
  ASSUME TargetIsKept, UNCHANGED <<workload, version>>
  PROVE  \A w : (RightO(w)' <=> RightO(w)) /\ (RightV(w)' <=> RightV(w))
  <1>1. \A w : (MustBeClean(w, workload[w])' <=> MustBeClean(w, workload[w])) /\ (MustBeRight(workload[w])' <=> MustBeRight(workload[w]))
    BY DEF TargetIsKept, MustBeClean, MustBeRight
  <1>2. AllInForce => \A w : IsRight(workload[w])' <=> IsRight(workload[w])
    <2>1. PropagatorsAreRecognised' <=> PropagatorsAreRecognised
      BY DEF PropagatorsAreRecognised, SpecsInUse, TargetIsKept
    <2> QED
      BY <2>1 DEF IsRight, TargetIsKept
  <1> QED
    BY <1>1, <1>2 DEF RightO, RightV, MustBeRight

SameBut(new, m) == SameSpec(new, m) /\ new.marked = m.marked

LEMMA SameButTarget ==
  ASSUME UNCHANGED scenario, monitoring \in MonitoringResources, monitoring' \in MonitoringResources, SameBut(monitoring', monitoring)
  PROVE  TargetIsKept /\ \A c : AgreesWith(c, monitoring') <=> AgreesWith(c, monitoring)
  <1>1. monitoring # Absent /\ monitoring' # Absent
    BY ConstantsAssumption
  <1>2. TargetIsKept
    BY <1>1 DEF TargetIsKept, Removing, AllInForce, SameBut, SameSpec
  <1>3. \A c : AgreesWith(c, monitoring') <=> AgreesWith(c, monitoring)
    BY <1>1 DEF AgreesWith, SameBut, SameSpec
  <1> QED
    BY <1>2, <1>3

\* How far a step of the reconciler gets.
Progress ==
  /\ TargetIsKept
  /\ Over' => Over \/ Complete
  /\ Complete' =>
       \/ Complete \/ (Over /\ ~AllInForce) \/ (~Removing /\ ~AllInForce)
       \/ /\ IsAtWork(run["reconcile"]) /\ ~run["reconcile"].failed
          /\ run["reconcile"].todo = <<>> /\ run["reconcile"].kinds = <<>>
  /\ IsAtWork(run'["reconcile"]) => run'["reconcile"].kinds = KindOrder

LEMMA SameProgress ==
  ASSUME UNCHANGED <<scenario, monitoring, cache>>
  PROVE  /\ TargetIsKept
         /\ run'["reconcile"].pc = "idle" => (Over' => Over)
         /\ (run'["reconcile"].m = run["reconcile"].m /\ run["reconcile"].pc # "idle") => (Over' => Over)
         /\ (Over' /\ ~Over) => run'["reconcile"].pc # "idle" /\ Through(run'["reconcile"].m)
  BY DEF TargetIsKept, Removing, AllInForce, Over

LEMMA RequeueProgress ==
  ASSUME UNCHANGED <<scenario, cache>>, IsRequeued
  PROVE  Progress
  <1>1. run'["reconcile"].pc = "idle"
    BY DEF IsRequeued, Idle
  <1>2. ~Complete' /\ ~IsAtWork(run'["reconcile"])
    BY <1>1 DEF Complete, IsAtWork
  <1> QED
    BY <1>1, <1>2, SameProgress DEF Progress, IsRequeued

LEMMA BeginProgress ==
  ASSUME LabelInv, ControlInv, BeginReconcile
  PROVE  Progress
  <1> DEFINE r == run'["reconcile"]
             unknown == [cache EXCEPT !.cond = "unknown"]
  <1>0. Reconcile
    BY DEF Reconcile
  <1>1. UNCHANGED <<scenario, cache>> /\ queued /\ run["reconcile"].pc = "idle"
    BY <1>0, ReconcileFrame, BeginOutcome
  <1>2. CASE IsRequeued
    BY <1>1, <1>2, RequeueProgress
  <1>3. CASE cache = Absent /\ UNCHANGED <<monitoring, run>>
    BY <1>1, <1>3, SameProgress DEF Progress, Complete, IsAtWork
  <1>4. CASE /\ cache \in MonitoringResources /\ r.pc = "finalizers"
             /\ \/ r.m = cache /\ cache.cond # "none" /\ r.first = FALSE /\ UNCHANGED monitoring
                \/ /\ r.m = unknown /\ cache.cond = "none" /\ r.first = TRUE
                   /\ monitoring = cache /\ monitoring' = unknown
    <2>1. cache # Absent /\ AgreesWith(cache, monitoring) /\ ~Complete' /\ ~IsAtWork(r)
      BY <1>1, <1>4, ConstantsAssumption DEF ControlInv, CacheFollows, Quiescent, Follows, Complete, IsAtWork
    <2>2. CASE r.m = cache /\ UNCHANGED monitoring
      BY <1>1, <2>1, <2>2, SameProgress DEF Progress, Over
    <2>3. CASE r.m = unknown /\ cache.cond = "none" /\ monitoring = cache /\ monitoring' = unknown
      <3>1. unknown \in MonitoringResources /\ SameBut(unknown, cache) /\ unknown # Absent
        BY <1>4, ConstantsAssumption DEF MonitoringResources, SameBut, SameSpec
      <3>2. Through(unknown) => Through(cache)
        BY <1>4 DEF MonitoringResources, Through, PrevIsSpec
      <3> HIDE DEF unknown
      <3>3. TargetIsKept
        BY <1>1, <1>4, <2>3, <3>1, SameButTarget
      <3>4. Over' => Over
        BY <1>1, <2>1, <2>3, <3>1, <3>2 DEF Over
      <3> QED
        BY <2>1, <3>3, <3>4 DEF Progress
    <2> QED
      BY <1>4, <2>2, <2>3
  <1> QED
    BY <1>2, <1>3, <1>4, BeginOutcome

LEMMA FinalizersProgress ==
  ASSUME LabelInv, ControlInv, HandleFinalizers
  PROVE  Progress
  <1> DEFINE m == run["reconcile"].m
             first == run["reconcile"].first
             r == run'["reconcile"]
             withFinalizer == [m EXCEPT !.finalizer = TRUE]
  <1>0. Reconcile
    BY DEF Reconcile
  <1>1. UNCHANGED <<scenario, cache>>
    BY <1>0, ReconcileFrame
  <1>2. m \in MonitoringResources /\ run["reconcile"].pc = "finalizers"
    BY FinalizersOutcome
  <1>3. Follows(m, monitoring) /\ m.cond # "none" /\ first \in BOOLEAN /\ (first => m.cond = "unknown")
    BY <1>2 DEF ControlInv, ReconcilerFollows
  <1>4. CASE IsRequeued
    BY <1>1, <1>4, RequeueProgress
  <1>5. CASE ~m.marked /\ m.finalizer /\ r = Proceed(m, first) /\ UNCHANGED monitoring
    <2>1. r.m = m /\ (r.pc = "work" => r.kinds = KindOrder) /\ r.pc \in {"work", "status"}
          /\ (r.pc = "status" => Through(m) \/ m.mode = "created-and-updated")
      BY <1>2, <1>3, <1>5, ProceedFollows
    <2>2. Complete' => ~Removing /\ ~AllInForce
      BY <1>3, <1>5, <2>1 DEF Complete, Removing, AllInForce, Follows, AgreesWith, SameSpec
    <2> QED
      BY <1>1, <1>2, <1>5, <2>1, <2>2, SameProgress DEF Progress, IsAtWork
  <1>6. CASE ~m.marked /\ r = Proceed(withFinalizer, first) /\ monitoring = m /\ monitoring' = withFinalizer
    <2>1. /\ withFinalizer \in MonitoringResources /\ withFinalizer # Absent /\ withFinalizer.finalizer
          /\ ~withFinalizer.marked /\ withFinalizer.cond = m.cond
          /\ SameBut(withFinalizer, m) /\ withFinalizer.mode = m.mode
      BY <1>2, <1>6, ConstantsAssumption DEF MonitoringResources, SameBut, SameSpec
    <2>2. Sound(withFinalizer)
      BY <1>2, <1>3, <1>6 DEF MonitoringResources, Sound, Follows
    <2>3. Through(withFinalizer) => Through(m)
      BY <1>2 DEF MonitoringResources, Through, PrevIsSpec
    <2> HIDE DEF m, first, r, withFinalizer
    <2>4. Follows(withFinalizer, withFinalizer)
      BY <2>1, <2>2, SelfFollows
    <2>5. r.m = withFinalizer /\ (r.pc = "work" => r.kinds = KindOrder) /\ r.pc \in {"work", "status"}
          /\ (r.pc = "status" => Through(withFinalizer) \/ withFinalizer.mode = "created-and-updated")
      BY <1>3, <1>6, <2>1, <2>4, ProceedFollows
    <2>6. TargetIsKept /\ \A c : AgreesWith(c, monitoring') <=> AgreesWith(c, monitoring)
      BY <1>1, <1>2, <1>6, <2>1, SameButTarget
    <2>7. Over' => Over
      BY <1>1, <1>2, <1>6, <2>1, <2>3, <2>5, <2>6 DEF Over, m, r
    <2>8. Complete' => ~Removing /\ ~AllInForce
      BY <1>2, <1>6, <2>1, <2>5, ConstantsAssumption DEF Complete, Removing, AllInForce, r, m
    <2> QED
      BY <2>5, <2>6, <2>7, <2>8 DEF Progress, IsAtWork, r
  <1>7. m.marked => m.finalizer
    BY <1>3 DEF Follows, Sound
  <1>8. CASE m.marked /\ m.cond = "available" /\ UNCHANGED monitoring /\ r.pc = "work" /\ r.m = m /\ r.kinds = KindOrder
    BY <1>1, <1>2, <1>8, SameProgress DEF Progress, Complete
  <1>9. CASE m.marked /\ m.cond # "available" /\ r.pc = "cleanup" /\ r.m = m /\ UNCHANGED monitoring
    <2>1. m.cond = "degraded"
      BY <1>2, <1>3, <1>9 DEF Follows, Sound, MonitoringResources
    <2>2. Over /\ ~AllInForce
      BY <1>2, <1>3, <1>9, <2>1 DEF Over, Through, AllInForce, Removing, Follows, AgreesWith
    <2> QED
      BY <1>1, <1>2, <1>9, <2>2, SameProgress DEF Progress, IsAtWork
  <1> QED
    BY <1>4, <1>5, <1>6, <1>7, <1>8, <1>9, FinalizersOutcome

LEMMA FinishWorkProgress ==
  ASSUME LabelInv, ControlInv, FinishWork
  PROVE  Progress
  <1> DEFINE old == run["reconcile"]
             r == run'["reconcile"]
  <1>0. Reconcile
    BY DEF Reconcile
  <1>1. UNCHANGED <<scenario, cache>>
    BY <1>0, ReconcileFrame
  <1>2. old.pc = "work" /\ old.todo = <<>> /\ old.kinds = <<>> /\ UNCHANGED monitoring
    BY FinishWorkOutcome
  <1>3. CASE IsRequeued
    BY <1>1, <1>3, RequeueProgress
  <1>4. CASE ~old.failed /\ r.m = old.m /\ r.pc = IF old.m.marked THEN "cleanup" ELSE "status"
    <2>1. ~IsAtWork(r) /\ IsAtWork(old)
      BY <1>2, <1>4 DEF IsAtWork
    <2> QED
      BY <1>1, <1>2, <1>4, <2>1, SameProgress DEF Progress
  <1> QED
    BY <1>3, <1>4, FinishWorkOutcome

LEMMA StatusProgress ==
  ASSUME LabelInv, ControlInv, UpdateStatusAfterReconcile
  PROVE  Progress
  <1> DEFINE m == run["reconcile"].m
             new == [m EXCEPT !.cond = "available", !.prevMode = m.mode,
                              !.prevSelector = m.selector, !.prevPropagators = m.propagators]
  <1>0. Reconcile
    BY DEF Reconcile
  <1>1. UNCHANGED <<scenario, cache>>
    BY <1>0, ReconcileFrame
  <1>2. m \in MonitoringResources /\ run["reconcile"].pc = "status"
    BY StatusOutcome
  <1>3. CASE IsRequeued
    BY <1>1, <1>3, RequeueProgress
  <1>4. CASE monitoring = m /\ monitoring' = new /\ run'["reconcile"] = Idle
    <2>1. new \in MonitoringResources /\ SameBut(new, m)
      BY <1>2 DEF MonitoringResources, SameBut, SameSpec
    <2> HIDE DEF new
    <2>2. TargetIsKept
      BY <1>1, <1>2, <1>4, <2>1, SameButTarget
    <2>3. Over \/ Complete
      BY <1>2 DEF Over, Complete
    <2>4. ~Complete' /\ ~IsAtWork(run'["reconcile"])
      BY <1>4 DEF Complete, IsAtWork, Idle
    <2> QED
      BY <2>2, <2>3, <2>4 DEF Progress
  <1> QED
    BY <1>3, <1>4, StatusOutcome

LEMMA DeletionProgress ==
  ASSUME LabelInv, ControlInv, MarkAboutToBeDeleted \/ RemoveFinalizer
  PROVE  Progress
  <1> DEFINE m == run["reconcile"].m
             r == run'["reconcile"]
  <1>0. Reconcile
    BY DEF Reconcile
  <1>1. UNCHANGED <<scenario, cache>>
    BY <1>0, ReconcileFrame
  <1>2. CASE IsRequeued
    BY <1>1, <1>2, RequeueProgress
  <1>3. ASSUME Complete, TargetIsKept, ~IsAtWork(r) PROVE Progress
    BY <1>3 DEF Progress
  <1>4. CASE MarkAboutToBeDeleted
    <2> DEFINE new == [m EXCEPT !.cond = "degraded"]
    <2>1. run["reconcile"].pc = "cleanup" /\ m \in MonitoringResources
      BY <1>4, CleanupOutcome
    <2>2. CASE monitoring = m /\ monitoring' = new /\ r.pc = "removeFinalizer"
      <3>1. new \in MonitoringResources /\ SameBut(new, m)
        BY <2>1 DEF MonitoringResources, SameBut, SameSpec
      <3> HIDE DEF new
      <3>2. TargetIsKept
        BY <1>1, <2>1, <2>2, <3>1, SameButTarget
      <3> QED
        BY <1>3, <2>1, <2>2, <3>2 DEF Complete, IsAtWork
    <2> QED
      BY <1>2, <1>4, <2>2, CleanupOutcome
  <1>5. CASE RemoveFinalizer
    <2>1. run["reconcile"].pc = "removeFinalizer" /\ m.marked
      BY <1>5, RemoveFinalizerControl
    <2>2. CASE monitoring = m /\ monitoring' = Absent /\ r = Idle
      <3>1. TargetIsKept
        BY <1>1, <2>1, <2>2 DEF TargetIsKept, Removing, AllInForce
      <3>2. r.pc = "idle"
        BY <2>2 DEF Idle
      <3> QED
        BY <1>3, <2>1, <3>1, <3>2 DEF Complete, IsAtWork
    <2> QED
      BY <1>2, <1>5, <2>2, RemoveFinalizerControl
  <1> QED
    BY <1>4, <1>5

\* The reconciler is only through when its run over the workloads has been.
LEMMA ReconcileProgress ==
  ASSUME LabelInv, ControlInv, Reconcile
  PROVE  Progress
  BY BeginProgress, FinalizersProgress, FinishWorkProgress, StatusProgress, DeletionProgress DEF Reconcile

LEMMA NothingIsTaken ==
  ASSUME NEW r, r.todo = <<>>, r.kinds = <<>>, NEW w
  PROVE  ~TakesO(r, w) /\ ~TakesV(r, w)
  BY DEF TakesO, TakesV, Pending, KindOrder

LEMMA SameStartup ==
  ASSUME UNCHANGED <<scenario, version, cache>>, run'["startup"] = run["startup"], NEW w
  PROVE  StartupWill(w)' <=> StartupWill(w)
  BY DEF StartupWill, StartupIsDue, TakesV, IsOutdated, PropagatorsAreRecognised, SpecsInUse

\* What each step does to the result.
LEMMA ReconcileResult ==
  ASSUME LabelInv, PodsInv, ControlInv, ResultInv, Reconcile
  PROVE  ResultInv'
  <1>1. UNCHANGED <<scenario, workload, cache, version, missed, used>> /\ run'["startup"] = run["startup"]
    BY ReconcileFrame
  <1>2. Progress
    BY ReconcileProgress
  <1>3. SUFFICES ASSUME used.failures = 0, NEW w \in Mutable PROVE Result(w)'
    BY <1>1 DEF ResultInv, Mutable, Live
  <1>4. Result(w)
    BY <1>3 DEF ResultInv
  <1>5. (RightO(w)' <=> RightO(w)) /\ (RightV(w)' <=> RightV(w))
    BY <1>1, <1>2, SameTarget DEF Progress
  <1>6. (Undisturbed' <=> Undisturbed) /\ (StartupWill(w)' <=> StartupWill(w))
    BY <1>1, SameStartup DEF Undisturbed, NothingIsSkipped
  <1>7. ~AllInForce => RightV(w)
    BY DEF RightV, MustBeRight
  <1>8. (~Removing /\ ~AllInForce) => RightO(w)
    BY DEF RightO, MustBeClean
  <1>9. (IsAtWork(run["reconcile"]) /\ ~run["reconcile"].failed /\ run["reconcile"].todo = <<>> /\ run["reconcile"].kinds = <<>>)
           => RightO(w) /\ (Undisturbed => RightV(w))
    BY <1>4, NothingIsTaken DEF Result, ReconcilerWill
  <1>10. ReconcilerWill(w)'
    BY <1>2 DEF ReconcilerWill, Progress, TakesO, TakesV, Pending
  <1>11. Over' \/ Complete' => RightO(w)
    BY <1>2, <1>4, <1>8, <1>9 DEF Progress, Result
  <1>12. Undisturbed /\ Complete' => RightV(w)
    BY <1>2, <1>4, <1>7, <1>9 DEF Progress, Result
  <1>13. Undisturbed /\ Over' => RightV(w) \/ StartupWill(w)
    BY <1>2, <1>4 DEF Progress, Result
  <1> QED
    BY <1>5, <1>6, <1>10, <1>11, <1>12, <1>13 DEF Result

\* A step that leaves reconciler and resource alone.
LEMMA StartupResult ==
  ASSUME LabelInv, PodsInv, ControlInv, ResultInv, InstrumentAtStartup \/ FinishStartup
  PROVE  ResultInv'
  <1> DEFINE old == run["startup"]
             r == run'["startup"]
  <1>1. UNCHANGED <<scenario, workload, monitoring, cache, queued, version, missed, used>> /\ run'["reconcile"] = run["reconcile"]
    BY StartupOutcome
  <1>2. SUFFICES ASSUME used.failures = 0, NEW w \in Mutable PROVE Result(w)'
    BY <1>1 DEF ResultInv, Mutable, Live
  <1>3. Result(w)
    BY <1>2 DEF ResultInv
  <1>4. TargetIsKept
    BY <1>1 DEF TargetIsKept, Removing, AllInForce
  <1>5. (RightO(w)' <=> RightO(w)) /\ (RightV(w)' <=> RightV(w))
    BY <1>1, <1>4, SameTarget
  <1>6. (Undisturbed' <=> Undisturbed) /\ (Over' <=> Over) /\ (Complete' <=> Complete)
    BY <1>1 DEF Undisturbed, NothingIsSkipped, Over, Complete
  <1>7. ReconcilerWill(w)' <=> ReconcilerWill(w)
    BY <1>1, <1>5, <1>6 DEF ReconcilerWill, TakesO, TakesV, IsOutdated, PropagatorsAreRecognised, SpecsInUse
  <1>8. StartupWill(w) => StartupWill(w)'
    <2>1. CASE old.pc = "work" /\ old.todo = <<>> /\ old.kinds = <<>>
      BY <2>1, NothingIsTaken DEF StartupWill, StartupIsDue
    <2>2. CASE old.pc = "pending" /\ ~(cache # Absent /\ ~cache.marked /\ cache.cond \notin {"unknown", "degraded"} /\ cache.mode = "all")
      BY <2>2 DEF StartupWill, StartupIsDue, IsAtWork
    <2>3. CASE r = Work(cache, "instrument")
      <3>1. r.pc = "work" /\ r.kinds = KindOrder
        <4> HIDE DEF r
        <4> QED
          BY <2>3 DEF Work, Idle
      <3> QED
        BY <3>1 DEF StartupWill, IsAtWork, TakesV, Pending
    <2> QED
      BY <2>1, <2>2, <2>3, StartupOutcome
  <1> QED
    BY <1>3, <1>5, <1>6, <1>7, <1>8 DEF Result

\* Mode all is only over with when the webhook is at work.
LEMMA OverIsAvailable ==
  ASSUME LabelInv, ControlInv, Over, AllInForce
  PROVE  monitoring \in MonitoringResources /\ monitoring.cond = "available" /\ ~monitoring.marked /\ monitoring.mode = "all"
  <1>1. monitoring \in MonitoringResources /\ monitoring # Absent /\ ~monitoring.marked /\ monitoring.mode = "all" /\ Sound(monitoring)
    BY DEF AllInForce, Removing, LabelInv, ControlInv
  <1>2. ASSUME NEW m \in MonitoringResources, Sound(m), Through(m), ~m.marked, m.mode = "all" PROVE m.cond = "available"
    <2>1. m.prevMode = "all" /\ m.cond # "degraded"
      BY <1>2 DEF Through, PrevIsSpec, Sound
    <2> QED
      BY <1>2, <2>1 DEF Sound, MonitoringResources
  <1>3. CASE Through(monitoring)
    BY <1>1, <1>2, <1>3
  <1>4. CASE cache # Absent /\ AgreesWith(cache, monitoring) /\ Through(cache)
    <2>1. cache \in MonitoringResources /\ ~cache.marked /\ cache.mode = "all"
      BY <1>1, <1>4 DEF LabelInv, AgreesWith, SameSpec
    <2>2. Follows(cache, monitoring)
      BY <1>1, <1>4, <2>1 DEF ControlInv, CacheFollows, JustChanged, AgreesWith
    <2> QED
      BY <1>1, <1>2, <1>4, <2>1, <2>2 DEF Follows
  <1>5. CASE run["reconcile"].pc # "idle" /\ Through(run["reconcile"].m)
    <2> DEFINE m == run["reconcile"].m
    <2>1. m \in MonitoringResources /\ Follows(m, monitoring)
      BY <1>5, ActorsAre DEF LabelInv, RunIsTyped, ControlInv, ReconcilerFollows
    <2>2. ~m.marked /\ m.mode = "all"
      BY <1>1, <2>1 DEF Follows, AgreesWith, SameSpec
    <2> QED
      BY <1>1, <1>2, <1>5, <2>1, <2>2 DEF Follows
  <1> QED
    BY <1>1, <1>3, <1>4, <1>5 DEF Over

LEMMA InformerResult ==
  ASSUME LabelInv, PodsInv, ControlInv, ResultInv, InformerEvent
  PROVE  ResultInv'
  <1>1. UNCHANGED <<scenario, workload, monitoring, version, run, missed, used>> /\ cache' = monitoring
    BY DEF InformerEvent
  <1>2. SUFFICES ASSUME used.failures = 0, NEW w \in Mutable PROVE Result(w)'
    BY <1>1 DEF ResultInv, Mutable, Live
  <1>3. Result(w)
    BY <1>2 DEF ResultInv
  <1>4. TargetIsKept
    BY <1>1 DEF TargetIsKept, Removing, AllInForce
  <1>5. (RightO(w)' <=> RightO(w)) /\ (RightV(w)' <=> RightV(w))
    BY <1>1, <1>4, SameTarget
  <1>6. (Undisturbed' <=> Undisturbed) /\ (Over' => Over) /\ (Complete' <=> Complete)
    BY <1>1 DEF Undisturbed, NothingIsSkipped, Over, Complete
  <1>7. ReconcilerWill(w)' <=> ReconcilerWill(w)
    BY <1>1, <1>5, <1>6 DEF ReconcilerWill, TakesO, TakesV, IsOutdated, PropagatorsAreRecognised, SpecsInUse
  <1>8. (Over /\ StartupWill(w)) => RightV(w) \/ StartupWill(w)'
    <2>1. SUFFICES ASSUME Over, StartupWill(w), ~RightV(w) PROVE StartupWill(w)'
      OBVIOUS
    <2>2. monitoring # Absent /\ monitoring.cond = "available" /\ ~monitoring.marked /\ monitoring.mode = "all"
      BY <2>1, OverIsAvailable, ConstantsAssumption DEF RightV, MustBeRight
    <2>3. CASE StartupIsDue
      BY <1>1, <2>2, <2>3 DEF StartupWill, StartupIsDue
    <2>4. CASE IsAtWork(run["startup"]) /\ TakesV(run["startup"], w)
      BY <1>1, <2>4 DEF StartupWill, TakesV, IsOutdated, PropagatorsAreRecognised, SpecsInUse
    <2> QED
      BY <2>1, <2>3, <2>4 DEF StartupWill
  <1> QED
    BY <1>3, <1>5, <1>6, <1>7, <1>8 DEF Result

LEMMA RestartResult ==
  ASSUME LabelInv, PodsInv, ControlInv, ResultInv, Restart
  PROVE  ResultInv'
  <1>1. /\ UNCHANGED <<scenario, workload, monitoring, missed>> /\ cache' = monitoring /\ Spend("restarts")
        /\ run'["reconcile"] = Idle /\ run'["startup"] = InitialRun
    BY ActorsAre DEF Restart
  <1>2. (used'.failures = 0 => used.failures = 0) /\ (Undisturbed' => Undisturbed)
    BY <1>1, StaysUndisturbed DEF Bounds
  <1>3. SUFFICES ASSUME used.failures = 0, NEW w \in Mutable PROVE Result(w)'
    BY <1>1, <1>2 DEF ResultInv, Mutable, Live
  <1>4. Result(w)
    BY <1>3 DEF ResultInv
  <1>5. RightO(w)' <=> RightO(w)
    BY <1>1 DEF RightO, MustBeClean, Removing, AllInForce
  <1>6. run'["reconcile"].pc = "idle" /\ run'["startup"].pc = "pending"
    BY <1>1, WorkFields
  <1>7. (Over' => Over) /\ ~Complete' /\ ReconcilerWill(w)'
    BY <1>1, <1>6 DEF Over, Complete, ReconcilerWill, IsAtWork
  <1>8. Over => RightV(w)' \/ StartupWill(w)'
    <2>1. CASE ~AllInForce
      BY <1>1, <2>1 DEF RightV, MustBeRight, AllInForce, Removing
    <2>2. ASSUME AllInForce, Over PROVE StartupWill(w)'
      <3>1. monitoring # Absent /\ monitoring.cond = "available" /\ ~monitoring.marked /\ monitoring.mode = "all"
        BY <2>2, OverIsAvailable, ConstantsAssumption
      <3> QED
        BY <1>1, <1>6, <3>1 DEF StartupWill, StartupIsDue
    <2> QED
      BY <2>1, <2>2
  <1> QED
    BY <1>4, <1>5, <1>7, <1>8 DEF Result

LEMMA ChangeResult ==
  ASSUME LabelInv, PodsInv, ControlInv, ResultInv, scenario.promptReconcile, ChangeMonitoring
  PROVE  ResultInv'
  <1>1. /\ UNCHANGED <<scenario, workload, cache, version, run, missed>> /\ Spend("monitoringChanges")
        /\ cache = monitoring /\ \A a \in Actors : run[a].pc = "idle"
    BY ChangeOutcome DEF Settled
  <1>2. used'.failures = 0 => used.failures = 0
    BY <1>1, StaysUndisturbed DEF Bounds
  <1>3. SUFFICES ASSUME used.failures = 0, NEW w \in Mutable PROVE Result(w)'
    BY <1>1, <1>2 DEF ResultInv, Mutable, Live
  <1>4. Result(w)
    BY <1>3 DEF ResultInv
  <1>5. ~Complete' /\ ReconcilerWill(w)'
    BY <1>1, ActorsAre DEF Complete, ReconcilerWill, IsAtWork
  <1>6. SUFFICES ASSUME Over' PROVE workload[w].version = 0 /\ Removing'
    BY <1>1, <1>5 DEF Result, RightO, RightV, MustBeRight, AllInForce
  <1>7. Over /\ Removing => workload[w].version = 0
    BY <1>4 DEF Result, RightO, MustBeClean
  <1>8. JustChanged(monitoring', cache)
    BY ChangeIsSeen
  <1>9. monitoring' # Absent /\ Through(monitoring')
    BY <1>1, <1>6, <1>8, ActorsAre DEF Over, JustChanged, AgreesWith, SameSpec, IsReconciled
  <1>10. CASE cache = Absent
    <2>1. Removing /\ Over
      BY <1>1, <1>10 DEF Removing, Over
    <2>2. Sound(monitoring') /\ monitoring'.cond = "none"
      BY <1>8, <1>10, ChangeIsSeen DEF JustChanged
    <2>3. monitoring'.prevMode = "" /\ monitoring'.cond # "degraded"
      BY <2>2 DEF Sound
    <2>4. monitoring'.mode = "none"
      BY <1>9, <2>3 DEF Through, PrevIsSpec
    <2> QED
      BY <1>7, <2>1, <2>4 DEF Removing
  <1>11. CASE cache # Absent
    <2>1. /\ IsReconciled(monitoring) /\ (monitoring'.marked \/ ~SameSpec(monitoring, monitoring')) /\ monitoring'.cond = "available"
          /\ monitoring'.prevMode = monitoring.mode /\ monitoring'.prevSelector = monitoring.selector
          /\ monitoring'.prevPropagators = monitoring.propagators
      BY <1>1, <1>8, <1>11 DEF JustChanged
    <2>2. ~(monitoring'.mode = "all" /\ ~monitoring'.marked /\ PrevIsSpec(monitoring'))
      BY <2>1 DEF PrevIsSpec, SameSpec
    <2>3. monitoring'.mode = "none" /\ monitoring.mode \in {"none", ""}
      BY <1>9, <2>1, <2>2 DEF Through
    <2>4. monitoring.mode = "none" /\ monitoring.prevMode = "none"
      BY <1>1, <1>11, <2>1, <2>3 DEF LabelInv, MonitoringResources, Modes, IsReconciled
    <2> QED
      BY <1>7, <2>3, <2>4 DEF Removing, Over, Through
  <1> QED
    BY <1>10, <1>11

\* The startup pass runs after a start of the operator.
StartupCounts == run["startup"].pc # "idle" => used.restarts # 0 \/ scenario.operatorIsStarting

\* The label tells the truth: the selective List of uninstrumentation misses nothing.
LEMMA UnlabelledIsClean ==
  ASSUME LabelInv, NEW w \in Live, workload[w].label # "true"
  PROVE  workload[w].version = 0
  <1>1. workload[w].version \in Nat /\ LabelMatches(workload[w])
    BY ConstantsAssumption DEF LabelInv, LabelTellsTheTruth, WorkloadsAreTyped, Live, WorkloadObjects
  <1>2. ~(workload[w].version > 0)
    BY <1>1 DEF LabelMatches
  <1> QED
    BY <1>1, <1>2

LEMMA ListedKinds ==
  ASSUME NEW kinds \in Suffixes, kinds # <<>>
  PROVE  /\ Tail(kinds) \in Suffixes
         /\ \A w : (RolledOut(w) /\ Pending(w, kinds)) => Pending(w, Tail(kinds)) \/ Kind[w] = Head(kinds)
  <1>1. CASE kinds = KindOrder
    <2>1. Head(kinds) = "deployment" /\ Tail(kinds) = <<"job", "replicaset">> /\ Tail(kinds) # <<>>
      BY <1>1 DEF KindOrder
    <2> QED
      BY <2>1 DEF Suffixes, RolledOut, Pending
  <1>2. CASE kinds = <<"job", "replicaset">>
    <2>1. Tail(kinds) = <<"replicaset">> /\ Tail(kinds) # <<>> /\ kinds # KindOrder
      BY <1>2 DEF KindOrder
    <2> QED
      BY <2>1 DEF Suffixes, RolledOut, Pending
  <1>3. CASE kinds = <<"replicaset">>
    <2>1. Head(kinds) = "replicaset" /\ Tail(kinds) = <<>> /\ kinds # KindOrder
      BY <1>3 DEF KindOrder
    <2> QED
      BY <2>1 DEF Suffixes, RolledOut, Pending
  <1> QED
    BY <1>1, <1>2, <1>3 DEF Suffixes

\* Listing a kind takes up what it was pending for.
LEMMA ListTakes ==
  ASSUME LabelInv, ControlInv, SeenInv, NEW a \in Actors, ListKind(a), NEW w \in Mutable
  PROVE  /\ (RightO(w) \/ TakesO(run[a], w)) => RightO(w) \/ TakesO(run'[a], w)
         /\ (RightV(w) \/ TakesV(run[a], w)) => RightV(w) \/ TakesV(run'[a], w)
  <1> DEFINE r == run[a]
             new == run'[a]
  <1>1. /\ IsAtWork(r) /\ new.m = r.m /\ new.op = r.op /\ r.todo = <<>> /\ r.kinds # <<>> /\ new.kinds = Tail(r.kinds)
        /\ new.todo = [v \in Listed(Head(r.kinds), r.op) |-> workload[v]]
    BY ListOutcome DEF WorkFrame
  <1>2. w \in Live /\ RolledOut(w) /\ Agreement(a) /\ r.kinds \in Suffixes
    BY <1>1, WorkAgrees DEF Mutable, RolledOut, SeenInv
  <1> HIDE DEF r, new
  <1>3. Pending(w, r.kinds) => Pending(w, new.kinds) \/ Kind[w] = Head(r.kinds)
    BY <1>1, <1>2, ListedKinds
  <1>4. CASE Pending(w, new.kinds)
    BY <1>4 DEF TakesO, TakesV, new
  <1>5. CASE ~Pending(w, r.kinds)
    <2>1. w \notin DOMAIN r.todo
      BY <1>1
    <2> QED
      BY <1>5, <2>1 DEF TakesO, TakesV, r
  <1>6. CASE Kind[w] = Head(r.kinds) /\ r.op = "instrument"
    <2>1. w \in DOMAIN new.todo /\ new.todo[w] = workload[w]
      BY <1>1, <1>2, <1>6 DEF Listed
    <2>2. RightO(w) \/ TakesO(new, w)
      BY <1>2, <2>1, UnlabelledIsClean DEF TakesO, RightO
    <2>3. RightV(w) \/ TakesV(new, w)
      BY <1>1, <1>2, <1>6, <2>1 DEF TakesV, IsOutdated, RightV, MustBeRight, IsRight, Agreement, SameSpec, r
    <2> QED
      BY <2>2, <2>3 DEF new
  <1>7. CASE Kind[w] = Head(r.kinds) /\ r.op = "uninstrument"
    <2>1. RightV(w)
      BY <1>2, <1>7 DEF RightV, MustBeRight, AllInForce, Agreement, r
    <2>2. CASE workload[w].label = "none"
      BY <1>2, <2>1, <2>2, UnlabelledIsClean DEF RightO
    <2>3. CASE workload[w].label # "none"
      <3>1. w \in DOMAIN new.todo
        BY <1>1, <1>2, <1>7, <2>3 DEF Listed
      <3> QED
        BY <1>1, <1>7, <2>1, <3>1 DEF TakesO, new
    <2> QED
      BY <2>2, <2>3
  <1> QED
    BY <1>2, <1>3, <1>4, <1>5, <1>6, <1>7 DEF Agreement, r

\* Steps of a run: what is the same for all of them.
LEMMA WorkSame ==
  ASSUME NEW a \in Actors, WorkFrame(a)
  PROVE  /\ TargetIsKept /\ (Over' => Over)
         /\ (a = "reconcile" => ~Complete /\ ~Complete' /\ run'["startup"] = run["startup"])
         /\ (a = "startup" => (Complete' <=> Complete) /\ run'["reconcile"] = run["reconcile"])
  <1>1. TargetIsKept
    BY DEF WorkFrame, TargetIsKept, Removing, AllInForce
  <1>2. Over' => Over
    <2>1. CASE a = "reconcile"
      BY <2>1 DEF WorkFrame, Over, IsAtWork
    <2>2. CASE a = "startup"
      BY <2>2, ActorsAre DEF WorkFrame, Over
    <2> QED
      BY <2>1, <2>2, ActorsAre
  <1>4. a = "reconcile" => ~Complete /\ ~Complete' /\ run'["startup"] = run["startup"]
    BY ActorsAre DEF WorkFrame, Complete, IsAtWork
  <1>5. a = "startup" => (Complete' <=> Complete) /\ run'["reconcile"] = run["reconcile"]
    BY ActorsAre DEF WorkFrame, Complete
  <1> QED
    BY <1>1, <1>2, <1>4, <1>5

\* It remains to be shown that each run still takes care of what it took care of.
LEMMA WorkResult ==
  ASSUME LabelInv, PodsInv, ResultInv, NEW a \in Actors, WorkFrame(a), NEW w \in Mutable,
         used.failures = 0, Undisturbed' => Undisturbed,
         RightO(w) => RightO(w)',
         (Undisturbed' /\ RightV(w)) => RightV(w)',
         (a = "reconcile" /\ ~run'[a].failed) =>
            /\ ~run[a].failed
            /\ TakesO(run[a], w) => RightO(w)' \/ TakesO(run[a], w)'
            /\ (Undisturbed' /\ TakesV(run[a], w)) => RightV(w)' \/ TakesV(run[a], w)',
         (a = "startup" /\ Undisturbed' /\ TakesV(run[a], w)) => RightV(w)' \/ TakesV(run[a], w)'
  PROVE  Result(w)'
  <1>1. Result(w)
    BY DEF ResultInv
  <1>2. /\ TargetIsKept /\ (Over' => Over)
        /\ (a = "reconcile" => ~Complete /\ ~Complete' /\ run'["startup"] = run["startup"])
        /\ (a = "startup" => (Complete' <=> Complete) /\ run'["reconcile"] = run["reconcile"])
    BY WorkSame
  <1>3. UNCHANGED <<scenario, cache, version>> /\ IsAtWork(run'[a]) /\ IsAtWork(run[a])
    BY DEF WorkFrame
  <1>4. CASE a = "reconcile"
    <2>1. StartupWill(w)' <=> StartupWill(w)
      BY <1>2, <1>3, <1>4, SameStartup
    <2>2. ReconcilerWill(w)'
      BY <1>1, <1>2, <1>3, <1>4 DEF Result, ReconcilerWill, TakesO
    <2>3. Over' \/ Complete' => RightO(w)'
      BY <1>1, <1>2, <1>4 DEF Result
    <2>4. Undisturbed' /\ Over' => RightV(w)' \/ StartupWill(w)'
      BY <1>1, <1>2, <1>4, <2>1 DEF Result
    <2>5. ~Complete'
      BY <1>2, <1>4
    <2> QED
      BY <2>2, <2>3, <2>4, <2>5 DEF Result
  <1>5. CASE a = "startup"
    <2>1. (Undisturbed' /\ StartupWill(w)) => RightV(w)' \/ StartupWill(w)'
      BY <1>3, <1>5 DEF StartupWill, StartupIsDue, IsAtWork
    <2>2. /\ TakesO(run["reconcile"], w)' <=> TakesO(run["reconcile"], w)
          /\ TakesV(run["reconcile"], w)' <=> TakesV(run["reconcile"], w)
      BY <1>2, <1>3, <1>5 DEF TakesO, TakesV, IsOutdated, PropagatorsAreRecognised, SpecsInUse
    <2>3. ReconcilerWill(w)'
      BY <1>1, <1>2, <1>5, <2>2 DEF Result, ReconcilerWill
    <2> QED
      BY <1>1, <1>2, <1>5, <2>1, <2>3 DEF Result
  <1> QED
    BY <1>4, <1>5, ActorsAre

LEMMA ListResult ==
  ASSUME LabelInv, PodsInv, ControlInv, SeenInv, ResultInv, NEW a \in Actors, ListKind(a)
  PROVE  ResultInv'
  <1>1. WorkFrame(a) /\ UNCHANGED <<workload, missed, used>> /\ run'[a].failed = run[a].failed
    BY ListOutcome
  <1>2. UNCHANGED <<scenario, version>>
    BY <1>1 DEF WorkFrame
  <1>3. SUFFICES ASSUME used.failures = 0, NEW w \in Mutable PROVE Result(w)'
    BY <1>1 DEF ResultInv, Mutable, Live
  <1>4. (RightO(w)' <=> RightO(w)) /\ (RightV(w)' <=> RightV(w))
    <2>1. TargetIsKept
      BY <1>1, WorkSame
    <2> QED
      BY <1>1, <1>2, <2>1, SameTarget
  <1>5. Undisturbed' <=> Undisturbed
    BY <1>1, <1>2 DEF Undisturbed, NothingIsSkipped
  <1>6. /\ TakesV(run[a], w)' <=> TakesV(run'[a], w)
        /\ TakesO(run[a], w)' <=> TakesO(run'[a], w)
    BY <1>2 DEF TakesO, TakesV, IsOutdated, PropagatorsAreRecognised, SpecsInUse
  <1>7. /\ (RightO(w) \/ TakesO(run[a], w)) => RightO(w) \/ TakesO(run'[a], w)
        /\ (RightV(w) \/ TakesV(run[a], w)) => RightV(w) \/ TakesV(run'[a], w)
    BY ListTakes
  <1> QED
    BY <1>1, <1>3, <1>4, <1>5, <1>6, <1>7, WorkResult

LEMMA ListFailsResult ==
  ASSUME LabelInv, PodsInv, ResultInv, StartupCounts, NEW a \in Actors, ListKindFails(a)
  PROVE  ResultInv'
  <1>1. WorkFrame(a) /\ UNCHANGED <<workload, missed>> /\ Spend("listFailures") /\ run'[a].failed = TRUE
    BY ListFailsOutcome
  <1>2. UNCHANGED <<scenario, version>> /\ IsAtWork(run[a])
    BY <1>1 DEF WorkFrame
  <1>3. used'.listFailures # 0 /\ used'.failures = used.failures /\ used'.restarts = used.restarts
    BY <1>1, SpentIsNotZero DEF Bounds
  <1>4. SUFFICES ASSUME used.failures = 0, NEW w \in Mutable PROVE Result(w)'
    BY <1>1, <1>3 DEF ResultInv, Mutable, Live
  <1>5. (RightO(w)' <=> RightO(w)) /\ (RightV(w)' <=> RightV(w))
    <2>1. TargetIsKept
      BY <1>1, WorkSame
    <2> QED
      BY <1>1, <1>2, <2>1, SameTarget
  <1>6. Undisturbed' => Undisturbed
    BY <1>1, <1>2, StaysUndisturbed DEF Bounds
  <1>7. a = "startup" => ~Undisturbed'
    BY <1>2, <1>3 DEF Undisturbed, NothingIsSkipped, StartupCounts, IsAtWork
  <1> QED
    BY <1>1, <1>4, <1>5, <1>6, <1>7, WorkResult

\* The operator recognises its own value of OTEL_PROPAGATORS wherever it may meet it.
PropagatorsAreKnown ==
  (Undisturbed /\ PropagatorsAreRecognised) =>
    \A w \in Mutable :
      /\ cache # Absent => Recognised(workload[w], cache)
      /\ \A a \in Actors : IsAtWork(run[a]) =>
           /\ Recognised(workload[w], run[a].m)
           /\ w \in DOMAIN run[a].todo => Recognised(run[a].todo[w], run[a].m)

LEMMA OthersStay ==
  ASSUME LabelInv, NEW a \in Actors, NEW w, IsHandled(a, w)
  PROVE  Mutable' \subseteq Mutable /\ \A v \in Workloads : v # w => workload'[v] = workload[v]
  <1>1. UNCHANGED workload \/ (w \in Live /\ \E obj : Store(w, obj))
    BY DEF IsHandled, Update, Admit
  <1>2. \A v \in Workloads : v # w => workload'[v] = workload[v]
    BY <1>1 DEF Store, LabelInv, WorkloadsAreTyped
  <1>3. Mutable' \subseteq Mutable
    BY <1>1, <1>2 DEF Mutable, Live
  <1> QED
    BY <1>2, <1>3

LEMMA SameWorkload ==
  ASSUME TargetIsKept, UNCHANGED version, NEW v, workload'[v] = workload[v]
  PROVE  (RightO(v)' <=> RightO(v)) /\ (RightV(v)' <=> RightV(v))
  <1>1. (MustBeClean(v, workload[v])' <=> MustBeClean(v, workload[v])) /\ (MustBeRight(workload[v])' <=> MustBeRight(workload[v]))
    BY DEF TargetIsKept, MustBeClean, MustBeRight
  <1>2. AllInForce => (IsRight(workload[v])' <=> IsRight(workload[v]))
    <2>1. PropagatorsAreRecognised' <=> PropagatorsAreRecognised
      BY DEF PropagatorsAreRecognised, SpecsInUse, TargetIsKept
    <2> QED
      BY <2>1 DEF IsRight, TargetIsKept
  <1> QED
    BY <1>1, <1>2 DEF RightO, RightV, MustBeRight

LEMMA HandleResult ==
  ASSUME LabelInv, PodsInv, ControlInv, SeenInv, PropagatorsAreKnown, ResultInv, NEW a \in Actors,
         HandleWorkload(a) \/ UpdateFails(a)
  PROVE  ResultInv'
  <1>1. PICK w : IsHandled(a, w)
    BY HandleOutcome
  <1>2. /\ WorkFrame(a) /\ UNCHANGED <<scenario, version, monitoring>> /\ IsAtWork(run[a]) /\ w \in DOMAIN run[a].todo
        /\ run'[a].kinds = run[a].kinds /\ run'[a].failed = run[a].failed /\ run'[a].todo = Without(run[a].todo, w)
        /\ run'[a].m = run[a].m /\ run'[a].op = run[a].op
    BY <1>1 DEF IsHandled, WorkFrame
  <1>3. Mutable' \subseteq Mutable /\ \A v \in Workloads : v # w => workload'[v] = workload[v]
    BY <1>1, OthersStay
  <1>4. SUFFICES ASSUME used'.failures = 0, NEW v \in Mutable PROVE Result(v)'
    BY <1>3 DEF ResultInv
  <1>5. UNCHANGED used \/ Spend("failures")
    BY <1>1 DEF IsHandled
  <1>6. missed' = missed \/ missed' = missed + 1
    BY <1>1 DEF IsHandled, Update, Admit
  <1>7. used.failures = 0 /\ (Undisturbed' => Undisturbed) /\ (Undisturbed' => missed' = 0)
    BY <1>2, <1>4, <1>5, <1>6, StaysUndisturbed DEF Bounds, Undisturbed
  <1>8. TargetIsKept
    BY <1>2, WorkSame
  <1>9. v \in DOMAIN run[a].todo /\ v # w => v \in DOMAIN run'[a].todo /\ run'[a].todo[v] = run[a].todo[v]
    BY <1>2 DEF Without
  <1>10. \A seen, m : IsOutdated(seen, m)' <=> IsOutdated(seen, m)
    BY <1>2 DEF IsOutdated, PropagatorsAreRecognised, SpecsInUse
  <1>11. CASE v # w
    <2>1. workload'[v] = workload[v]
      BY <1>3, <1>11 DEF Mutable, Live
    <2>2. (RightO(v)' <=> RightO(v)) /\ (RightV(v)' <=> RightV(v))
      BY <1>2, <1>8, <2>1, SameWorkload
    <2>3. (TakesO(run[a], v) => TakesO(run[a], v)') /\ (TakesV(run[a], v) => TakesV(run[a], v)')
      BY <1>2, <1>9, <1>11 DEF TakesO, TakesV, IsOutdated, PropagatorsAreRecognised, SpecsInUse
    <2> QED
      BY <1>2, <1>7, <2>2, <2>3, WorkResult
  <1>12. CASE v = w
    <2>1. (RightO(w) \/ (run[a].op = "instrument" => run[a].todo[w].label = "true")) => RightO(w)'
      BY <1>1, <1>4, <1>12, HandledIsClean
    <2>2. ASSUME Undisturbed', RightV(w) \/ IsOutdated(run[a].todo[w], run[a].m) PROVE RightV(w)'
      <3>1. KnowsPropagators(a, w)
        BY <1>2, <1>4, <1>7, <1>12, <2>2 DEF PropagatorsAreKnown, KnowsPropagators
      <3> QED
        BY <1>1, <1>4, <1>7, <1>12, <2>2, <3>1, HandledIsRight
    <2>3. Pending(w, run[a].kinds) => TakesO(run[a], w)' /\ TakesV(run[a], w)'
      BY <1>2 DEF TakesO, TakesV, Pending
    <2>4. TakesO(run[a], w) => RightO(w)' \/ TakesO(run[a], w)'
      BY <2>1, <2>3 DEF TakesO
    <2>5. (Undisturbed' /\ TakesV(run[a], w)) => RightV(w)' \/ TakesV(run[a], w)'
      BY <2>2, <2>3 DEF TakesV
    <2> QED
      BY <1>2, <1>4, <1>7, <1>12, <2>1, <2>2, <2>4, <2>5, WorkResult
  <1> QED
    BY <1>11, <1>12

LEMMA RestartPodsResult ==
  ASSUME LabelInv, PodsInv, ResultInv, NEW a \in Actors, RestartPodsOfReplicaSet(a) \/ RestartPodsFails(a)
  PROVE  ResultInv'
  <1>1. /\ WorkFrame(a) /\ UNCHANGED missed
        /\ run'[a].kinds = run[a].kinds /\ run'[a].failed = run[a].failed /\ run'[a].todo = run[a].todo
        /\ \/ UNCHANGED workload /\ (UNCHANGED used \/ Spend("failures"))
           \/ /\ UNCHANGED used
              /\ \E w \in Live : Store(w, [workload[w] EXCEPT !.running = workload[w].version])
    BY RestartPodsOutcome
  <1>2. UNCHANGED <<scenario, version, monitoring>> /\ run'[a].m = run[a].m /\ run'[a].op = run[a].op
    BY <1>1 DEF WorkFrame
  <1>3. Live' = Live /\ \A v \in Live : /\ workload'[v].enable = workload[v].enable
                                         /\ workload'[v].version = workload[v].version
                                         /\ workload'[v].propagators = workload[v].propagators
    <2>1. CASE UNCHANGED workload
      BY <2>1 DEF Live
    <2>2. ASSUME NEW w \in Live, Store(w, [workload[w] EXCEPT !.running = workload[w].version])
          PROVE  Live' = Live /\ \A v \in Live : /\ workload'[v].enable = workload[v].enable
                                         /\ workload'[v].version = workload[v].version
                                         /\ workload'[v].propagators = workload[v].propagators
      <3> DEFINE new == [workload[w] EXCEPT !.running = workload[w].version]
      <3>1. workload[w] \in WorkloadObjects /\ w \in Workloads /\ DOMAIN workload = Workloads
        BY DEF LabelInv, WorkloadsAreTyped, Live
      <3>2. /\ new \in WorkloadObjects /\ new.enable = workload[w].enable /\ new.version = workload[w].version
            /\ new.propagators = workload[w].propagators
        BY <3>1 DEF WorkloadObjects
      <3>3. workload' = [workload EXCEPT ![w] = new]
        BY <2>2 DEF Store
      <3> HIDE DEF new
      <3>4. workload'[w] = new /\ \A v \in Workloads : v # w => workload'[v] = workload[v]
        BY <3>1, <3>3
      <3>5. new \notin {Unborn, Gone}
        BY <3>2, ConstantsAssumption
      <3> QED
        BY <3>1, <3>2, <3>4, <3>5 DEF Live
    <2> QED
      BY <1>1, <2>1, <2>2
  <1>4. SUFFICES ASSUME used'.failures = 0, NEW v \in Mutable PROVE Result(v)'
    BY <1>3 DEF ResultInv, Mutable
  <1>5. used.failures = 0 /\ (Undisturbed' => Undisturbed)
    BY <1>1, <1>2, <1>4, StaysUndisturbed DEF Bounds
  <1>6. TargetIsKept
    BY <1>1, WorkSame
  <1>7. (RightO(v)' <=> RightO(v)) /\ (RightV(v)' <=> RightV(v))
    <2>1. /\ workload'[v].enable = workload[v].enable /\ workload'[v].version = workload[v].version
          /\ workload'[v].propagators = workload[v].propagators
      BY <1>3 DEF Mutable
    <2>2. /\ MustBeClean(v, workload[v])' <=> MustBeClean(v, workload[v])
          /\ MustBeRight(workload[v])' <=> MustBeRight(workload[v])
      BY <1>2, <2>1 DEF MustBeClean, MustBeRight, Removing, AllInForce, HasOptedOutOfInstrumentation, ShouldBeInstrumented
    <2>3. IsRight(workload[v])' <=> IsRight(workload[v])
      BY <1>2, <2>1 DEF IsRight, PropagatorsAreRecognised, SpecsInUse
    <2> QED
      BY <2>1, <2>2, <2>3 DEF RightO, RightV
  <1>8. (TakesO(run[a], v) => TakesO(run[a], v)') /\ (TakesV(run[a], v) => TakesV(run[a], v)')
    BY <1>1, <1>2 DEF TakesO, TakesV, IsOutdated, PropagatorsAreRecognised, SpecsInUse
  <1> QED
    BY <1>1, <1>4, <1>5, <1>7, <1>8, WorkResult

Stored(new, obj) == new.enable = obj.enable /\ new.version = obj.version /\ new.propagators = obj.propagators

\* A user creates or updates a workload: obj is what the webhook gets to see.
IsDeployed(w, obj) ==
  /\ MayDeploy /\ Valid(obj) /\ obj.enable \in scenario.enables
  /\ missed = 0 => ~obj.ignoreOnce
  /\ w \notin Live \/ w \in scenario.editable
  /\ \/ obj.version = 0 /\ obj.propagators = NoPropagators
     \/ w \in Live /\ obj.version = workload[w].version /\ obj.propagators = workload[w].propagators
  /\ \/ missed' = missed /\ Stored(workload'[w], Handle(w, obj))
     \/ missed' # 0 /\ Stored(workload'[w], obj)

\* What users do to a workload.
LEMMA CreateOutcome ==
  ASSUME LabelInv, PodsInv, NEW w \in Workloads, CreateWorkload(w)
  PROVE  RolledOut(w) => \E obj : IsDeployed(w, obj)
  <1>1. PICK e \in scenario.enables :
          \/ /\ Store(w, [Handle(w, NewWorkload(e)) EXCEPT !.running = Handle(w, NewWorkload(e)).version])
             /\ UNCHANGED missed
          \/ missed' = missed + 1 /\ Store(w, NewWorkload(e))
    BY DEF CreateWorkload
  <1>2. e \in Enables
    BY ScenariosAssumption DEF LabelInv
  <1> DEFINE obj == NewWorkload(e)
             new == Handle(w, obj)
             rolled == [new EXCEPT !.running = new.version]
  <1>3. /\ Valid(obj) /\ obj.enable = e /\ obj.version = 0 /\ obj.propagators = NoPropagators /\ ~obj.ignoreOnce
    BY <1>2, NewIsValid DEF NewWorkload
  <1>4. Valid(new)
    BY <1>3, HandleIsValid
  <1> HIDE DEF obj, new
  <1>5. Stored(rolled, new)
    BY <1>4 DEF Valid, WorkloadObjects, Stored
  <1>6. w \notin Live /\ MayDeploy /\ DOMAIN workload = Workloads
    BY DEF CreateWorkload, Live, LabelInv, WorkloadsAreTyped
  <1>7. \/ missed' = missed /\ workload'[w] = rolled
        \/ missed' = missed + 1 /\ workload'[w] = obj
    BY <1>1, <1>6 DEF Store, obj, new
  <1>8. missed' = missed + 1 => missed' # 0
    BY DEF PodsInv, Counters
  <1> HIDE DEF rolled
  <1>9. \/ missed' = missed /\ Stored(workload'[w], new)
        \/ missed' # 0 /\ Stored(workload'[w], obj)
    BY <1>5, <1>7, <1>8 DEF Stored
  <1>10. IsDeployed(w, obj)
    BY <1>3, <1>6, <1>9 DEF IsDeployed, new
  <1> QED
    BY <1>10

LEMMA UpdateOutcome ==
  ASSUME LabelInv, PodsInv, NEW w \in Workloads, UpdateWorkload(w)
  PROVE  RolledOut(w) => \E obj : IsDeployed(w, obj)
  <1> SUFFICES ASSUME RolledOut(w) PROVE \E obj : IsDeployed(w, obj)
    OBVIOUS
  <1>1. PICK e \in scenario.enables :
          \/ Update(w, [workload[w] EXCEPT !.enable = e])
          \/ Kind[w] = "deployment" /\ Update(w, NewWorkload(e))
    BY DEF UpdateWorkload
  <1>2. e \in Enables
    BY ScenariosAssumption DEF LabelInv
  <1>3. w \in Live /\ w \in scenario.editable /\ MayDeploy /\ DOMAIN workload = Workloads
    BY DEF UpdateWorkload, LabelInv, WorkloadsAreTyped
  <1>4. Valid(workload[w]) /\ (missed = 0 => ~workload[w].ignoreOnce)
    BY <1>3 DEF LabelInv, WorkloadsAreTyped, LabelTellsTheTruth, Live, Valid, PodsInv, NoIgnoreOnceLabelIsLeft
  <1> DEFINE edited == [workload[w] EXCEPT !.enable = e]
             new == NewWorkload(e)
  <1>5. /\ Valid(edited) /\ edited.enable = e /\ edited.version = workload[w].version
        /\ edited.propagators = workload[w].propagators /\ edited.ignoreOnce = workload[w].ignoreOnce
    BY <1>2, <1>4 DEF Valid, WorkloadObjects, LabelMatches
  <1>6. Valid(new) /\ new.enable = e /\ new.version = 0 /\ new.propagators = NoPropagators /\ ~new.ignoreOnce
    BY <1>2, NewIsValid DEF NewWorkload
  <1> HIDE DEF edited, new
  <1>7. ASSUME NEW obj, Valid(obj), Update(w, obj)
        PROVE  \/ missed' = missed /\ Stored(workload'[w], Handle(w, obj))
               \/ missed' # 0 /\ Stored(workload'[w], obj)
    <2>1. \/ missed' = missed /\ Store(w, Handle(w, obj))
          \/ missed' # 0 /\ Store(w, obj)
      BY <1>7, UpdateTakesTheLabel DEF Valid
    <2> QED
      BY <1>3, <2>1 DEF Store, Stored
  <1>8. CASE Update(w, edited)
    <2>1. IsDeployed(w, edited)
      BY <1>3, <1>4, <1>5, <1>7, <1>8 DEF IsDeployed
    <2> QED
      BY <2>1
  <1>9. CASE Update(w, new)
    <2>1. IsDeployed(w, new)
      BY <1>3, <1>6, <1>7, <1>9 DEF IsDeployed
    <2> QED
      BY <2>1
  <1> QED
    BY <1>1, <1>8, <1>9 DEF edited, new

\* Workloads are created, changed or deleted by users.
LEMMA UserOutcome ==
  ASSUME LabelInv, PodsInv, NEW w \in Workloads, CreateWorkload(w) \/ UpdateWorkload(w) \/ DeleteWorkload(w)
  PROVE  /\ WorkloadFrame /\ Spend("updates") /\ (missed' = missed \/ missed' = missed + 1)
         /\ \A v \in Workloads : v # w => workload'[v] = workload[v]
         /\ workload'[w] = Gone \/ (RolledOut(w) => \E obj : IsDeployed(w, obj))
         /\ w \in Live \/ workload[w] = Unborn
  <1>1. WorkloadFrame /\ Spend("updates") /\ (missed' = missed \/ missed' = missed + 1) /\ (w \in Live \/ workload[w] = Unborn)
    BY DEF CreateWorkload, UpdateWorkload, DeleteWorkload, Update, Admit, WorkloadFrame
  <1>2. \E obj : Store(w, obj)
    BY DEF CreateWorkload, UpdateWorkload, DeleteWorkload, Update, Admit
  <1>3. \A v \in Workloads : v # w => workload'[v] = workload[v]
    BY <1>2 DEF Store, LabelInv, WorkloadsAreTyped
  <1>4. CASE DeleteWorkload(w)
    <2>1. workload'[w] = Gone
      BY <1>4 DEF DeleteWorkload, Store, LabelInv, WorkloadsAreTyped
    <2> QED
      BY <1>1, <1>3, <2>1
  <1> QED
    BY <1>1, <1>3, <1>4, CreateOutcome, UpdateOutcome

\* Until a user's change is noticed the webhook may do what the resource said before; but then
\* a reconcile is due.
LEMMA HookIsFit ==
  ASSUME LabelInv, ControlInv, Over \/ run["reconcile"].pc # "idle"
  PROVE  HookFits
  <1>1. CASE (monitoring = Absent /\ cache = Absent) \/ (cache # Absent /\ AgreesWith(cache, monitoring))
    BY <1>1 DEF HookFits, Removing, AgreesWith, WebhookIsActive, SameSpec
  <1>2. CASE Quiescent /\ JustChanged(monitoring, cache)
    <2>1. run["reconcile"].pc = "idle"
      BY <1>2, ActorsAre DEF Quiescent
    <2>2. monitoring # Absent /\ Sound(monitoring)
      BY <1>2 DEF JustChanged, ControlInv
    <2>3. ~(cache # Absent /\ AgreesWith(cache, monitoring))
      BY <1>2, <2>2 DEF JustChanged, AgreesWith, SameSpec, IsReconciled
    <2>4. Through(monitoring)
      BY <2>1, <2>2, <2>3 DEF Over
    <2>5. CASE cache = Absent
      <3>1. monitoring.prevMode = "" /\ monitoring.cond = "none"
        BY <1>2, <2>2, <2>5 DEF JustChanged, Sound
      <3>2. monitoring.mode = "none"
        BY <2>4, <3>1 DEF Through, PrevIsSpec
      <3> QED
        BY <2>5, <3>2 DEF HookFits, Removing, WebhookIsActive
    <2>6. CASE cache # Absent
      <3>1. /\ monitoring.marked \/ ~SameSpec(cache, monitoring)
            /\ monitoring.cond = "available" /\ monitoring.prevMode = cache.mode
            /\ monitoring.prevSelector = cache.selector /\ monitoring.prevPropagators = cache.propagators
        BY <1>2, <2>6 DEF JustChanged
      <3>2. ~(~monitoring.marked /\ PrevIsSpec(monitoring))
        BY <3>1 DEF PrevIsSpec, SameSpec
      <3>3. monitoring.mode = "none" /\ cache.mode \in {"none", ""}
        BY <2>4, <3>1, <3>2 DEF Through
      <3>4. cache.mode = "none"
        BY <2>6, <3>3 DEF LabelInv, MonitoringResources, Modes
      <3> QED
        BY <3>3, <3>4 DEF HookFits, Removing, WebhookIsActive
    <2> QED
      BY <2>5, <2>6
  <1> QED
    BY <1>1, <1>2 DEF ControlInv, CacheFollows, Follows

LEMMA DeployedIsClean ==
  ASSUME LabelInv, HookFits, NEW w \in Workloads, RolledOut(w), NEW obj, IsDeployed(w, obj),
         w \in Live => RightO(w), UNCHANGED <<scenario, monitoring>>
  PROVE  RightO(w)'
  <1>1. Valid(obj) /\ Handle(w, obj).enable = obj.enable
    BY HandleFields DEF IsDeployed
  <1>2. Stored(workload'[w], Handle(w, obj)) \/ Stored(workload'[w], obj)
    BY DEF IsDeployed
  <1>3. SUFFICES ASSUME MustBeClean(w, obj) PROVE obj.version = 0
    <2>1. MustBeClean(w, workload[w])' => MustBeClean(w, obj)
      BY <1>1, <1>2 DEF MustBeClean, Removing, AllInForce, HasOptedOutOfInstrumentation, ShouldBeInstrumented, Stored
    <2>2. (MustBeClean(w, obj) /\ obj.version = 0) => Handle(w, obj).version = 0
      BY <1>1, HandleKeepsClean
    <2> QED
      BY <1>2, <1>3, <2>1, <2>2 DEF RightO, Stored
  <1>4. CASE w \in Live /\ obj.version = workload[w].version
    <2>1. w \in scenario.editable
      BY <1>4 DEF IsDeployed
    <2>2. Removing
      BY <1>3, <2>1 DEF MustBeClean
    <2> QED
      BY <1>4, <2>2 DEF RightO, MustBeClean
  <1> QED
    BY <1>4 DEF IsDeployed

\* What users deploy is right when the webhook has answered.
LEMMA DeployedIsRight ==
  ASSUME LabelInv, HookFits, NEW w \in Workloads, RolledOut(w), NEW obj, IsDeployed(w, obj),
         Undisturbed, missed' = 0, PropagatorsAreKnown, UNCHANGED <<scenario, monitoring, version>>
  PROVE  RightV(w)'
  <1>1. Valid(obj) /\ Handle(w, obj).enable = obj.enable /\ ~obj.ignoreOnce /\ MayDeploy
    BY HandleFields DEF IsDeployed, Undisturbed
  <1>2. Stored(workload'[w], Handle(w, obj))
    BY DEF IsDeployed
  <1>3. SUFFICES ASSUME MustBeRight(obj) PROVE IsRight(Handle(w, obj))
    <2>1. MustBeRight(workload[w])' => MustBeRight(obj)
      BY <1>1, <1>2 DEF MustBeRight, Removing, AllInForce, ShouldBeInstrumented, Stored
    <2>2. IsRight(Handle(w, obj)) => IsRight(workload[w])'
      BY <1>2 DEF IsRight, PropagatorsAreRecognised, SpecsInUse, Stored
    <2> QED
      BY <1>3, <2>1, <2>2 DEF RightV
  <1>4. cache # Absent /\ cache.cond = "available"
    BY <1>1, <1>3 DEF MayDeploy, Undisturbed, MustBeRight, AllInForce, Removing
  <1>5. PropagatorsAreRecognised => Recognised(obj, cache)
    <2>1. w \in Live => w \in Mutable
      BY DEF Mutable, RolledOut
    <2> QED
      BY <1>4, <2>1 DEF IsDeployed, PropagatorsAreKnown, Recognised
  <1> QED
    BY <1>1, <1>3, <1>4, <1>5, HandleMakesRight DEF Valid

LEMMA UserResult ==
  ASSUME LabelInv, PodsInv, ControlInv, PropagatorsAreKnown, ResultInv, NEW w \in Workloads,
         CreateWorkload(w) \/ UpdateWorkload(w) \/ DeleteWorkload(w)
  PROVE  ResultInv'
  <1>1. /\ UNCHANGED <<scenario, monitoring, cache, version, run>> /\ Spend("updates") /\ (missed' = missed \/ missed' = missed + 1)
        /\ \A v \in Workloads : v # w => workload'[v] = workload[v]
        /\ workload'[w] = Gone \/ (RolledOut(w) => \E obj : IsDeployed(w, obj))
        /\ w \in Live \/ workload[w] = Unborn
    BY UserOutcome DEF WorkloadFrame
  <1>2. (used'.failures = 0 => used.failures = 0) /\ (Undisturbed' => Undisturbed)
    BY <1>1, StaysUndisturbed DEF Bounds
  <1>3. SUFFICES ASSUME used.failures = 0, NEW v \in Mutable' PROVE Result(v)'
    BY <1>2 DEF ResultInv
  <1>4. (Over' <=> Over) /\ (Complete' <=> Complete)
    BY <1>1 DEF Over, Complete
  <1>5. StartupWill(v)' <=> StartupWill(v)
    BY <1>1, SameStartup
  <1>6. /\ TakesO(run["reconcile"], v)' <=> TakesO(run["reconcile"], v)
        /\ TakesV(run["reconcile"], v)' <=> TakesV(run["reconcile"], v)
    BY <1>1 DEF TakesO, TakesV, IsOutdated, PropagatorsAreRecognised, SpecsInUse
  <1>7. CASE v # w
    <2>1. workload'[v] = workload[v] /\ v \in Mutable
      BY <1>1, <1>3, <1>7 DEF Mutable, Live
    <2>2. TargetIsKept
      BY <1>1 DEF TargetIsKept, Removing, AllInForce
    <2>3. (RightO(v)' <=> RightO(v)) /\ (RightV(v)' <=> RightV(v))
      BY <1>1, <2>1, <2>2, SameWorkload
    <2>4. Result(v)
      BY <1>3, <2>1 DEF ResultInv
    <2>5. ReconcilerWill(v)'
      BY <1>1, <1>2, <1>6, <2>3, <2>4 DEF Result, ReconcilerWill
    <2> QED
      BY <1>2, <1>4, <1>5, <2>3, <2>4, <2>5 DEF Result
  <1>8. CASE v = w
    <2>1. RolledOut(w) /\ workload'[w] # Gone
      BY <1>3, <1>8 DEF Mutable, Live, RolledOut
    <2>2. PICK obj : IsDeployed(w, obj)
      BY <1>1, <2>1
    <2>3. w \in Live => w \in Mutable
      BY <2>1 DEF Mutable, RolledOut
    <2>4. w \in Live => Result(w)
      BY <1>3, <2>3 DEF ResultInv
    <2>5. (HookFits /\ (w \in Live => RightO(w))) => RightO(w)'
      BY <1>1, <2>1, <2>2, DeployedIsClean
    <2>6. (HookFits /\ Undisturbed') => RightV(w)'
      <3>1. Undisturbed' => missed' = 0
        BY DEF Undisturbed
      <3> QED
        BY <1>1, <1>2, <2>1, <2>2, <3>1, DeployedIsRight
    <2>7. (Over \/ run["reconcile"].pc # "idle") => HookFits
      BY HookIsFit
    <2>8. Complete => run["reconcile"].pc # "idle"
      BY DEF Complete
    <2>9. ReconcilerWill(w)'
      <3>1. IsAtWork(run["reconcile"]) => HookFits
        BY <2>7 DEF IsAtWork
      <3> QED
        BY <1>1, <1>6, <1>8, <2>4, <2>5, <2>6, <3>1 DEF Result, ReconcilerWill
    <2>10. Over \/ Complete => RightO(w)'
      BY <2>4, <2>5, <2>7, <2>8 DEF Result
    <2> QED
      BY <1>4, <1>8, <2>6, <2>7, <2>8, <2>9, <2>10 DEF Result
  <1> QED
    BY <1>7, <1>8

-----------------------------------------------------------------------------
(* What the runs know of the labels *)

\* A run over the workloads starts with an empty list.
LEMMA ReconcileIsFresh ==
  ASSUME LabelInv, Reconcile, IsAtWork(run'["reconcile"])
  PROVE  run'["reconcile"].todo = <<>>
  <1>0. DOMAIN run = Actors /\ "reconcile" \in Actors
    BY ActorsAre DEF LabelInv
  <1>a. /\ IsRequeued => run'["reconcile"] = Idle
        /\ run'["reconcile"] = Idle => run'["reconcile"].pc = "idle"
    BY WorkFields DEF IsRequeued
  <1>b. run'["reconcile"].pc \in {"work", "restartPods"}
    BY DEF IsAtWork
  <1>1. CASE BeginReconcile
    <2>1. IsRequeued \/ run'["reconcile"].pc \in {"idle", "finalizers"}
      BY <1>1, BeginOutcome
    <2> QED
      BY <1>a, <1>b, <2>1
  <1>2. CASE FinishWork
    <2>1. IsRequeued \/ run'["reconcile"].pc \in {"cleanup", "status"}
      BY <1>2, FinishWorkOutcome
    <2> QED
      BY <1>a, <1>b, <2>1
  <1>3. CASE UpdateStatusAfterReconcile
    <2>1. IsRequeued \/ run'["reconcile"] = Idle
      BY <1>3, StatusOutcome
    <2> QED
      BY <1>a, <1>b, <2>1
  <1>4. CASE MarkAboutToBeDeleted
    <2>1. IsRequeued \/ run'["reconcile"].pc = "removeFinalizer"
      BY <1>4, CleanupOutcome
    <2> QED
      BY <1>a, <1>b, <2>1
  <1>5. CASE RemoveFinalizer
    <2>1. run'["reconcile"] = Idle
      BY <1>0, <1>5 DEF RemoveFinalizer, WriteMonitoring, Requeue, SetRun
    <2> QED
      BY <2>1 DEF Idle
  <1>6. CASE HandleFinalizers
    <2> DEFINE m == run["reconcile"].m
               first == run["reconcile"].first
               withFinalizer == [m EXCEPT !.finalizer = TRUE]
               cleanup == [Idle EXCEPT !.pc = "cleanup", !.m = m]
    <2>1. ASSUME NEW x, NEW f PROVE Proceed(x, f).todo = <<>>
      <3>1. [Idle EXCEPT !.pc = "status", !.m = x].todo = <<>> /\ Work(x, WorkRequired(x, f)).todo = <<>>
        BY DEF Work, Idle
      <3> QED
        BY <3>1 DEF Proceed
    <2>2. Idle.todo = <<>> /\ Work(m, "uninstrument").todo = <<>> /\ cleanup.todo = <<>>
      BY DEF Work, Idle
    <2>3. m.marked \in BOOLEAN /\ m.finalizer \in BOOLEAN
      BY <1>6, FinalizersOutcome DEF MonitoringResources
    <2>4. \/ SetRun("reconcile", Proceed(m, first)) \/ SetRun("reconcile", Idle)
          \/ SetRun("reconcile", Work(m, "uninstrument")) \/ SetRun("reconcile", cleanup)
          \/ WriteMonitoring(withFinalizer, Proceed(withFinalizer, first))
      BY <1>6, <2>3 DEF HandleFinalizers
    <2> HIDE DEF cleanup, withFinalizer, m, first
    <2>5. run'["reconcile"] \in {Proceed(m, first), Idle, Work(m, "uninstrument"), cleanup, Proceed(withFinalizer, first)}
      BY <1>0, <2>4 DEF SetRun, WriteMonitoring, Requeue
    <2> QED
      BY <2>1, <2>2, <2>5
  <1> QED
    BY <1>1, <1>2, <1>3, <1>4, <1>5, <1>6 DEF Reconcile

\* The workloads keep the labels that the selector looks at, or cease to exist.
KeepsEnable == Mutable' \subseteq Mutable /\ \A w \in Mutable' : workload'[w].enable = workload[w].enable

LEMMA RunsKeepSeen ==
  ASSUME SeenInv, UNCHANGED <<scenario, cache>>, KeepsEnable,
         \A a \in Actors : IsAtWork(run'[a]) =>
            /\ run'[a].kinds \in Suffixes
            /\ \/ run'[a].todo = <<>>
               \/ /\ IsAtWork(run[a]) /\ run'[a].op = run[a].op /\ DOMAIN run'[a].todo \subseteq DOMAIN run[a].todo
                  /\ \A w \in DOMAIN run'[a].todo : run'[a].todo[w] = run[a].todo[w]
               \/ \A w \in DOMAIN run'[a].todo : run'[a].todo[w] = workload'[w]
  PROVE  SeenInv'
  <1>1. SUFFICES ASSUME NEW a \in Actors, IsAtWork(run'[a]), NEW w \in DOMAIN run'[a].todo, w \in Mutable'
                 PROVE  /\ w \notin scenario.editable => run'[a].todo[w].enable = workload'[w].enable
                        /\ (~scenario.earlyDeploy /\ run'[a].op = "instrument" /\ run'[a].todo[w].enable # workload'[w].enable)
                              => WebhookIsActive(cache)
    BY DEF SeenInv
  <1>2. CASE /\ IsAtWork(run[a]) /\ run'[a].op = run[a].op /\ DOMAIN run'[a].todo \subseteq DOMAIN run[a].todo
             /\ \A v \in DOMAIN run'[a].todo : run'[a].todo[v] = run[a].todo[v]
    BY <1>1, <1>2 DEF SeenInv, KeepsEnable
  <1>3. CASE \A v \in DOMAIN run'[a].todo : run'[a].todo[v] = workload'[v]
    BY <1>1, <1>3
  <1> QED
    BY <1>1, <1>2, <1>3

LEMMA KeptEnable ==
  ASSUME UNCHANGED workload
  PROVE  KeepsEnable
  BY DEF KeepsEnable, Mutable, Live

LEMMA ReconcileSeen ==
  ASSUME LabelInv, ControlInv, SeenInv, Reconcile
  PROVE  SeenInv'
  <1>1. UNCHANGED <<scenario, workload, cache>> /\ run'["startup"] = run["startup"]
    BY ReconcileFrame
  <1>2. IsAtWork(run'["reconcile"]) => run'["reconcile"].todo = <<>> /\ run'["reconcile"].kinds = KindOrder
    BY ReconcileIsFresh, ReconcileProgress DEF Progress
  <1> QED
    BY <1>1, <1>2, KeptEnable, RunsKeepSeen, ActorsAre DEF Suffixes, SeenInv

LEMMA StartupSeen ==
  ASSUME LabelInv, SeenInv, InstrumentAtStartup \/ FinishStartup
  PROVE  SeenInv'
  <1> DEFINE r == run'["startup"]
  <1>1. UNCHANGED <<scenario, workload, cache>> /\ run'["reconcile"] = run["reconcile"]
        /\ (r = Idle \/ r = Work(cache, "instrument"))
    BY StartupOutcome
  <1>2. IsAtWork(r) => r.todo = <<>> /\ r.kinds = KindOrder
    <2> HIDE DEF r
    <2>1. CASE r = Idle
      BY <2>1 DEF Idle, IsAtWork
    <2>2. CASE r = Work(cache, "instrument")
      BY <2>2 DEF Work, Idle
    <2> QED
      BY <1>1, <2>1, <2>2
  <1> QED
    BY <1>1, <1>2, KeptEnable, RunsKeepSeen, ActorsAre DEF Suffixes, SeenInv

LEMMA WorkSeen ==
  ASSUME LabelInv, SeenInv, NEW a \in Actors, WorkFrame(a), KeepsEnable,
         run'[a].kinds \in Suffixes,
         \/ run'[a].todo = <<>>
         \/ /\ DOMAIN run'[a].todo \subseteq DOMAIN run[a].todo
            /\ \A w \in DOMAIN run'[a].todo : run'[a].todo[w] = run[a].todo[w]
         \/ \A w \in DOMAIN run'[a].todo : run'[a].todo[w] = workload'[w]
  PROVE  SeenInv'
  <1>1. \A b \in Actors : b # a => run'[b] = run[b]
    BY DEF WorkFrame
  <1>2. IsAtWork(run[a]) /\ run'[a].op = run[a].op /\ UNCHANGED <<scenario, cache>>
    BY DEF WorkFrame
  <1>3. ASSUME NEW b \in Actors, IsAtWork(run'[b])
        PROVE  /\ run'[b].kinds \in Suffixes
               /\ \/ run'[b].todo = <<>>
                  \/ /\ IsAtWork(run[b]) /\ run'[b].op = run[b].op /\ DOMAIN run'[b].todo \subseteq DOMAIN run[b].todo
                     /\ \A w \in DOMAIN run'[b].todo : run'[b].todo[w] = run[b].todo[w]
                  \/ \A w \in DOMAIN run'[b].todo : run'[b].todo[w] = workload'[w]
    <2>1. CASE b = a
      BY <1>2, <2>1
    <2>2. CASE b # a
      BY <1>1, <1>3, <2>2 DEF SeenInv
    <2> QED
      BY <2>1, <2>2
  <1> QED
    BY <1>2, <1>3, RunsKeepSeen

LEMMA InstrumentSeen ==
  ASSUME LabelInv, PodsInv, SeenInv, NEW a \in Actors, Instrument(a) \/ Fails(a)
  PROVE  SeenInv'
  <1>1. IsAtWork(run[a]) /\ run[a].kinds \in Suffixes
    BY WorkIsFramed DEF WorkFrame, SeenInv
  <1>2. CASE ListKind(a)
    <2>1. /\ WorkFrame(a) /\ UNCHANGED workload /\ run[a].kinds # <<>> /\ run'[a].kinds = Tail(run[a].kinds)
          /\ run'[a].todo = [w \in Listed(Head(run[a].kinds), run[a].op) |-> workload[w]]
      BY <1>2, ListOutcome
    <2>2. \A w \in DOMAIN run'[a].todo : run'[a].todo[w] = workload'[w]
      BY <2>1
    <2>3. run'[a].kinds \in Suffixes
      BY <1>1, <2>1, ListedKinds
    <2> QED
      BY <2>1, <2>2, <2>3, KeptEnable, WorkSeen
  <1>3. CASE ListKindFails(a)
    <2>1. WorkFrame(a) /\ UNCHANGED workload /\ run[a].kinds # <<>> /\ run'[a].kinds = Tail(run[a].kinds) /\ run'[a].todo = <<>>
      BY <1>3, ListFailsOutcome
    <2>2. run'[a].kinds \in Suffixes
      BY <1>1, <2>1, ListedKinds
    <2> QED
      BY <2>1, <2>2, KeptEnable, WorkSeen
  <1>4. CASE HandleWorkload(a) \/ UpdateFails(a)
    <2>1. PICK w : IsHandled(a, w)
      BY <1>4, HandleOutcome
    <2>2. WorkFrame(a) /\ run'[a].kinds = run[a].kinds /\ run'[a].todo = Without(run[a].todo, w)
      BY <2>1 DEF IsHandled
    <2>3. /\ DOMAIN run'[a].todo \subseteq DOMAIN run[a].todo
          /\ \A v \in DOMAIN run'[a].todo : run'[a].todo[v] = run[a].todo[v]
      BY <2>2 DEF Without
    <2>4. KeepsEnable
      <3>1. Mutable' \subseteq Mutable /\ \A v \in Workloads : v # w => workload'[v] = workload[v]
        BY <2>1, OthersStay
      <3>2. \A v \in Mutable' : v \in Workloads
        BY DEF Mutable, Live
      <3>3. ASSUME w \in Mutable PROVE workload'[w].enable = workload[w].enable
        <4>1. CASE UNCHANGED workload
          BY <4>1
        <4>2. CASE Update(w, Desired(w, run[a].todo[w], run[a]))
          <5> DEFINE new == Desired(w, run[a].todo[w], run[a])
          <5>1. w \in Live /\ w \in Workloads /\ RolledOut(w) /\ w \in DOMAIN run[a].todo /\ run[a].pc = "work"
            BY <2>1, <3>3 DEF Mutable, RolledOut, Live, IsHandled
          <5>2. Valid(new)
            BY <5>1, DesiredIsValid
          <5>3. new.enable = workload[w].enable
            BY <5>1, DesiredKeepsTheRest DEF RolledOut, SameOtherwise
          <5> HIDE DEF new
          <5>4. Store(w, Handle(w, new)) \/ Store(w, new)
            BY <4>2, <5>1, <5>2, UpdateTakesTheLabel DEF Valid, new
          <5>5. Handle(w, new).enable = new.enable
            BY <5>1, <5>2, HandleFields
          <5> QED
            BY <5>1, <5>3, <5>4, <5>5 DEF Store, LabelInv, WorkloadsAreTyped
        <4> QED
          BY <2>1, <4>1, <4>2 DEF IsHandled
      <3> QED
        BY <3>1, <3>2, <3>3 DEF KeepsEnable
    <2> QED
      BY <1>1, <2>2, <2>3, <2>4, WorkSeen
  <1>5. CASE RestartPodsOfReplicaSet(a) \/ RestartPodsFails(a)
    <2>1. /\ WorkFrame(a) /\ run'[a].kinds = run[a].kinds /\ run'[a].todo = run[a].todo
          /\ UNCHANGED workload \/ \E w \in Live : Store(w, [workload[w] EXCEPT !.running = workload[w].version])
      BY <1>5, RestartPodsOutcome
    <2>2. KeepsEnable
      <3>1. ASSUME NEW w \in Live, Store(w, [workload[w] EXCEPT !.running = workload[w].version])
            PROVE  KeepsEnable
        <4> DEFINE new == [workload[w] EXCEPT !.running = workload[w].version]
        <4>1. workload[w] \in WorkloadObjects /\ w \in Workloads /\ DOMAIN workload = Workloads
          BY DEF LabelInv, WorkloadsAreTyped, Live
        <4>2. new \in WorkloadObjects /\ new.enable = workload[w].enable
          BY <4>1 DEF WorkloadObjects
        <4>3. workload' = [workload EXCEPT ![w] = new]
          BY <3>1 DEF Store
        <4> HIDE DEF new
        <4>4. workload'[w] = new /\ \A v \in Workloads : v # w => workload'[v] = workload[v]
          BY <4>1, <4>3
        <4> QED
          BY <4>2, <4>4 DEF KeepsEnable, Mutable, Live
      <3> QED
        BY <2>1, <3>1, KeptEnable
    <2> QED
      BY <1>1, <2>1, <2>2, WorkSeen
  <1> QED
    BY <1>2, <1>3, <1>4, <1>5 DEF Instrument, Fails

\* An active webhook stays active as long as a run relies on it.
LEMMA InformerSeen ==
  ASSUME LabelInv, ControlInv, SeenInv, InformerEvent
  PROVE  SeenInv'
  <1>1. UNCHANGED <<scenario, workload, run>> /\ cache' = monitoring
    BY DEF InformerEvent
  <1>2. \A v : v \in Mutable' <=> v \in Mutable
    BY <1>1 DEF Mutable, Live
  <1>3. ASSUME NEW a \in Actors, IsAtWork(run[a]), run[a].op = "instrument", WebhookIsActive(cache)
        PROVE  WebhookIsActive(cache')
    <2>1. AllInForce /\ monitoring \in MonitoringResources
      BY <1>3, WorkAgrees DEF Agreement
    <2>2. cache # Absent /\ Follows(cache, monitoring)
      BY <1>3 DEF ControlInv, CacheFollows, Quiescent, IsAtWork, WebhookIsActive
    <2>3. monitoring.cond = "available"
      BY <1>3, <2>2 DEF Follows, WebhookIsActive
    <2> QED
      BY <1>1, <2>1, <2>3 DEF WebhookIsActive, AllInForce, Removing
  <1> QED
    BY <1>1, <1>2, <1>3 DEF SeenInv

\* Users deploy when the webhook has taken notice of the resource.
LEMMA UserSeen ==
  ASSUME LabelInv, PodsInv, ControlInv, SeenInv, NEW w \in Workloads,
         CreateWorkload(w) \/ UpdateWorkload(w) \/ DeleteWorkload(w)
  PROVE  SeenInv'
  <1>1. /\ UNCHANGED <<scenario, monitoring, cache, run>>
        /\ \A v \in Workloads : v # w => workload'[v] = workload[v]
        /\ workload'[w] = Gone \/ (RolledOut(w) => \E obj : IsDeployed(w, obj))
        /\ w \in Live \/ workload[w] = Unborn
    BY UserOutcome DEF WorkloadFrame
  <1>2. \A v \in Workloads : v # w => (v \in Mutable' <=> v \in Mutable)
    BY <1>1 DEF Mutable, Live
  <1>3. SUFFICES ASSUME NEW a \in Actors, IsAtWork(run[a]), NEW v \in DOMAIN run[a].todo, v \in Mutable'
                 PROVE  /\ v \notin scenario.editable => run[a].todo[v].enable = workload'[v].enable
                        /\ (~scenario.earlyDeploy /\ run[a].op = "instrument" /\ run[a].todo[v].enable # workload'[v].enable)
                              => WebhookIsActive(cache)
    BY <1>1 DEF SeenInv
  <1>4. CASE v # w
    <2>1. v \in Workloads
      BY <1>3 DEF Mutable, Live
    <2>2. v \in Mutable /\ workload'[v] = workload[v]
      BY <1>1, <1>2, <1>3, <1>4, <2>1
    <2> QED
      BY <1>3, <2>2 DEF SeenInv
  <1>5. CASE v = w
    <2>1. workload[w] # Unborn
      BY <1>3, <1>5 DEF LabelInv, ListIsUsable
    <2>2. w \in Live /\ RolledOut(w) /\ workload'[w] # Gone
      BY <1>1, <1>3, <1>5, <2>1 DEF Mutable, Live, RolledOut
    <2>3. w \in scenario.editable /\ MayDeploy
      BY <1>1, <2>2 DEF IsDeployed
    <2>4. ASSUME ~scenario.earlyDeploy, run[a].op = "instrument" PROVE WebhookIsActive(cache)
      <3>1. HookFits /\ AllInForce /\ monitoring # Absent
        BY <1>3, <2>4, WorkAgrees, ConstantsAssumption DEF Agreement
      <3>2. cache # Absent /\ cache.cond = "available"
        BY <2>3, <2>4, <3>1 DEF MayDeploy
      <3>3. SameSpec(cache, monitoring) /\ ~cache.marked
        BY <3>1, <3>2 DEF HookFits, AllInForce
      <3>4. cache.mode = "all"
        BY <3>1, <3>3 DEF SameSpec, AllInForce
      <3> QED
        BY <3>2, <3>3, <3>4 DEF WebhookIsActive
    <2> QED
      BY <1>5, <2>3, <2>4
  <1> QED
    BY <1>4, <1>5

\* The labels that a run has listed are the current ones, or the webhook is active.
LEMMA NextKeepsSeen ==
  ASSUME LabelInv, PodsInv, ControlInv, SeenInv, scenario.promptReconcile, [Next]_vars
  PROVE  SeenInv'
  <1>1. CASE Restart
    <2>1. \A a \in Actors : run'[a] \in {Idle, InitialRun}
      BY <1>1 DEF Restart
    <2>2. \A a \in Actors : run'[a].pc \in {"idle", "pending"}
      BY <2>1, WorkFields
    <2> QED
      BY <2>2 DEF SeenInv, IsAtWork
  <1>2. CASE ChangeMonitoring
    <2>1. Settled /\ UNCHANGED run
      BY <1>2, ChangeOutcome
    <2> QED
      BY <2>1 DEF SeenInv, Settled, IsAtWork
  <1>3. CASE UNCHANGED vars
    <2>1. UNCHANGED <<scenario, workload, cache, run>>
      BY <1>3 DEF vars
    <2> QED
      BY <2>1 DEF SeenInv, Mutable, Live, WebhookIsActive
  <1>4. CASE \E w \in Workloads : CreateWorkload(w) \/ UpdateWorkload(w) \/ DeleteWorkload(w)
    BY <1>4, UserSeen
  <1>5. CASE Reconcile
    BY <1>5, ReconcileSeen
  <1>6. CASE InstrumentAtStartup \/ FinishStartup
    BY <1>6, StartupSeen
  <1>7. CASE \E a \in Actors : Instrument(a) \/ Fails(a)
    BY <1>7, InstrumentSeen
  <1>8. CASE InformerEvent
    BY <1>8, InformerSeen
  <1> QED
    BY <1>1, <1>2, <1>3, <1>4, <1>5, <1>6, <1>7, <1>8 DEF Next, Users

LEMMA InitSeen ==
  ASSUME Init
  PROVE  SeenInv /\ StartupCounts
  <1>1. /\ \A a \in Actors : run[a] \in {Idle, InitialRun}
        /\ ~scenario.operatorIsStarting => run["startup"] = Idle
    BY ActorsAre DEF Init
  <1>2. \A a \in Actors : run[a].pc \in {"idle", "pending"}
    BY <1>1, WorkFields
  <1>3. ~scenario.operatorIsStarting => run["startup"].pc = "idle"
    BY <1>1, WorkFields
  <1> QED
    BY <1>2, <1>3 DEF SeenInv, IsAtWork, StartupCounts

LEMMA CountsStay ==
  ASSUME LabelInv, PodsInv, StartupCounts, UNCHANGED scenario, run'["startup"].pc # "idle" => run["startup"].pc # "idle",
         UNCHANGED used \/ \E b \in Bounds : Spend(b)
  PROVE  StartupCounts'
  <1>1. used.restarts # 0 => used'.restarts # 0
    <2>1. ASSUME NEW b \in Bounds, Spend(b) PROVE used.restarts # 0 => used'.restarts # 0
      <3>1. "restarts" \in Bounds
        BY DEF Bounds
      <3> QED
        BY <2>1, <3>1, SpentIsNotZero
    <2> QED
      BY <2>1
  <1> QED
    BY <1>1 DEF StartupCounts

\* A startup pass is under way only after a start.
LEMMA NextKeepsCounts ==
  ASSUME LabelInv, PodsInv, ControlInv, StartupCounts, scenario.promptReconcile, [Next]_vars
  PROVE  StartupCounts'
  <1>0. "restarts" \in Bounds /\ "listFailures" \in Bounds /\ "failures" \in Bounds /\ "updates" \in Bounds /\ "monitoringChanges" \in Bounds
    BY DEF Bounds
  <1>1. CASE Restart
    <2>1. used'.restarts # 0
      BY <1>0, <1>1, SpentIsNotZero DEF Restart
    <2> QED
      BY <2>1 DEF StartupCounts
  <1>2. CASE ChangeMonitoring
    <2>1. UNCHANGED <<scenario, run>> /\ Spend("monitoringChanges")
      BY <1>2, ChangeOutcome
    <2> QED
      BY <1>0, <2>1, CountsStay
  <1>3. CASE UNCHANGED vars
    BY <1>3, CountsStay DEF vars
  <1>4. CASE \E w \in Workloads : CreateWorkload(w) \/ UpdateWorkload(w) \/ DeleteWorkload(w)
    <2>1. UNCHANGED <<scenario, run>> /\ Spend("updates")
      BY <1>4, UserOutcome DEF WorkloadFrame
    <2> QED
      BY <1>0, <2>1, CountsStay
  <1>5. CASE Reconcile
    BY <1>5, ReconcileFrame, CountsStay
  <1>6. CASE InstrumentAtStartup \/ FinishStartup
    BY <1>6, StartupOutcome, CountsStay
  <1>7. ASSUME NEW a \in Actors, Instrument(a) \/ Fails(a) PROVE StartupCounts'
    <2>1. UNCHANGED scenario /\ (run'["startup"].pc # "idle" => run["startup"].pc # "idle")
      BY <1>7, WorkIsFramed, ActorsAre DEF WorkFrame, IsAtWork
    <2>2. UNCHANGED used \/ Spend("listFailures") \/ Spend("failures")
      BY <1>7 DEF Instrument, Fails, ListKind, ListKindFails, HandleWorkload, UpdateFails, RestartPodsOfReplicaSet, RestartPodsFails
    <2> QED
      BY <1>0, <2>1, <2>2, CountsStay
  <1>8. CASE InformerEvent
    BY <1>8, CountsStay DEF InformerEvent
  <1> QED
    BY <1>1, <1>2, <1>3, <1>4, <1>5, <1>6, <1>7, <1>8 DEF Next, Users

-----------------------------------------------------------------------------
(* The propagators: the operator recognises its own value by what it has recorded in the status *)

\* The two kinds of users whose propagators the operator always recognises.
OneValue == \A s, t \in SpecsInUse : s.propagators = t.propagators
AlwaysAll ==
  \A s \in SpecsInUse :
    /\ s.mode = "all"
    /\ \A e \in scenario.enables : ShouldBeInstrumented(NewWorkload(e), s.selector)
    /\ \A w \in Workloads : scenario.workloads[w] \notin {Unborn, Gone} =>
         ShouldBeInstrumented(scenario.workloads[w], s.selector)

\* The copies of the resource that the operator acts by.
IsBusy(r) == r.pc \notin {"idle", "pending"}
Copies ==
  {c \in {monitoring, cache} \cup {run[a].m : a \in {b \in Actors : IsBusy(run[b])}} : c # Absent}

\* Workload objects never have other propagators than the operator's, and all of the labels that
\* every selector matches.
Strict == AlwaysAll /\ Undisturbed
Sane(obj) ==
  /\ OneValue => \A s \in SpecsInUse : obj.propagators \in {NoPropagators, s.propagators}
  /\ Strict =>
       /\ \A s \in SpecsInUse : ShouldBeInstrumented(obj, s.selector)
       /\ obj.version = 0 => obj.propagators = NoPropagators
Tells(obj, c) == Strict => Recognised(obj, c)

PropagatorsInv ==
  /\ \A c \in Copies : SpecOf(c) \in SpecsInUse
  /\ \A w \in Mutable : Sane(workload[w]) /\ \A c \in Copies : Tells(workload[w], c)
  /\ \A a \in Actors : IsAtWork(run[a]) => \A w \in DOMAIN run[a].todo : RolledOut(w) =>
       Sane(run[a].todo[w]) /\ Tells(run[a].todo[w], run[a].m)

\* The copies one by one.
LEMMA CopiesAre ==
  \A c : c \in Copies <=>
    c # Absent /\ (c = monitoring \/ c = cache \/ \E a \in Actors : IsBusy(run[a]) /\ c = run[a].m)
  BY DEF Copies

LEMMA CopiesAreTyped ==
  ASSUME LabelInv
  PROVE  \A c \in Copies : c \in MonitoringResources
  BY CopiesAre DEF LabelInv, RunIsTyped, IsBusy

LEMMA RecognisedIs == PropagatorsAreRecognised <=> OneValue \/ AlwaysAll
  BY DEF PropagatorsAreRecognised, OneValue, AlwaysAll

LEMMA SpecFields ==
  ASSUME NEW c
  PROVE  SpecOf(c).mode = c.mode /\ SpecOf(c).selector = c.selector /\ SpecOf(c).propagators = c.propagators
  BY DEF SpecOf

\* The invariant gives what the steps above need.
LEMMA PropagatorsKnown ==
  ASSUME LabelInv, PropagatorsInv
  PROVE  PropagatorsAreKnown
  <1>1. SUFFICES ASSUME Undisturbed, OneValue \/ AlwaysAll, NEW w \in Mutable
                 PROVE  /\ cache # Absent => Recognised(workload[w], cache)
                        /\ \A a \in Actors : IsAtWork(run[a]) =>
                             /\ Recognised(workload[w], run[a].m)
                             /\ w \in DOMAIN run[a].todo => Recognised(run[a].todo[w], run[a].m)
    BY RecognisedIs DEF PropagatorsAreKnown
  <1>2. ASSUME NEW c \in Copies, NEW obj, Sane(obj), Tells(obj, c) PROVE Recognised(obj, c)
    <2>1. CASE AlwaysAll
      BY <1>1, <1>2, <2>1 DEF Tells, Strict
    <2>2. CASE OneValue
      <3>1. SpecOf(c) \in SpecsInUse
        BY <1>2 DEF PropagatorsInv
      <3> QED
        BY <1>2, <2>2, <3>1, SpecFields DEF Sane, Recognised
    <2> QED
      BY <1>1, <2>1, <2>2
  <1>3. cache # Absent => cache \in Copies
    BY CopiesAre
  <1>4. ASSUME NEW a \in Actors, IsAtWork(run[a]) PROVE run[a].m \in Copies
    BY <1>4, CopiesAre, ConstantsAssumption DEF LabelInv, RunIsTyped, IsAtWork, IsBusy
  <1>5. Sane(workload[w]) /\ \A c \in Copies : Tells(workload[w], c)
    BY DEF PropagatorsInv
  <1>6. ASSUME NEW a \in Actors, IsAtWork(run[a]), w \in DOMAIN run[a].todo
        PROVE  Sane(run[a].todo[w]) /\ Tells(run[a].todo[w], run[a].m)
    BY <1>6 DEF PropagatorsInv, Mutable, RolledOut
  <1> QED
    BY <1>2, <1>3, <1>4, <1>5, <1>6

\* The scenario never changes, and what is disturbed stays so.
LEMMA SaneStays ==
  ASSUME UNCHANGED scenario, Undisturbed' => Undisturbed
  PROVE  /\ SpecsInUse' = SpecsInUse /\ (Strict' => Strict) /\ (OneValue' <=> OneValue) /\ (AlwaysAll' <=> AlwaysAll)
         /\ \A obj : Sane(obj) => Sane(obj)'
         /\ \A obj, c : Tells(obj, c) => Tells(obj, c)'
  <1>1. SpecsInUse' = SpecsInUse
    BY DEF SpecsInUse
  <1>2. OneValue' <=> OneValue
    BY <1>1 DEF OneValue
  <1>3. AlwaysAll' <=> AlwaysAll
    BY <1>1 DEF AlwaysAll
  <1>4. Strict' => Strict
    BY <1>3 DEF Strict
  <1> HIDE DEF OneValue, Strict, SpecsInUse
  <1>5. ASSUME NEW obj, Sane(obj) PROVE Sane(obj)'
    BY <1>1, <1>2, <1>4, <1>5 DEF Sane
  <1>6. ASSUME NEW obj, NEW c, Tells(obj, c) PROVE Tells(obj, c)'
    BY <1>4, <1>6 DEF Tells
  <1> QED
    BY <1>1, <1>2, <1>3, <1>4, <1>5, <1>6

\* What holds of a copy that the invariant speaks of.
Told(c) == SpecOf(c) \in SpecsInUse /\ \A w \in Mutable : Tells(workload[w], c)

LEMMA CopiesAreTold ==
  ASSUME PropagatorsInv
  PROVE  \A c \in Copies : Told(c)
  BY DEF PropagatorsInv, Told

LEMMA NewCopies ==
  \A c \in Copies' :
    c # Absent /\ (c = monitoring' \/ c = cache' \/ \E a \in Actors : IsBusy(run'[a]) /\ c = run'[a].m)
  BY DEF Copies

\* Steps that change no workload: every copy of the resource is as recognisable as before.
LEMMA CopyStep ==
  ASSUME PropagatorsInv, UNCHANGED <<scenario, workload>>, Undisturbed' => Undisturbed,
         \A c \in Copies' : SpecOf(c) \in SpecsInUse /\ \A w \in Mutable : Tells(workload[w], c),
         \A a \in Actors : IsAtWork(run'[a]) =>
           \/ run'[a].todo = <<>>
           \/ IsAtWork(run[a]) /\ run'[a].m = run[a].m /\ run'[a].todo = run[a].todo
           \/ /\ IsAtWork(run[a]) /\ run'[a].m = run[a].m /\ run[a].m \in Copies
              /\ \A w \in DOMAIN run'[a].todo : w \in Live /\ run'[a].todo[w] = workload[w]
  PROVE  PropagatorsInv'
  <1>1. /\ SpecsInUse' = SpecsInUse
        /\ \A obj : Sane(obj) => Sane(obj)'
        /\ \A obj, c : Tells(obj, c) => Tells(obj, c)'
    BY SaneStays
  <1>2. \A w : w \in Mutable' <=> w \in Mutable
    BY DEF Mutable, Live
  <1>3. \A c \in Copies' : SpecOf(c) \in SpecsInUse'
    BY <1>1
  <1>4. ASSUME NEW w \in Mutable' PROVE Sane(workload[w])' /\ \A c \in Copies' : Tells(workload[w], c)'
    <2>1. w \in Mutable /\ workload'[w] = workload[w]
      BY <1>2
    <2>2. Sane(workload[w]) /\ \A c \in Copies' : Tells(workload[w], c)
      BY <2>1 DEF PropagatorsInv
    <2> QED
      BY <1>1, <2>1, <2>2
  <1>5. ASSUME NEW a \in Actors, IsAtWork(run'[a]), NEW w \in DOMAIN run'[a].todo, RolledOut(w)
        PROVE  Sane(run[a].todo[w])' /\ Tells(run[a].todo[w], run[a].m)'
    <2>1. Sane(run'[a].todo[w]) /\ Tells(run'[a].todo[w], run'[a].m)
      <3>1. CASE IsAtWork(run[a]) /\ run'[a].m = run[a].m /\ run'[a].todo = run[a].todo
        BY <1>5, <3>1 DEF PropagatorsInv
      <3>2. CASE /\ IsAtWork(run[a]) /\ run'[a].m = run[a].m /\ run[a].m \in Copies
                 /\ \A v \in DOMAIN run'[a].todo : v \in Live /\ run'[a].todo[v] = workload[v]
        <4>1. w \in Mutable /\ run'[a].todo[w] = workload[w]
          BY <1>5, <3>2 DEF Mutable, RolledOut
        <4> QED
          BY <3>2, <4>1 DEF PropagatorsInv
      <3> QED
        BY <1>5, <3>1, <3>2
    <2> QED
      BY <1>1, <2>1
  <1> QED
    BY <1>3, <1>4, <1>5 DEF PropagatorsInv

Like(c, d) == SameSpec(c, d) /\ c.prevPropagators = d.prevPropagators

\* A copy of the same spec and status is as good.
LEMMA LikeIsTold ==
  ASSUME PropagatorsInv, NEW d \in Copies, NEW c, Like(c, d)
  PROVE  SpecOf(c) \in SpecsInUse /\ \A w \in Mutable : Tells(workload[w], c)
  <1>1. SpecOf(c) = SpecOf(d)
    BY DEF Like, SameSpec, SpecOf
  <1>2. ASSUME NEW obj, Tells(obj, d) PROVE Tells(obj, c)
    BY <1>2 DEF Like, SameSpec, Tells, Recognised
  <1> QED
    BY <1>1, <1>2 DEF PropagatorsInv

LEMMA EachIsLike ==
  ASSUME NEW c
  PROVE  Like(c, c)
  BY DEF Like, SameSpec

LEMMA FieldsAreLike ==
  ASSUME NEW m \in MonitoringResources
  PROVE  /\ Like([m EXCEPT !.cond = "unknown"], m) /\ Like([m EXCEPT !.cond = "degraded"], m)
         /\ Like([m EXCEPT !.finalizer = TRUE], m) /\ Like([m EXCEPT !.marked = TRUE], m)
  BY DEF Like, SameSpec, MonitoringResources

LEMMA ProceedsWith ==
  ASSUME NEW m, NEW first
  PROVE  Proceed(m, first).m = m
  <1>1. [Idle EXCEPT !.pc = "status", !.m = m].m = m /\ Work(m, WorkRequired(m, first)).m = m
    BY DEF Work, Idle
  <1> QED
    BY <1>1 DEF Proceed

\* The reconciler hands on the copy it has read.
IsHandedOn(c) == \E d \in Copies : Like(c, d)

\* All steps of the reconciler but the last hand on the copy.
LEMMA ReconcileCopies ==
  ASSUME LabelInv, ControlInv, Reconcile, ~UpdateStatusAfterReconcile
  PROVE  /\ monitoring' = Absent \/ IsHandedOn(monitoring')
         /\ IsBusy(run'["reconcile"]) => IsHandedOn(run'["reconcile"].m)
  <1> DEFINE old == run["reconcile"].m
             r == run'["reconcile"]
  <1>0. /\ cache # Absent => cache \in Copies
        /\ monitoring # Absent => monitoring \in Copies
        /\ run["reconcile"].pc \notin {"idle", "pending"} => old \in Copies /\ old \in MonitoringResources
        /\ cache # Absent => cache \in MonitoringResources
    BY CopiesAre, ActorsAre, ConstantsAssumption DEF LabelInv, RunIsTyped, IsBusy
  <1>a. ASSUME UNCHANGED monitoring PROVE monitoring' = Absent \/ IsHandedOn(monitoring')
    BY <1>0, <1>a, EachIsLike DEF IsHandedOn
  <1>b. ASSUME r = Idle PROVE ~IsBusy(r)
    BY <1>b, WorkFields DEF IsBusy
  <1>c. CASE IsRequeued
    BY <1>a, <1>b, <1>c DEF IsRequeued
  <1>1. CASE BeginReconcile
    <2> DEFINE unknown == [cache EXCEPT !.cond = "unknown"]
    <2>1. CASE cache = Absent /\ UNCHANGED <<monitoring, run>>
      <3>1. ~IsBusy(r)
        BY <1>1, <2>1, BeginOutcome DEF IsBusy
      <3> QED
        BY <1>a, <2>1, <3>1
    <2>2. CASE cache \in MonitoringResources /\ r.m = cache /\ UNCHANGED monitoring
      BY <1>0, <1>a, <2>2, EachIsLike, ConstantsAssumption DEF IsHandedOn
    <2>3. CASE cache \in MonitoringResources /\ r.m = unknown /\ monitoring' = unknown
      <3>1. Like(unknown, cache) /\ cache \in Copies
        BY <1>0, <2>3, FieldsAreLike, ConstantsAssumption
      <3> QED
        BY <2>3, <3>1 DEF IsHandedOn
    <2> QED
      BY <1>c, <1>1, <2>1, <2>2, <2>3, BeginOutcome
  <1>2. CASE HandleFinalizers
    <2> DEFINE first == run["reconcile"].first
               withFinalizer == [old EXCEPT !.finalizer = TRUE]
    <2>1. /\ old \in MonitoringResources /\ run["reconcile"].pc = "finalizers"
          /\ \/ IsRequeued
             \/ ~old.marked /\ old.finalizer /\ r = Proceed(old, first) /\ UNCHANGED monitoring
             \/ ~old.marked /\ r = Proceed(withFinalizer, first) /\ monitoring = old /\ monitoring' = withFinalizer
             \/ old.marked /\ ~old.finalizer /\ UNCHANGED monitoring
             \/ /\ old.marked /\ old.cond = "available" /\ UNCHANGED monitoring
                /\ r.pc = "work" /\ r.m = old /\ r.op = "uninstrument" /\ r.kinds = KindOrder
             \/ old.marked /\ old.cond # "available" /\ r.pc = "cleanup" /\ r.m = old /\ UNCHANGED monitoring
      BY <1>2, FinalizersOutcome
    <2>2. old \in Copies /\ Like(withFinalizer, old) /\ Like(old, old)
      BY <1>0, <2>1, FieldsAreLike, EachIsLike
    <2>3. ~(old.marked /\ ~old.finalizer)
      BY <2>1 DEF ControlInv, ReconcilerFollows, Follows, Sound
    <2> HIDE DEF withFinalizer
    <2>4. Proceed(old, first).m = old /\ Proceed(withFinalizer, first).m = withFinalizer
      BY ProceedsWith
    <2>5. CASE ~old.marked /\ old.finalizer /\ r = Proceed(old, first) /\ UNCHANGED monitoring
      <3>1. r.m = old
        BY <2>4, <2>5
      <3> QED
        BY <1>a, <2>2, <2>5, <3>1 DEF IsHandedOn
    <2>6. CASE ~old.marked /\ r = Proceed(withFinalizer, first) /\ monitoring = old /\ monitoring' = withFinalizer
      <3>1. r.m = withFinalizer
        BY <2>4, <2>6
      <3> QED
        BY <2>2, <2>6, <3>1 DEF IsHandedOn
    <2>7. CASE r.m = old /\ UNCHANGED monitoring
      BY <1>a, <2>2, <2>7 DEF IsHandedOn
    <2> QED
      BY <1>c, <2>1, <2>3, <2>5, <2>6, <2>7
  <1>3. CASE FinishWork
    <2>1. run["reconcile"].pc = "work" /\ UNCHANGED monitoring /\ (IsRequeued \/ r.m = old)
      BY <1>3, FinishWorkOutcome
    <2> QED
      BY <1>0, <1>a, <1>c, <2>1, EachIsLike DEF IsHandedOn
  <1>4. CASE MarkAboutToBeDeleted
    <2> DEFINE new == [old EXCEPT !.cond = "degraded"]
    <2>1. /\ run["reconcile"].pc = "cleanup" /\ old \in MonitoringResources
          /\ \/ IsRequeued
             \/ monitoring = old /\ monitoring' = new /\ r.pc = "removeFinalizer" /\ r.m = new
      BY <1>4, CleanupOutcome
    <2>2. Like(new, old) /\ old \in Copies
      BY <1>0, <2>1, FieldsAreLike
    <2> QED
      BY <1>c, <2>1, <2>2 DEF IsHandedOn
  <1>5. CASE RemoveFinalizer
    BY <1>b, <1>c, <1>5, RemoveFinalizerControl
  <1> QED
    BY <1>1, <1>2, <1>3, <1>4, <1>5 DEF Reconcile

LEMMA HandedOnIsTold ==
  ASSUME PropagatorsInv, NEW c, IsHandedOn(c)
  PROVE  SpecOf(c) \in SpecsInUse /\ \A w \in Mutable : Tells(workload[w], c)
  BY LikeIsTold DEF IsHandedOn

\* The reconciler records the propagators as its own when every workload has them.
LEMMA StatusIsTold ==
  ASSUME LabelInv, PodsInv, ControlInv, ResultInv, PropagatorsInv, UpdateStatusAfterReconcile, ~IsRequeued
  PROVE  /\ SpecOf(monitoring') \in SpecsInUse /\ \A w \in Mutable : Tells(workload[w], monitoring')
         /\ ~IsBusy(run'["reconcile"])
  <1> DEFINE m == run["reconcile"].m
             new == [m EXCEPT !.cond = "available", !.prevMode = m.mode,
                              !.prevSelector = m.selector, !.prevPropagators = m.propagators]
  <1>1. /\ run["reconcile"].pc = "status" /\ m \in MonitoringResources
        /\ monitoring = m /\ monitoring' = new /\ run'["reconcile"] = Idle
    BY StatusOutcome
  <1>2. SameSpec(new, m) /\ new.prevPropagators = m.propagators
    BY <1>1 DEF SameSpec, MonitoringResources
  <1> HIDE DEF new
  <1>3. SpecOf(new) = SpecOf(m)
    BY <1>2 DEF SpecOf, SameSpec
  <1>4. m \in Copies
    BY <1>1, CopiesAre, ConstantsAssumption
  <1>5. SpecOf(m) \in SpecsInUse /\ \A w \in Mutable : Sane(workload[w]) /\ Tells(workload[w], m)
    BY <1>4 DEF PropagatorsInv
  <1>6. ASSUME NEW w \in Mutable, Strict PROVE Recognised(workload[w], new)
    <2>1. m.mode = "all" /\ ~m.marked
      <3>1. m.mode = "all"
        BY <1>5, <1>6, SpecFields DEF Strict, AlwaysAll
      <3>2. ~m.marked
        BY <1>1 DEF ControlInv, ReconcilerFollows
      <3> QED
        BY <3>1, <3>2
    <2>2. CASE Through(m)
      <3>1. m.cond # "degraded"
        BY <1>1, <2>1 DEF ControlInv, ReconcilerFollows, Follows, Sound
      <3>2. m.prevPropagators = m.propagators
        BY <2>1, <2>2, <3>1 DEF Through, PrevIsSpec
      <3> QED
        BY <1>2, <1>5, <1>6, <3>2 DEF Tells, Recognised, SameSpec
    <2>3. CASE ~Through(m)
      <3>1. Complete /\ Undisturbed /\ used.failures = 0
        BY <1>1, <1>6, <2>3 DEF Complete, Strict, Undisturbed, NothingIsSkipped
      <3>2. RightV(w)
        BY <1>6, <3>1 DEF ResultInv, Result
      <3>3. AllInForce
        BY <1>1, <2>1, ConstantsAssumption DEF AllInForce, Removing
      <3>4. ShouldBeInstrumented(workload[w], monitoring.selector)
        BY <1>1, <1>5, <1>6, SpecFields DEF Sane
      <3>5. PropagatorsAreRecognised
        BY <1>6, RecognisedIs DEF Strict
      <3>6. workload[w].propagators = m.propagators
        BY <1>1, <3>2, <3>3, <3>4, <3>5 DEF RightV, MustBeRight, IsRight
      <3> QED
        BY <1>2, <3>6 DEF Recognised, SameSpec
    <2> QED
      BY <2>2, <2>3
  <1>7. ~IsBusy(run'["reconcile"])
    BY <1>1, WorkFields DEF IsBusy
  <1> QED
    BY <1>1, <1>3, <1>5, <1>6, <1>7 DEF Tells

LEMMA ReconcilePropagators ==
  ASSUME LabelInv, PodsInv, ControlInv, ResultInv, PropagatorsInv, Reconcile
  PROVE  PropagatorsInv'
  <1>1. UNCHANGED <<scenario, workload, cache, missed, used>> /\ run'["startup"] = run["startup"]
    BY ReconcileFrame
  <1>2. Undisturbed' => Undisturbed
    BY <1>1 DEF Undisturbed, NothingIsSkipped
  <1>3. \A c \in Copies : Told(c)
    BY CopiesAreTold
  <1>4. /\ monitoring' # Absent => Told(monitoring')
        /\ IsBusy(run'["reconcile"]) => Told(run'["reconcile"].m)
    <2>1. CASE ~UpdateStatusAfterReconcile
      BY <2>1, ReconcileCopies, HandedOnIsTold DEF Told
    <2>2. CASE UpdateStatusAfterReconcile /\ ~IsRequeued
      BY <2>2, StatusIsTold DEF Told
    <2>3. CASE IsRequeued
      <3>1. UNCHANGED monitoring /\ ~IsBusy(run'["reconcile"])
        BY <2>3, WorkFields DEF IsRequeued, IsBusy
      <3> QED
        BY <1>3, <3>1, CopiesAre
    <2> QED
      BY <2>1, <2>2, <2>3
  <1>5. ASSUME NEW c \in Copies' PROVE Told(c)
    BY <1>1, <1>3, <1>4, NewCopies, CopiesAre, ActorsAre
  <1>6. ASSUME NEW a \in Actors, IsAtWork(run'[a])
        PROVE  \/ run'[a].todo = <<>>
               \/ IsAtWork(run[a]) /\ run'[a].m = run[a].m /\ run'[a].todo = run[a].todo
    BY <1>1, <1>6, ReconcileIsFresh, ActorsAre
  <1> QED
    BY <1>1, <1>2, <1>5, <1>6, CopyStep DEF Told

LEMMA StartupPropagators ==
  ASSUME LabelInv, PropagatorsInv, InstrumentAtStartup \/ FinishStartup
  PROVE  PropagatorsInv'
  <1> DEFINE r == run'["startup"]
  <1>1. /\ UNCHANGED <<scenario, workload, monitoring, cache, missed, used>> /\ run'["reconcile"] = run["reconcile"]
        /\ r = Idle \/ (r = Work(cache, "instrument") /\ cache \in MonitoringResources)
    BY StartupOutcome
  <1> HIDE DEF r
  <1>2. /\ IsBusy(r) => r.m = cache
        /\ r.todo = <<>>
    <2>1. Work(cache, "instrument").m = cache /\ Work(cache, "instrument").todo = <<>>
      BY DEF Work, Idle
    <2>2. Idle.pc = "idle" /\ Idle.todo = <<>>
      BY WorkFields
    <2> QED
      BY <1>1, <2>1, <2>2 DEF IsBusy
  <1>3. Undisturbed' => Undisturbed
    BY <1>1 DEF Undisturbed, NothingIsSkipped
  <1>4. ASSUME NEW c \in Copies' PROVE Told(c)
    <2>1. c \in Copies
      BY <1>1, <1>2, <1>4, NewCopies, CopiesAre, ActorsAre DEF r
    <2> QED
      BY <2>1, CopiesAreTold
  <1>5. ASSUME NEW a \in Actors, IsAtWork(run'[a])
        PROVE  \/ run'[a].todo = <<>>
               \/ IsAtWork(run[a]) /\ run'[a].m = run[a].m /\ run'[a].todo = run[a].todo
    BY <1>1, <1>2, <1>5, ActorsAre DEF r
  <1> QED
    BY <1>1, <1>3, <1>4, <1>5, CopyStep DEF Told

LEMMA InformerPropagators ==
  ASSUME LabelInv, PropagatorsInv, InformerEvent
  PROVE  PropagatorsInv'
  <1>1. UNCHANGED <<scenario, workload, monitoring, missed, used, run>> /\ cache' = monitoring
    BY DEF InformerEvent
  <1>2. Undisturbed' => Undisturbed
    BY <1>1 DEF Undisturbed, NothingIsSkipped
  <1>3. ASSUME NEW c \in Copies' PROVE Told(c)
    <2>1. c \in Copies
      BY <1>1, <1>3, NewCopies, CopiesAre
    <2> QED
      BY <2>1, CopiesAreTold
  <1> QED
    BY <1>1, <1>2, <1>3, CopyStep DEF Told

LEMMA RestartPropagators ==
  ASSUME LabelInv, PodsInv, PropagatorsInv, Restart
  PROVE  PropagatorsInv'
  <1>1. UNCHANGED <<scenario, workload, monitoring, missed>> /\ cache' = monitoring /\ Spend("restarts")
        /\ \A a \in Actors : run'[a] \in {Idle, InitialRun}
    BY DEF Restart
  <1>2. \A a \in Actors : run'[a].pc \in {"idle", "pending"}
    BY <1>1, WorkFields
  <1>3. Undisturbed' => Undisturbed
    <2>1. "restarts" \in Bounds
      BY DEF Bounds
    <2> QED
      BY <1>1, <2>1, StaysUndisturbed
  <1>4. ASSUME NEW c \in Copies' PROVE Told(c)
    <2>1. c \in Copies
      BY <1>1, <1>2, <1>4, NewCopies, CopiesAre DEF IsBusy
    <2> QED
      BY <2>1, CopiesAreTold
  <1> QED
    BY <1>1, <1>2, <1>3, <1>4, CopyStep DEF Told, IsAtWork

\* Steps of a run do not change the copies.
LEMMA WorkCopies ==
  ASSUME NEW a \in Actors, WorkFrame(a)
  PROVE  /\ UNCHANGED scenario
         /\ \A c : c \in Copies' <=> c \in Copies
         /\ \A b \in Actors : IsAtWork(run'[b]) => IsAtWork(run[b]) /\ run'[b].m = run[b].m
  <1>1. UNCHANGED <<scenario, monitoring, cache>>
    BY DEF WorkFrame
  <1>2. \A b \in Actors : run'[b] = run[b] \/ (IsAtWork(run[b]) /\ IsAtWork(run'[b]) /\ run'[b].m = run[b].m)
    BY DEF WorkFrame
  <1>3. \A b \in Actors : (IsBusy(run'[b]) <=> IsBusy(run[b])) /\ run'[b].m = run[b].m
    BY <1>2 DEF IsBusy, IsAtWork
  <1>4. ASSUME NEW c PROVE c \in Copies' <=> c \in Copies
    BY <1>1, <1>3 DEF Copies
  <1> QED
    BY <1>1, <1>2, <1>4

LEMMA ListPropagators ==
  ASSUME LabelInv, PodsInv, PropagatorsInv, NEW a \in Actors, ListKind(a) \/ ListKindFails(a)
  PROVE  PropagatorsInv'
  <1>1. WorkFrame(a) /\ UNCHANGED <<workload, missed>> /\ (UNCHANGED used \/ Spend("listFailures"))
    BY ListOutcome, ListFailsOutcome
  <1>2. run'[a].todo = <<>> \/ \A w \in DOMAIN run'[a].todo : w \in Live /\ run'[a].todo[w] = workload[w]
    <2>1. CASE ListKindFails(a)
      BY <2>1, ListFailsOutcome
    <2>2. CASE ListKind(a)
      <3>1. run'[a].todo = [w \in Listed(Head(run[a].kinds), run[a].op) |-> workload[w]]
        BY <2>2, ListOutcome
      <3>2. Listed(Head(run[a].kinds), run[a].op) \subseteq Live
        BY DEF Listed
      <3> QED
        BY <3>1, <3>2
    <2> QED
      BY <2>1, <2>2
  <1>3. Undisturbed' => Undisturbed
    <2>1. "listFailures" \in Bounds
      BY DEF Bounds
    <2>2. UNCHANGED scenario
      BY <1>1 DEF WorkFrame
    <2> QED
      BY <1>1, <2>1, <2>2, StaysUndisturbed
  <1>4. \A c \in Copies' : Told(c)
    BY <1>1, WorkCopies, CopiesAreTold
  <1>5. IsAtWork(run[a]) /\ run'[a].m = run[a].m /\ run[a].m \in Copies
    <2>1. IsAtWork(run[a]) /\ run'[a].m = run[a].m
      BY <1>1 DEF WorkFrame
    <2>2. run[a].m \in MonitoringResources /\ IsBusy(run[a])
      BY <2>1 DEF LabelInv, RunIsTyped, IsAtWork, IsBusy
    <2> QED
      BY <2>1, <2>2, CopiesAre, ConstantsAssumption
  <1>6. ASSUME NEW b \in Actors, IsAtWork(run'[b])
        PROVE  \/ run'[b].todo = <<>>
               \/ IsAtWork(run[b]) /\ run'[b].m = run[b].m /\ run'[b].todo = run[b].todo
               \/ /\ IsAtWork(run[b]) /\ run'[b].m = run[b].m /\ run[b].m \in Copies
                  /\ \A w \in DOMAIN run'[b].todo : w \in Live /\ run'[b].todo[w] = workload[w]
    <2>1. CASE b = a
      BY <1>2, <1>5, <2>1
    <2>2. CASE b # a
      BY <1>1, <1>6, <2>2 DEF WorkFrame
    <2> QED
      BY <2>1, <2>2
  <1>7. UNCHANGED <<scenario, workload>>
    BY <1>1 DEF WorkFrame
  <1> QED
    BY <1>3, <1>4, <1>6, <1>7, CopyStep DEF Told

\* A user changes the propagators: the operator has recorded those the workloads have.
LEMMA ChangePropagators ==
  ASSUME LabelInv, PodsInv, ControlInv, ResultInv, PropagatorsInv, scenario.promptReconcile, ChangeMonitoring
  PROVE  PropagatorsInv'
  <1>1. Settled /\ UNCHANGED <<scenario, workload, cache, run, missed>> /\ Spend("monitoringChanges")
    BY ChangeOutcome
  <1>2. Undisturbed' => Undisturbed
    <2>1. "monitoringChanges" \in Bounds
      BY DEF Bounds
    <2> QED
      BY <1>1, <2>1, StaysUndisturbed
  <1>3. Told(monitoring')
    <2>1. ASSUME monitoring = Absent, NEW s \in scenario.monitoringSpecs, monitoring' = NewMonitoring(s) PROVE Told(monitoring')
      <3>1. s \in SpecsInUse
        BY <2>1 DEF SpecsInUse
      <3>2. s \in MonitoringSpecs
        BY <2>1, ScenariosAssumption DEF LabelInv
      <3>3. SpecOf(monitoring') = s
        BY <2>1, <3>2 DEF NewMonitoring, SpecOf, MonitoringSpecs
      <3>4. ASSUME NEW w \in Mutable, Strict PROVE workload[w].propagators = NoPropagators
        <4>1. Over /\ Removing /\ used.failures = 0
          BY <2>1, <3>4 DEF Over, Removing, Strict, Undisturbed, NothingIsSkipped
        <4>2. RightO(w)
          BY <3>4, <4>1 DEF ResultInv, Result
        <4>3. workload[w].version = 0
          BY <4>1, <4>2 DEF RightO, MustBeClean
        <4> QED
          BY <3>4, <4>3 DEF PropagatorsInv, Sane
      <3> QED
        BY <3>1, <3>3, <3>4 DEF Told, Tells, Recognised
    <2>2. ASSUME monitoring \in MonitoringResources, IsReconciled(monitoring),
                 NEW s \in scenario.monitoringSpecs,
                 monitoring' = [monitoring EXCEPT !.mode = s.mode, !.selector = s.selector, !.propagators = s.propagators]
          PROVE  Told(monitoring')
      <3>1. s \in SpecsInUse
        BY <2>2 DEF SpecsInUse
      <3>2. s \in MonitoringSpecs
        BY <2>2, ScenariosAssumption DEF LabelInv
      <3>3. SpecOf(monitoring') = s /\ monitoring'.prevPropagators = monitoring.prevPropagators
        BY <2>2, <3>2 DEF MonitoringResources, SpecOf, MonitoringSpecs
      <3>4. monitoring.prevPropagators = monitoring.propagators /\ Told(monitoring)
        BY <2>2, CopiesAre, CopiesAreTold, ConstantsAssumption DEF IsReconciled
      <3>5. ASSUME NEW obj, Tells(obj, monitoring) PROVE Tells(obj, monitoring')
        BY <3>3, <3>4, <3>5 DEF Tells, Recognised
      <3> QED
        BY <3>1, <3>3, <3>4, <3>5 DEF Told
    <2>3. ASSUME monitoring \in MonitoringResources, monitoring' = [monitoring EXCEPT !.marked = TRUE]
          PROVE  Told(monitoring')
      <3>1. monitoring \in Copies /\ Like(monitoring', monitoring)
        BY <2>3, CopiesAre, FieldsAreLike, ConstantsAssumption
      <3> QED
        BY <3>1, LikeIsTold DEF Told
    <2> QED
      BY <2>1, <2>2, <2>3, ChangeOutcome
  <1>4. ASSUME NEW c \in Copies' PROVE Told(c)
    <2>1. c \in Copies \/ c = monitoring'
      BY <1>1, <1>4, NewCopies, CopiesAre
    <2> QED
      BY <1>3, <2>1, CopiesAreTold
  <1> QED
    BY <1>1, <1>2, <1>4, CopyStep DEF Told

\* A workload object keeps its propagators, or gets those of m together with the modifications.
Becomes(new, obj, m) ==
  \/ new.version = obj.version /\ new.propagators = obj.propagators
  \/ new.version # 0 /\ new.propagators = m.propagators

LEMMA ModifyBecomes ==
  ASSUME LabelInv, NEW obj \in WorkloadObjects, NEW m, Recognised(obj, m)
  PROVE  Becomes(Modify(obj, m), obj, m)
  <1>1. Modify(obj, m).version = version /\ Modify(obj, m).propagators = m.propagators
    BY ModifyIsRight
  <1>2. version # 0
    BY ConstantsAssumption DEF LabelInv
  <1> QED
    BY <1>1, <1>2 DEF Becomes

\* The propagators that the webhook leaves on a workload.
LEMMA HandleValue ==
  ASSUME LabelInv, NEW w \in Workloads, RolledOut(w), NEW obj, Valid(obj),
         cache # Absent => SpecOf(cache) \in SpecsInUse
  PROVE  LET new == Handle(w, obj)
         IN  /\ new.enable = obj.enable
             /\ new.propagators \in {obj.propagators, NoPropagators} \/ (cache # Absent /\ new.propagators = cache.propagators)
             /\ (Strict /\ Sane(obj) /\ (cache # Absent => Tells(obj, cache))) =>
                   \/ new.version = obj.version /\ new.propagators = obj.propagators
                   \/ new.version # 0 /\ new.propagators = cache.propagators /\ WebhookIsActive(cache)
  <1> DEFINE new == Handle(w, obj)
             consumed == [obj EXCEPT !.ignoreOnce = FALSE]
  <1>0. obj \in WorkloadObjects /\ obj.ignoreOnce \in BOOLEAN
    BY DEF Valid, WorkloadObjects
  <1>1. new.enable = obj.enable
    BY HandleFields
  <1>2. consumed.version = obj.version /\ consumed.propagators = obj.propagators
    BY <1>0, ConsumedFields
  <1>3. Modify(obj, cache).propagators \in {obj.propagators, cache.propagators}
    BY <1>0, ModifyIsRight
  <1>4. Revert(obj, cache).propagators \in {obj.propagators, NoPropagators}
    BY RevertClears
  <1>5. /\ obj.ignoreOnce => new = consumed
        /\ (~obj.ignoreOnce /\ ~WebhookIsActive(cache)) => new = obj
        /\ (~obj.ignoreOnce /\ WebhookIsActive(cache) /\ HasOptedOutOfInstrumentation(obj, cache.selector))
             => new \in {obj, Revert(obj, cache)}
        /\ (~obj.ignoreOnce /\ WebhookIsActive(cache) /\ ShouldBeInstrumented(obj, cache.selector))
             => new = Modify(obj, cache)
    BY <1>0, HandleCases DEF ConsumeIgnoreOnceLabel
  <1>6. WebhookIsActive(cache) => cache # Absent
    BY DEF WebhookIsActive
  <1>7. HasOptedOutOfInstrumentation(obj, cache.selector) <=> ~ShouldBeInstrumented(obj, cache.selector)
    BY DEF HasOptedOutOfInstrumentation
  <1> HIDE DEF new, consumed
  <1>8. new.propagators \in {obj.propagators, NoPropagators} \/ (cache # Absent /\ new.propagators = cache.propagators)
    BY <1>0, <1>2, <1>3, <1>4, <1>5, <1>6, <1>7
  <1>9. ASSUME Strict, Sane(obj), cache # Absent => Tells(obj, cache)
        PROVE  \/ new.version = obj.version /\ new.propagators = obj.propagators
               \/ new.version # 0 /\ new.propagators = cache.propagators /\ WebhookIsActive(cache)
    <2>1. CASE ~obj.ignoreOnce /\ WebhookIsActive(cache)
      <3>1. ShouldBeInstrumented(obj, cache.selector)
        BY <1>6, <1>9, <2>1, SpecFields DEF Sane
      <3>2. Becomes(Modify(obj, cache), obj, cache)
        BY <1>0, <1>6, <1>9, <2>1, ModifyBecomes DEF Tells
      <3> QED
        BY <1>5, <2>1, <3>1, <3>2 DEF Becomes
    <2> QED
      BY <1>2, <1>5, <2>1
  <1> QED
    BY <1>1, <1>8, <1>9 DEF new

\* The propagators that the Instrumenter writes.
LEMMA DesiredValue ==
  ASSUME LabelInv, ControlInv, PropagatorsInv, NEW a \in Actors, IsAtWork(run[a]), run[a].pc = "work",
         NEW w \in Mutable, w \in DOMAIN run[a].todo
  PROVE  LET new == Desired(w, run[a].todo[w], run[a])
             m == run[a].m
         IN  /\ new.propagators \in {workload[w].propagators, NoPropagators, m.propagators}
             /\ (Strict /\ run[a].op = "instrument") => Becomes(new, workload[w], m)
             /\ (Strict /\ run[a].op = "uninstrument") => new.propagators = NoPropagators
  <1> DEFINE seen == run[a].todo[w]
             obj == workload[w]
             m == run[a].m
             new == Desired(w, seen, run[a])
  <1>1. w \in Live /\ w \in Workloads /\ RolledOut(w) /\ Kind[w] # "job"
    BY DEF Mutable, Live, RolledOut
  <1>2. Valid(obj) /\ obj \in WorkloadObjects /\ seen \in WorkloadObjects
    BY <1>1, DesiredIsValid DEF Valid, LabelInv, ListIsUsable
  <1>3. m \in Copies /\ m \in MonitoringResources /\ run[a].op \in {"instrument", "uninstrument"}
    <2>1. m \in MonitoringResources /\ IsBusy(run[a]) /\ run[a].op \in {"instrument", "uninstrument"}
      BY DEF LabelInv, RunIsTyped, IsAtWork, IsBusy
    <2> QED
      BY <2>1, CopiesAre, ConstantsAssumption
  <1>4. Sane(obj) /\ Tells(obj, m) /\ Sane(seen) /\ Tells(seen, m) /\ SpecOf(m) \in SpecsInUse
    BY <1>1, <1>3 DEF PropagatorsInv
  <1>5. CASE run[a].op = "instrument"
    <2> DEFINE should == ShouldBeInstrumented(seen, m.selector)
               unmarked == [obj EXCEPT !.ignoreOnce = FALSE]
               marked == [Modify(obj, m) EXCEPT !.ignoreOnce = TRUE]
    <2>1. new = InstrumentWorkload(seen, obj, m)
      BY <1>1, <1>5 DEF Desired
    <2>2. /\ (should /\ InstrumentationIsUpToDate(seen, m)) => new \in {obj, unmarked}
          /\ (should /\ ~InstrumentationIsUpToDate(seen, m)) => (new = unmarked \/ new = marked)
          /\ (~should /\ seen.label # "true") => new \in {obj, unmarked}
          /\ (~should /\ seen.label = "true") => (new = unmarked \/ new = Revert(obj, m))
      BY <1>2, <2>1, InstrumentCases
    <2>3. unmarked.version = obj.version /\ unmarked.propagators = obj.propagators
      BY <1>2, ConsumedFields
    <2>4. Modify(obj, m) \in WorkloadObjects
      BY <1>2, <1>3, ModifyIsValid DEF Valid, LabelInv
    <2>5. marked.version = Modify(obj, m).version /\ marked.propagators = Modify(obj, m).propagators
      BY <2>4, ConsumedFields
    <2>6. Modify(obj, m).propagators \in {obj.propagators, m.propagators}
      BY <1>2, ModifyIsRight
    <2>7. Revert(obj, m).propagators \in {obj.propagators, NoPropagators}
      BY <1>2, RevertClears
    <2> HIDE DEF new, unmarked, marked
    <2>8. new.propagators \in {obj.propagators, NoPropagators, m.propagators}
      BY <2>2, <2>3, <2>5, <2>6, <2>7
    <2>9. ASSUME Strict PROVE Becomes(new, obj, m)
      <3>1. should
        BY <1>4, <2>9, SpecFields DEF Sane
      <3>2. Becomes(Modify(obj, m), obj, m)
        BY <1>2, <1>4, <2>9, ModifyBecomes DEF Tells
      <3>3. new \in {obj, unmarked, marked}
        BY <2>2, <3>1
      <3> QED
        BY <2>3, <2>5, <3>2, <3>3 DEF Becomes
    <2> QED
      BY <1>5, <2>8, <2>9 DEF new
  <1>6. CASE run[a].op = "uninstrument"
    <2> DEFINE marked == [Revert(obj, m) EXCEPT !.ignoreOnce = TRUE]
    <2>1. new = RevertWorkloadInstrumentation(obj, m)
      BY <1>1, <1>6 DEF Desired
    <2>2. (new = obj /\ Revert(obj, m) = obj) \/ new = marked
      BY <2>1 DEF RevertWorkloadInstrumentation
    <2>3. Revert(obj, m) \in WorkloadObjects
      BY <1>2, RevertIsValid DEF Valid
    <2>4. marked.propagators = Revert(obj, m).propagators
      BY <2>3, ConsumedFields
    <2>5. Revert(obj, m).propagators \in {obj.propagators, NoPropagators}
      BY <1>2, RevertClears
    <2> HIDE DEF new, marked
    <2>6. new.propagators = Revert(obj, m).propagators
      BY <2>2, <2>4
    <2>7. ASSUME Strict PROVE Revert(obj, m).propagators = NoPropagators
      <3>1. m.mode = "all"
        BY <1>4, <2>7, SpecFields DEF Strict, AlwaysAll
      <3>2. a = "reconcile"
        BY <1>6, ActorsAre DEF ControlInv, StartupFollows
      <3>3. m.marked /\ Follows(m, monitoring)
        BY <1>6, <3>1, <3>2 DEF ControlInv, ReconcilerFollows, IsAtWork
      <3>4. m.prevPropagators = m.propagators
        BY <3>3 DEF Follows, Sound, PrevIsSpec
      <3>5. obj.propagators \in {NoPropagators, m.propagators} /\ (obj.version = 0 => obj.propagators = NoPropagators)
        BY <1>4, <2>7, <3>4 DEF Tells, Recognised, Sane
      <3> QED
        BY <1>2, <3>5, RevertClears
    <2> QED
      BY <1>6, <2>5, <2>6, <2>7 DEF new
  <1> QED
    BY <1>3, <1>5, <1>6

\* Every copy tells the propagators that the operator writes now.
LEMMA CopiesAgree ==
  ASSUME LabelInv, ControlInv, monitoring # Absent, ~(Quiescent /\ JustChanged(monitoring, cache))
  PROVE  \A c \in Copies : SameSpec(c, monitoring)
  <1>1. cache # Absent => SameSpec(cache, monitoring)
    BY DEF ControlInv, CacheFollows, Follows, AgreesWith
  <1>2. ASSUME NEW a \in Actors, IsBusy(run[a]) PROVE SameSpec(run[a].m, monitoring)
    <2>1. CASE a = "reconcile"
      BY <1>2, <2>1 DEF ControlInv, ReconcilerFollows, Follows, AgreesWith, IsBusy
    <2>2. CASE a = "startup"
      BY <1>2, <2>2 DEF ControlInv, StartupFollows, AgreesWith, IsBusy, IsAtWork
    <2> QED
      BY <2>1, <2>2, ActorsAre
  <1>3. SameSpec(monitoring, monitoring)
    BY DEF SameSpec
  <1> QED
    BY <1>1, <1>2, <1>3, CopiesAre

\* What an active webhook writes is told by every copy, also while a change has not been noticed.
LEMMA CacheIsTold ==
  ASSUME LabelInv, ControlInv, WebhookIsActive(cache)
  PROVE  \A c \in Copies : cache.propagators \in {c.propagators, c.prevPropagators}
  <1>0. cache # Absent /\ ~cache.marked /\ cache \in Copies
    BY CopiesAre DEF WebhookIsActive
  <1>1. CASE Quiescent /\ JustChanged(monitoring, cache)
    <2>1. monitoring.prevPropagators = cache.propagators
      BY <1>0, <1>1 DEF JustChanged
    <2>2. \A c \in Copies : c = monitoring \/ c = cache
      BY <1>1, CopiesAre DEF Quiescent, IsBusy
    <2> QED
      BY <2>1, <2>2
  <1>2. CASE ~(Quiescent /\ JustChanged(monitoring, cache))
    <2>1. monitoring # Absent
      BY <1>0, <1>2 DEF ControlInv, CacheFollows, Follows, AgreesWith
    <2>2. \A c \in Copies : SameSpec(c, monitoring)
      BY <1>2, <2>1, CopiesAgree
    <2> QED
      BY <1>0, <2>2 DEF SameSpec
  <1> QED
    BY <1>1, <1>2

\* Steps that change one workload, and no copy of the resource.
LEMMA ObjectStep ==
  ASSUME LabelInv, PropagatorsInv, UNCHANGED scenario, Undisturbed' => Undisturbed,
         \A c : c \in Copies' <=> c \in Copies,
         \A a \in Actors : IsAtWork(run'[a]) =>
            /\ IsAtWork(run[a]) /\ run'[a].m = run[a].m /\ DOMAIN run'[a].todo \subseteq DOMAIN run[a].todo
            /\ \A v \in DOMAIN run'[a].todo : run'[a].todo[v] = run[a].todo[v],
         NEW w \in Workloads, \A v \in Workloads : v # w => workload'[v] = workload[v],
         w \in Mutable' => Sane(workload[w])' /\ \A c \in Copies : Tells(workload[w], c)'
  PROVE  PropagatorsInv'
  <1>1. /\ SpecsInUse' = SpecsInUse
        /\ \A obj : Sane(obj) => Sane(obj)'
        /\ \A obj, c : Tells(obj, c) => Tells(obj, c)'
    BY SaneStays
  <1>2. \A c \in Copies' : SpecOf(c) \in SpecsInUse'
    BY <1>1 DEF PropagatorsInv
  <1>3. ASSUME NEW v \in Mutable' PROVE Sane(workload[v])' /\ \A c \in Copies' : Tells(workload[v], c)'
    <2>1. CASE v = w
      BY <1>3, <2>1
    <2>2. CASE v # w
      <3>1. v \in Workloads
        BY <1>3 DEF Mutable, Live
      <3>2. workload'[v] = workload[v] /\ v \in Mutable
        BY <1>3, <2>2, <3>1 DEF Mutable, Live
      <3>3. Sane(workload[v]) /\ \A c \in Copies' : Tells(workload[v], c)
        BY <3>2 DEF PropagatorsInv
      <3> QED
        BY <1>1, <3>2, <3>3
    <2> QED
      BY <2>1, <2>2
  <1>4. ASSUME NEW a \in Actors, IsAtWork(run'[a]), NEW v \in DOMAIN run'[a].todo, RolledOut(v)
        PROVE  Sane(run[a].todo[v])' /\ Tells(run[a].todo[v], run[a].m)'
    <2>1. Sane(run[a].todo[v]) /\ Tells(run[a].todo[v], run[a].m)
      BY <1>4 DEF PropagatorsInv
    <2>2. run'[a].todo[v] = run[a].todo[v] /\ run'[a].m = run[a].m
      BY <1>4
    <2> QED
      BY <1>1, <2>1, <2>2
  <1> QED
    BY <1>2, <1>3, <1>4 DEF PropagatorsInv

\* What the operator makes of a sane object is sane.
LEMMA SaneValue ==
  ASSUME PropagatorsInv, NEW obj, Sane(obj), NEW new, new.enable = obj.enable,
         \/ new.propagators \in {obj.propagators, NoPropagators}
         \/ \E c \in Copies : new.propagators = c.propagators,
         Strict => \/ new.version = obj.version /\ new.propagators = obj.propagators
                   \/ new.version # 0
                   \/ new.propagators = NoPropagators
  PROVE  Sane(new)
  <1>1. ASSUME OneValue, NEW s \in SpecsInUse PROVE new.propagators \in {NoPropagators, s.propagators}
    <2>1. \A c \in Copies : c.propagators = s.propagators
      <3>1. ASSUME NEW c \in Copies PROVE c.propagators = s.propagators
        <4>1. SpecOf(c) \in SpecsInUse /\ SpecOf(c).propagators = c.propagators
          BY <3>1, SpecFields DEF PropagatorsInv
        <4> QED
          BY <1>1, <4>1 DEF OneValue
      <3> QED
        BY <3>1
    <2> QED
      BY <1>1, <2>1 DEF Sane
  <1>2. ASSUME Strict, NEW s \in SpecsInUse PROVE ShouldBeInstrumented(new, s.selector)
    BY <1>2 DEF Sane, ShouldBeInstrumented
  <1>3. ASSUME Strict, new.version = 0 PROVE new.propagators = NoPropagators
    BY <1>3 DEF Sane
  <1> QED
    BY <1>1, <1>2, <1>3 DEF Sane

\* The webhook leaves no value that the operator cannot tell later.
LEMMA HookKeepsSane ==
  ASSUME LabelInv, ControlInv, PropagatorsInv, NEW w \in Workloads, RolledOut(w), NEW obj, Valid(obj), Sane(obj),
         \A c \in Copies : Tells(obj, c)
  PROVE  Sane(Handle(w, obj)) /\ \A c \in Copies : Tells(Handle(w, obj), c)
  <1> DEFINE new == Handle(w, obj)
  <1>1. cache # Absent => cache \in Copies /\ SpecOf(cache) \in SpecsInUse /\ Tells(obj, cache)
    BY CopiesAre DEF PropagatorsInv
  <1>2. /\ new.enable = obj.enable
        /\ new.propagators \in {obj.propagators, NoPropagators} \/ (cache # Absent /\ new.propagators = cache.propagators)
        /\ (Strict /\ Sane(obj) /\ (cache # Absent => Tells(obj, cache))) =>
              \/ new.version = obj.version /\ new.propagators = obj.propagators
              \/ new.version # 0 /\ new.propagators = cache.propagators /\ WebhookIsActive(cache)
    BY <1>1, HandleValue
  <1> HIDE DEF new
  <1>3. Sane(new)
    BY <1>1, <1>2, SaneValue
  <1>4. ASSUME NEW c \in Copies, Strict PROVE Recognised(new, c)
    <2>1. CASE new.propagators = obj.propagators
      BY <1>4, <2>1 DEF Tells, Recognised
    <2>2. CASE new.propagators = cache.propagators /\ WebhookIsActive(cache)
      BY <1>4, <2>2, CacheIsTold DEF Recognised
    <2> QED
      BY <1>1, <1>2, <1>4, <2>1, <2>2
  <1> QED
    BY <1>3, <1>4 DEF new, Tells

LEMMA HandlePropagators ==
  ASSUME LabelInv, PodsInv, ControlInv, PropagatorsInv, NEW a \in Actors, NEW w, IsHandled(a, w)
  PROVE  PropagatorsInv'
  <1> DEFINE seen == run[a].todo[w]
             obj == workload[w]
             m == run[a].m
             new == Desired(w, seen, run[a])
  <1>1. WorkFrame(a) /\ w \in DOMAIN run[a].todo /\ run[a].pc = "work" /\ IsAtWork(run[a]) /\ w \in Workloads
        /\ run'[a].todo = Without(run[a].todo, w) /\ UNCHANGED scenario
    BY DEF IsHandled, WorkFrame, LabelInv, ListIsUsable
  <1>2. Mutable' \subseteq Mutable /\ \A v \in Workloads : v # w => workload'[v] = workload[v]
    BY OthersStay
  <1>3. Undisturbed' => Undisturbed
    <2>1. "failures" \in Bounds /\ (UNCHANGED used \/ Spend("failures"))
      BY DEF IsHandled, Bounds
    <2>2. missed' = missed \/ missed' = missed + 1
      BY DEF IsHandled, Update, Admit
    <2> QED
      BY <1>1, <2>1, <2>2, StaysUndisturbed
  <1>4. /\ \A x : Sane(x) => Sane(x)'
        /\ \A x, c : Tells(x, c) => Tells(x, c)'
    BY <1>1, <1>3, SaneStays
  <1>5. ASSUME w \in Mutable
        PROVE  /\ Sane(obj) /\ \A c \in Copies : Tells(obj, c)
               /\ Valid(new) /\ Sane(new) /\ \A c \in Copies : Tells(new, c)
    <2>1. w \in Live /\ RolledOut(w) /\ Kind[w] # "job" /\ m \in MonitoringResources
      BY <1>1, <1>5 DEF Mutable, RolledOut, LabelInv, RunIsTyped, IsAtWork
    <2>2. Valid(new)
      BY <1>1, <2>1, DesiredIsValid
    <2>3. new.enable = obj.enable
      BY <1>1, <2>1, DesiredKeepsTheRest DEF SameOtherwise
    <2>4. Sane(obj) /\ \A c \in Copies : Tells(obj, c)
      BY <1>5 DEF PropagatorsInv
    <2>5. /\ new.propagators \in {obj.propagators, NoPropagators, m.propagators}
          /\ (Strict /\ run[a].op = "instrument") => Becomes(new, obj, m)
          /\ (Strict /\ run[a].op = "uninstrument") => new.propagators = NoPropagators
      BY <1>1, <1>5, DesiredValue
    <2>6. Agreement(a)
      BY <1>1, WorkAgrees
    <2>7. m \in Copies
      BY <1>1, <2>1, CopiesAre, ConstantsAssumption DEF IsAtWork, IsBusy
    <2> HIDE DEF new
    <2>8. Strict => Becomes(new, obj, m) \/ new.propagators = NoPropagators
      BY <2>5, <2>6 DEF Agreement
    <2>9. Sane(new)
      BY <2>3, <2>4, <2>5, <2>7, <2>8, SaneValue DEF Becomes
    <2>10. ASSUME NEW c \in Copies, Strict PROVE Recognised(new, c)
      <3>1. CASE new.propagators = obj.propagators
        BY <2>4, <2>10, <3>1 DEF Tells, Recognised
      <3>2. CASE new.propagators = NoPropagators
        BY <3>2 DEF Recognised
      <3>3. CASE run[a].op = "instrument" /\ new.propagators = m.propagators
        <4>1. SameSpec(m, monitoring) /\ monitoring # Absent
          BY <2>6, <3>3, ConstantsAssumption DEF Agreement
        <4>2. ~Quiescent
          BY <1>1 DEF Quiescent, IsAtWork
        <4>3. SameSpec(c, monitoring)
          BY <2>10, <4>1, <4>2, CopiesAgree
        <4> QED
          BY <3>3, <4>1, <4>3 DEF Recognised, SameSpec
      <3> QED
        BY <2>5, <2>6, <2>10, <3>1, <3>2, <3>3 DEF Agreement, Becomes
    <2> QED
      BY <2>2, <2>4, <2>9, <2>10 DEF Tells
  <1>6. ASSUME w \in Mutable'
        PROVE  Sane(workload[w])' /\ \A c \in Copies : Tells(workload[w], c)'
    <2>1. w \in Mutable /\ RolledOut(w) /\ DOMAIN workload = Workloads
      BY <1>2, <1>6 DEF Mutable, RolledOut, LabelInv, WorkloadsAreTyped
    <2>2. UNCHANGED workload \/ Update(w, new)
      BY DEF IsHandled
    <2>3. Valid(new) /\ new \in WorkloadObjects
      BY <1>5, <2>1 DEF Valid
    <2>4. Sane(Handle(w, new)) /\ \A c \in Copies : Tells(Handle(w, new), c)
      BY <1>1, <1>5, <2>1, HookKeepsSane
    <2> HIDE DEF new
    <2>5. UNCHANGED workload \/ Store(w, Handle(w, new)) \/ Store(w, new)
      BY <1>1, <2>1, <2>2, <2>3, UpdateTakesTheLabel
    <2>6. workload'[w] \in {workload[w], Handle(w, new), new}
      BY <1>1, <2>1, <2>5 DEF Store
    <2>7. Sane(workload'[w]) /\ \A c \in Copies : Tells(workload'[w], c)
      BY <1>5, <2>1, <2>4, <2>6
    <2> QED
      BY <1>4, <2>7
  <1>7. ASSUME NEW b \in Actors, IsAtWork(run'[b])
        PROVE  /\ IsAtWork(run[b]) /\ run'[b].m = run[b].m /\ DOMAIN run'[b].todo \subseteq DOMAIN run[b].todo
               /\ \A v \in DOMAIN run'[b].todo : run'[b].todo[v] = run[b].todo[v]
    <2>1. IsAtWork(run[b]) /\ run'[b].m = run[b].m
      BY <1>1, <1>7, WorkCopies
    <2>2. CASE b = a
      BY <1>1, <2>1, <2>2 DEF Without
    <2>3. CASE b # a
      BY <1>1, <2>1, <2>3 DEF WorkFrame
    <2> QED
      BY <2>2, <2>3
  <1>8. \A c : c \in Copies' <=> c \in Copies
    BY <1>1, WorkCopies
  <1> HIDE DEF new
  <1> QED
    BY <1>1, <1>2, <1>3, <1>6, <1>7, <1>8, ObjectStep

LEMMA RestartPodsPropagators ==
  ASSUME LabelInv, PodsInv, PropagatorsInv, NEW a \in Actors, RestartPodsOfReplicaSet(a) \/ RestartPodsFails(a)
  PROVE  PropagatorsInv'
  <1>1. /\ WorkFrame(a) /\ UNCHANGED <<missed, scenario>> /\ run'[a].todo = run[a].todo
        /\ UNCHANGED used \/ Spend("failures")
        /\ UNCHANGED workload \/ \E w \in Live : Store(w, [workload[w] EXCEPT !.running = workload[w].version])
    BY RestartPodsOutcome DEF WorkFrame
  <1>2. Undisturbed' => Undisturbed
    <2>1. "failures" \in Bounds
      BY DEF Bounds
    <2> QED
      BY <1>1, <2>1, StaysUndisturbed
  <1>3. ASSUME NEW b \in Actors, IsAtWork(run'[b])
        PROVE  IsAtWork(run[b]) /\ run'[b].m = run[b].m /\ run'[b].todo = run[b].todo
    <2>1. IsAtWork(run[b]) /\ run'[b].m = run[b].m
      BY <1>1, <1>3, WorkCopies
    <2> QED
      BY <1>1, <2>1 DEF WorkFrame
  <1>4. \A c : c \in Copies' <=> c \in Copies
    BY <1>1, WorkCopies
  <1>5. CASE UNCHANGED workload
    <2>1. \A c \in Copies' : SpecOf(c) \in SpecsInUse /\ \A w \in Mutable : Tells(workload[w], c)
      BY <1>4 DEF PropagatorsInv
    <2> QED
      BY <1>1, <1>2, <1>3, <1>5, <2>1, CopyStep
  <1>6. ASSUME NEW w \in Live, Store(w, [workload[w] EXCEPT !.running = workload[w].version])
        PROVE  PropagatorsInv'
    <2> DEFINE new == [workload[w] EXCEPT !.running = workload[w].version]
    <2>1. workload[w] \in WorkloadObjects /\ w \in Workloads /\ DOMAIN workload = Workloads
      BY <1>6 DEF LabelInv, WorkloadsAreTyped, Live
    <2>2. /\ new.enable = workload[w].enable /\ new.version = workload[w].version
          /\ new.propagators = workload[w].propagators
      BY <2>1 DEF WorkloadObjects
    <2>3. workload' = [workload EXCEPT ![w] = new]
      BY <1>6 DEF Store
    <2> HIDE DEF new
    <2>4. workload'[w] = new /\ \A v \in Workloads : v # w => workload'[v] = workload[v]
      BY <2>1, <2>3
    <2>5. ASSUME w \in Mutable' PROVE Sane(workload[w])' /\ \A c \in Copies : Tells(workload[w], c)'
      <3>1. w \in Mutable
        BY <1>6, <2>5 DEF Mutable
      <3>2. Sane(workload[w]) /\ \A c \in Copies : Tells(workload[w], c)
        BY <3>1 DEF PropagatorsInv
      <3>3. Sane(new)
        BY <2>2, <3>2, SaneValue
      <3>4. \A c \in Copies : Tells(new, c)
        BY <2>2, <3>2 DEF Tells, Recognised
      <3> QED
        BY <1>1, <1>2, <2>4, <3>3, <3>4, SaneStays
    <2> QED
      BY <1>1, <1>2, <1>3, <1>4, <2>1, <2>4, <2>5, ObjectStep
  <1> QED
    BY <1>1, <1>5, <1>6

\* Users deploy workloads whose labels every selector matches.
LEMMA UserPropagators ==
  ASSUME LabelInv, PodsInv, ControlInv, PropagatorsInv, NEW w \in Workloads,
         CreateWorkload(w) \/ UpdateWorkload(w) \/ DeleteWorkload(w)
  PROVE  PropagatorsInv'
  <1>1. /\ UNCHANGED <<scenario, monitoring, cache, run>>
        /\ Spend("updates") /\ (missed' = missed \/ missed' = missed + 1)
        /\ \A v \in Workloads : v # w => workload'[v] = workload[v]
        /\ workload'[w] = Gone \/ (RolledOut(w) => \E obj : IsDeployed(w, obj))
    BY UserOutcome DEF WorkloadFrame
  <1>2. Undisturbed' => Undisturbed
    <2>1. "updates" \in Bounds
      BY DEF Bounds
    <2> QED
      BY <1>1, <2>1, StaysUndisturbed
  <1>3. \A c : c \in Copies' <=> c \in Copies
    BY <1>1 DEF Copies
  <1>4. ASSUME w \in Mutable' PROVE Sane(workload[w])' /\ \A c \in Copies : Tells(workload[w], c)'
    <2>1. RolledOut(w) /\ workload'[w] # Gone
      BY <1>4 DEF Mutable, Live, RolledOut
    <2>2. PICK obj : IsDeployed(w, obj)
      BY <1>1, <2>1
    <2>3. /\ Valid(obj) /\ obj.enable \in scenario.enables
          /\ \/ obj.version = 0 /\ obj.propagators = NoPropagators
             \/ w \in Live /\ obj.version = workload[w].version /\ obj.propagators = workload[w].propagators
          /\ Stored(workload'[w], Handle(w, obj)) \/ Stored(workload'[w], obj)
      BY <2>2 DEF IsDeployed
    <2>4. w \in Live => Sane(workload[w]) /\ \A c \in Copies : Tells(workload[w], c)
      BY <2>1 DEF PropagatorsInv, Mutable, RolledOut
    <2>5. Sane(obj)
      <3>1. ASSUME NEW s \in SpecsInUse, Strict PROVE ShouldBeInstrumented(obj, s.selector)
        <4>1. ShouldBeInstrumented(NewWorkload(obj.enable), s.selector)
          BY <2>3, <3>1 DEF Strict, AlwaysAll
        <4>2. NewWorkload(obj.enable).enable = obj.enable
          BY DEF NewWorkload
        <4> QED
          BY <4>1, <4>2 DEF ShouldBeInstrumented
      <3> QED
        BY <2>3, <2>4, <3>1 DEF Sane
    <2>6. \A c \in Copies : Tells(obj, c)
      BY <2>3, <2>4 DEF Tells, Recognised
    <2>7. Sane(Handle(w, obj)) /\ \A c \in Copies : Tells(Handle(w, obj), c)
      BY <2>1, <2>3, <2>5, <2>6, HookKeepsSane
    <2>8. ASSUME NEW x, Sane(x), \A c \in Copies : Tells(x, c), Stored(workload'[w], x)
          PROVE  Sane(workload'[w]) /\ \A c \in Copies : Tells(workload'[w], c)
      <3>1. Sane(workload'[w])
        BY <2>8, SaneValue DEF Stored
      <3>2. \A c \in Copies : Tells(workload'[w], c)
        BY <2>8 DEF Stored, Tells, Recognised
      <3> QED
        BY <3>1, <3>2
    <2>9. Sane(workload'[w]) /\ \A c \in Copies : Tells(workload'[w], c)
      BY <2>3, <2>5, <2>6, <2>7, <2>8
    <2> QED
      BY <1>1, <1>2, <2>9, SaneStays
  <1> QED
    BY <1>1, <1>2, <1>3, <1>4, ObjectStep

-----------------------------------------------------------------------------
(* All workloads are as configured *)

\* The operator always recognises its own value of OTEL_PROPAGATORS.
LEMMA NextKeepsPropagators ==
  ASSUME LabelInv, PodsInv, ControlInv, ResultInv, PropagatorsInv, scenario.promptReconcile, [Next]_vars
  PROVE  PropagatorsInv'
  <1>1. CASE Restart
    BY <1>1, RestartPropagators
  <1>2. CASE ChangeMonitoring
    BY <1>2, ChangePropagators
  <1>3. CASE UNCHANGED vars
    <2>1. UNCHANGED <<scenario, workload, monitoring, cache, run, missed, used>>
      BY <1>3 DEF vars
    <2>2. (\A c : c \in Copies' <=> c \in Copies) /\ (Undisturbed' => Undisturbed)
      BY <2>1 DEF Copies, Undisturbed, NothingIsSkipped
    <2>3. \A c \in Copies' : SpecOf(c) \in SpecsInUse /\ \A w \in Mutable : Tells(workload[w], c)
      BY <2>2 DEF PropagatorsInv
    <2> QED
      BY <2>1, <2>2, <2>3, CopyStep
  <1>4. CASE \E w \in Workloads : CreateWorkload(w) \/ UpdateWorkload(w) \/ DeleteWorkload(w)
    BY <1>4, UserPropagators
  <1>5. CASE Reconcile
    BY <1>5, ReconcilePropagators
  <1>6. CASE InstrumentAtStartup \/ FinishStartup
    BY <1>6, StartupPropagators
  <1>7. ASSUME NEW a \in Actors, Instrument(a) \/ Fails(a) PROVE PropagatorsInv'
    <2>1. CASE ListKind(a) \/ ListKindFails(a)
      BY <2>1, ListPropagators
    <2>2. CASE HandleWorkload(a) \/ UpdateFails(a)
      BY <2>2, HandleOutcome, HandlePropagators
    <2>3. CASE RestartPodsOfReplicaSet(a) \/ RestartPodsFails(a)
      BY <2>3, RestartPodsPropagators
    <2> QED
      BY <1>7, <2>1, <2>2, <2>3 DEF Instrument, Fails
  <1>8. CASE InformerEvent
    BY <1>8, InformerPropagators
  <1> QED
    BY <1>1, <1>2, <1>3, <1>4, <1>5, <1>6, <1>7, <1>8 DEF Next, Users

\* What has been done stays done, and what is left is taken care of by a run.
LEMMA NextKeepsResult ==
  ASSUME LabelInv, PodsInv, ControlInv, SeenInv, StartupCounts, PropagatorsInv, ResultInv,
         scenario.promptReconcile, [Next]_vars
  PROVE  ResultInv'
  <1>0. PropagatorsAreKnown
    BY PropagatorsKnown
  <1>1. CASE Restart
    BY <1>1, RestartResult
  <1>2. CASE ChangeMonitoring
    BY <1>2, ChangeResult
  <1>3. CASE UNCHANGED vars
    <2>1. UNCHANGED <<scenario, workload, monitoring, cache, version, run, missed, used>>
      BY <1>3 DEF vars
    <2>2. \A w : (RightO(w)' <=> RightO(w)) /\ (RightV(w)' <=> RightV(w))
      <3>1. TargetIsKept
        BY <2>1 DEF TargetIsKept, Removing, AllInForce
      <3> QED
        BY <2>1, <3>1, SameTarget
    <2>3. (Over' <=> Over) /\ (Complete' <=> Complete) /\ (Undisturbed' <=> Undisturbed)
      BY <2>1 DEF Over, Complete, Undisturbed, NothingIsSkipped
    <2>4. \A w : StartupWill(w)' <=> StartupWill(w)
      BY <2>1, SameStartup
    <2>5. \A w : w \in Mutable' <=> w \in Mutable
      BY <2>1 DEF Mutable, Live
    <2>6. \A w : TakesO(run["reconcile"], w)' <=> TakesO(run["reconcile"], w)
      BY <2>1 DEF TakesO, Pending
    <2>7. \A w : TakesV(run["reconcile"], w)' <=> TakesV(run["reconcile"], w)
      <3>1. PropagatorsAreRecognised' <=> PropagatorsAreRecognised
        BY <2>1 DEF PropagatorsAreRecognised, SpecsInUse
      <3> QED
        BY <2>1, <3>1 DEF TakesV, Pending, IsOutdated
    <2> QED
      BY <2>1, <2>2, <2>3, <2>4, <2>5, <2>6, <2>7 DEF ResultInv, Result, ReconcilerWill
  <1>4. CASE \E w \in Workloads : CreateWorkload(w) \/ UpdateWorkload(w) \/ DeleteWorkload(w)
    BY <1>0, <1>4, UserResult
  <1>5. CASE Reconcile
    BY <1>5, ReconcileResult
  <1>6. CASE InstrumentAtStartup \/ FinishStartup
    BY <1>6, StartupResult
  <1>7. ASSUME NEW a \in Actors, Instrument(a) \/ Fails(a) PROVE ResultInv'
    <2>1. CASE ListKind(a)
      BY <2>1, ListResult
    <2>2. CASE ListKindFails(a)
      BY <2>2, ListFailsResult
    <2>3. CASE HandleWorkload(a) \/ UpdateFails(a)
      BY <1>0, <2>3, HandleResult
    <2>4. CASE RestartPodsOfReplicaSet(a) \/ RestartPodsFails(a)
      BY <2>4, RestartPodsResult
    <2> QED
      BY <1>7, <2>1, <2>2, <2>3, <2>4 DEF Instrument, Fails
  <1>8. CASE InformerEvent
    BY <1>8, InformerResult
  <1> QED
    BY <1>1, <1>2, <1>3, <1>4, <1>5, <1>6, <1>7, <1>8 DEF Next, Users

\* What users who wait find when the operator starts.
LEMMA StartsAtRest ==
  ASSUME Init, scenario.promptReconcile
  PROVE  /\ monitoring # Absent => monitoring \in MonitoringResources /\ ~monitoring.marked
         /\ Over => monitoring = Absent \/ monitoring.cond = "available" \/ monitoring.mode = "none"
         /\ \A w \in Mutable :
              /\ (monitoring = Absent \/ monitoring.mode = "none") => workload[w].version = 0
              /\ (monitoring # Absent /\ monitoring.mode = "all" /\ monitoring.cond = "available") =>
                   IF ShouldBeInstrumented(workload[w], monitoring.selector)
                     THEN scenario.operatorIsStarting \/ workload[w].version = 1
                     ELSE workload[w].version = 0
              /\ workload[w].propagators = IF workload[w].version = 0 \/ monitoring = Absent
                                             THEN NoPropagators ELSE monitoring.propagators
  <1>1. /\ scenario \in Scenarios /\ workload = scenario.workloads /\ monitoring = scenario.monitoring
        /\ cache = monitoring
    BY DEF Init
  <1>2. \A w \in Mutable : w \in Workloads /\ workload[w] \notin {Unborn, Gone} /\ Kind[w] \in {"deployment", "replicaset"}
    BY DEF Mutable, Live
  <1>3. /\ \/ monitoring = Absent \/ IsReconciled(monitoring)
           \/ \E spec \in MonitoringSpecs : monitoring = NewMonitoring(spec)
        /\ monitoring \in MonitoringResources \cup {Absent}
    <2>1. monitoring = Absent \/ IsReconciled(monitoring) \/ \E spec \in MonitoringSpecs : monitoring = NewMonitoring(spec)
      BY <1>1, StartAssumption
    <2>2. monitoring \in MonitoringResources \cup {Absent}
      BY <1>1, ScenariosAssumption
    <2> QED
      BY <2>1, <2>2
  <1>4. monitoring # Absent => monitoring \in MonitoringResources /\ ~monitoring.marked
    <2>1. ASSUME NEW spec \in MonitoringSpecs, monitoring = NewMonitoring(spec) PROVE ~monitoring.marked
      BY <2>1 DEF NewMonitoring
    <2>2. IsReconciled(monitoring) => ~monitoring.marked
      BY DEF IsReconciled
    <2> QED
      BY <1>3, <2>1, <2>2
  <1>5. ASSUME Over, monitoring # Absent PROVE monitoring.cond = "available" \/ monitoring.mode = "none"
    <2>1. CASE IsReconciled(monitoring)
      BY <2>1 DEF IsReconciled
    <2>2. ASSUME NEW spec \in MonitoringSpecs, monitoring = NewMonitoring(spec) PROVE monitoring.mode = "none"
      <3>1. run["reconcile"].pc = "idle"
        <4>1. run["reconcile"] = Idle
          BY ActorsAre DEF Init
        <4> QED
          BY <4>1, WorkFields
      <3>2. Through(monitoring)
        BY <1>1, <1>5, <3>1 DEF Over
      <3>3. monitoring.cond = "none" /\ monitoring.prevMode = "" /\ monitoring.mode # ""
        BY <2>2 DEF NewMonitoring, MonitoringSpecs, Modes
      <3> QED
        BY <3>2, <3>3 DEF Through, PrevIsSpec
    <2> QED
      BY <1>3, <1>5, <2>1, <2>2
  <1>6. ASSUME NEW w \in Mutable
        PROVE  /\ (monitoring = Absent \/ monitoring.mode = "none") => workload[w].version = 0
               /\ (monitoring # Absent /\ monitoring.mode = "all" /\ monitoring.cond = "available") =>
                    IF ShouldBeInstrumented(workload[w], monitoring.selector)
                      THEN scenario.operatorIsStarting \/ workload[w].version = 1
                      ELSE workload[w].version = 0
               /\ workload[w].propagators = IF workload[w].version = 0 \/ monitoring = Absent
                                              THEN NoPropagators ELSE monitoring.propagators
    BY <1>1, <1>2, <1>6, StartAssumption
  <1> QED
    BY <1>4, <1>5, <1>6

\* Users who wait start from what the operator has left behind.
LEMMA InitResult ==
  ASSUME Init, scenario.promptReconcile
  PROVE  ResultInv /\ PropagatorsInv
  <1>1. /\ workload = scenario.workloads /\ monitoring = scenario.monitoring /\ scenario \in Scenarios
        /\ cache = monitoring /\ version = 1 /\ run["reconcile"] = Idle /\ missed = 0 /\ DOMAIN run = Actors
        /\ scenario.operatorIsStarting => run["startup"] = InitialRun
        /\ ~scenario.operatorIsStarting => run["startup"] = Idle
    BY ActorsAre DEF Init
  <1>2. /\ \A a \in Actors : run[a].pc \in {"idle", "pending"}
        /\ run["reconcile"].pc = "idle"
        /\ scenario.operatorIsStarting => run["startup"].pc = "pending"
    <2>1. Idle.pc = "idle" /\ InitialRun.pc = "pending"
      BY WorkFields
    <2> QED
      BY <1>1, <2>1, ActorsAre
  <1>3. ASSUME NEW w \in Mutable PROVE Result(w)
    <2>1. ~Complete /\ ReconcilerWill(w)
      BY <1>2 DEF Complete, ReconcilerWill, IsAtWork
    <2>2. Over => RightO(w)
      BY <1>3, StartsAtRest DEF RightO, MustBeClean, Removing, AllInForce, HasOptedOutOfInstrumentation
    <2>3. ASSUME Over PROVE RightV(w) \/ StartupWill(w)
      <3>1. SUFFICES ASSUME AllInForce, ShouldBeInstrumented(workload[w], monitoring.selector)
                     PROVE  IsRight(workload[w]) \/ StartupWill(w)
        BY DEF RightV, MustBeRight
      <3>2. monitoring # Absent /\ ~monitoring.marked /\ monitoring.mode = "all" /\ monitoring.cond = "available"
        BY <2>3, <3>1, StartsAtRest DEF AllInForce, Removing
      <3>3. CASE scenario.operatorIsStarting
        BY <1>1, <1>2, <3>2, <3>3 DEF StartupWill, StartupIsDue
      <3>4. CASE ~scenario.operatorIsStarting
        BY <1>1, <1>3, <3>1, <3>2, <3>4, StartsAtRest DEF IsRight
      <3> QED
        BY <3>3, <3>4
    <2> QED
      BY <2>1, <2>2, <2>3 DEF Result
  <1>4. \A c \in Copies : c = monitoring /\ c # Absent
    BY <1>1, <1>2, CopiesAre DEF IsBusy
  <1>5. monitoring # Absent => SpecOf(monitoring) \in SpecsInUse
    BY <1>1 DEF SpecsInUse
  <1>6. ASSUME NEW w \in Mutable PROVE Sane(workload[w]) /\ \A c \in Copies : Tells(workload[w], c)
    <2>1. workload[w].propagators = IF workload[w].version = 0 \/ monitoring = Absent
                                      THEN NoPropagators ELSE monitoring.propagators
      BY <1>6, StartsAtRest
    <2>2. ASSUME OneValue, NEW s \in SpecsInUse PROVE workload[w].propagators \in {NoPropagators, s.propagators}
      BY <1>5, <2>1, <2>2, SpecFields DEF OneValue
    <2>3. ASSUME Strict, NEW s \in SpecsInUse PROVE ShouldBeInstrumented(workload[w], s.selector)
      <3>1. w \in Workloads /\ scenario.workloads[w] \notin {Unborn, Gone}
        BY <1>1, <1>6 DEF Mutable, Live
      <3> QED
        BY <1>1, <2>3, <3>1 DEF Strict, AlwaysAll
    <2>4. Sane(workload[w])
      BY <2>1, <2>2, <2>3 DEF Sane
    <2> QED
      BY <1>4, <2>1, <2>4 DEF Tells, Recognised
  <1>7. PropagatorsInv
    BY <1>2, <1>4, <1>5, <1>6 DEF PropagatorsInv, IsAtWork
  <1> QED
    BY <1>3, <1>7 DEF ResultInv

\* All of it together. Nothing but the first two parts holds for users who do not wait.
InstrumentationInv ==
  /\ LabelInv /\ PodsInv
  /\ scenario.promptReconcile => ControlInv /\ SeenInv /\ StartupCounts /\ PropagatorsInv /\ ResultInv

\* The inductive invariant.
LEMMA InstrumentationInvHolds == Spec => []InstrumentationInv
  <1>1. Init => InstrumentationInv
    BY InitLabels, InitPods, InitControl, InitSeen, InitResult DEF InstrumentationInv
  <1>2. InstrumentationInv /\ [Next]_vars => InstrumentationInv'
    <2>1. SUFFICES ASSUME InstrumentationInv, [Next]_vars PROVE InstrumentationInv'
      OBVIOUS
    <2>2. LabelInv' /\ PodsInv'
      BY <2>1, NextKeepsLabels, NextKeepsPods DEF InstrumentationInv
    <2>3. UNCHANGED scenario /\ (scenario.promptReconcile => ControlInv')
      BY <2>1, NextKeepsControl DEF InstrumentationInv
    <2>4. ASSUME scenario.promptReconcile
          PROVE  SeenInv' /\ StartupCounts' /\ PropagatorsInv' /\ ResultInv'
      BY <2>1, <2>4, NextKeepsSeen, NextKeepsCounts, NextKeepsPropagators, NextKeepsResult DEF InstrumentationInv
    <2> QED
      BY <2>2, <2>3, <2>4 DEF InstrumentationInv
  <1> QED
    BY <1>1, <1>2, PTL DEF Spec

\* At rest there is nothing left to do.
LEMMA RestIsOver ==
  ASSUME LabelInv, ControlInv, Settled, monitoring = Absent \/ IsActive("all") \/ IsActive("none")
  PROVE  Over /\ \A w : ~StartupWill(w)
  <1>1. monitoring # Absent => IsReconciled(monitoring)
    BY RestIsReconciled DEF LabelInv
  <1>2. Over
    BY <1>1 DEF Over, Through, IsActive, IsReconciled, PrevIsSpec
  <1>3. run["startup"].pc = "idle"
    BY ActorsAre DEF Settled
  <1> QED
    BY <1>2, <1>3 DEF StartupWill, StartupIsDue, IsAtWork

\* Hence the workloads are right.
LEMMA InvIsEnough == InstrumentationInv =>
    EveryWorkloadIsInstrumented /\ PropagatorsAreSet /\ InstrumentationIsRemoved /\ OptedOutIsLeftAlone
  <1>1. SUFFICES ASSUME InstrumentationInv, scenario.promptReconcile, Settled, used.failures = 0, NEW w \in Mutable
                 PROVE  /\ (monitoring = Absent \/ IsActive("none")) => workload[w].version = 0
                        /\ (IsActive("all") /\ w \notin scenario.editable
                              /\ HasOptedOutOfInstrumentation(workload[w], monitoring.selector)) => workload[w].version = 0
                        /\ (~scenario.earlyDeploy /\ IsActive("all") /\ missed = 0 /\ NothingIsSkipped
                              /\ ShouldBeInstrumented(workload[w], monitoring.selector)) =>
                             /\ workload[w].version = version
                             /\ PropagatorsAreRecognised => workload[w].propagators = monitoring.propagators
    BY DEF EveryWorkloadIsInstrumented, AllWorkloadsAreInstrumented, PropagatorsAreSet, InstrumentationIsRemoved,
           NothingIsInstrumented, OptedOutIsLeftAlone, NothingIsSkipped
  <1>2. LabelInv /\ ControlInv /\ Result(w)
    BY <1>1 DEF InstrumentationInv, ResultInv
  <1>3. (monitoring = Absent \/ IsActive("all") \/ IsActive("none")) => RightO(w)
    BY <1>1, <1>2, RestIsOver DEF Result
  <1>4. (IsActive("all") /\ Undisturbed) => RightV(w)
    BY <1>1, <1>2, RestIsOver DEF Result
  <1>5. /\ IsActive("all") => AllInForce
        /\ (monitoring = Absent \/ IsActive("none")) => Removing
    BY DEF IsActive, AllInForce, Removing
  <1>6. (monitoring = Absent \/ IsActive("none")) => workload[w].version = 0
    BY <1>3, <1>5 DEF RightO, MustBeClean
  <1>7. (IsActive("all") /\ w \notin scenario.editable
           /\ HasOptedOutOfInstrumentation(workload[w], monitoring.selector)) => workload[w].version = 0
    BY <1>3, <1>5 DEF RightO, MustBeClean
  <1>8. (~scenario.earlyDeploy /\ IsActive("all") /\ missed = 0 /\ NothingIsSkipped
           /\ ShouldBeInstrumented(workload[w], monitoring.selector)) =>
          /\ workload[w].version = version
          /\ PropagatorsAreRecognised => workload[w].propagators = monitoring.propagators
    BY <1>4, <1>5 DEF RightV, MustBeRight, IsRight, Undisturbed
  <1> QED
    BY <1>6, <1>7, <1>8

\* Once the operator is at rest, every workload is as the monitoring resource says, for any number of
\* workloads, versions, changes, failures and restarts: CheckSettingsAndInstrumentExistingWorkloads,
\* InstrumentAtStartup and the webhook's Handle, each acting by its own copy of the resource and the
\* first two by lists that may be out of date, have instrumented what should be instrumented and
\* reverted the rest, in whatever order their steps come.
THEOREM WorkloadsAreAsConfigured == Spec => []InstrumentedAsConfigured
  <1>1. InstrumentationInv =>
          EveryWorkloadIsInstrumented /\ PropagatorsAreSet /\ InstrumentationIsRemoved /\ OptedOutIsLeftAlone
    BY InvIsEnough
  <1>2. TypeOK /\ EveryWorkloadIsInstrumented /\ PropagatorsAreSet /\ InstrumentationIsRemoved
          /\ OptedOutIsLeftAlone /\ LabelTellsTheTruth /\ ReplicaSetPodsAreRestarted => InstrumentedAsConfigured
    BY DEF InstrumentedAsConfigured
  <1> QED
    BY <1>1, <1>2, InstrumentationInvHolds, TypesAreKept, LabelIsTrue, PodsAreRestarted, PTL
=============================================================================
