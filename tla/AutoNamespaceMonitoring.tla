---------------------- MODULE AutoNamespaceMonitoring ----------------------
(***************************************************************************)
(* Automatic namespace monitoring: the reconciler of the operator          *)
(* configuration that starts and stops a watch for namespaces              *)
(* (AutoNamespaceMonitoringReconciler), the controller behind that watch   *)
(* that creates, updates and removes monitoring resources                  *)
(* (NamespaceWatcher), the goroutines the reconciler leaves behind, and    *)
(* the pre-delete hook that removes all monitoring resources.              *)
(*                                                                         *)
(* Users act according to the script of a scenario. The operator           *)
(* configuration is read from a cache that lags behind the API server;     *)
(* namespaces and monitoring resources are read as they are.               *)
(***************************************************************************)
EXTENDS Integers, Sequences, FiniteSets

CONSTANTS Namespaces, Scenarios

Commands(s) == {s.script[k] : k \in DOMAIN s.script}

\* What users do in a scenario is a sequence of commands.
ASSUME ScenariosAreScripted == \A s \in Scenarios : s.script \in Seq(Commands(s))

ConfigSpecs == UNION {{c.spec : c \in {d \in Commands(s) : d.op = "config"}} : s \in Scenarios}

\* The spec of an operator configuration; a template consists of metadata and spec.
ASSUME SpecsAreComplete ==
  \A s \in ConfigSpecs :
    /\ s.enabled \in BOOLEAN /\ s.available \in BOOLEAN
    /\ s.template = [meta |-> s.template.meta, spec |-> s.template.spec]

\* What follows the uninstallation in a script contains no manual monitoring resource.
NoManualAfterUninstall(seq) ==
  \A i, j \in DOMAIN seq : (i < j /\ seq[i].op = "uninstall") => seq[j].op # "manual"

\* Users who uninstall the operator do not ask it to monitor another namespace.
ASSUME UninstallingIsFinal == \A s \in Scenarios : NoManualAfterUninstall(s.script)

VARIABLES scenario,
          script,     \* what users still do, in this order
          left,       \* how many requests to the API server may still fail
          config,     \* the operator configuration resource in the API server
          cached,     \* and in the cache of the operator
          ns,         \* the namespaces
          monitoring, \* the monitoring resource of every namespace
          request,    \* the operator configuration is to be reconciled
          work,       \* the reconcile request for it in progress
          goroutines, \* what the reconciler has left behind
          watch,      \* the namespace watch, with the namespaces to reconcile
          job,        \* the namespace in progress
          hook,       \* the job of the pre-delete hook
          disturbed   \* something has got lost that nothing makes up for

vars == <<scenario, script, left, config, cached, ns, monitoring, request, work, goroutines, watch, job, hook, disturbed>>

NoConfig == [exists |-> FALSE]
NoTemplate == [meta |-> "none", spec |-> "none"]
NoResource == [exists |-> FALSE]
NoNamespace == [exists |-> FALSE, labels |-> {}]
Idle == [stage |-> "idle"]
NotWatching == [active |-> FALSE, queue |-> {}]

namespaceMatchesLabelSelector(n, selector) == selector = "" \/ selector \in ns[n].labels

existing == {n \in Namespaces : ns[n].exists}
autoMonitored == {n \in Namespaces : monitoring[n].exists /\ monitoring[n].auto}

enabled(c) == c.exists /\ c.available /\ c.enabled

-----------------------------------------------------------------------------
(* The namespace watch                                                     *)

\* The queue of the watch after namespaces have been added; without a watch nothing happens.
Enqueued(names) == IF watch.active THEN [watch EXCEPT !.queue = @ \cup names] ELSE watch

\* Starting a watch lists the namespaces, a running one is left alone.
ensureNamespaceWatchIsActive(w, selector) ==
  IF w.active THEN w
  ELSE [active |-> TRUE, selector |-> selector,
        queue |-> {n \in existing : namespaceMatchesLabelSelector(n, selector)}]

\* What is queued or in progress ends with the context of the controller.
ensureNamespaceWatchIsStopped == NotWatching

\* A label selector lets changes pass that end a match as well.
namespaceLabelSelectorPredicate(old, new) ==
  watch.active /\ (watch.selector = "" \/ watch.selector \in old \cup new)

-----------------------------------------------------------------------------
(* Users                                                                   *)

step == Head(script)
scripted(op) == script # <<>> /\ step.op = op /\ script' = Tail(script)

reconciled == ~request /\ work = Idle /\ cached = config

quiet == /\ reconciled /\ goroutines = {}
         /\ job = Idle /\ watch.queue = {} /\ \A n \in Namespaces : monitoring[n].exists => ~monitoring[n].deleting

\* How long users wait before they change the configuration again.
pace == CASE scenario.pace = "impatient" -> TRUE
          [] scenario.pace = "reconciled" -> reconciled
          [] scenario.pace = "quiet" -> quiet

\* The watch has still to remove the monitoring resource of a namespace that no longer
\* matches: a watch that is started later only looks at namespaces that match.
waiting(n) ==
  /\ watch.active /\ (n \in watch.queue \/ (job # Idle /\ job.name = n))
  /\ n \in autoMonitored /\ ~monitoring[n].deleting /\ ~namespaceMatchesLabelSelector(n, watch.selector)

\* A spec and the availability that the other reconciler of the resource writes.
ApplyConfiguration ==
  /\ scripted("config")
  /\ pace
  /\ config' = IF config.exists
               THEN [config EXCEPT !.enabled = step.spec.enabled, !.selector = step.spec.selector,
                                   !.template = step.spec.template, !.available = step.spec.available, !.rv = @ + 1]
               ELSE [exists |-> TRUE, enabled |-> step.spec.enabled, selector |-> step.spec.selector,
                     template |-> step.spec.template, available |-> step.spec.available,
                     previousSelector |-> "", previousTemplate |-> NoTemplate, rv |-> 1]
  /\ disturbed' = (disturbed \/ \E n \in Namespaces : waiting(n))
  /\ UNCHANGED <<scenario, left, cached, ns, monitoring, request, work, goroutines, watch, job, hook>>

DeleteConfiguration ==
  /\ scripted("deleteConfig")
  /\ config' = NoConfig
  /\ UNCHANGED <<scenario, left, cached, ns, monitoring, request, work, goroutines, watch, job, hook, disturbed>>

\* Changed labels only come when nothing else is going on. Without a watch nobody notices, and a
\* namespace in progress may have been deleted and created again with other labels.
ApplyNamespace ==
  /\ scripted("namespace")
  /\ ns[step.name].exists => quiet
  /\ ns' = [ns EXCEPT ![step.name] = [exists |-> TRUE, labels |-> step.labels]]
  /\ watch' = IF namespaceLabelSelectorPredicate(ns[step.name].labels, step.labels) THEN Enqueued({step.name}) ELSE watch
  /\ disturbed' = (disturbed \/ (~watch.active /\ step.name \in autoMonitored) \/ (job # Idle /\ job.name = step.name))
  /\ UNCHANGED <<scenario, left, config, cached, monitoring, request, work, goroutines, job, hook>>

\* Everything in the namespace goes with it.
DeleteNamespace ==
  /\ scripted("deleteNamespace")
  /\ ns' = [ns EXCEPT ![step.name] = NoNamespace]
  /\ monitoring' = [monitoring EXCEPT ![step.name] = NoResource]
  /\ watch' = IF monitoring[step.name].exists THEN Enqueued({step.name}) ELSE watch
  /\ UNCHANGED <<scenario, left, config, cached, request, work, goroutines, job, hook, disturbed>>

CreateManualResource ==
  /\ scripted("manual")
  /\ monitoring' = IF ns[step.name].exists /\ ~monitoring[step.name].exists
                   THEN [monitoring EXCEPT ![step.name] =
                           [exists |-> TRUE, auto |-> FALSE, meta |-> "none", spec |-> "none", deleting |-> FALSE]]
                   ELSE monitoring
  /\ UNCHANGED <<scenario, left, config, cached, ns, request, work, goroutines, watch, job, hook, disturbed>>

deleted(names) ==
  [n \in Namespaces |-> IF n \in names /\ monitoring[n].exists THEN [monitoring[n] EXCEPT !.deleting = TRUE]
                        ELSE monitoring[n]]

DeleteResource ==
  /\ scripted("remove")
  /\ monitoring' = deleted({step.name})
  /\ UNCHANGED <<scenario, left, config, cached, ns, request, work, goroutines, watch, job, hook, disturbed>>

\* The reconciler of the monitoring resource has cleaned up and removes its finalizer.
RemoveFinalizer(n) ==
  /\ monitoring[n].exists /\ monitoring[n].deleting
  /\ monitoring' = [monitoring EXCEPT ![n] = NoResource]
  /\ watch' = Enqueued({n})
  /\ UNCHANGED <<scenario, script, left, config, cached, ns, request, work, goroutines, job, hook, disturbed>>

\* The cache has seen the latest state of the operator configuration.
CacheCatchesUp ==
  /\ cached # config
  /\ cached' = config
  /\ request' = TRUE
  /\ UNCHANGED <<scenario, script, left, config, ns, monitoring, work, goroutines, watch, job, hook, disturbed>>

\* A new operator process reconciles the operator configuration, if there is one. Goroutines, the
\* deletion of a configuration and changed labels that are not handled yet are forgotten.
Restart ==
  /\ scripted("restart")
  /\ cached' = config
  /\ request' = config.exists
  /\ work' = Idle /\ goroutines' = {} /\ watch' = NotWatching /\ job' = Idle
  /\ disturbed' = (disturbed \/ goroutines # {} \/ (~config.exists /\ ~reconciled) \/ \E n \in Namespaces : waiting(n))
  /\ UNCHANGED <<scenario, left, config, ns, monitoring, hook>>

-----------------------------------------------------------------------------
(* The reconciler of the operator configuration                            *)

\* Labels and annotations are replaced, the label for auto-monitoring is kept (`auto`).
compareAndUpdateObjectMeta(resource, template) == [resource EXCEPT !.meta = template.meta]

compareAndUpdateSpec(resource, template) == [resource EXCEPT !.spec = template.spec]

compareMonitoringResourceToMonitoringTemplateAndUpdate(resource, template) ==
  compareAndUpdateSpec(compareAndUpdateObjectMeta(resource, template), template)

compareMonitoringTemplates(old, new) == compareMonitoringResourceToMonitoringTemplateAndUpdate(new, old) # new

\* Variant of selectorHasChanged that never notices a change.
selectorNeverChanges(c) == FALSE

selectorHasChanged(c) == c.previousSelector # "" /\ c.previousSelector # c.selector

needsStatus(c) == c.previousSelector # c.selector \/ compareMonitoringTemplates(c.previousTemplate, c.template)

deleteAll == [kind |-> "deleteAll"]
unmonitor(c) == [kind |-> "unmonitor", old |-> c.previousSelector, new |-> c.selector]
updateAll(c) == [kind |-> "updateAll", template |-> c.template, selector |-> c.selector]

\* The goroutine that applies a new template does not wait for an older one, nor for the namespace in
\* progress, whose template has been read before: the older template may be written last.
overtakes(c) ==
  \/ \E g \in goroutines : g.kind = "updateAll" /\ g.template # c.template
  \/ ~selectorHasChanged(c) /\ job.stage \in {"monitor", "check", "create"} /\ job.template # c.template

\* ensureNamespaceWatchIsActiveWithCorrectLabelSelector, up to the status.
WatchWithSelector(c) ==
  /\ watch' = ensureNamespaceWatchIsActive(IF selectorHasChanged(c) THEN ensureNamespaceWatchIsStopped ELSE watch, c.selector)
  /\ job' = IF selectorHasChanged(c) THEN Idle ELSE job
  /\ goroutines' = goroutines
       \cup (IF selectorHasChanged(c) THEN {unmonitor(c)} ELSE {})
       \cup (IF compareMonitoringTemplates(c.previousTemplate, c.template) /\ c.template # NoTemplate
             THEN {updateAll(c)} ELSE {})
  /\ disturbed' = (disturbed \/ (compareMonitoringTemplates(c.previousTemplate, c.template) /\ overtakes(c)))
  /\ work' = IF needsStatus(c) THEN [stage |-> "status", selector |-> c.selector] ELSE Idle

StopAndClean ==
  /\ watch' = ensureNamespaceWatchIsStopped /\ job' = Idle /\ work' = Idle
  /\ goroutines' = goroutines \cup {deleteAll} /\ UNCHANGED disturbed

\* An unavailable configuration keeps the resources.
Reconcile ==
  /\ request /\ work = Idle
  /\ request' = FALSE
  /\ \/ (~cached.exists \/ (cached.exists /\ enabled([cached EXCEPT !.enabled = ~@]))) = TRUE /\ StopAndClean
     \/ cached.exists /\ ~cached.available
        /\ watch' = ensureNamespaceWatchIsStopped /\ job' = Idle /\ work' = Idle /\ UNCHANGED <<goroutines, disturbed>>
     \/ enabled(cached) /\ WatchWithSelector(cached)
  /\ UNCHANGED <<scenario, script, left, config, cached, ns, monitoring, hook>>

\* The resource is read again; its template is recorded as it is now.
updateOperatorConfigurationStatus ==
  /\ work.stage = "status"
  /\ \/ /\ cached.exists /\ cached = config
        /\ config' = [config EXCEPT !.previousSelector = work.selector, !.previousTemplate = cached.template, !.rv = @ + 1]
        /\ UNCHANGED <<left, request>>
     \/ /\ (~cached.exists \/ cached # config \/ left > 0) = TRUE
        /\ left' = IF cached.exists /\ cached = config THEN left - 1 ELSE left
        /\ request' = TRUE
        /\ UNCHANGED config
  /\ work' = Idle
  /\ UNCHANGED <<scenario, script, cached, ns, monitoring, goroutines, watch, job, hook, disturbed>>

targets(g) ==
  CASE g.kind = "deleteAll" -> autoMonitored
    [] g.kind = "unmonitor" -> {n \in existing \cap autoMonitored :
                                  /\ namespaceMatchesLabelSelector(n, g.old)
                                  /\ ~namespaceMatchesLabelSelector(n, g.new)}
    [] g.kind = "updateAll" -> {n \in existing \cap autoMonitored : namespaceMatchesLabelSelector(n, g.selector)}

reconcileResourceWithMonitoringTemplate(names, template) ==
  [n \in Namespaces |-> IF n \in names THEN compareMonitoringResourceToMonitoringTemplateAndUpdate(monitoring[n], template)
                        ELSE monitoring[n]]

\* deleteAllAutoMonitoringResourcesInCluster, unmonitorNamespacesThatNoLongerMatchTheChangedLabelSelector and
\* updateAllAutoMonitoringResourcesWithNewTemplate: failures are logged, the next namespace comes.
RunGoroutine(g) ==
  /\ \E failed \in SUBSET targets(g) :
       /\ Cardinality(failed) <= left
       /\ left' = left - Cardinality(failed)
       /\ monitoring' = IF g.kind = "updateAll"
                        THEN reconcileResourceWithMonitoringTemplate(targets(g) \ failed, g.template)
                        ELSE deleted(targets(g) \ failed)
       /\ disturbed' = (disturbed \/ failed # {})
  /\ goroutines' = goroutines \ {g}
  /\ UNCHANGED <<scenario, script, config, cached, ns, request, work, watch, job, hook>>

-----------------------------------------------------------------------------
(* The namespace controller                                                *)

\* Variant of isRestricted that forgets the namespace of the operator.
isRestrictedByName(n) == n \in scenario.restricted

isRestricted(n) == n \in scenario.restricted \cup scenario.operatorNamespace

shouldMonitor(n, c) == c.enabled /\ namespaceMatchesLabelSelector(n, c.selector)

\* The decision is based on the cached configuration.
ReconcileNamespace(n) ==
  /\ watch.active /\ n \in watch.queue /\ job = Idle
  /\ watch' = [watch EXCEPT !.queue = @ \ {n}]
  /\ job' = IF \/ isRestricted(n) \/ ~ns[n].exists
               \/ ~(cached.exists /\ cached.available)
               \/ (cached.enabled /\ cached.template = NoTemplate)
            THEN Idle
            ELSE [stage |-> IF shouldMonitor(n, cached) THEN "monitor" ELSE "unmonitor", name |-> n,
                  template |-> cached.template]
  /\ UNCHANGED <<scenario, script, left, config, cached, ns, monitoring, request, work, goroutines, hook, disturbed>>

\* A request that fails is queued again.
RetryNamespace ==
  /\ job' = Idle
  /\ watch' = Enqueued({job.name})
  /\ UNCHANGED monitoring

ensureNamespaceIsMonitored ==
  /\ job.stage = "monitor"
  /\ \E n \in {job.name} :
     \/ left > 0 /\ left' = left - 1 /\ RetryNamespace
     \/ ~monitoring[n].exists /\ job' = [job EXCEPT !.stage = "check"] /\ UNCHANGED <<left, monitoring, watch>>
     \/ /\ monitoring[n].exists /\ job' = Idle
        /\ monitoring' = IF monitoring[n].auto THEN reconcileResourceWithMonitoringTemplate({n}, job.template)
                         ELSE monitoring
        /\ UNCHANGED <<left, watch>>
  /\ UNCHANGED <<scenario, script, config, cached, ns, request, work, goroutines, hook, disturbed>>

ensureNamespaceIsUnmonitored ==
  /\ job.stage = "unmonitor"
  /\ \/ left > 0 /\ left' = left - 1 /\ RetryNamespace
     \/ monitoring' = deleted({job.name} \cap autoMonitored) /\ job' = Idle /\ UNCHANGED <<left, watch>>
  /\ UNCHANGED <<scenario, script, config, cached, ns, request, work, goroutines, hook, disturbed>>

\* A failed job belongs to an uninstallation that has been aborted.
indicatesUninstallation == hook.stage \in {"started", "deleting", "done"}

isAutoNamespaceMonitoringEnabledInApiServer == enabled(config)

\* Variant of mayCreate that does not look for the job of the hook.
mayCreateWhenEnabled == isAutoNamespaceMonitoringEnabledInApiServer

mayCreate == ~indicatesUninstallation /\ isAutoNamespaceMonitoringEnabledInApiServer

\* Variant of CheckBeforeCreate that tries again as long as nothing may be created.
CheckBeforeCreateUntilAllowed ==
  /\ job.stage = "check"
  /\ \/ ~mayCreate /\ RetryNamespace
     \/ mayCreate /\ job' = [job EXCEPT !.stage = "create"] /\ UNCHANGED <<monitoring, watch>>
  /\ UNCHANGED <<scenario, script, left, config, cached, ns, request, work, goroutines, hook, disturbed>>

\* Both checks ask the API server.
CheckBeforeCreate ==
  /\ job.stage = "check"
  /\ \/ left > 0 /\ left' = left - 1 /\ RetryNamespace
     \/ job' = (IF mayCreate THEN [job EXCEPT !.stage = "create"] ELSE Idle) /\ UNCHANGED <<left, monitoring, watch>>
  /\ UNCHANGED <<scenario, script, config, cached, ns, request, work, goroutines, hook, disturbed>>

\* Fails if the namespace is gone or the resource has been created meanwhile.
createMonitoringResource ==
  /\ job.stage = "create"
  /\ \/ /\ left > 0 \/ ~ns[job.name].exists \/ monitoring[job.name].exists
        /\ left' = IF ns[job.name].exists /\ ~monitoring[job.name].exists THEN left - 1 ELSE left
        /\ RetryNamespace
     \/ /\ ns[job.name].exists /\ ~monitoring[job.name].exists
        /\ monitoring' = [monitoring EXCEPT ![job.name] =
                            [exists |-> TRUE, auto |-> TRUE, meta |-> job.template.meta, spec |-> job.template.spec,
                             deleting |-> FALSE]]
        /\ job' = Idle
        /\ UNCHANGED <<left, watch>>
  /\ UNCHANGED <<scenario, script, config, cached, ns, request, work, goroutines, hook, disturbed>>

-----------------------------------------------------------------------------
(* The pre-delete hook                                                     *)

Uninstall ==
  /\ scripted("uninstall")
  /\ hook' = [stage |-> "started"]
  /\ UNCHANGED <<scenario, left, config, cached, ns, monitoring, request, work, goroutines, watch, job, disturbed>>

remaining == {n \in Namespaces : monitoring[n].exists}

\* DeleteAllMonitoringResources: nothing to do without resources.
DeleteAllMonitoringResources ==
  /\ hook.stage = "started" /\ job.stage # "create"
  /\ hook' = [stage |-> IF remaining = {} THEN "done" ELSE "deleting"]
  /\ UNCHANGED <<scenario, script, left, config, cached, ns, monitoring, request, work, goroutines, watch, job, disturbed>>

\* requestDeletionOfResourcesNotBeingDeletedYet
RequestDeletion ==
  /\ hook.stage = "deleting" /\ \E n \in remaining : ~monitoring[n].deleting
  /\ monitoring' = deleted(remaining)
  /\ UNCHANGED <<scenario, script, left, config, cached, ns, request, work, goroutines, watch, job, hook, disturbed>>

\* deleteAndWaitUntilNoMonitoringResourcesAreLeft: nothing is left, or the time is over. A
\* creation that has passed the check is taken to arrive before the hook ends.
HookEnds ==
  /\ hook.stage = "deleting"
  /\ job.stage # "create"
  /\ \/ remaining = {} /\ hook' = [stage |-> "done"]
     \/ remaining # {} /\ scenario.hookTimesOut /\ hook' = [stage |-> "failed"]
  /\ UNCHANGED <<scenario, script, left, config, cached, ns, monitoring, request, work, goroutines, watch, job, disturbed>>

-----------------------------------------------------------------------------

Init ==
  /\ scenario \in Scenarios
  /\ script = scenario.script
  /\ left = scenario.faults
  /\ config = NoConfig /\ cached = NoConfig
  /\ ns = [n \in Namespaces |-> IF n \in DOMAIN scenario.labels THEN [exists |-> TRUE, labels |-> scenario.labels[n]]
                                ELSE NoNamespace]
  /\ monitoring = [n \in Namespaces |-> NoResource]
  /\ request = FALSE
  /\ work = Idle
  /\ goroutines = {}
  /\ watch = NotWatching
  /\ job = Idle
  /\ hook = [stage |-> "none"]
  /\ disturbed = FALSE

Users ==
  \/ ApplyConfiguration \/ DeleteConfiguration
  \/ ApplyNamespace \/ DeleteNamespace
  \/ CreateManualResource \/ DeleteResource
  \/ Restart \/ Uninstall

NamespaceController ==
  \/ \E n \in Namespaces : ReconcileNamespace(n)
  \/ ensureNamespaceIsMonitored \/ ensureNamespaceIsUnmonitored
  \/ CheckBeforeCreate \/ createMonitoringResource

Operator ==
  \/ CacheCatchesUp
  \/ Reconcile \/ updateOperatorConfigurationStatus
  \/ \E g \in goroutines : RunGoroutine(g)
  \/ NamespaceController
  \/ \E n \in Namespaces : RemoveFinalizer(n)

Hook == DeleteAllMonitoringResources \/ RequestDeletion \/ HookEnds

Next == Users \/ Operator \/ Hook

\* The goroutines of the operator and the hook keep running; users need not do anything.
Fairness ==
  /\ WF_vars(CacheCatchesUp)
  /\ WF_vars(Reconcile \/ updateOperatorConfigurationStatus)
  /\ WF_vars(\E g \in goroutines : RunGoroutine(g))
  /\ WF_vars(NamespaceController)
  /\ WF_vars(\E n \in Namespaces : RemoveFinalizer(n))
  /\ WF_vars(Hook)

Spec == Init /\ [][Next]_vars

FairSpec == Spec /\ Fairness

-----------------------------------------------------------------------------
(* Properties                                                              *)

AtRest == script = <<>> /\ quiet /\ hook.stage \notin {"started", "deleting"}

wanted(n) == ns[n].exists /\ ~isRestricted(n) /\ namespaceMatchesLabelSelector(n, config.selector)

\* Users see each change of the configuration reconciled before the next one; selectors are
\* given, and so is a template when auto-monitoring is enabled (the CRD and the mutating webhook
\* set the defaults).
PatientUsers ==
  /\ scenario.pace \in {"reconciled", "quiet"}
  /\ \A c \in Commands(scenario) : c.op = "config" =>
       c.spec.selector # "" /\ (c.spec.enabled => c.spec.template # NoTemplate)

\* Once everything has been handled, exactly the namespaces that match the label
\* selector have a monitoring resource, with the settings of the current template,
\* except for those with a manual one; without auto-monitoring there is none, and an
\* unavailable configuration leaves things as they are (Reconcile,
\* ensureNamespaceWatchIsActiveWithCorrectLabelSelector, NamespaceWatcher.Reconcile).
\* This holds unless a goroutine fails or what is in progress gets lost or overtaken.
MonitoredAsConfigured ==
  (AtRest /\ ~disturbed /\ PatientUsers /\ hook.stage = "none") =>
    /\ enabled(config) => \A n \in Namespaces :
         /\ wanted(n) => monitoring[n].exists
         /\ n \in autoMonitored => wanted(n) /\ monitoring[n].meta = config.template.meta /\ monitoring[n].spec = config.template.spec
    /\ (~config.exists \/ (config.exists /\ config.available /\ ~config.enabled)) = TRUE => autoMonitored = {}

KeepsManualResources ==
  \A n \in Namespaces :
    /\ (monitoring[n].exists /\ ~monitoring[n].auto /\ ~monitoring[n].deleting /\ monitoring'[n] # monitoring[n]) =>
         script' # script \/ hook.stage = "deleting"
    /\ (~monitoring[n].exists /\ monitoring'[n].exists /\ monitoring'[n].auto) =>
         n \notin scenario.restricted \cup scenario.operatorNamespace

\* The operator never changes or removes a monitoring resource that a user has
\* created, and does not create any in restricted namespaces or its own
\* (ensureNamespaceIsMonitored, ensureNamespaceIsUnmonitored, deleteAll...InCluster).
ManualResourcesAreKept == [][KeepsManualResources]_vars

\* When the hook has reported success, no monitoring resource appears any more: the
\* resources it has removed are not created again (isOperatorBeingUninstalled).
NothingAppearsAfterTheHook == hook.stage = "done" => remaining = {}

\* The operator comes to rest once users have stopped: creating, removing and the
\* writing of the status do not trigger each other for ever (SetupWithManager,
\* monitoringResourceDeletePredicate, updateOperatorConfigurationStatus).
EventuallySettled == <>[](script = <<>>) => <>[]AtRest

=============================================================================
