------------------- MODULE AutoNamespaceMonitoringProofs -------------------
(***************************************************************************)
(* Whatever users, the operator and the pre-delete hook do in whatever     *)
(* order, the operator leaves manual monitoring resources alone and        *)
(* creates none in the namespaces it must keep out of; once the pre-delete *)
(* hook has succeeded, no monitoring resource appears any more; and when   *)
(* everything has been handled, the namespaces that match the selector are *)
(* the ones that have a monitoring resource, with the current template.    *)
(***************************************************************************)
EXTENDS AutoNamespaceMonitoring, TLAPS

\* There is one entry per namespace.
ResourcesByNamespace == monitoring = [n \in Namespaces |-> monitoring[n]]

\* Users follow the script to its end.
ScriptIsSequence == script \in Seq(Commands(scenario))

\* The namespace in progress is one the operator may work on: the check comes first and
\* the later steps do not repeat it (NamespaceWatcher.Reconcile).
JobIsPermitted ==
  job = Idle \/ (/\ job = [stage |-> job.stage, name |-> job.name, template |-> job.template]
                 /\ ~isRestricted(job.name))

\* There are three kinds of goroutine.
GoroutinesAreKnown == \A g \in goroutines : g.kind \in {"deleteAll", "unmonitor", "updateAll"}

KeepInv == ResourcesByNamespace /\ ScriptIsSequence /\ JobIsPermitted /\ GoroutinesAreKnown

-----------------------------------------------------------------------------

LEMMA TailIsSequence ==
  ASSUME NEW S, NEW s \in Seq(S), s # <<>>
  PROVE  Tail(s) \in Seq(S) /\ Tail(s) # s
  <1>1. Tail(s) \in Seq(S) /\ Len(Tail(s)) = Len(s) - 1 /\ Len(s) \in Nat /\ Len(s) > 0
    OBVIOUS
  <1>2. \A m \in Nat : m - 1 # m
    OBVIOUS
  <1> QED
    BY <1>1, <1>2, Zenon

\* A goroutine only works on resources the operator has created.
LEMMA GoroutinesTargetAutoMonitored ==
  ASSUME GoroutinesAreKnown, NEW g \in goroutines
  PROVE  targets(g) \subseteq autoMonitored
  <1>1. g.kind \in {"deleteAll", "unmonitor", "updateAll"}
    BY DEF GoroutinesAreKnown
  <1>2. CASE g.kind = "deleteAll"
    BY <1>2 DEF targets
  <1>3. CASE g.kind = "unmonitor"
    BY <1>3 DEF targets
  <1>4. CASE g.kind = "updateAll"
    BY <1>4 DEF targets
  <1> QED
    BY <1>1, <1>2, <1>3, <1>4

LEMMA InitKeeps == Init => KeepInv
  <1> SUFFICES ASSUME Init PROVE KeepInv
    OBVIOUS
  <1>1. ResourcesByNamespace
    BY DEF Init, ResourcesByNamespace
  <1>2. ScriptIsSequence
    BY ScenariosAreScripted DEF Init, ScriptIsSequence
  <1>3. JobIsPermitted /\ GoroutinesAreKnown
    BY DEF Init, JobIsPermitted, GoroutinesAreKnown
  <1> QED
    BY <1>1, <1>2, <1>3 DEF KeepInv

\* A step of the users goes on in the script.
LEMMA UserStep ==
  ASSUME KeepInv, NEW op, scripted(op), scenario' = scenario
  PROVE  ScriptIsSequence' /\ script' # script
  BY TailIsSequence DEF KeepInv, ScriptIsSequence, scripted

\* Resources of a set of namespaces are marked for deletion.
LEMMA DeletedMarks ==
  ASSUME NEW names, monitoring' = deleted(names)
  PROVE  /\ ResourcesByNamespace'
         /\ \A n \in Namespaces : n \notin names => monitoring'[n] = monitoring[n]
         /\ \A n \in Namespaces : ~monitoring[n].exists => monitoring'[n] = monitoring[n]
  BY DEF deleted, ResourcesByNamespace

\* Resources of a set of namespaces get the template.
LEMMA TemplateApplies ==
  ASSUME NEW names, NEW template, monitoring' = reconcileResourceWithMonitoringTemplate(names, template)
  PROVE  /\ ResourcesByNamespace'
         /\ \A n \in Namespaces : n \notin names => monitoring'[n] = monitoring[n]
  BY DEF reconcileResourceWithMonitoringTemplate, ResourcesByNamespace

LEMMA UsersKeep == KeepInv /\ Users => KeepInv' /\ KeepsManualResources
  <1> SUFFICES ASSUME KeepInv, Users PROVE KeepInv' /\ KeepsManualResources
    OBVIOUS
  <1> USE DEF KeepInv
  <1>1. ScriptIsSequence' /\ script' # script
    BY UserStep DEF Users, ApplyConfiguration, DeleteConfiguration, ApplyNamespace, DeleteNamespace,
       CreateManualResource, DeleteResource, Restart, Uninstall
  <1>2. JobIsPermitted'
    BY DEF Users, ApplyConfiguration, DeleteConfiguration, ApplyNamespace, DeleteNamespace,
       CreateManualResource, DeleteResource, Restart, Uninstall, JobIsPermitted, isRestricted
  <1>3. GoroutinesAreKnown'
    BY DEF Users, ApplyConfiguration, DeleteConfiguration, ApplyNamespace, DeleteNamespace,
       CreateManualResource, DeleteResource, Restart, Uninstall, GoroutinesAreKnown
  <1>4. ResourcesByNamespace' /\ \A n \in Namespaces :
          (~monitoring[n].exists /\ monitoring'[n].exists) => ~monitoring'[n].auto
    <2>1. CASE UNCHANGED monitoring
      BY <2>1 DEF ResourcesByNamespace
    <2>2. CASE DeleteNamespace
      BY <2>2 DEF DeleteNamespace, ResourcesByNamespace, NoResource
    <2>3. CASE CreateManualResource
      BY <2>3 DEF CreateManualResource, ResourcesByNamespace
    <2>4. CASE DeleteResource
      BY <2>4, DeletedMarks DEF DeleteResource
    <2> QED
      BY <2>1, <2>2, <2>3, <2>4 DEF Users, ApplyConfiguration, DeleteConfiguration, ApplyNamespace, Restart, Uninstall
  <1> QED
    BY <1>1, <1>2, <1>3, <1>4 DEF KeepsManualResources

LEMMA NamespaceControllerKeeps == KeepInv /\ NamespaceController => KeepInv' /\ KeepsManualResources
  <1> SUFFICES ASSUME KeepInv, NamespaceController PROVE KeepInv' /\ KeepsManualResources
    OBVIOUS
  <1> USE DEF KeepInv
  <1>1. ScriptIsSequence' /\ GoroutinesAreKnown' /\ scenario' = scenario
    BY DEF NamespaceController, ReconcileNamespace, ensureNamespaceIsMonitored, ensureNamespaceIsUnmonitored,
       CheckBeforeCreate, createMonitoringResource, ScriptIsSequence, GoroutinesAreKnown
  <1>2. ASSUME UNCHANGED monitoring PROVE ResourcesByNamespace' /\ KeepsManualResources
    BY <1>2 DEF ResourcesByNamespace, KeepsManualResources
  <1>3. ASSUME NEW n \in Namespaces, ReconcileNamespace(n) PROVE JobIsPermitted' /\ UNCHANGED monitoring
    BY <1>3 DEF ReconcileNamespace, JobIsPermitted, isRestricted, Idle
  <1>4. CASE ensureNamespaceIsMonitored
    <2>1. JobIsPermitted'
      BY <1>4, <1>1 DEF ensureNamespaceIsMonitored, JobIsPermitted, RetryNamespace, isRestricted, Idle
    <2>2. UNCHANGED monitoring \/ (/\ monitoring[job.name].auto /\ monitoring[job.name].exists
                                   /\ monitoring' = reconcileResourceWithMonitoringTemplate({job.name}, job.template))
      BY <1>4 DEF ensureNamespaceIsMonitored, RetryNamespace
    <2>3. ResourcesByNamespace' /\ KeepsManualResources
      BY <1>2, <2>2, TemplateApplies DEF KeepsManualResources
    <2> QED
      BY <1>1, <2>1, <2>3
  <1>5. CASE ensureNamespaceIsUnmonitored
    <2>1. JobIsPermitted'
      BY <1>5, <1>1 DEF ensureNamespaceIsUnmonitored, JobIsPermitted, RetryNamespace, Idle
    <2>2. UNCHANGED monitoring \/ monitoring' = deleted({job.name} \cap autoMonitored)
      BY <1>5 DEF ensureNamespaceIsUnmonitored, RetryNamespace
    <2>3. ResourcesByNamespace' /\ KeepsManualResources
      BY <1>2, <2>2, DeletedMarks DEF KeepsManualResources, autoMonitored
    <2> QED
      BY <1>1, <2>1, <2>3
  <1>6. CASE CheckBeforeCreate
    <2>1. JobIsPermitted' /\ UNCHANGED monitoring
      BY <1>6, <1>1 DEF CheckBeforeCreate, JobIsPermitted, RetryNamespace, isRestricted, Idle
    <2> QED
      BY <1>1, <1>2, <2>1
  <1>7. CASE createMonitoringResource
    <2>1. JobIsPermitted'
      BY <1>7, <1>1 DEF createMonitoringResource, JobIsPermitted, RetryNamespace, Idle
    <2>2. CASE UNCHANGED monitoring
      BY <1>1, <1>2, <2>1, <2>2
    <2>3. CASE ~UNCHANGED monitoring
      <3>1. /\ ~monitoring[job.name].exists
            /\ \A n \in Namespaces : n # job.name => monitoring'[n] = monitoring[n]
            /\ ResourcesByNamespace'
        BY <1>7, <2>3 DEF createMonitoringResource, RetryNamespace, ResourcesByNamespace
      <3>2. ~isRestricted(job.name)
        BY <1>7 DEF createMonitoringResource, JobIsPermitted, Idle
      <3> QED
        BY <1>1, <2>1, <3>1, <3>2 DEF KeepsManualResources, isRestricted
    <2> QED
      BY <2>2, <2>3
  <1> QED
    BY <1>1, <1>2, <1>3, <1>4, <1>5, <1>6, <1>7 DEF NamespaceController

LEMMA NextKeeps == KeepInv /\ [Next]_vars => KeepInv' /\ [KeepsManualResources]_vars
  <1> SUFFICES ASSUME KeepInv, [Next]_vars PROVE KeepInv' /\ [KeepsManualResources]_vars
    OBVIOUS
  <1> USE DEF KeepInv
  <1>1. CASE UNCHANGED vars
    BY <1>1 DEF vars, ResourcesByNamespace, ScriptIsSequence, JobIsPermitted, GoroutinesAreKnown, isRestricted
  <1>2. CASE Users
    BY <1>2, UsersKeep
  <1>3. CASE CacheCatchesUp \/ updateOperatorConfigurationStatus \/ DeleteAllMonitoringResources \/ HookEnds
    BY <1>3 DEF CacheCatchesUp, updateOperatorConfigurationStatus, DeleteAllMonitoringResources, HookEnds,
       ResourcesByNamespace, ScriptIsSequence, JobIsPermitted, GoroutinesAreKnown, isRestricted, KeepsManualResources
  <1>4. CASE Reconcile
    <2>1. JobIsPermitted'
      BY <1>4 DEF Reconcile, StopAndClean, WatchWithSelector, JobIsPermitted, isRestricted
    <2>2. GoroutinesAreKnown'
      BY <1>4 DEF Reconcile, StopAndClean, WatchWithSelector, GoroutinesAreKnown, deleteAll, unmonitor, updateAll
    <2>3. ResourcesByNamespace' /\ ScriptIsSequence' /\ KeepsManualResources
      BY <1>4 DEF Reconcile, ResourcesByNamespace, ScriptIsSequence, KeepsManualResources
    <2> QED
      BY <2>1, <2>2, <2>3
  <1>5. CASE \E g \in goroutines : RunGoroutine(g)
    <2> PICK g \in goroutines : RunGoroutine(g)
      BY <1>5
    <2>1. ScriptIsSequence' /\ JobIsPermitted' /\ GoroutinesAreKnown'
      BY DEF RunGoroutine, ScriptIsSequence, JobIsPermitted, GoroutinesAreKnown, isRestricted
    <2>2. targets(g) \subseteq autoMonitored
      BY GoroutinesTargetAutoMonitored
    <2>3. PICK failed : \/ monitoring' = reconcileResourceWithMonitoringTemplate(targets(g) \ failed, g.template)
                        \/ monitoring' = deleted(targets(g) \ failed)
      BY DEF RunGoroutine
    <2>4. ResourcesByNamespace' /\ \A n \in Namespaces : n \notin targets(g) => monitoring'[n] = monitoring[n]
      BY <2>3, TemplateApplies, DeletedMarks
    <2> QED
      BY <2>1, <2>2, <2>4 DEF KeepsManualResources, autoMonitored
  <1>6. CASE NamespaceController
    BY <1>6, NamespaceControllerKeeps
  <1>7. CASE \E n \in Namespaces : RemoveFinalizer(n)
    <2> PICK m \in Namespaces : RemoveFinalizer(m)
      BY <1>7
    <2>1. ScriptIsSequence' /\ JobIsPermitted' /\ GoroutinesAreKnown'
      BY DEF RemoveFinalizer, ScriptIsSequence, JobIsPermitted, GoroutinesAreKnown, isRestricted
    <2>2. ResourcesByNamespace' /\ \A n \in Namespaces : monitoring'[n] = monitoring[n] \/ (n = m /\ ~monitoring'[n].exists)
      BY DEF RemoveFinalizer, ResourcesByNamespace, NoResource
    <2>3. monitoring[m].deleting
      BY DEF RemoveFinalizer
    <2> QED
      BY <2>1, <2>2, <2>3 DEF KeepsManualResources
  <1>8. CASE RequestDeletion
    <2>1. ScriptIsSequence' /\ JobIsPermitted' /\ GoroutinesAreKnown' /\ hook.stage = "deleting"
      BY <1>8 DEF RequestDeletion, ScriptIsSequence, JobIsPermitted, GoroutinesAreKnown, isRestricted
    <2>2. ResourcesByNamespace' /\ \A n \in Namespaces : ~monitoring[n].exists => monitoring'[n] = monitoring[n]
      BY <1>8, DeletedMarks DEF RequestDeletion
    <2> QED
      BY <2>1, <2>2 DEF KeepsManualResources
  <1> QED
    BY <1>1, <1>2, <1>3, <1>4, <1>5, <1>6, <1>7, <1>8 DEF Next, Operator, Hook

\* The operator never changes or removes a manual monitoring resource, except while the
\* pre-delete hook deletes all of them, and never creates one in a restricted namespace or
\* its own, for any number of namespaces and any script of users: the only check is in
\* NamespaceWatcher.Reconcile, and the goroutines and the requests after it rely on it.
THEOREM ManualResourcesStay == Spec => ManualResourcesAreKept
  <1>1. Init => KeepInv
    BY InitKeeps
  <1>2. KeepInv /\ [Next]_vars => KeepInv' /\ [KeepsManualResources]_vars
    BY NextKeeps
  <1> QED
    BY <1>1, <1>2, PTL DEF Spec, ManualResourcesAreKept

-----------------------------------------------------------------------------
(* The pre-delete hook                                                     *)

\* Users do not create resources once the hook has been started.
ScriptIsFinal ==
  /\ NoManualAfterUninstall(script)
  /\ hook.stage # "none" => \A k \in DOMAIN script : script[k].op # "manual"

\* When the hook is done, there is no resource, and no creation is under way that passed
\* the check before the job of the hook existed.
NothingIsLeft == hook.stage = "done" => remaining = {} /\ job.stage # "create"

HookInv == KeepInv /\ ScriptIsFinal /\ NothingIsLeft

\* The commands behind the first one are those of the rest of the script.
LEMMA TailShifts ==
  ASSUME NEW S, NEW s \in Seq(S), s # <<>>
  PROVE  /\ 1 \in DOMAIN s /\ Head(s) = s[1]
         /\ \A k \in DOMAIN Tail(s) : k \in Nat /\ k + 1 \in DOMAIN s /\ 1 < k + 1 /\ Tail(s)[k] = s[k + 1]
  OBVIOUS

\* A step of the users leaves a script with the same property; an uninstallation leaves
\* no manual resource in it.
LEMMA ScriptGoesOn ==
  ASSUME NEW S, script \in Seq(S), NEW op, scripted(op), NoManualAfterUninstall(script)
  PROVE  /\ NoManualAfterUninstall(script')
         /\ op = "uninstall" => \A k \in DOMAIN script' : script'[k].op # "manual"
         /\ (\A k \in DOMAIN script : script[k].op # "manual") =>
              op # "manual" /\ \A k \in DOMAIN script' : script'[k].op # "manual"
  <1>1. script # <<>> /\ script' = Tail(script) /\ script[1].op = op
    BY TailShifts DEF scripted, step
  <1>2. /\ 1 \in DOMAIN script
        /\ \A k \in DOMAIN script' : k \in Nat /\ k + 1 \in DOMAIN script /\ 1 < k + 1 /\ script'[k] = script[k + 1]
    BY <1>1, TailShifts
  <1>3. NoManualAfterUninstall(script')
    <2> SUFFICES ASSUME NEW i \in DOMAIN script', NEW j \in DOMAIN script', i < j, script'[i].op = "uninstall"
                 PROVE  script'[j].op # "manual"
      BY DEF NoManualAfterUninstall
    <2>1. i + 1 \in DOMAIN script /\ j + 1 \in DOMAIN script /\ i + 1 < j + 1
      BY <1>2
    <2> QED
      BY <1>2, <2>1 DEF NoManualAfterUninstall
  <1>4. op = "uninstall" => \A k \in DOMAIN script' : script'[k].op # "manual"
    BY <1>1, <1>2 DEF NoManualAfterUninstall
  <1> QED
    BY <1>1, <1>2, <1>3, <1>4

\* The steps that neither write the script nor start the hook keep what is known of both.
LEMMA ScriptStays ==
  ASSUME ScriptIsFinal, script' = script, hook'.stage # "none" => hook.stage # "none"
  PROVE  ScriptIsFinal'
  BY DEF ScriptIsFinal, NoManualAfterUninstall

\* Without resources, deleting and updating change nothing.
LEMMA NothingToChange ==
  ASSUME ResourcesByNamespace, remaining = {}, NEW names, NEW template
  PROVE  /\ deleted(names) = monitoring
         /\ names \subseteq autoMonitored => reconcileResourceWithMonitoringTemplate(names, template) = monitoring
  <1>1. \A n \in Namespaces : ~monitoring[n].exists
    BY DEF remaining
  <1>2. deleted(names) = monitoring
    BY <1>1 DEF deleted, ResourcesByNamespace
  <1>3. ASSUME names \subseteq autoMonitored PROVE reconcileResourceWithMonitoringTemplate(names, template) = monitoring
    BY <1>1, <1>3 DEF reconcileResourceWithMonitoringTemplate, ResourcesByNamespace, autoMonitored
  <1> QED
    BY <1>2, <1>3

LEMMA InitHook == Init => HookInv
  <1> SUFFICES ASSUME Init PROVE HookInv
    OBVIOUS
  <1>1. ScriptIsFinal
    BY UninstallingIsFinal DEF Init, ScriptIsFinal
  <1> QED
    BY <1>1, InitKeeps DEF Init, HookInv, NothingIsLeft

LEMMA UsersHook == HookInv /\ Users => ScriptIsFinal' /\ NothingIsLeft'
  <1> SUFFICES ASSUME HookInv, Users PROVE ScriptIsFinal' /\ NothingIsLeft'
    OBVIOUS
  <1>1. /\ script \in Seq(Commands(scenario)) /\ ResourcesByNamespace
        /\ NoManualAfterUninstall(script)
        /\ hook.stage # "none" => \A k \in DOMAIN script : script[k].op # "manual"
    BY DEF HookInv, KeepInv, ScriptIsSequence, ScriptIsFinal
  <1>2. ASSUME NEW op, scripted(op), hook' = hook
        PROVE  ScriptIsFinal' /\ (op = "manual" => hook.stage = "none")
    BY <1>1, <1>2, ScriptGoesOn DEF ScriptIsFinal, NoManualAfterUninstall
  <1>3. CASE Uninstall
    <2>1. scripted("uninstall") /\ hook' = [stage |-> "started"]
      BY <1>3 DEF Uninstall
    <2>2. NoManualAfterUninstall(script') /\ \A k \in DOMAIN script' : script'[k].op # "manual"
      BY <1>1, <2>1, ScriptGoesOn
    <2> QED
      BY <2>1, <2>2 DEF ScriptIsFinal, NoManualAfterUninstall, NothingIsLeft
  <1>4. CASE CreateManualResource
    <2>1. ScriptIsFinal' /\ hook.stage = "none" /\ hook' = hook
      BY <1>2, <1>4 DEF CreateManualResource
    <2> QED
      BY <2>1 DEF NothingIsLeft
  <1>5. CASE DeleteResource
    <2>1. ScriptIsFinal' /\ hook' = hook /\ job' = job /\ monitoring' = deleted({step.name})
      BY <1>2, <1>5 DEF DeleteResource
    <2>2. remaining = {} => monitoring' = monitoring
      BY <1>1, <2>1, NothingToChange
    <2> QED
      BY <2>1, <2>2 DEF HookInv, NothingIsLeft, remaining
  <1>6. CASE DeleteNamespace
    <2>1. ScriptIsFinal' /\ hook' = hook /\ job' = job
      BY <1>2, <1>6 DEF DeleteNamespace
    <2>2. \A n \in Namespaces : monitoring'[n].exists => monitoring[n].exists
      BY <1>1, <1>6 DEF DeleteNamespace, NoResource, ResourcesByNamespace
    <2> QED
      BY <2>1, <2>2 DEF HookInv, NothingIsLeft, remaining
  <1>7. CASE ApplyConfiguration \/ DeleteConfiguration \/ ApplyNamespace \/ Restart
    <2>1. ScriptIsFinal'
      BY <1>2, <1>7 DEF ApplyConfiguration, DeleteConfiguration, ApplyNamespace, Restart
    <2>2. hook' = hook /\ monitoring' = monitoring /\ job' \in {job, Idle}
      BY <1>7 DEF ApplyConfiguration, DeleteConfiguration, ApplyNamespace, Restart
    <2> QED
      BY <2>1, <2>2 DEF HookInv, NothingIsLeft, remaining, Idle
  <1> QED
    BY <1>3, <1>4, <1>5, <1>6, <1>7 DEF Users

LEMMA NamespaceControllerHook == HookInv /\ NamespaceController => NothingIsLeft'
  <1> SUFFICES ASSUME HookInv, NamespaceController, hook.stage = "done", hook' = hook
               PROVE  monitoring' = monitoring /\ job'.stage # "create"
    BY DEF HookInv, NothingIsLeft, remaining, NamespaceController, ReconcileNamespace, ensureNamespaceIsMonitored,
       ensureNamespaceIsUnmonitored, CheckBeforeCreate, createMonitoringResource
  <1>1. remaining = {} /\ job.stage # "create" /\ ResourcesByNamespace /\ JobIsPermitted
    BY DEF HookInv, NothingIsLeft, KeepInv
  <1>2. ASSUME NEW n \in Namespaces, ReconcileNamespace(n) PROVE monitoring' = monitoring /\ job'.stage # "create"
    BY <1>2 DEF ReconcileNamespace, Idle
  <1>3. CASE ensureNamespaceIsMonitored
    <2>1. UNCHANGED monitoring \/ (/\ {job.name} \subseteq autoMonitored
                                   /\ monitoring' = reconcileResourceWithMonitoringTemplate({job.name}, job.template))
                               \/ (/\ job.name \notin Namespaces
                                   /\ monitoring' = reconcileResourceWithMonitoringTemplate({job.name}, job.template))
      BY <1>3 DEF ensureNamespaceIsMonitored, RetryNamespace, autoMonitored
    <2>2. monitoring' = monitoring
      BY <1>1, <2>1, NothingToChange DEF reconcileResourceWithMonitoringTemplate, ResourcesByNamespace
    <2>3. job'.stage # "create"
      BY <1>1, <1>3 DEF ensureNamespaceIsMonitored, RetryNamespace, JobIsPermitted, Idle
    <2> QED
      BY <2>2, <2>3
  <1>4. CASE ensureNamespaceIsUnmonitored
    BY <1>1, <1>4, NothingToChange DEF ensureNamespaceIsUnmonitored, RetryNamespace, Idle
  <1>5. CASE CheckBeforeCreate
    BY <1>5 DEF CheckBeforeCreate, RetryNamespace, mayCreate, indicatesUninstallation, Idle
  <1>6. ~createMonitoringResource
    BY <1>1 DEF createMonitoringResource
  <1> QED
    BY <1>2, <1>3, <1>4, <1>5, <1>6 DEF NamespaceController

LEMMA NextHook == HookInv /\ [Next]_vars => HookInv'
  <1> SUFFICES ASSUME HookInv, [Next]_vars PROVE HookInv'
    OBVIOUS
  <1>1. KeepInv' /\ KeepInv /\ ResourcesByNamespace /\ GoroutinesAreKnown /\ ScriptIsFinal
    BY NextKeeps DEF HookInv, KeepInv
  <1>2. ASSUME hook' = hook, monitoring' = monitoring, job' \in {job, Idle}, script' = script
        PROVE  ScriptIsFinal' /\ NothingIsLeft'
    BY <1>1, <1>2, ScriptStays DEF HookInv, NothingIsLeft, remaining, Idle
  <1>3. CASE UNCHANGED vars
    BY <1>1, <1>2, <1>3 DEF HookInv, vars
  <1>4. CASE Users
    BY <1>1, <1>4, UsersHook DEF HookInv
  <1>5. CASE CacheCatchesUp \/ updateOperatorConfigurationStatus
    BY <1>1, <1>2, <1>5 DEF HookInv, CacheCatchesUp, updateOperatorConfigurationStatus
  <1>6. CASE Reconcile
    BY <1>1, <1>2, <1>6 DEF HookInv, Reconcile, StopAndClean, WatchWithSelector
  <1>7. CASE \E g \in goroutines : RunGoroutine(g)
    <2> PICK g \in goroutines : RunGoroutine(g)
      BY <1>7
    <2>1. targets(g) \subseteq autoMonitored
      BY <1>1, GoroutinesTargetAutoMonitored
    <2>2. /\ hook' = hook /\ job' = job /\ script' = script
          /\ \E failed : \/ monitoring' = reconcileResourceWithMonitoringTemplate(targets(g) \ failed, g.template)
                         \/ monitoring' = deleted(targets(g) \ failed)
      BY DEF RunGoroutine
    <2>3. PICK failed : \/ monitoring' = reconcileResourceWithMonitoringTemplate(targets(g) \ failed, g.template)
                        \/ monitoring' = deleted(targets(g) \ failed)
      BY <2>2
    <2>4. remaining = {} => monitoring' = monitoring
      <3>1. targets(g) \ failed \subseteq autoMonitored
        BY <2>1
      <3> QED
        BY <1>1, <2>3, <3>1, NothingToChange
    <2>5. ScriptIsFinal'
      BY <1>1, <2>2, ScriptStays
    <2> QED
      BY <1>1, <2>2, <2>4, <2>5 DEF HookInv, NothingIsLeft, remaining
  <1>8. CASE NamespaceController
    <2>1. script' = script /\ hook' = hook
      BY <1>8 DEF NamespaceController, ReconcileNamespace, ensureNamespaceIsMonitored, ensureNamespaceIsUnmonitored,
         CheckBeforeCreate, createMonitoringResource
    <2> QED
      BY <1>1, <1>8, <2>1, ScriptStays, NamespaceControllerHook DEF HookInv
  <1>9. CASE \E n \in Namespaces : RemoveFinalizer(n)
    <2> PICK m \in Namespaces : RemoveFinalizer(m)
      BY <1>9
    <2>1. hook' = hook /\ job' = job /\ script' = script /\ monitoring[m].exists
      BY DEF RemoveFinalizer
    <2>2. ScriptIsFinal' /\ remaining # {}
      BY <1>1, <2>1, ScriptStays DEF remaining
    <2> QED
      BY <1>1, <2>1, <2>2 DEF HookInv, NothingIsLeft
  <1>10. CASE Hook
    <2>1. CASE DeleteAllMonitoringResources
      <3>1. script' = script /\ job' = job /\ monitoring' = monitoring /\ hook.stage = "started" /\ job.stage # "create"
        BY <2>1 DEF DeleteAllMonitoringResources
      <3>2. hook'.stage = "done" => remaining = {}
        BY <2>1 DEF DeleteAllMonitoringResources
      <3> QED
        BY <1>1, <3>1, <3>2, ScriptStays DEF HookInv, NothingIsLeft, remaining
    <2>2. CASE RequestDeletion
      <3>1. script' = script /\ hook' = hook /\ hook.stage = "deleting"
        BY <2>2 DEF RequestDeletion
      <3> QED
        BY <1>1, <3>1, ScriptStays DEF HookInv, NothingIsLeft
    <2>3. CASE HookEnds
      <3>1. script' = script /\ job' = job /\ monitoring' = monitoring /\ hook.stage = "deleting" /\ job.stage # "create"
        BY <2>3 DEF HookEnds
      <3>2. hook'.stage = "done" => remaining = {}
        BY <2>3 DEF HookEnds
      <3> QED
        BY <1>1, <3>1, <3>2, ScriptStays DEF HookInv, NothingIsLeft, remaining
    <2> QED
      BY <1>10, <2>1, <2>2, <2>3 DEF Hook
  <1> QED
    BY <1>3, <1>4, <1>5, <1>6, <1>7, <1>8, <1>9, <1>10 DEF Next, Operator

\* When the pre-delete hook has reported success, there is no monitoring resource and none
\* appears any more, for any number of namespaces, changes, failures and restarts: a watch
\* that still runs, goroutines and retries find the job of the hook before they create a
\* resource (isOperatorBeingUninstalled), and a creation that passed that check before the
\* job existed has arrived before the hook ends.
THEOREM NothingIsCreatedAfterTheHook == Spec => []NothingAppearsAfterTheHook
  <1>1. Init => HookInv
    BY InitHook
  <1>2. HookInv /\ [Next]_vars => HookInv'
    BY NextHook
  <1>3. HookInv => NothingAppearsAfterTheHook
    BY DEF HookInv, NothingIsLeft, NothingAppearsAfterTheHook
  <1> QED
    BY <1>1, <1>2, <1>3, PTL DEF Spec

-----------------------------------------------------------------------------
(* The operator configuration, its copy in the cache, and the watch        *)

Templates == {NoTemplate} \cup {s.template : s \in ConfigSpecs}
Selectors == {""} \cup {s.selector : s \in ConfigSpecs}

Configs ==
  [exists : {TRUE}, enabled : BOOLEAN, selector : Selectors, template : Templates, available : BOOLEAN,
   previousSelector : Selectors, previousTemplate : Templates, rv : Int]

\* What patient users write.
IsConfig(c) ==
  \/ c = NoConfig
  \/ c \in Configs /\ (PatientUsers => c.selector # "" /\ (c.enabled => c.template # NoTemplate))

IsWatch(w) ==
  \/ w = NotWatching
  \/ w = [active |-> TRUE, selector |-> w.selector, queue |-> w.queue] /\ w.selector \in Selectors

Goroutines ==
  {deleteAll} \cup [kind : {"unmonitor"}, old : Selectors, new : Selectors]
    \cup [kind : {"updateAll"}, template : Templates, selector : Selectors]

IsWork(w) == w = Idle \/ w \in [stage : {"status"}, selector : Selectors]

\* What the reconciler works with.
ControlTypes ==
  /\ scenario \in Scenarios
  /\ IsConfig(config) /\ IsConfig(cached)
  /\ request \in BOOLEAN /\ disturbed \in BOOLEAN
  /\ IsWatch(watch) /\ IsWork(work)
  /\ goroutines \subseteq Goroutines

SameSpec(c, d) ==
  c.enabled = d.enabled /\ c.available = d.available /\ c.selector = d.selector /\ c.template = d.template

StatusIsCurrent(c) == c.previousSelector = c.selector /\ c.previousTemplate = c.template

\* The watch is as the configuration asks for, and the status says so.
Settled(c) ==
  IF enabled(c) THEN watch.active /\ watch.selector = c.selector /\ StatusIsCurrent(c) ELSE ~watch.active

\* The cache misses a deletion, the status that was written last, or a change by a user, who
\* has made it when the configuration before was reconciled.
CacheInv ==
  \/ cached = config
  \/ ~config.exists
  \/ cached.exists /\ SameSpec(cached, config) /\ enabled(config) /\ StatusIsCurrent(config)
  \/ /\ ~request /\ work = Idle /\ Settled(cached)
     /\ cached.exists => /\ config.previousSelector = cached.previousSelector
                         /\ config.previousTemplate = cached.previousTemplate
     /\ ~cached.exists => config.previousSelector = "" /\ config.previousTemplate = NoTemplate

ReconciledInv == reconciled => Settled(config)

WatchInv ==
  /\ ~watch.active => job = Idle
  /\ watch.active => watch.selector # ""
  /\ config.exists /\ watch.active => watch.selector = config.selector \/ watch.selector = config.previousSelector

WorkInv ==
  (work # Idle /\ config.exists) =>
    /\ enabled(config) /\ work.selector = config.selector
    /\ watch.active /\ watch.selector = config.selector

\* The parts of a configuration that exists.
LEMMA ConfigFields ==
  ASSUME NEW c, IsConfig(c)
  PROVE  /\ c.exists \in BOOLEAN /\ enabled(c) \in BOOLEAN
         /\ ~c.exists => c = NoConfig
         /\ c.exists => /\ c.enabled \in BOOLEAN /\ c.available \in BOOLEAN /\ c.rv \in Int
                        /\ c # NoConfig /\ c \in Configs
                        /\ c.template \in Templates /\ c.previousTemplate \in Templates /\ c.selector \in Selectors /\ c.previousSelector \in Selectors
                        /\ PatientUsers => c.selector # "" /\ (c.enabled => c.template # NoTemplate)
  <1>1. CASE c = NoConfig
    BY <1>1 DEF NoConfig, enabled
  <1>2. CASE c \in Configs /\ (PatientUsers => c.selector # "" /\ (c.enabled => c.template # NoTemplate))
    <2>1. c.exists = TRUE /\ NoConfig.exists = FALSE
      BY <1>2 DEF Configs, NoConfig
    <2> QED
      BY <1>2, <2>1 DEF Configs, enabled
  <1> QED
    BY <1>1, <1>2 DEF IsConfig

\* A template has changed if it is another one.
LEMMA TemplatesCompare ==
  ASSUME NEW s \in Templates, NEW t \in Templates
  PROVE  compareMonitoringTemplates(s, t) <=> s # t
  <1>1. s = [meta |-> s.meta, spec |-> s.spec] /\ t = [meta |-> t.meta, spec |-> t.spec]
    BY SpecsAreComplete DEF Templates, NoTemplate
  <1>2. compareMonitoringResourceToMonitoringTemplateAndUpdate(t, s) = [meta |-> s.meta, spec |-> s.spec]
    BY <1>1 DEF compareMonitoringResourceToMonitoringTemplateAndUpdate, compareAndUpdateSpec, compareAndUpdateObjectMeta
  <1> QED
    BY <1>1, <1>2 DEF compareMonitoringTemplates

\* The fields of a configuration whose status is written.
LEMMA StatusIsWritten ==
  ASSUME NEW c \in Configs, NEW t \in Templates, NEW s \in Selectors, NEW r \in Int,
         NEW d, d = [c EXCEPT !.previousSelector = s, !.previousTemplate = t, !.rv = r]
  PROVE  d \in Configs /\ SameSpec(d, c) /\ d.previousSelector = s /\ d.previousTemplate = t /\ d.rv = r
  BY DEF Configs, SameSpec

\* What a user writes into a configuration.
LEMMA ConfigApplies ==
  ASSUME KeepInv, ControlTypes, ApplyConfiguration
  PROVE  /\ IsConfig(config') /\ config'.exists /\ config' # config
         /\ config.exists => /\ config'.previousSelector = config.previousSelector
                             /\ config'.previousTemplate = config.previousTemplate
         /\ ~config.exists => config'.previousSelector = "" /\ config'.previousTemplate = NoTemplate
         /\ scenario' = scenario /\ cached' = cached /\ ns' = ns /\ monitoring' = monitoring /\ request' = request
         /\ work' = work /\ goroutines' = goroutines /\ watch' = watch /\ job' = job /\ hook' = hook
         /\ disturbed' \in BOOLEAN /\ pace
         /\ disturbed' <=> (disturbed \/ \E n \in Namespaces : waiting(n))
  <1>1. step \in Commands(scenario) /\ step.op = "config"
    <2>1. script \in Seq(Commands(scenario)) /\ script # <<>> /\ step.op = "config"
      BY DEF ApplyConfiguration, scripted, KeepInv, ScriptIsSequence
    <2> QED
      BY <2>1 DEF step
  <1>2. /\ step.spec \in ConfigSpecs
        /\ PatientUsers => step.spec.selector # "" /\ (step.spec.enabled => step.spec.template # NoTemplate)
    <2>1. step.spec \in {c.spec : c \in {d \in Commands(scenario) : d.op = "config"}}
      BY <1>1
    <2>2. step.spec \in ConfigSpecs
      BY <2>1 DEF ControlTypes, ConfigSpecs
    <2> QED
      BY <1>1, <2>2 DEF PatientUsers
  <1> DEFINE sp == step.spec
  <1>a. /\ sp.enabled \in BOOLEAN /\ sp.available \in BOOLEAN /\ sp.template \in Templates /\ sp.selector \in Selectors
        /\ NoTemplate \in Templates /\ "" \in Selectors /\ NoConfig.exists = FALSE
        /\ PatientUsers => sp.selector # "" /\ (sp.enabled => sp.template # NoTemplate)
    BY <1>2, SpecsAreComplete DEF Templates, Selectors, NoConfig
  <1>3. scenario' = scenario /\ (PatientUsers' <=> PatientUsers)
    BY DEF ApplyConfiguration, PatientUsers, Commands
  <1>4. CASE config.exists
    <2>1. config \in Configs
      BY <1>4, <1>a DEF ControlTypes, IsConfig
    <2> DEFINE r == config.rv + 1
    <2>2. r \in Int /\ r # config.rv
      BY <2>1 DEF Configs
    <2>3. config' = [config EXCEPT !.enabled = sp.enabled, !.selector = sp.selector,
                                   !.template = sp.template, !.available = sp.available, !.rv = r]
      BY <1>4, <2>1 DEF ApplyConfiguration, Configs
    <2> HIDE DEF r, sp
    <2>5. /\ config' \in Configs /\ config'.rv = r
          /\ config'.selector = sp.selector /\ config'.enabled = sp.enabled /\ config'.template = sp.template
          /\ config'.previousSelector = config.previousSelector /\ config'.previousTemplate = config.previousTemplate
      BY <1>a, <2>1, <2>2, <2>3 DEF Configs
    <2>6. config'.exists = TRUE
      BY <2>5 DEF Configs
    <2>4. IsConfig(config') /\ config' # config
      BY <1>a, <2>2, <2>5 DEF IsConfig
    <2> QED
      BY <1>4, <2>4, <2>5, <2>6 DEF ApplyConfiguration
  <1>5. CASE ~config.exists
    <2> DEFINE one == 1
    <2>1. config' = [exists |-> TRUE, enabled |-> sp.enabled, selector |-> sp.selector, template |-> sp.template,
             available |-> sp.available, previousSelector |-> "", previousTemplate |-> NoTemplate, rv |-> one]
      BY <1>5 DEF ApplyConfiguration
    <2>2. one \in Int
      OBVIOUS
    <2> HIDE DEF one, sp
    <2>3. /\ config' \in Configs /\ config'.exists = TRUE
          /\ config'.selector = sp.selector /\ config'.enabled = sp.enabled /\ config'.template = sp.template
          /\ config'.previousSelector = "" /\ config'.previousTemplate = NoTemplate
      BY <1>a, <2>1, <2>2 DEF Configs
    <2>4. IsConfig(config') /\ config' # config
      BY <1>a, <1>5, <2>3 DEF IsConfig
    <2> QED
      BY <1>5, <2>3, <2>4 DEF ApplyConfiguration
  <1> QED
    BY <1>4, <1>5

\* No monitoring resource is wanted.
Off(c) == ~c.exists \/ (c.available /\ ~c.enabled)

Watching(c) ==
  [active |-> TRUE, selector |-> c.selector, queue |-> {n \in existing : namespaceMatchesLabelSelector(n, c.selector)}]

\* What WatchWithSelector does for a configuration with selector and template.
Restarts(c) == ~watch.active \/ (c.previousSelector # "" /\ c.previousSelector # c.selector)
IsWatched(c) ==
  /\ watch' = IF Restarts(c) THEN Watching(c) ELSE watch
  /\ job' = IF c.previousSelector # "" /\ c.previousSelector # c.selector THEN Idle ELSE job
  /\ goroutines' = goroutines
       \cup (IF c.previousSelector # "" /\ c.previousSelector # c.selector THEN {unmonitor(c)} ELSE {})
       \cup (IF c.previousTemplate # c.template THEN {updateAll(c)} ELSE {})
  /\ work' = IF StatusIsCurrent(c) THEN Idle ELSE [stage |-> "status", selector |-> c.selector]
  /\ disturbed' \in BOOLEAN /\ (disturbed => disturbed')
  /\ (c.previousTemplate # c.template /\ overtakes(c)) => disturbed'

LEMMA ReconcileSteps ==
  ASSUME ControlTypes, PatientUsers, Reconcile
  PROVE  /\ request /\ work = Idle /\ ~request'
         /\ \/ Off(cached) /\ watch' = NotWatching /\ job' = Idle /\ work' = Idle
               /\ goroutines' = goroutines \cup {deleteAll} /\ disturbed' = disturbed
            \/ cached.exists /\ ~cached.available /\ watch' = NotWatching /\ job' = Idle /\ work' = Idle
               /\ goroutines' = goroutines /\ disturbed' = disturbed
            \/ enabled(cached) /\ IsWatched(cached)
         /\ UNCHANGED <<scenario, config, cached, ns, monitoring, hook>>
  <1>1. IsConfig(cached) /\ disturbed \in BOOLEAN
    BY DEF ControlTypes
  <1>2. ASSUME enabled(cached), WatchWithSelector(cached) PROVE IsWatched(cached)
    <2>1. cached.exists /\ cached.enabled /\ cached.template # NoTemplate /\ cached.template \in Templates /\ cached.previousTemplate \in Templates
      BY <1>1, <1>2, ConfigFields DEF enabled
    <2>2. compareMonitoringTemplates(cached.previousTemplate, cached.template) <=> cached.previousTemplate # cached.template
      BY <2>1, TemplatesCompare
    <2>3. needsStatus(cached) <=> ~StatusIsCurrent(cached)
      BY <2>2 DEF needsStatus, StatusIsCurrent
    <2>4. selectorHasChanged(cached) <=> cached.previousSelector # "" /\ cached.previousSelector # cached.selector
      BY DEF selectorHasChanged
    <2>5. watch' = IF Restarts(cached) THEN Watching(cached) ELSE watch
      BY <1>2, <2>4 DEF WatchWithSelector, ensureNamespaceWatchIsActive, ensureNamespaceWatchIsStopped, NotWatching,
         Restarts, Watching
    <2>6. job' = IF cached.previousSelector # "" /\ cached.previousSelector # cached.selector THEN Idle ELSE job
      BY <1>2, <2>4 DEF WatchWithSelector
    <2>7. goroutines' = goroutines
       \cup (IF cached.previousSelector # "" /\ cached.previousSelector # cached.selector THEN {unmonitor(cached)} ELSE {})
       \cup (IF cached.previousTemplate # cached.template THEN {updateAll(cached)} ELSE {})
      BY <1>2, <2>1, <2>2, <2>4 DEF WatchWithSelector
    <2>8. work' = IF StatusIsCurrent(cached) THEN Idle ELSE [stage |-> "status", selector |-> cached.selector]
      BY <1>2, <2>3 DEF WatchWithSelector
    <2>9. disturbed' = (disturbed \/ (compareMonitoringTemplates(cached.previousTemplate, cached.template) /\ overtakes(cached)))
      BY <1>2 DEF WatchWithSelector
    <2>10. disturbed' \in BOOLEAN /\ (disturbed => disturbed') /\ ((cached.previousTemplate # cached.template /\ overtakes(cached)) => disturbed')
      BY <1>1, <2>2, <2>9
    <2> QED
      BY <2>5, <2>6, <2>7, <2>8, <2>10 DEF IsWatched
  <1>3. ASSUME (~cached.exists \/ (cached.exists /\ enabled([cached EXCEPT !.enabled = ~@]))) = TRUE
        PROVE  Off(cached)
    <2>1. CASE cached.exists
      <3>1. cached \in Configs
        BY <1>1, <2>1, ConfigFields
      <3>2. [cached EXCEPT !.enabled = ~@].available = cached.available /\ [cached EXCEPT !.enabled = ~@].enabled = ~cached.enabled
        BY <3>1 DEF Configs
      <3> QED
        BY <1>3, <2>1, <3>1, <3>2 DEF enabled, Off, Configs
    <2> QED
      BY <2>1 DEF Off
  <1> QED
    BY <1>2, <1>3 DEF Reconcile, StopAndClean, ensureNamespaceWatchIsStopped

LEMMA ControlOfReconcile ==
  ASSUME ControlTypes, PatientUsers, CacheInv, WatchInv, Reconcile
  PROVE  CacheInv' /\ ReconciledInv' /\ WatchInv' /\ WorkInv'
  <1>1. request /\ work = Idle /\ ~request' /\ UNCHANGED <<scenario, config, cached, ns, monitoring, hook>>
    BY ReconcileSteps
  <1>2. IsConfig(cached) /\ IsConfig(config) /\ IsWatch(watch)
    BY DEF ControlTypes
  <1>3. \/ cached = config \/ ~config.exists
        \/ cached.exists /\ config.exists /\ SameSpec(cached, config) /\ enabled(config) /\ StatusIsCurrent(config)
    BY <1>1 DEF CacheInv, enabled
  <1>4. CacheInv'
    BY <1>1, <1>3 DEF CacheInv, SameSpec, enabled, StatusIsCurrent
  <1>5. CASE ~enabled(cached) /\ watch' = NotWatching /\ job' = Idle /\ work' = Idle
    <2>1. ~watch'.active
      BY <1>5 DEF NotWatching
    <2> QED
      BY <1>1, <1>4, <1>5, <2>1 DEF ReconciledInv, WatchInv, WorkInv, Settled, reconciled, enabled
  <1>6. CASE enabled(cached) /\ IsWatched(cached)
    <2>1. cached.exists /\ cached.selector # ""
      BY <1>2, <1>6, ConfigFields DEF enabled
    <2>2. watch'.active
      BY <1>6 DEF IsWatched, Restarts, Watching
    <2>3. CASE ~config.exists
      <3>1. cached # config
        BY <2>1, <2>3
      <3>2. watch'.selector # ""
        BY <1>6, <2>1 DEF IsWatched, Restarts, Watching, WatchInv
      <3> QED
        BY <1>1, <1>4, <2>2, <2>3, <3>1, <3>2 DEF ReconciledInv, WatchInv, WorkInv, reconciled
    <2>4. CASE config.exists
      <3>1. SameSpec(cached, config) /\ enabled(config)
        BY <1>3, <1>6, <2>4 DEF SameSpec
      <3>2. watch'.selector = config.selector
        <4>1. CASE Restarts(cached)
          BY <1>6, <3>1, <4>1 DEF IsWatched, Watching, SameSpec
        <4>2. CASE ~Restarts(cached)
          <5>1. watch.active /\ (watch.selector = config.selector \/ watch.selector = config.previousSelector) /\ watch.selector # ""
            BY <2>4, <4>2 DEF Restarts, WatchInv
          <5>2. cached.previousSelector = "" \/ cached.previousSelector = cached.selector
            BY <4>2 DEF Restarts
          <5>3. watch.selector = config.selector
            BY <1>3, <2>4, <3>1, <5>1, <5>2 DEF SameSpec, StatusIsCurrent
          <5> QED
            BY <1>6, <4>2, <5>3 DEF IsWatched
        <4> QED
          BY <4>1, <4>2
      <3>3. config.selector # ""
        BY <1>2, <2>4, ConfigFields
      <3>4. WatchInv'
        BY <1>1, <2>2, <3>2, <3>3 DEF WatchInv
      <3>5. WorkInv'
        BY <1>1, <1>6, <2>2, <3>1, <3>2 DEF WorkInv, IsWatched, SameSpec, enabled
      <3>6. ReconciledInv'
        BY <1>1, <1>6, <2>2, <3>1, <3>2 DEF ReconciledInv, reconciled, Settled, IsWatched, enabled, StatusIsCurrent, Idle
      <3> QED
        BY <1>4, <3>4, <3>5, <3>6
    <2> QED
      BY <2>3, <2>4
  <1> QED
    BY <1>2, <1>5, <1>6, ReconcileSteps, ConfigFields DEF Off, enabled

LEMMA Patience == ASSUME PatientUsers, pace PROVE reconciled
  <1>1. scenario.pace \in {"reconciled", "quiet"}
    BY DEF PatientUsers
  <1> QED
    BY <1>1 DEF pace, quiet

LEMMA WatchFields ==
  ASSUME NEW w, IsWatch(w)
  PROVE  /\ w.active \in BOOLEAN
         /\ ~w.active => w = NotWatching /\ w.queue = {}
         /\ w.active => w.selector \in Selectors /\ w = [active |-> TRUE, selector |-> w.selector, queue |-> w.queue]
  <1>1. CASE w = NotWatching
    <2>1. w.active = FALSE /\ w.queue = {}
      BY <1>1 DEF NotWatching
    <2> QED
      BY <1>1, <2>1
  <1>2. CASE w = [active |-> TRUE, selector |-> w.selector, queue |-> w.queue] /\ w.selector \in Selectors
    <2>1. w.active = TRUE
      BY <1>2
    <2> QED
      BY <1>2, <2>1
  <1> QED
    BY <1>1, <1>2 DEF IsWatch

\* The steps that the reconciler of the configuration has no part in.
LEMMA ControlOfOthers ==
  ASSUME ControlTypes, CacheInv, ReconciledInv, WatchInv, WorkInv,
         UNCHANGED <<scenario, config, cached, request, work>>,
         watch'.active = watch.active, watch.active => watch'.selector = watch.selector,
         ~watch.active => job' = Idle
  PROVE  CacheInv' /\ ReconciledInv' /\ WatchInv' /\ WorkInv'
  <1>1. watch.active \in BOOLEAN
    BY WatchFields DEF ControlTypes
  <1>3. Settled(cached)' <=> Settled(cached)
    BY <1>1 DEF Settled, enabled, StatusIsCurrent
  <1>4. Settled(config)' <=> Settled(config)
    BY <1>1 DEF Settled, enabled, StatusIsCurrent
  <1>5. CacheInv'
    BY <1>3 DEF CacheInv, SameSpec, enabled, StatusIsCurrent
  <1>6. ReconciledInv'
    BY <1>4 DEF ReconciledInv, reconciled
  <1>7. WatchInv'
    BY <1>1 DEF WatchInv
  <1>8. WorkInv'
    BY <1>1 DEF WorkInv, enabled
  <1> QED
    BY <1>5, <1>6, <1>7, <1>8

LEMMA ControlOfUsers ==
  ASSUME KeepInv, ControlTypes, PatientUsers, CacheInv, ReconciledInv, WatchInv, WorkInv,
         ApplyConfiguration \/ DeleteConfiguration \/ Restart
  PROVE  CacheInv' /\ ReconciledInv' /\ WatchInv' /\ WorkInv'
  <1>0. IsConfig(config) /\ IsConfig(cached) /\ IsWatch(watch)
    BY DEF ControlTypes
  <1>1. CASE ApplyConfiguration
    <2>1. reconciled /\ config'.exists /\ cached' = cached /\ request' = request /\ work' = work /\ watch' = watch /\ job' = job /\ config' # config
      BY <1>1, ConfigApplies, Patience
    <2>2. ~request /\ work = Idle /\ cached = config /\ Settled(config)
      BY <2>1 DEF ReconciledInv, reconciled
    <2>3. CacheInv'
      <3>1. Settled(cached)'
        BY <2>1, <2>2 DEF Settled, enabled, StatusIsCurrent
      <3> QED
        BY <1>1, <2>1, <2>2, <3>1, ConfigApplies DEF CacheInv
    <2>4. ReconciledInv'
      BY <2>1, <2>2 DEF ReconciledInv, reconciled
    <2>5. WatchInv'
      <3>1. watch.active => enabled(config) /\ watch.selector = config.previousSelector /\ config.exists
        BY <2>2 DEF Settled, StatusIsCurrent, enabled
      <3> QED
        BY <1>1, <2>1, <3>1, ConfigApplies DEF WatchInv
    <2>6. WorkInv'
      BY <2>1, <2>2 DEF WorkInv
    <2> QED
      BY <2>3, <2>4, <2>5, <2>6
  <1>2. CASE DeleteConfiguration
    <2>1. /\ config' = NoConfig /\ config'.exists = FALSE /\ cached' = cached /\ request' = request
          /\ work' = work /\ watch' = watch /\ job' = job
      BY <1>2 DEF DeleteConfiguration, NoConfig
    <2>2. ReconciledInv'
      <3>1. SUFFICES ASSUME reconciled' PROVE Settled(config)'
        BY DEF ReconciledInv
      <3>2. cached = NoConfig /\ ~request /\ work = Idle /\ ~cached.exists
        BY <2>1, <3>1 DEF reconciled, NoConfig
      <3>3. CASE config.exists
        <4>1. Settled(cached)
          BY <3>2, <3>3 DEF CacheInv
        <4> QED
          BY <2>1, <3>2, <4>1 DEF Settled, enabled
      <3>4. CASE ~config.exists
        <4>1. config = NoConfig
          BY <1>0, <3>4, ConfigFields
        <4> QED
          BY <2>1, <3>2, <4>1 DEF ReconciledInv, reconciled, Settled, enabled
      <3> QED
        BY <3>3, <3>4
    <2> QED
      BY <2>1, <2>2 DEF CacheInv, WatchInv, WorkInv
  <1>3. CASE Restart
    <2>1. /\ config' = config /\ cached' = config /\ request' = config.exists /\ work' = Idle
          /\ watch' = NotWatching /\ job' = Idle /\ ~watch'.active
      BY <1>3 DEF Restart, NotWatching
    <2> QED
      BY <2>1 DEF CacheInv, ReconciledInv, WatchInv, WorkInv, reconciled, Settled, enabled
  <1> QED
    BY <1>1, <1>2, <1>3

LEMMA ControlOfCache ==
  ASSUME ControlTypes, PatientUsers, CacheInv, ReconciledInv, WatchInv, WorkInv, CacheCatchesUp
  PROVE  CacheInv' /\ ReconciledInv' /\ WatchInv' /\ WorkInv'
  <1>1. cached' = config /\ config' = config /\ request' /\ work' = work /\ watch' = watch /\ job' = job
    BY DEF CacheCatchesUp
  <1> QED
    BY <1>1 DEF CacheInv, ReconciledInv, WatchInv, WorkInv, reconciled, enabled

\* The status update is accepted, or refused and tried again.
LEMMA StatusSteps ==
  ASSUME ControlTypes, updateOperatorConfigurationStatus
  PROVE  /\ work.stage = "status" /\ work # Idle /\ work' = Idle
         /\ \/ /\ cached.exists /\ cached = config /\ request' = request
               /\ config' \in Configs /\ SameSpec(config', config) /\ config' # config
               /\ config'.previousSelector = work.selector /\ config'.previousTemplate = config.template
            \/ config' = config /\ request' = TRUE
         /\ UNCHANGED <<scenario, cached, ns, monitoring, goroutines, watch, job, hook, disturbed>>
  <1>1. work.stage = "status" /\ work # Idle
    BY DEF updateOperatorConfigurationStatus, Idle
  <1>2. work.selector \in Selectors
    BY <1>1 DEF ControlTypes, IsWork
  <1>3. ASSUME cached.exists, cached = config,
               config' = [config EXCEPT !.previousSelector = work.selector, !.previousTemplate = cached.template, !.rv = @ + 1]
        PROVE  /\ config' \in Configs /\ SameSpec(config', config) /\ config' # config
               /\ config'.previousSelector = work.selector /\ config'.previousTemplate = config.template
    <2>1. config \in Configs
      BY <1>3, ConfigFields DEF ControlTypes
    <2> DEFINE r == config.rv + 1
    <2>2. r \in Int /\ r # config.rv
      BY <2>1 DEF Configs
    <2>3. config' = [config EXCEPT !.previousSelector = work.selector, !.previousTemplate = config.template, !.rv = r]
      BY <1>3, <2>1 DEF Configs
    <2> HIDE DEF r
    <2>4. /\ config' \in Configs /\ SameSpec(config', config) /\ config'.rv = r
          /\ config'.previousSelector = work.selector /\ config'.previousTemplate = config.template
      BY <1>2, <2>1, <2>2, <2>3 DEF Configs, SameSpec
    <2> QED
      BY <2>2, <2>4
  <1> QED
    BY <1>1, <1>3 DEF updateOperatorConfigurationStatus

LEMMA ControlOfStatus ==
  ASSUME ControlTypes, PatientUsers, CacheInv, ReconciledInv, WatchInv, WorkInv, updateOperatorConfigurationStatus
  PROVE  CacheInv' /\ ReconciledInv' /\ WatchInv' /\ WorkInv'
  <1>1. work # Idle /\ work' = Idle /\ UNCHANGED <<scenario, cached, watch, job>>
    BY StatusSteps
  <1>2. CASE config' = config /\ request' = TRUE
    BY <1>1, <1>2 DEF CacheInv, ReconciledInv, WatchInv, WorkInv, reconciled, enabled, SameSpec, StatusIsCurrent
  <1>3. CASE /\ cached.exists /\ cached = config /\ config' \in Configs /\ SameSpec(config', config) /\ config' # config
             /\ config'.previousSelector = work.selector /\ config'.previousTemplate = config.template
    <2>1. enabled(config) /\ work.selector = config.selector /\ watch.active /\ watch.selector = config.selector
      BY <1>1, <1>3 DEF WorkInv
    <2>2. config'.exists
      BY <1>3 DEF Configs
    <2>3. enabled(config') /\ StatusIsCurrent(config') /\ SameSpec(cached', config')
      BY <1>1, <1>3, <2>1, <2>2 DEF enabled, SameSpec, StatusIsCurrent
    <2>4. watch'.selector = config'.selector /\ watch'.active
      BY <1>1, <1>3, <2>1 DEF SameSpec
    <2> QED
      BY <1>1, <1>3, <2>2, <2>3, <2>4 DEF CacheInv, ReconciledInv, WatchInv, WorkInv, reconciled
  <1> QED
    BY <1>2, <1>3, StatusSteps

-----------------------------------------------------------------------------
(* The namespaces, their resources and the namespace in progress           *)

Resources ==
  [exists : {TRUE}, auto : BOOLEAN, meta : {t.meta : t \in Templates}, spec : {t.spec : t \in Templates},
   deleting : BOOLEAN]

Jobs == [stage : {"monitor", "unmonitor", "check", "create"}, name : Namespaces, template : Templates]

\* A resource lives in a namespace, and one of the operator in a namespace it may work on.
ResourceTypes ==
  /\ ns = [n \in Namespaces |-> ns[n]]
  /\ job = Idle \/ job \in Jobs
  /\ \A n \in Namespaces :
       /\ monitoring[n] = NoResource \/ monitoring[n] \in Resources
       /\ ns[n].exists \in BOOLEAN
       /\ monitoring[n].exists => ns[n].exists
       /\ n \in autoMonitored => ~isRestricted(n)

\* The parts of a resource.
LEMMA ResourceFields ==
  ASSUME ResourceTypes, NEW n \in Namespaces
  PROVE  /\ monitoring[n].exists \in BOOLEAN
         /\ ~monitoring[n].exists => monitoring[n] = NoResource
         /\ monitoring[n].exists => /\ monitoring[n] \in Resources
                                    /\ monitoring[n].auto \in BOOLEAN /\ monitoring[n].deleting \in BOOLEAN
  <1>1. CASE monitoring[n] = NoResource
    <2>1. monitoring[n].exists = FALSE
      BY <1>1 DEF NoResource
    <2> QED
      BY <1>1, <2>1
  <1>2. CASE monitoring[n] \in Resources
    BY <1>2 DEF Resources
  <1> QED
    BY <1>1, <1>2 DEF ResourceTypes

\* Marking resources for deletion changes nothing else about them.
LEMMA DeletedKeepsTypes ==
  ASSUME ResourceTypes, NEW names, monitoring' = deleted(names)
  PROVE  \A n \in Namespaces :
           /\ ~(n \in names /\ monitoring[n].exists) => monitoring'[n] = monitoring[n]
           /\ (n \in names /\ monitoring[n].exists) =>
                /\ monitoring'[n] \in Resources /\ monitoring'[n].deleting
                /\ monitoring'[n].auto = monitoring[n].auto
                /\ monitoring'[n].meta = monitoring[n].meta /\ monitoring'[n].spec = monitoring[n].spec
           /\ monitoring'[n].exists = monitoring[n].exists
  <1> SUFFICES ASSUME NEW n \in Namespaces
               PROVE  /\ ~(n \in names /\ monitoring[n].exists) => monitoring'[n] = monitoring[n]
                      /\ (n \in names /\ monitoring[n].exists) =>
                           /\ monitoring'[n] \in Resources /\ monitoring'[n].deleting
                           /\ monitoring'[n].auto = monitoring[n].auto
                           /\ monitoring'[n].meta = monitoring[n].meta /\ monitoring'[n].spec = monitoring[n].spec
                      /\ monitoring'[n].exists = monitoring[n].exists
    OBVIOUS
  <1>1. CASE ~(n \in names /\ monitoring[n].exists)
    BY <1>1 DEF deleted
  <1>2. CASE n \in names /\ monitoring[n].exists
    <2>1. monitoring'[n] = [monitoring[n] EXCEPT !.deleting = TRUE] /\ monitoring[n] \in Resources
      BY <1>2, ResourceFields DEF deleted
    <2> QED
      BY <1>2, <2>1 DEF Resources
  <1> QED
    BY <1>1, <1>2

\* A template is written into resources that exist.
LEMMA TemplateKeepsTypes ==
  ASSUME ResourceTypes, NEW names, NEW t \in Templates, names \subseteq autoMonitored,
         monitoring' = reconcileResourceWithMonitoringTemplate(names, t)
  PROVE  \A n \in Namespaces :
           /\ n \notin names => monitoring'[n] = monitoring[n]
           /\ n \in names =>
                /\ monitoring'[n] \in Resources
                /\ monitoring'[n].auto = monitoring[n].auto /\ monitoring'[n].deleting = monitoring[n].deleting
                /\ monitoring'[n].meta = t.meta /\ monitoring'[n].spec = t.spec
           /\ monitoring'[n].exists = monitoring[n].exists
  <1> SUFFICES ASSUME NEW n \in Namespaces
               PROVE  /\ n \notin names => monitoring'[n] = monitoring[n]
                      /\ n \in names =>
                           /\ monitoring'[n] \in Resources
                           /\ monitoring'[n].auto = monitoring[n].auto /\ monitoring'[n].deleting = monitoring[n].deleting
                           /\ monitoring'[n].meta = t.meta /\ monitoring'[n].spec = t.spec
                      /\ monitoring'[n].exists = monitoring[n].exists
    OBVIOUS
  <1>1. CASE n \notin names
    BY <1>1 DEF reconcileResourceWithMonitoringTemplate
  <1>2. CASE n \in names
    <2>1. monitoring[n] \in Resources
      BY <1>2, ResourceFields DEF autoMonitored
    <2>2. monitoring'[n] = [[monitoring[n] EXCEPT !.meta = t.meta] EXCEPT !.spec = t.spec]
      BY <1>2 DEF reconcileResourceWithMonitoringTemplate, compareMonitoringResourceToMonitoringTemplateAndUpdate,
         compareAndUpdateSpec, compareAndUpdateObjectMeta
    <2> DEFINE m == t.meta
               s == t.spec
    <2>3. m \in {u.meta : u \in Templates} /\ s \in {u.spec : u \in Templates}
      OBVIOUS
    <2> HIDE DEF m, s
    <2>4. monitoring'[n] = [[monitoring[n] EXCEPT !.meta = m] EXCEPT !.spec = s]
      BY <2>2 DEF m, s
    <2>5. /\ monitoring'[n] \in Resources
          /\ monitoring'[n].auto = monitoring[n].auto /\ monitoring'[n].deleting = monitoring[n].deleting
          /\ monitoring'[n].meta = m /\ monitoring'[n].spec = s
          /\ monitoring'[n].exists = monitoring[n].exists
      BY <2>1, <2>3, <2>4 DEF Resources
    <2> QED
      BY <1>2, <2>5 DEF m, s
  <1> QED
    BY <1>1, <1>2

\* The queue of the watch grows.
LEMMA EnqueuedWatch ==
  ASSUME IsWatch(watch), NEW names
  PROVE  /\ IsWatch(Enqueued(names)) /\ Enqueued(names).active = watch.active
         /\ watch.active => /\ Enqueued(names).selector = watch.selector
                            /\ Enqueued(names).queue = watch.queue \cup names
         /\ ~watch.active => Enqueued(names) = watch
  <1>1. CASE watch.active
    <2>1. watch = [active |-> TRUE, selector |-> watch.selector, queue |-> watch.queue] /\ watch.selector \in Selectors
      BY <1>1, WatchFields
    <2>2. Enqueued(names) = [active |-> TRUE, selector |-> watch.selector, queue |-> watch.queue \cup names]
      BY <1>1, <2>1 DEF Enqueued
    <2> QED
      BY <1>1, <2>1, <2>2 DEF IsWatch
  <1>2. CASE ~watch.active
    BY <1>2 DEF Enqueued
  <1> QED
    BY <1>1, <1>2

\* The scenario decides on the patience of the users.
LEMMA PatienceStays == scenario' = scenario => (PatientUsers' <=> PatientUsers)
  BY DEF PatientUsers, Commands

LEMMA ControlTypesStay ==
  ASSUME ControlTypes, scenario' = scenario, IsConfig(config'), cached' = cached \/ cached' = config,
         request' \in BOOLEAN, disturbed' \in BOOLEAN, IsWatch(watch'), IsWork(work'), goroutines' \subseteq Goroutines
  PROVE  ControlTypes'
  <1>1. PatientUsers' <=> PatientUsers
    BY PatienceStays
  <1>2. IsConfig(config)' /\ IsConfig(cached)'
    BY <1>1 DEF ControlTypes, IsConfig
  <1> QED
    BY <1>2 DEF ControlTypes, IsWatch, IsWork

LEMMA ResourceTypesStay ==
  ASSUME ResourceTypes, scenario' = scenario, ns' = ns, monitoring' = monitoring, job' = Idle \/ job' \in Jobs
  PROVE  ResourceTypes'
  BY DEF ResourceTypes, autoMonitored, isRestricted

LEMMA TypesOfConfiguration ==
  ASSUME KeepInv, ControlTypes, ResourceTypes, PatientUsers,
         ApplyConfiguration \/ DeleteConfiguration \/ CacheCatchesUp \/ Restart \/ Reconcile \/ updateOperatorConfigurationStatus
  PROVE  ControlTypes' /\ ResourceTypes'
  <1>0. /\ IsConfig(config) /\ IsConfig(cached) /\ IsWatch(watch) /\ IsWork(work) /\ goroutines \subseteq Goroutines
        /\ request \in BOOLEAN /\ disturbed \in BOOLEAN /\ (job = Idle \/ job \in Jobs)
        /\ IsWatch(NotWatching) /\ IsWork(Idle)
    BY DEF ControlTypes, ResourceTypes, IsWatch, IsWork
  <1>1. CASE ApplyConfiguration
    <2>1. IsConfig(config') /\ disturbed' \in BOOLEAN
          /\ scenario' = scenario /\ cached' = cached /\ ns' = ns /\ monitoring' = monitoring /\ request' = request
          /\ work' = work /\ goroutines' = goroutines /\ watch' = watch /\ job' = job
      BY <1>1, ConfigApplies
    <2> QED
      BY <1>0, <2>1, ControlTypesStay, ResourceTypesStay
  <1>2. CASE DeleteConfiguration
    <2>1. IsConfig(config')
      BY <1>2 DEF DeleteConfiguration, IsConfig
    <2> QED
      BY <1>0, <1>2, <2>1, ControlTypesStay, ResourceTypesStay DEF DeleteConfiguration
  <1>3. CASE CacheCatchesUp
    BY <1>0, <1>3, ControlTypesStay, ResourceTypesStay DEF CacheCatchesUp
  <1>4. CASE Restart
    <2>1. disturbed' \in BOOLEAN /\ request' \in BOOLEAN
      BY <1>0, <1>4, ConfigFields DEF Restart
    <2>2. /\ scenario' = scenario /\ ns' = ns /\ monitoring' = monitoring /\ job' = Idle /\ cached' = config
          /\ config' = config /\ watch' = NotWatching /\ work' = Idle /\ goroutines' = {}
      BY <1>4 DEF Restart
    <2> QED
      BY <1>0, <2>1, <2>2, ControlTypesStay, ResourceTypesStay
  <1>5. CASE Reconcile
    <2>1. request' = FALSE /\ UNCHANGED <<scenario, config, cached, ns, monitoring, hook>>
      BY <1>5 DEF Reconcile
    <2>2. /\ IsWatch(watch') /\ IsWork(work') /\ goroutines' \subseteq Goroutines
          /\ disturbed' \in BOOLEAN /\ job' \in {job, Idle}
      <3>1. CASE /\ watch' = NotWatching /\ job' = Idle /\ work' = Idle /\ disturbed' = disturbed
                 /\ goroutines' \subseteq goroutines \cup {deleteAll}
        BY <1>0, <3>1 DEF Goroutines
      <3>2. CASE enabled(cached) /\ IsWatched(cached)
        <4>1. cached.exists /\ cached.template \in Templates /\ cached.selector \in Selectors /\ cached.previousSelector \in Selectors
          BY <1>0, <3>2, ConfigFields DEF enabled
        <4>2. IsWatch(Watching(cached))
          BY <4>1 DEF IsWatch, Watching
        <4>3. unmonitor(cached) \in Goroutines /\ updateAll(cached) \in Goroutines
          BY <4>1 DEF unmonitor, updateAll, Goroutines
        <4>4. IsWork([stage |-> "status", selector |-> cached.selector])
          BY <4>1 DEF IsWork
        <4>5. IsWatch(watch') /\ IsWork(work')
          BY <1>0, <3>2, <4>2, <4>4 DEF IsWatched
        <4>6. goroutines' \subseteq Goroutines
          BY <1>0, <3>2, <4>3 DEF IsWatched
        <4> QED
          BY <3>2, <4>5, <4>6 DEF IsWatched
      <3> QED
        BY <1>5, <3>1, <3>2, ReconcileSteps
    <2> QED
      BY <1>0, <2>1, <2>2, ControlTypesStay, ResourceTypesStay
  <1>6. CASE updateOperatorConfigurationStatus
    <2>1. /\ work' = Idle /\ UNCHANGED <<scenario, cached, ns, monitoring, goroutines, watch, job, hook, disturbed>>
          /\ request' \in BOOLEAN
      BY <1>0, <1>6, StatusSteps
    <2>2. IsConfig(config')
      <3>1. CASE config' \in Configs /\ SameSpec(config', config) /\ cached.exists /\ cached = config
        BY <1>0, <3>1, ConfigFields DEF IsConfig, SameSpec
      <3> QED
        BY <1>0, <1>6, <3>1, StatusSteps
    <2> QED
      BY <1>0, <2>1, <2>2, ControlTypesStay, ResourceTypesStay
  <1> QED
    BY <1>1, <1>2, <1>3, <1>4, <1>5, <1>6

-----------------------------------------------------------------------------
(* What holds of every namespace as long as nothing has been disturbed     *)

\* A running watch belongs to a configuration that asks for it, or that is about to be reconciled.
QuietInv == (~request /\ work = Idle /\ ~enabled(cached)) => ~watch.active

\* A resource of the operator that nobody has asked to delete.
Kept(n) == n \in autoMonitored /\ ~monitoring[n].deleting

TemplateOf(n) == [meta |-> monitoring[n].meta, spec |-> monitoring[n].spec]

\* A goroutine will delete the resource of the namespace.
Doomed(n) ==
  \/ deleteAll \in goroutines
  \/ \E g \in goroutines : /\ g.kind = "unmonitor" /\ namespaceMatchesLabelSelector(n, g.old)
                           /\ ~namespaceMatchesLabelSelector(n, g.new)

\* The templates and selectors that the reconciler has applied or is about to apply: what the status
\* says, until the next status is to be written, and what the configuration says.
InForce(t) ==
  \/ work = Idle /\ t = config.previousTemplate
  \/ enabled(config) /\ t = config.template

Covered(n) ==
  \/ enabled(config) /\ namespaceMatchesLabelSelector(n, config.selector)
  \/ work = Idle /\ config.previousSelector # "" /\ namespaceMatchesLabelSelector(n, config.previousSelector)

\* The namespace in progress gets a monitoring resource.
monitors(n) == job.stage \in {"monitor", "check", "create"} /\ job.name = n

SelectorAt(n) == Kept(n) => Doomed(n) \/ Covered(n) \/ (waiting(n) /\ reconciled)

TemplateAt(n) ==
  Kept(n) =>
    \/ Doomed(n) \/ InForce(TemplateOf(n))
    \/ \E g \in goroutines : g.kind = "updateAll" /\ InForce(g.template) /\ namespaceMatchesLabelSelector(n, g.selector)

JobAt(n) == monitors(n) => InForce(job.template) /\ (ns[n].exists => Covered(n))

ExistsAt(n) ==
  wanted(n) => \/ monitoring[n].exists \/ ~watch.active \/ watch.selector # config.selector
               \/ n \in watch.queue \/ monitors(n)

NamespaceInv(n) ==
  /\ config.exists => SelectorAt(n) /\ TemplateAt(n) /\ JobAt(n)
  /\ enabled(config) => ExistsAt(n)

\* The template of a goroutine is in force, or what it could be written to is going to be deleted.
GoroutineInv ==
  config.exists => \A g \in goroutines : g.kind = "updateAll" =>
    \/ InForce(g.template)
    \/ /\ work = Idle /\ ~watch.active /\ config.previousTemplate = NoTemplate
       /\ \A n \in Namespaces : Kept(n) => Doomed(n)

OffInv ==
  Off(cached) => request \/ work # Idle \/ deleteAll \in goroutines \/ \A n \in Namespaces : ~Kept(n)

UndisturbedInv == GoroutineInv /\ OffInv /\ \A n \in Namespaces : NamespaceInv(n)

TypeInv == ControlTypes /\ ResourceTypes
ReconcilerInv == CacheInv /\ ReconciledInv /\ WatchInv /\ WorkInv /\ QuietInv

-----------------------------------------------------------------------------
(* The reconciler of the configuration                                     *)

LEMMA QuietOfConfiguration ==
  ASSUME KeepInv, TypeInv, PatientUsers, ReconcilerInv,
         ApplyConfiguration \/ DeleteConfiguration \/ CacheCatchesUp \/ Restart \/ Reconcile \/ updateOperatorConfigurationStatus
  PROVE  QuietInv'
  <1>0. ControlTypes /\ IsConfig(config) /\ IsConfig(cached) /\ request \in BOOLEAN
    BY DEF TypeInv, ControlTypes
  <1>1. CASE ApplyConfiguration
    BY <1>0, <1>1, ConfigApplies DEF QuietInv, ReconcilerInv, enabled
  <1>2. CASE DeleteConfiguration
    BY <1>2 DEF QuietInv, ReconcilerInv, enabled, DeleteConfiguration
  <1>3. CASE CacheCatchesUp
    BY <1>3 DEF QuietInv, CacheCatchesUp
  <1>4. CASE Restart
    BY <1>4 DEF QuietInv, Restart, NotWatching
  <1>5. CASE Reconcile
    <2>1. cached' = cached /\ (enabled(cached) \/ watch' = NotWatching)
      BY <1>0, <1>5, ReconcileSteps
    <2> QED
      BY <2>1 DEF QuietInv, NotWatching, enabled
  <1>6. CASE updateOperatorConfigurationStatus
    <2>1. cached' = cached /\ work # Idle /\ (request' = TRUE \/ (cached.exists /\ cached = config))
      BY <1>0, <1>6, StatusSteps
    <2> QED
      BY <2>1 DEF QuietInv, ReconcilerInv, WorkInv, enabled
  <1> QED
    BY <1>1, <1>2, <1>3, <1>4, <1>5, <1>6

\* Where namespaces, resources and goroutines stay as they are.
LEMMA SameResources ==
  ASSUME scenario' = scenario, ns' = ns, monitoring' = monitoring
  PROVE  /\ autoMonitored' = autoMonitored
         /\ \A n \in Namespaces : (Kept(n)' <=> Kept(n)) /\ TemplateOf(n)' = TemplateOf(n)
         /\ \A n \in Namespaces : goroutines \subseteq goroutines' /\ Doomed(n) => Doomed(n)'
         /\ \A n \in Namespaces : \A s : namespaceMatchesLabelSelector(n, s)' <=> namespaceMatchesLabelSelector(n, s)
  BY DEF autoMonitored, Kept, TemplateOf, Doomed, namespaceMatchesLabelSelector

LEMMA UndisturbedByApply ==
  ASSUME KeepInv, TypeInv, PatientUsers, ReconcilerInv, UndisturbedInv, ~disturbed', ApplyConfiguration
  PROVE  UndisturbedInv'
  <1>0. /\ ControlTypes /\ IsConfig(config) /\ IsConfig(cached) /\ IsWatch(watch)
        /\ CacheInv /\ ReconciledInv /\ WatchInv /\ GoroutineInv /\ OffInv
    BY DEF TypeInv, ControlTypes, ReconcilerInv, UndisturbedInv
  <1>1. /\ config'.exists /\ config' # config
        /\ config.exists => /\ config'.previousSelector = config.previousSelector
                            /\ config'.previousTemplate = config.previousTemplate
        /\ ~config.exists => config'.previousSelector = "" /\ config'.previousTemplate = NoTemplate
        /\ scenario' = scenario /\ cached' = cached /\ ns' = ns /\ monitoring' = monitoring /\ request' = request
        /\ work' = work /\ goroutines' = goroutines /\ watch' = watch /\ job' = job
        /\ reconciled /\ \A n \in Namespaces : ~waiting(n)
    BY <1>0, ConfigApplies, Patience
  <1>2. ~request /\ work = Idle /\ cached = config /\ Settled(config)
    BY <1>0, <1>1 DEF ReconciledInv, reconciled
  <1>3. /\ \A n \in Namespaces : (Kept(n)' <=> Kept(n)) /\ TemplateOf(n)' = TemplateOf(n) /\ (Doomed(n) => Doomed(n)')
        /\ \A n \in Namespaces : \A s : namespaceMatchesLabelSelector(n, s)' <=> namespaceMatchesLabelSelector(n, s)
    BY <1>1, SameResources
  <1>4. OffInv'
    BY <1>0, <1>1, <1>3 DEF OffInv, Off
  <1>5. ASSUME NEW t, config.exists, InForce(t) PROVE InForce(t)'
    BY <1>1, <1>2, <1>5 DEF InForce, Settled, StatusIsCurrent
  <1>6. ASSUME NEW n \in Namespaces, config.exists, Covered(n) PROVE Covered(n)'
    BY <1>0, <1>1, <1>2, <1>3, <1>6, ConfigFields DEF Covered, Settled, StatusIsCurrent
  <1>7. CASE ~config.exists
    <2>1. ~watch.active /\ job = Idle
      BY <1>0, <1>2, <1>7 DEF Settled, enabled, WatchInv
    <2>2. \A n \in Namespaces : Kept(n) => Doomed(n)
      BY <1>0, <1>2, <1>7 DEF OffInv, Off, Doomed
    <2>3. GoroutineInv'
      BY <1>1, <1>2, <1>3, <1>7, <2>1, <2>2 DEF GoroutineInv
    <2>4. ASSUME NEW n \in Namespaces PROVE NamespaceInv(n)'
      BY <1>1, <1>3, <2>1, <2>2 DEF NamespaceInv, SelectorAt, TemplateAt, JobAt, ExistsAt, monitors, Idle
    <2> QED
      BY <1>4, <2>3, <2>4 DEF UndisturbedInv
  <1>8. CASE config.exists
    <2>1. GoroutineInv'
      BY <1>0, <1>1, <1>2, <1>3, <1>5, <1>8 DEF GoroutineInv
    <2>2. ASSUME NEW n \in Namespaces PROVE NamespaceInv(n)'
      <3>1. NamespaceInv(n)
        BY DEF UndisturbedInv
      <3>2. SelectorAt(n)'
        BY <1>1, <1>3, <1>6, <1>8, <3>1 DEF NamespaceInv, SelectorAt
      <3>3. TemplateAt(n)'
        BY <1>1, <1>3, <1>5, <1>8, <3>1 DEF NamespaceInv, TemplateAt
      <3>4. JobAt(n)'
        BY <1>1, <1>5, <1>6, <1>8, <3>1 DEF NamespaceInv, JobAt, monitors
      <3>5. ExistsAt(n)'
        BY <1>1, <1>2, <3>1 DEF NamespaceInv, ExistsAt, wanted, monitors, Settled, isRestricted, namespaceMatchesLabelSelector
      <3> QED
        BY <3>2, <3>3, <3>4, <3>5 DEF NamespaceInv
    <2> QED
      BY <1>4, <2>1, <2>2 DEF UndisturbedInv
  <1> QED
    BY <1>7, <1>8

LEMMA UndisturbedByDelete ==
  ASSUME TypeInv, UndisturbedInv, DeleteConfiguration
  PROVE  UndisturbedInv'
  <1>1. /\ config'.exists = FALSE /\ ~enabled(config')
        /\ scenario' = scenario /\ cached' = cached /\ ns' = ns /\ monitoring' = monitoring /\ request' = request
        /\ work' = work /\ goroutines' = goroutines
    BY DEF DeleteConfiguration, NoConfig, enabled
  <1>2. OffInv'
    BY <1>1, SameResources DEF UndisturbedInv, OffInv, Off
  <1>3. GoroutineInv' /\ \A n \in Namespaces : NamespaceInv(n)'
    BY <1>1 DEF GoroutineInv, NamespaceInv, enabled
  <1> QED
    BY <1>2, <1>3 DEF UndisturbedInv

\* Neither the cache nor a retry of the status changes what holds of the namespaces.
LEMMA UndisturbedByRequest ==
  ASSUME TypeInv, UndisturbedInv, request', work' = work \/ work' = Idle, ~reconciled,
         UNCHANGED <<scenario, config, ns, monitoring, goroutines, watch, job>>
  PROVE  UndisturbedInv'
  <1>1. /\ \A n \in Namespaces : (Kept(n)' <=> Kept(n)) /\ TemplateOf(n)' = TemplateOf(n) /\ (Doomed(n) => Doomed(n)')
        /\ \A n \in Namespaces : \A s : namespaceMatchesLabelSelector(n, s)' <=> namespaceMatchesLabelSelector(n, s)
    BY SameResources
  <1>2. OffInv'
    BY DEF OffInv
  <1>3. ASSUME NEW t, InForce(t) PROVE InForce(t)'
    BY <1>3 DEF InForce, enabled
  <1>4. ASSUME NEW n \in Namespaces, Covered(n) PROVE Covered(n)'
    BY <1>1, <1>4 DEF Covered, enabled
  <1>5. GoroutineInv'
    BY <1>1, <1>3 DEF UndisturbedInv, GoroutineInv
  <1>6. ASSUME NEW n \in Namespaces PROVE NamespaceInv(n)'
    <2>1. NamespaceInv(n)
      BY DEF UndisturbedInv
    <2>2. config.exists => SelectorAt(n)'
      BY <1>1, <1>4, <2>1 DEF NamespaceInv, SelectorAt
    <2>3. config.exists => TemplateAt(n)'
      BY <1>1, <1>3, <2>1 DEF NamespaceInv, TemplateAt
    <2>4. config.exists => JobAt(n)'
      BY <1>3, <1>4, <2>1 DEF NamespaceInv, JobAt, monitors
    <2>5. enabled(config) => ExistsAt(n)'
      BY <2>1 DEF NamespaceInv, ExistsAt, wanted, monitors, isRestricted, namespaceMatchesLabelSelector
    <2> QED
      BY <2>2, <2>3, <2>4, <2>5 DEF NamespaceInv, enabled
  <1> QED
    BY <1>2, <1>5, <1>6 DEF UndisturbedInv

LEMMA UndisturbedByRestart ==
  ASSUME TypeInv, UndisturbedInv, ~disturbed', Restart
  PROVE  UndisturbedInv'
  <1>0. IsConfig(config)
    BY DEF TypeInv, ControlTypes
  <1>1. /\ cached' = config /\ request' = config.exists /\ work' = Idle /\ goroutines' = {} /\ watch' = NotWatching
        /\ job' = Idle /\ UNCHANGED <<scenario, config, ns, monitoring>>
        /\ goroutines = {} /\ (config.exists \/ reconciled) /\ \A n \in Namespaces : ~waiting(n)
    BY DEF Restart
  <1>2. ~watch'.active
    BY <1>1 DEF NotWatching
  <1>3. /\ \A n \in Namespaces : (Kept(n)' <=> Kept(n)) /\ TemplateOf(n)' = TemplateOf(n) /\ ~Doomed(n)
        /\ \A n \in Namespaces : \A s : namespaceMatchesLabelSelector(n, s)' <=> namespaceMatchesLabelSelector(n, s)
    BY <1>1, SameResources DEF Doomed
  <1>4. OffInv'
    BY <1>1, <1>3 DEF UndisturbedInv, OffInv, reconciled
  <1>5. GoroutineInv'
    BY <1>1 DEF GoroutineInv
  <1>6. ASSUME NEW n \in Namespaces PROVE NamespaceInv(n)'
    <2>1. NamespaceInv(n)
      BY DEF UndisturbedInv
    <2>2. config.exists => SelectorAt(n)'
      BY <1>1, <1>3, <2>1 DEF NamespaceInv, SelectorAt, Covered, enabled
    <2>3. config.exists => TemplateAt(n)'
      BY <1>1, <1>3, <2>1 DEF NamespaceInv, TemplateAt, InForce, enabled
    <2>4. JobAt(n)'
      BY <1>1 DEF JobAt, monitors, Idle
    <2>5. ExistsAt(n)'
      BY <1>2 DEF ExistsAt
    <2> QED
      BY <1>1, <2>2, <2>3, <2>4, <2>5 DEF NamespaceInv
  <1> QED
    BY <1>4, <1>5, <1>6 DEF UndisturbedInv

LEMMA UndisturbedByStatus ==
  ASSUME TypeInv, PatientUsers, ReconcilerInv, UndisturbedInv, updateOperatorConfigurationStatus
  PROVE  UndisturbedInv'
  <1>0. ControlTypes /\ IsConfig(config) /\ WorkInv
    BY DEF TypeInv, ControlTypes, ReconcilerInv
  <1>1. /\ work # Idle /\ work' = Idle /\ UNCHANGED <<scenario, cached, ns, monitoring, goroutines, watch, job>>
        /\ ~reconciled
    BY <1>0, StatusSteps DEF reconciled
  <1>2. CASE config' = config /\ request' = TRUE
    BY <1>1, <1>2, UndisturbedByRequest
  <1>3. CASE /\ cached.exists /\ cached = config /\ config' \in Configs /\ SameSpec(config', config)
             /\ config'.previousSelector = work.selector /\ config'.previousTemplate = config.template
    <2>1. enabled(config) /\ work.selector = config.selector /\ config.exists
      BY <1>0, <1>1, <1>3 DEF WorkInv
    <2>2. enabled(config') /\ config'.exists /\ config'.selector = config.selector /\ config'.template = config.template
      BY <1>3, <2>1 DEF enabled, SameSpec, Configs
    <2>3. /\ \A n \in Namespaces : (Kept(n)' <=> Kept(n)) /\ TemplateOf(n)' = TemplateOf(n) /\ (Doomed(n) => Doomed(n)')
          /\ \A n \in Namespaces : \A s : namespaceMatchesLabelSelector(n, s)' <=> namespaceMatchesLabelSelector(n, s)
      BY <1>1, SameResources
    <2>4. ASSUME NEW t, InForce(t) PROVE InForce(t)'
      BY <1>1, <2>2, <2>4 DEF InForce
    <2>5. ASSUME NEW n \in Namespaces, Covered(n) PROVE Covered(n)'
      BY <1>1, <2>2, <2>3, <2>5 DEF Covered
    <2>6. OffInv'
      BY <1>1, <1>3, <2>1 DEF OffInv, Off, enabled
    <2>7. GoroutineInv'
      BY <1>1, <2>1, <2>4 DEF UndisturbedInv, GoroutineInv
    <2>8. ASSUME NEW n \in Namespaces PROVE NamespaceInv(n)'
      <3>1. NamespaceInv(n)
        BY DEF UndisturbedInv
      <3>2. SelectorAt(n)'
        BY <1>1, <2>1, <2>3, <2>5, <3>1 DEF NamespaceInv, SelectorAt
      <3>3. TemplateAt(n)'
        BY <1>1, <2>1, <2>3, <2>4, <3>1 DEF NamespaceInv, TemplateAt
      <3>4. JobAt(n)'
        BY <1>1, <2>1, <2>4, <2>5, <3>1 DEF NamespaceInv, JobAt, monitors
      <3>5. ExistsAt(n)'
        BY <1>1, <2>1, <2>2, <3>1 DEF NamespaceInv, ExistsAt, wanted, monitors, isRestricted, namespaceMatchesLabelSelector
      <3> QED
        BY <3>2, <3>3, <3>4, <3>5 DEF NamespaceInv
    <2> QED
      BY <2>6, <2>7, <2>8 DEF UndisturbedInv
  <1> QED
    BY <1>0, <1>2, <1>3, StatusSteps

\* The watch is stopped; unless the configuration is unavailable, everything is going to be deleted.
LEMMA UndisturbedByStopping ==
  ASSUME TypeInv, UndisturbedInv, work = Idle, work' = Idle, job' = Idle, watch' = NotWatching, request, ~enabled(cached),
         CacheInv, UNCHANGED <<scenario, config, cached, ns, monitoring>>,
         \/ goroutines' = goroutines /\ ~Off(cached)
         \/ goroutines' = goroutines \cup {deleteAll}
  PROVE  UndisturbedInv'
  <1>0. IsConfig(cached) /\ IsConfig(config)
    BY DEF TypeInv, ControlTypes
  <1>1. ~watch'.active
    BY DEF NotWatching
  <1>2. /\ \A n \in Namespaces : (Kept(n)' <=> Kept(n)) /\ TemplateOf(n)' = TemplateOf(n) /\ (Doomed(n) => Doomed(n)')
        /\ \A n \in Namespaces : \A s : namespaceMatchesLabelSelector(n, s)' <=> namespaceMatchesLabelSelector(n, s)
        /\ deleteAll \in goroutines' => \A n \in Namespaces : Doomed(n)'
    BY SameResources DEF Doomed
  <1>3. OffInv'
    BY DEF OffInv, Off
  <1>4. \A t : InForce(t)' <=> InForce(t)
    BY DEF InForce, enabled
  <1>5. \A n \in Namespaces : Covered(n)' <=> Covered(n)
    BY <1>2 DEF Covered, enabled
  <1>6. GoroutineInv'
    <2> SUFFICES ASSUME config.exists, NEW g \in goroutines', g.kind = "updateAll"
                 PROVE  \/ InForce(g.template)'
                        \/ /\ work' = Idle /\ ~watch'.active /\ config'.previousTemplate = NoTemplate
                           /\ \A n \in Namespaces : Kept(n)' => Doomed(n)'
      BY DEF GoroutineInv, InForce
    <2>1. g \in goroutines
      BY DEF deleteAll
    <2> QED
      BY <1>1, <1>2, <1>4, <2>1 DEF UndisturbedInv, GoroutineInv
  <1>7. ASSUME NEW n \in Namespaces PROVE NamespaceInv(n)'
    <2>1. NamespaceInv(n)
      BY DEF UndisturbedInv
    <2>2. config.exists => SelectorAt(n)'
      BY <1>2, <1>5, <2>1 DEF NamespaceInv, SelectorAt, reconciled
    <2>3. ASSUME config.exists PROVE TemplateAt(n)'
      <3>1. CASE \E g \in goroutines : g.kind = "updateAll" /\ InForce(g.template) /\ namespaceMatchesLabelSelector(n, g.selector)
        <4> PICK g \in goroutines : g.kind = "updateAll" /\ InForce(g.template) /\ namespaceMatchesLabelSelector(n, g.selector)
          BY <3>1
        <4>1. g \in goroutines' /\ InForce(g.template)' /\ namespaceMatchesLabelSelector(n, g.selector)'
          BY <1>2, <1>4
        <4> QED
          BY <4>1 DEF TemplateAt, InForce, namespaceMatchesLabelSelector
      <3> QED
        BY <1>2, <1>4, <2>1, <2>3, <3>1 DEF NamespaceInv, TemplateAt
    <2>4. JobAt(n)'
      BY DEF JobAt, monitors, Idle
    <2>5. ExistsAt(n)'
      BY <1>1 DEF ExistsAt
    <2> QED
      BY <2>2, <2>3, <2>4, <2>5 DEF NamespaceInv
  <1> QED
    BY <1>3, <1>6, <1>7 DEF UndisturbedInv

\* The watch is started, restarted or left alone, and goroutines take care of what the change of
\* the configuration means for the resources there are.
LEMMA UndisturbedByWatching ==
  ASSUME TypeInv, PatientUsers, CacheInv, WatchInv, UndisturbedInv, work = Idle, request, enabled(cached), IsWatched(cached), ~disturbed',
         UNCHANGED <<scenario, config, cached, ns, monitoring>>
  PROVE  UndisturbedInv'
  <1>0. ControlTypes /\ IsConfig(cached) /\ IsConfig(config) /\ IsWatch(watch) /\ disturbed \in BOOLEAN
    BY DEF TypeInv, ControlTypes
  <1> DEFINE c == cached
  <1>1. /\ goroutines' = goroutines
             \cup (IF c.previousSelector # "" /\ c.previousSelector # c.selector THEN {unmonitor(c)} ELSE {})
             \cup (IF c.previousTemplate # c.template THEN {updateAll(c)} ELSE {})
        /\ watch' = IF Restarts(c) THEN Watching(c) ELSE watch
        /\ job' = IF c.previousSelector # "" /\ c.previousSelector # c.selector THEN Idle ELSE job
        /\ work' = IF StatusIsCurrent(c) THEN Idle ELSE [stage |-> "status", selector |-> c.selector]
        /\ c.previousTemplate # c.template => ~overtakes(c)
    BY DEF IsWatched
  <1>2. /\ c.exists /\ c.selector # "" /\ c.template # NoTemplate
        /\ [stage |-> "status", selector |-> c.selector] # Idle
    BY <1>0, ConfigFields DEF enabled, Idle
  <1>3. /\ \A n \in Namespaces : (Kept(n)' <=> Kept(n)) /\ TemplateOf(n)' = TemplateOf(n) /\ (Doomed(n) => Doomed(n)')
        /\ \A n \in Namespaces : \A s : namespaceMatchesLabelSelector(n, s)' <=> namespaceMatchesLabelSelector(n, s)
    BY <1>1, SameResources
  <1>4. OffInv'
    BY <1>2 DEF OffInv, Off, enabled
  <1>5. CASE ~config.exists
    BY <1>4, <1>5 DEF UndisturbedInv, GoroutineInv, NamespaceInv, enabled
  <1>6. CASE config.exists
    <2>1. c = config \/ (c.selector = config.selector /\ c.template = config.template /\ enabled(config) /\ StatusIsCurrent(config))
      BY <1>6 DEF CacheInv, SameSpec
    <2>2. c.selector = config.selector /\ c.template = config.template /\ enabled(config) /\ enabled(config)'
      BY <2>1 DEF enabled
    <2>3. InForce(c.template)'
      BY <2>2 DEF InForce
    \* The templates in force before are the old one and the new one.
    <2>4. ASSUME NEW t, InForce(t), t # c.template
          PROVE  c = config /\ t = c.previousTemplate /\ c.previousTemplate # c.template
      BY <2>1, <2>2, <2>4 DEF InForce, StatusIsCurrent
    <2>5. ASSUME NEW n \in Namespaces, Covered(n), ~Doomed(n)' PROVE Covered(n)' /\ namespaceMatchesLabelSelector(n, c.selector)
      <3>1. CASE namespaceMatchesLabelSelector(n, c.selector)
        BY <1>3, <2>2, <3>1 DEF Covered
      <3>2. CASE ~namespaceMatchesLabelSelector(n, c.selector)
        <4>1. c = config /\ c.previousSelector # "" /\ c.previousSelector # c.selector /\ namespaceMatchesLabelSelector(n, c.previousSelector)
          BY <2>1, <2>2, <2>5, <3>2 DEF Covered, StatusIsCurrent
        <4>2. unmonitor(c) \in goroutines'
          BY <1>1, <4>1
        <4>3. unmonitor(c).kind = "unmonitor" /\ unmonitor(c).old = c.previousSelector /\ unmonitor(c).new = c.selector
          BY DEF unmonitor
        <4>4. Doomed(n)'
          BY <1>3, <3>2, <4>1, <4>2, <4>3 DEF Doomed
        <4> QED
          BY <2>5, <4>4
      <3> QED
        BY <3>1, <3>2
    <2>6. GoroutineInv'
      <3> SUFFICES ASSUME NEW g \in goroutines', g.kind = "updateAll" PROVE InForce(g.template)'
        BY DEF GoroutineInv
      <3>1. CASE g \in goroutines /\ c.previousTemplate # c.template
        BY <1>1, <2>3, <3>1 DEF overtakes
      <3>2. CASE g \in goroutines /\ c.previousTemplate = c.template
        <4>1. config.previousTemplate # NoTemplate
          BY <1>2, <2>1, <2>2, <3>2 DEF StatusIsCurrent
        <4>2. InForce(g.template)
          BY <1>6, <3>2, <4>1 DEF UndisturbedInv, GoroutineInv
        <4> QED
          BY <2>3, <2>4, <3>2, <4>2
      <3>3. CASE g \notin goroutines
        <4>0. g # unmonitor(c)
          BY DEF unmonitor
        <4>1. g = updateAll(c)
          BY <1>1, <3>3, <4>0
        <4>2. g.template = c.template
          BY <4>1 DEF updateAll
        <4> QED
          BY <2>3, <4>2
      <3> QED
        BY <3>1, <3>2, <3>3
    <2>7. ASSUME NEW n \in Namespaces PROVE NamespaceInv(n)'
      <3>1. SelectorAt(n) /\ TemplateAt(n) /\ JobAt(n) /\ ExistsAt(n)
        BY <1>6, <2>2 DEF UndisturbedInv, NamespaceInv
      <3>2. Kept(n)' => Doomed(n)' \/ (Covered(n)' /\ namespaceMatchesLabelSelector(n, c.selector))
        BY <1>3, <2>5, <3>1 DEF SelectorAt, reconciled
      <3>3. TemplateAt(n)'
        <4> SUFFICES ASSUME Kept(n)', ~Doomed(n)'
                     PROVE  \/ InForce(TemplateOf(n))'
                            \/ \E g \in goroutines' : g.kind = "updateAll" /\ InForce(g.template)' /\ namespaceMatchesLabelSelector(n, g.selector)'
          BY DEF TemplateAt, InForce, namespaceMatchesLabelSelector
        <4>1. CASE c.previousTemplate # c.template
          <5>1. updateAll(c) \in goroutines'
            BY <1>1, <4>1
          <5>2. updateAll(c).kind = "updateAll" /\ updateAll(c).template = c.template /\ updateAll(c).selector = c.selector
            BY DEF updateAll
          <5>3. InForce(updateAll(c).template)' /\ namespaceMatchesLabelSelector(n, updateAll(c).selector)'
            BY <1>3, <2>3, <3>2, <5>2 DEF InForce, updateAll
          <5> QED
            BY <5>1, <5>2, <5>3
        <4>2. CASE c.previousTemplate = c.template
          <5>1. \A t : InForce(t) => t = c.template
            BY <2>4, <4>2
          <5>2. CASE InForce(TemplateOf(n))
            BY <1>3, <2>3, <5>1, <5>2 DEF InForce
          <5>3. CASE \E g \in goroutines : g.kind = "updateAll" /\ InForce(g.template) /\ namespaceMatchesLabelSelector(n, g.selector)
            <6> PICK g \in goroutines : g.kind = "updateAll" /\ InForce(g.template) /\ namespaceMatchesLabelSelector(n, g.selector)
              BY <5>3
            <6>1. g \in goroutines' /\ g.template = c.template /\ namespaceMatchesLabelSelector(n, g.selector)'
              BY <1>1, <1>3, <5>1
            <6> QED
              BY <2>3, <6>1
          <5> QED
            BY <1>3, <3>1, <5>2, <5>3 DEF TemplateAt
        <4> QED
          BY <4>1, <4>2
      <3>4. JobAt(n)'
        <4> SUFFICES ASSUME monitors(n)' PROVE InForce(job.template)' /\ (ns[n].exists => Covered(n)')
          BY DEF JobAt
        <4>1. job' = job /\ ~(c.previousSelector # "" /\ c.previousSelector # c.selector)
          BY <1>1 DEF monitors, Idle
        <4>2. InForce(job.template) /\ (ns[n].exists => Covered(n))
          BY <3>1, <4>1 DEF JobAt, monitors
        <4>3. job.template = c.template
          BY <1>1, <2>4, <4>1, <4>2 DEF overtakes, selectorHasChanged, monitors
        <4>4. Covered(n) => Covered(n)'
          BY <1>3, <2>1, <2>2, <4>1 DEF Covered, StatusIsCurrent
        <4> QED
          BY <2>3, <4>1, <4>2, <4>3, <4>4
      <3>5. ExistsAt(n)'
        <4> SUFFICES ASSUME wanted(n)'
                     PROVE  \/ monitoring[n].exists \/ ~watch'.active \/ watch'.selector # config.selector
                            \/ n \in watch'.queue \/ monitors(n)'
          BY DEF ExistsAt
        <4>1. wanted(n)
          BY DEF wanted, isRestricted, namespaceMatchesLabelSelector
        <4>2. CASE Restarts(c)
          <5>1. watch'.queue = {m \in existing : namespaceMatchesLabelSelector(m, c.selector)}
            BY <1>1, <4>2 DEF Watching
          <5> QED
            BY <2>2, <4>1, <5>1 DEF wanted, existing
        <4>3. CASE ~Restarts(c)
          <5>1. watch' = watch /\ job' = job
            BY <1>1, <4>3 DEF Restarts
          <5> QED
            BY <3>1, <4>1, <5>1 DEF ExistsAt, monitors
        <4> QED
          BY <4>2, <4>3
      <3> QED
        BY <3>2, <3>3, <3>4, <3>5 DEF NamespaceInv, SelectorAt
    <2> QED
      BY <1>4, <2>6, <2>7 DEF UndisturbedInv
  <1> QED
    BY <1>0, <1>5, <1>6, ConfigFields

LEMMA UndisturbedByReconcile ==
  ASSUME TypeInv, PatientUsers, ReconcilerInv, UndisturbedInv, ~disturbed', Reconcile
  PROVE  UndisturbedInv'
  <1>0. ControlTypes /\ IsConfig(cached) /\ CacheInv /\ WatchInv
    BY DEF TypeInv, ControlTypes, ReconcilerInv
  <1>1. request /\ work = Idle /\ UNCHANGED <<scenario, config, cached, ns, monitoring, hook>>
    BY <1>0, ReconcileSteps
  <1>2. CASE Off(cached) /\ watch' = NotWatching /\ job' = Idle /\ work' = Idle /\ goroutines' = goroutines \cup {deleteAll}
    BY <1>0, <1>1, <1>2, UndisturbedByStopping, ConfigFields DEF Off, enabled
  <1>3. CASE cached.exists /\ ~cached.available /\ watch' = NotWatching /\ job' = Idle /\ work' = Idle /\ goroutines' = goroutines
    BY <1>0, <1>1, <1>3, UndisturbedByStopping DEF Off, enabled
  <1>4. CASE enabled(cached) /\ IsWatched(cached)
    BY <1>0, <1>1, <1>4, UndisturbedByWatching
  <1> QED
    BY <1>0, <1>2, <1>3, <1>4, ReconcileSteps

-----------------------------------------------------------------------------
(* Namespaces and the namespace controller                                 *)

\* The configuration and its reconciler are not involved, the watch keeps running.
Elsewhere ==
  /\ UNCHANGED <<scenario, config, cached, request, work>>
  /\ IsWatch(watch') /\ watch'.active = watch.active /\ (watch.active => watch'.selector = watch.selector)
  /\ ~watch.active => job' = Idle

inProgress(n) == job # Idle /\ job.name = n

Untouched(n) ==
  /\ ns'[n] = ns[n] /\ monitoring'[n] = monitoring[n]
  /\ n \in watch.queue => n \in watch'.queue
  /\ inProgress(n) => job' = job
  /\ inProgress(n)' => inProgress(n)

LEMMA ReconcilerElsewhere ==
  ASSUME TypeInv, ReconcilerInv, Elsewhere
  PROVE  ReconcilerInv'
  <1>1. ControlTypes
    BY DEF TypeInv
  <1>2. CacheInv' /\ ReconciledInv' /\ WatchInv' /\ WorkInv'
    BY <1>1, ControlOfOthers DEF ReconcilerInv, Elsewhere
  <1>3. watch.active \in BOOLEAN /\ watch'.active = watch.active
    BY <1>1, WatchFields DEF ControlTypes, Elsewhere
  <1>4. QuietInv'
    BY <1>3 DEF ReconcilerInv, QuietInv, Elsewhere, enabled
  <1> QED
    BY <1>2, <1>4 DEF ReconcilerInv

LEMMA TypesElsewhere ==
  ASSUME ControlTypes, Elsewhere, disturbed' \in BOOLEAN, goroutines' \subseteq goroutines
  PROVE  ControlTypes'
  <1>1. goroutines' \subseteq Goroutines /\ IsConfig(config') /\ IsWork(work')
    BY DEF ControlTypes, Elsewhere
  <1> QED
    BY <1>1, ControlTypesStay DEF Elsewhere, ControlTypes

LEMMA InForceElsewhere ==
  ASSUME Elsewhere
  PROVE  /\ \A t : InForce(t)' <=> InForce(t)
         /\ reconciled' <=> reconciled
         /\ config' = config /\ cached' = cached /\ (enabled(config)' <=> enabled(config))
  BY DEF Elsewhere, InForce, reconciled, enabled

\* What has the same labels matches the same selectors.
LEMMA SameLabels ==
  ASSUME NEW n \in Namespaces, ns'[n] = ns[n], Elsewhere
  PROVE  /\ \A s : namespaceMatchesLabelSelector(n, s)' <=> namespaceMatchesLabelSelector(n, s)
         /\ Covered(n)' <=> Covered(n)
         /\ wanted(n)' <=> wanted(n)
         /\ goroutines' = goroutines => (Doomed(n)' <=> Doomed(n))
  <1>1. \A s : namespaceMatchesLabelSelector(n, s)' <=> namespaceMatchesLabelSelector(n, s)
    BY DEF namespaceMatchesLabelSelector
  <1>2. Covered(n)' <=> Covered(n)
    BY <1>1 DEF Covered, Elsewhere, enabled
  <1>3. wanted(n)' <=> wanted(n)
    BY DEF wanted, isRestricted, Elsewhere, namespaceMatchesLabelSelector
  <1>4. goroutines' = goroutines => (Doomed(n)' <=> Doomed(n))
    BY <1>1 DEF Doomed
  <1> QED
    BY <1>1, <1>2, <1>3, <1>4

LEMMA SameResource ==
  ASSUME NEW n \in Namespaces, monitoring'[n] = monitoring[n]
  PROVE  (Kept(n)' <=> Kept(n)) /\ TemplateOf(n)' = TemplateOf(n) /\ (n \in autoMonitored' <=> n \in autoMonitored)
  BY DEF Kept, TemplateOf, autoMonitored

LEMMA UntouchedKeeps ==
  ASSUME Elsewhere, goroutines' = goroutines, NEW n \in Namespaces, Untouched(n), NamespaceInv(n)
  PROVE  NamespaceInv(n)'
  <1>1. /\ \A s : namespaceMatchesLabelSelector(n, s)' <=> namespaceMatchesLabelSelector(n, s)
        /\ (Covered(n)' <=> Covered(n)) /\ (wanted(n)' <=> wanted(n)) /\ (Doomed(n)' <=> Doomed(n))
        /\ (Kept(n)' <=> Kept(n)) /\ TemplateOf(n)' = TemplateOf(n) /\ (n \in autoMonitored' <=> n \in autoMonitored)
    BY SameLabels, SameResource DEF Untouched
  <1>2. /\ \A t : InForce(t)' <=> InForce(t)
        /\ reconciled' <=> reconciled
        /\ config' = config /\ (enabled(config)' <=> enabled(config))
    BY InForceElsewhere
  <1>3. waiting(n) => waiting(n)'
    <2> SUFFICES ASSUME waiting(n) PROVE waiting(n)'
      OBVIOUS
    <2>1. /\ watch.active /\ (n \in watch.queue \/ inProgress(n)) /\ n \in autoMonitored
          /\ ~monitoring[n].deleting /\ ~namespaceMatchesLabelSelector(n, watch.selector)
      BY DEF waiting, inProgress
    <2>2. watch'.active /\ watch'.selector = watch.selector
      BY <2>1 DEF Elsewhere
    <2>3. n \in watch'.queue \/ inProgress(n)'
      BY <2>1 DEF Untouched, inProgress
    <2>4. ~namespaceMatchesLabelSelector(n, watch.selector)'
      BY <2>1, <2>2 DEF namespaceMatchesLabelSelector, Untouched
    <2> QED
      BY <1>1, <2>1, <2>2, <2>3, <2>4 DEF waiting, Untouched, inProgress
  <1>4. (monitors(n)' <=> monitors(n)) /\ (monitors(n) => job' = job)
    BY DEF monitors, Untouched, inProgress, Idle
  <1>5. config.exists => SelectorAt(n)'
    BY <1>1, <1>2, <1>3 DEF NamespaceInv, SelectorAt
  <1>6. config.exists => TemplateAt(n)'
    BY <1>1, <1>2 DEF NamespaceInv, TemplateAt
  <1>7. config.exists => JobAt(n)'
    BY <1>1, <1>2, <1>4 DEF NamespaceInv, JobAt, Untouched
  <1>8. enabled(config) => ExistsAt(n)'
    BY <1>1, <1>2, <1>4 DEF NamespaceInv, ExistsAt, Untouched, Elsewhere
  <1> QED
    BY <1>2, <1>5, <1>6, <1>7, <1>8 DEF NamespaceInv

LEMMA NothingNewKept ==
  ASSUME Elsewhere, goroutines' = goroutines, GoroutineInv, OffInv,
         \A n \in Namespaces : Kept(n)' => Kept(n) /\ (Doomed(n) => Doomed(n)')
  PROVE  GoroutineInv' /\ OffInv'
  <1>1. /\ \A t : InForce(t)' <=> InForce(t)
        /\ config' = config /\ cached' = cached /\ work' = work /\ request' = request /\ watch'.active = watch.active
    BY InForceElsewhere DEF Elsewhere
  <1>2. GoroutineInv'
    BY <1>1 DEF GoroutineInv
  <1>3. OffInv'
    BY <1>1 DEF OffInv, Off
  <1> QED
    BY <1>2, <1>3

LEMMA ResourceTypesElsewhere ==
  ASSUME scenario' = scenario, ns' = [n \in Namespaces |-> ns'[n]], job' = Idle \/ job' \in Jobs,
         \A n \in Namespaces :
           /\ monitoring'[n] = NoResource \/ monitoring'[n] \in Resources
           /\ ns'[n].exists \in BOOLEAN
           /\ monitoring'[n].exists => ns'[n].exists
           /\ monitoring'[n].exists /\ monitoring'[n].auto => ~isRestricted(n)
  PROVE  ResourceTypes'
  BY DEF ResourceTypes, autoMonitored, isRestricted

\* A namespace that is new has no resource; one whose labels change is handled by the watch: it is
\* queued if it matches the selector now, or has matched it before.
LEMMA ApplyNamespaceKeeps ==
  ASSUME TypeInv, PatientUsers, ReconcilerInv, ApplyNamespace
  PROVE  TypeInv' /\ ReconcilerInv' /\ (UndisturbedInv /\ ~disturbed' => UndisturbedInv')
  <1> PICK m : m = step.name
    OBVIOUS
  <1>0. ControlTypes /\ ResourceTypes /\ IsWatch(watch) /\ disturbed \in BOOLEAN /\ IsConfig(config)
        /\ WatchInv /\ ReconciledInv
    BY DEF TypeInv, ControlTypes, ReconcilerInv
  <1>1. /\ UNCHANGED <<scenario, config, cached, monitoring, request, work, goroutines, job, hook>>
        /\ ns' = [ns EXCEPT ![m] = [exists |-> TRUE, labels |-> step.labels]]
        /\ watch' = watch \/ watch' = Enqueued({m})
        /\ namespaceLabelSelectorPredicate(ns[m].labels, step.labels) => watch' = Enqueued({m})
        /\ ns[m].exists => quiet
        /\ disturbed' = (disturbed \/ (~watch.active /\ m \in autoMonitored) \/ (job # Idle /\ job.name = m))
    BY DEF ApplyNamespace
  <1>2. /\ Elsewhere
        /\ watch.active => watch.queue \subseteq watch'.queue
        /\ watch.queue \subseteq watch'.queue
        /\ watch.active /\ watch' = Enqueued({m}) => m \in watch'.queue
    BY <1>0, <1>1, EnqueuedWatch DEF Elsewhere, WatchInv
  <1>3. \A n \in Namespaces : n # m => ns'[n] = ns[n]
    BY <1>0, <1>1 DEF ResourceTypes
  <1>4. m \in Namespaces => ns'[m].exists = TRUE /\ ns'[m].labels = step.labels
    BY <1>0, <1>1 DEF ResourceTypes
  <1>5. ControlTypes'
    BY <1>0, <1>1, <1>2, TypesElsewhere
  <1>6. ResourceTypes'
    <2>1. ns' = [n \in Namespaces |-> ns'[n]]
      BY <1>0, <1>1 DEF ResourceTypes
    <2>2. ASSUME NEW n \in Namespaces
          PROVE  /\ monitoring'[n] = NoResource \/ monitoring'[n] \in Resources
                 /\ ns'[n].exists \in BOOLEAN
                 /\ monitoring'[n].exists => ns'[n].exists
                 /\ monitoring'[n].exists /\ monitoring'[n].auto => ~isRestricted(n)
      BY <1>0, <1>1, <1>3, <1>4 DEF ResourceTypes, autoMonitored
    <2> QED
      BY <1>0, <1>1, <2>1, <2>2, ResourceTypesElsewhere DEF ResourceTypes
  <1>7. ReconcilerInv'
    BY <1>2, ReconcilerElsewhere
  <1>8. ASSUME UndisturbedInv, ~disturbed' PROVE UndisturbedInv'
    <2>0. ~inProgress(m) /\ (m \in autoMonitored => watch.active)
      BY <1>0, <1>1, <1>8, WatchFields DEF inProgress
    <2>1. ASSUME NEW n \in Namespaces, n # m PROVE Untouched(n)
      BY <1>1, <1>2, <1>3, <2>1 DEF Untouched, inProgress
    <2>2. ASSUME NEW n \in Namespaces, n # m PROVE NamespaceInv(n)'
      BY <1>1, <1>2, <1>8, <2>1, <2>2, UntouchedKeeps DEF UndisturbedInv
    <2>3. \A n \in Namespaces : (Kept(n)' <=> Kept(n)) /\ TemplateOf(n)' = TemplateOf(n) /\ (n \in autoMonitored' <=> n \in autoMonitored)
      BY <1>1, SameResource
    <2>4. m \in Namespaces /\ Kept(m) => quiet
      BY <1>0, <1>1 DEF Kept, autoMonitored, ResourceTypes
    <2>5. GoroutineInv' /\ OffInv'
      <3>1. CASE goroutines = {}
        BY <1>1, <1>8, <2>3, <3>1 DEF UndisturbedInv, GoroutineInv, OffInv, Off
      <3>2. CASE goroutines # {}
        <4>1. \A n \in Namespaces : Kept(n)' => Kept(n) /\ n # m
          BY <2>3, <2>4, <3>2 DEF quiet
        <4>2. \A n \in Namespaces : n # m => (Doomed(n)' <=> Doomed(n))
          BY <1>1, <1>2, <1>3, SameLabels
        <4> QED
          BY <1>1, <1>2, <1>8, <4>1, <4>2, NothingNewKept DEF UndisturbedInv
      <3> QED
        BY <3>1, <3>2
    <2>6. ASSUME m \in Namespaces PROVE NamespaceInv(m)'
      <3>0. NamespaceInv(m)
        BY <1>8, <2>6 DEF UndisturbedInv
      <3>1. /\ \A t : InForce(t)' <=> InForce(t)
            /\ reconciled' <=> reconciled
            /\ config' = config /\ (enabled(config)' <=> enabled(config)) /\ work' = work
        BY <1>2, InForceElsewhere DEF Elsewhere
      <3>2. ~monitors(m)'
        BY <1>1, <2>0 DEF monitors, inProgress, Idle
      <3>3. JobAt(m)'
        BY <3>2 DEF JobAt
      <3>4. enabled(config) => ExistsAt(m)'
        <4> SUFFICES ASSUME wanted(m)', watch'.active, watch'.selector = config.selector
                     PROVE  m \in watch'.queue
          BY <3>1 DEF ExistsAt
        <4>1. watch.active /\ watch.selector = config.selector /\ watch.selector # ""
          BY <1>0, <1>2 DEF Elsewhere, WatchInv
        <4>2. config.selector \in step.labels
          BY <1>4, <2>6, <3>1, <4>1 DEF wanted, namespaceMatchesLabelSelector
        <4>3. namespaceLabelSelectorPredicate(ns[m].labels, step.labels)
          BY <4>1, <4>2 DEF namespaceLabelSelectorPredicate
        <4> QED
          BY <1>1, <1>2, <4>1, <4>3
      <3>5. ASSUME config.exists, Kept(m)'
            PROVE  (Covered(m)' \/ (waiting(m)' /\ reconciled')) /\ InForce(TemplateOf(m))'
        <4>1. Kept(m) /\ quiet /\ m \in autoMonitored /\ watch.active
          BY <2>0, <2>3, <2>4, <2>6, <3>5 DEF Kept
        <4>2. reconciled /\ goroutines = {} /\ job = Idle /\ watch.queue = {}
          BY <4>1 DEF quiet
        <4>3. ~Doomed(m) /\ ~waiting(m)
          BY <4>2 DEF Doomed, waiting
        <4>4. /\ enabled(config) /\ watch.selector = config.selector /\ config.previousSelector = config.selector
              /\ watch.selector # "" /\ work = Idle
          BY <1>0, <4>1, <4>2 DEF ReconciledInv, reconciled, Settled, StatusIsCurrent, WatchInv
        <4>5. Covered(m) /\ InForce(TemplateOf(m))
          BY <3>0, <3>5, <4>1, <4>2, <4>3 DEF NamespaceInv, SelectorAt, TemplateAt
        <4>6. namespaceMatchesLabelSelector(m, config.selector)
          BY <4>4, <4>5 DEF Covered
        <4>7. namespaceLabelSelectorPredicate(ns[m].labels, step.labels)
          BY <4>1, <4>4, <4>6 DEF namespaceLabelSelectorPredicate, namespaceMatchesLabelSelector
        <4>8. m \in watch'.queue /\ watch'.active /\ watch'.selector = config.selector
          BY <1>1, <1>2, <4>1, <4>4, <4>7 DEF Elsewhere
        <4>9. CASE namespaceMatchesLabelSelector(m, config.selector)'
          BY <2>3, <2>6, <3>1, <4>4, <4>5, <4>9 DEF Covered
        <4>10. CASE ~namespaceMatchesLabelSelector(m, config.selector)'
          <5>1. ~namespaceMatchesLabelSelector(m, watch.selector)'
            BY <3>1, <4>8, <4>10 DEF namespaceMatchesLabelSelector
          <5>2. waiting(m)'
            BY <2>3, <2>6, <3>5, <4>8, <5>1 DEF waiting, Kept
          <5> QED
            BY <2>3, <2>6, <3>1, <4>2, <4>5, <5>2
        <4> QED
          BY <4>9, <4>10
      <3>6. config.exists => SelectorAt(m)' /\ TemplateAt(m)'
        BY <3>5 DEF SelectorAt, TemplateAt
      <3> QED
        BY <3>1, <3>3, <3>4, <3>6 DEF NamespaceInv
    <2> QED
      BY <2>2, <2>5, <2>6 DEF UndisturbedInv
  <1> QED
    BY <1>5, <1>6, <1>7, <1>8 DEF TypeInv

\* A namespace without a resource that is to be kept.
LEMMA OneNamespaceKeeps ==
  ASSUME Elsewhere, goroutines' = goroutines, UndisturbedInv, NEW m,
         \A n \in Namespaces : n # m => Untouched(n),
         m \in Namespaces => /\ ~Kept(m)'
                             /\ config.exists => JobAt(m)'
                             /\ enabled(config) => ExistsAt(m)'
  PROVE  UndisturbedInv'
  <1>1. \A n \in Namespaces : n # m => NamespaceInv(n)'
    BY UntouchedKeeps DEF UndisturbedInv
  <1>2. ASSUME m \in Namespaces PROVE NamespaceInv(m)'
    BY <1>2, InForceElsewhere DEF NamespaceInv, SelectorAt, TemplateAt
  <1>3. \A n \in Namespaces : Kept(n)' => n # m
    OBVIOUS
  <1>4. \A n \in Namespaces : n # m => (Kept(n)' <=> Kept(n)) /\ (Doomed(n)' <=> Doomed(n))
    BY SameLabels, SameResource DEF Untouched
  <1>5. GoroutineInv' /\ OffInv'
    BY <1>3, <1>4, NothingNewKept DEF UndisturbedInv
  <1> QED
    BY <1>1, <1>2, <1>5 DEF UndisturbedInv

LEMMA DeleteNamespaceKeeps ==
  ASSUME KeepInv, TypeInv, ReconcilerInv, DeleteNamespace
  PROVE  TypeInv' /\ ReconcilerInv' /\ (UndisturbedInv => UndisturbedInv')
  <1> PICK m : m = step.name
    OBVIOUS
  <1>0. ControlTypes /\ ResourceTypes /\ IsWatch(watch) /\ disturbed \in BOOLEAN /\ WatchInv /\ ResourcesByNamespace
    BY DEF TypeInv, ControlTypes, ReconcilerInv, KeepInv
  <1>1. /\ UNCHANGED <<scenario, config, cached, request, work, goroutines, job, hook, disturbed>>
        /\ ns' = [ns EXCEPT ![m] = NoNamespace]
        /\ monitoring' = [monitoring EXCEPT ![m] = NoResource]
        /\ watch' = watch \/ watch' = Enqueued({m})
    BY DEF DeleteNamespace
  <1>2. Elsewhere /\ watch.queue \subseteq watch'.queue
    BY <1>0, <1>1, EnqueuedWatch DEF Elsewhere, WatchInv
  <1>3. \A n \in Namespaces : n # m => ns'[n] = ns[n] /\ monitoring'[n] = monitoring[n]
    BY <1>0, <1>1 DEF ResourceTypes, ResourcesByNamespace
  <1>4. m \in Namespaces => ns'[m] = NoNamespace /\ ns'[m].exists = FALSE /\ monitoring'[m] = NoResource /\ monitoring'[m].exists = FALSE
    BY <1>0, <1>1 DEF ResourceTypes, ResourcesByNamespace, NoNamespace, NoResource
  <1>5. ControlTypes'
    BY <1>0, <1>1, <1>2, TypesElsewhere
  <1>6. ResourceTypes'
    <2>1. ns' = [n \in Namespaces |-> ns'[n]]
      BY <1>0, <1>1 DEF ResourceTypes
    <2>2. ASSUME NEW n \in Namespaces
          PROVE  /\ monitoring'[n] = NoResource \/ monitoring'[n] \in Resources
                 /\ ns'[n].exists \in BOOLEAN
                 /\ monitoring'[n].exists => ns'[n].exists
                 /\ monitoring'[n].exists /\ monitoring'[n].auto => ~isRestricted(n)
      BY <1>0, <1>1, <1>3, <1>4 DEF ResourceTypes, autoMonitored
    <2> QED
      BY <1>0, <1>1, <2>1, <2>2, ResourceTypesElsewhere DEF ResourceTypes
  <1>7. ReconcilerInv'
    BY <1>2, ReconcilerElsewhere
  <1>8. ASSUME UndisturbedInv PROVE UndisturbedInv'
    <2>1. \A n \in Namespaces : n # m => Untouched(n)
      BY <1>1, <1>2, <1>3 DEF Untouched, inProgress
    <2>2. ASSUME m \in Namespaces PROVE ~Kept(m)' /\ ExistsAt(m)' /\ (config.exists => JobAt(m)')
      <3>1. ~Kept(m)' /\ ~wanted(m)'
        BY <1>4, <2>2 DEF Kept, autoMonitored, wanted
      <3>2. config.exists => JobAt(m)'
        BY <1>1, <1>2, <1>4, <1>8, <2>2, InForceElsewhere DEF UndisturbedInv, NamespaceInv, JobAt, monitors
      <3> QED
        BY <3>1, <3>2 DEF ExistsAt
    <2> QED
      BY <1>1, <1>2, <1>8, <2>1, <2>2, OneNamespaceKeeps
  <1> QED
    BY <1>5, <1>6, <1>7, <1>8 DEF TypeInv

LEMMA RemoveFinalizerKeeps ==
  ASSUME KeepInv, TypeInv, ReconcilerInv, NEW m \in Namespaces, RemoveFinalizer(m)
  PROVE  TypeInv' /\ ReconcilerInv' /\ (UndisturbedInv => UndisturbedInv')
  <1>0. ControlTypes /\ ResourceTypes /\ IsWatch(watch) /\ disturbed \in BOOLEAN /\ WatchInv /\ ResourcesByNamespace
    BY DEF TypeInv, ControlTypes, ReconcilerInv, KeepInv
  <1>1. /\ UNCHANGED <<scenario, config, cached, ns, request, work, goroutines, job, hook, disturbed>>
        /\ monitoring' = [monitoring EXCEPT ![m] = NoResource]
        /\ watch' = Enqueued({m})
    BY DEF RemoveFinalizer
  <1>2. Elsewhere /\ watch.queue \subseteq watch'.queue /\ (watch.active => m \in watch'.queue)
    BY <1>0, <1>1, EnqueuedWatch DEF Elsewhere, WatchInv
  <1>3. \A n \in Namespaces : n # m => monitoring'[n] = monitoring[n]
    BY <1>0, <1>1 DEF ResourcesByNamespace
  <1>4. monitoring'[m] = NoResource /\ monitoring'[m].exists = FALSE
    BY <1>0, <1>1 DEF ResourcesByNamespace, NoResource
  <1>5. ControlTypes'
    BY <1>0, <1>1, <1>2, TypesElsewhere
  <1>6. ResourceTypes'
    <2>2. ASSUME NEW n \in Namespaces
          PROVE  /\ monitoring'[n] = NoResource \/ monitoring'[n] \in Resources
                 /\ ns'[n].exists \in BOOLEAN
                 /\ monitoring'[n].exists => ns'[n].exists
                 /\ monitoring'[n].exists /\ monitoring'[n].auto => ~isRestricted(n)
      BY <1>0, <1>1, <1>3, <1>4 DEF ResourceTypes, autoMonitored
    <2> QED
      BY <1>0, <1>1, <2>2, ResourceTypesElsewhere DEF ResourceTypes
  <1>7. ReconcilerInv'
    BY <1>2, ReconcilerElsewhere
  <1>8. ASSUME UndisturbedInv PROVE UndisturbedInv'
    <2>1. \A n \in Namespaces : n # m => Untouched(n)
      BY <1>1, <1>2, <1>3 DEF Untouched, inProgress
    <2>2. ~Kept(m)' /\ ExistsAt(m)'
      BY <1>2, <1>4 DEF Kept, autoMonitored, ExistsAt, Elsewhere
    <2>3. config.exists => JobAt(m)'
      BY <1>1, <1>2, <1>8, InForceElsewhere, SameLabels DEF UndisturbedInv, NamespaceInv, JobAt, monitors
    <2> QED
      BY <1>1, <1>2, <1>8, <2>1, <2>2, <2>3, OneNamespaceKeeps
  <1> QED
    BY <1>5, <1>6, <1>7, <1>8 DEF TypeInv

\* Resources of users come into being and are deleted.
LEMMA ResourcesOfUsersKeep ==
  ASSUME KeepInv, TypeInv, ReconcilerInv, CreateManualResource \/ DeleteResource
  PROVE  TypeInv' /\ ReconcilerInv' /\ (UndisturbedInv => UndisturbedInv')
  <1> PICK m : m = step.name
    OBVIOUS
  <1>0. ControlTypes /\ ResourceTypes /\ IsWatch(watch) /\ disturbed \in BOOLEAN /\ WatchInv /\ ResourcesByNamespace
    BY DEF TypeInv, ControlTypes, ReconcilerInv, KeepInv
  <1>1. UNCHANGED <<scenario, config, cached, ns, request, work, goroutines, watch, job, hook, disturbed>>
    BY DEF CreateManualResource, DeleteResource
  <1>2. Elsewhere
    BY <1>0, <1>1 DEF Elsewhere, WatchInv
  <1>3. /\ \A n \in Namespaces : n # m => monitoring'[n] = monitoring[n]
        /\ m \in Namespaces => monitoring'[m] = monitoring[m] \/
             (/\ monitoring'[m] \in Resources /\ ns[m].exists /\ (monitoring'[m].auto => monitoring[m].exists /\ monitoring[m].auto)
              /\ (monitoring'[m].auto => monitoring'[m].deleting) /\ monitoring'[m].exists = TRUE)
    <2>1. CASE CreateManualResource
      <3>1. CASE monitoring' = monitoring
        BY <3>1
      <3>2. CASE monitoring' # monitoring
        <4> DEFINE r == [exists |-> TRUE, auto |-> FALSE, meta |-> "none", spec |-> "none", deleting |-> FALSE]
        <4>1. monitoring' = [monitoring EXCEPT ![m] = r] /\ ns[m].exists
          BY <2>1, <3>2 DEF CreateManualResource
        <4>2. NoTemplate \in Templates /\ NoTemplate.meta = "none" /\ NoTemplate.spec = "none"
          BY DEF Templates, NoTemplate
        <4>3. r \in Resources /\ ~r.auto /\ r.exists = TRUE
          BY <4>2 DEF Resources
        <4> HIDE DEF r
        <4> QED
          BY <1>0, <4>1, <4>3 DEF ResourcesByNamespace
      <3> QED
        BY <3>1, <3>2
    <2>2. CASE DeleteResource
      <3>1. monitoring' = deleted({m})
        BY <2>2 DEF DeleteResource
      <3>2. /\ \A n \in Namespaces : n # m => monitoring'[n] = monitoring[n]
            /\ m \in Namespaces => \/ monitoring'[m] = monitoring[m]
                                   \/ (/\ monitoring[m].exists /\ monitoring'[m] \in Resources /\ monitoring'[m].deleting
                                       /\ monitoring'[m].auto = monitoring[m].auto)
        <4>1. \A n \in Namespaces :
                /\ ~(n \in {m} /\ monitoring[n].exists) => monitoring'[n] = monitoring[n]
                /\ (n \in {m} /\ monitoring[n].exists) =>
                     /\ monitoring'[n] \in Resources /\ monitoring'[n].deleting
                     /\ monitoring'[n].auto = monitoring[n].auto
          BY <1>0, <3>1, DeletedKeepsTypes
        <4> QED
          BY <4>1
      <3>3. \A r \in Resources : r.exists = TRUE
        BY DEF Resources
      <3> QED
        BY <1>0, <3>2, <3>3 DEF ResourceTypes
    <2> QED
      BY <2>1, <2>2
  <1>5. ControlTypes'
    BY <1>0, <1>1, <1>2, TypesElsewhere
  <1>6. ResourceTypes'
    <2>2. ASSUME NEW n \in Namespaces
          PROVE  /\ monitoring'[n] = NoResource \/ monitoring'[n] \in Resources
                 /\ ns'[n].exists \in BOOLEAN
                 /\ monitoring'[n].exists => ns'[n].exists
                 /\ monitoring'[n].exists /\ monitoring'[n].auto => ~isRestricted(n)
      BY <1>0, <1>1, <1>3 DEF ResourceTypes, autoMonitored
    <2> QED
      BY <1>0, <1>1, <2>2, ResourceTypesElsewhere DEF ResourceTypes
  <1>7. ReconcilerInv'
    BY <1>2, ReconcilerElsewhere
  <1>8. ASSUME UndisturbedInv PROVE UndisturbedInv'
    <2>1. \A n \in Namespaces : (n # m \/ monitoring'[n] = monitoring[n]) => Untouched(n)
      BY <1>1, <1>3 DEF Untouched, inProgress
    <2>2. CASE m \in Namespaces => monitoring'[m] = monitoring[m]
      <3>1. \A n \in Namespaces : Untouched(n)
        BY <2>1, <2>2
      <3>2. \A n \in Namespaces : NamespaceInv(n)'
        BY <1>1, <1>2, <1>8, <3>1, UntouchedKeeps DEF UndisturbedInv
      <3>3. \A n \in Namespaces : (Kept(n)' <=> Kept(n)) /\ (Doomed(n)' <=> Doomed(n))
        BY <1>1, <1>2, <3>1, SameLabels, SameResource DEF Untouched
      <3> QED
        BY <1>1, <1>2, <1>8, <3>2, <3>3, NothingNewKept DEF UndisturbedInv
    <2>3. CASE m \in Namespaces /\ monitoring'[m] # monitoring[m]
      <3>1. ~Kept(m)' /\ ExistsAt(m)'
        BY <1>3, <2>3 DEF Kept, autoMonitored, ExistsAt
      <3>2. config.exists => JobAt(m)'
        BY <1>1, <1>2, <1>8, <2>3, InForceElsewhere, SameLabels DEF UndisturbedInv, NamespaceInv, JobAt, monitors
      <3> QED
        BY <1>1, <1>2, <1>8, <2>1, <3>1, <3>2, OneNamespaceKeeps
    <2> QED
      BY <2>2, <2>3
  <1> QED
    BY <1>5, <1>6, <1>7, <1>8 DEF TypeInv

\* What a template consists of.
LEMMA TemplateFields ==
  ASSUME NEW t \in Templates
  PROVE  t = [meta |-> t.meta, spec |-> t.spec]
  BY SpecsAreComplete DEF Templates, NoTemplate

LEMMA GoroutineKinds ==
  ASSUME NEW g \in Goroutines
  PROVE  \/ g = deleteAll /\ g.kind = "deleteAll"
         \/ g.kind = "unmonitor"
         \/ g.kind = "updateAll" /\ g.template \in Templates
  BY DEF Goroutines, deleteAll

\* A goroutine deletes what it has doomed, or writes its template to all resources it covers.
LEMMA RunGoroutineKeeps ==
  ASSUME KeepInv, TypeInv, ReconcilerInv, NEW g \in goroutines, RunGoroutine(g)
  PROVE  TypeInv' /\ ReconcilerInv' /\ (UndisturbedInv /\ ~disturbed' => UndisturbedInv')
  <1>0. /\ ControlTypes /\ ResourceTypes /\ IsWatch(watch) /\ disturbed \in BOOLEAN /\ WatchInv /\ ResourcesByNamespace
        /\ g \in Goroutines
    BY DEF TypeInv, ControlTypes, ReconcilerInv, KeepInv
  <1>1. /\ UNCHANGED <<scenario, config, cached, ns, request, work, watch, job, hook>>
        /\ goroutines' = goroutines \ {g}
    BY DEF RunGoroutine
  <1>2. PICK failed \in SUBSET targets(g) :
          /\ monitoring' = IF g.kind = "updateAll"
                           THEN reconcileResourceWithMonitoringTemplate(targets(g) \ failed, g.template)
                           ELSE deleted(targets(g) \ failed)
          /\ disturbed' = (disturbed \/ failed # {})
    BY DEF RunGoroutine
  <1>3. Elsewhere
    BY <1>0, <1>1 DEF Elsewhere, WatchInv
  <1>4. targets(g) \subseteq autoMonitored /\ targets(g) \ failed \subseteq autoMonitored
    BY GoroutinesTargetAutoMonitored DEF KeepInv
  <1>5. /\ \A n \in Namespaces :
             /\ n \notin targets(g) \ failed => monitoring'[n] = monitoring[n]
             /\ n \in targets(g) \ failed => monitoring'[n] \in Resources /\ monitoring'[n].auto = monitoring[n].auto
             /\ monitoring'[n].exists = monitoring[n].exists
             /\ (n \in targets(g) \ failed /\ g.kind # "updateAll") => monitoring'[n].deleting
             /\ (n \in targets(g) \ failed /\ g.kind = "updateAll") =>
                  /\ monitoring'[n].deleting = monitoring[n].deleting
                  /\ monitoring'[n].meta = g.template.meta /\ monitoring'[n].spec = g.template.spec
    <2>1. CASE g.kind = "updateAll"
      <3>1. g.template \in Templates
        BY <1>0, <2>1, GoroutineKinds DEF deleteAll
      <3>2. QED
        <4>1. monitoring' = reconcileResourceWithMonitoringTemplate(targets(g) \ failed, g.template)
          BY <1>2, <2>1
        <4>2. \A n \in Namespaces :
                /\ n \notin targets(g) \ failed => monitoring'[n] = monitoring[n]
                /\ n \in targets(g) \ failed =>
                     /\ monitoring'[n] \in Resources
                     /\ monitoring'[n].auto = monitoring[n].auto /\ monitoring'[n].deleting = monitoring[n].deleting
                     /\ monitoring'[n].meta = g.template.meta /\ monitoring'[n].spec = g.template.spec
                /\ monitoring'[n].exists = monitoring[n].exists
          BY <1>0, <1>4, <3>1, <4>1, TemplateKeepsTypes
        <4> QED
          BY <2>1, <4>2
    <2>2. CASE g.kind # "updateAll"
      <3>1. \A n \in Namespaces : n \in targets(g) \ failed => monitoring[n].exists
        BY <1>4 DEF autoMonitored
      <3>2. monitoring' = deleted(targets(g) \ failed)
        BY <1>2, <2>2
      <3>3. \A n \in Namespaces :
              /\ ~(n \in targets(g) \ failed /\ monitoring[n].exists) => monitoring'[n] = monitoring[n]
              /\ (n \in targets(g) \ failed /\ monitoring[n].exists) =>
                   /\ monitoring'[n] \in Resources /\ monitoring'[n].deleting
                   /\ monitoring'[n].auto = monitoring[n].auto
              /\ monitoring'[n].exists = monitoring[n].exists
        BY <1>0, <3>2, DeletedKeepsTypes
      <3> QED
        BY <2>2, <3>1, <3>3
    <2> QED
      BY <2>1, <2>2
  <1>6. ControlTypes'
    <2>1. disturbed' \in BOOLEAN
      BY <1>0, <1>2
    <2> QED
      BY <1>0, <1>1, <1>3, <2>1, TypesElsewhere
  <1>7. ResourceTypes'
    <2>1. ASSUME NEW n \in Namespaces
          PROVE  /\ monitoring'[n] = NoResource \/ monitoring'[n] \in Resources
                 /\ ns'[n].exists \in BOOLEAN
                 /\ monitoring'[n].exists => ns'[n].exists
                 /\ monitoring'[n].exists /\ monitoring'[n].auto => ~isRestricted(n)
      BY <1>0, <1>1, <1>5 DEF ResourceTypes, autoMonitored
    <2> QED
      BY <1>0, <1>1, <2>1, ResourceTypesElsewhere DEF ResourceTypes
  <1>8. ReconcilerInv'
    BY <1>3, ReconcilerElsewhere
  <1>9. ASSUME UndisturbedInv, ~disturbed' PROVE UndisturbedInv'
    <2>0. failed = {}
      BY <1>0, <1>2, <1>9
    <2>1. /\ \A t : InForce(t)' <=> InForce(t)
          /\ reconciled' <=> reconciled
          /\ config' = config /\ cached' = cached /\ (enabled(config)' <=> enabled(config))
          /\ \A n \in Namespaces : \A s : namespaceMatchesLabelSelector(n, s)' <=> namespaceMatchesLabelSelector(n, s)
          /\ \A n \in Namespaces : (Covered(n)' <=> Covered(n)) /\ (wanted(n)' <=> wanted(n))
      BY <1>1, <1>3, InForceElsewhere, SameLabels
    <2>2. ASSUME NEW n \in Namespaces, Kept(n)' PROVE Kept(n) /\ (waiting(n) => waiting(n)') /\ ns[n].exists
      <3>1. Kept(n) /\ n \in autoMonitored' /\ ~monitoring'[n].deleting
        BY <1>5, <2>0, <2>2 DEF Kept, autoMonitored
      <3> QED
        BY <1>0, <1>1, <3>1 DEF waiting, namespaceMatchesLabelSelector, ResourceTypes, Kept, autoMonitored
    \* What the goroutine has doomed is deleted, so that the rest is doomed by another one.
    <2>3. ASSUME NEW n \in Namespaces, Kept(n)', Doomed(n) PROVE Doomed(n)'
      <3>1. Kept(n) /\ n \in existing /\ n \in autoMonitored
        BY <2>2, <2>3 DEF existing, Kept
      <3>2. CASE g.kind = "updateAll"
        BY <1>1, <2>1, <2>3, <3>2 DEF Doomed, deleteAll
      <3>3. CASE g.kind # "updateAll"
        <4>1. n \notin targets(g)
          BY <1>5, <2>0, <2>3, <3>3 DEF Kept
        <4>2. CASE g = deleteAll /\ g.kind = "deleteAll"
          BY <3>1, <4>1, <4>2 DEF targets
        <4>3. CASE g.kind = "unmonitor"
          <5>1. ~(namespaceMatchesLabelSelector(n, g.old) /\ ~namespaceMatchesLabelSelector(n, g.new)) /\ g # deleteAll
            BY <3>1, <4>1, <4>3 DEF targets, deleteAll
          <5> QED
            BY <1>1, <2>1, <2>3, <5>1 DEF Doomed
        <4> QED
          BY <1>0, <3>3, <4>2, <4>3, GoroutineKinds
      <3> QED
        BY <3>2, <3>3
    <2>4. GoroutineInv'
      BY <1>1, <1>9, <2>1, <2>2, <2>3 DEF UndisturbedInv, GoroutineInv
    <2>5. OffInv'
      <3>1. g = deleteAll => \A n \in Namespaces : ~Kept(n)'
        <4> SUFFICES ASSUME g = deleteAll, NEW n \in Namespaces, Kept(n)' PROVE FALSE
          OBVIOUS
        <4>1. g.kind = "deleteAll" /\ n \in autoMonitored
          BY <2>2 DEF deleteAll, Kept
        <4>2. n \in targets(g) \ failed
          BY <2>0, <4>1 DEF targets
        <4> QED
          BY <1>5, <4>1, <4>2 DEF Kept
      <3> QED
        BY <1>1, <1>9, <2>2, <3>1 DEF UndisturbedInv, OffInv, Off
    <2>6. ASSUME NEW n \in Namespaces PROVE NamespaceInv(n)'
      <3>1. NamespaceInv(n)
        BY <1>9 DEF UndisturbedInv
      <3>2. config.exists => SelectorAt(n)'
        BY <2>1, <2>2, <2>3, <3>1 DEF NamespaceInv, SelectorAt
      <3>3. config.exists => TemplateAt(n)'
        <4> SUFFICES ASSUME config.exists, Kept(n)', ~Doomed(n)'
                     PROVE  \/ InForce(TemplateOf(n))'
                            \/ \E h \in goroutines' : h.kind = "updateAll" /\ InForce(h.template)' /\ namespaceMatchesLabelSelector(n, h.selector)'
          BY DEF TemplateAt, InForce, namespaceMatchesLabelSelector
        <4>1. Kept(n) /\ ~Doomed(n) /\ n \in existing /\ n \in autoMonitored
          BY <2>2, <2>3 DEF existing, Kept
        <4>2. CASE n \in targets(g)
          <5>1. g.kind = "updateAll"
            BY <1>5, <2>0, <4>2 DEF Kept
          <5>2. InForce(g.template) /\ g.template \in Templates
            BY <1>0, <1>9, <4>1, <5>1, GoroutineKinds DEF UndisturbedInv, GoroutineInv, deleteAll
          <5>3. TemplateOf(n)' = g.template
            BY <1>5, <2>0, <4>2, <5>1, <5>2, TemplateFields DEF TemplateOf
          <5> QED
            BY <2>1, <5>2, <5>3 DEF InForce
        <4>3. CASE n \notin targets(g)
          <5>1. TemplateOf(n)' = TemplateOf(n)
            BY <1>5, <4>3 DEF TemplateOf
          <5>2. CASE InForce(TemplateOf(n))
            BY <2>1, <5>1, <5>2 DEF InForce
          <5>3. CASE \E h \in goroutines : h.kind = "updateAll" /\ InForce(h.template) /\ namespaceMatchesLabelSelector(n, h.selector)
            <6> PICK h \in goroutines : h.kind = "updateAll" /\ InForce(h.template) /\ namespaceMatchesLabelSelector(n, h.selector)
              BY <5>3
            <6>1. h # g
              BY <4>1, <4>3 DEF targets
            <6>2. h \in goroutines' /\ InForce(h.template)' /\ namespaceMatchesLabelSelector(n, h.selector)'
              BY <1>1, <2>1, <6>1
            <6> QED
              BY <6>2
          <5> QED
            BY <3>1, <4>1, <5>2, <5>3 DEF NamespaceInv, TemplateAt
        <4> QED
          BY <4>2, <4>3
      <3>4. config.exists => JobAt(n)'
        BY <1>1, <2>1, <3>1 DEF NamespaceInv, JobAt, monitors
      <3>5. enabled(config) => ExistsAt(n)'
        BY <1>1, <1>5, <2>1, <3>1 DEF NamespaceInv, ExistsAt, monitors
      <3> QED
        BY <2>1, <3>2, <3>3, <3>4, <3>5 DEF NamespaceInv
    <2> QED
      BY <2>4, <2>5, <2>6 DEF UndisturbedInv
  <1> QED
    BY <1>6, <1>7, <1>8, <1>9 DEF TypeInv

\* The watch hands over a namespace. The configuration in the cache is the one in force, so that the
\* decision on the namespace is the one its resource waits for.
LEMMA ReconcileNamespaceKeeps ==
  ASSUME TypeInv, PatientUsers, ReconcilerInv, NEW m \in Namespaces, ReconcileNamespace(m)
  PROVE  TypeInv' /\ ReconcilerInv' /\ (UndisturbedInv => UndisturbedInv')
  <1>0. /\ ControlTypes /\ ResourceTypes /\ IsWatch(watch) /\ disturbed \in BOOLEAN /\ IsConfig(cached) /\ IsConfig(config)
        /\ WatchInv /\ CacheInv /\ ReconciledInv
    BY DEF TypeInv, ControlTypes, ReconcilerInv
  <1> DEFINE skipped == \/ isRestricted(m) \/ ~ns[m].exists \/ ~(cached.exists /\ cached.available)
                        \/ (cached.enabled /\ cached.template = NoTemplate)
             picked == [stage |-> IF shouldMonitor(m, cached) THEN "monitor" ELSE "unmonitor", name |-> m,
                        template |-> cached.template]
  <1>1. /\ UNCHANGED <<scenario, config, cached, ns, monitoring, request, work, goroutines, hook, disturbed>>
        /\ watch.active /\ m \in watch.queue /\ job = Idle
        /\ watch' = [watch EXCEPT !.queue = @ \ {m}]
        /\ skipped => job' = Idle
        /\ ~skipped => job' = picked
    BY DEF ReconcileNamespace
  <1>2. /\ watch' = [active |-> TRUE, selector |-> watch.selector, queue |-> watch.queue \ {m}]
        /\ IsWatch(watch')
    <2>1. watch = [active |-> TRUE, selector |-> watch.selector, queue |-> watch.queue] /\ watch.selector \in Selectors
      BY <1>0, <1>1, WatchFields
    <2>2. watch' = [active |-> TRUE, selector |-> watch.selector, queue |-> watch.queue \ {m}]
      BY <1>1, <2>1
    <2> QED
      BY <2>1, <2>2 DEF IsWatch
  <1>3. Elsewhere /\ \A n \in watch.queue : n # m => n \in watch'.queue
    <2>1. watch.active = TRUE
      BY <1>0, <1>1, WatchFields
    <2> QED
      BY <1>1, <1>2, <2>1 DEF Elsewhere
  <1>4. ~skipped => /\ job' \in Jobs /\ job' # Idle /\ job'.name = m /\ job'.template = cached.template
                    /\ job'.stage = (IF shouldMonitor(m, cached) THEN "monitor" ELSE "unmonitor")
    <2> SUFFICES ASSUME ~skipped PROVE /\ job' \in Jobs /\ job' # Idle /\ job'.name = m /\ job'.template = cached.template
                                       /\ job'.stage = (IF shouldMonitor(m, cached) THEN "monitor" ELSE "unmonitor")
      OBVIOUS
    <2>1. cached.template \in Templates /\ job' = picked
      BY <1>0, <1>1, ConfigFields
    <2> QED
      BY <2>1 DEF Jobs, Idle
  <1>5. ControlTypes' /\ ReconcilerInv'
    BY <1>0, <1>1, <1>3, TypesElsewhere, ReconcilerElsewhere
  <1>6. ResourceTypes'
    BY <1>0, <1>1, <1>4, ResourceTypesStay
  <1>7. ASSUME UndisturbedInv PROVE UndisturbedInv'
    <2>1. \A n \in Namespaces : n # m => Untouched(n)
      BY <1>1, <1>3, <1>4 DEF Untouched, inProgress
    <2>2. \A n \in Namespaces : n # m => NamespaceInv(n)'
      BY <1>1, <1>3, <1>7, <2>1, UntouchedKeeps DEF UndisturbedInv
    <2>3. \A n \in Namespaces : (Kept(n)' <=> Kept(n)) /\ TemplateOf(n)' = TemplateOf(n) /\ (n \in autoMonitored' <=> n \in autoMonitored)
      BY <1>1, SameResource
    <2>4. /\ \A n \in Namespaces : (Doomed(n)' <=> Doomed(n)) /\ (Covered(n)' <=> Covered(n)) /\ (wanted(n)' <=> wanted(n))
          /\ \A n \in Namespaces : \A s : namespaceMatchesLabelSelector(n, s)' <=> namespaceMatchesLabelSelector(n, s)
          /\ \A t : InForce(t)' <=> InForce(t)
          /\ (reconciled' <=> reconciled) /\ config' = config /\ (enabled(config)' <=> enabled(config))
      BY <1>1, <1>3, SameLabels, InForceElsewhere
    <2>5. GoroutineInv' /\ OffInv'
      BY <1>1, <1>3, <1>7, <2>3, <2>4, NothingNewKept DEF UndisturbedInv
    <2>6. (SelectorAt(m) /\ TemplateAt(m)) \/ ~config.exists
      BY <1>7 DEF UndisturbedInv, NamespaceInv
    \* The namespace of a resource that waits for its deletion is not skipped.
    <2>7. waiting(m) /\ reconciled => waiting(m)'
      <3> SUFFICES ASSUME waiting(m), reconciled PROVE waiting(m)'
        OBVIOUS
      <3>1. m \in autoMonitored /\ ~namespaceMatchesLabelSelector(m, watch.selector) /\ ~monitoring[m].deleting
        BY DEF waiting
      <3>2. cached = config /\ enabled(cached) /\ watch.selector = cached.selector
        BY <1>0, <1>1 DEF ReconciledInv, reconciled, Settled
      <3>3. cached.exists /\ cached.available /\ cached.template # NoTemplate
        BY <1>0, <3>2, ConfigFields DEF enabled
      <3>4. ~isRestricted(m) /\ ns[m].exists
        BY <1>0, <3>1 DEF ResourceTypes, autoMonitored
      <3>5. ~skipped
        BY <3>3, <3>4
      <3>6. watch'.active /\ watch'.selector = watch.selector
        BY <1>2
      <3>7. ~namespaceMatchesLabelSelector(m, watch.selector)'
        BY <1>1, <3>1, <3>6 DEF namespaceMatchesLabelSelector
      <3> QED
        BY <1>1, <1>4, <2>3, <3>1, <3>5, <3>6, <3>7 DEF waiting
    <2>8. config.exists => JobAt(m)'
      <3> SUFFICES ASSUME config.exists, monitors(m)' PROVE InForce(job.template)' /\ Covered(m)'
        BY DEF JobAt
      <3>1. ~skipped /\ shouldMonitor(m, cached) /\ job'.template = cached.template
        BY <1>1, <1>4 DEF monitors, Idle
      <3>2. enabled(cached) /\ namespaceMatchesLabelSelector(m, cached.selector) /\ cached.selector # "" /\ cached.exists
        BY <1>0, <3>1, ConfigFields DEF shouldMonitor, enabled
      <3>3. InForce(cached.template) /\ Covered(m)
        <4>1. CASE cached = config
          BY <3>2, <4>1 DEF InForce, Covered
        <4>2. CASE SameSpec(cached, config) /\ enabled(config)
          BY <3>2, <4>2 DEF InForce, Covered, SameSpec
        <4>3. CASE /\ work = Idle /\ Settled(cached)
                   /\ config.previousSelector = cached.previousSelector
                   /\ config.previousTemplate = cached.previousTemplate
          BY <3>2, <4>3 DEF InForce, Covered, Settled, StatusIsCurrent
        <4> QED
          BY <1>0, <3>2, <4>1, <4>2, <4>3 DEF CacheInv
      <3> QED
        BY <2>4, <3>1, <3>3 DEF InForce
    <2>9. enabled(config) => ExistsAt(m)'
      <3> SUFFICES ASSUME enabled(config), wanted(m), watch'.selector = config.selector PROVE monitors(m)'
        BY <2>4 DEF ExistsAt
      <3>1. watch.selector = config.selector /\ config.exists
        BY <1>2 DEF enabled
      <3>2. enabled(cached) /\ cached.selector = config.selector
        <4>1. CASE Settled(cached)
          BY <1>1, <3>1, <4>1 DEF Settled
        <4> QED
          BY <1>0, <3>1, <4>1 DEF CacheInv, SameSpec, enabled
      <3>3. cached.exists /\ cached.available /\ cached.enabled /\ cached.template # NoTemplate
        BY <1>0, <3>2, ConfigFields DEF enabled
      <3>4. ~skipped /\ shouldMonitor(m, cached)
        BY <3>2, <3>3 DEF wanted, shouldMonitor
      <3> QED
        BY <1>4, <3>4 DEF monitors
    <2>10. NamespaceInv(m)'
      <3>1. config.exists => SelectorAt(m)'
        BY <2>3, <2>4, <2>6, <2>7 DEF SelectorAt
      <3>2. config.exists => TemplateAt(m)'
        BY <1>1, <2>3, <2>4, <2>6 DEF TemplateAt
      <3> QED
        BY <2>4, <2>8, <2>9, <3>1, <3>2 DEF NamespaceInv
    <2> QED
      BY <2>2, <2>5, <2>10 DEF UndisturbedInv
  <1> QED
    BY <1>5, <1>6, <1>7 DEF TypeInv

\* The namespace in progress, and what its controller leaves alone.
AtWork(m) ==
  /\ job \in Jobs /\ job # Idle /\ job.name = m
  /\ UNCHANGED <<scenario, config, cached, ns, request, work, goroutines, hook, disturbed>>
  /\ job' = Idle \/ (job' \in Jobs /\ job'.name = m)

LEMMA AtWorkElsewhere ==
  ASSUME KeepInv, TypeInv, ReconcilerInv, NEW m \in Namespaces, AtWork(m), watch' = watch \/ watch' = Enqueued({m})
  PROVE  /\ Elsewhere /\ ControlTypes' /\ ReconcilerInv' /\ watch.active /\ watch'.active
         /\ watch.queue \subseteq watch'.queue
         /\ watch' = Enqueued({m}) => m \in watch'.queue
         /\ \A n \in Namespaces : n # m /\ monitoring'[n] = monitoring[n] => Untouched(n)
         /\ \A n \in Namespaces : (Doomed(n)' <=> Doomed(n)) /\ (Covered(n)' <=> Covered(n)) /\ (wanted(n)' <=> wanted(n))
         /\ \A n \in Namespaces : \A s : namespaceMatchesLabelSelector(n, s)' <=> namespaceMatchesLabelSelector(n, s)
         /\ \A t : InForce(t)' <=> InForce(t)
         /\ (reconciled' <=> reconciled) /\ config' = config /\ cached' = cached /\ (enabled(config)' <=> enabled(config))
         /\ config.exists /\ UndisturbedInv => SelectorAt(m) /\ TemplateAt(m) /\ JobAt(m)
  <1>1. ControlTypes /\ IsWatch(watch) /\ disturbed \in BOOLEAN /\ watch.active
    BY DEF TypeInv, ControlTypes, ReconcilerInv, WatchInv, AtWork
  <1>2. /\ IsWatch(watch') /\ watch'.active = watch.active /\ watch'.selector = watch.selector
        /\ watch.queue \subseteq watch'.queue /\ (watch' = Enqueued({m}) => m \in watch'.queue)
    BY <1>1, EnqueuedWatch
  <1>3. Elsewhere
    BY <1>1, <1>2 DEF Elsewhere, AtWork
  <1>4. ControlTypes' /\ ReconcilerInv'
    BY <1>1, <1>3, TypesElsewhere, ReconcilerElsewhere DEF AtWork
  <1>5. \A n \in Namespaces : n # m /\ monitoring'[n] = monitoring[n] => Untouched(n)
    BY <1>2 DEF Untouched, inProgress, AtWork
  <1>6. /\ \A n \in Namespaces : (Doomed(n)' <=> Doomed(n)) /\ (Covered(n)' <=> Covered(n)) /\ (wanted(n)' <=> wanted(n))
        /\ \A n \in Namespaces : \A s : namespaceMatchesLabelSelector(n, s)' <=> namespaceMatchesLabelSelector(n, s)
    BY <1>3, SameLabels DEF AtWork
  <1>7. /\ \A t : InForce(t)' <=> InForce(t)
        /\ (reconciled' <=> reconciled) /\ config' = config /\ cached' = cached /\ (enabled(config)' <=> enabled(config))
    BY <1>3, InForceElsewhere
  <1>8. config.exists /\ UndisturbedInv => SelectorAt(m) /\ TemplateAt(m) /\ JobAt(m)
    BY DEF UndisturbedInv, NamespaceInv
  <1> QED
    BY <1>1, <1>2, <1>3, <1>4, <1>5, <1>6, <1>7, <1>8

\* Resources stay as they are while the namespace is queued again, goes on to the next stage, or is
\* done with because nothing is to be created.
LEMMA SameResourcesKeep ==
  ASSUME KeepInv, TypeInv, ReconcilerInv, NEW m \in Namespaces, AtWork(m), UNCHANGED monitoring,
         \/ watch' = Enqueued({m}) /\ job' = Idle
         \/ watch' = watch /\ monitors(m) /\ monitors(m)' /\ job'.template = job.template
         \/ watch' = watch /\ monitors(m) /\ job' = Idle /\ (monitoring[m].exists \/ ~enabled(config))
  PROVE  TypeInv' /\ ReconcilerInv' /\ (UndisturbedInv => UndisturbedInv')
  <1>1. /\ Elsewhere /\ ControlTypes' /\ ReconcilerInv' /\ watch.active /\ watch'.active
        /\ watch.queue \subseteq watch'.queue
        /\ watch' = Enqueued({m}) => m \in watch'.queue
        /\ \A n \in Namespaces : n # m /\ monitoring'[n] = monitoring[n] => Untouched(n)
        /\ \A n \in Namespaces : (Doomed(n)' <=> Doomed(n)) /\ (Covered(n)' <=> Covered(n)) /\ (wanted(n)' <=> wanted(n))
        /\ \A n \in Namespaces : \A s : namespaceMatchesLabelSelector(n, s)' <=> namespaceMatchesLabelSelector(n, s)
        /\ \A t : InForce(t)' <=> InForce(t)
        /\ (reconciled' <=> reconciled) /\ config' = config /\ cached' = cached /\ (enabled(config)' <=> enabled(config))
        /\ config.exists /\ UndisturbedInv => SelectorAt(m) /\ TemplateAt(m) /\ JobAt(m)
    BY AtWorkElsewhere
  <1>2. ResourceTypes'
    BY ResourceTypesStay DEF TypeInv, AtWork
  <1>3. ASSUME UndisturbedInv PROVE UndisturbedInv'
    <2>1. \A n \in Namespaces : n # m => NamespaceInv(n)'
      BY <1>1, <1>3, UntouchedKeeps DEF UndisturbedInv, AtWork
    <2>2. \A n \in Namespaces : (Kept(n)' <=> Kept(n)) /\ TemplateOf(n)' = TemplateOf(n) /\ (n \in autoMonitored' <=> n \in autoMonitored)
      BY SameResource
    <2>3. GoroutineInv' /\ OffInv'
      BY <1>1, <1>3, <2>2, NothingNewKept DEF UndisturbedInv, AtWork
    <2>4. config.exists => SelectorAt(m)'
      <3> SUFFICES ASSUME config.exists, Kept(m), ~Doomed(m), ~Covered(m) PROVE waiting(m)' /\ reconciled'
        BY <1>1, <2>2 DEF SelectorAt
      <3>1. waiting(m) /\ reconciled /\ ns[m].exists
        BY <1>1, <1>3 DEF SelectorAt, Kept, autoMonitored, TypeInv, ResourceTypes
      <3>2. ~monitors(m)
        BY <1>1, <1>3, <3>1 DEF JobAt
      <3>3. watch' = Enqueued({m}) /\ m \in watch'.queue /\ watch'.selector = watch.selector
        BY <1>1, <3>2 DEF Elsewhere
      <3>4. ~namespaceMatchesLabelSelector(m, watch.selector)'
        BY <3>1, <3>3 DEF waiting, namespaceMatchesLabelSelector, AtWork
      <3> QED
        BY <1>1, <2>2, <3>1, <3>3, <3>4 DEF waiting
    <2>5. config.exists => TemplateAt(m)'
      BY <1>1, <1>3, <2>2 DEF TemplateAt, AtWork
    <2>6. config.exists => JobAt(m)'
      <3> SUFFICES ASSUME config.exists, monitors(m)' PROVE InForce(job.template)' /\ (ns'[m].exists => Covered(m)')
        BY DEF JobAt
      <3>1. monitors(m) /\ job'.template = job.template
        BY DEF monitors, Idle
      <3> QED
        BY <1>1, <1>3, <3>1 DEF JobAt, InForce, AtWork
    <2>7. enabled(config) => ExistsAt(m)'
      <3>1. CASE watch' = Enqueued({m}) \/ monitors(m)' \/ monitoring[m].exists
        BY <1>1, <3>1 DEF ExistsAt
      <3> QED
        BY <3>1
    <2> QED
      BY <1>1, <2>1, <2>3, <2>4, <2>5, <2>6, <2>7 DEF UndisturbedInv, NamespaceInv
  <1> QED
    BY <1>1, <1>2, <1>3 DEF TypeInv

\* A resource of the operator is created or updated with the template read at the beginning.
LEMMA WrittenResourceKeeps ==
  ASSUME KeepInv, TypeInv, ReconcilerInv, NEW m \in Namespaces, AtWork(m), watch' = watch, job' = Idle, monitors(m),
         \A n \in Namespaces : n # m => monitoring'[n] = monitoring[n],
         monitoring'[m] \in Resources, monitoring'[m].auto, TemplateOf(m)' = job.template,
         ns[m].exists, ~isRestricted(m), Kept(m)' => Kept(m) \/ ~monitoring[m].exists
  PROVE  TypeInv' /\ ReconcilerInv' /\ (UndisturbedInv => UndisturbedInv')
  <1>1. /\ Elsewhere /\ ControlTypes' /\ ReconcilerInv' /\ watch.active /\ watch'.active
        /\ \A n \in Namespaces : n # m /\ monitoring'[n] = monitoring[n] => Untouched(n)
        /\ \A n \in Namespaces : (Doomed(n)' <=> Doomed(n)) /\ (Covered(n)' <=> Covered(n)) /\ (wanted(n)' <=> wanted(n))
        /\ \A t : InForce(t)' <=> InForce(t)
        /\ (reconciled' <=> reconciled) /\ config' = config /\ cached' = cached /\ (enabled(config)' <=> enabled(config))
        /\ config.exists /\ UndisturbedInv => SelectorAt(m) /\ TemplateAt(m) /\ JobAt(m)
    BY AtWorkElsewhere
  <1>2. monitoring'[m].exists = TRUE
    BY DEF Resources
  <1>3. ResourceTypes'
    <2>1. ASSUME NEW n \in Namespaces
          PROVE  /\ monitoring'[n] = NoResource \/ monitoring'[n] \in Resources
                 /\ ns'[n].exists \in BOOLEAN
                 /\ monitoring'[n].exists => ns'[n].exists
                 /\ monitoring'[n].exists /\ monitoring'[n].auto => ~isRestricted(n)
      BY DEF TypeInv, ResourceTypes, autoMonitored, AtWork
    <2>2. scenario' = scenario /\ ns' = [n \in Namespaces |-> ns'[n]]
      BY DEF TypeInv, ResourceTypes, AtWork
    <2> QED
      BY <2>1, <2>2, ResourceTypesElsewhere
  <1>4. ASSUME UndisturbedInv PROVE UndisturbedInv'
    <2>1. \A n \in Namespaces : n # m => NamespaceInv(n)'
      BY <1>1, <1>4, UntouchedKeeps DEF UndisturbedInv, AtWork
    <2>2. \A n \in Namespaces : n # m => (Kept(n)' <=> Kept(n))
      BY SameResource
    <2>3. config.exists => InForce(job.template) /\ Covered(m)
      BY <1>1, <1>4 DEF JobAt
    <2>4. NamespaceInv(m)'
      <3>1. config.exists => InForce(TemplateOf(m))'
        BY <1>1, <2>3 DEF InForce
      <3>2. ~monitors(m)'
        BY DEF monitors, Idle
      <3> QED
        BY <1>1, <1>2, <2>3, <3>1, <3>2 DEF NamespaceInv, SelectorAt, TemplateAt, JobAt, ExistsAt
    <2>5. GoroutineInv'
      <3> SUFFICES ASSUME config.exists, NEW g \in goroutines, g.kind = "updateAll" PROVE InForce(g.template)'
        BY <1>1 DEF GoroutineInv, AtWork
      <3> QED
        BY <1>1, <1>4 DEF UndisturbedInv, GoroutineInv
    <2>6. OffInv'
      <3>1. CASE request \/ work # Idle
        BY <3>1 DEF OffInv, AtWork
      <3>2. CASE ~request /\ work = Idle
        <4>1. enabled(cached)
          BY <1>1, <3>2 DEF ReconcilerInv, QuietInv
        <4> QED
          BY <1>1, <4>1 DEF OffInv, Off, enabled
      <3> QED
        BY <3>1, <3>2
    <2> QED
      BY <2>1, <2>4, <2>5, <2>6 DEF UndisturbedInv
  <1> QED
    BY <1>1, <1>3, <1>4 DEF TypeInv

\* The stages of the namespace in progress.
LEMMA JobFields ==
  ASSUME TypeInv, KeepInv, job.stage \in {"monitor", "unmonitor", "check", "create"}
  PROVE  /\ job \in Jobs /\ job # Idle /\ job.name \in Namespaces /\ job.template \in Templates /\ ~isRestricted(job.name)
         /\ \A s \in {"check", "create"} :
              /\ [job EXCEPT !.stage = s] \in Jobs /\ [job EXCEPT !.stage = s].stage = s
              /\ [job EXCEPT !.stage = s].name = job.name /\ [job EXCEPT !.stage = s].template = job.template
  <1>1. job # Idle
    BY DEF Idle
  <1>2. job \in Jobs /\ ~isRestricted(job.name)
    BY <1>1 DEF TypeInv, ResourceTypes, KeepInv, JobIsPermitted
  <1> QED
    BY <1>1, <1>2 DEF Jobs

LEMMA MonitoredKeeps ==
  ASSUME KeepInv, TypeInv, ReconcilerInv, ensureNamespaceIsMonitored
  PROVE  TypeInv' /\ ReconcilerInv' /\ (UndisturbedInv => UndisturbedInv')
  <1> PICK m : m = job.name
    OBVIOUS
  <1>1. /\ job.stage = "monitor" /\ job \in Jobs /\ job # Idle /\ m \in Namespaces /\ job.template \in Templates /\ ~isRestricted(m)
        /\ [job EXCEPT !.stage = "check"] \in Jobs /\ [job EXCEPT !.stage = "check"].stage = "check"
        /\ [job EXCEPT !.stage = "check"].name = m /\ [job EXCEPT !.stage = "check"].template = job.template
    BY JobFields DEF ensureNamespaceIsMonitored
  <1>2. /\ UNCHANGED <<scenario, config, cached, ns, request, work, goroutines, hook, disturbed>>
        /\ \/ job' = Idle /\ watch' = Enqueued({m}) /\ UNCHANGED monitoring
           \/ job' = [job EXCEPT !.stage = "check"] /\ UNCHANGED <<monitoring, watch>>
           \/ /\ monitoring[m].exists /\ job' = Idle /\ UNCHANGED watch
              /\ monitoring' = IF monitoring[m].auto THEN reconcileResourceWithMonitoringTemplate({m}, job.template)
                               ELSE monitoring
    BY DEF ensureNamespaceIsMonitored, RetryNamespace
  <1>3. AtWork(m)
    BY <1>1, <1>2 DEF AtWork
  <1>4. monitors(m)
    BY <1>1 DEF monitors
  <1>5. CASE job' = Idle /\ watch' = Enqueued({m}) /\ UNCHANGED monitoring
    BY <1>1, <1>3, <1>5, SameResourcesKeep
  <1>6. CASE job' = [job EXCEPT !.stage = "check"] /\ UNCHANGED <<monitoring, watch>>
    <2>1. monitors(m)' /\ job'.template = job.template
      BY <1>1, <1>6 DEF monitors
    <2> QED
      BY <1>1, <1>3, <1>4, <1>6, <2>1, SameResourcesKeep
  <1>7. CASE monitoring[m].exists /\ job' = Idle /\ UNCHANGED <<watch, monitoring>>
    BY <1>1, <1>3, <1>4, <1>7, SameResourcesKeep
  <1>8. CASE /\ monitoring[m].exists /\ job' = Idle /\ UNCHANGED watch /\ monitoring[m].auto
             /\ monitoring' = reconcileResourceWithMonitoringTemplate({m}, job.template)
    <2>1. {m} \subseteq autoMonitored /\ ResourceTypes /\ ns[m].exists
      BY <1>1, <1>8 DEF autoMonitored, TypeInv, ResourceTypes
    <2>2. \A n \in Namespaces :
            /\ n \notin {m} => monitoring'[n] = monitoring[n]
            /\ n \in {m} =>
                 /\ monitoring'[n] \in Resources
                 /\ monitoring'[n].auto = monitoring[n].auto /\ monitoring'[n].deleting = monitoring[n].deleting
                 /\ monitoring'[n].meta = job.template.meta /\ monitoring'[n].spec = job.template.spec
            /\ monitoring'[n].exists = monitoring[n].exists
      BY <1>1, <1>8, <2>1, TemplateKeepsTypes
    <2>3. /\ \A n \in Namespaces : n # m => monitoring'[n] = monitoring[n]
          /\ monitoring'[m] \in Resources /\ monitoring'[m].auto /\ monitoring'[m].deleting = monitoring[m].deleting
          /\ monitoring'[m].meta = job.template.meta /\ monitoring'[m].spec = job.template.spec
      BY <1>1, <1>8, <2>2
    <2>4. TemplateOf(m)' = job.template
      BY <1>1, <2>3, TemplateFields DEF TemplateOf
    <2>5. Kept(m)' => Kept(m)
      BY <1>1, <1>8, <2>3 DEF Kept, autoMonitored
    <2> QED
      BY <1>1, <1>3, <1>4, <1>8, <2>1, <2>3, <2>4, <2>5, WrittenResourceKeeps
  <1> QED
    BY <1>2, <1>5, <1>6, <1>7, <1>8

LEMMA UnmonitoredKeeps ==
  ASSUME KeepInv, TypeInv, ReconcilerInv, ensureNamespaceIsUnmonitored
  PROVE  TypeInv' /\ ReconcilerInv' /\ (UndisturbedInv => UndisturbedInv')
  <1> PICK m : m = job.name
    OBVIOUS
  <1>1. job.stage = "unmonitor" /\ job \in Jobs /\ job # Idle /\ m \in Namespaces
    BY JobFields DEF ensureNamespaceIsUnmonitored
  <1>2. /\ UNCHANGED <<scenario, config, cached, ns, request, work, goroutines, hook, disturbed>> /\ job' = Idle
        /\ \/ watch' = Enqueued({m}) /\ UNCHANGED monitoring
           \/ monitoring' = deleted({m} \cap autoMonitored) /\ UNCHANGED watch
    BY DEF ensureNamespaceIsUnmonitored, RetryNamespace
  <1>3. AtWork(m)
    BY <1>1, <1>2 DEF AtWork
  <1>4. CASE watch' = Enqueued({m}) /\ UNCHANGED monitoring
    BY <1>1, <1>2, <1>3, <1>4, SameResourcesKeep
  <1>5. CASE monitoring' = deleted({m} \cap autoMonitored) /\ UNCHANGED watch
    <2>0. ResourceTypes
      BY DEF TypeInv
    <2>1. \A n \in Namespaces :
            /\ ~(n \in {m} \cap autoMonitored /\ monitoring[n].exists) => monitoring'[n] = monitoring[n]
            /\ (n \in {m} \cap autoMonitored /\ monitoring[n].exists) =>
                 /\ monitoring'[n] \in Resources /\ monitoring'[n].deleting
                 /\ monitoring'[n].auto = monitoring[n].auto
            /\ monitoring'[n].exists = monitoring[n].exists
      BY <1>5, <2>0, DeletedKeepsTypes
    <2>2. /\ \A n \in Namespaces : n # m => monitoring'[n] = monitoring[n]
          /\ ~Kept(m)' /\ monitoring'[m].exists = monitoring[m].exists
      <3>1. \A n \in Namespaces : n # m => monitoring'[n] = monitoring[n]
        BY <2>1
      <3>2. CASE m \in autoMonitored
        BY <1>1, <2>1, <3>2 DEF Kept, autoMonitored
      <3>3. CASE m \notin autoMonitored
        BY <1>1, <2>1, <3>3 DEF Kept, autoMonitored
      <3> QED
        BY <1>1, <2>1, <3>1, <3>2, <3>3
    <2>3. /\ Elsewhere /\ ControlTypes' /\ ReconcilerInv'
          /\ \A n \in Namespaces : n # m /\ monitoring'[n] = monitoring[n] => Untouched(n)
          /\ (wanted(m)' <=> wanted(m))
          /\ config' = config /\ (enabled(config)' <=> enabled(config))
      BY <1>1, <1>3, <1>5, AtWorkElsewhere
    <2>4. ResourceTypes'
      <3>1. ASSUME NEW n \in Namespaces
            PROVE  /\ monitoring'[n] = NoResource \/ monitoring'[n] \in Resources
                   /\ ns'[n].exists \in BOOLEAN
                   /\ monitoring'[n].exists => ns'[n].exists
                   /\ monitoring'[n].exists /\ monitoring'[n].auto => ~isRestricted(n)
        BY <1>2, <2>0, <2>1 DEF ResourceTypes, autoMonitored
      <3>2. scenario' = scenario /\ ns' = [n \in Namespaces |-> ns'[n]]
        BY <1>2, <2>0 DEF ResourceTypes
      <3> QED
        BY <1>2, <3>1, <3>2, ResourceTypesElsewhere
    <2>5. ASSUME UndisturbedInv PROVE UndisturbedInv'
      <3>1. JobAt(m)'
        BY <1>2 DEF JobAt, monitors, Idle
      <3>2. enabled(config) => ExistsAt(m)'
        <4>1. ~monitors(m)
          BY <1>1 DEF monitors
        <4>2. enabled(config) => ExistsAt(m)
          BY <1>1, <2>5 DEF UndisturbedInv, NamespaceInv
        <4> QED
          BY <1>5, <2>2, <2>3, <4>1, <4>2 DEF ExistsAt
      <3> QED
        BY <1>2, <2>2, <2>3, <2>5, <3>1, <3>2, OneNamespaceKeeps
    <2> QED
      BY <2>3, <2>4, <2>5 DEF TypeInv
  <1> QED
    BY <1>2, <1>4, <1>5

LEMMA CheckKeeps ==
  ASSUME KeepInv, TypeInv, ReconcilerInv, CheckBeforeCreate
  PROVE  TypeInv' /\ ReconcilerInv' /\ (UndisturbedInv /\ hook.stage = "none" => UndisturbedInv')
  <1> PICK m : m = job.name
    OBVIOUS
  <1>1. /\ job.stage = "check" /\ job \in Jobs /\ job # Idle /\ m \in Namespaces
        /\ [job EXCEPT !.stage = "create"] \in Jobs /\ [job EXCEPT !.stage = "create"].stage = "create"
        /\ [job EXCEPT !.stage = "create"].name = m /\ [job EXCEPT !.stage = "create"].template = job.template
    BY JobFields DEF CheckBeforeCreate
  <1>2. /\ UNCHANGED <<scenario, config, cached, ns, request, work, goroutines, hook, disturbed, monitoring>>
        /\ \/ job' = Idle /\ watch' = Enqueued({m})
           \/ job' = [job EXCEPT !.stage = "create"] /\ UNCHANGED watch
           \/ job' = Idle /\ UNCHANGED watch /\ ~mayCreate
    BY DEF CheckBeforeCreate, RetryNamespace
  <1>3. AtWork(m)
    BY <1>1, <1>2 DEF AtWork
  <1>4. monitors(m)
    BY <1>1 DEF monitors
  <1>5. CASE job' = Idle /\ watch' = Enqueued({m})
    BY <1>1, <1>2, <1>3, <1>5, SameResourcesKeep
  <1>6. CASE job' = [job EXCEPT !.stage = "create"] /\ UNCHANGED watch
    <2>1. monitors(m)' /\ job'.template = job.template
      BY <1>1, <1>6 DEF monitors
    <2> QED
      BY <1>1, <1>2, <1>3, <1>4, <1>6, <2>1, SameResourcesKeep
  <1>7. CASE job' = Idle /\ UNCHANGED watch /\ ~mayCreate
    <2>1. hook.stage = "none" => ~enabled(config)
      BY <1>7 DEF mayCreate, indicatesUninstallation, isAutoNamespaceMonitoringEnabledInApiServer
    <2>2. CASE ~enabled(config)
      BY <1>1, <1>2, <1>3, <1>4, <1>7, <2>2, SameResourcesKeep
    <2>3. CASE enabled(config)
      <3>1. ControlTypes' /\ ReconcilerInv'
        BY <1>1, <1>3, <1>7, AtWorkElsewhere
      <3>2. ResourceTypes'
        BY <1>2, <1>7, ResourceTypesStay DEF TypeInv
      <3> QED
        BY <2>1, <2>3, <3>1, <3>2 DEF TypeInv
    <2> QED
      BY <2>2, <2>3
  <1> QED
    BY <1>2, <1>5, <1>6, <1>7

LEMMA CreateKeeps ==
  ASSUME KeepInv, TypeInv, ReconcilerInv, createMonitoringResource
  PROVE  TypeInv' /\ ReconcilerInv' /\ (UndisturbedInv => UndisturbedInv')
  <1> PICK m : m = job.name
    OBVIOUS
  <1>1. /\ job.stage = "create" /\ job \in Jobs /\ job # Idle /\ m \in Namespaces /\ job.template \in Templates
        /\ ~isRestricted(m)
    BY JobFields DEF createMonitoringResource
  <1> DEFINE r == [exists |-> TRUE, auto |-> TRUE, meta |-> job.template.meta, spec |-> job.template.spec, deleting |-> FALSE]
  <1>2. /\ UNCHANGED <<scenario, config, cached, ns, request, work, goroutines, hook, disturbed>> /\ job' = Idle
        /\ \/ watch' = Enqueued({m}) /\ UNCHANGED monitoring
           \/ /\ UNCHANGED watch /\ ns[m].exists /\ ~monitoring[m].exists
              /\ monitoring' = [monitoring EXCEPT ![m] = r]
    BY DEF createMonitoringResource, RetryNamespace
  <1>3. AtWork(m)
    BY <1>1, <1>2 DEF AtWork
  <1>4. monitors(m)
    BY <1>1 DEF monitors
  <1>5. CASE watch' = Enqueued({m}) /\ UNCHANGED monitoring
    BY <1>1, <1>2, <1>3, <1>5, SameResourcesKeep
  <1>6. CASE /\ UNCHANGED watch /\ ns[m].exists /\ ~monitoring[m].exists
             /\ monitoring' = [monitoring EXCEPT ![m] = r]
    <2>1. r \in Resources /\ r.auto /\ r.meta = job.template.meta /\ r.spec = job.template.spec
      BY <1>1 DEF Resources
    <2> HIDE DEF r
    <2>2. /\ \A n \in Namespaces : n # m => monitoring'[n] = monitoring[n]
          /\ monitoring'[m] = r
      BY <1>1, <1>6 DEF KeepInv, ResourcesByNamespace
    <2>3. TemplateOf(m)' = job.template
      BY <1>1, <2>1, <2>2, TemplateFields DEF TemplateOf
    <2> QED
      BY <1>1, <1>2, <1>3, <1>4, <1>6, <2>1, <2>2, <2>3, WrittenResourceKeeps
  <1> QED
    BY <1>2, <1>5, <1>6

-----------------------------------------------------------------------------
(* All steps                                                               *)

FollowInv ==
  /\ KeepInv
  /\ PatientUsers => /\ TypeInv /\ ReconcilerInv
                     /\ (hook.stage = "none" /\ ~disturbed) => UndisturbedInv

LEMMA InitFollows == Init => FollowInv
  <1> SUFFICES ASSUME Init PROVE FollowInv
    OBVIOUS
  <1>1. KeepInv
    BY InitKeeps
  <1>2. /\ config = NoConfig /\ cached = NoConfig /\ ~config.exists /\ ~enabled(config) /\ ~enabled(cached)
        /\ watch = NotWatching /\ watch.active = FALSE /\ goroutines = {} /\ job = Idle /\ work = Idle
        /\ request = FALSE /\ disturbed = FALSE /\ scenario \in Scenarios
    BY DEF Init, NoConfig, NotWatching, enabled
  <1>3. ControlTypes
    BY <1>2 DEF ControlTypes, IsConfig, IsWatch, IsWork
  <1>4. \A n \in Namespaces : monitoring[n] = NoResource /\ monitoring[n].exists = FALSE /\ n \notin autoMonitored
    BY DEF Init, NoResource, autoMonitored
  <1>5. ResourceTypes
    <2>1. ns = [n \in Namespaces |-> ns[n]] /\ \A n \in Namespaces : ns[n].exists \in BOOLEAN
      BY DEF Init, NoNamespace
    <2> QED
      BY <1>2, <1>4, <2>1 DEF ResourceTypes
  <1>6. ReconcilerInv
    BY <1>2 DEF ReconcilerInv, CacheInv, ReconciledInv, WatchInv, WorkInv, QuietInv, Settled
  <1>7. UndisturbedInv
    BY <1>2, <1>4 DEF UndisturbedInv, GoroutineInv, OffInv, NamespaceInv, Kept
  <1> QED
    BY <1>1, <1>3, <1>5, <1>6, <1>7 DEF FollowInv, TypeInv

\* A disturbance is never forgotten.
LEMMA DisturbanceStays ==
  ASSUME disturbed, [Next]_vars
  PROVE  disturbed'
  <1>1. CASE UNCHANGED vars
    BY <1>1 DEF vars
  <1>2. CASE Users
    BY <1>2 DEF Users, ApplyConfiguration, DeleteConfiguration, ApplyNamespace, DeleteNamespace,
       CreateManualResource, DeleteResource, Restart, Uninstall
  <1>3. CASE CacheCatchesUp \/ updateOperatorConfigurationStatus \/ NamespaceController \/ Hook
    BY <1>3 DEF CacheCatchesUp, updateOperatorConfigurationStatus, NamespaceController, ReconcileNamespace,
       ensureNamespaceIsMonitored, ensureNamespaceIsUnmonitored, CheckBeforeCreate, createMonitoringResource,
       Hook, DeleteAllMonitoringResources, RequestDeletion, HookEnds
  <1>4. CASE Reconcile
    BY <1>4 DEF Reconcile, StopAndClean, WatchWithSelector
  <1>5. CASE (\E g \in goroutines : RunGoroutine(g)) \/ \E n \in Namespaces : RemoveFinalizer(n)
    BY <1>5 DEF RunGoroutine, RemoveFinalizer
  <1> QED
    BY <1>1, <1>2, <1>3, <1>4, <1>5 DEF Next, Operator

\* The hook is not part of what holds of the reconciler.
LEMMA HookFollows ==
  ASSUME KeepInv, TypeInv, ReconcilerInv, Uninstall \/ Hook
  PROVE  TypeInv' /\ ReconcilerInv' /\ hook'.stage # "none"
  <1>0. ControlTypes /\ ResourceTypes /\ IsWatch(watch) /\ disturbed \in BOOLEAN /\ WatchInv
    BY DEF TypeInv, ControlTypes, ReconcilerInv
  <1>1. UNCHANGED <<scenario, config, cached, ns, request, work, goroutines, watch, job, disturbed>> /\ hook'.stage # "none"
    BY DEF Uninstall, Hook, DeleteAllMonitoringResources, RequestDeletion, HookEnds
  <1>2. Elsewhere
    BY <1>0, <1>1 DEF Elsewhere, WatchInv
  <1>3. ControlTypes' /\ ReconcilerInv'
    BY <1>0, <1>1, <1>2, TypesElsewhere, ReconcilerElsewhere
  <1>4. ResourceTypes'
    <2>1. CASE UNCHANGED monitoring
      BY <1>0, <1>1, <2>1, ResourceTypesStay DEF ResourceTypes
    <2>2. CASE monitoring' = deleted(remaining)
      <3>1. ASSUME NEW n \in Namespaces
            PROVE  /\ monitoring'[n] = NoResource \/ monitoring'[n] \in Resources
                   /\ ns'[n].exists \in BOOLEAN
                   /\ monitoring'[n].exists => ns'[n].exists
                   /\ monitoring'[n].exists /\ monitoring'[n].auto => ~isRestricted(n)
        BY <1>0, <1>1, <2>2, DeletedKeepsTypes DEF ResourceTypes, autoMonitored
      <3> QED
        BY <1>0, <1>1, <3>1, ResourceTypesElsewhere DEF ResourceTypes
    <2> QED
      BY <2>1, <2>2 DEF Uninstall, Hook, DeleteAllMonitoringResources, RequestDeletion, HookEnds
  <1> QED
    BY <1>1, <1>3, <1>4 DEF TypeInv

\* A step of the reconciler of the configuration, or of the users of the configuration.
LEMMA ConfigurationFollows ==
  ASSUME KeepInv, PatientUsers, TypeInv, ReconcilerInv,
         ApplyConfiguration \/ DeleteConfiguration \/ CacheCatchesUp \/ Restart \/ Reconcile \/ updateOperatorConfigurationStatus
  PROVE  TypeInv' /\ ReconcilerInv' /\ (UndisturbedInv /\ ~disturbed' => UndisturbedInv')
  <1>0. ControlTypes /\ ResourceTypes /\ CacheInv /\ ReconciledInv /\ WatchInv /\ WorkInv
    BY DEF TypeInv, ReconcilerInv
  <1>1. TypeInv' /\ QuietInv'
    BY <1>0, TypesOfConfiguration, QuietOfConfiguration DEF TypeInv
  <1>2. CacheInv' /\ ReconciledInv' /\ WatchInv' /\ WorkInv'
    BY <1>0, ControlOfUsers, ControlOfCache, ControlOfReconcile, ControlOfStatus
  <1>3. ASSUME UndisturbedInv, ~disturbed' PROVE UndisturbedInv'
    <2>1. CASE ApplyConfiguration
      BY <1>3, <2>1, UndisturbedByApply
    <2>2. CASE DeleteConfiguration
      BY <1>3, <2>2, UndisturbedByDelete
    <2>3. CASE CacheCatchesUp
      <3>1. /\ request' /\ work' = work /\ ~reconciled
            /\ UNCHANGED <<scenario, config, ns, monitoring, goroutines, watch, job>>
        BY <2>3 DEF CacheCatchesUp, reconciled
      <3> QED
        BY <1>3, <3>1, UndisturbedByRequest
    <2>4. CASE Restart
      BY <1>3, <2>4, UndisturbedByRestart
    <2>5. CASE Reconcile
      BY <1>3, <2>5, UndisturbedByReconcile
    <2>6. CASE updateOperatorConfigurationStatus
      BY <1>3, <2>6, UndisturbedByStatus
    <2> QED
      BY <2>1, <2>2, <2>3, <2>4, <2>5, <2>6
  <1> QED
    BY <1>1, <1>2, <1>3 DEF ReconcilerInv

LEMMA StutteringFollows ==
  ASSUME TypeInv, ReconcilerInv, UNCHANGED vars
  PROVE  TypeInv' /\ ReconcilerInv' /\ (UndisturbedInv => UndisturbedInv')
  <1>0. ControlTypes /\ ResourceTypes /\ IsWatch(watch) /\ disturbed \in BOOLEAN /\ WatchInv
    BY DEF TypeInv, ControlTypes, ReconcilerInv
  <1>1. Elsewhere /\ goroutines' = goroutines /\ disturbed' = disturbed
    BY <1>0 DEF vars, Elsewhere, WatchInv
  <1>2. ControlTypes' /\ ReconcilerInv'
    BY <1>0, <1>1, TypesElsewhere, ReconcilerElsewhere
  <1>3. ResourceTypes'
    BY <1>0, ResourceTypesStay DEF vars, ResourceTypes
  <1>4. ASSUME UndisturbedInv PROVE UndisturbedInv'
    <2>1. \A n \in Namespaces : Untouched(n)
      BY DEF vars, Untouched, inProgress
    <2>2. \A n \in Namespaces : NamespaceInv(n)'
      BY <1>1, <1>4, <2>1, UntouchedKeeps DEF UndisturbedInv
    <2>3. \A n \in Namespaces : (Kept(n)' <=> Kept(n)) /\ (Doomed(n)' <=> Doomed(n))
      BY <1>1, <2>1, SameLabels, SameResource DEF Untouched
    <2> QED
      BY <1>1, <1>4, <2>2, <2>3, NothingNewKept DEF UndisturbedInv
  <1> QED
    BY <1>2, <1>3, <1>4 DEF TypeInv

LEMMA NextFollows == FollowInv /\ [Next]_vars => FollowInv'
  <1> SUFFICES ASSUME FollowInv, [Next]_vars PROVE FollowInv'
    OBVIOUS
  <1>1. KeepInv' /\ KeepInv
    BY NextKeeps DEF FollowInv
  <1>2. scenario' = scenario
    BY DEF vars, Next, Users, ApplyConfiguration, DeleteConfiguration, ApplyNamespace, DeleteNamespace,
       CreateManualResource, DeleteResource, Restart, Uninstall, Operator, CacheCatchesUp, Reconcile,
       updateOperatorConfigurationStatus, RunGoroutine, RemoveFinalizer, NamespaceController, ReconcileNamespace,
       ensureNamespaceIsMonitored, ensureNamespaceIsUnmonitored, CheckBeforeCreate, createMonitoringResource,
       Hook, DeleteAllMonitoringResources, RequestDeletion, HookEnds
  <1>3. SUFFICES ASSUME PatientUsers
                 PROVE  TypeInv' /\ ReconcilerInv' /\ (hook'.stage = "none" /\ ~disturbed' => UndisturbedInv')
    BY <1>1, <1>2, PatienceStays DEF FollowInv
  <1>4. TypeInv /\ ReconcilerInv /\ (hook.stage = "none" /\ ~disturbed => UndisturbedInv)
    BY <1>3 DEF FollowInv
  <1>5. disturbed => disturbed'
    BY DisturbanceStays
  <1>6. ASSUME hook' = hook, TypeInv', ReconcilerInv',
               UndisturbedInv /\ hook.stage = "none" /\ ~disturbed' => UndisturbedInv'
        PROVE  TypeInv' /\ ReconcilerInv' /\ (hook'.stage = "none" /\ ~disturbed' => UndisturbedInv')
    BY <1>4, <1>5, <1>6
  <1>7. CASE UNCHANGED vars
    BY <1>4, <1>6, <1>7, StutteringFollows DEF vars
  <1>8. CASE Uninstall \/ Hook
    BY <1>1, <1>4, <1>8, HookFollows
  <1>9. CASE ApplyConfiguration \/ DeleteConfiguration \/ CacheCatchesUp \/ Restart \/ Reconcile \/ updateOperatorConfigurationStatus
    <2>1. hook' = hook
      BY <1>9 DEF ApplyConfiguration, DeleteConfiguration, CacheCatchesUp, Restart, Reconcile, updateOperatorConfigurationStatus
    <2> QED
      BY <1>1, <1>3, <1>4, <1>6, <1>9, <2>1, ConfigurationFollows
  <1>10. CASE ApplyNamespace
    BY <1>3, <1>4, <1>6, <1>10, ApplyNamespaceKeeps DEF ApplyNamespace
  <1>11. CASE DeleteNamespace
    BY <1>1, <1>4, <1>6, <1>11, DeleteNamespaceKeeps DEF DeleteNamespace
  <1>12. CASE CreateManualResource \/ DeleteResource
    BY <1>1, <1>4, <1>6, <1>12, ResourcesOfUsersKeep DEF CreateManualResource, DeleteResource
  <1>13. CASE \E n \in Namespaces : RemoveFinalizer(n)
    BY <1>1, <1>4, <1>6, <1>13, RemoveFinalizerKeeps DEF RemoveFinalizer
  <1>14. CASE \E g \in goroutines : RunGoroutine(g)
    BY <1>1, <1>4, <1>6, <1>14, RunGoroutineKeeps DEF RunGoroutine
  <1>15. CASE NamespaceController
    <2>1. hook' = hook
      BY <1>15 DEF NamespaceController, ReconcileNamespace, ensureNamespaceIsMonitored, ensureNamespaceIsUnmonitored,
         CheckBeforeCreate, createMonitoringResource
    <2>2. CASE \E n \in Namespaces : ReconcileNamespace(n)
      BY <1>3, <1>4, <1>6, <2>1, <2>2, ReconcileNamespaceKeeps
    <2>3. CASE ensureNamespaceIsMonitored
      BY <1>1, <1>4, <1>6, <2>1, <2>3, MonitoredKeeps
    <2>4. CASE ensureNamespaceIsUnmonitored
      BY <1>1, <1>4, <1>6, <2>1, <2>4, UnmonitoredKeeps
    <2>5. CASE CheckBeforeCreate
      BY <1>1, <1>4, <1>6, <2>1, <2>5, CheckKeeps
    <2>6. CASE createMonitoringResource
      BY <1>1, <1>4, <1>6, <2>1, <2>6, CreateKeeps
    <2> QED
      BY <1>15, <2>2, <2>3, <2>4, <2>5, <2>6 DEF NamespaceController
  <1> QED
    BY <1>7, <1>8, <1>9, <1>10, <1>11, <1>12, <1>13, <1>14, <1>15 DEF Next, Users, Operator

LEMMA FollowsAtRest == FollowInv => MonitoredAsConfigured
  <1> SUFFICES ASSUME FollowInv, AtRest, ~disturbed, PatientUsers, hook.stage = "none"
               PROVE  /\ enabled(config) => \A n \in Namespaces :
                           /\ wanted(n) => monitoring[n].exists
                           /\ n \in autoMonitored => /\ wanted(n) /\ monitoring[n].meta = config.template.meta
                                                     /\ monitoring[n].spec = config.template.spec
                      /\ (~config.exists \/ (config.exists /\ config.available /\ ~config.enabled)) = TRUE => autoMonitored = {}
    BY DEF MonitoredAsConfigured
  <1>1. TypeInv /\ ReconcilerInv /\ UndisturbedInv
    BY DEF FollowInv
  <1>2. /\ reconciled /\ goroutines = {} /\ job = Idle /\ watch.queue = {}
        /\ \A n \in Namespaces : monitoring[n].exists => ~monitoring[n].deleting
    BY DEF AtRest, quiet
  <1>3. /\ ~request /\ work = Idle /\ cached = config /\ Settled(config)
        /\ \A n \in Namespaces : n \in autoMonitored => Kept(n)
        /\ \A n \in Namespaces : ~Doomed(n) /\ ~waiting(n) /\ ~monitors(n)
    BY <1>1, <1>2 DEF reconciled, ReconcilerInv, ReconciledInv, Kept, autoMonitored, Doomed, waiting, monitors, Idle
  <1>4. ASSUME enabled(config), NEW n \in Namespaces
        PROVE  /\ wanted(n) => monitoring[n].exists
               /\ n \in autoMonitored => /\ wanted(n) /\ monitoring[n].meta = config.template.meta
                                         /\ monitoring[n].spec = config.template.spec
    <2>1. config.exists /\ watch.active /\ watch.selector = config.selector /\ StatusIsCurrent(config)
      BY <1>3, <1>4 DEF Settled, enabled
    <2>2. SelectorAt(n) /\ TemplateAt(n) /\ ExistsAt(n)
      BY <1>1, <1>4, <2>1 DEF UndisturbedInv, NamespaceInv
    <2>3. wanted(n) => monitoring[n].exists
      BY <1>2, <1>3, <2>1, <2>2 DEF ExistsAt
    <2>4. ASSUME n \in autoMonitored
          PROVE  wanted(n) /\ monitoring[n].meta = config.template.meta /\ monitoring[n].spec = config.template.spec
      <3>1. Covered(n) /\ InForce(TemplateOf(n))
        BY <1>2, <1>3, <2>2, <2>4 DEF SelectorAt, TemplateAt
      <3>2. namespaceMatchesLabelSelector(n, config.selector) /\ TemplateOf(n) = config.template
        BY <2>1, <3>1 DEF Covered, InForce, StatusIsCurrent
      <3>3. ns[n].exists /\ ~isRestricted(n)
        BY <1>1, <2>4 DEF TypeInv, ResourceTypes, autoMonitored
      <3>4. TemplateOf(n).meta = monitoring[n].meta /\ TemplateOf(n).spec = monitoring[n].spec
        BY DEF TemplateOf
      <3> QED
        BY <3>2, <3>3, <3>4 DEF wanted
    <2> QED
      BY <2>3, <2>4
  <1>5. ASSUME (~config.exists \/ (config.exists /\ config.available /\ ~config.enabled)) = TRUE
        PROVE  autoMonitored = {}
    <2>1. Off(cached)
      BY <1>3, <1>5 DEF Off
    <2>2. \A n \in Namespaces : ~Kept(n)
      BY <1>1, <1>2, <1>3, <2>1 DEF UndisturbedInv, OffInv
    <2> QED
      BY <1>3, <2>2 DEF autoMonitored
  <1> QED
    BY <1>4, <1>5

\* Once everything has been handled, exactly the namespaces that match the label selector have a
\* monitoring resource with the current template, for any number of namespaces and any script of
\* users who see each change reconciled before the next one: the watch, the goroutines and the
\* status of the configuration together make up for every change, unless something has been
\* disturbed in one of the ways the model names.
THEOREM NamespacesAreMonitoredAsConfigured == Spec => []MonitoredAsConfigured
  <1>1. Init => FollowInv
    BY InitFollows
  <1>2. FollowInv /\ [Next]_vars => FollowInv'
    BY NextFollows
  <1>3. FollowInv => MonitoredAsConfigured
    BY FollowsAtRest
  <1> QED
    BY <1>1, <1>2, <1>3, PTL DEF Spec

============================================================================
