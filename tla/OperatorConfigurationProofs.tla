--------------------- MODULE OperatorConfigurationProofs ---------------------
(***************************************************************************)
(* The handler for the Helm values lists the resources, and writes in a    *)
(* later request: whatever users and the reconciler do in between, it does *)
(* not overwrite a resource it has not created. And at rest the latest     *)
(* configuration is in force everywhere: while it is not, the request that *)
(* puts it into force is pending or in progress, and what this request has *)
(* done so far is right.                                                   *)
(***************************************************************************)
EXTENDS OperatorConfiguration, FiniteSetTheorems, TLAPS

\* Users follow the script to its end.
ScriptIsSequence == script \in Seq(Commands(scenario))

\* A resource has its four parts.
IsResource(r) == DOMAIN r = {"spec", "status", "rv", "age"} /\ r = [x \in DOMAIN r |-> r[x]]

ResourcesByName == cluster = [n \in Names |-> cluster[n]] /\ \A n \in Names : IsResource(cluster[n])

\* A goroutine that writes Helm values aims at the handler's own resource, and has
\* waited for the leadership before it looks at the cluster.
JobIsSafe(j) ==
  /\ DOMAIN j = {"stage", "spec", "attempts", "rv", "target"}
  /\ j.target = autoResource
  /\ j.stage # "wait" => leader

JobsAreSafe == helm = [values |-> helm.values, jobs |-> helm.jobs] /\ \A j \in helm.jobs : JobIsSafe(j)

ConfigInv == ScriptIsSequence /\ ResourcesByName /\ JobsAreSafe

-----------------------------------------------------------------------------

LEMMA TailIsSequence ==
  ASSUME NEW S, NEW s \in Seq(S), s # <<>>
  PROVE  Tail(s) \in Seq(S) /\ Tail(s) # s
  <1>1. Tail(s) \in Seq(S) /\ Len(Tail(s)) = Len(s) - 1 /\ Len(s) \in Nat /\ Len(s) > 0
    OBVIOUS
  <1>2. \A m \in Nat : m - 1 # m
    OBVIOUS
  <1> QED
    BY <1>1, <1>2, Zenon

\* A step of the users goes on in the script.
LEMMA UserStep ==
  ASSUME ScriptIsSequence, NEW op, scripted(op), scenario' = scenario
  PROVE  ScriptIsSequence' /\ script' # script
  BY TailIsSequence DEF ScriptIsSequence, scripted

\* New values make a job for the handler's own resource that waits.
LEMMA NewJobIsSafe ==
  ASSUME NEW values, NEW j \in NewJob(values)
  PROVE  JobIsSafe(j) /\ j.stage = "wait"
  BY DEF NewJob, JobIsSafe

LEMMA InitSafe == Init => ConfigInv
  <1> SUFFICES ASSUME Init PROVE ConfigInv
    OBVIOUS
  <1>1. ScriptIsSequence
    BY ScenariosAreScripted DEF Init, ScriptIsSequence
  <1>2. ResourcesByName
    BY DEF Init, ResourcesByName, Names
  <1>3. JobsAreSafe
    BY NewJobIsSafe DEF Init, JobsAreSafe
  <1> QED
    BY <1>1, <1>2, <1>3 DEF ConfigInv

\* An update changes one resource.
LEMMA WriteChangesOne ==
  ASSUME ResourcesByName, NEW n \in Names, NEW new, IsResource(new), Write(n, new)
  PROVE  /\ ResourcesByName' /\ Names' = Names
         /\ \A m \in Names : m # n => cluster'[m] = cluster[m]
         /\ cluster'[n].spec = new.spec
  <1> DEFINE newer == NewVersion(new)
  <1>1. IsResource(newer) /\ newer.spec = new.spec
    BY DEF IsResource, NewVersion
  <1>2. CASE new = cluster[n]
    BY <1>2 DEF Write, ResourcesByName, Names
  <1>3. CASE new # cluster[n]
    <2>1. cluster' = [cluster EXCEPT ![n] = newer]
      BY <1>3 DEF Write
    <2> HIDE DEF newer
    <2>2. Names' = Names /\ cluster'[n] = newer /\ \A m \in Names : m # n => cluster'[m] = cluster[m]
      BY <2>1 DEF ResourcesByName, Names
    <2>3. cluster' = [m \in Names' |-> cluster'[m]]
      BY <2>1, <2>2 DEF ResourcesByName, Names
    <2> QED
      BY <1>1, <2>2, <2>3 DEF ResourcesByName
  <1> QED
    BY <1>2, <1>3

\* A creation adds one resource.
LEMMA CreateAddsOne ==
  ASSUME ResourcesByName, NEW n, n \notin Names, NEW spec, Create(n, spec)
  PROVE  /\ ResourcesByName' /\ Names' = Names \cup {n}
         /\ \A m \in Names : cluster'[m] = cluster[m]
  <1> DEFINE new == NewResource(spec)
  <1>1. IsResource(new)
    BY DEF IsResource, NewResource
  <1> HIDE DEF new
  <1>2. cluster' = [m \in Names \cup {n} |-> IF m = n THEN new ELSE cluster[m]]
    BY DEF Create, new
  <1> QED
    BY <1>1, <1>2 DEF ResourcesByName, Names

-----------------------------------------------------------------------------

LEMMA UsersSafe == ConfigInv /\ Users => ConfigInv' /\ KeepsManualConfiguration
  <1> SUFFICES ASSUME ConfigInv, Users PROVE ConfigInv' /\ KeepsManualConfiguration
    OBVIOUS
  <1> USE DEF ConfigInv
  <1>1. ScriptIsSequence' /\ script' # script
    BY UserStep DEF Users, Apply, Delete, ChangeHelmValues
  <1>2. ResourcesByName'
    <2>1. CASE Apply /\ step.name \in Names
      <3> DEFINE new == [cluster[step.name] EXCEPT !.spec = step.spec]
      <3>1. IsResource(new) /\ Write(step.name, new)
        BY <2>1 DEF Apply, ResourcesByName, IsResource
      <3> QED
        BY <2>1, <3>1, WriteChangesOne
    <2>2. CASE Apply /\ step.name \notin Names
      <3>1. CASE Create(step.name, step.spec)
        BY <2>2, <3>1, CreateAddsOne
      <3>2. CASE UNCHANGED cluster
        BY <3>2 DEF ResourcesByName, Names
      <3> QED
        BY <2>2, <3>1, <3>2 DEF Apply
    <2>3. CASE Delete
      BY <2>3 DEF Delete, Without, ResourcesByName, Names
    <2>4. CASE ChangeHelmValues
      BY <2>4 DEF ChangeHelmValues, ResourcesByName, Names
    <2> QED
      BY <2>1, <2>2, <2>3, <2>4 DEF Users
  <1>3. JobsAreSafe'
    <2>1. CASE Apply \/ Delete
      BY <2>1 DEF Apply, Delete, JobsAreSafe, JobIsSafe
    <2>2. CASE ChangeHelmValues
      <3>1. CASE helm' = helm
        BY <2>2, <3>1 DEF ChangeHelmValues, JobsAreSafe, JobIsSafe
      <3>2. CASE helm' = [values |-> step.values, jobs |-> helm.jobs \cup NewJob(step.values)]
        <4>1. \A j \in helm'.jobs : JobIsSafe(j)
          BY <3>2, NewJobIsSafe DEF JobsAreSafe
        <4>2. \A j \in helm'.jobs : JobIsSafe(j)'
          BY <2>2, <4>1 DEF ChangeHelmValues, JobIsSafe
        <4> QED
          BY <3>2, <4>2 DEF JobsAreSafe
      <3> QED
        BY <2>2, <3>1, <3>2 DEF ChangeHelmValues, UpdateExtraConfig
    <2> QED
      BY <2>1, <2>2 DEF Users
  <1> QED
    BY <1>1, <1>2, <1>3 DEF KeepsManualConfiguration

\* The goroutines that write the Helm values.
LEMMA HandlerSafe == ConfigInv /\ Handler => ConfigInv' /\ KeepsManualConfiguration
  <1> SUFFICES ASSUME ConfigInv, NEW j \in helm.jobs, AwaitLeadership(j) \/ ListResources(j) \/ CreateOrUpdate(j)
               PROVE  ConfigInv' /\ KeepsManualConfiguration
    BY DEF Handler
  <1> USE DEF ConfigInv
  <1>1. ScriptIsSequence' /\ leader' = leader
    BY DEF AwaitLeadership, ListResources, CreateOrUpdate, ScriptIsSequence
  <1>2. JobIsSafe(j)
    BY DEF JobsAreSafe
  <1>3. ASSUME NEW rest, helm' = [helm EXCEPT !.jobs = rest], \A k \in rest : k \in helm.jobs \/ JobIsSafe(k)
        PROVE  JobsAreSafe'
    <2>1. helm' = [values |-> helm.values, jobs |-> rest]
      BY <1>3 DEF JobsAreSafe
    <2>2. \A k \in rest : JobIsSafe(k)'
      BY <1>1, <1>3 DEF JobsAreSafe, JobIsSafe
    <2> QED
      BY <2>1, <2>2 DEF JobsAreSafe
  <1>4. ASSUME Retry(j), leader PROVE JobsAreSafe'
    <2> DEFINE again == [j EXCEPT !.stage = "list", !.attempts = @ - 1]
    <2>1. JobIsSafe(again)
      BY <1>2, <1>4 DEF JobIsSafe
    <2>2. PICK rest : helm' = [helm EXCEPT !.jobs = rest] /\ rest \subseteq helm.jobs \cup {again}
      BY <1>4 DEF Retry
    <2> QED
      BY <1>3, <2>1, <2>2
  <1>5. ASSUME UNCHANGED cluster PROVE ResourcesByName' /\ KeepsManualConfiguration
    BY <1>5 DEF ResourcesByName, KeepsManualConfiguration, Names
  <1>6. CASE AwaitLeadership(j)
    <2> DEFINE next == [j EXCEPT !.stage = "list"]
    <2>1. JobIsSafe(next)
      BY <1>2, <1>6 DEF AwaitLeadership, JobIsSafe
    <2>2. helm' = [helm EXCEPT !.jobs = (helm.jobs \ {j}) \cup {next}] /\ UNCHANGED cluster
      BY <1>6 DEF AwaitLeadership
    <2>3. JobsAreSafe'
      BY <1>3, <2>1, <2>2
    <2> QED
      BY <1>1, <1>5, <2>2, <2>3
  <1>7. CASE ListResources(j)
    <2>1. leader /\ UNCHANGED cluster
      BY <1>2, <1>7 DEF ListResources, JobIsSafe
    <2>2. CASE Retry(j)
      BY <1>1, <1>4, <1>5, <2>1, <2>2
    <2>3. CASE ~Retry(j)
      <3> DEFINE create == [j EXCEPT !.stage = "write", !.rv = 0, !.target = autoResource]
                 update == [j EXCEPT !.stage = "write", !.rv = cluster[FirstListed].rv, !.target = FirstListed]
      <3>1. JobIsSafe(create)
        BY <1>2, <2>1 DEF JobIsSafe
      <3>2. CASE refusesToOverwrite
        <4>1. helm' = [helm EXCEPT !.jobs = helm.jobs \ {j}]
          BY <1>7, <2>3, <3>2 DEF ListResources
        <4> QED
          BY <1>1, <1>3, <1>5, <2>1, <4>1
      <3>3. CASE ~refusesToOverwrite /\ Names = {}
        <4>1. helm' = [helm EXCEPT !.jobs = (helm.jobs \ {j}) \cup {create}]
          BY <1>7, <2>3, <3>3 DEF ListResources
        <4>2. JobsAreSafe'
          BY <1>3, <3>1, <4>1
        <4> QED
          BY <1>1, <1>5, <2>1, <4>2
      <3>4. CASE ~refusesToOverwrite /\ Names # {}
        <4>1. helm' = [helm EXCEPT !.jobs = (helm.jobs \ {j}) \cup {update}]
          BY <1>7, <2>3, <3>4 DEF ListResources
        <4>2. FirstListed = autoResource
          BY <3>4 DEF refusesToOverwrite
        <4>3. JobIsSafe(update)
          BY <1>2, <2>1, <4>2 DEF JobIsSafe
        <4>4. JobsAreSafe'
          BY <1>3, <4>1, <4>3
        <4> QED
          BY <1>1, <1>5, <2>1, <4>4
      <3> QED
        BY <3>2, <3>3, <3>4
    <2> QED
      BY <2>2, <2>3
  <1>8. CASE CreateOrUpdate(j)
    <2>1. leader /\ j.target = autoResource
      BY <1>2, <1>8 DEF CreateOrUpdate, JobIsSafe
    <2>2. CASE Retry(j) /\ UNCHANGED cluster
      BY <1>1, <1>4, <1>5, <2>1, <2>2
    <2>3. CASE ~(Retry(j) /\ UNCHANGED cluster)
      <3>1. /\ helm' = [helm EXCEPT !.jobs = helm.jobs \ {j}]
            /\ \/ autoResource \notin Names /\ Create(autoResource, j.spec)
               \/ autoResource \in Names /\ Write(autoResource, [cluster[autoResource] EXCEPT !.spec = j.spec])
        BY <1>8, <2>1, <2>3 DEF CreateOrUpdate
      <3>2. JobsAreSafe'
        BY <1>3, <3>1
      <3>3. CASE autoResource \notin Names /\ Create(autoResource, j.spec)
        BY <1>1, <2>1, <3>2, <3>3, CreateAddsOne DEF KeepsManualConfiguration
      <3>4. CASE autoResource \in Names /\ Write(autoResource, [cluster[autoResource] EXCEPT !.spec = j.spec])
        <4>1. IsResource([cluster[autoResource] EXCEPT !.spec = j.spec])
          BY <3>4 DEF ResourcesByName, IsResource
        <4>2. ResourcesByName' /\ Names' = Names /\ \A m \in Names : m # autoResource => cluster'[m] = cluster[m]
          BY <3>4, <4>1, WriteChangesOne
        <4> QED
          BY <1>1, <3>2, <4>2 DEF KeepsManualConfiguration, Names
      <3> QED
        BY <3>1, <3>3, <3>4
    <2> QED
      BY <2>2, <2>3
  <1> QED
    BY <1>6, <1>7, <1>8

\* The reconciler changes the status of resources, never their spec.
KeepsSpecs == Names' = Names /\ ResourcesByName' /\ \A n \in Names : cluster'[n].spec = cluster[n].spec

LEMMA MarkOthersKeepsSpecs ==
  ASSUME ResourcesByName, NEW kept, MarkOthers(kept)
  PROVE  KeepsSpecs
  <1> DEFINE new(n) == IF n \in kept \/ cluster[n].status = "degraded" THEN cluster[n] ELSE degraded(n)
  <1>1. \A n \in Names : IsResource(new(n)) /\ new(n).spec = cluster[n].spec
    BY DEF ResourcesByName, IsResource, degraded, NewVersion, EnsureResourceIsMarkedAsDegraded
  <1>2. cluster' = [n \in Names |-> new(n)]
    BY DEF MarkOthers
  <1> HIDE DEF new
  <1> QED
    BY <1>1, <1>2 DEF KeepsSpecs, ResourcesByName, Names

LEMMA ReconcilerKeepsSpecs ==
  ASSUME ResourcesByName, Reconciler
  PROVE  KeepsSpecs /\ UNCHANGED Others
  <1>1. ASSUME UNCHANGED cluster PROVE KeepsSpecs
    BY <1>1 DEF KeepsSpecs, ResourcesByName, Names
  <1>2. CASE \/ \E n \in {queue.events[k] : k \in DOMAIN queue.events} \cup queue.retries : BeginReconcile(n)
             \/ RemoveSettings \/ ConvertConfiguration \/ FailAfterwards \/ OnParametersHaveChanged
             \/ ShutDownOTelSdk \/ SendToStarter \/ applyApiAccessSettings \/ ReconcileComponent
    <2>1. UNCHANGED cluster /\ UNCHANGED Others
      BY <1>2 DEF BeginReconcile, RemoveSettings, ConvertConfiguration, FailAfterwards, Fail, OnParametersHaveChanged,
         ShutDownOTelSdk, SendToStarter, applyApiAccessSettings, ReconcileComponent, Requeue
    <2> QED
      BY <1>1, <2>1
  <1>3. CASE VerifyThatResourceIsUniqueInScope
    <2>1. UNCHANGED cluster \/ \E kept : MarkOthers(kept)
      BY <1>3 DEF VerifyThatResourceIsUniqueInScope, Requeue, Fail
    <2>2. KeepsSpecs
      BY <1>1, <2>1, MarkOthersKeepsSpecs
    <2> QED
      BY <1>3, <2>2 DEF VerifyThatResourceIsUniqueInScope
  <1>4. CASE InitStatusConditions
    <2> DEFINE new == NewVersion(SetAvailableConditionToUnknown(cluster[work.name]))
    <2>1. UNCHANGED cluster \/ (work.name \in Names /\ cluster' = [cluster EXCEPT ![work.name] = new])
      BY <1>4 DEF InitStatusConditions, Requeue, Fail, stale
    <2>2. work.name \in Names => IsResource(new) /\ new.spec = cluster[work.name].spec
      BY DEF ResourcesByName, IsResource, NewVersion, SetAvailableConditionToUnknown
    <2> HIDE DEF new
    <2>3. ASSUME work.name \in Names, cluster' = [cluster EXCEPT ![work.name] = new] PROVE KeepsSpecs
      BY <2>2, <2>3 DEF KeepsSpecs, ResourcesByName, Names
    <2> QED
      BY <1>1, <1>4, <2>1, <2>3 DEF InitStatusConditions
  <1>5. CASE MarkAsAvailable
    <2> DEFINE new == EnsureResourceIsMarkedAsAvailable(cluster[work.name])
    <2>1. UNCHANGED cluster \/ (work.name \in Names /\ Write(work.name, new))
      BY <1>5 DEF MarkAsAvailable, Requeue
    <2>2. work.name \in Names => IsResource(new) /\ new.spec = cluster[work.name].spec
      BY DEF ResourcesByName, IsResource, EnsureResourceIsMarkedAsAvailable
    <2> HIDE DEF new
    <2>3. ASSUME work.name \in Names, Write(work.name, new) PROVE KeepsSpecs
      BY <2>2, <2>3, WriteChangesOne DEF KeepsSpecs
    <2> QED
      BY <1>1, <1>5, <2>1, <2>3 DEF MarkAsAvailable
  <1> QED
    BY <1>2, <1>3, <1>4, <1>5 DEF Reconciler

LEMMA NextSafe == ConfigInv /\ [Next]_vars => ConfigInv' /\ [KeepsManualConfiguration]_vars
  <1> SUFFICES ASSUME ConfigInv, [Next]_vars PROVE ConfigInv' /\ [KeepsManualConfiguration]_vars
    OBVIOUS
  <1> USE DEF ConfigInv
  <1>1. ASSUME KeepsSpecs, UNCHANGED <<scenario, script, helm>>, leader' = leader \/ leader'
        PROVE  ConfigInv' /\ KeepsManualConfiguration
    BY <1>1 DEF KeepsSpecs, KeepsManualConfiguration, ScriptIsSequence, JobsAreSafe, JobIsSafe, Names
  <1>2. ASSUME UNCHANGED cluster PROVE KeepsSpecs
    BY <1>2 DEF KeepsSpecs, ResourcesByName, Names
  <1>3. CASE UNCHANGED vars
    BY <1>1, <1>2, <1>3 DEF vars
  <1>4. CASE Users
    BY <1>4, UsersSafe
  <1>5. CASE Handler
    BY <1>5, HandlerSafe
  <1>6. CASE Reconciler
    BY <1>1, <1>6, ReconcilerKeepsSpecs DEF Others
  <1>7. CASE WaitForCompleteOTelSDKConfiguration \/ BecomeLeader \/ WebhookBecomesReady
    BY <1>1, <1>2, <1>7 DEF WaitForCompleteOTelSDKConfiguration, BecomeLeader, WebhookBecomesReady, Others
  <1> QED
    BY <1>3, <1>4, <1>5, <1>6, <1>7 DEF Next, Operator

\* Whatever users and the reconciler do between the requests of the handler, and however
\* many of its goroutines are waiting or trying again, it never overwrites a resource it has
\* not created, and creates its own only as the leader: the name it has listed is what it
\* writes to, and the list is read after the wait (createOrUpdateOperatorConfigurationResourceOnce).
THEOREM ManualConfigurationStays == Spec => ManualConfigurationIsKept
  <1>1. Init => ConfigInv
    BY InitSafe
  <1>2. ConfigInv /\ [Next]_vars => ConfigInv' /\ [KeepsManualConfiguration]_vars
    BY NextSafe
  <1> QED
    BY <1>1, <1>2, PTL DEF Spec, ManualConfigurationIsKept

-----------------------------------------------------------------------------
(* The invariant of the property at rest                                   *)

\* A name is that of the handler's resource or appears in the script.
NamesOf(s) == {autoResource} \cup {c.name : c \in Commands(s)}

Pending(n) == n \in queue.retries \/ \E k \in DOMAIN queue.events : queue.events[k] = n

QueueTypes ==
  /\ queue = [events |-> queue.events, retries |-> queue.retries]
  /\ queue.events \in Seq(NamesOf(scenario))
  /\ queue.retries \subseteq NamesOf(scenario)

HistoryTypes ==
  /\ DOMAIN history = {"created", "released", "lost", "disturbed", "raced"}
  /\ history.created \in Nat
  /\ history.lost \in BOOLEAN /\ history.disturbed \in BOOLEAN /\ history.raced \in BOOLEAN

\* No two resources have the same age, and a new one is younger than all others.
ResourceTypes ==
  /\ Names \subseteq NamesOf(scenario) /\ IsFiniteSet(Names)
  /\ \A n \in Names : cluster[n].rv \in Nat /\ cluster[n].age \in Nat /\ cluster[n].age <= history.created
  /\ \A m, n \in Names : m # n => cluster[m].age # cluster[n].age

ConfiguredStages == {"parameters", "restart", "send", "shutdown", "fail", "api", "components", "available"}

Stages == {"unique", "init", "convert", "remove"} \cup ConfiguredStages

IsRequest(w) ==
  /\ DOMAIN w = {"stage", "name", "deleted", "spec", "status", "rv", "next", "config", "after"}
  /\ w.stage \in Stages /\ w.deleted \in BOOLEAN /\ w.next \in 1..5
  /\ w.name \in NamesOf(scenario) /\ w.rv \in Nat
  /\ w.stage \notin {"components", "available"} => w.next = 1
  /\ w.deleted => /\ w.stage \in {"remove", "parameters", "shutdown", "components"}
                  /\ w.config = None /\ w.after = "components"
  /\ ~w.deleted => w.stage # "remove" /\ (w.stage \in ConfiguredStages => w.after \in {"api", "fail"})

WorkTypes == work = Idle \/ IsRequest(work)

\* A request goes on with what it has read, unless a new request is pending.
WorkInv ==
  work # Idle =>
    /\ (work.deleted <=> work.name \in Names) => Pending(work.name)
    /\ (~work.deleted /\ ~Pending(work.name)) =>
         /\ work.spec = cluster[work.name].spec
         /\ work.stage \in {"unique", "init"} =>
              /\ cluster[work.name].rv >= work.rv
              /\ cluster[work.name].rv = work.rv => cluster[work.name].status = work.status

\* Of two resources the older one is degraded, or will be.
DegradedInv ==
  /\ scenario.faults \in Nat /\ left \in Nat /\ left <= scenario.faults
  /\ left = scenario.faults =>
       \A n, p \in Names : cluster[n].age < cluster[p].age =>
         \/ cluster[n].status = "degraded"
         \/ Pending(n) \/ Pending(p)
         \/ work.stage = "unique" /\ work.name \in {n, p}

Starting == sdk.starter.stage # "idle"

SdkTypes ==
  /\ DOMAIN sdk = {"isActive", "activeConfig", "running", "starter"} /\ sdk.isActive \in BOOLEAN
  /\ \/ sdk.starter = Idle
     \/ sdk.starter.stage \in {"received", "flagged", "stored"} /\ DOMAIN sdk.starter = {"stage", "config"}

\* The flag and the active configuration tell what runs, unless a configuration was
\* handed over during a start.
SdkInv ==
  /\ SdkTypes
  /\ ~history.raced =>
       /\ ~Starting => (sdk.isActive <=> sdk.running # None) /\ sdk.activeConfig = sdk.running
       /\ Starting => sdk.starter.config # None /\ sdk.running = None
       /\ Starting => work.stage \notin {"restart", "send", "shutdown"}
       /\ sdk.starter.stage = "stored" => sdk.activeConfig = sdk.starter.config
       /\ sdk.starter.stage \in {"flagged", "stored"} => sdk.isActive
       /\ work.stage \in {"restart", "send"} => work.config # None
       /\ work.stage = "send" => ~sdk.isActive
       /\ work.stage = "shutdown" => work.config = None

ComponentNames == {Components[k] : k \in DOMAIN Components}

SettingTypes ==
  /\ DOMAIN settings = {"api", "delivery"}
  /\ DOMAIN seen = ComponentNames
  /\ seen = [c \in ComponentNames |-> seen[c]]

eventualConfig == IF Starting THEN sdk.starter.config ELSE sdk.running

Unique == \A m, n \in Names : m = n

ApiRight == settings.api = expectedApi /\ (Names # {} => settings.delivery = mostRecentSpec.delivery)
SdkRight == eventualConfig = expectedConfig
SeenRight(k) == Unique => \A i \in 1..k : seen[Components[i]] = mostRecentSpec
AllRight == /\ ApiRight /\ SdkRight /\ SeenRight(5)
            /\ Names # {} => cluster[MostRecent].status = "available"

\* A request that puts everything right is pending.
Awaited == IF Names = {} THEN \E n \in NamesOf(scenario) : Pending(n) ELSE Pending(MostRecent)

\* The request in progress is the one that puts everything right.
Decisive == IF Names = {} THEN work.deleted ELSE ~work.deleted /\ work.name = MostRecent

\* What has been done so far is right.
Progress ==
  /\ work = Idle => AllRight
  /\ work.stage = "unique" => /\ work.name \in Names
                              /\ work.name # MostRecent => AllRight
  /\ work.stage \notin {"idle", "unique"} => Decisive
  /\ work.stage \in ConfiguredStages => /\ work.config = expectedConfig
                                        /\ work.deleted => ApiRight
  /\ work.stage \in {"fail", "api", "components", "available"} => SdkRight
  /\ work.stage \in {"components", "available"} => ApiRight
  /\ work.stage = "components" => SeenRight(work.next - 1)
  /\ work.stage = "available" => SeenRight(5)

RestInv == (~history.disturbed /\ ~history.raced /\ ~Awaited) => Progress

HelmInv ==
  /\ helm.values = history.released
  /\ HelmOnly => Names \subseteq {autoResource}
  /\ (HelmOnly /\ ~history.lost /\ history.released # None /\ accepted(history.released)) =>
       /\ \A j \in helm.jobs : j.spec = convertValuesToResource(history.released)
       /\ helm.jobs = {} => /\ autoResource \in Names
                            /\ cluster[autoResource].spec = convertValuesToResource(history.released)

TypeInv == ConfigInv /\ QueueTypes /\ HistoryTypes /\ ResourceTypes /\ WorkTypes /\ SettingTypes

InForceInv == TypeInv /\ WorkInv /\ DegradedInv /\ SdkInv /\ RestInv /\ HelmInv

-----------------------------------------------------------------------------
(* The most recent resource                                                *)

Youngest(c) == CHOOSE n \in DOMAIN c : \A m \in DOMAIN c : c[m].age <= c[n].age

LEMMA LeastNatural ==
  ASSUME NEW T, T \subseteq Nat, T # {}
  PROVE  \E x \in T : \A y \in T : x <= y
  <1> DEFINE R == {ss \in Nat \X Nat : ss[1] < ss[2]}
  <1>1. IsWellFoundedOn(R, Nat)
    BY NatLessThanWellFounded, Zenon DEF OpToRel
  <1>2. PICK x \in T : \A y \in T : ~(<<y, x>> \in R)
    <2> HIDE DEF R
    <2> QED
      BY <1>1, WFMin
  <1>3. ASSUME NEW y \in T PROVE x <= y
    <2>1. x \in Nat /\ y \in Nat
      BY <1>2
    <2>2. y < x => <<y, x>> \in R
      BY <2>1
    <2> HIDE DEF R
    <2>3. ~(y < x)
      BY <1>2, <2>2
    <2> QED
      BY <2>1, <2>3
  <1> QED
    BY <1>2, <1>3

\* Ages are bounded, so that one resource is the youngest, and it is the only one.
LEMMA YoungestExists ==
  ASSUME NEW c, NEW b \in Nat, DOMAIN c # {}, \A n \in DOMAIN c : c[n].age \in Nat /\ c[n].age <= b
  PROVE  Youngest(c) \in DOMAIN c /\ \A m \in DOMAIN c : c[m].age <= c[Youngest(c)].age
  <1> DEFINE T == {b - c[n].age : n \in DOMAIN c}
  <1>1. T \subseteq Nat /\ T # {}
    OBVIOUS
  <1>2. PICK x \in T : \A y \in T : x <= y
    <2> HIDE DEF T
    <2> QED
      BY <1>1, LeastNatural
  <1>3. PICK n \in DOMAIN c : x = b - c[n].age
    BY <1>2
  <1>4. \A m \in DOMAIN c : c[m].age <= c[n].age
    <2> TAKE m \in DOMAIN c
    <2>1. b - c[n].age <= b - c[m].age
      BY <1>2, <1>3
    <2> QED
      BY <2>1
  <1>5. \E k \in DOMAIN c : \A m \in DOMAIN c : c[m].age <= c[k].age
    BY <1>4
  <1> QED
    BY <1>5, Zenon DEF Youngest

LEMMA MostRecentExists ==
  ASSUME HistoryTypes, ResourceTypes, Names # {}
  PROVE  MostRecent \in Names /\ \A m \in Names : m # MostRecent => cluster[m].age < cluster[MostRecent].age
  <1>1. MostRecent = Youngest(cluster)
    BY DEF MostRecent, Youngest, Names
  <1>2. MostRecent \in Names /\ \A m \in Names : cluster[m].age <= cluster[MostRecent].age
    BY <1>1, YoungestExists DEF HistoryTypes, ResourceTypes, Names
  <1> QED
    BY <1>2 DEF ResourceTypes

LEMMA MostRecentExistsNext ==
  ASSUME HistoryTypes', ResourceTypes', Names' # {}
  PROVE  MostRecent' \in Names' /\ \A m \in Names' : m # MostRecent' => cluster'[m].age < cluster'[MostRecent'].age
  <1>1. MostRecent' = Youngest(cluster')
    BY DEF MostRecent, Youngest, Names
  <1>2. MostRecent' \in Names' /\ \A m \in Names' : cluster'[m].age <= cluster'[MostRecent'].age
    BY <1>1, YoungestExists DEF HistoryTypes, ResourceTypes, Names
  <1> QED
    BY <1>2 DEF ResourceTypes

\* The resource stays the most recent one while none is created or deleted.
LEMMA MostRecentStays ==
  ASSUME HistoryTypes, ResourceTypes, HistoryTypes', ResourceTypes', Names # {},
         Names' = Names, \A n \in Names : cluster'[n].age = cluster[n].age
  PROVE  MostRecent' = MostRecent
  <1>1. MostRecent \in Names /\ MostRecent' \in Names
    BY MostRecentExists, MostRecentExistsNext
  <1>2. CASE MostRecent' # MostRecent
    <2>1. cluster[MostRecent'].age < cluster[MostRecent].age
      BY <1>1, <1>2, MostRecentExists
    <2>2. cluster'[MostRecent].age < cluster'[MostRecent'].age
      BY <1>1, <1>2, MostRecentExistsNext
    <2>3. cluster[MostRecent].age < cluster[MostRecent'].age
      BY <1>1, <2>2
    <2> QED
      BY <1>1, <2>1, <2>3 DEF ResourceTypes
  <1> QED
    BY <1>2

\* A new resource is the most recent one.
LEMMA NewIsMostRecent ==
  ASSUME HistoryTypes', ResourceTypes', NEW n \in Names',
         \A m \in Names' : m # n => cluster'[m].age < cluster'[n].age
  PROVE  MostRecent' = n
  <1>1. MostRecent' \in Names' /\ \A m \in Names' : m # MostRecent' => cluster'[m].age < cluster'[MostRecent'].age
    BY MostRecentExistsNext
  <1>2. CASE MostRecent' # n
    <2>1. cluster'[MostRecent'].age < cluster'[n].age /\ cluster'[n].age < cluster'[MostRecent'].age
      BY <1>1, <1>2
    <2> QED
      BY <1>1, <2>1 DEF ResourceTypes
  <1> QED
    BY <1>2

LEMMA AtMostOne ==
  ASSUME NEW S, IsFiniteSet(S), Cardinality(S) <= 1, NEW m \in S, NEW n \in S
  PROVE  m = n
  <1> SUFFICES ASSUME m # n PROVE FALSE
    OBVIOUS
  <1>1. IsFiniteSet({m}) /\ Cardinality({m}) = 1
    BY FS_Singleton
  <1>2. Cardinality({m} \cup {n}) = 2
    <2>1. n \notin {m}
      OBVIOUS
    <2> DEFINE one == {m}
    <2> HIDE DEF one
    <2>2. Cardinality(one \cup {n}) = Cardinality(one) + 1
      BY <1>1, <2>1, FS_AddElement DEF one
    <2> QED
      BY <1>1, <2>2 DEF one
  <1>3. ({m} \cup {n}) \in SUBSET S
    OBVIOUS
  <1>4. Cardinality({m} \cup {n}) <= Cardinality(S)
    BY <1>3, FS_Subset
  <1>5. Cardinality(S) \in Nat
    BY FS_CardinalityType
  <1> QED
    BY <1>2, <1>4, <1>5

-----------------------------------------------------------------------------
(* Requests                                                                *)

LEMMA EnqueuePending ==
  ASSUME QueueTypes, scenario' = scenario, NEW n \in NamesOf(scenario), queue' = Enqueued(n)
  PROVE  QueueTypes' /\ \A m : Pending(m)' <=> (Pending(m) \/ m = n)
  <1>1. NamesOf(scenario)' = NamesOf(scenario)
    BY DEF NamesOf, Commands
  <1>2. CASE queue' = queue /\ Pending(n)
    BY <1>1, <1>2 DEF QueueTypes, Pending
  <1>3. CASE queue' = [queue EXCEPT !.events = Append(@, n)]
    <2> DEFINE new == Append(queue.events, n)
    <2>1. queue' = [events |-> new, retries |-> queue.retries]
      BY <1>3 DEF QueueTypes
    <2>2. /\ new \in Seq(NamesOf(scenario)) /\ DOMAIN new = 1..(Len(queue.events) + 1)
          /\ Len(queue.events) \in Nat /\ DOMAIN queue.events = 1..Len(queue.events)
          /\ new[Len(queue.events) + 1] = n /\ \A k \in 1..Len(queue.events) : new[k] = queue.events[k]
      BY DEF QueueTypes
    <2> HIDE DEF new
    <2>3. QueueTypes'
      BY <1>1, <2>1, <2>2 DEF QueueTypes
    <2>4. \A m : (\E k \in DOMAIN new : new[k] = m) <=> ((\E k \in DOMAIN queue.events : queue.events[k] = m) \/ m = n)
      BY <2>2
    <2> QED
      BY <2>1, <2>3, <2>4 DEF Pending
  <1> QED
    BY <1>2, <1>3 DEF Enqueued, Pending

LEMMA RetryPending ==
  ASSUME QueueTypes, scenario' = scenario, NEW n \in NamesOf(scenario),
         queue' = [queue EXCEPT !.retries = @ \cup {n}]
  PROVE  QueueTypes' /\ \A m : Pending(m)' <=> (Pending(m) \/ m = n)
  <1>1. NamesOf(scenario)' = NamesOf(scenario)
    BY DEF NamesOf, Commands
  <1>2. queue' = [events |-> queue.events, retries |-> queue.retries \cup {n}]
    BY DEF QueueTypes
  <1> QED
    BY <1>1, <1>2 DEF QueueTypes, Pending

LEMMA SamePending ==
  ASSUME QueueTypes, scenario' = scenario, queue' = queue
  PROVE  QueueTypes' /\ \A m : Pending(m)' <=> Pending(m)
  <1>1. NamesOf(scenario)' = NamesOf(scenario)
    BY DEF NamesOf, Commands
  <1> QED
    BY <1>1 DEF QueueTypes, Pending

LEMMA BeginPending ==
  ASSUME QueueTypes, scenario' = scenario, NEW n,
         \/ queue.events # <<>> /\ n = Head(queue.events) /\ queue' = [queue EXCEPT !.events = Tail(@)]
         \/ n \in queue.retries /\ queue' = [queue EXCEPT !.retries = @ \ {n}]
  PROVE  /\ QueueTypes' /\ n \in NamesOf(scenario) /\ Pending(n)
         /\ \A m : m # n => (Pending(m)' <=> Pending(m))
  <1>1. NamesOf(scenario)' = NamesOf(scenario)
    BY DEF NamesOf, Commands
  <1>2. CASE n \in queue.retries /\ queue' = [queue EXCEPT !.retries = @ \ {n}]
    <2>1. queue' = [events |-> queue.events, retries |-> queue.retries \ {n}]
      BY <1>2 DEF QueueTypes
    <2> QED
      BY <1>1, <1>2, <2>1 DEF QueueTypes, Pending
  <1>3. CASE queue.events # <<>> /\ n = Head(queue.events) /\ queue' = [queue EXCEPT !.events = Tail(@)]
    <2> DEFINE old == queue.events
               new == Tail(queue.events)
    <2>1. queue' = [events |-> new, retries |-> queue.retries]
      BY <1>3 DEF QueueTypes
    <2>2. /\ new \in Seq(NamesOf(scenario)) /\ Len(old) \in Nat /\ Len(old) > 0
          /\ DOMAIN new = 1..(Len(old) - 1) /\ DOMAIN old = 1..Len(old)
          /\ n = old[1] /\ \A k \in 1..(Len(old) - 1) : new[k] = old[k + 1]
      BY <1>3 DEF QueueTypes
    <2>3. n \in NamesOf(scenario) /\ Pending(n)
      BY <2>2 DEF QueueTypes, Pending
    <2> HIDE DEF new
    <2>4. QueueTypes'
      BY <1>1, <2>1, <2>2 DEF QueueTypes
    <2>5. ASSUME NEW m, m # n PROVE (\E k \in DOMAIN new : new[k] = m) <=> (\E k \in DOMAIN old : old[k] = m)
      <3>1. ASSUME NEW k \in DOMAIN new, new[k] = m PROVE \E i \in DOMAIN old : old[i] = m
        <4>1. k \in 1..(Len(old) - 1) /\ new[k] = old[k + 1]
          BY <2>2, <3>1
        <4>2. k + 1 \in DOMAIN old
          BY <2>2, <4>1
        <4> QED
          BY <3>1, <4>1, <4>2
      <3>2. ASSUME NEW k \in DOMAIN old, old[k] = m PROVE \E i \in DOMAIN new : new[i] = m
        <4>1. k - 1 \in 1..(Len(old) - 1)
          BY <2>2, <2>5, <3>2
        <4> QED
          BY <2>2, <3>2, <4>1
      <3> QED
        BY <3>1, <3>2
    <2> QED
      BY <2>1, <2>3, <2>4, <2>5 DEF Pending
  <1> QED
    BY <1>2, <1>3

\* Nothing that matters for the settings changes with the status of resources.
SameResources ==
  Names' = Names /\ \A n \in Names : cluster'[n].spec = cluster[n].spec /\ cluster'[n].age = cluster[n].age

LEMMA SameTargetIf ==
  ASSUME HistoryTypes, ResourceTypes, HistoryTypes', ResourceTypes', scenario' = scenario,
         Names' = Names, \A n \in Names : cluster'[n].age = cluster[n].age,
         Names # {} => cluster'[MostRecent].spec = cluster[MostRecent].spec
  PROVE  /\ Names # {} => MostRecent' = MostRecent
         /\ mostRecentSpec' = mostRecentSpec /\ expectedApi' = expectedApi /\ expectedConfig' = expectedConfig
         /\ Unique' <=> Unique
  <1>1. Names # {} => MostRecent' = MostRecent /\ MostRecent \in Names
    BY MostRecentStays, MostRecentExists
  <1>2. mostRecentSpec' = mostRecentSpec
    BY <1>1 DEF mostRecentSpec
  <1>3. expectedApi' = expectedApi
    BY <1>2 DEF expectedApi
  <1>4. expectedConfig' = expectedConfig
    BY <1>2 DEF expectedConfig, selfMonitoringOf
  <1> QED
    BY <1>1, <1>2, <1>3, <1>4 DEF Unique

LEMMA SameTarget ==
  ASSUME HistoryTypes, ResourceTypes, HistoryTypes', ResourceTypes', scenario' = scenario, SameResources
  PROVE  /\ Names # {} => MostRecent' = MostRecent
         /\ mostRecentSpec' = mostRecentSpec /\ expectedApi' = expectedApi /\ expectedConfig' = expectedConfig
         /\ Unique' <=> Unique
  BY SameTargetIf, MostRecentExists DEF SameResources

\* The names of resources and requests do not run out.
LEMMA SameNamesOf ==
  ASSUME scenario' = scenario
  PROVE  NamesOf(scenario)' = NamesOf(scenario) /\ (HelmOnly' <=> HelmOnly)
  BY DEF NamesOf, Commands, HelmOnly

LEMMA AwaitedStays ==
  ASSUME scenario' = scenario, Names' = Names, Names # {} => MostRecent' = MostRecent,
         \A m : Pending(m) => Pending(m)'
  PROVE  Awaited => Awaited'
  BY SameNamesOf DEF Awaited

-----------------------------------------------------------------------------
(* Steps that leave the request in progress and the settings alone         *)

UntouchedSettings == UNCHANGED <<scenario, work, settings, seen, sdk>>

LEMMA ProgressStays ==
  ASSUME UntouchedSettings, Progress, Names' = Names, Names # {} => MostRecent' = MostRecent,
         mostRecentSpec' = mostRecentSpec, expectedApi' = expectedApi, expectedConfig' = expectedConfig, Unique' <=> Unique,
         Names # {} => cluster'[MostRecent].status = cluster[MostRecent].status
  PROVE  Progress'
  <1>1. ApiRight' <=> ApiRight
    BY DEF ApiRight, UntouchedSettings
  <1>2. SdkRight' <=> SdkRight
    BY DEF SdkRight, eventualConfig, Starting, UntouchedSettings
  <1>3. \A k : SeenRight(k)' <=> SeenRight(k)
    BY DEF SeenRight, UntouchedSettings
  <1>4. SeenRight(5)' <=> SeenRight(5)
    BY <1>3
  <1>5. SeenRight(work.next - 1)' <=> SeenRight(work.next - 1)
    BY DEF SeenRight, UntouchedSettings
  <1>6. AllRight' <=> AllRight
    BY <1>1, <1>2, <1>4 DEF AllRight
  <1>7. work' = work /\ (Decisive' <=> Decisive)
    BY DEF Decisive, UntouchedSettings
  <1>8. work.stage = "unique" => (work.name # MostRecent' <=> work.name # MostRecent)
    BY DEF Progress
  <1> QED
    BY <1>1, <1>2, <1>4, <1>5, <1>6, <1>7, <1>8 DEF Progress

\* An update of the spec of resources that are queued again, or none.
LEMMA UpdateKeeps ==
  ASSUME TypeInv, TypeInv', WorkInv, DegradedInv, SdkInv, RestInv, UntouchedSettings,
         left' = left \/ (left' = left - 1 /\ left > 0),
         history'.disturbed = history.disturbed, history'.raced = history.raced,
         Names' = Names, \A m : Pending(m) => Pending(m)',
         \A m \in Names : /\ cluster'[m].age = cluster[m].age /\ cluster'[m].status = cluster[m].status
                          /\ \/ cluster'[m].spec = cluster[m].spec /\ cluster'[m].rv = cluster[m].rv
                             \/ Pending(m)'
  PROVE  WorkInv' /\ DegradedInv' /\ SdkInv' /\ RestInv'
  <1> USE DEF TypeInv
  <1>1. WorkInv'
    <2>1. work' = work
      BY DEF UntouchedSettings
    <2>2. CASE Pending(work.name)'
      BY <2>1, <2>2 DEF WorkInv
    <2>3. CASE ~Pending(work.name)' /\ work # Idle
      <3>1. ~Pending(work.name) /\ ~(work.deleted <=> work.name \in Names)
        BY <2>1, <2>3 DEF WorkInv
      <3>2. ~work.deleted => /\ work.name \in Names
                             /\ cluster'[work.name].spec = cluster[work.name].spec
                             /\ cluster'[work.name].rv = cluster[work.name].rv
                             /\ cluster'[work.name].status = cluster[work.name].status
        BY <2>1, <2>3, <3>1
      <3> QED
        BY <2>1, <2>3, <3>1, <3>2 DEF WorkInv
    <2> QED
      BY <2>1, <2>2, <2>3 DEF WorkInv
  <1>2. DegradedInv'
    BY DEF DegradedInv, UntouchedSettings
  <1>3. SdkInv'
    BY DEF SdkInv, SdkTypes, Starting, UntouchedSettings
  <1>4. RestInv'
    <2> SUFFICES ASSUME ~history.disturbed, ~history.raced, ~Awaited' PROVE Progress'
      BY DEF RestInv
    <2>1. Names # {} => MostRecent' = MostRecent /\ MostRecent \in Names
      BY MostRecentStays, MostRecentExists
    <2>2. ~Awaited
      BY <2>1, AwaitedStays DEF UntouchedSettings
    <2>3. Names # {} => cluster'[MostRecent].spec = cluster[MostRecent].spec
      BY <2>1 DEF Awaited
    <2>4. Progress
      BY <2>2 DEF RestInv
    <2>5. Names # {} => cluster'[MostRecent].status = cluster[MostRecent].status
      BY <2>1
    <2>6. /\ mostRecentSpec' = mostRecentSpec /\ expectedApi' = expectedApi /\ expectedConfig' = expectedConfig
          /\ Unique' <=> Unique
      BY <2>3, SameTargetIf DEF UntouchedSettings
    <2> QED
      BY <2>1, <2>4, <2>5, <2>6, ProgressStays
  <1> QED
    BY <1>1, <1>2, <1>3, <1>4

LEMMA CreationKeeps ==
  ASSUME TypeInv, TypeInv', WorkInv, DegradedInv, SdkInv, RestInv, UntouchedSettings, left' = left,
         history'.disturbed = history.disturbed, history'.raced = history.raced,
         NEW n, n \notin Names, Names' = Names \cup {n}, \A m \in Names : cluster'[m] = cluster[m],
         cluster'[n].age = history.created + 1,
         \A m : Pending(m) => Pending(m)', Pending(n)'
  PROVE  WorkInv' /\ DegradedInv' /\ SdkInv' /\ RestInv'
  <1> USE DEF TypeInv
  <1>1. WorkInv'
    BY DEF WorkInv, UntouchedSettings
  <1>2. DegradedInv'
    BY DEF DegradedInv, UntouchedSettings
  <1>3. SdkInv'
    BY DEF SdkInv, SdkTypes, Starting, UntouchedSettings
  <1>4. RestInv'
    <2>1. \A m \in Names' : m # n => cluster'[m].age < cluster'[n].age
      BY DEF ResourceTypes, HistoryTypes
    <2>2. MostRecent' = n
      BY <2>1, NewIsMostRecent
    <2> QED
      BY <2>2 DEF RestInv, Awaited
  <1> QED
    BY <1>1, <1>2, <1>3, <1>4

LEMMA DeletionKeeps ==
  ASSUME TypeInv, TypeInv', WorkInv, DegradedInv, SdkInv, RestInv, UntouchedSettings, left' = left,
         history'.raced = history.raced,
         NEW n \in Names, Names' = Names \ {n}, \A m \in Names' : cluster'[m] = cluster[m],
         history'.disturbed \/ Names = {n},
         \A m : Pending(m) => Pending(m)', Pending(n)'
  PROVE  WorkInv' /\ DegradedInv' /\ SdkInv' /\ RestInv'
  <1> USE DEF TypeInv
  <1>1. WorkInv'
    BY DEF WorkInv, UntouchedSettings
  <1>2. DegradedInv'
    BY DEF DegradedInv, UntouchedSettings
  <1>3. SdkInv'
    BY DEF SdkInv, SdkTypes, Starting, UntouchedSettings
  <1>4. RestInv'
    <2>1. CASE history'.disturbed
      BY <2>1 DEF RestInv
    <2>2. CASE Names = {n}
      BY <2>2, SameNamesOf DEF RestInv, Awaited, ResourceTypes, UntouchedSettings
    <2> QED
      BY <2>1, <2>2
  <1> QED
    BY <1>1, <1>2, <1>3, <1>4

-----------------------------------------------------------------------------
(* Users and the handler                                                   *)

LEMMA SameWorkTypes ==
  ASSUME WorkTypes, SettingTypes, UntouchedSettings
  PROVE  WorkTypes' /\ SettingTypes'
  <1>1. WorkTypes'
    BY SameNamesOf DEF WorkTypes, IsRequest, UntouchedSettings
  <1>2. SettingTypes'
    BY DEF SettingTypes, UntouchedSettings
  <1> QED
    BY <1>1, <1>2

LEMMA WriteSpec ==
  ASSUME TypeInv, NEW n \in Names, NEW spec, Write(n, [cluster[n] EXCEPT !.spec = spec]),
         scenario' = scenario, history' = history
  PROVE  /\ QueueTypes' /\ HistoryTypes' /\ ResourceTypes'
         /\ Names' = Names /\ \A m : Pending(m) => Pending(m)'
         /\ cluster'[n].spec = spec
         /\ \A m \in Names : /\ cluster'[m].age = cluster[m].age /\ cluster'[m].status = cluster[m].status
                             /\ \/ cluster'[m].spec = cluster[m].spec /\ cluster'[m].rv = cluster[m].rv
                                \/ Pending(m)'
  <1> USE DEF TypeInv, ConfigInv
  <1> DEFINE new == [cluster[n] EXCEPT !.spec = spec]
  <1>1. IsResource(cluster[n]) /\ n \in NamesOf(scenario)
    BY DEF ResourcesByName, ResourceTypes
  <1>2. IsResource(new) /\ new.spec = spec /\ new.status = cluster[n].status /\ new.age = cluster[n].age /\ new.rv = cluster[n].rv
    BY <1>1 DEF IsResource
  <1>3. Write(n, new)
    OBVIOUS
  <1> HIDE DEF new
  <1>4. Names' = Names /\ cluster'[n].spec = spec /\ \A m \in Names : m # n => cluster'[m] = cluster[m]
    BY <1>2, <1>3, WriteChangesOne
  <1>5. CASE new = cluster[n]
    <2>1. cluster' = cluster /\ queue' = queue
      BY <1>3, <1>5 DEF Write, operatorConfigurationPredicate
    <2>2. QueueTypes' /\ \A m : Pending(m)' <=> Pending(m)
      BY <2>1, SamePending
    <2>3. HistoryTypes' /\ ResourceTypes'
      BY <2>1, SameNamesOf DEF HistoryTypes, ResourceTypes, Names
    <2> QED
      BY <1>4, <2>1, <2>2, <2>3
  <1>6. CASE new # cluster[n]
    <2>1. new.spec # cluster[n].spec
      <3>1. new = [cluster[n] EXCEPT !.spec = spec]
        BY DEF new
      <3>2. spec = cluster[n].spec => new = cluster[n]
        BY <1>1, <3>1 DEF IsResource
      <3> QED
        BY <1>2, <1>6, <3>2
    <2>2. queue' = Enqueued(n) /\ cluster' = [cluster EXCEPT ![n] = NewVersion(new)]
      BY <1>3, <1>6, <2>1 DEF Write, operatorConfigurationPredicate
    <2>3. QueueTypes' /\ \A m : Pending(m)' <=> (Pending(m) \/ m = n)
      BY <1>1, <2>2, EnqueuePending
    <2>4. cluster'[n] = NewVersion(new)
      BY <2>2 DEF Names, ResourcesByName
    <2>5. cluster'[n].age = cluster[n].age /\ cluster'[n].status = cluster[n].status /\ cluster'[n].rv = cluster[n].rv + 1
      BY <1>2, <2>4 DEF NewVersion, IsResource
    <2>6. HistoryTypes' /\ ResourceTypes'
      BY <1>4, <2>5, SameNamesOf DEF HistoryTypes, ResourceTypes
    <2> QED
      BY <1>4, <2>3, <2>5, <2>6
  <1> QED
    BY <1>5, <1>6

LEMMA CreateResource ==
  ASSUME TypeInv, NEW n \in NamesOf(scenario), n \notin Names, NEW spec, Create(n, spec), scenario' = scenario
  PROVE  /\ QueueTypes' /\ HistoryTypes' /\ ResourceTypes'
         /\ Names' = Names \cup {n} /\ \A m \in Names : cluster'[m] = cluster[m]
         /\ cluster'[n].age = history.created + 1 /\ cluster'[n].spec = spec
         /\ \A m : Pending(m)' <=> (Pending(m) \/ m = n)
         /\ history'.disturbed = history.disturbed /\ history'.raced = history.raced
         /\ history'.lost = history.lost /\ history'.released = history.released
  <1> USE DEF TypeInv, ConfigInv
  <1>1. Names' = Names \cup {n} /\ \A m \in Names : cluster'[m] = cluster[m]
    BY CreateAddsOne
  <1>2. QueueTypes' /\ \A m : Pending(m)' <=> (Pending(m) \/ m = n)
    BY EnqueuePending DEF Create
  <1>3. cluster'[n] = NewResource(spec)
    BY DEF Create
  <1>4. cluster'[n].age = history.created + 1 /\ cluster'[n].spec = spec /\ cluster'[n].rv = 1
    BY <1>3 DEF NewResource
  <1>5. /\ HistoryTypes' /\ history'.created = history.created + 1
        /\ history'.disturbed = history.disturbed /\ history'.raced = history.raced
        /\ history'.lost = history.lost /\ history'.released = history.released
    BY DEF Create, HistoryTypes
  <1>6. IsFiniteSet(Names')
    BY <1>1, FS_AddElement DEF ResourceTypes
  <1>7. ResourceTypes'
    BY <1>1, <1>4, <1>5, <1>6, SameNamesOf DEF ResourceTypes, HistoryTypes
  <1> QED
    BY <1>1, <1>2, <1>4, <1>5, <1>7

\* A command of the script.
LEMMA StepIsCommand ==
  ASSUME ScriptIsSequence, NEW op, scripted(op)
  PROVE  step \in Commands(scenario) /\ step.op = op /\ step.name \in NamesOf(scenario)
  <1>1. step \in Commands(scenario)
    BY DEF ScriptIsSequence, scripted, step
  <1> QED
    BY <1>1 DEF scripted, NamesOf

LEMMA ApplyInForce == InForceInv /\ Apply /\ ConfigInv' => InForceInv'
  <1> SUFFICES ASSUME InForceInv, Apply, ConfigInv' PROVE InForceInv'
    OBVIOUS
  <1> USE DEF InForceInv
  <1>1. UntouchedSettings /\ left' = left /\ helm' = helm
    BY DEF Apply, UntouchedSettings
  <1>2. WorkTypes' /\ SettingTypes'
    BY <1>1, SameWorkTypes DEF TypeInv
  <1>3. step.name \in NamesOf(scenario) /\ ~HelmOnly
    BY StepIsCommand DEF Apply, TypeInv, ConfigInv, HelmOnly
  <1>4. ASSUME history'.released = history.released PROVE HelmInv'
    BY <1>1, <1>3, <1>4, SameNamesOf DEF HelmInv, UntouchedSettings
  <1>5. CASE step.name \in Names
    <2>1. Write(step.name, [cluster[step.name] EXCEPT !.spec = step.spec]) /\ history' = history
      BY <1>5 DEF Apply
    <2> DEFINE name == step.name
               spec == step.spec
    <2> HIDE DEF name, spec
    <2>2. name \in Names /\ Write(name, [cluster[name] EXCEPT !.spec = spec]) /\ scenario' = scenario
      BY <1>1, <1>5, <2>1 DEF name, spec, UntouchedSettings
    <2>3. /\ QueueTypes' /\ HistoryTypes' /\ ResourceTypes'
          /\ Names' = Names /\ \A m : Pending(m) => Pending(m)'
          /\ \A m \in Names : /\ cluster'[m].age = cluster[m].age /\ cluster'[m].status = cluster[m].status
                              /\ \/ cluster'[m].spec = cluster[m].spec /\ cluster'[m].rv = cluster[m].rv
                                 \/ Pending(m)'
      BY <2>1, <2>2, WriteSpec
    <2>4. TypeInv'
      BY <1>2, <2>3 DEF TypeInv
    <2>5. WorkInv' /\ DegradedInv' /\ SdkInv' /\ RestInv'
      BY <1>1, <2>1, <2>3, <2>4, UpdateKeeps
    <2> QED
      BY <1>4, <2>1, <2>4, <2>5
  <1>6. CASE step.name \notin Names /\ Create(step.name, step.spec)
    <2> DEFINE name == step.name
    <2> HIDE DEF name
    <2>1. name \in NamesOf(scenario) /\ name \notin Names /\ Create(name, step.spec) /\ scenario' = scenario
      BY <1>1, <1>3, <1>6 DEF name, UntouchedSettings
    <2>2. /\ QueueTypes' /\ HistoryTypes' /\ ResourceTypes'
          /\ Names' = Names \cup {name} /\ \A m \in Names : cluster'[m] = cluster[m]
          /\ cluster'[name].age = history.created + 1
          /\ \A m : Pending(m)' <=> (Pending(m) \/ m = name)
          /\ history'.disturbed = history.disturbed /\ history'.raced = history.raced
          /\ history'.released = history.released
      BY <2>1, CreateResource
    <2>3. TypeInv'
      BY <1>2, <2>2 DEF TypeInv
    <2>4. WorkInv' /\ DegradedInv' /\ SdkInv' /\ RestInv'
      BY <1>1, <2>1, <2>2, <2>3, CreationKeeps
    <2> QED
      BY <1>4, <2>2, <2>3, <2>4
  <1>7. CASE UNCHANGED <<cluster, queue, history>>
    <2>1. QueueTypes' /\ \A m : Pending(m)' <=> Pending(m)
      BY <1>1, <1>7, SamePending DEF TypeInv, UntouchedSettings
    <2>2. TypeInv'
      BY <1>1, <1>2, <1>7, <2>1, SameNamesOf DEF TypeInv, HistoryTypes, ResourceTypes, Names, UntouchedSettings
    <2>3. WorkInv' /\ DegradedInv' /\ SdkInv' /\ RestInv'
      BY <1>1, <1>7, <2>1, <2>2, UpdateKeeps DEF Names
    <2> QED
      BY <1>4, <1>7, <2>2, <2>3
  <1> QED
    BY <1>5, <1>6, <1>7 DEF Apply

LEMMA DeleteInForce == InForceInv /\ Delete /\ ConfigInv' => InForceInv'
  <1> SUFFICES ASSUME InForceInv, Delete, ConfigInv' PROVE InForceInv'
    OBVIOUS
  <1> USE DEF InForceInv
  <1> DEFINE name == step.name
  <1>1. UntouchedSettings /\ left' = left /\ helm' = helm
    BY DEF Delete, UntouchedSettings
  <1>2. WorkTypes' /\ SettingTypes'
    BY <1>1, SameWorkTypes DEF TypeInv
  <1>3. name \in NamesOf(scenario) /\ ~HelmOnly
    BY StepIsCommand DEF Delete, TypeInv, ConfigInv, HelmOnly
  <1>4. /\ cluster' = [x \in Names \ {name} |-> cluster[x]]
        /\ queue' = IF name \in Names THEN Enqueued(name) ELSE queue
        /\ history' = [history EXCEPT !.disturbed = @ \/ (name \in Names /\ Names # {name})]
    BY DEF Delete, Without, Names
  <1> HIDE DEF name
  <1>5. /\ HistoryTypes' /\ history'.released = history.released /\ history'.raced = history.raced
        /\ history'.created = history.created
        /\ history'.disturbed <=> (history.disturbed \/ (name \in Names /\ Names # {name}))
    BY <1>4 DEF TypeInv, HistoryTypes
  <1>6. HelmInv'
    BY <1>1, <1>3, <1>5, SameNamesOf DEF HelmInv, UntouchedSettings
  <1>7. Names' = Names \ {name} /\ \A m \in Names' : cluster'[m] = cluster[m]
    BY <1>4 DEF Names
  <1>8. IsFiniteSet(Names')
    BY <1>7, FS_RemoveElement DEF TypeInv, ResourceTypes
  <1>9. ResourceTypes'
    BY <1>1, <1>5, <1>7, <1>8, SameNamesOf DEF TypeInv, ResourceTypes, UntouchedSettings
  <1>10. CASE name \in Names
    <2>1. QueueTypes' /\ \A m : Pending(m)' <=> (Pending(m) \/ m = name)
      BY <1>1, <1>3, <1>4, <1>10, EnqueuePending DEF TypeInv, UntouchedSettings
    <2>2. TypeInv'
      BY <1>2, <1>5, <1>9, <2>1 DEF TypeInv
    <2>3. WorkInv' /\ DegradedInv' /\ SdkInv' /\ RestInv'
      BY <1>1, <1>5, <1>7, <1>10, <2>1, <2>2, DeletionKeeps
    <2> QED
      BY <1>6, <2>2, <2>3
  <1>11. CASE name \notin Names
    <2>1. QueueTypes' /\ \A m : Pending(m)' <=> Pending(m)
      BY <1>1, <1>4, <1>11, SamePending DEF TypeInv, UntouchedSettings
    <2>2. TypeInv'
      BY <1>2, <1>5, <1>9, <2>1 DEF TypeInv
    <2>3. history'.disturbed = history.disturbed /\ Names' = Names
      BY <1>5, <1>7, <1>11, <2>2 DEF TypeInv, HistoryTypes
    <2>4. WorkInv' /\ DegradedInv' /\ SdkInv' /\ RestInv'
      BY <1>1, <1>5, <1>7, <2>1, <2>2, <2>3, UpdateKeeps
    <2> QED
      BY <1>6, <2>2, <2>4
  <1> QED
    BY <1>10, <1>11

LEMMA QuietKeeps ==
  ASSUME InForceInv, ConfigInv', UntouchedSettings, UNCHANGED <<cluster, queue>>,
         left' = left \/ (left' = left - 1 /\ left > 0),
         HistoryTypes', history'.created = history.created,
         history'.disturbed = history.disturbed, history'.raced = history.raced
  PROVE  TypeInv' /\ WorkInv' /\ DegradedInv' /\ SdkInv' /\ RestInv'
  <1> USE DEF InForceInv
  <1>1. QueueTypes' /\ \A m : Pending(m)' <=> Pending(m)
    BY SamePending DEF TypeInv, UntouchedSettings
  <1>2. WorkTypes' /\ SettingTypes'
    BY SameWorkTypes DEF TypeInv
  <1>3. ResourceTypes'
    BY SameNamesOf DEF TypeInv, ResourceTypes, Names, UntouchedSettings
  <1>4. TypeInv'
    BY <1>1, <1>2, <1>3 DEF TypeInv
  <1>5. WorkInv' /\ DegradedInv' /\ SdkInv' /\ RestInv'
    BY <1>1, <1>4, UpdateKeeps DEF Names
  <1> QED
    BY <1>4, <1>5

\* Valid values are written by a job.
LEMMA NewJobWrites ==
  ASSUME NEW values, accepted(values)
  PROVE  NewJob(values) # {} /\ \A j \in NewJob(values) : j.spec = convertValuesToResource(values)
  <1> DEFINE spec == convertValuesToResource(values)
  <1> HIDE DEF spec
  <1>1. NewJob(values) = {[stage |-> "wait", spec |-> spec, attempts |-> MaxSteps, rv |-> 0, target |-> autoResource]}
    BY DEF NewJob, spec
  <1>2. NewJob(values) # {} /\ \A j \in NewJob(values) : j.spec = spec
    BY <1>1
  <1> QED
    BY <1>2 DEF spec

LEMMA ChangeHelmValuesInForce == InForceInv /\ ChangeHelmValues /\ ConfigInv' => InForceInv'
  <1> SUFFICES ASSUME InForceInv, ChangeHelmValues, ConfigInv' PROVE InForceInv'
    OBVIOUS
  <1> USE DEF InForceInv
  <1> DEFINE values == step.values
  <1>1. UntouchedSettings /\ UNCHANGED <<cluster, queue, left>>
    BY DEF ChangeHelmValues, UntouchedSettings
  <1>2. /\ UpdateExtraConfig(values)
        /\ history' = [history EXCEPT !.released = values, !.lost = IF values = history.released THEN @ ELSE helm.jobs # {}]
    BY DEF ChangeHelmValues
  <1> HIDE DEF values
  <1>3. /\ HistoryTypes' /\ history'.created = history.created
        /\ history'.disturbed = history.disturbed /\ history'.raced = history.raced
        /\ history'.released = values
        /\ values = history.released => history'.lost = history.lost
        /\ values # history.released => (history'.lost <=> helm.jobs # {})
    BY <1>2 DEF TypeInv, HistoryTypes
  <1>4. TypeInv' /\ WorkInv' /\ DegradedInv' /\ SdkInv' /\ RestInv'
    BY <1>1, <1>3, QuietKeeps
  <1>5. helm.values = history.released
    BY DEF HelmInv
  <1>6. (HelmOnly' <=> HelmOnly) /\ Names' = Names
    BY <1>1, SameNamesOf DEF Names, UntouchedSettings
  <1>7. CASE values = history.released
    <2>1. helm' = helm
      BY <1>2, <1>5, <1>7 DEF UpdateExtraConfig, hasExtraConfigValuesChanged
    <2>2. HelmInv'
      BY <1>1, <1>3, <1>6, <1>7, <2>1 DEF HelmInv
    <2> QED
      BY <1>4, <2>2
  <1>8. CASE values # history.released
    <2>1. helm'.values = values /\ helm'.jobs = helm.jobs \cup NewJob(values)
      BY <1>2, <1>5, <1>8 DEF UpdateExtraConfig, hasExtraConfigValuesChanged
    <2>2. accepted(values) => NewJob(values) # {} /\ \A j \in NewJob(values) : j.spec = convertValuesToResource(values)
      BY NewJobWrites
    <2>3. HelmOnly => Names \subseteq {autoResource}
      BY DEF HelmInv
    <2>4. ~history'.lost => helm'.jobs = NewJob(values)
      BY <1>3, <1>8, <2>1
    <2>5. HelmInv'
      BY <1>3, <1>6, <2>1, <2>2, <2>3, <2>4 DEF HelmInv
    <2> QED
      BY <1>4, <2>5
  <1> QED
    BY <1>7, <1>8

\* A step of a goroutine that goes on with the same spec, or gives up.
LEMMA JobGoesOn ==
  ASSUME HelmInv, JobsAreSafe, scenario' = scenario, cluster' = cluster,
         NEW j \in helm.jobs, NEW k, k.spec = j.spec,
         helm' = [helm EXCEPT !.jobs = (helm.jobs \ {j}) \cup {k}],
         history'.released = history.released, history'.lost <=> history.lost
  PROVE  HelmInv'
  <1>1. helm'.values = helm.values /\ helm'.jobs = (helm.jobs \ {j}) \cup {k}
    BY DEF JobsAreSafe
  <1>2. (HelmOnly' <=> HelmOnly) /\ Names' = Names
    BY SameNamesOf DEF Names
  <1> QED
    BY <1>1, <1>2 DEF HelmInv

LEMMA JobEnds ==
  ASSUME HelmInv, JobsAreSafe, scenario' = scenario, cluster' = cluster,
         NEW j \in helm.jobs, helm' = [helm EXCEPT !.jobs = helm.jobs \ {j}],
         history'.released = history.released, history'.lost \/ ~HelmOnly
  PROVE  HelmInv'
  <1>1. helm'.values = helm.values
    BY DEF JobsAreSafe
  <1>2. (HelmOnly' <=> HelmOnly) /\ Names' = Names
    BY SameNamesOf DEF Names
  <1> QED
    BY <1>1, <1>2 DEF HelmInv

LEMMA RetryInForce ==
  ASSUME InForceInv, ConfigInv', NEW j \in helm.jobs, Retry(j), UntouchedSettings, UNCHANGED <<cluster, queue>>,
         left' = left \/ (left' = left - 1 /\ left > 0)
  PROVE  InForceInv'
  <1> USE DEF InForceInv
  <1>1. /\ HistoryTypes' /\ history'.created = history.created
        /\ history'.disturbed = history.disturbed /\ history'.raced = history.raced
        /\ history'.released = history.released
        /\ history'.lost <=> (history.lost \/ ~(j.attempts > 1))
    BY DEF Retry, TypeInv, HistoryTypes
  <1>2. TypeInv' /\ WorkInv' /\ DegradedInv' /\ SdkInv' /\ RestInv'
    BY <1>1, QuietKeeps
  <1>3. JobsAreSafe /\ scenario' = scenario /\ cluster' = cluster
    BY DEF TypeInv, ConfigInv, UntouchedSettings
  <1>4. CASE j.attempts > 1
    <2> DEFINE k == [j EXCEPT !.stage = "list", !.attempts = @ - 1]
    <2>1. k.spec = j.spec
      BY <1>3 DEF JobsAreSafe, JobIsSafe
    <2>2. helm' = [helm EXCEPT !.jobs = (helm.jobs \ {j}) \cup {k}]
      BY <1>4 DEF Retry
    <2> HIDE DEF k
    <2>3. HelmInv'
      BY <1>1, <1>3, <1>4, <2>1, <2>2, JobGoesOn
    <2> QED
      BY <1>2, <2>3
  <1>5. CASE ~(j.attempts > 1)
    <2>1. helm' = [helm EXCEPT !.jobs = helm.jobs \ {j}]
      BY <1>5 DEF Retry
    <2>2. HelmInv'
      BY <1>1, <1>3, <1>5, <2>1, JobEnds
    <2> QED
      BY <1>2, <2>2
  <1> QED
    BY <1>4, <1>5

LEMMA HandlerInForce == InForceInv /\ Handler /\ ConfigInv' => InForceInv'
  <1> SUFFICES ASSUME InForceInv, ConfigInv', NEW j \in helm.jobs,
                      AwaitLeadership(j) \/ ListResources(j) \/ CreateOrUpdate(j)
               PROVE  InForceInv'
    BY DEF Handler
  <1> USE DEF InForceInv
  <1>1. JobsAreSafe /\ JobIsSafe(j) /\ HistoryTypes /\ ResourcesByName
    BY DEF TypeInv, ConfigInv, JobsAreSafe
  <1>2. UntouchedSettings /\ scenario' = scenario
    BY DEF AwaitLeadership, ListResources, CreateOrUpdate, UntouchedSettings
  <1>3. ASSUME NEW k, k.spec = j.spec, helm' = [helm EXCEPT !.jobs = (helm.jobs \ {j}) \cup {k}],
               UNCHANGED <<cluster, queue, left, history>>
        PROVE  InForceInv'
    <2>1. HistoryTypes'
      BY <1>1, <1>3 DEF HistoryTypes
    <2>2. TypeInv' /\ WorkInv' /\ DegradedInv' /\ SdkInv' /\ RestInv'
      BY <1>2, <1>3, <2>1, QuietKeeps
    <2>3. HelmInv'
      BY <1>1, <1>2, <1>3, JobGoesOn
    <2> QED
      BY <2>2, <2>3
  <1>4. CASE AwaitLeadership(j)
    <2> DEFINE k == [j EXCEPT !.stage = "list"]
    <2>1. k.spec = j.spec
      BY <1>1 DEF JobIsSafe
    <2>2. helm' = [helm EXCEPT !.jobs = (helm.jobs \ {j}) \cup {k}] /\ UNCHANGED <<cluster, queue, left, history>>
      BY <1>4 DEF AwaitLeadership
    <2> HIDE DEF k
    <2> QED
      BY <1>3, <2>1, <2>2
  <1>5. CASE ListResources(j)
    <2>1. UNCHANGED <<cluster, queue>>
      BY <1>5 DEF ListResources
    <2>2. CASE left > 0 /\ left' = left - 1 /\ Retry(j)
      BY <1>2, <2>1, <2>2, RetryInForce
    <2>3. CASE ~(left > 0 /\ left' = left - 1 /\ Retry(j))
      <3> DEFINE create == [j EXCEPT !.stage = "write", !.rv = 0, !.target = autoResource]
                 update == [j EXCEPT !.stage = "write", !.rv = cluster[FirstListed].rv, !.target = FirstListed]
      <3>0. UNCHANGED <<left, history>>
        BY <1>5, <2>3 DEF ListResources
      <3>1. create.spec = j.spec /\ update.spec = j.spec
        BY <1>1 DEF JobIsSafe
      <3>2. CASE refusesToOverwrite
        <4>1. helm' = [helm EXCEPT !.jobs = helm.jobs \ {j}]
          BY <1>5, <2>3, <3>2 DEF ListResources
        <4>2. ~HelmOnly
          BY <3>2 DEF refusesToOverwrite, FirstListed, HelmInv
        <4>3. HelmInv'
          BY <1>1, <1>2, <2>1, <3>0, <4>1, <4>2, JobEnds
        <4>4. TypeInv' /\ WorkInv' /\ DegradedInv' /\ SdkInv' /\ RestInv'
          BY <1>1, <1>2, <2>1, <3>0, QuietKeeps DEF HistoryTypes
        <4> QED
          BY <4>3, <4>4
      <3>3. CASE ~refusesToOverwrite /\ Names = {}
        <4>1. helm' = [helm EXCEPT !.jobs = (helm.jobs \ {j}) \cup {create}]
          BY <1>5, <2>3, <3>3 DEF ListResources
        <4> HIDE DEF create
        <4> QED
          BY <1>3, <2>1, <3>0, <3>1, <4>1
      <3>4. CASE ~refusesToOverwrite /\ Names # {}
        <4>1. helm' = [helm EXCEPT !.jobs = (helm.jobs \ {j}) \cup {update}]
          BY <1>5, <2>3, <3>4 DEF ListResources
        <4> HIDE DEF update
        <4> QED
          BY <1>3, <2>1, <3>0, <3>1, <4>1
      <3> QED
        BY <3>2, <3>3, <3>4
    <2> QED
      BY <2>2, <2>3
  <1>6. CASE CreateOrUpdate(j)
    <2>1. j.target = autoResource /\ autoResource \in NamesOf(scenario)
      BY <1>1 DEF JobIsSafe, NamesOf
    <2>2. CASE Retry(j) /\ UNCHANGED <<cluster, queue>> /\ (left' = left \/ (left' = left - 1 /\ left > 0))
      BY <1>2, <2>2, RetryInForce
    <2>3. CASE /\ helm' = [helm EXCEPT !.jobs = helm.jobs \ {j}] /\ left' = left
               /\ \/ autoResource \notin Names /\ Create(autoResource, j.spec)
                  \/ /\ autoResource \in Names /\ Write(autoResource, [cluster[autoResource] EXCEPT !.spec = j.spec])
                     /\ history' = history
      <3>1. WorkTypes' /\ SettingTypes'
        BY <1>2, SameWorkTypes DEF TypeInv
      <3>2. helm'.values = helm.values /\ helm'.jobs = helm.jobs \ {j}
        BY <1>1, <2>3 DEF JobsAreSafe
      <3>3. ASSUME autoResource \in Names', Names' \subseteq Names \cup {autoResource}, cluster'[autoResource].spec = j.spec,
                   history'.released = history.released, history'.lost = history.lost
            PROVE  HelmInv'
        BY <1>2, <3>2, <3>3, SameNamesOf DEF HelmInv
      <3>4. CASE autoResource \notin Names /\ Create(autoResource, j.spec)
        <4>1. /\ QueueTypes' /\ HistoryTypes' /\ ResourceTypes'
              /\ Names' = Names \cup {autoResource} /\ \A m \in Names : cluster'[m] = cluster[m]
              /\ cluster'[autoResource].age = history.created + 1 /\ cluster'[autoResource].spec = j.spec
              /\ \A m : Pending(m)' <=> (Pending(m) \/ m = autoResource)
              /\ history'.disturbed = history.disturbed /\ history'.raced = history.raced
              /\ history'.lost = history.lost /\ history'.released = history.released
          BY <1>2, <2>1, <3>4, CreateResource
        <4>2. TypeInv'
          BY <3>1, <4>1 DEF TypeInv
        <4>3. WorkInv' /\ DegradedInv' /\ SdkInv' /\ RestInv'
          BY <1>2, <2>3, <3>4, <4>1, <4>2, CreationKeeps
        <4> QED
          BY <3>3, <4>1, <4>2, <4>3
      <3>5. CASE /\ autoResource \in Names /\ Write(autoResource, [cluster[autoResource] EXCEPT !.spec = j.spec])
                 /\ history' = history
        <4>1. /\ QueueTypes' /\ HistoryTypes' /\ ResourceTypes'
              /\ Names' = Names /\ \A m : Pending(m) => Pending(m)'
              /\ cluster'[autoResource].spec = j.spec
              /\ \A m \in Names : /\ cluster'[m].age = cluster[m].age /\ cluster'[m].status = cluster[m].status
                                  /\ \/ cluster'[m].spec = cluster[m].spec /\ cluster'[m].rv = cluster[m].rv
                                     \/ Pending(m)'
          BY <1>2, <3>5, WriteSpec
        <4>2. TypeInv'
          BY <3>1, <4>1 DEF TypeInv
        <4>3. WorkInv' /\ DegradedInv' /\ SdkInv' /\ RestInv'
          BY <1>2, <2>3, <3>5, <4>1, <4>2, UpdateKeeps
        <4> QED
          BY <3>3, <3>5, <4>1, <4>2, <4>3
      <3> QED
        BY <2>3, <3>4, <3>5
    <2> QED
      <3> DEFINE conflict == IF j.rv = 0 THEN ~admitted(j.target) \/ j.target \in Names
                             ELSE IF j.target \in Names THEN cluster[j.target].rv # j.rv ELSE TRUE
      <3>1. CASE /\ (conflict \/ left > 0) = TRUE /\ left' = IF conflict THEN left ELSE left - 1
                 /\ Retry(j) /\ UNCHANGED <<cluster, queue>>
        <4>1. conflict \/ left > 0
          BY <3>1
        <4> QED
          BY <2>2, <3>1, <4>1
      <3>2. CASE /\ ~conflict /\ helm' = [helm EXCEPT !.jobs = helm.jobs \ {j}] /\ left' = left
                 /\ IF j.rv = 0 THEN Create(j.target, j.spec)
                    ELSE Write(j.target, [cluster[j.target] EXCEPT !.spec = j.spec]) /\ UNCHANGED history
        BY <2>1, <2>3, <3>2
      <3> QED
        BY <1>6, <3>1, <3>2 DEF CreateOrUpdate
  <1> QED
    BY <1>4, <1>5, <1>6

-----------------------------------------------------------------------------
(* The reconciler                                                          *)

LEMMA Working ==
  ASSUME WorkTypes
  PROVE  (work = Idle <=> work.stage = "idle") /\ (work # Idle => IsRequest(work))
  BY DEF WorkTypes, IsRequest, Idle, Stages, ConfiguredStages

\* A step within a request that changes no resource and no request.
LEMMA LocalKeeps ==
  ASSUME InForceInv, ConfigInv', WorkTypes', SettingTypes', UNCHANGED <<scenario, cluster, queue, helm>>,
         left' = left \/ (left' = left - 1 /\ left > 0),
         HistoryTypes', history'.created = history.created, history'.released = history.released, history'.lost = history.lost,
         work' # Idle => /\ work # Idle /\ work'.name = work.name /\ work'.deleted = work.deleted /\ work'.spec = work.spec
                         /\ work'.rv = work.rv /\ work'.status = work.status
                         /\ work'.stage \in {"unique", "init"} => work.stage = "unique",
         work.stage = "unique" => Unique
  PROVE  /\ TypeInv' /\ WorkInv' /\ DegradedInv' /\ HelmInv'
         /\ Names' = Names /\ (Awaited' <=> Awaited)
         /\ Names # {} => MostRecent' = MostRecent
         /\ mostRecentSpec' = mostRecentSpec /\ expectedApi' = expectedApi /\ expectedConfig' = expectedConfig
         /\ Unique' <=> Unique
  <1> USE DEF InForceInv
  <1>1. QueueTypes' /\ \A m : Pending(m)' <=> Pending(m)
    BY SamePending DEF TypeInv
  <1>2. Names' = Names /\ ResourceTypes'
    BY SameNamesOf DEF TypeInv, ResourceTypes, Names
  <1>3. TypeInv'
    BY <1>1, <1>2 DEF TypeInv
  <1>4. WorkInv'
    BY <1>1, <1>2 DEF WorkInv
  <1>5. DegradedInv'
    <2>1. left' \in Nat /\ left' <= scenario'.faults /\ (left' = scenario'.faults => left = scenario.faults)
      BY DEF DegradedInv
    <2>2. \A n, p \in Names : cluster[n].age < cluster[p].age => n # p
      BY DEF TypeInv, ResourceTypes
    <2>3. work.stage = "unique" => \A n, p \in Names : ~(cluster[n].age < cluster[p].age)
      BY <2>2 DEF Unique
    <2> QED
      BY <1>1, <1>2, <2>1, <2>3 DEF DegradedInv
  <1>6. HelmInv'
    BY <1>2, SameNamesOf DEF HelmInv
  <1>7. SameResources
    BY <1>2 DEF SameResources
  <1>8. /\ Names # {} => MostRecent' = MostRecent
        /\ mostRecentSpec' = mostRecentSpec /\ expectedApi' = expectedApi /\ expectedConfig' = expectedConfig
        /\ Unique' <=> Unique
    BY <1>3, <1>7, SameTarget DEF TypeInv
  <1>9. Awaited' <=> Awaited
    BY <1>1, <1>2, <1>8, SameNamesOf DEF Awaited
  <1> QED
    BY <1>2, <1>3, <1>4, <1>5, <1>6, <1>8, <1>9

\* A request that fails is pending again.
LEMMA FailKeeps ==
  ASSUME InForceInv, ConfigInv', work # Idle, work' = Idle, queue' = Retried,
         UNCHANGED <<scenario, cluster, settings, seen, sdk, helm, history>>,
         left' = left \/ (left' = left - 1 /\ left > 0)
  PROVE  InForceInv'
  <1> USE DEF InForceInv
  <1> DEFINE name == work.name
  <1>1. IsRequest(work) /\ name \in NamesOf(scenario) /\ work'.stage = "idle"
    BY Working DEF TypeInv, IsRequest, Idle
  <1>2. queue' = [queue EXCEPT !.retries = @ \cup {name}]
    BY DEF Retried
  <1> HIDE DEF name
  <1>3. QueueTypes' /\ \A m : Pending(m)' <=> (Pending(m) \/ m = name)
    BY <1>1, <1>2, RetryPending DEF TypeInv
  <1>4. Names' = Names /\ ResourceTypes' /\ HistoryTypes' /\ SettingTypes' /\ WorkTypes'
    BY SameNamesOf DEF TypeInv, ResourceTypes, HistoryTypes, SettingTypes, WorkTypes, Names
  <1>5. TypeInv'
    BY <1>3, <1>4 DEF TypeInv
  <1>6. WorkInv'
    BY DEF WorkInv
  <1>7. DegradedInv'
    <2>1. left' \in Nat /\ left' <= scenario'.faults /\ (left' = scenario'.faults => left = scenario.faults)
      BY DEF DegradedInv
    <2>2. \A n, p \in Names : work.name \in {n, p} => Pending(n)' \/ Pending(p)'
      BY <1>3 DEF name
    <2> QED
      BY <1>3, <1>4, <2>1, <2>2 DEF DegradedInv
  <1>8. HelmInv'
    BY <1>4, SameNamesOf DEF HelmInv
  <1>9. SdkInv'
    BY <1>1 DEF SdkInv, SdkTypes, Starting
  <1>10. SameResources
    BY <1>4 DEF SameResources
  <1>11. /\ Names # {} => MostRecent' = MostRecent
         /\ mostRecentSpec' = mostRecentSpec /\ expectedApi' = expectedApi /\ expectedConfig' = expectedConfig
         /\ Unique' <=> Unique
    BY <1>5, <1>10, SameTarget DEF TypeInv
  <1>12. RestInv'
    <2> SUFFICES ASSUME ~history.disturbed, ~history.raced, ~Awaited' PROVE Progress'
      BY DEF RestInv
    <2>1. ~Awaited
      BY <1>3, <1>4, <1>11, AwaitedStays
    <2>2. Progress
      BY <2>1 DEF RestInv
    <2>3. Names # {} /\ name # MostRecent
      BY <1>1, <1>3, <1>4, <1>11, SameNamesOf DEF Awaited
    <2>4. work.stage = "unique" /\ AllRight
      BY <1>1, <2>2, <2>3, Working DEF Progress, Decisive, name, TypeInv
    <2>5. (ApiRight' <=> ApiRight) /\ (SdkRight' <=> SdkRight) /\ (SeenRight(5)' <=> SeenRight(5))
      BY <1>4, <1>11 DEF ApiRight, SdkRight, eventualConfig, Starting, SeenRight
    <2>6. AllRight'
      BY <1>4, <1>11, <2>4, <2>5 DEF AllRight
    <2> QED
      BY <1>1, <2>6 DEF Progress, ConfiguredStages
  <1> QED
    BY <1>5, <1>6, <1>7, <1>8, <1>9, <1>12

LEMMA BeginInForce ==
  ASSUME InForceInv, ConfigInv', NEW n, BeginReconcile(n)
  PROVE  InForceInv'
  <1> USE DEF InForceInv
  <1>1. work.stage = "idle" /\ UNCHANGED <<scenario, left, cluster, settings, seen, sdk, helm>>
    BY DEF BeginReconcile, Others
  <1>2. /\ QueueTypes' /\ n \in NamesOf(scenario) /\ Pending(n)
        /\ \A m : m # n => (Pending(m)' <=> Pending(m))
    BY <1>1, BeginPending DEF BeginReconcile, TypeInv
  <1>3. /\ work' = [stage |-> IF n \in Names THEN "unique" ELSE "remove", name |-> n, deleted |-> n \notin Names,
                    spec |-> Read(n).spec, status |-> Read(n).status, rv |-> Read(n).rv,
                    next |-> 1, config |-> None, after |-> "components"]
        /\ history' = [history EXCEPT !.disturbed = IF n \in Names THEN @ /\ n # MostRecent ELSE Names # {}]
    BY DEF BeginReconcile
  <1>4. /\ n \in Names => Read(n) = cluster[n] /\ Read(n).rv \in Nat
        /\ n \notin Names => Read(n).rv = 0
    BY DEF Read, TypeInv, ResourceTypes
  <1>5. /\ HistoryTypes' /\ history'.created = history.created /\ history'.released = history.released
        /\ history'.lost = history.lost /\ history'.raced = history.raced
        /\ n \in Names => (history'.disturbed <=> (history.disturbed /\ n # MostRecent))
        /\ n \notin Names => (history'.disturbed <=> Names # {})
    BY <1>3 DEF TypeInv, HistoryTypes
  <1>6. /\ DOMAIN work' = {"stage", "name", "deleted", "spec", "status", "rv", "next", "config", "after"}
        /\ work'.name = n /\ (work'.deleted <=> n \notin Names) /\ work'.deleted \in BOOLEAN
        /\ work'.stage = (IF n \in Names THEN "unique" ELSE "remove")
        /\ work'.next = 1 /\ work'.config = None /\ work'.after = "components"
        /\ work'.spec = Read(n).spec /\ work'.status = Read(n).status /\ work'.rv = Read(n).rv
    BY <1>3
  <1>7. Names' = Names /\ ResourceTypes' /\ SettingTypes'
    BY <1>1, <1>5, SameNamesOf DEF TypeInv, ResourceTypes, SettingTypes, Names
  <1>8. WorkTypes'
    BY <1>1, <1>2, <1>4, <1>6, SameNamesOf DEF WorkTypes, IsRequest, Stages, ConfiguredStages
  <1>9. TypeInv'
    BY <1>2, <1>5, <1>7, <1>8 DEF TypeInv
  <1>10. WorkInv'
    BY <1>1, <1>4, <1>6, <1>7 DEF WorkInv, TypeInv, ResourceTypes
  <1>11. DegradedInv'
    BY <1>1, <1>2, <1>6, <1>7 DEF DegradedInv
  <1>12. HelmInv'
    BY <1>1, <1>5, <1>7, SameNamesOf DEF HelmInv
  <1>13. SdkInv'
    BY <1>1, <1>5, <1>6 DEF SdkInv, SdkTypes, Starting
  <1>14. SameResources
    BY <1>1, <1>7 DEF SameResources
  <1>15. /\ Names # {} => MostRecent' = MostRecent
         /\ mostRecentSpec' = mostRecentSpec /\ expectedApi' = expectedApi /\ expectedConfig' = expectedConfig
         /\ Unique' <=> Unique
    BY <1>1, <1>9, <1>14, SameTarget DEF TypeInv
  <1>16. RestInv'
    <2> SUFFICES ASSUME ~history'.disturbed, ~history'.raced, ~Awaited' PROVE Progress'
      BY DEF RestInv
    <2>1. CASE n \notin Names
      <3>1. Names = {} /\ work'.stage = "remove" /\ work'.deleted
        BY <1>5, <1>6, <2>1
      <3> QED
        BY <1>6, <1>7, <3>1 DEF Progress, Decisive, ConfiguredStages, Idle
    <2>2. CASE n \in Names /\ n = MostRecent
      BY <1>6, <1>7, <1>15, <2>2 DEF Progress, ConfiguredStages, Idle
    <2>3. CASE n \in Names /\ n # MostRecent
      <3>1. ~history.disturbed /\ ~history.raced /\ ~Awaited
        BY <1>2, <1>5, <1>7, <1>15, <2>3 DEF Awaited
      <3>2. AllRight
        BY <1>1, <3>1, Working DEF RestInv, Progress, TypeInv
      <3>3. (ApiRight' <=> ApiRight) /\ (SdkRight' <=> SdkRight) /\ (SeenRight(5)' <=> SeenRight(5))
        BY <1>1, <1>7, <1>15 DEF ApiRight, SdkRight, eventualConfig, Starting, SeenRight
      <3>4. AllRight'
        BY <1>1, <1>7, <1>15, <3>2, <3>3 DEF AllRight
      <3> QED
        BY <1>6, <1>7, <2>3, <3>4 DEF Progress, ConfiguredStages, Idle
    <2> QED
      BY <2>1, <2>2, <2>3
  <1> QED
    BY <1>9, <1>10, <1>11, <1>12, <1>13, <1>16

-----------------------------------------------------------------------------
(* The steps of a request                                                  *)

LEMMA RemoveSettingsInForce == InForceInv /\ RemoveSettings /\ ConfigInv' => InForceInv'
  <1> SUFFICES ASSUME InForceInv, RemoveSettings, ConfigInv' PROVE InForceInv'
    OBVIOUS
  <1> USE DEF InForceInv
  <1>1. /\ work.stage = "remove" /\ work' = [work EXCEPT !.stage = "parameters"]
        /\ settings' = [settings EXCEPT !.api = {}]
        /\ UNCHANGED <<scenario, left, queue, cluster, seen, sdk, helm, history>>
    BY DEF RemoveSettings, removeAllOperatorConfigurationSettings, RemoveDefaultApiConfigs, Goto, Others
  <1>2. work # Idle /\ IsRequest(work) /\ work.deleted
    BY <1>1, Working DEF TypeInv, IsRequest, Idle
  <1>3. IsRequest(work') /\ work'.stage = "parameters" /\ work' # Idle
        /\ \A f \in DOMAIN work : f # "stage" => work'[f] = work[f]
    BY <1>1, <1>2 DEF IsRequest, Stages, ConfiguredStages, Idle
  <1>4. /\ work'.name = work.name /\ work'.deleted = work.deleted /\ work'.spec = work.spec
        /\ work'.rv = work.rv /\ work'.status = work.status /\ work'.config = work.config
    BY <1>2, <1>3 DEF IsRequest
  <1>5. WorkTypes' /\ SettingTypes' /\ HistoryTypes' /\ settings'.api = {}
    BY <1>1, <1>3, SameNamesOf DEF WorkTypes, IsRequest, SettingTypes, HistoryTypes, TypeInv
  <1>6. /\ TypeInv' /\ WorkInv' /\ DegradedInv' /\ HelmInv'
        /\ Names' = Names /\ (Awaited' <=> Awaited) /\ expectedApi' = expectedApi /\ expectedConfig' = expectedConfig
    BY <1>1, <1>2, <1>3, <1>4, <1>5, LocalKeeps
  <1>7. SdkInv'
    BY <1>1, <1>3 DEF SdkInv, SdkTypes, Starting
  <1>8. RestInv'
    <2> SUFFICES ASSUME ~history.disturbed, ~history.raced, ~Awaited PROVE Progress'
      BY <1>1, <1>6 DEF RestInv
    <2>1. Names = {} /\ work.config = None
      BY <1>1, <1>2 DEF RestInv, Progress, Decisive, IsRequest
    <2>2. expectedApi = {} /\ expectedConfig = None
      BY <2>1 DEF expectedApi, expectedConfig
    <2>3. ApiRight' /\ Decisive'
      BY <1>2, <1>4, <1>5, <1>6, <2>1, <2>2 DEF ApiRight, Decisive
    <2> QED
      BY <1>3, <1>4, <1>6, <2>1, <2>2, <2>3 DEF Progress
  <1> QED
    BY <1>6, <1>7, <1>8

\* What is right stays right while the request goes from one stage to the next.
LEMMA RightStays ==
  ASSUME Names' = Names, mostRecentSpec' = mostRecentSpec, expectedApi' = expectedApi, expectedConfig' = expectedConfig,
         Unique' <=> Unique
  PROVE  /\ settings' = settings => (ApiRight' <=> ApiRight)
         /\ sdk' = sdk => (SdkRight' <=> SdkRight)
  BY DEF ApiRight, SdkRight, eventualConfig, Starting

LEMMA DecisiveStays ==
  ASSUME Names' = Names, Names # {} => MostRecent' = MostRecent, work'.name = work.name, work'.deleted = work.deleted
  PROVE  Decisive' <=> Decisive
  BY DEF Decisive

\* The decisive request works with the spec of the most recent resource.
LEMMA DecisiveSpec ==
  ASSUME InForceInv, work # Idle, ~work.deleted, ~Awaited, Decisive
  PROVE  Names # {} /\ work.spec = mostRecentSpec
  BY DEF InForceInv, WorkInv, Awaited, Decisive, mostRecentSpec

LEMMA ConvertInForce == InForceInv /\ ConvertConfiguration /\ ConfigInv' => InForceInv'
  <1> SUFFICES ASSUME InForceInv, ConvertConfiguration, ConfigInv' PROVE InForceInv'
    OBVIOUS
  <1> USE DEF InForceInv
  <1>1. PICK readable \in BOOLEAN :
          /\ ReadSecret(readable)
          /\ \E result \in {ConvertOperatorConfigurationResourceToSelfMonitoringConfiguration(work.spec, readable)} :
               work' = [work EXCEPT !.stage = "parameters",
                                    !.config = convertExportConfigurationToOTelSDKConfig(result.config),
                                    !.after = IF result.error THEN "fail" ELSE "api"]
    BY DEF ConvertConfiguration
  <1> DEFINE config == convertExportConfigurationToOTelSDKConfig(
                         ConvertOperatorConfigurationResourceToSelfMonitoringConfiguration(work.spec, readable).config)
             after == IF ConvertOperatorConfigurationResourceToSelfMonitoringConfiguration(work.spec, readable).error
                      THEN "fail" ELSE "api"
  <1>2. work' = [work EXCEPT !.stage = "parameters", !.config = config, !.after = after]
    BY <1>1
  <1>3. readable = scenario.secret => config = selfMonitoringOf(work.spec)
    BY DEF selfMonitoringOf
  <1>4. after \in {"api", "fail"}
    OBVIOUS
  <1> HIDE DEF config, after
  <1>5. /\ work.stage = "convert"
        /\ UNCHANGED <<scenario, queue, cluster, settings, seen, sdk, helm>>
        /\ left' = left \/ (left' = left - 1 /\ left > 0)
        /\ (readable = scenario.secret /\ history' = history) \/ history' = [history EXCEPT !.disturbed = TRUE]
    BY <1>1 DEF ConvertConfiguration, Others, ReadSecret
  <1>6. /\ HistoryTypes' /\ history'.created = history.created /\ history'.released = history.released
        /\ history'.lost = history.lost /\ history'.raced = history.raced
        /\ ~history'.disturbed => readable = scenario.secret /\ ~history.disturbed
    BY <1>5 DEF TypeInv, HistoryTypes
  <1>7. work # Idle /\ IsRequest(work) /\ ~work.deleted
    BY <1>5, Working DEF TypeInv, IsRequest, Idle
  <1>8. /\ work'.stage = "parameters" /\ work'.config = config /\ work'.after = after /\ work' # Idle
        /\ work'.name = work.name /\ work'.deleted = work.deleted /\ work'.spec = work.spec
        /\ work'.rv = work.rv /\ work'.status = work.status /\ work'.next = work.next
        /\ DOMAIN work' = DOMAIN work
    BY <1>2, <1>7 DEF IsRequest, Idle
  <1>9. WorkTypes' /\ SettingTypes'
    BY <1>4, <1>5, <1>7, <1>8, SameNamesOf DEF WorkTypes, IsRequest, SettingTypes, TypeInv, Stages, ConfiguredStages
  <1>10. /\ TypeInv' /\ WorkInv' /\ DegradedInv' /\ HelmInv'
         /\ Names' = Names /\ (Awaited' <=> Awaited) /\ (Names # {} => MostRecent' = MostRecent)
    BY <1>5, <1>6, <1>7, <1>8, <1>9, LocalKeeps
  <1>11. expectedConfig' = expectedConfig
    BY <1>5, <1>6, <1>7, <1>8, <1>9, LocalKeeps
  <1>12. SdkInv'
    BY <1>5, <1>6, <1>8 DEF SdkInv, SdkTypes, Starting
  <1>13. RestInv'
    <2> SUFFICES ASSUME ~history'.disturbed, ~history'.raced, ~Awaited PROVE Progress'
      BY <1>10 DEF RestInv
    <2>1. Decisive /\ readable = scenario.secret
      BY <1>5, <1>6 DEF RestInv, Progress
    <2>2. Names # {} /\ work.spec = mostRecentSpec
      BY <1>7, <2>1, DecisiveSpec
    <2>3. config = expectedConfig
      BY <1>3, <2>1, <2>2 DEF expectedConfig
    <2>4. Decisive'
      BY <1>8, <1>10, <2>1, DecisiveStays
    <2> QED
      BY <1>7, <1>8, <1>11, <2>3, <2>4 DEF Progress
  <1> QED
    BY <1>10, <1>12, <1>13

LEMMA OnParametersInForce == InForceInv /\ OnParametersHaveChanged /\ ConfigInv' => InForceInv'
  <1> SUFFICES ASSUME InForceInv, OnParametersHaveChanged, ConfigInv' PROVE InForceInv'
    OBVIOUS
  <1> USE DEF InForceInv
  <1> DEFINE stage == IF work.config # None
                      THEN IF ~sdk.isActive THEN "send"
                           ELSE IF sdk.activeConfig # work.config THEN "restart" ELSE work.after
                      ELSE IF sdk.isActive THEN "shutdown" ELSE work.after
  <1>1. /\ work.stage = "parameters" /\ work' = [work EXCEPT !.stage = stage]
        /\ UNCHANGED <<scenario, left, queue, cluster, settings, seen, sdk, helm>>
        /\ history' = [history EXCEPT !.raced = @ \/ sdk.starter.stage \notin {"idle", "ended"}]
    BY DEF OnParametersHaveChanged, Goto, Others
  <1>2. /\ HistoryTypes' /\ history'.created = history.created /\ history'.released = history.released
        /\ history'.lost = history.lost /\ history'.disturbed = history.disturbed
        /\ ~history'.raced => ~history.raced /\ sdk.starter.stage \in {"idle", "ended"}
    BY <1>1 DEF TypeInv, HistoryTypes
  <1>3. ~history'.raced => ~history.raced /\ ~Starting
    BY <1>2 DEF SdkInv, SdkTypes, Starting, Idle
  <1>4. work # Idle /\ IsRequest(work) /\ work.next = 1
    BY <1>1, Working DEF TypeInv, IsRequest, Idle
  <1>5. stage \in {"send", "restart", "shutdown", work.after} /\ work.after \in {"api", "fail", "components"}
    BY <1>1, <1>4 DEF IsRequest, ConfiguredStages
  <1>6. /\ work.config # None => stage \in {"send", "restart"} \/ (stage = work.after /\ sdk.isActive /\ sdk.activeConfig = work.config)
        /\ work.config = None => stage = "shutdown" \/ (stage = work.after /\ ~sdk.isActive)
        /\ stage = "send" => ~sdk.isActive
    BY <1>5
  <1> HIDE DEF stage
  <1>7. /\ work'.stage = stage /\ work'.config = work.config /\ work'.after = work.after /\ work' # Idle
        /\ work'.name = work.name /\ work'.deleted = work.deleted /\ work'.spec = work.spec
        /\ work'.rv = work.rv /\ work'.status = work.status /\ work'.next = work.next
        /\ DOMAIN work' = DOMAIN work
    BY <1>1, <1>4, <1>5 DEF IsRequest, Idle
  <1>8. WorkTypes' /\ SettingTypes'
    BY <1>1, <1>4, <1>5, <1>6, <1>7, SameNamesOf DEF WorkTypes, IsRequest, SettingTypes, TypeInv, Stages, ConfiguredStages
  <1>9. work'.stage \notin {"unique", "init", "idle"}
    BY <1>5, <1>7
  <1>10. /\ TypeInv' /\ WorkInv' /\ DegradedInv' /\ HelmInv'
         /\ Names' = Names /\ (Awaited' <=> Awaited) /\ (Names # {} => MostRecent' = MostRecent)
         /\ mostRecentSpec' = mostRecentSpec /\ expectedApi' = expectedApi /\ expectedConfig' = expectedConfig
         /\ Unique' <=> Unique
    BY <1>1, <1>2, <1>4, <1>7, <1>8, <1>9, LocalKeeps
  <1>11. SdkInv'
    BY <1>1, <1>3, <1>5, <1>6, <1>7 DEF SdkInv, SdkTypes, Starting
  <1>12. RestInv'
    <2> SUFFICES ASSUME ~history'.disturbed, ~history'.raced, ~Awaited PROVE Progress'
      BY <1>10 DEF RestInv
    <2>1. Decisive /\ work.config = expectedConfig /\ (work.deleted => ApiRight)
      BY <1>1, <1>2 DEF RestInv, Progress, ConfiguredStages
    <2>2. Decisive' /\ (ApiRight' <=> ApiRight) /\ (SdkRight' <=> SdkRight)
      BY <1>1, <1>7, <1>10, <2>1, DecisiveStays, RightStays
    <2>3. stage = work.after => SdkRight
      BY <1>3, <1>5, <1>6, <2>1 DEF SdkInv, SdkRight, eventualConfig
    <2>4. stage = "components" => ApiRight
      BY <1>1, <1>4, <1>5, <2>1 DEF IsRequest, ConfiguredStages
    <2>5. SeenRight(work.next - 1)'
      BY <1>4, <1>7 DEF SeenRight
    <2>6. stage # "available"
      BY <1>5
    <2>7. stage \in {"fail", "api", "components"} => SdkRight
      BY <1>5, <2>3
    <2> QED
      BY <1>7, <1>9, <1>10, <2>1, <2>2, <2>4, <2>5, <2>6, <2>7 DEF Progress
  <1> QED
    BY <1>10, <1>11, <1>12

LEMMA ShutDownInForce == InForceInv /\ ShutDownOTelSdk /\ ConfigInv' => InForceInv'
  <1> SUFFICES ASSUME InForceInv, ShutDownOTelSdk, ConfigInv' PROVE InForceInv'
    OBVIOUS
  <1> USE DEF InForceInv
  <1> DEFINE stage == IF work.stage = "restart" THEN "send" ELSE work.after
  <1>1. /\ work.stage \in {"restart", "shutdown"} /\ work' = [work EXCEPT !.stage = stage]
        /\ sdk' = [sdk EXCEPT !.running = None, !.isActive = FALSE, !.activeConfig = None]
        /\ UNCHANGED <<scenario, left, queue, cluster, settings, seen, helm, history>>
    BY DEF ShutDownOTelSdk, Goto, Others
  <1>2. work # Idle /\ IsRequest(work) /\ work.next = 1
    BY <1>1, Working DEF TypeInv, IsRequest, Idle
  <1>3. work.after \in {"api", "fail", "components"} /\ stage \in {"send", work.after}
    BY <1>1, <1>2 DEF IsRequest, ConfiguredStages
  <1>4. /\ work.stage = "restart" => stage = "send" /\ ~work.deleted
        /\ work.stage = "shutdown" => stage = work.after
        /\ stage \in {"api", "fail", "components"} => work.stage = "shutdown"
        /\ stage = "send" => work.stage = "restart"
    BY <1>1, <1>2, <1>3 DEF IsRequest
  <1> HIDE DEF stage
  <1>5. /\ work'.stage = stage /\ work'.config = work.config /\ work'.after = work.after /\ work' # Idle
        /\ work'.name = work.name /\ work'.deleted = work.deleted /\ work'.spec = work.spec
        /\ work'.rv = work.rv /\ work'.status = work.status /\ work'.next = work.next
        /\ DOMAIN work' = DOMAIN work
    BY <1>1, <1>2, <1>3 DEF IsRequest, Idle
  <1>6. WorkTypes' /\ SettingTypes' /\ HistoryTypes'
    BY <1>1, <1>2, <1>3, <1>4, <1>5, SameNamesOf
    DEF WorkTypes, IsRequest, SettingTypes, HistoryTypes, TypeInv, Stages, ConfiguredStages
  <1>7. work'.stage \notin {"unique", "init", "idle"}
    BY <1>3, <1>5
  <1>8. /\ TypeInv' /\ WorkInv' /\ DegradedInv' /\ HelmInv'
        /\ Names' = Names /\ (Awaited' <=> Awaited) /\ (Names # {} => MostRecent' = MostRecent)
        /\ mostRecentSpec' = mostRecentSpec /\ expectedApi' = expectedApi /\ expectedConfig' = expectedConfig
        /\ Unique' <=> Unique
    BY <1>1, <1>2, <1>5, <1>6, <1>7, LocalKeeps
  <1>9. /\ sdk'.running = None /\ sdk'.isActive = FALSE /\ sdk'.activeConfig = None /\ sdk'.starter = sdk.starter
        /\ DOMAIN sdk' = DOMAIN sdk
    BY <1>1 DEF SdkInv, SdkTypes
  <1>10. SdkInv'
    BY <1>1, <1>3, <1>4, <1>5, <1>9 DEF SdkInv, SdkTypes, Starting
  <1>11. RestInv'
    <2> SUFFICES ASSUME ~history.disturbed, ~history.raced, ~Awaited PROVE Progress'
      BY <1>1, <1>8 DEF RestInv
    <2>1. Decisive /\ work.config = expectedConfig /\ (work.deleted => ApiRight)
      BY <1>1 DEF RestInv, Progress, ConfiguredStages
    <2>2. Decisive' /\ (ApiRight' <=> ApiRight)
      BY <1>1, <1>5, <1>8, <2>1, DecisiveStays, RightStays
    <2>3. stage \in {"fail", "api", "components"} => SdkRight'
      <3>1. ~Starting /\ (work.stage = "shutdown" => work.config = None)
        BY <1>1 DEF SdkInv
      <3> QED
        BY <1>4, <1>8, <1>9, <2>1, <3>1 DEF SdkRight, eventualConfig, Starting
    <2>4. stage = "components" => ApiRight
      BY <1>1, <1>2, <1>4, <2>1 DEF IsRequest, ConfiguredStages
    <2>5. SeenRight(work.next - 1)'
      BY <1>2, <1>5 DEF SeenRight
    <2>6. stage # "available"
      BY <1>3
    <2> QED
      BY <1>5, <1>7, <1>8, <2>1, <2>2, <2>3, <2>4, <2>5, <2>6 DEF Progress
  <1> QED
    BY <1>8, <1>10, <1>11

LEMMA SendInForce == InForceInv /\ SendToStarter /\ ConfigInv' => InForceInv'
  <1> SUFFICES ASSUME InForceInv, SendToStarter, ConfigInv' PROVE InForceInv'
    OBVIOUS
  <1> USE DEF InForceInv
  <1>1. /\ work.stage = "send" /\ sdk.starter.stage = "idle" /\ work' = [work EXCEPT !.stage = work.after]
        /\ sdk' = [sdk EXCEPT !.starter = [stage |-> "received", config |-> work.config]]
        /\ UNCHANGED <<scenario, left, queue, cluster, settings, seen, helm, history>>
    BY DEF SendToStarter, Goto, Others
  <1>2. work # Idle /\ IsRequest(work) /\ work.next = 1
    BY <1>1, Working DEF TypeInv, IsRequest, Idle
  <1>3. work.after \in {"api", "fail"} /\ ~work.deleted
    BY <1>1, <1>2 DEF IsRequest, ConfiguredStages
  <1>4. /\ work'.stage = work.after /\ work'.config = work.config /\ work'.after = work.after /\ work' # Idle
        /\ work'.name = work.name /\ work'.deleted = work.deleted /\ work'.spec = work.spec
        /\ work'.rv = work.rv /\ work'.status = work.status /\ work'.next = work.next
        /\ DOMAIN work' = DOMAIN work
    BY <1>1, <1>2, <1>3 DEF IsRequest, Idle
  <1>5. WorkTypes' /\ SettingTypes' /\ HistoryTypes'
    BY <1>1, <1>2, <1>3, <1>4, SameNamesOf
    DEF WorkTypes, IsRequest, SettingTypes, HistoryTypes, TypeInv, Stages, ConfiguredStages
  <1>6. work'.stage \notin {"unique", "init", "idle"}
    BY <1>3, <1>4
  <1>7. /\ TypeInv' /\ WorkInv' /\ DegradedInv' /\ HelmInv'
        /\ Names' = Names /\ (Awaited' <=> Awaited) /\ (Names # {} => MostRecent' = MostRecent)
        /\ mostRecentSpec' = mostRecentSpec /\ expectedApi' = expectedApi /\ expectedConfig' = expectedConfig
        /\ Unique' <=> Unique
    BY <1>1, <1>2, <1>4, <1>5, <1>6, LocalKeeps
  <1>8. /\ sdk'.running = sdk.running /\ sdk'.isActive = sdk.isActive /\ sdk'.activeConfig = sdk.activeConfig
        /\ sdk'.starter.stage = "received" /\ sdk'.starter.config = work.config
        /\ DOMAIN sdk' = DOMAIN sdk /\ DOMAIN sdk'.starter = {"stage", "config"}
    BY <1>1 DEF SdkInv, SdkTypes
  <1>9. SdkInv'
    BY <1>1, <1>3, <1>4, <1>8 DEF SdkInv, SdkTypes, Starting
  <1>10. RestInv'
    <2> SUFFICES ASSUME ~history.disturbed, ~history.raced, ~Awaited PROVE Progress'
      BY <1>1, <1>7 DEF RestInv
    <2>1. Decisive /\ work.config = expectedConfig
      BY <1>1 DEF RestInv, Progress, ConfiguredStages
    <2>2. Decisive' /\ SdkRight'
      BY <1>1, <1>4, <1>7, <1>8, <2>1, DecisiveStays DEF SdkRight, eventualConfig, Starting
    <2> QED
      BY <1>3, <1>4, <1>6, <1>7, <2>1, <2>2 DEF Progress
  <1> QED
    BY <1>7, <1>9, <1>10

LEMMA ApiInForce == InForceInv /\ applyApiAccessSettings /\ ConfigInv' => InForceInv'
  <1> SUFFICES ASSUME InForceInv, applyApiAccessSettings, ConfigInv' PROVE InForceInv'
    OBVIOUS
  <1> USE DEF InForceInv
  <1>1. PICK readable \in BOOLEAN :
          /\ ReadSecret(readable)
          /\ settings' = [api |-> apiConfigs(work.spec, readable), delivery |-> work.spec.delivery]
    BY DEF applyApiAccessSettings
  <1>2. /\ work.stage = "api" /\ work' = [work EXCEPT !.stage = "components"]
        /\ UNCHANGED <<scenario, queue, cluster, seen, sdk, helm>>
        /\ left' = left \/ (left' = left - 1 /\ left > 0)
        /\ (readable = scenario.secret /\ history' = history) \/ history' = [history EXCEPT !.disturbed = TRUE]
    BY <1>1 DEF applyApiAccessSettings, Goto, Others, ReadSecret
  <1>3. /\ HistoryTypes' /\ history'.created = history.created /\ history'.released = history.released
        /\ history'.lost = history.lost /\ history'.raced = history.raced
        /\ ~history'.disturbed => readable = scenario.secret /\ ~history.disturbed
    BY <1>2 DEF TypeInv, HistoryTypes
  <1>4. work # Idle /\ IsRequest(work) /\ ~work.deleted /\ work.next = 1
    BY <1>2, Working DEF TypeInv, IsRequest, Idle
  <1>5. /\ work'.stage = "components" /\ work'.config = work.config /\ work'.after = work.after /\ work' # Idle
        /\ work'.name = work.name /\ work'.deleted = work.deleted /\ work'.spec = work.spec
        /\ work'.rv = work.rv /\ work'.status = work.status /\ work'.next = work.next
        /\ DOMAIN work' = DOMAIN work
    BY <1>2, <1>4 DEF IsRequest, Idle
  <1>6. settings'.api = apiConfigs(work.spec, readable) /\ settings'.delivery = work.spec.delivery
        /\ DOMAIN settings' = {"api", "delivery"}
    BY <1>1
  <1>7. WorkTypes' /\ SettingTypes'
    BY <1>2, <1>4, <1>5, <1>6, SameNamesOf DEF WorkTypes, IsRequest, SettingTypes, TypeInv, Stages, ConfiguredStages
  <1>8. /\ TypeInv' /\ WorkInv' /\ DegradedInv' /\ HelmInv'
        /\ Names' = Names /\ (Awaited' <=> Awaited) /\ (Names # {} => MostRecent' = MostRecent)
        /\ mostRecentSpec' = mostRecentSpec /\ expectedApi' = expectedApi /\ expectedConfig' = expectedConfig
        /\ Unique' <=> Unique
    BY <1>2, <1>3, <1>4, <1>5, <1>7, LocalKeeps
  <1>9. SdkInv'
    BY <1>2, <1>3, <1>5 DEF SdkInv, SdkTypes, Starting
  <1>10. RestInv'
    <2> SUFFICES ASSUME ~history'.disturbed, ~history'.raced, ~Awaited PROVE Progress'
      BY <1>8 DEF RestInv
    <2>1. Decisive /\ readable = scenario.secret /\ work.config = expectedConfig /\ SdkRight
      BY <1>2, <1>3 DEF RestInv, Progress, ConfiguredStages
    <2>2. Names # {} /\ work.spec = mostRecentSpec
      BY <1>4, <2>1, DecisiveSpec
    <2>3. ApiRight'
      BY <1>6, <1>8, <2>1, <2>2 DEF ApiRight, expectedApi
    <2>4. Decisive' /\ SdkRight'
      BY <1>2, <1>5, <1>8, <2>1, DecisiveStays, RightStays
    <2>5. SeenRight(work.next - 1)'
      BY <1>4, <1>5 DEF SeenRight
    <2> QED
      BY <1>4, <1>5, <1>8, <2>1, <2>3, <2>4, <2>5 DEF Progress
  <1> QED
    BY <1>8, <1>9, <1>10

LEMMA ComponentInForce == InForceInv /\ ReconcileComponent /\ ConfigInv' => InForceInv'
  <1> SUFFICES ASSUME InForceInv, ReconcileComponent, ConfigInv' PROVE InForceInv'
    OBVIOUS
  <1> USE DEF InForceInv
  <1>1. /\ work.stage = "components" /\ UNCHANGED <<scenario, script, helm, leader, webhookReady, history>>
    BY DEF ReconcileComponent, Others
  <1>2. work # Idle /\ IsRequest(work)
    BY <1>1, Working DEF TypeInv, Idle
  <1>3. CASE Requeue
    BY <1>1, <1>2, <1>3, FailKeeps DEF Requeue
  <1>4. CASE ~Requeue
    <2> DEFINE component == Components[work.next]
    <2>1. PICK spec \in FindUniqueOrMostRecentResourceInScope : seen' = [seen EXCEPT ![component] = spec]
      BY <1>4 DEF ReconcileComponent
    <2>2. /\ work' = IF work.next < Len(Components) THEN [work EXCEPT !.next = @ + 1]
                     ELSE IF work.deleted THEN Idle ELSE [work EXCEPT !.stage = "available"]
          /\ UNCHANGED <<left, queue, cluster, settings, sdk>>
      BY <1>4 DEF ReconcileComponent
    <2>3. Len(Components) = 5 /\ DOMAIN Components = 1..5
      BY DEF Components
    <2>4. work.next \in 1..5 /\ component \in ComponentNames
      BY <1>2, <2>3 DEF IsRequest, ComponentNames
    <2>5. /\ DOMAIN seen' = ComponentNames /\ seen' = [c \in ComponentNames |-> seen'[c]]
          /\ seen'[component] = spec /\ \A c \in ComponentNames : c # component => seen'[c] = seen[c]
      BY <2>1, <2>4 DEF TypeInv, SettingTypes
    <2>6. \/ /\ work.next < 5 /\ work' = [work EXCEPT !.next = @ + 1]
          \/ /\ work.next = 5 /\ work.deleted /\ work' = Idle
          \/ /\ work.next = 5 /\ ~work.deleted /\ work' = [work EXCEPT !.stage = "available"]
      BY <2>2, <2>3, <2>4
    <2>7. work' # Idle =>
            /\ work'.name = work.name /\ work'.deleted = work.deleted /\ work'.spec = work.spec
            /\ work'.rv = work.rv /\ work'.status = work.status /\ work'.config = work.config /\ work'.after = work.after
            /\ DOMAIN work' = DOMAIN work
            /\ \/ work'.stage = "components" /\ work.next < 5 /\ work'.next = work.next + 1
               \/ work'.stage = "available" /\ work.next = 5 /\ work'.next = 5 /\ ~work.deleted
      BY <1>1, <1>2, <2>6 DEF IsRequest
    <2>8. work' = Idle => work.next = 5 /\ work.deleted
      BY <1>1, <1>2, <2>6 DEF IsRequest, Idle
    <2>9. WorkTypes' /\ SettingTypes' /\ HistoryTypes'
      <3>1. work' = Idle \/ IsRequest(work)'
        BY <1>1, <1>2, <2>4, <2>7, SameNamesOf DEF IsRequest, Stages, ConfiguredStages
      <3> QED
        BY <1>1, <2>2, <2>5, <3>1 DEF WorkTypes, SettingTypes, HistoryTypes, TypeInv, ComponentNames
    <2>10. /\ TypeInv' /\ WorkInv' /\ DegradedInv' /\ HelmInv'
           /\ Names' = Names /\ (Awaited' <=> Awaited) /\ (Names # {} => MostRecent' = MostRecent)
           /\ mostRecentSpec' = mostRecentSpec /\ expectedApi' = expectedApi /\ expectedConfig' = expectedConfig
           /\ Unique' <=> Unique
      BY <1>1, <1>2, <2>2, <2>7, <2>9, LocalKeeps
    <2>11. SdkInv'
      BY <1>1, <2>2, <2>7 DEF SdkInv, SdkTypes, Starting, Idle
    <2>12. RestInv'
      <3> SUFFICES ASSUME ~history.disturbed, ~history.raced, ~Awaited PROVE Progress'
        BY <1>1, <2>10 DEF RestInv
      <3>1. Decisive /\ work.config = expectedConfig /\ SdkRight /\ ApiRight /\ SeenRight(work.next - 1)
        BY <1>1 DEF RestInv, Progress, ConfiguredStages
      <3>2. ApiRight' /\ SdkRight'
        BY <2>2, <2>10, <3>1, RightStays
      <3>3. Unique => spec = mostRecentSpec
        <4>1. CASE Names = {}
          BY <2>1, <4>1 DEF FindUniqueOrMostRecentResourceInScope, mostRecentSpec
        <4>2. CASE Names # {}
          <5>1. MostRecent \in Names
            BY <4>2, MostRecentExists DEF TypeInv
          <5> QED
            BY <2>1, <4>2, <5>1 DEF FindUniqueOrMostRecentResourceInScope, mostRecentSpec, Unique
        <4> QED
          BY <4>1, <4>2
      <3>4. ASSUME Unique, NEW i \in 1..work.next PROVE seen'[Components[i]] = mostRecentSpec
        <4>1. i \in 1..5 /\ Components[i] \in ComponentNames
          BY <2>3, <2>4 DEF ComponentNames
        <4>2. CASE i = work.next
          BY <2>5, <3>3, <3>4, <4>2
        <4>3. CASE i # work.next
          <5>1. i \in 1..(work.next - 1)
            BY <2>4, <4>3
          <5>2. seen[Components[i]] = mostRecentSpec
            BY <3>1, <3>4, <5>1 DEF SeenRight
          <5> QED
            BY <2>5, <3>3, <3>4, <4>1, <5>2
        <4> QED
          BY <4>2, <4>3
      <3>5. CASE work' = Idle
        <4>1. work.next = 5 /\ Names = {}
          BY <2>8, <3>1, <3>5 DEF Decisive
        <4>2. SeenRight(5)'
          BY <2>10, <3>4, <4>1 DEF SeenRight
        <4>3. AllRight'
          BY <2>10, <3>2, <4>1, <4>2 DEF AllRight
        <4> QED
          BY <3>5, <4>3 DEF Progress, Idle, ConfiguredStages
      <3>6. CASE work' # Idle
        <4>1. Decisive'
          BY <2>7, <2>10, <3>1, <3>6, DecisiveStays
        <4>2. CASE work'.stage = "components" /\ work.next < 5 /\ work'.next = work.next + 1
          <5>1. SeenRight(work.next - 1)'
            <6>1. work'.next - 1 = work.next
              BY <2>4, <4>2
            <6> QED
              BY <2>10, <3>4, <6>1 DEF SeenRight
          <5> QED
            BY <2>7, <2>10, <3>1, <3>2, <3>6, <4>1, <4>2, <5>1 DEF Progress
        <4>3. CASE work'.stage = "available" /\ work.next = 5
          <5>1. SeenRight(5)'
            BY <2>10, <3>4, <4>3 DEF SeenRight
          <5> QED
            BY <2>7, <2>10, <3>1, <3>2, <3>6, <4>1, <4>3, <5>1 DEF Progress
        <4> QED
          BY <2>7, <3>6, <4>2, <4>3
      <3> QED
        BY <3>5, <3>6
    <2> QED
      BY <2>10, <2>11, <2>12
  <1> QED
    BY <1>3, <1>4

LEMMA StarterInForce == InForceInv /\ WaitForCompleteOTelSDKConfiguration /\ ConfigInv' => InForceInv'
  <1> SUFFICES ASSUME InForceInv, WaitForCompleteOTelSDKConfiguration, ConfigInv' PROVE InForceInv'
    OBVIOUS
  <1> USE DEF InForceInv
  <1>1. /\ sdk.starter.stage \in {"received", "flagged", "stored"}
        /\ UNCHANGED <<scenario, left, queue, cluster, work, settings, seen, helm, history>>
    BY DEF WaitForCompleteOTelSDKConfiguration, Others
  <1>2. /\ sdk.starter.stage = "received" => sdk' = [sdk EXCEPT !.isActive = TRUE, !.starter.stage = "flagged"]
        /\ sdk.starter.stage = "flagged" =>
             sdk' = [sdk EXCEPT !.activeConfig = sdk.starter.config, !.starter.stage = "stored"]
        /\ sdk.starter.stage = "stored" => sdk' = [sdk EXCEPT !.running = sdk.starter.config, !.starter = Idle]
    BY DEF WaitForCompleteOTelSDKConfiguration, AwaitNextConfiguration
  <1>3. DOMAIN sdk = {"isActive", "activeConfig", "running", "starter"} /\ DOMAIN sdk.starter = {"stage", "config"}
    BY <1>1 DEF SdkInv, SdkTypes, Idle
  <1>4. QueueTypes' /\ \A m : Pending(m)' <=> Pending(m)
    BY <1>1, SamePending DEF TypeInv
  <1>5. Names' = Names /\ ResourceTypes' /\ HistoryTypes' /\ SettingTypes' /\ WorkTypes'
    BY <1>1, SameNamesOf DEF TypeInv, ResourceTypes, HistoryTypes, SettingTypes, WorkTypes, IsRequest, Names
  <1>6. TypeInv'
    BY <1>4, <1>5 DEF TypeInv
  <1>7. WorkInv'
    BY <1>1, <1>4, <1>5 DEF WorkInv
  <1>8. DegradedInv'
    BY <1>1, <1>4, <1>5 DEF DegradedInv
  <1>9. HelmInv'
    BY <1>1, <1>5, SameNamesOf DEF HelmInv
  <1>10. /\ sdk.starter.stage = "received" =>
              /\ sdk'.isActive = TRUE /\ sdk'.activeConfig = sdk.activeConfig /\ sdk'.running = sdk.running
              /\ sdk'.starter.stage = "flagged" /\ sdk'.starter.config = sdk.starter.config
              /\ DOMAIN sdk'.starter = {"stage", "config"}
         /\ sdk.starter.stage = "flagged" =>
              /\ sdk'.isActive = sdk.isActive /\ sdk'.activeConfig = sdk.starter.config /\ sdk'.running = sdk.running
              /\ sdk'.starter.stage = "stored" /\ sdk'.starter.config = sdk.starter.config
              /\ DOMAIN sdk'.starter = {"stage", "config"}
         /\ sdk.starter.stage = "stored" =>
              /\ sdk'.isActive = sdk.isActive /\ sdk'.activeConfig = sdk.activeConfig /\ sdk'.running = sdk.starter.config
              /\ sdk'.starter = Idle /\ sdk'.starter.stage = "idle"
         /\ DOMAIN sdk' = DOMAIN sdk
    <2>1. CASE sdk.starter.stage = "received"
      <3>1. sdk' = [sdk EXCEPT !.isActive = TRUE, !.starter.stage = "flagged"]
        BY <1>2, <2>1
      <3>2. /\ DOMAIN sdk' = DOMAIN sdk /\ sdk'.isActive = TRUE /\ sdk'.activeConfig = sdk.activeConfig
            /\ sdk'.running = sdk.running /\ sdk'.starter = [sdk.starter EXCEPT !.stage = "flagged"]
        BY <1>3, <3>1
      <3>3. /\ sdk'.starter.stage = "flagged" /\ sdk'.starter.config = sdk.starter.config
            /\ DOMAIN sdk'.starter = {"stage", "config"}
        BY <1>3, <3>2
      <3> QED
        BY <2>1, <3>2, <3>3
    <2>2. CASE sdk.starter.stage = "flagged"
      <3>1. sdk' = [sdk EXCEPT !.activeConfig = sdk.starter.config, !.starter.stage = "stored"]
        BY <1>2, <2>2
      <3>2. /\ DOMAIN sdk' = DOMAIN sdk /\ sdk'.isActive = sdk.isActive /\ sdk'.activeConfig = sdk.starter.config
            /\ sdk'.running = sdk.running /\ sdk'.starter = [sdk.starter EXCEPT !.stage = "stored"]
        BY <1>3, <3>1
      <3>3. /\ sdk'.starter.stage = "stored" /\ sdk'.starter.config = sdk.starter.config
            /\ DOMAIN sdk'.starter = {"stage", "config"}
        BY <1>3, <3>2
      <3> QED
        BY <2>2, <3>2, <3>3
    <2>3. CASE sdk.starter.stage = "stored"
      <3>1. sdk' = [sdk EXCEPT !.running = sdk.starter.config, !.starter = Idle]
        BY <1>2, <2>3
      <3>2. /\ DOMAIN sdk' = DOMAIN sdk /\ sdk'.isActive = sdk.isActive /\ sdk'.activeConfig = sdk.activeConfig
            /\ sdk'.running = sdk.starter.config /\ sdk'.starter = Idle
        BY <1>3, <3>1
      <3> QED
        BY <2>3, <3>2 DEF Idle
    <2> QED
      BY <1>1, <2>1, <2>2, <2>3
  <1>11. SdkInv'
    BY <1>1, <1>3, <1>10 DEF SdkInv, SdkTypes, Starting
  <1>12. SameResources
    BY <1>1, <1>5 DEF SameResources
  <1>13. /\ Names # {} => MostRecent' = MostRecent
         /\ mostRecentSpec' = mostRecentSpec /\ expectedApi' = expectedApi /\ expectedConfig' = expectedConfig
         /\ Unique' <=> Unique
    BY <1>1, <1>6, <1>12, SameTarget DEF TypeInv
  <1>14. RestInv'
    <2> SUFFICES ASSUME ~history.disturbed, ~history.raced, ~Awaited' PROVE Progress'
      BY <1>1 DEF RestInv
    <2>1. Progress
      BY <1>1, <1>4, <1>5, <1>13, AwaitedStays DEF RestInv
    <2>2. eventualConfig' = eventualConfig
      BY <1>1, <1>10 DEF eventualConfig, Starting
    <2>3. (SdkRight' <=> SdkRight) /\ (ApiRight' <=> ApiRight)
      BY <1>1, <1>5, <1>13, <2>2 DEF SdkRight, ApiRight
    <2>4. (SeenRight(5)' <=> SeenRight(5)) /\ (SeenRight(work.next - 1)' <=> SeenRight(work.next - 1))
      BY <1>1, <1>13 DEF SeenRight
    <2>5. AllRight' <=> AllRight
      BY <1>1, <1>5, <1>13, <2>3, <2>4 DEF AllRight
    <2>6. Decisive' <=> Decisive
      BY <1>1, <1>5, <1>13 DEF Decisive
    <2>7. work.stage = "unique" => Names # {}
      BY <2>1 DEF Progress
    <2> QED
      BY <1>1, <1>5, <1>13, <2>1, <2>3, <2>4, <2>5, <2>6, <2>7 DEF Progress
  <1> QED
    BY <1>6, <1>7, <1>8, <1>9, <1>11, <1>14

\* A step of the reconciler that writes the status of resources.
LEMMA StatusKeeps ==
  ASSUME InForceInv, ConfigInv', WorkTypes', QueueTypes', SameResources, \A n \in Names : cluster'[n].rv \in Nat,
         UNCHANGED <<scenario, settings, seen, helm, history>>
  PROVE  /\ TypeInv' /\ HelmInv'
         /\ Names # {} => MostRecent' = MostRecent
         /\ mostRecentSpec' = mostRecentSpec /\ expectedApi' = expectedApi /\ expectedConfig' = expectedConfig
         /\ Unique' <=> Unique
  <1> USE DEF InForceInv
  <1>1. ResourceTypes' /\ HistoryTypes' /\ SettingTypes'
    BY SameNamesOf DEF TypeInv, ResourceTypes, HistoryTypes, SettingTypes, SameResources
  <1>2. TypeInv'
    BY <1>1 DEF TypeInv
  <1>3. HelmInv'
    BY SameNamesOf DEF HelmInv, SameResources
  <1> QED
    BY <1>2, <1>3, SameTarget DEF TypeInv

LEMMA MarkOthersChanges ==
  ASSUME TypeInv, NEW kept, MarkOthers(kept)
  PROVE  /\ SameResources
         /\ \A n \in Names : cluster'[n].rv \in Nat
         /\ \A n \in Names : n \in kept => cluster'[n] = cluster[n]
         /\ \A n \in Names : n \notin kept => cluster'[n].status = "degraded"
  <1> USE DEF TypeInv, ConfigInv
  <1>1. cluster' = [n \in Names |-> IF n \in kept \/ cluster[n].status = "degraded" THEN cluster[n] ELSE degraded(n)]
    BY DEF MarkOthers
  <1>2. ASSUME NEW n \in Names
        PROVE  /\ degraded(n).spec = cluster[n].spec /\ degraded(n).age = cluster[n].age
               /\ degraded(n).status = "degraded" /\ degraded(n).rv \in Nat /\ cluster[n].rv \in Nat
    <2>1. IsResource(cluster[n]) /\ cluster[n].rv \in Nat
      BY DEF ResourcesByName, ResourceTypes
    <2> QED
      BY <2>1 DEF degraded, NewVersion, EnsureResourceIsMarkedAsDegraded, IsResource
  <1>3. Names' = Names
    BY <1>1 DEF Names
  <1>4. \A n \in Names : cluster'[n] = IF n \in kept \/ cluster[n].status = "degraded" THEN cluster[n] ELSE degraded(n)
    BY <1>1
  <1> QED
    BY <1>2, <1>3, <1>4 DEF SameResources

LEMMA VerifyInForce == InForceInv /\ VerifyThatResourceIsUniqueInScope /\ ConfigInv' => InForceInv'
  <1> SUFFICES ASSUME InForceInv, VerifyThatResourceIsUniqueInScope, ConfigInv' PROVE InForceInv'
    OBVIOUS
  <1> USE DEF InForceInv
  <1>1. work.stage = "unique" /\ UNCHANGED <<scenario, script, helm, leader, webhookReady, history>>
    BY DEF VerifyThatResourceIsUniqueInScope, Others
  <1>2. work # Idle /\ IsRequest(work) /\ ~work.deleted /\ work.next = 1
    BY <1>1, Working DEF TypeInv, IsRequest, Idle
  <1>3. ASSUME work' = [work EXCEPT !.stage = "init"]
        PROVE  /\ WorkTypes' /\ work' # Idle /\ work'.stage = "init"
               /\ work'.name = work.name /\ work'.deleted = work.deleted /\ work'.spec = work.spec
               /\ work'.rv = work.rv /\ work'.status = work.status
    <2>1. /\ work' # Idle /\ work'.stage = "init" /\ work'.config = work.config /\ work'.after = work.after
          /\ work'.name = work.name /\ work'.deleted = work.deleted /\ work'.spec = work.spec
          /\ work'.rv = work.rv /\ work'.status = work.status /\ work'.next = work.next
          /\ DOMAIN work' = DOMAIN work
      BY <1>2, <1>3 DEF IsRequest, Idle
    <2>2. WorkTypes'
      BY <1>1, <1>2, <2>1, SameNamesOf DEF WorkTypes, IsRequest, Stages, ConfiguredStages
    <2> QED
      BY <2>1, <2>2
  <1>4. CASE Requeue \/ Fail
    BY <1>1, <1>2, <1>4, FailKeeps DEF Requeue, Fail
  <1>5. CASE Cardinality(Names) <= 1 /\ Goto("init") /\ UNCHANGED <<left, cluster, queue, settings, seen, sdk>>
    <2>1. Unique
      BY <1>5, AtMostOne DEF Unique, TypeInv, ResourceTypes
    <2>2. work' = [work EXCEPT !.stage = "init"]
      BY <1>5 DEF Goto
    <2>3. SettingTypes' /\ HistoryTypes'
      BY <1>1, <1>5 DEF SettingTypes, HistoryTypes, TypeInv
    <2>4. /\ TypeInv' /\ WorkInv' /\ DegradedInv' /\ HelmInv'
          /\ Names' = Names /\ (Awaited' <=> Awaited) /\ (Names # {} => MostRecent' = MostRecent)
      BY <1>1, <1>2, <1>3, <1>5, <2>1, <2>2, <2>3, LocalKeeps
    <2>5. SdkInv'
      BY <1>1, <1>3, <1>5, <2>2 DEF SdkInv, SdkTypes, Starting
    <2>6. RestInv'
      <3> SUFFICES ASSUME ~history.disturbed, ~history.raced, ~Awaited PROVE Progress'
        BY <1>1, <2>4 DEF RestInv
      <3>1. work.name \in Names
        BY <1>1 DEF RestInv, Progress
      <3>2. work.name = MostRecent
        BY <2>1, <3>1, MostRecentExists DEF Unique, TypeInv
      <3>3. Decisive'
        BY <1>2, <1>3, <2>2, <2>4, <3>1, <3>2 DEF Decisive
      <3> QED
        BY <1>3, <2>2, <3>3 DEF Progress, ConfiguredStages
    <2> QED
      BY <2>4, <2>5, <2>6
  <1>6. CASE /\ Cardinality(Names) > 1
             /\ \/ MarkOthers({MostRecent}) /\ UNCHANGED left
                \/ left > 0 /\ MarkOthers(Names \ ({work.name} \ {MostRecent})) /\ left' = left - 1
             /\ IF MostRecent = work.name THEN Goto("init") ELSE work' = Idle
             /\ UNCHANGED <<queue, settings, seen, sdk>>
    <2>1. Names # {}
      BY <1>6, FS_EmptySet DEF TypeInv, ResourceTypes
    <2>2. MostRecent \in Names /\ \A m \in Names : m # MostRecent => cluster[m].age < cluster[MostRecent].age
      BY <2>1, MostRecentExists DEF TypeInv
    <2>3. PICK kept : /\ MarkOthers(kept) /\ MostRecent \in kept
                      /\ \/ kept = {MostRecent} /\ left' = left
                         \/ left > 0 /\ left' = left - 1
      BY <1>6, <2>2
    <2>4. /\ SameResources
          /\ \A n \in Names : cluster'[n].rv \in Nat
          /\ \A n \in Names : n \in kept => cluster'[n] = cluster[n]
          /\ \A n \in Names : n \notin kept => cluster'[n].status = "degraded"
      BY <2>3, MarkOthersChanges
    <2>5. WorkTypes'
      BY <1>3, <1>6 DEF Goto, WorkTypes
    <2>6. QueueTypes' /\ \A m : Pending(m)' <=> Pending(m)
      BY <1>1, <1>6, SamePending DEF TypeInv
    <2>7. /\ TypeInv' /\ HelmInv' /\ MostRecent' = MostRecent
          /\ mostRecentSpec' = mostRecentSpec /\ expectedApi' = expectedApi /\ expectedConfig' = expectedConfig
          /\ Unique' <=> Unique
      BY <1>1, <1>6, <2>1, <2>4, <2>5, <2>6, StatusKeeps
    <2>8. Names' = Names /\ cluster'[MostRecent] = cluster[MostRecent]
      BY <2>2, <2>3, <2>4 DEF SameResources
    <2>9. DegradedInv'
      <3>1. CASE left' = left /\ kept = {MostRecent}
        <4>1. \A n, p \in Names : cluster[n].age < cluster[p].age => n # MostRecent
          BY <2>2 DEF TypeInv, ResourceTypes
        <4>2. \A n, p \in Names : cluster'[n].age < cluster'[p].age => cluster'[n].status = "degraded"
          BY <2>4, <3>1, <4>1 DEF SameResources
        <4> QED
          BY <1>1, <2>8, <3>1, <4>2 DEF DegradedInv
      <3>2. CASE left > 0 /\ left' = left - 1
        BY <1>1, <3>2 DEF DegradedInv
      <3> QED
        BY <2>3, <3>1, <3>2
    <2>10. CASE MostRecent = work.name
      <3>1. work' = [work EXCEPT !.stage = "init"]
        BY <1>6, <2>10 DEF Goto
      <3>2. WorkInv'
        BY <1>1, <1>2, <1>3, <2>2, <2>6, <2>8, <2>10, <3>1 DEF WorkInv
      <3>3. SdkInv'
        BY <1>1, <1>3, <1>6, <3>1 DEF SdkInv, SdkTypes, Starting
      <3>4. Decisive'
        BY <1>2, <1>3, <2>1, <2>7, <2>8, <2>10, <3>1 DEF Decisive
      <3>5. RestInv'
        BY <1>3, <3>1, <3>4 DEF RestInv, Progress, ConfiguredStages
      <3> QED
        BY <2>7, <2>9, <3>2, <3>3, <3>5
    <2>11. CASE MostRecent # work.name
      <3>1. work' = Idle /\ work'.stage = "idle"
        BY <1>6, <2>11 DEF Idle
      <3>2. WorkInv'
        BY <3>1 DEF WorkInv
      <3>3. SdkInv'
        BY <1>1, <1>6, <3>1 DEF SdkInv, SdkTypes, Starting
      <3>4. RestInv'
        <4> SUFFICES ASSUME ~history.disturbed, ~history.raced, ~Awaited PROVE Progress'
          BY <1>1, <2>1, <2>6, <2>7, <2>8 DEF RestInv, Awaited
        <4>1. AllRight
          BY <1>1, <2>11 DEF RestInv, Progress
        <4>2. (ApiRight' <=> ApiRight) /\ (SdkRight' <=> SdkRight) /\ (SeenRight(5)' <=> SeenRight(5))
          BY <1>6, <2>7, <2>8 DEF ApiRight, SdkRight, eventualConfig, Starting, SeenRight
        <4>3. AllRight'
          BY <2>7, <2>8, <4>1, <4>2 DEF AllRight
        <4> QED
          BY <3>1, <4>3 DEF Progress, ConfiguredStages
      <3> QED
        BY <2>7, <2>9, <3>2, <3>3, <3>4
    <2> QED
      BY <2>10, <2>11
  <1> QED
    BY <1>4, <1>5, <1>6 DEF VerifyThatResourceIsUniqueInScope

LEMMA InitStatusInForce == InForceInv /\ InitStatusConditions /\ ConfigInv' => InForceInv'
  <1> SUFFICES ASSUME InForceInv, InitStatusConditions, ConfigInv' PROVE InForceInv'
    OBVIOUS
  <1> USE DEF InForceInv
  <1>1. work.stage = "init" /\ UNCHANGED <<scenario, script, helm, leader, webhookReady, history>>
    BY DEF InitStatusConditions, Others
  <1>2. work # Idle /\ IsRequest(work) /\ ~work.deleted /\ work.next = 1
    BY <1>1, Working DEF TypeInv, IsRequest, Idle
  <1>3. ASSUME work' = [work EXCEPT !.stage = "convert"]
        PROVE  /\ WorkTypes' /\ work' # Idle /\ work'.stage = "convert"
               /\ work'.name = work.name /\ work'.deleted = work.deleted /\ work'.spec = work.spec
               /\ work'.rv = work.rv /\ work'.status = work.status
    <2>1. /\ work' # Idle /\ work'.stage = "convert" /\ work'.config = work.config /\ work'.after = work.after
          /\ work'.name = work.name /\ work'.deleted = work.deleted /\ work'.spec = work.spec
          /\ work'.rv = work.rv /\ work'.status = work.status /\ work'.next = work.next
          /\ DOMAIN work' = DOMAIN work
      BY <1>2, <1>3 DEF IsRequest, Idle
    <2>2. WorkTypes'
      BY <1>1, <1>2, <2>1, SameNamesOf DEF WorkTypes, IsRequest, Stages, ConfiguredStages
    <2> QED
      BY <2>1, <2>2
  <1>4. CASE Requeue \/ Fail
    BY <1>1, <1>2, <1>4, FailKeeps DEF Requeue, Fail
  <1>5. CASE Goto("convert") /\ UNCHANGED <<left, queue, cluster, settings, seen, sdk>>
    <2>1. work' = [work EXCEPT !.stage = "convert"]
      BY <1>5 DEF Goto
    <2>2. SettingTypes' /\ HistoryTypes'
      BY <1>1, <1>5 DEF SettingTypes, HistoryTypes, TypeInv
    <2>3. /\ TypeInv' /\ WorkInv' /\ DegradedInv' /\ HelmInv'
          /\ Names' = Names /\ (Awaited' <=> Awaited) /\ (Names # {} => MostRecent' = MostRecent)
      BY <1>1, <1>2, <1>3, <1>5, <2>1, <2>2, LocalKeeps
    <2>4. SdkInv'
      BY <1>1, <1>3, <1>5, <2>1 DEF SdkInv, SdkTypes, Starting
    <2>5. Decisive' <=> Decisive
      BY <1>3, <2>1, <2>3, DecisiveStays
    <2>6. RestInv'
      BY <1>1, <1>3, <2>1, <2>3, <2>5 DEF RestInv, Progress, ConfiguredStages
    <2> QED
      BY <2>3, <2>4, <2>6
  <1>6. CASE /\ work.status = "none" /\ ~stale
             /\ cluster' = [cluster EXCEPT ![work.name] = NewVersion(SetAvailableConditionToUnknown(@))]
             /\ Goto("convert")
             /\ UNCHANGED <<left, queue, settings, seen, sdk>>
    <2> DEFINE name == work.name
    <2>1. name \in Names /\ cluster[name].rv = work.rv
      BY <1>6 DEF stale
    <2>2. work' = [work EXCEPT !.stage = "convert"]
      BY <1>6 DEF Goto
    <2>3. /\ SameResources
          /\ \A n \in Names : cluster'[n].rv \in Nat
          /\ \A n \in Names : n # name => cluster'[n] = cluster[n]
      <3>1. /\ cluster = [n \in Names |-> cluster[n]] /\ IsResource(cluster[name])
            /\ \A n \in Names : cluster[n].rv \in Nat
        BY <2>1 DEF TypeInv, ConfigInv, ResourcesByName, ResourceTypes
      <3> DEFINE new == NewVersion(SetAvailableConditionToUnknown(cluster[name]))
      <3>2. new.spec = cluster[name].spec /\ new.age = cluster[name].age /\ new.rv \in Nat
        BY <2>1, <3>1 DEF NewVersion, SetAvailableConditionToUnknown, IsResource
      <3>3. cluster' = [cluster EXCEPT ![name] = new]
        BY <1>6
      <3> HIDE DEF new
      <3>4. Names' = Names /\ cluster'[name] = new /\ \A n \in Names : n # name => cluster'[n] = cluster[n]
        BY <2>1, <3>1, <3>3 DEF Names
      <3> QED
        BY <3>1, <3>2, <3>4 DEF SameResources
    <2>4. QueueTypes' /\ \A m : Pending(m)' <=> Pending(m)
      BY <1>1, <1>6, SamePending DEF TypeInv
    <2>5. /\ TypeInv' /\ HelmInv'
          /\ Names # {} => MostRecent' = MostRecent
          /\ mostRecentSpec' = mostRecentSpec /\ expectedApi' = expectedApi /\ expectedConfig' = expectedConfig
          /\ Unique' <=> Unique
      BY <1>1, <1>3, <1>6, <2>2, <2>3, <2>4, StatusKeeps
    <2>6. Names' = Names /\ \A n \in Names : cluster'[n].age = cluster[n].age /\ cluster'[n].spec = cluster[n].spec
      BY <2>3 DEF SameResources
    <2>7. ~Pending(name) => cluster[name].status # "degraded"
      BY <1>1, <1>2, <1>6, <2>1 DEF WorkInv
    <2>8. DegradedInv'
      BY <1>1, <1>6, <2>3, <2>4, <2>6, <2>7 DEF DegradedInv
    <2>9. WorkInv'
      BY <1>2, <1>3, <2>1, <2>2, <2>4, <2>6 DEF WorkInv
    <2>10. SdkInv'
      BY <1>1, <1>3, <1>6, <2>2 DEF SdkInv, SdkTypes, Starting
    <2>11. Decisive' <=> Decisive
      BY <1>3, <2>2, <2>5, <2>6, DecisiveStays
    <2>12. Awaited => Awaited'
      BY <1>1, <2>4, <2>5, <2>6, AwaitedStays
    <2>13. RestInv'
      BY <1>1, <1>3, <2>2, <2>11, <2>12 DEF RestInv, Progress, ConfiguredStages
    <2> QED
      BY <2>5, <2>8, <2>9, <2>10, <2>13
  <1> QED
    BY <1>4, <1>5, <1>6 DEF InitStatusConditions

LEMMA MarkAsAvailableInForce == InForceInv /\ MarkAsAvailable /\ ConfigInv' => InForceInv'
  <1> SUFFICES ASSUME InForceInv, MarkAsAvailable, ConfigInv' PROVE InForceInv'
    OBVIOUS
  <1> USE DEF InForceInv
  <1> DEFINE name == work.name
             new == EnsureResourceIsMarkedAsAvailable(cluster[name])
  <1>1. work.stage = "available" /\ UNCHANGED <<scenario, script, helm, leader, webhookReady, history>>
    BY DEF MarkAsAvailable, Others
  <1>2. work # Idle /\ IsRequest(work) /\ ~work.deleted /\ name \in NamesOf(scenario)
    BY <1>1, Working DEF TypeInv, IsRequest, Idle
  <1>3. CASE Requeue
    BY <1>1, <1>2, <1>3, FailKeeps DEF Requeue
  <1>4. CASE name \notin Names /\ UNCHANGED cluster /\ queue' = Retried /\ work' = Idle /\ UNCHANGED <<left, settings, seen, sdk>>
    BY <1>1, <1>2, <1>4, FailKeeps
  <1>5. CASE name \in Names /\ Write(name, new) /\ work' = Idle /\ UNCHANGED <<left, settings, seen, sdk>>
    <2>1. work'.stage = "idle" /\ WorkTypes' /\ WorkInv'
      BY <1>5 DEF Idle, WorkTypes, WorkInv
    <2>2. SettingTypes' /\ HistoryTypes'
      BY <1>1, <1>5 DEF SettingTypes, HistoryTypes, TypeInv
    <2>3. SdkInv'
      BY <1>1, <1>5, <2>1 DEF SdkInv, SdkTypes, Starting
    <2>4. /\ cluster = [n \in Names |-> cluster[n]] /\ IsResource(cluster[name])
          /\ \A n \in Names : cluster[n].rv \in Nat
      BY <1>5 DEF TypeInv, ConfigInv, ResourcesByName, ResourceTypes
    <2>5. /\ IsResource(new) /\ new.spec = cluster[name].spec /\ new.age = cluster[name].age
          /\ new.rv = cluster[name].rv /\ new.status = "available"
      BY <2>4 DEF EnsureResourceIsMarkedAsAvailable, IsResource
    <2>6. Write(name, new)
      BY <1>5
    <2> HIDE DEF new
    <2>7. /\ SameResources
          /\ \A n \in Names : cluster'[n].rv \in Nat
          /\ \A n \in Names : n # name => cluster'[n] = cluster[n]
          /\ cluster'[name].status = "available"
      <3>1. CASE new = cluster[name]
        <4>1. cluster' = cluster
          BY <2>6, <3>1 DEF Write
        <4> QED
          BY <1>5, <2>4, <2>5, <3>1, <4>1 DEF SameResources, Names
      <3>2. CASE new # cluster[name]
        <4> DEFINE newer == NewVersion(new)
        <4>1. /\ newer.spec = cluster[name].spec /\ newer.age = cluster[name].age
              /\ newer.rv \in Nat /\ newer.status = "available"
          BY <1>5, <2>4, <2>5 DEF NewVersion, IsResource
        <4>2. cluster' = [cluster EXCEPT ![name] = newer]
          BY <2>6, <3>2 DEF Write
        <4> HIDE DEF newer
        <4>3. Names' = Names /\ cluster'[name] = newer /\ \A n \in Names : n # name => cluster'[n] = cluster[n]
          BY <1>5, <2>4, <4>2 DEF Names
        <4> QED
          BY <2>4, <4>1, <4>3 DEF SameResources
      <3> QED
        BY <3>1, <3>2
    <2>8. /\ cluster[name].status = "available" => queue' = queue
          /\ cluster[name].status # "available" => queue' = Enqueued(name)
      BY <2>5, <2>6 DEF Write, operatorConfigurationPredicate
    <2>9. /\ QueueTypes' /\ \A m : Pending(m) => Pending(m)'
          /\ cluster[name].status # "available" => \A m : m = name => Pending(m)'
      <3>1. CASE queue' = queue /\ cluster[name].status = "available"
        BY <1>1, <3>1, SamePending DEF TypeInv
      <3>2. CASE queue' = Enqueued(name)
        BY <1>1, <1>2, <3>2, EnqueuePending DEF TypeInv
      <3> QED
        BY <2>8, <3>1, <3>2
    <2>10. /\ TypeInv' /\ HelmInv'
           /\ Names # {} => MostRecent' = MostRecent
           /\ mostRecentSpec' = mostRecentSpec /\ expectedApi' = expectedApi /\ expectedConfig' = expectedConfig
           /\ Unique' <=> Unique
      BY <1>1, <1>5, <2>1, <2>7, <2>9, StatusKeeps
    <2>11. Names' = Names /\ \A n \in Names : cluster'[n].age = cluster[n].age
      BY <2>7 DEF SameResources
    <2>12. DegradedInv'
      BY <1>1, <1>5, <2>1, <2>7, <2>9, <2>11 DEF DegradedInv
    <2>13. RestInv'
      <3> SUFFICES ASSUME ~history.disturbed, ~history.raced, ~Awaited' PROVE Progress'
        BY <1>1 DEF RestInv
      <3>1. ~Awaited
        BY <1>1, <2>9, <2>10, <2>11, AwaitedStays
      <3>2. SdkRight /\ ApiRight /\ SeenRight(5) /\ Decisive
        BY <1>1, <3>1 DEF RestInv, Progress, ConfiguredStages
      <3>3. SdkRight' /\ ApiRight'
        BY <1>5, <2>10, <2>11, <3>2, RightStays
      <3>4. SeenRight(5)'
        BY <1>5, <2>10, <3>2 DEF SeenRight
      <3>5. cluster'[MostRecent'].status = "available"
        BY <1>5, <2>7, <2>10, <3>2 DEF Decisive
      <3> QED
        BY <2>1, <3>3, <3>4, <3>5 DEF Progress, AllRight, ConfiguredStages
    <2> QED
      BY <2>1, <2>3, <2>10, <2>12, <2>13
  <1> QED
    BY <1>3, <1>4, <1>5 DEF MarkAsAvailable

-----------------------------------------------------------------------------
(* The theorem                                                             *)

LEMMA InitInForce == Init => InForceInv
  <1> SUFFICES ASSUME Init PROVE InForceInv
    OBVIOUS
  <1>1. /\ scenario \in Scenarios /\ left = scenario.faults /\ cluster = <<>> /\ queue = [events |-> <<>>, retries |-> {}]
        /\ work = Idle /\ settings = [api |-> {}, delivery |-> "auto"]
        /\ seen = [c \in ComponentNames |-> None]
        /\ sdk = [isActive |-> FALSE, activeConfig |-> None, running |-> None, starter |-> Idle]
        /\ helm = [values |-> scenario.values, jobs |-> IF scenario.values = None THEN {} ELSE NewJob(scenario.values)]
        /\ history = [created |-> 0, released |-> scenario.values, lost |-> FALSE, disturbed |-> FALSE, raced |-> FALSE]
    BY DEF Init, NoRequests, ComponentNames
  <1>2. Names = {}
    BY <1>1 DEF Names
  <1>3. QueueTypes /\ \A n : ~Pending(n)
    BY <1>1 DEF QueueTypes, Pending
  <1>4. HistoryTypes
    BY <1>1 DEF HistoryTypes
  <1>5. ResourceTypes
    BY <1>2, FS_EmptySet DEF ResourceTypes
  <1>6. WorkTypes /\ WorkInv /\ work.stage = "idle"
    BY <1>1 DEF WorkTypes, WorkInv, Idle
  <1>7. SettingTypes
    BY <1>1 DEF SettingTypes
  <1>8. TypeInv
    BY <1>3, <1>4, <1>5, <1>6, <1>7, InitSafe DEF TypeInv
  <1>9. DegradedInv
    BY <1>1, <1>2, ScenariosAreScripted DEF DegradedInv
  <1>10. sdk.starter = Idle /\ sdk.running = None /\ ~Starting
    BY <1>1 DEF Starting, Idle
  <1>11. SdkInv
    BY <1>1, <1>6, <1>10 DEF SdkInv, SdkTypes, Starting, Idle
  <1>12. RestInv
    <2>1. ApiRight /\ SdkRight
      BY <1>1, <1>2, <1>10 DEF ApiRight, SdkRight, expectedApi, expectedConfig, eventualConfig
    <2>2. \A i \in 1..5 : Components[i] \in ComponentNames
      BY DEF ComponentNames, Components
    <2>3. SeenRight(5)
      BY <1>1, <1>2, <2>2 DEF SeenRight, mostRecentSpec
    <2> QED
      BY <1>2, <1>6, <2>1, <2>3 DEF RestInv, Progress, AllRight, ConfiguredStages
  <1>13. HelmInv
    <2>1. /\ helm.values = scenario.values /\ history.released = scenario.values
          /\ helm.jobs = IF scenario.values = None THEN {} ELSE NewJob(scenario.values)
      BY <1>1
    <2>2. ASSUME accepted(scenario.values)
          PROVE  /\ NewJob(scenario.values) # {}
                 /\ \A j \in NewJob(scenario.values) : j.spec = convertValuesToResource(scenario.values)
      BY <2>2, NewJobWrites
    <2> QED
      BY <1>2, <2>1, <2>2 DEF HelmInv
  <1> QED
    BY <1>6, <1>8, <1>9, <1>11, <1>12, <1>13 DEF InForceInv

LEMMA NextInForce == InForceInv /\ [Next]_vars => InForceInv'
  <1> SUFFICES ASSUME InForceInv, [Next]_vars PROVE InForceInv'
    OBVIOUS
  <1>1. ConfigInv'
    BY NextSafe DEF InForceInv, TypeInv
  <1>2. CASE Users
    BY <1>1, <1>2, ApplyInForce, DeleteInForce, ChangeHelmValuesInForce DEF Users
  <1>3. CASE Handler
    BY <1>1, <1>3, HandlerInForce
  <1>4. CASE Reconciler
    <2>1. CASE \E n \in {queue.events[k] : k \in DOMAIN queue.events} \cup queue.retries : BeginReconcile(n)
      BY <1>1, <2>1, BeginInForce
    <2>2. CASE FailAfterwards
      <3>1. work # Idle
        BY <2>2, Working DEF FailAfterwards, InForceInv, TypeInv
      <3> QED
        BY <1>1, <2>2, <3>1, FailKeeps DEF FailAfterwards, Fail, Others
    <2> QED
      BY <1>1, <1>4, <2>1, <2>2, RemoveSettingsInForce, VerifyInForce, InitStatusInForce, ConvertInForce,
         OnParametersInForce, ShutDownInForce, SendInForce, ApiInForce, ComponentInForce, MarkAsAvailableInForce
         DEF Reconciler
  <1>5. CASE WaitForCompleteOTelSDKConfiguration
    BY <1>1, <1>5, StarterInForce
  <1>6. CASE BecomeLeader \/ WebhookBecomesReady \/ UNCHANGED vars
    <2>1. UNCHANGED <<scenario, left, cluster, queue, work, settings, seen, sdk, helm, history>>
      BY <1>6 DEF BecomeLeader, WebhookBecomesReady, vars
    <2>2. UntouchedSettings
      BY <2>1 DEF UntouchedSettings
    <2>3. HistoryTypes'
      BY <2>1 DEF InForceInv, TypeInv, HistoryTypes
    <2>4. HelmInv'
      BY <2>1, SameNamesOf DEF InForceInv, HelmInv, Names
    <2> QED
      BY <1>1, <2>1, <2>2, <2>3, <2>4, QuietKeeps DEF InForceInv
  <1> QED
    BY <1>2, <1>3, <1>4, <1>5, <1>6 DEF Next, Operator

LEMMA InForceAtRest == InForceInv => LatestConfigurationIsInForce
  <1> SUFFICES ASSUME InForceInv PROVE LatestConfigurationIsInForce
    OBVIOUS
  <1> USE DEF InForceInv
  <1>1. ASSUME AtRest
        PROVE  /\ work = Idle /\ work.stage = "idle" /\ helm.jobs = {} /\ sdk.starter = Idle /\ ~Starting
               /\ ~Awaited /\ \A n : ~Pending(n)
    <2>1. /\ queue = [events |-> <<>>, retries |-> {}] /\ work = Idle /\ work.stage = "idle"
          /\ helm.jobs = {} /\ sdk.starter = Idle /\ ~Starting
      BY <1>1 DEF AtRest, NoRequests, Starting, Idle
    <2>2. \A n : ~Pending(n)
      BY <2>1 DEF Pending
    <2> QED
      BY <2>1, <2>2 DEF Awaited
  <1>2. SettingsFollowTheConfiguration
    <2> SUFFICES ASSUME AtRest, ~history.disturbed, ~history.raced
                 PROVE  /\ settings.api = expectedApi
                        /\ sdk.running = expectedConfig
                        /\ Names # {} => /\ cluster[MostRecent].status = "available"
                                         /\ settings.delivery = mostRecentSpec.delivery
                        /\ Cardinality(Names) <= 1 => \A c \in DOMAIN seen : seen[c] = mostRecentSpec
      BY DEF SettingsFollowTheConfiguration
    <2>1. AllRight
      BY <1>1 DEF RestInv, Progress
    <2>2. sdk.running = expectedConfig
      BY <1>1, <2>1 DEF AllRight, SdkRight, eventualConfig
    <2>3. ASSUME Cardinality(Names) <= 1, NEW c \in DOMAIN seen PROVE seen[c] = mostRecentSpec
      <3>1. Unique
        BY <2>3, AtMostOne DEF Unique, TypeInv, ResourceTypes
      <3>2. PICK i \in 1..5 : c = Components[i]
        BY <2>3 DEF TypeInv, SettingTypes, ComponentNames, Components
      <3> QED
        BY <2>1, <3>1, <3>2 DEF AllRight, SeenRight
    <2> QED
      BY <2>1, <2>2, <2>3 DEF AllRight, ApiRight
  <1>3. OnlyTheMostRecentIsAvailable
    <2> SUFFICES ASSUME AtRest, left = scenario.faults, Names # {}, NEW n \in Names \ {MostRecent}
                 PROVE  cluster[n].status = "degraded"
      BY DEF OnlyTheMostRecentIsAvailable
    <2>1. MostRecent \in Names /\ cluster[n].age < cluster[MostRecent].age
      BY MostRecentExists DEF TypeInv
    <2> QED
      BY <1>1, <2>1 DEF DegradedInv
  <1>4. HelmValuesArrive
    BY <1>1 DEF HelmValuesArrive, HelmInv
  <1> QED
    BY <1>2, <1>3, <1>4 DEF LatestConfigurationIsInForce

\* Whatever users, the handler, the reconciler and the goroutine that starts the SDK do in
\* whichever order, and however many requests fail: at rest, the settings of the API clients,
\* the operator's own telemetry and the components are those of the most recent resource,
\* the others are degraded, and the values of the latest Helm release have arrived. A
\* request that puts everything right is queued whenever something is not right yet: this is
\* what Reconcile of operator_configuration_controller.go and its event filter have to ensure.
THEOREM LatestConfigurationStaysInForce == Spec => []LatestConfigurationIsInForce
  <1>1. Init => InForceInv
    BY InitInForce
  <1>2. InForceInv /\ [Next]_vars => InForceInv'
    BY NextInForce
  <1>3. InForceInv => LatestConfigurationIsInForce
    BY InForceAtRest
  <1> QED
    BY <1>1, <1>2, <1>3, PTL DEF Spec

=============================================================================
