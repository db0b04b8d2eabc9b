--------------------------- MODULE ThirdPartyWatch ---------------------------
(***************************************************************************)
(* The life cycle of the watch for a third-party resource type (Prometheus *)
(* rules, Perses dashboards): maybeStartWatchingThirdPartyResources and    *)
(* stopWatchingThirdPartyResources, and the two goroutines that call them, *)
(* the event handler for the CRD and the operator configuration reconciler.*)
(*                                                                         *)
(* Both functions run under controllerStopFunctionLock, but the facts they *)
(* depend on (crdExists, crdVersion, the default API configs) are written  *)
(* without it. A handler is a program, a sequence of instructions; an      *)
(* instruction reads or writes one of these facts, so that the other       *)
(* goroutine can come in between any two of them.                          *)
(***************************************************************************)
EXTENDS Integers, Sequences, FiniteSets, SequencesExt

CONSTANTS
    ResourceTypes,          \* a subset of {"rules", "dashboards"}
    PreferredVersions,      \* per type: supported versions of the CRD, most preferred first
    OtherVersion,           \* a version of the CRD that the operator does not support
    MaxCrdChanges,          \* bound on changes of the CRD in the cluster
    MaxConfigChanges,       \* bound on changes of the default API configs
    MaxFailures             \* bound on failures to start or run a controller

NoVersion == "none"     \* the Go code has an empty string here
Absent == {}            \* a CRD that serves no version at all is not in the cluster

ASSUME BoundsAssumption ==
    /\ {MaxCrdChanges, MaxConfigChanges, MaxFailures} \subseteq Nat
    /\ ResourceTypes \subseteq {"rules", "dashboards"}
ASSUME VersionsAssumption ==
    \A t \in ResourceTypes :
        /\ PreferredVersions[t] \in Seq(STRING) /\ PreferredVersions[t] # <<>>
        /\ OtherVersion \notin Range(PreferredVersions[t])
        /\ NoVersion \notin Range(PreferredVersions[t]) \cup {OtherVersion}

VARIABLES
    resourceType,   \* the type this watch is for; never changes
    crd,            \* versions served by the CRD in the cluster, Absent without CRD
    events,         \* CRD events the handler has not been called for
    crdExists,      \* prometheusRuleCrdExists, persesDashboardCrdExists
    crdVersion,     \* what Version() returns
    configValid,    \* does defaultApiConfigs hold a valid API config?
    lock,           \* holder of controllerStopFunctionLock, "free" if nobody holds it
    todo,           \* todo[p]: the instructions left to goroutine p
    ownVersion,     \* the version read by the goroutine that holds the lock
    controllers,    \* the controllers started so far
    stopFunction,   \* controllerStopFunction: index of a controller, 0 for nil
    informers,      \* versions with an informer in the manager's cache
    overlapped,     \* history: a CRD event and a config change were handled at the same time
    configChanges, crdChanges, failures

vars == <<resourceType, overlapped, crd, events, crdExists, crdVersion, configValid, lock, todo, ownVersion,
          controllers, stopFunction, informers, configChanges, crdChanges, failures>>
cluster == <<resourceType, overlapped, crd, events, crdChanges, configChanges>>
watch == <<controllers, stopFunction, informers, failures>>

Procs == {"crd", "config"}

IsWatching == stopFunction # 0

Preferred == PreferredVersions[resourceType]
\* The CRD for Prometheus rules has one version; updates of it are ignored.
WantsCrdUpdateEvents == resourceType = "dashboards"

-----------------------------------------------------------------------------
(* Programs *)

MaybeStart == <<<<"check">>, <<"readVersion">>, <<"start">>>>
StopWatch  == <<<<"stop">>>>
SetExists(b)  == <<<<"exists", b>>>>
SetVersion(v) == <<<<"version", v>>>>

\* The indices of the supported versions that are served, but only if no version
\* before them is: chooseVersionFromCrd goes through them in this order.
FirstServed(served) ==
    {i \in DOMAIN Preferred : Preferred[i] \in served /\ \A j \in 1 .. i - 1 : Preferred[j] \notin served}

\* Mutation: without a supported version, any version will do.
ChooseAnyVersion(served) ==
    IF served = Absent THEN NoVersion
    ELSE IF FirstServed(served) = {} THEN OtherVersion
    ELSE Preferred[CHOOSE i \in FirstServed(served) : TRUE]

\* chooseVersionFromCrd; NoVersion stands for its second result being false.
ChooseVersion(served) ==
    IF FirstServed(served) = {} THEN NoVersion
    ELSE Preferred[CHOOSE i \in FirstServed(served) : TRUE]

RecordCrdVersion(v) == SetVersion(v) \o SetExists(TRUE)
ResetCrdVersion     == SetVersion(NoVersion) \o SetExists(FALSE)

\* OnCrdChange; does nothing for Prometheus rules, whose version is fixed.
OnCrdChange(served) ==
    IF ~WantsCrdUpdateEvents THEN <<>>
    ELSE IF ChooseVersion(served) = NoVersion THEN ResetCrdVersion
    ELSE RecordCrdVersion(ChooseVersion(served))

OnCreate(served) == SetExists(TRUE) \o OnCrdChange(served) \o MaybeStart

\* Mutation: the watch is stopped before the CRD is marked as missing.
OnDeleteStopsFirst == StopWatch \o SetExists(FALSE)

OnDelete == SetExists(FALSE) \o StopWatch

\* Mutation: the version is swapped before the watch on the old one is stopped.
HandleVersionChangeSwapsFirst(served) ==
    LET new == ChooseVersion(served) IN
    IF new = NoVersion
    THEN (IF crdExists /\ IsWatching THEN StopWatch ELSE <<>>) \o ResetCrdVersion
    ELSE IF crdExists /\ crdVersion = new THEN <<>>
    ELSE IF ~IsWatching
    THEN RecordCrdVersion(new) \o (IF crdExists THEN <<>> ELSE MaybeStart)
    ELSE RecordCrdVersion(new) \o StopWatch \o MaybeStart

\* handleVersionChangeOnUpdate. crdExists and crdVersion are written by the CRD
\* event handler alone; IsWatching is read without the lock.
HandleVersionChangeOnUpdate(served) ==
    LET new == ChooseVersion(served) IN
    IF new = NoVersion
    THEN (IF crdExists /\ IsWatching THEN StopWatch ELSE <<>>) \o ResetCrdVersion
    ELSE IF crdExists /\ crdVersion = new THEN <<>>
    ELSE IF ~IsWatching
    THEN RecordCrdVersion(new) \o (IF crdExists THEN <<>> ELSE MaybeStart)
    ELSE StopWatch \o RecordCrdVersion(new) \o MaybeStart

\* SetDefaultApiConfigs with a valid config; or with none, RemoveDefaultApiConfigs.
OnConfig(valid) == <<<<"config", valid>>>> \o (IF valid THEN MaybeStart ELSE StopWatch)

-----------------------------------------------------------------------------
(* Steps of the two goroutines *)

Does(p, op) == todo[p] # <<>> /\ Head(todo[p])[1] = op
Argument(p) == Head(todo[p])[2]
Continue(p) == todo' = [todo EXCEPT ![p] = Tail(@)]
\* Leaves MaybeStart, whose instructions are the last ones of every program.
Return(p) == todo' = [todo EXCEPT ![p] = <<>>]

StoreExists(p) ==
    /\ Does(p, "exists")
    /\ crdExists' = Argument(p)
    /\ Continue(p)
    /\ UNCHANGED <<cluster, watch, crdVersion, configValid, lock, ownVersion>>

StoreVersion(p) ==
    /\ Does(p, "version")
    /\ crdVersion' = Argument(p)
    /\ Continue(p)
    /\ UNCHANGED <<cluster, watch, crdExists, configValid, lock, ownVersion>>

StoreConfig(p) ==
    /\ Does(p, "config")
    /\ configValid' = Argument(p)
    /\ Continue(p)
    /\ UNCHANGED <<cluster, watch, crdExists, crdVersion, lock, ownVersion>>

\* Mutation: the lock is kept on an early return.
CheckPrerequisitesKeepsLock(p) ==
    /\ Does(p, "check")
    /\ lock = "free"
    /\ lock' = p
    /\ IF IsWatching \/ ~crdExists \/ ~configValid THEN Return(p) ELSE Continue(p)
    /\ UNCHANGED <<cluster, watch, crdExists, crdVersion, configValid, ownVersion>>

\* maybeStartWatchingThirdPartyResources takes the lock and returns early when
\* there is a watch, when there is no CRD and when there is no valid API config.
CheckPrerequisites(p) ==
    /\ Does(p, "check")
    /\ lock = "free"
    /\ IF IsWatching \/ ~crdExists \/ ~configValid
       THEN Return(p) /\ UNCHANGED lock
       ELSE Continue(p) /\ lock' = p
    /\ UNCHANGED <<cluster, watch, crdExists, crdVersion, configValid, ownVersion>>

\* crdVersion := crdReconciler.Version(); an empty version is logged, no more.
ReadVersion(p) ==
    /\ Does(p, "readVersion")
    /\ ownVersion' = crdVersion
    /\ Continue(p)
    /\ UNCHANGED <<cluster, watch, crdExists, crdVersion, configValid, lock>>

\* The controller is created, given the watch and started in a goroutine of its
\* own; the manager's cache gets an informer for the version.
StartController(p) ==
    /\ Does(p, "start")
    /\ controllers' = Append(controllers, [version |-> ownVersion, state |-> "running"])
    /\ stopFunction' = Len(controllers) + 1
    /\ informers' = informers \cup {ownVersion}
    /\ lock' = "free"
    /\ Continue(p)
    /\ UNCHANGED <<cluster, crdExists, crdVersion, configValid, ownVersion, failures>>

\* NewTypedUnmanaged or Watch returns an error.
CannotStartController(p) ==
    /\ Does(p, "start")
    /\ failures < MaxFailures
    /\ failures' = failures + 1
    /\ lock' = "free"
    /\ Continue(p)
    /\ UNCHANGED <<cluster, crdExists, crdVersion, configValid, ownVersion,
                   controllers, stopFunction, informers>>

\* stopWatchingThirdPartyResources, a no-op without a stop function. It removes
\* the informer for the version that Version() returns now.
StopWatching(p) ==
    /\ Does(p, "stop")
    /\ lock = "free"
    /\ IF IsWatching
       THEN /\ informers' = informers \ {crdVersion}
            /\ controllers' = [controllers EXCEPT ![stopFunction].state = "canceled"]
            /\ stopFunction' = 0
       ELSE UNCHANGED <<informers, controllers, stopFunction>>
    /\ Continue(p)
    /\ UNCHANGED <<cluster, crdExists, crdVersion, configValid, lock, ownVersion, failures>>

-----------------------------------------------------------------------------
(* The goroutine of a controller *)

\* Start returns an error, for example because the informer does not synchronize.
ControllerFails(c) ==
    /\ controllers[c].state = "running"
    /\ failures < MaxFailures
    /\ failures' = failures + 1
    /\ controllers' = [controllers EXCEPT ![c].state = "failed"]
    /\ UNCHANGED <<cluster, crdExists, crdVersion, configValid, lock, todo, ownVersion,
                   stopFunction, informers>>

\* Mutation: the stop function is cleared whoever set it.
ControllerReturnsClearsAny(c) ==
    /\ controllers[c].state \in {"canceled", "failed"}
    /\ lock = "free"
    /\ stopFunction' = 0
    /\ controllers' = [controllers EXCEPT ![c].state = "gone"]
    /\ UNCHANGED <<cluster, crdExists, crdVersion, configValid, lock, todo, ownVersion,
                   informers, failures>>

\* After Start has returned, the goroutine clears the stop function it has set.
ControllerReturns(c) ==
    /\ controllers[c].state \in {"canceled", "failed"}
    /\ lock = "free"
    /\ stopFunction' = IF stopFunction = c THEN 0 ELSE stopFunction
    /\ controllers' = [controllers EXCEPT ![c].state = "gone"]
    /\ UNCHANGED <<cluster, crdExists, crdVersion, configValid, lock, todo, ownVersion,
                   informers, failures>>

-----------------------------------------------------------------------------
(* The cluster, the event handlers and the operator configuration *)

Idle(p) == todo[p] = <<>>

\* The versions the CRD can serve. The one for Prometheus rules has one version.
CrdStates ==
    IF WantsCrdUpdateEvents THEN SUBSET (Range(Preferred) \cup {OtherVersion})
                            ELSE {Absent, Range(Preferred)}

\* The CRD is created, updated or deleted.
CrdChanges ==
    \E served \in CrdStates :
        /\ crdChanges < MaxCrdChanges
        /\ served # crd
        /\ crd' = served
        /\ events' = Append(events, [type |-> CASE crd = Absent -> "create"
                                                [] served = Absent -> "delete"
                                                [] OTHER -> "update",
                                     served |-> served])
        /\ crdChanges' = crdChanges + 1
        /\ UNCHANGED <<watch, resourceType, overlapped, crdExists, crdVersion, configValid,
                       lock, todo, ownVersion, configChanges>>

\* The handler for CRD events is called, for one event at a time.
HandleCrdEvent ==
    /\ Idle("crd") /\ events # <<>>
    /\ overlapped' = (overlapped \/ ~Idle("config"))
    /\ events' = Tail(events)
    /\ LET e == Head(events) IN
       todo' = [todo EXCEPT !["crd"] =
                    CASE e.type = "create" -> OnCreate(e.served)
                      [] e.type = "delete" -> OnDelete
                      [] OTHER -> HandleVersionChangeOnUpdate(e.served)]
    /\ UNCHANGED <<watch, resourceType, crd, crdExists, crdVersion, configValid, lock,
                   ownVersion, crdChanges, configChanges>>

\* The operator configuration reconciler sets or removes the default API configs.
ConfigChanges ==
    \E valid \in BOOLEAN :
        /\ Idle("config")
        /\ overlapped' = (overlapped \/ ~Idle("crd"))
        /\ configChanges < MaxConfigChanges
        /\ configChanges' = configChanges + 1
        /\ todo' = [todo EXCEPT !["config"] = OnConfig(valid)]
        /\ UNCHANGED <<watch, resourceType, crd, events, crdExists, crdVersion, configValid,
                       lock, ownVersion, crdChanges>>

\* SetupThirdPartyCrdReconcilerWithManager has looked for the CRD before the
\* manager starts; the informer announces an existing CRD once more, as created.
Init ==
    /\ resourceType \in ResourceTypes
    /\ overlapped = FALSE
    /\ crd \in CrdStates
    /\ events = IF crd = Absent THEN <<>> ELSE <<[type |-> "create", served |-> crd]>>
    /\ crdExists = (ChooseVersion(crd) # NoVersion)
    /\ crdVersion = IF WantsCrdUpdateEvents THEN ChooseVersion(crd) ELSE Preferred[1]
    /\ configValid = FALSE
    /\ lock = "free"
    /\ todo = [p \in Procs |-> <<>>]
    /\ ownVersion = NoVersion
    /\ controllers = <<>> /\ stopFunction = 0 /\ informers = {}
    /\ configChanges = 0 /\ crdChanges = 0 /\ failures = 0

ProcStep(p) ==
    \/ StoreExists(p) \/ StoreVersion(p) \/ StoreConfig(p)
    \/ CheckPrerequisites(p) \/ ReadVersion(p)
    \/ StartController(p) \/ CannotStartController(p) \/ StopWatching(p)

Next ==
    \/ CrdChanges \/ HandleCrdEvent \/ ConfigChanges
    \/ \E p \in Procs : ProcStep(p)
    \/ \E c \in DOMAIN controllers : ControllerFails(c) \/ ControllerReturns(c)

Spec == Init /\ [][Next]_vars

\* The handlers run to their end, and a controller that was stopped returns.
Fairness ==
    /\ WF_vars(HandleCrdEvent)
    /\ \A p \in Procs : WF_vars(ProcStep(p))
    /\ WF_vars(\E c \in DOMAIN controllers : ControllerReturns(c))

FairSpec == Spec /\ Fairness

-----------------------------------------------------------------------------
(* Properties *)

TypeOK ==
    /\ crdExists \in BOOLEAN /\ configValid \in BOOLEAN
    /\ crdVersion \in Range(Preferred) \cup {NoVersion}
    /\ lock \in Procs \cup {"free"}
    /\ stopFunction \in 0..Len(controllers)
    /\ informers \subseteq Range(Preferred) \cup {NoVersion}
    /\ overlapped \in BOOLEAN
    /\ \A c \in DOMAIN controllers :
          controllers[c].state \in {"running", "failed", "canceled", "gone"}

\* Nothing is under way.
Settled ==
    /\ events = <<>>
    /\ \A p \in Procs : Idle(p)
    /\ \A c \in DOMAIN controllers : controllers[c].state \in {"running", "gone"}

\* No watch is ever started next to another one: a controller runs only as long
\* as the stop function is the one to stop it with (the comment in
\* maybeStartWatchingThirdPartyResources on clearing "ownStopFunc").
OnlyWatchIsTheStoppableOne ==
    \A c \in DOMAIN controllers : controllers[c].state = "running" => stopFunction = c

\* The handlers came one after the other, or they were those for Prometheus
\* rules, which have no version to get wrong.
InOrder == overlapped => resourceType = "rules"

\* Once everything has settled, there is a watch if and only if the CRD serves
\* a supported version and there is a valid API config, whatever the order in
\* which the CRD and the config came and went (for Prometheus rules also when
\* both were handled at the same time).
WatchMatchesCluster ==
    (Settled /\ InOrder /\ failures = 0) =>
        (IsWatching <=> (ChooseVersion(crd) # NoVersion /\ configValid))

\* A watch that is left alone is on the version the CRD wants, which is what
\* Version() says; stopping it will hence remove the right informer, and no
\* informer is left behind by a watch that has been stopped.
WatchIsOnChosenVersion ==
    Settled /\ InOrder =>
        /\ IsWatching => /\ controllers[stopFunction].version = crdVersion
                         /\ crdVersion = ChooseVersion(crd)
        /\ failures = 0 =>
             informers = IF IsWatching THEN {controllers[stopFunction].version} ELSE {}

\* The watch follows the CRD and the API config, however the event handlers for the
\* CRD, SetDefaultApiConfigs, RemoveDefaultApiConfigs and the returning controllers
\* interleave (third_party_crd_common.go).
WatchFollowsTheCluster ==
    TypeOK /\ OnlyWatchIsTheStoppableOne /\ WatchMatchesCluster /\ WatchIsOnChosenVersion

\* Handlers and controllers always come to an end, so that the system settles
\* once the CRD and the API config stop changing: nobody keeps the lock.
EventuallySettled == <>[]Settled
=============================================================================
