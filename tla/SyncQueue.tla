------------------------------ MODULE SyncQueue ------------------------------
(***************************************************************************)
(* ThirdPartyResourceSyncQueue (internal/controller/third_party_crd_common *)
(* .go): a map of pending jobs, one per resource, next to a client-go      *)
(* workqueue.Typed that holds the keys of the resources with pending jobs. *)
(* The map has a lock, the workqueue has another one, and no operation     *)
(* holds both: every step between the two is visible here.                 *)
(***************************************************************************)
EXTENDS Integers, Sequences, FiniteSets

CONSTANTS
    Keys,       \* resources, identified by thirdPartyResourceSyncKey
    Adders,     \* goroutines that call Add: event handlers, resyncs, retries
    Workers,    \* goroutines that call Get and Done
    MaxJobs,    \* bound: no Add is started once this many jobs were stored
    NoKey       \* the key of a goroutine that has none

ASSUME NoKeyAssumption == NoKey \notin Keys
ASSUME MaxJobsAssumption == MaxJobs \in Nat
ASSUME WorkersAssumption == IsFiniteSet(Workers)

VARIABLES
    \* workqueue.Typed
    queue,          \* keys ready to be handed out, oldest first
    dirty,          \* keys that need processing
    processing,     \* keys handed out and not marked as done
    shuttingDown,
    \* ThirdPartyResourceSyncQueue
    pendingJobs,    \* pendingJobs[k]: number of the pending job for k, 0 if none
    inFlightJobs,
    \* the goroutines
    adderPc,        \* where each caller of Add is
    adderKey,       \* the key of the job it adds
    workerPc,       \* where each worker is
    workerKey,      \* the key it has been handed by the workqueue
    workerJob,      \* the job it processes, 0 if none
    \* history
    stored,         \* number of jobs stored in pendingJobs so far
    lastJob         \* lastJob[k]: newest job for k a worker has taken

wqVars == <<queue, dirty, processing, shuttingDown>>
vars == <<queue, dirty, processing, shuttingDown, pendingJobs, inFlightJobs,
          adderPc, adderKey, workerPc, workerKey, workerJob, stored, lastJob>>
adderVars == <<adderPc, adderKey>>
workerVars == <<workerPc, workerKey, workerJob>>

-----------------------------------------------------------------------------
(* client-go's workqueue.Typed, as far as the queue uses it. *)

\* Typed#Add: ignored after a shutdown, and for a key that is dirty already; a
\* key that is being processed is only queued once it is marked as done.
WorkqueueAdd(k) ==
    IF shuttingDown \/ k \in dirty
    THEN UNCHANGED wqVars
    ELSE /\ dirty' = dirty \cup {k}
         /\ queue' = IF k \in processing THEN queue ELSE Append(queue, k)
         /\ UNCHANGED <<processing, shuttingDown>>

\* Typed#Get, when it does not block.
WorkqueueGet ==
    /\ queue # <<>>
    /\ queue' = Tail(queue)
    /\ processing' = processing \cup {Head(queue)}
    /\ dirty' = dirty \ {Head(queue)}
    /\ UNCHANGED shuttingDown

\* Typed#Done: a key that was added again in the meantime goes back to the queue.
WorkqueueDone(k) ==
    /\ processing' = processing \ {k}
    /\ queue' = IF k \in dirty THEN Append(queue, k) ELSE queue
    /\ UNCHANGED <<dirty, shuttingDown>>

-----------------------------------------------------------------------------
Init ==
    /\ queue = <<>> /\ dirty = {} /\ processing = {} /\ shuttingDown = FALSE
    /\ pendingJobs = [k \in Keys |-> 0]
    /\ inFlightJobs = 0
    /\ adderPc = [a \in Adders |-> "idle"]
    /\ adderKey = [a \in Adders |-> NoKey]
    /\ workerPc = [w \in Workers |-> "get"]
    /\ workerKey = [w \in Workers |-> NoKey]
    /\ workerJob = [w \in Workers |-> 0]
    /\ stored = 0
    /\ lastJob = [k \in Keys |-> 0]

\* Add, up to the check of ShuttingDown; a shut-down queue discards the job.
BeginAdd(a, k) ==
    /\ adderPc[a] = "idle"
    /\ stored < MaxJobs
    /\ ~shuttingDown
    /\ adderPc' = [adderPc EXCEPT ![a] = "store"]
    /\ adderKey' = [adderKey EXCEPT ![a] = k]
    /\ UNCHANGED <<wqVars, workerVars, pendingJobs, inFlightJobs, stored, lastJob>>

\* Mutation: no announcement for a resource that a worker is busy with.
StoreJobUnannounced(a) ==
    /\ adderPc[a] = "store"
    /\ stored' = stored + 1
    /\ pendingJobs' = [pendingJobs EXCEPT ![adderKey[a]] = stored + 1]
    /\ adderPc' = [adderPc EXCEPT ![a] =
                    IF adderKey[a] \in processing THEN "idle" ELSE "announce"]
    /\ UNCHANGED <<wqVars, workerVars, adderKey, inFlightJobs, lastJob>>

\* Add, the section under the queue's lock: replaces a pending job.
StoreJob(a) ==
    /\ adderPc[a] = "store"
    /\ stored' = stored + 1
    /\ pendingJobs' = [pendingJobs EXCEPT ![adderKey[a]] = stored + 1]
    /\ adderPc' = [adderPc EXCEPT ![a] = "announce"]
    /\ UNCHANGED <<wqVars, workerVars, adderKey, inFlightJobs, lastJob>>

\* Add, the call of keys.Add after the lock has been released.
AnnounceKey(a) ==
    /\ adderPc[a] = "announce"
    /\ WorkqueueAdd(adderKey[a])
    /\ adderPc' = [adderPc EXCEPT ![a] = "idle"]
    /\ adderKey' = [adderKey EXCEPT ![a] = NoKey]
    /\ UNCHANGED <<workerVars, pendingJobs, inFlightJobs, stored, lastJob>>

\* Get, the call of keys.Get returns a key.
GetKey(w) ==
    /\ workerPc[w] = "get"
    /\ WorkqueueGet
    /\ workerPc' = [workerPc EXCEPT ![w] = "take"]
    /\ workerKey' = [workerKey EXCEPT ![w] = Head(queue)]
    /\ UNCHANGED <<adderVars, workerJob, pendingJobs, inFlightJobs, stored, lastJob>>

\* Mutation: the worker waits for the map of pending jobs to become empty.
GetShutdownWhenNothingPending(w) ==
    /\ workerPc[w] = "get"
    /\ queue = <<>> /\ shuttingDown
    /\ \A k \in Keys : pendingJobs[k] = 0
    /\ workerPc' = [workerPc EXCEPT ![w] = "stopped"]
    /\ UNCHANGED <<wqVars, adderVars, workerKey, workerJob, pendingJobs,
                   inFlightJobs, stored, lastJob>>

\* Get, the call of keys.Get reports the shutdown, and the worker returns.
GetShutdown(w) ==
    /\ workerPc[w] = "get"
    /\ queue = <<>> /\ shuttingDown
    /\ workerPc' = [workerPc EXCEPT ![w] = "stopped"]
    /\ UNCHANGED <<wqVars, adderVars, workerKey, workerJob, pendingJobs,
                   inFlightJobs, stored, lastJob>>

\* Mutation: Get marks the key as done as soon as it has the job.
TakeJobAndMarkDone(w) ==
    LET k == workerKey[w] IN
    /\ workerPc[w] = "take"
    /\ pendingJobs[k] # 0
    /\ pendingJobs' = [pendingJobs EXCEPT ![k] = 0]
    /\ inFlightJobs' = inFlightJobs + 1
    /\ workerPc' = [workerPc EXCEPT ![w] = "process"]
    /\ workerJob' = [workerJob EXCEPT ![w] = pendingJobs[k]]
    /\ lastJob' = [lastJob EXCEPT ![k] = pendingJobs[k]]
    /\ WorkqueueDone(k)
    /\ UNCHANGED <<adderVars, workerKey, stored>>

\* Mutation: the job stays in the map of pending jobs.
TakeJobAndKeepIt(w) ==
    LET k == workerKey[w] IN
    /\ workerPc[w] = "take"
    /\ pendingJobs[k] # 0
    /\ inFlightJobs' = inFlightJobs + 1
    /\ workerPc' = [workerPc EXCEPT ![w] = "process"]
    /\ workerJob' = [workerJob EXCEPT ![w] = pendingJobs[k]]
    /\ lastJob' = [lastJob EXCEPT ![k] = pendingJobs[k]]
    /\ UNCHANGED <<wqVars, adderVars, workerKey, pendingJobs, stored>>

\* Get, the section under the queue's lock, when a job is pending for the key.
TakeJob(w) ==
    LET k == workerKey[w] IN
    /\ workerPc[w] = "take"
    /\ pendingJobs[k] # 0
    /\ pendingJobs' = [pendingJobs EXCEPT ![k] = 0]
    /\ inFlightJobs' = inFlightJobs + 1
    /\ workerPc' = [workerPc EXCEPT ![w] = "process"]
    /\ workerJob' = [workerJob EXCEPT ![w] = pendingJobs[k]]
    /\ lastJob' = [lastJob EXCEPT ![k] = pendingJobs[k]]
    /\ UNCHANGED <<wqVars, adderVars, workerKey, stored>>

\* Mutation: the counter is incremented although no job was found.
TakeNothingAndCount(w) ==
    /\ workerPc[w] = "take"
    /\ pendingJobs[workerKey[w]] = 0
    /\ inFlightJobs' = inFlightJobs + 1
    /\ workerPc' = [workerPc EXCEPT ![w] = "release"]
    /\ UNCHANGED <<wqVars, adderVars, workerKey, workerJob, pendingJobs, stored, lastJob>>

\* Mutation: Get goes on without marking the key as done.
TakeNothingAndKeepKey(w) ==
    /\ workerPc[w] = "take"
    /\ pendingJobs[workerKey[w]] = 0
    /\ workerPc' = [workerPc EXCEPT ![w] = "get"]
    /\ workerKey' = [workerKey EXCEPT ![w] = NoKey]
    /\ UNCHANGED <<wqVars, adderVars, workerJob, pendingJobs, inFlightJobs, stored, lastJob>>

\* Get, the same section when an earlier Get has already taken the job.
TakeNothing(w) ==
    /\ workerPc[w] = "take"
    /\ pendingJobs[workerKey[w]] = 0
    /\ workerPc' = [workerPc EXCEPT ![w] = "release"]
    /\ UNCHANGED <<wqVars, adderVars, workerKey, workerJob, pendingJobs,
                   inFlightJobs, stored, lastJob>>

\* Done, the section under the queue's lock, once the job has been processed.
FinishJob(w) ==
    /\ workerPc[w] = "process"
    /\ inFlightJobs' = inFlightJobs - 1
    /\ workerPc' = [workerPc EXCEPT ![w] = "release"]
    /\ workerJob' = [workerJob EXCEPT ![w] = 0]
    /\ UNCHANGED <<wqVars, adderVars, workerKey, pendingJobs, stored, lastJob>>

\* Mutation: the counter is decremented for keys without a job as well.
ReleaseKeyAndCount(w) ==
    /\ workerPc[w] = "release"
    /\ WorkqueueDone(workerKey[w])
    /\ inFlightJobs' = inFlightJobs - 1
    /\ workerPc' = [workerPc EXCEPT ![w] = "get"]
    /\ workerKey' = [workerKey EXCEPT ![w] = NoKey]
    /\ UNCHANGED <<adderVars, workerJob, pendingJobs, stored, lastJob>>

\* The call of keys.Done, in Done and in Get after it found no job.
ReleaseKey(w) ==
    /\ workerPc[w] = "release"
    /\ WorkqueueDone(workerKey[w])
    /\ workerPc' = [workerPc EXCEPT ![w] = "get"]
    /\ workerKey' = [workerKey EXCEPT ![w] = NoKey]
    /\ UNCHANGED <<adderVars, workerJob, pendingJobs, inFlightJobs, stored, lastJob>>

ShutDown ==
    /\ ~shuttingDown
    /\ shuttingDown' = TRUE
    /\ UNCHANGED <<queue, dirty, processing, adderVars, workerVars, pendingJobs,
                   inFlightJobs, stored, lastJob>>

AdderStep(a) == StoreJob(a) \/ AnnounceKey(a)

WorkerStep(w) ==
    \/ GetKey(w) \/ GetShutdown(w) \/ TakeJob(w) \/ TakeNothing(w)
    \/ FinishJob(w) \/ ReleaseKey(w)

Next ==
    \/ \E a \in Adders : AdderStep(a) \/ \E k \in Keys : BeginAdd(a, k)
    \/ \E w \in Workers : WorkerStep(w)
    \/ ShutDown

Spec == Init /\ [][Next]_vars

\* The goroutines run: a call of Add that has started ends, and the worker loop
\* goes on. Nobody is obliged to add jobs or to shut the queue down.
Fairness ==
    /\ \A a \in Adders : WF_vars(AdderStep(a))
    /\ \A w \in Workers : WF_vars(WorkerStep(w))

FairSpec == Spec /\ Fairness

-----------------------------------------------------------------------------
(* Properties *)

\* The state has the shape the code relies on: a caller of Add has a key unless
\* it is idle, a worker has one from the Get that handed it out to the end of
\* Done, and the counter of jobs in flight never falls below 0.
Holding(w) == workerPc[w] \in {"take", "process", "release"}

TypeSafe ==
    /\ queue \in Seq(Keys)
    /\ dirty \in SUBSET Keys
    /\ processing \in SUBSET Keys
    /\ shuttingDown \in BOOLEAN
    /\ pendingJobs \in [Keys -> Nat]
    /\ inFlightJobs \in Int
    /\ adderPc \in [Adders -> {"idle", "store", "announce"}]
    /\ adderKey \in [Adders -> Keys \cup {NoKey}]
    /\ \A a \in Adders : adderPc[a] # "idle" => adderKey[a] \in Keys
    /\ workerPc \in [Workers -> {"get", "take", "process", "release", "stopped"}]
    /\ workerKey \in [Workers -> Keys \cup {NoKey}]
    /\ \A w \in Workers : Holding(w) => workerKey[w] \in Keys
    /\ workerJob \in [Workers -> Nat]
    /\ stored \in Nat
    /\ lastJob \in [Keys -> Nat]

TypeOK == TypeSafe /\ inFlightJobs \in Nat

InQueue(k) == \E i \in 1..Len(queue) : queue[i] = k

\* A stored job is never forgotten: as long as the queue has not been shut
\* down, its key is queued, or it will be queued by the worker that has the key,
\* or the Add that stored a job for the key is about to announce it, or a worker
\* that was handed the key is about to take the job (Add, Get and Done take the
\* two locks one after the other).
NoLostJob ==
    \A k \in Keys : pendingJobs[k] # 0 =>
        \/ InQueue(k)
        \/ k \in dirty /\ \E w \in Workers : Holding(w) /\ workerKey[w] = k
        \/ \E a \in Adders : adderPc[a] = "announce" /\ adderKey[a] = k
        \/ \E w \in Workers : workerPc[w] = "take" /\ workerKey[w] = k
        \/ shuttingDown

\* No two workers have the same resource in their hands, between the Get that
\* handed out its key and the end of Done.
OneWorkerPerResource ==
    \A v, w \in Workers :
        (v # w /\ Holding(v) /\ Holding(w)) => workerKey[v] # workerKey[w]

\* Len() counts the jobs that are not done: pending ones plus the ones that
\* workers process. When it is 0, nothing is left to do but release keys.
LenCountsOutstandingJobs ==
    inFlightJobs = Cardinality({w \in Workers : workerPc[w] = "process"})

\* What Add, Get, Done and ShutDown keep up at every step, although each of them
\* takes the lock of the jobs and the lock of the keys one after the other: no job
\* is lost, no resource is processed twice at a time, and Len() can be trusted.
QueueIsConsistent == TypeOK /\ NoLostJob /\ OneWorkerPerResource /\ LenCountsOutstandingJobs

(* The inductive invariant behind the properties above, see SyncQueueProofs. *)

\* The keys the workqueue regards as being processed are those of the workers.
ProcessingIsHeld ==
    /\ \A w \in Workers : Holding(w) => workerKey[w] \in processing
    /\ \A k \in processing : \E w \in Workers : Holding(w) /\ workerKey[w] = k

\* The workqueue holds the dirty keys that nobody processes, once each.
QueueHoldsDirtyKeys ==
    /\ \A i \in 1..Len(queue) : queue[i] \in dirty /\ queue[i] \notin processing
    /\ \A k \in dirty : k \in processing \/ InQueue(k)
    /\ \A i, j \in 1..Len(queue) : queue[i] = queue[j] => i = j

\* Every pending job has a worker or an Add to care for it.
PendingIsCaredFor ==
    \A k \in Keys : pendingJobs[k] # 0 =>
        \/ k \in dirty
        \/ \E a \in Adders : adderPc[a] = "announce" /\ adderKey[a] = k
        \/ \E w \in Workers : workerPc[w] = "take" /\ workerKey[w] = k
        \/ shuttingDown

\* Job numbers grow: a pending job is newer than the last one taken.
JobsAreNumbered ==
    /\ \A k \in Keys : /\ pendingJobs[k] <= stored /\ lastJob[k] <= stored
                       /\ pendingJobs[k] # 0 => pendingJobs[k] > lastJob[k]
    /\ \A w \in Workers : workerPc[w] = "process" => workerJob[w] # 0

QueueInv ==
    /\ TypeSafe
    /\ ProcessingIsHeld /\ OneWorkerPerResource /\ QueueHoldsDirtyKeys
    /\ PendingIsCaredFor /\ JobsAreNumbered

(* Refinement *)

Processes(w, k) == workerPc[w] = "process" /\ workerKey[w] = k

\* The job for each resource that is being processed, 0 if there is none.
BusyWith ==
    [k \in Keys |-> IF \E w \in Workers : Processes(w, k)
                    THEN workerJob[CHOOSE w \in Workers : Processes(w, k)]
                    ELSE 0]

Abstract == INSTANCE LatestJobQueue
                WITH mailbox <- pendingJobs, busy <- BusyWith, taken <- lastJob, issued <- stored

\* The queue implements a mailbox per resource that keeps the newest job only,
\* hands out newer jobs after older ones and waits for a job to be done before
\* it hands out the next one for the same resource (the comments on Add).
ImplementsLatestJobQueue == Abstract!ASpec

\* A job whose key has been announced is taken or replaced, also when the queue
\* is shut down in the meantime (Get still returns jobs added before).
AnnouncedJobIsTaken ==
    \A k \in Keys, j \in 1..(MaxJobs + Cardinality(Adders)) :
        (pendingJobs[k] = j /\ k \in dirty) ~> pendingJobs[k] # j

\* After a shutdown every worker drains the queue and returns.
WorkersStop == shuttingDown ~> \A w \in Workers : workerPc[w] = "stopped"

\* The queue does not stall: what Add has announced is handed out by Get, and
\* ShutDown ends the workers.
QueueMakesProgress == AnnouncedJobIsTaken /\ WorkersStop
=============================================================================
