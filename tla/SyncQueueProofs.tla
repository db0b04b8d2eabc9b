--------------------------- MODULE SyncQueueProofs ---------------------------
(* Proofs about SyncQueue. *)
EXTENDS SyncQueue, SequenceTheorems, FiniteSetTheorems, TLAPS

\* The types hold initially and are preserved by every step of Add, Get, Done
\* and ShutDown.
LEMMA TypeInductive ==
    /\ Init => TypeSafe
    /\ TypeSafe /\ [Next]_vars => TypeSafe'
<1>1. Init => TypeSafe
  <2> SUFFICES ASSUME Init
               PROVE  TypeSafe
    OBVIOUS
  <2>1. queue \in Seq(Keys)
    BY DEF Init
  <2>2. shuttingDown \in BOOLEAN
    BY Zenon DEF Init
  <2> QED
    BY <2>1, <2>2 DEF Init, TypeSafe, Holding
<1>2. TypeSafe /\ [Next]_vars => TypeSafe'
  <2> SUFFICES ASSUME TypeSafe, [Next]_vars
               PROVE  TypeSafe'
    OBVIOUS
  <2> USE DEF TypeSafe, Holding, wqVars, adderVars, workerVars
  <2>1. ASSUME NEW a \in Adders, NEW k \in Keys, BeginAdd(a, k)
        PROVE  TypeSafe'
    BY <2>1 DEF BeginAdd
  <2>2. ASSUME NEW a \in Adders, StoreJob(a)
        PROVE  TypeSafe'
    BY <2>2 DEF StoreJob
  <2>3. ASSUME NEW a \in Adders, AnnounceKey(a)
        PROVE  TypeSafe'
    <3>1. shuttingDown' = shuttingDown /\ processing' = processing
      BY <2>3 DEF AnnounceKey, WorkqueueAdd
    <3>2. adderKey[a] \in Keys
      BY <2>3 DEF AnnounceKey
    <3>3. dirty' \in SUBSET Keys /\ queue' \in Seq(Keys)
      <4>1. CASE shuttingDown \/ adderKey[a] \in dirty
        BY <2>3, <4>1 DEF AnnounceKey, WorkqueueAdd
      <4>2. CASE ~(shuttingDown \/ adderKey[a] \in dirty)
        <5>1. dirty' = dirty \cup {adderKey[a]}
          BY <2>3, <4>2 DEF AnnounceKey, WorkqueueAdd
        <5>2. queue' = IF adderKey[a] \in processing THEN queue ELSE Append(queue, adderKey[a])
          BY <2>3, <4>2 DEF AnnounceKey, WorkqueueAdd
        <5> QED
          BY <5>1, <5>2, <3>2
      <4> QED
        BY <4>1, <4>2
    <3> QED
      BY <2>3, <3>1, <3>3 DEF AnnounceKey
  <2>4. ASSUME NEW w \in Workers, GetKey(w)
        PROVE  TypeSafe'
    BY <2>4 DEF GetKey, WorkqueueGet
  <2>5. ASSUME NEW w \in Workers, GetShutdown(w)
        PROVE  TypeSafe'
    BY <2>5 DEF GetShutdown
  <2>6. ASSUME NEW w \in Workers, TakeJob(w)
        PROVE  TypeSafe'
    BY <2>6 DEF TakeJob
  <2>7. ASSUME NEW w \in Workers, TakeNothing(w)
        PROVE  TypeSafe'
    BY <2>7 DEF TakeNothing
  <2>8. ASSUME NEW w \in Workers, FinishJob(w)
        PROVE  TypeSafe'
    BY <2>8 DEF FinishJob
  <2>9. ASSUME NEW w \in Workers, ReleaseKey(w)
        PROVE  TypeSafe'
    BY <2>9 DEF ReleaseKey, WorkqueueDone
  <2>10. CASE ShutDown
    BY <2>10 DEF ShutDown
  <2>11. CASE UNCHANGED vars
    BY <2>11 DEF vars
  <2> QED
    BY <2>1, <2>2, <2>3, <2>4, <2>5, <2>6, <2>7, <2>8, <2>9, <2>10, <2>11
       DEF Next, AdderStep, WorkerStep
<1> QED
  BY <1>1, <1>2

\* What the workqueue's Add does, without the Boolean variable shuttingDown.
LEMMA WorkqueueAddCases ==
    ASSUME NEW k, WorkqueueAdd(k)
    PROVE  /\ processing' = processing /\ shuttingDown' = shuttingDown
           /\ \/ queue' = queue /\ dirty' = dirty /\ (shuttingDown \/ k \in dirty)
              \/ /\ k \notin dirty /\ dirty' = dirty \cup {k}
                 /\ queue' = IF k \in processing THEN queue ELSE Append(queue, k)
<1>1. CASE shuttingDown \/ k \in dirty
  BY <1>1 DEF WorkqueueAdd, wqVars
<1>2. CASE ~(shuttingDown \/ k \in dirty)
  BY <1>2 DEF WorkqueueAdd
<1> QED
  BY <1>1, <1>2

\* The invariant that relates the map of pending jobs, the workqueue and the
\* goroutines is preserved by every step.
LEMMA InvInductive ==
    /\ Init => QueueInv
    /\ QueueInv /\ [Next]_vars => QueueInv'
<1>1. Init => QueueInv
  <2> SUFFICES ASSUME Init
               PROVE  QueueInv
    OBVIOUS
  <2>1. TypeSafe
    BY TypeInductive
  <2> QED
    BY <2>1 DEF Init, QueueInv, ProcessingIsHeld, OneWorkerPerResource, QueueHoldsDirtyKeys,
                PendingIsCaredFor, JobsAreNumbered, Holding, InQueue
<1>2. QueueInv /\ [Next]_vars => QueueInv'
  <2> SUFFICES ASSUME QueueInv, [Next]_vars
               PROVE  QueueInv'
    OBVIOUS
  <2>0. TypeSafe /\ TypeSafe'
    BY TypeInductive DEF QueueInv
  <2> USE <2>0
  <2>1. ASSUME NEW a \in Adders, NEW k \in Keys, BeginAdd(a, k)
        PROVE  QueueInv'
    BY <2>1 DEF BeginAdd, wqVars, workerVars, TypeSafe, QueueInv, ProcessingIsHeld,
                OneWorkerPerResource, QueueHoldsDirtyKeys, PendingIsCaredFor,
                JobsAreNumbered, Holding, InQueue
  <2>2. ASSUME NEW a \in Adders, StoreJob(a)
        PROVE  QueueInv'
    <3>1. PendingIsCaredFor'
      <4> SUFFICES ASSUME NEW k \in Keys, pendingJobs'[k] # 0
                   PROVE  PendingIsCaredFor!(k)!2'
        BY DEF PendingIsCaredFor
      <4>1. CASE k = adderKey[a]
        BY <2>2, <4>1 DEF StoreJob, TypeSafe
      <4>2. CASE k # adderKey[a]
        <5>1. pendingJobs[k] # 0
          BY <2>2, <4>2 DEF StoreJob, TypeSafe
        <5>2. \A b \in Adders : adderPc[b] = "announce" =>
                  adderPc'[b] = "announce" /\ adderKey'[b] = adderKey[b]
          BY <2>2 DEF StoreJob, TypeSafe
        <5>3. UNCHANGED <<dirty, shuttingDown, workerPc, workerKey>>
          BY <2>2 DEF StoreJob, wqVars, workerVars
        <5> QED
          BY <5>1, <5>2, <5>3 DEF QueueInv, PendingIsCaredFor
      <4> QED
        BY <4>1, <4>2
    <3>2. JobsAreNumbered'
      BY <2>2 DEF StoreJob, workerVars, TypeSafe, QueueInv, JobsAreNumbered
    <3> QED
      BY <2>2, <3>1, <3>2 DEF StoreJob, wqVars, workerVars, QueueInv, ProcessingIsHeld,
                OneWorkerPerResource, QueueHoldsDirtyKeys, Holding, InQueue
  <2>3. ASSUME NEW a \in Adders, AnnounceKey(a)
        PROVE  QueueInv'
    <3> DEFINE k == adderKey[a]
    <3>1. k \in Keys
      BY <2>3 DEF AnnounceKey, TypeSafe
    <3>2. /\ processing' = processing /\ shuttingDown' = shuttingDown
          /\ \/ queue' = queue /\ dirty' = dirty /\ (shuttingDown \/ k \in dirty)
             \/ /\ k \notin dirty /\ dirty' = dirty \cup {k}
                /\ queue' = IF k \in processing THEN queue ELSE Append(queue, k)
      BY <2>3, WorkqueueAddCases DEF AnnounceKey
    <3>3. /\ UNCHANGED <<workerPc, workerKey, workerJob, pendingJobs, lastJob, stored>>
          /\ \A b \in Adders : b # a => /\ adderPc'[b] = adderPc[b]
                                        /\ adderKey'[b] = adderKey[b]
      BY <2>3 DEF AnnounceKey, workerVars, TypeSafe
    <3>4. ProcessingIsHeld' /\ OneWorkerPerResource' /\ JobsAreNumbered'
      BY <3>2, <3>3 DEF QueueInv, ProcessingIsHeld, OneWorkerPerResource, JobsAreNumbered, Holding
    <3>5. QueueHoldsDirtyKeys'
      <4>1. CASE queue' = queue /\ dirty' = dirty
        BY <4>1, <3>2 DEF QueueInv, QueueHoldsDirtyKeys, InQueue
      <4>2. CASE /\ k \notin dirty /\ dirty' = dirty \cup {k}
                 /\ queue' = IF k \in processing THEN queue ELSE Append(queue, k)
        <5>1. CASE k \in processing
          BY <5>1, <4>2, <3>2 DEF QueueInv, QueueHoldsDirtyKeys, InQueue
        <5>2. CASE k \notin processing
          <6>1. /\ Len(queue') = Len(queue) + 1 /\ queue'[Len(queue) + 1] = k
                /\ \A i \in 1..Len(queue) : queue'[i] = queue[i]
                /\ Len(queue) \in Nat
            BY <5>2, <4>2, <3>1 DEF TypeSafe
          <6>2. dirty' = dirty \cup {k} /\ k \notin dirty
            BY <4>2
          <6> HIDE DEF k
          <6> QED
            BY <6>1, <6>2, <5>2, <3>2 DEF QueueInv, QueueHoldsDirtyKeys, InQueue
        <5> QED
          BY <5>1, <5>2
      <4> QED
        BY <4>1, <4>2, <3>2
    <3>6. PendingIsCaredFor'
      <4>1. shuttingDown' \/ k \in dirty'
        BY <3>2
      <4>2. dirty \subseteq dirty'
        BY <3>2
      <4> QED
        BY <4>1, <4>2, <3>2, <3>3 DEF QueueInv, PendingIsCaredFor
    <3> QED
      BY <3>4, <3>5, <3>6 DEF QueueInv
  <2>4. ASSUME NEW w \in Workers, GetKey(w)
        PROVE  QueueInv'
    <3> DEFINE k == Head(queue)
    <3>1. /\ queue # <<>> /\ k \in Keys
          /\ queue' = Tail(queue) /\ processing' = processing \cup {k} /\ dirty' = dirty \ {k}
          /\ shuttingDown' = shuttingDown
          /\ UNCHANGED <<adderPc, adderKey, workerJob, pendingJobs, lastJob, stored>>
      BY <2>4 DEF GetKey, WorkqueueGet, adderVars, TypeSafe
    <3>2. /\ workerPc[w] = "get" /\ workerPc'[w] = "take" /\ workerKey'[w] = k
          /\ \A v \in Workers : v # w => /\ workerPc'[v] = workerPc[v]
                                         /\ workerKey'[v] = workerKey[v]
      BY <2>4 DEF GetKey, TypeSafe
    <3>3. /\ Len(queue) \in Nat /\ Len(queue) > 0 /\ k = queue[1]
          /\ Len(queue') = Len(queue) - 1
          /\ \A i \in 1..Len(queue') : queue'[i] = queue[i + 1]
      BY <3>1 DEF TypeSafe
    <3>4. k \in dirty /\ k \notin processing
      BY <3>3 DEF QueueInv, QueueHoldsDirtyKeys
    <3> HIDE DEF k
    <3>5. ProcessingIsHeld'
      BY <3>1, <3>2 DEF QueueInv, ProcessingIsHeld, Holding
    <3>6. OneWorkerPerResource'
      BY <3>2, <3>4 DEF QueueInv, OneWorkerPerResource, ProcessingIsHeld, Holding
    <3>7. QueueHoldsDirtyKeys'
      <4>1. ASSUME NEW i \in 1..Len(queue')
            PROVE  queue'[i] \in dirty' /\ queue'[i] \notin processing'
        BY <3>1, <3>3 DEF QueueInv, QueueHoldsDirtyKeys
      <4>2. ASSUME NEW d \in dirty'
            PROVE  d \in processing' \/ InQueue(d)'
        <5>1. CASE d \in processing
          BY <5>1, <3>1
        <5>2. CASE InQueue(d)
          <6>1. PICK i \in 1..Len(queue) : queue[i] = d
            BY <5>2 DEF InQueue
          <6>2. i # 1
            BY <6>1, <3>1, <3>3
          <6>3. i - 1 \in 1..Len(queue') /\ queue'[i - 1] = d
            BY <6>1, <6>2, <3>3
          <6> QED
            BY <6>3 DEF InQueue
        <5> QED
          BY <5>1, <5>2, <3>1 DEF QueueInv, QueueHoldsDirtyKeys
      <4>3. ASSUME NEW i \in 1..Len(queue'), NEW j \in 1..Len(queue'), queue'[i] = queue'[j]
            PROVE  i = j
        BY <4>3, <3>3 DEF QueueInv, QueueHoldsDirtyKeys
      <4> QED
        BY <4>1, <4>2, <4>3 DEF QueueHoldsDirtyKeys
    <3>8. PendingIsCaredFor'
      <4> SUFFICES ASSUME NEW x \in Keys, pendingJobs'[x] # 0
                   PROVE  PendingIsCaredFor!(x)!2'
        BY DEF PendingIsCaredFor
      <4>1. CASE x = k
        BY <4>1, <3>2
      <4>2. CASE x # k
        BY <4>2, <3>1, <3>2 DEF QueueInv, PendingIsCaredFor
      <4> QED
        BY <4>1, <4>2
    <3>9. JobsAreNumbered'
      BY <3>1, <3>2 DEF QueueInv, JobsAreNumbered
    <3> QED
      BY <3>5, <3>6, <3>7, <3>8, <3>9 DEF QueueInv
  <2>5. ASSUME NEW w \in Workers, GetShutdown(w)
        PROVE  QueueInv'
    BY <2>5 DEF GetShutdown, wqVars, adderVars, TypeSafe, QueueInv, ProcessingIsHeld,
                OneWorkerPerResource, QueueHoldsDirtyKeys, PendingIsCaredFor,
                JobsAreNumbered, Holding, InQueue
  <2>6. ASSUME NEW w \in Workers, TakeJob(w)
        PROVE  QueueInv'
    <3> DEFINE k == workerKey[w]
    <3>1. /\ k \in Keys /\ pendingJobs[k] # 0 /\ workerPc[w] = "take"
          /\ pendingJobs' = [pendingJobs EXCEPT ![k] = 0]
          /\ lastJob' = [lastJob EXCEPT ![k] = pendingJobs[k]]
          /\ UNCHANGED <<queue, dirty, processing, shuttingDown, adderPc, adderKey,
                         workerKey, stored>>
      BY <2>6 DEF TakeJob, wqVars, adderVars, TypeSafe, Holding
    <3>2. /\ workerPc'[w] = "process" /\ workerJob'[w] = pendingJobs[k]
          /\ \A v \in Workers : v # w => /\ workerPc'[v] = workerPc[v]
                                         /\ workerJob'[v] = workerJob[v]
      BY <2>6 DEF TakeJob, TypeSafe
    <3>3. \A v \in Workers : Holding(v)' <=> Holding(v)
      BY <3>1, <3>2 DEF Holding
    <3>4. ProcessingIsHeld' /\ OneWorkerPerResource' /\ QueueHoldsDirtyKeys'
      BY <3>1, <3>3 DEF QueueInv, ProcessingIsHeld, OneWorkerPerResource, QueueHoldsDirtyKeys, InQueue
    <3>5. PendingIsCaredFor'
      <4> SUFFICES ASSUME NEW x \in Keys, pendingJobs'[x] # 0
                   PROVE  PendingIsCaredFor!(x)!2'
        BY DEF PendingIsCaredFor
      <4>1. x # k /\ pendingJobs[x] # 0
        BY <3>1 DEF TypeSafe
      <4> QED
        BY <4>1, <3>1, <3>2 DEF QueueInv, PendingIsCaredFor
    <3>6. JobsAreNumbered'
      <4>1. ASSUME NEW x \in Keys
            PROVE  /\ pendingJobs'[x] <= stored' /\ lastJob'[x] <= stored'
                   /\ pendingJobs'[x] # 0 => pendingJobs'[x] > lastJob'[x]
        BY <3>1 DEF TypeSafe, QueueInv, JobsAreNumbered
      <4>2. ASSUME NEW v \in Workers, workerPc'[v] = "process"
            PROVE  workerJob'[v] # 0
        BY <4>2, <3>1, <3>2 DEF QueueInv, JobsAreNumbered
      <4> QED
        BY <4>1, <4>2 DEF JobsAreNumbered
    <3> QED
      BY <3>4, <3>5, <3>6 DEF QueueInv
  <2>7. ASSUME NEW w \in Workers, TakeNothing(w)
        PROVE  QueueInv'
    <3>1. /\ pendingJobs[workerKey[w]] = 0
          /\ UNCHANGED <<queue, dirty, processing, shuttingDown, adderPc, adderKey,
                         workerKey, workerJob, pendingJobs, stored, lastJob>>
      BY <2>7 DEF TakeNothing, wqVars, adderVars
    <3>2. /\ workerPc[w] = "take" /\ workerPc'[w] = "release"
          /\ \A v \in Workers : v # w => workerPc'[v] = workerPc[v]
      BY <2>7 DEF TakeNothing, TypeSafe
    <3>3. \A v \in Workers : Holding(v)' <=> Holding(v)
      BY <3>1, <3>2 DEF Holding
    <3>4. ProcessingIsHeld' /\ OneWorkerPerResource' /\ QueueHoldsDirtyKeys'
      BY <3>1, <3>3 DEF QueueInv, ProcessingIsHeld, OneWorkerPerResource, QueueHoldsDirtyKeys, InQueue
    <3>5. PendingIsCaredFor' /\ JobsAreNumbered'
      BY <3>1, <3>2 DEF QueueInv, PendingIsCaredFor, JobsAreNumbered
    <3> QED
      BY <3>4, <3>5 DEF QueueInv
  <2>8. ASSUME NEW w \in Workers, FinishJob(w)
        PROVE  QueueInv'
    <3>1. UNCHANGED <<queue, dirty, processing, shuttingDown, adderPc, adderKey,
                      workerKey, pendingJobs, stored, lastJob>>
      BY <2>8 DEF FinishJob, wqVars, adderVars
    <3>2. /\ workerPc[w] = "process" /\ workerPc'[w] = "release"
          /\ \A v \in Workers : v # w => /\ workerPc'[v] = workerPc[v]
                                         /\ workerJob'[v] = workerJob[v]
      BY <2>8 DEF FinishJob, TypeSafe
    <3>3. \A v \in Workers : Holding(v)' <=> Holding(v)
      BY <3>1, <3>2 DEF Holding
    <3>4. ProcessingIsHeld' /\ OneWorkerPerResource' /\ QueueHoldsDirtyKeys'
      BY <3>1, <3>3 DEF QueueInv, ProcessingIsHeld, OneWorkerPerResource, QueueHoldsDirtyKeys, InQueue
    <3>5. PendingIsCaredFor' /\ JobsAreNumbered'
      BY <3>1, <3>2 DEF QueueInv, PendingIsCaredFor, JobsAreNumbered
    <3> QED
      BY <3>4, <3>5 DEF QueueInv
  <2>9. ASSUME NEW w \in Workers, ReleaseKey(w)
        PROVE  QueueInv'
    <3> DEFINE k == workerKey[w]
    <3>1. /\ k \in Keys /\ k \in processing /\ Holding(w)
          /\ processing' = processing \ {k} /\ dirty' = dirty
          /\ queue' = IF k \in dirty THEN Append(queue, k) ELSE queue
          /\ shuttingDown' = shuttingDown
          /\ UNCHANGED <<adderPc, adderKey, workerJob, pendingJobs, lastJob, stored>>
      BY <2>9 DEF ReleaseKey, WorkqueueDone, adderVars, TypeSafe, Holding, QueueInv,
                  ProcessingIsHeld
    <3>2. /\ workerPc[w] = "release" /\ workerPc'[w] = "get"
          /\ \A v \in Workers : v # w => /\ workerPc'[v] = workerPc[v]
                                         /\ workerKey'[v] = workerKey[v]
      BY <2>9 DEF ReleaseKey, TypeSafe
    <3>3. \A v \in Workers : (v # w /\ Holding(v)) => workerKey[v] # k
      BY <3>1 DEF QueueInv, OneWorkerPerResource
    <3> HIDE DEF k
    <3>4. ~Holding(w)' /\ \A v \in Workers : v # w => (Holding(v)' <=> Holding(v))
      BY <3>2 DEF Holding
    <3>5. ProcessingIsHeld'
      <4>1. ASSUME NEW v \in Workers, Holding(v)'
            PROVE  workerKey'[v] \in processing'
        BY <4>1, <3>1, <3>2, <3>3, <3>4 DEF QueueInv, ProcessingIsHeld
      <4>2. ASSUME NEW x \in processing'
            PROVE  \E v \in Workers : Holding(v)' /\ workerKey'[v] = x
        <5>1. PICK v \in Workers : Holding(v) /\ workerKey[v] = x
          BY <3>1 DEF QueueInv, ProcessingIsHeld
        <5>2. v # w
          BY <5>1, <3>1 DEF k
        <5> QED
          BY <5>1, <5>2, <3>2, <3>4
      <4> QED
        BY <4>1, <4>2 DEF ProcessingIsHeld
    <3>6. OneWorkerPerResource'
      BY <3>2, <3>4 DEF QueueInv, OneWorkerPerResource
    <3>7. QueueHoldsDirtyKeys'
      <4>1. CASE k \notin dirty
        BY <4>1, <3>1 DEF QueueInv, QueueHoldsDirtyKeys, InQueue
      <4>2. CASE k \in dirty
        <5>1. /\ Len(queue') = Len(queue) + 1 /\ queue'[Len(queue) + 1] = k
              /\ \A i \in 1..Len(queue) : queue'[i] = queue[i]
              /\ Len(queue) \in Nat
          BY <4>2, <3>1 DEF TypeSafe
        <5> QED
          BY <5>1, <4>2, <3>1 DEF QueueInv, QueueHoldsDirtyKeys, InQueue
      <4> QED
        BY <4>1, <4>2
    <3>8. PendingIsCaredFor' /\ JobsAreNumbered'
      BY <3>1, <3>2 DEF QueueInv, PendingIsCaredFor, JobsAreNumbered
    <3> QED
      BY <3>5, <3>6, <3>7, <3>8 DEF QueueInv
  <2>10. CASE ShutDown
    BY <2>10 DEF ShutDown, adderVars, workerVars, QueueInv, ProcessingIsHeld,
                OneWorkerPerResource, QueueHoldsDirtyKeys, PendingIsCaredFor,
                JobsAreNumbered, Holding, InQueue
  <2>11. CASE UNCHANGED vars
    BY <2>11 DEF vars, QueueInv, ProcessingIsHeld, OneWorkerPerResource,
                QueueHoldsDirtyKeys, PendingIsCaredFor, JobsAreNumbered, Holding, InQueue
  <2> QED
    BY <2>1, <2>2, <2>3, <2>4, <2>5, <2>6, <2>7, <2>8, <2>9, <2>10, <2>11
       DEF Next, AdderStep, WorkerStep
<1> QED
  BY <1>1, <1>2

\* The invariant holds of every reachable state of the queue.
THEOREM Invariant == Spec => []QueueInv
BY InvInductive, PTL DEF Spec

\* No job that Add has stored is ever forgotten, for any number of resources,
\* callers, workers and jobs, and with a shutdown at any point.
THEOREM NoJobIsLost == Spec => []NoLostJob
<1>1. QueueInv => NoLostJob
  <2> SUFFICES ASSUME QueueInv, NEW k \in Keys, pendingJobs[k] # 0
               PROVE  NoLostJob!(k)!2
    BY DEF NoLostJob
  <2>1. CASE k \in dirty
    <3>1. CASE InQueue(k)
      BY <3>1
    <3>2. CASE k \in processing
      BY <2>1, <3>2 DEF QueueInv, ProcessingIsHeld
    <3> QED
      BY <2>1, <3>1, <3>2 DEF QueueInv, QueueHoldsDirtyKeys
  <2>2. CASE k \notin dirty
    BY <2>2 DEF QueueInv, PendingIsCaredFor
  <2> QED
    BY <2>1, <2>2
<1> QED
  BY <1>1, Invariant, PTL

\* No two workers ever have jobs for the same resource at the same time.
THEOREM OneWorkerAtATime == Spec => []OneWorkerPerResource
<1>1. QueueInv => OneWorkerPerResource
  BY DEF QueueInv
<1> QED
  BY <1>1, Invariant, PTL

\* Adding an element to a finite set, or removing one, changes its cardinality
\* by one.
LEMMA CountPlusOne ==
    ASSUME NEW S, NEW T, NEW x, IsFiniteSet(S), x \notin S, T = S \cup {x}
    PROVE  /\ IsFiniteSet(T) /\ Cardinality(S) \in Nat
           /\ Cardinality(T) = Cardinality(S) + 1
BY FS_AddElement, FS_CardinalityType

\* inFlightJobs is the number of workers that process a job; hence the counter
\* that Get increments and Done decrements is never negative, and TypeOK holds.
THEOREM LenIsExact == Spec => [](TypeOK /\ LenCountsOutstandingJobs)
<1> DEFINE Busy == {w \in Workers : workerPc[w] = "process"}
           CountInv == TypeSafe /\ inFlightJobs = Cardinality(Busy)
<1>0. IsFiniteSet(Busy)
  BY WorkersAssumption, FS_Subset
<1>1. Init => CountInv
  <2> SUFFICES ASSUME Init
               PROVE  CountInv
    OBVIOUS
  <2>1. Busy = {} /\ inFlightJobs = 0
    BY DEF Init
  <2> QED
    BY <2>1, TypeInductive, FS_EmptySet
<1>2. CountInv /\ [Next]_vars => CountInv'
  <2> SUFFICES ASSUME CountInv, [Next]_vars
               PROVE  inFlightJobs' = Cardinality(Busy')
    BY TypeInductive
  <2>1. ASSUME NEW w \in Workers, TakeJob(w)
        PROVE  inFlightJobs' = Cardinality(Busy')
    <3>1. w \notin Busy /\ Busy' = Busy \cup {w}
      BY <2>1 DEF TakeJob, TypeSafe
    <3>2. inFlightJobs' = inFlightJobs + 1
      BY <2>1 DEF TakeJob
    <3> HIDE DEF Busy
    <3>3. Cardinality(Busy') = Cardinality(Busy) + 1
      BY <1>0, <3>1, CountPlusOne
    <3> QED
      BY <3>2, <3>3
  <2>2. ASSUME NEW w \in Workers, FinishJob(w)
        PROVE  inFlightJobs' = Cardinality(Busy')
    <3>1. w \notin Busy' /\ Busy = Busy' \cup {w} /\ IsFiniteSet(Busy')
      <4>1. w \notin Busy' /\ Busy = Busy' \cup {w}
        BY <2>2 DEF FinishJob, TypeSafe
      <4> QED
        BY <4>1, <1>0, FS_Subset
    <3>2. inFlightJobs' = inFlightJobs - 1
      BY <2>2 DEF FinishJob
    <3> HIDE DEF Busy
    <3>3. Cardinality(Busy') \in Nat /\ Cardinality(Busy) = Cardinality(Busy') + 1
      BY <3>1, CountPlusOne
    <3> QED
      BY <3>2, <3>3
  <2>3. ASSUME inFlightJobs' = inFlightJobs, Busy' = Busy
        PROVE  inFlightJobs' = Cardinality(Busy')
    BY <2>3
  <2>4. ASSUME NEW w \in Workers, GetKey(w) \/ GetShutdown(w) \/ TakeNothing(w) \/ ReleaseKey(w)
        PROVE  inFlightJobs' = inFlightJobs /\ Busy' = Busy
    BY <2>4 DEF GetKey, GetShutdown, TakeNothing, ReleaseKey, TypeSafe
  <2>5. ASSUME NEW a \in Adders, StoreJob(a) \/ AnnounceKey(a) \/ \E k \in Keys : BeginAdd(a, k)
        PROVE  inFlightJobs' = inFlightJobs /\ Busy' = Busy
    BY <2>5 DEF StoreJob, AnnounceKey, BeginAdd, workerVars
  <2>6. ASSUME ShutDown \/ UNCHANGED vars
        PROVE  inFlightJobs' = inFlightJobs /\ Busy' = Busy
    BY <2>6 DEF ShutDown, workerVars, vars
  <2> HIDE DEF Busy, CountInv
  <2> QED
    BY <2>1, <2>2, <2>3, <2>4, <2>5, <2>6 DEF Next, AdderStep, WorkerStep
<1>3. CountInv => TypeOK /\ LenCountsOutstandingJobs
  BY <1>0, FS_CardinalityType DEF TypeOK, LenCountsOutstandingJobs
<1> QED
  <2> HIDE DEF CountInv
  <2> QED
    BY <1>1, <1>2, <1>3, PTL DEF Spec

\* The queue is consistent in every state: what the run checks for two keys and two
\* workers holds for any number of resources, callers of Add, workers and jobs.
THEOREM QueueStaysConsistent == Spec => []QueueIsConsistent
BY NoJobIsLost, OneWorkerAtATime, LenIsExact, PTL DEF QueueIsConsistent

-----------------------------------------------------------------------------
(* Refinement *)

\* A worker that processes a job is the only one for its resource, so that the
\* refinement mapping shows its job.
LEMMA BusyWithJob ==
    ASSUME QueueInv, NEW w \in Workers, NEW k \in Keys, Processes(w, k)
    PROVE  BusyWith[k] = workerJob[w]
<1>1. \A v \in Workers : Processes(v, k) => v = w
  BY DEF QueueInv, OneWorkerPerResource, Processes, Holding
<1>2. (CHOOSE v \in Workers : Processes(v, k)) = w
  BY <1>1
<1> QED
  BY <1>2 DEF BusyWith

\* Steps that do not start or end the processing of a job leave BusyWith alone.
LEMMA BusyUnchanged ==
    ASSUME UNCHANGED workerJob,
           \A w \in Workers, k \in Keys : Processes(w, k)' <=> Processes(w, k)
    PROVE  BusyWith' = BusyWith
BY Zenon DEF BusyWith

\* What one resource is busy with does not change when the same worker goes on
\* processing the same job for it.
LEMMA BusyElsewhere ==
    ASSUME NEW x \in Keys,
           \A v \in Workers : Processes(v, x)' <=> Processes(v, x),
           \A v \in Workers : Processes(v, x) => workerJob'[v] = workerJob[v]
    PROVE  BusyWith'[x] = BusyWith[x]
<1> DEFINE c == CHOOSE v \in Workers : Processes(v, x)
<1>1. CASE \E v \in Workers : Processes(v, x)
  <2>1. (CHOOSE v \in Workers : Processes(v, x)') = c
    BY Zenon
  <2>2. Processes(c, x) /\ c \in Workers
    BY <1>1, Zenon
  <2> QED
    BY <1>1, <2>1, <2>2 DEF BusyWith
<1>2. CASE ~\E v \in Workers : Processes(v, x)
  BY <1>2 DEF BusyWith
<1> QED
  BY <1>1, <1>2

\* ThirdPartyResourceSyncQueue implements a mailbox per resource: every step of
\* Add, Get, Done and ShutDown is a Put, Take or Finish of LatestJobQueue, or
\* changes nothing there.
THEOREM Refinement == Spec => ImplementsLatestJobQueue
<1>1. Init => Abstract!AInit
  BY DEF Init, Abstract!AInit, BusyWith, Processes
<1>2. QueueInv /\ QueueInv' /\ [Next]_vars => [Abstract!ANext]_(Abstract!avars)
  <2> SUFFICES ASSUME QueueInv, QueueInv', [Next]_vars
               PROVE  Abstract!ANext \/ UNCHANGED <<pendingJobs, BusyWith, lastJob, stored>>
    BY DEF Abstract!avars
  <2>0. TypeSafe
    BY DEF QueueInv
  <2>1. ASSUME NEW a \in Adders, StoreJob(a)
        PROVE  Abstract!ANext
    <3>1. adderKey[a] \in Keys
      BY <2>0, <2>1 DEF StoreJob, TypeSafe
    <3>2. UNCHANGED workerJob /\ UNCHANGED lastJob
          /\ \A w \in Workers, k \in Keys : Processes(w, k)' <=> Processes(w, k)
      BY <2>1 DEF StoreJob, workerVars, Processes
    <3>3. BusyWith' = BusyWith
      BY <3>2, BusyUnchanged
    <3>4. Abstract!Put(adderKey[a])
      BY <2>1, <3>2, <3>3 DEF StoreJob, Abstract!Put
    <3> QED
      BY <3>1, <3>4 DEF Abstract!ANext
  <2>2. ASSUME NEW w \in Workers, TakeJob(w)
        PROVE  Abstract!ANext
    <3>0. workerKey[w] \in Keys /\ workerPc[w] = "take"
      BY <2>0, <2>2 DEF TakeJob, TypeSafe, Holding
    <3>1. PICK k \in Keys : k = workerKey[w]
      BY <3>0
    <3>2. \A v \in Workers : ~Processes(v, k)
      BY <3>0, <3>1 DEF QueueInv, OneWorkerPerResource, Processes, Holding
    <3>3. BusyWith[k] = 0
      BY <3>1, <3>2 DEF BusyWith
    <3>4. Processes(w, k)' /\ workerJob'[w] = pendingJobs[k]
      BY <2>0, <2>2, <3>1 DEF TakeJob, TypeSafe, Processes
    <3>5. BusyWith'[k] = pendingJobs[k]
      <4>1. \A v \in Workers : Processes(v, k)' => v = w
        BY <2>0, <2>2, <3>2 DEF TakeJob, TypeSafe, Processes
      <4>2. (CHOOSE v \in Workers : Processes(v, k)') = w
        BY <3>4, <4>1
      <4> QED
        BY <3>1, <3>4, <4>2 DEF BusyWith
    <3>6. ASSUME NEW x \in Keys, x # k
          PROVE  BusyWith'[x] = BusyWith[x]
      <4>1. \A v \in Workers : Processes(v, x)' <=> Processes(v, x)
        BY <2>0, <2>2, <3>1, <3>6 DEF TakeJob, TypeSafe, Processes
      <4>2. \A v \in Workers : Processes(v, x) => workerJob'[v] = workerJob[v]
        BY <2>0, <2>2, <3>1, <3>6 DEF TakeJob, TypeSafe, Processes
      <4> QED
        BY <4>1, <4>2, BusyElsewhere
    <3>7. BusyWith' = [BusyWith EXCEPT ![k] = pendingJobs[k]]
      BY <3>5, <3>6 DEF BusyWith
    <3>8. pendingJobs[k] > lastJob[k]
      BY <2>2, <3>1 DEF TakeJob, QueueInv, JobsAreNumbered
    <3>9. Abstract!Take(k)
      BY <2>2, <3>1, <3>3, <3>7, <3>8 DEF TakeJob, Abstract!Take
    <3> QED
      BY <3>1, <3>9 DEF Abstract!ANext
  <2>3. ASSUME NEW w \in Workers, FinishJob(w)
        PROVE  Abstract!ANext
    <3> workerKey[w] \in Keys
      BY <2>0, <2>3 DEF FinishJob, TypeSafe, Holding
    <3>0. PICK k \in Keys : k = workerKey[w]
      OBVIOUS
    <3>1. Processes(w, k) /\ workerJob[w] # 0
      BY <2>0, <2>3, <3>0 DEF FinishJob, TypeSafe, Holding, Processes, QueueInv, JobsAreNumbered
    <3>2. BusyWith[k] # 0
      BY <3>1, BusyWithJob
    <3>3. \A v \in Workers : ~Processes(v, k)'
      BY <2>0, <2>3, <3>0, <3>1 DEF QueueInv, OneWorkerPerResource, Processes, Holding, FinishJob, TypeSafe
    <3>4. BusyWith'[k] = 0
      BY <3>1, <3>3 DEF BusyWith
    <3>6. ASSUME NEW x \in Keys, x # k
          PROVE  BusyWith'[x] = BusyWith[x]
      <4>1. \A v \in Workers : Processes(v, x)' <=> Processes(v, x)
        BY <2>0, <2>3, <3>0, <3>6 DEF FinishJob, TypeSafe, Processes
      <4>2. \A v \in Workers : Processes(v, x) => workerJob'[v] = workerJob[v]
        BY <2>0, <2>3, <3>0, <3>6 DEF FinishJob, TypeSafe, Processes
      <4> QED
        BY <4>1, <4>2, BusyElsewhere
    <3>7. BusyWith' = [BusyWith EXCEPT ![k] = 0]
      BY <3>4, <3>6 DEF BusyWith
    <3>8. Abstract!Finish(k)
      BY <2>3, <3>0, <3>2, <3>7 DEF FinishJob, Abstract!Finish
    <3> QED
      BY <3>1, <3>8 DEF Abstract!ANext
  <2>4. ASSUME UNCHANGED <<workerJob, pendingJobs, lastJob, stored>>,
               \A w \in Workers, k \in Keys : Processes(w, k)' <=> Processes(w, k)
        PROVE  UNCHANGED <<pendingJobs, BusyWith, lastJob, stored>>
    BY <2>4, BusyUnchanged
  <2>5. ASSUME NEW a \in Adders, AnnounceKey(a) \/ \E k \in Keys : BeginAdd(a, k)
        PROVE  UNCHANGED <<pendingJobs, BusyWith, lastJob, stored>>
    BY <2>4, <2>5 DEF AnnounceKey, BeginAdd, workerVars, Processes
  <2>6. ASSUME NEW w \in Workers, GetKey(w) \/ GetShutdown(w) \/ TakeNothing(w) \/ ReleaseKey(w)
        PROVE  UNCHANGED <<pendingJobs, BusyWith, lastJob, stored>>
    <3>1. UNCHANGED <<workerJob, pendingJobs, lastJob, stored>>
      BY <2>6 DEF GetKey, GetShutdown, TakeNothing, ReleaseKey
    <3>2. \A v \in Workers, k \in Keys : Processes(v, k)' <=> Processes(v, k)
      BY <2>0, <2>6 DEF GetKey, GetShutdown, TakeNothing, ReleaseKey, TypeSafe, Processes
    <3> QED
      BY <2>4, <3>1, <3>2
  <2>7. ASSUME ShutDown \/ UNCHANGED vars
        PROVE  UNCHANGED <<pendingJobs, BusyWith, lastJob, stored>>
    BY <2>4, <2>7 DEF ShutDown, workerVars, vars, Processes
  <2> QED
    BY <2>1, <2>2, <2>3, <2>5, <2>6, <2>7 DEF Next, AdderStep, WorkerStep
<1> QED
  BY <1>1, <1>2, Invariant, PTL DEF Spec, ImplementsLatestJobQueue, Abstract!ASpec
=============================================================================
