----------------------- MODULE OwnedResourceSyncProofs -----------------------
(***************************************************************************)
(* Proofs about OwnedResourceSync: the flag initialSyncInProgress and the  *)
(* mutex of a namespace keep synchronizations of the same kind apart, and  *)
(* between its four callers Reconcile forgets no resource and no error,    *)
(* for any number of resources and API configs.                            *)
(***************************************************************************)
EXTENDS OwnedResourceSync, TLAPS

\* A goroutine that runs has its flag or its mutex, in every reachable state:
\* the flag is set before the goroutine is started and cleared by its last step.
THEOREM FlagsInvariant == Spec => []SyncsAreFlagged
<1>1. Init => SyncsAreFlagged
  BY DEF Init, SyncsAreFlagged, Procs
<1>2. SyncsAreFlagged /\ [Next]_vars => SyncsAreFlagged'
  <2> SUFFICES ASSUME SyncsAreFlagged, [Next]_vars
               PROVE  SyncsAreFlagged'
    OBVIOUS
  <2> USE DEF SyncsAreFlagged, Procs
  <2>1. CASE \E p \in Procs : ReconcileStep(p)
    <3> PICK p \in Procs : ReconcileStep(p)
      BY <2>1
    <3>1. pc[p] # "idle" /\ UNCHANGED syncVars
      BY DEF ReconcileStep, SkipOnConflict, GetResource, GetFails, CheckPreconditions, CallApi,
             WriteStatus, syncVars
    <3>2. pc' = pc \/ \E v \in {"idle", "loop", "check", "call"} : pc' = [pc EXCEPT ![p] = v]
      BY DEF ReconcileStep, SkipOnConflict, GetResource, GetFails, CheckPreconditions, CallApi,
             WriteStatus, EndReconcile
    <3> QED
      BY <3>1, <3>2 DEF syncVars
  <2>2. CASE \E p \in Procs : ListResources(p) \/ ReconcileNext(p)
    BY <2>2 DEF ListResources, ReconcileNext, StartReconcile, syncVars
  <2>3. CASE \E p \in Procs : ListFails(p)
    BY <2>3 DEF ListFails
  <2>4. CASE \E r \in Resources : ControllerTakesRequest(r)
    BY <2>4 DEF ControllerTakesRequest, StartReconcile, syncVars
  <2>5. CASE InitialSyncFinishes \/ InitialSyncReturns \/ NamespacedSyncFinishes
    BY <2>5 DEF InitialSyncFinishes, InitialSyncReturns, NamespacedSyncFinishes
  <2>6. CASE RetryFailedSynchronizations \/ RetryFinishes
    BY <2>6 DEF RetryFailedSynchronizations, RetryFinishes, syncVars
  <2>7. CASE BecomeLeader \/ SetDefaultApiConfigs \/ SetConflictingCrdDetected \/ SetNamespacedApiConfigs
    BY <2>7 DEF BecomeLeader, SetDefaultApiConfigs, SetConflictingCrdDetected,
                SetNamespacedApiConfigs, syncVars, procVars
  <2>8. CASE \E c \in Callers : EnterInitialSync(c)
    BY <2>8 DEF EnterInitialSync, procVars
  <2>9. CASE \E c \in Callers : DecideInitialSync(c)
    BY <2>9 DEF DecideInitialSync
  <2>10. CASE ResetInitialSyncHasHappened
    BY <2>10 DEF ResetInitialSyncHasHappened, procVars
  <2>11. CASE SynchronizeNamespacedResources
    BY <2>11 DEF SynchronizeNamespacedResources
  <2>12. CASE Environment
    BY <2>12 DEF Environment, ChangeResource, ChangeExports, ChangeCrd, syncVars, procVars
  <2>13. CASE UNCHANGED vars
    BY <2>13 DEF vars, syncVars, procVars
  <2> QED
    BY <2>1, <2>2, <2>3, <2>4, <2>5, <2>6, <2>7, <2>8, <2>9, <2>10, <2>11, <2>12, <2>13
       DEF Next, Operator, ProcStep, CallerStep
<1> QED
  BY <1>1, <1>2, PTL DEF Spec

\* No initial synchronization is started while another one is running, and no
\* synchronization of a namespace while another one is running.
THEOREM SyncsStayApart == Spec => SyncsAreKeptApart
<1> DEFINE Apart == StartsAlone("initial") /\ StartsAlone("namespaced")
<1>1. SyncsAreFlagged /\ [Next]_vars => [Apart]_vars
  <2> SUFFICES ASSUME SyncsAreFlagged, Next
               PROVE  Apart
    OBVIOUS
  <2> USE DEF SyncsAreFlagged, Procs, StartsAlone
  <2>1. CASE \E p \in Procs : ReconcileStep(p)
    BY <2>1 DEF ReconcileStep, SkipOnConflict, GetResource, GetFails, CheckPreconditions, CallApi,
                WriteStatus, EndReconcile
  <2>2. CASE \E p \in Procs : ListResources(p) \/ ReconcileNext(p) \/ ListFails(p)
    BY <2>2 DEF ListResources, ReconcileNext, ListFails, StartReconcile
  <2>3. CASE \E c \in Callers : DecideInitialSync(c)
    BY <2>3 DEF DecideInitialSync
  <2>4. CASE SynchronizeNamespacedResources
    BY <2>4 DEF SynchronizeNamespacedResources
  <2>5. CASE \/ \E r \in Resources : ControllerTakesRequest(r)
             \/ InitialSyncFinishes \/ InitialSyncReturns \/ NamespacedSyncFinishes
             \/ RetryFailedSynchronizations \/ RetryFinishes
    BY <2>5 DEF ControllerTakesRequest, StartReconcile, InitialSyncFinishes, InitialSyncReturns,
                NamespacedSyncFinishes, RetryFailedSynchronizations, RetryFinishes
  <2>6. CASE \/ BecomeLeader \/ SetDefaultApiConfigs \/ SetConflictingCrdDetected
             \/ SetNamespacedApiConfigs \/ ResetInitialSyncHasHappened \/ Environment
             \/ \E c \in Callers : EnterInitialSync(c)
    BY <2>6 DEF BecomeLeader, SetDefaultApiConfigs, SetConflictingCrdDetected,
                SetNamespacedApiConfigs, ResetInitialSyncHasHappened, Environment, ChangeResource,
                ChangeExports, ChangeCrd, EnterInitialSync, procVars
  <2> QED
    BY <2>1, <2>2, <2>3, <2>4, <2>5, <2>6 DEF Next, Operator, ProcStep, CallerStep
<1> QED
  BY <1>1, FlagsInvariant, PTL DEF Spec, SyncsAreKeptApart

\* The API configs Reconcile settles on are those of the namespace, if there are any.
LEMMA OwnConfigsOnly ==
    ASSUME NoDefaultConfigInUse, configChanges = 0, exports # {}
    PROVE  ValidatedApiConfigs \subseteq NamespacedConfigs
  BY DEF NoDefaultConfigInUse, ValidatedApiConfigs

\* As long as the monitoring resource of a namespace defines an export, the
\* resources of the namespace are kept out of the default backend: they are not
\* sent there in the time between the start of the operator and the first
\* reconciliation of the monitoring resource.
THEOREM OwnExportIsRespected == Spec => []OwnExportKeepsOutOfDefaultBackend
<1>1. Init => NoDefaultConfigInUse
  BY ScenariosAssumption DEF Init, NoDefaultConfigInUse, Configs
<1>2. NoDefaultConfigInUse /\ [Next]_vars => NoDefaultConfigInUse'
  <2> SUFFICES ASSUME NoDefaultConfigInUse, [Next]_vars
               PROVE  NoDefaultConfigInUse'
    OBVIOUS
  <2> USE DEF NoDefaultConfigInUse
  <2>2. CASE \E p \in Procs, c \in Configs : CallApi(p, c)
    <3> PICK p \in Procs, c \in Configs : CallApi(p, c)
      BY <2>2
    <3>1. c \in todo[p] /\ todo' = [todo EXCEPT ![p] = @ \ {c}]
      BY DEF CallApi
    <3>2. objects' = objects \/ objects' = [objects EXCEPT ![c][cur[p]] = MapResourceToApiCalls(snap[p])]
      BY DEF CallApi
    <3>3. UNCHANGED <<configChanges, exports, namespacedApiConfigs>>
      BY DEF CallApi, clusterVars, configVars
    <3>4. DOMAIN objects' = Configs
      BY <3>2
    <3>5. ASSUME NEW d \in Configs, d # c PROVE objects'[d] = objects[d]
      BY <3>2, <3>5
    <3>6. configChanges = 0 /\ exports # {} => c \in NamespacedConfigs
      BY <3>1
    <3>7. /\ DOMAIN todo' = Procs
          /\ configChanges = 0 /\ exports # {} => \A q \in Procs : todo'[q] \subseteq NamespacedConfigs
      BY <3>1
    <3> QED
      BY <3>3, <3>4, <3>5, <3>6, <3>7 DEF Configs
  <2>3. CASE \E p \in Procs : CheckPreconditions(p)
    <3> PICK p \in Procs : CheckPreconditions(p)
      BY <2>3
    <3>1. todo' = [todo EXCEPT ![p] = {}] \/ todo' = [todo EXCEPT ![p] = ValidatedApiConfigs]
      BY DEF CheckPreconditions, EndReconcile
    <3>2. UNCHANGED <<configChanges, exports, namespacedApiConfigs, objects>>
      BY DEF CheckPreconditions, clusterVars, configVars
    <3> QED
      BY <3>1, <3>2, OwnConfigsOnly
  <2>4. CASE \E p \in Procs : SkipOnConflict(p) \/ GetResource(p) \/ GetFails(p) \/ WriteStatus(p)
    BY <2>4 DEF SkipOnConflict, GetResource, GetFails, WriteStatus, EndReconcile, clusterVars,
                configVars
  <2>5. CASE \E p \in Procs : ListResources(p) \/ ListFails(p) \/ ReconcileNext(p)
    BY <2>5 DEF ListResources, ListFails, ReconcileNext, clusterVars, configVars
  <2>6. CASE \E r \in Resources : ControllerTakesRequest(r)
    BY <2>6 DEF ControllerTakesRequest, clusterVars, configVars
  <2>7. CASE InitialSyncFinishes \/ InitialSyncReturns \/ NamespacedSyncFinishes
    BY <2>7 DEF InitialSyncFinishes, InitialSyncReturns, NamespacedSyncFinishes, clusterVars,
                configVars
  <2>8. CASE RetryFailedSynchronizations \/ RetryFinishes
    BY <2>8 DEF RetryFailedSynchronizations, RetryFinishes, clusterVars, configVars
  <2>9. CASE BecomeLeader \/ SetDefaultApiConfigs \/ SetConflictingCrdDetected \/ ResetInitialSyncHasHappened
    BY <2>9 DEF BecomeLeader, SetDefaultApiConfigs, SetConflictingCrdDetected,
                ResetInitialSyncHasHappened, clusterVars, procVars
  <2>10. CASE \E c \in Callers : CallerStep(c)
    BY <2>10 DEF CallerStep, EnterInitialSync, DecideInitialSync, clusterVars, procVars
  <2>11. CASE SetNamespacedApiConfigs
    BY <2>11 DEF SetNamespacedApiConfigs, clusterVars, procVars
  <2>12. CASE SynchronizeNamespacedResources
    BY <2>12 DEF SynchronizeNamespacedResources, clusterVars
  <2>13. CASE \E r \in Resources : \E new : ChangeResource(r, new)
    BY <2>13 DEF ChangeResource, configVars
  <2>14. CASE \E e : ChangeExports(e)
    BY <2>14 DEF ChangeExports, procVars
  <2>15. CASE ChangeCrd
    BY <2>15 DEF ChangeCrd, procVars
  <2>16. CASE UNCHANGED vars
    BY <2>16 DEF vars, clusterVars, configVars, procVars
  <2> QED
    BY <2>2, <2>3, <2>4, <2>5, <2>6, <2>7, <2>8, <2>9, <2>10, <2>11, <2>12, <2>13, <2>14, <2>15,
       <2>16 DEF Next, Operator, Environment, ProcStep, ReconcileStep
<1>3. NoDefaultConfigInUse => OwnExportKeepsOutOfDefaultBackend
  BY DEF NoDefaultConfigInUse, OwnExportKeepsOutOfDefaultBackend
<1> QED
  BY <1>1, <1>2, <1>3, PTL DEF Spec

\* ----------------------------------------------------------------------------
\* At rest every resource is in sync or carries its error (SettledIsInSync). The
\* inductive invariant has four parts: types, SyncsAreFlagged, what a goroutine in
\* Reconcile knows (ReconcileInv) and who is still going to come to a resource
\* (DueInv).
\*
\* Types of all variables, the counters of the environment included.
TypeInv ==
    /\ TypeOK
    /\ scenario \in Scenarios
    /\ isLeader \in BOOLEAN /\ initialSyncInProgress \in BOOLEAN /\ initialSyncHasHappened \in BOOLEAN
    /\ conflictingCrdDetected \in BOOLEAN /\ crdChanged \in BOOLEAN /\ foreignCrd \in BOOLEAN
    /\ failures \in Nat /\ readFailures \in Nat /\ configChanges \in Nat /\ crdChanges \in Nat

\* The initial state is well typed.
LEMMA InitTypes == Init => TypeInv
  <1> SUFFICES ASSUME Init PROVE TypeInv
    OBVIOUS
  <1>1. scenario \in Scenarios /\ scenario.contents \subseteq Contents
    BY ScenariosAssumption DEF Init
  <1>2. cluster \in [Resources -> Snapshots \cup {Absent}]
    BY <1>1 DEF Init, Snapshots
  <1>3. NoResults \in [Configs -> Outcomes]
    BY DEF NoResults, Outcomes
  <1>4. queue \subseteq Resources
    BY DEF Init, Existing
  <1>5. /\ pc \in [Procs -> {"idle", "list", "loop", "get", "check", "call", "returning"}]
        /\ list \in [Procs -> SUBSET Resources] /\ cur \in [Procs -> Resources \cup {NoResource}]
        /\ snap \in [Procs -> Snapshots \cup {Absent}] /\ stale \in [Procs -> BOOLEAN]
        /\ todo \in [Procs -> SUBSET Configs] /\ results \in [Procs -> [Configs -> Outcomes]]
    BY <1>3 DEF Init
  <1>6. \A p \in Procs : (cur[p] \in Resources <=> pc[p] \in {"get", "check", "call"}) /\ (todo[p] # {} => pc[p] = "call")
    BY ValuesAssumption DEF Init
  <1>7. status \in [Resources -> [Configs -> Outcomes]] /\ objects \in [Configs -> [Resources -> Contents \cup {Absent}]]
    BY <1>3 DEF Init
  <1>8. TypeOK
    BY <1>2, <1>4, <1>5, <1>6, <1>7 DEF Init, TypeOK
  <1>9. foreignCrd \in BOOLEAN /\ conflictingCrdDetected \in BOOLEAN
    BY DEF Init
  <1>10. isLeader \in BOOLEAN /\ initialSyncInProgress \in BOOLEAN /\ initialSyncHasHappened \in BOOLEAN /\ crdChanged \in BOOLEAN
    BY DEF Init
  <1>11. failures = 0 /\ readFailures = 0 /\ configChanges = 0 /\ crdChanges = 0
    BY DEF Init
  <1> QED
    BY <1>1, <1>8, <1>9, <1>10, <1>11 DEF TypeInv

\* What a goroutine that leaves Reconcile looks like.
LEMMA EndReconcileTypes ==
    ASSUME TypeOK, NEW p \in Procs, EndReconcile(p)
    PROVE  /\ cur' \in [Procs -> Resources \cup {NoResource}]
           /\ pc' \in [Procs -> {"idle", "list", "loop", "get", "check", "call", "returning"}]
           /\ \A q \in Procs : cur'[q] \in Resources <=> pc'[q] \in {"get", "check", "call"}
           /\ snap' \in [Procs -> Snapshots \cup {Absent}] /\ stale' \in [Procs -> BOOLEAN]
           /\ todo' \in [Procs -> SUBSET Configs] /\ results' \in [Procs -> [Configs -> Outcomes]]
           /\ \A q \in Procs : todo'[q] # {} => pc'[q] = "call"
  <1>1. NoResults \in [Configs -> Outcomes]
    BY DEF NoResults, Outcomes
  <1> USE DEF TypeOK, EndReconcile
  <1>2. cur' \in [Procs -> Resources \cup {NoResource}] /\ snap' \in [Procs -> Snapshots \cup {Absent}]
        /\ stale' \in [Procs -> BOOLEAN] /\ todo' \in [Procs -> SUBSET Configs]
    OBVIOUS
  <1>3. results' \in [Procs -> [Configs -> Outcomes]]
    BY <1>1
  <1>4. pc' \in [Procs -> {"idle", "list", "loop", "get", "check", "call", "returning"}]
    OBVIOUS
  <1>5. \A q \in Procs : cur'[q] \in Resources <=> pc'[q] \in {"get", "check", "call"}
    BY ValuesAssumption
  <1>6. \A q \in Procs : todo'[q] # {} => pc'[q] = "call"
    OBVIOUS
  <1> QED
    BY <1>2, <1>3, <1>4, <1>5, <1>6

\* The steps of Reconcile and of synchronizeViaApi keep the types.
LEMMA ReconcileTypes ==
    ASSUME TypeInv, NEW p \in Procs, ReconcileStep(p)
    PROVE  TypeInv'
  <1> USE DEF TypeInv
  <1>1. CASE SkipOnConflict(p) \/ (CheckPreconditions(p) /\ EndReconcile(p))
    BY <1>1, EndReconcileTypes DEF SkipOnConflict, CheckPreconditions, TypeOK, clusterVars,
       configVars, syncVars
  <1>2. CASE GetFails(p)
    <2>1. readFailures' \in Nat /\ UNCHANGED <<clusterVars, objects, configVars, syncVars, list,
                                               failures>>
      BY <1>2 DEF GetFails
    <2>2. queue' \subseteq Resources
      BY <1>2 DEF GetFails, TypeOK
    <2> QED
      BY <1>2, <2>1, <2>2, EndReconcileTypes DEF GetFails, TypeOK, clusterVars, configVars,
         syncVars
  <1>3. CASE GetResource(p)
    <2>1. cur[p] \in Resources
      BY <1>3 DEF GetResource, TypeOK
    <2>2. /\ snap' \in [Procs -> Snapshots \cup {Absent}] /\ stale' \in [Procs -> BOOLEAN]
          /\ pc' \in [Procs -> {"idle", "list", "loop", "get", "check", "call", "returning"}]
      BY <1>3, <2>1 DEF GetResource, TypeOK
    <2>3. \A q \in Procs : /\ pc'[q] \in {"get", "check", "call"} <=> pc[q] \in {"get", "check", "call"}
                           /\ pc[q] = "call" => pc'[q] = "call"
      BY <1>3 DEF GetResource, TypeOK
    <2> QED
      BY <1>3, <2>2, <2>3 DEF GetResource, TypeOK, clusterVars, configVars, syncVars
  <1>4. CASE CheckPreconditions(p) /\ ~EndReconcile(p)
    <2>1. todo' = [todo EXCEPT ![p] = ValidatedApiConfigs] /\ pc' = [pc EXCEPT ![p] = "call"] /\ pc[p] = "check"
          /\ UNCHANGED <<cur, snap, stale, results, clusterVars, objects, configVars, syncVars,
                         queue, list, failures, readFailures>>
      BY <1>4 DEF CheckPreconditions
    <2>2. ValidatedApiConfigs \subseteq Configs
      BY DEF ValidatedApiConfigs, TypeOK, Configs
    <2>3. /\ todo' \in [Procs -> SUBSET Configs] /\ \A q \in Procs : todo'[q] # {} => pc'[q] = "call"
          /\ pc' \in [Procs -> {"idle", "list", "loop", "get", "check", "call", "returning"}]
          /\ \A q \in Procs : pc'[q] \in {"get", "check", "call"} <=> pc[q] \in {"get", "check", "call"}
      BY <2>1, <2>2 DEF TypeOK
    <2> QED
      BY <2>1, <2>3 DEF TypeOK, clusterVars, configVars, syncVars
  <1>5. ASSUME NEW c \in Configs, CallApi(p, c) PROVE TypeInv'
    <2>1. PICK outcome \in {"ok"} \cup scenario.failureCodes, landed \in BOOLEAN :
            /\ failures' = IF outcome = "ok" THEN failures ELSE failures + 1
            /\ objects' = IF landed THEN [objects EXCEPT ![c][cur[p]] = MapResourceToApiCalls(snap[p])] ELSE objects
            /\ results' = [results EXCEPT ![p][c] = outcome]
      BY <1>5 DEF CallApi
    <2>2. outcome \in Outcomes
      BY ScenariosAssumption DEF Outcomes
    <2>3. results' \in [Procs -> [Configs -> Outcomes]] /\ failures' \in Nat
      BY <2>1, <2>2 DEF TypeOK
    <2>4. MapResourceToApiCalls(snap[p]) \in Contents \cup {Absent}
      BY DEF MapResourceToApiCalls, TypeOK, Snapshots
    <2>5. objects' \in [Configs -> [Resources -> Contents \cup {Absent}]]
      BY <2>1, <2>4 DEF TypeOK
    <2>6. todo' \in [Procs -> SUBSET Configs] /\ (\A q \in Procs : todo'[q] # {} => pc[q] = "call") /\ UNCHANGED pc
      BY <1>5 DEF CallApi, TypeOK
    <2> QED
      BY <1>5, <2>3, <2>5, <2>6 DEF CallApi, TypeOK, clusterVars, configVars, syncVars
  <1>6. CASE WriteStatus(p)
    <2>1. NoResults \in [Configs -> Outcomes]
      BY DEF NoResults, Outcomes
    <2>2. stale' \in [Procs -> BOOLEAN]
      BY <1>6 DEF WriteStatus, TypeOK, Invalidate
    <2>3. status' \in [Resources -> [Configs -> Outcomes]]
      BY <1>6 DEF WriteStatus, TypeOK
    <2>4. results' \in [Procs -> [Configs -> Outcomes]] /\ snap' \in [Procs -> Snapshots \cup {Absent}]
          /\ cur' \in [Procs -> Resources \cup {NoResource}]
          /\ pc' \in [Procs -> {"idle", "list", "loop", "get", "check", "call", "returning"}]
      BY <1>6, <2>1 DEF WriteStatus, TypeOK
    <2>5. \A q \in Procs : cur'[q] \in Resources <=> pc'[q] \in {"get", "check", "call"}
      BY <1>6, ValuesAssumption DEF WriteStatus, TypeOK
    <2>6. \A q \in Procs : todo'[q] # {} => pc'[q] = "call"
      BY <1>6 DEF WriteStatus, TypeOK
    <2> QED
      BY <1>6, <2>2, <2>3, <2>4, <2>5, <2>6 DEF WriteStatus, TypeOK, configVars, syncVars
  <1> QED
    BY <1>1, <1>2, <1>3, <1>4, <1>5, <1>6 DEF ReconcileStep
\* Steps of a goroutine outside of Reconcile.
LEMMA OutsideReconcile ==
    ASSUME TypeOK, pc' \in [Procs -> {"idle", "list", "loop", "get", "check", "call", "returning"}],
           \A q \in Procs : pc'[q] \in {"get", "check", "call"} <=> pc[q] \in {"get", "check", "call"},
           \A q \in Procs : pc[q] = "call" => pc'[q] = "call",
           list' \in [Procs -> SUBSET Resources],
           initialSyncMutex' \in Callers \cup {"free"}, callerPc' \in [Callers -> {"idle", "reset", "enter", "decide"}],
           reconcilerPc' \in {"idle", "changed", "lock"},
           UNCHANGED <<scenario, cluster, status, objects, exports, defaultApiConfigs,
                       namespacedApiConfigs, queue, cur, snap,
                       stale, todo, results>>
    PROVE  TypeOK'
  <1>1. \A q \in Procs : cur'[q] \in Resources <=> pc'[q] \in {"get", "check", "call"}
    BY DEF TypeOK
  <1>2. \A q \in Procs : todo'[q] # {} => pc'[q] = "call"
    BY DEF TypeOK
  <1> QED
    BY <1>1, <1>2 DEF TypeOK

\* The other steps of the goroutines.
LEMMA GoroutineTypes ==
    ASSUME TypeInv
    PROVE  (\/ \E p \in Procs : ListResources(p) \/ ListFails(p) \/ ReconcileNext(p)
            \/ \E r \in Resources : ControllerTakesRequest(r)
            \/ InitialSyncFinishes \/ InitialSyncReturns \/ NamespacedSyncFinishes
            \/ RetryFailedSynchronizations \/ RetryFinishes) => TypeInv'
  <1> USE DEF TypeInv
  <1>1. ASSUME NEW p \in Procs, ListResources(p) \/ ListFails(p) \/ ReconcileNext(p) PROVE TypeInv'
    <2>1. CASE ListResources(p)
      BY <2>1 DEF ListResources, Existing, TypeOK, clusterVars, configVars, syncVars
    <2>2. CASE ListFails(p)
      BY <2>2 DEF ListFails, TypeOK, clusterVars, configVars
    <2>3. CASE ReconcileNext(p)
      BY <2>3, ValuesAssumption DEF ReconcileNext, StartReconcile, TypeOK, clusterVars,
         configVars, syncVars
    <2> QED
      BY <1>1, <2>1, <2>2, <2>3
  <1>2. ASSUME NEW r \in Resources, ControllerTakesRequest(r) PROVE TypeInv'
    BY <1>2, ValuesAssumption DEF ControllerTakesRequest, StartReconcile, TypeOK,
       clusterVars, configVars, syncVars, Procs
  <1>3. ASSUME InitialSyncFinishes \/ InitialSyncReturns \/ NamespacedSyncFinishes PROVE TypeInv'
    <2>1. /\ pc' \in [Procs -> {"idle", "list", "loop", "get", "check", "call", "returning"}]
          /\ \A q \in Procs : /\ pc'[q] \in {"get", "check", "call"} <=> pc[q] \in {"get", "check", "call"}
                              /\ pc[q] = "call" => pc'[q] = "call"
      BY <1>3 DEF InitialSyncFinishes, InitialSyncReturns, NamespacedSyncFinishes, TypeOK,
         Procs
    <2>2. /\ initialSyncInProgress' \in BOOLEAN /\ initialSyncHasHappened' \in BOOLEAN
          /\ UNCHANGED <<clusterVars, objects, configVars, initialSyncMutex, queue, list, cur,
                         snap, stale, todo, results,
                         failures, readFailures>>
      BY <1>3 DEF InitialSyncFinishes, InitialSyncReturns, NamespacedSyncFinishes
    <2>3. TypeOK'
      <3>1. /\ list \in [Procs -> SUBSET Resources] /\ initialSyncMutex \in Callers \cup {"free"}
            /\ callerPc \in [Callers -> {"idle", "reset", "enter", "decide"}] /\ reconcilerPc \in {"idle", "changed", "lock"}
        BY DEF TypeOK
      <3> QED
        BY <2>1, <2>2, <3>1, OutsideReconcile DEF clusterVars, configVars
    <2> QED
      BY <2>2, <2>3 DEF clusterVars, configVars
  <1>4. ASSUME RetryFailedSynchronizations \/ RetryFinishes PROVE TypeInv'
    <2>1. /\ pc' \in [Procs -> {"idle", "list", "loop", "get", "check", "call", "returning"}]
          /\ \A q \in Procs : /\ pc'[q] \in {"get", "check", "call"} <=> pc[q] \in {"get", "check", "call"}
                              /\ pc[q] = "call" => pc'[q] = "call"
      BY <1>4 DEF RetryFailedSynchronizations, RetryFinishes, TypeOK, Procs
    <2>2. list' \in [Procs -> SUBSET Resources]
      <3>1. list \in [Procs -> SUBSET Resources] /\ Existing \subseteq Resources
        BY DEF TypeOK, Existing
      <3>2. {r \in Existing : HasRetryableError(r)} \subseteq Resources
        BY <3>1
      <3>3. list' \in {list, [list EXCEPT !["retry"] = {r \in Existing : HasRetryableError(r)}]}
        BY <1>4 DEF RetryFailedSynchronizations, RetryFinishes
      <3> QED
        BY <3>1, <3>2, <3>3
    <2>3. UNCHANGED <<clusterVars, objects, configVars, syncVars, queue, cur, snap, stale, todo,
                      results, failures, readFailures>>
      BY <1>4 DEF RetryFailedSynchronizations, RetryFinishes
    <2>4. TypeOK'
      <3>1. /\ initialSyncMutex \in Callers \cup {"free"}
            /\ callerPc \in [Callers -> {"idle", "reset", "enter", "decide"}] /\ reconcilerPc \in {"idle", "changed", "lock"}
        BY DEF TypeOK
      <3> QED
        BY <2>1, <2>2, <2>3, <3>1, OutsideReconcile DEF clusterVars, configVars, syncVars
    <2> QED
      BY <2>3, <2>4 DEF clusterVars, configVars, syncVars
  <1> QED
    BY <1>1, <1>2, <1>3, <1>4

\* The steps that change the configuration, in the operator and around it.
LEMMA ConfigurationTypes ==
    ASSUME TypeInv, SyncsAreFlagged
    PROVE  (\/ BecomeLeader \/ SetDefaultApiConfigs \/ SetConflictingCrdDetected \/ ResetInitialSyncHasHappened
            \/ \E c \in Callers : CallerStep(c)
            \/ SetNamespacedApiConfigs \/ SynchronizeNamespacedResources
            \/ Environment) => TypeInv'
  <1> USE DEF TypeInv
  <1>1. ASSUME BecomeLeader \/ SetDefaultApiConfigs PROVE TypeInv'
    <2>1. callerPc' \in [Callers -> {"idle", "reset", "enter", "decide"}] /\ isLeader' \in BOOLEAN
      BY <1>1 DEF BecomeLeader, SetDefaultApiConfigs, TypeOK
    <2>2. defaultApiConfigs' \in {{}, DefaultConfigs}
      BY <1>1 DEF BecomeLeader, SetDefaultApiConfigs, TypeOK
    <2> QED
      BY <1>1, <2>1, <2>2 DEF BecomeLeader, SetDefaultApiConfigs, TypeOK, clusterVars,
         syncVars, procVars
  <1>2. ASSUME SetConflictingCrdDetected \/ ResetInitialSyncHasHappened PROVE TypeInv'
    <2>1. CASE SetConflictingCrdDetected
      BY <2>1 DEF SetConflictingCrdDetected, TypeOK, clusterVars, syncVars, procVars
    <2>2. CASE ResetInitialSyncHasHappened
      BY <2>2 DEF ResetInitialSyncHasHappened, TypeOK, clusterVars, procVars
    <2> QED
      BY <1>2, <2>1, <2>2
  <1>3. ASSUME \E c \in Callers : EnterInitialSync(c) PROVE TypeInv'
    BY <1>3 DEF EnterInitialSync, TypeOK, clusterVars, procVars
  <1>4. ASSUME \E c \in Callers : DecideInitialSync(c) PROVE TypeInv'
    <2>1. PICK c \in Callers : DecideInitialSync(c)
      BY <1>4
    <2>2. UNCHANGED pc \/ (pc["initial"] = "idle" /\ pc' = [pc EXCEPT !["initial"] = "list"])
      BY <2>1 DEF DecideInitialSync, SyncsAreFlagged, Procs
    <2>3. /\ pc' \in [Procs -> {"idle", "list", "loop", "get", "check", "call", "returning"}]
          /\ \A q \in Procs : /\ pc'[q] \in {"get", "check", "call"} <=> pc[q] \in {"get", "check", "call"}
                              /\ pc[q] = "call" => pc'[q] = "call"
      BY <2>2 DEF TypeOK, Procs
    <2>4. callerPc' \in [Callers -> {"idle", "reset", "enter", "decide"}] /\ initialSyncInProgress' \in BOOLEAN
      BY <2>1 DEF DecideInitialSync, TypeOK
    <2>5. TypeOK'
      <3>1. list \in [Procs -> SUBSET Resources] /\ reconcilerPc \in {"idle", "changed", "lock"}
        BY DEF TypeOK
      <3> QED
        BY <2>1, <2>3, <2>4, <3>1, OutsideReconcile DEF DecideInitialSync, clusterVars
    <2> QED
      BY <2>1, <2>4, <2>5 DEF DecideInitialSync, clusterVars
  <1>5. ASSUME SetNamespacedApiConfigs PROVE TypeInv'
    BY <1>5, ScenariosAssumption DEF SetNamespacedApiConfigs, TypeOK, clusterVars, syncVars,
       procVars
  <1>6. ASSUME SynchronizeNamespacedResources PROVE TypeInv'
    BY <1>6, ValuesAssumption DEF SynchronizeNamespacedResources, TypeOK, clusterVars,
       SyncsAreFlagged, Procs
  <1>7. ASSUME NEW r \in Resources, NEW new \in [content : scenario.contents, disabled : BOOLEAN] \cup {Absent},
               ChangeResource(r, new)
        PROVE  TypeInv'
    <2>1. new \in Snapshots \cup {Absent}
      BY ScenariosAssumption DEF Snapshots
    <2>2. NoResults \in [Configs -> Outcomes]
      BY DEF NoResults, Outcomes
    <2>3. cluster' \in [Resources -> Snapshots \cup {Absent}] /\ status' \in [Resources -> [Configs -> Outcomes]]
      BY <1>7, <2>1, <2>2 DEF ChangeResource, TypeOK
    <2>4. stale' \in [Procs -> BOOLEAN] /\ queue' \subseteq Resources
      BY <1>7 DEF ChangeResource, TypeOK, Invalidate
    <2> QED
      BY <1>7, <2>3, <2>4 DEF ChangeResource, TypeOK, configVars, syncVars
  <1>8. ASSUME NEW e \in scenario.exportChoices, ChangeExports(e) PROVE TypeInv'
    BY <1>8 DEF ChangeExports, TypeOK, syncVars, procVars
  <1>9. ASSUME ChangeCrd PROVE TypeInv'
    BY <1>9 DEF ChangeCrd, TypeOK, syncVars, procVars
  <1> QED
    BY <1>1, <1>2, <1>3, <1>4, <1>5, <1>6, <1>7, <1>8, <1>9 DEF CallerStep, Environment

\* The results that WriteSynchronizationResultToSynchronizedResource records as an error.
Errors == {"retryable", "permanent"}

\* The API configs in force once the monitoring resource and the operator configuration
\* have been reconciled.
FinalConfigs == IF exports # {} THEN exports ELSE DefaultConfigs

\* The API has the resource, or the status says that it has not.
Recorded(r, c) == InSync(r, c) \/ status[r][c] \in Errors

\* What a goroutine has read is what there is, and a call that has succeeded has brought the
\* object in sync, as long as nobody changes a resource that is being synchronized.
ReadingsAreCurrent ==
    scenario.quietSync =>
        /\ \A p \in Procs : pc[p] \in {"check", "call"} => snap[p] = cluster[cur[p]]
        /\ \A p \in Procs, c \in Configs : (pc[p] = "call" /\ results[p][c] = "ok") => InSync(cur[p], c)

\* Results are those of the calls for one resource.
ResultsAreFresh == \A p \in Procs : pc[p] # "call" => results[p] = NoResults

\* Only a failed call leaves an error behind.
ErrorsAreCounted ==
    failures = 0 =>
        /\ \A p \in Procs, c \in Configs : results[p][c] \notin Errors
        /\ \A r \in Resources, c \in Configs : status[r][c] \notin Errors

\* As long as the export does not change, whoever calls the API goes through all API
\* configs; hence the goroutine whose status has been preferred to the one of another has
\* something to say on each of them.
AllConfigsAreTried ==
    configChanges = 0 =>
        /\ namespacedApiConfigs \in {{}, exports}
        /\ \A p \in Procs : pc[p] = "call" => \A c \in FinalConfigs : c \in todo[p] \/ results[p][c] # "none"
        /\ scenario.quietSync =>
             \A p \in Procs : (pc[p] \in {"check", "call"} /\ stale[p] /\ cur[p] \in Existing) =>
                 \A c \in FinalConfigs : Recorded(cur[p], c)

\* What goroutines in Reconcile know and have recorded.
ReconcileInv == ReadingsAreCurrent /\ ResultsAreFresh /\ ErrorsAreCounted /\ AllConfigsAreTried

\* Initially no goroutine is in Reconcile.
LEMMA InitReconcile == Init => ReconcileInv
  <1> SUFFICES ASSUME Init PROVE ReconcileInv
    OBVIOUS
  <1>1. \A p \in Procs : pc[p] = "idle"
    BY DEF Init
  <1>2. NoResults \in [Configs -> {"none"}]
    BY DEF NoResults
  <1>3. ErrorsAreCounted
    BY <1>2 DEF Init, ErrorsAreCounted, Errors
  <1>4. namespacedApiConfigs = {}
    BY DEF Init
  <1>5. ResultsAreFresh
    BY DEF Init, ResultsAreFresh
  <1> QED
    BY <1>1, <1>3, <1>4, <1>5 DEF ReconcileInv, ReadingsAreCurrent, AllConfigsAreTried

\* Steps that neither change a resource, an object or a status nor bring a goroutine on in
\* Reconcile; a goroutine may leave Reconcile or be about to read a resource.
LEMMA NothingIsReconciled ==
    ASSUME ReconcileInv, TypeOK, UNCHANGED <<scenario, cluster, status, objects, exports,
                                             failures, configChanges>>,
           namespacedApiConfigs' \in {namespacedApiConfigs, exports},
           \A p \in Procs : pc'[p] \in {"check", "call"} =>
               pc'[p] = pc[p] /\ cur'[p] = cur[p] /\ snap'[p] = snap[p] /\ stale'[p] = stale[p] /\ todo'[p] = todo[p],
           \A p \in Procs : \/ results'[p] = results[p] /\ (pc[p] = "call" => pc'[p] = "call")
                            \/ results'[p] = NoResults /\ pc'[p] # "call"
    PROVE  ReconcileInv'
  <1>1. \A r, c : InSync(r, c)' <=> InSync(r, c)
    BY DEF InSync, Wanted, Existing
  <1>2. ReadingsAreCurrent'
    BY <1>1 DEF ReconcileInv, ReadingsAreCurrent
  <1>3. ErrorsAreCounted'
    <2>1. \A c \in Configs : NoResults[c] \notin Errors
      BY DEF NoResults, Errors
    <2> QED
      BY <2>1 DEF ReconcileInv, ErrorsAreCounted
  <1>4. \A r, c : Recorded(r, c)' <=> Recorded(r, c)
    BY <1>1 DEF Recorded
  <1>5. AllConfigsAreTried'
    <2>1. Existing' = Existing /\ FinalConfigs' = FinalConfigs
      BY DEF Existing, FinalConfigs
    <2> QED
      BY <1>4, <2>1 DEF ReconcileInv, AllConfigsAreTried
  <1>6. ResultsAreFresh'
    BY DEF ReconcileInv, ResultsAreFresh
  <1> QED
    BY <1>2, <1>3, <1>5, <1>6 DEF ReconcileInv

\* Reconcile returns.
LEMMA EndReconcileIsQuiet ==
    ASSUME TypeOK, NEW p \in Procs, EndReconcile(p)
    PROVE  /\ \A q \in Procs : pc'[q] \in {"check", "call"} =>
                  pc'[q] = pc[q] /\ cur'[q] = cur[q] /\ snap'[q] = snap[q] /\ stale'[q] = stale[q] /\ todo'[q] = todo[q]
           /\ \A q \in Procs : \/ results'[q] = results[q] /\ (pc[q] = "call" => pc'[q] = "call")
                               \/ results'[q] = NoResults /\ pc'[q] # "call"
  BY DEF EndReconcile, TypeOK

\* GetResource reads the current state of the resource.
LEMMA GetReconciles ==
    ASSUME ReconcileInv, TypeInv, NEW p \in Procs, GetResource(p)
    PROVE  ReconcileInv'
  <1>1. UNCHANGED <<scenario, cluster, status, objects, exports, failures, configChanges,
                    namespacedApiConfigs, cur, todo, results>>
    BY DEF GetResource, clusterVars, configVars
  <1>2. \A q \in Procs : pc'[q] = "call" => pc[q] = "call" /\ snap'[q] = snap[q] /\ stale'[q] = stale[q]
    BY DEF GetResource, TypeInv, TypeOK
  <1>3. \A q \in Procs : pc'[q] = "check" =>
          (q = p /\ snap'[q] = cluster[cur[q]] /\ stale'[q] = FALSE) \/ (pc[q] = "check" /\ snap'[q] = snap[q] /\ stale'[q] = stale[q])
    BY DEF GetResource, TypeInv, TypeOK
  <1>4. \A r, c : (InSync(r, c)' <=> InSync(r, c)) /\ (Recorded(r, c)' <=> Recorded(r, c))
    BY <1>1 DEF InSync, Wanted, Existing, Recorded
  <1>5. ReadingsAreCurrent'
    BY <1>1, <1>2, <1>3, <1>4 DEF ReconcileInv, ReadingsAreCurrent
  <1>6. ErrorsAreCounted'
    BY <1>1 DEF ReconcileInv, ErrorsAreCounted
  <1>7. Existing' = Existing /\ FinalConfigs' = FinalConfigs
    BY <1>1 DEF Existing, FinalConfigs
  <1>8. AllConfigsAreTried'
    BY <1>1, <1>2, <1>3, <1>4, <1>7 DEF ReconcileInv, AllConfigsAreTried
  <1>9. ResultsAreFresh'
    BY <1>1 DEF GetResource, TypeInv, TypeOK, ReconcileInv, ResultsAreFresh
  <1> QED
    BY <1>5, <1>6, <1>8, <1>9 DEF ReconcileInv

\* The API configs that Reconcile settles on are all there will be, or none.
LEMMA ValidatedIsFinal ==
    ASSUME TypeOK, AllConfigsAreTried, configChanges = 0
    PROVE  ValidatedApiConfigs = {} \/ ValidatedApiConfigs = FinalConfigs
  BY DEF TypeOK, AllConfigsAreTried, ValidatedApiConfigs, FinalConfigs

\* CheckPreconditions sets out to call the API for every validated API config.
LEMMA CheckReconciles ==
    ASSUME ReconcileInv, TypeInv, NEW p \in Procs, CheckPreconditions(p)
    PROVE  ReconcileInv'
  <1>1. CASE ValidatedApiConfigs = {}
    BY <1>1, NothingIsReconciled, EndReconcileIsQuiet DEF TypeInv, CheckPreconditions,
       clusterVars, configVars
  <1>2. CASE ValidatedApiConfigs # {}
    <2>1. /\ UNCHANGED <<scenario, cluster, status, objects, exports, failures, configChanges,
                         namespacedApiConfigs, cur, snap,
                         stale, results>>
          /\ pc[p] = "check" /\ pc' = [pc EXCEPT ![p] = "call"] /\ todo' = [todo EXCEPT ![p] = ValidatedApiConfigs]
      BY <1>2 DEF CheckPreconditions, clusterVars, configVars
    <2>2. \A r, c : (InSync(r, c)' <=> InSync(r, c)) /\ (Recorded(r, c)' <=> Recorded(r, c))
      BY <2>1 DEF InSync, Wanted, Existing, Recorded
    <2>3. \A q \in Procs : /\ pc'[q] = IF q = p THEN "call" ELSE pc[q]
                           /\ todo'[q] = IF q = p THEN ValidatedApiConfigs ELSE todo[q]
      BY <2>1 DEF TypeInv, TypeOK
    <2>4. \A c \in Configs : results[p][c] # "ok"
      BY <2>1 DEF ReconcileInv, ResultsAreFresh, NoResults
    <2>5. ReadingsAreCurrent'
      BY <2>1, <2>2, <2>3, <2>4 DEF ReconcileInv, ReadingsAreCurrent
    <2>6. ErrorsAreCounted'
      BY <2>1 DEF ReconcileInv, ErrorsAreCounted
    <2>7. Existing' = Existing /\ FinalConfigs' = FinalConfigs
      BY <2>1 DEF Existing, FinalConfigs
    <2>8. AllConfigsAreTried'
      BY <1>2, <2>1, <2>2, <2>3, <2>7, ValidatedIsFinal DEF ReconcileInv,
         AllConfigsAreTried, TypeInv
    <2>9. ResultsAreFresh'
      BY <2>1, <2>3 DEF ReconcileInv, ResultsAreFresh
    <2> QED
      BY <2>5, <2>6, <2>8, <2>9 DEF ReconcileInv
  <1> QED
    BY <1>1, <1>2

\* A call for a resource that is as it was read leaves the object in sync or alone.
LEMMA CallsBringInSync ==
    ASSUME ReconcileInv, TypeInv, scenario.quietSync, NEW p \in Procs, NEW d \in Configs, CallApi(p, d)
    PROVE  /\ \A r \in Resources, c \in Configs : InSync(r, c) => InSync(r, c)'
           /\ results'[p][d] = "ok" => InSync(cur[p], d)'
  <1>1. PICK outcome \in {"ok"} \cup scenario.failureCodes, landed \in BOOLEAN :
          /\ outcome = "ok" => landed
          /\ objects' = IF landed THEN [objects EXCEPT ![d][cur[p]] = MapResourceToApiCalls(snap[p])] ELSE objects
          /\ results' = [results EXCEPT ![p][d] = outcome]
    BY DEF CallApi
  <1>2. cur[p] \in Resources /\ snap[p] = cluster[cur[p]] /\ UNCHANGED <<cluster, cur>>
    BY DEF CallApi, TypeInv, TypeOK, ReconcileInv, ReadingsAreCurrent, clusterVars
  <1>3. \A r : Wanted(r)' = Wanted(r)
    BY <1>2 DEF Wanted, Existing
  <1>4. MapResourceToApiCalls(snap[p]) = Wanted(cur[p])
    BY <1>2 DEF MapResourceToApiCalls, Wanted, Existing
  <1>5. results'[p][d] = outcome
    BY <1>1 DEF TypeInv, TypeOK
  <1>6. landed => objects'[d][cur[p]] = Wanted(cur[p])
    BY <1>1, <1>2, <1>4 DEF TypeInv, TypeOK
  <1>7. ASSUME NEW r \in Resources, NEW c \in Configs, InSync(r, c) PROVE objects'[c][r] = Wanted(r)
    <2>1. objects[c][r] = Wanted(r) /\ DOMAIN objects = Configs /\ \A e \in Configs : DOMAIN objects[e] = Resources
      BY <1>7 DEF InSync, TypeInv, TypeOK
    <2>2. CASE c = d /\ r = cur[p] /\ landed
      BY <1>6, <2>2
    <2>3. CASE ~(c = d /\ r = cur[p]) \/ ~landed
      <3>1. objects'[c][r] = objects[c][r]
        BY <1>1, <2>1, <2>3
      <3> QED
        BY <2>1, <3>1
    <2> QED
      BY <2>2, <2>3
  <1> QED
    BY <1>1, <1>2, <1>3, <1>5, <1>6, <1>7 DEF InSync

\* A call of the API brings its object in sync or leaves an error in the results.
LEMMA CallReconciles ==
    ASSUME ReconcileInv, TypeInv, TypeInv', NEW p \in Procs, NEW d \in Configs, CallApi(p, d)
    PROVE  ReconcileInv'
  <1>1. UNCHANGED <<scenario, cluster, status, exports, configChanges, namespacedApiConfigs, pc,
                    cur, snap, stale>>
    BY DEF CallApi, clusterVars, configVars
  <1>2. PICK outcome \in {"ok"} \cup scenario.failureCodes :
          /\ failures' = IF outcome = "ok" THEN failures ELSE failures + 1
          /\ results' = [results EXCEPT ![p][d] = outcome]
    BY DEF CallApi
  <1>3. pc[p] = "call" /\ todo' = [todo EXCEPT ![p] = @ \ {d}]
    BY DEF CallApi
  <1>4. outcome # "none" /\ (outcome \in Errors => outcome # "ok")
    BY ScenariosAssumption DEF TypeInv, Errors
  <1>5. \A q \in Procs, c \in Configs : results'[q][c] = IF q = p /\ c = d THEN outcome ELSE results[q][c]
    BY <1>2 DEF TypeInv, TypeOK
  <1>6. \A q \in Procs, c \in Configs : c \in todo'[q] <=> (c \in todo[q] /\ ~(q = p /\ c = d))
    BY <1>3 DEF TypeInv, TypeOK
  <1>7. ReadingsAreCurrent'
    <2> SUFFICES ASSUME scenario.quietSync
                 PROVE  \A q \in Procs, c \in Configs : (pc[q] = "call" /\ results'[q][c] = "ok") => InSync(cur[q], c)'
      BY <1>1 DEF ReconcileInv, ReadingsAreCurrent
    <2> SUFFICES ASSUME NEW q \in Procs, NEW c \in Configs, pc[q] = "call", results'[q][c] = "ok"
                 PROVE  InSync(cur[q], c)'
      OBVIOUS
    <2>1. cur[q] \in Resources
      BY DEF TypeInv, TypeOK
    <2>2. CASE q = p /\ c = d
      BY <2>2, CallsBringInSync
    <2>3. CASE ~(q = p /\ c = d)
      <3>1. InSync(cur[q], c)
        BY <1>5, <2>3 DEF ReconcileInv, ReadingsAreCurrent
      <3> QED
        BY <1>1, <2>1, <3>1, CallsBringInSync
    <2> QED
      BY <2>2, <2>3
  <1>8. ErrorsAreCounted'
    <2> SUFFICES ASSUME failures' = 0
                 PROVE  \A q \in Procs, c \in Configs : results'[q][c] \notin Errors
      BY <1>1, <1>2, <1>4 DEF ReconcileInv, ErrorsAreCounted, TypeInv
    <2>1. outcome = "ok" /\ failures = 0
      BY <1>2 DEF TypeInv
    <2> QED
      BY <1>5, <2>1 DEF ReconcileInv, ErrorsAreCounted, Errors
  <1>9. ResultsAreFresh'
    BY <1>1, <1>2, <1>3 DEF ReconcileInv, ResultsAreFresh, TypeInv, TypeOK
  <1>10. Existing' = Existing /\ FinalConfigs' = FinalConfigs /\ Existing \subseteq Resources
    BY <1>1 DEF Existing, FinalConfigs
  <1>11. FinalConfigs \subseteq Configs
    BY ScenariosAssumption DEF FinalConfigs, Configs, TypeInv, TypeOK
  <1>12. AllConfigsAreTried'
    <2> SUFFICES ASSUME configChanges = 0
                 PROVE  /\ \A q \in Procs : pc[q] = "call" => \A c \in FinalConfigs : c \in todo'[q] \/ results'[q][c] # "none"
                        /\ scenario.quietSync =>
                             \A q \in Procs : (pc[q] \in {"check", "call"} /\ stale[q] /\ cur[q] \in Existing) =>
                                 \A c \in FinalConfigs : Recorded(cur[q], c)'
      BY <1>1, <1>10 DEF ReconcileInv, AllConfigsAreTried
    <2>1. \A q \in Procs : pc[q] = "call" => \A c \in FinalConfigs : c \in todo'[q] \/ results'[q][c] # "none"
      BY <1>4, <1>5, <1>6, <1>11 DEF ReconcileInv, AllConfigsAreTried
    <2>2. ASSUME scenario.quietSync, NEW q \in Procs, pc[q] \in {"check", "call"}, stale[q], cur[q] \in Existing,
                 NEW c \in FinalConfigs
          PROVE  Recorded(cur[q], c)'
      <3>1. Recorded(cur[q], c) /\ cur[q] \in Resources /\ c \in Configs
        BY <1>10, <1>11, <2>2 DEF ReconcileInv, AllConfigsAreTried
      <3> QED
        BY <1>1, <2>2, <3>1, CallsBringInSync DEF Recorded
    <2> QED
      BY <2>1, <2>2
  <1> QED
    BY <1>7, <1>8, <1>9, <1>12 DEF ReconcileInv

\* Whoever writes a status has something to say on every API config.
LEMMA WrittenStatusRecords ==
    ASSUME ReconcileInv, TypeInv, scenario.quietSync, configChanges = 0,
           NEW p \in Procs, WriteStatus(p), snap[p] # Absent, ~stale[p], NEW c \in FinalConfigs
    PROVE  InSync(cur[p], c) \/ status'[cur[p]][c] \in Errors
  <1>1. c \in Configs
    BY ScenariosAssumption DEF FinalConfigs, Configs, TypeInv, TypeOK
  <1>2. pc[p] = "call" /\ todo[p] = {} /\ status' = [status EXCEPT ![cur[p]] = results[p]]
    BY DEF WriteStatus
  <1>3. cur[p] \in Resources /\ results[p][c] \in Outcomes
    BY <1>1, <1>2 DEF TypeInv, TypeOK
  <1>4. results[p][c] # "none" /\ (results[p][c] = "ok" => InSync(cur[p], c))
    BY <1>1, <1>2 DEF ReconcileInv, ReadingsAreCurrent, AllConfigsAreTried
  <1>5. status'[cur[p]][c] = results[p][c]
    BY <1>2, <1>3 DEF TypeInv, TypeOK
  <1> QED
    BY <1>3, <1>4, <1>5 DEF Outcomes, Errors

\* The last step of Reconcile: the results go to the status, unless another goroutine was first.
LEMMA WriteStatusReconciles ==
    ASSUME ReconcileInv, TypeInv, NEW p \in Procs, WriteStatus(p)
    PROVE  ReconcileInv'
  <1>1. UNCHANGED <<scenario, cluster, objects, exports, configChanges, namespacedApiConfigs,
                    todo, failures>>
    BY DEF WriteStatus, configVars
  <1>2. \A q \in Procs :
          /\ pc'[q] \in {"check", "call"} => q # p
          /\ q # p => pc'[q] = pc[q] /\ cur'[q] = cur[q] /\ snap'[q] = snap[q] /\ results'[q] = results[q]
          /\ results'[p] = NoResults
    BY DEF WriteStatus, TypeInv, TypeOK
  <1>3. \A r, c : InSync(r, c)' <=> InSync(r, c)
    BY <1>1 DEF InSync, Wanted, Existing
  <1>4. status' = status \/ (~stale[p] /\ snap[p] # Absent /\ status' = [status EXCEPT ![cur[p]] = results[p]])
    BY DEF WriteStatus
  <1>5. pc[p] = "call" /\ cur[p] \in Resources
    BY DEF WriteStatus, TypeInv, TypeOK
  <1>6. ReadingsAreCurrent' /\ ResultsAreFresh'
    BY <1>1, <1>2, <1>3 DEF ReconcileInv, ReadingsAreCurrent, ResultsAreFresh
  <1>7. ErrorsAreCounted'
    <2> SUFFICES ASSUME failures = 0
                 PROVE  /\ \A q \in Procs, c \in Configs : results'[q][c] \notin Errors
                        /\ \A r \in Resources, c \in Configs : status'[r][c] \notin Errors
      BY <1>1 DEF ErrorsAreCounted
    <2>1. \A q \in Procs, c \in Configs : results[q][c] \notin Errors /\ NoResults[c] \notin Errors
      BY DEF ReconcileInv, ErrorsAreCounted, NoResults, Errors
    <2>2. \A r \in Resources, c \in Configs : status'[r][c] \notin Errors
      BY <1>4, <1>5, <2>1 DEF ReconcileInv, ErrorsAreCounted, TypeInv, TypeOK
    <2> QED
      BY <1>2, <2>1, <2>2
  <1>8. Existing' = Existing /\ FinalConfigs' = FinalConfigs
    BY <1>1 DEF Existing, FinalConfigs
  <1>9. AllConfigsAreTried'
    <2> SUFFICES ASSUME configChanges = 0
                 PROVE  /\ \A q \in Procs : pc'[q] = "call" => \A c \in FinalConfigs : c \in todo[q] \/ results'[q][c] # "none"
                        /\ scenario.quietSync =>
                             \A q \in Procs : (pc'[q] \in {"check", "call"} /\ stale'[q] /\ cur'[q] \in Existing) =>
                                 \A c \in FinalConfigs : Recorded(cur[q], c)'
      BY <1>1, <1>8 DEF ReconcileInv, AllConfigsAreTried
    <2>1. \A q \in Procs : pc'[q] = "call" => \A c \in FinalConfigs : c \in todo[q] \/ results'[q][c] # "none"
      BY <1>2 DEF ReconcileInv, AllConfigsAreTried
    <2>2. ASSUME scenario.quietSync, NEW q \in Procs, pc'[q] \in {"check", "call"}, stale'[q], cur'[q] \in Existing,
                 NEW c \in FinalConfigs
          PROVE  InSync(cur[q], c) \/ status'[cur[q]][c] \in Errors
      <3>1. q # p /\ pc[q] \in {"check", "call"} /\ cur[q] \in Existing
        BY <1>2, <2>2
      <3>2. CASE cur[q] = cur[p] /\ snap[p] # Absent /\ ~stale[p]
        BY <2>2, <3>2, WrittenStatusRecords
      <3>3. CASE cur[q] # cur[p] \/ snap[p] = Absent \/ stale[p]
        <4>1. status'[cur[q]] = status[cur[q]]
          BY <1>4, <1>5, <3>1, <3>3 DEF TypeInv, TypeOK, Existing
        <4>2. stale[q]
          BY <2>2, <3>1, <3>3 DEF WriteStatus, Invalidate, TypeInv, TypeOK
        <4>3. Recorded(cur[q], c)
          BY <2>2, <3>1, <4>2 DEF ReconcileInv, AllConfigsAreTried
        <4> QED
          BY <4>1, <4>3 DEF Recorded
      <3> QED
        BY <3>2, <3>3
    <2>3. ASSUME NEW q \in Procs, pc'[q] \in {"check", "call"}, NEW c, InSync(cur[q], c) \/ status'[cur[q]][c] \in Errors
          PROVE  Recorded(cur[q], c)'
      BY <1>2, <1>3, <2>3 DEF Recorded
    <2> QED
      BY <2>1, <2>2, <2>3
  <1> QED
    BY <1>6, <1>7, <1>9 DEF ReconcileInv

\* Nobody is busy with a resource that changes.
LEMMA ChangeReconciles ==
    ASSUME ReconcileInv, TypeInv, NEW r \in Resources, NEW new, ChangeResource(r, new)
    PROVE  ReconcileInv'
  <1>1. UNCHANGED <<scenario, objects, exports, configChanges, namespacedApiConfigs, pc, cur,
                    snap, todo, results, failures>>
    BY DEF ChangeResource, configVars
  <1>2. \A s \in Resources : s # r => cluster'[s] = cluster[s] /\ status'[s] = status[s]
    BY DEF ChangeResource, TypeInv, TypeOK
  <1>3. scenario.quietSync => \A p \in Procs : cur[p] # r
    BY DEF ChangeResource
  <1>4. \A p \in Procs : pc[p] \in {"check", "call"} => cur[p] \in Resources
    BY DEF TypeInv, TypeOK
  <1>5. \A s \in Resources : \A c : s # r => (InSync(s, c)' <=> InSync(s, c)) /\ (Recorded(s, c)' <=> Recorded(s, c))
    BY <1>1, <1>2 DEF InSync, Recorded, Wanted, Existing
  <1>6. ReadingsAreCurrent' /\ ResultsAreFresh'
    BY <1>1, <1>2, <1>3, <1>4, <1>5 DEF ReconcileInv, ReadingsAreCurrent, ResultsAreFresh
  <1>7. ErrorsAreCounted'
    <2>1. \A c \in Configs : NoResults[c] \notin Errors
      BY DEF NoResults, Errors
    <2>2. status' = status \/ status' = [status EXCEPT ![r] = NoResults]
      BY DEF ChangeResource
    <2> QED
      BY <1>1, <2>1, <2>2 DEF ReconcileInv, ErrorsAreCounted, TypeInv, TypeOK
  <1>8. \A p \in Procs : (stale'[p] /\ cur[p] # r) => stale[p]
    BY DEF ChangeResource, Invalidate
  <1>9. \A s \in Resources : s # r => (s \in Existing' <=> s \in Existing)
    BY <1>2 DEF Existing
  <1>10. FinalConfigs' = FinalConfigs
    BY <1>1 DEF FinalConfigs
  <1>11. AllConfigsAreTried'
    BY <1>1, <1>3, <1>4, <1>5, <1>8, <1>9, <1>10 DEF ReconcileInv, AllConfigsAreTried
  <1> QED
    BY <1>6, <1>7, <1>11 DEF ReconcileInv

\* A change of the export is counted; then nothing is claimed of the API configs of earlier calls.
LEMMA ExportsReconcile ==
    ASSUME ReconcileInv, TypeInv, NEW e, ChangeExports(e)
    PROVE  ReconcileInv'
  <1>1. UNCHANGED <<scenario, objects, status, cluster, pc, cur, snap, todo, results, failures>>
    BY DEF ChangeExports, procVars
  <1>2. configChanges' # 0
    BY DEF ChangeExports, TypeInv
  <1>3. \A s, c : InSync(s, c)' <=> InSync(s, c)
    BY <1>1 DEF InSync, Wanted, Existing
  <1> QED
    BY <1>1, <1>2, <1>3 DEF ReconcileInv, ReadingsAreCurrent, ResultsAreFresh,
       ErrorsAreCounted, AllConfigsAreTried

\* No initial synchronization has been started yet.
NotStarted == ~initialSyncInProgress /\ ~initialSyncHasHappened

\* Somebody will come to the resource.
Coming(r) ==
    \/ r \in queue \/ reconcilerPc = "lock" \/ NotStarted
    \/ \E p \in Procs : r \in list[p] \/ pc[p] = "list"

\* A goroutine that is busy with the resource will call the API, or write down that it failed.
UnderWay(p, r, c) ==
    /\ cur[p] = r
    /\ \/ pc[p] \in {"get", "check"}
       \/ pc[p] = "call" /\ (c \in todo[p] \/ (results[p][c] \in Errors /\ ~stale[p]))

\* The resource is in sync with the API config, carries its error, or somebody is on the way.
CaredFor(r, c) == Recorded(r, c) \/ Coming(r) \/ \E p \in Procs : UnderWay(p, r, c)

\* The heart of the invariant: somebody cares for every resource and every API config.
NothingIsForgotten == Undisturbed => \A r \in Existing, c \in ValidatedApiConfigs : CaredFor(r, c)

\* The flags keep track of the initial synchronization, which needs leadership and the
\* default API config: as long as it has not been started, somebody is about to.
InitialSyncComes ==
    /\ reconcilerPc # "changed" => namespacedApiConfigs = exports
    /\ (initialSyncHasHappened \/ initialSyncInProgress) => isLeader /\ defaultApiConfigs # {}
    /\ crdChanges = 0 => ~crdChanged /\ callerPc["crd"] # "reset"
    /\ pc["controller"] \notin {"list", "loop"} /\ list["controller"] = {}
    /\ Undisturbed =>
         /\ pc["initial"] = "returning" => initialSyncHasHappened
         /\ (NotStarted /\ isLeader /\ defaultApiConfigs # {}) => \E c \in Callers : callerPc[c] \in {"enter", "decide"}
         /\ \A p \in Procs : pc[p] \in {"idle", "returning"} => list[p] = {}

\* Who is still going to come to a resource.
DueInv == InitialSyncComes /\ NothingIsForgotten

\* Initially nothing has been synchronized, and the initial synchronization is still to come.
LEMMA InitDue == Init => DueInv
  <1> SUFFICES ASSUME Init PROVE DueInv
    OBVIOUS
  <1>1. InitialSyncComes
    BY DEF Init, InitialSyncComes, Procs, Callers
  <1>2. \A r : Coming(r)
    BY DEF Init, Coming, NotStarted
  <1> QED
    BY <1>1, <1>2 DEF DueInv, NothingIsForgotten, CaredFor

\* Steps after which nothing is claimed any more.
LEMMA Disturbed ==
    ASSUME DueInv, ~Undisturbed',
           UNCHANGED <<reconcilerPc, namespacedApiConfigs, exports, initialSyncHasHappened,
                       initialSyncInProgress, isLeader,
                       defaultApiConfigs, crdChanges, crdChanged, callerPc>>,
           pc'["controller"] \notin {"list", "loop"}, list'["controller"] = {}
    PROVE  DueInv'
  BY DEF DueInv, InitialSyncComes, NothingIsForgotten

\* The steps of Reconcile leave alone what decides on the synchronizations to come.
LEMMA StepsOfReconcile ==
    ASSUME TypeInv, InitialSyncComes, NEW p \in Procs, ReconcileStep(p)
    PROVE  /\ InitialSyncComes' /\ (Undisturbed' => Undisturbed)
           /\ Existing' = Existing /\ ValidatedApiConfigs' = ValidatedApiConfigs
           /\ \A r : Coming(r) => Coming(r)'
  <1> USE DEF ReconcileStep
  <1>1. /\ UNCHANGED <<scenario, cluster, reconcilerPc, namespacedApiConfigs, exports,
                       initialSyncHasHappened,
                       initialSyncInProgress, isLeader, defaultApiConfigs, crdChanges, crdChanged, callerPc,
                       conflictingCrdDetected, configChanges, list>>
        /\ queue \subseteq queue'
    BY DEF SkipOnConflict, GetResource, GetFails, CheckPreconditions, CallApi, WriteStatus,
       clusterVars, configVars, syncVars
  <1>2. (failures' = 0 => failures = 0) /\ (readFailures' = 0 => readFailures = 0)
    BY DEF SkipOnConflict, GetResource, GetFails, CheckPreconditions, CallApi, WriteStatus,
       TypeInv
  <1>3. Undisturbed' => Undisturbed
    BY <1>1, <1>2 DEF Undisturbed
  <1>4. /\ \A q \in Procs : q # p => pc'[q] = pc[q]
        /\ pc[p] \in {"get", "check", "call"} /\ pc'[p] \notin {"list", "returning"}
        /\ pc'[p] \in {"idle", "loop"} => (p = "controller" <=> pc'[p] = "idle")
    BY DEF SkipOnConflict, GetResource, GetFails, CheckPreconditions, CallApi, WriteStatus,
       EndReconcile, TypeInv, TypeOK
  <1>5. \A r : Coming(r) => Coming(r)'
    BY <1>1, <1>4 DEF Coming, NotStarted
  <1>7. InitialSyncComes'
    BY <1>1, <1>3, <1>4 DEF InitialSyncComes, NotStarted, Procs
  <1> QED
    BY <1>1, <1>3, <1>5, <1>7 DEF Existing, ValidatedApiConfigs

\* Reconcile goes on or returns.
LEMMA ReconcileKeepsDue ==
    ASSUME TypeInv, ReconcileInv, DueInv, NEW p \in Procs, ReconcileStep(p)
    PROVE  DueInv'
  <1>1. /\ InitialSyncComes' /\ (Undisturbed' => Undisturbed)
        /\ Existing' = Existing /\ ValidatedApiConfigs' = ValidatedApiConfigs
        /\ \A r : Coming(r) => Coming(r)'
    BY StepsOfReconcile DEF DueInv
  <1> SUFFICES ASSUME Undisturbed', Undisturbed, NEW r \in Existing, NEW c \in ValidatedApiConfigs, CaredFor(r, c)
               PROVE  CaredFor(r, c)'
    BY <1>1 DEF DueInv, NothingIsForgotten
  <1>2. ASSUME NEW q \in Procs, q # p, UnderWay(q, r, c), stale'[q] = stale[q]
        PROVE  UnderWay(q, r, c)'
    <2>1. pc'[q] = pc[q] /\ cur'[q] = cur[q] /\ todo'[q] = todo[q] /\ results'[q] = results[q]
      BY <1>2 DEF ReconcileStep, SkipOnConflict, GetResource, GetFails, CheckPreconditions,
         CallApi, WriteStatus, EndReconcile,
         TypeInv, TypeOK
    <2> QED
      BY <1>2, <2>1 DEF UnderWay
  <1>3. r \in Resources /\ c \in Configs
    BY ScenariosAssumption DEF Existing, ValidatedApiConfigs, TypeInv, TypeOK, Configs
  <1>4. CASE SkipOnConflict(p) \/ GetFails(p)
    <2>1. conflictingCrdDetected' \/ readFailures' # 0
      BY <1>4 DEF SkipOnConflict, GetFails, configVars, TypeInv
    <2> QED
      BY <2>1 DEF Undisturbed
  <1>5. CASE GetResource(p)
    <2>1. UNCHANGED <<cluster, status, objects>> /\ \A q \in Procs : q # p => stale'[q] = stale[q]
      BY <1>5 DEF GetResource, clusterVars, TypeInv, TypeOK
    <2>2. Recorded(r, c) => Recorded(r, c)'
      BY <2>1 DEF Recorded, InSync, Wanted, Existing
    <2>3. UnderWay(p, r, c) => UnderWay(p, r, c)'
      BY <1>5 DEF GetResource, UnderWay, TypeInv, TypeOK
    <2> QED
      BY <1>1, <1>2, <2>1, <2>2, <2>3 DEF CaredFor
  <1>6. CASE CheckPreconditions(p)
    <2>1. UNCHANGED <<cluster, status, objects, stale>> /\ pc' = [pc EXCEPT ![p] = "call"] /\ todo' = [todo EXCEPT ![p] = ValidatedApiConfigs]
          /\ UNCHANGED cur
      BY <1>6 DEF CheckPreconditions, clusterVars
    <2>2. Recorded(r, c) => Recorded(r, c)'
      BY <2>1 DEF Recorded, InSync, Wanted, Existing
    <2>3. UnderWay(p, r, c) => UnderWay(p, r, c)'
      BY <2>1 DEF UnderWay, TypeInv, TypeOK
    <2> QED
      BY <1>1, <1>2, <2>1, <2>2, <2>3 DEF CaredFor
  <1>7. ASSUME NEW d \in Configs, CallApi(p, d) PROVE CaredFor(r, c)'
    <2>1. UNCHANGED <<cluster, status, stale, pc, cur>>
      BY <1>7 DEF CallApi, clusterVars
    <2>2. scenario.quietSync
      BY DEF Undisturbed
    <2>3. Recorded(r, c) => Recorded(r, c)'
      BY <1>3, <1>7, <2>1, <2>2, CallsBringInSync DEF Recorded
    <2>4. ASSUME UnderWay(p, r, c) PROVE UnderWay(p, r, c)' \/ Recorded(r, c)'
      <3>1. pc[p] = "call" /\ cur[p] = r
        BY <1>7, <2>4 DEF CallApi, UnderWay
      <3>2. CASE c # d
        <4>1. (c \in todo'[p] <=> c \in todo[p]) /\ results'[p][c] = results[p][c]
          BY <1>3, <1>7, <3>2 DEF CallApi, TypeInv, TypeOK
        <4> QED
          BY <2>1, <2>4, <4>1 DEF UnderWay
      <3>3. CASE c = d
        <4>1. results'[p][d] \in {"ok"} \cup Errors
          <5>1. PICK outcome \in {"ok"} \cup scenario.failureCodes : results' = [results EXCEPT ![p][d] = outcome]
            BY <1>7 DEF CallApi
          <5>2. results'[p][d] = outcome
            BY <5>1 DEF TypeInv, TypeOK
          <5>3. scenario.failureCodes \subseteq Errors
            BY ScenariosAssumption DEF TypeInv, Errors
          <5> QED
            BY <5>2, <5>3
        <4>2. CASE results'[p][d] = "ok"
          BY <1>7, <2>1, <2>2, <3>1, <3>3, <4>2, CallsBringInSync DEF Recorded
        <4>3. CASE results'[p][d] \in Errors /\ ~stale[p]
          BY <2>1, <3>1, <3>3, <4>3 DEF UnderWay
        <4>4. CASE results'[p][d] \in Errors /\ stale[p]
          <5>1. failures' # 0
            BY <1>7, <4>4 DEF CallApi, Errors, TypeInv, TypeOK
          <5>2. configChanges = 0
            BY <5>1, <1>7 DEF Undisturbed, CallApi, clusterVars
          <5>3. c \in FinalConfigs
            BY <5>2, ValidatedIsFinal DEF ReconcileInv, TypeInv
          <5>4. Recorded(r, c)
            BY <2>2, <3>1, <4>4, <5>2, <5>3 DEF ReconcileInv, AllConfigsAreTried
          <5> QED
            BY <2>3, <5>4
        <4> QED
          BY <4>1, <4>2, <4>3, <4>4
      <3> QED
        BY <3>2, <3>3
    <2> QED
      BY <1>1, <1>2, <2>1, <2>3, <2>4 DEF CaredFor
  <1>8. CASE WriteStatus(p)
    <2>1. UNCHANGED <<cluster, objects, failures, configChanges>>
      BY <1>8 DEF WriteStatus
    <2>2. InSync(r, c) => InSync(r, c)'
      BY <2>1 DEF InSync, Wanted, Existing
    <2>3. CASE cur[p] # r \/ snap[p] = Absent \/ stale[p]
      <3>1. status'[r] = status[r]
        BY <1>3, <1>8, <2>3 DEF WriteStatus, TypeInv, TypeOK
      <3>2. \A q \in Procs : (q # p /\ cur[q] = r) => stale'[q] = stale[q]
        BY <1>8, <2>3 DEF WriteStatus, Invalidate, TypeInv, TypeOK
      <3>3. ~UnderWay(p, r, c)
        <4>1. cur[p] = r => snap[p] # Absent
          BY <1>8 DEF WriteStatus, ReconcileInv, ReadingsAreCurrent, Undisturbed, Existing
        <4> QED
          BY <1>8, <2>3, <4>1 DEF WriteStatus, UnderWay
      <3> QED
        BY <1>1, <1>2, <2>2, <3>1, <3>2, <3>3 DEF CaredFor, Recorded, UnderWay
    <2>4. CASE cur[p] = r /\ snap[p] # Absent /\ ~stale[p]
      <3>1. CASE failures = 0
        <4>1. ~UnderWay(p, r, c) /\ status[r][c] \notin Errors
          BY <1>3, <1>8, <3>1 DEF WriteStatus, UnderWay, ReconcileInv, ErrorsAreCounted
        <4>2. ASSUME NEW q \in Procs, q # p, UnderWay(q, r, c) PROVE UnderWay(q, r, c)'
          <5>1. pc'[q] = pc[q] /\ cur'[q] = cur[q] /\ todo'[q] = todo[q]
            BY <1>8, <4>2 DEF WriteStatus, TypeInv, TypeOK
          <5>2. results[q][c] \notin Errors
            BY <1>3, <3>1 DEF ReconcileInv, ErrorsAreCounted
          <5> QED
            BY <4>2, <5>1, <5>2 DEF UnderWay
        <4> QED
          BY <1>1, <2>2, <4>1, <4>2 DEF CaredFor, Recorded
      <3>2. CASE configChanges = 0
        <4>1. c \in FinalConfigs
          BY <3>2, ValidatedIsFinal DEF ReconcileInv, TypeInv
        <4>2. InSync(r, c) \/ status'[r][c] \in Errors
          BY <1>8, <2>4, <3>2, <4>1, WrittenStatusRecords DEF Undisturbed
        <4> QED
          BY <2>2, <4>2 DEF CaredFor, Recorded
      <3> QED
        BY <3>1, <3>2 DEF Undisturbed
    <2> QED
      BY <2>3, <2>4
  <1> QED
    BY <1>4, <1>5, <1>6, <1>7, <1>8 DEF ReconcileStep

\* Steps outside of Reconcile: whoever was to come to a resource still is, or has arrived.
LEMMA StillDue ==
    ASSUME TypeInv, DueInv, InitialSyncComes',
           UNCHANGED <<scenario, cluster, status, objects, exports, namespacedApiConfigs,
                       defaultApiConfigs,
                       conflictingCrdDetected, crdChanges, configChanges, failures, readFailures, todo, results, stale>>,
           \A q \in Procs : pc[q] \in {"get", "check", "call"} => pc'[q] = pc[q] /\ cur'[q] = cur[q],
           \A r \in Existing : Undisturbed /\ Coming(r) =>
               Coming(r)' \/ \E q \in Procs : cur'[q] = r /\ pc'[q] = "get"
    PROVE  DueInv'
  <1>1. Existing' = Existing /\ ValidatedApiConfigs' = ValidatedApiConfigs /\ (Undisturbed' <=> Undisturbed)
    BY DEF Existing, ValidatedApiConfigs, Undisturbed
  <1> SUFFICES ASSUME Undisturbed, NEW r \in Existing, NEW c \in ValidatedApiConfigs, CaredFor(r, c)
               PROVE  CaredFor(r, c)'
    BY <1>1 DEF DueInv, NothingIsForgotten
  <1>2. Recorded(r, c) => Recorded(r, c)'
    BY DEF Recorded, InSync, Wanted, Existing
  <1>3. ASSUME NEW q \in Procs, UnderWay(q, r, c) PROVE UnderWay(q, r, c)'
    BY <1>3 DEF UnderWay
  <1>4. ASSUME Coming(r) PROVE Coming(r)' \/ \E q \in Procs : UnderWay(q, r, c)'
    <2>1. CASE Coming(r)'
      BY <2>1
    <2>2. ASSUME NEW q \in Procs, cur'[q] = r, pc'[q] = "get" PROVE UnderWay(q, r, c)'
      BY <2>2 DEF UnderWay
    <2> QED
      BY <1>4, <2>1, <2>2
  <1> QED
    BY <1>2, <1>3, <1>4 DEF CaredFor

\* Listing the resources and taking the next one of the list forgets none of them.
LEMMA ListsKeepDue ==
    ASSUME TypeInv, DueInv, NEW p \in Procs, ListResources(p) \/ ReconcileNext(p)
    PROVE  DueInv'
  <1> USE DEF DueInv
  <1>1. UNCHANGED <<scenario, cluster, status, objects, exports, namespacedApiConfigs,
                    defaultApiConfigs, reconcilerPc, callerPc,
                    isLeader, crdChanged, conflictingCrdDetected, crdChanges, configChanges, failures, readFailures, todo,
                    results, stale, queue, initialSyncHasHappened, initialSyncInProgress>>
    BY DEF ListResources, ReconcileNext, clusterVars, configVars, syncVars
  <1>2. /\ pc[p] \in {"list", "loop"} /\ pc'[p] \in {"loop", "get"}
        /\ \A q \in Procs : q # p => pc'[q] = pc[q] /\ cur'[q] = cur[q] /\ list'[q] = list[q]
    BY DEF ListResources, ReconcileNext, StartReconcile, TypeInv, TypeOK
  <1>3. p # "controller"
    BY <1>2 DEF InitialSyncComes
  <1>4. InitialSyncComes'
    BY <1>1, <1>2, <1>3 DEF InitialSyncComes, Undisturbed, NotStarted, Procs
  <1>5. ASSUME NEW r \in Existing, Coming(r)
        PROVE  Coming(r)' \/ \E q \in Procs : cur'[q] = r /\ pc'[q] = "get"
    <2>1. CASE ListResources(p)
      <3>1. r \in list'[p]
        BY <2>1 DEF ListResources, TypeInv, TypeOK
      <3> QED
        BY <3>1 DEF Coming
    <2>2. CASE ReconcileNext(p)
      <3>1. PICK s \in list[p] : list' = [list EXCEPT ![p] = @ \ {s}] /\ StartReconcile(p, s)
        BY <2>2 DEF ReconcileNext
      <3>2. cur'[p] = s /\ pc'[p] = "get" /\ list'[p] = list[p] \ {s} /\ pc[p] # "list"
        BY <2>2, <3>1 DEF ReconcileNext, StartReconcile, TypeInv, TypeOK
      <3> QED
        BY <1>1, <1>2, <1>5, <3>2 DEF Coming, NotStarted
    <2> QED
      BY <2>1, <2>2
  <1>6. \A q \in Procs : pc[q] \in {"get", "check", "call"} => pc'[q] = pc[q] /\ cur'[q] = cur[q]
    BY <1>2
  <1> QED
    BY <1>1, <1>4, <1>5, <1>6, StillDue

\* A request that the controller takes from its queue becomes a resource in Reconcile.
LEMMA ControllerKeepsDue ==
    ASSUME TypeInv, DueInv, NEW s \in Resources, ControllerTakesRequest(s)
    PROVE  DueInv'
  <1> USE DEF DueInv
  <1>1. UNCHANGED <<scenario, cluster, status, objects, exports, namespacedApiConfigs,
                    defaultApiConfigs, reconcilerPc, callerPc,
                    isLeader, crdChanged, conflictingCrdDetected, crdChanges, configChanges, failures, readFailures, todo,
                    results, stale, list, initialSyncHasHappened, initialSyncInProgress>>
    BY DEF ControllerTakesRequest, clusterVars, configVars, syncVars
  <1>2. /\ pc["controller"] = "idle" /\ pc'["controller"] = "get" /\ cur'["controller"] = s /\ queue' = queue \ {s}
        /\ \A q \in Procs : q # "controller" => pc'[q] = pc[q] /\ cur'[q] = cur[q]
    BY DEF ControllerTakesRequest, StartReconcile, TypeInv, TypeOK, Procs
  <1>3. InitialSyncComes'
    BY <1>1, <1>2 DEF InitialSyncComes, Undisturbed, NotStarted, Procs
  <1>4. ASSUME NEW r \in Existing, Coming(r)
        PROVE  Coming(r)' \/ \E q \in Procs : cur'[q] = r /\ pc'[q] = "get"
    <2>1. "controller" \in Procs
      BY DEF Procs
    <2> QED
      BY <1>1, <1>2, <1>4, <2>1 DEF Coming, NotStarted
  <1>5. \A q \in Procs : pc[q] \in {"get", "check", "call"} => pc'[q] = pc[q] /\ cur'[q] = cur[q]
    BY <1>2
  <1> QED
    BY <1>1, <1>3, <1>4, <1>5, StillDue

\* A goroutine has come to the end of its list, or the retries begin.
LEMMA EndsKeepDue ==
    ASSUME TypeInv, SyncsAreFlagged, DueInv, NEW p \in Procs,
           \/ p = "initial" /\ (InitialSyncFinishes \/ InitialSyncReturns)
           \/ p = "namespaced" /\ NamespacedSyncFinishes
           \/ p = "retry" /\ (RetryFailedSynchronizations \/ RetryFinishes)
    PROVE  DueInv'
  <1> USE DEF DueInv
  <1>1. UNCHANGED <<scenario, cluster, status, objects, exports, namespacedApiConfigs,
                    defaultApiConfigs, reconcilerPc, callerPc,
                    isLeader, crdChanged, conflictingCrdDetected, crdChanges, configChanges, failures, readFailures, todo,
                    results, stale, queue, cur>>
    BY DEF InitialSyncFinishes, InitialSyncReturns, NamespacedSyncFinishes,
       RetryFailedSynchronizations, RetryFinishes,
           clusterVars, configVars, syncVars
  <1>2. /\ pc[p] \in {"idle", "loop", "returning"} /\ pc'[p] \in {"idle", "loop", "returning"} /\ p # "controller"
        /\ \A q \in Procs : q # p => pc'[q] = pc[q] /\ list'[q] = list[q]
    BY DEF InitialSyncFinishes, InitialSyncReturns, NamespacedSyncFinishes,
       RetryFailedSynchronizations, RetryFinishes, TypeInv,
           TypeOK
  <1>3. Undisturbed => list[p] = {}
    BY DEF InitialSyncFinishes, InitialSyncReturns, NamespacedSyncFinishes,
       RetryFailedSynchronizations, RetryFinishes,
           InitialSyncComes
  <1>4. pc'[p] \in {"idle", "returning"} => list' = list
    BY DEF InitialSyncFinishes, InitialSyncReturns, NamespacedSyncFinishes,
       RetryFailedSynchronizations, RetryFinishes, TypeInv,
           TypeOK
  <1>5. CASE UNCHANGED <<initialSyncHasHappened, initialSyncInProgress>> /\ pc'["initial"] = pc["initial"]
    <2>1. InitialSyncComes'
      BY <1>1, <1>2, <1>3, <1>4, <1>5 DEF InitialSyncComes, Undisturbed, NotStarted, Procs
    <2>2. \A r \in Existing : Undisturbed /\ Coming(r) => Coming(r)'
      BY <1>1, <1>2, <1>3, <1>5 DEF Coming, NotStarted
    <2> QED
      BY <1>1, <1>2, <2>1, <2>2, StillDue
  <1>6. CASE InitialSyncFinishes \/ InitialSyncReturns
    <2>1. p = "initial" /\ initialSyncInProgress = TRUE
      BY <1>6 DEF InitialSyncFinishes, InitialSyncReturns, SyncsAreFlagged,
         NamespacedSyncFinishes, RetryFailedSynchronizations, RetryFinishes
    <2>2. Undisturbed => initialSyncHasHappened'
      BY <1>6 DEF InitialSyncFinishes, InitialSyncReturns, InitialSyncComes
    <2>3. InitialSyncComes'
      BY <1>1, <1>2, <1>3, <1>4, <2>1, <2>2 DEF InitialSyncComes, Undisturbed, NotStarted,
         Procs
    <2>4. \A r \in Existing : Undisturbed /\ Coming(r) => Coming(r)'
      BY <1>1, <1>2, <1>3, <2>1 DEF Coming, NotStarted
    <2> QED
      BY <1>1, <1>2, <2>3, <2>4, StillDue
  <1> QED
    BY <1>5, <1>6 DEF NamespacedSyncFinishes, RetryFailedSynchronizations, RetryFinishes,
       syncVars, TypeInv, TypeOK, Procs

\* Leadership or the default API config comes, and with it somebody who asks for the initial synchronization.
LEMMA CallersComeKeepDue ==
    ASSUME TypeInv, DueInv, BecomeLeader \/ SetDefaultApiConfigs
    PROVE  DueInv'
  <1> USE DEF DueInv
  <1>1. UNCHANGED <<scenario, cluster, status, objects, exports, namespacedApiConfigs, reconcilerPc,
                    crdChanged, conflictingCrdDetected, crdChanges, configChanges, failures, readFailures, todo,
                    results, stale, queue, cur, pc, list, initialSyncHasHappened, initialSyncInProgress>>
    BY DEF BecomeLeader, SetDefaultApiConfigs, clusterVars, procVars, syncVars
  <1>2. /\ isLeader => isLeader' /\ (defaultApiConfigs # {} => defaultApiConfigs' # {})
        /\ callerPc'["crd"] = callerPc["crd"]
        /\ \E c \in Callers : callerPc'[c] = "enter"
    BY DEF BecomeLeader, SetDefaultApiConfigs, Callers, TypeInv, TypeOK
  <1>3. InitialSyncComes'
    BY <1>1, <1>2 DEF InitialSyncComes, Undisturbed, NotStarted, TypeInv, BecomeLeader,
       SetDefaultApiConfigs
  <1>4. (Undisturbed' <=> Undisturbed) /\ Existing' = Existing /\ \A r : Coming(r)' <=> Coming(r)
    BY <1>1 DEF Undisturbed, Existing, Coming, NotStarted
  <1>5. CASE UNCHANGED defaultApiConfigs
    BY <1>1, <1>3, <1>4, <1>5, StillDue
  <1>6. CASE defaultApiConfigs = {}
    <2>1. NotStarted
      BY <1>6 DEF InitialSyncComes, NotStarted
    <2>2. \A r : Coming(r)'
      BY <1>1, <2>1 DEF Coming, NotStarted
    <2> QED
      BY <1>3, <2>2 DEF NothingIsForgotten, CaredFor
  <1> QED
    BY <1>5, <1>6 DEF BecomeLeader, SetDefaultApiConfigs

\* maybeDoInitialSynchronizationOfAllResources starts the synchronization, or it has been done.
LEMMA CallersKeepDue ==
    ASSUME TypeInv, SyncsAreFlagged, DueInv, NEW d \in Callers, CallerStep(d)
    PROVE  DueInv'
  <1> USE DEF DueInv
  <1>1. UNCHANGED <<scenario, cluster, status, objects, exports, namespacedApiConfigs,
                    defaultApiConfigs, reconcilerPc, isLeader,
                    crdChanged, conflictingCrdDetected, crdChanges, configChanges, failures, readFailures, todo,
                    results, stale, queue, cur, list, initialSyncHasHappened>>
    BY DEF CallerStep, EnterInitialSync, DecideInitialSync, clusterVars, procVars
  <1>2. (Undisturbed' <=> Undisturbed) /\ Existing' = Existing
    BY <1>1 DEF Undisturbed, Existing
  <1>3. \A c \in Callers : callerPc'[c] = "reset" => callerPc[c] = "reset"
    BY DEF CallerStep, EnterInitialSync, DecideInitialSync, TypeInv, TypeOK
  <1>4. "crd" \in Callers
    BY DEF Callers
  <1>5. CASE EnterInitialSync(d)
    <2>1. UNCHANGED <<pc, initialSyncInProgress>>
      BY <1>5 DEF EnterInitialSync, procVars
    <2>2. Undisturbed /\ ~initialSyncHasHappened => callerPc'[d] = "decide"
      BY <1>5 DEF EnterInitialSync, TypeInv, TypeOK, Undisturbed
    <2>3. InitialSyncComes'
      BY <1>1, <1>2, <1>3, <1>4, <2>1, <2>2 DEF InitialSyncComes, NotStarted
    <2>4. \A r : Coming(r)' <=> Coming(r)
      BY <1>1, <2>1 DEF Coming, NotStarted
    <2> QED
      BY <1>1, <2>1, <2>3, <2>4, StillDue
  <1>6. CASE DecideInitialSync(d) /\ (initialSyncInProgress \/ ~isLeader \/ defaultApiConfigs = {})
    <2>1. UNCHANGED <<pc, initialSyncInProgress>>
      BY <1>6 DEF DecideInitialSync
    <2>2. InitialSyncComes'
      BY <1>1, <1>2, <1>3, <1>4, <1>6, <2>1 DEF InitialSyncComes, NotStarted
    <2>3. \A r : Coming(r)' <=> Coming(r)
      BY <1>1, <2>1 DEF Coming, NotStarted
    <2> QED
      BY <1>1, <2>1, <2>2, <2>3, StillDue
  <1>7. CASE DecideInitialSync(d) /\ ~(initialSyncInProgress \/ ~isLeader \/ defaultApiConfigs = {})
    <2>1. /\ initialSyncInProgress' = TRUE /\ pc["initial"] = "idle" /\ pc'["initial"] = "list" /\ isLeader /\ defaultApiConfigs # {}
          /\ \A q \in Procs : q # "initial" => pc'[q] = pc[q]
      BY <1>7 DEF DecideInitialSync, SyncsAreFlagged, TypeInv, TypeOK, Procs
    <2>2. InitialSyncComes'
      BY <1>1, <1>2, <1>3, <1>4, <2>1 DEF InitialSyncComes, NotStarted, Procs
    <2>3. \A r : Coming(r)'
      BY <2>1 DEF Coming, Procs
    <2> QED
      BY <1>1, <2>1, <2>2, <2>3, StillDue
  <1> QED
    BY <1>5, <1>6, <1>7 DEF CallerStep

\* The CRD changes hands, or is found to have done so.
LEMMA CrdKeepsDue ==
    ASSUME TypeInv, DueInv, ChangeCrd \/ SetConflictingCrdDetected \/ ResetInitialSyncHasHappened
    PROVE  DueInv'
  <1> USE DEF DueInv
  <1>1. UNCHANGED <<reconcilerPc, namespacedApiConfigs, exports, isLeader, defaultApiConfigs, pc,
                    list, initialSyncInProgress>>
    BY DEF ChangeCrd, SetConflictingCrdDetected, ResetInitialSyncHasHappened, clusterVars,
       procVars, syncVars
  <1>2. crdChanges' # 0
    BY DEF ChangeCrd, SetConflictingCrdDetected, ResetInitialSyncHasHappened,
       InitialSyncComes, TypeInv, clusterVars
  <1>3. initialSyncHasHappened' => initialSyncHasHappened
    BY DEF ChangeCrd, SetConflictingCrdDetected, ResetInitialSyncHasHappened, syncVars
  <1> QED
    BY <1>1, <1>2, <1>3 DEF InitialSyncComes, NothingIsForgotten, Undisturbed

\* The monitoring reconciler updates the API configs and then synchronizes the namespace.
LEMMA NamespaceKeepsDue ==
    ASSUME TypeInv, SyncsAreFlagged, DueInv, SetNamespacedApiConfigs \/ SynchronizeNamespacedResources
    PROVE  DueInv'
  <1> USE DEF DueInv
  <1>1. UNCHANGED <<scenario, cluster, status, objects, exports, defaultApiConfigs, callerPc,
                    isLeader,
                    crdChanged, conflictingCrdDetected, crdChanges, configChanges, failures, readFailures, todo,
                    results, stale, queue, cur, list, initialSyncHasHappened, initialSyncInProgress>>
    BY DEF SetNamespacedApiConfigs, SynchronizeNamespacedResources, clusterVars, procVars,
       syncVars
  <1>2. (Undisturbed' <=> Undisturbed) /\ Existing' = Existing
    BY <1>1 DEF Undisturbed, Existing
  <1>3. CASE SetNamespacedApiConfigs
    <2>1. UNCHANGED pc /\ namespacedApiConfigs' = exports /\ reconcilerPc = "changed"
      BY <1>3 DEF SetNamespacedApiConfigs, procVars
    <2>2. InitialSyncComes'
      BY <1>1, <1>2, <2>1 DEF InitialSyncComes, NotStarted
    <2>3. CASE exports = namespacedApiConfigs
      <3>1. UNCHANGED namespacedApiConfigs
        BY <2>1, <2>3
      <3>2. \A r : Coming(r) => Coming(r)'
        BY <1>1, <2>1 DEF Coming, NotStarted
      <3> QED
        BY <1>1, <2>1, <2>2, <3>1, <3>2, StillDue
    <2>4. CASE exports # namespacedApiConfigs /\ isLeader
      <3>1. Undisturbed => \A r : Coming(r)'
        BY <1>3, <2>4 DEF SetNamespacedApiConfigs, Coming, Undisturbed
      <3> QED
        BY <1>2, <2>2, <3>1 DEF NothingIsForgotten, CaredFor
    <2>5. CASE ~isLeader
      <3>1. NotStarted
        BY <2>5 DEF InitialSyncComes, NotStarted
      <3>2. \A r : Coming(r)'
        BY <1>1, <3>1 DEF Coming, NotStarted
      <3> QED
        BY <2>2, <3>2 DEF NothingIsForgotten, CaredFor
    <2> QED
      BY <2>3, <2>4, <2>5
  <1>4. CASE SynchronizeNamespacedResources
    <2>1. /\ pc["namespaced"] = "idle" /\ pc'["namespaced"] = "list" /\ reconcilerPc = "lock" /\ UNCHANGED namespacedApiConfigs
          /\ \A q \in Procs : q # "namespaced" => pc'[q] = pc[q]
      BY <1>4 DEF SynchronizeNamespacedResources, SyncsAreFlagged, TypeInv, TypeOK, Procs
    <2>2. InitialSyncComes'
      BY <1>1, <1>2, <2>1 DEF InitialSyncComes, NotStarted, Procs
    <2>3. \A r : Coming(r)'
      BY <2>1 DEF Coming, Procs
    <2> QED
      BY <1>1, <2>1, <2>2, <2>3, StillDue
  <1> QED
    BY <1>3, <1>4

\* A resource that changes is queued.
LEMMA ChangeKeepsDue ==
    ASSUME TypeInv, DueInv, NEW s \in Resources, NEW new, ChangeResource(s, new)
    PROVE  DueInv'
  <1> USE DEF DueInv
  <1>1. UNCHANGED <<scenario, objects, exports, namespacedApiConfigs, defaultApiConfigs,
                    reconcilerPc, callerPc, isLeader,
                    crdChanged, conflictingCrdDetected, crdChanges, configChanges, failures, readFailures, todo,
                    results, cur, pc, list, initialSyncHasHappened, initialSyncInProgress>>
    BY DEF ChangeResource, configVars, syncVars
  <1>2. queue' = queue \cup {s}
    BY DEF ChangeResource
  <1>3. \A r \in Resources : r # s => cluster'[r] = cluster[r] /\ status'[r] = status[r]
    BY DEF ChangeResource, TypeInv, TypeOK
  <1>4. \A q \in Procs : cur[q] # s => (stale'[q] => stale[q])
    BY DEF ChangeResource, Invalidate
  <1>5. InitialSyncComes' /\ (Undisturbed' <=> Undisturbed) /\ ValidatedApiConfigs' = ValidatedApiConfigs
    BY <1>1 DEF InitialSyncComes, Undisturbed, NotStarted, ValidatedApiConfigs
  <1> SUFFICES ASSUME Undisturbed, NEW r \in Existing', NEW c \in ValidatedApiConfigs
               PROVE  CaredFor(r, c)'
    BY <1>5 DEF NothingIsForgotten
  <1>6. CASE r = s
    BY <1>2, <1>6 DEF CaredFor, Coming
  <1>7. CASE r # s
    <2>1. r \in Existing /\ CaredFor(r, c)
      BY <1>3, <1>7 DEF Existing, NothingIsForgotten
    <2>2. Recorded(r, c) => Recorded(r, c)'
      BY <1>1, <1>3, <1>7, <2>1 DEF Recorded, InSync, Wanted, Existing
    <2>3. Coming(r) => Coming(r)'
      BY <1>1, <1>2 DEF Coming, NotStarted
    <2>4. ASSUME NEW q \in Procs, UnderWay(q, r, c) PROVE UnderWay(q, r, c)'
      BY <1>1, <1>4, <1>7, <2>4 DEF UnderWay
    <2> QED
      BY <2>1, <2>2, <2>3, <2>4 DEF CaredFor
  <1> QED
    BY <1>6, <1>7

\* A new export does not put any API config in force by itself.
LEMMA ExportsKeepDue ==
    ASSUME TypeInv, DueInv, NEW e, ChangeExports(e)
    PROVE  DueInv'
  <1> USE DEF DueInv
  <1>1. UNCHANGED <<scenario, cluster, status, objects, namespacedApiConfigs, defaultApiConfigs,
                    callerPc, isLeader,
                    crdChanged, conflictingCrdDetected, crdChanges, failures, readFailures, todo,
                    results, stale, queue, cur, pc, list, initialSyncHasHappened, initialSyncInProgress>>
    BY DEF ChangeExports, procVars, syncVars
  <1>2. /\ reconcilerPc = "idle" /\ reconcilerPc' = "changed" /\ exports = namespacedApiConfigs
        /\ configChanges' = configChanges + 1
    BY DEF ChangeExports, InitialSyncComes
  <1>3. Undisturbed' => Undisturbed
    BY <1>1, <1>2 DEF Undisturbed, TypeInv
  <1>4. InitialSyncComes'
    BY <1>1, <1>2, <1>3 DEF InitialSyncComes, NotStarted
  <1>5. ValidatedApiConfigs' \subseteq ValidatedApiConfigs /\ Existing' = Existing
    BY <1>1, <1>2 DEF ValidatedApiConfigs, Existing
  <1>6. \A r, c : CaredFor(r, c) => CaredFor(r, c)'
    BY <1>1, <1>2 DEF CaredFor, Recorded, InSync, Wanted, Existing, Coming, NotStarted,
       UnderWay
  <1> QED
    BY <1>3, <1>4, <1>5, <1>6 DEF NothingIsForgotten

\* The inductive invariant.
SettledInv == TypeInv /\ SyncsAreFlagged /\ ReconcileInv /\ DueInv

\* A step outside of Reconcile does not touch what a goroutine in Reconcile works with.
LEMMA OthersReconcile ==
    ASSUME TypeInv, SyncsAreFlagged, ReconcileInv
    PROVE  (\/ \E p \in Procs : ListResources(p) \/ ListFails(p) \/ ReconcileNext(p)
            \/ \E r \in Resources : ControllerTakesRequest(r)
            \/ InitialSyncFinishes \/ InitialSyncReturns \/ NamespacedSyncFinishes
            \/ RetryFailedSynchronizations \/ RetryFinishes
            \/ BecomeLeader \/ SetDefaultApiConfigs \/ SetConflictingCrdDetected \/ ResetInitialSyncHasHappened
            \/ \E c \in Callers : CallerStep(c)
            \/ SetNamespacedApiConfigs \/ SynchronizeNamespacedResources
            \/ ChangeCrd) => ReconcileInv'
  <1> DEFINE Rest == UNCHANGED <<scenario, cluster, status, objects, exports, failures,
                                 configChanges, snap, stale, todo, results>>
             InReconcile == {"get", "check", "call"}
  <1>1. ASSUME Rest, UNCHANGED <<pc, cur>>, namespacedApiConfigs' \in {namespacedApiConfigs, exports}
        PROVE  ReconcileInv'
    BY <1>1, NothingIsReconciled DEF TypeInv
  <1>2. ASSUME Rest, UNCHANGED <<cur, namespacedApiConfigs>>, NEW p \in Procs,
                                 pc[p] \notin InReconcile,
               NEW v \in {"idle", "list", "loop", "returning"}, pc' = [pc EXCEPT ![p] = v]
        PROVE  ReconcileInv'
    <2>1. \A q \in Procs : (pc'[q] \in {"check", "call"} \/ pc[q] = "call") => pc'[q] = pc[q]
      BY <1>2 DEF TypeInv, TypeOK
    <2> QED
      BY <1>2, <2>1, NothingIsReconciled DEF TypeInv
  <1>3. ASSUME Rest, UNCHANGED namespacedApiConfigs, NEW p \in Procs, pc[p] \notin InReconcile, NEW r, StartReconcile(p, r)
        PROVE  ReconcileInv'
    <2>1. \A q \in Procs : (pc'[q] \in {"check", "call"} \/ pc[q] = "call") => pc'[q] = pc[q] /\ cur'[q] = cur[q]
      BY <1>3 DEF TypeInv, TypeOK, StartReconcile
    <2> QED
      BY <1>3, <2>1, NothingIsReconciled DEF TypeInv
  <1>4. ASSUME NEW p \in Procs, ListResources(p) \/ ListFails(p) PROVE ReconcileInv'
    BY <1>2, <1>4 DEF ListResources, ListFails, clusterVars, configVars
  <1>5. ASSUME NEW p \in Procs, ReconcileNext(p) PROVE ReconcileInv'
    BY <1>3, <1>5 DEF ReconcileNext, clusterVars, configVars
  <1>6. ASSUME NEW r \in Resources, ControllerTakesRequest(r) PROVE ReconcileInv'
    BY <1>3, <1>6 DEF ControllerTakesRequest, clusterVars, configVars, Procs
  <1>7. ASSUME InitialSyncFinishes \/ InitialSyncReturns \/ NamespacedSyncFinishes \/ RetryFailedSynchronizations \/ RetryFinishes
        PROVE ReconcileInv'
    <2>1. Rest /\ UNCHANGED <<cur, namespacedApiConfigs>>
      BY <1>7 DEF InitialSyncFinishes, InitialSyncReturns, NamespacedSyncFinishes,
         RetryFailedSynchronizations, RetryFinishes,
         clusterVars, configVars
    <2>2. \E p \in Procs : pc[p] \notin InReconcile /\ \E v \in {"idle", "loop", "returning"} : pc' = [pc EXCEPT ![p] = v]
      BY <1>7 DEF InitialSyncFinishes, InitialSyncReturns, NamespacedSyncFinishes,
         RetryFailedSynchronizations, RetryFinishes, Procs
    <2> QED
      BY <1>2, <2>1, <2>2
  <1>8. ASSUME \/ BecomeLeader \/ SetDefaultApiConfigs \/ SetConflictingCrdDetected \/ ResetInitialSyncHasHappened
               \/ \E c \in Callers : EnterInitialSync(c)
               \/ SetNamespacedApiConfigs \/ ChangeCrd
        PROVE  ReconcileInv'
    <2>1. Rest /\ UNCHANGED <<pc, cur>>
      BY <1>8 DEF BecomeLeader, SetDefaultApiConfigs, SetConflictingCrdDetected,
         ResetInitialSyncHasHappened, EnterInitialSync,
         SetNamespacedApiConfigs, ChangeCrd, clusterVars, procVars
    <2>2. namespacedApiConfigs' \in {namespacedApiConfigs, exports}
      BY <1>8 DEF BecomeLeader, SetDefaultApiConfigs, SetConflictingCrdDetected,
         ResetInitialSyncHasHappened, EnterInitialSync,
         SetNamespacedApiConfigs, ChangeCrd
    <2> QED
      BY <1>1, <2>1, <2>2
  <1>9. ASSUME SynchronizeNamespacedResources \/ \E c \in Callers : DecideInitialSync(c)
        PROVE  ReconcileInv'
    <2>1. Rest /\ UNCHANGED <<cur, namespacedApiConfigs>>
      BY <1>9 DEF SynchronizeNamespacedResources, DecideInitialSync, clusterVars
    <2>2. UNCHANGED pc \/ \E p \in Procs : pc[p] \notin InReconcile /\ pc' = [pc EXCEPT ![p] = "list"]
      BY <1>9 DEF SynchronizeNamespacedResources, DecideInitialSync, SyncsAreFlagged, Procs
    <2> QED
      BY <1>1, <1>2, <2>1, <2>2
  <1> QED
    BY <1>4, <1>5, <1>6, <1>7, <1>8, <1>9 DEF CallerStep

\* Every step keeps the inductive invariant.
LEMMA NextSettles == SettledInv /\ SyncsAreFlagged' /\ [Next]_vars => SettledInv'
  <1> SUFFICES ASSUME SettledInv, SyncsAreFlagged', [Next]_vars PROVE SettledInv'
    OBVIOUS
  <1> USE DEF SettledInv
  <1>1. CASE \E p \in Procs : ReconcileStep(p)
    <2> PICK p \in Procs : ReconcileStep(p)
      BY <1>1
    <2>1. TypeInv' /\ DueInv'
      BY ReconcileTypes, ReconcileKeepsDue
    <2>2. CASE SkipOnConflict(p) \/ GetFails(p)
      BY <2>1, <2>2, EndReconcileIsQuiet, NothingIsReconciled DEF SkipOnConflict, GetFails,
         clusterVars, configVars, TypeInv
    <2> QED
      BY <2>1, <2>2, GetReconciles, CheckReconciles, CallReconciles, WriteStatusReconciles
         DEF ReconcileStep
  <1>2. CASE \E p \in Procs : ListFails(p)
    <2> PICK p \in Procs : ListFails(p)
      BY <1>2
    <2>1. TypeInv' /\ ReconcileInv'
      BY GoroutineTypes, OthersReconcile
    <2>2. ~Undisturbed'
      BY DEF ListFails, Undisturbed, TypeInv
    <2>3. p # "controller" /\ UNCHANGED list /\ pc'["controller"] = pc["controller"]
      BY DEF ListFails, DueInv, InitialSyncComes, TypeInv, TypeOK, Procs
    <2>4. DueInv'
      BY <2>2, <2>3, Disturbed DEF ListFails, clusterVars, configVars, DueInv, InitialSyncComes
    <2> QED
      BY <2>1, <2>4
  <1>3. CASE \/ \E p \in Procs : ListResources(p) \/ ReconcileNext(p)
             \/ \E r \in Resources : ControllerTakesRequest(r)
             \/ InitialSyncFinishes \/ InitialSyncReturns \/ NamespacedSyncFinishes
             \/ RetryFailedSynchronizations \/ RetryFinishes
    <2>1. TypeInv' /\ ReconcileInv'
      BY <1>3, GoroutineTypes, OthersReconcile
    <2>2. DueInv'
      BY <1>3, ListsKeepDue, ControllerKeepsDue, EndsKeepDue DEF Procs
    <2> QED
      BY <2>1, <2>2
  <1>4. CASE \/ BecomeLeader \/ SetDefaultApiConfigs \/ SetConflictingCrdDetected \/ ResetInitialSyncHasHappened
             \/ \E c \in Callers : CallerStep(c)
             \/ SetNamespacedApiConfigs \/ SynchronizeNamespacedResources \/ ChangeCrd
    <2>1. TypeInv'
      BY <1>4, ConfigurationTypes DEF Environment
    <2>2. ReconcileInv'
      BY <1>4, OthersReconcile
    <2>3. DueInv'
      BY <1>4, CallersComeKeepDue, CallersKeepDue, CrdKeepsDue, NamespaceKeepsDue
    <2> QED
      BY <2>1, <2>2, <2>3
  <1>5. CASE \/ \E r \in Resources, new \in [content : scenario.contents, disabled : BOOLEAN] \cup {Absent} : ChangeResource(r, new)
             \/ \E e \in scenario.exportChoices : ChangeExports(e)
    <2>1. TypeInv'
      BY <1>5, ConfigurationTypes DEF Environment
    <2>2. ReconcileInv' /\ DueInv'
      BY <1>5, ChangeReconciles, ExportsReconcile, ChangeKeepsDue, ExportsKeepDue
    <2> QED
      BY <2>1, <2>2
  <1>6. CASE UNCHANGED vars
    <2> USE <1>6 DEF vars, clusterVars, configVars, syncVars, procVars
    <2>1. TypeInv'
      BY DEF TypeInv, TypeOK
    <2>2. ReconcileInv'
      BY NothingIsReconciled DEF TypeInv
    <2>3. InitialSyncComes' /\ \A r : Coming(r)' <=> Coming(r)
      BY DEF DueInv, InitialSyncComes, Undisturbed, NotStarted, Coming
    <2>4. DueInv'
      BY <2>3, StillDue
    <2> QED
      BY <2>1, <2>2, <2>4
  <1> QED
    BY <1>1, <1>2, <1>3, <1>4, <1>5, <1>6 DEF Next, Operator, Environment, ProcStep

\* At rest, every resource of the cluster is in sync with the API of every validated API
\* config, or its status carries the error. The controller's Reconcile, the initial
\* synchronization that maybeDoInitialSynchronizationOfAllResources starts,
\* synchronizeNamespacedResources and the retry may overlap in any order, with any number of
\* resources and API configs: between them they forget no resource, and
\* WriteSynchronizationResultToSynchronizedResource loses no error, unless one of the
\* disturbances that Undisturbed lists has occurred.
THEOREM NothingIsForgottenAtRest == Spec => []SettledIsInSync
<1>1. Init => TypeInv /\ ReconcileInv /\ DueInv
  BY InitTypes, InitReconcile, InitDue
<1>2. (TypeInv /\ ReconcileInv /\ DueInv) /\ SyncsAreFlagged /\ SyncsAreFlagged' /\ [Next]_vars
        => (TypeInv /\ ReconcileInv /\ DueInv)'
  BY NextSettles DEF SettledInv
<1>3. SettledInv => SettledIsInSync
  <2> SUFFICES ASSUME SettledInv, Settled, Undisturbed, NEW r \in Existing, NEW c \in ValidatedApiConfigs
               PROVE  Recorded(r, c)
    BY DEF SettledInv, TypeInv, SettledIsInSync, InSyncOrErrorRecorded, Recorded, Errors
  <2>1. CaredFor(r, c)
    BY DEF SettledInv, DueInv, NothingIsForgotten
  <2>2. ~Coming(r)
    BY DEF SettledInv, DueInv, InitialSyncComes, Settled, Coming
  <2>3. \A p \in Procs : ~UnderWay(p, r, c)
    BY DEF Settled, UnderWay
  <2> QED
    BY <2>1, <2>2, <2>3 DEF CaredFor
<1>4. SettledInv <=> (TypeInv /\ ReconcileInv /\ DueInv) /\ SyncsAreFlagged
  BY DEF SettledInv
<1> QED
  BY <1>1, <1>2, <1>3, <1>4, FlagsInvariant, PTL DEF Spec
=============================================================================
