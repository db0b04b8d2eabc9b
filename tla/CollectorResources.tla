------------------------- MODULE CollectorResources -------------------------
(***************************************************************************)
(* The Kubernetes resources of the OpenTelemetry collectors: what the      *)
(* operator wants to exist for a configuration (the desired state), and    *)
(* what it wants to be deleted.  A resource keeps the fields by which it   *)
(* depends on another one: volumes and mounts, environment variables and   *)
(* references to them, labels and selectors, service accounts and roles.   *)
(***************************************************************************)
EXTENDS CollectorConfiguration, TLC

CONSTANTS UserLabels      \* labels the user adds to the pods of the collectors

openTelemetryCollector  == "opentelemetry-collector"
daemonSetSuffix         == "opentelemetry-collector-agent"
deploymentSuffix        == "cluster-metrics-collector"
signalControlSuffix     == "signal-control-collector"
configReloader          == "configuration-reloader"
fileLogOffsetSync       == "filelog-offset-sync"

\* The prefix is the same for all names and is left out.
renderName(suffix, kind) == <<suffix, kind>>

daemonsetServiceAccountName               == renderName(openTelemetryCollector, "sa")
deploymentServiceAccountName              == renderName(deploymentSuffix, "sa")
FilelogReceiverOffsetsConfigMapName       == renderName("filelogoffsets", "cm")
DaemonSetCollectorConfigConfigMapName     == renderName(daemonSetSuffix, "cm")
DeploymentCollectorConfigConfigMapName    == renderName(deploymentSuffix, "cm")
SignalControlCollectorConfigConfigMapName == renderName(signalControlSuffix, "cm")
DaemonSetClusterRoleName                  == renderName(openTelemetryCollector, "cr")
DeploymentClusterRoleName                 == renderName(deploymentSuffix, "cr")
DaemonSetClusterRoleBindingName           == renderName(openTelemetryCollector, "crb")
DeploymentClusterRoleBindingName          == renderName(deploymentSuffix, "crb")
roleName                                  == renderName(openTelemetryCollector, "role")
roleBindingName                           == renderName(openTelemetryCollector, "rolebinding")
ServiceName                               == renderName(openTelemetryCollector, "service")
SignalControlCollectorServiceName         == renderName(signalControlSuffix, "service")
SignalControlCollectorPdbName             == renderName(signalControlSuffix, "pdb")
DaemonSetName                             == renderName(daemonSetSuffix, "daemonset")
DeploymentName                            == renderName(deploymentSuffix, "deployment")
SignalControlCollectorDeploymentName      == renderName(signalControlSuffix, "deployment")

usesExternalDaemonSetServiceAccount(c) ==
  c.daemonSetServiceAccount \notin {<<>>, daemonsetServiceAccountName}

collectorDaemonSetServiceAccountName(c) ==
  IF usesExternalDaemonSetServiceAccount(c) THEN c.daemonSetServiceAccount
  ELSE daemonsetServiceAccountName

-----------------------------------------------------------------------------
(* Labels                                                                  *)

matchLabels(component) == [name |-> "opentelemetry", instance |-> "dash0-operator", component |-> component]
daemonSetMatchLabels     == matchLabels("agent-collector")
deploymentMatchLabels    == matchLabels(deploymentSuffix)
signalControlMatchLabels == matchLabels(signalControlSuffix)

\* Variant of MergeMaps in which the user's labels take precedence.
MergeMapsAdditionalFirst(defaults, additional) == additional @@ defaults

\* The defaults take precedence over what the user adds.
MergeMaps(defaults, additional) == defaults @@ additional

addGkeAutopilotAllowlistMatchLabel(c, original) ==
  IF c.gkeAutopilot THEN original @@ [allowlist |-> "dash0"] ELSE original

selects(selector, labels) ==
  \A k \in DOMAIN selector : k \in DOMAIN labels /\ labels[k] = selector[k]

-----------------------------------------------------------------------------
(* Config maps and RBAC                                                    *)

ServiceAccount(name) == [kind |-> "ServiceAccount", name |-> name]

assembleServiceAccountForDaemonSet  == ServiceAccount(daemonsetServiceAccountName)
assembleServiceAccountForDeployment == ServiceAccount(deploymentServiceAccountName)

assembleFilelogOffsetsConfigMap == [kind |-> "ConfigMap", name |-> FilelogReceiverOffsetsConfigMapName]

\* The variables the exporters section refers to, with the token or a header value.
exporterEnvVars(c) ==
  UNION {{e.auth} \cup ToSet(e.headers) : e \in UNION {ToSet(allExporters(x)) : x \in {exportersOf(c)}}}
  \ {NoEnvVar}

assembleCollectorConfigMap(c, name, namespaces, refs, kubelet, forDeletion) ==
  [kind |-> "ConfigMap", name |-> name,
   data |-> IF forDeletion THEN [form |-> "none", namespaces |-> {}, refs |-> {}, kubelet |-> "none"]
            ELSE [form |-> IF c.compressConfigMap THEN "gzip" ELSE "plain",
                  namespaces |-> namespaces, refs |-> refs, kubelet |-> kubelet]]

assembleDaemonSetCollectorConfigMap(c, nss, forDeletion) ==
  assembleCollectorConfigMap(c, DaemonSetCollectorConfigConfigMapName,
                             nss.log \cup nss.scraping, exporterEnvVars(c), c.kubelet, forDeletion)

assembleDeploymentCollectorConfigMap(c, nss, forDeletion) ==
  assembleCollectorConfigMap(c, DeploymentCollectorConfigConfigMapName,
                             nss.event \cup nss.object, exporterEnvVars(c), "none", forDeletion)

\* Without the proxy or its endpoint the settings extension polls with the token.
assembleSignalControlCollectorConfigMap(c, forDeletion) ==
  assembleCollectorConfigMap(c, SignalControlCollectorConfigConfigMapName, {},
                             exporterEnvVars(c) \cup
                             (IF SignalControl(c).EdgeProxyEnabled /\ SignalControl(c).ApiEndpoint THEN {}
                              ELSE {<<"DASH0_SIGNAL_CONTROL_AUTH_TOKEN">>}), "none", forDeletion)

\* The verbs are read (get, list and watch, with or without names) and write.
grant(verb, resources) == {<<verb, r>> : r \in resources}

RoleOf(kind, name, grants) == [kind |-> kind, name |-> name, grants |-> grants]
BindingOf(kind, name, role, sa) == [kind |-> kind, name |-> name, roleRef |-> role, subject |-> sa]

assembleRole ==
  RoleOf("Role", roleName, grant("read", {"configmaps"}) \cup grant("write", {"configmaps"}))

assembleRoleBinding(c) ==
  BindingOf("RoleBinding", roleBindingName, roleName, collectorDaemonSetServiceAccountName(c))

assembleClusterRoleForDaemonSet ==
  RoleOf("ClusterRole", DaemonSetClusterRoleName,
         grant("read", {"pods", "namespaces", "nodes", "configmaps", "nodes/stats", "nodes/proxy",
                        "persistentvolumes", "persistentvolumeclaims", "endpoints", "services",
                        "daemonsets", "deployments", "replicasets", "statefulsets", "jobs"}))

assembleClusterRoleBindingForDaemonSet(c) ==
  BindingOf("ClusterRoleBinding", DaemonSetClusterRoleBindingName, DaemonSetClusterRoleName,
            collectorDaemonSetServiceAccountName(c))

assembleClusterRoleForDeployment ==
  RoleOf("ClusterRole", DeploymentClusterRoleName,
         grant("read", {"events", "namespaces", "nodes", "persistentvolumes", "pods",
                        "replicationcontrollers", "resourcequotas", "services", "daemonsets",
                        "deployments", "replicasets", "statefulsets", "jobs", "cronjobs",
                        "horizontalpodautoscalers"}))

assembleClusterRoleBindingForDeployment ==
  BindingOf("ClusterRoleBinding", DeploymentClusterRoleBindingName, DeploymentClusterRoleName,
            deploymentServiceAccountName)

-----------------------------------------------------------------------------
(* Volumes, mounts and containers                                          *)

mount(volume, readOnly) == [volume |-> volume, readOnly |-> readOnly]

collectorConfigPlainTextVolumeMount    == mount("opentelemetry-collector-configmap", TRUE)
collectorConfigCompressedVolumeMount   == mount("opentelemetry-collector-configmap-compressed", TRUE)
collectorConfigDecompressedVolumeMount == mount("opentelemetry-collector-configmap-decompressed", FALSE)
collectorPidFileMountRW                == mount("opentelemetry-collector-pidfile", FALSE)

offsetsVolumeName(c) == IF c.offsetStorageVolume THEN "user-volume" ELSE "filelogreceiver-offsets"

emptyDir == <<"emptyDir">>
hostPath == <<"hostPath">>

volume(name, source) == [name |-> name, source |-> source]

configMapVolumes(c, configMapName) ==
  IF c.compressConfigMap
  THEN {volume(collectorConfigCompressedVolumeMount.volume, <<"configMap", configMapName>>),
        volume(collectorConfigDecompressedVolumeMount.volume, emptyDir)}
  ELSE {volume(collectorConfigPlainTextVolumeMount.volume, <<"configMap", configMapName>>)}

configMounts(c) ==
  IF c.compressConfigMap THEN {collectorConfigCompressedVolumeMount, collectorConfigDecompressedVolumeMount}
  ELSE {collectorConfigPlainTextVolumeMount}

useHostMetricsReceiver(c) == c.infrastructureMetrics /\ ~c.docker

assembleCollectorDaemonSetVolumes(c) ==
       {volume(offsetsVolumeName(c), IF c.offsetStorageVolume THEN <<"user">> ELSE emptyDir),
        volume("node-pod-logs", hostPath), volume(collectorPidFileMountRW.volume, emptyDir)}
  \cup configMapVolumes(c, DaemonSetCollectorConfigConfigMapName)
  \cup (IF c.gkeAutopilot THEN {} ELSE {volume("node-docker-container-logs", hostPath)})
  \cup (IF useHostMetricsReceiver(c) THEN {volume("hostfs", hostPath)} ELSE {})
  \cup (IF c.mtls THEN {volume("target-allocator-mtls-certs", <<"secret", "mtls-client-cert">>)} ELSE {})

assembleCollectorDaemonSetVolumeMounts(c) ==
         configMounts(c)
    \cup {collectorPidFileMountRW, mount("node-pod-logs", TRUE), mount(offsetsVolumeName(c), FALSE)}
    \cup (IF c.gkeAutopilot THEN {} ELSE {mount("node-docker-container-logs", TRUE)})
    \cup (IF useHostMetricsReceiver(c) THEN {mount("hostfs", TRUE)} ELSE {})
    \cup (IF c.mtls THEN {mount("target-allocator-mtls-certs", FALSE)} ELSE {})

container(name, mounts, env, refs, access) ==
  [name |-> name, mounts |-> mounts, env |-> env, refs |-> refs, access |-> access]

\* External: what the components in the collectors' configurations read from the API.
attributesProcessorAccess ==
  grant("read", {"pods", "namespaces", "nodes", "replicasets", "deployments", "jobs"})
kubeletStatsReceiverAccess(c) ==
  IF c.infrastructureMetrics THEN grant("read", {"nodes/stats", "nodes/proxy"}) ELSE {}
prometheusReceiverAccess(nss) ==
  IF nss.scraping # {} THEN grant("read", {"pods", "endpoints", "services"}) ELSE {}
clusterReceiverAccess(c) ==
  IF c.infrastructureMetrics
  THEN grant("read", {"nodes", "namespaces", "pods", "replicationcontrollers", "resourcequotas",
                      "services", "daemonsets", "deployments", "replicasets", "statefulsets",
                      "jobs", "cronjobs", "horizontalpodautoscalers"})
  ELSE {}
eventsReceiverAccess(nss) == IF nss.event # {} THEN grant("read", {"events"}) ELSE {}
objectsReceiverAccess(nss) ==
  IF nss.object # {}
  THEN grant("read", {"deployments", "statefulsets", "daemonsets", "nodes", "persistentvolumes",
                      "pods", "replicasets"})
  ELSE {}

\* The token variables in the order of the exporters; the Signal Control token
\* refers to one of them and comes last.
assembleCollectorEnvVars(c, withSignalControlAuthToken) ==
  LET with(e, env) == SelectSeq(<<e.auth>> \o e.headers, LAMBDA v : v # NoEnvVar) \o env
  IN  FoldRight(with, allExporters(exportersOf(c)),
                IF withSignalControlAuthToken /\ SignalControl(c).Enabled
                THEN <<<<"DASH0_SIGNAL_CONTROL_AUTH_TOKEN">>>> ELSE <<>>)

assembleDaemonSetCollectorContainer(c, nss) ==
  container(openTelemetryCollector, assembleCollectorDaemonSetVolumeMounts(c),
            assembleCollectorEnvVars(c, FALSE), {},
            attributesProcessorAccess \cup kubeletStatsReceiverAccess(c) \cup prometheusReceiverAccess(nss))

assembleDeploymentCollectorContainer(c, nss) ==
  container(openTelemetryCollector, configMounts(c) \cup {collectorPidFileMountRW},
            assembleCollectorEnvVars(c, FALSE), {},
            attributesProcessorAccess \cup clusterReceiverAccess(c) \cup eventsReceiverAccess(nss)
            \cup objectsReceiverAccess(nss))

assembleSignalControlCollectorContainer(c) ==
  container(openTelemetryCollector,
            configMounts(c) \cup {collectorPidFileMountRW} \cup
            (IF UsesDiskReservoir(SignalControl(c)) THEN {mount("trace-reservoir", FALSE)} ELSE {}),
            assembleCollectorEnvVars(c, TRUE),
            IF SignalControl(c).Enabled THEN {SignalControl(c).AuthEnvVar} ELSE {}, {})

assembleConfigurationReloaderContainer(c) ==
  container(configReloader, configMounts(c) \cup {mount(collectorPidFileMountRW.volume, TRUE)}, <<>>, {}, {})

assembleFileLogOffsetSyncContainer ==
  container(fileLogOffsetSync, {mount("filelogreceiver-offsets", FALSE)}, <<>>, {},
            grant("write", {"configmaps"}))

assembleFileLogOffsetSyncInitContainer ==
  container("filelog-offset-init", {mount("filelogreceiver-offsets", FALSE)}, <<>>, {},
            grant("read", {"configmaps"}))

assembleFileLogVolumeOwnershipInitContainer(c) ==
  container("filelog-offset-volume-ownership", {mount(offsetsVolumeName(c), FALSE)}, <<>>, {}, {})

-----------------------------------------------------------------------------
(* Workloads, services and the disruption budget                           *)

\* extra stands for an annotation or variable of one workload only.
workload(kind, name, selector, labels, sa, volumes, init, containers, c) ==
  [kind |-> kind, name |-> name, selector |-> selector, extra |-> <<>>,
   pod |-> [labels |-> MergeMaps(labels, UserLabels), sa |-> sa, volumes |-> volumes,
            init |-> init, containers |-> containers, resources |-> c.resources,
            selfMonitoring |-> c.selfMonitoring]]

assembleCollectorDaemonSet(c, nss) ==
  [workload("DaemonSet", DaemonSetName, daemonSetMatchLabels,
            addGkeAutopilotAllowlistMatchLabel(c, daemonSetMatchLabels),
            collectorDaemonSetServiceAccountName(c), assembleCollectorDaemonSetVolumes(c),
            IF c.offsetStorageVolume THEN {assembleFileLogVolumeOwnershipInitContainer(c)}
            ELSE {assembleFileLogOffsetSyncInitContainer},
            {assembleDaemonSetCollectorContainer(c, nss), assembleConfigurationReloaderContainer(c)} \cup
            (IF c.offsetStorageVolume THEN {} ELSE {assembleFileLogOffsetSyncContainer}), c)
   EXCEPT !.extra = IF c.mtls THEN c.caSha ELSE ""]

assembleCollectorDeploymentVolumes(c, configMapName) ==
  {volume(collectorPidFileMountRW.volume, emptyDir)} \cup configMapVolumes(c, configMapName)

assembleCollectorDeployment(c, nss) ==
  workload("Deployment", DeploymentName, deploymentMatchLabels,
           addGkeAutopilotAllowlistMatchLabel(c, deploymentMatchLabels),
           deploymentServiceAccountName,
           assembleCollectorDeploymentVolumes(c, DeploymentCollectorConfigConfigMapName), {},
           {assembleDeploymentCollectorContainer(c, nss), assembleConfigurationReloaderContainer(c)}, c)

\* No service account: this collector does not talk to the Kubernetes API.
assembleSignalControlCollectorDeployment(c) ==
  workload("Deployment", SignalControlCollectorDeploymentName, signalControlMatchLabels,
           addGkeAutopilotAllowlistMatchLabel(c, signalControlMatchLabels), <<>>,
           assembleCollectorDeploymentVolumes(c, SignalControlCollectorConfigConfigMapName) \cup
           (IF UsesDiskReservoir(SignalControl(c)) THEN {volume("trace-reservoir", emptyDir)} ELSE {}), {},
           {assembleSignalControlCollectorContainer(c), assembleConfigurationReloaderContainer(c)}, c)

assembleService == [kind |-> "Service", name |-> ServiceName, selects |-> daemonSetMatchLabels]

assembleSignalControlCollectorService ==
  [kind |-> "Service", name |-> SignalControlCollectorServiceName, selects |-> signalControlMatchLabels]

assembleSignalControlCollectorPodDisruptionBudget ==
  [kind |-> "PodDisruptionBudget", name |-> SignalControlCollectorPdbName, selects |-> signalControlMatchLabels]

-----------------------------------------------------------------------------
(* The desired state                                                       *)

\* Logs and objects of the operator namespace are never collected.
namespaceLists(c) ==
  LET those(P(_)) == {m.ns : m \in {x \in c.monitorings : P(x)}}
  IN  [monitored |-> those(LAMBDA m : TRUE),
       log       |-> those(LAMBDA m : m.logs /\ m.ns # OperatorNamespace),
       event     |-> those(LAMBDA m : m.events),
       object    |-> those(LAMBDA m : c.objectCollection /\ m.objects /\ m.ns # OperatorNamespace),
       scraping  |-> those(LAMBDA m : m.scraping)]

noNamespaces == [monitored |-> {}, log |-> {}, event |-> {}, object |-> {}, scraping |-> {}]

assembleDesiredState(c, nss, forDeletion) ==
  LET when(condition, resources) == IF condition THEN resources ELSE <<>>
      producers == forDeletion \/ ~c.sceOnly
  IN  Concat(<<
        when(forDeletion \/ signalControlGatewayActive(c),
             <<assembleSignalControlCollectorConfigMap(c, forDeletion),
               assembleSignalControlCollectorService,
               assembleSignalControlCollectorPodDisruptionBudget,
               assembleSignalControlCollectorDeployment(c)>>),
        when(producers /\ (forDeletion \/ ~usesExternalDaemonSetServiceAccount(c)),
             <<assembleServiceAccountForDaemonSet>>),
        when(producers, <<assembleDaemonSetCollectorConfigMap(c, nss, forDeletion)>>),
        when(producers /\ ~c.offsetStorageVolume, <<assembleFilelogOffsetsConfigMap>>),
        when(producers,
             <<assembleClusterRoleForDaemonSet, assembleClusterRoleBindingForDaemonSet(c),
               assembleRole, assembleRoleBinding(c), assembleService, assembleCollectorDaemonSet(c, nss)>>),
        when(producers /\ (c.infrastructureMetrics \/ nss.event # {} \/ nss.object # {}),
             <<assembleServiceAccountForDeployment, assembleClusterRoleForDeployment,
               assembleClusterRoleBindingForDeployment,
               assembleDeploymentCollectorConfigMap(c, nss, forDeletion),
               assembleCollectorDeployment(c, nss)>>)>>)

assembleDesiredStateForUpsert(c) == assembleDesiredState(c, namespaceLists(c), FALSE)

assembleDesiredStateForDelete(c) ==
  assembleDesiredState([c EXCEPT !.infrastructureMetrics = TRUE], noNamespaces, TRUE)

Ids(resources) == {[kind |-> r.kind, name |-> r.name] : r \in ToSet(resources)}

\* Matched by name only.
noLongerDesired(c, desired) ==
  SelectSeq(assembleDesiredStateForDelete(c),
            LAMBDA r : \A d \in ToSet(desired) : d.name # r.name)

\* Resources of operator versions before 0.17.0.
compileObsoleteResources ==
  LET of(kind, suffix) == [kind |-> kind, name |-> <<suffix>>]
  IN  <<of("ServiceAccount", openTelemetryCollector), of("ConfigMap", daemonSetSuffix),
        of("ConfigMap", "filelogoffsets"), of("ClusterRole", openTelemetryCollector),
        of("ClusterRoleBinding", openTelemetryCollector), of("Role", openTelemetryCollector),
        of("RoleBinding", openTelemetryCollector), of("Service", openTelemetryCollector),
        of("DaemonSet", daemonSetSuffix), of("ServiceAccount", deploymentSuffix),
        of("ClusterRole", deploymentSuffix), of("ClusterRoleBinding", deploymentSuffix),
        of("ConfigMap", deploymentSuffix), of("Deployment", deploymentSuffix)>>

\* The main collectors of a desired state.
deployedCollectors(desired) ==
  {DaemonSetName, DeploymentName, SignalControlCollectorDeploymentName} \cap {r.name : r \in ToSet(desired)}

=============================================================================
