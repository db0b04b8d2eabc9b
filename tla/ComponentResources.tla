------------------------- MODULE ComponentResources -------------------------
(***************************************************************************)
(* The Kubernetes resources of the other components the operator manages:  *)
(* the target allocator (ta), the Agent0 connector (a0c), the Edge Proxy   *)
(* of Signal Control (sc), the synthetics workers (sw), and the eBPF       *)
(* profiler with its debug info proxy (pr).                                *)
(*                                                                         *)
(* The Go packages use the same function names; the prefix tells them      *)
(* apart.                                                                  *)
(***************************************************************************)
EXTENDS CollectorResources

Labels(name, component) == [name |-> name, instance |-> "dash0-operator",
                            managedBy |-> "dash0-operator", component |-> component]

\* The labels without the given keys.
Without(labels, keys) == [k \in DOMAIN labels \ keys |-> labels[k]]

-----------------------------------------------------------------------------
(* Target allocator: taresources/desired_state.go                          *)

targetAllocator == "opentelemetry-target-allocator"

taServiceAccountName     == renderName(targetAllocator, "sa")
taConfigMapName          == renderName(targetAllocator, "cm")
taClusterRoleName        == renderName(targetAllocator, "cr")
taClusterRoleBindingName == renderName(targetAllocator, "crb")
taServiceName            == renderName(targetAllocator, "service")
taDeploymentName         == renderName(targetAllocator, "deployment")

taLabels == Labels(targetAllocator, targetAllocator)
taDeploymentMatchLabels == [name |-> targetAllocator, instance |-> "dash0-operator"]

\* Without scraping namespaces the allow list is absent, which means all namespaces.
taAssembleConfigMap(c, scraping, forDeletion) ==
  [kind |-> "ConfigMap", name |-> taConfigMapName,
   data |-> IF forDeletion THEN [form |-> "none", namespaces |-> {}, secretNamespaces |-> {}, https |-> FALSE]
            ELSE [form |-> "plain", namespaces |-> scraping,
                  secretNamespaces |-> c.secretNamespaces, https |-> c.mtls]]

\* Secrets are readable cluster-wide unless the access is limited to namespaces.
taAssembleClusterRole(c) ==
  RoleOf("ClusterRole", taClusterRoleName,
         grant("read", {"servicemonitors", "podmonitors", "prometheusrules", "probes", "scrapeconfigs",
                        "statefulsets", "namespaces", "nodes", "nodes/metrics", "services", "endpoints",
                        "pods", "configmaps", "endpointslices", "ingresses"} \cup
                       (IF c.secretNamespaces = {} THEN {"secrets"} ELSE {})))

taAssembleClusterRoleBinding ==
  BindingOf("ClusterRoleBinding", taClusterRoleBindingName, taClusterRoleName, taServiceAccountName)

taAssembleService(c) ==
  [kind |-> "Service", name |-> taServiceName, selects |-> taDeploymentMatchLabels,
   ports |-> {"http"} \cup (IF c.mtls THEN {"https"} ELSE {})]

\* External: what the target allocator reads from the API.
targetAllocatorAccess ==
  grant("read", {"servicemonitors", "podmonitors", "probes", "scrapeconfigs", "namespaces",
                 "nodes", "services", "endpoints", "pods", "endpointslices"})

taContainer(c) ==
  container("targetallocator",
            {mount("config-volume", FALSE)} \cup (IF c.mtls THEN {mount("mtls-certs", FALSE)} ELSE {}),
            <<>>, {}, targetAllocatorAccess)

\* The hash of the configuration is an annotation of the pods, which restarts them.
taAssembleDeployment(c, configMap) ==
  [workload("Deployment", taDeploymentName, taDeploymentMatchLabels,
            addGkeAutopilotAllowlistMatchLabel(c, taLabels), taServiceAccountName,
            {volume("config-volume", <<"configMap", taConfigMapName>>)} \cup
            (IF c.mtls THEN {volume("mtls-certs", <<"secret", "mtls-server-cert">>)} ELSE {}), {},
            {taContainer(c)}, c)
   EXCEPT !.extra = configMap.data, !.pod.selfMonitoring = FALSE]

\* Variant of taAssembleDesiredState with the deployment before what it refers to.
taAssembleDeploymentFirst(c, scraping, forDeletion) ==
  LET cm == taAssembleConfigMap(c, scraping, forDeletion)
  IN  <<taAssembleDeployment(c, cm), ServiceAccount(taServiceAccountName), cm, taAssembleClusterRole(c),
        taAssembleClusterRoleBinding, taAssembleService(c)>>

taAssembleDesiredState(c, scraping, forDeletion) ==
  LET cm == taAssembleConfigMap(c, scraping, forDeletion)
  IN  <<ServiceAccount(taServiceAccountName), cm, taAssembleClusterRole(c), taAssembleClusterRoleBinding,
        taAssembleService(c), taAssembleDeployment(c, cm)>>

-----------------------------------------------------------------------------
(* Agent0 connector: a0cresources/desired_state.go, a0c_resources.go       *)

agent0Connector == "agent0-connector"

a0cServiceAccountName     == renderName(agent0Connector, "sa")
a0cClusterRoleName        == renderName(agent0Connector, "cr")
a0cClusterRoleBindingName == renderName(agent0Connector, "crb")
a0cDeploymentName         == renderName(agent0Connector, "deployment")

a0cLabels == Labels(agent0Connector, agent0Connector)
a0cDeploymentMatchLabels == [name |-> agent0Connector, instance |-> "dash0-operator"]

\* A rule grants verbs on resources of API groups or on URLs; "*" matches everything.
rule(verbs, groups, resources, urls) ==
  [verbs |-> verbs, groups |-> groups, resources |-> resources, urls |-> urls]

allowedVerbs == {"get", "list"}
selfSubjectReviewVerbs == {"create"}
selfSubjectReviewApiGroup == "authorization.k8s.io"
selfSubjectReviewResources == {"selfsubjectaccessreviews", "selfsubjectrulesreviews"}

defaultAgent0ConnectorRbacRules ==
  {rule(allowedVerbs, {""}, {"pods", "nodes", "services", "namespaces"}, {}),
   rule(allowedVerbs, {"apps", "batch"}, {"deployments", "daemonsets", "jobs"}, {}),
   rule(selfSubjectReviewVerbs, {selfSubjectReviewApiGroup}, selfSubjectReviewResources, {}),
   rule({"get"}, {}, {}, {"/healthz", "/version"})}

validateRuleShape(r) ==
  /\ r.verbs # {}
  /\ IF r.urls # {} THEN r.groups = {} /\ r.resources = {}
     ELSE r.groups # {} /\ r.resources # {}

\* Variant of grantsSelfSubjectReviewsOnly for rules that grant other things too.
grantsSelfSubjectReviews(r) ==
  selfSubjectReviewApiGroup \in r.groups /\ r.resources \cap selfSubjectReviewResources # {}

grantsSelfSubjectReviewsOnly(r) ==
  /\ r.groups = {selfSubjectReviewApiGroup}
  /\ r.resources # {} /\ r.resources \subseteq selfSubjectReviewResources
  /\ r.urls = {}

validateClusterRoleRules(rules) ==
  \A r \in rules :
    /\ validateRuleShape(r)
    /\ r.verbs \subseteq allowedVerbs \cup
                         (IF grantsSelfSubjectReviewsOnly(r) THEN selfSubjectReviewVerbs ELSE {})

\* Custom rules replace the default ones.
a0cClusterRoleRules(c) == IF c.agent0Rules # {} THEN c.agent0Rules ELSE defaultAgent0ConnectorRbacRules

a0cAssembleClusterRole(c) ==
  [kind |-> "ClusterRole", name |-> a0cClusterRoleName, rules |-> a0cClusterRoleRules(c), grants |-> {}]

a0cAssembleClusterRoleBinding ==
  BindingOf("ClusterRoleBinding", a0cClusterRoleBindingName, a0cClusterRoleName, a0cServiceAccountName)

a0cContainer ==
  container(agent0Connector, {mount("tmp", FALSE)}, <<"DASH0_AGENT0_CONNECTOR_AUTH_TOKEN">>, {}, {})

a0cAssembleDeployment(c) ==
  workload("Deployment", a0cDeploymentName, a0cDeploymentMatchLabels,
           addGkeAutopilotAllowlistMatchLabel(c, a0cLabels), a0cServiceAccountName,
           {volume("tmp", emptyDir)}, {},
           {a0cContainer}, c)

a0cAssembleDesiredState(c) ==
  <<ServiceAccount(a0cServiceAccountName), a0cAssembleClusterRole(c), a0cAssembleClusterRoleBinding,
    a0cAssembleDeployment(c)>>

-----------------------------------------------------------------------------
(* Edge Proxy: scresources/desired_state.go                                *)

edgeProxyComponentName == "edge-proxy"
edgeProxyAuthTokenEnvVarName == "EDGE_PROXY_AUTH_TOKEN"

scDeploymentName          == <<edgeProxyComponentName>>
scServiceName             == <<edgeProxyComponentName>>
scPodDisruptionBudgetName == <<edgeProxyComponentName>>

edgeProxyLabels == Labels(edgeProxyComponentName, edgeProxyComponentName)
edgeProxyMatchLabels == Without(edgeProxyLabels, {"component"})

\* The address of the API is known: from Signal Control, or from the export.
deriveUpstreamConfig(c) ==
  c.sc.controlPlaneApiEndpoint \/ deriveDash0EndpointsAndDataset(c.exports).api

\* One of the two feeds always has to be on.
tailSamplingEnabled(c) == c.sc.sampling \/ ~deriveUpstreamConfig(c)

\* The feeds the proxy serves: sampling decisions and the organization settings.
edgeProxyFeeds(c) ==
       (IF tailSamplingEnabled(c) THEN {"sampling"} ELSE {})
  \cup (IF deriveUpstreamConfig(c) THEN {"settings"} ELSE {})

\* Exported through the collector on the node; in SCE-only mode there is none.
assembleSelfMonitoringEnvVars(c) ==
  IF c.selfMonitoring /\ ~c.sceOnly THEN <<"DASH0_NODE_IP", "OTEL_EXPORTER_OTLP_ENDPOINT">> ELSE <<>>

\* Only in SCE-only mode, with a Dash0 export, and not on GKE Autopilot.
enableDirectSelfMonitoring(c) ==
  c.sceOnly /\ c.selfMonitoring /\ ~c.gkeAutopilot /\ deriveDash0EndpointsAndDataset(c.exports).found

edgeProxyContainer(c) ==
  container(edgeProxyComponentName, {},
            <<edgeProxyAuthTokenEnvVarName>> \o assembleSelfMonitoringEnvVars(c),
            {edgeProxyAuthTokenEnvVarName} \cup
            (IF assembleSelfMonitoringEnvVars(c) # <<>> THEN {"DASH0_NODE_IP"} ELSE {}), {})

assembleEdgeProxyDeployment(c) ==
  [workload("Deployment", scDeploymentName, edgeProxyMatchLabels,
            addGkeAutopilotAllowlistMatchLabel(c, edgeProxyLabels), <<>>, {}, {},
            {edgeProxyContainer(c)}, c)
   EXCEPT !.extra = edgeProxyFeeds(c), !.pod.selfMonitoring = enableDirectSelfMonitoring(c)]

assembleEdgeProxyService ==
  [kind |-> "Service", name |-> scServiceName, selects |-> edgeProxyMatchLabels]

assembleEdgeProxyPodDisruptionBudget ==
  [kind |-> "PodDisruptionBudget", name |-> scPodDisruptionBudgetName, selects |-> edgeProxyMatchLabels]

scAssembleDesiredState(c, forDeletion) ==
  IF forDeletion \/ (c.sc.edgeProxy /\ c.edgeProxyImage)
  THEN <<assembleEdgeProxyDeployment(c), assembleEdgeProxyService, assembleEdgeProxyPodDisruptionBudget>>
  ELSE <<>>

-----------------------------------------------------------------------------
(* Synthetics workers: swresources/desired_state.go                        *)

syntheticsWorker == "synthetics-worker"

swServiceAccountName(location) == <<syntheticsWorker, location, "sa">>
swDeploymentName(location)     == <<syntheticsWorker, location>>

swLabels(location) ==
  [name |-> syntheticsWorker, instance |-> "dash0-operator", managedBy |-> "dash0-operator", location |-> location]
swMatchLabels(location) == Without(swLabels(location), {"managedBy"})

\* By this label the resources of all instances are found.
FeatureLabelSelector == [name |-> syntheticsWorker]

swContainer ==
  container(syntheticsWorker, {}, <<"SYNTHETICS_AUTH_TOKEN", "SYNTHETICS_HEADERS">>, {"SYNTHETICS_AUTH_TOKEN"}, {})

swAssembleDeployment(c, location) ==
  [workload("Deployment", swDeploymentName(location), swMatchLabels(location), swLabels(location),
            swServiceAccountName(location), {}, {},
            {swContainer}, c)
   EXCEPT !.pod.labels = swLabels(location), !.extra = swLabels(location)]

swAssembleDesiredState(c, location) ==
  <<[kind |-> "ServiceAccount", name |-> swServiceAccountName(location), extra |-> swLabels(location)],
    swAssembleDeployment(c, location)>>

-----------------------------------------------------------------------------
(* Profiler and debug info proxy: prresources/desired_state.go, config.go  *)

profilerComponent == "ebpf-profiler"
proxyComponent    == "debuginfo-proxy"

prName(component) == <<component>>
prLabels(component) == Labels("dash0-operator", component)

\* The required labels take precedence.
mergeLabels(custom, required) == required @@ custom

\* A Dash0 export with a host and a port; equal destinations are served once.
buildProxyConfiguration(c) ==
  LET usable == {i \in DOMAIN c.exports : "dash0" \in DOMAIN c.exports[i]
                                          /\ c.exports[i]["dash0"].endpoint # ""}
  IN  {<<"DASH0_DEBUGINFO_TOKEN", c.exports[i]["dash0"].endpoint, c.exports[i]["dash0"].dataset>> : i \in usable}

uploads(c) == c.debuginfoUpload /\ buildProxyConfiguration(c) # {}

prWorkload(c, component, volumes, mounts, env, refs) ==
  [workload("DaemonSet", prName(component), prLabels(component),
            mergeLabels(UserLabels, prLabels(component)), prName(component), volumes, {},
            {container(component, mounts, env, refs, {})}, c)
   EXCEPT !.pod.selfMonitoring = FALSE]

profiler(c) ==
  <<ServiceAccount(prName(profilerComponent)),
    [prWorkload(c, profilerComponent, {volume("proc", hostPath), volume("sys", hostPath), volume("tmp", emptyDir)},
                {mount("proc", TRUE), mount("sys", TRUE), mount("tmp", FALSE)},
                <<"NODE_NAME", "K8S_POD_UID", "OTEL_RESOURCE_ATTRIBUTES">>, {"NODE_NAME", "K8S_POD_UID"})
     EXCEPT !.extra = {ServiceName} \cup (IF uploads(c) THEN {prName(proxyComponent)} ELSE {})]>>

\* The revision covers the configuration and the secrets it refers to.
proxyRevision(c) == <<buildProxyConfiguration(c), c.secretVersion>>

proxy(c) ==
  <<ServiceAccount(prName(proxyComponent)),
    [kind |-> "ConfigMap", name |-> prName(proxyComponent), data |-> buildProxyConfiguration(c)],
    [kind |-> "NetworkPolicy", name |-> prName(proxyComponent), selects |-> prLabels(proxyComponent),
     from |-> prLabels(profilerComponent)],
    [prWorkload(c, proxyComponent, {volume("config", <<"configMap", prName(proxyComponent)>>)},
                {mount("config", TRUE)}, SetToSeq(buildProxyConfiguration(c)), buildProxyConfiguration(c))
     EXCEPT !.extra = proxyRevision(c)],
    [kind |-> "Service", name |-> prName(proxyComponent), selects |-> prLabels(proxyComponent)]>>

validateImages(c) == c.profilerImage /\ (uploads(c) => c.proxyImage)

prAssembleDesiredState(c) == (IF uploads(c) THEN proxy(c) ELSE <<>>) \o profiler(c)

=============================================================================
