-------------------------- MODULE MCConfigurations --------------------------
(* Sample configurations for the runs about the managed components.        *)
EXTENDS ComponentResources

\* A user may try to overwrite the labels the operator sets itself.
MCUserLabels == [team |-> "observability", name |-> "custom"]

dash0Settings == [endpoint |-> "host", dataset |-> "", apiEndpoint |-> TRUE, encoding |-> "", headers |-> <<>>,
                  insecure |-> "unset", insecureSkipVerify |-> FALSE]
httpSettings == [dash0Settings EXCEPT !.encoding = "proto"]

dash0Export == "dash0" :> dash0Settings
httpExport == "http" :> httpSettings

noFilter == [conditions |-> [s \in Slots |-> <<>>], errorMode |-> ""]
noTransform == [groups |-> [s \in Signals |-> <<>>], errorMode |-> ""]

monitoring(ns) == [ns |-> ns, exports |-> <<>>, logs |-> TRUE, events |-> TRUE, objects |-> FALSE,
                   scraping |-> TRUE, filter |-> noFilter, transform |-> noTransform]

noSignalControl == [present |-> FALSE, enabled |-> FALSE, edgeProxy |-> FALSE, sampling |-> FALSE,
                    reservoir |-> "memory", decisionMakerEndpoint |-> FALSE, controlPlaneApiEndpoint |-> FALSE]
fullSignalControl == [noSignalControl EXCEPT !.present = TRUE, !.enabled = TRUE, !.edgeProxy = TRUE, !.sampling = TRUE]

healthyNode == [ip |-> [known |-> TRUE, secure |-> "ok", insecure |-> TRUE, readOnly |-> FALSE],
                name |-> [known |-> TRUE, secure |-> "failed", insecure |-> FALSE]]
selfSignedNode == [healthyNode EXCEPT !.ip.secure = "tlsError", !.ip.insecure = FALSE, !.name.secure = "tlsError",
                                      !.name.insecure = TRUE]

base == [present |-> TRUE, via |-> "configuration", telemetry |-> TRUE, exports |-> <<dash0Export>>,
         monitorings |-> {monitoring("ns1")}, sc |-> noSignalControl, scImage |-> TRUE, sceOnly |-> FALSE,
         selfMonitoring |-> TRUE, prometheusCrd |-> TRUE, agent0 |-> TRUE, agent0Rules |-> {}, agent0Token |-> TRUE,
         synthetics |-> {"eu"}, syntheticsEnabled |-> TRUE, syntheticsNoToken |-> {},
         profiling |-> TRUE, debuginfoUpload |-> TRUE, secretVersion |-> 1, profilerImage |-> TRUE, proxyImage |-> TRUE,
         edgeProxyImage |-> TRUE, secretNamespaces |-> {}, daemonSetServiceAccount |-> <<>>, gkeAutopilot |-> FALSE,
         docker |-> FALSE, compressConfigMap |-> FALSE, offsetStorageVolume |-> FALSE, mtls |-> FALSE, caCert |-> "",
         caSha |-> "", infrastructureMetrics |-> TRUE, objectCollection |-> FALSE, resources |-> "small",
         autoDetect |-> TRUE, node |-> healthyNode, kubelet |-> "disabled"]

=============================================================================
