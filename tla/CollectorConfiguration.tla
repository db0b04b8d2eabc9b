----------------------- MODULE CollectorConfiguration -----------------------
(***************************************************************************)
(* What the operator renders into the configuration of the OpenTelemetry   *)
(* collectors: the exporters it derives from the export settings of the    *)
(* operator configuration and of the monitoring resources, the namespace   *)
(* filter, the custom filters and transformations, the thresholds of the   *)
(* memory limiter, and the routing of the telemetry through the producer   *)
(* collectors and the Signal Control collector (the gateway).              *)
(*                                                                         *)
(* An export is a function from the protocols it configures to their       *)
(* settings.  A condition, a statement and an endpoint are small values;   *)
(* an endpoint is "" (missing), "http://" (no TLS) or "host".              *)
(***************************************************************************)
EXTENDS Integers, Sequences, FiniteSets, SequencesExt

CONSTANTS OperatorNamespace,  \* the namespace of the operator
          NoNamespace,        \* telemetry that belongs to no namespace
          NoEnvVar            \* an exporter without a Dash0 token

Default == "default"          \* owner of the exports of the operator configuration

Signals == {"traces", "metrics", "logs", "profiles"}

Concat(seqs) == FoldLeft(LAMBDA a, b : a \o b, <<>>, seqs)

-----------------------------------------------------------------------------
(* Exporters: exporter.go, authorization.go                                *)

NameSuffix(owner, index) == <<owner, index>>

authEnvVarName(owner, index) == <<"OTELCOL_AUTH_TOKEN", owner, index>>

HeaderSecretEnvVarName(protocol, suffix, i) == <<"DASH0_HEADER", protocol, suffix, i>>

Failed == [ok |-> FALSE, list |-> <<>>]
Converted(list) == [ok |-> TRUE, list |-> list]

\* Exactly one of value and valueFrom; a reference names a secret and a key.
resolveExporterHeaders(headers, protocol, suffix) ==
  IF \E i \in DOMAIN headers : \/ headers[i].value = (headers[i].valueFrom # "none")
                               \/ headers[i].valueFrom = "incomplete"
  THEN Failed
  ELSE Converted([i \in DOMAIN headers |->
                    IF headers[i].value THEN NoEnvVar
                    ELSE HeaderSecretEnvVarName(protocol, suffix, i)])

hasNonTlsPrefix(endpoint) == endpoint = "http://"

setInsecureSkipVerify(s) == ~hasNonTlsPrefix(s.endpoint) /\ s.insecureSkipVerify

Exporter(name, s, auth, dataset, headers, insecure, skipVerify) ==
  [name |-> name, endpoint |-> s.endpoint, auth |-> auth, dataset |-> dataset,
   headers |-> headers, insecure |-> insecure, insecureSkipVerify |-> skipVerify]

convertDash0ExporterToOtlpExporter(s, suffix, auth) ==
  IF s.endpoint = "" THEN Failed
  ELSE Converted(<<Exporter(<<"otlp_grpc/dash0", suffix>>, s, auth, s.dataset, <<>>,
                            hasNonTlsPrefix(s.endpoint), FALSE)>>)

convertGrpcExporterToOtlpExporter(s, suffix) ==
  LET headers == resolveExporterHeaders(s.headers, "GRPC", suffix)
  IN  IF s.endpoint = "" \/ ~headers.ok THEN Failed
      ELSE Converted(<<Exporter(<<"otlp_grpc", suffix>>, s, NoEnvVar, "", headers.list,
                                IF s.insecure # "unset" THEN s.insecure = "true"
                                ELSE hasNonTlsPrefix(s.endpoint),
                                setInsecureSkipVerify(s))>>)

convertHttpExporterToOtlpExporter(s, suffix) ==
  LET headers == resolveExporterHeaders(s.headers, "HTTP", suffix)
  IN  IF s.endpoint = "" \/ s.encoding = "" \/ ~headers.ok THEN Failed
      ELSE Converted(<<Exporter(<<"otlp_http", suffix, s.encoding>>, s, NoEnvVar, "",
                                headers.list, FALSE, setInsecureSkipVerify(s))>>)

convertExportSettingsToExporterList(export, index, owner) ==
  LET suffix == NameSuffix(owner, index)
      convert(p) ==
        CASE p = "dash0" -> convertDash0ExporterToOtlpExporter(export[p], suffix,
                                                               authEnvVarName(owner, index))
          [] p = "grpc"  -> convertGrpcExporterToOtlpExporter(export[p], suffix)
          [] p = "http"  -> convertHttpExporterToOtlpExporter(export[p], suffix)
      parts == SelectSeq(<<"dash0", "grpc", "http">>, LAMBDA p : p \in DOMAIN export)
      converted == [k \in DOMAIN parts |-> convert(parts[k])]
  IN  IF parts = <<>> \/ \E k \in DOMAIN converted : ~converted[k].ok THEN Failed
      ELSE Converted(Concat([k \in DOMAIN converted |-> converted[k].list]))

\* An invalid default export fails the whole reconciliation.
getDefaultOtlpExporters(exports) ==
  LET converted == [i \in DOMAIN exports |->
                      convertExportSettingsToExporterList(exports[i], i, Default)]
  IN  IF \E i \in DOMAIN converted : ~converted[i].ok THEN Failed
      ELSE Converted(Concat([i \in DOMAIN converted |-> converted[i].list]))

\* The list of a namespace ends before its first invalid export.
exportersOfNamespace(m) ==
  LET converted == [i \in DOMAIN m.exports |->
                      convertExportSettingsToExporterList(m.exports[i], i, m.ns)]
      valid == {i \in DOMAIN converted : \A j \in 1 .. i : converted[j].ok}
  IN  Concat([i \in 1 .. Cardinality(valid) |-> converted[i].list])

getNamespacedOtlpExporters(monitorings) ==
  [n \in {m.ns : m \in {x \in monitorings : x.exports # <<>>}} |->
     exportersOfNamespace(CHOOSE m \in monitorings : m.ns = n)]

IsDash0(exporter) == exporter.auth # NoEnvVar

DefaultDash0Exporters(x) == SelectSeq(x.default, IsDash0)

\* Variant of DefaultPassthrough that does not leave out the Dash0 exporters.
DefaultPassthroughOfAll(x) == x.default

DefaultPassthrough(x) == SelectSeq(x.default, LAMBDA e : ~IsDash0(e))

DatasetOf(exporter) == IF exporter.dataset = "" THEN "default" ELSE exporter.dataset

\* The Dash0 exporters of a namespace, grouped by dataset in order of appearance.
DatasetBranches(list) ==
  LET dash0 == SelectSeq(list, IsDash0)
      firsts == {i \in DOMAIN dash0 : \A j \in 1 .. (i - 1) :
                                         DatasetOf(dash0[j]) # DatasetOf(dash0[i])}
      order == SetToSortSeq(firsts, <)
  IN  [b \in DOMAIN order |->
         SelectSeq(dash0, LAMBDA e : DatasetOf(e) = DatasetOf(dash0[order[b]]))]

NamespaceSC(x) ==
  [n \in DOMAIN x.namespaced |->
     [branches    |-> DatasetBranches(x.namespaced[n]),
      passthrough |-> SelectSeq(x.namespaced[n], LAMBDA e : ~IsDash0(e))]]

HasNamespacedDash0Exporters(x) == \E n \in DOMAIN x.namespaced : NamespaceSC(x)[n].branches # <<>>

AllNamespaceKeys(x) == SetToSeq(DOMAIN x.namespaced)

allNamespacedExporters(x) ==
  Concat([k \in DOMAIN AllNamespaceKeys(x) |-> x.namespaced[AllNamespaceKeys(x)[k]]])

allExporters(x) == x.default \o allNamespacedExporters(x)

exportersOf(c) == [default    |-> getDefaultOtlpExporters(c.exports).list,
                   namespaced |-> getNamespacedOtlpExporters(c.monitorings)]

-----------------------------------------------------------------------------
(* Signal Control settings: otelcol_resources.go                           *)

\* The first Dash0 export; its position names the variable with its token.
deriveDash0EndpointsAndDataset(exports) ==
  LET dash0 == {i \in DOMAIN exports : "dash0" \in DOMAIN exports[i]}
  IN  IF dash0 = {} THEN [found |-> FALSE, index |-> 1, api |-> FALSE]
      ELSE LET i == CHOOSE i \in dash0 : \A j \in dash0 : i <= j
           IN  [found |-> TRUE, index |-> i, api |-> exports[i]["dash0"].apiEndpoint]

reservoirMaxDiskBytes(r, default, floor) ==
  IF r.maxDiskBytes = -1 THEN default
  ELSE IF r.maxDiskBytes < floor THEN floor ELSE r.maxDiskBytes

\* The margin of 25 %, rounded up.
reservoirDerivedStorage(maxDiskBytes) == (maxDiskBytes * 5 + 3) \div 4

signalControlConfigFromResource(sc, exports) ==
  LET derived == deriveDash0EndpointsAndDataset(exports)
      enabled == /\ sc.present
                 /\ sc.enabled
                 /\ derived.found \/ sc.edgeProxy \/ sc.decisionMakerEndpoint
                                  \/ sc.controlPlaneApiEndpoint
  IN  [Enabled          |-> enabled,
       SamplingEnabled  |-> enabled /\ sc.sampling,
       ReservoirType    |-> sc.reservoir,
       EdgeProxyEnabled |-> enabled /\ sc.edgeProxy,
       ApiEndpoint      |-> sc.controlPlaneApiEndpoint \/ derived.api,
       AuthEnvVar       |-> authEnvVarName(Default, derived.index)]

UsesDiskReservoir(scc) == scc.Enabled /\ scc.SamplingEnabled /\ scc.ReservoirType = "disk"

\* CollectorManager treats Signal Control as absent without a Dash0 export.
SignalControl(c) ==
  signalControlConfigFromResource(
    [c.sc EXCEPT !.present = @ /\ deriveDash0EndpointsAndDataset(c.exports).found], c.exports)

signalControlGatewayActive(c) ==
  /\ SignalControl(c).Enabled
  /\ c.scImage
  /\ DefaultDash0Exporters(exportersOf(c)) # <<>> \/ HasNamespacedDash0Exporters(exportersOf(c))

-----------------------------------------------------------------------------
(* Routing: daemonset/deployment/signalcontrol.config.yaml.template        *)

gwDefault(c) == signalControlGatewayActive(c) /\ DefaultDash0Exporters(exportersOf(c)) # <<>>

\* The pipelines to which a producer collector routes a record of a namespace.
producerPipelines(c, ns) ==
  LET x == exportersOf(c)
  IN  IF ns \in DOMAIN x.namespaced
      THEN IF signalControlGatewayActive(c)
           THEN    (IF NamespaceSC(x)[ns].branches # <<>> THEN {<<"to-signal-control">>} ELSE {})
             \cup  (IF NamespaceSC(x)[ns].passthrough # <<>> THEN {<<"ns/passthrough", ns>>} ELSE {})
           ELSE {<<"ns", ns>>}
      ELSE IF gwDefault(c)
           THEN    {<<"to-signal-control">>}
             \cup  (IF DefaultPassthrough(x) # <<>> THEN {<<"default/passthrough">>} ELSE {})
           ELSE {<<"default">>}

\* The exporters of a producer's export pipeline.
producerExports(c, pipeline) ==
  LET x == exportersOf(c)
  IN  CASE pipeline[1] = "ns"                  -> x.namespaced[pipeline[2]]
        [] pipeline[1] = "ns/passthrough"      -> NamespaceSC(x)[pipeline[2]].passthrough
        [] pipeline[1] = "default"             -> x.default
        [] pipeline[1] = "default/passthrough" -> DefaultPassthrough(x)
        [] OTHER                               -> <<>>

samplingActive(c) ==
  /\ SignalControl(c).SamplingEnabled
  /\ DefaultDash0Exporters(exportersOf(c)) # <<>> \/ HasNamespacedDash0Exporters(exportersOf(c))

\* What leaves the tail sampling: routed again if a namespace has Dash0 exports.
sampledExports(c, ns) ==
  LET x == exportersOf(c)
  IN  IF ns \in DOMAIN x.namespaced /\ NamespaceSC(x)[ns].branches # <<>>
      THEN NamespaceSC(x)[ns].branches[1]
      ELSE DefaultDash0Exporters(x)

\* The exporters a record reaches once the gateway has received it.
gatewayExports(c, signal, ns) ==
  LET x == exportersOf(c)
      sampled == signal = "traces" /\ samplingActive(c)
  IN  IF ns \in DOMAIN x.namespaced /\ NamespaceSC(x)[ns].branches # <<>>
      THEN LET branches == NamespaceSC(x)[ns].branches
           IN  Concat([b \in DOMAIN branches |->
                         IF sampled /\ b = 1 THEN sampledExports(c, ns) ELSE branches[b]])
      ELSE IF DefaultDash0Exporters(x) = <<>> THEN <<>>
           ELSE IF sampled THEN sampledExports(c, ns) ELSE DefaultDash0Exporters(x)

\* All exporters a record reaches, with repetitions.
delivered(c, signal, ns) ==
  IF signal = "profiles" THEN exportersOf(c).default
  ELSE LET pipelines == SetToSeq(producerPipelines(c, ns))
       IN  Concat([k \in DOMAIN pipelines |->
                     IF pipelines[k] = <<"to-signal-control">> THEN gatewayExports(c, signal, ns)
                     ELSE producerExports(c, pipelines[k])])

-----------------------------------------------------------------------------
(* Filters and transformations: collector_config_maps.go                   *)

Severity == [m \in {"", "silent", "ignore", "propagate"} |->
               CASE m = "" -> 0 [] m = "silent" -> 1 [] m = "ignore" -> 2 [] m = "propagate" -> 3]

\* Variant of compareErrorMode in which the later resource wins.
compareErrorModeByOrder(m1, m2) == IF m2 = "" THEN m1 ELSE m2

compareErrorMode(m1, m2) ==
  IF \/ m1 = ""
     \/ m1 = "silent" /\ m2 \in {"ignore", "propagate"}
     \/ m1 = "ignore" /\ m2 = "propagate"
  THEN m2 ELSE m1

aggregateErrorMode(modes) ==
  LET mode == FoldLeft(compareErrorMode, "", modes) IN IF mode = "" THEN "ignore" ELSE mode

Slots == {"span", "spanEvent", "metric", "dataPoint", "logRecord", "profile"}

HasAnyFilters(f) == \E s \in Slots : f.conditions[s] # <<>>

prependNamespaceCheckToOttlCondition(ns, condition) == [ns |-> ns, condition |-> condition]

Unscoped(condition) == [ns |-> NoNamespace, condition |-> condition]

InOrder(monitorings) == SetToSeq(monitorings)

\* The conditions of all namespaces, each scoped to its own, then the global ones.
aggregateCustomFilters(monitorings, global) ==
  LET specs == SelectSeq(InOrder(monitorings), LAMBDA m : HasAnyFilters(m.filter))
      scoped(m, s) == [k \in DOMAIN m.filter.conditions[s] |->
                         prependNamespaceCheckToOttlCondition(m.ns, m.filter.conditions[s][k])]
      globals == IF HasAnyFilters(global) THEN <<global>> ELSE <<>>
  IN  [conditions |-> [s \in Slots |->
         Concat([k \in DOMAIN specs |-> scoped(specs[k], s)]) \o
         Concat([k \in DOMAIN globals |->
                   [j \in DOMAIN globals[k].conditions[s] |-> Unscoped(globals[k].conditions[s][j])]])],
       errorMode  |-> aggregateErrorMode([k \in DOMAIN specs |-> specs[k].filter.errorMode] \o
                                         [k \in DOMAIN globals |-> globals[k].errorMode])]

HasAnyStatements(t) == \E s \in Signals : t.groups[s] # <<>>

Always == "always"   \* the condition that is met by every record

\* Variant of prependNamespaceConditionToTransformGroupConditions that forgets groups
\* without conditions.
prependNamespaceConditionToConditionsOnly(ns, group) ==
  [statement  |-> group.statement,
   conditions |-> {prependNamespaceCheckToOttlCondition(ns, d) : d \in group.conditions}]

\* The conditions of a group are alternatives, hence the check goes into each;
\* a group without conditions gets the check as its only one.
prependNamespaceConditionToTransformGroupConditions(ns, group) ==
  [statement  |-> group.statement,
   conditions |-> IF group.conditions = {} THEN {prependNamespaceCheckToOttlCondition(ns, Always)}
                  ELSE {prependNamespaceCheckToOttlCondition(ns, d) : d \in group.conditions}]

convertTransformGroup(group) ==
  [statement |-> group.statement, conditions |-> {Unscoped(d) : d \in group.conditions}]

aggregateCustomTransforms(monitorings, global) ==
  LET specs == SelectSeq(InOrder(monitorings), LAMBDA m : HasAnyStatements(m.transform))
      scoped(m, s) ==
        [k \in DOMAIN m.transform.groups[s] |->
           prependNamespaceConditionToTransformGroupConditions(m.ns, m.transform.groups[s][k])]
      globals == IF HasAnyStatements(global) THEN <<global>> ELSE <<>>
  IN  [groups |-> [s \in Signals |->
         Concat([k \in DOMAIN specs |-> scoped(specs[k], s)]) \o
         Concat([k \in DOMAIN globals |->
                   [j \in DOMAIN globals[k].groups[s] |-> convertTransformGroup(globals[k].groups[s][j])]])],
       errorMode |-> aggregateErrorMode([k \in DOMAIN specs |-> specs[k].transform.errorMode] \o
                                        [k \in DOMAIN globals |-> globals[k].errorMode])]

\* External: how the collector evaluates a condition for a record of a namespace.
meets(condition, ns, truths) ==
  /\ condition.ns \in {NoNamespace, ns}
  /\ condition.condition = Always \/ condition.condition \in truths

\* External: the filter processor drops what meets one of the conditions.
dropped(conditions, ns, truths) == \E k \in DOMAIN conditions : meets(conditions[k], ns, truths)

\* External: the transform processor runs a group without conditions on every record.
applies(group, ns, truths) ==
  group.conditions = {} \/ \E d \in group.conditions : meets(d, ns, truths)

=============================================================================
