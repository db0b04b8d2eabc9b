------------------------ MODULE MCAdmissionWebhooks ------------------------
EXTENDS AdmissionWebhooks, TLC

MCNamespaces == {"app", "operator", "kube-system"}

Dash0(id) == [kind |-> "dash0", id |-> id, insecure |-> FALSE, insecureSkipVerify |-> FALSE]
Grpc(both) == [kind |-> "grpc", id |-> "g", insecure |-> both, insecureSkipVerify |-> both]

\* In MiB, and thousandths of a CPU.
MCDefaults == [limits |-> [memory |-> 500], requests |-> [memory |-> 500], goMemLimit |-> <<>>]

Transform(group) == <<[errorMode |-> "ignore",
                       groups |-> [s \in Signals |-> IF s = "traces" THEN <<group>> ELSE <<>>]]>>
Plain  == Transform([form |-> "statement", lists |-> TRUE, statements |-> <<"limit">>, conditions |-> <<>>, errorMode |-> "unset"])
Mapped == Transform([form |-> "map", lists |-> TRUE, statements |-> <<"set">>, conditions |-> <<"when">>, errorMode |-> "wrong"])
Broken == Transform([form |-> "map", lists |-> FALSE, statements |-> <<"set">>, conditions |-> <<>>, errorMode |-> "unset"])
NoOttl == Transform([form |-> "statement", lists |-> TRUE, statements |-> <<"broken">>, conditions |-> <<>>, errorMode |-> "unset"])
Filter(condition) == <<[errorMode |-> "ignore", conditions |-> [span |-> <<condition>>, log |-> <<>>]]>>

-----------------------------------------------------------------------------

HelmAll  == [sceOnly |-> FALSE, telemetry |-> TRUE, agent0 |-> TRUE, synthetics |-> TRUE, ebpf |-> TRUE, resources |-> MCDefaults]
HelmNone == [sceOnly |-> FALSE, telemetry |-> FALSE, agent0 |-> FALSE, synthetics |-> FALSE, ebpf |-> FALSE, resources |-> MCDefaults]
HelmSome == [HelmNone EXCEPT !.telemetry = TRUE]
HelmTight == [HelmSome EXCEPT !.resources = [MCDefaults EXCEPT !.limits = [memory |-> 500] @@ [x \in {"ephemeral-storage"} |-> 1200]]]

Apply(kind, name, manifest) == [cmd |-> "apply", key |-> <<kind, name>>, version |-> "v1beta1", manifest |-> manifest]
ApplyOld(ns, manifest) == [Apply("monitoring", ns, manifest) EXCEPT !.version = "v1alpha1"]
DryRun(kind, name, manifest) == [Apply(kind, name, manifest) EXCEPT !.cmd = "dryrun"]
Configuration(manifest) == Apply("configuration", "c", manifest)
Monitoring(ns, manifest) == Apply("monitoring", ns, manifest)
SignalControl(manifest) == Apply("signalcontrol", "s", manifest)
Drop(kind, name) == [cmd |-> "delete", key |-> <<kind, name>>]
Upgrade(values) == [cmd |-> "helm", helm |-> values]

Scenario(choices, n, values, labelled, overlap) ==
  [choices |-> choices, commands |-> n, helm |-> values, labelled |-> labelled, overlap |-> overlap]

A == <<Dash0("a")>>
B == <<Dash0("b")>>

MCExports == Scenario(
  {Configuration([export |-> A]), Configuration([export |-> B, transform |-> Plain]), Configuration([exports |-> A \o B]),
   Configuration([exports |-> <<Grpc(FALSE)>>, transform |-> Mapped]), Configuration([export |-> A, transform |-> Broken]),
   Configuration([exports |-> <<Grpc(TRUE)>>]), Configuration([selfMonitoring |-> "off", exports |-> A, filter |-> Filter("ok")]),
   SignalControl(<<>>), SignalControl([enabled |-> "off"]), Apply("signalcontrol", "t", <<>>), Drop("signalcontrol", "s")},
  4, HelmSome, {}, FALSE)

MCHelm == Scenario(
  {Configuration([export |-> A]), Configuration([export |-> A, agent0Connector |-> "on"]),
   Configuration([export |-> A, syntheticsWorker |-> "on", instances |-> <<"unset">>]),
   Configuration([export |-> A, syntheticsWorker |-> "off", profiling |-> "on", ebpfProfiler |-> "on"]),
   Configuration([export |-> A, syntheticsWorker |-> "off", ebpfProfiler |-> "on"]),
   Configuration([export |-> A, telemetryCollection |-> "off"]),
   Apply("configuration", "d", [export |-> A]), Drop("configuration", "c"),
   Upgrade(HelmAll), Upgrade(HelmNone), Upgrade(HelmSome)},
  5, HelmAll, {}, FALSE)

Quiet == [export |-> A, telemetryCollection |-> "off", infrastructureMetrics |-> "off",
          legacyInfrastructureMetrics |-> "off", podLabels |-> "off"]

MonitoringCommands ==
  {Configuration([export |-> A]), Configuration(Quiet), Configuration([selfMonitoring |-> "off"]), Drop("configuration", "c"),
   Monitoring("app", <<>>), Monitoring("operator", <<>>), Monitoring("kube-system", [mode |-> "none"]),
   Monitoring("app", [exports |-> B, selector |-> "team", propagators |-> <<"b3">>, events |-> "off", objects |-> "on"]),
   Monitoring("app", [export |-> A, selector |-> "invalid", filter |-> Filter("broken")]),
   ApplyOld("app", [logs |-> "off", transform |-> Plain]), ApplyOld("app", [export |-> A, scrapingLegacy |-> "off"]),
   Drop("monitoring", "app")}

MCMonitoring == Scenario(MonitoringCommands, 4, HelmSome, {}, FALSE)

MCAutomatic == Scenario(
  {Configuration([export |-> A, autoMonitor |-> "on"]), Configuration([export |-> A, template |-> <<noTemplate>>]),
   Monitoring("app", [exports |-> B]), Monitoring("kube-system", [exports |-> B]), Drop("monitoring", "app"),
   DryRun("configuration", WebhookReachabilityCheckResourceName, [transform |-> Broken]),
   DryRun("monitoring", WebhookReachabilityCheckResourceName, [selector |-> "invalid"]),
   DryRun("monitoring", "app", [exports |-> A])},
  4, [HelmSome EXCEPT !.sceOnly = TRUE], {"app"}, FALSE)

MCOverlap == Scenario(
  {Configuration([export |-> A]), Configuration([exports |-> B, selfMonitoring |-> "off"]), Drop("configuration", "c"),
   Monitoring("app", [exports |-> B, events |-> "off"]), ApplyOld("app", [export |-> A]), Drop("monitoring", "app")},
  4, HelmSome, {}, TRUE)

MCSingletons == Scenario(
  {Configuration([export |-> A]), Configuration([exports |-> <<Grpc(FALSE)>>]),
   Apply("configuration", "d", [export |-> A]), SignalControl(<<>>), Apply("signalcontrol", "t", [enabled |-> "off"])},
  3, HelmSome, {}, TRUE)

Settings(l, r, goMem) == <<[limits |-> l, requests |-> r, goMemLimit |-> goMem]>>
Storage(n) == [x \in {"ephemeral-storage"} |-> n]

ComponentSettings ==
  {Settings([memory |-> 300], <<>>, <<>>), Settings(<<>>, [memory |-> 800], <<>>),
   Settings([memory |-> removeResourceQuantity], [cpu |-> 100], <<900>>), Settings([memory |-> 0], <<>>, <<>>),
   Settings([memory |-> 400], [memory |-> 450], <<>>), Settings(<<>>, [memory |-> 600], <<550>>),
   Settings(<<>>, <<>>, <<500>>), Settings(<<>>, <<>>, <<Off>>), Settings([gpu |-> 1], <<>>, <<>>)}

MCResources == Scenario(
  {Configuration([export |-> A, components |-> c]) : c \in ComponentSettings} \cup
  {SignalControl([reservoir |-> "disk"]), SignalControl([reservoir |-> "disk", maxDisk |-> <<10>>]),
   SignalControl([reservoir |-> "disk", components |-> Settings(Storage(1280), <<>>, <<>>)]),
   SignalControl([maxDisk |-> <<4096>>, components |-> Settings(Storage(2000), <<>>, <<>>)]),
   SignalControl([sampling |-> "off", reservoir |-> "disk", durations |-> <<0, 10, 3600>>]),
   SignalControl([durations |-> <<9>>]),
   SignalControl([rules |-> <<[compiles |-> TRUE, groups |-> 2, replacements |-> 1]>>])},
  3, HelmTight, {}, FALSE)

MCScenarios == [exports |-> MCExports, helm |-> MCHelm, monitoring |-> MCMonitoring, automatic |-> MCAutomatic,
                overlap |-> MCOverlap, singletons |-> MCSingletons, resources |-> MCResources]

=============================================================================
