------------------------- MODULE MCManagedComponents -------------------------
(* Scenarios for model checking ManagedComponents.                         *)
EXTENDS ManagedComponents, MCConfigurations

with(c, caller) == [c EXCEPT !.via = caller]

Scenario(comp, configs, faults) ==
  [component |-> comp, configs |-> configs, faults |-> faults, initial |-> <<>>, tampered |-> {},
   left |-> [faults |-> IF faults = {} THEN 0 ELSE 1, tampering |-> 0, restarts |-> 0]]

existing(r, foreign) ==
  id(r) :> [spec |-> r, selfRef |-> FALSE, adjusted |-> FALSE, terminating |-> FALSE, foreign |-> foreign]

\* Metrics off and on with another kubelet; a volume for the offsets; removal.
collectorScenarios ==
  {Scenario("collector", <<base, [base EXCEPT !.infrastructureMetrics = FALSE, !.monitorings = {}],
                           [base EXCEPT !.node = selfSignedNode]>>, {}),
   Scenario("collector", <<[base EXCEPT !.gkeAutopilot = TRUE],
                           [base EXCEPT !.gkeAutopilot = TRUE, !.resources = "large", !.via = "extraConfig"]>>, {"api"}),
   [Scenario("collector", <<base, [base EXCEPT !.present = FALSE]>>, {"api"}) EXCEPT !.left.restarts = 1],
   [Scenario("collector", <<[base EXCEPT !.sc = fullSignalControl],
                            [base EXCEPT !.offsetStorageVolume = TRUE, !.via = "extraConfig"]>>, {}) EXCEPT
      !.tampered = {<<"DaemonSet", DaemonSetName>>, <<"ClusterRole", DaemonSetClusterRoleName>>}, !.left.tampering = 1,
      !.initial = existing([kind |-> "DaemonSet", name |-> <<daemonSetSuffix>>], FALSE)],
   Scenario("collector", <<[base EXCEPT !.mtls = TRUE, !.caCert = "ca1"],
                           [base EXCEPT !.mtls = TRUE, !.caCert = "", !.via = "secret"],
                           [base EXCEPT !.mtls = TRUE, !.caCert = "ca2", !.via = "secret"]>>, {}),
   Scenario("collector", <<[base EXCEPT !.exports = <<[dash0Export EXCEPT !["dash0"].endpoint = ""]>>], base>>, {})}

taScenarios ==
  {Scenario("ta", <<base, [base EXCEPT !.prometheusCrd = FALSE], [base EXCEPT !.mtls = TRUE, !.via = "extraConfig"]>>, {"api"})}

writeRule == rule({"get", "delete"}, {""}, {"pods"}, {})
reviewRule == rule({"create"}, {"authorization.k8s.io"}, {"selfsubjectaccessreviews"}, {})
wideReviewRule == rule({"create"}, {"authorization.k8s.io", ""}, {"selfsubjectaccessreviews"}, {})

a0cScenarios ==
  {Scenario("a0c", <<base, [base EXCEPT !.agent0Rules = {r}, !.via = "extraConfig"], [base EXCEPT !.agent0 = FALSE]>>,
            {"api", "forbidden"}) : r \in {writeRule, reviewRule, wideReviewRule}}
  \cup {Scenario("a0c", <<[base EXCEPT !.agent0Token = FALSE], [base EXCEPT !.present = FALSE]>>, {})}

scScenarios ==
  LET sc == [base EXCEPT !.sc = fullSignalControl]
  IN  {Scenario("sc", <<sc, [sc EXCEPT !.sc.present = FALSE, !.via = "watch"]>>, {"api"}),
       Scenario("sc", <<[sc EXCEPT !.exports = <<httpExport>>], sc, [sc EXCEPT !.sc.edgeProxy = FALSE, !.via = "watch"]>>, {})}

swScenarios ==
  {Scenario("sw", <<base, [base EXCEPT !.synthetics = {"us"}], [base EXCEPT !.syntheticsEnabled = FALSE]>>, {"api", "net", "forbidden"}),
   Scenario("sw", <<base, [base EXCEPT !.synthetics = {"eu", "us"}, !.syntheticsNoToken = {"eu"}],
                    [base EXCEPT !.present = FALSE]>>, {"net"})}

prScenarios ==
  {[Scenario("pr", <<base, [base EXCEPT !.debuginfoUpload = FALSE], base>>, {"api"}) EXCEPT
      !.tampered = {<<"DaemonSet", prName(proxyComponent)>>}, !.left.tampering = 1],
   Scenario("pr", <<base, [base EXCEPT !.secretVersion = 2, !.via = "secret"], [base EXCEPT !.profiling = FALSE]>>, {}),
   [Scenario("pr", <<[base EXCEPT !.profiling = FALSE], [base EXCEPT !.present = FALSE]>>, {}) EXCEPT
      !.initial = existing([kind |-> "DaemonSet", name |-> prName(proxyComponent)], TRUE),
      !.left.restarts = 1],
   Scenario("pr", <<[base EXCEPT !.proxyImage = FALSE], base>>, {})}

MCScenarios == collectorScenarios \cup taScenarios \cup a0cScenarios \cup scScenarios \cup swScenarios \cup prScenarios

=============================================================================
