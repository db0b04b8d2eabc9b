--------------------- MODULE MCAutoNamespaceMonitoring ---------------------
(* Scenarios for model checking AutoNamespaceMonitoring.                   *)
EXTENDS AutoNamespaceMonitoring

MCNamespaces == {"n", "m", "kube-system", "dash0-system"}

conf(selector, template) ==
  [enabled |-> TRUE, selector |-> selector, available |-> TRUE,
   template |-> CASE template = 0 -> NoTemplate
                  [] template = 1 -> [meta |-> "x", spec |-> "x"]
                  [] template = 2 -> [meta |-> "y", spec |-> "x"]
                  [] template = 3 -> [meta |-> "y", spec |-> "y"]]
off == [conf("a", 1) EXCEPT !.enabled = FALSE]
unavailable == [conf("a", 1) EXCEPT !.available = FALSE]

applyConfig(s) == [op |-> "config", spec |-> s]
do(op) == [op |-> op]
with(op, n) == [op |-> op, name |-> n]
label(n, labels) == [op |-> "namespace", name |-> n, labels |-> labels]

Scenario(script_, faults) ==
  [script |-> script_, faults |-> faults, pace |-> "reconciled", hookTimesOut |-> FALSE,
   restricted |-> {"kube-system"}, operatorNamespace |-> {"dash0-system"},
   labels |-> [n \in {"n", "kube-system", "dash0-system"} |-> {"a"}]]

\* A second namespace that only another selector matches.
withSecondNamespace(s) == [s EXCEPT !.labels = [n \in MCNamespaces |-> IF n = "m" THEN {"b"} ELSE {"a"}]]

\* The operator configuration changes, as soon as the reconciler is done with the last change.
configScenarios ==
  {withSecondNamespace(Scenario(<<applyConfig(conf("a", 1)), applyConfig(c), applyConfig(d)>>, 0)) :
     c \in {off, unavailable, conf("b", 1)}, d \in {off, conf("a", 1), conf("b", 1)}}
  \cup {Scenario(<<applyConfig(conf("a", 1)), do("deleteConfig"), applyConfig(conf("b", 1))>>, 0),
        [Scenario(<<applyConfig(conf("a", 1)), applyConfig(unavailable), applyConfig(conf("a", 1))>>, 0)
           EXCEPT !.pace = "impatient"]}

\* Namespaces and monitoring resources come and go, with failing requests.
namespaceScenarios ==
  {Scenario(<<applyConfig(conf("a", 1)), label("m", {"a"}), with("deleteNamespace", "n")>>, 1),
   Scenario(<<label("m", {"b"}), applyConfig(conf("a", 1)), label("m", {"a", "b"}), label("n", {})>>, 0),
   Scenario(<<applyConfig(conf("a", 1)), with("manual", "n"), applyConfig(off), with("remove", "n")>>, 0),
   Scenario(<<applyConfig(conf("a", 1)), with("manual", "n"), with("remove", "n")>>, 1),
   [Scenario(<<applyConfig(conf("a", 1)), applyConfig(conf("a", 2)), applyConfig(conf("a", 0))>>, 0)
      EXCEPT !.pace = "quiet"],
   [Scenario(<<applyConfig(conf("a", 1)), applyConfig(conf("a", 2)), applyConfig(conf("a", 3)), label("n", {})>>, 0)
      EXCEPT !.pace = "quiet"],
   Scenario(<<applyConfig(conf("a", 1)), applyConfig(off)>>, 1),
   Scenario(<<applyConfig(conf("a", 1)), applyConfig(conf("a", 2)), label("m", {"a"})>>, 0),
   Scenario(<<applyConfig(conf("a", 1)), label("n", {"b"}), applyConfig(conf("b", 1))>>, 0),
   Scenario(<<applyConfig(conf("a", 1)), applyConfig(unavailable), label("n", {"b"}), applyConfig(conf("a", 1))>>, 0),
   Scenario(<<applyConfig(conf("a", 1)), with("deleteNamespace", "n"), label("n", {"b"})>>, 0)}

\* The operator is uninstalled.
uninstallScenarios ==
  {[Scenario(<<applyConfig(conf("a", 1)), label("m", {"a"}), do("uninstall"), last>>, 1) EXCEPT !.hookTimesOut = out] :
     out \in BOOLEAN, last \in {do("deleteConfig"), do("restart"), applyConfig(conf("b", 1))}}
  \cup {Scenario(<<applyConfig(conf("a", 1)), do("deleteConfig"), with("remove", "n")>>, 0),
        Scenario(<<applyConfig(conf("a", 1)), do("restart")>>, 0)}

MCScenarios == configScenarios \cup namespaceScenarios \cup uninstallScenarios

=============================================================================
