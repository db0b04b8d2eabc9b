----------------------- MODULE MCWebhookCertificates -----------------------
(* Scenarios for model checking WebhookCertificates.                       *)
EXTENDS WebhookCertificates

MCTargetList == <<"mutating", "validating">>

chartCa == [id |-> 101, notAfter |-> 100, kind |-> "chart"]
certManagerCa == [id |-> 102, notAfter |-> 100, kind |-> "other"]

svc == [r \in Replicas |-> {"svc"}]

Scenario(script_) ==
  [script |-> script_, faults |-> 0, outage |-> 0, names |-> svc, trusted |-> {}, previousSecret |-> {},
   missing |-> {}, denied |-> {}, deniedFrom |-> 0, perses |-> "absent", exempt |-> FALSE, until |-> 9]

on(op, t) == [op |-> op, at |-> t]
kill(r, t) == [op |-> "kill", at |-> t, name |-> r]
apply(target, b, t) == [op |-> "target", at |-> t, name |-> target, bundle |-> b]

MCScenarios ==
  { \* A fresh installation and a rotation, with failing requests.
    [Scenario(<<>>) EXCEPT !.faults = 1],
    [Scenario(<<>>) EXCEPT !.faults = 1, !.perses = "ours", !.missing = {"validating"}],
    [Scenario(<<>>) EXCEPT !.outage = 1],
    \* Upgrades from an older chart version and from cert-manager, with another service name.
    [Scenario(<<>>) EXCEPT !.trusted = {chartCa}, !.previousSecret = {chartCa}, !.perses = "none"],
    [Scenario(<<>>) EXCEPT !.trusted = {certManagerCa}, !.perses = "foreign", !.until = 3],
    [Scenario(<<>>) EXCEPT !.names = [svc EXCEPT !["b"] = {"other"}]],
    \* A target refuses the bundle.
    [Scenario(<<>>) EXCEPT !.denied = {"validating"}],
    [Scenario(<<>>) EXCEPT !.denied = {"validating"}, !.deniedFrom = 2],
    \* Data is removed, a target is overwritten or created late, pods are killed.
    [Scenario(<<on("wipe", 1)>>) EXCEPT !.until = 4],
    [Scenario(<<on("replace", 1)>>) EXCEPT !.exempt = TRUE, !.until = 3],
    [Scenario(<<apply("validating", {}, 0), apply("validating", {chartCa}, 1)>>)
       EXCEPT !.missing = {"validating"}, !.until = 2],
    [Scenario(<<kill("a", 0)>>) EXCEPT !.until = 2],
    Scenario(<<kill("b", 5)>>) }

=============================================================================
