---------------------- MODULE MCOperatorConfiguration ----------------------
(* Scenarios for model checking OperatorConfiguration.                     *)
EXTENDS OperatorConfiguration

spec(v, export, auth) ==
  [v |-> v, export |-> export, auth |-> auth, apiAccess |-> TRUE, selfMonitoring |-> TRUE, delivery |-> "auto"]

dash0 == spec(1, "dash0", "literal")
grpc == [spec(2, "grpc", "none") EXCEPT !.delivery = "init-container"]
silent == [spec(3, "dash0", "literal") EXCEPT !.selfMonitoring = FALSE]
secret == spec(4, "dash0", "secretRef")
empty == spec(5, "none", "none")
headers == spec(6, "grpc", "secretRef")
json == spec(7, "httpJson", "none")
http == spec(8, "http", "secretRef")

apply(name, s) == [op |-> "apply", name |-> name, spec |-> s]
delete(name) == [op |-> "delete", name |-> name]
helmUpdate(values) == [op |-> "helm", values |-> values]

values(v) ==
  [v |-> v, endpoint |-> TRUE, auth |-> "literal", exports |-> <<>>, parses |-> TRUE, selfMonitoring |-> TRUE,
   delivery |-> "auto"]
initial == values(1)
other == [values(2) EXCEPT !.endpoint = FALSE, !.exports = <<[kind |-> "grpc", endpoint |-> TRUE]>>]
invalid == {[values(3) EXCEPT !.auth = "none"], [values(3) EXCEPT !.parses = FALSE],
            [values(3) EXCEPT !.exports = <<[kind |-> "http", endpoint |-> FALSE]>>]}

Scenario(script_, values_, faults) ==
  [script |-> script_, values |-> values_, faults |-> faults, validated |-> TRUE, secret |-> TRUE]

\* Changes of a manual resource.
manualScenarios ==
  {Scenario(<<apply("m", dash0), apply("m", b)>>, None, 1) : b \in {grpc, silent, empty}}
  \cup {Scenario(<<apply("m", dash0), delete("m"), apply("m", grpc)>>, None, 0)}
  \cup {[Scenario(<<apply("m", a), apply("m", b)>>, None, 0) EXCEPT !.secret = readable] :
         readable \in BOOLEAN, a \in {secret, json}, b \in {headers, http}}

secretScenarios == {Scenario(<<apply("m", secret)>>, None, 1)}

\* The resource is managed via Helm, alone or next to a user with a manual one.
helmScenarios ==
  {Scenario(<<helmUpdate(refused), helmUpdate(other)>>, initial, 1) : refused \in invalid}
  \cup {Scenario(<<apply("m", silent), delete("m")>>, initial, 0),
        Scenario(<<apply(autoResource, empty), delete(autoResource)>>, initial, 0),
        Scenario(<<helmUpdate(other), delete(autoResource)>>, initial, 0)}

\* The validating webhook is not called, a second resource gets in. Users remove all
\* but one of them, as the status asks for, or not.
duplicates(script_, faults) == [Scenario(script_, None, faults) EXCEPT !.validated = FALSE]

differingScenarios == {duplicates(<<apply("m", dash0), apply("n", grpc)>>, 0)}

twins == <<apply("m", dash0), apply("n", dash0)>>

duplicateScenarios ==
  {duplicates(twins, 1), duplicates(Append(twins, apply("m", silent)), 0), duplicates(Append(twins, delete("n")), 0),
   duplicates(twins \o <<apply("k", dash0), delete("n")>>, 0), duplicates(twins \o <<delete("m"), apply("m", dash0)>>, 0)}

MCScenarios == manualScenarios \cup secretScenarios \cup helmScenarios \cup differingScenarios \cup duplicateScenarios

=============================================================================
