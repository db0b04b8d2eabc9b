------------------------ MODULE WebhookCertificates ------------------------
(***************************************************************************)
(* The certificates of the operator's webhooks: every replica of the       *)
(* operator creates, renews and rotates them, stores them in one Secret,   *)
(* serves with them and injects the bundle of trusted CAs into the webhook *)
(* configurations, while the pods of an older chart version may still      *)
(* serve with theirs.                                                      *)
(*                                                                         *)
(* Time advances in steps in which every replica runs at least one pass,   *)
(* except during an outage of the API server. The Secret and the targets   *)
(* are protected by resource versions; patching a target is one step, as   *)
(* conflicts are tried again at once.                                      *)
(***************************************************************************)
EXTENDS Integers, Sequences, FiniteSets

CONSTANTS Replicas, TargetList, Scenarios,
          caValidity, servingCertValidity, servingCertRenewBefore, caRotationLeadTime,
          forcedSwitchLeadTime, minimumRotationAge, foreignCertRetention

VARIABLES scenario,
          script,   \* what users still do, in this order
          left,     \* how many requests to the API server may still fail
          outage,   \* how many steps of time may pass without a pass
          now,
          serial,   \* how many CAs the operator has created
          secret,   \* the Secret in the API server
          targets,  \* the webhook configurations and CRDs
          perses,   \* the conversion webhook of the Perses CRD
          pods,     \* what every replica has in memory
          pass,     \* the pass in progress in every replica
          due,      \* the replicas that have to run a pass
          notify,   \* the replicas with a listener that is to be called
          legacy,   \* a pod of an older chart version is running
          hook      \* the post-install hook

vars == <<scenario, script, left, outage, now, serial, secret, targets, perses, pods, pass, due, notify, legacy, hook>>

Clock == <<left, outage, now>>
Cluster == <<targets, perses, legacy, hook>>

Targets == {TargetList[i] : i \in DOMAIN TargetList}

NoCa == [id |-> 0, notAfter |-> 0, kind |-> "none"]
NoServing == [ca |-> 0, notAfter |-> 0, names |-> {}]
NoMaterial == [active |-> NoCa]
NoPass == [stage |-> "idle"]
NewPod == [running |-> TRUE, ready |-> FALSE, serving |-> NoServing, bundle |-> {}, remembered |-> NoMaterial, uid |-> 0]

ids(cas) == {c.id : c \in cas}

-----------------------------------------------------------------------------
(* Certificates                                                            *)

isExpired(c) == now > c.notAfter

withoutExpired(cas) == {c \in cas : ~isExpired(c)}

generateCa == [id |-> serial + 1, notAfter |-> now + caValidity, kind |-> "operator"]

servingCertNotAfter(ca) == IF ca.notAfter < now + servingCertValidity THEN ca.notAfter ELSE now + servingCertValidity

issueServingCert(ca, names) == [ca |-> ca.id, notAfter |-> servingCertNotAfter(ca), names |-> names]

verifyServingCertChain(serving, ca) == serving.ca = ca.id /\ ~isExpired(serving)

-----------------------------------------------------------------------------
(* The material in the Secret                                              *)

bundle(m) == {m.active} \cup ({m.pending} \ {NoCa}) \cup m.previous \cup m.chart \cup m.other

usable(m) == m.active # NoCa /\ ~isExpired(m.active)

\* An unusable pending CA or serving certificate is dropped.
materialFromSecretData(m) ==
  LET pending == IF m.pending # NoCa /\ isExpired(m.pending) THEN NoCa ELSE m.pending
  IN [m EXCEPT !.pending = pending,
               !.startedAt = IF pending = NoCa THEN 0 ELSE @,
               !.serving = IF verifyServingCertChain(m.serving, m.active) THEN @ ELSE NoServing]

\* The conversion webhook of the Perses CRD belongs to the operator, to someone else or to
\* nobody; the CRD may be absent, or not be patched at all.
conversionStanzaMatchesOurs == perses.owner = "ours"
hasForeignConversionWebhook == perses.owner = "foreign"

\* What the targets and the Secret of older chart versions trust, apart from the operator's own CAs.
foreign == {c \in scenario.previousSecret \cup UNION {targets[t].bundle : t \in {u \in Targets : targets[u].exists}} :
              ~isExpired(c) /\ c.kind # "operator"}

chartCas == {c \in foreign : c.kind = "chart" \/ c \in scenario.previousSecret}

generateMaterial(names) ==
  [active |-> generateCa, pending |-> NoCa, startedAt |-> 0, previous |-> {}, chart |-> chartCas,
   other |-> foreign \ chartCas, since |-> now, serving |-> issueServingCert(generateCa, names)]

retainChartCas(m) == [m EXCEPT !.chart = @ \cup (chartCas \ bundle(m))]

\* Variant of ensureServingCert that replaces the names of the other replicas.
ensureServingCertForOwnNames(m, names) ==
  IF m.serving = NoServing \/ m.serving.names # names THEN issueServingCert(m.active, names) ELSE m.serving

\* Close to the end of the active CA a renewal would gain nothing.
ensureServingCert(m, names) ==
  IF m.serving = NoServing THEN issueServingCert(m.active, names)
  ELSE IF ~(names \subseteq m.serving.names) THEN issueServingCert(m.active, m.serving.names \cup names)
  ELSE IF now + servingCertRenewBefore > m.serving.notAfter /\ servingCertNotAfter(m.active) > m.serving.notAfter
  THEN issueServingCert(m.active, names)
  ELSE m.serving

\* The criteria of `kubectl rollout status`.
EvaluateDeploymentRollout == ~legacy /\ \A r \in Replicas : pods[r].running /\ pods[r].ready

startsRotation(m) == m.pending = NoCa /\ now + caRotationLeadTime > m.active.notAfter

dropsForeign(m) == m.other # {} /\ now >= m.since + foreignCertRetention /\ EvaluateDeploymentRollout

\* Expired certificates are only removed when the bundle changes anyway.
maintain(m, names) ==
  LET clean(cas) == IF startsRotation(m) \/ dropsForeign(m) THEN withoutExpired(cas) ELSE cas
      rotated == IF startsRotation(m) THEN [m EXCEPT !.pending = generateCa, !.startedAt = now] ELSE m
  IN [rotated EXCEPT !.previous = clean(@), !.chart = clean(@),
                     !.other = IF dropsForeign(m) THEN {} ELSE clean(@),
                     !.serving = ensureServingCert(rotated, names)]

\* Variant of evaluateSwitch that does not wait for the targets.
evaluateSwitchByAge(m, injected) ==
  IF m.pending = NoCa THEN "none" ELSE IF now < m.startedAt + minimumRotationAge THEN "waiting" ELSE "switch"

\* Variant of evaluateSwitch that waits for the targets for ever.
evaluateSwitchNeverForced(m, injected) ==
  IF m.pending = NoCa THEN "none"
  ELSE IF now < m.startedAt + minimumRotationAge THEN "waiting"
  ELSE IF injected THEN "switch" ELSE "blocked"

evaluateSwitch(m, injected) ==
  IF m.pending = NoCa THEN "none"
  ELSE IF now + forcedSwitchLeadTime > m.active.notAfter THEN IF injected THEN "switch" ELSE "forced"
  ELSE IF now < m.startedAt + minimumRotationAge THEN "waiting"
  ELSE IF injected THEN "switch" ELSE "blocked"

switchToPendingCa(m, names) ==
  [m EXCEPT !.previous = @ \cup {m.active}, !.active = m.pending, !.pending = NoCa, !.startedAt = 0,
            !.serving = issueServingCert(m.pending, m.serving.names \cup names)]

-----------------------------------------------------------------------------
(* One pass of a replica                                                   *)

\* The pod after it has read or written the Secret.
remember(r, m, uid) == [pods[r] EXCEPT !.remembered = m, !.uid = uid]

\* The store of a pod; its listeners are called if the bundle has changed.
load(pod, m) == [pod EXCEPT !.serving = m.serving, !.bundle = bundle(m)]
listeners(r, m) == IF pods[r].bundle # bundle(m) /\ perses.owner # "absent" THEN {r} ELSE {}

Injecting(m) == [stage |-> "inject", material |-> m, read |-> [data |-> m, uid |-> secret.uid], todo |-> TargetList, failed |-> {}, denied |-> {}]

\* Whoever watches the Secret or the targets has to run a pass.
AllDue == due' = {r \in Replicas : pods[r].running}

\* The material of a pass, before it is maintained: adopted, restored from memory or generated.
adopted(r) ==
  IF usable(secret.data) THEN retainChartCas(materialFromSecretData(secret.data))
  ELSE IF pods[r].uid = secret.uid /\ usable(pods[r].remembered)
  THEN retainChartCas(materialFromSecretData(pods[r].remembered))
  ELSE generateMaterial(scenario.names[r])

generates(r) == ~usable(secret.data) /\ ~(pods[r].uid = secret.uid /\ usable(pods[r].remembered))

\* Passes of the hourly resync are left out as long as they would find nothing to do.
resyncMatters(r) ==
  \/ maintain(adopted(r), scenario.names[r]) # secret.data
  \/ conversionStanzaMatchesOurs /\ perses.bundle # bundle(secret.data)

\* ensureMaterial up to the update of the Secret; what is stored already is loaded at once.
ensureMaterial(r) ==
  /\ pods[r].running /\ pass[r] = NoPass
  /\ (r \in due \/ resyncMatters(r)) = TRUE
  /\ \E m \in {maintain(adopted(r), scenario.names[r])} :
       /\ \/ m = secret.data
             /\ pods' = [pods EXCEPT ![r] = load(remember(r, m, secret.uid), m)]
             /\ notify' = notify \cup listeners(r, m)
             /\ pass' = [pass EXCEPT ![r] = Injecting(m)]
          \/ m # secret.data
             /\ pass' = [pass EXCEPT ![r] = [stage |-> "write", material |-> m, read |-> secret]]
             /\ UNCHANGED <<pods, notify>>
       /\ serial' = IF generates(r) \/ startsRotation(adopted(r)) THEN serial + 1 ELSE serial
  /\ due' = due \ {r}
  /\ UNCHANGED <<scenario, script, secret, Clock, Cluster>>

\* The optimistic lock of the API server; what has been read stands for its resource version.
mayWrite(r) == pass[r].read = secret

stored(m) == [secret EXCEPT !.data = m]

\* A conflict or an error leads to another pass.
GiveUp(r) ==
  /\ pass' = [pass EXCEPT ![r] = NoPass]
  /\ due' = due \cup {r}
  /\ UNCHANGED <<secret, pods, notify>>

\* Only material that has been stored is loaded.
writeSecret(r) ==
  /\ pass[r].stage = "write"
  /\ \/ left > 0 /\ left' = left - 1 /\ GiveUp(r)
     \/ ~mayWrite(r) /\ GiveUp(r) /\ UNCHANGED left
     \/ /\ mayWrite(r)
        /\ secret' = stored(pass[r].material)
        /\ pods' = [pods EXCEPT ![r] = load(remember(r, pass[r].material, secret.uid), pass[r].material)]
        /\ notify' = notify \cup listeners(r, pass[r].material)
        /\ pass' = [pass EXCEPT ![r] = Injecting(pass[r].material)]
        /\ AllDue
        /\ UNCHANGED left
  /\ UNCHANGED <<scenario, script, outage, now, serial, Cluster>>

outcome(r, failed, denied) ==
  [pass EXCEPT ![r].todo = Tail(@), ![r].failed = @ \cup failed, ![r].denied = @ \cup denied]

\* An admission policy keeps the operator from patching a target.
denies(t) == t \in scenario.denied /\ now >= scenario.deniedFrom

\* A missing target is ignored, one that already carries the bundle is left alone.
inject(r) ==
  /\ pass[r].stage = "inject" /\ pass[r].todo # <<>>
  /\ \E t \in {Head(pass[r].todo)}, b \in {bundle(pass[r].material)} :
     \/ /\ (~targets[t].exists \/ targets[t].bundle = b)
        /\ pass' = outcome(r, {}, {})
        /\ UNCHANGED <<left, targets, due>>
     \/ /\ targets[t].exists /\ targets[t].bundle # b /\ denies(t)
        /\ pass' = outcome(r, {}, {t})
        /\ UNCHANGED <<left, targets, due>>
     \/ /\ targets[t].exists /\ targets[t].bundle # b /\ ~denies(t)
        /\ pass' = outcome(r, {}, {})
        /\ targets' = [targets EXCEPT ![t].bundle = b, ![t].ours = TRUE]
        /\ AllDue
        /\ UNCHANGED left
     \/ left > 0 /\ left' = left - 1 /\ pass' = outcome(r, {t}, {}) /\ UNCHANGED <<targets, due>>
  /\ UNCHANGED <<scenario, script, outage, now, serial, secret, perses, pods, notify, legacy, hook>>

\* The CRD of Perses is patched by a listener, which is called again if it has an outdated bundle.
checkPersesCrdBundle(r) == conversionStanzaMatchesOurs => perses.bundle = bundle(pass[r].material)

\* Targets that refuse the bundle do not keep the pod from becoming ready, but lead to another pass.
evaluateOutcomes(r, pod) ==
  /\ pods' = [pods EXCEPT ![r] = [pod EXCEPT !.ready = @ \/ pass[r].failed = {}]]
  /\ pass' = [pass EXCEPT ![r] = NoPass]

completeRotationIfPossible(r) ==
  /\ pass[r].stage = "inject" /\ pass[r].todo = <<>>
  /\ \E decision \in {evaluateSwitch(pass[r].material, pass[r].failed \cup pass[r].denied = {} /\ checkPersesCrdBundle(r))} :
       \/ /\ decision \in {"switch", "forced"}
          /\ pass' = [pass EXCEPT ![r] = [@ EXCEPT !.stage = "switch",
                                            !.material = switchToPendingCa(@, scenario.names[r])]]
          /\ UNCHANGED <<pods, due>>
       \/ /\ decision \notin {"switch", "forced"}
          /\ evaluateOutcomes(r, pods[r])
          /\ due' = IF pass[r].failed # {} THEN due \cup {r} ELSE due
  /\ notify' = IF checkPersesCrdBundle(r) THEN notify ELSE notify \cup {r}
  /\ UNCHANGED <<scenario, script, serial, secret, Clock, Cluster>>

\* The bundle does not change with the switch.
writeSwitch(r) ==
  /\ pass[r].stage = "switch"
  /\ \/ left > 0 /\ left' = left - 1 /\ GiveUp(r)
     \/ ~mayWrite(r) /\ GiveUp(r) /\ UNCHANGED left
     \/ /\ mayWrite(r)
        /\ secret' = stored(pass[r].material)
        /\ evaluateOutcomes(r, load(remember(r, pass[r].material, secret.uid), pass[r].material))
        /\ AllDue
        /\ UNCHANGED <<left, notify>>
  /\ UNCHANGED <<scenario, script, outage, now, serial, Cluster>>

readCaBundle(r) == pods[r].bundle

patchConversionWebhookIfNecessary(r) ==
  IF hasForeignConversionWebhook \/ readCaBundle(r) = {} THEN perses ELSE [owner |-> "ours", bundle |-> readCaBundle(r)]

\* The listener uses the bundle in the store at that moment; a failure is only logged.
OnCaBundleChange(r) ==
  /\ r \in notify
  /\ notify' = notify \ {r}
  /\ \/ perses' = patchConversionWebhookIfNecessary(r) /\ UNCHANGED left
     \/ left > 0 /\ left' = left - 1 /\ UNCHANGED perses
  /\ UNCHANGED <<scenario, script, outage, now, serial, secret, targets, pods, pass, due, legacy, hook>>

-----------------------------------------------------------------------------
(* The cluster                                                             *)

\* startWebhookCertificatesManagement
StartPod(r) ==
  /\ ~pods[r].running
  /\ pods' = [pods EXCEPT ![r] = NewPod]
  /\ due' = due \cup {r}
  /\ UNCHANGED <<scenario, script, serial, secret, pass, notify, Clock, Cluster>>

\* The deployment removes the old pod once a new one is ready.
RemoveLegacyPod ==
  /\ legacy /\ \E r \in Replicas : pods[r].ready
  /\ legacy' = FALSE
  /\ UNCHANGED <<scenario, script, serial, secret, targets, perses, pods, pass, due, notify, hook, Clock>>

serves(serving, b) == serving.ca \in ids(b) /\ ~isExpired(serving)

reachable == /\ \A t \in Targets : targets[t].exists =>
                  \E r \in Replicas : pods[r].ready /\ serves(pods[r].serving, targets[t].bundle)

\* The post-install hook waits for the rollout and for the webhooks.
WaitForWebhooksToBecomeReachable ==
  /\ hook = "waiting" /\ EvaluateDeploymentRollout /\ reachable
  /\ hook' = "done"
  /\ UNCHANGED <<scenario, script, serial, secret, targets, perses, pods, pass, due, notify, legacy, Clock>>

idle == \A r \in Replicas : pass[r] = NoPass

\* Passes and listeners take less than a step of time.
Tick ==
  /\ now < scenario.until /\ idle /\ notify = {} /\ \A r \in Replicas : pods[r].running
  /\ \/ due = {} /\ UNCHANGED outage
     \/ due # {} /\ outage > 0 /\ outage' = outage - 1
  /\ now' = now + 1
  /\ due' = Replicas
  /\ UNCHANGED <<scenario, script, left, serial, secret, pods, pass, notify, Cluster>>

-----------------------------------------------------------------------------
(* Users                                                                   *)

step == Head(script)
scripted(op) == script # <<>> /\ step.op = op /\ now >= step.at /\ script' = Tail(script)

\* Someone removes or damages the data of the Secret.
WipeSecret ==
  /\ scripted("wipe")
  /\ secret' = stored(NoMaterial)
  /\ AllDue
  /\ UNCHANGED <<scenario, serial, pods, pass, notify, Clock, Cluster>>

\* The Secret is deleted and rendered again by the chart.
ReplaceSecret ==
  /\ scripted("replace")
  /\ secret' = [data |-> NoMaterial, uid |-> secret.uid + 1]
  /\ AllDue
  /\ UNCHANGED <<scenario, serial, pods, pass, notify, Clock, Cluster>>

\* A GitOps tool or Helm applies a target with another bundle, or creates it.
ApplyTarget ==
  /\ scripted("target")
  /\ targets' = [targets EXCEPT ![step.name] = [exists |-> TRUE, ours |-> FALSE, bundle |-> step.bundle]]
  /\ AllDue
  /\ UNCHANGED <<scenario, serial, secret, perses, pods, pass, notify, legacy, hook, Clock>>

\* A replica is killed, at any point of its pass.
KillPod ==
  /\ scripted("kill")
  /\ pods' = [pods EXCEPT ![step.name] = [NewPod EXCEPT !.running = FALSE]]
  /\ pass' = [pass EXCEPT ![step.name] = NoPass]
  /\ due' = due \ {step.name}
  /\ notify' = notify \ {step.name}
  /\ UNCHANGED <<scenario, serial, secret, Clock, Cluster>>

-----------------------------------------------------------------------------

Init ==
  /\ scenario \in Scenarios
  /\ script = scenario.script
  /\ left = scenario.faults
  /\ outage = scenario.outage
  /\ now = 0
  /\ serial = 0
  /\ secret = [data |-> NoMaterial, uid |-> 1]
  /\ targets = [t \in Targets |-> [exists |-> t \notin scenario.missing, ours |-> FALSE, bundle |-> scenario.trusted]]
  /\ perses = [owner |-> scenario.perses, bundle |-> {}]
  /\ pods = [r \in Replicas |-> [NewPod EXCEPT !.running = FALSE]]
  /\ pass = [r \in Replicas |-> NoPass]
  /\ due = {}
  /\ notify = {}
  /\ legacy = (scenario.trusted # {})
  /\ hook = "waiting"

Replica(r) ==
  \/ ensureMaterial(r) \/ writeSecret(r) \/ inject(r)
  \/ completeRotationIfPossible(r) \/ writeSwitch(r)

Environment == WipeSecret \/ ReplaceSecret \/ ApplyTarget \/ KillPod \/ Tick

Next ==
  \/ \E r \in Replicas : Replica(r) \/ OnCaBundleChange(r) \/ StartPod(r)
  \/ RemoveLegacyPod \/ WaitForWebhooksToBecomeReachable
  \/ Environment

\* Every replica resynchronizes every hour; pods are started again.
Fairness ==
  /\ \A r \in Replicas : WF_vars(Replica(r)) /\ WF_vars(OnCaBundleChange(r)) /\ WF_vars(StartPod(r))
  /\ WF_vars(RemoveLegacyPod) /\ WF_vars(WaitForWebhooksToBecomeReachable)

FairSpec == Init /\ [][Next]_vars /\ Fairness

-----------------------------------------------------------------------------
(* Properties                                                              *)

\* The targets that have not been overwritten since they were injected, except for those that
\* still refuse the new CA when the first one is about to expire.
injectedTargets ==
  {t \in Targets : targets[t].exists /\ targets[t].ours /\ ~(denies(t) /\ now + forcedSwitchLeadTime > caValidity)}

\* What the API server trusts covers what it gets: the certificate of every replica
\* that is ready chains up to a CA in the bundle of every target the operator has
\* injected, and a pod of an older chart version stays trusted by all targets while
\* it runs. Rotating the CA, renewing, restoring and retaining certificates on
\* several replicas at once never breaks this (runPass, ensureMaterial,
\* completeRotationIfPossible, maintain). Exempt are scenarios in which the Secret
\* itself is replaced or the operator has been down for almost the whole rotation.
ServedCertificateIsTrusted ==
  /\ ~scenario.exempt => \A r \in {q \in Replicas : pods[q].ready} :
       /\ \A t \in injectedTargets : pods[r].serving.ca \in ids(targets[t].bundle)
       /\ conversionStanzaMatchesOurs /\ perses.bundle # {} => pods[r].serving.ca \in ids(perses.bundle)
  /\ legacy => \A t \in injectedTargets : targets[t].bundle \cap scenario.trusted # {}

\* No replica serves with an expired certificate, even if the API server is not
\* reachable for a while or a target refuses the new CA (ensureServingCert,
\* evaluateSwitch).
ServedCertificateIsValid == \A r \in Replicas : pods[r].ready => ~isExpired(pods[r].serving)

\* The API server can reach the webhooks at any time: the certificate each replica
\* serves is trusted and has not expired.
WebhooksAreReachable == ServedCertificateIsTrusted /\ ServedCertificateIsValid

agreed ==
  /\ usable(secret.data)
  /\ \A r \in Replicas : /\ pods[r].ready /\ pods[r].serving = secret.data.serving
                         /\ pods[r].bundle = bundle(secret.data)
                         /\ scenario.names[r] \subseteq secret.data.serving.names
  /\ \A t \in Targets \ scenario.denied : targets[t].exists => targets[t].bundle = bundle(secret.data)
  /\ conversionStanzaMatchesOurs => perses.bundle = bundle(secret.data)
  /\ now >= secret.data.since + foreignCertRetention => secret.data.other = {}
  /\ ~legacy /\ (hook = "done" \/ scenario.denied # {})

\* When nothing is changed from outside any more, all replicas become ready and
\* settle on the same certificate and bundle, the targets carry it, foreign
\* certificates are gone, and the post-install hook ends: replicas do not replace
\* each other's certificates back and forth (ensureServingCert, inject,
\* checkPersesCrdBundle, WaitForWebhooksToBecomeReachable).
EventuallyAgreed == <>[](script = <<>>) => <>[]agreed

=============================================================================
