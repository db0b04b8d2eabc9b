------------------------- MODULE ContainerResources -------------------------
(***************************************************************************)
(* The resources of the containers the operator deploys: how the settings  *)
(* of a custom resource (spec.components) are validated and merged with    *)
(* the defaults of the Helm chart, and how the thresholds of the memory    *)
(* limiter and GOMEMLIMIT are derived from the memory limit.               *)
(*                                                                         *)
(* A list of resources is a function from names to quantities, memory and  *)
(* storage are counted in MiB.                                             *)
(***************************************************************************)
EXTENDS Integers

supportedContainerResourceNames == {"cpu", "memory", "ephemeral-storage"}

-----------------------------------------------------------------------------
(* GOMEMLIMIT: <<>> if it is not set, <<Off>>, <<Unparsable>> or a number  *)

Off == -1
Unparsable == -2

clampInt(v, lo, hi) == IF v < lo THEN lo ELSE IF v > hi THEN hi ELSE v

\* The container gets limit MiB: the memory limiter refuses data at hard, starts
\* to do so at soft, and the Go runtime collects garbage harder at goMem.
DeriveCollectorMemorySettings(limit) ==
  LET reserve  == clampInt((limit * 10) \div 100, 96, 512)
      spike    == clampInt((limit * 5) \div 100, 32, 256)
      goMemGap == clampInt((limit * 3) \div 100, 24, 128)
      hard     == limit - reserve
      soft     == hard - spike
      goMem    == soft - goMemGap
  IN  [ok    |-> limit > 0 /\ goMem > 0 /\ soft > 0 /\ hard > 0,
       goMem |-> goMem, soft |-> soft, hard |-> hard, spike |-> spike]

goMemLimitMinHeadroomMiB == 8

\* For containers without a memory limiter; 0 if the limit is too small.
DeriveGoMemLimitFromLimit(limit, percent) ==
  LET share == (limit * percent) \div 100
      goMem == IF share < limit - goMemLimitMinHeadroomMiB THEN share ELSE limit - goMemLimitMinHeadroomMiB
  IN  IF limit <= 0 \/ goMem <= 0 THEN 0 ELSE goMem

memoryLimit(limits) == IF "memory" \in DOMAIN limits THEN limits["memory"] ELSE 0

EffectiveGoMemLimit(rr) ==
  LET derived == DeriveCollectorMemorySettings(memoryLimit(rr.limits))
  IN  CASE rr.goMemLimit # <<>> -> rr.goMemLimit
        [] rr.goMemLimit = <<>> /\ derived.ok -> <<derived.goMem>>
        [] OTHER -> <<>>

GoMemLimitDefaultPercent == 80
Agent0ConnectorGoMemLimitPercent == 60

EffectiveGoMemLimitPercent(rr, percent) ==
  LET derived == DeriveGoMemLimitFromLimit(memoryLimit(rr.limits), percent)
  IN  CASE rr.goMemLimit # <<>> -> rr.goMemLimit
        [] rr.goMemLimit = <<>> /\ derived # 0 -> <<derived>>
        [] OTHER -> <<>>

-----------------------------------------------------------------------------
(* Merging settings with defaults                                          *)

removeResourceQuantity == -1

isRemoveResourceQuantity(quantity) == quantity = removeResourceQuantity

removed(settings) == {n \in DOMAIN settings : isRemoveResourceQuantity(settings[n])}

mergeResourceList(defaults, settings) ==
  [n \in (DOMAIN defaults \cup DOMAIN settings) \ removed(settings) |->
     IF n \in DOMAIN settings THEN settings[n] ELSE defaults[n]]

\* Variant of adjustedLimit that keeps a default limit below an explicit request.
keptLimit(limits, requests, settings, n) == limits[n]

\* A default limit below an explicit request is raised to it.
adjustedLimit(limits, requests, settings, n) ==
  IF n \in DOMAIN requests /\ n \in DOMAIN settings.requests /\ n \notin DOMAIN settings.limits
  THEN IF requests[n] > limits[n] THEN requests[n] ELSE limits[n]
  ELSE limits[n]

\* A default request above the limit is lowered to it.
adjustedRequest(limits, requests, settings, n) ==
  IF n \in DOMAIN limits /\ n \notin DOMAIN settings.requests
  THEN IF requests[n] > limits[n] THEN limits[n] ELSE requests[n]
  ELSE requests[n]

mergeContainerResources(defaults, settings) ==
  LET limits   == mergeResourceList(defaults.limits, settings.limits)
      requests == mergeResourceList(defaults.requests, settings.requests)
  IN  [limits     |-> [n \in DOMAIN limits |-> adjustedLimit(limits, requests, settings, n)],
       requests   |-> [n \in DOMAIN requests |-> adjustedRequest(limits, requests, settings, n)],
       goMemLimit |-> IF settings.goMemLimit # <<>> THEN settings.goMemLimit ELSE defaults.goMemLimit]

-----------------------------------------------------------------------------
(* Validation of the settings                                              *)

validateResourceList(resources, isLimits) ==
  \A n \in DOMAIN resources :
    /\ n \in supportedContainerResourceNames
    /\ isLimits => resources[n] # 0
    /\ resources[n] < 0 => isRemoveResourceQuantity(resources[n])

\* A request above a limit is only rejected if both are set explicitly.
validateContainerResources(settings) ==
  /\ validateResourceList(settings.limits, TRUE)
  /\ validateResourceList(settings.requests, FALSE)
  /\ \A n \in DOMAIN settings.requests \cap DOMAIN settings.limits :
       isRemoveResourceQuantity(settings.limits[n]) \/ settings.requests[n] <= settings.limits[n]

validateGoMemLimit(goMemLimit, limits) ==
  \/ goMemLimit = <<>>
  \/ goMemLimit = <<Off>>
  \/ /\ goMemLimit[1] > 0
     /\ ("memory" \in DOMAIN limits /\ limits["memory"] # 0) => goMemLimit[1] < limits["memory"]

\* GOMEMLIMIT is compared with the memory limit the container gets.
validateContainerResourcesWithGoMemLimit(settings, defaults) ==
  /\ validateContainerResources(settings)
  /\ validateGoMemLimit(settings.goMemLimit, mergeContainerResources(defaults, settings).limits)

\* The API server accepts the container.
Deployable(rr) ==
  /\ \A n \in DOMAIN rr.requests \cap DOMAIN rr.limits : rr.requests[n] <= rr.limits[n]
  /\ \A n \in DOMAIN rr.requests : rr.requests[n] >= 0
  /\ \A n \in DOMAIN rr.limits : rr.limits[n] >= 0

=============================================================================
