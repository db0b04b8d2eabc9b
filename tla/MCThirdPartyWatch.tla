-------------------------- MODULE MCThirdPartyWatch --------------------------
(* ThirdPartyWatch with the CRD versions that the operator supports. *)
EXTENDS ThirdPartyWatch

Versions == [t \in ResourceTypes |->
              IF t = "rules" THEN <<"v1">> ELSE <<"v1alpha2", "v1alpha1">>]
=============================================================================
