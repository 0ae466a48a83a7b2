------------------------ MODULE MCProviderConnection ------------------------
(***************************************************************************)
(* Instances of ProviderConnection for TLC: one object of each of two      *)
(* kinds, of which one may name another config, and Keystone in the        *)
(* cluster and behind TLS elsewhere.                                       *)
(***************************************************************************)
EXTENDS ProviderConnection, TLC

CONSTANTS n1, n2, Outside

TwoKinds == (n1 :> "Device") @@ (n2 :> "Fleet")
TwoRefs == (n1 :> {ConfigName}) @@ (n2 :> Refs)

SecureOutside == [scheme |-> "https", host |-> Outside, port |-> 5000]
PlainOutside == [scheme |-> "http", host |-> Outside, port |-> 5000]

TwoKeystones == {InCluster, SecureOutside}
OneEndpoint == {SecureOutside}
SomeEndpoints == {Unset, SecureOutside, PlainOutside}
=============================================================================
