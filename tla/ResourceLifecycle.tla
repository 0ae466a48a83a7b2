------------------------- MODULE ResourceLifecycle -------------------------
(***************************************************************************)
(* What a controller for a kind with uuids promises, seen from outside:    *)
(* somebody claims a resource by name, the provider provides it, keeps it  *)
(* in shape, and takes it away once the claim is withdrawn.  No caches, no *)
(* workers, no requests: each of the three happens at one moment, and only *)
(* while the claim, as it stands at that moment, calls for it.             *)
(*                                                                         *)
(* Module ManagedResource implements this one, through a refinement        *)
(* mapping at its end.                                                     *)
(***************************************************************************)
CONSTANTS
  Names,      \* what claims are called
  Ids,        \* the uuids of resources
  Data,       \* their payloads
  NoData,     \* the payload of a claim that nobody makes
  Vanishing   \* resources may be removed behind the provider's back

VARIABLES
  claim,      \* who claims what: a state and a payload, by name
  res         \* the resources: owner and payload, by uuid

vars == <<claim, res>>

Claim == [state : {"none", "wanted", "leaving"}, data : Data]

Nobody == [state |-> "none", data |-> NoData]

Wanted(d) == [state |-> "wanted", data |-> d]

Provided(n) == {i \in DOMAIN res : res[i].owner = n}

Init ==
  /\ claim = [n \in Names |-> Nobody]
  /\ res = [i \in {} |-> Nobody]

\* A claim is made, or changes while it stands.
Ask(n) ==
  /\ claim[n].state \in {"none", "wanted"}
  /\ \E d \in Data : claim' = [claim EXCEPT ![n] = Wanted(d)]
  /\ UNCHANGED res

\* A claim is withdrawn; it stands until what was provided for it is gone.
Withdraw(n) ==
  /\ claim[n].state = "wanted"
  /\ claim' = [claim EXCEPT ![n].state = "leaving"]
  /\ UNCHANGED res

Leave(n) ==
  /\ claim[n].state \in {"wanted", "leaving"} /\ Provided(n) = {}
  /\ claim' = [claim EXCEPT ![n] = Nobody]
  /\ UNCHANGED res

\* A wanted resource that is not there is provided, once, as it is wanted now.
Provide(n) ==
  /\ claim[n].state = "wanted" /\ Provided(n) = {}
  /\ \E i \in Ids \ DOMAIN res :
       res' = [j \in DOMAIN res \cup {i} |->
                 IF j = i THEN [owner |-> n, data |-> claim[n].data] ELSE res[j]]
  /\ UNCHANGED claim

\* Its payload is adjusted, perhaps to what was wanted a while ago.
Adjust(i) ==
  /\ i \in DOMAIN res
  /\ claim[res[i].owner].state # "none"
  /\ \E d \in Data : res' = [res EXCEPT ![i].data = d]
  /\ UNCHANGED claim

\* It is taken away when its claim is withdrawn, and never before.
TakeAway(i) ==
  /\ i \in DOMAIN res
  /\ Vanishing \/ claim[res[i].owner].state = "leaving"
  /\ res' = [j \in DOMAIN res \ {i} |-> res[j]]
  /\ UNCHANGED claim

Next ==
  \/ \E n \in Names : Ask(n) \/ Withdraw(n) \/ Leave(n) \/ Provide(n)
  \/ \E i \in Ids : Adjust(i) \/ TakeAway(i)

Spec == Init /\ [][Next]_vars
=============================================================================
