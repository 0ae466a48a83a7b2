---------------------------- MODULE LoadBalancer ----------------------------
(***************************************************************************)
(* The load balancer in front of the edge nodes that run Nuclio functions  *)
(* (load_balancer.py).  It keeps no state: for each request a thread asks  *)
(* every node, in the order of the list NODES, for its functions, chooses  *)
(* one that has fewest, and forwards the request to it.  Between a node's  *)
(* answer and the arrival of the function on the node chosen, other        *)
(* threads do the same.                                                    *)
(*                                                                         *)
(* Every function has a client, who sends it until it is told that it is   *)
(* deployed.  Functions are known to a node by name, and the balancer has  *)
(* no request that removes one.                                            *)
(***************************************************************************)
EXTENDS Integers, FiniteSets

CONSTANTS
  Functions,   \* the functions to be deployed
  NodeCount,   \* the length of the list NODES; a node is its position there
  Capacity,    \* how many functions may be under way at the same time
  MaxDoubts,   \* how often a client tries again after an answer that tells nothing
  Faults       \* what else may go wrong, see KnownFaults

(***************************************************************************)
(*   silent    a node does not answer GET /functions, or not with 200      *)
(*   late      a node goes on with a request that has timed out            *)
(*   lost      the node's answer is lost, is not 200, or does not decode   *)
(*   invalid   a client's request has no body, or lacks a required field   *)
(*   garbled   a node answers GET /functions with something else than a    *)
(*             list, which counts for none                                 *)
(*   named     clients name the node they want                             *)
(***************************************************************************)
KnownFaults == {"silent", "late", "lost", "invalid", "garbled", "named"}

NODES == 1..NodeCount

ASSUME BalancerAssumption ==
  /\ IsFiniteSet(Functions)
  /\ NodeCount \in Nat \ {0}
  /\ Capacity \in Nat
  /\ MaxDoubts \in Nat
  /\ Faults \subseteq KnownFaults

VARIABLES
  on,        \* on[n]: the functions node n has
  pc,        \* pc[f]: where the request for f is
  asked,     \* asked[f]: how many nodes its thread has asked
  load,      \* load[f][n]: how many functions n reported to it
  reported,  \* reported[f]: the nodes that did report
  at,        \* at[f]: the node the request was forwarded to, while it is answered
  late,      \* the requests nobody waits for any more, with their nodes
  doubts,    \* doubts[f]: how often its client was told nothing (502, 500, ...)
  shunned,   \* history: the nodes that have failed to report to a thread
  favoured   \* history: those that clients have named, or that reported too little

vars == <<on, pc, asked, load, reported, at, late, doubts, shunned, favoured>>

Thread == <<asked, load, reported>>

Served == {"asking", "sent"}

Told == {"idle", "done"}

Nobody == [n \in NODES |-> 0]

Init ==
  /\ on = [n \in NODES |-> {}]
  /\ pc = [f \in Functions |-> "idle"]
  /\ asked = [f \in Functions |-> 0]
  /\ load = [f \in Functions |-> Nobody]
  /\ reported = [f \in Functions |-> {}]
  /\ at = [f \in Functions |-> 1]
  /\ late = {}
  /\ doubts = [f \in Functions |-> 0]
  /\ shunned = {}
  /\ favoured = {}

\* The functions that a thread or a node is busy with.
UnderWay ==
  {f \in Functions : pc[f] \in Served \/ \E n \in NODES : <<f, n>> \in late}

-----------------------------------------------------------------------------
(* Clients.                                                                *)

\* One that has not been told that its function is deployed may send it, again or
\* for the first time.
MaySend(f) ==
  /\ pc[f] = "idle"
  /\ doubts[f] <= MaxDoubts
  /\ f \in UnderWay \/ Cardinality(UnderWay) < Capacity

Submit(f) ==
  /\ MaySend(f)
  /\ pc' = [pc EXCEPT ![f] = "asking"]
  /\ UNCHANGED <<on, Thread, at, late, doubts, shunned, favoured>>

\* /deploy-to and /deploy-github-to: the nodes are not asked, the request goes to the
\* one it names.  A request that names none is answered 400, and nothing happens.
Aim(f) ==
  /\ "named" \in Faults
  /\ MaySend(f)
  /\ \E n \in NODES : /\ at' = [at EXCEPT ![f] = n]
                      /\ favoured' = favoured \cup {n}
  /\ pc' = [pc EXCEPT ![f] = "sent"]
  /\ UNCHANGED <<on, Thread, late, doubts, shunned>>

-----------------------------------------------------------------------------
(* The balancer's thread.                                                  *)

\* A balancer that takes a node that does not answer for one without functions.
AskSilentIsIdle(f) ==
  LET n == asked[f] + 1 IN
  /\ pc[f] = "asking" /\ n \in NODES
  /\ asked' = [asked EXCEPT ![f] = n]
  /\ \E l \in {Cardinality(on[n]), 0} : load' = [load EXCEPT ![f][n] = l]
  /\ reported' = [reported EXCEPT ![f] = @ \cup {n}]
  /\ UNCHANGED <<on, pc, at, late, doubts, shunned, favoured>>

\* GET /functions on the next node; an answer that is not a list counts for none.
Ask(f) ==
  LET n == asked[f] + 1 IN
  /\ pc[f] = "asking" /\ n \in NODES
  /\ asked' = [asked EXCEPT ![f] = n]
  /\ \/ /\ load' = [load EXCEPT ![f][n] = Cardinality(on[n])]
        /\ reported' = [reported EXCEPT ![f] = @ \cup {n}]
        /\ UNCHANGED <<shunned, favoured>>
     \/ /\ "garbled" \in Faults
        /\ load' = [load EXCEPT ![f][n] = 0]
        /\ reported' = [reported EXCEPT ![f] = @ \cup {n}]
        /\ favoured' = favoured \cup {n}
        /\ UNCHANGED shunned
     \/ /\ "silent" \in Faults
        /\ shunned' = shunned \cup {n}
        /\ UNCHANGED <<load, reported, favoured>>
  /\ UNCHANGED <<on, pc, at, late, doubts>>

\* The first node that reports is good enough.
FirstReported(f) == {n \in reported[f] : \A m \in reported[f] : n <= m}

\* None, when no node has.
LeastLoadedOrNone(f) ==
  IF reported[f] = {} THEN {0}
  ELSE {n \in reported[f] : \A m \in reported[f] : load[f][n] <= load[f][m]}

LeastLoaded(f) ==
  {n \in reported[f] : \A m \in reported[f] : load[f][n] <= load[f][m]}

Heard(f) == pc[f] = "asking" /\ asked[f] = NodeCount

\* What the nodes have reported is used once.
Forget(f) ==
  /\ asked' = [asked EXCEPT ![f] = 0]
  /\ load' = [load EXCEPT ![f] = Nobody]
  /\ reported' = [reported EXCEPT ![f] = {}]

\* POST to one of the least loaded nodes.
Forward(f) ==
  /\ Heard(f)
  /\ \E n \in LeastLoaded(f) : at' = [at EXCEPT ![f] = n]
  /\ pc' = [pc EXCEPT ![f] = "sent"]
  /\ Forget(f)
  /\ UNCHANGED <<on, late, doubts, shunned, favoured>>

\* 503 when no node has reported; 400 when the request is not in order, which is
\* looked at only now.
Reject(f) ==
  /\ Heard(f)
  /\ reported[f] = {} \/ "invalid" \in Faults
  /\ pc' = [pc EXCEPT ![f] = "idle"]
  /\ Forget(f)
  /\ UNCHANGED <<on, at, late, doubts, shunned, favoured>>

\* A forwarded request is answered: the function is deployed, or the client is
\* told nothing.
Close(f, answer) ==
  /\ pc' = [pc EXCEPT ![f] = answer]
  /\ doubts' = IF answer = "done" THEN doubts ELSE [doubts EXCEPT ![f] = @ + 1]
  /\ at' = [at EXCEPT ![f] = 1]
  /\ UNCHANGED <<Thread, shunned, favoured>>

\* A balancer that tries the next node instead.
TimeOutNextNode(f) ==
  /\ "late" \in Faults
  /\ pc[f] = "sent"
  /\ late' = late \cup {<<f, at[f]>>}
  /\ at' = [at EXCEPT ![f] = (@ % NodeCount) + 1]
  /\ UNCHANGED <<on, pc, Thread, doubts, shunned, favoured>>

\* 502 after 30 seconds (120 for GitHub), or when the node cannot be reached, and
\* the node's own code when it is not 200, whatever becomes of the request.
TimeOut(f) ==
  /\ pc[f] = "sent"
  /\ \E l \in {late} \cup (IF "late" \in Faults THEN {late \cup {<<f, at[f]>>}} ELSE {}) :
       late' = l
  /\ Close(f, "idle")
  /\ UNCHANGED on

-----------------------------------------------------------------------------
(* The nodes.                                                              *)

\* The function arrives, and the answer is passed on, or does not reach the client.
Deploy(f) ==
  /\ pc[f] = "sent"
  /\ on' = [on EXCEPT ![at[f]] = @ \cup {f}]
  /\ Close(f, "done") \/ ("lost" \in Faults /\ Close(f, "idle"))
  /\ UNCHANGED late

DeployLate(f, n) ==
  /\ <<f, n>> \in late
  /\ on' = [on EXCEPT ![n] = @ \cup {f}]
  /\ late' = late \ {<<f, n>>}
  /\ UNCHANGED <<pc, Thread, at, doubts, shunned, favoured>>

Serve(f) == Ask(f) \/ Forward(f) \/ Reject(f) \/ TimeOut(f)

Next ==
  \/ \E f \in Functions : Submit(f) \/ Aim(f) \/ Serve(f) \/ Deploy(f)
  \/ \E f \in Functions, n \in NODES : DeployLate(f, n)

Spec == Init /\ [][Next]_vars

-----------------------------------------------------------------------------
(* Properties.                                                             *)

\* The variables have their types.
TypeOK ==
  /\ on \in [NODES -> SUBSET Functions]
  /\ pc \in [Functions -> Served \cup Told]
  /\ asked \in [Functions -> 0..NodeCount]
  /\ load \in [Functions -> [NODES -> Nat]]
  /\ reported \in [Functions -> SUBSET NODES]
  /\ at \in [Functions -> NODES]
  /\ late \subseteq Functions \X NODES
  /\ doubts \in [Functions -> Nat]
  /\ shunned \subseteq NODES
  /\ favoured \subseteq NODES

\* The loads are read long before the function arrives, and yet the nodes stay
\* balanced: one has never more functions above another than are ever under way at
\* a time, however many have come and gone since.  This is said of a node that no client
\* has named and that has reported truly, against one that has always reported.
Balanced ==
  \A a \in NODES \ favoured, b \in NODES \ shunned :
    Cardinality(on[a]) <= Cardinality(on[b]) + Capacity

\* The functions that may still arrive on a, if no node turns out to have fewer
\* than v: those sent there, and those whose thread has seen no more than v there.
MayArrive(a, v) ==
  {f \in Functions \ on[a] :
     \/ <<f, a>> \in late
     \/ pc[f] = "sent" /\ at[f] = a
     \/ pc[f] = "asking" /\ a \in reported[f] /\ load[f][a] <= v}

Levels == 0..Cardinality(Functions)

\* Why Balanced holds: what a node has and may still get stays within Capacity of
\* every level that other nodes have reached or have yet to reach.
BalanceInv ==
  \A a \in NODES \ favoured, b \in NODES \ shunned, v \in Levels :
    Cardinality(on[b]) <= v => Cardinality(on[a] \cup MayArrive(a, v)) <= v + Capacity

\* The nodes that have a function, or may still get it without being sent it again.
Copies(f) ==
  {n \in NODES : f \in on[n] \/ <<f, n>> \in late \/ (pc[f] = "sent" /\ at[f] = n)}

\* A function is on one node only, unless its client was told nothing and tried
\* again: each copy stands for the answer "done", for a request that is being
\* forwarded, or for one answer that told nothing.
OneCopyPerAnswer ==
  \A f \in Functions :
    Cardinality(Copies(f)) <=
      doubts[f] + (IF pc[f] \in {"sent", "done"} THEN 1 ELSE 0)
=============================================================================
