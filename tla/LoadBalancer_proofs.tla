------------------------ MODULE LoadBalancer_proofs ------------------------
(***************************************************************************)
(* The balancer keeps the nodes balanced within the number of functions    *)
(* that are under way at a time, and makes no copy of a function unless a  *)
(* client that was told nothing tries again: for any number of functions,  *)
(* nodes and threads.                                                      *)
(***************************************************************************)
EXTENDS LoadBalancer, FiniteSetTheorems, TLAPS

-----------------------------------------------------------------------------
(* Types.                                                                  *)

\* The nodes are finitely many, and so are the functions on each.
LEMMA Finite ==
  /\ IsFiniteSet(NODES)
  /\ \A S \in SUBSET Functions : IsFiniteSet(S) /\ Cardinality(S) \in Nat
                                 /\ Cardinality(S) \in Levels
<1>1. IsFiniteSet(NODES)
  BY FS_Interval, BalancerAssumption DEF NODES
<1>2. \A S \in SUBSET Functions :
        IsFiniteSet(S) /\ Cardinality(S) <= Cardinality(Functions)
  BY FS_Subset, BalancerAssumption
<1>3. \A S \in SUBSET Functions : Cardinality(S) \in Nat
  BY <1>2, FS_CardinalityType
<1>4. Cardinality(Functions) \in Nat
  BY FS_CardinalityType, BalancerAssumption
<1>5. QED
  BY <1>1, <1>2, <1>3, <1>4 DEF Levels

\* Functions and nodes join the sets they belong to.
LEMMA NextType ==
  ASSUME TypeOK, [Next]_vars
  PROVE  TypeOK'
<1>1. Nobody \in [NODES -> Nat] /\ 1 \in NODES
  BY BalancerAssumption DEF Nobody, NODES
<1>2. ASSUME NEW f \in Functions, Submit(f) PROVE TypeOK'
  BY <1>2 DEF Submit, Thread, TypeOK, Served
<1>3. ASSUME NEW f \in Functions, Aim(f) PROVE TypeOK'
  BY <1>3, BalancerAssumption DEF Aim, Thread, TypeOK, Served
<1>4. ASSUME NEW f \in Functions, Ask(f) PROVE TypeOK'
  <2>1. /\ asked[f] + 1 \in NODES /\ asked[f] + 1 \in 0..NodeCount
        /\ Cardinality(on[asked[f] + 1]) \in Nat
    BY <1>4, Finite, BalancerAssumption DEF Ask, NODES, TypeOK
  <2>2. asked' \in [Functions -> 0..NodeCount]
    BY <1>4, <2>1 DEF Ask, TypeOK
  <2>3. load' \in [Functions -> [NODES -> Nat]]
    <3>1. CASE UNCHANGED load
      BY <3>1 DEF TypeOK
    <3>2. CASE \E l \in Nat : load' = [load EXCEPT ![f][asked[f] + 1] = l]
      <4>1. PICK l \in Nat : load' = [load EXCEPT ![f][asked[f] + 1] = l]
        BY <3>2
      <4>2. [load[f] EXCEPT ![asked[f] + 1] = l] \in [NODES -> Nat]
        BY <2>1 DEF TypeOK
      <4>3. QED
        BY <4>1, <4>2 DEF TypeOK
    <3>3. QED
      BY <1>4, <2>1, <3>1, <3>2 DEF Ask
  <2>4. /\ reported' \in [Functions -> SUBSET NODES]
        /\ shunned' \subseteq NODES /\ favoured' \subseteq NODES
    BY <1>4, <2>1 DEF Ask, TypeOK
  <2>5. UNCHANGED <<on, pc, at, late, doubts>>
    BY <1>4 DEF Ask
  <2>6. QED
    BY <2>2, <2>3, <2>4, <2>5 DEF TypeOK
<1>5. ASSUME NEW f \in Functions, Forward(f) \/ Reject(f) PROVE TypeOK'
  <2>1. asked' \in [Functions -> 0..NodeCount] /\ load' \in [Functions -> [NODES -> Nat]]
        /\ reported' \in [Functions -> SUBSET NODES]
    <3>1. Forget(f) /\ 0 \in 0..NodeCount
      BY <1>5, BalancerAssumption DEF Forward, Reject
    <3>2. QED
      BY <1>1, <3>1 DEF Forget, TypeOK
  <2>2. at' \in [Functions -> NODES]
    BY <1>5 DEF Forward, Reject, LeastLoaded, TypeOK
  <2>3. pc' \in [Functions -> Served \cup Told] /\ UNCHANGED <<on, late, doubts, shunned, favoured>>
    BY <1>5 DEF Forward, Reject, TypeOK, Served, Told
  <2>4. QED
    BY <2>1, <2>2, <2>3 DEF TypeOK
<1>6. ASSUME NEW f \in Functions, NEW answer \in {"idle", "done"}, Close(f, answer)
      PROVE  /\ pc' \in [Functions -> Served \cup Told]
             /\ at' \in [Functions -> NODES]
             /\ doubts' \in [Functions -> Nat]
             /\ UNCHANGED <<asked, load, reported, shunned, favoured>>
  BY <1>1, <1>6 DEF Close, Thread, TypeOK, Told
<1>7. ASSUME NEW f \in Functions, TimeOut(f) \/ Deploy(f) PROVE TypeOK'
  <2>1. on' \in [NODES -> SUBSET Functions] /\ late' \subseteq Functions \X NODES
    BY <1>7 DEF TimeOut, Deploy, TypeOK
  <2>2. \E answer \in {"idle", "done"} : Close(f, answer)
    BY <1>7 DEF TimeOut, Deploy
  <2>3. QED
    BY <1>6, <2>1, <2>2 DEF TypeOK
<1>8. ASSUME NEW f \in Functions, NEW n \in NODES, DeployLate(f, n) PROVE TypeOK'
  BY <1>8 DEF DeployLate, Thread, TypeOK
<1>9. CASE UNCHANGED vars
  BY <1>9 DEF vars, TypeOK
<1>10. QED
  BY <1>2, <1>3, <1>4, <1>5, <1>7, <1>8, <1>9 DEF Next, Serve

\* The variables keep their types.
THEOREM TypeCorrect == Spec => []TypeOK
<1>1. Init => TypeOK
  BY BalancerAssumption DEF Init, TypeOK, Nobody, NODES, Told
<1>2. TypeOK /\ [Next]_vars => TypeOK'
  BY NextType
<1>3. QED
  BY <1>1, <1>2, PTL DEF Spec

-----------------------------------------------------------------------------
(* Balance.                                                                *)

\* What a thread has seen was so, is asked for only by threads, and covers every
\* node it has asked that has always reported; and the functions under way are no
\* more than Capacity.
Seen(f) ==
  /\ pc[f] # "asking" => asked[f] = 0 /\ reported[f] = {}
  /\ \A n \in reported[f] : load[f][n] <= Cardinality(on[n])
  /\ \A n \in NODES \ shunned : n <= asked[f] => n \in reported[f]

SeenInv ==
  /\ \A f \in Functions : Seen(f)
  /\ Cardinality(UnderWay) <= Capacity

\* Nodes only gain functions, and are only ever added to the shunned and the favoured.
Gains ==
  /\ \A n \in NODES : on[n] \subseteq on'[n] /\ Cardinality(on[n]) <= Cardinality(on'[n])
  /\ shunned \subseteq shunned' /\ favoured \subseteq favoured'

LEMMA NodesGain ==
  ASSUME TypeOK, [Next]_vars
  PROVE  Gains
<1>1. \A n \in NODES : on[n] \subseteq on'[n]
  <2>1. ASSUME NEW f \in Functions, Submit(f) \/ Aim(f) \/ Serve(f) PROVE on' = on
    BY <2>1 DEF Submit, Aim, Serve, Ask, Forward, Reject, TimeOut
  <2>2. ASSUME NEW f \in Functions, Deploy(f) PROVE \A n \in NODES : on[n] \subseteq on'[n]
    BY <2>2 DEF Deploy, TypeOK
  <2>3. ASSUME NEW f \in Functions, NEW m \in NODES, DeployLate(f, m)
        PROVE  \A n \in NODES : on[n] \subseteq on'[n]
    BY <2>3 DEF DeployLate, TypeOK
  <2>4. QED
    BY <2>1, <2>2, <2>3 DEF Next, vars
<1>2. \A n \in NODES : IsFiniteSet(on'[n])
  BY NextType, Finite DEF TypeOK
<1>3. \A n \in NODES : Cardinality(on[n]) <= Cardinality(on'[n])
  BY <1>1, <1>2, FS_Subset
<1>4. shunned \subseteq shunned' /\ favoured \subseteq favoured'
  <2>1. ASSUME NEW f \in Functions, Submit(f) \/ Aim(f) \/ Serve(f) \/ Deploy(f)
        PROVE  shunned \subseteq shunned' /\ favoured \subseteq favoured'
    BY <2>1 DEF Submit, Aim, Serve, Ask, Forward, Reject, TimeOut, Deploy, Close
  <2>2. QED
    BY <2>1 DEF Next, vars, DeployLate
<1>5. QED
  BY <1>1, <1>3, <1>4 DEF Gains

\* Only clients that may send put a function under way.
LEMMA UnderWayBound ==
  ASSUME TypeOK, SeenInv, [Next]_vars
  PROVE  Cardinality(UnderWay') <= Capacity
<1>1. IsFiniteSet(UnderWay) /\ Cardinality(UnderWay) \in Nat /\ UnderWay \subseteq Functions
  BY Finite DEF UnderWay
<1>2. ASSUME UnderWay' \subseteq UnderWay PROVE Cardinality(UnderWay') <= Capacity
  <2>1. Cardinality(UnderWay') <= Cardinality(UnderWay) /\ Cardinality(UnderWay') \in Nat
    BY <1>1, <1>2, FS_Subset, FS_CardinalityType
  <2>2. QED
    BY <1>1, <2>1, BalancerAssumption DEF SeenInv
<1>3. ASSUME NEW f \in Functions, Submit(f) \/ Aim(f)
      PROVE  Cardinality(UnderWay') <= Capacity
  <2>1. UnderWay' \subseteq UnderWay \cup {f}
    BY <1>3 DEF Submit, Aim, UnderWay, TypeOK, Served
  <2>2. MaySend(f)
    BY <1>3 DEF Submit, Aim
  <2>3. CASE f \in UnderWay
    BY <1>2, <2>1, <2>3
  <2>4. CASE f \notin UnderWay
    <3>1. Cardinality(UnderWay) < Capacity
      BY <2>2, <2>4 DEF MaySend
    <3>2. /\ IsFiniteSet(UnderWay \cup {f})
          /\ Cardinality(UnderWay \cup {f}) = Cardinality(UnderWay) + 1
      BY <1>1, <2>4, FS_AddElement
    <3>3. Cardinality(UnderWay') <= Cardinality(UnderWay \cup {f}) /\ IsFiniteSet(UnderWay')
      BY <2>1, <3>2, FS_Subset
    <3>4. Cardinality(UnderWay') \in Nat
      BY <3>3, FS_CardinalityType
    <3>5. QED
      BY <1>1, <3>1, <3>2, <3>3, <3>4, BalancerAssumption
  <2>5. QED
    BY <2>3, <2>4
<1>4. ASSUME NEW f \in Functions, Serve(f) \/ Deploy(f)
      PROVE  UnderWay' \subseteq UnderWay
  <2>1. pc[f] \in Served
    BY <1>4 DEF Serve, Ask, Forward, Reject, Heard, TimeOut, Deploy, Served
  <2>2. \A m \in Functions \ {f} : pc'[m] = pc[m]
    <3>1. UNCHANGED pc \/ \E step : pc' = [pc EXCEPT ![f] = step]
      BY <1>4 DEF Serve, Ask, Forward, Reject, TimeOut, Deploy, Close
    <3>2. QED
      BY <3>1 DEF TypeOK
  <2>3. late' \subseteq late \cup {<<f, at[f]>>}
    BY <1>4 DEF Serve, Ask, Forward, Reject, TimeOut, Deploy
  <2>4. SUFFICES ASSUME NEW m \in UnderWay', m # f PROVE m \in UnderWay
    BY <2>1 DEF UnderWay
  <2>5. \A n \in NODES : <<m, n>> \in late' => <<m, n>> \in late
    BY <2>3, <2>4
  <2>6. QED
    BY <2>2, <2>4, <2>5 DEF UnderWay
<1>5. ASSUME NEW f \in Functions, NEW n \in NODES, DeployLate(f, n)
      PROVE  UnderWay' \subseteq UnderWay
  BY <1>5 DEF DeployLate, UnderWay
<1>6. CASE UNCHANGED vars
  BY <1>2, <1>6 DEF vars, UnderWay
<1>7. QED
  BY <1>2, <1>3, <1>4, <1>5, <1>6 DEF Next

\* Threads see what there is, and what they have seen does not become less.
LEMMA NextSeen ==
  ASSUME TypeOK, SeenInv, [Next]_vars
  PROVE  SeenInv'
<1>1. Gains /\ TypeOK'
  BY NodesGain, NextType
<1>2. ASSUME NEW f \in Functions, Seen(f),
             asked'[f] = asked[f], reported'[f] = reported[f], load'[f] = load[f],
             pc[f] = "asking" => pc'[f] = "asking"
      PROVE  Seen(f)'
  <2>1. \A n \in reported[f] : load[f][n] <= Cardinality(on'[n])
    <3>1. SUFFICES ASSUME NEW n \in reported[f] PROVE load[f][n] <= Cardinality(on'[n])
      OBVIOUS
    <3>2. n \in NODES /\ load[f][n] \in Nat
      BY DEF TypeOK
    <3>3. Cardinality(on[n]) \in Nat /\ Cardinality(on'[n]) \in Nat
      BY <1>1, <3>2, Finite DEF TypeOK
    <3>4. load[f][n] <= Cardinality(on[n]) /\ Cardinality(on[n]) <= Cardinality(on'[n])
      BY <1>1, <1>2, <3>2 DEF Seen, Gains
    <3>5. QED
      BY <3>2, <3>3, <3>4
  <2>2. QED
    BY <1>1, <1>2, <2>1 DEF Seen, Gains
<1>3. ASSUME NEW f \in Functions, Seen(f), asked'[f] = 0, reported'[f] = {}
      PROVE  Seen(f)'
  BY <1>3, BalancerAssumption DEF Seen, NODES
<1>4. ASSUME NEW f \in Functions, Seen(f), Ask(f) PROVE Seen(f)'
  <2> DEFINE n == asked[f] + 1
  <2>1. /\ n \in NODES /\ pc'[f] = "asking" /\ asked'[f] = n /\ on' = on
        /\ asked[f] \in Nat /\ Cardinality(on[n]) \in Nat
    BY <1>4, Finite DEF Ask, TypeOK
  <2>2. CASE /\ reported' = [reported EXCEPT ![f] = @ \cup {n}] /\ UNCHANGED shunned
             /\ \E l \in {Cardinality(on[n]), 0} : load' = [load EXCEPT ![f][n] = l]
    <3>1. PICK l \in {Cardinality(on[n]), 0} : load' = [load EXCEPT ![f][n] = l]
      BY <2>2
    <3>2. reported'[f] = reported[f] \cup {n}
      BY <2>2 DEF TypeOK
    <3>3. load'[f][n] <= Cardinality(on[n])
      <4>1. load'[f][n] = l
        BY <2>1, <3>1 DEF TypeOK
      <4>2. QED
        BY <2>1, <3>1, <4>1
    <3>4. \A m \in NODES : m # n => load'[f][m] = load[f][m]
      BY <2>1, <3>1 DEF TypeOK
    <3>5. \A m \in reported'[f] : load'[f][m] <= Cardinality(on'[m])
      BY <1>4, <2>1, <3>2, <3>3, <3>4 DEF Seen, TypeOK
    <3>6. \A m \in NODES \ shunned : m <= n => m \in reported'[f]
      BY <1>4, <2>1, <3>2 DEF Seen, NODES
    <3>7. QED
      BY <2>1, <2>2, <3>5, <3>6 DEF Seen
  <2>3. CASE shunned' = shunned \cup {n} /\ UNCHANGED <<load, reported>>
    <3>1. \A m \in NODES \ shunned' : m <= n => m \in reported[f]
      BY <1>4, <2>1, <2>3 DEF Seen, NODES
    <3>2. QED
      BY <1>4, <2>1, <2>3, <3>1 DEF Seen
  <2>4. QED
    BY <1>4, <2>2, <2>3 DEF Ask
<1>5. ASSUME NEW f \in Functions, Seen(f) PROVE Seen(f)'
  <2>1. ASSUME NEW g \in Functions, Submit(g) \/ Aim(g) \/ TimeOut(g) \/ Deploy(g)
        PROVE  Seen(f)'
    <3>1. /\ UNCHANGED <<asked, load, reported>>
          /\ f # g \/ pc[g] \in {"idle", "sent"}
      BY <2>1 DEF Submit, Aim, MaySend, TimeOut, Deploy, Close, Thread
    <3>2. f # g => pc'[f] = pc[f]
      BY <2>1 DEF Submit, Aim, TimeOut, Deploy, Close, TypeOK
    <3>3. QED
      BY <1>2, <1>5, <3>1, <3>2
  <2>2. ASSUME NEW g \in Functions, Ask(g) \/ Forward(g) \/ Reject(g), g # f
        PROVE  Seen(f)'
    <3>1. asked'[f] = asked[f] /\ reported'[f] = reported[f] /\ pc'[f] = pc[f]
      BY <2>2 DEF Ask, Forward, Reject, Forget, TypeOK
    <3>2. load'[f] = load[f]
      BY <2>2 DEF Ask, Forward, Reject, Forget, TypeOK
    <3>3. QED
      BY <1>2, <1>5, <3>1, <3>2
  <2>3. ASSUME Forward(f) \/ Reject(f) PROVE Seen(f)'
    <3>1. asked'[f] = 0 /\ reported'[f] = {}
      BY <2>3 DEF Forward, Reject, Forget, TypeOK
    <3>2. QED
      BY <1>3, <1>5, <3>1
  <2>4. ASSUME NEW g \in Functions, NEW n \in NODES, DeployLate(g, n) PROVE Seen(f)'
    BY <1>2, <1>5, <2>4 DEF DeployLate, Thread
  <2>5. CASE UNCHANGED vars
    BY <1>2, <1>5, <2>5 DEF vars
  <2>6. QED
    BY <1>4, <1>5, <2>1, <2>2, <2>3, <2>4, <2>5 DEF Next, Serve
<1>6. QED
  BY <1>5, UnderWayBound DEF SeenInv

\* A node that has no more than v stays within Capacity of v, whatever arrives of
\* what is under way.
LEMMA Level ==
  ASSUME NEW S \in SUBSET Functions, NEW T \in SUBSET Functions, NEW U \in SUBSET Functions,
         T \subseteq U, Cardinality(U) <= Capacity, NEW v \in Nat, Cardinality(S) <= v
  PROVE  Cardinality(S \cup T) <= v + Capacity
<1>1. /\ IsFiniteSet(S) /\ Cardinality(S) \in Nat
      /\ IsFiniteSet(U) /\ Cardinality(U) \in Nat
      /\ IsFiniteSet(S \cup U) /\ Cardinality(S \cup U) \in Nat
      /\ Cardinality(S \cup T) \in Nat /\ Cardinality(S \cap U) \in Nat
  <2>1. {S, U, S \cup U, S \cup T, S \cap U} \subseteq SUBSET Functions
    OBVIOUS
  <2>2. QED
    BY <2>1, Finite
<1>2. Cardinality(S \cup U) = Cardinality(S) + Cardinality(U) - Cardinality(S \cap U)
  BY <1>1, FS_Union
<1>3. Cardinality(S \cup T) <= Cardinality(S \cup U)
  BY <1>1, FS_Subset
<1>4. QED
  BY <1>1, <1>2, <1>3, BalancerAssumption

\* What a node has and may get only grows when a thread asks the node itself.
LEMMA Arrivals ==
  ASSUME TypeOK, SeenInv, [Next]_vars,
         NEW a \in NODES \ favoured', NEW b \in NODES \ shunned, NEW v \in Levels,
         Cardinality(on[b]) <= v
  PROVE  \/ on'[a] \cup MayArrive(a, v)' \subseteq on[a] \cup MayArrive(a, v)
         \/ Cardinality(on'[a]) <= v
<1> DEFINE D == on[a] \cup MayArrive(a, v)
           Arrives(m) == \/ <<m, a>> \in late
                         \/ pc[m] = "sent" /\ at[m] = a
                         \/ pc[m] = "asking" /\ a \in reported[m] /\ load[m][a] <= v
<1>1. \A m \in Functions : m \in D <=> m \in on[a] \/ Arrives(m)
  BY DEF MayArrive
<1>2. \A m \in Functions : m \in D' <=> m \in on'[a] \/ Arrives(m)'
  BY DEF MayArrive
<1>3. D' \subseteq Functions
  BY NextType DEF TypeOK, MayArrive
<1>4. SUFFICES ASSUME NEW m \in Functions, ~(Cardinality(on'[a]) <= v),
                      m \in on'[a] \/ Arrives(m)'
               PROVE  m \in on[a] \/ Arrives(m)
  <2>1. SUFFICES ASSUME ~(Cardinality(on'[a]) <= v), NEW m \in D' PROVE m \in D
    OBVIOUS
  <2>2. m \in Functions
    BY <1>3
  <2>3. QED
    BY <1>1, <1>2, <2>1, <2>2
<1>5. ASSUME NEW f \in Functions, Submit(f) PROVE m \in on[a] \/ Arrives(m)
  <2>1. reported[f] = {} /\ UNCHANGED <<on, load, reported, at, late>>
        /\ pc' = [pc EXCEPT ![f] = "asking"]
    BY <1>5 DEF Submit, MaySend, Thread, SeenInv, Seen
  <2>2. QED
    BY <1>4, <2>1 DEF TypeOK
<1>6. ASSUME NEW f \in Functions, Aim(f) PROVE m \in on[a] \/ Arrives(m)
  <2>1. UNCHANGED <<on, load, reported, late>> /\ pc' = [pc EXCEPT ![f] = "sent"]
    BY <1>6 DEF Aim, Thread
  <2>2. at'[f] # a /\ \A k \in Functions \ {f} : at'[k] = at[k]
    BY <1>6 DEF Aim, TypeOK
  <2>3. QED
    BY <1>4, <2>1, <2>2 DEF TypeOK
<1>7. ASSUME NEW f \in Functions, Ask(f) PROVE m \in on[a] \/ Arrives(m)
  <2>1. UNCHANGED <<on, pc, at, late>>
    BY <1>7 DEF Ask
  <2>2. CASE m # f \/ asked[f] + 1 # a
    <3>1. a \in reported'[m] <=> a \in reported[m]
      BY <1>7, <2>2 DEF Ask, TypeOK
    <3>2. load'[m][a] = load[m][a]
      BY <1>7, <2>2 DEF Ask, TypeOK
    <3>3. QED
      BY <1>4, <2>1, <3>1, <3>2
  <2>3. CASE m = f /\ asked[f] + 1 = a
    <3>1. CASE UNCHANGED <<load, reported>>
      BY <1>4, <2>1, <3>1
    <3>2. CASE load' = [load EXCEPT ![f][a] = Cardinality(on[a])]
      <4>1. load'[m][a] = Cardinality(on'[a])
        BY <2>1, <2>3, <3>2 DEF TypeOK
      <4>2. QED
        BY <1>4, <2>1, <4>1
    <3>3. QED
      BY <1>7, <2>3, <3>1, <3>2 DEF Ask
  <2>4. QED
    BY <2>2, <2>3
<1>8. ASSUME NEW f \in Functions, Forward(f) PROVE m \in on[a] \/ Arrives(m)
  <2>1. /\ UNCHANGED <<on, late>> /\ pc' = [pc EXCEPT ![f] = "sent"] /\ pc[f] = "asking"
        /\ asked[f] = NodeCount /\ at'[f] \in LeastLoaded(f)
        /\ \A k \in Functions \ {f} :
             at'[k] = at[k] /\ load'[k] = load[k] /\ reported'[k] = reported[k]
    BY <1>8 DEF Forward, Heard, Forget, TypeOK
  <2>2. CASE m # f
    BY <1>4, <2>1, <2>2 DEF TypeOK
  <2>3. CASE m = f
    <3>1. CASE at'[f] = a
      <4>1. a \in reported[f] /\ b \in reported[f]
        BY <2>1, <3>1 DEF LeastLoaded, SeenInv, Seen, NODES
      <4>2. load[f][a] <= load[f][b] /\ load[f][b] <= Cardinality(on[b])
        BY <2>1, <3>1, <4>1 DEF LeastLoaded, SeenInv, Seen
      <4>3. /\ load[f][a] \in Nat /\ load[f][b] \in Nat /\ Cardinality(on[b]) \in Nat
            /\ v \in Nat
        BY Finite, BalancerAssumption DEF TypeOK, Levels
      <4>4. load[f][a] <= v
        BY <4>2, <4>3
      <4>5. QED
        BY <2>1, <2>3, <4>1, <4>4
    <3>2. CASE at'[f] # a
      BY <1>4, <2>1, <2>3, <3>2 DEF TypeOK
    <3>3. QED
      BY <3>1, <3>2
  <2>4. QED
    BY <2>2, <2>3
<1>9. ASSUME NEW f \in Functions, Reject(f) PROVE m \in on[a] \/ Arrives(m)
  <2>1. /\ UNCHANGED <<on, at, late>> /\ pc' = [pc EXCEPT ![f] = "idle"]
        /\ \A k \in Functions \ {f} : load'[k] = load[k] /\ reported'[k] = reported[k]
    BY <1>9 DEF Reject, Forget, TypeOK
  <2>2. QED
    BY <1>4, <2>1 DEF TypeOK
<1>10. ASSUME NEW f \in Functions, TimeOut(f) \/ Deploy(f)
       PROVE  m \in on[a] \/ Arrives(m)
  <2>1. /\ UNCHANGED <<load, reported>> /\ pc[f] = "sent" /\ pc'[f] \in {"idle", "done"}
        /\ \A k \in Functions \ {f} : pc'[k] = pc[k] /\ at'[k] = at[k]
    BY <1>10 DEF TimeOut, Deploy, Close, Thread, TypeOK
  <2>2. late' \subseteq late \cup {<<f, at[f]>>}
    BY <1>10 DEF TimeOut, Deploy
  <2>3. m \in on'[a] => m \in on[a] \/ (m = f /\ at[f] = a)
    BY <1>10 DEF TimeOut, Deploy, TypeOK
  <2>4. QED
    BY <1>4, <2>1, <2>2, <2>3
<1>11. ASSUME NEW f \in Functions, NEW n \in NODES, DeployLate(f, n)
       PROVE  m \in on[a] \/ Arrives(m)
  <2>1. UNCHANGED <<pc, load, reported, at>> /\ late' \subseteq late
    BY <1>11 DEF DeployLate, Thread
  <2>2. m \in on'[a] => m \in on[a] \/ <<m, a>> \in late
    BY <1>11 DEF DeployLate, TypeOK
  <2>3. QED
    BY <1>4, <2>1, <2>2
<1>12. CASE UNCHANGED vars
  BY <1>4, <1>12 DEF vars
<1>13. QED
  BY <1>5, <1>6, <1>7, <1>8, <1>9, <1>10, <1>11, <1>12 DEF Next, Serve

\* What a node has and may get stays within Capacity of every level.
LEMMA NextBalance ==
  ASSUME TypeOK, SeenInv, BalanceInv, [Next]_vars
  PROVE  BalanceInv'
<1>1. SUFFICES ASSUME NEW a \in NODES \ favoured', NEW b \in NODES \ shunned',
                      NEW v \in Levels, Cardinality(on'[b]) <= v
               PROVE  Cardinality(on'[a] \cup MayArrive(a, v)') <= v + Capacity
  BY DEF BalanceInv
<1>2. /\ TypeOK' /\ Gains /\ SeenInv'
      /\ b \in NODES \ shunned /\ a \in NODES \ favoured
  BY NextType, NodesGain, NextSeen DEF Gains
<1>3. Cardinality(on[b]) <= v
  <2>1. Cardinality(on[b]) \in Nat /\ Cardinality(on'[b]) \in Nat /\ v \in Nat
    BY <1>2, Finite, BalancerAssumption DEF TypeOK, Levels
  <2>2. QED
    BY <1>1, <1>2, <2>1 DEF Gains
<1>4. CASE on'[a] \cup MayArrive(a, v)' \subseteq on[a] \cup MayArrive(a, v)
  <2>1. Cardinality(on[a] \cup MayArrive(a, v)) <= v + Capacity
    BY <1>2, <1>3 DEF BalanceInv
  <2>2. on[a] \cup MayArrive(a, v) \subseteq Functions
    BY DEF TypeOK, MayArrive
  <2>3. Cardinality(on'[a] \cup MayArrive(a, v)') <= Cardinality(on[a] \cup MayArrive(a, v))
    BY <1>4, <2>2, Finite, FS_Subset
  <2>4. /\ Cardinality(on'[a] \cup MayArrive(a, v)') \in Nat
        /\ Cardinality(on[a] \cup MayArrive(a, v)) \in Nat
        /\ v \in Nat /\ Capacity \in Nat
    BY <1>4, <2>2, Finite, BalancerAssumption DEF Levels
  <2>5. QED
    BY <2>1, <2>3, <2>4
<1>5. CASE Cardinality(on'[a]) <= v
  <2>1. MayArrive(a, v)' \subseteq UnderWay' /\ UnderWay' \subseteq Functions
    BY DEF MayArrive, UnderWay, Served
  <2>2. Cardinality(UnderWay') <= Capacity /\ on'[a] \subseteq Functions
    BY <1>2 DEF SeenInv, TypeOK
  <2>3. v \in Nat
    BY Finite, BalancerAssumption DEF Levels
  <2>4. QED
    BY <1>5, <2>1, <2>2, <2>3, Level
<1>6. QED
  BY <1>2, <1>3, <1>4, <1>5, Arrivals

\* What a node has and may still get stays within Capacity of every level that others
\* have reached or have yet to reach, however many threads choose at once.
THEOREM BalanceHolds == Spec => []BalanceInv
<1>1. Init => TypeOK /\ SeenInv /\ BalanceInv
  <2> SUFFICES ASSUME Init PROVE TypeOK /\ SeenInv /\ BalanceInv
    OBVIOUS
  <2>1. TypeOK
    BY BalancerAssumption DEF Init, TypeOK, Nobody, NODES, Told
  <2>2. UnderWay = {} /\ Cardinality({}) = 0
    BY FS_EmptySet DEF Init, UnderWay, Served
  <2>3. SeenInv
    BY <2>2, BalancerAssumption DEF Init, SeenInv, Seen, NODES
  <2>4. \A a \in NODES, v \in Levels : on[a] \cup MayArrive(a, v) = {}
    BY DEF Init, MayArrive
  <2>5. \A v \in Levels : 0 <= v + Capacity
    BY Finite, FS_CardinalityType, BalancerAssumption DEF Levels
  <2>6. BalanceInv
    BY <2>2, <2>4, <2>5 DEF BalanceInv
  <2>7. QED
    BY <2>1, <2>3, <2>6
<1>2. TypeOK /\ SeenInv /\ BalanceInv /\ [Next]_vars => (TypeOK /\ SeenInv /\ BalanceInv)'
  BY NextType, NextSeen, NextBalance
<1>3. QED
  BY <1>1, <1>2, PTL DEF Spec

\* No node has ever more functions above another than may be under way at a time,
\* whatever has happened between what a thread saw and what it did: for a node that
\* nobody has named and that has reported truly, against one that has always reported.
THEOREM NodesBalanced == Spec => []Balanced
<1>1. TypeOK /\ BalanceInv => Balanced
  <2> SUFFICES ASSUME TypeOK, BalanceInv, NEW a \in NODES \ favoured, NEW b \in NODES \ shunned
               PROVE  Cardinality(on[a]) <= Cardinality(on[b]) + Capacity
    BY DEF Balanced
  <2> DEFINE v == Cardinality(on[b])
             D == on[a] \cup MayArrive(a, v)
  <2>1. v \in Levels /\ v \in Nat /\ v <= v
    BY Finite DEF TypeOK
  <2>2. Cardinality(D) <= v + Capacity
    BY <2>1 DEF BalanceInv
  <2>3. IsFiniteSet(D) /\ Cardinality(D) \in Nat
    BY Finite DEF TypeOK, MayArrive
  <2>4. Cardinality(on[a]) <= Cardinality(D) /\ Cardinality(on[a]) \in Nat
    BY <2>3, FS_Subset, Finite DEF TypeOK
  <2>5. QED
    BY <2>1, <2>2, <2>3, <2>4, BalancerAssumption
<1>2. QED
  BY <1>1, TypeCorrect, BalanceHolds, PTL

-----------------------------------------------------------------------------
(* Copies.                                                                 *)

\* What answers, and a request being forwarded, account for.
Accounted(f) == doubts[f] + (IF pc[f] \in {"sent", "done"} THEN 1 ELSE 0)

\* A step makes no copy, or forwards a request, and then accounts for one more.
LEMMA CopiesMade ==
  ASSUME TypeOK, [Next]_vars, NEW f \in Functions
  PROVE  \/ Copies(f)' \subseteq Copies(f) /\ Accounted(f)' = Accounted(f)
         \/ /\ \E n \in NODES : Copies(f)' \subseteq Copies(f) \cup {n}
            /\ Accounted(f)' = Accounted(f) + 1
<1>1. doubts[f] \in Nat
  BY DEF TypeOK
<1>2. ASSUME pc'[f] = pc[f], at'[f] = at[f], doubts'[f] = doubts[f],
             \A n \in NODES : f \in on'[n] \/ <<f, n>> \in late' =>
                              f \in on[n] \/ <<f, n>> \in late
      PROVE  Copies(f)' \subseteq Copies(f) /\ Accounted(f)' = Accounted(f)
  BY <1>2 DEF Copies, Accounted
<1>3. ASSUME NEW g \in Functions, Submit(g) \/ Ask(g) \/ Reject(g)
      PROVE  Copies(f)' \subseteq Copies(f) /\ Accounted(f)' = Accounted(f)
  <2>1. /\ UNCHANGED <<on, late, doubts, at>>
        /\ pc[g] \in {"idle", "asking"} /\ pc'[g] \in {"idle", "asking"}
        /\ \A m \in Functions \ {g} : pc'[m] = pc[m]
    BY <1>3 DEF Submit, MaySend, Ask, Reject, Heard, TypeOK
  <2>2. pc'[f] \in {"sent", "done"} <=> pc[f] \in {"sent", "done"}
    BY <2>1
  <2>3. pc'[f] = "sent" <=> pc[f] = "sent"
    BY <2>1
  <2>4. QED
    BY <2>1, <2>2, <2>3 DEF Copies, Accounted
<1>4. ASSUME NEW g \in Functions, g # f,
             Aim(g) \/ Forward(g) \/ TimeOut(g) \/ Deploy(g)
      PROVE  Copies(f)' \subseteq Copies(f) /\ Accounted(f)' = Accounted(f)
  <2>1. pc'[f] = pc[f] /\ at'[f] = at[f] /\ doubts'[f] = doubts[f]
    BY <1>4 DEF Aim, Forward, TimeOut, Deploy, Close, TypeOK
  <2>2. late' \subseteq late \cup {<<g, at[g]>>}
    BY <1>4 DEF Aim, Forward, TimeOut, Deploy
  <2>3. \A n \in NODES : f \in on'[n] => f \in on[n]
    BY <1>4 DEF Aim, Forward, TimeOut, Deploy, TypeOK
  <2>4. QED
    BY <1>2, <1>4, <2>1, <2>2, <2>3
<1>5. ASSUME Aim(f) \/ Forward(f)
      PROVE  /\ \E n \in NODES : Copies(f)' \subseteq Copies(f) \cup {n}
             /\ Accounted(f)' = Accounted(f) + 1
  <2>1. UNCHANGED <<on, late, doubts>> /\ pc'[f] = "sent" /\ pc[f] \in {"idle", "asking"}
    BY <1>5 DEF Aim, Forward, MaySend, Heard, TypeOK
  <2>2. at'[f] \in NODES
    BY NextType DEF TypeOK
  <2>3. Copies(f)' \subseteq Copies(f) \cup {at'[f]}
    BY <2>1 DEF Copies
  <2>4. QED
    BY <1>1, <2>1, <2>2, <2>3 DEF Accounted
<1>6. ASSUME TimeOut(f) \/ Deploy(f)
      PROVE  Copies(f)' \subseteq Copies(f) /\ Accounted(f)' = Accounted(f)
  <2>1. pc[f] = "sent" /\ late' \subseteq late \cup {<<f, at[f]>>}
    BY <1>6 DEF TimeOut, Deploy
  <2>2. \/ pc'[f] = "idle" /\ doubts'[f] = doubts[f] + 1
        \/ pc'[f] = "done" /\ doubts'[f] = doubts[f]
    BY <1>6 DEF TimeOut, Deploy, Close, TypeOK
  <2>3. \A n \in NODES : f \in on'[n] => f \in on[n] \/ n = at[f]
    BY <1>6 DEF TimeOut, Deploy, TypeOK
  <2>4. Copies(f)' \subseteq Copies(f)
    BY <2>1, <2>2, <2>3 DEF Copies
  <2>5. QED
    BY <1>1, <2>1, <2>2, <2>4 DEF Accounted
<1>7. ASSUME NEW g \in Functions, NEW n \in NODES, DeployLate(g, n)
      PROVE  Copies(f)' \subseteq Copies(f) /\ Accounted(f)' = Accounted(f)
  BY <1>2, <1>7 DEF DeployLate, TypeOK
<1>8. CASE UNCHANGED vars
  BY <1>2, <1>8 DEF vars
<1>9. QED
  BY <1>3, <1>4, <1>5, <1>6, <1>7, <1>8 DEF Next, Serve

\* A function has no more copies than its client was told nothing, and one.
THEOREM CopiesAccounted == Spec => []OneCopyPerAnswer
<1>1. Init => TypeOK /\ OneCopyPerAnswer
  <2> SUFFICES ASSUME Init PROVE TypeOK /\ OneCopyPerAnswer
    OBVIOUS
  <2>1. TypeOK
    BY BalancerAssumption DEF Init, TypeOK, Nobody, NODES, Told
  <2>2. \A f \in Functions : Copies(f) = {} /\ Accounted(f) = 0
    BY DEF Init, Copies, Accounted
  <2>3. QED
    BY <2>1, <2>2, FS_EmptySet DEF OneCopyPerAnswer, Accounted
<1>2. TypeOK /\ OneCopyPerAnswer /\ [Next]_vars => (TypeOK /\ OneCopyPerAnswer)'
  <2> SUFFICES ASSUME TypeOK, OneCopyPerAnswer, [Next]_vars, NEW f \in Functions
               PROVE  Cardinality(Copies(f)') <= Accounted(f)'
    BY NextType DEF OneCopyPerAnswer, Accounted
  <2>1. Cardinality(Copies(f)) <= Accounted(f) /\ Accounted(f) \in Nat
    BY DEF OneCopyPerAnswer, Accounted, TypeOK
  <2>2. IsFiniteSet(Copies(f)) /\ Cardinality(Copies(f)) \in Nat
    BY Finite, FS_Subset, FS_CardinalityType DEF Copies
  <2>3. CASE Copies(f)' \subseteq Copies(f) /\ Accounted(f)' = Accounted(f)
    <3>1. /\ Cardinality(Copies(f)') <= Cardinality(Copies(f))
          /\ Cardinality(Copies(f)') \in Nat
      BY <2>2, <2>3, FS_Subset, FS_CardinalityType
    <3>2. QED
      BY <2>1, <2>2, <2>3, <3>1
  <2>4. CASE /\ \E n \in NODES : Copies(f)' \subseteq Copies(f) \cup {n}
             /\ Accounted(f)' = Accounted(f) + 1
    <3>1. PICK n \in NODES : Copies(f)' \subseteq Copies(f) \cup {n}
      BY <2>4
    <3>2. /\ IsFiniteSet(Copies(f) \cup {n})
          /\ Cardinality(Copies(f) \cup {n}) <= Cardinality(Copies(f)) + 1
      <4> DEFINE C == Copies(f)
      <4>1. IsFiniteSet(C) /\ Cardinality(C) \in Nat
        BY <2>2
      <4>2. IsFiniteSet(C \cup {n})
            /\ Cardinality(C \cup {n}) = IF n \in C THEN Cardinality(C) ELSE Cardinality(C) + 1
        <5> HIDE DEF C
        <5>1. QED
          BY <4>1, FS_AddElement
      <4>3. QED
        BY <4>1, <4>2
    <3>3. Cardinality(Copies(f)') <= Cardinality(Copies(f) \cup {n}) /\ IsFiniteSet(Copies(f)')
      BY <3>1, <3>2, FS_Subset
    <3>4. Cardinality(Copies(f)') \in Nat /\ Cardinality(Copies(f) \cup {n}) \in Nat
      BY <3>2, <3>3, FS_CardinalityType
    <3>5. QED
      BY <2>1, <2>2, <2>4, <3>2, <3>3, <3>4
  <2>5. QED
    BY <2>3, <2>4, CopiesMade
<1>3. QED
  BY <1>1, <1>2, PTL DEF Spec
=============================================================================
