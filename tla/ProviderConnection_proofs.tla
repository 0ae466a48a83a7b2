---------------------- MODULE ProviderConnection_proofs ----------------------
(***************************************************************************)
(* A ProviderConfig outlives the objects that its controller knew to use   *)
(* it when users deleted it, for any number of objects, kinds, endpoints   *)
(* and hosts, through crashes and errors, and whatever users and other     *)
(* objects do meanwhile.                                                   *)
(***************************************************************************)
EXTENDS ProviderConnection, TLAPS

-----------------------------------------------------------------------------
(* Type correctness.                                                       *)

\* The changes the actions make to objects and configs.
LEMMA ChangesType ==
  /\ Blank \in Object /\ NoConfig \in Config
  /\ \A o \in Object :
       /\ \A r \in Refs : [o EXCEPT !.live = TRUE, !.ref = r] \in Object
       /\ [o EXCEPT !.del = TRUE] \in Object
       /\ [o EXCEPT !.fin = TRUE] \in Object
  /\ \A c \in Config :
       /\ \A e \in Endpoints : [c EXCEPT !.live = TRUE, !.endpoint = e] \in Config
       /\ [c EXCEPT !.del = TRUE] \in Config
       /\ [c EXCEPT !.fin = TRUE] \in Config
<1>1. Blank \in Object /\ NoConfig \in Config
  BY DEF Blank, Object, NoConfig, Config, Refs
<1>2. ASSUME NEW o \in Object
      PROVE  /\ \A r \in Refs : [o EXCEPT !.live = TRUE, !.ref = r] \in Object
             /\ [o EXCEPT !.del = TRUE] \in Object
             /\ [o EXCEPT !.fin = TRUE] \in Object
  BY DEF Object
<1>3. ASSUME NEW c \in Config
      PROVE  /\ \A e \in Endpoints : [c EXCEPT !.live = TRUE, !.endpoint = e] \in Config
             /\ [c EXCEPT !.del = TRUE] \in Config
             /\ [c EXCEPT !.fin = TRUE] \in Config
  BY DEF Config
<1>4. QED
  BY <1>1, <1>2, <1>3

\* Every step keeps the types.
LEMMA NextType ==
  ASSUME TypeOK, [Next]_vars
  PROVE  TypeOK'
<1>1. ASSUME NEW n \in Names, Submit(n) PROVE TypeOK'
  <2>1. PICK r \in RefsOf[n] :
          obj' = [obj EXCEPT ![n] = [Blank EXCEPT !.live = TRUE, !.ref = r]]
    BY <1>1 DEF Submit
  <2>2. r \in Refs
    BY ConnectionAssumption
  <2>3. [Blank EXCEPT !.live = TRUE, !.ref = r] \in Object
    BY <2>2, ChangesType
  <2>4. QED
    BY <1>1, <2>1, <2>3 DEF Submit, Environment, TypeOK
<1>2. ASSUME NEW n \in Names, UserDeletes(n) PROVE TypeOK'
  <2>1. obj[n] \in Object
    BY DEF TypeOK
  <2>2. (IF obj[n].fin THEN [obj[n] EXCEPT !.del = TRUE] ELSE Blank) \in Object
    BY <2>1, ChangesType
  <2>3. QED
    BY <1>2, <2>2 DEF UserDeletes, Environment, TypeOK
<1>3. CASE UserConfigures
  <2>1. PICK e \in Endpoints : config' = [config EXCEPT !.live = TRUE, !.endpoint = e]
    BY <1>3 DEF UserConfigures
  <2>2. config' \in Config
    BY <2>1, ChangesType DEF TypeOK
  <2>3. QED
    BY <1>3, <2>2 DEF UserConfigures, TypeOK
<1>4. CASE UserDeletesConfig
  BY <1>4, ChangesType DEF UserDeletesConfig, KnownToUse, Environment, TypeOK
<1>5. ASSUME NEW n \in Names, Begin(n) \/ Track(n) PROVE TypeOK'
  <2>1. copy[n].ref \in Refs
    BY DEF TypeOK, Object
  <2>2. QED
    BY <1>5, <2>1 DEF Begin, Track, TypeOK
<1>6. ASSUME NEW n \in Names, Connect(n) \/ Fail(n) PROVE TypeOK'
  BY <1>6, ChangesType DEF Connect, Fail, Stop, TypeOK
<1>7. ASSUME NEW n \in Names, Complete(n) PROVE TypeOK'
  <2>1. obj[n] \in Object
    BY DEF TypeOK
  <2>2. (IF obj[n].del THEN Blank ELSE [obj[n] EXCEPT !.fin = TRUE]) \in Object
    BY <2>1, ChangesType
  <2>3. QED
    BY <1>7, <2>2, ChangesType DEF Complete, Stop, TypeOK
<1>8. ASSUME NEW n \in Names, Collect(n) \/ Sync(n) PROVE TypeOK'
  BY <1>8 DEF Collect, Sync, TypeOK
<1>9. CASE Review \/ Release
  BY <1>9, ChangesType DEF Review, Release, TypeOK
<1>10. CASE UNCHANGED vars
  BY <1>10 DEF vars, TypeOK
<1>11. QED
  BY <1>1, <1>2, <1>3, <1>4, <1>5, <1>6, <1>7, <1>8, <1>9, <1>10 DEF Next, Work

\* The variables keep their types, whatever fails.
THEOREM TypeCorrect == Spec => []TypeOK
<1>1. Init => TypeOK
  BY ChangesType DEF Init, TypeOK
<1>2. TypeOK /\ [Next]_vars => TypeOK'
  BY NextType
<1>3. QED
  BY <1>1, <1>2, PTL DEF Spec

-----------------------------------------------------------------------------
(* GuardInv is inductive.                                                  *)

\* An object that nothing happens to is accounted for as before.
LEMMA StillAccounted ==
  ASSUME NEW m \in Names, Accounted(m),
         obj'[m] = obj[m], usage'[m] = usage[m], known'[m] = known[m],
         pc'[m] = pc[m], copy'[m] = copy[m],
         m \in owed' => m \in owed /\ (obj[m].live => config'.del),
         guard' = "release" => guard = "release"
  PROVE  Accounted(m)'
BY DEF Accounted, Refers

\* Users of objects: nothing is owed to an object that is new.
LEMMA UsersAccounted ==
  ASSUME TypeOK, GuardInv, NEW n \in Names, Submit(n) \/ UserDeletes(n)
  PROVE  Accounted(n)'
<1>1. Accounted(n)
  BY DEF GuardInv
<1>2. CASE Submit(n)
  <2>1. pc'[n] = "idle" /\ ~obj'[n].fin /\ n \notin owed'
    BY <1>2 DEF Submit, Environment, TypeOK, Blank
  <2>2. QED
    BY <2>1 DEF Accounted
<1>3. CASE UserDeletes(n)
  <2>1. /\ UNCHANGED <<config, usage, known, pc, copy, guard, owed>>
        /\ obj'[n] = IF obj[n].fin THEN [obj[n] EXCEPT !.del = TRUE] ELSE Blank
    BY <1>3 DEF UserDeletes, Environment, TypeOK
  <2>2. CASE obj[n].fin
    <3>1. obj[n] \in Object
      BY DEF TypeOK
    <3>2. LET p == [obj[n] EXCEPT !.del = TRUE] IN
            p.live = obj[n].live /\ p.fin = obj[n].fin /\ p.ref = obj[n].ref
      BY <3>1 DEF Object
    <3>3. QED
      BY <1>1, <2>1, <2>2, <3>2 DEF Accounted, Refers
  <2>3. CASE ~obj[n].fin
    <3>1. ~obj'[n].live /\ ~obj'[n].fin
      BY <2>1, <2>3 DEF Blank
    <3>2. QED
      BY <1>1, <2>1, <3>1 DEF Accounted
  <2>4. QED
    BY <2>2, <2>3
<1>4. QED
  BY <1>2, <1>3

\* A reconcile of n: the usage is recorded before anything is taken up.
LEMMA WorkAccounted ==
  ASSUME TypeOK, GuardInv, NEW n \in Names, Work(n) \/ Fail(n)
  PROVE  Accounted(n)'
<1>1. Accounted(n)
  BY DEF GuardInv
<1>2. CASE Begin(n)
  BY <1>1, <1>2 DEF Begin, TypeOK, Accounted, Refers
<1>3. CASE Track(n)
  BY <1>1, <1>3 DEF Track, TypeOK, Accounted, Refers
<1>4. ASSUME Stop(n), UNCHANGED <<obj, config, usage, known, guard, owed>>
      PROVE  Accounted(n)'
  BY <1>1, <1>4 DEF Stop, TypeOK, Accounted, Refers
<1>5. CASE Connect(n)
  <2>1. CASE Stop(n)
    BY <1>4, <1>5, <2>1 DEF Connect
  <2>2. CASE pc' = [pc EXCEPT ![n] = "connected"] /\ UNCHANGED copy
    BY <1>1, <1>5, <2>2 DEF Connect, TypeOK, Accounted, Refers
  <2>3. QED
    BY <1>5, <2>1, <2>2 DEF Connect
<1>6. CASE Complete(n)
  <2>1. CASE copy[n] # obj[n]
    BY <1>4, <1>6, <2>1 DEF Complete
  <2>2. CASE copy[n] = obj[n] /\ obj[n].del
    BY <1>6, <2>2 DEF Complete, Stop, TypeOK, Accounted, Blank
  <2>3. CASE copy[n] = obj[n] /\ ~obj[n].del
    <3>1. /\ obj'[n] = [obj[n] EXCEPT !.fin = TRUE] /\ pc'[n] = "idle"
          /\ UNCHANGED <<config, usage, known, guard, owed>>
      BY <1>6, <2>3 DEF Complete, Stop, TypeOK
    <3>2. /\ [obj[n] EXCEPT !.fin = TRUE].live = obj[n].live
          /\ [obj[n] EXCEPT !.fin = TRUE].ref = obj[n].ref
          /\ [obj[n] EXCEPT !.fin = TRUE].fin
      BY DEF TypeOK, Object
    <3>3. obj[n].live /\ usage[n] = obj[n].ref
      BY <1>1, <1>6, <2>3 DEF Complete, Accounted
    <3>4. QED
      BY <1>1, <3>1, <3>2, <3>3 DEF Accounted, Refers
  <2>4. QED
    BY <2>1, <2>2, <2>3
<1>7. CASE Fail(n)
  BY <1>4, <1>7 DEF Fail
<1>8. QED
  BY <1>2, <1>3, <1>5, <1>6, <1>7 DEF Work

\* Usages are collected and seen.
LEMMA UsageAccounted ==
  ASSUME TypeOK, GuardInv, NEW n \in Names, Collect(n) \/ Sync(n)
  PROVE  Accounted(n)'
<1>1. Accounted(n)
  BY DEF GuardInv
<1>2. CASE Collect(n)
  BY <1>1, <1>2 DEF Collect, TypeOK, Accounted, Refers
<1>3. CASE Sync(n)
  BY <1>1, <1>3 DEF Sync, TypeOK, Accounted, Refers
<1>4. QED
  BY <1>2, <1>3

\* A step for an object leaves all others alone, and the config with them.
LEMMA ActsAlone ==
  ASSUME TypeOK, NEW n \in Names, NEW m \in Names \ {n},
         Submit(n) \/ UserDeletes(n) \/ Work(n) \/ Fail(n) \/ Collect(n) \/ Sync(n)
  PROVE  /\ obj'[m] = obj[m] /\ usage'[m] = usage[m] /\ known'[m] = known[m]
         /\ pc'[m] = pc[m] /\ copy'[m] = copy[m]
         /\ config' = config /\ guard' = guard /\ (m \in owed' => m \in owed)
<1>1. Stop(n) => pc'[m] = pc[m] /\ copy'[m] = copy[m]
  BY DEF Stop, TypeOK
<1>2. CASE Submit(n) \/ UserDeletes(n)
  BY <1>2 DEF Submit, UserDeletes, Environment, TypeOK
<1>3. CASE Begin(n) \/ Track(n) \/ Connect(n) \/ Fail(n)
  BY <1>1, <1>3 DEF Begin, Track, Connect, Fail, TypeOK
<1>4. CASE Complete(n)
  BY <1>1, <1>4 DEF Complete, TypeOK
<1>5. CASE Collect(n) \/ Sync(n)
  BY <1>5 DEF Collect, Sync, TypeOK
<1>6. QED
  BY <1>2, <1>3, <1>4, <1>5 DEF Work

\* GuardInv is inductive relative to the types.
LEMMA NextGuarded ==
  ASSUME TypeOK, GuardInv, [Next]_vars
  PROVE  GuardInv'
<1>1. ASSUME NEW n \in Names,
             Submit(n) \/ UserDeletes(n) \/ Work(n) \/ Fail(n) \/ Collect(n) \/ Sync(n)
      PROVE  GuardInv'
  <2>1. config' = config /\ guard' = guard
    BY <1>1 DEF Submit, UserDeletes, Environment, Work, Begin, Track, Connect,
                Complete, Fail, Collect, Sync
  <2>2. ASSUME NEW m \in Names PROVE Accounted(m)'
    <3>1. CASE m = n
      BY <1>1, <3>1, UsersAccounted, WorkAccounted, UsageAccounted
    <3>2. CASE m # n
      <4>1. Accounted(m) /\ (m \in owed /\ obj[m].live => config.del)
        BY DEF GuardInv, Accounted
      <4>2. QED
        BY <1>1, <3>2, <4>1, ActsAlone, StillAccounted
    <3>3. QED
      BY <3>1, <3>2
  <2>3. QED
    BY <2>1, <2>2 DEF GuardInv
<1>2. ASSUME config'.del => config'.live, guard' = "release" => config'.del,
             UNCHANGED <<obj, usage, known, pc, copy, owed>>,
             \A n \in Names : n \in owed /\ obj[n].live => config'.del,
             guard' = "release" => guard = "release"
      PROVE  GuardInv'
  BY <1>2, StillAccounted DEF GuardInv
<1>3. \A n \in Names : n \in owed /\ obj[n].live => config.del
  BY DEF GuardInv, Accounted
<1>4. CASE UserConfigures
  <2>1. /\ config'.live /\ config'.del = config.del /\ guard' = "idle"
        /\ UNCHANGED <<obj, usage, known, pc, copy, owed>>
    BY <1>4 DEF UserConfigures, TypeOK, Config
  <2>2. QED
    BY <1>2, <1>3, <2>1
<1>5. CASE UserDeletesConfig
  <2>1. /\ config.live /\ ~config.del /\ guard # "release" /\ guard' = guard
        /\ UNCHANGED <<obj, usage, known, pc, copy>>
    BY <1>5 DEF UserDeletesConfig, Environment, GuardInv
  <2>2. CASE config.fin /\ config' = [config EXCEPT !.del = TRUE] /\ owed' = KnownToUse
    <3>1. config'.del /\ config'.live
      BY <2>1, <2>2 DEF TypeOK, Config
    <3>2. ASSUME NEW m \in Names PROVE Accounted(m)'
      BY <2>1, <2>2, <3>1 DEF GuardInv, Accounted, KnownToUse, Refers
    <3>3. QED
      BY <2>1, <3>1, <3>2 DEF GuardInv
  <2>3. CASE config' = NoConfig /\ UNCHANGED owed
    BY <1>2, <1>3, <2>1, <2>3 DEF NoConfig
  <2>4. QED
    BY <1>5, <2>2, <2>3 DEF UserDeletesConfig
<1>6. CASE Review
  <2>1. CASE ~config.del
    <3>1. /\ config' = [config EXCEPT !.fin = TRUE] /\ guard' = guard
          /\ UNCHANGED <<obj, usage, known, pc, copy, owed>>
      BY <1>6, <2>1 DEF Review
    <3>2. config'.del = config.del /\ config'.live = config.live
      BY <3>1 DEF TypeOK, Config
    <3>3. QED
      BY <1>2, <1>3, <3>1, <3>2 DEF GuardInv
  <2>2. CASE config.del
    <3>1. /\ Users = {} /\ guard' = "release"
          /\ UNCHANGED <<obj, config, usage, known, pc, copy, owed>>
      BY <1>6, <2>2 DEF Review
    <3>2. ASSUME NEW m \in Names PROVE Accounted(m)'
      BY <3>1 DEF GuardInv, Accounted, Users, Refers
    <3>3. QED
      BY <2>2, <3>1, <3>2 DEF GuardInv
  <2>3. QED
    BY <2>1, <2>2
<1>7. CASE Release
  <2>1. /\ guard = "release" /\ guard' = "idle"
        /\ UNCHANGED <<obj, usage, known, pc, copy, owed>>
        /\ config' \in {NoConfig, config}
    BY <1>7 DEF Release
  <2>2. \A n \in Names : n \in owed => ~obj[n].live
    BY <2>1 DEF GuardInv, Accounted
  <2>3. config'.del => config'.live
    BY <2>1 DEF NoConfig, GuardInv
  <2>4. QED
    BY <1>2, <2>1, <2>2, <2>3
<1>8. CASE UNCHANGED vars
  BY <1>2, <1>3, <1>8 DEF vars, GuardInv
<1>9. QED
  BY <1>1, <1>4, <1>5, <1>6, <1>7, <1>8 DEF Next

\* GuardInv holds of every reachable state, in whatever order users, workers, caches
\* and the config's controller take their steps.
THEOREM GuardHolds == Spec => []GuardInv
<1>1. Init => GuardInv
  BY DEF Init, GuardInv, Accounted, Blank, NoConfig
<1>2. TypeOK /\ GuardInv /\ [Next]_vars => GuardInv'
  BY NextGuarded
<1>3. QED
  BY <1>1, <1>2, TypeCorrect, PTL DEF Spec

\* The config goes only when the objects it is owed to are gone, though others begin
\* to use it while it is being released.
THEOREM ConfigIsKept == Spec => KeptForKnown
<1>1. ASSUME TypeOK, GuardInv, [Next]_vars, config.live, ~config'.live,
             NEW n \in owed
      PROVE  ~obj[n].live
  <2>1. config' # config /\ n \in Names
    BY <1>1 DEF TypeOK
  <2>2. ~UserConfigures /\ ~Review
    BY <1>1 DEF UserConfigures, Review, TypeOK, Config
  <2>3. Release \/ UserDeletesConfig
    BY <1>1, <2>1, <2>2 DEF Next, vars, Submit, UserDeletes, Environment, Work, Begin,
                            Track, Connect, Complete, Fail, Collect, Sync
  <2>4. CASE Release
    BY <1>1, <2>1, <2>4 DEF Release, GuardInv, Accounted
  <2>5. CASE UserDeletesConfig
    BY <1>1, <2>1, <2>5 DEF UserDeletesConfig, GuardInv, Accounted
  <2>6. QED
    BY <2>3, <2>4, <2>5
<1>2. TypeOK /\ GuardInv /\ [Next]_vars =>
        [config.live /\ ~config'.live => \A n \in owed : ~obj[n].live]_vars
  BY <1>1
<1>3. QED
  BY <1>2, TypeCorrect, GuardHolds, PTL DEF Spec, KeptForKnown
=============================================================================
