-------------------------- MODULE Ownership_proofs --------------------------
(***************************************************************************)
(* What the provider owns in IoTronic.  Whatever fails, it comes to own a  *)
(* resource only inside the create window.  When no answer to a create is  *)
(* lost and no user writes an object while it is created, there is at most *)
(* one resource for each object, never one that nothing refers to;         *)
(* crashes, refusals, unreadable answers, lost updates and deletes, stale  *)
(* caches and resources that vanish are all allowed.                       *)
(***************************************************************************)
EXTENDS LockInv_proofs

Calm == {"race", "lostCreate"} \cap Faults = {}

-----------------------------------------------------------------------------
(* What a step does to what is owned.                                      *)

\* Only a create of n itself adds to what n owns.
LEMMA OwnedShrinks ==
  ASSUME TypeOK, NEW n \in Names, Acts(n), NEW m \in Names,
         CreateExternal(n) => m # n
  PROVE  Owned(m)' \subseteq Owned(m)
<1>1. CASE CreateExternal(n)
  BY <1>1 DEF CreateExternal, Owned
<1>2. CASE DeleteExternal(n)
  BY <1>2 DEF DeleteExternal, Without, Owned
<1>3. CASE UpdateExternal(n)
  <2>1. CASE mg[n].uuid \in DOMAIN ext
    <3>1. DOMAIN ext' = DOMAIN ext
      BY <1>3, <2>1 DEF UpdateExternal
    <3>2. ASSUME NEW i \in DOMAIN ext PROVE ext'[i].owner = ext[i].owner
      <4>1. CASE i = mg[n].uuid
        <5> DEFINE d == UpdateBodyBy(Kind, mg[n], ext[i].data)
        <5>1. ext'[i] = [ext[i] EXCEPT !.data = d]
          BY <1>3, <2>1, <4>1 DEF UpdateExternal, TypeOK
        <5>2. ext[i] \in External
          BY DEF TypeOK
        <5> HIDE DEF d
        <5>3. [ext[i] EXCEPT !.data = d].owner = ext[i].owner
          BY <5>2 DEF External
        <5>4. QED
          BY <5>1, <5>3
      <4>2. CASE i # mg[n].uuid
        BY <1>3, <2>1, <4>2 DEF UpdateExternal, TypeOK
      <4>3. QED
        BY <4>1, <4>2
    <3>3. QED
      BY <3>1, <3>2 DEF Owned
  <2>2. CASE mg[n].uuid \notin DOMAIN ext
    BY <1>3, <2>2 DEF UpdateExternal, Owned
  <2>3. QED
    BY <2>1, <2>2
<1>4. CASE UNCHANGED ext
  BY <1>4 DEF Owned
<1>5. QED
  BY <1>1, <1>2, <1>3, <1>4
     DEF Acts, Users, Submit, Edit, UserDeletes, UserWrites, Work, Refuse, Begin,
         Observe, AwaitVisible, RemoveFinalizer, AddFinalizer, MarkPending,
         Record, Reread, GiveUp, Report, Sync, GraceElapses,
         ConnectFails, ReadFails, Refused, Crash

\* The handlers' results: the worker goes on with a copy that differs from the one
\* it had in its status at most.
LEMMA HandlersGo ==
  ASSUME TypeOK, NEW n \in Names, NEW a,
         Observed(n, a) \/ Deleted(n, a) \/ Updated(n, a)
  PROVE  \E o \in Object, step \in {"absent", "stale", "current", "report"} :
           Goto(n, o, step) /\ Agree(o, mg[n])
<1>1. mg[n] \in Object /\ ObserveBy(Kind, mg[n], a) \in Verdicts
  BY ObserveVerdict DEF TypeOK
<1>2. CASE Observed(n, a)
  <2>1. /\ LET p == [mg[n] EXCEPT !.sync = "error"] IN p \in Object /\ Agree(p, mg[n])
        /\ LET p == [mg[n] EXCEPT !.ready = "available"] IN
             p \in Object /\ Agree(p, mg[n])
        /\ Agree(mg[n], mg[n])
    BY <1>1, FieldsType, FieldsChange DEF Agree
  <2>2. QED
    BY <1>1, <1>2, <2>1 DEF Observed, Verdicts
<1>3. CASE Deleted(n, a) \/ Updated(n, a)
  <2>1. PICK s \in {"ok", "error"} :
          \/ Goto(n, [mg[n] EXCEPT !.sync = s], "report")
          \/ Goto(n, [mg[n] EXCEPT !.ready = "deleting", !.sync = s], "report")
    BY <1>3 DEF Deleted, Updated
  <2>2. /\ LET p == [mg[n] EXCEPT !.sync = s] IN p \in Object /\ Agree(p, mg[n])
        /\ LET p == [mg[n] EXCEPT !.ready = "deleting", !.sync = s] IN
             p \in Object /\ Agree(p, mg[n])
    BY <1>1, ReportChange
  <2>3. QED
    BY <2>1, <2>2
<1>4. QED
  BY <1>2, <1>3

-----------------------------------------------------------------------------
(* Creations are bracketed, whatever fails.                                *)

\* The mark is set on what was found absent and unmarked.
LEMMA MarkStep ==
  ASSUME TypeOK, NEW n \in Names, Locked(n), Acts(n), pc[n] # "create",
         pc'[n] = "create"
  PROVE  api[n].ann # "pending"
<1>1. ASSUME NEW o, NEW step, Goto(n, o, step) PROVE step = "create"
  BY <1>1 DEF Goto, TypeOK
<1>2. ~Stop(n)
  BY DEF Stop, TypeOK
<1>3. ASSUME NEW a, Observed(n, a) \/ Deleted(n, a) \/ Updated(n, a) PROVE FALSE
  <2>1. PICK o \in Object, step \in {"absent", "stale", "current", "report"} :
          Goto(n, o, step)
    BY <1>3, HandlersGo
  <2>2. QED
    BY <1>1, <2>1
<1>4. ~(Observe(n) \/ ReadFails(n) \/ DeleteExternal(n) \/ UpdateExternal(n))
  BY <1>3 DEF Observe, ReadFails, DeleteExternal, UpdateExternal
<1>5. ~(Refused(n) \/ CreateExternal(n) \/ ConnectFails(n))
  BY <1>1, <1>3 DEF Refused, CreateExternal, ConnectFails
<1>6. ~(AwaitVisible(n) \/ RemoveFinalizer(n) \/ GiveUp(n) \/ Crash(n) \/ Report(n))
  BY <1>2 DEF AwaitVisible, RemoveFinalizer, GiveUp, Crash, Report, WriteStatus
<1>7. ~(Users(n) \/ Sync(n) \/ GraceElapses(n) \/ Refuse(n) \/ Begin(n) \/ Reread(n))
  BY DEF Users, Submit, Edit, UserDeletes, UserWrites, Sync, GraceElapses, Refuse,
         Begin, Reread, TypeOK
<1>8. ~(AddFinalizer(n) \/ Record(n))
  BY <1>1, <1>2 DEF AddFinalizer, Record, Write
<1>9. MarkPending(n)
  BY <1>4, <1>5, <1>6, <1>7, <1>8 DEF Acts, Work
<1>10. fresh[n] /\ pc[n] = "absent"
  BY <1>2, <1>9 DEF MarkPending, Write, Absent
<1>11. QED
  BY <1>10 DEF Locked, Judging, CopyIsCurrent

\* A resource comes to be only inside the create window.
LEMMA CreationStep ==
  ASSUME TypeOK, LockInv, [Next]_vars, NEW n \in Names
  PROVE  /\ pc[n] # "create" /\ pc'[n] = "create" => api[n].ann # "pending"
         /\ Owned(n)' \ Owned(n) # {} =>
              /\ api[n].live /\ api[n].fin /\ api[n].ann = "pending"
              /\ api[n].uuid \notin DOMAIN ext
<1>1. Locked(n)
  BY DEF LockInv
<1>2. CASE Acts(n)
  <2>1. CreateExternal(n) => pc[n] \in CreateWindow
    BY DEF CreateExternal, CreateWindow
  <2>2. QED
    BY <1>1, <1>2, <2>1, MarkStep, OwnedShrinks DEF Locked
<1>3. ASSUME NEW m \in Names \ {n}, Acts(m)
      PROVE  pc'[n] = pc[n] /\ Owned(n)' \subseteq Owned(n)
  BY <1>3, ActsAlone, OwnedShrinks DEF Still
<1>4. (\E i \in Ids : Vanish(i)) \/ UNCHANGED vars =>
        pc'[n] = pc[n] /\ Owned(n)' \subseteq Owned(n)
  BY DEF Vanish, Without, vars, Owned
<1>5. QED
  BY <1>2, <1>3, <1>4 DEF Next, Acts

\* One creation to a mark, and only of what is not there, whatever fails.
THEOREM CreationHolds == Spec => CreationIsBracketed
<1>1. TypeOK /\ LockInv /\ [Next]_vars =>
        [\A n \in Names :
           /\ pc[n] # "create" /\ pc'[n] = "create" => api[n].ann # "pending"
           /\ Owned(n)' \ Owned(n) # {} =>
                /\ api[n].live /\ api[n].fin /\ api[n].ann = "pending"
                /\ api[n].uuid \notin DOMAIN ext]_vars
  BY CreationStep
<1>2. QED
  BY <1>1, TypeCorrect, LockHolds, PTL DEF Spec, CreationIsBracketed

-----------------------------------------------------------------------------
(* OwnershipInv is inductive.                                              *)

\* An object that nothing happens to may lose its resource, no more.
LEMMA StillOwns ==
  ASSUME NEW m \in Names, Owns(m), Still(m), Owned(m)' \subseteq Owned(m)
  PROVE  Owns(m)'
BY DEF Owns, Still

\* A worker may stop anywhere.
LEMMA StopOwns ==
  ASSUME TypeOK, NEW n \in Names, Owns(n), Stop(n), api'[n] = api[n],
         Owned(n)' \subseteq Owned(n)
  PROVE  Owns(n)'
BY DEF Owns, Stop, TypeOK, CreateWindow

\* A worker may go on to where nothing is created.
LEMMA MoveOwns ==
  ASSUME TypeOK, NEW n \in Names, Owns(n), NEW o, NEW step \in Steps \ CreateWindow,
         Goto(n, o, step), api'[n] = api[n], Owned(n)' \subseteq Owned(n)
  PROVE  Owns(n)'
<1>1. pc'[n] = step
  BY DEF Goto, TypeOK
<1>2. QED
  BY <1>1 DEF Owns, CreateWindow

\* The verdict of Observe and the reports of Update and Delete.
LEMMA HandlersOwn ==
  ASSUME TypeOK, NEW n \in Names, Owns(n), NEW a,
         Observed(n, a) \/ Deleted(n, a) \/ Updated(n, a),
         api'[n] = api[n], Owned(n)' \subseteq Owned(n)
  PROVE  Owns(n)'
<1>1. PICK o \in Object, step \in {"absent", "stale", "current", "report"} :
        Goto(n, o, step)
  BY HandlersGo
<1>2. QED
  BY <1>1, MoveOwns DEF Steps, CreateWindow

\* Users keep out of the create window, and only let go of what owns nothing.
LEMMA UsersOwn ==
  ASSUME Calm, TypeOK, NEW n \in Names, Locked(n), Owns(n), Users(n)
  PROVE  Owns(n)'
<1>1. api[n] \in Object
  BY DEF TypeOK
<1>2. ASSUME NEW o, UserWrites(n, o), pc[n] \notin CreateWindow,
             Owned(n) # {} => o.live /\ o.fin,
             o.ann # "pending" => Owned(n) \subseteq {o.uuid}
      PROVE  Owns(n)'
  <2>1. /\ api'[n] = o /\ pc'[n] = pc[n] /\ mg'[n] = mg[n] /\ Owned(n)' = Owned(n)
    BY <1>2 DEF UserWrites, TypeOK, Owned
  <2>2. QED
    BY <1>2, <2>1 DEF Owns, CreateWindow
<1>3. CASE Submit(n)
  <2>1. PICK d \in Data : UserWrites(n, [Blank EXCEPT !.live = TRUE, !.want = d])
    BY <1>3 DEF Submit
  <2>2. Owned(n) = {} /\ pc[n] \notin CreateWindow
    BY <1>3 DEF Submit, Owns, Locked
  <2>3. QED
    BY <1>2, <2>1, <2>2
<1>4. CASE Edit(n)
  <2>1. PICK d \in Data : UserWrites(n, [api[n] EXCEPT !.want = d])
    BY <1>4 DEF Edit
  <2>2. LET p == [api[n] EXCEPT !.want = d] IN
          /\ p.live = api[n].live /\ p.uuid = api[n].uuid /\ p.fin = api[n].fin
          /\ p.ann = api[n].ann
    BY <1>1, WantChange
  <2>3. pc[n] \notin CreateWindow
    BY <1>4 DEF Edit, Quiet, Calm
  <2>4. QED
    BY <1>2, <2>1, <2>2, <2>3 DEF Owns
<1>5. CASE UserDeletes(n)
  <2>1. pc[n] \notin CreateWindow
    BY <1>5 DEF UserDeletes, Quiet, Calm
  <2>2. CASE api[n].fin
    <3>1. UserWrites(n, [api[n] EXCEPT !.del = TRUE])
      BY <1>5, <2>2 DEF UserDeletes
    <3>2. LET p == [api[n] EXCEPT !.del = TRUE] IN
            /\ p.live = api[n].live /\ p.uuid = api[n].uuid /\ p.fin = api[n].fin
            /\ p.ann = api[n].ann
      BY <1>1, FieldsChange
    <3>3. QED
      BY <1>2, <2>1, <3>1, <3>2 DEF Owns
  <2>3. CASE ~api[n].fin
    <3>1. UserWrites(n, Blank) /\ Owned(n) = {}
      BY <1>5, <2>3 DEF UserDeletes, Owns
    <3>2. QED
      BY <1>2, <2>1, <3>1
  <2>4. QED
    BY <2>2, <2>3
<1>6. QED
  BY <1>3, <1>4, <1>5 DEF Users

\* A write from a current copy carries the uuid along.
LEMMA WriteOwns ==
  ASSUME TypeOK, NEW n \in Names, Owns(n), NEW o \in Object, NEW step \in Steps,
         Write(n, o, step), UNCHANGED ext, pc[n] # "idle",
         fresh[n] =>
           /\ o.live /\ o.fin
           /\ o.ann # "pending" => Owned(n) \subseteq {o.uuid}
           /\ step = "create" => Owned(n) = {}
           /\ step \notin {"created", "failed", "observe"}
  PROVE  Owns(n)'
<1>1. CASE ~fresh[n]
  BY <1>1, StopOwns DEF Write, Owned
<1>2. CASE fresh[n]
  <2>1. /\ api'[n] = WithStatus(o, api[n])
        /\ mg'[n] = o /\ pc'[n] = step /\ fresh'[n] /\ Owned(n)' = Owned(n)
    BY <1>2 DEF Write, Goto, TypeOK, Owned
  <2>2. LET p == WithStatus(o, api[n]) IN
          /\ p.live = o.live /\ p.uuid = o.uuid /\ p.fin = o.fin /\ p.ann = o.ann
    BY StatusFields DEF TypeOK
  <2>3. QED
    BY <1>2, <2>1, <2>2 DEF Owns
<1>3. QED
  BY <1>1, <1>2

\* The engine's three writes keep what is owned recorded, or about to be.
LEMMA WritesOwn ==
  ASSUME TypeOK, NEW n \in Names, Locked(n), Owns(n),
         AddFinalizer(n) \/ MarkPending(n) \/ Record(n)
  PROVE  Owns(n)'
<1>1. mg[n] \in Object /\ pc[n] \in Steps
  BY DEF TypeOK
<1>2. CASE AddFinalizer(n)
  <2>1. LET p == [mg[n] EXCEPT !.fin = TRUE] IN
          /\ p \in Object /\ p.live = mg[n].live /\ p.uuid = mg[n].uuid /\ p.fin
          /\ p.ann = mg[n].ann
    BY <1>1, FieldsType, FieldsChange
  <2>2. pc[n] \in {"absent", "stale", "current"}
    BY <1>2 DEF AddFinalizer, Absent, Exists
  <2>3. fresh[n] => /\ mg[n].live /\ mg[n].uuid = api[n].uuid
                    /\ mg[n].ann = api[n].ann
    BY <2>2 DEF Locked, CopyIsCurrent
  <2>4. mg[n].ann # "pending"
    BY <2>2 DEF Locked, Judging
  <2>5. Write(n, [mg[n] EXCEPT !.fin = TRUE], pc[n]) /\ UNCHANGED ext
    BY <1>2 DEF AddFinalizer
  <2>6. fresh[n] => Owned(n) \subseteq {mg[n].uuid}
    BY <2>3, <2>4 DEF Owns
  <2>7. QED
    BY <1>1, <2>1, <2>2, <2>3, <2>4, <2>5, <2>6, WriteOwns
<1>3. CASE MarkPending(n)
  <2>1. LET p == [mg[n] EXCEPT !.ann = "pending"] IN
          /\ p \in Object /\ p.live = mg[n].live /\ p.fin = mg[n].fin
          /\ p.ann = "pending"
    BY <1>1, FieldsType, FieldsChange
  <2>2. pc[n] = "absent" /\ mg[n].fin
    BY <1>3 DEF MarkPending, Absent
  <2>3. fresh[n] => mg[n].live /\ mg[n].ann = api[n].ann
    BY <2>2 DEF Locked, CopyIsCurrent
  <2>4. fresh[n] => Owned(n) = {}
    <3>1. fresh[n] => api[n].uuid \notin DOMAIN ext /\ Owned(n) \subseteq {api[n].uuid}
      BY <2>2, <2>3 DEF Locked, Owns, Judging
    <3>2. QED
      BY <3>1 DEF Owned
  <2>5. Write(n, [mg[n] EXCEPT !.ann = "pending"], "create") /\ UNCHANGED ext
    BY <1>3 DEF MarkPending
  <2>6. QED
    BY <2>1, <2>2, <2>3, <2>4, <2>5, WriteOwns DEF Steps
<1>4. CASE Record(n)
  <2>1. PICK p \in Object : /\ Write(n, p, "report")
                            /\ p.live = mg[n].live /\ p.uuid = mg[n].uuid
                            /\ p.fin = mg[n].fin
    <3>1. CASE pc[n] = "created"
      <4>1. Write(n, [mg[n] EXCEPT !.ann = "succeeded", !.ready = "creating", !.sync = "ok"],
                  "report")
        BY <1>4, <3>1 DEF Record
      <4>2. QED
        BY <1>1, <4>1, RecordChange
    <3>2. CASE pc[n] = "failed"
      <4>1. Write(n, [mg[n] EXCEPT !.ann = "failed", !.ready = "creating", !.sync = "error"],
                  "report")
        BY <1>4, <3>2 DEF Record
      <4>2. QED
        BY <1>1, <4>1, RecordChange
    <3>3. QED
      BY <1>4, <3>1, <3>2 DEF Record
  <2>2. pc[n] \in {"created", "failed"} /\ fresh[n] /\ UNCHANGED ext
    BY <1>4 DEF Record
  <2>3. mg[n].live /\ mg[n].fin
    BY <2>2 DEF Locked, CopyIsCurrent, CreateWindow
  <2>4. Owned(n) \subseteq {mg[n].uuid}
    BY <2>2 DEF Owns
  <2>5. QED
    BY <2>1, <2>2, <2>3, <2>4, WriteOwns DEF Steps
<1>5. QED
  BY <1>2, <1>3, <1>4

\* A create that is answered leaves the new uuid in the worker's hands.
LEMMA CreateOwns ==
  ASSUME Calm, TypeOK, NEW n \in Names, Locked(n), Owns(n), CreateExternal(n)
  PROVE  Owns(n)'
<1>1. mg[n] \in Object /\ mg[n].want \in Data /\ mg[n].uuid \in Refs
  BY DEF TypeOK, Object
<1>2. pc[n] = "create" /\ UNCHANGED <<api, cache, synced>>
  BY DEF CreateExternal
<1>3. /\ Owned(n) = {} /\ fresh[n]
      /\ api[n].live /\ api[n].fin /\ api[n].ann = "pending"
  BY <1>2 DEF Owns, Locked, CreateWindow
<1>4. ASSUME NEW a, Created(n, a), NEW i, CreateBy(Kind, mg[n], a) = [ok |-> TRUE, uuid |-> i],
             i \in Refs, Owned(n)' \subseteq {i}
      PROVE  Owns(n)'
  <2>1. /\ mg'[n] = [mg[n] EXCEPT !.uuid = i] /\ pc'[n] = "created" /\ fresh'[n]
        /\ api'[n] = api[n]
    BY <1>2, <1>3, <1>4 DEF Created, Goto, TypeOK
  <2>2. [mg[n] EXCEPT !.uuid = i].uuid = i
    BY <1>1, <1>4, UuidChange
  <2>3. QED
    BY <1>3, <1>4, <2>1, <2>2 DEF Owns
<1>5. PICK i \in FreeIds :
        /\ ext' = [j \in DOMAIN ext \cup {i} |->
                     IF j = i THEN [owner |-> n, data |-> mg[n].want] ELSE ext[j]]
        /\ \E a \in CreateAnswers(i, mg[n].want) : Created(n, a)
  BY DEF CreateExternal
<1>6. PICK a \in CreateAnswers(i, mg[n].want) : Created(n, a)
  BY <1>5
<1>7. i \in Ids
  BY DEF FreeIds
<1>8. CreateBy(Kind, mg[n], a) = [ok |-> TRUE, uuid |-> i]
  BY <1>1, <1>7, CreateOutcome DEF CreateExternal, Calm
<1>9. Owned(n)' \subseteq {i}
  BY <1>3, <1>5 DEF Owned
<1>10. QED
  BY <1>4, <1>6, <1>7, <1>8, <1>9 DEF Refs

\* The finalizer goes only when nothing is owned any more.
LEMMA ReleaseOwnsNothing ==
  ASSUME TypeOK, NEW n \in Names, Locked(n), Owns(n), RemoveFinalizer(n), fresh[n]
  PROVE  Owned(n) = {}
<1>1. pc[n] = "absent"
  BY DEF RemoveFinalizer, Absent
<1>2. mg[n].ann = api[n].ann /\ mg[n].ann # "pending" /\ api[n].uuid \notin DOMAIN ext
  BY <1>1 DEF Locked, CopyIsCurrent, Judging
<1>3. QED
  BY <1>2 DEF Owns, Owned

\* A step for an object keeps it in possession of what it owns.
LEMMA ActsOwn ==
  ASSUME Calm, TypeOK, NEW n \in Names, Locked(n), Owns(n), Acts(n)
  PROVE  Owns(n)'
<1>1. ~CreateExternal(n) => Owned(n)' \subseteq Owned(n)
  BY OwnedShrinks
<1>2. CASE AwaitVisible(n) \/ GiveUp(n) \/ Crash(n)
  <2>1. Stop(n) /\ api'[n] = api[n] /\ Owned(n)' = Owned(n)
    BY <1>2 DEF AwaitVisible, GiveUp, Crash, Owned
  <2>2. QED
    BY <2>1, StopOwns
<1>3. CASE RemoveFinalizer(n)
  <2>1. CASE fresh[n]
    <3>1. api'[n] = Blank /\ pc'[n] = "idle" /\ Owned(n)' = Owned(n)
      BY <1>3, <2>1 DEF RemoveFinalizer, Stop, TypeOK, Owned
    <3>2. Owned(n) = {}
      BY <1>3, <2>1, ReleaseOwnsNothing
    <3>3. QED
      BY <3>1, <3>2 DEF Owns, CreateWindow
  <2>2. CASE ~fresh[n]
    <3>1. Stop(n) /\ api'[n] = api[n] /\ Owned(n)' = Owned(n)
      BY <1>3, <2>2 DEF RemoveFinalizer, Owned
    <3>2. QED
      BY <3>1, StopOwns
  <2>3. QED
    BY <2>1, <2>2
<1>4. CASE Observe(n) \/ ReadFails(n) \/ DeleteExternal(n) \/ UpdateExternal(n)
  <2>1. PICK a : Observed(n, a) \/ Deleted(n, a) \/ Updated(n, a)
    BY <1>4 DEF Observe, ReadFails, DeleteExternal, UpdateExternal
  <2>2. api'[n] = api[n] /\ ~CreateExternal(n)
    BY <1>4
       DEF Observe, ReadFails, DeleteExternal, UpdateExternal, Exists, CreateExternal
  <2>3. QED
    BY <1>1, <2>1, <2>2, HandlersOwn
<1>5. CASE Refused(n)
  <2>1. PICK a \in Refusals :
          \/ pc[n] = "create" /\ Created(n, a)
          \/ Exists(n) /\ (Deleted(n, a) \/ Updated(n, a))
    BY <1>5 DEF Refused, Exists
  <2>2. api' = api /\ Owned(n)' = Owned(n)
    BY <1>5 DEF Refused, Owned
  <2>3. CASE pc[n] = "create" /\ Created(n, a)
    <3>1. mg[n] \in Object
      BY DEF TypeOK
    <3>2. CreateBy(Kind, mg[n], a) = [ok |-> FALSE, uuid |-> mg[n].uuid]
      BY <2>2, <3>1, RefusedCreate
    <3>3. pc'[n] = "failed" /\ fresh'[n] = fresh[n]
      BY <2>3, <3>2 DEF Created, Goto, TypeOK
    <3>4. QED
      BY <2>2, <2>3, <3>3 DEF Owns, CreateWindow
  <2>4. CASE Exists(n) /\ (Deleted(n, a) \/ Updated(n, a))
    BY <2>2, <2>4, HandlersOwn
  <2>5. QED
    BY <2>1, <2>3, <2>4
<1>6. CASE Refuse(n) \/ Begin(n)
  <2>1. /\ api'[n] = api[n] /\ Owned(n)' = Owned(n)
        /\ pc'[n] \in {"report", "observe"}
    BY <1>6 DEF Refuse, Begin, TypeOK, Owned
  <2>2. QED
    BY <2>1 DEF Owns, CreateWindow
<1>7. ~Reread(n)
  BY DEF Reread, Owns, CreateWindow
<1>8. CASE Report(n)
  <2>1. PICK o \in Object : WriteStatus(n, o)
    <3>1. mg[n] \in Object
      BY DEF TypeOK
    <3>2. QED
      BY <1>8, <3>1, FieldsType DEF Report
  <2>2. /\ pc'[n] = "idle" /\ Owned(n)' = Owned(n)
        /\ api'[n] \in {api[n], WithStatus(api[n], o)}
    BY <1>8, <2>1 DEF Report, WriteStatus, Stop, TypeOK, Owned
  <2>3. api'[n].live = api[n].live /\ api'[n].uuid = api[n].uuid
        /\ api'[n].fin = api[n].fin /\ api'[n].ann = api[n].ann
    BY <2>2, StatusFields DEF TypeOK
  <2>4. QED
    BY <2>2, <2>3 DEF Owns, CreateWindow
<1>9. CASE Sync(n)
  BY <1>9 DEF Sync, Owns, Owned
<1>10. CASE GraceElapses(n)
  BY <1>10 DEF GraceElapses, Owns, Owned
<1>11. CASE ConnectFails(n)
  <2>1. /\ Goto(n, [mg[n] EXCEPT !.sync = "error"], "report")
        /\ api'[n] = api[n] /\ Owned(n)' = Owned(n)
    BY <1>11 DEF ConnectFails, Owned
  <2>2. QED
    BY <2>1, MoveOwns DEF Steps, CreateWindow
<1>12. QED
  BY <1>2, <1>3, <1>4, <1>5, <1>6, <1>7, <1>8, <1>9, <1>10, <1>11, UsersOwn,
     WritesOwn, CreateOwns
     DEF Acts, Work

\* OwnershipInv is inductive relative to the types and to LockInv.
LEMMA NextOwns ==
  ASSUME Calm, TypeOK, LockInv, OwnershipInv, [Next]_vars
  PROVE  OwnershipInv'
<1> SUFFICES ASSUME NEW m \in Names PROVE Owns(m)'
  BY DEF OwnershipInv
<1>1. Owns(m) /\ Locked(m)
  BY DEF OwnershipInv, LockInv
<1>2. ASSUME NEW n \in Names, Acts(n) PROVE Owns(m)'
  <2>1. CASE n = m
    BY <1>1, <1>2, <2>1, ActsOwn
  <2>2. CASE n # m
    <3>1. Still(m)
      BY <1>2, <2>2, ActsAlone
    <3>2. QED
      BY <1>1, <1>2, <2>2, <3>1, OwnedShrinks, StillOwns
  <2>3. QED
    BY <2>1, <2>2
<1>3. ASSUME NEW i \in Ids, Vanish(i) PROVE Owns(m)'
  <2>1. Still(m) /\ Owned(m)' \subseteq Owned(m)
    BY <1>3 DEF Vanish, Without, Still, Owned
  <2>2. QED
    BY <1>1, <2>1, StillOwns
<1>4. CASE UNCHANGED vars
  BY <1>1, <1>4, StillOwns DEF vars, Still, Owned
<1>5. QED
  BY <1>2, <1>3, <1>4 DEF Next, Acts

\* When Calm, OwnershipInv holds of every reachable state.
THEOREM OwnershipHolds ==
  ASSUME Calm
  PROVE  Spec => []OwnershipInv
<1>1. Init => OwnershipInv
  BY DEF Init, OwnershipInv, Owns, Owned, Blank, CreateWindow
<1>2. TypeOK /\ LockInv /\ OwnershipInv /\ [Next]_vars => OwnershipInv'
  BY NextOwns
<1>3. QED
  BY <1>1, <1>2, TypeCorrect, LockHolds, PTL DEF Spec

-----------------------------------------------------------------------------
(* The properties that follow.                                             *)

\* No object ever has two resources, when Calm.
THEOREM OneExternalHolds ==
  ASSUME Calm
  PROVE  Spec => []OneExternal
<1>1. OwnershipInv => OneExternal
  BY DEF OwnershipInv, Owns, OneExternal
<1>2. QED
  BY <1>1, OwnershipHolds, PTL

\* No resource is ever out of reach, when Calm.
THEOREM NoOrphanHolds ==
  ASSUME Calm
  PROVE  Spec => []NoOrphan
<1>1. ASSUME TypeOK, OwnershipInv PROVE NoOrphan
  <2>1. SUFFICES ASSUME NEW i \in DOMAIN ext
                 PROVE  LET o == api[ext[i].owner] IN
                          o.live /\ o.fin /\ (o.uuid = i \/ o.ann = "pending")
    BY DEF NoOrphan
  <2>2. ext[i].owner \in Names
    BY <1>1 DEF TypeOK, External
  <2>3. i \in Owned(ext[i].owner)
    BY DEF Owned
  <2>4. QED
    BY <1>1, <2>2, <2>3 DEF OwnershipInv, Owns
<1>2. QED
  BY <1>1, TypeCorrect, OwnershipHolds, PTL

\* What leaves the API server leaves nothing behind, when Calm.
THEOREM DeletionIsClean ==
  ASSUME Calm
  PROVE  Spec => DeletedFromBoth
<1>1. ASSUME TypeOK, LockInv, OwnershipInv, [Next]_vars, NEW n \in Names,
             api[n].live, ~api'[n].live
      PROVE  Owned(n) = {}
  <2>1. OwnershipInv'
    BY <1>1, NextOwns
  <2>2. Owned(n)' = {}
    BY <1>1, <2>1 DEF OwnershipInv, Owns
  <2>3. ext' = ext
    <3>1. ASSUME NEW m \in Names, Acts(m), ext' # ext PROVE api' = api
      BY <3>1
         DEF Acts, Users, Submit, Edit, UserDeletes, UserWrites, Work, Refuse,
             Begin, Observe, AwaitVisible, RemoveFinalizer, AddFinalizer,
             MarkPending, Record, Reread, GiveUp, Report, Sync,
             GraceElapses, ConnectFails, ReadFails, Refused, Crash, DeleteExternal,
             CreateExternal, UpdateExternal
    <3>2. ASSUME NEW i \in Ids, Vanish(i) PROVE api' = api
      BY <3>2 DEF Vanish
    <3>3. QED
      BY <1>1, <3>1, <3>2 DEF Next, Acts, vars
  <2>4. QED
    BY <2>2, <2>3 DEF Owned
<1>2. TypeOK /\ LockInv /\ OwnershipInv /\ [Next]_vars =>
        [\A n \in Names : api[n].live /\ ~api'[n].live => Owned(n) = {}]_vars
  BY <1>1
<1>3. QED
  BY <1>2, TypeCorrect, LockHolds, OwnershipHolds, PTL DEF Spec, DeletedFromBoth
=============================================================================
