--------------------------- MODULE LockInv_proofs ---------------------------
(***************************************************************************)
(* What the optimistic lock of the API server guarantees whatever fails:   *)
(* LockInv is inductive, and with it the safety properties that hold under *)
(* every set of faults.                                                    *)
(***************************************************************************)
EXTENDS ManagedResource_proofs

\* o and p differ in their status at most.
Agree(o, p) ==
  /\ o.live = p.live /\ o.uuid = p.uuid /\ o.want = p.want
  /\ o.del = p.del /\ o.fin = p.fin /\ o.ann = p.ann

\* The changes the engine makes to a copy, field by field.
LEMMA FieldsChange ==
  ASSUME NEW o \in Object
  PROVE  /\ LET p == [o EXCEPT !.ready = "available"] IN
              Agree(p, o) /\ p.ready = "available"
         /\ LET p == [o EXCEPT !.ready = "creating", !.sync = "error"] IN
              Agree(p, o) /\ p.ready = "creating"
         /\ LET p == [o EXCEPT !.sync = "error"] IN
              Agree(p, o) /\ p.ready = o.ready
         /\ LET p == [o EXCEPT !.sync = "ok"] IN
              Agree(p, o) /\ p.ready = o.ready
         /\ LET p == [o EXCEPT !.fin = TRUE] IN
              /\ p.live = o.live /\ p.uuid = o.uuid /\ p.want = o.want
              /\ p.del = o.del /\ p.fin = TRUE /\ p.ann = o.ann
              /\ p.ready = o.ready
         /\ LET p == [o EXCEPT !.ann = "pending"] IN
              /\ p.live = o.live /\ p.uuid = o.uuid /\ p.want = o.want
              /\ p.del = o.del /\ p.fin = o.fin /\ p.ann = "pending"
              /\ p.ready = o.ready
         /\ LET p == [o EXCEPT !.del = TRUE] IN
              /\ p.live = o.live /\ p.uuid = o.uuid /\ p.fin = o.fin
              /\ p.ann = o.ann /\ p.ready = o.ready
BY DEF Object, Agree

\* An edit by a user.
LEMMA WantChange ==
  ASSUME NEW o \in Object, NEW d \in Data
  PROVE  LET p == [o EXCEPT !.want = d] IN
           /\ p.live = o.live /\ p.uuid = o.uuid /\ p.fin = o.fin
           /\ p.ann = o.ann /\ p.ready = o.ready
BY DEF Object

\* The report of an update, or of a delete.
LEMMA ReportChange ==
  ASSUME NEW o \in Object, NEW s \in {"ok", "error"}
  PROVE  /\ LET p == [o EXCEPT !.sync = s] IN
              p \in Object /\ Agree(p, o) /\ p.ready = o.ready
         /\ LET p == [o EXCEPT !.ready = "deleting", !.sync = s] IN
              p \in Object /\ Agree(p, o) /\ p.ready = "deleting"
BY DEF Object, Agree

\* The record of a creation.
LEMMA RecordChange ==
  ASSUME NEW o \in Object
  PROVE  /\ LET p == [o EXCEPT !.ann = "succeeded", !.ready = "creating", !.sync = "ok"] IN
              /\ p \in Object
              /\ p.live = o.live /\ p.uuid = o.uuid /\ p.want = o.want
              /\ p.del = o.del /\ p.fin = o.fin /\ p.ann = "succeeded"
              /\ p.ready = "creating"
         /\ LET p == [o EXCEPT !.ann = "failed", !.ready = "creating", !.sync = "error"] IN
              /\ p \in Object
              /\ p.live = o.live /\ p.uuid = o.uuid /\ p.want = o.want
              /\ p.del = o.del /\ p.fin = o.fin /\ p.ann = "failed"
              /\ p.ready = "creating"
BY DEF Object

\* The uuid that Create leaves in a copy.
LEMMA UuidChange ==
  ASSUME NEW o \in Object, NEW i \in Refs
  PROVE  LET p == [o EXCEPT !.uuid = i] IN
           /\ p \in Object
           /\ p.live = o.live /\ p.uuid = i /\ p.want = o.want
           /\ p.del = o.del /\ p.fin = o.fin /\ p.ann = o.ann
           /\ p.ready = o.ready
BY DEF Object

-----------------------------------------------------------------------------
(* Every step is about one object, and leaves IoTronic with no uuid that   *)
(* an object already records and had lost.                                 *)

\* Nothing of object m changes.
Still(m) ==
  /\ api'[m] = api[m] /\ cache'[m] = cache[m] /\ synced'[m] = synced[m]
  /\ pc'[m] = pc[m] /\ mg'[m] = mg[m] /\ fresh'[m] = fresh[m]

Acts(n) ==
  \/ Users(n) \/ Work(n) \/ Sync(n) \/ GraceElapses(n)
  \/ ConnectFails(n) \/ ReadFails(n) \/ Refused(n) \/ Crash(n)

\* A step for one object leaves all others alone.
LEMMA ActsAlone ==
  ASSUME TypeOK, NEW n \in Names, Acts(n), NEW m \in Names \ {n}
  PROVE  Still(m)
<1>1. ASSUME NEW o, NEW step, Goto(n, o, step)
      PROVE  pc'[m] = pc[m] /\ mg'[m] = mg[m] /\ fresh'[m] = fresh[m]
  BY <1>1 DEF Goto, TypeOK
<1>2. Stop(n) => pc'[m] = pc[m] /\ mg'[m] = mg[m] /\ fresh'[m] = fresh[m]
  BY DEF Stop, TypeOK
<1>3. ASSUME NEW o, NEW step, Write(n, o, step)
      PROVE  /\ pc'[m] = pc[m] /\ mg'[m] = mg[m] /\ fresh'[m] = fresh[m]
             /\ api'[m] = api[m] /\ synced'[m] = synced[m]
  BY <1>1, <1>2, <1>3 DEF Write, TypeOK
<1>4. ASSUME NEW o, WriteStatus(n, o)
      PROVE  /\ pc'[m] = pc[m] /\ mg'[m] = mg[m] /\ fresh'[m] = fresh[m]
             /\ api'[m] = api[m] /\ synced'[m] = synced[m]
  BY <1>2, <1>4 DEF WriteStatus, TypeOK
<1>5. ASSUME NEW a, Observed(n, a) \/ Deleted(n, a) \/ Updated(n, a) \/ Created(n, a)
      PROVE  pc'[m] = pc[m] /\ mg'[m] = mg[m] /\ fresh'[m] = fresh[m]
  BY <1>1, <1>5, ZenonT(30) DEF Observed, Deleted, Updated, Created
<1>6. ASSUME NEW o, UserWrites(n, o)
      PROVE  Still(m)
  BY <1>6 DEF UserWrites, TypeOK, Still
<1>7. CASE Users(n)
  BY <1>6, <1>7 DEF Users, Submit, Edit, UserDeletes
<1>8. CASE Work(n)
  <2>1. CASE Refuse(n) \/ Begin(n) \/ Reread(n)
    BY <2>1 DEF Refuse, Begin, Reread, TypeOK, Still
  <2>2. CASE Observe(n) \/ DeleteExternal(n) \/ UpdateExternal(n)
    BY <2>2, <1>5 DEF Observe, DeleteExternal, UpdateExternal, Still
  <2>3. CASE AwaitVisible(n) \/ GiveUp(n)
    BY <2>3, <1>2 DEF AwaitVisible, GiveUp, Still
  <2>4. CASE RemoveFinalizer(n)
    BY <2>4, <1>2 DEF RemoveFinalizer, Still, TypeOK
  <2>5. CASE AddFinalizer(n) \/ MarkPending(n)
    BY <2>5, <1>3 DEF AddFinalizer, MarkPending, Still
  <2>6. CASE Record(n)
    BY <2>6, <1>3 DEF Record, Still
  <2>7. CASE CreateExternal(n)
    BY <2>7, <1>5 DEF CreateExternal, Still
  <2>8. CASE Report(n)
    BY <2>8, <1>4 DEF Report, Still
  <2>9. QED
    BY <1>8, <2>1, <2>2, <2>3, <2>4, <2>5, <2>6, <2>7, <2>8 DEF Work
<1>9. CASE Sync(n) \/ GraceElapses(n)
  BY <1>9 DEF Sync, GraceElapses, TypeOK, Still
<1>10. CASE ConnectFails(n) \/ ReadFails(n) \/ Refused(n)
  BY <1>10, <1>1, <1>5 DEF ConnectFails, ReadFails, Refused, Still
<1>11. CASE Crash(n)
  BY <1>11, <1>2 DEF Crash, Still
<1>12. QED
  BY <1>7, <1>8, <1>9, <1>10, <1>11 DEF Acts

\* IoTronic comes to hold new uuids only in CreateExternal, and those no object
\* records.
LEMMA ExtGrows ==
  ASSUME TypeOK, Next, NEW m \in Names, api[m].uuid \notin DOMAIN ext
  PROVE  api[m].uuid \notin DOMAIN ext'
<1>1. ASSUME NEW n \in Names, CreateExternal(n)
      PROVE  api[m].uuid \notin DOMAIN ext'
  BY <1>1 DEF CreateExternal, FreeIds
<1>2. ASSUME NEW n \in Names, DeleteExternal(n) \/ UpdateExternal(n)
      PROVE  DOMAIN ext' \subseteq DOMAIN ext
  BY <1>2 DEF DeleteExternal, UpdateExternal, Without
<1>3. ASSUME NEW i \in Ids, Vanish(i)
      PROVE  DOMAIN ext' \subseteq DOMAIN ext
  BY <1>3 DEF Vanish, Without
<1>4. ASSUME NEW n \in Names, Acts(n)
      PROVE  CreateExternal(n) \/ DeleteExternal(n) \/ UpdateExternal(n) \/ ext' = ext
  BY <1>4
     DEF Acts, Users, Submit, Edit, UserDeletes, UserWrites, Work, Refuse, Begin,
         Observe, AwaitVisible, RemoveFinalizer, AddFinalizer, MarkPending,
         Record, Reread, GiveUp, Report, Sync, GraceElapses,
         ConnectFails, ReadFails, Refused, Crash
<1>5. QED
  BY <1>1, <1>2, <1>3, <1>4 DEF Next, Acts
-----------------------------------------------------------------------------
(* LockInv is inductive.                                                   *)

\* A step of another object keeps an object locked.
LEMMA StillLocked ==
  ASSUME NEW m \in Names, Locked(m), Still(m),
         api[m].uuid \notin DOMAIN ext => api[m].uuid \notin DOMAIN ext'
  PROVE  Locked(m)'
<1>1. CopyIsCurrent(m) => CopyIsCurrent(m)'
  BY DEF CopyIsCurrent, Still
<1>2. QED
  BY <1>1 DEF Locked, Still

\* So does stopping its worker.
LEMMA StopLocked ==
  ASSUME TypeOK, NEW n \in Names, Locked(n), Stop(n),
         api'[n] = api[n], synced'[n] = synced[n], cache'[n] = cache[n]
  PROVE  Locked(n)'
BY DEF Locked, Stop, TypeOK, CreateWindow, Judging

\* And a move of the worker that keeps to what the API server holds.
LEMMA MoveLocked ==
  ASSUME TypeOK, NEW n \in Names, Locked(n), NEW o \in Object, NEW step \in Steps,
         Goto(n, o, step), UNCHANGED <<api, cache, synced>>, DOMAIN ext' \subseteq DOMAIN ext,
         pc[n] \in Judging, step \notin CreateWindow, Agree(o, mg[n]),
         fresh[n] /\ o.ready = "available" => api[n].uuid # NoId,
         fresh[n] /\ step = "absent" => api[n].uuid \notin DOMAIN ext
  PROVE  Locked(n)'
<1>1. /\ mg'[n] = o /\ pc'[n] = step /\ fresh'[n] = fresh[n]
      /\ api'[n] = api[n] /\ cache'[n] = cache[n] /\ synced'[n] = synced[n]
  BY DEF Goto, TypeOK
<1>2. fresh[n] => CopyIsCurrent(n)
  BY DEF Locked, Judging
<1>3. fresh[n] => CopyIsCurrent(n)'
  BY <1>1, <1>2 DEF CopyIsCurrent, Agree, CreateWindow, Judging
<1>4. mg'[n].ann # "pending"
  BY <1>1 DEF Locked, Agree
<1>5. QED
  BY <1>1, <1>3, <1>4 DEF Locked

\* Users invalidate the worker's copy, and let go of nothing that is recorded.
LEMMA UsersLocked ==
  ASSUME TypeOK, NEW n \in Names, Locked(n), Users(n)
  PROVE  Locked(n)'
<1>1. api[n] \in Object /\ Blank \in Object
  BY BlankType DEF TypeOK
<1>2. ASSUME NEW o \in Object, UserWrites(n, o), o.live \/ o = Blank,
             o.uuid # NoId => o.fin, o.ready = "available" => o.uuid # NoId,
             pc[n] \in CreateWindow =>
               /\ o.live /\ o.fin /\ o.ann = "pending"
               /\ o.uuid \notin DOMAIN ext
      PROVE  Locked(n)'
  <2>1. /\ api'[n] = o /\ ~synced'[n] /\ ~fresh'[n]
        /\ pc'[n] = pc[n] /\ mg'[n] = mg[n] /\ ext' = ext
    BY <1>2 DEF UserWrites, TypeOK
  <2>2. QED
    BY <1>2, <2>1 DEF Locked
<1>3. CASE Submit(n)
  <2>1. PICK d \in Data : UserWrites(n, [Blank EXCEPT !.live = TRUE, !.want = d])
    BY <1>3 DEF Submit
  <2>2. pc[n] \notin CreateWindow
    BY <1>3 DEF Submit, Locked
  <2>3. [Blank EXCEPT !.live = TRUE, !.want = d] \in Object
    BY <1>1, FieldsType
  <2>4. /\ [Blank EXCEPT !.live = TRUE, !.want = d].live
        /\ [Blank EXCEPT !.live = TRUE, !.want = d].uuid = NoId
        /\ [Blank EXCEPT !.live = TRUE, !.want = d].ready = "unknown"
    BY DEF Blank
  <2>5. QED
    BY <1>2, <2>1, <2>2, <2>3, <2>4
<1>4. CASE Edit(n)
  <2>1. PICK d \in Data : UserWrites(n, [api[n] EXCEPT !.want = d])
    BY <1>4 DEF Edit
  <2>2. [api[n] EXCEPT !.want = d] \in Object
    BY <1>1, FieldsType
  <2>3. LET p == [api[n] EXCEPT !.want = d] IN
        /\ p.live = api[n].live /\ p.uuid = api[n].uuid /\ p.fin = api[n].fin
        /\ p.ann = api[n].ann /\ p.ready = api[n].ready
    BY <1>1, WantChange
  <2>4. api[n].live
    BY <1>4 DEF Edit
  <2>5. QED
    BY <1>2, <2>1, <2>2, <2>3, <2>4 DEF Locked
<1>5. CASE UserDeletes(n)
  <2>1. CASE api[n].fin
    <3>1. UserWrites(n, [api[n] EXCEPT !.del = TRUE])
      BY <1>5, <2>1 DEF UserDeletes
    <3>2. [api[n] EXCEPT !.del = TRUE] \in Object
      BY <1>1, FieldsType
    <3>3. LET p == [api[n] EXCEPT !.del = TRUE] IN
          /\ p.live = api[n].live /\ p.uuid = api[n].uuid /\ p.fin = api[n].fin
          /\ p.ann = api[n].ann /\ p.ready = api[n].ready
      BY <1>1, FieldsChange
    <3>4. api[n].live
      BY <1>5 DEF UserDeletes
    <3>5. QED
      BY <1>2, <3>1, <3>2, <3>3, <3>4 DEF Locked
  <2>2. CASE ~api[n].fin
    <3>1. UserWrites(n, Blank)
      BY <1>5, <2>2 DEF UserDeletes
    <3>2. pc[n] \notin CreateWindow
      BY <2>2 DEF Locked
    <3>3. Blank.uuid = NoId /\ Blank.ready = "unknown"
      BY DEF Blank
    <3>4. QED
      BY <1>1, <1>2, <3>1, <3>2, <3>3
  <2>3. QED
    BY <2>1, <2>2
<1>6. QED
  BY <1>3, <1>4, <1>5 DEF Users

\* A verdict on a current copy is a verdict on the object.
LEMMA ObservedLocked ==
  ASSUME TypeOK, NEW n \in Names, Locked(n), NEW a, Observed(n, a),
         pc[n] = "observe", UNCHANGED <<api, cache, synced, ext>>,
         fresh[n] /\ ObserveBy(Kind, mg[n], a) = "absent" => mg[n].uuid \notin DOMAIN ext,
         fresh[n] /\ ObserveBy(Kind, mg[n], a) = "current" => mg[n].uuid # NoId
  PROVE  Locked(n)'
<1> DEFINE v == ObserveBy(Kind, mg[n], a)
<1>1. mg[n] \in Object /\ v \in Verdicts
  BY ObserveVerdict DEF TypeOK
<1>2. fresh[n] => /\ mg[n].uuid = api[n].uuid
                  /\ mg[n].ready = "available" => api[n].uuid # NoId
  BY DEF Locked, CopyIsCurrent
<1>3. pc[n] \in Judging
  BY DEF Judging
<1>4. CASE v = "error"
  <2>1. Goto(n, [mg[n] EXCEPT !.sync = "error"], "report")
    BY <1>4 DEF Observed
  <2>2. /\ [mg[n] EXCEPT !.sync = "error"] \in Object
        /\ Agree([mg[n] EXCEPT !.sync = "error"], mg[n])
        /\ [mg[n] EXCEPT !.sync = "error"].ready = mg[n].ready
    BY <1>1, FieldsType, FieldsChange
  <2>3. QED
    BY <1>2, <1>3, <2>1, <2>2, MoveLocked DEF Steps, CreateWindow
<1>5. CASE v = "current"
  <2>1. Goto(n, [mg[n] EXCEPT !.ready = "available"], "current")
    BY <1>5 DEF Observed
  <2>2. /\ [mg[n] EXCEPT !.ready = "available"] \in Object
        /\ Agree([mg[n] EXCEPT !.ready = "available"], mg[n])
    BY <1>1, FieldsType, FieldsChange
  <2>3. QED
    BY <1>2, <1>3, <1>5, <2>1, <2>2, MoveLocked DEF Steps, CreateWindow
<1>6. CASE v \in {"absent", "stale"}
  <2>1. Goto(n, mg[n], v)
    BY <1>6 DEF Observed
  <2>2. Agree(mg[n], mg[n])
    BY DEF Agree
  <2>3. QED
    BY <1>1, <1>2, <1>3, <1>6, <2>1, <2>2, MoveLocked DEF Steps, CreateWindow
<1>7. QED
  BY <1>1, <1>4, <1>5, <1>6 DEF Verdicts

\* Observing, with or without success, keeps an object locked.
LEMMA ObserveLocked ==
  ASSUME TypeOK, NEW n \in Names, Locked(n), Observe(n) \/ ConnectFails(n) \/ ReadFails(n)
  PROVE  Locked(n)'
<1>1. mg[n] \in Object /\ DOMAIN ext \subseteq Ids
  BY DEF TypeOK
<1>2. CASE Observe(n)
  <2>1. /\ pc[n] = "observe" /\ Observed(n, GetAnswer(ext, mg[n].uuid))
        /\ UNCHANGED <<api, cache, synced, ext>>
    BY <1>2 DEF Observe
  <2>2. QED
    BY <1>1, <2>1, AbsentIsGone, CurrentIsThere, ObservedLocked
<1>3. CASE ReadFails(n)
  <2>1. PICK a \in ReadFailures : Observed(n, a)
    BY <1>3 DEF ReadFails
  <2>2. pc[n] = "observe" /\ UNCHANGED <<api, cache, synced, ext>>
    BY <1>3 DEF ReadFails
  <2>3. NoId \notin DOMAIN ext
    BY <1>1, ApiAssumption
  <2>4. QED
    BY <1>1, <2>1, <2>2, <2>3, FailureIsNoVerdict, ObservedLocked
<1>4. CASE ConnectFails(n)
  <2>1. /\ Goto(n, [mg[n] EXCEPT !.sync = "error"], "report")
        /\ pc[n] = "observe" /\ UNCHANGED <<api, cache, synced, ext>>
    BY <1>4 DEF ConnectFails
  <2>2. /\ [mg[n] EXCEPT !.sync = "error"] \in Object
        /\ Agree([mg[n] EXCEPT !.sync = "error"], mg[n])
        /\ [mg[n] EXCEPT !.sync = "error"].ready = mg[n].ready
    BY <1>1, FieldsType, FieldsChange
  <2>3. fresh[n] /\ mg[n].ready = "available" => api[n].uuid # NoId
    BY <2>1 DEF Locked, CopyIsCurrent
  <2>4. QED
    BY <2>1, <2>2, <2>3, MoveLocked DEF Steps, CreateWindow, Judging
<1>5. QED
  BY <1>2, <1>3, <1>4

\* The reports of updates and deletes agree with the copy.
LEMMA ReportsLocked ==
  ASSUME TypeOK, NEW n \in Names, Locked(n), NEW a,
         Deleted(n, a) \/ Updated(n, a), Exists(n),
         UNCHANGED <<api, cache, synced>>, DOMAIN ext' \subseteq DOMAIN ext
  PROVE  Locked(n)'
<1>1. mg[n] \in Object
  BY DEF TypeOK
<1>2. fresh[n] => /\ mg[n].ready = "available" => api[n].uuid # NoId
  BY DEF Locked, CopyIsCurrent, Exists
<1>3. pc[n] \in Judging
  BY DEF Judging, Exists
<1>4. PICK s \in {"ok", "error"} :
        \/ Goto(n, [mg[n] EXCEPT !.sync = s], "report")
        \/ Goto(n, [mg[n] EXCEPT !.ready = "deleting", !.sync = s], "report")
  BY DEF Deleted, Updated
<1>5. LET p == [mg[n] EXCEPT !.sync = s] IN
        p \in Object /\ Agree(p, mg[n]) /\ p.ready = mg[n].ready
  BY <1>1, ReportChange
<1>6. LET p == [mg[n] EXCEPT !.ready = "deleting", !.sync = s] IN
        p \in Object /\ Agree(p, mg[n]) /\ p.ready = "deleting"
  BY <1>1, ReportChange
<1>7. CASE Goto(n, [mg[n] EXCEPT !.sync = s], "report")
  BY <1>2, <1>3, <1>5, <1>7, MoveLocked DEF Steps, CreateWindow
<1>8. CASE Goto(n, [mg[n] EXCEPT !.ready = "deleting", !.sync = s], "report")
  BY <1>2, <1>3, <1>6, <1>8, MoveLocked DEF Steps, CreateWindow
<1>9. QED
  BY <1>4, <1>7, <1>8

\* Reading the cache gives a current copy or one that is known not to be.
LEMMA ReadLocked ==
  ASSUME TypeOK, NEW n \in Names, Locked(n), Refuse(n) \/ Begin(n) \/ Reread(n)
  PROVE  Locked(n)'
<1>1. cache[n] \in Object
  BY DEF TypeOK
<1>2. /\ api'[n] = api[n] /\ cache'[n] = cache[n] /\ synced'[n] = synced[n]
      /\ fresh'[n] = synced[n] /\ ext' = ext
  BY DEF Refuse, Begin, Reread, TypeOK
<1>3. Agree(mg'[n], cache[n]) /\ mg'[n].ready \in {cache[n].ready, "creating"}
  <2>1. CASE Refuse(n)
    <3>1. mg'[n] = [cache[n] EXCEPT !.ready = "creating", !.sync = "error"]
      BY <2>1 DEF Refuse, TypeOK
    <3>2. LET p == [cache[n] EXCEPT !.ready = "creating", !.sync = "error"] IN
            Agree(p, cache[n]) /\ p.ready = "creating"
      BY <1>1, FieldsChange
    <3>3. QED
      BY <3>1, <3>2
  <2>2. CASE Begin(n) \/ Reread(n)
    <3>1. mg'[n] = cache[n]
      BY <2>2 DEF Begin, Reread, TypeOK
    <3>2. QED
      BY <3>1 DEF Agree
  <2>3. QED
    BY <2>1, <2>2
<1>4. \/ pc'[n] = "report" /\ cache[n].live
      \/ pc'[n] = "observe" /\ cache[n].live /\ cache[n].ann # "pending"
      \/ pc[n] \in {"created", "failed"} /\ pc'[n] = pc[n]
  BY DEF Refuse, Begin, Reread, TypeOK
<1>5. pc[n] \in {"created", "failed"} => api[n].live
  BY DEF Locked, CreateWindow
<1>6. synced[n] => cache[n] = api[n]
  BY DEF Locked
<1>7. fresh'[n] => CopyIsCurrent(n)'
  BY <1>2, <1>3, <1>4, <1>5, <1>6 DEF CopyIsCurrent, Agree, Locked
<1>8. pc'[n] \in Judging => mg'[n].ann # "pending"
  BY <1>3, <1>4 DEF Agree, Judging
<1>9. QED
  BY <1>2, <1>4, <1>7, <1>8 DEF Locked, CreateWindow

\* A write succeeds only from a current copy, which it leaves current.
LEMMA WriteLocked ==
  ASSUME TypeOK, NEW n \in Names, Locked(n), NEW o \in Object, NEW step \in Steps,
         Write(n, o, step), UNCHANGED <<cache, ext>>, pc[n] # "idle",
         fresh[n] =>
           /\ o.live
           /\ o.uuid # NoId => o.fin
           /\ "available" \in {o.ready, api[n].ready} => o.uuid # NoId
           /\ step = "absent" => o.uuid \notin DOMAIN ext
           /\ step \in Judging => o.ann # "pending"
           /\ step \in CreateWindow =>
                o.fin /\ o.ann = "pending" /\ o.uuid \notin DOMAIN ext
  PROVE  Locked(n)'
<1>1. CASE ~fresh[n]
  <2>1. Stop(n) /\ api'[n] = api[n] /\ synced'[n] = synced[n] /\ cache'[n] = cache[n]
    BY <1>1 DEF Write
  <2>2. QED
    BY <2>1, StopLocked
<1>2. CASE fresh[n]
  <2>1. /\ api'[n] = WithStatus(o, api[n]) /\ ~synced'[n]
        /\ mg'[n] = o /\ pc'[n] = step /\ fresh'[n] /\ ext' = ext
    BY <1>2 DEF Write, Goto, TypeOK
  <2>2. LET p == WithStatus(o, api[n]) IN
          /\ p.ready = api[n].ready /\ p.live = o.live /\ p.uuid = o.uuid
          /\ p.want = o.want /\ p.del = o.del /\ p.fin = o.fin /\ p.ann = o.ann
    BY StatusFields DEF TypeOK
  <2>3. CopyIsCurrent(n)'
    BY <1>2, <2>1, <2>2 DEF CopyIsCurrent
  <2>4. QED
    BY <1>2, <2>1, <2>2, <2>3 DEF Locked
<1>3. QED
  BY <1>1, <1>2

\* The engine's three writes keep it locked, or meet a conflict.
LEMMA WritesLocked ==
  ASSUME TypeOK, NEW n \in Names, Locked(n),
         AddFinalizer(n) \/ MarkPending(n) \/ Record(n)
  PROVE  Locked(n)'
<1>1. mg[n] \in Object /\ pc[n] \in Steps
  BY DEF TypeOK
<1>2. CASE AddFinalizer(n)
  <2>1. LET p == [mg[n] EXCEPT !.fin = TRUE] IN
          /\ p \in Object /\ p.live = mg[n].live /\ p.uuid = mg[n].uuid /\ p.fin
          /\ p.ready = mg[n].ready /\ p.ann = mg[n].ann
    BY <1>1, FieldsType, FieldsChange
  <2>2. pc[n] \in {"absent", "stale", "current"} /\ mg[n].ann # "pending"
    BY <1>2 DEF AddFinalizer, Absent, Exists, Judging, Locked
  <2>3. fresh[n] =>
          /\ mg[n].live /\ mg[n].uuid = api[n].uuid
          /\ "available" \in {mg[n].ready, api[n].ready} => mg[n].uuid # NoId
          /\ pc[n] = "absent" => mg[n].uuid \notin DOMAIN ext
    BY <2>2 DEF Locked, CopyIsCurrent
  <2>4. Write(n, [mg[n] EXCEPT !.fin = TRUE], pc[n]) /\ UNCHANGED <<cache, ext>>
    BY <1>2 DEF AddFinalizer
  <2>5. QED
    BY <1>1, <2>1, <2>2, <2>3, <2>4, WriteLocked DEF CreateWindow
<1>3. CASE MarkPending(n)
  <2>1. LET p == [mg[n] EXCEPT !.ann = "pending"] IN
          /\ p \in Object /\ p.live = mg[n].live /\ p.uuid = mg[n].uuid
          /\ p.fin = mg[n].fin /\ p.ann = "pending" /\ p.ready = mg[n].ready
    BY <1>1, FieldsType, FieldsChange
  <2>2. pc[n] = "absent" /\ mg[n].fin
    BY <1>3 DEF MarkPending, Absent
  <2>3. fresh[n] =>
          /\ mg[n].live /\ mg[n].uuid = api[n].uuid
          /\ "available" \in {mg[n].ready, api[n].ready} => mg[n].uuid # NoId
          /\ mg[n].uuid \notin DOMAIN ext
    BY <2>2 DEF Locked, CopyIsCurrent
  <2>4. Write(n, [mg[n] EXCEPT !.ann = "pending"], "create") /\ UNCHANGED <<cache, ext>>
    BY <1>3 DEF MarkPending
  <2>5. QED
    BY <2>1, <2>2, <2>3, <2>4, WriteLocked DEF Steps, Judging
<1>4. CASE Record(n)
  <2>1. PICK p \in Object :
          /\ Write(n, p, "report")
          /\ p.live = mg[n].live /\ p.uuid = mg[n].uuid /\ p.fin = mg[n].fin
          /\ p.ready = "creating"
    <3>1. CASE pc[n] = "created"
      <4>1. Write(n, [mg[n] EXCEPT !.ann = "succeeded", !.ready = "creating", !.sync = "ok"],
                  "report")
        BY <1>4, <3>1 DEF Record
      <4>2. QED
        BY <1>1, <4>1, RecordChange
    <3>2. CASE pc[n] = "failed"
      <4>1. Write(n, [mg[n] EXCEPT !.ann = "failed", !.ready = "creating", !.sync = "error"],
                  "report")
        BY <1>4, <3>2 DEF Record
      <4>2. QED
        BY <1>1, <4>1, RecordChange
    <3>3. QED
      BY <1>4, <3>1, <3>2 DEF Record
  <2>2. pc[n] \in {"created", "failed"} /\ fresh[n] /\ UNCHANGED <<cache, ext>>
    BY <1>4 DEF Record
  <2>3. /\ mg[n].live /\ mg[n].fin
        /\ api[n].ready = "available" => mg[n].uuid # NoId
    BY <2>2 DEF Locked, CopyIsCurrent, CreateWindow
  <2>4. QED
    BY <2>1, <2>2, <2>3, WriteLocked DEF Steps, CreateWindow, Judging
<1>5. QED
  BY <1>2, <1>3, <1>4

\* What Create leaves in the copy is a uuid, unless there was none and it failed.
LEMMA CreatedLocked ==
  ASSUME TypeOK, NEW n \in Names, Locked(n), NEW a, Created(n, a), pc[n] = "create",
         UNCHANGED <<api, cache, synced>>,
         api[n].uuid \notin DOMAIN ext',
         LET c == CreateBy(Kind, mg[n], a) IN
           /\ c.uuid \in Refs
           /\ IF c.ok THEN c.uuid # NoId ELSE c.uuid = mg[n].uuid
  PROVE  Locked(n)'
<1> DEFINE c == CreateBy(Kind, mg[n], a)
           p == [mg[n] EXCEPT !.uuid = c.uuid]
<1>1. mg[n] \in Object
  BY DEF TypeOK
<1>2. /\ p.live = mg[n].live /\ p.uuid = c.uuid /\ p.want = mg[n].want
      /\ p.del = mg[n].del /\ p.fin = mg[n].fin /\ p.ann = mg[n].ann
      /\ p.ready = mg[n].ready
  BY <1>1, UuidChange
<1>3. /\ mg'[n] = p /\ pc'[n] = (IF c.ok THEN "created" ELSE "failed")
      /\ fresh'[n] = fresh[n] /\ api'[n] = api[n] /\ cache'[n] = cache[n]
      /\ synced'[n] = synced[n]
  BY DEF Created, Goto, TypeOK
<1> HIDE DEF p, c
<1>4. fresh[n] => CopyIsCurrent(n)
  BY DEF Locked
<1>5. fresh'[n] => CopyIsCurrent(n)'
  BY <1>2, <1>3, <1>4 DEF CopyIsCurrent, c
<1>6. QED
  BY <1>3, <1>5 DEF Locked, CreateWindow, Judging

\* A create that IoTronic carries out keeps an object locked, whatever it answers.
LEMMA CreateLocked ==
  ASSUME TypeOK, NEW n \in Names, Locked(n), CreateExternal(n)
  PROVE  Locked(n)'
<1>1. mg[n] \in Object /\ mg[n].want \in Data /\ mg[n].uuid \in Refs
  BY DEF TypeOK, Object
<1>2. pc[n] = "create" /\ UNCHANGED <<api, cache, synced>>
  BY DEF CreateExternal
<1>3. api[n].uuid \notin DOMAIN ext
  BY <1>2 DEF Locked, CreateWindow
<1>4. PICK i \in FreeIds :
        /\ ext' = [j \in DOMAIN ext \cup {i} |->
                     IF j = i THEN [owner |-> n, data |-> mg[n].want] ELSE ext[j]]
        /\ \E a \in CreateAnswers(i, mg[n].want) : Created(n, a)
  BY DEF CreateExternal
<1>5. PICK a \in CreateAnswers(i, mg[n].want) : Created(n, a)
  BY <1>4
<1>6. i \in Ids /\ i # NoId /\ api[n].uuid \notin DOMAIN ext'
  BY <1>3, <1>4, ApiAssumption DEF FreeIds
<1>7. \/ CreateBy(Kind, mg[n], a) = [ok |-> TRUE, uuid |-> i]
      \/ CreateBy(Kind, mg[n], a) = [ok |-> FALSE, uuid |-> mg[n].uuid]
  BY <1>1, <1>6, CreateOutcome DEF CreateExternal
<1>8. QED
  BY <1>1, <1>2, <1>5, <1>6, <1>7, CreatedLocked DEF Refs

\* The status is written with what was found on a current copy.
LEMMA ReportLocked ==
  ASSUME TypeOK, NEW n \in Names, Locked(n), Report(n)
  PROVE  Locked(n)'
<1>1. mg[n] \in Object /\ api[n] \in Object
  BY DEF TypeOK
<1>2. PICK o \in Object :
        WriteStatus(n, o) /\ o.ready = mg[n].ready /\ pc[n] # "idle"
  <2>1. LET p == [mg[n] EXCEPT !.sync = "ok"] IN p \in Object /\ p.ready = mg[n].ready
    BY <1>1, FieldsChange, FieldsType
  <2>2. QED
    BY <1>1, <2>1 DEF Report
<1>3. UNCHANGED <<cache, ext>>
  BY DEF Report
<1>4. CASE fresh[n] /\ WithStatus(api[n], o) # api[n]
  <2>1. /\ api'[n] = WithStatus(api[n], o) /\ ~synced'[n] /\ pc'[n] = "idle"
    BY <1>2, <1>4 DEF WriteStatus, Stop, TypeOK
  <2>2. LET p == WithStatus(api[n], o) IN
          /\ p.ready = o.ready /\ p.live = api[n].live
          /\ p.uuid = api[n].uuid /\ p.fin = api[n].fin
    BY <1>1, StatusFields
  <2>3. CopyIsCurrent(n)
    BY <1>2, <1>4 DEF Locked
  <2>4. api[n].live /\ (mg[n].ready = "available" => api[n].uuid # NoId)
    BY <2>3 DEF CopyIsCurrent
  <2>5. QED
    BY <1>2, <2>1, <2>2, <2>4 DEF Locked, CreateWindow, Judging
<1>5. CASE ~(fresh[n] /\ WithStatus(api[n], o) # api[n])
  <2>1. Stop(n) /\ UNCHANGED <<api, synced>>
    BY <1>2, <1>5 DEF WriteStatus
  <2>2. QED
    BY <1>3, <2>1, StopLocked
<1>6. QED
  BY <1>4, <1>5

\* A step for an object keeps it locked.
LEMMA ActsLocked ==
  ASSUME TypeOK, NEW n \in Names, Locked(n), Acts(n)
  PROVE  Locked(n)'
<1>1. CASE AwaitVisible(n) \/ GiveUp(n) \/ Crash(n)
  BY <1>1, StopLocked DEF AwaitVisible, GiveUp, Crash
<1>2. CASE RemoveFinalizer(n)
  <2>1. CASE fresh[n]
    <3>1. api'[n] = Blank /\ ~synced'[n] /\ pc'[n] = "idle"
      BY <1>2, <2>1 DEF RemoveFinalizer, Stop, TypeOK
    <3>2. QED
      BY <3>1 DEF Locked, Blank, CreateWindow, Judging
  <2>2. CASE ~fresh[n]
    BY <1>2, <2>2, StopLocked DEF RemoveFinalizer
  <2>3. QED
    BY <2>1, <2>2
<1>3. CASE DeleteExternal(n)
  BY <1>3, ReportsLocked DEF DeleteExternal, Without
<1>4. CASE UpdateExternal(n)
  BY <1>4, ReportsLocked DEF UpdateExternal, Exists
<1>5. CASE Refused(n)
  <2>1. mg[n] \in Object /\ mg[n].uuid \in Refs
    BY DEF TypeOK, Object
  <2>2. PICK a \in Refusals :
          \/ pc[n] = "create" /\ Created(n, a)
          \/ Exists(n) /\ (Deleted(n, a) \/ Updated(n, a))
    BY <1>5 DEF Refused, Exists
  <2>3. UNCHANGED <<api, cache, synced, ext>>
    BY <1>5 DEF Refused
  <2>4. CreateBy(Kind, mg[n], a) = [ok |-> FALSE, uuid |-> mg[n].uuid]
    BY <2>1, <2>3, RefusedCreate
  <2>5. pc[n] = "create" => api[n].uuid \notin DOMAIN ext
    BY DEF Locked, CreateWindow
  <2>6. QED
    BY <2>1, <2>2, <2>3, <2>4, <2>5, CreatedLocked, ReportsLocked
<1>6. CASE Sync(n)
  BY <1>6 DEF Sync, TypeOK, Locked, CopyIsCurrent
<1>7. CASE GraceElapses(n)
  BY <1>7 DEF GraceElapses, Locked, CopyIsCurrent
<1>8. QED
  BY <1>1, <1>2, <1>3, <1>4, <1>5, <1>6, <1>7, UsersLocked, ObserveLocked,
     ReadLocked, WritesLocked, CreateLocked, ReportLocked
     DEF Acts, Work

\* LockInv is inductive relative to the types.
LEMMA NextLocked ==
  ASSUME TypeOK, LockInv, [Next]_vars
  PROVE  LockInv'
<1> SUFFICES ASSUME NEW m \in Names PROVE Locked(m)'
  BY DEF LockInv
<1>1. Locked(m)
  BY DEF LockInv
<1>2. ASSUME NEW n \in Names, Acts(n) PROVE Locked(m)'
  <2>1. CASE n = m
    BY <1>1, <1>2, <2>1, ActsLocked
  <2>2. CASE n # m
    <3>1. Still(m)
      BY <1>2, <2>2, ActsAlone
    <3>2. Next
      BY <1>2 DEF Next, Acts
    <3>3. QED
      BY <1>1, <3>1, <3>2, ExtGrows, StillLocked
  <2>3. QED
    BY <2>1, <2>2
<1>3. ASSUME NEW i \in Ids, Vanish(i) PROVE Locked(m)'
  <2>1. Still(m) /\ DOMAIN ext' \subseteq DOMAIN ext
    BY <1>3 DEF Vanish, Without, Still
  <2>2. QED
    BY <1>1, <2>1, StillLocked
<1>4. CASE UNCHANGED vars
  BY <1>1, <1>4, StillLocked DEF vars, Still
<1>5. QED
  BY <1>2, <1>3, <1>4 DEF Next, Acts

\* Whatever fails, LockInv holds of every reachable state.
THEOREM LockHolds == Spec => []LockInv
<1>1. Init => LockInv
  BY DEF Init, LockInv, Locked, Blank, CreateWindow, Judging
<1>2. TypeOK /\ LockInv /\ [Next]_vars => LockInv'
  BY NextLocked
<1>3. QED
  BY <1>1, <1>2, TypeCorrect, PTL DEF Spec

-----------------------------------------------------------------------------
(* The properties that follow.                                             *)

\* An object that reports Ready is protected, whatever fails.
THEOREM ReadyIsProtected == Spec => []AvailableIsProtected
<1>1. LockInv => AvailableIsProtected
  BY DEF LockInv, Locked, AvailableIsProtected
<1>2. QED
  BY <1>1, LockHolds, PTL

\* One step never lets go of a resource that exists: what api[n] records stays
\* or was already gone from IoTronic.
LEMMA UuidStep ==
  ASSUME TypeOK, LockInv, [Next]_vars, NEW n \in Names, api[n].uuid \in DOMAIN ext
  PROVE  api'[n].uuid = api[n].uuid /\ (api[n].live => api'[n].live)
<1>1. Locked(n) /\ api[n] \in Object /\ mg[n] \in Object /\ Blank \in Object
  BY BlankType DEF LockInv, TypeOK
<1>2. api[n].uuid # NoId
  BY ApiAssumption DEF TypeOK
<1>3. ASSUME NEW o \in Object, NEW step \in Steps, Write(n, o, step),
             o.live = mg[n].live, o.uuid = mg[n].uuid,
             pc[n] \notin CreateWindow \cup {"idle"}
      PROVE  api'[n].uuid = api[n].uuid /\ (api[n].live => api'[n].live)
  <2>1. CASE fresh[n]
    <3>1. api'[n] = WithStatus(o, api[n])
      BY <1>3, <2>1 DEF Write, TypeOK
    <3>2. WithStatus(o, api[n]).live = o.live /\ WithStatus(o, api[n]).uuid = o.uuid
      BY <1>1, StatusFields
    <3>3. mg[n].live = api[n].live /\ mg[n].uuid = api[n].uuid
      BY <1>1, <1>3, <2>1 DEF Locked, CopyIsCurrent, CreateWindow
    <3>4. QED
      BY <1>3, <3>1, <3>2, <3>3
  <2>2. CASE ~fresh[n]
    BY <1>3, <2>2 DEF Write
  <2>3. QED
    BY <2>1, <2>2
<1>4. CASE Users(n)
  <2>1. CASE Submit(n)
    BY <1>1, <1>2, <2>1 DEF Submit, Locked, Blank
  <2>2. CASE Edit(n)
    <3>1. PICK d \in Data : UserWrites(n, [api[n] EXCEPT !.want = d])
      BY <2>2 DEF Edit
    <3>2. LET p == [api[n] EXCEPT !.want = d] IN
            p.live = api[n].live /\ p.uuid = api[n].uuid
      BY <1>1, WantChange
    <3>3. QED
      BY <3>1, <3>2 DEF UserWrites, TypeOK
  <2>3. CASE UserDeletes(n)
    <3>1. UserWrites(n, [api[n] EXCEPT !.del = TRUE])
      BY <1>1, <1>2, <2>3 DEF UserDeletes, Locked
    <3>2. LET p == [api[n] EXCEPT !.del = TRUE] IN
            p.live = api[n].live /\ p.uuid = api[n].uuid
      BY <1>1, FieldsChange
    <3>3. QED
      BY <3>1, <3>2 DEF UserWrites, TypeOK
  <2>4. QED
    BY <1>4, <2>1, <2>2, <2>3 DEF Users
<1>5. CASE RemoveFinalizer(n)
  <2>1. ~fresh[n]
    BY <1>1, <1>5 DEF RemoveFinalizer, Absent, Locked
  <2>2. QED
    BY <1>5, <2>1 DEF RemoveFinalizer
<1>6. CASE AddFinalizer(n)
  <2>1. LET p == [mg[n] EXCEPT !.fin = TRUE] IN
          p \in Object /\ p.live = mg[n].live /\ p.uuid = mg[n].uuid
    BY <1>1, FieldsType, FieldsChange
  <2>2. /\ Write(n, [mg[n] EXCEPT !.fin = TRUE], pc[n])
        /\ pc[n] \in Steps /\ pc[n] \notin CreateWindow \cup {"idle"}
    BY <1>6 DEF AddFinalizer, Absent, Exists, Steps, CreateWindow
  <2>3. QED
    BY <1>3, <2>1, <2>2
<1>7. CASE MarkPending(n)
  <2>1. LET p == [mg[n] EXCEPT !.ann = "pending"] IN
          p \in Object /\ p.live = mg[n].live /\ p.uuid = mg[n].uuid
    BY <1>1, FieldsType, FieldsChange
  <2>2. /\ Write(n, [mg[n] EXCEPT !.ann = "pending"], "create")
        /\ "create" \in Steps /\ pc[n] \notin CreateWindow \cup {"idle"}
    BY <1>7 DEF MarkPending, Absent, Steps, CreateWindow
  <2>3. QED
    BY <1>3, <2>1, <2>2
<1>8. ~Record(n)
  BY <1>1 DEF Record, Locked, CreateWindow
<1>9. CASE Report(n)
  <2>1. PICK o \in Object : WriteStatus(n, o)
    BY <1>1, <1>9, FieldsType DEF Report
  <2>2. api'[n] \in {api[n], WithStatus(api[n], o)}
    BY <2>1 DEF WriteStatus, TypeOK
  <2>3. QED
    BY <1>1, <2>1, <2>2, StatusFields
<1>10. CASE Acts(n)
  <2>1. \/ Users(n) \/ RemoveFinalizer(n) \/ AddFinalizer(n) \/ MarkPending(n)
        \/ Record(n) \/ Report(n) \/ UNCHANGED api
    BY <1>10
       DEF Acts, Work, Refuse, Begin, Observe, AwaitVisible, DeleteExternal,
           CreateExternal, Reread, GiveUp, UpdateExternal, Sync,
           GraceElapses, ConnectFails, ReadFails, Refused, Crash
  <2>2. QED
    BY <1>4, <1>5, <1>6, <1>7, <1>8, <1>9, <2>1
<1>11. ASSUME NEW m \in Names \ {n}, Acts(m) PROVE api'[n] = api[n]
  BY <1>11, ActsAlone DEF Still
<1>12. CASE (\E i \in Ids : Vanish(i)) \/ UNCHANGED vars
  BY <1>12 DEF Vanish, vars
<1>13. QED
  BY <1>10, <1>11, <1>12 DEF Next, Acts

\* The finalizer guards every resource that is recorded, whatever fails.
THEOREM FinalizerHolds == Spec => FinalizerGuards
<1>1. TypeOK /\ LockInv /\ [Next]_vars =>
        [\A n \in Names :
           api[n].live /\ ~api'[n].live => api[n].uuid \notin DOMAIN ext]_vars
  BY UuidStep
<1>2. QED
  BY <1>1, TypeCorrect, LockHolds, PTL DEF Spec, FinalizerGuards

\* A recorded uuid outlives its resource, whatever fails.
THEOREM UuidHolds == Spec => UuidKept
<1>1. TypeOK /\ LockInv /\ [Next]_vars =>
        [\A n \in Names :
           api[n].uuid \in DOMAIN ext => api'[n].uuid = api[n].uuid]_vars
  BY UuidStep
<1>2. QED
  BY <1>1, TypeCorrect, LockHolds, PTL DEF Spec, UuidKept
=============================================================================
