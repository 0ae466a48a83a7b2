-------------------------- MODULE Lifecycle_proofs --------------------------
(***************************************************************************)
(* OwnershipInv speaks of the objects on the API server; workers act on    *)
(* copies that may be old.  TraceInv says what an old copy is good for,    *)
(* whatever fails, and from it follows what a worker may delete.           *)
(*                                                                         *)
(* When no answer to a create is lost and no user writes an object while   *)
(* it is created, ManagedResource implements ResourceLifecycle: every step *)
(* is one of the lifecycle's, or none that can be seen from outside.       *)
(***************************************************************************)
EXTENDS Ownership_proofs

-----------------------------------------------------------------------------
(* What a step does to the table of resources, object by object.           *)

\* Three handlers change it.
LEMMA ExtMoves ==
  ASSUME NEW n \in Names, Acts(n)
  PROVE  CreateExternal(n) \/ DeleteExternal(n) \/ UpdateExternal(n) \/ ext' = ext
BY DEF Acts, Users, Submit, Edit, UserDeletes, UserWrites, Work, Refuse, Begin,
       Observe, AwaitVisible, RemoveFinalizer, AddFinalizer, MarkPending,
       Record, Reread, GiveUp, Report, Sync, GraceElapses,
       ConnectFails, ReadFails, Refused, Crash

\* A resource never changes hands.
LEMMA OwnerKept ==
  ASSUME TypeOK, [Next]_vars, NEW i \in DOMAIN ext \cap DOMAIN ext'
  PROVE  ext'[i].owner = ext[i].owner
<1>1. ASSUME NEW n \in Names, CreateExternal(n) PROVE ext'[i] = ext[i]
  BY <1>1 DEF CreateExternal, FreeIds
<1>2. ASSUME NEW n \in Names, UpdateExternal(n) PROVE ext'[i].owner = ext[i].owner
  <2>1. CASE i = mg[n].uuid
    <3> DEFINE d == UpdateBodyBy(Kind, mg[n], ext[i].data)
    <3>1. ext'[i] = [ext[i] EXCEPT !.data = d]
      BY <1>2, <2>1 DEF UpdateExternal, TypeOK
    <3>2. ext[i] \in External
      BY DEF TypeOK
    <3> HIDE DEF d
    <3>3. [ext[i] EXCEPT !.data = d].owner = ext[i].owner
      BY <3>2 DEF External
    <3>4. QED
      BY <3>1, <3>3
  <2>2. CASE i # mg[n].uuid
    BY <1>2, <2>2 DEF UpdateExternal, TypeOK
  <2>3. QED
    BY <2>1, <2>2
<1>3. ASSUME NEW n \in Names, DeleteExternal(n) PROVE ext'[i] = ext[i]
  BY <1>3 DEF DeleteExternal, Without
<1>4. ASSUME NEW j \in Ids, Vanish(j) PROVE ext'[i] = ext[i]
  BY <1>4 DEF Vanish, Without
<1>5. QED
  BY <1>1, <1>2, <1>3, <1>4, ExtMoves DEF Next, Acts, vars

\* A uuid that is new to IoTronic is new to everybody.
LEMMA NewIsFree ==
  ASSUME TypeOK, [Next]_vars, NEW i \in DOMAIN ext' \ DOMAIN ext
  PROVE  i \in FreeIds
<1>1. ASSUME NEW n \in Names, CreateExternal(n) PROVE i \in FreeIds
  BY <1>1 DEF CreateExternal
<1>2. ASSUME NEW n \in Names, DeleteExternal(n) \/ UpdateExternal(n)
      PROVE  DOMAIN ext' \subseteq DOMAIN ext
  BY <1>2 DEF DeleteExternal, UpdateExternal, Without
<1>3. ASSUME NEW j \in Ids, Vanish(j)
      PROVE  DOMAIN ext' \subseteq DOMAIN ext
  BY <1>3 DEF Vanish, Without
<1>4. QED
  BY <1>1, <1>2, <1>3, ExtMoves DEF Next, Acts, vars

-----------------------------------------------------------------------------
(* What a step does to the claim that an object is.                        *)

SameClaim(n) ==
  /\ api'[n].live = api[n].live
  /\ api'[n].want = api[n].want
  /\ api'[n].del = api[n].del

\* A write by the engine carries the claim along, or meets a conflict.
LEMMA WriteClaim ==
  ASSUME TypeOK, NEW n \in Names, Locked(n), NEW o \in Object, NEW step,
         Write(n, o, step), pc[n] # "idle",
         o.live = mg[n].live, o.want = mg[n].want, o.del = mg[n].del
  PROVE  SameClaim(n)
<1>1. CASE ~fresh[n]
  BY <1>1 DEF Write, SameClaim
<1>2. CASE fresh[n]
  <2>1. api'[n] = WithStatus(o, api[n])
    BY <1>2 DEF Write, TypeOK
  <2>2. LET p == WithStatus(o, api[n]) IN
          p.live = o.live /\ p.want = o.want /\ p.del = o.del
    BY StatusFields DEF TypeOK
  <2>3. CopyIsCurrent(n)
    BY <1>2 DEF Locked
  <2>4. QED
    BY <2>1, <2>2, <2>3 DEF CopyIsCurrent, SameClaim
<1>3. QED
  BY <1>1, <1>2

\* Only users make, change and withdraw claims; only the removal of the finalizer
\* ends them.
LEMMA ClaimStep ==
  ASSUME TypeOK, NEW n \in Names, Locked(n), Acts(n)
  PROVE  Users(n) \/ (RemoveFinalizer(n) /\ fresh[n]) \/ SameClaim(n)
<1>1. mg[n] \in Object /\ api[n] \in Object
  BY DEF TypeOK
<1>2. CASE AddFinalizer(n)
  <2>1. LET p == [mg[n] EXCEPT !.fin = TRUE] IN
          /\ p \in Object /\ p.live = mg[n].live /\ p.want = mg[n].want
          /\ p.del = mg[n].del
    BY <1>1, FieldsType, FieldsChange
  <2>2. Write(n, [mg[n] EXCEPT !.fin = TRUE], pc[n]) /\ pc[n] # "idle"
    BY <1>2 DEF AddFinalizer, Absent, Exists
  <2>3. QED
    BY <2>1, <2>2, WriteClaim
<1>3. CASE MarkPending(n)
  <2>1. LET p == [mg[n] EXCEPT !.ann = "pending"] IN
          /\ p \in Object /\ p.live = mg[n].live /\ p.want = mg[n].want
          /\ p.del = mg[n].del
    BY <1>1, FieldsType, FieldsChange
  <2>2. Write(n, [mg[n] EXCEPT !.ann = "pending"], "create") /\ pc[n] # "idle"
    BY <1>3 DEF MarkPending, Absent
  <2>3. QED
    BY <2>1, <2>2, WriteClaim
<1>4. CASE Record(n)
  <2>1. PICK p \in Object : /\ Write(n, p, "report")
                            /\ p.live = mg[n].live /\ p.want = mg[n].want
                            /\ p.del = mg[n].del
    <3>1. CASE pc[n] = "created"
      <4>1. Write(n, [mg[n] EXCEPT !.ann = "succeeded", !.ready = "creating", !.sync = "ok"],
                  "report")
        BY <1>4, <3>1 DEF Record
      <4>2. QED
        BY <1>1, <4>1, RecordChange
    <3>2. CASE pc[n] = "failed"
      <4>1. Write(n, [mg[n] EXCEPT !.ann = "failed", !.ready = "creating", !.sync = "error"],
                  "report")
        BY <1>4, <3>2 DEF Record
      <4>2. QED
        BY <1>1, <4>1, RecordChange
    <3>3. QED
      BY <1>4, <3>1, <3>2 DEF Record
  <2>2. pc[n] # "idle"
    BY <1>4 DEF Record
  <2>3. QED
    BY <2>1, <2>2, WriteClaim
<1>5. CASE Report(n)
  <2>1. PICK o \in Object : WriteStatus(n, o)
    BY <1>1, <1>5, FieldsType DEF Report
  <2>2. api'[n] \in {api[n], WithStatus(api[n], o)}
    BY <2>1 DEF WriteStatus, TypeOK
  <2>3. QED
    BY <1>1, <2>1, <2>2, StatusFields DEF SameClaim
<1>6. CASE RemoveFinalizer(n)
  BY <1>6 DEF RemoveFinalizer, SameClaim
<1>7. CASE UNCHANGED api
  BY <1>7 DEF SameClaim
<1>8. \/ Users(n) \/ RemoveFinalizer(n) \/ AddFinalizer(n) \/ MarkPending(n)
      \/ Record(n) \/ Report(n) \/ UNCHANGED api
  BY DEF Acts, Work, Refuse, Begin, Observe, AwaitVisible, DeleteExternal,
         CreateExternal, Reread, GiveUp, UpdateExternal, Sync,
         GraceElapses, ConnectFails, ReadFails, Refused, Crash
<1>9. QED
  BY <1>2, <1>3, <1>4, <1>5, <1>6, <1>7, <1>8

\* While a resource that an object records is alive, a deletion is not undone.
LEMMA DeletionStays ==
  ASSUME TypeOK, LockInv, [Next]_vars, NEW n \in Names,
         api[n].uuid \in DOMAIN ext, api[n].del
  PROVE  api'[n].del
<1>1. Locked(n) /\ api[n] \in Object
  BY DEF LockInv, TypeOK
<1>2. api[n].live /\ api'[n].live
  BY <1>1, UuidStep, ApiAssumption DEF Locked, Blank, TypeOK
<1>3. CASE Acts(n)
  <2>1. CASE Users(n)
    <3>1. PICK d \in Data : UserWrites(n, [api[n] EXCEPT !.want = d])
      BY <1>2, <2>1 DEF Users, Submit, Edit, UserDeletes
    <3>2. [api[n] EXCEPT !.want = d].del = api[n].del
      BY <1>1 DEF Object
    <3>3. QED
      BY <3>1, <3>2 DEF UserWrites, TypeOK
  <2>2. CASE RemoveFinalizer(n) /\ fresh[n]
    BY <1>2, <2>2 DEF RemoveFinalizer, Blank, TypeOK
  <2>3. QED
    BY <1>1, <1>3, <2>1, <2>2, ClaimStep DEF SameClaim
<1>4. ASSUME NEW m \in Names \ {n}, Acts(m) PROVE api'[n] = api[n]
  BY <1>4, ActsAlone DEF Still
<1>5. CASE (\E i \in Ids : Vanish(i)) \/ UNCHANGED vars
  BY <1>5 DEF Vanish, vars
<1>6. QED
  BY <1>3, <1>4, <1>5 DEF Next, Acts

-----------------------------------------------------------------------------
(* What a step does to the worker's copy.                                  *)

Twin(o, p) == o.uuid = p.uuid /\ o.del = p.del

\* Where the worker's copy comes from.
Moves(n) ==
  \/ mg'[n] = Blank /\ pc'[n] = "idle"
  \/ mg'[n] = mg[n] /\ pc'[n] = pc[n]
  \/ Twin(mg'[n], cache[n]) /\ pc'[n] \in {"report", "observe"}
  \/ Twin(mg'[n], api'[n]) /\ pc'[n] = "report"
  \/ /\ Twin(mg'[n], mg[n]) /\ pc[n] # "created" /\ pc'[n] # "created"
     /\ pc'[n] = "create" => ~mg[n].del
  \/ mg'[n] = cache[n] /\ pc'[n] = pc[n] /\ pc[n] \in {"created", "failed"}
  \/ pc'[n] = "created" /\ mg'[n].uuid \in Owned(n)'

\* The engine's writes keep the copy, or drop it.
LEMMA WriteMoves ==
  ASSUME TypeOK, NEW n \in Names, NEW o \in Object, NEW step, Write(n, o, step)
  PROVE  \/ mg'[n] = Blank /\ pc'[n] = "idle"
         \/ mg'[n] = o /\ pc'[n] = step /\ Twin(o, api'[n])
<1>1. CASE ~fresh[n]
  BY <1>1 DEF Write, Stop, TypeOK
<1>2. CASE fresh[n]
  <2>1. mg'[n] = o /\ pc'[n] = step /\ api'[n] = WithStatus(o, api[n])
    BY <1>2 DEF Write, Goto, TypeOK
  <2>2. QED
    BY <2>1, StatusFields DEF TypeOK, Twin
<1>3. QED
  BY <1>1, <1>2

\* So do the handlers' reports.
LEMMA HandlersMove ==
  ASSUME TypeOK, NEW n \in Names, NEW a,
         Observed(n, a) \/ Deleted(n, a) \/ Updated(n, a),
         pc[n] # "created"
  PROVE  Moves(n)
<1>1. PICK o \in Object, step \in {"absent", "stale", "current", "report"} :
        Goto(n, o, step) /\ Agree(o, mg[n])
  BY HandlersGo
<1>2. mg'[n] = o /\ pc'[n] = step
  BY <1>1 DEF Goto, TypeOK
<1>3. QED
  BY <1>1, <1>2 DEF Moves, Agree, Twin

\* A create leaves the uuid of a resource of n in its copy, or its answer is lost
\* and the copy is what it was.
LEMMA CreateMoves ==
  ASSUME TypeOK, NEW n \in Names, CreateExternal(n)
  PROVE  Moves(n)
<1>1. mg[n] \in Object /\ mg[n].want \in Data /\ pc[n] = "create"
  BY DEF TypeOK, Object, CreateExternal
<1>2. PICK i \in FreeIds :
        /\ ext' = [j \in DOMAIN ext \cup {i} |->
                     IF j = i THEN [owner |-> n, data |-> mg[n].want] ELSE ext[j]]
        /\ \E a \in CreateAnswers(i, mg[n].want) : Created(n, a)
  BY DEF CreateExternal
<1>3. PICK a \in CreateAnswers(i, mg[n].want) : Created(n, a)
  BY <1>2
<1>4. CASE CreateBy(Kind, mg[n], a) = [ok |-> TRUE, uuid |-> i]
  <2>1. pc'[n] = "created" /\ mg'[n] = [mg[n] EXCEPT !.uuid = i]
    BY <1>3, <1>4 DEF Created, Goto, TypeOK
  <2>2. mg'[n].uuid = i
    BY <1>1, <2>1, UuidChange DEF FreeIds, Refs
  <2>3. QED
    BY <1>2, <2>1, <2>2 DEF Owned, Moves
<1>5. CASE CreateBy(Kind, mg[n], a) = [ok |-> FALSE, uuid |-> mg[n].uuid]
  <2>1. pc'[n] = "failed" /\ mg'[n] = [mg[n] EXCEPT !.uuid = mg[n].uuid]
    BY <1>3, <1>5 DEF Created, Goto, TypeOK
  <2>2. Twin([mg[n] EXCEPT !.uuid = mg[n].uuid], mg[n])
    BY <1>1 DEF Object, Twin
  <2>3. QED
    BY <1>1, <2>1, <2>2 DEF Moves
<1>6. QED
  BY <1>1, <1>4, <1>5, CreateOutcome DEF FreeIds

\* A worker's copy is the one it had, or comes from the cache, or is what it has
\* just written; the exception is the uuid of a resource it has just created.
LEMMA CopyStep ==
  ASSUME TypeOK, NEW n \in Names, Acts(n)
  PROVE  Moves(n)
<1>1. mg[n] \in Object
  BY DEF TypeOK
<1>2. CASE AwaitVisible(n) \/ RemoveFinalizer(n) \/ GiveUp(n) \/ Crash(n) \/ Report(n)
  BY <1>2
     DEF AwaitVisible, RemoveFinalizer, GiveUp, Crash, Report, WriteStatus, Stop,
         TypeOK, Moves
<1>3. CASE Refuse(n) \/ Begin(n)
  <2>1. CASE Refuse(n)
    <3>1. /\ mg'[n] = [cache[n] EXCEPT !.ready = "creating", !.sync = "error"]
          /\ pc'[n] = "report"
      BY <2>1 DEF Refuse, TypeOK
    <3>2. Twin([cache[n] EXCEPT !.ready = "creating", !.sync = "error"], cache[n])
      BY FieldsChange DEF TypeOK, Agree, Twin
    <3>3. QED
      BY <3>1, <3>2 DEF Moves
  <2>2. CASE Begin(n)
    BY <2>2 DEF Begin, TypeOK, Twin, Moves
  <2>3. QED
    BY <1>3, <2>1, <2>2
<1>4. CASE Reread(n)
  BY <1>4 DEF Reread, TypeOK, Moves
<1>5. CASE Observe(n) \/ ReadFails(n) \/ DeleteExternal(n) \/ UpdateExternal(n)
  <2>1. PICK a : Observed(n, a) \/ Deleted(n, a) \/ Updated(n, a)
    BY <1>5 DEF Observe, ReadFails, DeleteExternal, UpdateExternal
  <2>2. pc[n] # "created"
    BY <1>5 DEF Observe, ReadFails, DeleteExternal, UpdateExternal, Exists
  <2>3. QED
    BY <2>1, <2>2, HandlersMove
<1>6. CASE Refused(n)
  <2>1. PICK a \in Refusals :
          \/ pc[n] = "create" /\ Created(n, a)
          \/ Exists(n) /\ (Deleted(n, a) \/ Updated(n, a))
    BY <1>6 DEF Refused, Exists
  <2>2. CASE pc[n] = "create" /\ Created(n, a)
    <3>1. CreateBy(Kind, mg[n], a) = [ok |-> FALSE, uuid |-> mg[n].uuid]
      BY <1>1, RefusedCreate
    <3>2. mg'[n] = [mg[n] EXCEPT !.uuid = mg[n].uuid] /\ pc'[n] = "failed"
      BY <2>2, <3>1 DEF Created, Goto, TypeOK
    <3>3. Twin([mg[n] EXCEPT !.uuid = mg[n].uuid], mg[n])
      BY <1>1, UuidChange DEF Object, Twin
    <3>4. QED
      BY <2>2, <3>2, <3>3 DEF Moves
  <2>3. CASE Exists(n) /\ (Deleted(n, a) \/ Updated(n, a))
    BY <2>3, HandlersMove DEF Exists
  <2>4. QED
    BY <2>1, <2>2, <2>3
<1>7. CASE ConnectFails(n)
  <2>1. /\ mg'[n] = [mg[n] EXCEPT !.sync = "error"] /\ pc'[n] = "report"
        /\ pc[n] = "observe"
    BY <1>7 DEF ConnectFails, Goto, TypeOK
  <2>2. Twin([mg[n] EXCEPT !.sync = "error"], mg[n])
    BY <1>1, FieldsChange DEF Agree, Twin
  <2>3. QED
    BY <2>1, <2>2 DEF Moves
<1>8. CASE AddFinalizer(n)
  <2>1. LET p == [mg[n] EXCEPT !.fin = TRUE] IN p \in Object /\ Twin(p, mg[n])
    BY <1>1, FieldsType, FieldsChange DEF Twin
  <2>2. /\ Write(n, [mg[n] EXCEPT !.fin = TRUE], pc[n])
        /\ pc[n] \in {"absent", "stale", "current"}
    BY <1>8 DEF AddFinalizer, Absent, Exists
  <2>3. QED
    BY <2>1, <2>2, WriteMoves DEF Moves
<1>9. CASE MarkPending(n)
  <2>1. LET p == [mg[n] EXCEPT !.ann = "pending"] IN p \in Object /\ Twin(p, mg[n])
    BY <1>1, FieldsType, FieldsChange DEF Twin
  <2>2. /\ Write(n, [mg[n] EXCEPT !.ann = "pending"], "create")
        /\ pc[n] = "absent" /\ ~mg[n].del
    BY <1>9 DEF MarkPending, Absent
  <2>3. QED
    BY <2>1, <2>2, WriteMoves DEF Moves
<1>10. CASE Record(n)
  <2>1. PICK p \in Object : Write(n, p, "report")
    BY <1>1, <1>10, FieldsType DEF Record
  <2>2. QED
    BY <2>1, WriteMoves DEF Moves
<1>11. CASE Users(n) \/ Sync(n) \/ GraceElapses(n)
  BY <1>11
     DEF Users, Submit, Edit, UserDeletes, UserWrites, Sync, GraceElapses, Moves
<1>12. QED
  BY <1>2, <1>3, <1>4, <1>5, <1>6, <1>7, <1>8, <1>9, <1>10, <1>11, CreateMoves
     DEF Acts, Work

-----------------------------------------------------------------------------
(* TraceInv is inductive relative to the others.                           *)

\* A copy that is good stays good, if somebody has had it all along.
LEMMA CopyStaysTraced ==
  ASSUME TypeOK, LockInv, [Next]_vars, NEW n \in Names, NEW c,
         TracedCopy(n, c), c.uuid \notin FreeIds
  PROVE  c.uuid \in DOMAIN ext' =>
           /\ c.uuid = api'[n].uuid
           /\ c.del => api'[n].del
<1> SUFFICES ASSUME c.uuid \in DOMAIN ext'
             PROVE  c.uuid = api'[n].uuid /\ (c.del => api'[n].del)
  OBVIOUS
<1>1. c.uuid \in DOMAIN ext
  BY NewIsFree
<1>2. c.uuid = api[n].uuid /\ (c.del => api[n].del)
  BY <1>1 DEF TracedCopy
<1>3. QED
  BY <1>1, <1>2, UuidStep, DeletionStays

\* What n owns and somebody knows of, it keeps or loses.
LEMMA StaysOwned ==
  ASSUME TypeOK, [Next]_vars, NEW n \in Names, NEW i,
         i \notin FreeIds, i \in DOMAIN ext => i \in Owned(n)
  PROVE  i \in DOMAIN ext' => i \in Owned(n)'
BY NewIsFree, OwnerKept DEF Owned

\* The uuid that an object records comes from itself, or from the creation that
\* is being recorded.
UuidOrigin(n) ==
  \/ api'[n].uuid \in {api[n].uuid, NoId}
  \/ pc[n] = "created" /\ api'[n].uuid = mg[n].uuid

LEMMA UuidStepOrigin ==
  ASSUME TypeOK, NEW n \in Names, Locked(n), Acts(n)
  PROVE  UuidOrigin(n)
<1>1. mg[n] \in Object /\ api[n] \in Object
  BY DEF TypeOK
<1>2. ASSUME NEW o \in Object, NEW step, Write(n, o, step), o.uuid = mg[n].uuid,
             pc[n] # "idle"
      PROVE  UuidOrigin(n)
  <2>1. CASE ~fresh[n]
    BY <1>2, <2>1 DEF Write, UuidOrigin
  <2>2. CASE fresh[n]
    <3>1. api'[n] = WithStatus(o, api[n])
      BY <1>2, <2>2 DEF Write, TypeOK
    <3>2. api'[n].uuid = mg[n].uuid
      BY <1>1, <1>2, <3>1, StatusFields
    <3>3. pc[n] # "created" => mg[n].uuid = api[n].uuid
      BY <1>2, <2>2 DEF Locked, CopyIsCurrent
    <3>4. QED
      BY <3>2, <3>3 DEF UuidOrigin
  <2>3. QED
    BY <2>1, <2>2
<1>3. CASE AddFinalizer(n)
  <2>1. LET p == [mg[n] EXCEPT !.fin = TRUE] IN p \in Object /\ p.uuid = mg[n].uuid
    BY <1>1, FieldsType, FieldsChange
  <2>2. Write(n, [mg[n] EXCEPT !.fin = TRUE], pc[n]) /\ pc[n] # "idle"
    BY <1>3 DEF AddFinalizer, Absent, Exists
  <2>3. QED
    BY <1>2, <2>1, <2>2
<1>4. CASE MarkPending(n)
  <2>1. LET p == [mg[n] EXCEPT !.ann = "pending"] IN
          p \in Object /\ p.uuid = mg[n].uuid
    BY <1>1, FieldsType, FieldsChange
  <2>2. Write(n, [mg[n] EXCEPT !.ann = "pending"], "create") /\ pc[n] # "idle"
    BY <1>4 DEF MarkPending, Absent
  <2>3. QED
    BY <1>2, <2>1, <2>2
<1>5. CASE Record(n)
  <2>1. PICK p \in Object : Write(n, p, "report") /\ p.uuid = mg[n].uuid
    <3>1. CASE pc[n] = "created"
      <4>1. Write(n, [mg[n] EXCEPT !.ann = "succeeded", !.ready = "creating", !.sync = "ok"],
                  "report")
        BY <1>5, <3>1 DEF Record
      <4>2. QED
        BY <1>1, <4>1, RecordChange
    <3>2. CASE pc[n] = "failed"
      <4>1. Write(n, [mg[n] EXCEPT !.ann = "failed", !.ready = "creating", !.sync = "error"],
                  "report")
        BY <1>5, <3>2 DEF Record
      <4>2. QED
        BY <1>1, <4>1, RecordChange
    <3>3. QED
      BY <1>5, <3>1, <3>2 DEF Record
  <2>2. pc[n] # "idle"
    BY <1>5 DEF Record
  <2>3. QED
    BY <1>2, <2>1, <2>2
<1>6. CASE Report(n)
  <2>1. PICK o \in Object : WriteStatus(n, o)
    BY <1>1, <1>6, FieldsType DEF Report
  <2>2. api'[n] \in {api[n], WithStatus(api[n], o)}
    BY <2>1 DEF WriteStatus, TypeOK
  <2>3. QED
    BY <1>1, <2>1, <2>2, StatusFields DEF UuidOrigin
<1>7. CASE RemoveFinalizer(n)
  <2>1. api'[n] \in {api[n], Blank}
    BY <1>7 DEF RemoveFinalizer, TypeOK
  <2>2. QED
    BY <2>1 DEF UuidOrigin, Blank
<1>8. CASE Users(n)
  <2>1. PICK o : UserWrites(n, o) /\ o.uuid \in {api[n].uuid, NoId}
    <3>1. ASSUME NEW d \in Data
          PROVE  /\ [Blank EXCEPT !.live = TRUE, !.want = d].uuid = NoId
                 /\ [api[n] EXCEPT !.want = d].uuid = api[n].uuid
                 /\ [api[n] EXCEPT !.del = TRUE].uuid = api[n].uuid
                 /\ Blank.uuid = NoId
      BY <1>1, WantChange, FieldsChange DEF Blank
    <3>2. CASE Submit(n) \/ Edit(n)
      BY <3>1, <3>2 DEF Submit, Edit
    <3>3. CASE UserDeletes(n)
      BY <3>1, <3>3, NoDataType DEF UserDeletes
    <3>4. QED
      BY <1>8, <3>2, <3>3 DEF Users
  <2>2. QED
    BY <2>1 DEF UserWrites, TypeOK, UuidOrigin
<1>9. CASE UNCHANGED api
  BY <1>9 DEF UuidOrigin
<1>10. \/ Users(n) \/ RemoveFinalizer(n) \/ AddFinalizer(n) \/ MarkPending(n)
       \/ Record(n) \/ Report(n) \/ UNCHANGED api
  BY DEF Acts, Work, Refuse, Begin, Observe, AwaitVisible, DeleteExternal,
         CreateExternal, Reread, GiveUp, UpdateExternal, Sync,
         GraceElapses, ConnectFails, ReadFails, Refused, Crash
<1>11. QED
  BY <1>3, <1>4, <1>5, <1>6, <1>7, <1>8, <1>9, <1>10

\* Whatever happens to an object or its worker, copies remain good.
LEMMA TracedStep ==
  ASSUME TypeOK, TypeOK', LockInv, [Next]_vars, NEW n \in Names, Traced(n),
         UuidOrigin(n), cache'[n] \in {cache[n], api[n]}, Moves(n)
  PROVE  Traced(n)'
<1>1. /\ api[n].uuid \notin FreeIds /\ cache[n].uuid \notin FreeIds
      /\ mg[n].uuid \notin FreeIds
  BY DEF FreeIds
<1>2. NoId \notin DOMAIN ext'
  BY ApiAssumption DEF TypeOK
<1>3. api'[n].uuid \in DOMAIN ext' => api'[n].uuid \in Owned(n)'
  <2>1. CASE api'[n].uuid = api[n].uuid
    BY <1>1, <2>1, StaysOwned DEF Traced
  <2>2. CASE api'[n].uuid = NoId
    BY <1>2, <2>2
  <2>3. CASE pc[n] = "created" /\ api'[n].uuid = mg[n].uuid
    BY <1>1, <2>3, StaysOwned DEF Traced
  <2>4. QED
    BY <2>1, <2>2, <2>3 DEF UuidOrigin
<1>4. ASSUME NEW c, NEW d, TracedCopy(n, d), d.uuid \notin FreeIds, Twin(c, d)
      PROVE  c.uuid \in DOMAIN ext' => c.uuid = api'[n].uuid /\ (c.del => api'[n].del)
  BY <1>4, CopyStaysTraced DEF Twin
<1>5. TracedCopy(n, api[n]) /\ TracedCopy(n, cache[n])
  BY DEF TracedCopy, Traced
<1>6. TracedCopy(n, cache[n])'
  BY <1>1, <1>4, <1>5 DEF TracedCopy, Twin
<1>7. CASE mg'[n] = Blank /\ pc'[n] = "idle"
  BY <1>2, <1>3, <1>6, <1>7 DEF Traced, TracedCopy, Blank
<1>8. CASE mg'[n] = mg[n] /\ pc'[n] = pc[n]
  <2>1. pc'[n] # "created" => TracedCopy(n, mg[n])'
    BY <1>1, <1>4, <1>8 DEF TracedCopy, Twin, Traced
  <2>2. pc'[n] = "created" /\ mg'[n].uuid \in DOMAIN ext' => mg'[n].uuid \in Owned(n)'
    BY <1>1, <1>8, StaysOwned DEF Traced
  <2>3. QED
    BY <1>3, <1>6, <1>8, <2>1, <2>2 DEF Traced
<1>9. CASE Twin(mg'[n], cache[n]) /\ pc'[n] \in {"report", "observe"}
  <2>1. TracedCopy(n, mg[n])'
    BY <1>1, <1>4, <1>5, <1>9 DEF TracedCopy
  <2>2. QED
    BY <1>3, <1>6, <1>9, <2>1 DEF Traced
<1>10. CASE Twin(mg'[n], api'[n]) /\ pc'[n] = "report"
  BY <1>3, <1>6, <1>10 DEF Traced, TracedCopy, Twin
<1>11. CASE /\ Twin(mg'[n], mg[n]) /\ pc[n] # "created" /\ pc'[n] # "created"
            /\ pc'[n] = "create" => ~mg[n].del
  <2>1. TracedCopy(n, mg[n])'
    BY <1>1, <1>4, <1>11 DEF TracedCopy, Traced
  <2>2. QED
    BY <1>3, <1>6, <1>11, <2>1 DEF Traced, Twin
<1>12. CASE mg'[n] = cache[n] /\ pc'[n] = pc[n] /\ pc[n] \in {"created", "failed"}
  <2>1. TracedCopy(n, mg[n])'
    BY <1>1, <1>4, <1>5, <1>12 DEF TracedCopy, Twin
  <2>2. QED
    BY <1>3, <1>6, <1>12, <2>1 DEF Traced, TracedCopy
<1>13. CASE pc'[n] = "created" /\ mg'[n].uuid \in Owned(n)'
  BY <1>3, <1>6, <1>13 DEF Traced
<1>14. QED
  BY <1>7, <1>8, <1>9, <1>10, <1>11, <1>12, <1>13 DEF Moves

\* TraceInv is inductive relative to the types and LockInv.
LEMMA NextTraced ==
  ASSUME TypeOK, LockInv, TraceInv, [Next]_vars
  PROVE  TraceInv'
<1> SUFFICES ASSUME NEW m \in Names PROVE Traced(m)'
  BY DEF TraceInv
<1>1. Traced(m) /\ Locked(m)
  BY DEF TraceInv, LockInv
<1>2. TypeOK'
  BY NextType
<1>3. CASE Acts(m)
  <2>1. cache'[m] \in {cache[m], api[m]}
    BY <1>3
       DEF Acts, Users, Submit, Edit, UserDeletes, UserWrites, Work, Refuse, Begin,
           Observe, AwaitVisible, RemoveFinalizer, AddFinalizer, MarkPending,
           CreateExternal, DeleteExternal, UpdateExternal, Record, Reread, GiveUp,
           Report, Sync, GraceElapses, ConnectFails, ReadFails, Refused, Crash, TypeOK
  <2>2. QED
    BY <1>1, <1>2, <1>3, <2>1, CopyStep, UuidStepOrigin, TracedStep
<1>4. CASE Still(m)
  BY <1>1, <1>2, <1>4, TracedStep DEF Still, UuidOrigin, Moves
<1>5. ASSUME NEW n \in Names \ {m}, Acts(n) PROVE Still(m)
  BY <1>5, ActsAlone
<1>6. (\E i \in Ids : Vanish(i)) \/ UNCHANGED vars => Still(m)
  BY DEF Vanish, vars, Still
<1>7. QED
  BY <1>3, <1>4, <1>5, <1>6 DEF Next, Acts

\* Whatever fails, TraceInv holds of every reachable state.
THEOREM TraceHolds == Spec => []TraceInv
<1>1. Init => TraceInv
  BY DEF Init, TraceInv, Traced, TracedCopy, Owned, Blank
<1>2. TypeOK /\ LockInv /\ TraceInv /\ [Next]_vars => TraceInv'
  BY NextTraced
<1>3. QED
  BY <1>1, <1>2, TypeCorrect, LockHolds, PTL DEF Spec

-----------------------------------------------------------------------------
(* What a worker may delete.                                               *)

\* The resource that a copy names is its object's, and what the copy says of a
\* deletion is so.
LEMMA CopyIsGood ==
  ASSUME TypeOK, NEW n \in Names, Locked(n), Traced(n), pc[n] \in {"stale", "current"},
         mg[n].uuid \in DOMAIN ext
  PROVE  /\ mg[n].uuid = api[n].uuid /\ ext[mg[n].uuid].owner = n /\ api[n].live
         /\ mg[n].del => api[n].del
<1>1. mg[n].uuid = api[n].uuid /\ (mg[n].del => api[n].del)
  BY DEF Traced, TracedCopy
<1>2. api[n].uuid \in Owned(n)
  BY <1>1 DEF Traced
<1>3. api[n] # Blank
  BY <1>1, ApiAssumption DEF Blank, TypeOK
<1>4. QED
  BY <1>1, <1>2, <1>3 DEF Owned, Locked

\* A resource that goes while a worker moves is recorded by an object that is
\* being deleted.
LEMMA DeleteStep ==
  ASSUME TypeOK, LockInv, TraceInv, [Next]_vars, NEW n \in Names, NEW i \in Owned(n),
         pc' # pc, i \notin DOMAIN ext'
  PROVE  api[n].del /\ api[n].uuid = i
<1>1. i \in DOMAIN ext /\ ext[i].owner = n
  BY DEF Owned
<1>2. ASSUME NEW m \in Names, Acts(m) PROVE DeleteExternal(m)
  <2>1. CreateExternal(m) => i \in DOMAIN ext'
    BY <1>1 DEF CreateExternal
  <2>2. UpdateExternal(m) => i \in DOMAIN ext'
    BY <1>1 DEF UpdateExternal
  <2>3. QED
    BY <1>1, <1>2, <2>1, <2>2, ExtMoves
<1>3. PICK m \in Names : DeleteExternal(m)
  BY <1>2 DEF Next, Acts, Vanish, vars
<1>4. mg[m].uuid = i /\ mg[m].del /\ pc[m] \in {"stale", "current"}
  BY <1>1, <1>3 DEF DeleteExternal, Without, Exists
<1>5. Locked(m) /\ Traced(m)
  BY DEF LockInv, TraceInv
<1>6. QED
  BY <1>1, <1>4, <1>5, CopyIsGood

\* A worker deletes only what a deleted object records, whatever fails.
THEOREM DeletesHold == Spec => DeletesOnlyDeleted
<1>1. TypeOK /\ LockInv /\ TraceInv /\ [Next]_vars =>
        [\A n \in Names : \A i \in Owned(n) :
           pc' # pc /\ i \notin DOMAIN ext' => api[n].del /\ api[n].uuid = i]_vars
  BY DeleteStep
<1>2. QED
  BY <1>1, TypeCorrect, LockHolds, TraceHolds, PTL DEF Spec, DeletesOnlyDeleted

-----------------------------------------------------------------------------
(* Every step is one of the lifecycle's, or a stutter.                     *)

Claims == [m \in Names |-> ClaimOf(api[m])]

\* The claims after a step for n.
LEMMA ClaimsMove ==
  ASSUME NEW n \in Names, \A m \in Names \ {n} : api'[m] = api[m]
  PROVE  Claims' = [Claims EXCEPT ![n] = ClaimOf(api'[n])]
BY DEF Claims

\* The state of a claim.
LEMMA ClaimFields ==
  ASSUME NEW o
  PROVE  /\ ClaimOf(o).data = o.want
         /\ ~o.live => ClaimOf(o).state = "none"
         /\ o.live /\ ~o.del => ClaimOf(o).state = "wanted"
         /\ o.live /\ o.del => ClaimOf(o).state = "leaving"
BY DEF ClaimOf

\* An object that is gone is no claim.
LEMMA BlankClaim == ClaimOf(Blank) = Lifecycle!Nobody
BY DEF ClaimOf, Blank, Lifecycle!Nobody

\* Users make claims and withdraw them; without a finalizer, for good at once.
LEMMA UsersRefine ==
  ASSUME Calm, TypeOK, NEW n \in Names, Locked(n), Owns(n), Users(n)
  PROVE  Lifecycle!Ask(n) \/ Lifecycle!Withdraw(n) \/ Lifecycle!Leave(n)
<1>1. api[n] \in Object
  BY DEF TypeOK
<1>2. ASSUME NEW o, UserWrites(n, o)
      PROVE  Claims' = [Claims EXCEPT ![n] = ClaimOf(o)] /\ ext' = ext
  <2>1. api'[n] = o /\ \A m \in Names \ {n} : api'[m] = api[m]
    BY <1>2 DEF UserWrites, TypeOK
  <2>2. QED
    BY <1>2, <2>1, ClaimsMove DEF UserWrites
<1>3. CASE Submit(n)
  <2>1. PICK d \in Data : UserWrites(n, [Blank EXCEPT !.live = TRUE, !.want = d])
    BY <1>3 DEF Submit
  <2>2. ClaimOf([Blank EXCEPT !.live = TRUE, !.want = d]) = Lifecycle!Wanted(d)
    BY DEF ClaimOf, Blank, Lifecycle!Wanted
  <2>3. Claims[n].state = "none"
    BY <1>3, ClaimFields DEF Submit, Claims
  <2>4. QED
    BY <1>2, <2>1, <2>2, <2>3 DEF Lifecycle!Ask, Claims
<1>4. CASE Edit(n)
  <2>1. PICK d \in Data : UserWrites(n, [api[n] EXCEPT !.want = d])
    BY <1>4 DEF Edit
  <2>2. api[n].live /\ ~api[n].del
    BY <1>4 DEF Edit, Calm
  <2>3. ClaimOf([api[n] EXCEPT !.want = d]) = Lifecycle!Wanted(d)
    BY <1>1, <2>2 DEF ClaimOf, Object, Lifecycle!Wanted
  <2>4. Claims[n].state = "wanted"
    BY <2>2, ClaimFields DEF Claims
  <2>5. QED
    BY <1>2, <2>1, <2>3, <2>4 DEF Lifecycle!Ask, Claims
<1>5. CASE UserDeletes(n)
  <2>1. Claims[n] = Lifecycle!Wanted(api[n].want)
    BY <1>5 DEF UserDeletes, Claims, ClaimOf, Lifecycle!Wanted
  <2>2. CASE api[n].fin
    <3>1. UserWrites(n, [api[n] EXCEPT !.del = TRUE])
      BY <1>5, <2>2 DEF UserDeletes
    <3>2. ClaimOf([api[n] EXCEPT !.del = TRUE]) = [Claims[n] EXCEPT !.state = "leaving"]
      BY <1>1, <1>5, <2>1 DEF UserDeletes, ClaimOf, Object, Lifecycle!Wanted
    <3>3. Claims' = [Claims EXCEPT ![n].state = "leaving"]
      BY <1>2, <3>1, <3>2
    <3>4. Claims[n].state = "wanted" /\ ext' = ext
      BY <1>2, <2>1, <3>1 DEF Lifecycle!Wanted
    <3>5. Lifecycle!Withdraw(n)
      BY <3>3, <3>4 DEF Lifecycle!Withdraw, Claims
    <3>6. QED
      BY <3>5
  <2>3. CASE ~api[n].fin
    <3>1. UserWrites(n, Blank) /\ Owned(n) = {}
      BY <1>5, <2>3 DEF UserDeletes, Owns
    <3>2. QED
      BY <1>2, <2>1, <3>1, BlankClaim
         DEF Lifecycle!Leave, Lifecycle!Provided, Lifecycle!Wanted, Claims, Owned
  <2>4. QED
    BY <2>2, <2>3
<1>6. QED
  BY <1>3, <1>4, <1>5 DEF Users

\* The finalizer lets a claim go that nothing is provided for.
LEMMA ReleaseRefines ==
  ASSUME TypeOK, NEW n \in Names, Locked(n), Owns(n), RemoveFinalizer(n), fresh[n]
  PROVE  Lifecycle!Leave(n)
<1>1. /\ api'[n] = Blank /\ ext' = ext
      /\ \A m \in Names \ {n} : api'[m] = api[m]
  BY DEF RemoveFinalizer, TypeOK
<1>2. Claims' = [Claims EXCEPT ![n] = Lifecycle!Nobody]
  BY <1>1, ClaimsMove, BlankClaim
<1>3. api[n].live /\ api[n].del
  BY DEF RemoveFinalizer, Absent, Locked, CopyIsCurrent
<1>4. Claims[n].state = "leaving"
  BY <1>3, ClaimFields DEF Claims
<1>5. QED
  BY <1>1, <1>2, <1>4, ReleaseOwnsNothing
     DEF Lifecycle!Leave, Lifecycle!Provided, Claims, Owned

\* A create is asked for at that moment, with that payload, and is the first.
LEMMA CreateRefines ==
  ASSUME TypeOK, NEW n \in Names, Locked(n), Owns(n), Traced(n), CreateExternal(n)
  PROVE  Lifecycle!Provide(n)
<1>1. pc[n] = "create" /\ api' = api
  BY DEF CreateExternal
<1>2. fresh[n] /\ Owned(n) = {} /\ ~mg[n].del
  BY <1>1 DEF Owns, Traced, CreateWindow
<1>3. api[n].live /\ ~api[n].del /\ api[n].want = mg[n].want
  BY <1>1, <1>2 DEF Locked, CopyIsCurrent
<1>4. Claims[n].state = "wanted" /\ Claims[n].data = mg[n].want
  BY <1>3, ClaimFields DEF Claims
<1>5. PICK i \in Ids \ DOMAIN ext :
        ext' = [j \in DOMAIN ext \cup {i} |->
                  IF j = i THEN [owner |-> n, data |-> mg[n].want] ELSE ext[j]]
  BY DEF CreateExternal, FreeIds
<1>6. QED
  BY <1>1, <1>2, <1>4, <1>5 DEF Lifecycle!Provide, Lifecycle!Provided, Claims, Owned

\* A delete, also one repeated, takes away what was withdrawn, or nothing.
LEMMA DeleteRefines ==
  ASSUME TypeOK, NEW n \in Names, Locked(n), Traced(n), DeleteExternal(n)
  PROVE  (\E i \in Ids : Lifecycle!TakeAway(i)) \/ UNCHANGED <<Claims, ext>>
<1>1. /\ api' = api /\ mg[n].del /\ pc[n] \in {"stale", "current"}
      /\ ext' = [j \in DOMAIN ext \ {mg[n].uuid} |-> ext[j]]
  BY DEF DeleteExternal, Exists, Without
<1>2. CASE mg[n].uuid \in DOMAIN ext
  <2>1. Claims[n].state = "leaving" /\ ext[mg[n].uuid].owner = n
    BY <1>1, <1>2, CopyIsGood, ClaimFields DEF Claims
  <2>2. Lifecycle!TakeAway(mg[n].uuid) /\ mg[n].uuid \in Ids
    BY <1>1, <1>2, <2>1 DEF Lifecycle!TakeAway, Claims, TypeOK
  <2>3. QED
    BY <2>2
<1>3. CASE mg[n].uuid \notin DOMAIN ext
  BY <1>1, <1>3 DEF Claims, TypeOK
<1>4. QED
  BY <1>2, <1>3

\* An update adjusts a resource whose claim stands, or finds none.
LEMMA UpdateRefines ==
  ASSUME TypeOK, NEW n \in Names, Locked(n), Traced(n), UpdateExternal(n)
  PROVE  (\E i \in Ids : Lifecycle!Adjust(i)) \/ UNCHANGED <<Claims, ext>>
<1>1. api' = api /\ pc[n] = "stale"
  BY DEF UpdateExternal
<1>2. CASE mg[n].uuid \in DOMAIN ext
  <2> DEFINE i == mg[n].uuid
             d == UpdateBodyBy(Kind, mg[n], ext[i].data)
  <2>1. ext' = [ext EXCEPT ![i].data = d]
    BY <1>2 DEF UpdateExternal
  <2>2. i \in Ids /\ mg[n] \in Object /\ ext[i] \in External
    BY <1>2 DEF TypeOK
  <2>3. d \in Data
    BY <2>2, UpdateBodyType DEF External
  <2>4. Claims[ext[i].owner].state # "none"
    <3>1. ext[i].owner = n /\ api[n].live
      BY <1>1, <1>2, CopyIsGood
    <3>2. ClaimOf(api[n]).state # "none"
      BY <3>1 DEF ClaimOf
    <3>3. QED
      BY <3>1, <3>2 DEF Claims
  <2> HIDE DEF i, d
  <2>5. i \in DOMAIN ext
    BY <1>2 DEF i
  <2>6. Lifecycle!Adjust(i)
    BY <1>1, <2>1, <2>3, <2>4, <2>5 DEF Lifecycle!Adjust, Claims
  <2>7. QED
    BY <2>2, <2>6
<1>3. CASE mg[n].uuid \notin DOMAIN ext
  BY <1>1, <1>3 DEF UpdateExternal, Claims
<1>4. QED
  BY <1>2, <1>3

\* Of all other steps nothing is seen.
LEMMA NextRefines ==
  ASSUME Calm, TypeOK, LockInv, OwnershipInv, TraceInv, [Next]_vars
  PROVE  Lifecycle!Next \/ UNCHANGED <<Claims, ext>>
<1>1. ASSUME NEW n \in Names, Acts(n)
      PROVE  Lifecycle!Next \/ UNCHANGED <<Claims, ext>>
  <2>1. Locked(n) /\ Owns(n) /\ Traced(n)
    BY DEF LockInv, OwnershipInv, TraceInv
  <2>2. CASE Users(n)
    BY <2>1, <2>2, UsersRefine DEF Lifecycle!Next
  <2>3. CASE RemoveFinalizer(n) /\ fresh[n]
    BY <2>1, <2>3, ReleaseRefines DEF Lifecycle!Next
  <2>4. CASE CreateExternal(n)
    BY <2>1, <2>4, CreateRefines DEF Lifecycle!Next
  <2>5. CASE DeleteExternal(n)
    BY <2>1, <2>5, DeleteRefines DEF Lifecycle!Next
  <2>6. CASE UpdateExternal(n)
    BY <2>1, <2>6, UpdateRefines DEF Lifecycle!Next
  <2>7. CASE SameClaim(n) /\ ext' = ext
    <3>1. \A m \in Names \ {n} : api'[m] = api[m]
      BY <1>1, ActsAlone DEF Still
    <3>2. ClaimOf(api'[n]) = ClaimOf(api[n])
      BY <2>7 DEF SameClaim, ClaimOf
    <3>3. QED
      BY <2>7, <3>1, <3>2 DEF Claims
  <2>8. QED
    BY <1>1, <2>1, <2>2, <2>3, <2>4, <2>5, <2>6, <2>7, ClaimStep, ExtMoves
<1>2. ASSUME NEW i \in Ids, Vanish(i) PROVE Lifecycle!TakeAway(i)
  BY <1>2 DEF Vanish, Without, Lifecycle!TakeAway
<1>3. CASE UNCHANGED vars
  BY <1>3 DEF vars, Claims
<1>4. QED
  BY <1>1, <1>2, <1>3 DEF Next, Acts, Lifecycle!Next

\* When Calm, the provider keeps the promise that ResourceLifecycle states.
THEOREM ImplementsLifecycle ==
  ASSUME Calm
  PROVE  Spec => Implements
<1>1. Init => Lifecycle!Init
  <2> SUFFICES ASSUME Init PROVE Lifecycle!Init
    OBVIOUS
  <2>1. Claims = [m \in Names |-> Lifecycle!Nobody]
    <3>1. \A m \in Names : api[m] = Blank
      BY DEF Init
    <3>2. QED
      BY <3>1, BlankClaim DEF Claims
  <2>2. ext = [i \in {} |-> Lifecycle!Nobody]
    <3>1. ASSUME NEW b, NEW c PROVE [i \in {} |-> b] = [i \in {} |-> c]
      OBVIOUS
    <3>2. QED
      BY <3>1 DEF Init
  <2>3. QED
    BY <2>1, <2>2 DEF Lifecycle!Init, Claims
<1>2. TypeOK /\ LockInv /\ OwnershipInv /\ TraceInv /\ [Next]_vars
        => [Lifecycle!Next]_(Lifecycle!vars)
  BY NextRefines DEF Lifecycle!vars, Claims
<1>3. QED
  BY <1>1, <1>2, TypeCorrect, LockHolds, OwnershipHolds, TraceHolds, PTL
     DEF Spec, Implements, Lifecycle!Spec
=============================================================================
