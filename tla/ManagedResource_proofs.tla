----------------------- MODULE ManagedResource_proofs -----------------------
(***************************************************************************)
(* Theorems about ManagedResource, for every kind, every set of names,     *)
(* uuids and payload values, and every set of faults the theorem allows.   *)
(***************************************************************************)
EXTENDS ManagedResource, TLAPS

-----------------------------------------------------------------------------
(* What the engine relies on of the handlers.                              *)

\* NoData is a payload.
LEMMA NoDataType == NoData \in Data
<1>1. PICK v \in Values : TRUE
  BY ApiAssumption
<1>2. [key |-> v, rest |-> v] \in Data
  BY DEF Data
<1>3. QED
  BY <1>2 DEF NoData

\* The blank object is one.
LEMMA BlankType == Blank \in Object
  BY NoDataType DEF Blank, Object, Refs

\* Every Observe gives a verdict the engine knows.
LEMMA ObserveVerdict ==
  ASSUME NEW o \in Object, NEW a
  PROVE  ObserveBy(Kind, o, a) \in Verdicts
BY KindAssumption
   DEF ObserveBy, Kinds, Verdicts, FleetObserve, WebserviceObserve, PortObserve,
       RequestObserve, DeviceObserve, PluginObserve, ServiceObserve

\* "absent" means that the resource the object records is not there.
LEMMA AbsentIsGone ==
  ASSUME NEW o \in Object, NEW e, DOMAIN e \subseteq Ids,
         ObserveBy(Kind, o, GetAnswer(e, o.uuid)) = "absent"
  PROVE  o.uuid \notin DOMAIN e
<1>1. o.uuid = NoId => o.uuid \notin DOMAIN e
  BY ApiAssumption
<1>2. o.uuid \in DOMAIN e =>
        GetAnswer(e, o.uuid) = Full(200, o.uuid, e[o.uuid].data)
  BY DEF GetAnswer
<1>3. QED
  BY <1>1, <1>2, KindAssumption
     DEF ObserveBy, Kinds, FleetObserve, WebserviceObserve, PortObserve,
         RequestObserve, DeviceObserve, PluginObserve, ServiceObserve,
         FleetRESTFailed, SdkGetFailed, Full

\* "current" means that it is: a handler never takes an empty uuid for one.
LEMMA CurrentIsThere ==
  ASSUME NEW o \in Object, NEW e, DOMAIN e \subseteq Ids,
         ObserveBy(Kind, o, GetAnswer(e, o.uuid)) = "current"
  PROVE  o.uuid # NoId
<1>1. o.uuid = NoId => GetAnswer(e, o.uuid) = Bare(404)
  BY ApiAssumption DEF GetAnswer
<1>3. QED
  BY <1>1, KindAssumption
     DEF ObserveBy, Kinds, FleetObserve, WebserviceObserve, PortObserve,
         RequestObserve, DeviceObserve, PluginObserve, ServiceObserve,
         FleetRESTFailed, SdkGetFailed, Bare

\* A read that fails is never taken for "absent", except of an object that
\* records no uuid, nor for "current".
LEMMA FailureIsNoVerdict ==
  ASSUME NEW o \in Object, NEW a \in ReadFailures
  PROVE  /\ ObserveBy(Kind, o, a) = "absent" => o.uuid = NoId
         /\ ObserveBy(Kind, o, a) # "current"
<1>1. ~a.readable /\ a.code \in {0, 200, 500}
  BY DEF ReadFailures, Refusals, Bare
<1>2. QED
  BY <1>1, KindAssumption
     DEF ObserveBy, Kinds, FleetObserve, WebserviceObserve, PortObserve,
         RequestObserve, DeviceObserve, PluginObserve, ServiceObserve,
         FleetRESTFailed, SdkGetFailed

\* A refused create is a failure and leaves the object's uuid alone.
LEMMA RefusedCreate ==
  ASSUME NEW o \in Object, NEW a \in Refusals
  PROVE  CreateBy(Kind, o, a) = [ok |-> FALSE, uuid |-> o.uuid]
<1>1. ~a.readable
  BY DEF Refusals, Bare
<1>2. QED
  BY <1>1, KindAssumption
     DEF CreateBy, Kinds, FleetCreate, WebserviceCreate, PortCreate,
         RequestCreate, DeviceCreate, PluginCreate, ServiceCreate

\* A create that succeeds puts the new uuid in the object, one that fails
\* leaves it alone.
LEMMA CreateOutcome ==
  ASSUME NEW o \in Object, NEW i \in Ids, NEW d \in Data,
         NEW a \in CreateAnswers(i, d)
  PROVE  \/ CreateBy(Kind, o, a) = [ok |-> TRUE, uuid |-> i]
         \/ /\ CreateBy(Kind, o, a) = [ok |-> FALSE, uuid |-> o.uuid]
            /\ "lostCreate" \in Faults
<1>1. CASE a = Full(201, i, d)
  <2>1. a.code = 201 /\ a.readable /\ a.uuid = i /\ i # NoId
    BY <1>1, ApiAssumption DEF Full
  <2>2. QED
    BY <2>1, KindAssumption
       DEF CreateBy, Kinds, FleetCreate, WebserviceCreate, PortCreate,
           RequestCreate, DeviceCreate, PluginCreate, ServiceCreate,
           FleetRESTFailed
<1>2. CASE a \in {Bare(0), Bare(201)} /\ "lostCreate" \in Faults
  <2>1. ~a.readable
    BY <1>2 DEF Bare
  <2>2. QED
    BY <1>2, <2>1, KindAssumption
       DEF CreateBy, Kinds, FleetCreate, WebserviceCreate, PortCreate,
           RequestCreate, DeviceCreate, PluginCreate, ServiceCreate,
           FleetRESTFailed
<1>3. QED
  BY <1>1, <1>2 DEF CreateAnswers

\* Updates store payloads.
LEMMA UpdateBodyType ==
  ASSUME NEW o \in Object, NEW d \in Data
  PROVE  UpdateBodyBy(Kind, o, d) \in Data
BY KindAssumption
   DEF UpdateBodyBy, Kinds, FleetUpdateBody, WebserviceUpdateBody,
       PortUpdateBody, RequestUpdateBody, DeviceUpdateBody, PluginUpdateBody,
       ServiceUpdateBody, Sent, Object, Data

-----------------------------------------------------------------------------
(* Type correctness.                                                       *)

\* WithStatus changes the two conditions and nothing else.
LEMMA StatusFields ==
  ASSUME NEW o \in Object, NEW p \in Object
  PROVE  /\ WithStatus(o, p) \in Object
         /\ WithStatus(o, p).ready = p.ready
         /\ WithStatus(o, p).live = o.live /\ WithStatus(o, p).uuid = o.uuid
         /\ WithStatus(o, p).want = o.want /\ WithStatus(o, p).del = o.del
         /\ WithStatus(o, p).fin = o.fin /\ WithStatus(o, p).ann = o.ann
BY DEF WithStatus, Object

\* The worker's moves keep its variables well typed.
LEMMA MovesType ==
  ASSUME TypeOK, NEW n \in Names, NEW o \in Object, NEW step \in Steps
  PROVE  /\ Goto(n, o, step) => /\ mg' \in [Names -> Object]
                                /\ pc' \in [Names -> Steps]
                                /\ fresh' \in [Names -> BOOLEAN]
         /\ Stop(n) => /\ mg' \in [Names -> Object]
                       /\ pc' \in [Names -> Steps]
                       /\ fresh' \in [Names -> BOOLEAN]
         /\ Write(n, o, step) => /\ mg' \in [Names -> Object]
                                 /\ pc' \in [Names -> Steps]
                                 /\ fresh' \in [Names -> BOOLEAN]
                                 /\ api' \in [Names -> Object]
                                 /\ synced' \in [Names -> BOOLEAN]
<1>1. Goto(n, o, step) => /\ mg' \in [Names -> Object]
                          /\ pc' \in [Names -> Steps]
                          /\ fresh' \in [Names -> BOOLEAN]
  BY DEF Goto, TypeOK
<1>2. Stop(n) => /\ mg' \in [Names -> Object]
                 /\ pc' \in [Names -> Steps]
                 /\ fresh' \in [Names -> BOOLEAN]
  BY BlankType DEF Stop, TypeOK, Steps
<1>3. WithStatus(o, api[n]) \in Object
  BY StatusFields DEF TypeOK
<1>4. QED
  BY <1>1, <1>2, <1>3 DEF Write, TypeOK

\* WriteStatus changes the status of one object and stops its worker.
LEMMA StatusType ==
  ASSUME TypeOK, NEW n \in Names, NEW o \in Object, WriteStatus(n, o)
  PROVE  /\ mg' \in [Names -> Object] /\ pc' \in [Names -> Steps]
         /\ fresh' \in [Names -> BOOLEAN] /\ api' \in [Names -> Object]
         /\ synced' \in [Names -> BOOLEAN]
<1>1. WithStatus(api[n], o) \in Object
  BY StatusFields DEF TypeOK
<1>2. /\ mg' \in [Names -> Object] /\ pc' \in [Names -> Steps]
      /\ fresh' \in [Names -> BOOLEAN]
  BY BlankType DEF WriteStatus, Stop, TypeOK, Steps
<1>3. QED
  BY <1>1, <1>2 DEF WriteStatus, TypeOK

\* Changes of one or two fields give objects again.
LEMMA FieldsType ==
  ASSUME NEW o \in Object
  PROVE  /\ [o EXCEPT !.fin = TRUE] \in Object
         /\ [o EXCEPT !.del = TRUE] \in Object
         /\ [o EXCEPT !.ann = "pending"] \in Object
         /\ [o EXCEPT !.ready = "available"] \in Object
         /\ [o EXCEPT !.ready = "creating", !.sync = "error"] \in Object
         /\ \A s \in {"ok", "error"} :
              /\ [o EXCEPT !.sync = s] \in Object
              /\ [o EXCEPT !.ready = "deleting", !.sync = s] \in Object
         /\ \A m \in {"succeeded", "failed"}, s \in {"ok", "error"} :
              [o EXCEPT !.ann = m, !.ready = "creating", !.sync = s] \in Object
         /\ \A i \in Refs : [o EXCEPT !.uuid = i] \in Object
         /\ \A d \in Data : /\ [o EXCEPT !.want = d] \in Object
                            /\ [o EXCEPT !.live = TRUE, !.want = d] \in Object
BY DEF Object

\* Users write objects.
LEMMA UsersType ==
  ASSUME TypeOK, NEW n \in Names, Users(n)
  PROVE  TypeOK'
<1>1. ASSUME NEW o \in Object, UserWrites(n, o) PROVE TypeOK'
  BY <1>1 DEF UserWrites, TypeOK
<1>2. CASE Submit(n)
  BY <1>1, <1>2, BlankType, FieldsType DEF Submit
<1>3. CASE Edit(n)
  BY <1>1, <1>3, FieldsType DEF Edit, TypeOK
<1>4. CASE UserDeletes(n)
  BY <1>1, <1>4, BlankType, FieldsType DEF UserDeletes, TypeOK
<1>5. QED
  BY <1>2, <1>3, <1>4 DEF Users

\* What the handlers' results do to the worker's copy.
LEMMA ResultsType ==
  ASSUME TypeOK, NEW n \in Names, NEW a
  PROVE  /\ Observed(n, a) \/ Deleted(n, a) \/ Updated(n, a) =>
              /\ mg' \in [Names -> Object] /\ pc' \in [Names -> Steps]
              /\ fresh' \in [Names -> BOOLEAN]
         /\ CreateBy(Kind, mg[n], a).uuid \in Refs /\ Created(n, a) =>
              /\ mg' \in [Names -> Object] /\ pc' \in [Names -> Steps]
              /\ fresh' \in [Names -> BOOLEAN]
<1>1. mg[n] \in Object
  BY DEF TypeOK
<1>2. ObserveBy(Kind, mg[n], a) \in Verdicts
  BY <1>1, ObserveVerdict
<1>3. CASE Observed(n, a)
  <2>1. PICK o \in Object, step \in Steps : Goto(n, o, step)
    BY <1>1, <1>2, <1>3, FieldsType DEF Observed, Verdicts, Steps
  <2>2. QED
    BY <2>1, MovesType
<1>4. CASE Deleted(n, a)
  <2>1. PICK o \in Object : Goto(n, o, "report")
    BY <1>1, <1>4, FieldsType DEF Deleted
  <2>2. QED
    BY <2>1, MovesType DEF Steps
<1>5. CASE Updated(n, a)
  <2>1. PICK o \in Object : Goto(n, o, "report")
    BY <1>1, <1>5, FieldsType DEF Updated
  <2>2. QED
    BY <2>1, MovesType DEF Steps
<1>6. CASE CreateBy(Kind, mg[n], a).uuid \in Refs /\ Created(n, a)
  <2>1. PICK o \in Object, step \in Steps : Goto(n, o, step)
    BY <1>1, <1>6, FieldsType DEF Created, Steps
  <2>2. QED
    BY <2>1, MovesType
<1>7. QED
  BY <1>3, <1>4, <1>5, <1>6

\* A create that stored something stored it as the object's payload.
LEMMA CreatedExt ==
  ASSUME TypeOK, NEW n \in Names, NEW i \in FreeIds,
         ext' = [j \in DOMAIN ext \cup {i} |->
                   IF j = i THEN [owner |-> n, data |-> mg[n].want] ELSE ext[j]]
  PROVE  DOMAIN ext' \subseteq Ids /\ ext' \in [DOMAIN ext' -> External]
<1>1. mg[n].want \in Data
  BY DEF TypeOK, Object
<1>2. [owner |-> n, data |-> mg[n].want] \in External
  BY <1>1 DEF External
<1>3. QED
  BY <1>2 DEF TypeOK, FreeIds

\* So did an update.
LEMMA UpdatedExt ==
  ASSUME TypeOK, NEW n \in Names, NEW i \in DOMAIN ext,
         ext' = [ext EXCEPT ![i].data = UpdateBodyBy(Kind, mg[n], @)]
  PROVE  DOMAIN ext' = DOMAIN ext /\ ext' \in [DOMAIN ext' -> External]
<1>1. mg[n] \in Object /\ ext[i] \in External
  BY DEF TypeOK
<1>2. ext[i].data \in Data
  BY <1>1 DEF External
<1>3. UpdateBodyBy(Kind, mg[n], ext[i].data) \in Data
  BY <1>1, <1>2, UpdateBodyType
<1>4. [ext[i] EXCEPT !.data = UpdateBodyBy(Kind, mg[n], ext[i].data)] \in External
  BY <1>1, <1>3 DEF External
<1>5. QED
  BY <1>4 DEF TypeOK

\* The steps of a worker keep the variables well typed.
LEMMA WorkType ==
  ASSUME TypeOK, NEW n \in Names, Work(n)
  PROVE  TypeOK'
<1>1. mg[n] \in Object /\ cache[n] \in Object /\ api[n] \in Object
  BY DEF TypeOK
<1>2. CASE Refuse(n)
  BY <1>1, <1>2, FieldsType DEF Refuse, TypeOK, Steps
<1>3. CASE Begin(n)
  BY <1>1, <1>3 DEF Begin, TypeOK, Steps
<1>4. CASE Observe(n)
  BY <1>4, ResultsType DEF Observe, TypeOK
<1>5. CASE AwaitVisible(n)
  BY <1>1, <1>5, MovesType DEF AwaitVisible, TypeOK, Steps
<1>6. CASE RemoveFinalizer(n)
  BY <1>1, <1>6, MovesType, BlankType DEF RemoveFinalizer, TypeOK, Steps
<1>7. CASE DeleteExternal(n)
  <2>1. /\ mg' \in [Names -> Object] /\ pc' \in [Names -> Steps]
        /\ fresh' \in [Names -> BOOLEAN]
    BY <1>7, ResultsType DEF DeleteExternal
  <2>2. DOMAIN ext' \subseteq Ids /\ ext' \in [DOMAIN ext' -> External]
    BY <1>7 DEF DeleteExternal, Without, TypeOK
  <2>3. QED
    BY <1>7, <2>1, <2>2 DEF DeleteExternal, TypeOK
<1>8. CASE AddFinalizer(n)
  <2>1. [mg[n] EXCEPT !.fin = TRUE] \in Object /\ pc[n] \in Steps
    BY <1>1, FieldsType DEF TypeOK
  <2>2. QED
    BY <1>8, <2>1, MovesType DEF AddFinalizer, TypeOK
<1>9. CASE MarkPending(n)
  <2>1. [mg[n] EXCEPT !.ann = "pending"] \in Object
    BY <1>1, FieldsType
  <2>2. QED
    BY <1>9, <2>1, MovesType DEF MarkPending, TypeOK, Steps
<1>10. CASE CreateExternal(n)
  <2>1. PICK i \in FreeIds :
          /\ ext' = [j \in DOMAIN ext \cup {i} |->
                       IF j = i THEN [owner |-> n, data |-> mg[n].want] ELSE ext[j]]
          /\ \E a \in CreateAnswers(i, mg[n].want) : Created(n, a)
    BY <1>10 DEF CreateExternal
  <2>2. DOMAIN ext' \subseteq Ids /\ ext' \in [DOMAIN ext' -> External]
    BY <2>1, CreatedExt
  <2>3. PICK a \in CreateAnswers(i, mg[n].want) : Created(n, a)
    BY <2>1
  <2>4. CreateBy(Kind, mg[n], a).uuid \in Refs
    BY <1>1, <1>10, CreateOutcome DEF CreateExternal, FreeIds, Refs, Object
  <2>5. /\ mg' \in [Names -> Object] /\ pc' \in [Names -> Steps]
        /\ fresh' \in [Names -> BOOLEAN]
    BY <2>3, <2>4, ResultsType
  <2>6. QED
    BY <1>10, <2>2, <2>5 DEF CreateExternal, TypeOK
<1>12. CASE Record(n)
  <2>1. PICK o \in Object : Write(n, o, "report")
    BY <1>1, <1>12, FieldsType DEF Record
  <2>2. grace' \in [Names -> BOOLEAN]
    BY <1>12 DEF Record, TypeOK
  <2>3. QED
    BY <1>12, <2>1, <2>2, MovesType DEF Record, TypeOK, Steps
<1>13. CASE Reread(n)
  BY <1>1, <1>13 DEF Reread, TypeOK
<1>14. CASE GiveUp(n)
  BY <1>1, <1>14, MovesType DEF GiveUp, TypeOK, Steps
<1>15. CASE UpdateExternal(n)
  <2>1. /\ mg' \in [Names -> Object] /\ pc' \in [Names -> Steps]
        /\ fresh' \in [Names -> BOOLEAN]
    BY <1>15, ResultsType DEF UpdateExternal
  <2>2. DOMAIN ext' \subseteq Ids /\ ext' \in [DOMAIN ext' -> External]
    BY <1>15, UpdatedExt DEF UpdateExternal, TypeOK
  <2>3. QED
    BY <1>15, <2>1, <2>2 DEF UpdateExternal, TypeOK
<1>16. CASE Report(n)
  <2>1. PICK o \in Object : WriteStatus(n, o)
    BY <1>1, <1>16, FieldsType DEF Report
  <2>2. QED
    BY <1>16, <2>1, StatusType DEF Report, TypeOK
<1>17. QED
  BY <1>2, <1>3, <1>4, <1>5, <1>6, <1>7, <1>8, <1>9, <1>10, <1>12,
     <1>13, <1>14, <1>15, <1>16 DEF Work

\* So do all the others.
LEMMA NextType ==
  ASSUME TypeOK, [Next]_vars
  PROVE  TypeOK'
<1>1. CASE \E n \in Names : Users(n)
  BY <1>1, UsersType
<1>2. CASE \E n \in Names : Work(n)
  BY <1>2, WorkType
<1>3. CASE \E n \in Names : Sync(n)
  BY <1>3 DEF Sync, TypeOK
<1>4. CASE \E n \in Names : GraceElapses(n)
  BY <1>4 DEF GraceElapses, TypeOK
<1>5. ASSUME NEW n \in Names, ReadFails(n) PROVE TypeOK'
  BY <1>5, ResultsType DEF ReadFails, TypeOK
<1>6. ASSUME NEW n \in Names, Refused(n) PROVE TypeOK'
  <2>1. mg[n] \in Object
    BY DEF TypeOK
  <2>2. ASSUME NEW a \in Refusals, Created(n, a)
        PROVE  /\ mg' \in [Names -> Object] /\ pc' \in [Names -> Steps]
               /\ fresh' \in [Names -> BOOLEAN]
    <3>1. CreateBy(Kind, mg[n], a).uuid \in Refs
      BY <2>1, <2>2, RefusedCreate DEF Object
    <3>2. QED
      BY <2>2, <3>1, ResultsType
  <2>3. /\ mg' \in [Names -> Object] /\ pc' \in [Names -> Steps]
        /\ fresh' \in [Names -> BOOLEAN]
    BY <1>6, <2>2, ResultsType DEF Refused
  <2>4. QED
    BY <1>6, <2>3 DEF Refused, TypeOK
<1>11. ASSUME NEW n \in Names, ConnectFails(n) PROVE TypeOK'
  <2>1. [mg[n] EXCEPT !.sync = "error"] \in Object
    BY FieldsType DEF TypeOK
  <2>2. QED
    BY <1>11, <2>1, MovesType DEF ConnectFails, TypeOK, Steps
<1>7. ASSUME NEW n \in Names, Crash(n) PROVE TypeOK'
  <2>1. mg[n] \in Object
    BY DEF TypeOK
  <2>2. QED
    BY <1>7, <2>1, MovesType DEF Crash, TypeOK, Steps
<1>8. CASE \E i \in Ids : Vanish(i)
  BY <1>8 DEF Vanish, Without, TypeOK
<1>9. CASE UNCHANGED vars
  BY <1>9 DEF vars, TypeOK
<1>12. QED
  BY <1>1, <1>2, <1>3, <1>4, <1>5, <1>6, <1>7, <1>8, <1>9, <1>11 DEF Next

\* The variables keep their types, whatever fails.
THEOREM TypeCorrect == Spec => []TypeOK
<1>1. Init => TypeOK
  BY BlankType DEF Init, TypeOK, Steps
<1>2. TypeOK /\ [Next]_vars => TypeOK'
  BY NextType
<1>3. QED
  BY <1>1, <1>2, PTL DEF Spec
=============================================================================
