----------------------- MODULE PassiveResource_proofs -----------------------
(***************************************************************************)
(* What the worker of a Site or a Result knows holds, and a finalizer      *)
(* guards: proved under every fault.  A Site that is being deleted goes    *)
(* when its users take its uuid away, and not before.                      *)
(***************************************************************************)
EXTENDS PassiveResource, TLAPS

-----------------------------------------------------------------------------
(* Types.                                                                  *)

\* No object is an object.
LEMMA BlankType == Blank \in Object
BY DEF Blank, Object, Lookups

\* The changes that users and the engine make to an object.
LEMMA Changes ==
  ASSUME NEW o \in Object
  PROVE  /\ [o EXCEPT !.del = TRUE] \in Object
         /\ [o EXCEPT !.fin = TRUE] \in Object
         /\ [o EXCEPT !.ann = "pending"] \in Object
         /\ [o EXCEPT !.ann = "succeeded", !.ready = "creating"] \in Object
         /\ [o EXCEPT !.ready = "available"] \in Object
         /\ [o EXCEPT !.ready = "deleting"] \in Object
         /\ [o EXCEPT !.ready = "creating"] \in Object
         /\ \A x \in Names : [o EXCEPT !.names = x] \in Object
         /\ \A p \in Object : [o EXCEPT !.ready = p.ready] \in Object
BY DEF Object, Blank, Names

\* So does a Create, of either kind.
LEMMA CreateType == ASSUME NEW o \in Object PROVE CreateBy(o) \in Object
BY DEF CreateBy, SiteCreate, ResultCreate, Object, Lookups

\* What a worker's step leaves typed.
Typed == mg' \in Object /\ pc' \in Steps /\ fresh' \in BOOLEAN

\* A worker that goes on, stops or writes keeps the types.
LEMMA MovesType ==
  ASSUME TypeOK, NEW o \in Object, NEW step \in Steps
  PROVE  /\ Goto(o, step) => Typed
         /\ Stop => Typed
         /\ Write(o, step) => Typed /\ api' \in Object
<1>1. Goto(o, step) => Typed
  BY DEF Goto, TypeOK, Typed
<1>2. Stop => Typed
  BY BlankType DEF Stop, TypeOK, Steps, Typed
<1>3. api \in Object /\ [o EXCEPT !.ready = api.ready] \in Object
  BY Changes DEF TypeOK
<1>4. QED
  BY <1>1, <1>2, <1>3 DEF Write

\* Users keep the types.
LEMMA UsersType == ASSUME TypeOK, Submit \/ Edit \/ UserDeletes PROVE TypeOK'
<1>1. api \in Object /\ Blank \in Object /\ [Blank EXCEPT !.live = TRUE] \in Object
  BY DEF TypeOK, Object, Blank
<1>2. Nameable \subseteq Names
  BY DEF Nameable, Names, Lookups
<1>3. \A x \in Names : [Blank EXCEPT !.live = TRUE, !.names = x] \in Object
  BY DEF Object, Blank, Names
<1>4. PICK o \in Object : UserWrites(o)
  BY <1>1, <1>2, <1>3, Changes DEF Submit, Edit, UserDeletes
<1>5. QED
  BY <1>4 DEF UserWrites, TypeOK

\* What an Observe says, the worker notes.
LEMMA ObservedType ==
  ASSUME TypeOK, NEW v, Observed(v)
  PROVE  Typed
<1>1. mg \in Object /\ [mg EXCEPT !.ready = "available"] \in Object
  BY Changes DEF TypeOK
<1>2. {"absent", "current", "report"} \subseteq Steps
  BY DEF Steps
<1>3. QED
  BY <1>1, <1>2, MovesType DEF Observed

\* And so do the worker, the clock, a crash and IoTronic.
LEMMA NextType == ASSUME TypeOK, [Next]_vars PROVE TypeOK'
<1>1. api \in Object /\ mg \in Object /\ Blank \in Object /\ pc \in Steps
      /\ {"observe", "create", "created", "report"} \subseteq Steps
  BY BlankType DEF TypeOK, Steps
<1>2. SUFFICES ASSUME Next PROVE TypeOK'
  BY DEF vars, TypeOK
<1>3. CASE Submit \/ Edit \/ UserDeletes
  BY <1>3, UsersType
<1>4. CASE ResultsChange \/ GraceElapses
  BY <1>4 DEF ResultsChange, GraceElapses, TypeOK
<1>5. CASE Refuse
  BY <1>1, <1>5, Changes DEF Refuse, TypeOK
<1>6. CASE Begin \/ Reread
  BY <1>1, <1>6 DEF Begin, Reread, TypeOK
<1>7. CASE Observe \/ ReadFails
  <2>1. Typed
    BY <1>7, ObservedType DEF Observe, ReadFails
  <2>2. QED
    BY <1>7, <2>1 DEF Observe, ReadFails, Typed, TypeOK
<1>8. CASE AwaitVisible \/ GiveUp \/ Crash
  <2>1. Stop
    BY <1>8 DEF AwaitVisible, GiveUp, Crash
  <2>2. QED
    BY <1>1, <1>8, <2>1, MovesType DEF AwaitVisible, GiveUp, Crash, Typed, TypeOK
<1>9. CASE RemoveFinalizer
  <2>1. Typed /\ api' \in Object
    BY <1>1, <1>9, MovesType DEF RemoveFinalizer
  <2>2. QED
    BY <1>9, <2>1 DEF RemoveFinalizer, Typed, TypeOK
<1>10. CASE DeleteNothing
  <2>1. Typed
    BY <1>1, <1>10, Changes, MovesType DEF DeleteNothing
  <2>2. QED
    BY <1>10, <2>1 DEF DeleteNothing, Typed, TypeOK
<1>11. CASE AddFinalizer \/ MarkPending
  <2>1. Typed /\ api' \in Object
    BY <1>1, <1>11, Changes, MovesType DEF AddFinalizer, MarkPending
  <2>2. QED
    BY <1>11, <2>1 DEF AddFinalizer, MarkPending, Typed, TypeOK
<1>12. CASE Create
  <2>1. Typed
    BY <1>1, <1>12, CreateType, MovesType DEF Create
  <2>2. QED
    BY <1>12, <2>1 DEF Create, Typed, TypeOK
<1>13. CASE Record
  <2>1. Typed /\ api' \in Object
    BY <1>1, <1>13, Changes, MovesType DEF Record
  <2>2. QED
    BY <1>13, <2>1 DEF Record, Typed, TypeOK
<1>14. CASE Report
  <2>1. [api EXCEPT !.ready = mg.ready] \in Object
    BY <1>1, Changes
  <2>2. Typed /\ api' \in Object
    BY <1>1, <1>14, <2>1, MovesType DEF Report
  <2>3. QED
    BY <1>14, <2>2 DEF Report, Typed, TypeOK
<1>15. QED
  BY <1>2, <1>3, <1>4, <1>5, <1>6, <1>7, <1>8, <1>9, <1>10, <1>11, <1>12, <1>13, <1>14
     DEF Next, Work

\* The object, the worker's copy and the clock keep their types, for both kinds and
\* under every fault.
THEOREM TypeCorrect == Spec => []TypeOK
<1>1. Init => TypeOK
  BY BlankType DEF Init, TypeOK, Steps
<1>2. TypeOK /\ [Next]_vars => TypeOK'
  BY NextType
<1>3. QED
  BY <1>1, <1>2, PTL DEF Spec

-----------------------------------------------------------------------------
(* What the worker knows.                                                  *)

\* A condition reported is no change to what else the object says.
LEMMA Reported ==
  ASSUME NEW o \in Object, NEW r, NEW p, p = [o EXCEPT !.ready = r]
  PROVE  /\ p.live = o.live /\ p.names = o.names
         /\ p.del = o.del /\ p.fin = o.fin /\ p.ann = o.ann
BY DEF Object

\* Users take no mark off the object: what they write, the worker has to read again.
LEMMA UsersCopy ==
  ASSUME TypeOK, CopyInv, Submit \/ Edit \/ UserDeletes
  PROVE  CopyInv'
<1>1. api \in Object
  BY DEF TypeOK
<1>2. PICK o : /\ UserWrites(o)
               /\ o.live \/ o = Blank
               /\ o.del => o.fin
               /\ api.live /\ api.fin => o.live /\ o.fin /\ o.ann = api.ann
  <2>1. CASE Submit
    <3>1. PICK x \in Nameable : UserWrites([Blank EXCEPT !.live = TRUE, !.names = x])
      BY <2>1 DEF Submit
    <3>2. QED
      BY <2>1, <3>1 DEF Submit, Blank
  <2>2. CASE Edit
    <3>1. PICK x \in Nameable : UserWrites([api EXCEPT !.names = x])
      BY <2>2 DEF Edit
    <3>2. QED
      BY <1>1, <2>2, <3>1 DEF Edit, CopyInv, Object
  <2>3. CASE UserDeletes
    BY <1>1, <2>3 DEF UserDeletes, CopyInv, Object, Blank
  <2>4. QED
    BY <2>1, <2>2, <2>3
<1>3. QED
  BY <1>2 DEF UserWrites, CopyInv

\* A worker that goes on with the copy it has, outside a creation, leaves what it
\* knows as it is; so does one that stops.
LEMMA GoesOn ==
  ASSUME CopyInv, UNCHANGED <<kind, api>>, NEW o, NEW step,
         Goto(o, step) \/ Stop,
         o.live = mg.live /\ o.del = mg.del /\ o.fin = mg.fin /\ o.ann = mg.ann /\ o.names = mg.names,
         step \notin {"idle", "create", "created"}, pc # "created",
         step = "absent" /\ kind = "Site" => mg.names = "nothing"
  PROVE  CopyInv'
BY DEF CopyInv, Goto, Stop

\* What a worker writes, it knows.
LEMMA WritesCopy ==
  ASSUME TypeOK, CopyInv, UNCHANGED kind, NEW o \in Object, NEW step, Write(o, step),
         fresh => o.live /\ (o.del => o.fin),
         step # "idle",
         step \in {"create", "created"} => o.fin /\ o.ann = "pending",
         step \in {"absent", "create"} /\ kind = "Site" => o.names = "nothing"
  PROVE  CopyInv'
<1>1. CASE fresh
  <2>1. api' = [o EXCEPT !.ready = api.ready] /\ mg' = o /\ pc' = step /\ fresh' = fresh
    BY <1>1 DEF Write, Goto, Stop
  <2>2. /\ api'.live = o.live /\ api'.names = o.names
        /\ api'.del = o.del /\ api'.fin = o.fin /\ api'.ann = o.ann
    BY <2>1, Reported
  <2>3. QED
    BY <1>1, <2>1, <2>2 DEF CopyInv
<1>2. CASE ~fresh
  BY <1>2 DEF Write, Stop, CopyInv
<1>3. QED
  BY <1>1, <1>2

\* Only a Site without a uuid is found absent.
LEMMA ObservedCopy ==
  ASSUME TypeOK, CopyInv, UNCHANGED <<kind, api>>, pc = "observe", NEW a,
         Observed(ObserveBy(mg, a)) \/ Observed("error")
  PROVE  CopyInv'
<1>1. mg \in Object
  BY DEF TypeOK
<1>2. \/ Goto(mg, "absent") /\ (kind = "Site" => mg.names = "nothing")
      \/ Goto([mg EXCEPT !.ready = "available"], "current")
      \/ Goto(mg, "report")
  BY DEF Observed, ObserveBy, SiteObserve
<1>3. CASE Goto(mg, "absent") /\ (kind = "Site" => mg.names = "nothing")
  BY <1>3, GoesOn
<1>4. CASE Goto([mg EXCEPT !.ready = "available"], "current")
  <2>1. PICK o : Goto(o, "current") /\ o = [mg EXCEPT !.ready = "available"]
    BY <1>4
  <2>2. QED
    BY <1>1, <2>1, GoesOn, Reported
<1>5. CASE Goto(mg, "report")
  BY <1>5, GoesOn
<1>6. QED
  BY <1>2, <1>3, <1>4, <1>5

\* Every step keeps what the worker knows.
LEMMA NextCopy == ASSUME TypeOK, CopyInv, [Next]_vars PROVE CopyInv'
<1>1. api \in Object /\ mg \in Object
  BY DEF TypeOK
<1>2. SUFFICES ASSUME Next PROVE CopyInv'
  BY DEF vars, CopyInv
<1>3. CASE Submit \/ Edit \/ UserDeletes
  BY <1>3, UsersCopy
<1>4. CASE ResultsChange \/ GraceElapses
  BY <1>4 DEF ResultsChange, GraceElapses, CopyInv
<1>5. CASE Refuse
  BY <1>1, <1>5 DEF Refuse, CopyInv, Object
<1>6. CASE Begin
  BY <1>6 DEF Begin, CopyInv
<1>7. CASE Observe \/ ReadFails
  BY <1>7, ObservedCopy DEF Observe, ReadFails
<1>8. CASE AwaitVisible \/ GiveUp \/ Crash
  BY <1>8 DEF AwaitVisible, GiveUp, Crash, Stop, CopyInv
<1>9. CASE RemoveFinalizer
  BY <1>9 DEF RemoveFinalizer, Stop, CopyInv, Blank
<1>10. CASE DeleteNothing
  <2>1. PICK o : Goto(o, "report") /\ o = [mg EXCEPT !.ready = "deleting"]
    BY <1>10 DEF DeleteNothing
  <2>2. /\ o.live = mg.live /\ o.names = mg.names
        /\ o.del = mg.del /\ o.fin = mg.fin /\ o.ann = mg.ann
    BY <1>1, <2>1, Reported
  <2>3. UNCHANGED <<kind, api>> /\ pc = "current"
    BY <1>10 DEF DeleteNothing
  <2>4. QED
    BY <2>1, <2>2, <2>3 DEF Goto, CopyInv
<1>11. CASE AddFinalizer
  <2>1. PICK o \in Object : Write(o, pc) /\ o = [mg EXCEPT !.fin = TRUE]
    BY <1>1, <1>11, Changes DEF AddFinalizer
  <2>2. o.live = mg.live /\ o.names = mg.names /\ ~o.del
    BY <1>1, <1>11, <2>1 DEF AddFinalizer, Object
  <2>3. /\ pc \in {"absent", "current"} /\ UNCHANGED kind
        /\ pc = "absent" /\ kind = "Site" => mg.names = "nothing"
        /\ fresh => mg.live
    BY <1>11 DEF AddFinalizer, Absent, CopyInv
  <2>4. QED
    BY <2>1, <2>2, <2>3, WritesCopy
<1>12. CASE MarkPending
  <2>1. PICK o \in Object : Write(o, "create") /\ o = [mg EXCEPT !.ann = "pending"]
    BY <1>1, <1>12, Changes DEF MarkPending
  <2>2. o.live = mg.live /\ o.names = mg.names /\ o.fin /\ ~o.del /\ o.ann = "pending"
    BY <1>1, <1>12, <2>1 DEF MarkPending, Object
  <2>3. /\ UNCHANGED kind
        /\ kind = "Site" => mg.names = "nothing"
        /\ fresh => mg.live
    BY <1>12 DEF MarkPending, Absent, CopyInv
  <2>4. QED
    BY <2>1, <2>2, <2>3, WritesCopy
<1>13. CASE Create
  BY <1>1, <1>13 DEF Create, CreateBy, SiteCreate, ResultCreate, Goto, CopyInv, Object
<1>14. CASE Record
  <2>1. PICK o \in Object : /\ Write(o, "report")
                            /\ o = [mg EXCEPT !.ann = "succeeded", !.ready = "creating"]
    BY <1>1, <1>14, Changes DEF Record
  <2>2. o.live = mg.live /\ o.del = mg.del /\ o.fin = mg.fin
    BY <1>1, <2>1 DEF Object
  <2>3. mg.live /\ mg.fin /\ UNCHANGED kind
    BY <1>14 DEF Record, CopyInv
  <2>4. QED
    BY <2>1, <2>2, <2>3, WritesCopy
<1>15. CASE Reread
  BY <1>15 DEF Reread, CopyInv
<1>16. CASE Report
  BY <1>1, <1>16 DEF Report, Stop, CopyInv, Object
<1>17. QED
  BY <1>2, <1>3, <1>4, <1>5, <1>6, <1>7, <1>8, <1>9, <1>10, <1>11, <1>12, <1>13, <1>14,
     <1>15, <1>16
     DEF Next, Work

\* Whatever users, crashes and refused requests do between its steps, a worker that
\* can still write knows the object, and the marks of a creation stand as long as it
\* is open.
THEOREM CopyHolds == Spec => []CopyInv
<1>1. Init => CopyInv
  BY DEF Init, CopyInv, Blank
<1>2. TypeOK /\ CopyInv /\ [Next]_vars => CopyInv'
  BY NextCopy
<1>3. QED
  BY <1>1, <1>2, TypeCorrect, PTL DEF Spec

-----------------------------------------------------------------------------
(* What lets an object go.                                                 *)

\* One step of the guard.
Guarded ==
  api.live /\ ~api'.live =>
    IF api.fin THEN api.del /\ (kind = "Site" => api.names = "nothing") ELSE ~api.del

\* Only the user who deletes an object that has no finalizer, and the worker that
\* found it absent, let it go.
LEMMA StepGuarded == ASSUME TypeOK, CopyInv, [Next]_vars PROVE Guarded
<1>1. api \in Object /\ mg \in Object
  BY DEF TypeOK
<1>2. CASE Edit \/ Refuse \/ Report
  <2>1. api.live => api'.live
    BY <1>1, <1>2 DEF Edit, UserWrites, Refuse, Report, Object
  <2>2. QED
    BY <2>1 DEF Guarded
<1>3. CASE UserDeletes
  BY <1>1, <1>3 DEF UserDeletes, UserWrites, Guarded, CopyInv, Object
<1>4. CASE RemoveFinalizer
  BY <1>1, <1>4 DEF RemoveFinalizer, Absent, Guarded, CopyInv
<1>5. CASE AddFinalizer \/ MarkPending \/ Record
  <2>1. api.live => api'.live
    BY <1>5, NextCopy DEF Next, Work, CopyInv, AddFinalizer, MarkPending, Record, Write, Blank
  <2>2. QED
    BY <2>1 DEF Guarded
<1>6. CASE Submit
  BY <1>6 DEF Submit, Guarded
<1>7. CASE \/ UNCHANGED api
  BY <1>7 DEF Guarded
<1>8. QED
  BY <1>2, <1>3, <1>4, <1>5, <1>6, <1>7
     DEF Next, Work, vars, ResultsChange, Begin, Observe, AwaitVisible, DeleteNothing,
         Create, Reread, GiveUp, ReadFails, GraceElapses, Crash

\* The finalizer guards, whatever happens between the look at an object and its end;
\* and what a deleted Site waits for is that its users take the uuid away.
THEOREM FinalizerGuardHolds == Spec => FinalizerGuards
<1>1. TypeOK /\ CopyInv /\ [Next]_vars => [Guarded]_vars
  BY StepGuarded
<1>2. QED
  BY <1>1, TypeCorrect, CopyHolds, PTL DEF Spec, FinalizerGuards, Guarded
=============================================================================
