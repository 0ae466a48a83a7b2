----------------------- MODULE BoardInjection_proofs -----------------------
(***************************************************************************)
(* Nothing stays injected that no object accounts for: proved for plugins  *)
(* under every fault, and for services as long as no read is refused, for  *)
(* any number of objects that name the same board and however far the      *)
(* cache lags, as long as no object is moved to another board.  Under the  *)
(* same conditions BoardInjection implements InjectionLifecycle, step by   *)
(* step.                                                                   *)
(***************************************************************************)
EXTENDS BoardInjection, TLAPS

-----------------------------------------------------------------------------
(* Types.                                                                  *)

\* The blank object names some board.
LEMMA BlankType == Blank \in Object
BY InjectionAssumption DEF Blank, Object

\* The changes that users and the engine make to an object.
LEMMA Changes ==
  ASSUME NEW o \in Object
  PROVE  /\ \A b \in Boards : [o EXCEPT !.board = b] \in Object
         /\ [o EXCEPT !.del = TRUE] \in Object
         /\ [o EXCEPT !.fin = TRUE] \in Object
         /\ [o EXCEPT !.ann = "pending"] \in Object
         /\ [o EXCEPT !.ann = "succeeded"] \in Object
         /\ [o EXCEPT !.ann = "none"] \in Object
BY DEF Object

\* What a worker's step leaves typed.
Typed ==
  /\ mg' \in [Names -> Object]
  /\ pc' \in [Names -> Steps]
  /\ fresh' \in [Names -> BOOLEAN]

\* And what the API server does, while the watch is silent.
Served ==
  /\ api' \in [Names -> Object]
  /\ synced' \in [Names -> BOOLEAN]
  /\ ready' \subseteq Names

\* A new version keeps the types.
LEMMA UpdateType ==
  ASSUME TypeOK, NEW n \in Names, NEW o \in Object, Update(n, o)
  PROVE  Served
BY DEF Update, TypeOK, Served

\* A worker that goes on, stops or writes keeps them.
LEMMA MovesType ==
  ASSUME TypeOK, NEW n \in Names, NEW o \in Object, NEW step \in Steps
  PROVE  /\ Goto(n, o, step) => Typed
         /\ Stop(n) => Typed
         /\ Write(n, o, step) => Typed /\ Served
<1>1. Goto(n, o, step) => Typed
  BY DEF Goto, TypeOK, Typed
<1>2. Stop(n) => Typed
  BY BlankType DEF Stop, TypeOK, Steps, Typed
<1>3. UNCHANGED <<api, synced, ready>> => Served
  BY DEF Served, TypeOK
<1>4. QED
  BY <1>1, <1>2, <1>3, UpdateType DEF Write

\* Most steps are about the object and its worker alone.
LEMMA AtHome ==
  ASSUME TypeOK, Typed, Served, UNCHANGED <<cache, Iotronic>>
  PROVE  TypeOK'
BY DEF TypeOK, Typed, Served, Iotronic

\* And some about a worker and the boards.
LEMMA Abroad ==
  ASSUME TypeOK, Typed, UNCHANGED Kubernetes, boards' \subseteq Boards,
         online' \subseteq boards', injected' \subseteq boards'
  PROVE  TypeOK'
BY DEF TypeOK, Typed, Kubernetes

\* Users keep the types.
LEMMA UsersType ==
  ASSUME TypeOK, NEW n \in Names, Users(n)
  PROVE  TypeOK'
<1>1. PICK o \in Object : UserWrites(n, o)
  <2>1. api[n] \in Object
    BY DEF TypeOK
  <2>2. \A b \in Boards : [Blank EXCEPT !.live = TRUE, !.board = b] \in Object
    BY InjectionAssumption DEF Blank, Object
  <2>3. QED
    BY <2>1, <2>2, BlankType, Changes DEF Users, Submit, Move, UserDeletes
<1>2. Served
  BY <1>1, UpdateType DEF UserWrites
<1>3. Typed
  BY <1>1 DEF UserWrites, TypeOK, Typed
<1>4. QED
  BY <1>1, <1>2, <1>3, AtHome DEF UserWrites, Iotronic

\* So do workers, whatever they find.
LEMMA WorkType ==
  ASSUME TypeOK, NEW n \in Names, Work(n) \/ Refused(n) \/ Crash(n)
  PROVE  TypeOK'
<1>1. /\ mg[n] \in Object /\ pc[n] \in Steps
      /\ {"observe", "absent", "stale", "current", "create", "created", "failed", "report"}
            \subseteq Steps
  BY DEF TypeOK, Steps
<1>2. UNCHANGED <<api, synced, ready>> => Served
  BY DEF TypeOK, Served
<1>3. CASE Refuse(n) \/ Begin(n) \/ Reread(n)
  <2>1. Typed
    BY <1>1, <1>3 DEF Refuse, Begin, Reread, TypeOK, Typed
  <2>2. QED
    BY <1>2, <1>3, <2>1, AtHome DEF Refuse, Begin, Reread, Kubernetes
<1>4. CASE Observe(n) \/ AwaitVisible(n) \/ GiveUp(n) \/ UpdateInjection(n) \/ Refused(n)
  <2>1. \/ Stop(n)
        \/ \E step \in {"absent", "stale", "current", "failed", "report"} :
             Goto(n, mg[n], step)
    <3>1. \A b : Verdicts(b) \subseteq {"absent", "stale", "current", "error"}
      BY DEF Verdicts, PluginVerdict, ServiceVerdict
    <3>2. QED
      BY <1>4, <3>1 DEF Observe, AwaitVisible, GiveUp, UpdateInjection, Refused
  <2>2. Typed
    BY <1>1, <2>1, MovesType
  <2>3. QED
    BY <1>2, <1>4, <2>2, AtHome
       DEF Observe, AwaitVisible, GiveUp, UpdateInjection, Refused, Kubernetes
<1>5. CASE RemoveFinalizer(n)
  <2>1. Typed
    BY <1>1, <1>5, MovesType DEF RemoveFinalizer
  <2>2. Served
    BY <1>2, <1>5, BlankType, UpdateType DEF RemoveFinalizer
  <2>3. QED
    BY <1>5, <2>1, <2>2, AtHome DEF RemoveFinalizer
<1>6. CASE DeleteInjection(n)
  <2>1. Typed
    BY <1>1, <1>6, MovesType DEF DeleteInjection
  <2>2. injected' \subseteq injected /\ UNCHANGED <<Kubernetes, boards, online>>
    BY <1>6 DEF DeleteInjection
  <2>3. QED
    BY <2>1, <2>2, Abroad DEF TypeOK
<1>7. CASE AddFinalizer(n) \/ MarkPending(n) \/ Record(n)
  <2>1. PICK o \in Object, step \in Steps : Write(n, o, step)
    BY <1>1, <1>7, Changes DEF AddFinalizer, MarkPending, Record
  <2>2. Typed /\ Served
    BY <2>1, MovesType
  <2>3. QED
    BY <1>7, <2>2, AtHome DEF AddFinalizer, MarkPending, Record
<1>8. CASE CreateInjection(n)
  <2>1. Goto(n, mg[n], "created") \/ Goto(n, mg[n], "failed")
    BY <1>8 DEF CreateInjection
  <2>2. Typed
    BY <1>1, <2>1, MovesType
  <2>3. injected' \subseteq boards /\ UNCHANGED <<Kubernetes, boards, online>>
    BY <1>8 DEF CreateInjection, Applies, TypeOK
  <2>4. QED
    BY <2>2, <2>3, Abroad DEF TypeOK
<1>9. CASE Report(n)
  <2>1. Typed
    BY <1>1, <1>9, MovesType DEF Report
  <2>2. Served
    BY <1>9 DEF Report, TypeOK, Served
  <2>3. QED
    BY <1>9, <2>1, <2>2, AtHome DEF Report
<1>10. CASE Crash(n)
  <2>1. Typed
    BY <1>1, <1>10, MovesType DEF Crash
  <2>2. QED
    BY <1>2, <1>10, <2>1, AtHome DEF Crash, Iotronic
<1>11. QED
  BY <1>3, <1>4, <1>5, <1>6, <1>7, <1>8, <1>9, <1>10 DEF Work

\* The watch and the boards keep them too.
LEMMA NextType ==
  ASSUME TypeOK, [Next]_vars
  PROVE  TypeOK'
<1>1. ASSUME NEW n \in Names, Sync(n) PROVE TypeOK'
  BY <1>1 DEF Sync, TypeOK
<1>2. ASSUME NEW b \in Boards, Disconnect(b) \/ Connect(b) \/ RemoveBoard(b)
      PROVE  TypeOK'
  BY <1>2 DEF Disconnect, Connect, RemoveBoard, Environment, TypeOK
<1>3. CASE UNCHANGED vars
  BY <1>3 DEF vars, TypeOK
<1>4. QED
  BY <1>1, <1>2, <1>3, UsersType, WorkType DEF Next

\* The variables keep their types, for either kind and under every fault.
THEOREM TypeCorrect == Spec => []TypeOK
<1>1. Init => TypeOK
  BY BlankType DEF Init, TypeOK, Steps
<1>2. TypeOK /\ [Next]_vars => TypeOK'
  BY NextType
<1>3. QED
  BY <1>1, <1>2, PTL DEF Spec

-----------------------------------------------------------------------------
(* What is injected is accounted for.                                      *)

\* Nobody moves an object to another board, and a board that has the plugin, or
\* exposes the service, is never found without it.
Careful ==
  /\ "move" \notin Faults
  /\ Kind = "BoardPluginInjection" \/ "error" \notin Faults

\* The part of AccountInv about one board, with the object that accounts for it.
Accounts(n, b) ==
  api[n].fin /\ api[n].board = b /\ ~(pc[n] = "absent" /\ fresh[n])

\* What is injected is not found absent.
LEMMA FoundOut ==
  ASSUME Careful, TypeOK, NEW b \in injected
  PROVE  "absent" \notin Verdicts(b)
<1>1. b \in boards
  BY DEF TypeOK
<1>2. CASE Kind = "BoardPluginInjection"
  BY <1>2 DEF Verdicts, PluginVerdict
<1>3. CASE Kind # "BoardPluginInjection"
  <2>1. ReadAnswers(b) = {"ok"} /\ ListAnswers(b) = {"ok"}
    BY <1>1, <1>3 DEF Careful, ReadAnswers, ListAnswers, Unusable
  <2>2. ServiceVerdict(b, "ok", "ok") = "current"
    BY DEF ServiceVerdict
  <2>3. Verdicts(b) = {"current"}
    BY <1>3, <2>1, <2>2 DEF Verdicts
  <2>4. QED
    BY <2>3
<1>4. QED
  BY <1>2, <1>3

\* What a step about one object leaves of another.
Left(m) ==
  /\ api'[m] = api[m] /\ cache'[m] = cache[m] /\ synced'[m] = synced[m]
  /\ pc'[m] = pc[m] /\ mg'[m] = mg[m] /\ fresh'[m] = fresh[m]

\* Workers and users leave the other objects alone.
LEMMA OnlyN ==
  ASSUME TypeOK, NEW n \in Names, NEW m \in Names \ {n},
         Work(n) \/ Refused(n) \/ Crash(n) \/ Users(n) \/ Sync(n)
  PROVE  Left(m)
<1>1. \A o : Update(n, o) => api'[m] = api[m] /\ synced'[m] = synced[m]
  BY DEF Update, TypeOK
<1>2. /\ \A o, step : Goto(n, o, step) =>
           pc'[m] = pc[m] /\ mg'[m] = mg[m] /\ fresh'[m] = fresh[m]
      /\ Stop(n) => pc'[m] = pc[m] /\ mg'[m] = mg[m] /\ fresh'[m] = fresh[m]
  BY DEF Goto, Stop, TypeOK
<1>3. CASE Users(n)
  <2>1. PICK o : UserWrites(n, o)
    BY <1>3 DEF Users, Submit, Move, UserDeletes
  <2>2. QED
    BY <1>1, <2>1 DEF UserWrites, Left, TypeOK
<1>4. CASE Sync(n)
  BY <1>4 DEF Sync, Left, TypeOK
<1>5. CASE Refuse(n) \/ Begin(n) \/ Reread(n)
  BY <1>5 DEF Refuse, Begin, Reread, Kubernetes, Left, TypeOK
<1>6. CASE AddFinalizer(n) \/ MarkPending(n) \/ Record(n)
  <2>1. PICK o, step : Write(n, o, step) /\ cache' = cache
    BY <1>6 DEF AddFinalizer, MarkPending, Record
  <2>2. QED
    BY <1>1, <1>2, <2>1 DEF Write, Left
<1>7. CASE RemoveFinalizer(n)
  BY <1>1, <1>2, <1>7 DEF RemoveFinalizer, Left
<1>8. CASE Report(n)
  BY <1>2, <1>8 DEF Report, Left, TypeOK
<1>9. CASE Observe(n) \/ AwaitVisible(n) \/ DeleteInjection(n) \/ CreateInjection(n)
           \/ GiveUp(n) \/ UpdateInjection(n) \/ Refused(n) \/ Crash(n)
  <2>1. /\ Stop(n) \/ \E o, step : Goto(n, o, step)
        /\ UNCHANGED <<api, cache, synced>>
    BY <1>9
       DEF Observe, AwaitVisible, DeleteInjection, CreateInjection, GiveUp,
           UpdateInjection, Refused, Crash, Kubernetes
  <2>2. QED
    BY <1>2, <2>1 DEF Left
<1>10. QED
  BY <1>3, <1>4, <1>5, <1>6, <1>7, <1>8, <1>9 DEF Work

\* A step about one object that adds no injection, and takes from the object none
\* that it accounts for, leaves all of them accounted for.
LEMMA StillAccounted ==
  ASSUME AccountInv, NEW n \in Names, Holds(n)', \A m \in Names \ {n} : Left(m),
         injected' \subseteq injected,
         \A b \in injected : Accounts(n, b) => Accounts(n, b)'
  PROVE  AccountInv'
<1>1. \A m \in Names : Holds(m)'
  BY DEF AccountInv, Holds, Left
<1>2. ASSUME NEW b \in injected' PROVE \E m \in Names : Accounts(m, b)'
  <2>1. PICK m \in Names : Accounts(m, b)
    BY DEF AccountInv, Accounts
  <2>2. CASE m = n
    BY <2>1, <2>2
  <2>3. CASE m # n
    BY <2>1, <2>3 DEF Left, Accounts
  <2>4. QED
    BY <2>2, <2>3
<1>3. QED
  BY <1>1, <1>2 DEF AccountInv, Accounts

\* Users create objects that hold nothing, and cannot take away what is held.
LEMMA UsersAccount ==
  ASSUME Careful, TypeOK, AccountInv, NEW n \in Names, Users(n)
  PROVE  AccountInv'
<1>1. Holds(n) /\ api[n] \in Object /\ ~Move(n)
  BY DEF AccountInv, TypeOK, Careful, Move
<1>2. PICK o :
        /\ UserWrites(n, o)
        /\ o.fin = api[n].fin /\ (o.del => o.fin)
        /\ (o.fin => o.live /\ o.board = api[n].board)
        /\ (pc[n] = "create" => o.board = api[n].board)
        /\ (o.del = api[n].del \/ Quiet(n))
  <2>1. CASE Submit(n)
    <3>1. PICK b \in Boards : UserWrites(n, [Blank EXCEPT !.live = TRUE, !.board = b])
      BY <2>1 DEF Submit
    <3>2. /\ [Blank EXCEPT !.live = TRUE, !.board = b].fin = FALSE
          /\ [Blank EXCEPT !.live = TRUE, !.board = b].del = FALSE
      BY DEF Blank
    <3>3. api[n].fin = FALSE /\ api[n].del = FALSE /\ pc[n] # "create"
      BY <1>1, <2>1 DEF Submit, Holds, Object, CreateWindow
    <3>4. QED
      BY <3>1, <3>2, <3>3
  <2>2. CASE UserDeletes(n) /\ api[n].fin
    <3>1. UserWrites(n, [api[n] EXCEPT !.del = TRUE])
      BY <2>2 DEF UserDeletes
    <3>2. /\ [api[n] EXCEPT !.del = TRUE].fin = api[n].fin
          /\ [api[n] EXCEPT !.del = TRUE].live = api[n].live
          /\ [api[n] EXCEPT !.del = TRUE].board = api[n].board
      BY <1>1 DEF Object
    <3>3. api[n].live /\ Quiet(n)
      BY <2>2 DEF UserDeletes
    <3>4. QED
      BY <2>2, <3>1, <3>2, <3>3
  <2>3. CASE UserDeletes(n) /\ ~api[n].fin
    <3>1. /\ UserWrites(n, Blank) /\ api[n].fin = FALSE /\ api[n].del = FALSE
          /\ Blank.fin = FALSE /\ Blank.del = FALSE
      BY <1>1, <2>3 DEF UserDeletes, Object, Blank, Holds
    <3>2. pc[n] # "create"
      BY <1>1, <2>3 DEF Holds, CreateWindow
    <3>3. QED
      BY <3>1, <3>2
  <2>4. QED
    BY <1>1, <2>1, <2>2, <2>3 DEF Users
<1>3. /\ api'[n] = o /\ ~synced'[n] /\ ~fresh'[n]
      /\ pc' = pc /\ mg' = mg /\ injected' = injected
  BY <1>2 DEF UserWrites, Update, TypeOK
<1>4. Holds(n)'
  BY <1>1, <1>2, <1>3 DEF Holds, Quiet, CreateWindow
<1>5. \A b \in injected : Accounts(n, b) => Accounts(n, b)'
  BY <1>1, <1>2, <1>3 DEF Accounts
<1>6. QED
  BY <1>3, <1>4, <1>5, OnlyN, StillAccounted

\* A worker that stops has nothing to hold, and holds nothing back.
LEMMA StopAccounts ==
  ASSUME TypeOK, AccountInv, NEW n \in Names, Stop(n),
         \A m \in Names \ {n} : Left(m), injected' \subseteq injected,
         api'[n] = api[n], cache'[n] = cache[n], synced'[n] => synced[n]
  PROVE  AccountInv'
<1>1. Holds(n) /\ pc'[n] = "idle" /\ ~fresh'[n]
  BY DEF AccountInv, Stop, TypeOK
<1>2. Holds(n)'
  BY <1>1 DEF Holds, CreateWindow
<1>3. \A b \in injected : Accounts(n, b) => Accounts(n, b)'
  BY <1>1 DEF Accounts
<1>4. QED
  BY <1>2, <1>3, StillAccounted

\* One that goes on with the copy it has holds on, unless it finds absent what is
\* injected.
LEMMA GotoAccounts ==
  ASSUME TypeOK, AccountInv, NEW n \in Names, NEW step \in Steps \ {"idle", "create"},
         Goto(n, mg[n], step), pc[n] # "idle",
         step \in CreateWindow => pc[n] \in CreateWindow,
         step = "absent" => mg[n].board \notin injected,
         \A m \in Names \ {n} : Left(m), injected' \subseteq injected,
         UNCHANGED <<api, cache, synced>>
  PROVE  AccountInv'
<1>1. Holds(n) /\ pc'[n] = step /\ mg'[n] = mg[n] /\ fresh'[n] = fresh[n]
  BY DEF AccountInv, Goto, TypeOK
<1>2. Holds(n)'
  BY <1>1 DEF Holds
<1>3. \A b \in injected : Accounts(n, b) => Accounts(n, b)'
  BY <1>1 DEF Accounts, Holds
<1>4. QED
  BY <1>2, <1>3, StillAccounted

\* One that writes its copy, with the finalizer on it, holds on, or stops at a
\* conflict.
LEMMA WriteAccounts ==
  ASSUME TypeOK, AccountInv, NEW n \in Names, NEW o, NEW step \in Steps \ {"idle"},
         Write(n, o, step), pc[n] # "idle",
         o.fin, o.live = mg[n].live, o.board = mg[n].board, o.del = mg[n].del,
         step \in CreateWindow => ~mg[n].del,
         step = "absent" => pc[n] = "absent",
         \A m \in Names \ {n} : Left(m), UNCHANGED <<cache, injected>>
  PROVE  AccountInv'
<1>1. CASE ~fresh[n]
  <2>1. Stop(n) /\ UNCHANGED <<api, synced>>
    BY <1>1 DEF Write
  <2>2. QED
    BY <2>1, StopAccounts
<1>2. CASE fresh[n]
  <2>1. /\ api'[n] = o /\ ~synced'[n] /\ mg'[n] = o /\ pc'[n] = step /\ fresh'[n]
        /\ Holds(n)
    BY <1>2 DEF Write, Update, Goto, TypeOK, AccountInv
  <2>2. Holds(n)'
    BY <1>2, <2>1 DEF Holds, CreateWindow
  <2>3. \A b \in injected : Accounts(n, b) => Accounts(n, b)'
    BY <1>2, <2>1 DEF Accounts, Holds
  <2>4. QED
    BY <2>2, <2>3, StillAccounted
<1>3. QED
  BY <1>1, <1>2

\* What is created is accounted for by the object it is created for.
LEMMA CreateAccounts ==
  ASSUME TypeOK, AccountInv, NEW n \in Names, CreateInjection(n)
  PROVE  AccountInv'
<1>1. PICK step \in {"created", "failed"} : Goto(n, mg[n], step)
  BY DEF CreateInjection
<1>2. /\ pc[n] = "create" /\ UNCHANGED <<api, cache, synced>>
      /\ injected' \subseteq injected \cup {mg[n].board}
  BY DEF CreateInjection, Kubernetes
<1>3. /\ Holds(n) /\ pc'[n] = step /\ mg'[n] = mg[n] /\ fresh'[n] = fresh[n]
      /\ \A m \in Names \ {n} : Left(m)
  BY <1>1, OnlyN DEF AccountInv, Goto, TypeOK, Work
<1>4. \A m \in Names : Holds(m)'
  BY <1>2, <1>3 DEF AccountInv, Holds, Left, CreateWindow
<1>5. ASSUME NEW b \in injected' PROVE \E m \in Names : Accounts(m, b)'
  <2>1. CASE b \in injected
    <3>1. PICK m \in Names : Accounts(m, b)
      BY <2>1 DEF AccountInv, Accounts
    <3>2. Accounts(m, b)'
      BY <1>2, <1>3, <3>1 DEF Accounts, Left
    <3>3. QED
      BY <3>2
  <2>2. CASE b \notin injected
    <3>1. b = api[n].board /\ api[n].fin
      BY <1>2, <1>3, <2>2 DEF Holds, CreateWindow
    <3>2. Accounts(n, b)'
      BY <1>2, <1>3, <3>1 DEF Accounts
    <3>3. QED
      BY <3>2
  <2>3. QED
    BY <2>1, <2>2
<1>6. QED
  BY <1>4, <1>5 DEF AccountInv, Accounts

\* A worker takes no account away, nor does the API server when it lets an object go.
LEMMA WorkAccounts ==
  ASSUME Careful, TypeOK, AccountInv, NEW n \in Names, Work(n) \/ Refused(n) \/ Crash(n)
  PROVE  AccountInv'
<1>1. /\ api[n] \in Object /\ mg[n] \in Object /\ pc[n] \in Steps /\ Holds(n)
      /\ {"observe", "absent", "stale", "current", "create", "created", "failed", "report"}
            \subseteq Steps
      /\ \A m \in Names \ {n} : Left(m)
  BY OnlyN DEF AccountInv, TypeOK, Steps
<1>2. CASE RemoveFinalizer(n)
  <2>1. Stop(n) /\ UNCHANGED <<cache, injected>> /\ pc[n] = "absent"
    BY <1>2 DEF RemoveFinalizer, Iotronic
  <2>2. CASE ~fresh[n]
    BY <1>1, <1>2, <2>1, <2>2, StopAccounts DEF RemoveFinalizer
  <2>3. CASE fresh[n]
    <3>1. api'[n] = Blank /\ ~synced'[n] /\ pc'[n] = "idle" /\ ~fresh'[n]
      BY <1>2, <2>3 DEF RemoveFinalizer, Update, Stop, TypeOK
    <3>2. Holds(n)'
      BY <3>1 DEF Holds, Blank, CreateWindow
    <3>3. \A b \in injected : ~Accounts(n, b)
      BY <2>1, <2>3 DEF Accounts
    <3>4. QED
      BY <1>1, <2>1, <3>2, <3>3, StillAccounted
  <2>4. QED
    BY <2>2, <2>3
<1>3. CASE Refuse(n) \/ Begin(n) \/ Reread(n)
  <2>1. /\ UNCHANGED <<api, cache, synced, injected>>
        /\ mg'[n] = cache[n] /\ fresh'[n] = synced[n]
        /\ \/ pc'[n] \in {"report", "observe"}
           \/ pc'[n] = pc[n] /\ pc[n] \in {"created", "failed"}
        /\ pc[n] = "idle" => cache[n].live
    <3>1. CASE Refuse(n)
      BY <3>1 DEF Refuse, Kubernetes, Iotronic, TypeOK
    <3>2. CASE Begin(n)
      BY <3>2 DEF Begin, Kubernetes, Iotronic, TypeOK
    <3>3. CASE Reread(n)
      BY <3>3 DEF Reread, Kubernetes, Iotronic, TypeOK
    <3>4. QED
      BY <1>3, <3>1, <3>2, <3>3
  <2>2. fresh'[n] => api[n].live
    BY <1>1, <1>3, <2>1 DEF Refuse, Begin, Reread, Holds, CreateWindow
  <2>3. Holds(n)'
    BY <1>1, <2>1, <2>2 DEF Holds, CreateWindow
  <2>4. \A b \in injected : Accounts(n, b) => Accounts(n, b)'
    BY <2>1 DEF Accounts
  <2>5. QED
    BY <1>1, <2>1, <2>3, <2>4, StillAccounted
<1>4. CASE Observe(n)
  <2>1. /\ UNCHANGED <<api, cache, synced, injected>> /\ pc[n] = "observe"
    BY <1>4 DEF Observe, Kubernetes, Iotronic
  <2>2. PICK v \in Verdicts(mg[n].board) :
          \/ v = "error" /\ Stop(n)
          \/ v \in {"absent", "stale", "current"} /\ Goto(n, mg[n], v)
    <3>1. Verdicts(mg[n].board) \subseteq {"absent", "stale", "current", "error"}
      BY DEF Verdicts, PluginVerdict, ServiceVerdict
    <3>2. QED
      BY <1>4, <3>1 DEF Observe
  <2>3. CASE Stop(n)
    BY <1>1, <2>1, <2>3, StopAccounts
  <2>4. CASE v \in {"absent", "stale", "current"} /\ Goto(n, mg[n], v)
    <3>1. v = "absent" => mg[n].board \notin injected
      BY FoundOut
    <3>2. QED
      BY <1>1, <2>1, <2>4, <3>1, GotoAccounts DEF CreateWindow
  <2>5. QED
    BY <2>2, <2>3, <2>4
<1>5. CASE AwaitVisible(n) \/ GiveUp(n) \/ UpdateInjection(n) \/ Crash(n) \/ Report(n)
  <2>1. Stop(n) /\ UNCHANGED <<api, cache, injected>> /\ (synced'[n] => synced[n])
    BY <1>5
       DEF AwaitVisible, GiveUp, UpdateInjection, Crash, Report, Kubernetes, Iotronic,
           TypeOK
  <2>2. QED
    BY <1>1, <2>1, StopAccounts
<1>6. CASE DeleteInjection(n) \/ Refused(n)
  <2>1. /\ UNCHANGED <<api, cache, synced>> /\ injected' \subseteq injected
        /\ \/ Goto(n, mg[n], "report") /\ pc[n] # "idle"
           \/ Goto(n, mg[n], "failed") /\ pc[n] = "create"
    BY <1>6 DEF DeleteInjection, Refused, Exists, Kubernetes, Iotronic
  <2>2. QED
    BY <1>1, <2>1, GotoAccounts DEF CreateWindow
<1>7. CASE AddFinalizer(n) \/ MarkPending(n) \/ Record(n)
  <2>1. UNCHANGED <<cache, injected>> /\ pc[n] \notin {"idle", "create"}
    BY <1>7 DEF AddFinalizer, MarkPending, Record, Exists, Iotronic
  <2>2. PICK o \in Object, step \in {pc[n], "create", "report"} :
          /\ Write(n, o, step)
          /\ o.fin /\ o.live = mg[n].live /\ o.board = mg[n].board
          /\ o.del = mg[n].del /\ (step \in CreateWindow => ~mg[n].del)
    <3>1. CASE AddFinalizer(n)
      <4>1. LET o == [mg[n] EXCEPT !.fin = TRUE]
            IN  o \in Object /\ o.fin /\ o.live = mg[n].live /\ o.board = mg[n].board
                /\ o.del = mg[n].del
        BY <1>1 DEF Object
      <4>2. QED
        BY <3>1, <4>1 DEF AddFinalizer, Exists, CreateWindow
    <3>2. CASE MarkPending(n)
      <4>1. LET o == [mg[n] EXCEPT !.ann = "pending"]
            IN  o \in Object /\ o.fin = mg[n].fin /\ o.live = mg[n].live
                /\ o.board = mg[n].board /\ o.del = mg[n].del
        BY <1>1 DEF Object
      <4>2. QED
        BY <3>2, <4>1 DEF MarkPending
    <3>3. CASE Record(n)
      <4>1. mg[n].fin
        BY <1>1, <3>3 DEF Record, Holds, CreateWindow
      <4>2. PICK mark \in {"succeeded", "none"} :
              Write(n, [mg[n] EXCEPT !.ann = mark], "report")
        BY <3>3 DEF Record
      <4>3. LET o == [mg[n] EXCEPT !.ann = mark]
            IN  o \in Object /\ o.fin = mg[n].fin /\ o.live = mg[n].live
                /\ o.board = mg[n].board /\ o.del = mg[n].del
        BY <1>1, <4>2 DEF Object
      <4>4. QED
        BY <4>1, <4>2, <4>3 DEF CreateWindow
    <3>4. QED
      BY <1>7, <3>1, <3>2, <3>3
  <2>3. step \in Steps \ {"idle"} /\ (step = "absent" => pc[n] = "absent")
    BY <1>1, <2>1, <2>2
  <2>4. QED
    BY <1>1, <2>1, <2>2, <2>3, WriteAccounts
<1>8. QED
  BY <1>2, <1>3, <1>4, <1>5, <1>6, <1>7, CreateAccounts DEF Work

\* What is injected stays accounted for whatever boards do, and the watch.
LEMMA NextAccounts ==
  ASSUME Careful, TypeOK, AccountInv, [Next]_vars
  PROVE  AccountInv'
<1>1. ASSUME NEW n \in Names, Sync(n) PROVE AccountInv'
  <2>1. /\ api' = api /\ pc' = pc /\ mg' = mg /\ fresh' = fresh /\ injected' = injected
        /\ cache'[n] = api[n] /\ synced'[n]
    BY <1>1 DEF Sync, TypeOK
  <2>2. Holds(n)' /\ \A b \in injected : Accounts(n, b) => Accounts(n, b)'
    BY <2>1 DEF AccountInv, Holds, Accounts
  <2>3. QED
    BY <1>1, <2>1, <2>2, OnlyN, StillAccounted
<1>2. ASSUME NEW b \in Boards, Disconnect(b) \/ Connect(b) \/ RemoveBoard(b)
      PROVE  AccountInv'
  BY <1>2 DEF Disconnect, Connect, RemoveBoard, Environment, AccountInv, Holds
<1>3. CASE UNCHANGED vars
  BY <1>3 DEF vars, AccountInv, Holds
<1>4. QED
  BY <1>1, <1>2, <1>3, UsersAccount, WorkAccounts DEF Next

\* As long as no object is moved, and for services no read refused, whatever is
\* injected has an object whose finalizer holds it and whose worker is not about to
\* let it go on a copy that is current, for any number of objects and boards, however
\* far the cache lags and under every other fault.
THEOREM Accounted == ASSUME Careful PROVE Spec => []AccountInv
<1>1. Init => AccountInv
  BY DEF Init, AccountInv, Holds, Blank, CreateWindow
<1>2. TypeOK /\ AccountInv /\ [Next]_vars => AccountInv'
  BY NextAccounts
<1>3. QED
  BY <1>1, <1>2, TypeCorrect, PTL DEF Spec

\* And so nothing is left on a board that no object accounts for.
THEOREM NothingOrphaned == ASSUME Careful PROVE Spec => []NoOrphan
<1>1. AccountInv => NoOrphan
  BY DEF AccountInv, Holds, NoOrphan
<1>2. QED
  BY <1>1, Accounted, PTL

-----------------------------------------------------------------------------
(* Every step is one of the lifecycle's, or a stutter.                     *)

Wants == [m \in Names |-> Wanted(api[m])]

Leaves == [m \in Names |-> Leaving(api[m])]

Tells == [m \in Names |-> Told(m)]

\* What objects ask for and what is told of them, after a step about n.
LEMMA ClaimsMove ==
  ASSUME NEW n \in Names, \A m \in Names \ {n} : Left(m)
  PROVE  /\ Wants' = [Wants EXCEPT ![n] = Wanted(api'[n])]
         /\ Leaves' = [Leaves EXCEPT ![n] = Leaving(api'[n])]
         /\ Tells' = [Tells EXCEPT ![n] = Told(n)']
BY DEF Wants, Leaves, Tells, Told, Left

\* An object that is live names its board, either way.
LEMMA NamedBoard ==
  ASSUME NEW n \in Names, Holds(n)
  PROVE  Wants[n] \cup Leaves[n] = IF api[n].live THEN {api[n].board} ELSE {}
BY DEF Wants, Leaves, Wanted, Leaving, Holds

SameClaims(n) ==
  /\ Wanted(api'[n]) = Wanted(api[n])
  /\ Leaving(api'[n]) = Leaving(api[n])

\* A write of the worker's copy leaves what the object asks for and what is told of
\* it, or meets a conflict.
LEMMA WriteClaims ==
  ASSUME TypeOK, NEW n \in Names, Holds(n), pc[n] # "idle", NEW o, NEW step,
         Write(n, o, step), o.live = mg[n].live, o.board = mg[n].board, o.del = mg[n].del,
         UNCHANGED cache
  PROVE  SameClaims(n) /\ Told(n)' \subseteq Told(n)
<1>1. CASE fresh[n]
  <2>1. api'[n] = o /\ mg'[n] = o
    BY <1>1 DEF Write, Update, Goto, TypeOK
  <2>2. SameClaims(n)
    BY <1>1, <2>1 DEF Holds, SameClaims, Wanted, Leaving
  <2>3. QED
    BY <2>1, <2>2 DEF Told, Leaving
<1>2. CASE ~fresh[n]
  <2>1. api' = api /\ pc'[n] = "idle"
    BY <1>2 DEF Write, Stop, TypeOK
  <2>2. QED
    BY <2>1 DEF SameClaims, Told
<1>3. QED
  BY <1>1, <1>2

\* A worker changes nothing in what is asked for, until it lets the object go; and it
\* is told of a deletion by the cache alone.
LEMMA WorkClaims ==
  ASSUME TypeOK, NEW n \in Names, Holds(n), Work(n) \/ Refused(n) \/ Crash(n)
  PROVE  /\ (RemoveFinalizer(n) /\ fresh[n]) \/ SameClaims(n)
         /\ Told(n)' \subseteq Told(n)
<1>1. mg[n] \in Object
  BY DEF TypeOK
<1>2. ASSUME Stop(n), cache' = cache PROVE Told(n)' \subseteq Told(n)
  <2>1. pc'[n] = "idle"
    BY <1>2 DEF Stop, TypeOK
  <2>2. QED
    BY <1>2, <2>1 DEF Told
<1>3. CASE RemoveFinalizer(n)
  BY <1>2, <1>3 DEF RemoveFinalizer, SameClaims
<1>4. CASE Refuse(n) \/ Begin(n) \/ Reread(n)
  <2>1. api' = api /\ cache' = cache /\ mg'[n] = cache[n]
    BY <1>4 DEF Refuse, Begin, Reread, Kubernetes, TypeOK
  <2>2. QED
    BY <2>1 DEF SameClaims, Told
<1>5. CASE AwaitVisible(n) \/ GiveUp(n) \/ UpdateInjection(n) \/ Report(n) \/ Crash(n)
  <2>1. Stop(n) /\ api' = api /\ cache' = cache
    BY <1>5 DEF AwaitVisible, GiveUp, UpdateInjection, Report, Crash, Kubernetes
  <2>2. QED
    BY <1>2, <2>1 DEF SameClaims
<1>6. CASE Observe(n) \/ DeleteInjection(n) \/ CreateInjection(n) \/ Refused(n)
  <2>1. /\ api' = api /\ cache' = cache /\ pc[n] # "idle"
        /\ Stop(n) \/ \E step : Goto(n, mg[n], step)
    BY <1>6 DEF Observe, DeleteInjection, CreateInjection, Refused, Exists, Kubernetes
  <2>2. CASE Stop(n)
    BY <1>2, <2>1, <2>2 DEF SameClaims
  <2>3. ASSUME NEW step, Goto(n, mg[n], step) PROVE Told(n)' \subseteq Told(n)
    <3>1. mg'[n] = mg[n]
      BY <2>3 DEF Goto, TypeOK
    <3>2. QED
      BY <2>1, <3>1 DEF Told
  <2>4. QED
    BY <2>1, <2>2, <2>3 DEF SameClaims
<1>7. CASE AddFinalizer(n) \/ MarkPending(n) \/ Record(n)
  <2>1. PICK o, step :
          /\ Write(n, o, step)
          /\ o.live = mg[n].live /\ o.board = mg[n].board /\ o.del = mg[n].del
    <3>1. CASE AddFinalizer(n)
      <4>1. LET o == [mg[n] EXCEPT !.fin = TRUE]
            IN  o.live = mg[n].live /\ o.board = mg[n].board /\ o.del = mg[n].del
        BY <1>1 DEF Object
      <4>2. QED
        BY <3>1, <4>1 DEF AddFinalizer
    <3>2. ASSUME NEW mark, NEW step, Write(n, [mg[n] EXCEPT !.ann = mark], step)
          PROVE  \E o : /\ Write(n, o, step)
                        /\ o.live = mg[n].live /\ o.board = mg[n].board
                        /\ o.del = mg[n].del
      <4>1. LET o == [mg[n] EXCEPT !.ann = mark]
            IN  o.live = mg[n].live /\ o.board = mg[n].board /\ o.del = mg[n].del
        BY <1>1 DEF Object
      <4>2. QED
        BY <3>2, <4>1
    <3>3. QED
      BY <1>7, <3>1, <3>2 DEF MarkPending, Record
  <2>2. pc[n] # "idle" /\ cache' = cache
    BY <1>7 DEF AddFinalizer, MarkPending, Record, Exists
  <2>3. QED
    BY <2>1, <2>2, WriteClaims
<1>8. QED
  BY <1>3, <1>4, <1>5, <1>6, <1>7 DEF Work

\* A step of which no more is seen than what is told of n.
LEMMA Hears ==
  ASSUME NEW n \in Names, \A m \in Names \ {n} : Left(m), SameClaims(n),
         Told(n)' \subseteq Told(n) \cup Leaving(api[n]), UNCHANGED <<online, injected>>
  PROVE  Lifecycle!Hear(n)
<1>1. UNCHANGED <<Wants, Leaves>>
  <2>1. Wants[n] = Wanted(api[n]) /\ Leaves[n] = Leaving(api[n])
    BY DEF Wants, Leaves
  <2>2. Wants' = [Wants EXCEPT ![n] = Wants[n]] /\ Leaves' = [Leaves EXCEPT ![n] = Leaves[n]]
    BY <2>1, ClaimsMove DEF SameClaims
  <2>3. QED
    BY <2>2 DEF Wants, Leaves
<1>2. Tells' = [Tells EXCEPT ![n] = Told(n)']
  BY ClaimsMove
<1>3. Told(n)' \in SUBSET (Tells[n] \cup Leaves[n])
  BY DEF Tells, Leaves
<1>4. QED
  BY <1>1, <1>2, <1>3 DEF Lifecycle!Hear, Wants, Leaves, Tells

\* Whoever is not held by the finalizer, or has just been found absent, may leave.
LEMMA MayLeave ==
  ASSUME AccountInv, NEW n \in Names, api'[n] = Blank,
         \A m \in Names \ {n} : Left(m),
         ~api[n].fin \/ (pc[n] = "absent" /\ fresh[n]),
         Told(n)' \subseteq Told(n), UNCHANGED <<online, injected>>
  PROVE  Lifecycle!Leave(n)
<1>1. Wants' = [Wants EXCEPT ![n] = {}] /\ Leaves' = [Leaves EXCEPT ![n] = {}]
  BY ClaimsMove DEF Wanted, Leaving, Blank
<1>2. ASSUME NEW b \in injected
      PROVE  \E m \in Names \ {n} : b \in Wants[m] \cup Leaves[m]
  <2>1. PICK m \in Names :
          api[m].fin /\ api[m].board = b /\ ~(pc[m] = "absent" /\ fresh[m])
    BY DEF AccountInv
  <2>2. m # n /\ api[m].live
    BY <2>1 DEF AccountInv, Holds
  <2>3. QED
    BY <2>1, <2>2, NamedBoard DEF AccountInv
<1>3. Tells' = [Tells EXCEPT ![n] = Told(n)'] /\ Told(n)' \in SUBSET Tells[n]
  BY ClaimsMove DEF Tells
<1>4. QED
  BY <1>1, <1>2, <1>3 DEF Lifecycle!Leave, Lifecycle!Named, Wants, Leaves, Tells

\* Users ask, withdraw, and leave at once what no finalizer holds; nobody is told.
LEMMA UsersRefine ==
  ASSUME Careful, TypeOK, AccountInv, NEW n \in Names, Users(n)
  PROVE  Lifecycle!Ask(n) \/ Lifecycle!Withdraw(n) \/ Lifecycle!Leave(n)
<1>1. api[n] \in Object /\ Holds(n) /\ \A m \in Names \ {n} : Left(m)
  BY OnlyN DEF TypeOK, AccountInv
<1>2. ASSUME NEW o, UserWrites(n, o)
      PROVE  /\ Wants' = [Wants EXCEPT ![n] = Wanted(o)]
             /\ Leaves' = [Leaves EXCEPT ![n] = Leaving(o)]
             /\ api'[n] = o /\ Told(n)' = Told(n)
             /\ UNCHANGED <<Tells, online, injected>>
  <2>1. api'[n] = o /\ UNCHANGED <<cache, pc, mg, online, injected>>
    BY <1>2 DEF UserWrites, Update, TypeOK
  <2>2. \A m \in Names : Told(m)' = Told(m)
    BY <2>1 DEF Told
  <2>3. QED
    BY <1>1, <2>1, <2>2, ClaimsMove DEF Tells
<1>3. CASE Submit(n)
  <2>1. PICK b \in Boards : UserWrites(n, [Blank EXCEPT !.live = TRUE, !.board = b])
    BY <1>3 DEF Submit
  <2>2. /\ Wanted([Blank EXCEPT !.live = TRUE, !.board = b]) = {b}
        /\ Leaving([Blank EXCEPT !.live = TRUE, !.board = b]) = {}
    BY DEF Wanted, Leaving, Blank
  <2>3. Wants[n] \cup Leaves[n] = {}
    BY <1>1, <1>3, NamedBoard DEF Submit
  <2>4. Wants' = [Wants EXCEPT ![n] = {b}] /\ Leaves' = Leaves
    <3>1. Wants' = [Wants EXCEPT ![n] = {b}] /\ Leaves' = [Leaves EXCEPT ![n] = {}]
      BY <1>2, <2>1, <2>2
    <3>2. Leaves[n] = {}
      BY <2>3
    <3>3. Leaves = [Leaves EXCEPT ![n] = {}]
      BY <3>2 DEF Leaves
    <3>4. QED
      BY <3>1, <3>3
  <2>5. QED
    BY <1>2, <2>1, <2>3, <2>4 DEF Lifecycle!Ask, Lifecycle!Named, Wants, Leaves, Tells
<1>4. CASE UserDeletes(n) /\ api[n].fin
  <2>1. UserWrites(n, [api[n] EXCEPT !.del = TRUE])
    BY <1>4 DEF UserDeletes
  <2>2. /\ Wanted([api[n] EXCEPT !.del = TRUE]) = {}
        /\ Leaving([api[n] EXCEPT !.del = TRUE]) = {api[n].board}
    BY <1>1, <1>4 DEF Wanted, Leaving, Object, UserDeletes
  <2>3. Wants[n] = {api[n].board}
    BY <1>4 DEF Wants, Wanted, UserDeletes
  <2>4. /\ Wants' = [Wants EXCEPT ![n] = {}]
        /\ Leaves' = [Leaves EXCEPT ![n] = Wants[n]]
    BY <1>2, <2>1, <2>2, <2>3
  <2>5. QED
    BY <1>2, <2>1, <2>3, <2>4 DEF Lifecycle!Withdraw, Wants, Leaves, Tells
<1>5. CASE UserDeletes(n) /\ ~api[n].fin
  <2>1. UserWrites(n, Blank)
    BY <1>5 DEF UserDeletes
  <2>2. QED
    BY <1>1, <1>2, <1>5, <2>1, MayLeave
<1>6. ~Move(n)
  BY DEF Careful, Move
<1>7. QED
  BY <1>3, <1>4, <1>5, <1>6 DEF Users

\* A finalizer that goes lets the object leave, while the cache still shows it.
LEMMA ReleaseRefines ==
  ASSUME TypeOK, AccountInv, NEW n \in Names, RemoveFinalizer(n), fresh[n]
  PROVE  Lifecycle!Leave(n)
<1>1. /\ api'[n] = Blank /\ pc[n] = "absent" /\ UNCHANGED <<online, injected>>
      /\ \A m \in Names \ {n} : Left(m)
  BY OnlyN DEF RemoveFinalizer, Update, Iotronic, TypeOK, Work
<1>2. Told(n)' \subseteq Told(n)
  BY WorkClaims DEF Work, AccountInv
<1>3. QED
  BY <1>1, <1>2, MayLeave

\* What is injected is asked for at that moment; in a hurry, or until just now.
LEMMA CreateRefines ==
  ASSUME TypeOK, AccountInv, NEW n \in Names, CreateInjection(n)
  PROVE  \/ \E b \in Boards : Lifecycle!Inject(b)
         \/ UNCHANGED <<Wants, Leaves, Tells, online, injected>>
<1>1. /\ pc[n] = "create" /\ UNCHANGED <<api, cache, boards, online>>
      /\ injected' = IF Applies(mg[n].board) THEN injected \cup {mg[n].board} ELSE injected
      /\ \E step : Goto(n, mg[n], step) /\ step # "idle"
  BY DEF CreateInjection, Kubernetes
<1>2. UNCHANGED <<Wants, Leaves, Tells>>
  <2>1. mg'[n] = mg[n] /\ pc'[n] # "idle" /\ \A m \in Names \ {n} : Left(m)
    BY <1>1, OnlyN DEF Goto, TypeOK, Work
  <2>2. \A m \in Names : Told(m)' = Told(m)
    BY <1>1, <2>1 DEF Told, Left
  <2>3. QED
    BY <1>1, <2>2 DEF Wants, Leaves, Tells
<1>3. /\ api[n].live /\ api[n].board = mg[n].board
      /\ "race" \in Faults \/ ~api[n].del
  BY <1>1 DEF AccountInv, Holds, CreateWindow
<1>4. CASE Applies(mg[n].board)
  <2> DEFINE b == mg[n].board
  <2>1. b \in Boards /\ b \in online /\ injected' = injected \cup {b}
    BY <1>1, <1>4 DEF Applies, TypeOK
  <2>2. b \in IF "race" \in Faults THEN Wants[n] \cup Leaves[n] ELSE Wants[n]
    BY <1>3, NamedBoard DEF Wants, Wanted, AccountInv
  <2> HIDE DEF b
  <2>3. Lifecycle!Inject(b)
    BY <1>1, <1>2, <2>1, <2>2 DEF Lifecycle!Inject, Lifecycle!Named, Wants, Leaves, Tells
  <2>4. QED
    BY <2>1, <2>3
<1>5. QED
  BY <1>1, <1>2, <1>4

\* What is undone is undone for an object of which a copy shows it deleted.
LEMMA DeleteRefines ==
  ASSUME TypeOK, AccountInv, NEW n \in Names, DeleteInjection(n)
  PROVE  \/ \E b \in Boards : Lifecycle!Undo(b)
         \/ UNCHANGED <<Wants, Leaves, Tells, online, injected>>
<1>1. /\ pc[n] # "idle" /\ mg[n].del /\ UNCHANGED <<api, cache, boards, online>>
      /\ injected' = IF Applies(mg[n].board) THEN injected \ {mg[n].board} ELSE injected
      /\ Goto(n, mg[n], "report")
  BY DEF DeleteInjection, Exists, Kubernetes
<1>2. UNCHANGED <<Wants, Leaves, Tells>>
  <2>1. mg'[n] = mg[n] /\ pc'[n] # "idle" /\ \A m \in Names \ {n} : Left(m)
    BY <1>1, OnlyN DEF Goto, TypeOK, Work
  <2>2. \A m \in Names : Told(m)' = Told(m)
    BY <1>1, <2>1 DEF Told, Left
  <2>3. QED
    BY <1>1, <2>2 DEF Wants, Leaves, Tells
<1>3. CASE Applies(mg[n].board)
  <2> DEFINE b == mg[n].board
  <2>1. b \in Boards /\ b \in online /\ injected' = injected \ {b}
    BY <1>1, <1>3 DEF Applies, TypeOK
  <2>2. b \in Tells[n]
    BY <1>1 DEF Tells, Told, Leaving
  <2> HIDE DEF b
  <2>3. Lifecycle!Undo(b)
    BY <1>1, <1>2, <2>1, <2>2 DEF Lifecycle!Undo, Wants, Leaves, Tells
  <2>4. QED
    BY <2>1, <2>3
<1>4. QED
  BY <1>1, <1>2, <1>3

\* Of all other steps of workers no more is seen than what they have heard, and of
\* boards their connection.
LEMMA NextRefines ==
  ASSUME Careful, TypeOK, AccountInv, [Next]_vars
  PROVE  Lifecycle!Next \/ UNCHANGED <<Wants, Leaves, Tells, online, injected>>
<1>1. ASSUME NEW n \in Names, Work(n) \/ Refused(n) \/ Crash(n)
      PROVE  Lifecycle!Next \/ UNCHANGED <<Wants, Leaves, Tells, online, injected>>
  <2>1. CASE RemoveFinalizer(n) /\ fresh[n]
    BY <2>1, ReleaseRefines DEF Lifecycle!Next
  <2>2. CASE CreateInjection(n)
    BY <2>2, CreateRefines DEF Lifecycle!Next
  <2>3. CASE DeleteInjection(n)
    BY <2>3, DeleteRefines DEF Lifecycle!Next
  <2>4. CASE SameClaims(n) /\ ~CreateInjection(n) /\ ~DeleteInjection(n)
    <3>1. UNCHANGED <<online, injected>>
      BY <1>1, <2>4
         DEF Work, Refuse, Begin, Observe, AwaitVisible, RemoveFinalizer, AddFinalizer,
             MarkPending, Record, Reread, GiveUp, UpdateInjection, Report, Refused,
             Crash, Iotronic
    <3>2. Told(n)' \subseteq Told(n) /\ \A m \in Names \ {n} : Left(m)
      BY <1>1, OnlyN, WorkClaims DEF AccountInv
    <3>3. Lifecycle!Hear(n)
      BY <2>4, <3>1, <3>2, Hears
    <3>4. QED
      BY <3>3 DEF Lifecycle!Next
  <2>5. QED
    BY <1>1, <2>1, <2>2, <2>3, <2>4, WorkClaims DEF AccountInv
<1>2. ASSUME NEW n \in Names, Users(n) PROVE Lifecycle!Next
  BY <1>2, UsersRefine DEF Lifecycle!Next
<1>3. ASSUME NEW n \in Names, Sync(n) PROVE Lifecycle!Next
  <2>1. /\ UNCHANGED <<api, pc, mg, online, injected>> /\ cache'[n] = api[n]
        /\ \A m \in Names \ {n} : Left(m)
    BY <1>3, OnlyN DEF Sync, TypeOK
  <2>2. SameClaims(n) /\ Told(n)' \subseteq Told(n) \cup Leaving(api[n])
    BY <2>1 DEF SameClaims, Told
  <2>3. Lifecycle!Hear(n)
    BY <2>1, <2>2, Hears
  <2>4. QED
    BY <2>3 DEF Lifecycle!Next
<1>4. ASSUME NEW b \in Boards, Disconnect(b) \/ Connect(b) \/ RemoveBoard(b)
      PROVE  Lifecycle!Disconnect(b) \/ Lifecycle!Connect(b)
  <2>1. UNCHANGED <<Wants, Leaves, Tells>>
    BY <1>4 DEF Disconnect, Connect, RemoveBoard, Environment, Wants, Leaves, Tells, Told
  <2>2. CASE Connect(b)
    BY <2>1, <2>2 DEF Connect, Lifecycle!Connect, Wants, Leaves, Tells
  <2>3. CASE Disconnect(b)
    <3>1. injected' \in {injected, injected \ {b}}
      BY <2>3 DEF Disconnect
    <3>2. QED
      BY <2>1, <2>3, <3>1 DEF Disconnect, Lifecycle!Disconnect, Wants, Leaves, Tells
  <2>4. CASE RemoveBoard(b)
    BY <2>1, <2>4 DEF RemoveBoard, Lifecycle!Disconnect, Wants, Leaves, Tells
  <2>5. QED
    BY <1>4, <2>2, <2>3, <2>4
<1>5. CASE UNCHANGED vars
  BY <1>5 DEF vars, Wants, Leaves, Tells, Told
<1>6. QED
  BY <1>1, <1>2, <1>3, <1>4, <1>5 DEF Next, Lifecycle!Next

\* When Careful, the controllers for injections keep the promise that
\* InjectionLifecycle states, for any number of objects that name the same board and
\* however far the cache lags: they undo only what they were told is left.
THEOREM ImplementsLifecycle == ASSUME Careful PROVE Spec => Implements
<1>1. Init => Lifecycle!Init
  BY DEF Init, Lifecycle!Init, Wanted, Leaving, Told, Blank
<1>2. TypeOK /\ AccountInv /\ [Next]_vars => [Lifecycle!Next]_(Lifecycle!vars)
  BY NextRefines DEF Lifecycle!vars, Wants, Leaves, Tells
<1>3. QED
  BY <1>1, <1>2, TypeCorrect, Accounted, PTL DEF Spec, Implements, Lifecycle!Spec
=============================================================================
