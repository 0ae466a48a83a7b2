--------------------------- MODULE BoardInjection ---------------------------
(***************************************************************************)
(* BoardPluginInjection and BoardServiceInjection: objects that ask for    *)
(* one plugin to be injected into a board, or for one service to be        *)
(* exposed on it.  Such an object has no uuid of its own; what it stands   *)
(* for is a pair (board, plugin or service), and several objects may name  *)
(* the same pair.  The plugin or service is fixed here, so that a pair is  *)
(* a board.                                                                *)
(*                                                                         *)
(* The engine is the managed.Reconciler of module ManagedResource.  As     *)
(* there, a worker reads the object from the controller's informer cache,  *)
(* which may lag behind the API server for as long as it likes, and a      *)
(* write from a copy that is not the current version fails.                *)
(***************************************************************************)
EXTENDS FiniteSets

CONSTANTS
  Kind,     \* "BoardPluginInjection" or "BoardServiceInjection"
  Names,    \* the names of its objects
  Boards,   \* the boards that may be named
  Faults    \* what may go wrong, see KnownFaults

(***************************************************************************)
(*   error     a request is refused, lost on the way, or answered with a   *)
(*             body that does not decode; a read or a write without effect *)
(*   lost      a write takes effect and its answer is lost                 *)
(*   offline   boards disconnect; the conductor then refuses to act on     *)
(*             them, and may forget what was injected                      *)
(*   gone      boards are removed from IoTronic                            *)
(*   crash     the provider process dies and is restarted                  *)
(*   race      users write an object while its pair is being injected      *)
(*   move      users change the board an object names: the type marks the  *)
(*             field immutable, but no rule of the CRD makes it so         *)
(***************************************************************************)
KnownFaults == {"error", "lost", "offline", "gone", "crash", "race", "move"}

InjectionKinds == {"BoardPluginInjection", "BoardServiceInjection"}

ASSUME InjectionAssumption ==
  /\ Kind \in InjectionKinds
  /\ Boards # {}
  /\ Faults \subseteq KnownFaults

VARIABLES
  api,       \* the objects, by name
  cache,     \* the controller's informer cache
  synced,    \* cache[n] is the current version of api[n]
  ready,     \* the objects whose status says Ready
  pc,        \* where the worker of n is
  mg,        \* the object the worker of n holds in memory
  fresh,     \* mg[n] carries the current resource version
  boards,    \* the boards IoTronic knows
  online,    \* those with a Lightning Rod connected
  injected   \* the boards that have the plugin, or expose the service

vars == <<api, cache, synced, ready, pc, mg, fresh, boards, online, injected>>

\* ann is the newest of the annotations that bracket a creation; one that failed
\* counts as none, which is how the reconciler takes it.  The status is kept apart,
\* in ready, since no worker reads it.
Object ==
  [live : BOOLEAN, board : Boards, del : BOOLEAN, fin : BOOLEAN,
   ann : {"none", "pending", "succeeded"}]

Blank ==
  [live |-> FALSE, board |-> CHOOSE b \in Boards : TRUE, del |-> FALSE,
   fin |-> FALSE, ann |-> "none"]

Steps == {"idle", "observe", "absent", "stale", "current",
          "create", "created", "failed", "report"}

CreateWindow == {"create", "created", "failed"}

Init ==
  /\ api = [n \in Names |-> Blank]
  /\ cache = [n \in Names |-> Blank]
  /\ synced = [n \in Names |-> TRUE]
  /\ ready = {}
  /\ pc = [n \in Names |-> "idle"]
  /\ mg = [n \in Names |-> Blank]
  /\ fresh = [n \in Names |-> FALSE]
  /\ boards = Boards
  /\ online = Boards
  /\ injected = {}

-----------------------------------------------------------------------------
(* The handlers, as functions of the answers to their requests.            *)

Unusable == IF "error" \in Faults THEN {"refused", "none", "garbled"} ELSE {}

\* GET of a board, of its plugins or of its services.
ReadAnswers(b) == {IF b \in boards THEN "ok" ELSE "missing"} \cup Unusable

\* The list of a board's services may also come as an object that has no "exposed".
ListAnswers(b) ==
  ReadAnswers(b) \cup (IF "error" \in Faults THEN {"bare"} ELSE {})

\* An Observe that takes what it cannot read for absent.
PluginVerdictAbsentUnlessOK(b, a) ==
  IF a = "ok" /\ b \in injected THEN "current" ELSE "absent"

\* An Observe that reports a plugin that is not there as not up to date.
PluginVerdictNeverAbsent(b, a) ==
  IF a = "ok" /\ b \in injected THEN "current" ELSE "stale"

\* One that cannot be read counts as there, but not up to date.
PluginVerdict(b, a) ==
  IF a # "ok" THEN "stale" ELSE IF b \in injected THEN "current" ELSE "absent"

\* An Observe that is content with any list of the board's services.
ServiceVerdictUnsearched(b, first, second) ==
  IF first = "missing" THEN "absent"
  ELSE IF first # "ok" \/ second # "ok" THEN "error" ELSE "current"

\* An Observe that treats a board it cannot read as the plugin's does.
ServiceVerdictUnverified(b, first, second) ==
  IF first # "ok" \/ second # "ok" THEN "stale"
  ELSE IF b \in injected THEN "current" ELSE "absent"

\* The board's detail is asked for first; of the second answer every code but
\* 200, and a 200 that has no list in it, counts as not there.
ServiceVerdict(b, first, second) ==
  IF first = "missing" THEN "absent"
  ELSE IF first # "ok" \/ second \in {"none", "garbled"} THEN "error"
  ELSE IF second = "ok" /\ b \in injected THEN "current" ELSE "absent"

Verdicts(b) ==
  IF Kind = "BoardPluginInjection"
    THEN {PluginVerdict(b, a) : a \in ReadAnswers(b)}
    ELSE {ServiceVerdict(b, f, s) : f \in ReadAnswers(b), s \in ListAnswers(b)}

\* A conductor that takes orders for boards it does not know.
AppliesAnyway(b) == b \in Boards

\* A write takes effect on a board that is online.  Its answer is "ok" or, when
\* it is lost or refused, an error; Create and Delete return just that.
Applies(b) == b \in boards \cap online

WriteSucceeds(b) == {Applies(b)} \cup (IF "lost" \in Faults THEN {FALSE} ELSE {})

-----------------------------------------------------------------------------
(* How a worker goes on.                                                   *)

Goto(n, o, step) ==
  /\ mg' = [mg EXCEPT ![n] = o]
  /\ pc' = [pc EXCEPT ![n] = step]
  /\ UNCHANGED fresh

Stop(n) ==
  /\ mg' = [mg EXCEPT ![n] = Blank]
  /\ pc' = [pc EXCEPT ![n] = "idle"]
  /\ fresh' = [fresh EXCEPT ![n] = FALSE]

\* A new version of object n on the API server; its status goes only with it.
Update(n, o) ==
  /\ api' = [api EXCEPT ![n] = o]
  /\ synced' = [synced EXCEPT ![n] = FALSE]
  /\ ready' = IF o.live THEN ready ELSE ready \ {n}

\* A write of the whole object, status excepted, or a conflict.
Write(n, o, step) ==
  \/ /\ fresh[n]
     /\ Update(n, o)
     /\ Goto(n, o, step)
  \/ /\ ~fresh[n]
     /\ Stop(n)
     /\ UNCHANGED <<api, synced, ready>>

-----------------------------------------------------------------------------
(* Users of the API server.                                                *)

UserWrites(n, o) ==
  /\ Update(n, o)
  /\ fresh' = [fresh EXCEPT ![n] = FALSE]
  /\ UNCHANGED <<cache, pc, mg, boards, online, injected>>

Submit(n) ==
  /\ ~api[n].live
  /\ \E b \in Boards : UserWrites(n, [Blank EXCEPT !.live = TRUE, !.board = b])

Quiet(n) == "race" \notin Faults => pc[n] \notin CreateWindow

Move(n) ==
  /\ "move" \in Faults
  /\ api[n].live /\ ~api[n].del /\ Quiet(n)
  /\ \E b \in Boards \ {api[n].board} : UserWrites(n, [api[n] EXCEPT !.board = b])

UserDeletes(n) ==
  /\ api[n].live /\ ~api[n].del /\ Quiet(n)
  /\ UserWrites(n, IF api[n].fin THEN [api[n] EXCEPT !.del = TRUE] ELSE Blank)

-----------------------------------------------------------------------------
(* Boards, the watch, the clock and the process.                           *)

Environment == <<api, cache, synced, ready, pc, mg, fresh>>

Disconnect(b) ==
  /\ "offline" \in Faults
  /\ b \in online
  /\ online' = online \ {b}
  /\ \E lost \in SUBSET {b} : injected' = injected \ lost
  /\ UNCHANGED <<Environment, boards>>

Connect(b) ==
  /\ b \in boards \ online
  /\ online' = online \cup {b}
  /\ UNCHANGED <<Environment, boards, injected>>

RemoveBoard(b) ==
  /\ "gone" \in Faults
  /\ b \in boards
  /\ boards' = boards \ {b}
  /\ online' = online \ {b}
  /\ injected' = injected \ {b}
  /\ UNCHANGED Environment

Sync(n) ==
  /\ ~synced[n]
  /\ cache' = [cache EXCEPT ![n] = api[n]]
  /\ synced' = [synced EXCEPT ![n] = TRUE]
  /\ UNCHANGED <<api, ready, pc, mg, fresh, boards, online, injected>>

Crash(n) ==
  /\ "crash" \in Faults
  /\ pc[n] # "idle"
  /\ Stop(n)
  /\ UNCHANGED <<api, cache, synced, ready, boards, online, injected>>

-----------------------------------------------------------------------------
(* A reconcile.                                                            *)

Kubernetes == <<api, cache, synced, ready>>

Iotronic == <<boards, online, injected>>

\* A creation was started and its outcome never recorded: report, and do no more.
Refuse(n) ==
  /\ pc[n] = "idle" /\ cache[n].live /\ cache[n].ann = "pending"
  /\ mg' = [mg EXCEPT ![n] = cache[n]]
  /\ fresh' = [fresh EXCEPT ![n] = synced[n]]
  /\ pc' = [pc EXCEPT ![n] = "report"]
  /\ UNCHANGED <<Kubernetes, Iotronic>>

Begin(n) ==
  /\ pc[n] = "idle" /\ cache[n].live /\ cache[n].ann # "pending"
  /\ mg' = [mg EXCEPT ![n] = cache[n]]
  /\ fresh' = [fresh EXCEPT ![n] = synced[n]]
  /\ pc' = [pc EXCEPT ![n] = "observe"]
  /\ UNCHANGED <<Kubernetes, Iotronic>>

Observe(n) ==
  /\ pc[n] = "observe"
  /\ \E v \in Verdicts(mg[n].board) :
       \/ v = "error" /\ Stop(n)
       \/ v # "error" /\ Goto(n, mg[n], v)
  /\ UNCHANGED <<Kubernetes, Iotronic>>

\* For 30 seconds after a creation that succeeded nothing is made of an absence.
\* Time is not modelled: a worker waits or does not, though not for ever.
AwaitVisible(n) ==
  /\ pc[n] = "absent" /\ mg[n].ann = "succeeded"
  /\ Stop(n)
  /\ UNCHANGED <<Kubernetes, Iotronic>>

Exists(n) == pc[n] \in {"stale", "current"}

RemoveFinalizer(n) ==
  /\ pc[n] = "absent" /\ mg[n].del
  /\ IF fresh[n] THEN Update(n, Blank) ELSE UNCHANGED <<api, synced, ready>>
  /\ Stop(n)
  /\ UNCHANGED <<cache, Iotronic>>

\* The status says "deleting" whether the request succeeded or not.
DeleteInjection(n) ==
  /\ Exists(n) /\ mg[n].del
  /\ injected' = IF Applies(mg[n].board) THEN injected \ {mg[n].board} ELSE injected
  /\ Goto(n, mg[n], "report")
  /\ UNCHANGED <<Kubernetes, boards, online>>

AddFinalizer(n) ==
  /\ (pc[n] = "absent" \/ Exists(n)) /\ ~mg[n].del /\ ~mg[n].fin
  /\ Write(n, [mg[n] EXCEPT !.fin = TRUE], pc[n])
  /\ UNCHANGED <<cache, Iotronic>>

MarkPending(n) ==
  /\ pc[n] = "absent" /\ ~mg[n].del /\ mg[n].fin
  /\ Write(n, [mg[n] EXCEPT !.ann = "pending"], "create")
  /\ UNCHANGED <<cache, Iotronic>>

CreateInjection(n) ==
  /\ pc[n] = "create"
  /\ injected' = IF Applies(mg[n].board) THEN injected \cup {mg[n].board} ELSE injected
  /\ \E ok \in WriteSucceeds(mg[n].board) :
       Goto(n, mg[n], IF ok THEN "created" ELSE "failed")
  /\ UNCHANGED <<Kubernetes, boards, online>>

Record(n) ==
  LET mark == IF pc[n] = "created" THEN "succeeded" ELSE "none" IN
  /\ pc[n] \in {"created", "failed"} /\ fresh[n]
  /\ Write(n, [mg[n] EXCEPT !.ann = mark], "report")
  /\ UNCHANGED <<cache, Iotronic>>

\* A conflict: the annotation is put on the object as the cache has it, or, after
\* five tries, nowhere.
Reread(n) ==
  /\ pc[n] \in {"created", "failed"} /\ ~fresh[n]
  /\ mg' = [mg EXCEPT ![n] = cache[n]]
  /\ fresh' = [fresh EXCEPT ![n] = synced[n]]
  /\ UNCHANGED <<Kubernetes, pc, Iotronic>>

GiveUp(n) ==
  /\ pc[n] \in {"created", "failed"} /\ ~fresh[n]
  /\ Stop(n)
  /\ UNCHANGED <<Kubernetes, Iotronic>>

\* Update does nothing for either kind, and leaves the status as it was read.
UpdateInjection(n) ==
  /\ pc[n] = "stale" /\ ~mg[n].del /\ mg[n].fin
  /\ Stop(n)
  /\ UNCHANGED <<Kubernetes, Iotronic>>

\* A write that is refused and has no effect.
Refused(n) ==
  /\ "error" \in Faults
  /\ \/ pc[n] = "create" /\ Goto(n, mg[n], "failed")
     \/ Exists(n) /\ mg[n].del /\ Goto(n, mg[n], "report")
  /\ UNCHANGED <<Kubernetes, Iotronic>>

\* The status says Ready for what is current, and not for what is being created,
\* deleted or refused.
Report(n) ==
  LET said == IF pc[n] = "current" THEN ready \cup {n} ELSE ready \ {n} IN
  /\ pc[n] = "report" \/ (pc[n] = "current" /\ ~mg[n].del /\ mg[n].fin)
  /\ ready' = IF fresh[n] THEN said ELSE ready
  /\ synced' = [synced EXCEPT ![n] = @ /\ ready' = ready]
  /\ Stop(n)
  /\ UNCHANGED <<api, cache, Iotronic>>

Users(n) == Submit(n) \/ Move(n) \/ UserDeletes(n)

Work(n) ==
  \/ Refuse(n) \/ Begin(n) \/ Observe(n) \/ AwaitVisible(n)
  \/ RemoveFinalizer(n) \/ DeleteInjection(n)
  \/ AddFinalizer(n) \/ MarkPending(n) \/ CreateInjection(n)
  \/ Record(n) \/ Reread(n) \/ GiveUp(n) \/ UpdateInjection(n) \/ Report(n)

Next ==
  \/ \E n \in Names : \/ Users(n) \/ Work(n)
                      \/ Sync(n) \/ Refused(n) \/ Crash(n)
  \/ \E b \in Boards : Disconnect(b) \/ Connect(b) \/ RemoveBoard(b)

Spec == Init /\ [][Next]_vars

(***************************************************************************)
(* Workers are scheduled again and again, the watch delivers, and a worker *)
(* that keeps asking is answered: reads legibly, writes with effect while  *)
(* the board is online.  One that finds the injection absent does not wait *)
(* for it to appear for ever.  Boards that disconnect come back, though    *)
(* not for good.                                                           *)
(***************************************************************************)
Answered(n) ==
  LET b == mg[n].board IN
  /\ Observe(n)
  /\ IF b \in boards THEN pc'[n] = IF b \in injected THEN "current" ELSE "absent"
                     ELSE pc'[n] # "idle"

Fairness ==
  /\ \A n \in Names :
       /\ WF_vars(Work(n)) /\ WF_vars(Sync(n)) /\ SF_vars(Answered(n))
       /\ SF_vars(MarkPending(n) \/ RemoveFinalizer(n))
       /\ SF_vars(CreateInjection(n) \/ DeleteInjection(n))
  /\ \A b \in Boards : WF_vars(Connect(b))

LiveSpec == Spec /\ Fairness

-----------------------------------------------------------------------------
(* Properties.                                                             *)

\* The variables have their types; boards that are online are known, and only
\* known boards have anything injected.
TypeOK ==
  /\ api \in [Names -> Object]
  /\ cache \in [Names -> Object]
  /\ synced \in [Names -> BOOLEAN]
  /\ ready \subseteq Names
  /\ pc \in [Names -> Steps]
  /\ mg \in [Names -> Object]
  /\ fresh \in [Names -> BOOLEAN]
  /\ boards \subseteq Boards
  /\ online \subseteq boards
  /\ injected \subseteq boards

\* Whatever is injected is asked for by an object that its finalizer still
\* holds, also when two objects ask for the same and one of them is deleted:
\* nothing stays on a board that no object accounts for.
NoOrphan ==
  \A b \in injected : \E n \in Names :
    api[n].live /\ api[n].fin /\ api[n].board = b

\* A worker's copy that is current says what the object says, and only such a
\* worker can do more than ask IoTronic; creations run under the finalizer, for
\* objects that are wanted and for the board they name.
Holds(n) ==
  /\ api[n].del => api[n].fin
  /\ api[n].fin => api[n].live
  /\ synced[n] => cache[n] = api[n]
  /\ fresh[n] =>
       /\ pc[n] # "idle" /\ api[n].live /\ mg[n].live
       /\ mg[n].board = api[n].board /\ mg[n].del = api[n].del /\ mg[n].fin = api[n].fin
  /\ pc[n] = "create" => mg[n].board = api[n].board /\ ~mg[n].del
  /\ pc[n] \in CreateWindow =>
       api[n].fin /\ ("race" \in Faults \/ ~api[n].del)

\* Why NoOrphan holds as long as no object is moved to another board: besides, the
\* object that accounts for an injection is not one whose worker has just found
\* it absent, on a copy that is still current, and is about to let the object go.
AccountInv ==
  /\ \A n \in Names : Holds(n)
  /\ \A b \in injected : \E n \in Names :
       api[n].fin /\ api[n].board = b /\ ~(pc[n] = "absent" /\ fresh[n])

\* An injection survives what the boards and other objects do to it: one that is
\* forgotten while the board is offline, or deleted under another name, is made
\* again once the board stays online.
Heals ==
  \A n \in Names, b \in Boards :
    <>[](api[n].live /\ ~api[n].del /\ api[n].board = b /\ b \in online)
      => []<>(b \in injected)

\* A deleted object does not stay for ever while its board is online or removed.
DeletionEnds ==
  \A n \in Names, b \in Boards :
    ~<>[](api[n].del /\ api[n].board = b /\ (b \in online \/ b \notin boards))

\* An object does not go on reporting Ready for a board that is no more: a service's
\* Observe lists what the board exposes.  A plugin's would have to "verify that the
\* plugin is actually injected by checking the board's plugins", and does not when
\* there is no board to ask: PluginGone.cfg.
ReadyIsVerified ==
  \A n \in Names, b \in Boards :
    ~<>[](n \in ready /\ api[n].board = b /\ b \notin boards)

-----------------------------------------------------------------------------
(* What all this implements.                                               *)

Wanted(o) == IF o.live /\ ~o.del THEN {o.board} ELSE {}

Leaving(o) == IF o.del THEN {o.board} ELSE {}

\* The boards the provider has copies of n for that show it deleted, true still or
\* not: the object may have left, or have been submitted anew, since.
Told(n) == Leaving(cache[n]) \cup (IF pc[n] = "idle" THEN {} ELSE Leaving(mg[n]))

Lifecycle ==
  INSTANCE InjectionLifecycle WITH
    wanted <- [n \in Names |-> Wanted(api[n])],
    leaving <- [n \in Names |-> Leaving(api[n])],
    told <- [n \in Names |-> Told(n)],
    Hurried <- "race" \in Faults

\* Seen from outside: a board is injected only while it is connected and an object
\* asks for it, and the injection is undone only because an object that asked for
\* it was being deleted, when the provider last heard of it; an object that leaves
\* the API server leaves behind what another object accounts for, or nothing.
Implements == Lifecycle!Spec
=============================================================================
