-------------------------- MODULE PassiveResource --------------------------
(***************************************************************************)
(* Site and Result: kinds whose handlers neither create nor change nor     *)
(* delete anything outside.  A Site is whatever has a uuid, and Create     *)
(* makes one up; a Result is looked up in IoTronic, by its own uuid or     *)
(* by its request's, and comes and goes there without the provider.        *)
(*                                                                         *)
(* One object and its worker; objects of these kinds have nothing in       *)
(* common.  The engine is the managed.Reconciler of ManagedResource.       *)
(* Observe never finds an object out of date, so Update is never called.   *)
(*                                                                         *)
(* The cache lags here only behind what the worker itself has just         *)
(* recorded.  A copy that was old when it was taken could write nothing:   *)
(* there is nothing outside to touch, and the API server refuses every     *)
(* write from it, as it does those of a reconcile that is overtaken.       *)
(***************************************************************************)
CONSTANT Faults   \* what may go wrong, see KnownFaults

(***************************************************************************)
(*   error   Connect fails, a request is refused or gets no answer, or the *)
(*           answer does not decode                                        *)
(*   crash   the provider process dies and is restarted                    *)
(*   race    users write the object while it is created                    *)
(***************************************************************************)
KnownFaults == {"error", "crash", "race"}

ASSUME PassiveAssumption == Faults \subseteq KnownFaults

VARIABLES
  kind,    \* "Site" or "Result", for good
  api,     \* the object on the API server
  pc,      \* where its worker is
  mg,      \* the object the worker holds in memory
  fresh,   \* mg carries the current resource version
  grace,   \* the last creation succeeded less than 30 seconds ago
  found    \* what IoTronic finds a result by

vars == <<kind, api, pc, mg, fresh, grace, found>>

Lookups == {"request", "uuid"}

\* names: which uuid the object's spec gives, its own before its request's.
Object ==
  [live : BOOLEAN, names : Lookups \cup {"nothing"}, del : BOOLEAN, fin : BOOLEAN,
   ann : {"none", "pending", "succeeded"},
   ready : {"unknown", "creating", "available", "deleting"}]

Blank ==
  [live |-> FALSE, names |-> "nothing", del |-> FALSE, fin |-> FALSE,
   ann |-> "none", ready |-> "unknown"]

Steps == {"idle", "observe", "absent", "current", "create", "created", "report"}

Init ==
  /\ kind \in {"Site", "Result"}
  /\ api = Blank /\ mg = Blank
  /\ pc = "idle" /\ fresh = FALSE /\ grace = FALSE
  /\ found = {}

-----------------------------------------------------------------------------
(* The handlers.                                                           *)

\* An Observe that believes in a Site once it has been reported Ready.
SiteObserveOnceReady(o) ==
  IF o.names = "nothing" \/ o.ready = "unknown" THEN "absent" ELSE "current"

SiteObserve(o) == IF o.names = "nothing" THEN "absent" ELSE "current"

\* A Create that forgets to record the uuid it has made up.
SiteCreateUnrecorded(o) == o

\* A Create that records the bare name.
SiteCreateBareName(o) == [o EXCEPT !.names = "name"]

SiteCreate(o) == [o EXCEPT !.names = "uuid"]

\* An Observe that does not know a 404.
ResultObserveMissingIsError(o, a) ==
  CASE o.names = "nothing" -> "absent"
    [] o.names # "nothing" /\ a = "ok" -> "current"
    [] OTHER -> "error"

\* GET /results/{uuid} or /requests/{uuid}/results.
ResultObserve(o, a) ==
  CASE o.names = "nothing" \/ a = "missing" -> "absent"
    [] o.names # "nothing" /\ a = "ok"      -> "current"
    [] OTHER                                -> "error"

\* "Results are typically fetched, not created."
ResultCreate(o) == o

Answer(o) == IF o.names \in found THEN "ok" ELSE "missing"

ObserveBy(o, a) == IF kind = "Site" THEN SiteObserve(o) ELSE ResultObserve(o, a)

CreateBy(o) == IF kind = "Site" THEN SiteCreate(o) ELSE ResultCreate(o)

-----------------------------------------------------------------------------
(* Users, and IoTronic.                                                    *)

Quiet == "race" \notin Faults => pc \notin {"create", "created"}

UserWrites(o) ==
  /\ api' = o
  /\ fresh' = FALSE
  /\ UNCHANGED <<kind, pc, mg, grace, found>>

Nameable == (IF kind = "Site" THEN {"uuid"} ELSE Lookups) \cup {"nothing"}

Submit ==
  /\ ~api.live
  /\ \E x \in Nameable : UserWrites([Blank EXCEPT !.live = TRUE, !.names = x])

Edit ==
  /\ api.live /\ Quiet
  /\ \E x \in Nameable \ {api.names} : UserWrites([api EXCEPT !.names = x])

UserDeletes ==
  /\ api.live /\ ~api.del /\ Quiet
  /\ UserWrites(IF api.fin THEN [api EXCEPT !.del = TRUE] ELSE Blank)

\* A board answers a request; a result, or its request, is removed.
ResultsChange ==
  /\ kind = "Result"
  /\ found' \in SUBSET Lookups \ {found}
  /\ UNCHANGED <<kind, api, pc, mg, fresh, grace>>

-----------------------------------------------------------------------------
(* A reconcile.                                                            *)

Goto(o, step) ==
  /\ mg' = o
  /\ pc' = step
  /\ UNCHANGED fresh

Stop ==
  /\ mg' = Blank
  /\ pc' = "idle"
  /\ fresh' = FALSE

\* A write of the whole object, status excepted, or a conflict.
Write(o, step) ==
  \/ /\ fresh
     /\ api' = [o EXCEPT !.ready = api.ready]
     /\ Goto(o, step)
  \/ /\ ~fresh
     /\ Stop
     /\ UNCHANGED api

\* A creation was started and its end never recorded.
Refuse ==
  /\ pc = "idle" /\ api.live /\ api.ann = "pending"
  /\ api' = [api EXCEPT !.ready = "creating"]
  /\ UNCHANGED <<kind, pc, mg, fresh, grace, found>>

Begin ==
  /\ pc = "idle" /\ api.live /\ api.ann # "pending"
  /\ mg' = api
  /\ fresh' = TRUE
  /\ pc' = "observe"
  /\ UNCHANGED <<kind, api, grace, found>>

Observed(v) ==
  \/ v = "absent"  /\ Goto(mg, v)
  \/ v = "current" /\ Goto([mg EXCEPT !.ready = "available"], v)
  \/ v = "error"   /\ Goto(mg, "report")

Observe ==
  /\ pc = "observe"
  /\ Observed(ObserveBy(mg, Answer(mg)))
  /\ UNCHANGED <<kind, api, grace, found>>

\* Connect, or the request that Observe makes.
ReadFails ==
  /\ "error" \in Faults
  /\ pc = "observe"
  /\ Observed("error") \/ Observed(ObserveBy(mg, "none"))
  /\ UNCHANGED <<kind, api, grace, found>>

AwaitVisible ==
  /\ pc = "absent" /\ mg.ann = "succeeded" /\ grace
  /\ Stop
  /\ UNCHANGED <<kind, api, grace, found>>

Absent == pc = "absent" /\ ~(mg.ann = "succeeded" /\ grace)

RemoveFinalizer ==
  /\ Absent /\ mg.del
  /\ api' = IF fresh THEN Blank ELSE api
  /\ Stop
  /\ UNCHANGED <<kind, grace, found>>

\* Delete succeeds and does nothing, for both kinds.
DeleteNothing ==
  /\ pc = "current" /\ mg.del
  /\ Goto([mg EXCEPT !.ready = "deleting"], "report")
  /\ UNCHANGED <<kind, api, grace, found>>

AddFinalizer ==
  /\ Absent \/ pc = "current"
  /\ ~mg.del /\ ~mg.fin
  /\ Write([mg EXCEPT !.fin = TRUE], pc)
  /\ UNCHANGED <<kind, grace, found>>

MarkPending ==
  /\ Absent /\ ~mg.del /\ mg.fin
  /\ Write([mg EXCEPT !.ann = "pending"], "create")
  /\ UNCHANGED <<kind, grace, found>>

Create ==
  /\ pc = "create"
  /\ Goto(CreateBy(mg), "created")
  /\ UNCHANGED <<kind, api, grace, found>>

Record ==
  /\ pc = "created" /\ fresh
  /\ Write([mg EXCEPT !.ann = "succeeded", !.ready = "creating"], "report")
  /\ grace' = TRUE
  /\ UNCHANGED <<kind, found>>

\* A conflict: the annotation goes on the object as it is now, without the uuid
\* that Create has made up, or, after five tries, nowhere.
Reread ==
  /\ pc = "created" /\ ~fresh
  /\ mg' = api
  /\ fresh' = TRUE
  /\ UNCHANGED <<kind, api, pc, grace, found>>

GiveUp ==
  /\ pc = "created" /\ ~fresh
  /\ Stop
  /\ UNCHANGED <<kind, api, grace, found>>

Report ==
  /\ pc = "report" \/ (pc = "current" /\ ~mg.del /\ mg.fin)
  /\ api' = IF fresh THEN [api EXCEPT !.ready = mg.ready] ELSE api
  /\ Stop
  /\ UNCHANGED <<kind, grace, found>>

GraceElapses ==
  /\ grace
  /\ grace' = FALSE
  /\ UNCHANGED <<kind, api, pc, mg, fresh, found>>

Crash ==
  /\ "crash" \in Faults
  /\ pc # "idle"
  /\ Stop
  /\ UNCHANGED <<kind, api, grace, found>>

Work ==
  \/ Refuse \/ Begin \/ Observe \/ AwaitVisible
  \/ RemoveFinalizer \/ DeleteNothing
  \/ AddFinalizer \/ MarkPending \/ Create
  \/ Record \/ Reread \/ GiveUp \/ Report

Next ==
  \/ Submit \/ Edit \/ UserDeletes \/ ResultsChange
  \/ Work \/ ReadFails \/ GraceElapses \/ Crash

Spec == Init /\ [][Next]_vars

\* Workers are scheduled again and again and the clock runs.  One that keeps asking
\* is answered, and crashes do not always come before the same step.
Fairness ==
  /\ WF_vars(Work) /\ WF_vars(GraceElapses)
  /\ SF_vars(Observe)
  /\ SF_vars(AddFinalizer) /\ SF_vars(MarkPending) /\ SF_vars(Record)
  /\ SF_vars(RemoveFinalizer)
  /\ SF_vars(pc = "current" /\ Report) /\ SF_vars(mg.ready = "creating" /\ Report)

LiveSpec == Spec /\ Fairness

-----------------------------------------------------------------------------
(* Properties.                                                             *)

\* The variables have their types.
TypeOK ==
  /\ kind \in {"Site", "Result"}
  /\ api \in Object /\ mg \in Object
  /\ pc \in Steps /\ fresh \in BOOLEAN /\ grace \in BOOLEAN
  /\ found \subseteq Lookups

\* What the worker knows holds: as long as its copy has the current resource version
\* it is the object, but for a uuid just made up, and only a Site without a uuid is
\* taken for one that does not exist.  While a creation is open, the pending mark and
\* the finalizer stand on the object, whatever users do to it; and only a finalizer
\* keeps an object that is being deleted.
CopyInv ==
  /\ api.live \/ api = Blank
  /\ api.del => api.fin
  /\ pc \in {"create", "created"} => api.live /\ api.fin /\ api.ann = "pending"
  /\ pc \in {"absent", "create"} /\ kind = "Site" => mg.names = "nothing"
  /\ fresh =>
       /\ pc # "idle" /\ api.live /\ mg.live
       /\ mg.del = api.del /\ mg.fin = api.fin /\ mg.ann = api.ann
       /\ mg.names # api.names => kind = "Site" /\ pc = "created" /\ api.names = "nothing"

\* An object with a finalizer goes only if it is being deleted, and a Site then only
\* if users have taken its uuid away: the provider never does, so that the deletion
\* of a Site waits for them.  A worker that saw the Site before it was given a uuid,
\* or before it was deleted, does not let it go either.
FinalizerGuards ==
  [][api.live /\ ~api'.live =>
       IF api.fin THEN api.del /\ (kind = "Site" => api.names = "nothing")
                  ELSE ~api.del]_vars

\* Users leave the object alone, naming x; a Result then is there, or is not.
Rests(x) == api.live /\ api.names = x

Names == Lookups \cup {"nothing"}

\* Nothing but a creation left pending can keep from Ready an object that users
\* leave alone: a Site, or a Result that IoTronic has.  In particular a Site ends
\* up with a uuid, also when the one made up for it is lost to a conflict.
SettlesReady ==
  \A x \in Names :
    /\ <>[](Rests(x) /\ ~api.del /\ (kind = "Result" => x \in found))
    /\ []<>(api.ann # "pending")
    => <>[](api.ready = "available")

\* A Result does not go on reporting Ready when there is none any more.
ReadyIsReal ==
  \A x \in Names :
    ~<>[](kind = "Result" /\ Rests(x) /\ x \notin found /\ api.ready = "available")

\* A Result that is deleted goes once IoTronic has none, unless its creation was
\* left pending.  (Not before: Delete does nothing.)
DeletionFollows ==
  \A x \in Names :
    ~<>[](kind = "Result" /\ Rests(x) /\ x \notin found /\ api.del /\ api.ann # "pending")
=============================================================================
