-------------------------- MODULE ManagedResource --------------------------
(***************************************************************************)
(* One kind of managed resource of the provider: its objects on the        *)
(* Kubernetes API server, the controller's informer cache, one reconcile   *)
(* worker per object, and IoTronic's table of that kind.                   *)
(*                                                                         *)
(* The handlers are the provider's own (module Controllers).  The engine   *)
(* that calls them is crossplane-runtime's managed.Reconciler, v1.16, as   *)
(* every Setup of internal/controller configures it: a reconcile reads the *)
(* object from the cache, refuses to go on when an earlier creation was    *)
(* left pending, connects, observes, and then adds the finalizer, creates, *)
(* updates, deletes or lets the object go, and at last writes the status.  *)
(*                                                                         *)
(* Resource versions are kept as two flags: synced[n] says that the cached *)
(* copy is the current version, fresh[n] that the worker's copy is.  A     *)
(* write from a copy that is not current fails with a conflict.            *)
(***************************************************************************)
EXTENDS Controllers

CONSTANTS
  Kind,     \* the kind whose controller this is
  Names     \* the names its objects may have

ASSUME KindAssumption == Kind \in Kinds

VARIABLES
  api,      \* the objects, by name
  cache,    \* the controller's informer cache
  synced,   \* cache[n] is the current version of api[n]
  pc,       \* where the worker of n is
  mg,       \* the object the worker of n holds in memory
  fresh,    \* mg[n] carries the current resource version
  grace,    \* the last creation succeeded less than 30 seconds ago
  ext       \* IoTronic's resources: a function on the live uuids

vars == <<api, cache, synced, pc, mg, fresh, grace, ext>>

(***************************************************************************)
(* live: the object exists.  ann is the newest of the annotations that     *)
(* bracket a creation, ready and sync the two status conditions.           *)
(***************************************************************************)
Object ==
  [live : BOOLEAN, uuid : Refs, want : Data, del : BOOLEAN, fin : BOOLEAN,
   ann : {"none", "pending", "succeeded", "failed"},
   ready : {"unknown", "creating", "available", "deleting"},
   sync : {"unknown", "ok", "error"}]

Blank ==
  [live |-> FALSE, uuid |-> NoId, want |-> NoData, del |-> FALSE,
   fin |-> FALSE, ann |-> "none", ready |-> "unknown", sync |-> "unknown"]

External == [owner : Names, data : Data]

\* A worker stands before the step it is named after.
Steps == {"idle", "observe", "absent", "stale", "current",
          "create", "created", "failed", "report"}

CreateWindow == {"create", "created", "failed"}

\* Steps of a reconcile that had no creation to refuse to guess about.
Judging == {"observe", "absent", "stale", "current"}

Init ==
  /\ api = [n \in Names |-> Blank]
  /\ cache = [n \in Names |-> Blank]
  /\ synced = [n \in Names |-> TRUE]
  /\ pc = [n \in Names |-> "idle"]
  /\ mg = [n \in Names |-> Blank]
  /\ fresh = [n \in Names |-> FALSE]
  /\ grace = [n \in Names |-> FALSE]
  /\ ext = [i \in {} |-> Blank]

\* Uuids IoTronic may hand out next: uuids are never handed out twice, so one
\* comes back only when nothing in the system remembers it.
FreeIds ==
  {i \in Ids : /\ i \notin DOMAIN ext
               /\ \A n \in Names : i \notin {api[n].uuid, cache[n].uuid, mg[n].uuid}}

Owned(n) == {i \in DOMAIN ext : ext[i].owner = n}

-----------------------------------------------------------------------------
(* How a worker goes on.                                                   *)

Goto(n, o, step) ==
  /\ mg' = [mg EXCEPT ![n] = o]
  /\ pc' = [pc EXCEPT ![n] = step]
  /\ UNCHANGED fresh

Stop(n) ==
  /\ mg' = [mg EXCEPT ![n] = Blank]
  /\ pc' = [pc EXCEPT ![n] = "idle"]
  /\ fresh' = [fresh EXCEPT ![n] = FALSE]

\* Object o with the status of p.
WithStatus(o, p) == [o EXCEPT !.ready = p.ready, !.sync = p.sync]

\* A write of the whole object (client.Update), status excepted.
Write(n, o, step) ==
  \/ /\ fresh[n]
     /\ api' = [api EXCEPT ![n] = WithStatus(o, api[n])]
     /\ synced' = [synced EXCEPT ![n] = FALSE]
     /\ Goto(n, o, step)
  \/ /\ ~fresh[n]
     /\ Stop(n)
     /\ UNCHANGED <<api, synced>>

\* Status().Update at the end of a reconcile.
WriteStatus(n, o) ==
  /\ Stop(n)
  /\ IF fresh[n] /\ WithStatus(api[n], o) # api[n]
       THEN /\ api' = [api EXCEPT ![n] = WithStatus(@, o)]
            /\ synced' = [synced EXCEPT ![n] = FALSE]
       ELSE UNCHANGED <<api, synced>>

-----------------------------------------------------------------------------
(* Users of the API server.                                                *)

UserWrites(n, o) ==
  /\ api' = [api EXCEPT ![n] = o]
  /\ synced' = [synced EXCEPT ![n] = FALSE]
  /\ fresh' = [fresh EXCEPT ![n] = FALSE]
  /\ UNCHANGED <<cache, pc, mg, grace, ext>>

\* Users leave an object alone while its external resource is being created.
Quiet(n) == "race" \notin Faults => pc[n] \notin CreateWindow

Submit(n) ==
  /\ ~api[n].live
  /\ \E d \in Data : UserWrites(n, [Blank EXCEPT !.live = TRUE, !.want = d])

Edit(n) ==
  /\ api[n].live /\ Quiet(n)
  /\ api[n].del => "race" \in Faults
  /\ \E d \in Data \ {api[n].want} : UserWrites(n, [api[n] EXCEPT !.want = d])

\* kubectl delete: an object with a finalizer is only marked.
UserDeletes(n) ==
  /\ api[n].live /\ ~api[n].del /\ Quiet(n)
  /\ UserWrites(n, IF api[n].fin THEN [api[n] EXCEPT !.del = TRUE] ELSE Blank)

-----------------------------------------------------------------------------
(* The environment.                                                        *)

Sync(n) ==
  /\ ~synced[n]
  /\ cache' = [cache EXCEPT ![n] = api[n]]
  /\ synced' = [synced EXCEPT ![n] = TRUE]
  /\ UNCHANGED <<api, pc, mg, fresh, grace, ext>>

GraceElapses(n) ==
  /\ grace[n]
  /\ grace' = [grace EXCEPT ![n] = FALSE]
  /\ UNCHANGED <<api, cache, synced, pc, mg, fresh, ext>>

Without(i) == [j \in DOMAIN ext \ {i} |-> ext[j]]

Vanish(i) ==
  /\ "vanish" \in Faults
  /\ i \in DOMAIN ext
  /\ ext' = Without(i)
  /\ UNCHANGED <<api, cache, synced, pc, mg, fresh, grace>>

Crash(n) ==
  /\ "crash" \in Faults
  /\ pc[n] # "idle"
  /\ Stop(n)
  /\ UNCHANGED <<api, cache, synced, grace, ext>>

-----------------------------------------------------------------------------
(* A reconcile, up to the call of Observe.                                 *)

\* A creation was started and its outcome never recorded: refuse to guess.
Refuse(n) ==
  /\ pc[n] = "idle" /\ cache[n].live /\ cache[n].ann = "pending"
  /\ mg' = [mg EXCEPT ![n] = [cache[n] EXCEPT !.ready = "creating", !.sync = "error"]]
  /\ fresh' = [fresh EXCEPT ![n] = synced[n]]
  /\ pc' = [pc EXCEPT ![n] = "report"]
  /\ UNCHANGED <<api, cache, synced, grace, ext>>

Begin(n) ==
  /\ pc[n] = "idle" /\ cache[n].live /\ cache[n].ann # "pending"
  /\ mg' = [mg EXCEPT ![n] = cache[n]]
  /\ fresh' = [fresh EXCEPT ![n] = synced[n]]
  /\ pc' = [pc EXCEPT ![n] = "observe"]
  /\ UNCHANGED <<api, cache, synced, grace, ext>>

Observed(n, a) ==
  LET v == ObserveBy(Kind, mg[n], a) IN
    CASE v = "error"   -> Goto(n, [mg[n] EXCEPT !.sync = "error"], "report")
      [] v = "current" -> Goto(n, [mg[n] EXCEPT !.ready = "available"], "current")
      [] OTHER         -> Goto(n, mg[n], v)

Observe(n) ==
  /\ pc[n] = "observe"
  /\ Observed(n, GetAnswer(ext, mg[n].uuid))
  /\ UNCHANGED <<api, cache, synced, grace, ext>>

\* A resource that was just created may not be visible yet.
AwaitVisible(n) ==
  /\ pc[n] = "absent" /\ mg[n].ann = "succeeded" /\ grace[n]
  /\ Stop(n)
  /\ UNCHANGED <<api, cache, synced, grace, ext>>

Absent(n) == pc[n] = "absent" /\ ~(mg[n].ann = "succeeded" /\ grace[n])

Exists(n) == pc[n] \in {"stale", "current"}

-----------------------------------------------------------------------------
(* The object is being deleted.                                            *)

RemoveFinalizer(n) ==
  /\ Absent(n) /\ mg[n].del
  /\ IF fresh[n]
       THEN /\ api' = [api EXCEPT ![n] = Blank]
            /\ synced' = [synced EXCEPT ![n] = FALSE]
       ELSE UNCHANGED <<api, synced>>
  /\ Stop(n)
  /\ UNCHANGED <<cache, grace, ext>>

Deleted(n, a) ==
  Goto(n, [mg[n] EXCEPT !.ready = "deleting",
                        !.sync = IF DeleteBy(Kind, mg[n], a) THEN "ok" ELSE "error"],
       "report")

DeleteExternal(n) ==
  /\ Exists(n) /\ mg[n].del
  /\ \E a \in WriteAnswers(ext, mg[n].uuid, DeletedCode(Kind)) : Deleted(n, a)
  /\ ext' = Without(mg[n].uuid)
  /\ UNCHANGED <<api, cache, synced, grace>>

-----------------------------------------------------------------------------
(* The object is wanted.                                                   *)

AddFinalizer(n) ==
  /\ (Absent(n) \/ Exists(n)) /\ ~mg[n].del /\ ~mg[n].fin
  /\ Write(n, [mg[n] EXCEPT !.fin = TRUE], pc[n])
  /\ UNCHANGED <<cache, grace, ext>>

MarkPending(n) ==
  /\ Absent(n) /\ ~mg[n].del /\ mg[n].fin
  /\ Write(n, [mg[n] EXCEPT !.ann = "pending"], "create")
  /\ UNCHANGED <<cache, grace, ext>>

Created(n, a) ==
  LET c == CreateBy(Kind, mg[n], a) IN
    Goto(n, [mg[n] EXCEPT !.uuid = c.uuid], IF c.ok THEN "created" ELSE "failed")

CreateExternal(n) ==
  /\ pc[n] = "create"
  /\ \E i \in FreeIds :
       /\ ext' = [j \in DOMAIN ext \cup {i} |->
                    IF j = i THEN [owner |-> n, data |-> mg[n].want] ELSE ext[j]]
       /\ \E a \in CreateAnswers(i, mg[n].want) : Created(n, a)
  /\ UNCHANGED <<api, cache, synced, grace>>

(***************************************************************************)
(* UpdateCriticalAnnotations: a conflict makes the worker read the object  *)
(* again, from the cache, and put the annotation on that copy; what Create *)
(* had set in the old one is gone.  It gives up after five tries.          *)
(***************************************************************************)
Record(n) ==
  LET mark == IF pc[n] = "created" THEN "succeeded" ELSE "failed"
      sync == IF pc[n] = "created" THEN "ok" ELSE "error"
  IN
  /\ pc[n] \in {"created", "failed"} /\ fresh[n]
  /\ Write(n, [mg[n] EXCEPT !.ann = mark, !.ready = "creating", !.sync = sync],
           "report")
  /\ grace' = [grace EXCEPT ![n] = (mark = "succeeded")]
  /\ UNCHANGED <<cache, ext>>

Reread(n) ==
  /\ pc[n] \in {"created", "failed"} /\ ~fresh[n]
  /\ mg' = [mg EXCEPT ![n] = cache[n]]
  /\ fresh' = [fresh EXCEPT ![n] = synced[n]]
  /\ UNCHANGED <<api, cache, synced, pc, grace, ext>>

GiveUp(n) ==
  /\ pc[n] \in {"created", "failed"} /\ ~fresh[n]
  /\ Stop(n)
  /\ UNCHANGED <<api, cache, synced, grace, ext>>

Updated(n, a) ==
  Goto(n, [mg[n] EXCEPT !.sync = IF UpdateBy(Kind, mg[n], a) THEN "ok" ELSE "error"],
       "report")

UpdateExternal(n) ==
  LET i == mg[n].uuid IN
  /\ pc[n] = "stale" /\ ~mg[n].del /\ mg[n].fin
  /\ ext' = IF i \in DOMAIN ext
              THEN [ext EXCEPT ![i].data = UpdateBodyBy(Kind, mg[n], @)]
              ELSE ext
  /\ \E a \in WriteAnswers(ext, i, 200) : Updated(n, a)
  /\ UNCHANGED <<api, cache, synced, grace>>

-----------------------------------------------------------------------------

\* Connect fails, see module ProviderConnection: no handler is called.
ConnectFails(n) ==
  /\ "error" \in Faults
  /\ pc[n] = "observe"
  /\ Goto(n, [mg[n] EXCEPT !.sync = "error"], "report")
  /\ UNCHANGED <<api, cache, synced, grace, ext>>

\* A read that fails.
ReadFails(n) ==
  /\ pc[n] = "observe"
  /\ \E a \in ReadFailures : Observed(n, a)
  /\ UNCHANGED <<api, cache, synced, grace, ext>>

\* A request that is refused and has no effect.
Refused(n) ==
  /\ \E a \in Refusals :
       \/ pc[n] = "create" /\ Created(n, a)
       \/ pc[n] = "stale" /\ ~mg[n].del /\ mg[n].fin /\ Updated(n, a)
       \/ Exists(n) /\ mg[n].del /\ Deleted(n, a)
  /\ UNCHANGED <<api, cache, synced, grace, ext>>

Report(n) ==
  /\ \/ pc[n] = "report" /\ WriteStatus(n, mg[n])
     \/ /\ pc[n] = "current" /\ ~mg[n].del /\ mg[n].fin
        /\ WriteStatus(n, [mg[n] EXCEPT !.sync = "ok"])
  /\ UNCHANGED <<cache, grace, ext>>

Users(n) == Submit(n) \/ Edit(n) \/ UserDeletes(n)

\* Steps of a worker that no fault is needed for.
Work(n) ==
  \/ Refuse(n) \/ Begin(n) \/ Observe(n) \/ AwaitVisible(n)
  \/ RemoveFinalizer(n) \/ DeleteExternal(n)
  \/ AddFinalizer(n) \/ MarkPending(n)
  \/ CreateExternal(n)
  \/ Record(n) \/ Reread(n) \/ GiveUp(n)
  \/ UpdateExternal(n) \/ Report(n)

Next ==
  \/ \E n \in Names : \/ Users(n) \/ Work(n)
                      \/ Sync(n) \/ GraceElapses(n)
                      \/ ConnectFails(n) \/ ReadFails(n) \/ Refused(n) \/ Crash(n)
  \/ \E i \in Ids : Vanish(i)

Spec == Init /\ [][Next]_vars

(***************************************************************************)
(* Fairness.  Workers are scheduled again and again (events, requeues and  *)
(* the poll interval) and the watch delivers; users promise nothing.       *)
(* IoTronic may refuse, but not for ever: a worker that keeps asking is    *)
(* answered.                                                               *)
(***************************************************************************)
Fairness ==
  \A n \in Names :
    /\ WF_vars(Sync(n)) /\ WF_vars(GraceElapses(n)) /\ WF_vars(Work(n))
    /\ SF_vars(Observe(n)) /\ SF_vars(DeleteExternal(n))
    /\ SF_vars(CreateExternal(n)) /\ SF_vars(UpdateExternal(n))

LiveSpec == Spec /\ Fairness

-----------------------------------------------------------------------------
(* Properties.                                                             *)

\* The variables have their types.
TypeOK ==
  /\ api \in [Names -> Object]
  /\ cache \in [Names -> Object]
  /\ synced \in [Names -> BOOLEAN]
  /\ pc \in [Names -> Steps]
  /\ mg \in [Names -> Object]
  /\ fresh \in [Names -> BOOLEAN]
  /\ grace \in [Names -> BOOLEAN]
  /\ DOMAIN ext \subseteq Ids
  /\ ext \in [DOMAIN ext -> External]

\* No object has two resources in IoTronic.  Whatever crashes, refusals and
\* stale reads happen, as long as no answer to a create is lost and no user
\* writes the object while it is created.
OneExternal ==
  \A n \in Names : \A i, j \in Owned(n) : i = j

\* Every resource the provider has created is reachable: its object still
\* exists and either records the uuid or carries the pending mark.  Same
\* conditions as OneExternal.
NoOrphan ==
  \A i \in DOMAIN ext :
    LET o == api[ext[i].owner] IN
      o.live /\ o.fin /\ (o.uuid = i \/ o.ann = "pending")

\* The finalizer does its work: an object leaves the API server only when the
\* resource it records is gone from IoTronic, however stale the copy was that
\* the worker decided on.  Under every fault.
FinalizerGuards ==
  [][\A n \in Names :
       api[n].live /\ ~api'[n].live => api[n].uuid \notin DOMAIN ext]_vars

\* A recorded uuid is never replaced or forgotten while its resource exists.
\* Under every fault.
UuidKept ==
  [][\A n \in Names :
       api[n].uuid \in DOMAIN ext => api'[n].uuid = api[n].uuid]_vars

\* A resource is created at most once under one pending mark, and only while it is
\* certain that the object has none: the mark is set on an object that bears none,
\* however old the copy was that was found absent, and whenever IoTronic gets a
\* resource its object still bears the mark, is held by its finalizer and records
\* nothing that is alive.  Under every fault.
CreationIsBracketed ==
  [][\A n \in Names :
       /\ pc[n] # "create" /\ pc'[n] = "create" => api[n].ann # "pending"
       /\ Owned(n)' \ Owned(n) # {} =>
            /\ api[n].live /\ api[n].fin /\ api[n].ann = "pending"
            /\ api[n].uuid \notin DOMAIN ext]_vars

\* A worker deletes nothing but the resource that a deleted object records, however
\* old the copy is that it acts on, and whoever has taken the name since.  Under
\* every fault.
DeletesOnlyDeleted ==
  [][\A n \in Names : \A i \in Owned(n) :
       pc' # pc /\ i \notin DOMAIN ext' => api[n].del /\ api[n].uuid = i]_vars

\* An object that reports Ready has a uuid recorded and is protected by the
\* finalizer, whichever copies its status was computed from.
AvailableIsProtected ==
  \A n \in Names : api[n].ready = "available" => api[n].fin /\ api[n].uuid # NoId

\* An object that leaves the API server leaves nothing behind in IoTronic: "This
\* will delete the board from both Crossplane and IoTronic".
DeletedFromBoth ==
  [][\A n \in Names : api[n].live /\ ~api'[n].live => Owned(n) = {}]_vars

\* Deletion completes.
DeletionCompletes ==
  \A n \in Names : api[n].del ~> ~api[n].live

Wants(n, d) == api[n].live /\ ~api[n].del /\ api[n].want = d

\* Once users leave an object alone it becomes Ready and stays so, however the
\* last edits, stale reads and refusals were interleaved with its creation; and for
\* a reason: its resource exists and the field IoTronic holds that Observe compares
\* is the one the users left.
Converges ==
  \A n \in Names, d \in Data :
    <>[]Wants(n, d) =>
      <>[](/\ api[n].ready = "available"
           /\ api[n].uuid \in DOMAIN ext
           /\ ext[api[n].uuid].data.key = d.key)

-----------------------------------------------------------------------------
(* What all this implements.                                               *)

\* The claim that an object is.
ClaimOf(o) ==
  [state |-> IF ~o.live THEN "none" ELSE IF o.del THEN "leaving" ELSE "wanted",
   data |-> o.want]

Lifecycle ==
  INSTANCE ResourceLifecycle WITH
    claim <- [n \in Names |-> ClaimOf(api[n])],
    res <- ext,
    Vanishing <- "vanish" \in Faults

\* Seen from outside, the worker, its stale copies and the requests it repeats
\* make no difference: a resource is created once, as the object asks for it at
\* that moment; deleted only when the object is, and never for an object that
\* another copy shows deleted; and no object leaves before its resource.
Implements == Lifecycle!Spec

-----------------------------------------------------------------------------
(* The inductive invariants the proofs go by.                              *)

\* The worker's copy is what the API server holds, but for the status and, in
\* "created", for the uuid that Create has just put in it.
CopyIsCurrent(n) ==
  /\ api[n].live /\ mg[n].live
  /\ mg[n].want = api[n].want /\ mg[n].del = api[n].del
  /\ mg[n].fin = api[n].fin /\ mg[n].ann = api[n].ann
  /\ IF pc[n] = "created" THEN mg[n].uuid = NoId => api[n].uuid = NoId
                          ELSE mg[n].uuid = api[n].uuid
  /\ mg[n].ready = "available" => api[n].uuid # NoId

\* What the optimistic lock gives, under every fault: a copy that is current was
\* right when it was judged, and inside the create window the object is marked
\* and records nothing that is alive.
Locked(n) ==
  /\ ~api[n].live => api[n] = Blank
  /\ api[n].uuid # NoId => api[n].fin
  /\ api[n].ready = "available" => api[n].uuid # NoId
  /\ synced[n] => cache[n] = api[n]
  /\ pc[n] # "idle" /\ fresh[n] => CopyIsCurrent(n)
  /\ pc[n] \in Judging => mg[n].ann # "pending"
  /\ pc[n] = "absent" /\ fresh[n] => api[n].uuid \notin DOMAIN ext
  /\ pc[n] \in CreateWindow =>
       /\ api[n].live /\ api[n].fin /\ api[n].ann = "pending"
       /\ api[n].uuid \notin DOMAIN ext

LockInv == \A n \in Names : Locked(n)

\* What holds when users keep out of the create window and no answer to a create
\* is lost: what the provider owns is what it has recorded, or is about to.
Owns(n) ==
  /\ pc[n] \in CreateWindow => fresh[n]
  /\ pc[n] \in {"create", "failed"} => Owned(n) = {}
  /\ pc[n] = "created" => Owned(n) \subseteq {mg[n].uuid}
  /\ api[n].ann # "pending" => Owned(n) \subseteq {api[n].uuid}
  /\ Owned(n) # {} => api[n].live /\ api[n].fin
  /\ \A i, j \in Owned(n) : i = j

OwnershipInv == \A n \in Names : Owns(n)

\* A copy, however old, of an object whose resource is alive was taken of the
\* object that records it, and shows no deletion that is not true.
TracedCopy(n, c) ==
  c.uuid \in DOMAIN ext =>
    /\ c.uuid = api[n].uuid
    /\ c.del => api[n].del

\* What makes it safe to act on stale copies.
Traced(n) ==
  /\ api[n].uuid \in DOMAIN ext => api[n].uuid \in Owned(n)
  /\ TracedCopy(n, cache[n])
  /\ pc[n] # "created" => TracedCopy(n, mg[n])
  /\ pc[n] = "created" /\ mg[n].uuid \in DOMAIN ext => mg[n].uuid \in Owned(n)
  /\ pc[n] = "create" => ~mg[n].del

TraceInv == \A n \in Names : Traced(n)
=============================================================================
