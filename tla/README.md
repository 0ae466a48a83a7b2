# A specification of the Stack4Things Crossplane provider

The repository is a Crossplane provider, written in Go, that manages IoT
resources in OpenStack IoTronic (boards, plugins, services, fleets, ...), and
around it the scripts and manifests that install Stack4Things on a cluster. This
directory holds TLA+ modules of the provider's behaviour, the TLC configurations
that check them on small instances, and TLAPS proofs of the most important
results for instances of every size.

The provider is small, but what it does is distributed: one object lives on the
Kubernetes API server, one copy in the provider's cache, one in the hands of a
worker, and what they all stand for in IoTronic. Each of them changes without
asking the others, and any request between them may fail. The specification is
about what survives that.

## 1. Inventory

Paths are relative to `src/`; `CTRL` is `crossplane-provider/internal/controller`.

| Component | Code | State it keeps | Operations | What makes it hard | What makes it correct |
|---|---|---|---|---|---|
| REST external clients: Fleet, Webservice, Port, Request | `CTRL/{fleet,webservice,port,request}` | none; `spec.forProvider.uuid` of the object, the resource in IoTronic | Observe, Create, Update, Delete, `makeRESTCall` | answers that are lost, refused or unreadable; stale copies | no duplicate, no orphan, deletion ends, edits arrive |
| SDK external clients: Device, Plugin, Service | `CTRL/{device,plugin,service}` | the same | the same, over the SDK | 404 is a zero object on Get and an error on Delete | the same |
| Site | `CTRL/site` | a made-up uuid | the same, without any request | existence is inferred from the uuid alone | becomes Ready, whatever happens to the uuid; deletion ends (it does not, see 6) |
| Injections: BoardPluginInjection, BoardServiceInjection | `CTRL/boardplugininjection`, `CTRL/boardserviceinjection` | a pair (board, plugin or service) in IoTronic; no identity of its own | Observe by listing, Create, Delete; Update does nothing | boards disconnect, forget and disappear; two objects on one pair, and stale copies that cannot tell them apart; reads in two steps | nothing stays injected unaccounted, injections heal, Ready is true |
| Result | `CTRL/result` | none, read-only | Observe by uuid or by request; Create and Delete do nothing | results come and go on their own; a pending mark for a creation that is none | Ready while there is a result, and not after; deletion ends when it is gone |
| Connectors | every kind's `Connect` and `newS4TService` | usages; the token of one reconcile | Track, read of the ProviderConfig, authentication | every reconcile needs it, deletions too; the endpoint is taken apart by hand | every object gets its connection in the end |
| ProviderConfig controller | `CTRL/config` | the config's finalizer | add it, remove it when there are no users | a cache of usages that lags; deletions in any order | not before the users it knew are gone, and not never |
| Provider process | `cmd/provider/main.go`, `CTRL/s4t.go` | caches | start the controllers, poll every minute | crash and restart between any two steps | what was begun is not begun twice |
| Managed reconciler | crossplane-runtime v1.16 (a dependency) | finalizer, annotations and conditions of every object | the loop that calls the handlers | conflicts, stale caches, the pending mark | see above |
| API types | `crossplane-provider/apis` | | | immutability is a comment, not a rule of the CRDs | |
| Deploy load balancer | `stack4things-improved/load_balancer.py` (and the same file in `stack4things`) | none; what a request's thread has heard | count functions per node, forward a deployment | load read before the deployment is sent; time-outs of deployments that go on | nodes stay balanced; one copy per answer |
| Keystone bootstrap | `.../keycloak-keystone-integration/keystone-config/keystone-entrypoint.sh` | a marker file | a sequence of commands at container start | a restart half-way | every command has run before the marker is there |
| Board and plugin scripts | `stack4things-improved/scripts` | the cluster's | create Devices, wait for uuids, start Lightning Rods, inject | waits that give up; runs repeated | boards end up connected |
| Deployment scripts | `stack4things-improved/*.sh` and others | the cluster's | straight-line installation | | |
| Manifests, CRDs, generated code | YAML, `zz_generated*` | | | | |
| IoTronic, Lightning Rod, Keystone | outside the repository | boards, plugins, ... | HTTP | | |

How they interact: users write objects with `kubectl`; the API server's watch
fills the provider's cache; the reconciler takes an object from the cache,
connects, calls Observe and then at most one of Create, Update and Delete, and
writes the object and its status back with the resource version it read.
Handlers call IoTronic over HTTP and change the object in memory, among others
`spec.forProvider.uuid`, the only link to what they created.

## 2. Modules

| Module | What it is | Corresponds to |
|---|---|---|
| `IotronicApi` | which answers a request may get, and the faults | IoTronic, as far as the handlers tell answers apart |
| `RestControllers`, `SdkControllers` | every handler of seven kinds, as a function of the object and the answer | `CTRL/<kind>/<kind>.go`: Observe gives "error", "absent", "stale" or "current"; Create a success and the uuid it leaves in the object; UpdateBody what IoTronic holds after the request; Update and Delete a success |
| `Controllers` | the handlers of kind `k` | `CTRL/s4t.go` |
| `ManagedResource` | objects, cache, workers and IoTronic for one kind | the reconciler with those handlers |
| `ResourceLifecycle` | what `ManagedResource` promises, seen from outside | no code: the abstract specification it implements |
| `PassiveResource` | one object and its worker, for the two kinds that own nothing outside | the reconciler with `CTRL/site`, `CTRL/result` |
| `BoardInjection` | objects, workers and boards for the two injections | the reconciler with `CTRL/board*injection` |
| `InjectionLifecycle` | what `BoardInjection` promises, seen from outside | no code: the abstract specification it implements |
| `ProviderConnection` | Connect, usages and the guard of the ProviderConfig | every `Connect`, `newS4TService`, `CTRL/config` |
| `LoadBalancer` | clients, threads of the balancer, nodes | `stack4things-improved/load_balancer.py` |
| `MC...` | instances for TLC: symmetry sets and constants | |
| `ManagedResource_proofs`, `LockInv_proofs`, `Ownership_proofs`, `Lifecycle_proofs` | theorems about `ManagedResource` | |
| `ProviderConnection_proofs`, `BoardInjection_proofs`, `PassiveResource_proofs`, `LoadBalancer_proofs` | theorems about the modules they are named after | |

**ManagedResource.** `api[n]` is the object on the API server, `cache[n]` the
provider's copy, `mg[n]` the worker's. Resource versions are two flags: `synced[n]`
(the cache is current) and `fresh[n]` (the worker's copy is); a write without
`fresh` meets a conflict. `pc[n]` says which step the worker takes next:

    idle -> observe -> absent / stale / current
                       absent -> create -> created / failed -> report -> idle

One action is one request or one write: `Begin` (or `Refuse`, for an object
whose creation was left pending), `Observe`, `AddFinalizer`, `MarkPending` (the
write of `external-create-pending` before Create), `CreateExternal`, `Record`
(the write of the outcome, with `Reread` and `GiveUp` on conflict),
`UpdateExternal`, `DeleteExternal`, `RemoveFinalizer`, `Report`. The environment
interleaves `Submit`, `Edit`, `UserDeletes`, `Sync`, `GraceElapses` (30 s after a
creation), `ConnectFails`, `ReadFails`, `Refused`, `Vanish` and `Crash` anywhere.
There is one worker per object, as controller-runtime guarantees.

A payload has two fields: `key`, which Observe compares if it compares anything
(a Device's code, a Plugin's name), and `rest`.

**ResourceLifecycle** has claims (`claim[n]`: none, wanted or leaving, with a
payload) and resources (`res`), and nothing in between: a wanted resource is
provided once, as it is wanted at that moment; adjusted while anybody claims it;
taken away only when the claim is leaving; and a claim ends when nothing is left.
The refinement mapping is at the end of `ManagedResource`: `res` is `ext`, and a
claim is what the object on the API server says (`ClaimOf(api[n])`); caches,
copies, marks and finalizers are mapped away. Most steps are stutters;
`CreateExternal` is `Provide`, `DeleteExternal` and `Vanish` are `TakeAway`,
`UpdateExternal` is `Adjust`, users' writes are `Ask` and `Withdraw`, and
`RemoveFinalizer` is `Leave`. It is not obvious that `DeleteExternal` maps, since
the worker decides on a copy: `TraceInv` says what the copy is worth.

**PassiveResource** is about Site and Result. `names` is what the object's spec
says (its own uuid, its request's, or nothing) and `found` what IoTronic finds a
result by, which changes without the provider (`ResultsChange`). The engine is the
same, except that a copy is current when it is taken: an older one could write
nothing, since the API server refuses it and there is nothing outside to touch.
Create changes the object in memory (Site) or nothing (Result), and Delete changes
nothing.

**BoardInjection** has the same worker and the same cache (`cache`, `synced`), and
`boards`, `online` and `injected` for IoTronic and its boards. What the status says
is apart, in `ready`, since no worker reads it. The 30 seconds after a creation are
a step that a worker may take or not (`AwaitVisible`). Users may `Move` an object to
another board: the marker in the type says that the field is immutable, the CRDs do
not enforce it.

A pair has no uuid, so an old copy cannot tell whose injection it looks at: one of
an object that was deleted and is gone, still in the cache, can find the injection
of another object there and remove it. The module has that, `PluginShared` checks
that it heals, and the lifecycle below allows it and no more.

**InjectionLifecycle** has the boards that objects want or are leaving, the boards
that somebody is remembered to leave (`told`), those that are connected and those
that are injected: an injection is made while somebody wants it, undone only for
somebody who is leaving or is remembered to, and whoever leaves leaves nothing
injected that nobody else names. Memories are made of what is so (`Hear`), and
kept as long as one likes. Again the mapping is at the end of the module that
implements it: what n wants and leaves is read off the object on the API server,
what is remembered off the cache and the worker's copy, `CreateInjection` is `Inject`, `DeleteInjection` is `Undo`,
`RemoveFinalizer` is `Leave`, `Sync` is `Hear`, and boards that are removed or come
back are `Disconnect` and `Connect`. With "race" an object may be withdrawn while the
request that injects for it is under way (`Hurried`): then it is still undone
before the object goes.

**ProviderConnection** has the objects reduced to what a connection depends on
(`obj`), the one ProviderConfig the code reads (`config`), the usages (`usage`,
and `known` in the config controller's cache) and two processes: the worker of n
(track, connect, connected) and the config controller (review, release). The rest
of a reconcile is one step there; `ManagedResource` has it in full, and has this
module's failures as `ConnectFails`. Users submit and delete objects and config
whenever they like. `owed` is a history variable: whom the config's controller knew
to use it when it was deleted. The objects' own cache is always current there. It
never goes back, so that an old copy is one of a reconcile that began earlier and
takes long, which the module has, or that of the reconcile before; the latter
records the usage once more, perhaps of an object that is gone, which is collected
again, and all else it writes conflicts.

**LoadBalancer** has one thread per request and nothing they share but the nodes.
A thread asks the nodes one by one (`Ask`), forwards the request to one of those
that reported fewest functions (`Forward`) or answers 503 or 400 (`Reject`); the
function arrives later (`Deploy`), or after the thread has given up (`TimeOut`,
`DeployLate`). `/deploy-to` and `/deploy-github-to` name any node they like (`Aim`).
A client sends its function again until it is told "success". Two things in the
module are assumptions on the environment. `Capacity` is how many functions are
under way at the same time: Flask's threaded server has no limit of its own, so it
stands for the peak of the load, whatever that is. And functions are only added: the
balancer has no route that removes one. Two history variables say of which nodes
`Balanced` can be said: `shunned` have failed to report to a thread, and `favoured`
have been named by a client, or have answered `/functions` with something that is
not a list (line 35: counted as none).

## 3. Runs

Every bound is in the `.cfg`. One name, or two where objects meet; two or three
uuids where safety is at stake, so that a second creation and a third can happen; two values per field, so
that an edit can be told from its absence. No counter is unbounded: uuids come
back once nothing remembers them, and retries have no count, except in
`LoadBalancer`, whose clients count the answers that told them nothing and stop
after `MaxDoubts` + 1 of them.

| Run | Instance | States | What it shows |
|---|---|---|---|
| FleetFaults | 1 Fleet, 2 uuids, every fault | 2.7 M | what the optimistic lock and the pending mark give without any condition: a recorded uuid is neither forgotten nor let go (`UuidKept`, `FinalizerGuards`), Ready is protected (`AvailableIsProtected`), a resource appears only inside a marked creation (`CreationIsBracketed`) and is deleted only for a deletion that is still true (`DeletesOnlyDeleted`); `LockInv` and `TraceInv`, the invariants the proofs go by |
| FleetCrash | 1 Fleet, 3 uuids, no "race", no "lostCreate" | 259 k | no duplicate (`OneExternal`), no orphan (`NoOrphan`), deletions are clean (`DeletedFromBoth`); `OwnershipInv`, the invariant of the proofs |
| DeviceLive | 1 Device, 1 uuid; errors, garbled and lost answers | 108 k | users' last word arrives in IoTronic (`Converges`), deletions end (`DeletionCompletes`), and the whole implements `ResourceLifecycle` (`Implements`) |
| PassiveKinds | a Site or a Result; errors, crashes, users at any moment | 7.0 k | it becomes Ready (`SettlesReady`), a Result stops being Ready (`ReadyIsReal`), its deletion ends (`DeletionFollows`); a finalizer guards, and a deleted Site goes only once users have taken its uuid away (`FinalizerGuards`), by the invariant `CopyInv` |
| PluginSafe | 2 objects on one pair, every fault but "move" | 1.16 M | nothing stays injected that no object accounts for (`NoOrphan`), and why (`AccountInv`); the whole implements `InjectionLifecycle` (`Implements`) |
| ServiceHeals | 1 exposure, 2 boards that disconnect and disappear; moves | 48 k | `Heals` (on the board it was moved to, too), `DeletionEnds`, `ReadyIsVerified` |
| PluginShared | 2 objects on one pair, the cache lags | 98 k | an injection undone under another name, by its deletion or by an old copy, is made again (`Heals`) |
| ConfigGuard | a Device that names the config, a Fleet that may, one endpoint; errors, crashes | 40 k | the config is deleted at any moment and kept for those its controller knew (`KeptForKnown`), by `GuardInv`; objects are taken up (`TakenUp`), and they and the config go (`ObjectDeletionEnds`, `ConfigDeletionEnds`) |
| LoadBalancer | 3 functions, 2 nodes, 2 requests at a time, one retry, every fault | 751 k | `Balanced` and its invariant `BalanceInv`, `OneCopyPerAnswer` |
| DeviceRace, ServiceOrphan, ConfigRace | small | | the findings of section 6, as counterexamples |

The handlers of Webservice, Port and Request are the Fleet's, apart from what
Update sends, and so are the runs; Plugin's and Service's are the Device's. The
proofs are for all seven kinds. The endpoint of ConfigGuard is one that needs its
scheme and host kept, `https://` outside the cluster. With three endpoints, which
users change between, the safety properties pass as well (106 k states); the others
take long.

Two more configurations are kept beside the runs. They end in counterexamples that
section 6 tells: `FleetDrift.cfg` checks `Converges` on a kind that does not compare,
`PluginGone.cfg` checks `ReadyIsVerified` on the plugin's kind.

Deadlock is checked in every run but LoadBalancer's: users can always submit
again, while clients whose functions are deployed have nothing left to do.

`Converges` is checked without crashes: one inside the create window leaves the
object to an operator, by design. `SettlesReady` and `DeletionFollows` except that
case by name (`ann # "pending"`), and so are checked with crashes. `NodeCount` is
2 because the list in the code has two entries; three nodes, or four functions,
pass as well and take minutes. One uuid in DeviceLive is enough for `Implements`,
whose abstract `Provide` then has to find it free: it is FleetCrash, with three,
that has a second resource to confuse with the first.

Symmetry: uuids in the runs of `ManagedResource` (values are not symmetric, since
`NoData` picks one), names in those of `BoardInjection`, functions in `LoadBalancer`'s; never together with a
temporal property that needs fairness.

**Faults** are a constant, a subset of: `error` (a request is refused or never
arrives), `garbled` (an answer does not decode), `lost` (an update or delete takes
effect, its answer is lost), `lostCreate` (the same for a create), `vanish` (a
resource is removed behind the provider's back), `crash`, and `race` (users write
an object while it is being created, or edit one they have deleted).
`BoardInjection` adds boards that go `offline`, and `gone`, and objects that users
`move`; `LoadBalancer` has faults of its own (`silent`, `late`, `lost`, `invalid`,
`garbled`, `named`); `ProviderConnection` has `error` and `crash`, and users who do
what they like.

**Fairness.** Workers are scheduled again and again: by events, by requeues after
an error, and by the poll interval of one minute (`main.go:53`), which the
reconciler applies to every object it found up to date. The watch delivers
(`Sync`), clocks run (`GraceElapses`). A request that is tried again and again is
answered some time (SF on `Observe`, `CreateExternal`, `UpdateExternal`,
`DeleteExternal`, and on the steps of a connection). Boards that disconnect come
back, though `Heals` does not assume that they stay. Users promise nothing, and
the liveness properties say themselves what they have to leave alone. In
`PassiveResource`, which crashes, fairness also says that a crash does not always
come before the same step (SF on the writes); without that a provider that is
restarted for ever in the same place does nothing. In `BoardInjection` a worker that
finds an injection absent again and again does not put off what it does about it
every time (SF on `MarkPending` and `RemoveFinalizer`), as 30 seconds are over some
time, and the cache catches up. The config controller's review (WF on `Review`) is
due to its watch of usages (`config.go:48`) and, should that be missing, to the
hourly resync, which no filter of `config.Setup` stops: `ConfigDeletionEnds` assumes
the one or the other and would not notice the watch missing. `LoadBalancer` has no fairness:
whether a function is deployed in the end is up to clients and nodes, and nothing
is claimed. The
resyncs of the informer are no help to the eleven kinds: they carry no new version,
and every Setup filters them (`DesiredStateChanged`); the poll is.

## 4. What is proved

For every kind, every set of names, uuids, values, hosts and endpoints, and every
set of faults the theorem allows. TLC checked each invariant first.

1. `TypeCorrect` (`ManagedResource_proofs`): the types. Its lemmas about the
   handlers are where the Go code enters: *absent* is only ever said of a resource
   that is not there (`AbsentIsGone`), a failed read is never a verdict
   (`FailureIsNoVerdict`), *current* needs a uuid (`CurrentIsThere`), a create
   leaves the new uuid or none (`CreateOutcome`, `RefusedCreate`). A handler that
   broke one of them breaks the proof; the mutants do it in TLC.
2. `LockHolds` (`LockInv_proofs`): `LockInv`, under every fault. The safety
   properties are not inductive: whether a worker may remove the finalizer depends
   on the copy it decided on. `LockInv` says what a copy is worth: if it is still
   current (`fresh`) it agrees with the object in all that matters
   (`CopyIsCurrent`), a verdict "absent" on a current copy is true now (no uuid
   that is recorded and gone ever comes back), and inside the create window the
   object is marked, held, and records nothing alive. `StillLocked` and
   `ActsAlone` reduce a step to the object it is about; then there is one lemma
   per group of actions. `ReadyIsProtected`, `FinalizerHolds` and `UuidHolds`
   follow.
3. `OwnershipHolds` (`Ownership_proofs`): `OwnershipInv`, when `Calm`: no fault
   "race", no "lostCreate". It adds what IoTronic holds for an object: exactly what
   is recorded, or is in the hands of a worker that has marked the object. Both
   conditions are needed: DeviceRace is the counterexample for the first; for the
   second, a create whose answer is lost is recorded as failed, and the next
   reconcile creates again. `OneExternalHolds`, `NoOrphanHolds` and
   `DeletionIsClean` follow.
   `CreationHolds` is in the same module, and under every fault: it needs of
   `OwnershipInv` nothing, only `LockInv`, which says where the marks of the object
   are while a worker creates. A lost create therefore costs one resource per
   marked creation, and never two.
4. `GuardHolds` and `ConfigIsKept` (`ProviderConnection_proofs`), under every fault,
   whenever users write: a usage is written before anything is created, and goes
   after its object, so that whom the controller knew when the config was deleted
   it knows until he is gone (`GuardInv`), also between a review that found no
   users and the release. `KeptForKnown` follows. It says nothing of an object
   whose usage was not known yet, and cannot: ConfigRace.
5. `TraceHolds`, `DeletesHold` and `ImplementsLifecycle` (`Lifecycle_proofs`).
   `TraceInv` says that a copy, however old, that names a living resource was
   taken of the object that records it, and shows no deletion that is not true.
   It holds under every fault, and with it `DeletesHold`: the worker that sends a
   DELETE goes by such a copy. When `Calm`, every step maps to one of the
   lifecycle's or to a stutter; there is one lemma per action that touches
   IoTronic or the claims.
6. `Accounted` and `NothingOrphaned` (`BoardInjection_proofs`), when `Careful`: no
   "move", and for services no "error". `NoOrphan` alone is not inductive: the
   object that accounts for an injection might be one whose worker has just found
   it absent, on a copy that is current, and is about to remove its finalizer.
   `AccountInv` excludes that, and `Holds` says what is true of a copy from a cache
   that lags: everything if it is current, and little else. Both conditions are needed:
   ServiceOrphan is the counterexample for the second, and an object that is moved
   leaves its old board injected. `TypeCorrect` needs neither.
   `ImplementsLifecycle`, under the same two conditions: every step maps to one of
   `InjectionLifecycle` or to a stutter. That the object a worker injects for is
   wanted, unless users race, is in `Holds` too: to begin a creation takes a write,
   and so a current copy. To undo takes none, and so an `Undo` is for whom the
   worker has been told of. The step that matters is `RemoveFinalizer`, which is a
   `Leave` by `AccountInv`: what is still injected then has another object that
   names it.
7. `BalanceHolds` and `NodesBalanced` (`LoadBalancer_proofs`): for every number of nodes and
   functions. Counting the functions in flight is not enough, since threads that
   have yet to ask will see some of what is in flight arrive. `BalanceInv` says,
   for every level v that some node b has not passed, that node a holds at most
   v + `Capacity` functions, those counted in that may still arrive there if
   nobody is found with fewer than v (`MayArrive`). With v the load of b, this is
   `Balanced`. Node a has never been named and always told the truth, b has always
   answered. The proof needs `SeenInv`: what a thread has seen was so, and nodes
   only gain. `CopiesAccounted` bounds the copies of a function by what its client
   was not told.
8. `CopyHolds` and `FinalizerGuardHolds` (`PassiveResource_proofs`), under every
   fault. `CopyInv` is inductive with the types alone: a worker that can still
   write knows the object, but for a uuid just made up, and the marks of a creation
   stand as long as it is open, whatever users write. A Site found absent by
   such a worker has no uuid now, and that is when its finalizer goes.

Every invariant and every action property of the runs that pass is a theorem, and
so are both refinements. Their conditions are the runs' own: where a fault is left
out of a theorem, section 6 has the counterexample, or says what happens.

Only model-checked: everything that says "in the end". Liveness under fairness, and
`ENABLED`, are out of the prover's reach. No module uses RECURSIVE operators.

## 5. What is not modelled

* The annotation `crossplane.io/paused`, `deletionPolicy: Orphan`, connection
  secrets, the external-name initializer: the reconciler's, and no handler here
  reads or fills them. A user who fills in `forProvider.uuid` adopts a resource;
  objects start without one.
* `status.atProvider`: written in memory by Create and some Observes, read by
  nobody.
* Credentials: the Secret is taken to be there and right. It is not protected by
  the config's finalizer; deleting it is like deleting the config.
* `OS_AUTH_URL`, set by ten connectors at once; nothing reads it. Leader election.
* Keystone's bootstrap (`keystone-entrypoint.sh`): a script without concurrency
  whose only state is a marker file, written once, at line 155. What matters is
  what its commands leave in Keystone and whether repeating one is harmless, which
  is the openstack client's behaviour; a model would be about assumptions. Two
  things can be read off the script, without one: the marker is written though
  commands before it may have failed (`|| true`), which are then not repeated; and the
  marker is in the container's file system while the database is not, so that a
  new container begins again.
* The scripts for boards and plugins: one-shot sequences of `kubectl` and `curl`
  for an operator. To the provider they are users, which the modules have.
* The installation scripts, manifests and generated code: no behaviour worth a
  model.
* Of the load balancer, `/status` and `/nodes/health`: they only read.

Known simplifications: one plugin or service per instance of `BoardInjection`, so
that a pair is a board; a cache that lags in `ManagedResource` and `BoardInjection`
only, and for usages in `ProviderConnection` (section 2 says why that is enough);
the two conditions are the only status; one ProviderConfig, since the code reads
one; authentication at Keystone is by address alone.

## 6. What came to light

Three runs end in a counterexample, each against a sentence of the repository:

* **DeviceRace** (`device.go:301`). Create leaves the uuid in the object in memory;
  it is written together with the record of the creation. If a user touches the
  object in between, that write conflicts, the retry reads the object again and
  writes the annotation only, and the uuid is lost. The board stays for ever:
  "This will delete the board from both Crossplane and IoTronic"
  (`stack4things-improved/README.md:945`). All kinds with a uuid share it.
* **ServiceOrphan** (`boardserviceinjection.go:281`). Any answer but 200 to the
  list of services means "not exposed": a 500 during a deletion lets the object go
  and leaves the service exposed.
* **ConfigRace** (`config/config.go:40`). A deleted config is released while an
  object that its controller does not know yet is taken up with it; nothing can
  delete that object then. The controller "reconciles ProviderConfigs by accounting
  for their current usage" (`config.go:30`), but on a cache, and in two steps.

Seen while modelling, without a run of their own:

* Fleet's Observe (`fleet.go:278`) never compares; Update, documented in
  `API_DOCUMENTATION.md:252`, is dead code. So it is for Webservice, Port, Request
  and Service: `Converges` fails (`FleetDrift.cfg`).
* The plugin injection takes what it cannot read for injected
  (`boardplugininjection.go:202`), the opposite of the service's choice: for a board
  that is gone the object says Ready for ever (`PluginGone.cfg`), and can never be
  deleted. `DeletionEnds` and `ReadyIsVerified` hold for the service's kind only,
  though `crossplane-provider/API_REVIEW.md:40` says of the plugin's that "`Observe()`
  method now verifies actual injection".
* The port of `keystoneEndpoint`, "the Keystone authentication endpoint URL"
  (`providerconfig_types.go:33`), is dropped for 5000 (`device.go:115`): a Keystone
  at another port is never found, and `PointsToKeystone` leaves it out by name.
* A Site whose uuid is set exists for ever (`site.go:212`), Delete does nothing, so
  a deleted Site keeps its finalizer until users remove the uuid by hand:
  `DeletionFollows` fails of a Site, and `FinalizerGuards` says what it waits for.
* A crash, or a lost conflict, between `MarkPending` and `Record` leaves the object
  refused until somebody removes the annotation: the reconciler's choice.
* A Device's Update sends its code alone; name and type drift (`Converges` speaks
  of the compared field for that reason).
* Removing one injection may undo another object's, and may do so when nobody is
  leaving any more: by an old copy of an object that is gone
  (`boardplugininjection.go:273`). It is made again at the next poll; in between
  the other object says Ready.
* An injection whose `boardUuid` is edited leaves the old board injected: with
  "move", `NoOrphan` fails for both kinds.
* A Result whose creation was interrupted keeps the pending mark, and is not
  looked at again though there was nothing to create.
* The load balancer shuns a node that does not report, however idle, and prefers
  one that reports nonsense: `Balanced` says nothing of either. A function may be
  on several nodes after a time-out, as many as `OneCopyPerAnswer` allows.
* Objects whose `providerConfigRef` names another config are never accounted for in
  the one they are connected by (`fleet.go:178`).
* A Plugin's connector ignores `keystoneEndpoint` (`plugin.go:71`): `TakenUp` and
  `ObjectDeletionEnds` except that kind by name (`ReadsEndpoint`).
* Ten connectors set `OS_AUTH_URL` for the whole process; nothing reads it.

## 7. Plan

Done: the reconciler with seven kinds and the lifecycle it implements; the two
kinds that own nothing; the injections and the lifecycle they implement; the
connection; the load balancer; the proofs above. What could be added, in this
order:

1. What the guard of a config promises, as an abstract specification (a config is
   claimed, and goes when nobody claims it), with `ProviderConnection` shown to
   implement it.
2. What a lost create costs, as an invariant: at most one more resource for every
   creation that was marked.
3. `BoardInjection` with several plugins, and the proof that a pair is a board there
   without loss.
4. Two kinds at once in `ManagedResource`, for a Service exposed on a Device that
   is being deleted.

## 8. Running

    tlc -config FleetCrash.cfg MCManagedResource.tla
    tlc -config PluginSafe.cfg MCBoardInjection.tla
    tlc -config PassiveKinds.cfg MCPassiveResource.tla
    tlc -config ConfigGuard.cfg MCProviderConnection.tla
    tlc -config LoadBalancer.cfg MCLoadBalancer.tla
    tlapm Ownership_proofs.tla

`PROJECT.json` lists, for every run, its property and a mutation of the model that
breaks it; for every definition, the lines it models; and the hazards of the code
with the properties that watch them.
