------------------------- MODULE ProviderConnection -------------------------
(***************************************************************************)
(* How a controller comes by its client: the connectors of the eleven      *)
(* kinds, the ProviderConfig they all read, the usages by which it is      *)
(* accounted for, and the controller that guards it (config.Setup).        *)
(*                                                                         *)
(* Every reconcile connects anew: it records that the object uses the      *)
(* config its providerConfigRef names, reads the config called             *)
(* s4t-provider-domain whatever that name is, and authenticates at         *)
(* Keystone.  Only then does it observe, so an object whose controller     *)
(* cannot connect can neither be created nor deleted.  What follows a      *)
(* connection is module ManagedResource; here it is one step, which adds   *)
(* the finalizer or removes it.                                            *)
(*                                                                         *)
(* Users delete objects and config in any order and at any moment.  A      *)
(* worker takes the object as it is.  Its cache lags, but never goes back: *)
(* a copy that was old when it was taken is that of a reconcile that began *)
(* while it was current and takes long, or it is that of the reconcile     *)
(* before, and then it records a usage there is, or one of an object that  *)
(* is gone, to be collected again; and what it writes conflicts.           *)
(***************************************************************************)
EXTENDS Naturals

CONSTANTS
  Names,       \* the objects; an object's name stands for its UID too
  KindOf,      \* their kinds
  RefsOf,      \* the names each one's providerConfigRef may have
  Hosts,       \* the hosts a Keystone may be looked for at
  Service,     \* keystone.default.svc.cluster.local
  Loopback,    \* 127.0.0.1
  Endpoints,   \* the values users give keystoneEndpoint
  Keystone,    \* the addresses Keystone does listen at
  Faults       \* what may go wrong, see KnownFaults

(***************************************************************************)
(*   error   a request to the API server or to Keystone fails              *)
(*   crash   the provider process dies and is restarted                    *)
(***************************************************************************)
KnownFaults == {"error", "crash"}

ConnectedKinds ==
  {"Device", "Service", "Plugin", "BoardPluginInjection", "BoardServiceInjection",
   "Site", "Fleet", "Webservice", "Port", "Result", "Request"}

ConfigName == "s4t-provider-domain"
Refs == {ConfigName, "default"}
NoRef == "none"

Address == [scheme : {"http", "https"}, host : Hosts, port : {5000, 35357}]

\* keystoneEndpoint is optional.
Unset == [scheme |-> "", host |-> "", port |-> 0]

ASSUME ConnectionAssumption ==
  /\ KindOf \in [Names -> ConnectedKinds]
  /\ RefsOf \in [Names -> SUBSET Refs]
  /\ {Service, Loopback} \subseteq Hosts
  /\ Keystone \subseteq Address
  /\ Endpoints \subseteq Address \cup {Unset}
  /\ Faults \subseteq KnownFaults

VARIABLES
  obj,      \* the objects
  config,   \* the ProviderConfig s4t-provider-domain
  usage,    \* the config each object's ProviderConfigUsage names
  known,    \* the same, as the config controller's cache has it
  pc,       \* where the worker of n is
  copy,     \* the object the worker of n took up
  guard,    \* where the config controller is
  owed      \* history: the objects the config's controller knew to use it, when
            \* users deleted it

vars == <<obj, config, usage, known, pc, copy, guard, owed>>

\* fin: the object has been taken up, and its external resource created.
Object == [live : BOOLEAN, ref : Refs, del : BOOLEAN, fin : BOOLEAN]
Blank == [live |-> FALSE, ref |-> ConfigName, del |-> FALSE, fin |-> FALSE]

Config == [live : BOOLEAN, endpoint : Endpoints \cup {Unset}, del : BOOLEAN, fin : BOOLEAN]
NoConfig == [live |-> FALSE, endpoint |-> Unset, del |-> FALSE, fin |-> FALSE]

Init ==
  /\ obj = [n \in Names |-> Blank]
  /\ config = NoConfig
  /\ usage = [n \in Names |-> NoRef]
  /\ known = [n \in Names |-> NoRef]
  /\ pc = [n \in Names |-> "idle"]
  /\ copy = [n \in Names |-> Blank]
  /\ guard = "idle"
  /\ owed = {}

-----------------------------------------------------------------------------
(* newS4TService: the address each kind's service authenticates at.  Only  *)
(* scheme and host of the endpoint are used; a Plugin's service leaves it  *)
(* all to the SDK, which has an address of its own.                        *)

SdkAddress(e) == [scheme |-> "http", host |-> Loopback, port |-> 5000]

InCluster == [scheme |-> "http", host |-> Service, port |-> 5000]

\* An address without the endpoint's scheme.
PlainAddress(e) ==
  IF e = Unset THEN InCluster ELSE [scheme |-> "http", host |-> e.host, port |-> 5000]

DeviceAddress(e) ==
  IF e = Unset THEN InCluster
               ELSE [scheme |-> e.scheme, host |-> e.host, port |-> 5000]

ServiceAddress(e) == DeviceAddress(e)
BoardPluginInjectionAddress(e) == DeviceAddress(e)
BoardServiceInjectionAddress(e) == DeviceAddress(e)
SiteAddress(e) == DeviceAddress(e)
FleetAddress(e) == DeviceAddress(e)
WebserviceAddress(e) == DeviceAddress(e)
PortAddress(e) == DeviceAddress(e)
ResultAddress(e) == DeviceAddress(e)
RequestAddress(e) == DeviceAddress(e)
PluginAddress(e) == SdkAddress(e)

AddressBy(k, e) ==
  CASE k = "Device"                -> DeviceAddress(e)
    [] k = "Service"               -> ServiceAddress(e)
    [] k = "Plugin"                -> PluginAddress(e)
    [] k = "BoardPluginInjection"  -> BoardPluginInjectionAddress(e)
    [] k = "BoardServiceInjection" -> BoardServiceInjectionAddress(e)
    [] k = "Site"                  -> SiteAddress(e)
    [] k = "Fleet"                 -> FleetAddress(e)
    [] k = "Webservice"            -> WebserviceAddress(e)
    [] k = "Port"                  -> PortAddress(e)
    [] k = "Result"                -> ResultAddress(e)
    [] k = "Request"               -> RequestAddress(e)

\* The worker of n would find Keystone where it looks for it.
Reaches(n) == AddressBy(KindOf[n], config.endpoint) \in Keystone

-----------------------------------------------------------------------------
(* Users.                                                                  *)

Environment == <<usage, known, pc, copy, guard>>

Refers(n) == obj[n].ref = ConfigName

Submit(n) ==
  /\ ~obj[n].live /\ usage[n] = NoRef /\ pc[n] = "idle"
  /\ \E r \in RefsOf[n] : obj' = [obj EXCEPT ![n] = [Blank EXCEPT !.live = TRUE, !.ref = r]]
  /\ owed' = owed \ {n}
  /\ UNCHANGED <<config, Environment>>

UserDeletes(n) ==
  /\ obj[n].live /\ ~obj[n].del
  /\ obj' = [obj EXCEPT ![n] = IF @.fin THEN [@ EXCEPT !.del = TRUE] ELSE Blank]
  /\ UNCHANGED <<config, owed, Environment>>

\* The config controller's copy of the config is outdated by an edit, and its
\* write fails.
UserConfigures ==
  /\ \E e \in Endpoints : config' = [config EXCEPT !.live = TRUE, !.endpoint = e]
  /\ config' # config
  /\ guard' = "idle"
  /\ UNCHANGED <<obj, usage, known, pc, copy, owed>>

\* What the config is good for when it is deleted: the objects that were taken up
\* with it, those left out whose usages the controller's cache does not show yet.
KnownToUse == {n \in Names : obj[n].fin /\ Refers(n) /\ known[n] = usage[n]}

\* A config that its controller has not reviewed yet has no finalizer, and goes.
UserDeletesConfig ==
  /\ config.live /\ ~config.del
  /\ \/ /\ config.fin
        /\ config' = [config EXCEPT !.del = TRUE]
        /\ owed' = KnownToUse
     \/ /\ ~config.fin
        /\ config' = NoConfig
        /\ UNCHANGED owed
  /\ UNCHANGED <<obj, Environment>>

-----------------------------------------------------------------------------
(* Connect, and what it makes possible.                                    *)

Stop(n) ==
  /\ pc' = [pc EXCEPT ![n] = "idle"]
  /\ copy' = [copy EXCEPT ![n] = Blank]

Begin(n) ==
  /\ pc[n] = "idle" /\ obj[n].live
  /\ pc' = [pc EXCEPT ![n] = "track"]
  /\ copy' = [copy EXCEPT ![n] = obj[n]]
  /\ UNCHANGED <<obj, config, usage, known, guard, owed>>

\* A connector that only reads.
TrackNothing(n) ==
  /\ pc[n] = "track"
  /\ pc' = [pc EXCEPT ![n] = "connect"]
  /\ UNCHANGED <<obj, config, usage, known, copy, guard, owed>>

\* A usage with the object's kind where the config's name belongs.
TrackKind(n) ==
  /\ pc[n] = "track"
  /\ usage' = [usage EXCEPT ![n] = KindOf[n]]
  /\ pc' = [pc EXCEPT ![n] = "connect"]
  /\ UNCHANGED <<obj, config, known, copy, guard, owed>>

Track(n) ==
  /\ pc[n] = "track"
  /\ usage' = [usage EXCEPT ![n] = copy[n].ref]
  /\ pc' = [pc EXCEPT ![n] = "connect"]
  /\ UNCHANGED <<obj, config, known, copy, guard, owed>>

Connect(n) ==
  /\ pc[n] = "connect"
  /\ IF config.live /\ Reaches(n)
       THEN pc' = [pc EXCEPT ![n] = "connected"] /\ UNCHANGED copy
       ELSE Stop(n)
  /\ UNCHANGED <<obj, config, usage, known, guard, owed>>

\* The rest of the reconcile: an object that is deleted leaves, another is taken
\* up; nothing happens to one that has changed since it was read.
Complete(n) ==
  /\ pc[n] = "connected"
  /\ obj' = IF copy[n] # obj[n] THEN obj
            ELSE [obj EXCEPT ![n] = IF @.del THEN Blank ELSE [@ EXCEPT !.fin = TRUE]]
  /\ Stop(n)
  /\ UNCHANGED <<config, usage, known, guard, owed>>

Fail(n) ==
  /\ pc[n] # "idle"
  /\ Faults \cap {"error", "crash"} # {}
  /\ Stop(n)
  /\ UNCHANGED <<obj, config, usage, known, guard, owed>>

-----------------------------------------------------------------------------
(* Usages, and the controller of the config.                               *)

\* The garbage collector: a usage is owned by its object.
Collect(n) ==
  /\ ~obj[n].live /\ usage[n] # NoRef
  /\ usage' = [usage EXCEPT ![n] = NoRef]
  /\ UNCHANGED <<obj, config, known, pc, copy, guard, owed>>

Sync(n) ==
  /\ known[n] # usage[n]
  /\ known' = [known EXCEPT ![n] = usage[n]]
  /\ UNCHANGED <<obj, config, usage, pc, copy, guard, owed>>

\* A list of usages that is not restricted to those of the config.
UsersOfAny == {n \in Names : known[n] # NoRef}

Users == {n \in Names : known[n] = ConfigName}

\* A config that is not deleted gets the finalizer, one that is deleted and has
\* no users loses it; users block the deletion.
Review ==
  /\ guard = "idle" /\ config.live
  /\ \/ /\ ~config.del /\ ~config.fin
        /\ config' = [config EXCEPT !.fin = TRUE]
        /\ UNCHANGED guard
     \/ /\ config.del /\ Users = {}
        /\ guard' = "release"
        /\ UNCHANGED config
  /\ UNCHANGED <<obj, usage, known, pc, copy, owed>>

\* Removing the finalizer may fail, and is then tried again after a new review.
Release ==
  /\ guard = "release"
  /\ guard' = "idle"
  /\ \/ config' = NoConfig
     \/ Faults \cap {"error", "crash"} # {} /\ UNCHANGED config
  /\ UNCHANGED <<obj, usage, known, pc, copy, owed>>

Work(n) ==
  Begin(n) \/ Track(n) \/ Connect(n) \/ Complete(n)

Next ==
  \/ \E n \in Names : \/ Submit(n) \/ UserDeletes(n)
                      \/ Work(n) \/ Fail(n) \/ Collect(n) \/ Sync(n)
  \/ UserConfigures \/ UserDeletesConfig \/ Review \/ Release

Spec == Init /\ [][Next]_vars

(***************************************************************************)
(* Fairness.  Workers are scheduled again and again (events, requeues and  *)
(* the poll interval).  The config controller is by the events of configs  *)
(* and of usages, which it watches both, and at the latest when the        *)
(* manager's caches resynchronize (an hour, main).  Caches and the garbage *)
(* collector catch up.  No request fails for ever.                         *)
(***************************************************************************)
Fairness ==
  /\ \A n \in Names :
       /\ WF_vars(Begin(n)) /\ WF_vars(Collect(n)) /\ WF_vars(Sync(n))
       /\ SF_vars(Track(n)) /\ SF_vars(Connect(n)) /\ SF_vars(Complete(n))
  /\ WF_vars(Review) /\ SF_vars(Release /\ ~config'.live)

LiveSpec == Spec /\ Fairness

-----------------------------------------------------------------------------
(* Properties.                                                             *)

\* The variables have their types.
TypeOK ==
  /\ obj \in [Names -> Object]
  /\ config \in Config
  /\ usage \in [Names -> Refs \cup {NoRef}]
  /\ known \in [Names -> Refs \cup {NoRef}]
  /\ pc \in [Names -> {"idle", "track", "connect", "connected"}]
  /\ copy \in [Names -> Object]
  /\ guard \in {"idle", "release"}
  /\ owed \subseteq Names

\* "KeystoneEndpoint is the Keystone authentication endpoint URL.  If not specified,
\* defaults to http://keystone.default.svc.cluster.local:5000/v3".  A Keystone at
\* another port than 5000 is left out: no kind would find it, whatever the config says.
PointsToKeystone ==
  LET e == IF config.endpoint = Unset THEN InCluster ELSE config.endpoint
  IN e \in Keystone /\ e.port = 5000

\* A config does not go before the objects that it was deleted under: those that had
\* been taken up, with usages its controller had seen, when users deleted it.  What
\* other objects do meanwhile, taken up or abandoned, must not make a difference.
KeptForKnown ==
  [][config.live /\ ~config'.live => \A n \in owed : ~obj[n].live]_vars

\* Nor may a config that its controller guards go while any object that names it
\* has something to clean up at IoTronic: the controller "reconciles ProviderConfigs
\* by accounting for their current usage".
ConfigOutlivesUsers ==
  [][config.fin /\ ~config'.fin => \A n \in Names : obj[n].fin => ~Refers(n)]_vars

\* What a usage is worth: an object that is taken up, or about to be, has one for
\* the config it names, and those a deleted config is owed to are known to its
\* controller until they are gone.
Accounted(n) ==
  /\ obj[n].fin => obj[n].live /\ usage[n] = obj[n].ref
  /\ pc[n] # "idle" => copy[n].live
  /\ pc[n] # "idle" /\ obj[n].live => copy[n].ref = obj[n].ref
  /\ pc[n] \in {"connect", "connected"} /\ copy[n] = obj[n] => usage[n] = obj[n].ref
  /\ n \in owed /\ obj[n].live =>
       config.del /\ obj[n].fin /\ Refers(n) /\ known[n] = ConfigName
  /\ n \in owed /\ guard = "release" => ~obj[n].live

GuardInv ==
  /\ config.del => config.live
  /\ guard = "release" => config.del
  /\ \A n \in Names : Accounted(n)

\* The kinds whose services look for Keystone where the config says.
ReadsEndpoint(n) == KindOf[n] # "Plugin"

\* Deletion needs a connection, and gets one: an object, unless it is a Plugin, does
\* not wait for ever while there is a config, or one was owed to it, as long as it
\* points to a Keystone at port 5000.
ObjectDeletionEnds ==
  \A n \in Names :
    ~<>[](/\ obj[n].del /\ ReadsEndpoint(n)
          /\ config.live \/ n \in owed
          /\ config.live => PointsToKeystone)

\* A deleted config is not held for ever once no object names it, provided that
\* users leave it alone.
ConfigDeletionEnds ==
  \A e \in Endpoints :
    ~<>[](/\ config.del /\ config.endpoint = e
          /\ \A n \in Names : obj[n].live => ~Refers(n))

\* An object, unless it is a Plugin, is taken up once the config points to a Keystone
\* at port 5000.
TakenUp ==
  \A n \in Names :
    ~<>[](/\ obj[n].live /\ ~obj[n].fin /\ ReadsEndpoint(n)
          /\ config.live /\ PointsToKeystone)
=============================================================================
