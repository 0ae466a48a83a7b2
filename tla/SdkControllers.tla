--------------------------- MODULE SdkControllers ---------------------------
(***************************************************************************)
(* The external clients that go through the s4t SDK: Device, Plugin and    *)
(* Service.  The SDK is outside the repository: of its calls the handlers  *)
(* see an object or an error.                                              *)
(***************************************************************************)
EXTENDS IotronicApi

\* The SDK's getters decode 200, give the zero object for 404, and an error for
\* everything else.
SdkGetFailed(a) == a.code # 404 /\ ~(a.code = 200 /\ a.readable)

-----------------------------------------------------------------------------
(* Observe.  Only a Device's code and a Plugin's name are compared with    *)
(* the desired state, and a Service's nothing.                             *)

\* An Observe that reports a difference nowhere, as the Service's.
DeviceObserveNeverStale(o, a) ==
  IF SdkGetFailed(a) THEN "error"
  ELSE IF a.uuid = NoId THEN "absent" ELSE "current"

\* An Observe that takes every error for a resource that is not there.
DeviceObserveAbsentOnError(o, a) ==
  IF SdkGetFailed(a) \/ a.uuid = NoId THEN "absent"
  ELSE IF o.want.key # a.data.key THEN "stale" ELSE "current"

\* An Observe that does not know the zero object of a 404.
DeviceObserveMissingIsError(o, a) ==
  IF SdkGetFailed(a) \/ (a.uuid = NoId /\ o.uuid # NoId) THEN "error"
  ELSE IF a.uuid = NoId THEN "absent"
  ELSE IF o.want.key # a.data.key THEN "stale" ELSE "current"

DeviceObserve(o, a) ==
  IF SdkGetFailed(a) THEN "error"
  ELSE IF a.uuid = NoId THEN "absent"
  ELSE IF o.want.key # a.data.key THEN "stale" ELSE "current"

PluginObserve(o, a) ==
  IF SdkGetFailed(a) THEN "error"
  ELSE IF a.uuid = NoId THEN "absent"
  ELSE IF o.want.key # a.data.key THEN "stale" ELSE "current"

ServiceObserve(o, a) ==
  IF SdkGetFailed(a) THEN "error"
  ELSE IF a.uuid = NoId THEN "absent" ELSE "current"

-----------------------------------------------------------------------------
(* Create.  The SDK returns the created object for 201, else an error.     *)

DeviceCreate(o, a) ==
  IF a.code = 201 /\ a.readable THEN [ok |-> TRUE, uuid |-> a.uuid]
                                ELSE [ok |-> FALSE, uuid |-> o.uuid]
PluginCreate(o, a) ==
  IF a.code = 201 /\ a.readable THEN [ok |-> TRUE, uuid |-> a.uuid]
                                ELSE [ok |-> FALSE, uuid |-> o.uuid]
ServiceCreate(o, a) ==
  IF a.code = 201 /\ a.readable THEN [ok |-> TRUE, uuid |-> a.uuid]
                                ELSE [ok |-> FALSE, uuid |-> o.uuid]

-----------------------------------------------------------------------------
(* Update: a Device sends its code alone, Plugins and Services send all    *)
(* they have.                                                              *)

\* An Update that sends the name where the code belongs: nothing compared
\* changes.
DeviceUpdateBodyWrongField(o, d) == [d EXCEPT !.rest = o.want.rest]

DeviceUpdateBody(o, d) == [d EXCEPT !.key = o.want.key]
PluginUpdateBody(o, d) == o.want
ServiceUpdateBody(o, d) == o.want

DeviceUpdate(o, a) == a.code = 200 /\ a.readable
PluginUpdate(o, a) == a.code = 200 /\ a.readable
ServiceUpdate(o, a) == a.code = 200 /\ a.readable

-----------------------------------------------------------------------------
(* Delete.  Unlike the REST handlers, a 404 is an error here.              *)

DeviceDelete(o, a) == a.code = 200
PluginDelete(o, a) == a.code = 204
ServiceDelete(o, a) == a.code = 204
=============================================================================
