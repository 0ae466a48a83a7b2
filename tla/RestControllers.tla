-------------------------- MODULE RestControllers --------------------------
(***************************************************************************)
(* The external clients that talk to IoTronic by plain REST calls: Fleet,  *)
(* Webservice, Port and Request.  Each handler is a function from the      *)
(* object o it is given and the answer a to its one HTTP call to what it   *)
(* tells the managed reconciler.  The four packages repeat one another, so *)
(* three of every handler are defined by the Fleet's.                      *)
(***************************************************************************)
EXTENDS IotronicApi

\* makeRESTCall returned an error instead of a response: no answer within the
\* client's 30 seconds, or no connection.
FleetRESTFailed(a) == a.code = 0
WebserviceRESTFailed(a) == FleetRESTFailed(a)
PortRESTFailed(a) == FleetRESTFailed(a)
RequestRESTFailed(a) == FleetRESTFailed(a)

-----------------------------------------------------------------------------
(* Observe: "error", "absent" or "current".  Never "stale": no handler     *)
(* compares the answer with the desired state.                             *)

\* An Observe that takes every answer but 200 for "not there", as the one of
\* BoardServiceInjection does.
FleetObserveAbsentUnlessOK(o, a) ==
  IF o.uuid = NoId THEN "absent"
  ELSE IF FleetRESTFailed(a) THEN "error"
  ELSE IF a.code # 200 THEN "absent"
  ELSE IF ~a.readable THEN "error" ELSE "current"

\* An Observe that asks for fleet "": the answer is the list of all fleets.
FleetObserveAsksForAll(o, a) ==
  IF FleetRESTFailed(a) THEN "error"
  ELSE IF o.uuid # NoId /\ a.code = 404 THEN "absent"
  ELSE IF a.code \notin {200, 404} THEN "error" ELSE "current"

FleetObserve(o, a) ==
  IF o.uuid = NoId THEN "absent"
  ELSE IF FleetRESTFailed(a) THEN "error"
  ELSE IF a.code = 404 THEN "absent"
  ELSE IF a.code # 200 \/ ~a.readable THEN "error" ELSE "current"

WebserviceObserve(o, a) == FleetObserve(o, a)
PortObserve(o, a) == FleetObserve(o, a)
RequestObserve(o, a) == FleetObserve(o, a)

-----------------------------------------------------------------------------
(* Create: was it a success, and the spec.forProvider.uuid it leaves in    *)
(* the object it was given.                                                *)

\* A Create that drops the uuid of the answer.
FleetCreateForgetsUuid(o, a) ==
  [ok |-> ~FleetRESTFailed(a) /\ a.code = 201 /\ a.readable, uuid |-> o.uuid]

\* A Create that prints whatever the answer holds under "uuid".
FleetCreatePrintsUuid(o, a) ==
  [ok |-> a.code = 201,
   uuid |-> IF a.code # 201 THEN o.uuid ELSE IF a.readable THEN a.uuid ELSE "<nil>"]

FleetCreate(o, a) ==
  IF ~FleetRESTFailed(a) /\ a.code = 201 /\ a.readable
    THEN [ok |-> TRUE, uuid |-> IF a.uuid # NoId THEN a.uuid ELSE o.uuid]
    ELSE [ok |-> FALSE, uuid |-> o.uuid]

WebserviceCreate(o, a) == FleetCreate(o, a)
PortCreate(o, a) == FleetCreate(o, a)
RequestCreate(o, a) == FleetCreate(o, a)

-----------------------------------------------------------------------------
(* Update: the payload IoTronic holds once the PATCH is applied to d, and  *)
(* whether the handler reports success.  A field that is not set is left   *)
(* out of the PATCH.  A Port's board, a Webservice's board and a Request's *)
(* destination and type are never sent again; the fields that are sent     *)
(* stand for "key" here, those that are not for "rest".                    *)

Sent(wanted, held) == IF wanted = Empty THEN held ELSE wanted

FleetUpdateBody(o, d) ==
  [key |-> Sent(o.want.key, d.key), rest |-> Sent(o.want.rest, d.rest)]

WebserviceUpdateBody(o, d) == [d EXCEPT !.key = Sent(o.want.key, @)]
PortUpdateBody(o, d) == WebserviceUpdateBody(o, d)
RequestUpdateBody(o, d) == WebserviceUpdateBody(o, d)

FleetUpdate(o, a) == ~FleetRESTFailed(a) /\ a.code = 200
WebserviceUpdate(o, a) == FleetUpdate(o, a)
PortUpdate(o, a) == FleetUpdate(o, a)
RequestUpdate(o, a) == FleetUpdate(o, a)

-----------------------------------------------------------------------------
(* Delete: 204, and 404 as well, for a resource that is already gone.      *)

FleetDelete(o, a) == ~FleetRESTFailed(a) /\ a.code \in {204, 404}
WebserviceDelete(o, a) == FleetDelete(o, a)
PortDelete(o, a) == FleetDelete(o, a)
RequestDelete(o, a) == FleetDelete(o, a)
=============================================================================
