---------------------------- MODULE IotronicApi ----------------------------
(***************************************************************************)
(* The HTTP interface of IoTronic as the provider sees it: which answers a *)
(* request may get.  IoTronic itself is not in the repository; its codes   *)
(* and effects are those the handlers under internal/controller test for.  *)
(*                                                                         *)
(* A resource's payload is abstracted to two fields: "key" stands for the  *)
(* field some Observe methods compare (a board's code, a plugin's name),   *)
(* "rest" for all the others.                                              *)
(***************************************************************************)
EXTENDS Naturals

CONSTANTS
  Ids,      \* the uuids IoTronic may hand out
  NoId,     \* the empty uuid ""
  Values,   \* the values of a payload field
  Empty,    \* the value of one that is not set; not every field can be without
  Faults    \* what may go wrong in the environment, see KnownFaults

(***************************************************************************)
(*   error       a request is refused (5xx, connection refused), no effect *)
(*   garbled     the body of a 2xx answer to a read does not decode        *)
(*   lost        an update or delete takes effect, its answer is lost      *)
(*   lostCreate  a create takes effect, its answer is lost or unreadable   *)
(*   vanish      a resource is removed behind the provider's back          *)
(*   crash       the provider process dies and is restarted                *)
(*   race        users write an object while its external resource is      *)
(*               being created, and edit objects they have deleted         *)
(***************************************************************************)
KnownFaults ==
  {"error", "garbled", "lost", "lostCreate", "vanish", "crash", "race"}

ASSUME ApiAssumption ==
  /\ NoId \notin Ids
  /\ Values # {}
  /\ Faults \subseteq KnownFaults

Data == [key : Values, rest : Values]
Refs == Ids \cup {NoId}

NoData == CHOOSE d \in Data : TRUE

\* Answers: with nothing in them that decodes, or complete.  No answer at all is
\* code 0: http.Client.Do returned an error.
Bare(c) == [code |-> c, readable |-> FALSE, uuid |-> NoId, data |-> NoData]

Full(c, i, d) == [code |-> c, readable |-> TRUE, uuid |-> i, data |-> d]

\* Answers that come without any effect on IoTronic.
Refusals == IF "error" \in Faults THEN {Bare(500), Bare(0)} ELSE {}

\* GET of one resource; ext is IoTronic's table, a function on the live uuids.
GetAnswer(ext, i) ==
  IF i \in DOMAIN ext THEN Full(200, i, ext[i].data) ELSE Bare(404)

\* What may come back instead.
ReadFailures ==
  Refusals \cup (IF "garbled" \in Faults THEN {Bare(200)} ELSE {})

\* A create (POST, or PUT for ports) that stored resource i with payload d.
CreateAnswers(i, d) ==
  {Full(201, i, d)}
    \cup (IF "lostCreate" \in Faults THEN {Bare(0), Bare(201)} ELSE {})

\* An update that was applied (or found no resource) / a delete likewise; ok is
\* the code IoTronic answers for that kind when the resource was there.
WriteAnswers(ext, i, ok) ==
  {IF i \in DOMAIN ext THEN Full(ok, i, ext[i].data) ELSE Bare(404)}
    \cup (IF "lost" \in Faults THEN {Bare(0)} ELSE {})
=============================================================================
