------------------------- MODULE InjectionLifecycle -------------------------
(***************************************************************************)
(* What the controllers for injections promise, seen from outside: objects *)
(* ask for a board to be injected, several perhaps for the same; what they *)
(* ask for is done while it is asked for, undone once it no longer is, and *)
(* nobody who has asked leaves anything behind that only he accounts for.  *)
(* No workers, no copies, no pending marks.                                *)
(*                                                                         *)
(* Whoever undoes an injection has been told that somebody leaves, and may *)
(* act on it after that one has left, or asked again.  It then undoes what *)
(* others want, since an injection belongs to nobody in particular; they   *)
(* have to have it made once more.                                         *)
(*                                                                         *)
(* A board that loses its connection may lose what was injected; nothing   *)
(* is done to one that is not connected.                                   *)
(*                                                                         *)
(* Module BoardInjection implements this one, through a refinement mapping *)
(* at its end.                                                             *)
(***************************************************************************)
CONSTANTS
  Names,     \* what the objects are called
  Boards,    \* the boards they may name
  Hurried    \* what has just been withdrawn may still be done once

VARIABLES
  wanted,    \* the board that n wants injected, if any, as a set
  leaving,   \* the board that n no longer wants, but has not left yet
  told,      \* the boards that n is remembered to leave, or to have left
  online,    \* the boards that are connected
  injected   \* the boards that have it

vars == <<wanted, leaving, told, online, injected>>

Named(n) == wanted[n] \cup leaving[n]

Init ==
  /\ wanted = [n \in Names |-> {}]
  /\ leaving = [n \in Names |-> {}]
  /\ told = [n \in Names |-> {}]
  /\ online = Boards
  /\ injected = {}

Ask(n) ==
  /\ Named(n) = {}
  /\ \E b \in Boards : wanted' = [wanted EXCEPT ![n] = {b}]
  /\ UNCHANGED <<leaving, told, online, injected>>

Withdraw(n) ==
  /\ wanted[n] # {}
  /\ wanted' = [wanted EXCEPT ![n] = {}]
  /\ leaving' = [leaving EXCEPT ![n] = wanted[n]]
  /\ UNCHANGED <<told, online, injected>>

\* Hearing that n leaves, and forgetting it.
Hear(n) ==
  /\ \E t \in SUBSET (told[n] \cup leaving[n]) : told' = [told EXCEPT ![n] = t]
  /\ UNCHANGED <<wanted, leaving, online, injected>>

\* Whoever leaves leaves to others what is still injected.
Leave(n) ==
  /\ \A b \in Named(n) \cap injected : \E m \in Names \ {n} : b \in Named(m)
  /\ wanted' = [wanted EXCEPT ![n] = {}]
  /\ leaving' = [leaving EXCEPT ![n] = {}]
  /\ \E t \in SUBSET told[n] : told' = [told EXCEPT ![n] = t]
  /\ UNCHANGED <<online, injected>>

Inject(b) ==
  /\ b \in online
  /\ \E n \in Names : b \in IF Hurried THEN Named(n) ELSE wanted[n]
  /\ injected' = injected \cup {b}
  /\ UNCHANGED <<wanted, leaving, told, online>>

\* Undone for one who is told to leave, though others may want it still.
Undo(b) ==
  /\ b \in online
  /\ \E n \in Names : b \in told[n]
  /\ injected' = injected \ {b}
  /\ UNCHANGED <<wanted, leaving, told, online>>

Connect(b) ==
  /\ online' = online \cup {b}
  /\ UNCHANGED <<wanted, leaving, told, injected>>

Disconnect(b) ==
  /\ online' = online \ {b}
  /\ injected' \in {injected, injected \ {b}}
  /\ UNCHANGED <<wanted, leaving, told>>

Next ==
  \/ \E n \in Names : Ask(n) \/ Withdraw(n) \/ Hear(n) \/ Leave(n)
  \/ \E b \in Boards : Inject(b) \/ Undo(b) \/ Connect(b) \/ Disconnect(b)

Spec == Init /\ [][Next]_vars
=============================================================================
