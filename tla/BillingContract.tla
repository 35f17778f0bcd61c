--------------------------- MODULE BillingContract ---------------------------
(***************************************************************************)
(* What the renewal code promises each subscription: it is charged for the *)
(* period it is about to enter, once, and enters it only when that has     *)
(* been charged.  There are no sweeps, requests, faults or stale reads     *)
(* here; module Renewals, which has them all, implements this one.         *)
(***************************************************************************)
EXTENDS Naturals

CONSTANTS
  SubIds,  \* subscriptions
  None     \* not opened yet

VARIABLES
  through,  \* the date each subscription is paid up to, or None
  billed    \* the periods each has been invoiced for

contractVars == <<through, billed>>

Init ==
  /\ through \in [SubIds -> Nat \cup {None}]
  /\ billed = [s \in SubIds |-> {}]

\* A customer subscribes.
Open(s) ==
  /\ through[s] = None
  /\ through'[s] \in Nat
  /\ through' = [through EXCEPT ![s] = through'[s]]
  /\ UNCHANGED billed

\* The period being entered is invoiced, for the first time.
Charge(s) ==
  /\ through[s] # None
  /\ through[s] \notin billed[s]
  /\ billed' = [billed EXCEPT ![s] = @ \cup {through[s]}]
  /\ UNCHANGED through

\* The period is entered, having been invoiced: the date moves forward.
Enter(s) ==
  /\ through[s] \in billed[s]
  /\ through'[s] \in Nat
  /\ through'[s] > through[s]
  /\ through' = [through EXCEPT ![s] = through'[s]]
  /\ UNCHANGED billed

Next == \E s \in SubIds : Open(s) \/ Charge(s) \/ Enter(s)

Spec == Init /\ [][Next]_contractVars
=============================================================================
