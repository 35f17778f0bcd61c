----------------------------- MODULE MCRenewals -----------------------------
(***************************************************************************)
(* Renewals on small instances: one or two subscriptions of one customer,  *)
(* and a cycle of two ticks (three for the second plan).                   *)
(***************************************************************************)
EXTENDS Renewals

CONSTANTS c1, c2, s1, s2, basic, pro

OneSub         == [s \in {s1} |-> c1]
SameCustomer   == [s \in {s1, s2} |-> c1]
MonthlyOnly    == [p \in {basic} |-> 2]
CycleInTicks   == [p \in {basic, pro} |-> IF p = basic THEN 2 ELSE 3]
=============================================================================
