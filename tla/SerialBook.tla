----------------------------- MODULE SerialBook -----------------------------
(***************************************************************************)
(* The register of documents Rule 46(b) asks for: in each financial year   *)
(* the numbers 1, 2, 3, ... in that order, none skipped, none used twice,  *)
(* none ever taken out.  Module InvoiceLedger implements it with           *)
(* concurrent transactions that may fail.                                  *)
(***************************************************************************)
EXTENDS Naturals, Sequences

CONSTANT Years

VARIABLE entries  \* the numbers entered, year by year

Init == entries = [y \in Years |-> <<>>]

Enter(y) ==
  entries' = [entries EXCEPT ![y] = Append(@, Len(@) + 1)]

Next == \E y \in Years : Enter(y)

Spec == Init /\ [][Next]_entries
=============================================================================
