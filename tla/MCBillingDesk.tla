--------------------------- MODULE MCBillingDesk ---------------------------
(***************************************************************************)
(* BillingDesk on amounts small enough for every rounding to bite, and on  *)
(* the starting dates that have no counterpart in some month.              *)
(***************************************************************************)
EXTENDS BillingDesk

Line(price, quantity, rate) ==
  [price |-> price, quantity |-> quantity, rate |-> rate]

SmallLines ==
  {Line(1, 1, 1800), Line(3, 1, 1800), Line(105, 1, 1800), Line(25, 3, 500)}

MixedLines == {Line(0, 1, 1800), Line(2, 1, 1800), Line(-3, 1, 1800)}

AllLines == SmallLines \cup MixedLines

Date(y, m, d) == [y |-> y, m |-> m, d |-> d, q |-> 1]

\* Ends of month before February, in and out of a leap year, a leap day, the
\* turn of the year and an ordinary day.
AwkwardDates ==
  {Date(2023, 7, 31), Date(2024, 0, 31), Date(2024, 1, 29),
   Date(2024, 11, 31), Date(2024, 4, 15)}

AroundAPeriod == {-20, 0, 1, 28}
=============================================================================
