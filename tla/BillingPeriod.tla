--------------------------- MODULE BillingPeriod ---------------------------
(***************************************************************************)
(* The calendar of renewals: backend/src/billing/billing-period.ts.        *)
(*                                                                         *)
(* A date is its year, its month (0 to 11, as Date counts them), its day   *)
(* and its quarter of a day: the code carries the time of day through      *)
(* unchanged, and only prorating looks at it, by the nearest day.          *)
(***************************************************************************)
EXTENDS Integers, FiniteSetsExt

MonthsInCycle ==
  [MONTHLY |-> 1, QUARTERLY |-> 3, YEARLY |-> 12, BIENNIAL |-> 24,
   TRIENNIAL |-> 36]

IsLeap(y) == y % 4 = 0 /\ (y % 100 # 0 \/ y % 400 = 0)

\* daysInMonth.
DaysInMonth(y, m) ==
  IF m = 1 THEN (IF IsLeap(y) THEN 29 ELSE 28)
  ELSE IF m \in {3, 5, 8, 10} THEN 30 ELSE 31

Dates == [y : Nat, m : 0..11, d : 1..31, q : 0..3]
DateOK(date) == date \in Dates /\ date.d <= DaysInMonth(date.y, date.m)

MonthIndex(date) == 12 * date.y + date.m

\* The day a date falls on, counted from one fixed day, and its quarter days:
\* what getTime measures.
DaysBefore(y, m) ==
  LET past == y - 1
  IN  365 * past + past \div 4 - past \div 100 + past \div 400
        + SumFunction([k \in 0..(m - 1) |-> DaysInMonth(y, k)])

DayNumber(date) == DaysBefore(date.y, date.m) + date.d

Instant(date) == 4 * DayNumber(date) + date.q

\* addMonths.  Months may be negative: \div and % floor, which is what the
\* code's Math.floor and its extra wrap around % do.
\* Operators named ...Slip are plausible mistakes in the definition they stand
\* before.
AddMonthsSlip(date, months) ==  \* does not clamp
  [date EXCEPT !.y = @ + (date.m + months) \div 12,
               !.m = (@ + months) % 12]

AddMonthsWrapSlip(date, months) ==  \* % keeps the sign: back past January
  LET target == date.m + months
      m      == IF target < 0 THEN 0 ELSE target % 12
      y      == date.y + target \div 12
  IN  [date EXCEPT !.y = y, !.m = m,
                   !.d = IF @ > DaysInMonth(y, m) THEN DaysInMonth(y, m) ELSE @]

AddMonths(date, months) ==
  LET target == date.m + months
      y      == date.y + target \div 12
      m      == target % 12
  IN  [date EXCEPT !.y = y, !.m = m,
                   !.d = IF @ > DaysInMonth(y, m) THEN DaysInMonth(y, m) ELSE @]

NextRenewal(from, cycle) == AddMonths(from, MonthsInCycle[cycle])

\* renewalAfter: count the whole cycles from the anchor, rounded up, at least
\* one, then step on past a date that has been clamped, at most 120 times.
RenewalAfterSlip(anchor, renewsAt, cycle) == NextRenewal(renewsAt, cycle)

RenewalAfter(anchor, renewsAt, cycle) ==
  LET months  == MonthsInCycle[cycle]
      elapsed == MonthIndex(renewsAt) - MonthIndex(anchor)
      ceiling == -((-elapsed) \div months)
      cycles  == IF ceiling < 1 THEN 1 ELSE ceiling
      later   == {guard \in 0..2 :
                    Instant(AddMonths(anchor, (cycles + guard) * months))
                      > Instant(renewsAt)}
  IN  AddMonths(anchor, (cycles + Min(later)) * months)

\* The days prorate counts between two instants: to the nearest, halves up.
DaysBetween(from, to) == (Instant(to) - Instant(from) + 2) \div 4
=============================================================================
