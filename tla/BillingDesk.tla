---------------------------- MODULE BillingDesk ----------------------------
(***************************************************************************)
(* What one customer is billed, and when: the arithmetic of Gst and        *)
(* BillingPeriod as SubscriptionsService and InvoiceService put it to use, *)
(* one request at a time (Renewals has the interleavings, InvoiceLedger    *)
(* the numbering).                                                         *)
(*                                                                         *)
(* A customer either has a subscription or is invoiced by hand: nothing in *)
(* the code ties the two, and the model keeps them apart to stay small.    *)
(***************************************************************************)
EXTENDS Gst, BillingPeriod

CONSTANTS
  Lines,      \* lines an administrator may put on an invoice
  MaxLines,   \* bound: lines on one invoice
  Discounts,  \* discounts an administrator may give
  Cycles,     \* billing cycles of plans
  Starts,     \* dates a subscription may start on
  Prices,     \* prices of plans
  Lateness,   \* days after entering a period on which the plan is changed
  MaxPeriods, \* bound: periods renewed
  None        \* nothing yet

LineType == [price : Int, quantity : Nat \ {0}, rate : Nat]

ASSUME DeskAssumption ==
  /\ MaxLines \in Nat /\ MaxPeriods \in Nat \ {0}
  /\ Lines \subseteq LineType
  /\ Discounts \subseteq Nat
  /\ Prices \subseteq Nat
  /\ Cycles \subseteq DOMAIN MonthsInCycle
  /\ \A start \in Starts : DateOK(start)
  /\ Lateness \subseteq -28..28

VARIABLES
  state,     \* the customer's billing state: the supplier's, another, unknown
  sub,       \* the subscription: anchor, renewsAt, cycle, price; or None
  previous,  \* the renewal date before that, for the properties
  periods,   \* periods since the anchor, for the properties
  invoice,   \* the last invoice: lines, discount, state and totals; or None
  credit     \* the totals of the credit note against it, or None

vars == <<state, sub, previous, periods, invoice, credit>>

States == {"home", "away", ""}
Rate == 1800

Init ==
  /\ state \in States
  /\ sub = None
  /\ previous = None
  /\ periods = 0
  /\ invoice = None
  /\ credit = None

Document(lines, discount) ==
  [lines |-> lines, discount |-> discount, state |-> state,
   totals |-> CalculateInvoice(lines, discount, TaxKindFor("home", state))]

OneLine(price) == [price |-> price, quantity |-> 1, rate |-> Rate]

\* POST /admin/invoices.
IssueByHand(n) ==
  /\ sub = None
  /\ invoice = None
  /\ \E lines \in [1..n -> Lines], discount \in Discounts :
       invoice' = Document(lines, discount)
  /\ UNCHANGED <<state, sub, previous, periods, credit>>

\* creditNoteFor: the lines negated, at today's state, without the discount.
CreditNote ==
  /\ invoice # None
  /\ credit = None
  /\ LET reversed == [i \in DOMAIN invoice.lines |->
                        [invoice.lines[i] EXCEPT !.price = -@]]
     IN  credit' = Document(reversed, 0).totals
  /\ UNCHANGED <<state, sub, previous, periods, invoice>>

\* The customer's address is corrected, or the customer moves.
Move(to) ==
  /\ to # state
  /\ sub = None /\ invoice # None /\ credit = None
  /\ state' = to
  /\ UNCHANGED <<sub, previous, periods, invoice, credit>>

\* subscribe: the first period is not invoiced.
Subscribe(start, cycle, price) ==
  /\ sub = None /\ invoice = None
  /\ sub' = [anchor |-> start, renewsAt |-> NextRenewal(start, cycle),
             cycle |-> cycle, price |-> price]
  /\ previous' = start
  /\ periods' = 1
  /\ UNCHANGED <<state, invoice, credit>>

Renew ==
  /\ sub # None
  /\ periods < MaxPeriods
  /\ sub' = [sub EXCEPT !.renewsAt = RenewalAfter(sub.anchor, @, sub.cycle)]
  /\ previous' = sub.renewsAt
  /\ periods' = periods + 1
  /\ invoice' = Document(<<OneLine(sub.price)>>, 0)
  /\ credit' = None
  /\ UNCHANGED state

\* PlansService.update: whoever is on the plan renews at the price in force then,
\* and what was issued stays as it is.  (A plan whose cycle is changed as well is
\* left out: the code reads the new cycle for periods that began with the old.)
Reprice(price) ==
  /\ sub # None
  /\ sub' = [sub EXCEPT !.price = price]
  /\ UNCHANGED <<state, previous, periods, invoice, credit>>

\* changePlan: what it takes for the period being left, the days of it used,
\* the credit and the lines of the invoice.
LeftPeriod == AddMonths(sub.renewsAt, -MonthsInCycle[sub.cycle])

UnusedCredit(date) ==
  Prorate(sub.price, DaysBetween(LeftPeriod, sub.renewsAt),
          DaysBetween(LeftPeriod, date))

ChangePlan(date, price, cycle) ==
  /\ sub.anchor \in Starts  \* bound: one plan change in a life
  /\ price # sub.price        \* bound: to a plan of another price
  /\ LET unused == UnusedCredit(date)
         lines  == IF unused > 0
                   THEN <<OneLine(price), OneLine(-unused)>>
                   ELSE <<OneLine(price)>>
     IN  invoice' = Document(lines, 0)
  /\ sub' = [anchor |-> date, renewsAt |-> NextRenewal(date, cycle),
             cycle |-> cycle, price |-> price]
  /\ previous' = date
  /\ periods' = 1
  /\ credit' = None
  /\ UNCHANGED state

\* The date up to 28 days after another, at a quarter of the day.
Later(date, days, quarter) ==
  LET far  == date.d + days
      end  == DaysInMonth(date.y, date.m)
      next == AddMonths([date EXCEPT !.d = 1], 1)
  IN  IF far <= end THEN [date EXCEPT !.d = far, !.q = quarter]
      ELSE [next EXCEPT !.d = far - end, !.q = quarter]

\* Days may be negative, for a subscription renewed in advance has not yet
\* entered the period it is said to be leaving; two months on, a monthly one
\* has run out.
ChangeDates == {Later(previous, days, quarter) :
                  days \in {d \in Lateness : previous.d + d >= 1},
                  quarter \in {0, 3}}
                \cup {AddMonths(previous, 2)}

Next ==
  \/ \E n \in 1..MaxLines : IssueByHand(n)
  \/ CreditNote
  \/ \E to \in States : Move(to)
  \/ \E start \in Starts, cycle \in Cycles, price \in Prices :
       Subscribe(start, cycle, price)
  \/ Renew
  \/ \E price \in Prices : Reprice(price)
  \/ /\ sub # None
     /\ \E date \in ChangeDates, price \in Prices,
           cycle \in Cycles : ChangePlan(date, price, cycle)

Spec == Init /\ [][Next]_vars

-----------------------------------------------------------------------------
(* Properties.                                                             *)

\* Every date is one the calendar has: no renewal falls on 31 February.
TypeOK ==
  /\ state \in States
  /\ sub # None => DateOK(sub.anchor) /\ DateOK(sub.renewsAt)
  /\ periods \in 0..MaxPeriods

Documents == {d \in {invoice} : d # None}

Negated(totals) ==
  [subtotal |-> -totals.subtotal, cgst |-> -totals.cgst, sgst |-> -totals.sgst,
   igst |-> -totals.igst, roundOff |-> -totals.roundOff, total |-> -totals.total]

Amounts(totals) ==
  [subtotal |-> totals.subtotal, cgst |-> totals.cgst, sgst |-> totals.sgst,
   igst |-> totals.igst, roundOff |-> totals.roundOff, total |-> totals.total]

\* An invoice adds up: the tax of each line is split without gaining or losing
\* a paisa, the heads are those of one kind of supply, and the total is a whole
\* number of rupees within half a rupee of what was added.
TotalsReconcile ==
  \A d \in Documents :
    LET t == d.totals
    IN  /\ \A i \in DOMAIN t.lines :
             t.lines[i].cgst + t.lines[i].sgst + t.lines[i].igst
               = Round(t.lines[i].taxable * d.lines[i].rate, 10000)
        /\ t.igst = 0 \/ (t.cgst = 0 /\ t.sgst = 0)
        /\ t.total = t.subtotal + t.cgst + t.sgst + t.igst + t.roundOff
        /\ t.total % 100 = 0
        /\ Abs(t.roundOff) <= 50

\* A credit note against an undiscounted invoice is its exact negative, head
\* by head, round-off included, unless the customer has moved meanwhile to
\* where the tax is of another kind.
CreditMirrors ==
  credit # None /\ invoice.discount = 0 /\ credit.kind = invoice.totals.kind
    => Amounts(credit) = Negated(invoice.totals)

\* What the distribution of a discount over lines of positive amounts really
\* guarantees: nothing is lost but, when a last line is too small to bear the
\* paise left over, less than one for each line before it.
DiscountNearlyShared ==
  \A d \in Documents :
    (\A i \in DOMAIN d.lines : d.lines[i].price > 0) =>
      LET short == d.totals.subtotal
                     - (Gross(d.lines) - d.totals.discount)
      IN  /\ short >= 0
          /\ short <= IF Len(d.lines) < 2 THEN 0 ELSE Len(d.lines) - 2
          /\ \A i \in DOMAIN d.lines : d.totals.lines[i].taxable >= 0

\* Renewals keep to the anniversary of the start: the n-th is n cycles later,
\* on the same day or the last of a shorter month, however often it was
\* clamped on the way.
RenewsOnAnniversary ==
  sub # None =>
    /\ MonthIndex(sub.renewsAt) - MonthIndex(sub.anchor)
         = periods * MonthsInCycle[sub.cycle]
    /\ sub.renewsAt.d =
         LET end == DaysInMonth(sub.renewsAt.y, sub.renewsAt.m)
         IN  IF sub.anchor.d > end THEN end ELSE sub.anchor.d

\* The period a plan change takes to be the one being left, one cycle back from
\* the renewal date, begins on the date it was really entered or, after a clamp,
\* at most three days before it.
LeavesThePaidPeriod ==
  sub # None =>
    DayNumber(previous) - DayNumber(LeftPeriod) \in 0..3

\* The credit for a plan change is part of the price, all of it up to the day
\* the period was entered and none from the day it ends, and waiting a day
\* never earns more.
CreditShrinks ==
  sub # None =>
    LET unused == [date \in ChangeDates |-> UnusedCredit(date)]
        at     == [date \in ChangeDates |-> Instant(date)]
    IN  /\ \A date \in ChangeDates : unused[date] \in 0..sub.price
        /\ \A date, after \in ChangeDates :
             at[date] <= at[after] => unused[after] <= unused[date]
        /\ UnusedCredit(sub.renewsAt) = 0

=============================================================================
