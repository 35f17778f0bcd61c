--------------------------------- MODULE Gst ---------------------------------
(***************************************************************************)
(* GST on one document, in whole paise: backend/src/billing/gst.ts.        *)
(*                                                                         *)
(* Every quotient the code rounds is a quotient of two integers far below  *)
(* 2^53, so a half is a half exactly and no rounding differs from the one  *)
(* of rational numbers, which is what is written here.                     *)
(***************************************************************************)
EXTENDS Integers, Sequences, Functions

TaxKinds == {"CGST_SGST", "IGST", "ZERO_RATED"}

Abs(n) == IF n < 0 THEN -n ELSE n

Sign(n) == IF n < 0 THEN -1 ELSE IF n = 0 THEN 0 ELSE 1

\* Math.trunc(n / d), for d # 0.
Truncate(n, d) == Sign(n) * Sign(d) * (Abs(n) \div Abs(d))

\* roundHalfAwayFromZero(n / d), for d > 0.  Operators named ...Slip are
\* plausible mistakes in the definition they stand before.
RoundSlip(n, d) == (2 * n + d) \div (2 * d)  \* Math.round: half up

Round(n, d) == Sign(n) * ((2 * Abs(n) + d) \div (2 * d))

\* splitHalves: the odd paisa goes to CGST.
SplitHalvesSlip(tax) == [cgst |-> Round(tax, 2), sgst |-> Round(tax, 2)]

SplitHalves(tax) ==
  [cgst |-> tax - Truncate(tax, 2), sgst |-> Truncate(tax, 2)]

\* placeOfSupply and taxKindFor, of a customer whose state may be unrecorded.
\* An invoice never sets the country, so it is never an export.
PlaceOfSupply(supplierState, customerState) ==
  IF customerState = "" THEN supplierState ELSE customerState

TaxKindFor(supplierState, customerState) ==
  IF PlaceOfSupply(supplierState, customerState) = supplierState
  THEN "CGST_SGST" ELSE "IGST"

-----------------------------------------------------------------------------
(* Lines: a price, a quantity and a rate in basis points.                  *)

GrossOf(line) == line.price * line.quantity

Gross(lines) == SumFunction([i \in DOMAIN lines |-> GrossOf(lines[i])])

\* taxLine: a discount reduces a line towards zero, never past it.
TaxableValue(gross, share) ==
  IF Sign(gross - share) = -Sign(gross) THEN 0 ELSE gross - share

TaxLine(line, kind, share) ==
  LET taxable == TaxableValue(GrossOf(line), share)
      tax     == IF kind = "ZERO_RATED" THEN 0
                 ELSE Round(taxable * line.rate, 10000)
      halves  == IF kind = "CGST_SGST" THEN SplitHalves(tax)
                 ELSE [cgst |-> 0, sgst |-> 0]
  IN  [taxable |-> taxable, cgst |-> halves.cgst, sgst |-> halves.sgst,
       igst |-> IF kind = "IGST" THEN tax ELSE 0]

\* The discount a document carries, in its own direction, and each line's
\* share of it: proportional, with what is left over on the last line.
DiscountOn(gross, discount) ==
  LET wanted == IF discount < 0 THEN 0 ELSE discount
  IN  (IF gross < 0 THEN -1 ELSE 1)
        * (IF wanted < Abs(gross) THEN wanted ELSE Abs(gross))

SharesSlip(lines, discount) ==  \* proportional, and what is left over is lost
  LET gross == Gross(lines)
      whole == DiscountOn(gross, discount)
  IN  [i \in DOMAIN lines |->
         IF gross = 0 THEN 0 ELSE Truncate(whole * GrossOf(lines[i]), gross)]

Shares(lines, discount) ==
  LET gross == Gross(lines)
      whole == DiscountOn(gross, discount)
      n     == Len(lines)
      part  == [i \in 1..(n - 1) |->
                  IF gross = 0 THEN 0
                  ELSE Truncate(whole * GrossOf(lines[i]), gross)]
  IN  [i \in DOMAIN lines |->
         IF i = n THEN whole - SumFunction(part) ELSE part[i]]

\* calculateInvoice.
CalculateInvoice(lines, discount, kind) ==
  LET shares == Shares(lines, discount)
      taxed  == [i \in DOMAIN lines |-> TaxLine(lines[i], kind, shares[i])]
      taxable == SumFunction([i \in DOMAIN lines |-> taxed[i].taxable])
      cgst   == SumFunction([i \in DOMAIN lines |-> taxed[i].cgst])
      sgst   == SumFunction([i \in DOMAIN lines |-> taxed[i].sgst])
      igst   == SumFunction([i \in DOMAIN lines |-> taxed[i].igst])
      due    == taxable + cgst + sgst + igst
      total  == Round(due, 100) * 100
  IN  [lines |-> taxed, kind |-> kind, subtotal |-> taxable,
       discount |-> DiscountOn(Gross(lines), discount),
       cgst |-> cgst, sgst |-> sgst, igst |-> igst,
       roundOff |-> total - due, total |-> total]

\* prorate, of a period of `days` days left after `used` of them.
ProrateSlip(amount, days, used) ==  \* a change before the period is not held
  (amount * ((IF days < 1 THEN 1 ELSE days) - used))
    \div (IF days < 1 THEN 1 ELSE days)

Prorate(amount, days, used) ==
  LET total   == IF days < 1 THEN 1 ELSE days
      elapsed == IF used < 0 THEN 0 ELSE IF used > total THEN total ELSE used
  IN  (amount * (total - elapsed)) \div total
=============================================================================
