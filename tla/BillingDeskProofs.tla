-------------------------- MODULE BillingDeskProofs --------------------------
(***************************************************************************)
(* What holds of BillingDesk for any lines, discounts, prices, cycles and  *)
(* dates: the arithmetic of an invoice and of the calendar, and that every *)
(* request keeps to it.                                                    *)
(***************************************************************************)
EXTENDS BillingDesk, FiniteSetTheorems, WellFoundedInduction, TLAPS

\* Sets of natural numbers that start at 0 and go on have them all.
Below == {p \in Nat \X Nat : p[1] < p[2]}
LEMMA Counting ==
  ASSUME NEW S \in SUBSET Nat, 0 \in S, \A n \in S : n + 1 \in S
  PROVE  S = Nat
<1> SUFFICES ASSUME Nat \ S # {} PROVE FALSE
  OBVIOUS
<1>1. IsWellFoundedOn(Below, Nat)
  <2>1. OpToRel(<, Nat) = Below
    BY DEF OpToRel, Below
  <2> QED
    BY <2>1, NatLessThanWellFounded
<1>2. PICK n \in Nat \ S : \A k \in Nat \ S : ~(<<k, n>> \in Below)
  BY <1>1, WFMin
<1>3. n - 1 \in Nat \ S
  <2>1. n # 0 /\ (n - 1) + 1 = n
    BY <1>2
  <2> QED
    BY <1>2, <2>1
<1>4. <<n - 1, n>> \in Below
  BY <1>2, <1>3 DEF Below
<1> QED
  BY <1>2, <1>3, <1>4

\* What holds of a finite set whenever it holds of the set less any element
\* holds of them all.
LEMMA TakingOut ==
  ASSUME NEW D, IsFiniteSet(D), NEW P \in SUBSET SUBSET D,
         \A s \in SUBSET D : (\A x \in s : s \ {x} \in P) => s \in P
  PROVE  P = SUBSET D
<1> SUFFICES ASSUME (SUBSET D) \ P # {} PROVE FALSE
  OBVIOUS
<1>1. IsWellFoundedOn(StrictSubsetOrdering(D), FiniteSubsetsOf(D))
  BY FS_StrictSubsetOrderingWellFounded
<1>2. (SUBSET D) \ P \subseteq FiniteSubsetsOf(D)
  BY FS_Subset DEF FiniteSubsetsOf
<1>3. PICK s \in (SUBSET D) \ P :
        \A r \in (SUBSET D) \ P : ~(<<r, s>> \in StrictSubsetOrdering(D))
  BY <1>1, <1>2, WFMin
<1>4. ASSUME NEW x \in s PROVE s \ {x} \in P
  <2>1. <<s \ {x}, s>> \in StrictSubsetOrdering(D)
    BY DEF StrictSubsetOrdering
  <2> QED
    BY <1>3, <2>1
<1> QED
  BY <1>3, <1>4

---------------------------------------------------------------------------
(* Sums.                                                                   *)

\* The function SumFunction is defined by: the sum of f over each set of its
\* domain.
Unfolds(f, sum) ==
  sum = [s \in SUBSET DOMAIN f |->
           IF s = {} THEN 0
           ELSE LET x == CHOOSE x \in s : TRUE IN f[x] + sum[s \ {x}]]

LEMMA SumUnfolds ==
  ASSUME NEW f, IsFiniteSet(DOMAIN f)
  PROVE  \E sum : Unfolds(f, sum) /\ SumFunction(f) = sum[DOMAIN f]
<1> DEFINE D == DOMAIN f
           any(s) == CHOOSE x \in s : TRUE
           Small(n) == {s \in SUBSET D : Cardinality(s) <= n}
           Next1(g, s) == IF s = {} THEN 0 ELSE f[any(s)] + g[s \ {any(s)}]
           UpTo(n, g) == g = [s \in Small(n) |-> Next1(g, s)]
           S == {n \in Nat : \E g : UpTo(n, g)}
<1>1. \A s \in SUBSET D : IsFiniteSet(s) /\ Cardinality(s) \in Nat
  BY FS_Subset, FS_CardinalityType
<1>2. \A s \in SUBSET D : s # {} =>
        any(s) \in s /\ Cardinality(s \ {any(s)}) = Cardinality(s) - 1
  BY <1>1, FS_RemoveElement
<1>3. 0 \in S
  <2>1. \A s \in Small(0) : s = {}
    BY <1>1, FS_EmptySet
  <2>2. UpTo(0, [s \in Small(0) |-> 0])
    BY <2>1
  <2> QED
    BY <2>2
<1>4. ASSUME NEW n \in S PROVE n + 1 \in S
  <2>1. PICK g : UpTo(n, g)
    OBVIOUS
  <2> DEFINE h == [s \in Small(n + 1) |-> Next1(g, s)]
  <2>2. \A s \in Small(n + 1) : s # {} => s \ {any(s)} \in Small(n)
    BY <1>1, <1>2
  <2>3. Small(n) \subseteq Small(n + 1)
    BY <1>1
  <2> HIDE DEF any, Small
  <2>4. ASSUME NEW s \in Small(n) PROVE h[s] = g[s]
    <3>1. g[s] = Next1(g, s)
      BY <2>1
    <3> QED
      BY <2>3, <3>1
  <2>5. \A s \in Small(n + 1) : Next1(g, s) = Next1(h, s)
    BY <2>2, <2>4
  <2>6. UpTo(n + 1, h)
    BY <2>5
  <2>7. \E e : UpTo(n + 1, e)
    <3> HIDE DEF UpTo, h
    <3> QED
      BY <2>6
  <2> HIDE DEF UpTo
  <2> QED
    BY <2>7
<1>5. Cardinality(D) \in S
  <2> HIDE DEF S
  <2> S = Nat
    BY <1>3, <1>4, Counting DEF S
  <2> QED
    BY <1>1
<1>6. Small(Cardinality(D)) = SUBSET D
  BY <1>1, FS_Subset
<1>7. \E sum : Unfolds(f, sum)
  BY <1>5, <1>6 DEF Unfolds
<1>8. Unfolds(f, CHOOSE sum : Unfolds(f, sum))
  BY <1>7
<1>9. SumFunction(f) = (CHOOSE sum : Unfolds(f, sum))[D]
  BY DEF SumFunction, SumFunctionOnSet, FoldFunctionOnSet, MapThenFoldSet,
         Unfolds
<1> QED
  BY <1>8, <1>9

\* SumFunction, with the sums over the parts of its domain.
Adds(f, sum) ==
  /\ sum[{}] = 0
  /\ \A s \in SUBSET DOMAIN f :
       /\ sum[s] \in Int
       /\ \A x \in s : sum[s] = f[x] + sum[s \ {x}]

LEMMA SumOver ==
  ASSUME NEW f, NEW sum, IsFiniteSet(DOMAIN f), Unfolds(f, sum),
         \A x \in DOMAIN f : f[x] \in Int
  PROVE  Adds(f, sum)
<1> DEFINE D == DOMAIN f
           any(s) == CHOOSE x \in s : TRUE
           N == {s \in SUBSET D : sum[s] \in Int}
           P == {s \in SUBSET D : \A x \in s : sum[s] = f[x] + sum[s \ {x}]}
<1>1. sum[{}] = 0
  BY DEF Unfolds
<1>2. \A s \in SUBSET D : s # {} =>
         any(s) \in s /\ sum[s] = f[any(s)] + sum[s \ {any(s)}]
  BY DEF Unfolds
<1> HIDE DEF any
<1>3. N = SUBSET D
  <2>1. ASSUME NEW s \in SUBSET D, \A x \in s : s \ {x} \in N PROVE s \in N
    <3>1. CASE s = {}
      BY <1>1, <3>1
    <3>2. CASE s # {}
      <4>1. any(s) \in D /\ s \ {any(s)} \in N
        BY <1>2, <2>1, <3>2
      <4>2. f[any(s)] \in Int /\ sum[s \ {any(s)}] \in Int
        BY <4>1
      <4>3. sum[s] = f[any(s)] + sum[s \ {any(s)}]
        BY <1>2, <3>2
      <4>4. sum[s] \in Int
        BY <4>2, <4>3
      <4> QED
        BY <4>4
    <3> QED
      BY <3>1, <3>2
  <2>2. N \in SUBSET SUBSET D
    OBVIOUS
  <2> HIDE DEF N
  <2> QED
    BY <2>1, <2>2, TakingOut
<1>4. ASSUME NEW s \in SUBSET D, \A x \in s : s \ {x} \in P PROVE s \in P
  <2> SUFFICES ASSUME NEW y \in s PROVE sum[s] = f[y] + sum[s \ {y}]
    OBVIOUS
  <2> DEFINE x == any(s)
             rest == s \ {x, y}
  <2>1. x \in s /\ sum[s] = f[x] + sum[s \ {x}]
    BY <1>2
  <2>2. CASE y = x
    BY <2>1, <2>2
  <2>3. CASE y # x
    <3>1. sum[s \ {x}] = f[y] + sum[rest] /\ sum[s \ {y}] = f[x] + sum[rest]
      <4>1. (s \ {x}) \ {y} = rest /\ (s \ {y}) \ {x} = rest
        OBVIOUS
      <4>2. y \in s \ {x} /\ x \in s \ {y}
        BY <2>1, <2>3
      <4>3. s \ {x} \in P /\ s \ {y} \in P
        BY <1>4, <2>1
      <4> QED
        BY <4>1, <4>2, <4>3
    <3>2. sum[rest] \in Int /\ f[x] \in Int /\ f[y] \in Int
      <4>1. rest \in N
        BY <1>3
      <4> QED
        BY <2>1, <4>1
    <3> QED
      BY <2>1, <3>1, <3>2
  <2> QED
    BY <2>2, <2>3
<1>5. P = SUBSET D
  <2>1. P \in SUBSET SUBSET D
    OBVIOUS
  <2> HIDE DEF P
  <2> QED
    BY <1>4, <2>1, TakingOut
<1> QED
  BY <1>1, <1>3, <1>5 DEF Adds

LEMMA SumAdds ==
  ASSUME NEW f, IsFiniteSet(DOMAIN f), \A x \in DOMAIN f : f[x] \in Int
  PROVE  \E sum : Adds(f, sum) /\ SumFunction(f) = sum[DOMAIN f]
<1>1. PICK sum : Unfolds(f, sum) /\ SumFunction(f) = sum[DOMAIN f]
  BY SumUnfolds
<1>2. Adds(f, sum)
  BY <1>1, SumOver
<1> QED
  BY <1>1, <1>2

\* A sum is a number, none of nothing, and any one term may be taken out.
LEMMA SumTerm ==
  ASSUME NEW f, IsFiniteSet(DOMAIN f), \A x \in DOMAIN f : f[x] \in Int
  PROVE  /\ SumFunction(f) \in Int
         /\ DOMAIN f = {} => SumFunction(f) = 0
         /\ \A y \in DOMAIN f :
              SumFunction(f)
                = f[y] + SumFunction([x \in DOMAIN f \ {y} |-> f[x]])
<1> DEFINE D == DOMAIN f
<1>1. PICK sum : Adds(f, sum) /\ SumFunction(f) = sum[D]
  BY SumAdds
<1>2. sum[{}] = 0 /\ \A s \in SUBSET D : /\ sum[s] \in Int
              /\ \A x \in s : sum[s] = f[x] + sum[s \ {x}]
  BY <1>1 DEF Adds
<1>3. ASSUME NEW y \in D
      PROVE  SumFunction([x \in D \ {y} |-> f[x]]) = sum[D \ {y}]
  <2> DEFINE g == [x \in D \ {y} |-> f[x]]
  <2>0. IsFiniteSet(DOMAIN g)
    BY FS_Subset
  <2>1. PICK less : Adds(g, less) /\ SumFunction(g) = less[DOMAIN g]
    BY <2>0, SumAdds, \A x \in DOMAIN g : g[x] \in Int
  <2>2. less[{}] = 0 /\ \A s \in SUBSET DOMAIN g : /\ less[s] \in Int
              /\ \A x \in s : less[s] = g[x] + less[s \ {x}]
    BY <2>1 DEF Adds
  <2> DEFINE P == {s \in SUBSET DOMAIN g : less[s] = sum[s]}
  <2>3. ASSUME NEW s \in SUBSET DOMAIN g, \A x \in s : s \ {x} \in P
        PROVE s \in P
    <3>1. CASE s = {}
      BY <1>2, <2>2, <3>1
    <3>2. CASE s # {}
      <4>1. PICK x \in s : TRUE
        BY <3>2
      <4>2. less[s] = f[x] + less[s \ {x}] /\ sum[s] = f[x] + sum[s \ {x}]
        BY <1>2, <2>2
      <4>3. less[s \ {x}] = sum[s \ {x}]
        BY <2>3
      <4> QED
        BY <4>2, <4>3
    <3> QED
      BY <3>1, <3>2
  <2>4. P \in SUBSET SUBSET DOMAIN g
    OBVIOUS
  <2>5. P = SUBSET DOMAIN g
    <3> HIDE DEF P, g
    <3> QED
      BY <2>0, <2>3, <2>4, TakingOut
  <2> QED
    BY <2>1, <2>5
<1> QED
  BY <1>1, <1>2, <1>3

\* An inequality between terms, added up.
Under(f, g, h, a, b, c, d) ==
  \A x \in DOMAIN f : /\ f[x] \in Int /\ g[x] \in Int /\ h[x] \in Int
                     /\ a * f[x] <= b * g[x] + c * h[x] + d

LEMMA SumLinear ==
  ASSUME NEW f, NEW g, NEW h, IsFiniteSet(DOMAIN f),
         DOMAIN g = DOMAIN f, DOMAIN h = DOMAIN f,
         NEW a \in Int, NEW b \in Int, NEW c \in Int, NEW d \in Int,
         Under(f, g, h, a, b, c, d)
  PROVE  /\ SumFunction(f) \in Int /\ SumFunction(g) \in Int
         /\ SumFunction(h) \in Int /\ Cardinality(DOMAIN f) \in Nat
         /\ a * SumFunction(f)
              <= b * SumFunction(g) + c * SumFunction(h)
                   + d * Cardinality(DOMAIN f)
<1> DEFINE D == DOMAIN f
<1>0. /\ \A x \in D : f[x] \in Int /\ g[x] \in Int /\ h[x] \in Int
      /\ IsFiniteSet(D) /\ DOMAIN g = D /\ DOMAIN h = D
  BY DEF Under
<1>1. /\ SumFunction(f) \in Int /\ SumFunction(g) \in Int
      /\ SumFunction(h) \in Int /\ Cardinality(D) \in Nat
  BY <1>0, SumTerm, FS_CardinalityType
<1>2. PICK F : Adds(f, F) /\ SumFunction(f) = F[D]
  BY <1>0, SumAdds
<1>3. PICK G : Adds(g, G) /\ SumFunction(g) = G[D]
  BY <1>0, SumAdds
<1>4. PICK H : Adds(h, H) /\ SumFunction(h) = H[D]
  BY <1>0, SumAdds
<1> DEFINE P == {s \in SUBSET D : a * F[s] <= b * G[s] + c * H[s] + d * Cardinality(s)}
<1>5. F[{}] = 0 /\ \A s \in SUBSET D : /\ F[s] \in Int
              /\ \A x \in s : F[s] = f[x] + F[s \ {x}]
  BY <1>2 DEF Adds
<1>6. G[{}] = 0 /\ \A s \in SUBSET D : /\ G[s] \in Int
              /\ \A x \in s : G[s] = g[x] + G[s \ {x}]
  BY <1>3 DEF Adds
<1>7. H[{}] = 0 /\ \A s \in SUBSET D : /\ H[s] \in Int
              /\ \A x \in s : H[s] = h[x] + H[s \ {x}]
  BY <1>4 DEF Adds
<1>8. ASSUME NEW s \in SUBSET D, \A x \in s : s \ {x} \in P PROVE s \in P
  <2>1. CASE s = {}
    <3>1. Cardinality(s) = 0
      BY <2>1, FS_EmptySet
    <3> QED
      BY <1>5, <1>6, <1>7, <2>1, <3>1
  <2>2. CASE s # {}
    <3>1. PICK x \in s : TRUE
      BY <2>2
    <3>2. Cardinality(s \ {x}) = Cardinality(s) - 1 /\ Cardinality(s) \in Nat
      BY FS_Subset, FS_RemoveElement, FS_CardinalityType
    <3> DEFINE r == s \ {x}
               k == Cardinality(s)
    <3>3. F[s] = f[x] + F[r] /\ G[s] = g[x] + G[r] /\ H[s] = h[x] + H[r]
      BY <1>5, <1>6, <1>7
    <3>4. F[r] \in Int /\ G[r] \in Int /\ H[r] \in Int
      BY <1>5, <1>6, <1>7
    <3>5. /\ a * F[r] <= b * G[r] + c * H[r] + d * (k - 1)
          /\ a * f[x] <= b * g[x] + c * h[x] + d
      BY <1>8, <3>2 DEF Under
    <3>6. \A p, q, u, v, m, n \in Int :
            /\ a * p <= b * u + c * m + d * (k - 1)
            /\ a * q <= b * v + c * n + d
            => a * (q + p) <= b * (v + u) + c * (n + m) + d * k
      BY <3>2
    <3>7. f[x] \in Int /\ g[x] \in Int /\ h[x] \in Int
      BY <1>0
    <3> HIDE DEF k, r
    <3>8. a * (f[x] + F[r]) <= b * (g[x] + G[r]) + c * (h[x] + H[r]) + d * k
      BY <3>4, <3>5, <3>6, <3>7
    <3> QED
      BY <3>3, <3>8 DEF k
  <2> QED
    BY <2>1, <2>2
<1>9. P = SUBSET D
  <2>1. P \in SUBSET SUBSET D
    OBVIOUS
  <2> HIDE DEF P
  <2> QED
    BY <1>8, <2>1, TakingOut
<1> QED
  BY <1>1, <1>2, <1>3, <1>4, <1>9

LEMMA SumNegated ==
  ASSUME NEW f, NEW g, IsFiniteSet(DOMAIN f), DOMAIN g = DOMAIN f,
         \A x \in DOMAIN f : f[x] \in Int /\ g[x] = -f[x]
  PROVE  SumFunction(f) \in Int /\ SumFunction(g) = -SumFunction(f)
<1>1. Under(f, g, g, 1, -1, 0, 0) /\ Under(f, g, g, -1, 1, 0, 0)
  BY DEF Under
<1>2. 1 * SumFunction(f) <= (-1) * SumFunction(g) + 0 * SumFunction(g)
                                + 0 * Cardinality(DOMAIN f)
  BY <1>1, SumLinear
<1>3. (-1) * SumFunction(f) <= 1 * SumFunction(g) + 0 * SumFunction(g)
                                 + 0 * Cardinality(DOMAIN f)
  BY <1>1, SumLinear
<1>4. /\ SumFunction(f) \in Int /\ SumFunction(g) \in Int
      /\ Cardinality(DOMAIN f) \in Nat
  BY SumTerm, FS_CardinalityType
<1> QED
  BY <1>2, <1>3, <1>4

---------------------------------------------------------------------------
(* Rounding.                                                               *)

LEMMA RoundIsOdd ==
  ASSUME NEW n \in Int, NEW d \in Nat \ {0}
  PROVE  Round(n, d) \in Int /\ Round(-n, d) = -Round(n, d)
<1> DEFINE q(k) == (2 * k + d) \div (2 * d)
<1>1. \A k \in Nat : q(k) \in Int
  <2>1. \A k \in Nat : 2 * k + d \in Nat /\ 2 * d \in Nat \ {0}
    OBVIOUS
  <2>2. \A a \in Nat, b \in Nat \ {0} : a \div b \in Int
    OBVIOUS
  <2> QED
    BY <2>1, <2>2
<1>2. Abs(-n) = Abs(n) /\ Abs(n) \in Nat /\ Sign(-n) = -Sign(n) /\ Sign(n) \in {-1, 0, 1}
  BY DEF Abs, Sign
<1>3. Round(n, d) = Sign(n) * q(Abs(n)) /\ Round(-n, d) = -Sign(n) * q(Abs(n))
  BY <1>2 DEF Round
<1> HIDE DEF q
<1>4. q(Abs(n)) \in Int
  BY <1>1, <1>2
<1> QED
  BY <1>2, <1>3, <1>4

\* Rounding to a rupee moves an amount by half a rupee at most.
LEMMA RoundToRupee ==
  ASSUME NEW due \in Int
  PROVE  /\ Round(due, 100) \in Int
         /\ Round(due, 100) * 100 - due \in -50..50
BY DEF Round, Abs, Sign

LEMMA TruncateIsInt ==
  ASSUME NEW n \in Int, NEW d \in Int \ {0}
  PROVE  Truncate(n, d) \in Int
<1>1. Abs(n) \in Nat /\ Abs(d) \in Nat \ {0} /\ Sign(n) \in Int /\ Sign(d) \in Int
  BY DEF Abs, Sign
<1>2. Abs(n) \div Abs(d) \in Int
  BY <1>1
<1> QED
  BY <1>1, <1>2 DEF Truncate

\* A tax is split into halves that add up, the same way for a credit.
LEMMA HalvesAddUp ==
  ASSUME NEW tax \in Int
  PROVE  LET h == SplitHalves(tax)
             g == SplitHalves(-tax)
         IN  /\ h.cgst \in Int /\ h.sgst \in Int /\ h.cgst + h.sgst = tax
             /\ g.cgst = -h.cgst /\ g.sgst = -h.sgst
<1>1. Truncate(tax, 2) \in Int /\ Truncate(-tax, 2) = -Truncate(tax, 2)
  BY DEF Truncate, Abs, Sign
<1> QED
  BY <1>1 DEF SplitHalves

---------------------------------------------------------------------------
(* Lines.                                                                  *)

InvoiceKinds == {"CGST_SGST", "IGST"}

LEMMA LineAddsUp ==
  ASSUME NEW line \in LineType, NEW kind \in InvoiceKinds, NEW share \in Int
  PROVE  LET t == TaxLine(line, kind, share)
         IN  /\ t.taxable = TaxableValue(GrossOf(line), share)
             /\ t.taxable \in Int /\ t.cgst \in Int /\ t.sgst \in Int /\ t.igst \in Int
             /\ t.cgst + t.sgst + t.igst = Round(t.taxable * line.rate, 10000)
             /\ kind = "CGST_SGST" => t.igst = 0
             /\ kind = "IGST" => t.cgst = 0 /\ t.sgst = 0
<1>1. GrossOf(line) \in Int /\ line.rate \in Int
  BY DEF GrossOf, LineType
<1> DEFINE taxable == TaxableValue(GrossOf(line), share)
           tax == Round(taxable * line.rate, 10000)
<1>2. taxable \in Int
  BY <1>1 DEF TaxableValue
<1>3. tax \in Int
  <2>1. taxable * line.rate \in Int
    BY <1>1, <1>2
  <2> QED
    BY <2>1, RoundIsOdd
<1>4. LET h == SplitHalves(tax)
      IN  h.cgst \in Int /\ h.sgst \in Int /\ h.cgst + h.sgst = tax
  BY <1>3, HalvesAddUp
<1> HIDE DEF taxable, tax
<1>5. TaxLine(line, kind, share) =
        [taxable |-> taxable,
         cgst |-> IF kind = "CGST_SGST" THEN SplitHalves(tax).cgst ELSE 0,
         sgst |-> IF kind = "CGST_SGST" THEN SplitHalves(tax).sgst ELSE 0,
         igst |-> IF kind = "IGST" THEN tax ELSE 0]
  BY DEF TaxLine, taxable, tax, InvoiceKinds
<1>6. /\ tax = Round(taxable * line.rate, 10000)
      /\ taxable = TaxableValue(GrossOf(line), share)
  BY DEF tax, taxable
<1> QED
  BY <1>2, <1>3, <1>4, <1>5, <1>6 DEF InvoiceKinds

\* The line of a credit note: the negative of what was charged in full.
Reversed(line) == [line EXCEPT !.price = -@]

LEMMA LineReversed ==
  ASSUME NEW line \in LineType, NEW kind \in InvoiceKinds
  PROVE  LET t == TaxLine(line, kind, 0)
             r == TaxLine(Reversed(line), kind, 0)
         IN  /\ Reversed(line) \in LineType
             /\ r.taxable = -t.taxable /\ r.cgst = -t.cgst
             /\ r.sgst = -t.sgst /\ r.igst = -t.igst
<1>1. GrossOf(line) \in Int /\ GrossOf(Reversed(line)) = -GrossOf(line)
      /\ Reversed(line) \in LineType /\ Reversed(line).rate = line.rate
      /\ line.rate \in Int
  <2>1. \A p, q \in Int : (-p) * q = -(p * q) /\ p * q \in Int
    OBVIOUS
  <2>2. line.price \in Int /\ line.quantity \in Int
        /\ Reversed(line) \in LineType /\ Reversed(line).rate = line.rate
        /\ Reversed(line).price = -line.price
        /\ Reversed(line).quantity = line.quantity /\ line.rate \in Int
    BY DEF Reversed, LineType
  <2> QED
    BY <2>1, <2>2 DEF GrossOf
<1> DEFINE gross == GrossOf(line)
           tax == Round(gross * line.rate, 10000)
<1>2. /\ TaxableValue(gross, 0) = gross
      /\ TaxableValue(GrossOf(Reversed(line)), 0) = -gross
  BY <1>1 DEF TaxableValue, Sign
<1>3. tax \in Int /\ Round((-gross) * line.rate, 10000) = -tax
  <2>1. gross * line.rate \in Int /\ (-gross) * line.rate = -(gross * line.rate)
    BY <1>1
  <2> QED
    BY <2>1, RoundIsOdd
<1>4. /\ SplitHalves(tax).cgst \in Int /\ SplitHalves(tax).sgst \in Int
      /\ SplitHalves(-tax).cgst = -SplitHalves(tax).cgst
      /\ SplitHalves(-tax).sgst = -SplitHalves(tax).sgst
  BY <1>3, HalvesAddUp
<1>5. TaxLine(line, kind, 0) =
        [taxable |-> gross,
         cgst |-> IF kind = "CGST_SGST" THEN SplitHalves(tax).cgst ELSE 0,
         sgst |-> IF kind = "CGST_SGST" THEN SplitHalves(tax).sgst ELSE 0,
         igst |-> IF kind = "IGST" THEN tax ELSE 0]
  BY <1>2 DEF TaxLine, InvoiceKinds
<1>6. TaxLine(Reversed(line), kind, 0) =
        [taxable |-> -gross,
         cgst |-> IF kind = "CGST_SGST" THEN SplitHalves(-tax).cgst ELSE 0,
         sgst |-> IF kind = "CGST_SGST" THEN SplitHalves(-tax).sgst ELSE 0,
         igst |-> IF kind = "IGST" THEN -tax ELSE 0]
  BY <1>1, <1>2, <1>3 DEF TaxLine, InvoiceKinds
<1> HIDE DEF gross, tax
<1>7. gross \in Int
  BY <1>1 DEF gross
<1> QED
  BY <1>1, <1>3, <1>4, <1>5, <1>6, <1>7

---------------------------------------------------------------------------
(* Documents.                                                              *)

\* What a document may be made of.
InvoiceLines == UNION {[1..n -> LineType] : n \in Nat \ {0}}

LEMMA LinesAreMany ==
  ASSUME NEW lines \in InvoiceLines
  PROVE  /\ Len(lines) \in Nat \ {0} /\ DOMAIN lines = 1..Len(lines)
         /\ IsFiniteSet(DOMAIN lines) /\ Cardinality(DOMAIN lines) = Len(lines)
         /\ \A i \in DOMAIN lines : lines[i] \in LineType /\ GrossOf(lines[i]) \in Int
<1>1. PICK n \in Nat \ {0} : lines \in [1..n -> LineType]
  BY DEF InvoiceLines
<1>2. Len(lines) = n /\ DOMAIN lines = 1..n
  BY <1>1
<1>3. IsFiniteSet(1..n) /\ Cardinality(1..n) = n
  BY FS_Interval
<1>4. \A i \in 1..n : lines[i] \in LineType /\ GrossOf(lines[i]) \in Int
  BY <1>1 DEF GrossOf, LineType
<1> QED
  BY <1>2, <1>3, <1>4

LEMMA GrossIsInt ==
  ASSUME NEW lines \in InvoiceLines
  PROVE  Gross(lines) \in Int
<1> DEFINE f == [i \in DOMAIN lines |-> GrossOf(lines[i])]
<1>1. IsFiniteSet(DOMAIN f) /\ \A i \in DOMAIN f : f[i] \in Int
  BY LinesAreMany
<1>2. SumFunction(f) \in Int
  <2> HIDE DEF f
  <2> QED
    BY <1>1, SumTerm
<1> QED
  BY <1>2 DEF Gross

LEMMA SharesAreInts ==
  ASSUME NEW lines \in InvoiceLines, NEW discount \in Nat
  PROVE  /\ DOMAIN Shares(lines, discount) = DOMAIN lines
         /\ \A i \in DOMAIN lines : Shares(lines, discount)[i] \in Int
<1> DEFINE gross == Gross(lines)
           whole == DiscountOn(gross, discount)
           n == Len(lines)
           part == [i \in 1..(n - 1) |->
                      IF gross = 0 THEN 0
                      ELSE Truncate(whole * GrossOf(lines[i]), gross)]
<1>1. gross \in Int /\ whole \in Int
  BY GrossIsInt DEF DiscountOn, Abs
<1>2. \A i \in 1..(n - 1) : part[i] \in Int
  <2> SUFFICES ASSUME NEW i \in 1..(n - 1), gross # 0
               PROVE  Truncate(whole * GrossOf(lines[i]), gross) \in Int
    OBVIOUS
  <2>1. GrossOf(lines[i]) \in Int
    BY LinesAreMany
  <2> HIDE DEF whole, gross
  <2>2. whole * GrossOf(lines[i]) \in Int
    BY <1>1, <2>1
  <2> QED
    BY <1>1, <2>2, TruncateIsInt
<1>3. SumFunction(part) \in Int
  <2>1. IsFiniteSet(DOMAIN part) /\ DOMAIN part = 1..(n - 1)
    BY FS_Interval, LinesAreMany
  <2> HIDE DEF part
  <2> QED
    BY <1>2, <2>1, SumTerm
<1>4. Shares(lines, discount) =
        [i \in DOMAIN lines |-> IF i = n THEN whole - SumFunction(part) ELSE part[i]]
  BY DEF Shares
<1> HIDE DEF part, whole
<1>5. \A i \in DOMAIN lines : i # n => part[i] \in Int
  BY <1>2, LinesAreMany
<1> QED
  BY <1>1, <1>3, <1>4, <1>5

\* The amounts of one head over the lines of a document.
Column(lines, discount, kind, head) ==
  [i \in DOMAIN lines |->
     TaxLine(lines[i], kind, Shares(lines, discount)[i])[head]]

\* An invoice adds up.
AddsUp(lines, discount, kind, t) ==
  /\ DOMAIN t.lines = DOMAIN lines
  /\ \A i \in DOMAIN lines :
       t.lines[i] = TaxLine(lines[i], kind, Shares(lines, discount)[i])
  /\ t.kind = kind
  /\ t.discount = DiscountOn(Gross(lines), discount)
  /\ t.subtotal = SumFunction(Column(lines, discount, kind, "taxable"))
  /\ t.cgst = SumFunction(Column(lines, discount, kind, "cgst"))
  /\ t.sgst = SumFunction(Column(lines, discount, kind, "sgst"))
  /\ t.igst = SumFunction(Column(lines, discount, kind, "igst"))
  /\ t.subtotal \in Int /\ t.cgst \in Int /\ t.sgst \in Int /\ t.igst \in Int
  /\ t.igst = 0 \/ (t.cgst = 0 /\ t.sgst = 0)
  /\ t.total = Round(t.subtotal + t.cgst + t.sgst + t.igst, 100) * 100
  /\ t.total \in Int /\ t.total % 100 = 0
  /\ t.roundOff = t.total - (t.subtotal + t.cgst + t.sgst + t.igst)
  /\ t.roundOff \in -50..50

LEMMA DocumentAddsUp ==
  ASSUME NEW lines \in InvoiceLines, NEW discount \in Nat,
         NEW kind \in InvoiceKinds
  PROVE  AddsUp(lines, discount, kind, CalculateInvoice(lines, discount, kind))
<1> DEFINE line(i) == TaxLine(lines[i], kind, Shares(lines, discount)[i])
           taxable == Column(lines, discount, kind, "taxable")
           cgst == Column(lines, discount, kind, "cgst")
           sgst == Column(lines, discount, kind, "sgst")
           igst == Column(lines, discount, kind, "igst")
           due == SumFunction(taxable) + SumFunction(cgst)
                    + SumFunction(sgst) + SumFunction(igst)
<1>1. CalculateInvoice(lines, discount, kind) =
        [lines |-> [i \in DOMAIN lines |-> line(i)], kind |-> kind,
         subtotal |-> SumFunction(taxable),
         discount |-> DiscountOn(Gross(lines), discount),
         cgst |-> SumFunction(cgst), sgst |-> SumFunction(sgst),
         igst |-> SumFunction(igst),
         roundOff |-> Round(due, 100) * 100 - due,
         total |-> Round(due, 100) * 100]
  <2>1. \A i \in DOMAIN lines : [j \in DOMAIN lines |-> line(j)][i] = line(i)
    OBVIOUS
  <2>2. /\ taxable = [i \in DOMAIN lines |-> line(i).taxable]
        /\ cgst = [i \in DOMAIN lines |-> line(i).cgst]
        /\ sgst = [i \in DOMAIN lines |-> line(i).sgst]
        /\ igst = [i \in DOMAIN lines |-> line(i).igst]
    BY DEF Column
  <2> HIDE DEF taxable, cgst, sgst, igst
  <2> QED
    BY <2>1, <2>2 DEF CalculateInvoice
<1>2. \A i \in DOMAIN lines :
        /\ line(i).taxable \in Int /\ line(i).cgst \in Int
        /\ line(i).sgst \in Int /\ line(i).igst \in Int
        /\ kind = "CGST_SGST" => line(i).igst = 0
        /\ kind = "IGST" => line(i).cgst = 0 /\ line(i).sgst = 0
  BY LinesAreMany, SharesAreInts, LineAddsUp
<1>3. \A f \in {taxable, cgst, sgst, igst} :
        IsFiniteSet(DOMAIN f) /\ \A i \in DOMAIN f : f[i] \in Int
  BY <1>2, LinesAreMany DEF Column
<1>4. \A i \in DOMAIN lines :
         /\ kind = "CGST_SGST" => igst[i] = 0
         /\ kind = "IGST" => cgst[i] = 0 /\ sgst[i] = 0
  BY <1>2 DEF Column
<1>5. DOMAIN cgst = DOMAIN lines /\ DOMAIN sgst = DOMAIN lines
      /\ DOMAIN igst = DOMAIN lines
  BY DEF Column
<1> HIDE DEF line, taxable, cgst, sgst, igst
<1>6. \A f \in {taxable, cgst, sgst, igst} : SumFunction(f) \in Int
  BY <1>3, SumTerm
<1>7. \A f \in {taxable, cgst, sgst, igst} :
        (\A i \in DOMAIN f : f[i] = 0) => SumFunction(f) = 0
  <2> SUFFICES ASSUME NEW f \in {taxable, cgst, sgst, igst},
                      \A i \in DOMAIN f : f[i] = 0
               PROVE  SumFunction(f) = 0
    OBVIOUS
  <2>1. \A i \in DOMAIN f : f[i] \in Int /\ f[i] = -f[i]
    OBVIOUS
  <2>2. SumFunction(f) \in Int /\ SumFunction(f) = -SumFunction(f)
    BY <1>3, <2>1, SumNegated
  <2> QED
    BY <2>2
<1>8. \/ SumFunction(igst) = 0
      \/ SumFunction(cgst) = 0 /\ SumFunction(sgst) = 0
  BY <1>4, <1>5, <1>7 DEF InvoiceKinds
<1>9. due \in Int
  BY <1>6
<1>10. Round(due, 100) \in Int /\ Round(due, 100) * 100 - due \in -50..50
  <2> HIDE DEF due
  <2> QED
    BY <1>9, RoundToRupee
<1>11. Round(due, 100) * 100 \in Int /\ (Round(due, 100) * 100) % 100 = 0
  BY <1>10
<1> DEFINE t == CalculateInvoice(lines, discount, kind)
<1>12. /\ DOMAIN t.lines = DOMAIN lines /\ t.kind = kind
       /\ \A i \in DOMAIN lines : t.lines[i] = line(i)
       /\ t.discount = DiscountOn(Gross(lines), discount)
       /\ t.subtotal = SumFunction(taxable) /\ t.cgst = SumFunction(cgst)
       /\ t.sgst = SumFunction(sgst) /\ t.igst = SumFunction(igst)
       /\ t.roundOff = Round(due, 100) * 100 - due
       /\ t.total = Round(due, 100) * 100
  BY <1>1
<1> HIDE DEF t
<1>13. /\ t.subtotal \in Int /\ t.cgst \in Int /\ t.sgst \in Int /\ t.igst \in Int
       /\ t.igst = 0 \/ (t.cgst = 0 /\ t.sgst = 0)
       /\ due = t.subtotal + t.cgst + t.sgst + t.igst
  BY <1>6, <1>8, <1>12
<1> HIDE DEF due
<1>14. /\ t.total = Round(t.subtotal + t.cgst + t.sgst + t.igst, 100) * 100
       /\ t.roundOff = t.total - (t.subtotal + t.cgst + t.sgst + t.igst)
       /\ t.roundOff \in -50..50 /\ t.total \in Int /\ t.total % 100 = 0
  BY <1>10, <1>11, <1>12, <1>13
<1> QED
  BY <1>12, <1>13, <1>14 DEF t, line, taxable, cgst, sgst, igst, AddsUp

LEMMA NothingToShare ==
  ASSUME NEW lines \in InvoiceLines
  PROVE  \A i \in DOMAIN lines : Shares(lines, 0)[i] = 0
<1> DEFINE gross == Gross(lines)
           n == Len(lines)
           part == [i \in 1..(n - 1) |->
                      IF gross = 0 THEN 0
                      ELSE Truncate(DiscountOn(gross, 0) * GrossOf(lines[i]), gross)]
<1>1. gross \in Int /\ n \in Nat \ {0} /\ DOMAIN lines = 1..n
  BY GrossIsInt, LinesAreMany
<1>2. DiscountOn(gross, 0) = 0
  BY <1>1 DEF DiscountOn, Abs
<1>3. \A i \in 1..(n - 1) : part[i] = 0
  <2> SUFFICES ASSUME NEW i \in 1..(n - 1), gross # 0
               PROVE  Truncate(0 * GrossOf(lines[i]), gross) = 0
    BY <1>2
  <2>1. GrossOf(lines[i]) \in Int
    BY LinesAreMany
  <2>2. Abs(gross) \in Nat \ {0} /\ Sign(gross) \in Int
    BY <1>1 DEF Abs, Sign
  <2>3. 0 * GrossOf(lines[i]) = 0 /\ Abs(0) = 0 /\ Sign(0) = 0
    BY <2>1 DEF Abs, Sign
  <2>4. 0 \div Abs(gross) \in Int
    BY <2>2
  <2> QED
    BY <2>2, <2>3, <2>4 DEF Truncate
<1>4. SumFunction(part) = 0
  <2>1. IsFiniteSet(DOMAIN part) /\ DOMAIN part = 1..(n - 1)
    BY FS_Interval, <1>1
  <2> HIDE DEF part
  <2>2. \A i \in DOMAIN part : part[i] \in Int /\ part[i] = -part[i]
    BY <1>3, <2>1
  <2>3. SumFunction(part) \in Int /\ SumFunction(part) = -SumFunction(part)
    BY <2>1, <2>2, SumNegated
  <2> QED
    BY <2>3
<1>5. Shares(lines, 0) =
        [i \in DOMAIN lines |->
           IF i = n THEN DiscountOn(gross, 0) - SumFunction(part) ELSE part[i]]
  BY DEF Shares
<1> HIDE DEF part
<1> QED
  BY <1>1, <1>2, <1>3, <1>4, <1>5

\* A credit note for what was charged in full is its exact negative.
LEMMA CreditReverses ==
  ASSUME NEW lines \in InvoiceLines, NEW kind \in InvoiceKinds
  PROVE  LET t == CalculateInvoice(lines, 0, kind)
             r == CalculateInvoice([i \in DOMAIN lines |-> Reversed(lines[i])],
                                   0, kind)
         IN  Amounts(r) = Negated(t)
<1> DEFINE back == [i \in DOMAIN lines |-> Reversed(lines[i])]
           line(i) == TaxLine(lines[i], kind, 0)
           rev(i) == TaxLine(back[i], kind, 0)
<1>1. back \in InvoiceLines /\ DOMAIN back = DOMAIN lines
  <2>1. PICK n \in Nat \ {0} : lines \in [1..n -> LineType]
    BY DEF InvoiceLines
  <2>2. back \in [1..n -> LineType]
    BY <2>1, LineReversed DEF InvoiceKinds
  <2> QED
    BY <2>2 DEF InvoiceLines
<1>2. \A i \in DOMAIN lines :
        /\ rev(i).taxable = -line(i).taxable /\ rev(i).cgst = -line(i).cgst
        /\ rev(i).sgst = -line(i).sgst /\ rev(i).igst = -line(i).igst
        /\ line(i).taxable \in Int /\ line(i).cgst \in Int
        /\ line(i).sgst \in Int /\ line(i).igst \in Int
  BY LineReversed, LineAddsUp, LinesAreMany
<1> DEFINE t == CalculateInvoice(lines, 0, kind)
           r == CalculateInvoice(back, 0, kind)
<1>3. /\ \A i \in DOMAIN lines : Shares(lines, 0)[i] = 0
      /\ \A i \in DOMAIN lines : Shares(back, 0)[i] = 0
  <2> HIDE DEF back
  <2> QED
    BY <1>1, NothingToShare
<1>4. AddsUp(lines, 0, kind, t)
  <2> 0 \in Nat
    OBVIOUS
  <2> QED
    BY DocumentAddsUp
<1>5. AddsUp(back, 0, kind, r)
  <2> HIDE DEF back
  <2> 0 \in Nat
    OBVIOUS
  <2> QED
    BY <1>1, DocumentAddsUp
<1>6. ASSUME NEW head \in {"taxable", "cgst", "sgst", "igst"}
      PROVE  SumFunction(Column(back, 0, kind, head))
               = -SumFunction(Column(lines, 0, kind, head))
  <2> DEFINE f == Column(lines, 0, kind, head)
             g == Column(back, 0, kind, head)
  <2>1. DOMAIN f = DOMAIN lines /\ DOMAIN g = DOMAIN lines
    BY <1>1 DEF Column
  <2>2. \A i \in DOMAIN lines : f[i] = line(i)[head] /\ g[i] = rev(i)[head]
    <3> HIDE DEF back
    <3> QED
      BY <1>1, <1>3 DEF Column
  <2> HIDE DEF f, g, line, rev, back
  <2>3. \A i \in DOMAIN lines : f[i] \in Int /\ g[i] = -f[i]
    BY <1>2, <2>2
  <2>4. SumFunction(g) = -SumFunction(f)
    BY <2>1, <2>3, LinesAreMany, SumNegated
  <2> QED
    BY <2>4 DEF f, g
<1> HIDE DEF line, rev, t, r
<1>7. /\ r.subtotal = -t.subtotal /\ r.cgst = -t.cgst
      /\ r.sgst = -t.sgst /\ r.igst = -t.igst
  BY <1>4, <1>5, <1>6 DEF AddsUp
<1>8. /\ t.subtotal \in Int /\ t.cgst \in Int /\ t.sgst \in Int /\ t.igst \in Int
      /\ t.total = Round(t.subtotal + t.cgst + t.sgst + t.igst, 100) * 100
      /\ t.roundOff = t.total - (t.subtotal + t.cgst + t.sgst + t.igst)
  BY <1>4 DEF AddsUp
<1>9. /\ r.total = Round(r.subtotal + r.cgst + r.sgst + r.igst, 100) * 100
      /\ r.roundOff = r.total - (r.subtotal + r.cgst + r.sgst + r.igst)
  BY <1>5 DEF AddsUp
<1>10. r.total = -t.total /\ r.roundOff = -t.roundOff
  <2> DEFINE due == t.subtotal + t.cgst + t.sgst + t.igst
  <2>1. due \in Int /\ r.subtotal + r.cgst + r.sgst + r.igst = -due
    BY <1>7, <1>8
  <2> HIDE DEF due
  <2>2. Round(due, 100) \in Int /\ Round(-due, 100) = -Round(due, 100)
    BY <2>1, RoundIsOdd
  <2>3. t.total = Round(due, 100) * 100 /\ t.roundOff = t.total - due
    BY <1>8 DEF due
  <2> QED
    BY <1>9, <2>1, <2>2, <2>3
<1> QED
  BY <1>7, <1>10 DEF t, r, Amounts, Negated

---------------------------------------------------------------------------
(* The distribution of a discount.                                         *)

LEMMA ShareIsFloor ==
  ASSUME NEW a \in Nat, NEW g \in Nat \ {0}
  PROVE  LET q == Truncate(a, g)
         IN  q \in Nat /\ g * q <= a /\ a <= g * q + (g - 1)
<1>1. Abs(a) = a /\ Abs(g) = g /\ Sign(g) = 1 /\ (a # 0 => Sign(a) = 1)
  BY DEF Abs, Sign
<1>2. a \div g \in Nat /\ g * (a \div g) <= a /\ a < g * (a \div g) + g
  OBVIOUS
<1>3. Truncate(a, g) = a \div g
  <2>1. CASE a # 0
    <3>1. Truncate(a, g) = 1 * 1 * (a \div g)
      BY <1>1, <2>1 DEF Truncate
    <3> QED
      BY <1>2, <3>1
  <2>2. CASE a = 0
    <3>1. Sign(a) = 0
      BY <2>2 DEF Sign
    <3>2. Truncate(a, g) = 0 * 1 * (a \div g)
      BY <1>1, <3>1 DEF Truncate
    <3>3. a \div g = 0
      <4>1. \A q \in Nat : g * q <= 0 => q = 0
        OBVIOUS
      <4> QED
        BY <1>2, <2>2, <4>1
    <3> QED
      BY <1>2, <3>2, <3>3
  <2> QED
    BY <2>1, <2>2
<1> QED
  BY <1>2, <1>3

\* What a last line is asked to bear beyond its own amount: g is that amount,
\* rest and parts what the other lines come to and what they bore.
LEMMA LeftOver ==
  ASSUME NEW g \in Nat \ {0}, NEW rest \in Nat, NEW parts \in Int,
         NEW n \in Nat \ {0}, NEW gross, gross = g + rest, NEW w \in 0..gross,
         w * rest <= gross * parts + (gross - 1) * (n - 1),
         w - parts > g
  PROVE  n >= 2 /\ w - parts - g <= n - 2
<1> DEFINE x == w - parts - g
<1>1. gross \in Nat \ {0} /\ x \in Nat \ {0} /\ w \in Nat /\ w <= gross
  OBVIOUS
<1>2. gross * x = (w * g + w * rest) - gross * parts - gross * g
  <2>1. gross * x = gross * w - gross * parts - gross * g
    OBVIOUS
  <2>2. gross * w = w * g + w * rest
    OBVIOUS
  <2> QED
    BY <2>1, <2>2
<1>3. w * g <= gross * g
  OBVIOUS
<1>4. gross * x <= (gross - 1) * (n - 1)
  <2>1. /\ w * g \in Int /\ w * rest \in Int /\ gross * parts \in Int
        /\ gross * g \in Int /\ (gross - 1) * (n - 1) \in Int
    OBVIOUS
  <2> HIDE DEF x
  <2>2. w * rest <= gross * parts + (gross - 1) * (n - 1)
    OBVIOUS
  <2> QED
    BY <1>2, <1>3, <2>1, <2>2
<1> HIDE DEF x
<1>5. (gross - 1) * (n - 1) = gross * (n - 1) - (n - 1)
  BY <1>1
<1>6. x < n - 1 \/ n = 1
  <2> SUFFICES ASSUME x >= n - 1, n > 1 PROVE FALSE
    BY <1>1
  <2>1. gross * x >= gross * (n - 1)
    BY <1>1
  <2>2. gross * x \in Int /\ gross * (n - 1) \in Int
    BY <1>1
  <2> QED
    BY <1>4, <1>5, <2>1, <2>2
<1>7. n # 1
  <2> SUFFICES ASSUME n = 1 PROVE FALSE
    OBVIOUS
  <2>1. gross * x <= 0
    BY <1>1, <1>4
  <2>2. gross * x > 0
    BY <1>1
  <2> QED
    BY <1>1, <2>1, <2>2
<1> QED
  BY <1>1, <1>6, <1>7 DEF x

Positive(lines) == \A i \in DOMAIN lines : lines[i].price > 0

\* Of lines of positive amounts the last is charged for what no other bore, and
\* loses what it is too small to bear: less than a paisa for each before it.
LEMMA DiscountIsShared ==
  ASSUME NEW lines \in InvoiceLines, NEW discount \in Nat,
         NEW kind \in InvoiceKinds, Positive(lines)
  PROVE  LET t == CalculateInvoice(lines, discount, kind)
             short == t.subtotal - (Gross(lines) - t.discount)
         IN  /\ short >= 0
             /\ short <= IF Len(lines) < 2 THEN 0 ELSE Len(lines) - 2
             /\ \A i \in DOMAIN lines : t.lines[i].taxable >= 0
<1> DEFINE n == Len(lines)
           g(i) == GrossOf(lines[i])
           gross == Gross(lines)
           w == DiscountOn(gross, discount)
           all == [i \in DOMAIN lines |-> g(i)]
           front == [i \in 1..(n - 1) |-> g(i)]
           part == [i \in 1..(n - 1) |->
                      IF gross = 0 THEN 0 ELSE Truncate(w * g(i), gross)]
           rest == SumFunction(front)
           parts == SumFunction(part)
           t == CalculateInvoice(lines, discount, kind)
<1>1. /\ n \in Nat \ {0} /\ DOMAIN lines = 1..n /\ n \in DOMAIN lines
      /\ IsFiniteSet(1..n) /\ IsFiniteSet(1..(n - 1))
      /\ Cardinality(1..(n - 1)) = n - 1
  <2>1. n \in Nat \ {0} /\ DOMAIN lines = 1..n
    BY LinesAreMany
  <2> HIDE DEF n
  <2>2. 1 \in Int /\ n \in Int /\ n - 1 \in Int
    BY <2>1
  <2> QED
    BY <2>1, <2>2, FS_Interval
<1>2. \A i \in DOMAIN lines : g(i) \in Nat \ {0}
  <2>1. \A p, q \in Nat \ {0} : p * q \in Nat \ {0}
    OBVIOUS
  <2>2. \A i \in DOMAIN lines : lines[i].price \in Nat \ {0}
                                /\ lines[i].quantity \in Nat \ {0}
    BY LinesAreMany DEF Positive, LineType
  <2> QED
    BY <2>1, <2>2 DEF GrossOf
<1>3. gross = g(n) + rest
  <2>1. gross = all[n] + SumFunction([i \in DOMAIN all \ {n} |-> all[i]])
    <3>1. gross = SumFunction(all) /\ IsFiniteSet(DOMAIN all) /\ n \in DOMAIN all
          /\ \A i \in DOMAIN all : all[i] \in Int
      BY <1>1, <1>2 DEF Gross
    <3> HIDE DEF all, gross
    <3> QED
      BY <3>1, SumTerm
  <2>2. [i \in DOMAIN all \ {n} |-> all[i]] = front
    <3>1. DOMAIN all \ {n} = 1..(n - 1)
      BY <1>1
    <3>2. \A i \in 1..(n - 1) : all[i] = g(i)
      BY <1>1
    <3> QED
      BY <3>1, <3>2
  <2> QED
    BY <1>1, <2>1, <2>2
<1>4. rest \in Nat
  <2>1. DOMAIN front = 1..(n - 1) /\ Under(front, front, front, -1, 0, 0, 0)
    BY <1>1, <1>2 DEF Under
  <2> HIDE DEF front
  <2>2. /\ (-1) * SumFunction(front) <= 0 * SumFunction(front)
               + 0 * SumFunction(front) + 0 * Cardinality(DOMAIN front)
        /\ SumFunction(front) \in Int /\ Cardinality(DOMAIN front) \in Nat
    BY <1>1, <2>1, SumLinear
  <2> QED
    BY <2>2
<1>5. gross \in Nat \ {0} /\ w \in 0..gross
  <2>1. gross \in Nat \ {0}
    BY <1>1, <1>2, <1>3, <1>4
  <2> HIDE DEF gross
  <2> QED
    BY <2>1 DEF DiscountOn, Abs
<1> HIDE DEF gross, w
<1>6. ASSUME NEW i \in 1..(n - 1)
      PROVE  /\ part[i] \in Nat /\ gross * part[i] <= w * front[i]
             /\ w * front[i] <= gross * part[i] + (gross - 1)
             /\ front[i] = g(i) /\ front[i] \in Nat /\ part[i] <= front[i]
  <2>1. front[i] = g(i) /\ front[i] \in Nat /\ w * front[i] \in Nat
    <3>1. \A p, q \in Nat : p * q \in Nat
      OBVIOUS
    <3> QED
      BY <1>1, <1>2, <1>5, <3>1
  <2>2. part[i] = Truncate(w * front[i], gross)
    BY <1>5
  <2> HIDE DEF part, front, g
  <2>3. /\ part[i] \in Nat /\ gross * part[i] <= w * front[i]
        /\ w * front[i] <= gross * part[i] + (gross - 1)
    BY <1>5, <2>1, <2>2, ShareIsFloor
  <2>4. part[i] <= front[i]
    <3> SUFFICES ASSUME part[i] >= front[i] + 1 PROVE FALSE
      BY <2>1, <2>3
    <3> DEFINE a == part[i]
               b == front[i]
    <3>1. a \in Nat /\ b \in Nat /\ a >= b + 1 /\ w \in Nat /\ w <= gross
      BY <1>5, <2>1, <2>3
    <3> HIDE DEF a, b
    <3>2. gross * a >= gross * b + gross
      <4>1. \E k \in Nat : a = b + 1 + k
        <5>1. a - b - 1 \in Nat /\ a = b + 1 + (a - b - 1)
          BY <3>1
        <5> QED
          BY <5>1
      <4>2. PICK k \in Nat : a = b + 1 + k
        BY <4>1
      <4>3. gross * a = gross * b + gross + gross * k
        BY <1>5, <3>1, <4>2
      <4>4. gross * k \in Nat /\ gross * b \in Nat
        BY <1>5, <3>1
      <4> QED
        BY <1>5, <4>3, <4>4
    <3>3. gross * b >= w * b
      <4>1. gross - w \in Nat /\ gross = w + (gross - w)
        BY <1>5, <3>1
      <4>2. \A k \in Nat : (w + k) * b = w * b + k * b /\ k * b \in Nat /\ w * b \in Nat
        BY <3>1
      <4>3. (gross - w) * b \in Nat /\ w * b \in Nat
            /\ (w + (gross - w)) * b = w * b + (gross - w) * b
        BY <4>1, <4>2
      <4> QED
        BY <4>1, <4>3
    <3>4. gross * a \in Int /\ gross * b \in Int /\ w * b \in Int
      BY <1>5, <3>1
    <3>5. gross * a <= w * b
      BY <2>3 DEF a, b
    <3> QED
      BY <1>5, <3>2, <3>3, <3>4, <3>5
  <2> QED
    BY <2>1, <2>3, <2>4
<1>7. /\ DOMAIN front = 1..(n - 1) /\ DOMAIN part = 1..(n - 1)
      /\ Under(front, part, part, w, gross, 0, gross - 1)
  <2> HIDE DEF g
  <2>1. \A i \in 1..(n - 1) :
          /\ front[i] \in Int /\ part[i] \in Int
          /\ w * front[i] <= gross * part[i] + 0 * part[i] + (gross - 1)
    BY <1>5, <1>6
  <2> QED
    BY <2>1 DEF Under
<1>8. w * rest <= gross * parts + (gross - 1) * (n - 1) /\ parts \in Int
  <2> HIDE DEF front, part
  <2>1. /\ w * rest <= gross * parts + 0 * parts
               + (gross - 1) * Cardinality(DOMAIN front)
        /\ parts \in Int
    BY <1>1, <1>5, <1>7, SumLinear
  <2> QED
    BY <1>1, <1>5, <1>7, <2>1
<1>9. AddsUp(lines, discount, kind, t)
  BY DocumentAddsUp
<1>10. Shares(lines, discount) =
         [i \in DOMAIN lines |-> IF i = n THEN w - parts ELSE part[i]]
  BY DEF Shares, w, gross
<1> HIDE DEF n, t, part, front, all, g, parts, rest
<1>11. \A i \in DOMAIN lines :
         t.lines[i].taxable = TaxableValue(g(i), Shares(lines, discount)[i])
  <2> SUFFICES ASSUME NEW i \in DOMAIN lines
               PROVE  t.lines[i].taxable
                        = TaxableValue(g(i), Shares(lines, discount)[i])
    OBVIOUS
  <2>1. t.lines[i] = TaxLine(lines[i], kind, Shares(lines, discount)[i])
    BY <1>9 DEF AddsUp
  <2> QED
    BY <2>1, LinesAreMany, SharesAreInts, LineAddsUp DEF g
<1>12. \A i \in 1..(n - 1) :
         t.lines[i].taxable = front[i] - part[i] /\ front[i] - part[i] >= 0
  <2> SUFFICES ASSUME NEW i \in 1..(n - 1)
               PROVE  t.lines[i].taxable = front[i] - part[i]
                      /\ front[i] - part[i] >= 0
    OBVIOUS
  <2>1. i \in DOMAIN lines /\ i # n
    BY <1>1
  <2>2. t.lines[i].taxable = TaxableValue(front[i], part[i])
    BY <1>6, <1>10, <1>11, <2>1
  <2>3. front[i] \in Nat \ {0} /\ part[i] \in Nat /\ part[i] <= front[i]
    BY <1>2, <1>6, <2>1 DEF g
  <2> HIDE DEF g
  <2> QED
    BY <2>2, <2>3 DEF TaxableValue, Sign
<1>13. t.lines[n].taxable
         = IF w - parts > g(n) THEN 0 ELSE g(n) - (w - parts)
  <2>1. t.lines[n].taxable = TaxableValue(g(n), w - parts)
    BY <1>1, <1>10, <1>11
  <2>2. g(n) \in Nat \ {0} /\ w - parts \in Int
    BY <1>1, <1>2, <1>5, <1>8 DEF g
  <2> QED
    BY <2>1, <2>2 DEF TaxableValue, Sign
<1>14. t.subtotal = t.lines[n].taxable + (rest - parts)
  <2> DEFINE column == Column(lines, discount, kind, "taxable")
             less == [i \in DOMAIN column \ {n} |-> column[i]]
  <2>1. /\ DOMAIN column = DOMAIN lines /\ t.subtotal = SumFunction(column)
        /\ \A i \in DOMAIN lines : column[i] = t.lines[i].taxable
    BY <1>9 DEF AddsUp, Column
  <2>2. \A i \in DOMAIN column : column[i] \in Int
    <3>1. \A i \in 1..(n - 1) : front[i] - part[i] \in Int
      BY <1>6
    <3>2. g(n) \in Int /\ w - parts \in Int
      BY <1>1, <1>2, <1>5, <1>8 DEF g
    <3>3. \A i \in 1..n : i = n \/ i \in 1..(n - 1)
      BY <1>1
    <3> QED
      BY <1>1, <1>12, <1>13, <2>1, <3>1, <3>2, <3>3
  <2> HIDE DEF column
  <2>3. SumFunction(column) = column[n] + SumFunction(less)
    BY <1>1, <2>1, <2>2, SumTerm
  <2>4. /\ DOMAIN less = 1..(n - 1)
        /\ \A i \in 1..(n - 1) : less[i] = front[i] - part[i]
    BY <1>1, <1>12, <2>1
  <2> HIDE DEF less
  <2>5. Under(less, front, part, 1, 1, -1, 0) /\ Under(less, front, part, -1, -1, 1, 0)
    BY <1>6, <2>4 DEF Under
  <2>6. /\ 1 * SumFunction(less) <= 1 * rest + (-1) * parts
                                     + 0 * Cardinality(DOMAIN less)
        /\ SumFunction(less) \in Int /\ Cardinality(DOMAIN less) \in Nat
    BY <1>1, <1>7, <2>4, <2>5, SumLinear DEF rest, parts
  <2>7. (-1) * SumFunction(less) <= (-1) * rest + 1 * parts
                                     + 0 * Cardinality(DOMAIN less)
    BY <1>1, <1>7, <2>4, <2>5, SumLinear DEF rest, parts
  <2>8. SumFunction(less) = rest - parts
    BY <1>4, <1>8, <2>6, <2>7
  <2> QED
    BY <1>1, <2>1, <2>3, <2>8
<1>15. t.discount = w
  BY <1>9 DEF AddsUp, w, gross
<1> DEFINE last == g(n)
<1>16. last \in Nat \ {0} /\ gross = last + rest
  BY <1>1, <1>2, <1>3 DEF g, gross
<1> HIDE DEF last
<1>17. \A i \in DOMAIN lines : i = n \/ i \in 1..(n - 1)
  BY <1>1
<1>18. CASE w - parts > last
  <2>1. t.subtotal - (gross - t.discount) = w - parts - last
    BY <1>4, <1>5, <1>8, <1>13, <1>14, <1>15, <1>16, <1>18 DEF last
  <2>2. n >= 2 /\ w - parts - last <= n - 2
    BY <1>1, <1>4, <1>5, <1>8, <1>16, <1>18, LeftOver
  <2>3. t.lines[n].taxable = 0
    BY <1>13, <1>18 DEF last
  <2>4. \A i \in DOMAIN lines : t.lines[i].taxable >= 0
    BY <1>1, <1>12, <1>17, <2>3
  <2>5. w - parts - last \in Int /\ w - parts - last >= 0
    BY <1>5, <1>8, <1>16, <1>18
  <2> QED
    BY <1>1, <2>1, <2>2, <2>4, <2>5 DEF n, t, gross
<1>19. CASE ~(w - parts > last)
  <2>1. t.lines[n].taxable = last - (w - parts)
    BY <1>13, <1>19 DEF last
  <2>2. t.subtotal - (gross - t.discount) = 0
    BY <1>4, <1>5, <1>8, <1>14, <1>15, <1>16, <2>1
  <2>3. t.lines[n].taxable >= 0
    BY <1>5, <1>8, <1>16, <1>19, <2>1
  <2>4. \A i \in DOMAIN lines : t.lines[i].taxable >= 0
    BY <1>1, <1>12, <1>17, <2>3
  <2> QED
    BY <1>1, <2>2, <2>4 DEF n, t, gross
<1> QED
  BY <1>18, <1>19

---------------------------------------------------------------------------
(* The calendar.                                                           *)

LEMMA MonthStep ==
  ASSUME NEW y \in Nat
  PROVE  \A m \in Nat :
           /\ DaysInMonth(y, m) \in 28..31 /\ DaysBefore(y, m) \in Int
           /\ DaysBefore(y, m + 1) = DaysBefore(y, m) + DaysInMonth(y, m)
<1> DEFINE past == y - 1
           base == 365 * past + past \div 4 - past \div 100 + past \div 400
           f(m) == [k \in 0..(m - 1) |-> DaysInMonth(y, k)]
<1>1. base \in Int
  OBVIOUS
<1>2. \A m : DaysBefore(y, m) = base + SumFunction(f(m))
  BY DEF DaysBefore
<1> HIDE DEF base
<1>3. \A m \in Int : DaysInMonth(y, m) \in 28..31
  BY DEF DaysInMonth
<1>4. \A m \in Nat : /\ IsFiniteSet(0..(m - 1)) /\ DOMAIN f(m) = 0..(m - 1)
                     /\ \A k \in 0..(m - 1) : f(m)[k] \in Int
  <2>1. \A m \in Nat : IsFiniteSet(0..(m - 1))
    <3>1. \A m \in Nat : 0 \in Int /\ m - 1 \in Int
      OBVIOUS
    <3> QED
      BY <3>1, FS_Interval
  <2>2. \A m \in Nat : \A k \in 0..(m - 1) : f(m)[k] \in 28..31
    BY <1>3
  <2> QED
    BY <2>1, <2>2
<1>5. \A m \in Nat : SumFunction(f(m)) \in Int
  <2> HIDE DEF f
  <2> QED
    BY <1>4, SumTerm
<1>6. ASSUME NEW m \in Nat
      PROVE  SumFunction(f(m + 1)) = DaysInMonth(y, m) + SumFunction(f(m))
  <2> DEFINE g == f(m + 1)
  <2>1. m \in DOMAIN g /\ g[m] = DaysInMonth(y, m) /\ m + 1 \in Nat
    OBVIOUS
  <2>2. [k \in DOMAIN g \ {m} |-> g[k]] = f(m)
    <3>1. DOMAIN g \ {m} = 0..(m - 1)
      OBVIOUS
    <3>2. \A k \in 0..(m - 1) : g[k] = f(m)[k]
      OBVIOUS
    <3> QED
      BY <3>1, <3>2
  <2>3. IsFiniteSet(DOMAIN g) /\ \A k \in DOMAIN g : g[k] \in Int
    BY <1>4, <2>1
  <2> HIDE DEF f, g
  <2> QED
    BY <2>1, <2>2, <2>3, SumTerm DEF g
<1> HIDE DEF f
<1> QED
  BY <1>1, <1>2, <1>3, <1>5, <1>6

LEMMA YearStart ==
  ASSUME NEW y \in Nat
  PROVE  DaysBefore(y, 0) = 365 * (y - 1) + (y - 1) \div 4 - (y - 1) \div 100
                              + (y - 1) \div 400
<1> DEFINE f == [k \in 0..(0 - 1) |-> DaysInMonth(y, k)]
<1>1. DOMAIN f = {} /\ IsFiniteSet(DOMAIN f)
  BY FS_EmptySet
<1>2. SumFunction(f) = 0
  <2> HIDE DEF f
  <2> QED
    BY <1>1, SumTerm
<1> QED
  BY <1>2 DEF DaysBefore

LEMMA YearStep ==
  ASSUME NEW y \in Nat
  PROVE  DaysBefore(y + 1, 0) = DaysBefore(y, 11) + DaysInMonth(y, 11)
<1> DEFINE b(m) == DaysBefore(y, m)
           leap == IF IsLeap(y) THEN 1 ELSE 0
<1>1. /\ b(1) = b(0) + 31 /\ b(2) = b(1) + 28 + leap /\ b(3) = b(2) + 31
      /\ b(4) = b(3) + 30 /\ b(5) = b(4) + 31 /\ b(6) = b(5) + 30
      /\ b(7) = b(6) + 31 /\ b(8) = b(7) + 31 /\ b(9) = b(8) + 30
      /\ b(10) = b(9) + 31 /\ b(11) = b(10) + 30 /\ DaysInMonth(y, 11) = 31
  <2>1. \A m \in Nat : b(m + 1) = b(m) + DaysInMonth(y, m)
    BY MonthStep
  <2>2. /\ DaysInMonth(y, 0) = 31 /\ DaysInMonth(y, 1) = 28 + leap
        /\ DaysInMonth(y, 2) = 31 /\ DaysInMonth(y, 3) = 30
        /\ DaysInMonth(y, 4) = 31 /\ DaysInMonth(y, 5) = 30
        /\ DaysInMonth(y, 6) = 31 /\ DaysInMonth(y, 7) = 31
        /\ DaysInMonth(y, 8) = 30 /\ DaysInMonth(y, 9) = 31
        /\ DaysInMonth(y, 10) = 30 /\ DaysInMonth(y, 11) = 31
    BY DEF DaysInMonth
  <2> HIDE DEF b, leap
  <2>3. /\ b(0 + 1) = b(0) + 31 /\ b(1 + 1) = b(1) + (28 + leap)
        /\ b(2 + 1) = b(2) + 31 /\ b(3 + 1) = b(3) + 30
        /\ b(4 + 1) = b(4) + 31 /\ b(5 + 1) = b(5) + 30
        /\ b(6 + 1) = b(6) + 31 /\ b(7 + 1) = b(7) + 31
        /\ b(8 + 1) = b(8) + 30 /\ b(9 + 1) = b(9) + 31
        /\ b(10 + 1) = b(10) + 30
    BY <2>1, <2>2
  <2>4. b(1) \in Int /\ leap \in Int
    BY MonthStep DEF b, leap
  <2> QED
    BY <2>2, <2>3, <2>4
<1>2. /\ b(0) = 365 * (y - 1) + (y - 1) \div 4 - (y - 1) \div 100
                  + (y - 1) \div 400
      /\ DaysBefore(y + 1, 0) = 365 * y + y \div 4 - y \div 100 + y \div 400
  <2>1. y + 1 \in Nat /\ (y + 1) - 1 = y
    OBVIOUS
  <2> QED
    BY <2>1, YearStart
<1>3. leap = (y \div 4 - (y - 1) \div 4) - (y \div 100 - (y - 1) \div 100)
               + (y \div 400 - (y - 1) \div 400)
  <2>1. y \div 4 - (y - 1) \div 4 = IF y % 4 = 0 THEN 1 ELSE 0
    OBVIOUS
  <2>2. y \div 100 - (y - 1) \div 100 = IF y % 100 = 0 THEN 1 ELSE 0
    OBVIOUS
  <2>3. y \div 400 - (y - 1) \div 400 = IF y % 400 = 0 THEN 1 ELSE 0
    OBVIOUS
  <2>4. (y % 400 = 0 => y % 100 = 0) /\ (y % 100 = 0 => y % 4 = 0)
    OBVIOUS
  <2> QED
    BY <2>1, <2>2, <2>3, <2>4 DEF IsLeap
<1>4. \A m \in Nat : b(m) \in Int
  BY MonthStep
<1>5. /\ y \div 4 \in Int /\ y \div 100 \in Int /\ y \div 400 \in Int
      /\ (y - 1) \div 4 \in Int /\ (y - 1) \div 100 \in Int
      /\ (y - 1) \div 400 \in Int /\ leap \in Int
  OBVIOUS
<1> HIDE DEF b, leap
<1>6. b(11) = b(0) + 334 + leap
  BY <1>1, <1>4, <1>5
<1>7. 365 * y = 365 * (y - 1) + 365
  OBVIOUS
<1> QED
  BY <1>1, <1>2, <1>3, <1>4, <1>5, <1>6, <1>7 DEF b

\* Months counted from the year 0: how long each is, and the days before it.
Length(i) == DaysInMonth(i \div 12, i % 12)
FirstDay(i) == DaysBefore(i \div 12, i % 12)

LEMMA MonthsFollow ==
  ASSUME NEW i \in Nat
  PROVE  /\ FirstDay(i) \in Int /\ Length(i) \in 28..31
         /\ FirstDay(i + 1) = FirstDay(i) + Length(i)
<1> DEFINE y == i \div 12
           m == i % 12
<1>1. y \in Nat /\ m \in 0..11 /\ i = 12 * y + m
  OBVIOUS
<1>2. /\ m < 11 => (i + 1) \div 12 = y /\ (i + 1) % 12 = m + 1
      /\ m = 11 => (i + 1) \div 12 = y + 1 /\ (i + 1) % 12 = 0
  OBVIOUS
<1>3. FirstDay(i) = DaysBefore(y, m) /\ Length(i) = DaysInMonth(y, m)
  BY DEF FirstDay, Length
<1> HIDE DEF y, m
<1>4. FirstDay(i) \in Int /\ Length(i) \in 28..31
  BY <1>1, <1>3, MonthStep
<1>5. CASE m < 11
  <2>1. FirstDay(i + 1) = DaysBefore(y, m + 1)
    BY <1>2, <1>5 DEF FirstDay
  <2> QED
    BY <1>1, <1>3, <1>4, <2>1, MonthStep
<1>6. CASE m = 11
  <2>1. FirstDay(i + 1) = DaysBefore(y + 1, 0)
    BY <1>2, <1>6 DEF FirstDay
  <2> QED
    BY <1>1, <1>3, <1>4, <1>6, <2>1, YearStep
<1> QED
  BY <1>1, <1>4, <1>5, <1>6

LEMMA MonthsIncrease ==
  ASSUME NEW i \in Nat, NEW j \in Nat, i < j
  PROVE  FirstDay(i) + Length(i) <= FirstDay(j)
<1> DEFINE S == {k \in Nat : FirstDay(i) + Length(i) <= FirstDay(i + 1 + k)}
<1>1. 0 \in S
  BY MonthsFollow, i + 1 + 0 = i + 1
<1>2. ASSUME NEW k \in S PROVE k + 1 \in S
  <2>1. /\ i + 1 + k \in Nat /\ i + 1 + (k + 1) = (i + 1 + k) + 1
    OBVIOUS
  <2>2. /\ FirstDay(i + 1 + k) \in Int /\ Length(i + 1 + k) \in 28..31
        /\ FirstDay(i + 1 + (k + 1)) = FirstDay(i + 1 + k) + Length(i + 1 + k)
    BY <2>1, MonthsFollow
  <2>3. FirstDay(i) + Length(i) \in Int
    BY MonthsFollow
  <2> QED
    BY <2>2, <2>3
<1>3. S = Nat
  <2> S \in SUBSET Nat
    OBVIOUS
  <2> HIDE DEF S
  <2> QED
    BY <1>1, <1>2, Counting
<1>4. j - i - 1 \in Nat /\ i + 1 + (j - i - 1) = j
  OBVIOUS
<1>5. j - i - 1 \in S
  BY <1>3, <1>4
<1> QED
  BY <1>4, <1>5

LEMMA DateIsDay ==
  ASSUME NEW date, DateOK(date)
  PROVE  /\ MonthIndex(date) \in Nat
         /\ date.d \in 1..Length(MonthIndex(date))
         /\ DayNumber(date) = FirstDay(MonthIndex(date)) + date.d
         /\ DayNumber(date) \in Int /\ Instant(date) \in Int
         /\ date.y = MonthIndex(date) \div 12 /\ date.m = MonthIndex(date) % 12
<1>1. date.y \in Nat /\ date.m \in 0..11 /\ date.d \in 1..31 /\ date.q \in 0..3
  BY DEF DateOK, Dates
<1>2. /\ MonthIndex(date) \in Nat
      /\ date.y = MonthIndex(date) \div 12 /\ date.m = MonthIndex(date) % 12
  BY <1>1 DEF MonthIndex
<1>3. date.d \in 1..Length(MonthIndex(date))
  <2>1. Length(MonthIndex(date)) = DaysInMonth(date.y, date.m)
    BY <1>2 DEF Length
  <2>2. Length(MonthIndex(date)) \in 28..31
    BY <1>2, MonthsFollow
  <2> QED
    BY <1>1, <2>1, <2>2 DEF DateOK
<1>4. DayNumber(date) = FirstDay(MonthIndex(date)) + date.d
  BY <1>2 DEF DayNumber, FirstDay
<1>5. FirstDay(MonthIndex(date)) \in Int
  BY <1>2, MonthsFollow
<1> QED
  BY <1>1, <1>2, <1>3, <1>4, <1>5 DEF Instant

\* Months added to a date of the calendar give one: the day is kept, or is the
\* last of a shorter month.
LEMMA MonthsAdded ==
  ASSUME NEW date, DateOK(date), NEW months \in Int,
         MonthIndex(date) + months >= 0
  PROVE  LET r == AddMonths(date, months)
             end == Length(MonthIndex(date) + months)
         IN  /\ DateOK(r) /\ MonthIndex(r) = MonthIndex(date) + months
             /\ end \in 28..31 /\ r.d = IF date.d > end THEN end ELSE date.d
             /\ r.q = date.q
<1> DEFINE target == date.m + months
           y == date.y + target \div 12
           m == target % 12
           day == IF date.d > DaysInMonth(y, m) THEN DaysInMonth(y, m) ELSE date.d
           r == AddMonths(date, months)
           i == MonthIndex(date) + months
<1>1. /\ date \in Dates /\ date.y \in Nat /\ date.m \in 0..11
      /\ date.d \in 1..31 /\ date.q \in 0..3
  BY DEF DateOK, Dates
<1>2. /\ y \in Nat /\ m \in 0..11 /\ i \in Nat /\ i = 12 * y + m
      /\ i \div 12 = y /\ i % 12 = m
  <2>1. i = 12 * date.y + target /\ target \in Int
    BY <1>1 DEF MonthIndex
  <2>2. y = date.y + target \div 12 /\ m = target % 12 /\ i >= 0
    OBVIOUS
  <2> HIDE DEF target, y, m, i
  <2>3. target = 12 * (target \div 12) + (target % 12)
        /\ target \div 12 \in Int /\ target % 12 \in 0..11
    BY <2>1
  <2>4. i = 12 * y + m /\ y \in Int /\ m \in 0..11
    BY <1>1, <2>1, <2>2, <2>3
  <2>5. y \in Nat /\ i \in Nat
    BY <2>2, <2>4
  <2> QED
    BY <2>4, <2>5
<1> HIDE DEF y, m
<1>3. DaysInMonth(y, m) = Length(i) /\ Length(i) \in 28..31
  BY <1>2, MonthsFollow DEF Length
<1>4. r = [date EXCEPT !.y = y, !.m = m, !.d = day]
  BY DEF AddMonths, y, m
<1>5. day \in 1..31 /\ day <= DaysInMonth(y, m)
      /\ day = IF date.d > Length(i) THEN Length(i) ELSE date.d
  BY <1>1, <1>3
<1> HIDE DEF day
<1>6. r \in Dates /\ r.y = y /\ r.m = m /\ r.d = day /\ r.q = date.q
  BY <1>1, <1>2, <1>4, <1>5 DEF Dates
<1> HIDE DEF r
<1>7. DateOK(r) /\ MonthIndex(r) = i
  BY <1>2, <1>5, <1>6 DEF DateOK, MonthIndex
<1> QED
  BY <1>3, <1>5, <1>6, <1>7 DEF r

LEMMA LaterMonth ==
  ASSUME NEW a, NEW b, DateOK(a), DateOK(b), MonthIndex(a) < MonthIndex(b)
  PROVE  DayNumber(a) < DayNumber(b) /\ Instant(a) < Instant(b)
<1>1. /\ MonthIndex(a) \in Nat /\ MonthIndex(b) \in Nat
      /\ a.d \in 1..Length(MonthIndex(a)) /\ b.d \in 1..Length(MonthIndex(b))
      /\ DayNumber(a) = FirstDay(MonthIndex(a)) + a.d
      /\ DayNumber(b) = FirstDay(MonthIndex(b)) + b.d
  BY DateIsDay
<1>2. /\ FirstDay(MonthIndex(a)) \in Int /\ FirstDay(MonthIndex(b)) \in Int
      /\ Length(MonthIndex(a)) \in 28..31 /\ Length(MonthIndex(b)) \in 28..31
      /\ FirstDay(MonthIndex(a)) + Length(MonthIndex(a)) <= FirstDay(MonthIndex(b))
  BY <1>1, MonthsFollow, MonthsIncrease
<1>3. DayNumber(a) < DayNumber(b) /\ DayNumber(a) \in Int /\ DayNumber(b) \in Int
  BY <1>1, <1>2
<1>4. a.q \in 0..3 /\ b.q \in 0..3
  BY DEF DateOK, Dates
<1> QED
  BY <1>3, <1>4 DEF Instant

\* Months counted twice from an anchor: no renewal drifts from the anniversary,
\* and a renewal on time is the next one.
LEMMA RenewalIsNext ==
  ASSUME NEW anchor, DateOK(anchor), NEW cycle \in DOMAIN MonthsInCycle,
         NEW p \in Nat \ {0}
  PROVE  RenewalAfter(anchor, AddMonths(anchor, p * MonthsInCycle[cycle]), cycle)
           = AddMonths(anchor, (p + 1) * MonthsInCycle[cycle])
<1> DEFINE months == MonthsInCycle[cycle]
           at(k) == AddMonths(anchor, k * months)
           renewsAt == at(p)
           elapsed == MonthIndex(renewsAt) - MonthIndex(anchor)
           ceiling == -((-elapsed) \div months)
           cycles == IF ceiling < 1 THEN 1 ELSE ceiling
           later == {guard \in 0..2 :
                       Instant(AddMonths(anchor, (cycles + guard) * months))
                         > Instant(renewsAt)}
<1>1. months \in {1, 3, 12, 24, 36}
  BY DEF MonthsInCycle
<1>2. RenewalAfter(anchor, renewsAt, cycle)
        = AddMonths(anchor, (cycles + Min(later)) * months)
  BY DEF RenewalAfter
<1> HIDE DEF months
<1>3. ASSUME NEW k \in Nat
      PROVE  DateOK(at(k)) /\ MonthIndex(at(k)) = MonthIndex(anchor) + k * months
  <2>1. k * months \in Nat /\ MonthIndex(anchor) \in Nat
    BY <1>1, DateIsDay
  <2> QED
    BY <2>1, MonthsAdded
<1>4. elapsed = p * months
  <2>1. MonthIndex(anchor) \in Nat /\ p * months \in Nat
    BY <1>1, DateIsDay
  <2> HIDE DEF at
  <2> QED
    BY <1>3, <2>1
<1>5. cycles = p
  <2> HIDE DEF elapsed
  <2> QED
    BY <1>1, <1>4
<1>6. later = {guard \in 0..2 : Instant(at(p + guard)) > Instant(at(p))}
  BY <1>5
<1> HIDE DEF later, at, cycles
<1>7. /\ Instant(at(p)) \in Int /\ Instant(at(p + 1)) \in Int
      /\ Instant(at(p + 1)) > Instant(at(p))
  <2>1. p \in Nat /\ p + 1 \in Nat /\ MonthIndex(anchor) \in Nat
        /\ (p + 1) * months = p * months + months /\ p * months \in Nat
        /\ months > 0
    BY <1>1, DateIsDay
  <2>2. DateOK(at(p)) /\ DateOK(at(p + 1)) /\ MonthIndex(at(p)) < MonthIndex(at(p + 1))
    BY <1>1, <1>3, <2>1
  <2> QED
    BY <2>2, DateIsDay, LaterMonth
<1>8. 0 \notin later /\ 1 \in later /\ later \subseteq 0..2
  BY <1>6, <1>7, p + 0 = p
<1>9. Min(later) = 1
  <2>1. 1 \in later /\ \A y \in later : 1 =< y
    BY <1>8
  <2>2. \A x \in later : (\A y \in later : x =< y) => x = 1
    BY <1>8
  <2> QED
    BY <2>1, <2>2 DEF Min
<1> QED
  BY <1>2, <1>5, <1>9 DEF at, months

---------------------------------------------------------------------------
(* Prorating.                                                              *)

LEMMA PartOf ==
  ASSUME NEW amount \in Nat, NEW total \in Nat \ {0}, NEW x \in 0..total,
         NEW y \in 0..x
  PROVE  /\ (amount * x) \div total \in 0..amount
         /\ (amount * y) \div total <= (amount * x) \div total
<1> DEFINE q == (amount * x) \div total
           r == (amount * y) \div total
<1>1. \A a, b \in Nat : a * b \in Nat
  OBVIOUS
<1>2. amount * x \in Nat /\ amount * y \in Nat
  BY <1>1
<1>3. /\ q \in Nat /\ total * q <= amount * x /\ amount * x < total * q + total
      /\ r \in Nat /\ total * r <= amount * y
  <2>1. \A a \in Nat : /\ a \div total \in Nat /\ total * (a \div total) <= a
                       /\ a < total * (a \div total) + total
    OBVIOUS
  <2> QED
    BY <1>2, <2>1
<1>4. amount * x <= total * amount
  <2>1. total - x \in Nat /\ total = x + (total - x)
    OBVIOUS
  <2>2. total * amount = amount * x + (total - x) * amount
    OBVIOUS
  <2>3. (total - x) * amount \in Nat /\ total * amount \in Nat
    BY <1>1, <2>1
  <2> QED
    BY <1>2, <2>2, <2>3
<1>5. amount * y <= amount * x
  <2>1. x - y \in Nat
    OBVIOUS
  <2>2. amount * x = amount * y + amount * (x - y)
    OBVIOUS
  <2>3. amount * (x - y) \in Nat
    BY <1>1, <2>1
  <2> QED
    BY <1>2, <2>2, <2>3
<1> HIDE DEF q, r
<1>6. ASSUME NEW a \in Nat, NEW b \in Nat, total * a < total * b + total
      PROVE  a <= b
  <2> SUFFICES ASSUME a >= b + 1 PROVE FALSE
    OBVIOUS
  <2>1. a - b - 1 \in Nat /\ total * a = total * b + total + total * (a - b - 1)
    OBVIOUS
  <2>2. total * (a - b - 1) \in Nat /\ total * b \in Nat
    BY <1>1, <2>1
  <2> QED
    BY <1>6, <2>1, <2>2
<1>7. total * q \in Nat /\ total * r \in Nat /\ total * amount \in Nat
  BY <1>1, <1>3
<1>8. q <= amount
  <2>1. total * q < total * amount + total
    BY <1>2, <1>3, <1>4, <1>7
  <2> QED
    BY <1>3, <1>6, <2>1
<1>9. r <= q
  <2>1. total * r < total * q + total
    BY <1>2, <1>3, <1>5, <1>7
  <2> QED
    BY <1>3, <1>6, <2>1
<1> QED
  BY <1>3, <1>8, <1>9 DEF q, r

\* A credit is part of the amount, and no larger for more days used.
LEMMA ProrateShrinks ==
  ASSUME NEW amount \in Nat, NEW days \in Int, NEW used \in Int,
         NEW more \in Int, used <= more
  PROVE  /\ Prorate(amount, days, used) \in 0..amount
         /\ Prorate(amount, days, more) <= Prorate(amount, days, used)
         /\ days >= 1 => Prorate(amount, days, days) = 0
<1> DEFINE total == IF days < 1 THEN 1 ELSE days
           elapsed(u) == IF u < 0 THEN 0 ELSE IF u > total THEN total ELSE u
           x == total - elapsed(used)
           y == total - elapsed(more)
<1>1. total \in Nat \ {0} /\ x \in 0..total /\ y \in 0..x
  OBVIOUS
<1>2. /\ Prorate(amount, days, used) = (amount * x) \div total
      /\ Prorate(amount, days, more) = (amount * y) \div total
  BY DEF Prorate
<1>3. days >= 1 => Prorate(amount, days, days) = (amount * 0) \div total
  <2> SUFFICES ASSUME days >= 1
               PROVE  Prorate(amount, days, days) = (amount * 0) \div total
    OBVIOUS
  <2>1. total = days /\ total - elapsed(days) = 0
    OBVIOUS
  <2> QED
    BY <2>1 DEF Prorate
<1> HIDE DEF total, x, y
<1>4. (amount * 0) \div total = 0
  <2>1. amount * 0 = 0 /\ 0 \in 0..total /\ 0 \in 0..0
    BY <1>1
  <2>2. 0 \div total \in Int /\ total * (0 \div total) <= 0
        /\ 0 < total * (0 \div total) + total
    BY <1>1
  <2>3. \A q \in Int : total * q <= 0 /\ 0 < total * q + total => q = 0
    BY <1>1
  <2> QED
    BY <2>1, <2>2, <2>3
<1> QED
  BY <1>1, <1>2, <1>3, <1>4, PartOf

---------------------------------------------------------------------------
(* The subscription.                                                       *)

Months(cycle) == MonthsInCycle[cycle]

\* The n-th renewal date of a subscription is n cycles after its anchor, and
\* the date before it one cycle less.
SubOK(s, last, n) ==
  /\ s \in [anchor : Dates, renewsAt : Dates, cycle : Cycles, price : Prices]
  /\ DateOK(s.anchor) /\ n \in Nat \ {0}
  /\ s.renewsAt = AddMonths(s.anchor, n * Months(s.cycle))
  /\ last = AddMonths(s.anchor, (n - 1) * Months(s.cycle))

LEMMA CycleHasMonths ==
  ASSUME NEW cycle \in Cycles
  PROVE  Months(cycle) \in {1, 3, 12, 24, 36}
BY DeskAssumption DEF Months, MonthsInCycle

LEMMA RenewalDates ==
  ASSUME SubOK(sub, previous, periods)
  PROVE  LET months == Months(sub.cycle)
             i == MonthIndex(sub.anchor)
             day(k) == IF sub.anchor.d > Length(k) THEN Length(k)
                       ELSE sub.anchor.d
         IN  /\ months \in {1, 3, 12, 24, 36} /\ i \in Nat /\ periods \in Nat \ {0}
             /\ periods * months \in Nat
             /\ (periods - 1) * months = periods * months - months
             /\ periods * months - months \in Nat
             /\ DateOK(sub.renewsAt) /\ DateOK(previous)
             /\ MonthIndex(sub.renewsAt) = i + periods * months
             /\ MonthIndex(previous) = i + periods * months - months
             /\ sub.renewsAt.d = day(MonthIndex(sub.renewsAt))
             /\ previous.d = day(MonthIndex(previous))
             /\ sub.renewsAt.q = sub.anchor.q
<1> DEFINE months == Months(sub.cycle)
           i == MonthIndex(sub.anchor)
<1>1. months \in {1, 3, 12, 24, 36} /\ periods \in Nat \ {0} /\ i \in Nat
      /\ DateOK(sub.anchor)
  BY CycleHasMonths, DateIsDay DEF SubOK
<1> HIDE DEF months
<1>2. /\ periods * months \in Nat /\ (periods - 1) * months = periods * months - months
      /\ periods * months - months \in Nat
  BY <1>1
<1> DEFINE r == AddMonths(sub.anchor, periods * months)
           p == AddMonths(sub.anchor, periods * months - months)
<1>3. r = sub.renewsAt /\ p = previous
  BY <1>2 DEF SubOK, months
<1>4. /\ DateOK(r) /\ MonthIndex(r) = i + periods * months /\ r.q = sub.anchor.q
      /\ r.d = IF sub.anchor.d > Length(i + periods * months)
               THEN Length(i + periods * months) ELSE sub.anchor.d
  BY <1>1, <1>2, MonthsAdded
<1>5. /\ DateOK(p) /\ MonthIndex(p) = i + (periods * months - months)
      /\ p.d = IF sub.anchor.d > Length(i + (periods * months - months))
               THEN Length(i + (periods * months - months)) ELSE sub.anchor.d
  <2> DEFINE k == periods * months - months
  <2>1. k \in Int /\ i + k >= 0
    BY <1>1, <1>2
  <2> HIDE DEF k
  <2>2. DateOK(AddMonths(sub.anchor, k)) /\ MonthIndex(AddMonths(sub.anchor, k)) = i + k
        /\ AddMonths(sub.anchor, k).d = IF sub.anchor.d > Length(i + k)
               THEN Length(i + k) ELSE sub.anchor.d
    BY <1>1, <2>1, MonthsAdded
  <2> QED
    BY <2>2 DEF k
<1>6. i + (periods * months - months) = i + periods * months - months
  BY <1>1, <1>2
<1> HIDE DEF r, p, i
<1> QED
  BY <1>1, <1>2, <1>3, <1>4, <1>5, <1>6 DEF months, i

\* The period a change of plan leaves begins where the last one was entered, or
\* up to three days before it.
LEMMA LeftPeriodIsPaid ==
  ASSUME SubOK(sub, previous, periods)
  PROVE  /\ DateOK(LeftPeriod)
         /\ MonthIndex(LeftPeriod) = MonthIndex(previous)
         /\ MonthIndex(LeftPeriod) < MonthIndex(sub.renewsAt)
         /\ LeftPeriod.q = sub.renewsAt.q
         /\ DayNumber(previous) - DayNumber(LeftPeriod) \in 0..3
<1> DEFINE months == Months(sub.cycle)
           i == MonthIndex(sub.anchor)
           there == MonthIndex(sub.renewsAt)
           here == MonthIndex(previous)
<1>1. /\ months \in {1, 3, 12, 24, 36} /\ there \in Nat /\ here \in Nat
      /\ here = there - months /\ there + (-months) = here
      /\ DateOK(sub.renewsAt) /\ DateOK(previous)
      /\ sub.renewsAt.d = IF sub.anchor.d > Length(there) THEN Length(there)
                          ELSE sub.anchor.d
      /\ previous.d = IF sub.anchor.d > Length(here) THEN Length(here)
                      ELSE sub.anchor.d
  BY RenewalDates
<1>2. /\ Length(there) \in 28..31 /\ Length(here) \in 28..31
      /\ FirstDay(here) \in Int /\ sub.anchor.d \in 1..31
  BY <1>1, MonthsFollow DEF SubOK, DateOK, Dates
<1>3. LeftPeriod = AddMonths(sub.renewsAt, -months)
  BY DEF LeftPeriod, Months
<1> HIDE DEF months, i, there, here
<1>4. /\ DateOK(LeftPeriod) /\ MonthIndex(LeftPeriod) = here
      /\ LeftPeriod.q = sub.renewsAt.q
      /\ LeftPeriod.d = IF sub.renewsAt.d > Length(here) THEN Length(here)
                        ELSE sub.renewsAt.d
  <2>1. -months \in Int /\ there + (-months) >= 0
    BY <1>1
  <2> QED
    BY <1>1, <1>3, <2>1, MonthsAdded DEF there
<1>5. /\ DayNumber(LeftPeriod) = FirstDay(here) + LeftPeriod.d
      /\ DayNumber(previous) = FirstDay(here) + previous.d
  BY <1>1, <1>4, DateIsDay DEF here
<1>6. previous.d - LeftPeriod.d \in 0..3 /\ LeftPeriod.d \in Int /\ previous.d \in Int
  BY <1>1, <1>2, <1>4
<1>7. DayNumber(previous) - DayNumber(LeftPeriod) \in 0..3
  BY <1>2, <1>5, <1>6
<1> QED
  BY <1>1, <1>4, <1>7 DEF here, there

LEMMA ChangeDatesExist ==
  ASSUME SubOK(sub, previous, periods), NEW date \in ChangeDates
  PROVE  DateOK(date)
<1>1. DateOK(previous) /\ previous \in Dates
  BY RenewalDates DEF DateOK
<1>2. CASE date = AddMonths(previous, 2)
  <2>1. MonthIndex(previous) + 2 >= 0
    BY <1>1, DateIsDay
  <2> QED
    BY <1>1, <1>2, <2>1, MonthsAdded
<1>3. CASE \E days \in Lateness, quarter \in {0, 3} :
             previous.d + days >= 1 /\ date = Later(previous, days, quarter)
  <2>1. PICK days \in Lateness, quarter \in {0, 3} :
          previous.d + days >= 1 /\ date = Later(previous, days, quarter)
    BY <1>3
  <2> DEFINE far == previous.d + days
             end == DaysInMonth(previous.y, previous.m)
             first == [previous EXCEPT !.d = 1]
             next == AddMonths(first, 1)
             left == far - end
  <2>2. days \in -28..28 /\ previous.y \in Nat /\ previous.m \in 0..11
        /\ previous.d \in 1..end /\ end \in 28..31 /\ previous.q \in 0..3
    <3>1. Length(MonthIndex(previous)) = end /\ MonthIndex(previous) \in Nat
      BY <1>1, DateIsDay DEF Length
    <3> QED
      BY <1>1, <3>1, DateIsDay, MonthsFollow, DeskAssumption DEF Dates
  <2>3. CASE far <= end
    <3>1. date = [previous EXCEPT !.d = far, !.q = quarter]
      BY <2>1, <2>3 DEF Later
    <3>2. far \in 1..31 /\ quarter \in 0..3
      BY <2>1, <2>2, <2>3
    <3> HIDE DEF far, end
    <3>3. date \in Dates /\ date.d = far /\ date.y = previous.y /\ date.m = previous.m
      BY <1>1, <3>1, <3>2 DEF Dates
    <3> QED
      BY <2>3, <3>3 DEF DateOK, end
  <2>4. CASE ~(far <= end)
    <3>1. first \in Dates /\ DateOK(first)
      <4>1. first \in Dates /\ first.d = 1 /\ first.y = previous.y /\ first.m = previous.m
        BY <1>1 DEF Dates
      <4> QED
        BY <2>2, <4>1 DEF DateOK
    <3>2. DateOK(next)
      <4>1. MonthIndex(first) + 1 >= 0
        BY <3>1, DateIsDay
      <4> HIDE DEF first
      <4> QED
        BY <3>1, <4>1, MonthsAdded
    <3>3. date = [next EXCEPT !.d = left, !.q = quarter]
      BY <2>1, <2>4 DEF Later
    <3>4. left \in 1..31 /\ left <= 28 /\ quarter \in 0..3
      BY <2>1, <2>2, <2>4
    <3> HIDE DEF next, left, far, end, first
    <3>5. next \in Dates /\ DaysInMonth(next.y, next.m) \in 28..31
      <4>1. next.y \in Nat /\ next.m \in Nat
        BY <3>2 DEF DateOK, Dates
      <4> QED
        BY <3>2, <4>1, MonthStep DEF DateOK
    <3>6. date \in Dates /\ date.d = left /\ date.y = next.y /\ date.m = next.m
      <4>1. next \in Dates
        BY <3>5
      <4> QED
        BY <3>3, <3>4, <4>1 DEF Dates
    <3> QED
      BY <3>4, <3>5, <3>6 DEF DateOK
  <2> QED
    BY <2>2, <2>3, <2>4
<1> QED
  BY <1>2, <1>3 DEF ChangeDates

\* The credit for leaving a period is part of the price, less for each day that
\* passes and nothing by its end.
LEMMA CreditIsPart ==
  ASSUME SubOK(sub, previous, periods), NEW date, DateOK(date),
         NEW after, DateOK(after), Instant(date) <= Instant(after)
  PROVE  /\ UnusedCredit(date) \in 0..sub.price
         /\ UnusedCredit(after) <= UnusedCredit(date)
         /\ UnusedCredit(sub.renewsAt) = 0
<1> DEFINE days == DaysBetween(LeftPeriod, sub.renewsAt)
           used == DaysBetween(LeftPeriod, date)
           more == DaysBetween(LeftPeriod, after)
<1>1. /\ Instant(LeftPeriod) \in Int /\ Instant(sub.renewsAt) \in Int
      /\ Instant(date) \in Int /\ Instant(after) \in Int
      /\ DayNumber(LeftPeriod) \in Int /\ DayNumber(sub.renewsAt) \in Int
  BY LeftPeriodIsPaid, RenewalDates, DateIsDay
<1>2. days \in Int /\ used \in Int /\ more \in Int /\ used <= more
  BY <1>1 DEF DaysBetween
<1>3. days >= 1
  <2>1. DayNumber(LeftPeriod) < DayNumber(sub.renewsAt)
    BY LeftPeriodIsPaid, RenewalDates, LaterMonth
  <2>2. /\ Instant(sub.renewsAt) = 4 * DayNumber(sub.renewsAt) + sub.renewsAt.q
        /\ Instant(LeftPeriod) = 4 * DayNumber(LeftPeriod) + sub.renewsAt.q
        /\ sub.renewsAt.q \in Int
    BY LeftPeriodIsPaid, RenewalDates DEF Instant, DateOK, Dates
  <2>3. Instant(sub.renewsAt) - Instant(LeftPeriod) >= 4
    BY <1>1, <2>1, <2>2
  <2> QED
    BY <1>1, <2>3 DEF DaysBetween
<1>4. sub.price \in Nat
  BY DeskAssumption DEF SubOK
<1> HIDE DEF days, used, more
<1>5. /\ UnusedCredit(date) = Prorate(sub.price, days, used)
      /\ UnusedCredit(after) = Prorate(sub.price, days, more)
      /\ UnusedCredit(sub.renewsAt) = Prorate(sub.price, days, days)
  BY DEF UnusedCredit, days, used, more
<1> QED
  BY <1>2, <1>3, <1>4, <1>5, ProrateShrinks

---------------------------------------------------------------------------
(* The invariant.                                                          *)

IsInvoice(d) ==
  /\ d.lines \in InvoiceLines /\ d.discount \in Nat
  /\ \E kind \in InvoiceKinds :
       d.totals = CalculateInvoice(d.lines, d.discount, kind)

IsCredit(d, totals) ==
  \E kind \in InvoiceKinds :
    totals = CalculateInvoice([i \in DOMAIN d.lines |-> Reversed(d.lines[i])],
                              0, kind)

\* What is known of the customer between two requests.
DeskInv ==
  /\ state \in States
  /\ periods \in 0..MaxPeriods
  /\ sub # None => SubOK(sub, previous, periods)
  /\ invoice # None => IsInvoice(invoice)
  /\ credit # None => invoice # None /\ IsCredit(invoice, credit)

LEMMA DocumentIsInvoice ==
  ASSUME NEW lines \in InvoiceLines, NEW discount \in Nat
  PROVE  IsInvoice(Document(lines, discount))
<1>1. TaxKindFor("home", state) \in InvoiceKinds
  BY DEF TaxKindFor, InvoiceKinds
<1> DEFINE d == Document(lines, discount)
<1>2. /\ d.lines = lines /\ d.discount = discount
      /\ d.totals = CalculateInvoice(lines, discount, TaxKindFor("home", state))
  BY DEF Document
<1> HIDE DEF d
<1>3. IsInvoice(d)
  BY <1>1, <1>2 DEF IsInvoice
<1> QED
  BY <1>3 DEF d

LEMMA ShortInvoices ==
  ASSUME NEW price \in Int, NEW other \in Int
  PROVE  <<OneLine(price)>> \in InvoiceLines
         /\ <<OneLine(price), OneLine(other)>> \in InvoiceLines
<1>1. OneLine(price) \in LineType /\ OneLine(other) \in LineType
  BY DEF OneLine, LineType, Rate
<1>2. /\ <<OneLine(price)>> \in [1..1 -> LineType]
      /\ <<OneLine(price), OneLine(other)>> \in [1..2 -> LineType]
  BY <1>1
<1> QED
  BY <1>2 DEF InvoiceLines

LEMMA InitHolds == Init => DeskInv
BY DeskAssumption DEF Init, DeskInv

LEMMA ByHandHolds ==
  ASSUME DeskInv, NEW n \in 1..MaxLines, IssueByHand(n)
  PROVE  DeskInv'
<1>1. PICK lines \in [1..n -> Lines], discount \in Discounts :
        invoice' = Document(lines, discount)
  BY DEF IssueByHand
<1>2. lines \in InvoiceLines /\ discount \in Nat
  <2>1. n \in Nat \ {0} /\ lines \in [1..n -> LineType]
    BY DeskAssumption
  <2> QED
    BY <2>1, DeskAssumption DEF InvoiceLines
<1>3. IsInvoice(invoice')
  BY <1>1, <1>2, DocumentIsInvoice
<1>4. credit = None /\ credit' = None /\ sub' = sub /\ previous' = previous
      /\ periods' = periods /\ state' = state
  BY DEF IssueByHand, DeskInv
<1> QED
  BY <1>3, <1>4 DEF DeskInv

LEMMA CreditNoteHolds ==
  ASSUME DeskInv, CreditNote
  PROVE  DeskInv'
<1> DEFINE reversed == [i \in DOMAIN invoice.lines |->
                          [invoice.lines[i] EXCEPT !.price = -@]]
           back == [i \in DOMAIN invoice.lines |-> Reversed(invoice.lines[i])]
<1>1. credit' = Document(back, 0).totals /\ invoice # None
  <2>1. back = reversed
    BY DEF Reversed
  <2> QED
    BY <2>1 DEF CreditNote
<1> HIDE DEF back
<1>2. credit' = CalculateInvoice(back, 0, TaxKindFor("home", state))
  BY <1>1 DEF Document
<1>3. TaxKindFor("home", state) \in InvoiceKinds
  BY DEF TaxKindFor, InvoiceKinds
<1>4. IsCredit(invoice, credit')
  BY <1>2, <1>3 DEF IsCredit, back
<1>5. UNCHANGED <<state, sub, previous, periods, invoice>>
  BY DEF CreditNote
<1> QED
  BY <1>1, <1>4, <1>5 DEF DeskInv

LEMMA MoveHolds ==
  ASSUME DeskInv, NEW to \in States, Move(to)
  PROVE  DeskInv'
BY DEF DeskInv, Move

LEMMA StartsOK ==
  ASSUME NEW start, DateOK(start), NEW cycle \in Cycles, NEW price \in Prices,
         NEW s, s = [anchor |-> start, renewsAt |-> NextRenewal(start, cycle),
                     cycle |-> cycle, price |-> price]
  PROVE  SubOK(s, start, 1)
<1> DEFINE months == Months(cycle)
           r == AddMonths(start, months)
           z == AddMonths(start, 0)
<1>1. months \in Nat /\ 1 * months = months /\ (1 - 1) * months = 0
      /\ MonthIndex(start) \in Nat /\ MonthIndex(start) + 0 = MonthIndex(start)
  BY CycleHasMonths, DateIsDay
<1>2. r = NextRenewal(start, cycle)
  BY DEF NextRenewal, Months
<1> HIDE DEF months
<1>3. DateOK(r)
  BY <1>1, MonthsAdded
<1>4. DateOK(z) /\ MonthIndex(z) = MonthIndex(start) /\ z.q = start.q
      /\ z.d = IF start.d > Length(MonthIndex(start)) THEN Length(MonthIndex(start))
               ELSE start.d
  BY <1>1, MonthsAdded
<1>5. z.y = start.y /\ z.m = start.m /\ z.d = start.d
  BY <1>1, <1>4, DateIsDay
<1> HIDE DEF z
<1>6. z = start
  <2>1. z \in Dates /\ start \in Dates
    BY <1>4 DEF DateOK
  <2> QED
    BY <1>4, <1>5, <2>1 DEF Dates
<1> HIDE DEF r
<1>7. s \in [anchor : Dates, renewsAt : Dates, cycle : Cycles, price : Prices]
      /\ s.anchor = start /\ s.cycle = cycle /\ s.renewsAt = r
  BY <1>2, <1>3 DEF DateOK
<1> QED
  BY <1>1, <1>6, <1>7 DEF SubOK, months, r, z

LEMMA SubscribeHolds ==
  ASSUME DeskInv, NEW start \in Starts, NEW cycle \in Cycles,
         NEW price \in Prices, Subscribe(start, cycle, price)
  PROVE  DeskInv'
<1>1. SubOK(sub', start, 1)
  BY StartsOK, DeskAssumption DEF Subscribe
<1>2. previous' = start /\ periods' = 1 /\ UNCHANGED <<state, invoice, credit>>
  BY DEF Subscribe
<1> QED
  BY <1>1, <1>2, DeskAssumption DEF DeskInv

LEMMA RenewHolds ==
  ASSUME DeskInv, Renew
  PROVE  DeskInv'
<1>1. SubOK(sub, previous, periods) /\ periods < MaxPeriods
  BY DEF Renew, DeskInv
<1> DEFINE next == RenewalAfter(sub.anchor, sub.renewsAt, sub.cycle)
<1>2. /\ sub' = [sub EXCEPT !.renewsAt = next] /\ previous' = sub.renewsAt
      /\ periods' = periods + 1 /\ credit' = None /\ state' = state
      /\ invoice' = Document(<<OneLine(sub.price)>>, 0)
  BY DEF Renew
<1>3. /\ sub \in [anchor : Dates, renewsAt : Dates, cycle : Cycles, price : Prices]
      /\ DateOK(sub.anchor) /\ periods \in Nat \ {0}
      /\ sub.renewsAt = AddMonths(sub.anchor, periods * Months(sub.cycle))
      /\ sub.price \in Int
  <2>1. sub \in [anchor : Dates, renewsAt : Dates, cycle : Cycles, price : Prices]
    BY <1>1 DEF SubOK
  <2>2. sub.price \in Prices
    BY <2>1
  <2>3. Prices \subseteq Nat
    BY DeskAssumption
  <2>4. sub.price \in Nat
    BY ONLY <2>2, <2>3
  <2>5. sub.price \in Int
    BY ONLY <2>4
  <2> QED
    BY <1>1, <2>1, <2>5 DEF SubOK
<1>4. next = AddMonths(sub.anchor, (periods + 1) * Months(sub.cycle))
  BY <1>3, DeskAssumption, RenewalIsNext DEF Months
<1>5. DateOK(next)
  <2>1. (periods + 1) * Months(sub.cycle) \in Nat /\ MonthIndex(sub.anchor) \in Nat
    BY <1>3, CycleHasMonths, DateIsDay
  <2> QED
    BY <1>3, <1>4, <2>1, MonthsAdded
<1> HIDE DEF next
<1>6. SubOK(sub', previous', periods')
  <2>1. next \in Dates
    BY <1>5 DEF DateOK
  <2>2. sub' \in [anchor : Dates, renewsAt : Dates, cycle : Cycles, price : Prices]
        /\ sub'.anchor = sub.anchor /\ sub'.cycle = sub.cycle /\ sub'.renewsAt = next
    BY <1>2, <1>3, <2>1
  <2>3. (periods + 1) - 1 = periods /\ periods + 1 \in Nat \ {0}
    BY <1>3
  <2> QED
    BY <1>2, <1>3, <1>4, <2>2, <2>3 DEF SubOK
<1>7. IsInvoice(invoice')
  BY <1>2, <1>3, ShortInvoices, DocumentIsInvoice, 0 \in Nat
<1>8. periods' \in 0..MaxPeriods
  BY <1>1, <1>2, <1>3, DeskAssumption
<1> QED
  BY <1>2, <1>6, <1>7, <1>8 DEF DeskInv

LEMMA RepriceHolds ==
  ASSUME DeskInv, NEW price \in Prices, Reprice(price)
  PROVE  DeskInv'
<1>1. SubOK(sub, previous, periods) /\ sub # None
  BY DEF Reprice, DeskInv
<1>2. sub' = [sub EXCEPT !.price = price] /\ UNCHANGED <<previous, periods>>
  BY DEF Reprice
<1>3. sub \in [anchor : Dates, renewsAt : Dates, cycle : Cycles, price : Prices]
  BY <1>1 DEF SubOK
<1>4. /\ sub' \in [anchor : Dates, renewsAt : Dates, cycle : Cycles, price : Prices]
      /\ sub'.anchor = sub.anchor /\ sub'.cycle = sub.cycle
      /\ sub'.renewsAt = sub.renewsAt
  BY <1>2, <1>3
<1>5. SubOK(sub', previous', periods')
  BY <1>1, <1>2, <1>4 DEF SubOK
<1> QED
  BY <1>1, <1>5 DEF Reprice, DeskInv

LEMMA ChangePlanHolds ==
  ASSUME DeskInv, sub # None, NEW date \in ChangeDates, NEW price \in Prices,
         NEW cycle \in Cycles, ChangePlan(date, price, cycle)
  PROVE  DeskInv'
<1>1. SubOK(sub, previous, periods) /\ DateOK(date)
  BY ChangeDatesExist DEF DeskInv
<1> DEFINE unused == UnusedCredit(date)
<1>2. unused \in Int
  <2>1. unused \in 0..sub.price
    BY <1>1, CreditIsPart, DateIsDay
  <2> QED
    BY <2>1
<1>3. SubOK(sub', previous', periods')
  BY <1>1, StartsOK DEF ChangePlan
<1>4. IsInvoice(invoice')
  <2>1. price \in Int /\ -unused \in Int
    BY <1>2, DeskAssumption
  <2>2. \/ invoice' = Document(<<OneLine(price)>>, 0)
        \/ invoice' = Document(<<OneLine(price), OneLine(-unused)>>, 0)
    BY DEF ChangePlan
  <2> HIDE DEF unused
  <2> QED
    BY <2>1, <2>2, ShortInvoices, DocumentIsInvoice, 0 \in Nat
<1>5. periods' = 1 /\ credit' = None /\ state' = state
  BY DEF ChangePlan
<1> QED
  BY <1>3, <1>4, <1>5, DeskAssumption DEF DeskInv

\* The billing state of a customer, whatever is billed, renewed, moved or
\* changed, is one the rules of the invoice and of the calendar made.
THEOREM DeskInvariant == Spec => []DeskInv
<1>1. DeskInv /\ [Next]_vars => DeskInv'
  <2> SUFFICES ASSUME DeskInv, [Next]_vars PROVE DeskInv'
    OBVIOUS
  <2>1. CASE UNCHANGED vars
    BY <2>1 DEF DeskInv, vars
  <2>2. CASE Next
    BY <2>2, ByHandHolds, CreditNoteHolds, MoveHolds, SubscribeHolds,
       RenewHolds, RepriceHolds, ChangePlanHolds DEF Next
  <2> QED
    BY <2>1, <2>2
<1> QED
  BY <1>1, InitHolds, PTL DEF Spec

---------------------------------------------------------------------------
(* The properties.                                                         *)

\* Every date of a subscription is one the calendar has, whatever is renewed
\* and changed (addMonths clamps).
THEOREM DatesHold == Spec => []TypeOK
<1>1. DeskInv => TypeOK
  BY RenewalDates DEF DeskInv, TypeOK, SubOK
<1> QED
  BY <1>1, DeskInvariant, PTL

\* Every invoice adds up, for any lines, rates and discount (calculateInvoice).
THEOREM TotalsHold == Spec => []TotalsReconcile
<1>1. DeskInv => TotalsReconcile
  <2> SUFFICES ASSUME DeskInv, NEW d \in Documents
               PROVE  LET t == d.totals
                      IN  /\ \A i \in DOMAIN t.lines :
                               t.lines[i].cgst + t.lines[i].sgst + t.lines[i].igst
                                 = Round(t.lines[i].taxable * d.lines[i].rate, 10000)
                          /\ t.igst = 0 \/ (t.cgst = 0 /\ t.sgst = 0)
                          /\ t.total = t.subtotal + t.cgst + t.sgst + t.igst + t.roundOff
                          /\ t.total % 100 = 0
                          /\ Abs(t.roundOff) <= 50
    BY DEF TotalsReconcile
  <2>1. IsInvoice(d)
    BY DEF DeskInv, Documents
  <2>2. PICK kind \in InvoiceKinds :
          d.totals = CalculateInvoice(d.lines, d.discount, kind)
    BY <2>1 DEF IsInvoice
  <2>3. AddsUp(d.lines, d.discount, kind, d.totals)
    BY <2>1, <2>2, DocumentAddsUp DEF IsInvoice
  <2>4. ASSUME NEW i \in DOMAIN d.totals.lines
        PROVE  d.totals.lines[i].cgst + d.totals.lines[i].sgst + d.totals.lines[i].igst
                 = Round(d.totals.lines[i].taxable * d.lines[i].rate, 10000)
    <3>1. /\ i \in DOMAIN d.lines
          /\ d.totals.lines[i]
               = TaxLine(d.lines[i], kind, Shares(d.lines, d.discount)[i])
      BY <2>3 DEF AddsUp
    <3>2. d.lines[i] \in LineType /\ Shares(d.lines, d.discount)[i] \in Int
      BY <2>1, <3>1, LinesAreMany, SharesAreInts DEF IsInvoice
    <3> QED
      BY <3>1, <3>2, LineAddsUp
  <2>5. /\ d.totals.igst = 0 \/ (d.totals.cgst = 0 /\ d.totals.sgst = 0)
        /\ d.totals.total = d.totals.subtotal + d.totals.cgst + d.totals.sgst
                              + d.totals.igst + d.totals.roundOff
        /\ d.totals.total % 100 = 0 /\ Abs(d.totals.roundOff) <= 50
    <3> DEFINE t == d.totals
    <3>1. /\ t.subtotal \in Int /\ t.cgst \in Int /\ t.sgst \in Int
          /\ t.igst \in Int /\ t.total \in Int /\ t.total % 100 = 0
          /\ t.igst = 0 \/ (t.cgst = 0 /\ t.sgst = 0)
          /\ t.roundOff = t.total - (t.subtotal + t.cgst + t.sgst + t.igst)
          /\ t.roundOff \in -50..50
      BY <2>3 DEF AddsUp
    <3> HIDE DEF t
    <3>2. t.total = t.subtotal + t.cgst + t.sgst + t.igst + t.roundOff
      BY <3>1
    <3>3. Abs(t.roundOff) <= 50
      BY <3>1 DEF Abs
    <3> QED
      BY <3>1, <3>2, <3>3 DEF t
  <2> QED
    BY <2>4, <2>5
<1> QED
  BY <1>1, DeskInvariant, PTL

\* A credit note is the exact negative of an undiscounted invoice of its kind
\* (creditNoteFor).
THEOREM CreditsHold == Spec => []CreditMirrors
<1>1. DeskInv => CreditMirrors
  <2> SUFFICES ASSUME DeskInv, credit # None, invoice.discount = 0,
                      credit.kind = invoice.totals.kind
               PROVE  Amounts(credit) = Negated(invoice.totals)
    BY DEF CreditMirrors
  <2> DEFINE back == [i \in DOMAIN invoice.lines |-> Reversed(invoice.lines[i])]
  <2>1. IsInvoice(invoice) /\ IsCredit(invoice, credit)
    BY DEF DeskInv
  <2>2. PICK kind \in InvoiceKinds :
          invoice.totals = CalculateInvoice(invoice.lines, 0, kind)
    BY <2>1 DEF IsInvoice
  <2>3. PICK other \in InvoiceKinds : credit = CalculateInvoice(back, 0, other)
    BY <2>1 DEF IsCredit
  <2>4. kind = other
    <3> HIDE DEF back
    <3>1. /\ CalculateInvoice(invoice.lines, 0, kind).kind = kind
          /\ CalculateInvoice(back, 0, other).kind = other
      BY DEF CalculateInvoice
    <3> QED
      BY <2>2, <2>3, <3>1
  <2> QED
    BY <2>1, <2>2, <2>3, <2>4, CreditReverses DEF IsInvoice
<1> QED
  BY <1>1, DeskInvariant, PTL

\* A discount over lines of positive amounts loses less than a paisa for each
\* line before the last (calculateInvoice).
THEOREM DiscountsHold == Spec => []DiscountNearlyShared
<1>1. DeskInv => DiscountNearlyShared
  <2> SUFFICES ASSUME DeskInv, NEW d \in Documents,
                      \A i \in DOMAIN d.lines : d.lines[i].price > 0
               PROVE  LET short == d.totals.subtotal
                                     - (Gross(d.lines) - d.totals.discount)
                      IN  /\ short >= 0
                          /\ short <= IF Len(d.lines) < 2 THEN 0 ELSE Len(d.lines) - 2
                          /\ \A i \in DOMAIN d.lines : d.totals.lines[i].taxable >= 0
    BY DEF DiscountNearlyShared
  <2>1. IsInvoice(d)
    BY DEF DeskInv, Documents
  <2>2. PICK kind \in InvoiceKinds :
          d.totals = CalculateInvoice(d.lines, d.discount, kind)
    BY <2>1 DEF IsInvoice
  <2>3. Positive(d.lines)
    BY DEF Positive
  <2> QED
    BY <2>1, <2>2, <2>3, DiscountIsShared DEF IsInvoice
<1> QED
  BY <1>1, DeskInvariant, PTL

\* However often a renewal was clamped, the n-th falls n cycles after the start
\* (renewalAfter).
THEOREM AnniversaryHolds == Spec => []RenewsOnAnniversary
<1>1. DeskInv => RenewsOnAnniversary
  <2> SUFFICES ASSUME SubOK(sub, previous, periods)
               PROVE  /\ MonthIndex(sub.renewsAt) - MonthIndex(sub.anchor)
                           = periods * MonthsInCycle[sub.cycle]
                      /\ sub.renewsAt.d =
                           LET end == DaysInMonth(sub.renewsAt.y, sub.renewsAt.m)
                           IN  IF sub.anchor.d > end THEN end ELSE sub.anchor.d
    BY DEF DeskInv, RenewsOnAnniversary
  <2>1. Length(MonthIndex(sub.renewsAt))
          = DaysInMonth(sub.renewsAt.y, sub.renewsAt.m)
    BY RenewalDates, DateIsDay DEF Length
  <2> DEFINE i == MonthIndex(sub.anchor)
             j == MonthIndex(sub.renewsAt)
             k == periods * MonthsInCycle[sub.cycle]
  <2>2. i \in Nat /\ k \in Nat /\ j = i + k
    BY RenewalDates DEF Months
  <2>3. j - i = k
    <3> HIDE DEF i, j, k
    <3> QED
      BY <2>2
  <2> QED
    BY <2>1, <2>3, RenewalDates
<1> QED
  BY <1>1, DeskInvariant, PTL

\* A plan change leaves the period that was really paid for (changePlan).
THEOREM LeftPeriodHolds == Spec => []LeavesThePaidPeriod
<1>1. DeskInv => LeavesThePaidPeriod
  BY LeftPeriodIsPaid DEF DeskInv, LeavesThePaidPeriod
<1> QED
  BY <1>1, DeskInvariant, PTL

\* The credit for a plan change is part of the price and shrinks by the day
\* (prorate).
THEOREM CreditShrinkHolds == Spec => []CreditShrinks
<1>1. DeskInv => CreditShrinks
  <2> SUFFICES ASSUME SubOK(sub, previous, periods)
               PROVE  /\ \A date \in ChangeDates : UnusedCredit(date) \in 0..sub.price
                      /\ \A date, after \in ChangeDates :
                           Instant(date) <= Instant(after)
                             => UnusedCredit(after) <= UnusedCredit(date)
                      /\ UnusedCredit(sub.renewsAt) = 0
    BY DEF DeskInv, CreditShrinks
  <2>1. \A date \in ChangeDates : DateOK(date) /\ Instant(date) \in Int
    BY ChangeDatesExist, DateIsDay
  <2>2. DateOK(sub.renewsAt) /\ Instant(sub.renewsAt) \in Int
    BY RenewalDates, DateIsDay
  <2>3. \A date \in ChangeDates : UnusedCredit(date) \in 0..sub.price
    BY <2>1, CreditIsPart
  <2>4. UnusedCredit(sub.renewsAt) = 0
    BY <2>2, CreditIsPart
  <2> QED
    BY <2>1, <2>3, <2>4, CreditIsPart
<1> QED
  BY <1>1, DeskInvariant, PTL
=============================================================================
