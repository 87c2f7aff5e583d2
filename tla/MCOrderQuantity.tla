-------------------------- MODULE MCOrderQuantity --------------------------
(* OrderQuantity on small instances: NUMERIC(4, 2), and floats with eight  *)
(* bits of mantissa.                                                       *)
EXTENDS OrderQuantity

CONSTANTS btc, doge

D(coef, exp) == [coef |-> coef, exp |-> exp]

\* Around every boundary: zero and below, one place more than the column
\* has, written-out zeros, one digit more than it has, exponents both ways,
\* digits a float does not keep.
SomeQuantities ==
  {D(c, e) : c \in {-1, 0, 1, 5, 10, 15, 20, 99, 100, 101, 120, 999, 1000, 1001,
                    9990, 9999, 10000},
             e \in -3..2} \cup {NotFinite}

SomeLimits ==
  { [minimum |-> D(1, -2), maximum |-> D(10, -1)],
    [minimum |-> D(5, -1), maximum |-> D(990, -1)],
    [minimum |-> D(1, -2), maximum |-> D(10000, -1)] }
-----------------------------------------------------------------------------
(* Floats.  A fraction is num / den, a float is mant * 2^exp.              *)

Bits == 8

\* The nearest integer to num / den, halves to even.
Nearest(num, den) ==
  LET q == num \div den
      r == num % den
  IN IF 2 * r > den \/ (2 * r = den /\ q % 2 = 1) THEN q + 1 ELSE q

\* The largest e with base^e <= num / den, and the exponents it is looked
\* for among: TLC's integers have 32 bits.
Exponents(base) == 0..(IF base = 2 THEN 20 ELSE 9)

Magnitude(base, num, den) ==
  IF num >= den THEN Max({e \in Exponents(base) : base^e <= num \div den})
                ELSE -Min({e \in Exponents(base) : base^e >= (den + num - 1) \div num})

\* float(): the nearest, in one form.
Float(d) ==
  LET num  == d.coef * Ten[Max({d.exp, 0})]
      den  == Ten[Max({-d.exp, 0})]
      e    == Magnitude(2, num, den) - Bits + 1
      mant == Nearest(num * 2^Max({-e, 0}), den * 2^Max({e, 0}))
  IN IF mant = 2^Bits THEN [mant |-> 2^(Bits - 1), exp |-> e + 1]
                      ELSE [mant |-> mant, exp |-> e]

\* repr(): the shortest numeral that reads as this float, with a point.
Shortest(f) ==
  LET num == f.mant * 2^Max({f.exp, 0})
      den == 2^Max({-f.exp, 0})
      exp(n)  == Magnitude(10, num, den) - n + 1
      coef(n) == Nearest(num * Ten[Max({-exp(n), 0})], den * Ten[Max({exp(n), 0})])
      reads(n) == {c \in {coef(n), coef(n) + 1} : Float(D(c, exp(n))) = f}
      digits == Min({n \in 1..4 : reads(n) # {}})
      zeros  == Zeros(Min(reads(digits)))
      left   == Min(reads(digits)) \div Ten[zeros]
      right  == exp(digits) + zeros
  IN IF right >= 0 THEN D(left * Ten[right + 1], -1) ELSE D(left, right)

BinaryRepr(d) ==
  IF d.coef = 0 THEN D(0, -1)
  ELSE LET s == Shortest(Float(D(Abs(d.coef), d.exp)))
       IN IF d.coef < 0 THEN D(-s.coef, s.exp) ELSE s
=============================================================================
