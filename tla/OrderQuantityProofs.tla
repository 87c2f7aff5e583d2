------------------------ MODULE OrderQuantityProofs ------------------------
(***************************************************************************)
(* The way of a quantity for every Decimal, every column NUMERIC(p, s) and *)
(* every configuration of the limits: what the exchange is asked for is    *)
(* what the signal said, as far as a float keeps it, in the one rendering  *)
(* every answer shows.                                                     *)
(***************************************************************************)
EXTENDS OrderQuantity, WellFoundedInduction, TLAPS

(* Powers of ten.  Induction is an appeal to the least counterexample.     *)

LEMMA LeastNumber ==
  ASSUME NEW S, S \subseteq Nat, S # {}
  PROVE  \E x \in S : \A y \in S : x <= y
<1>1. PICK x \in S : \A y \in S : ~ (<<y, x>> \in OpToRel(<, Nat))
  BY WFMin, NatLessThanWellFounded
<1>2. \A y \in S : ~ (y < x)
  BY <1>1 DEF OpToRel
<1> QED
  BY <1>2

\* The first n + 1 powers of ten.
TenUpTo(n, f) ==
  /\ f \in [0..n -> Nat]
  /\ f[0] = 1
  /\ \A k \in 0..n : k > 0 => f[k] = 10 * f[k - 1]

LEMMA TenUpToExists ==
  ASSUME NEW n \in Nat
  PROVE  \E f : TenUpTo(n, f)
<1> DEFINE Without == {m \in Nat : ~ \E f : TenUpTo(m, f)}
<1> SUFFICES ASSUME Without # {} PROVE FALSE
  OBVIOUS
<1>1. PICK m \in Without : \A y \in Without : m <= y
  <2> Without \subseteq Nat
    OBVIOUS
  <2> HIDE DEF Without
  <2> QED
    BY LeastNumber
<1>2. m # 0
  <2>1. TenUpTo(0, [k \in 0..0 |-> 1])
    BY DEF TenUpTo
  <2> QED
    BY <1>1, <2>1
<1>3. m - 1 \in Nat /\ m - 1 \notin Without
  BY <1>1, <1>2
<1>4. PICK f : TenUpTo(m - 1, f)
  BY <1>3
<1> DEFINE g == [k \in 0..m |-> IF k < m THEN f[k] ELSE 10 * f[m - 1]]
<1>5. TenUpTo(m, g)
  <2>1. f \in [0..(m - 1) -> Nat] /\ f[0] = 1
    BY <1>4 DEF TenUpTo
  <2>2. \A k \in 0..(m - 1) : k > 0 => f[k] = 10 * f[k - 1]
    BY <1>4 DEF TenUpTo
  <2>3. g \in [0..m -> Nat] /\ g[0] = 1
    BY <1>3, <2>1
  <2>4. \A k \in 0..m : k > 0 => g[k] = 10 * g[k - 1]
    BY <1>3, <2>1, <2>2
  <2> QED
    BY <2>3, <2>4 DEF TenUpTo
<1> QED
  BY <1>1, <1>5

LEMMA TenUpToUnique ==
  ASSUME NEW m \in Nat, NEW n \in Nat, NEW f, NEW g, TenUpTo(m, f), TenUpTo(n, g),
         NEW k \in Nat, k <= m, k <= n
  PROVE  f[k] = g[k]
<1> DEFINE Apart == {i \in Nat : i <= m /\ i <= n /\ f[i] # g[i]}
<1> SUFFICES ASSUME Apart # {} PROVE FALSE
  OBVIOUS
<1>1. PICK i \in Apart : \A y \in Apart : i <= y
  <2> Apart \subseteq Nat
    OBVIOUS
  <2> HIDE DEF Apart
  <2> QED
    BY LeastNumber
<1>2. i # 0
  BY <1>1 DEF TenUpTo
<1>3. f[i - 1] = g[i - 1]
  BY <1>1, <1>2
<1>4. f[i] = 10 * f[i - 1] /\ g[i] = 10 * g[i - 1]
  BY <1>1, <1>2 DEF TenUpTo
<1> QED
  BY <1>1, <1>3, <1>4

(* The recursive definition defines what it says.                          *)
LEMMA TenDefined ==
  Ten = [k \in Nat |-> IF k = 0 THEN 1 ELSE 10 * Ten[k - 1]]
<1> DEFINE F(k) == CHOOSE f : TenUpTo(k, f)
           T == [k \in Nat |-> F(k)[k]]
<1>1. \A k \in Nat : TenUpTo(k, F(k))
  BY TenUpToExists
<1> HIDE DEF F
<1>2. ASSUME NEW k \in Nat, k # 0
      PROVE  T[k] = 10 * T[k - 1]
  <2>1. k - 1 \in Nat
    BY <1>2
  <2>2. F(k)[k] = 10 * F(k)[k - 1]
    BY <1>1, <1>2 DEF TenUpTo
  <2>3. F(k)[k - 1] = F(k - 1)[k - 1]
    BY <1>1, <2>1, TenUpToUnique
  <2> QED
    BY <2>1, <2>2, <2>3
<1>3. T[0] = 1
  BY <1>1 DEF TenUpTo
<1>4. T = [k \in Nat |-> IF k = 0 THEN 1 ELSE 10 * T[k - 1]]
  <2> T = [k \in Nat |-> T[k]]
    OBVIOUS
  <2> HIDE DEF T
  <2> QED
    BY <1>2, <1>3
<1> HIDE DEF T
<1> QED
  BY <1>4 DEF Ten

LEMMA TenLaws ==
  /\ Ten[0] = 1
  /\ \A k \in Nat : Ten[k + 1] = 10 * Ten[k]
<1>1. \A k \in Nat : Ten[k] = IF k = 0 THEN 1 ELSE 10 * Ten[k - 1]
  BY TenDefined
<1> QED
  BY <1>1

LEMMA TenType ==
  ASSUME NEW k \in Nat
  PROVE  Ten[k] \in Nat /\ Ten[k] > 0
<1> DEFINE Odd == {i \in Nat : ~ (Ten[i] \in Nat /\ Ten[i] > 0)}
<1> SUFFICES ASSUME Odd # {} PROVE FALSE
  OBVIOUS
<1>1. PICK i \in Odd : \A y \in Odd : i <= y
  <2> Odd \subseteq Nat
    OBVIOUS
  <2> HIDE DEF Odd
  <2> QED
    BY LeastNumber
<1>2. i # 0
  BY <1>1, TenLaws
<1>3. i - 1 \in Nat /\ Ten[i - 1] \in Nat /\ Ten[i - 1] > 0
  BY <1>1, <1>2
<1>4. Ten[i] = 10 * Ten[i - 1]
  <2>1. Ten[(i - 1) + 1] = 10 * Ten[i - 1]
    BY <1>3, TenLaws
  <2> QED
    BY <1>1, <2>1
<1> QED
  BY <1>1, <1>3, <1>4

LEMMA TenSum ==
  ASSUME NEW j \in Nat, NEW k \in Nat
  PROVE  Ten[j + k] = Ten[j] * Ten[k]
<1> DEFINE Off == {i \in Nat : Ten[j + i] # Ten[j] * Ten[i]}
<1> SUFFICES ASSUME Off # {} PROVE FALSE
  OBVIOUS
<1>1. PICK i \in Off : \A y \in Off : i <= y
  <2> Off \subseteq Nat
    OBVIOUS
  <2> HIDE DEF Off
  <2> QED
    BY LeastNumber
<1>2. i # 0
  <2>1. Ten[j] \in Nat /\ j + 0 = j
    BY TenType
  <2>2. Ten[j + 0] = Ten[j] * Ten[0]
    BY <2>1, TenLaws
  <2> QED
    BY <1>1, <2>2
<1>3. i - 1 \in Nat /\ Ten[j + (i - 1)] = Ten[j] * Ten[i - 1]
  BY <1>1, <1>2
<1>4. Ten[j + i] = 10 * Ten[j + (i - 1)] /\ Ten[i] = 10 * Ten[i - 1]
  <2>1. Ten[(j + (i - 1)) + 1] = 10 * Ten[j + (i - 1)] /\ Ten[(i - 1) + 1] = 10 * Ten[i - 1]
    BY <1>3, TenLaws
  <2>2. (j + (i - 1)) + 1 = j + i /\ (i - 1) + 1 = i
    BY <1>1
  <2> QED
    BY <2>1, <2>2
<1>5. 10 * (Ten[j] * Ten[i - 1]) = Ten[j] * (10 * Ten[i - 1])
  <2> Ten[j] \in Nat /\ Ten[i - 1] \in Nat
    BY <1>3, TenType
  <2> QED
    OBVIOUS
<1> QED
  BY <1>1, <1>3, <1>4, <1>5

LEMMA TenGrows ==
  ASSUME NEW j \in Nat, NEW k \in Nat, j <= k
  PROVE  Ten[j] <= Ten[k]
<1>1. k - j \in Nat /\ j + (k - j) = k
  OBVIOUS
<1>2. Ten[k] = Ten[j] * Ten[k - j]
  BY <1>1, TenSum
<1>3. Ten[j] \in Nat /\ Ten[k - j] \in Nat /\ Ten[k - j] >= 1
  BY <1>1, TenType
<1>4. \A a, b \in Nat : b >= 1 => a <= a * b
  OBVIOUS
<1> QED
  BY <1>2, <1>3, <1>4
-----------------------------------------------------------------------------
(* Division, and the zeros at the end of a number.                         *)

LEMMA Division ==
  ASSUME NEW a \in Int, NEW b \in Nat, b > 0
  PROVE  /\ a \div b \in Int /\ a % b \in Nat /\ a % b < b
         /\ a = b * (a \div b) + (a % b)
OBVIOUS

LEMMA Quotient ==
  ASSUME NEW b \in Nat, NEW q \in Int, NEW r \in Nat, r < b
  PROVE  (b * q + r) \div b = q /\ (b * q + r) % b = r
<1> DEFINE a == b * q + r
<1>1. a \in Int /\ b > 0 /\ a = b * q + r
  OBVIOUS
<1> HIDE DEF a
<1> DEFINE p == a \div b
           s == a % b
<1>2. p \in Int /\ s \in Nat /\ s < b /\ a = b * p + s
  BY <1>1, Division
<1> HIDE DEF p, s
<1>3. b * (q - p) = s - r
  BY <1>1, <1>2
<1>4. \A d \in Int : /\ d >= 1 => b * d >= b
                     /\ d <= -1 => b * d <= -b
  BY <1>1
<1>5. q - p = 0
  BY <1>1, <1>2, <1>3, <1>4
<1>6. p = q /\ s = r
  BY <1>1, <1>2, <1>5
<1> QED
  BY <1>6 DEF a, p, s

LEMMA ExactQuotient ==
  ASSUME NEW m \in Int, NEW b \in Nat, b > 0
  PROVE  (m * b) \div b = m /\ (m * b) % b = 0
<1>1. m * b = b * m + 0
  OBVIOUS
<1> QED
  BY <1>1, Quotient

\* n is m followed by z zeros, and m does not end in one.
Splits(n, m, z) ==
  /\ m \in Nat /\ z \in Nat
  /\ m % 10 # 0
  /\ n = m * Ten[z]

LEMMA SplitExists ==
  ASSUME NEW n \in Nat, n > 0
  PROVE  \E m, z : Splits(n, m, z)
<1> DEFINE Whole == {i \in Nat : i > 0 /\ ~ \E m, z : Splits(i, m, z)}
<1> SUFFICES ASSUME Whole # {} PROVE FALSE
  OBVIOUS
<1>1. PICK i \in Whole : \A y \in Whole : i <= y
  <2> Whole \subseteq Nat
    OBVIOUS
  <2> HIDE DEF Whole
  <2> QED
    BY LeastNumber
<1>2. i % 10 = 0
  <2> SUFFICES ASSUME i % 10 # 0 PROVE FALSE
    OBVIOUS
  <2>1. Splits(i, i, 0)
    BY <1>1, TenLaws DEF Splits
  <2> QED
    BY <1>1, <2>1
<1>3. PICK j \in Nat : i = 10 * j /\ j > 0 /\ j < i
  BY <1>1, <1>2
<1>4. PICK m, z : Splits(j, m, z)
  BY <1>1, <1>3
<1>5. Splits(i, m, z + 1)
  <2>1. m \in Nat /\ z \in Nat /\ m % 10 # 0 /\ j = m * Ten[z]
    BY <1>4 DEF Splits
  <2>2. Ten[z + 1] = 10 * Ten[z] /\ Ten[z] \in Nat
    BY <2>1, TenLaws, TenType
  <2>3. 10 * (m * Ten[z]) = m * (10 * Ten[z])
    BY <2>1, <2>2
  <2>4. z + 1 \in Nat /\ i = m * Ten[z + 1]
    BY <1>3, <2>1, <2>2, <2>3
  <2> QED
    BY <2>1, <2>4 DEF Splits
<1> QED
  BY <1>1, <1>5

LEMMA MaxIs ==
  ASSUME NEW S, S \subseteq Int, NEW x \in S, \A y \in S : y <= x
  PROVE  Max(S) = x
<1>1. x \in S /\ \A y \in S : x >= y
  OBVIOUS
<1>2. Max(S) \in S /\ \A y \in S : Max(S) >= y
  BY <1>1, Zenon DEF Max
<1>3. PICK w \in Int : w = Max(S)
  BY <1>2
<1>4. w >= x /\ x >= w
  BY <1>1, <1>2, <1>3
<1> QED
  BY <1>3, <1>4

LEMMA MinIs ==
  ASSUME NEW S, S \subseteq Int, NEW x \in S, \A y \in S : x <= y
  PROVE  Min(S) = x
<1>1. x \in S /\ \A y \in S : x =< y
  OBVIOUS
<1>2. Min(S) \in S /\ \A y \in S : Min(S) =< y
  BY <1>1, Zenon DEF Min
<1>3. PICK w \in Int : w = Min(S)
  BY <1>2
<1>4. w =< x /\ x =< w
  BY <1>1, <1>2, <1>3
<1> QED
  BY <1>3, <1>4

(* Zeros finds them, as long as there are not more than it looks for.      *)
LEMMA ZerosSplit ==
  ASSUME NEW n, NEW m, NEW z, Splits(n, m, z), z <= MaxZeros
  PROVE  Zeros(n) = z
<1> DEFINE K == {k \in 0..MaxZeros : n % Ten[k] = 0}
<1>1. m \in Nat /\ z \in Nat /\ m % 10 # 0 /\ n = m * Ten[z] /\ n \in Nat
  BY TenType DEF Splits
<1>2. MaxZeros \in Nat
  BY QuantityAssumption
<1>3. z \in K
  BY <1>1, <1>2, TenType, ExactQuotient
<1>4. ASSUME NEW k \in K, k > z PROVE FALSE
  <2>1. k \in Nat /\ n % Ten[k] = 0 /\ k - (z + 1) \in Nat
    BY <1>1, <1>2, <1>4
  <2> DEFINE j == k - (z + 1)
  <2>2. Ten[k] = (10 * Ten[z]) * Ten[j]
    <3>1. Ten[(z + 1) + j] = Ten[z + 1] * Ten[j]
      BY <1>1, <2>1, TenSum
    <3>2. Ten[z + 1] = 10 * Ten[z] /\ (z + 1) + j = k
      BY <1>1, <2>1, TenLaws
    <3> QED
      BY <3>1, <3>2
  <2> HIDE DEF j
  <2>3. PICK b \in Nat : b = Ten[k] /\ b > 0
    BY <2>1, TenType
  <2>4. PICK q \in Int : n = b * q
    <3>1. PICK i \in Int : i = n /\ i % b = 0
      BY <1>1, <2>1, <2>3
    <3>2. i = b * (i \div b) + (i % b) /\ i \div b \in Int
      BY <2>3, Division
    <3> QED
      BY <3>1, <3>2, <2>3
  <2>5. PICK t \in Nat : t = Ten[z] /\ t > 0
    BY <1>1, TenType
  <2>6. PICK u \in Nat : u = Ten[j]
    BY <2>1, TenType DEF j
  <2>7. m * t = ((10 * t) * u) * q
    BY <1>1, <2>2, <2>3, <2>4, <2>5, <2>6
  <2>8. PICK w \in Int : w = u * q
    OBVIOUS
  <2>9. t * (m - 10 * w) = 0
    <3>1. ((10 * t) * u) * q = (10 * t) * (u * q)
      OBVIOUS
    <3>2. m * t = (10 * t) * w
      BY <2>7, <2>8, <3>1
    <3> QED
      BY <1>1, <3>2
  <2>10. m = 10 * w
    BY <1>1, <2>5, <2>9
  <2> QED
    BY <1>1, <2>10
<1>5. \A k \in K : k <= z
  BY <1>1, <1>2, <1>4
<1>6. K \subseteq Int
  BY <1>2
<1> HIDE DEF K
<1>7. Max(K) = z
  BY <1>3, <1>5, <1>6, MaxIs
<1> QED
  BY <1>7 DEF Zeros, K

(* A number of at most p digits ends in fewer than p zeros.                *)
LEMMA FewZeros ==
  ASSUME NEW n, NEW m, NEW z, Splits(n, m, z), NEW p \in Nat, n < Ten[p]
  PROVE  z < p
<1>1. m \in Nat /\ z \in Nat /\ m > 0 /\ n = m * Ten[z]
  BY DEF Splits
<1>2. Ten[z] \in Nat /\ Ten[p] \in Nat
  BY <1>1, TenType
<1>3. Ten[z] <= m * Ten[z]
  BY <1>1, <1>2
<1> SUFFICES ASSUME p <= z PROVE FALSE
  BY <1>1
<1>4. Ten[p] <= Ten[z]
  BY <1>1, TenGrows
<1> QED
  BY <1>1, <1>2, <1>3, <1>4
-----------------------------------------------------------------------------
(* The column, and the two conversions.                                    *)

LEMMA WellFormedType ==
  ASSUME NEW q \in Amount, WellFormed(q)
  PROVE  /\ q.coef \in Nat /\ q.coef > 0 /\ q.exp \in Int
         /\ q.exp + Scale \in Nat /\ q.exp + MaxPlaces \in Nat /\ MaxPlaces - Scale \in Nat
BY QuantityAssumption DEF WellFormed, Amount, Decimal

(* Whatever way it was written, validation meets a Decimal or no number.   *)
LEMMA ParsedType ==
  ASSUME NEW w \in Written
  PROVE  Parsed(w) \in Amount
BY QuantityAssumption DEF Written, Parsed

(* A string, an integer or a short number: what the schema lets through    *)
(* has the value that was written.                                         *)
LEMMA ParsedKeeps ==
  ASSUME NEW w \in Written, Kept(w), WellFormed(Parsed(w))
  PROVE  Units(Parsed(w)) = Units(w.value)
<1>1. CASE w.form = "float" /\ w.value # NotFinite
  BY <1>1, ReprAssumption DEF Written, Parsed, Kept
<1>2. CASE ~ (w.form = "float" /\ w.value # NotFinite)
  BY <1>2 DEF Parsed
<1> QED
  BY <1>1, <1>2

(* No digit is lost in the column: what the schema lets through has no     *)
(* more places than it.                                                    *)
LEMMA ColumnExact ==
  ASSUME NEW q \in Amount, WellFormed(q)
  PROVE  /\ Column(q) = [coef |-> q.coef * Ten[q.exp + Scale], exp |-> -Scale]
         /\ Units(q) = (q.coef * Ten[q.exp + Scale]) * Ten[MaxPlaces - Scale]
<1>1. /\ q.coef \in Nat /\ q.exp + Scale \in Nat /\ MaxPlaces - Scale \in Nat
      /\ q.exp \in Int /\ MaxPlaces \in Nat /\ Scale \in Nat
  BY WellFormedType, QuantityAssumption
<1>2. PICK c \in Nat : c = q.coef
  BY <1>1
<1>3. PICK s \in Nat : s = Ten[q.exp + Scale]
  BY <1>1, TenType
<1>4. PICK t \in Nat : t = Ten[MaxPlaces - Scale] /\ t > 0
  BY <1>1, TenType
<1>5. Ten[q.exp + MaxPlaces] = s * t
  <2>1. (q.exp + Scale) + (MaxPlaces - Scale) = q.exp + MaxPlaces
    BY <1>1
  <2>2. Ten[(q.exp + Scale) + (MaxPlaces - Scale)] = Ten[q.exp + Scale] * Ten[MaxPlaces - Scale]
    BY <1>1, TenSum
  <2> QED
    BY <2>1, <2>2, <1>3, <1>4
<1>6. PICK n \in Nat : n = c * s
  BY <1>2, <1>3
<1>7. Units(q) = n * t
  <2>1. c * (s * t) = (c * s) * t
    OBVIOUS
  <2> QED
    BY <2>1, <1>2, <1>5, <1>6 DEF Units
<1>8. Rounded(n * t, MaxPlaces - Scale) = n
  <2>1. 2 * (n * t) + t = (2 * t) * n + t /\ 2 * t \in Nat /\ t < 2 * t
    BY <1>4
  <2>2. ((2 * t) * n + t) \div (2 * t) = n
    BY <2>1, Quotient
  <2> QED
    BY <2>1, <2>2, <1>4 DEF Rounded
<1> QED
  BY <1>2, <1>3, <1>4, <1>6, <1>7, <1>8 DEF Column

(* normalize() of a number that needs no rounding: the zeros go to the     *)
(* exponent.                                                               *)
LEMMA NormalizeSplit ==
  ASSUME NEW d, d.coef \in Nat, d.exp \in Int, d.coef < Ten[Precision],
         NEW m, NEW z, Splits(d.coef, m, z)
  PROVE  normalize(d) = [coef |-> m, exp |-> d.exp + z]
<1>0. /\ Precision \in Nat /\ Precision >= 1 /\ Precision <= MaxZeros /\ MaxZeros \in Nat
      /\ MaxPlaces \in Nat /\ ContextPrecision \in Nat /\ Precision <= ContextPrecision
  BY QuantityAssumption
<1>1. m \in Nat /\ z \in Nat /\ d.coef = m * Ten[z]
  BY DEF Splits
<1>2. Zeros(d.coef) = z
  <2>1. z < Precision
    BY <1>0, FewZeros
  <2> QED
    BY <1>0, <1>1, <2>1, ZerosSplit
<1>3. Max({0, Digits(d.coef) - ContextPrecision}) = 0
  <2> DEFINE K == {k \in 1..(MaxPlaces + MaxZeros) : Abs(d.coef) < Ten[k]}
  <2>1. Precision \in K
    BY <1>0 DEF Abs
  <2>2. K \subseteq Nat /\ K \subseteq Int
    BY <1>0
  <2> HIDE DEF K
  <2>3. PICK k \in K : \A y \in K : k <= y
    BY <2>1, <2>2, LeastNumber
  <2>4. Min(K) = k
    BY <2>2, <2>3, MinIs
  <2>5. Digits(d.coef) = k /\ k \in Nat /\ k <= Precision
    BY <2>1, <2>2, <2>3, <2>4 DEF Digits, K
  <2>6. PICK S : S = {0, Digits(d.coef) - ContextPrecision}
    OBVIOUS
  <2>7. S \subseteq Int /\ 0 \in S /\ \A y \in S : y <= 0
    BY <1>0, <2>5, <2>6
  <2>8. Max(S) = 0
    BY <2>7, MaxIs
  <2> QED
    BY <2>6, <2>8
<1>4. d.coef \div Ten[z] = m
  BY <1>1, TenType, ExactQuotient
<1>5. d.exp + 0 + z = d.exp + z
  BY <1>1
<1> QED
  BY <1>2, <1>3, <1>4, <1>5 DEF normalize

\* What format_decimal makes of m followed by e zeros, or with -e places.
Plain(m, e) == IF e >= 0 THEN [digits |-> m * Ten[e], places |-> 0]
                         ELSE [digits |-> m, places |-> -e]

LEMMA FormatSplit ==
  ASSUME NEW d, d.coef \in Nat, d.exp \in Int, d.coef < Ten[Precision],
         NEW m, NEW z, Splits(d.coef, m, z)
  PROVE  format_decimal(d) = Plain(m, d.exp + z)
<1>0. m \in Nat /\ z \in Nat /\ m % 10 # 0
  BY DEF Splits
<1>1. PICK e \in Int : e = d.exp + z
  BY <1>0
<1>2. PICK n : n = normalize(d)
  OBVIOUS
<1>3. n = [coef |-> m, exp |-> e]
  BY <1>1, <1>2, NormalizeSplit
<1>4. n.coef = m /\ n.exp = e
  BY <1>3
<1>5. PlainNotation(n) = Plain(m, e)
  BY <1>4 DEF PlainNotation, Plain
<1>6. CASE e >= 0
  <2>1. Plain(m, e).places = 0
    BY <1>6 DEF Plain
  <2> QED
    BY <1>1, <1>2, <1>5, <2>1 DEF format_decimal
<1>7. CASE e < 0
  <2>1. Plain(m, e) = [digits |-> m, places |-> -e]
    BY <1>7 DEF Plain
  <2>2. PICK text : text = Plain(m, e)
    OBVIOUS
  <2>3. text.digits = m /\ text.places = -e /\ text = [digits |-> m, places |-> -e]
    BY <2>1, <2>2
  <2>4. Zeros(m) = 0
    <3>1. Splits(m, m, 0)
      BY <1>0, TenLaws DEF Splits
    <3> QED
      BY <3>1, ZerosSplit, QuantityAssumption
  <2>5. Min({Zeros(m), -e}) = 0
    <3>1. PICK S : S = {Zeros(m), -e}
      OBVIOUS
    <3>2. S \subseteq Int /\ 0 \in S /\ \A y \in S : 0 <= y
      BY <1>7, <2>4, <3>1
    <3> QED
      BY <3>1, <3>2, MinIs
  <2>6. m \div Ten[0] = m /\ -e - 0 = -e
    BY <1>0, TenLaws
  <2>7. StripZeros(text) = text
    BY <2>3, <2>5, <2>6 DEF StripZeros
  <2> QED
    BY <1>1, <1>2, <1>5, <1>7, <2>2, <2>3, <2>7 DEF format_decimal
<1> QED
  BY <1>6, <1>7

(* One rendering, and what it stands for.  A quantity that the schema lets *)
(* through and the column holds is rendered from the payload as from the   *)
(* column, reads as what was asked for, and ends in no idle zero.          *)
LEMMA RenderingExact ==
  ASSUME NEW q \in Amount, WellFormed(q), ~ Overflows(q)
  PROVE  /\ format_decimal(Column(q)) = format_decimal(q)
         /\ format_decimal(q) \in Numeral
         /\ Reading(format_decimal(q)) = Units(q)
         /\ format_decimal(q).places > 0 => format_decimal(q).digits % 10 # 0
<1>0. /\ q.coef \in Nat /\ q.coef > 0 /\ q.exp \in Int
      /\ q.exp + Scale \in Nat /\ q.exp + MaxPlaces \in Nat
      /\ Scale \in Nat /\ MaxPlaces \in Nat /\ Scale <= MaxPlaces /\ Precision \in Nat
  BY WellFormedType, QuantityAssumption
<1>1. PICK m, z : Splits(q.coef, m, z)
  BY <1>0, SplitExists
<1>2. m \in Nat /\ z \in Nat /\ m % 10 # 0 /\ q.coef = m * Ten[z]
  BY <1>1 DEF Splits
<1>3. PICK s \in Nat : s = Ten[q.exp + Scale] /\ s > 0
  BY <1>0, TenType
<1>4. PICK c : c = Column(q)
  OBVIOUS
<1>5. c.coef = q.coef * s /\ c.exp = -Scale
  BY <1>3, <1>4, ColumnExact
<1>6. c.coef < Ten[Precision] /\ q.coef < Ten[Precision] /\ c.coef \in Nat
  <2>1. c.coef \in Nat /\ Ten[Precision] \in Nat
    BY <1>0, <1>3, <1>5, TenType
  <2>2. c.coef < Ten[Precision]
    BY <1>4, <2>1 DEF Overflows
  <2>3. PICK a \in Nat : a = q.coef
    BY <1>0
  <2>4. a <= a * s
    BY <1>3
  <2>5. PICK b \in Nat : b = Ten[Precision]
    BY <2>1
  <2>6. a * s < b
    BY <1>5, <2>2, <2>3, <2>5
  <2>7. a < b
    BY <2>4, <2>6
  <2> QED
    BY <2>1, <2>2, <2>3, <2>5, <2>7
<1>7. PICK y \in Nat : y = z + (q.exp + Scale)
  BY <1>0, <1>2
<1>8. Splits(c.coef, m, y)
  <2>1. Ten[y] = Ten[z] * Ten[q.exp + Scale]
    BY <1>0, <1>2, <1>7, TenSum
  <2>2. PICK t \in Nat : t = Ten[z]
    BY <1>2, TenType
  <2>3. (m * t) * s = m * (t * s)
    BY <1>2
  <2>4. c.coef = m * Ten[y]
    BY <1>2, <1>3, <1>5, <2>1, <2>2, <2>3
  <2> QED
    BY <1>2, <1>7, <2>4 DEF Splits
<1>9. PICK e \in Int : e = q.exp + z /\ e >= -Scale
  BY <1>0, <1>2
<1>10. format_decimal(q) = Plain(m, e)
  BY <1>0, <1>1, <1>6, <1>9, FormatSplit
<1>11. format_decimal(Column(q)) = Plain(m, e)
  <2>1. c.exp + y = e /\ c.exp \in Int
    BY <1>0, <1>2, <1>5, <1>7, <1>9
  <2> QED
    BY <1>4, <1>6, <1>8, <2>1, FormatSplit
<1>12. Units(q) = m * Ten[e + MaxPlaces]
  <2>1. z + (q.exp + MaxPlaces) = e + MaxPlaces
    BY <1>0, <1>2, <1>9
  <2>2. Ten[z + (q.exp + MaxPlaces)] = Ten[z] * Ten[q.exp + MaxPlaces]
    BY <1>0, <1>2, TenSum
  <2>3. PICK t \in Nat : t = Ten[z]
    BY <1>2, TenType
  <2>4. PICK u \in Nat : u = Ten[q.exp + MaxPlaces]
    BY <1>0, TenType
  <2>5. (m * t) * u = m * (t * u)
    BY <1>2
  <2> QED
    BY <1>2, <2>1, <2>2, <2>3, <2>4, <2>5 DEF Units
<1>13. CASE e >= 0
  <2>1. PICK t \in Nat : t = Ten[e]
    BY <1>13, TenType
  <2>2. Plain(m, e) = [digits |-> m * t, places |-> 0] /\ m * t \in Nat
    BY <1>2, <1>13, <2>1 DEF Plain
  <2>3. PICK u \in Nat : u = Ten[MaxPlaces]
    BY <1>0, TenType
  <2>4. Ten[e + MaxPlaces] = t * u
    BY <1>0, <1>13, <2>1, <2>3, TenSum
  <2>5. (m * t) * u = m * (t * u) /\ MaxPlaces - 0 = MaxPlaces
    BY <1>0, <1>2
  <2>6. PICK n : n = Plain(m, e)
    OBVIOUS
  <2>7. n.digits = m * t /\ n.places = 0 /\ n \in Numeral
    BY <2>2, <2>6 DEF Numeral
  <2>8. Reading(n) = m * Ten[e + MaxPlaces]
    BY <2>3, <2>4, <2>5, <2>7 DEF Reading
  <2> QED
    BY <1>10, <1>11, <1>12, <2>6, <2>7, <2>8
<1>14. CASE e < 0
  <2>1. PICK n : n = Plain(m, e)
    OBVIOUS
  <2>2. n = [digits |-> m, places |-> -e] /\ -e \in Nat
    BY <1>14, <2>1 DEF Plain
  <2>3. n.digits = m /\ n.places = -e /\ n \in Numeral
    BY <1>2, <2>2 DEF Numeral
  <2>4. MaxPlaces - (-e) = e + MaxPlaces
    BY <1>0
  <2>5. Reading(n) = m * Ten[e + MaxPlaces]
    BY <2>3, <2>4 DEF Reading
  <2> QED
    BY <1>2, <1>10, <1>11, <1>12, <2>1, <2>3, <2>5
<1> QED
  BY <1>0, <1>13, <1>14
-----------------------------------------------------------------------------
(* The inductive invariant.                                                *)

\* What passed the schema, the secret and the limits.
Checked ==
  WellFormed(Parsed(body.quantity)) /\ Authentic(body) /\ validate_signal(body)

\* A stored quantity is the asked one, in the column; one refused by the
\* column was too large for it.
StoredAsAsked ==
  /\ outcome = "accepted" =>
       Checked /\ ~ Overflows(Parsed(body.quantity)) /\ stored = Column(Parsed(body.quantity))
  /\ outcome = "out_of_range" => Checked /\ Overflows(Parsed(body.quantity))

\* Whatever was shown is the rendering of the payload.
Shown(n) == n # None => outcome = "accepted" /\ n = format_decimal(Parsed(body.quantity))

QuantityInv ==
  /\ QuantityTypeOK
  /\ StoredAsAsked
  /\ Shown(replied) /\ Shown(sent) /\ Shown(listed)

(* An answer that stores nothing, and leaves everything else as it is.     *)
LEMMA RefusedKeeps ==
  ASSUME QuantityInv, NEW reason \in Outcome \ {"waiting", "accepted"},
         Answered(reason, None), UNCHANGED replied,
         reason = "out_of_range" => Checked /\ Overflows(Parsed(body.quantity))
  PROVE  QuantityInv'
<1>1. /\ outcome = "waiting" /\ outcome' = reason /\ stored' = None
      /\ UNCHANGED <<setting, body, replied, sent, listed>>
  BY DEF Answered
<1>2. replied = None /\ sent = None /\ listed = None
  BY <1>1 DEF QuantityInv, Shown
<1>3. QuantityTypeOK'
  BY <1>1, <1>2 DEF QuantityInv, QuantityTypeOK, Outcome
<1>4. StoredAsAsked'
  BY <1>1 DEF StoredAsAsked, Checked, validate_signal
<1>5. Shown(replied)' /\ Shown(sent)' /\ Shown(listed)'
  BY <1>1, <1>2 DEF Shown
<1> QED
  BY <1>3, <1>4, <1>5 DEF QuantityInv

LEMMA AcceptedKeeps ==
  ASSUME QuantityInv, Checked, ~ Overflows(Parsed(body.quantity)),
         Answered("accepted", Column(Parsed(body.quantity))), UNCHANGED replied
  PROVE  QuantityInv'
<1>1. /\ outcome = "waiting" /\ outcome' = "accepted" /\ stored' = Column(Parsed(body.quantity))
      /\ UNCHANGED <<setting, body, replied, sent, listed>>
  BY DEF Answered
<1>2. replied = None /\ sent = None /\ listed = None
  BY <1>1 DEF QuantityInv, Shown
<1>3. Column(Parsed(body.quantity)) \in Decimal /\ Column(Parsed(body.quantity)) # None
  <2>1. Parsed(body.quantity) \in Amount /\ WellFormed(Parsed(body.quantity))
    BY ParsedType DEF QuantityInv, QuantityTypeOK, Payload, Checked
  <2>2. PICK q \in Amount : q = Parsed(body.quantity) /\ WellFormed(q)
    BY <2>1
  <2>3. q.coef * Ten[q.exp + Scale] \in Int /\ -Scale \in Int
    BY <2>2, WellFormedType, TenType, QuantityAssumption
  <2>4. Column(q) \in Decimal
    BY <2>2, <2>3, ColumnExact DEF Decimal
  <2> QED
    BY <2>2, <2>4, QuantityAssumption
<1>4. QuantityTypeOK'
  BY <1>1, <1>2, <1>3 DEF QuantityInv, QuantityTypeOK, Outcome
<1>5. StoredAsAsked'
  BY <1>1 DEF StoredAsAsked, Checked, validate_signal
<1>6. Shown(replied)' /\ Shown(sent)' /\ Shown(listed)'
  BY <1>1, <1>2 DEF Shown
<1> QED
  BY <1>4, <1>5, <1>6 DEF QuantityInv

\* A step that only shows the quantity once more.
Shows(new, old) == new = old \/ new = format_decimal(Parsed(body.quantity))

LEMMA ShownKeeps ==
  ASSUME QuantityInv, UNCHANGED <<setting, body, outcome, stored>>, outcome = "accepted",
         Shows(replied', replied), Shows(sent', sent), Shows(listed', listed)
  PROVE  QuantityInv'
<1>1. format_decimal(Parsed(body.quantity)) \in Numeral
  <2>1. Parsed(body.quantity) \in Amount /\ WellFormed(Parsed(body.quantity)) /\ ~ Overflows(Parsed(body.quantity))
    BY ParsedType DEF QuantityInv, QuantityTypeOK, Payload, StoredAsAsked, Checked
  <2> QED
    BY <2>1, RenderingExact
<1>2. QuantityTypeOK'
  <2>1. \A n \in {replied, sent, listed}' : n \in Numeral \cup {None}
    BY <1>1 DEF QuantityInv, QuantityTypeOK, Shows
  <2>2. stored # None
    BY DEF QuantityInv, QuantityTypeOK
  <2> QED
    BY <2>1, <2>2 DEF QuantityInv, QuantityTypeOK
<1>3. StoredAsAsked'
  BY DEF QuantityInv, StoredAsAsked, Checked, validate_signal
<1>4. Shown(replied)' /\ Shown(sent)' /\ Shown(listed)'
  BY DEF QuantityInv, Shown, Shows
<1> QED
  BY <1>2, <1>3, <1>4 DEF QuantityInv

(* The invariant holds at the start and every step of the way keeps it.    *)
THEOREM QuantityInductive == QuantitySpec => []QuantityInv
<1>1. QuantityInit => QuantityInv
  <2> SUFFICES ASSUME QuantityInit PROVE QuantityInv
    OBVIOUS
  <2>1. QuantityTypeOK
    BY DEF QuantityInit, QuantityTypeOK, Outcome
  <2> QED
    BY <2>1 DEF QuantityInit, QuantityInv, StoredAsAsked, Shown
<1>2. QuantityInv /\ [QuantityNext]_quantityVars => QuantityInv'
  <2> SUFFICES ASSUME QuantityInv, [QuantityNext]_quantityVars PROVE QuantityInv'
    OBVIOUS
  <2>1. CASE schema_rejects
    BY <2>1, RefusedKeeps DEF schema_rejects, Outcome
  <2>2. CASE _authenticate_webhook
    BY <2>2, RefusedKeeps DEF _authenticate_webhook, Outcome
  <2>3. CASE limits_reject
    BY <2>3, RefusedKeeps DEF limits_reject, Outcome
  <2>4. CASE _create_pending_trade
    <3>1. Checked /\ UNCHANGED replied
      BY <2>4 DEF _create_pending_trade, Checked
    <3>2. CASE Overflows(Parsed(body.quantity))
      BY <2>4, <3>1, <3>2, RefusedKeeps DEF _create_pending_trade, Outcome
    <3>3. CASE ~ Overflows(Parsed(body.quantity))
      BY <2>4, <3>1, <3>3, AcceptedKeeps DEF _create_pending_trade
    <3> QED
      BY <3>2, <3>3
  <2>5. outcome = "accepted" => format_decimal(stored) = format_decimal(Parsed(body.quantity))
    <3>1. SUFFICES ASSUME outcome = "accepted"
                   PROVE  format_decimal(stored) = format_decimal(Parsed(body.quantity))
      OBVIOUS
    <3>2. /\ Parsed(body.quantity) \in Amount /\ WellFormed(Parsed(body.quantity))
          /\ ~ Overflows(Parsed(body.quantity)) /\ stored = Column(Parsed(body.quantity))
      BY <3>1, ParsedType DEF QuantityInv, QuantityTypeOK, Payload, StoredAsAsked, Checked
    <3> QED
      BY <3>2, RenderingExact
  <2>6. CASE reply
    <3>1. replied' = format_decimal(Parsed(body.quantity))
      BY <2>5, <2>6 DEF reply
    <3> QED
      BY <2>6, <3>1, ShownKeeps DEF reply, Shows
  <2>7. CASE place_market_order
    BY <2>5, <2>7, ShownKeeps DEF place_market_order, Shows
  <2>8. CASE list_trades
    BY <2>5, <2>8, ShownKeeps DEF list_trades, Shows
  <2>9. CASE UNCHANGED quantityVars
    BY <2>9 DEF quantityVars, QuantityInv, QuantityTypeOK, StoredAsAsked, Shown, Checked,
      validate_signal
  <2> QED
    BY <2>1, <2>2, <2>3, <2>4, <2>6, <2>7, <2>8, <2>9 DEF QuantityNext
<1> QED
  BY <1>1, <1>2, PTL DEF QuantitySpec

(* The state has its types, for every set of quantities and limits.        *)
THEOREM QuantityTypeCorrect == QuantitySpec => []QuantityTypeOK
<1>1. QuantityInv => QuantityTypeOK
  BY DEF QuantityInv
<1> QED
  BY <1>1, QuantityInductive, PTL

(* The order asks for exactly the quantity of the payload, within the      *)
(* limits, for every column no wider than the decimal context, and that is *)
(* the number written in the body unless it came as a JSON number with     *)
(* more digits than a float keeps.                                         *)
THEOREM OrderIsAsAsked == QuantitySpec => []SentAsAsked
<1>1. QuantityInv => SentAsAsked
  <2> SUFFICES ASSUME QuantityInv, sent # None PROVE SentAsAsked
    BY DEF SentAsAsked
  <2>1. outcome = "accepted" /\ sent = format_decimal(Parsed(body.quantity))
    BY DEF QuantityInv, Shown
  <2>2. PICK q \in Amount : q = Parsed(body.quantity) /\ WellFormed(q) /\ ~ Overflows(q)
    BY <2>1, ParsedType DEF QuantityInv, QuantityTypeOK, Payload, StoredAsAsked, Checked
  <2>3. Reading(sent) = Units(q)
    BY <2>1, <2>2, RenderingExact
  <2>4. Units(setting.minimum) <= Units(q) /\ Units(q) <= Units(setting.maximum)
    BY <2>1, <2>2 DEF QuantityInv, StoredAsAsked, Checked, validate_signal
  <2>5. Units(q) \in Int /\ Units(setting.minimum) \in Int /\ Units(setting.maximum) \in Int
    <3>1. q.coef \in Int /\ q.exp + MaxPlaces \in Nat
      BY <2>2, WellFormedType
    <3>2. setting \in Limits
      BY DEF QuantityInv, QuantityTypeOK
    <3>3. /\ setting.minimum.coef \in Int /\ setting.minimum.exp + MaxPlaces \in Nat
          /\ setting.maximum.coef \in Int /\ setting.maximum.exp + MaxPlaces \in Nat
      BY <3>2, QuantityAssumption DEF Decimal
    <3> QED
      BY <3>1, <3>3, TenType DEF Units
  <2>6. Kept(body.quantity) => Units(q) = Units(body.quantity.value)
    BY <2>2, ParsedKeeps DEF QuantityInv, QuantityTypeOK, Payload
  <2> QED
    BY <2>2, <2>3, <2>4, <2>5, <2>6 DEF SentAsAsked
<1> QED
  BY <1>1, QuantityInductive, PTL

(* One quantity has one rendering, with no digit that could be left out.   *)
THEOREM RenderingIsOne == QuantitySpec => []OneRendering
<1>1. QuantityInv => OneRendering
  <2> SUFFICES ASSUME QuantityInv PROVE OneRendering
    OBVIOUS
  <2>1. \A n \in {replied, sent, listed} \ {None} :
          outcome = "accepted" /\ n = format_decimal(Parsed(body.quantity))
    BY DEF QuantityInv, Shown
  <2>2. outcome = "accepted" =>
          /\ Parsed(body.quantity) \in Amount
          /\ WellFormed(Parsed(body.quantity)) /\ ~ Overflows(Parsed(body.quantity))
    BY ParsedType DEF QuantityInv, QuantityTypeOK, Payload, StoredAsAsked, Checked
  <2>3. \A n \in {replied, sent, listed} \ {None} : n.places > 0 => n.digits % 10 # 0
    BY <2>1, <2>2, RenderingExact
  <2> QED
    BY <2>1, <2>3 DEF OneRendering
<1> QED
  BY <1>1, QuantityInductive, PTL

(* A checked signal fails to be stored only if the configured maximum is   *)
(* more than the column can hold.                                          *)
THEOREM AcceptedAlwaysFits == QuantitySpec => []AcceptedFits
<1>1. QuantityInv => AcceptedFits
  <2> SUFFICES ASSUME QuantityInv, outcome = "out_of_range"
               PROVE  Units(setting.maximum) >= Ten[Precision - Scale + MaxPlaces]
    BY DEF AcceptedFits
  <2>1. PICK q \in Amount : q = Parsed(body.quantity) /\ WellFormed(q) /\ Overflows(q)
    BY ParsedType DEF QuantityInv, QuantityTypeOK, Payload, StoredAsAsked, Checked
  <2>2. Units(q) <= Units(setting.maximum)
    BY <2>1 DEF QuantityInv, StoredAsAsked, Checked, validate_signal
  <2>3. /\ q.coef \in Nat /\ q.exp + Scale \in Nat /\ MaxPlaces - Scale \in Nat
        /\ Precision \in Nat /\ Scale \in Nat /\ MaxPlaces \in Nat
    BY <2>1, WellFormedType, QuantityAssumption
  <2>4. PICK n \in Nat : n = q.coef * Ten[q.exp + Scale]
    BY <2>3, TenType
  <2>5. PICK t \in Nat : t = Ten[MaxPlaces - Scale]
    BY <2>3, TenType
  <2>6. PICK p \in Nat : p = Ten[Precision]
    BY <2>3, TenType
  <2>7. Units(q) = n * t /\ n >= p
    BY <2>1, <2>4, <2>5, <2>6, ColumnExact DEF Overflows
  <2>8. Ten[Precision - Scale + MaxPlaces] = p * t
    <3>1. Precision + (MaxPlaces - Scale) = Precision - Scale + MaxPlaces
      BY <2>3
    <3>2. Ten[Precision + (MaxPlaces - Scale)] = p * t
      BY <2>3, <2>5, <2>6, TenSum
    <3> QED
      BY <3>1, <3>2
  <2>9. n * t >= p * t
    BY <2>7
  <2>10. Units(setting.maximum) \in Int
    <3>1. setting \in Limits
      BY DEF QuantityInv, QuantityTypeOK
    <3>2. setting.maximum.coef \in Int /\ setting.maximum.exp + MaxPlaces \in Nat
      BY <3>1, QuantityAssumption DEF Decimal
    <3> QED
      BY <3>2, TenType DEF Units
  <2>11. PICK u \in Int : u = Units(setting.maximum)
    BY <2>10
  <2>12. n * t <= u
    BY <2>2, <2>7, <2>11
  <2>13. u >= p * t
    BY <2>9, <2>12
  <2> QED
    BY <2>8, <2>11, <2>13
<1> QED
  BY <1>1, QuantityInductive, PTL
=============================================================================
