--------------------------- MODULE OrderQuantity ---------------------------
(***************************************************************************)
(* What happens to the quantity of a signal between the JSON body and the  *)
(* order: the parser, schema validation, the shared secret, this           *)
(* deployment's limits, the NUMERIC column, and the rendering that the API *)
(* and the Binance client share.                                           *)
(*                                                                         *)
(* A Decimal is a coefficient and an exponent, as in Python: 1.50 is not   *)
(* the same object as 1.5, though equal to it.  A rendered number is a     *)
(* numeral: the digits read as one integer, and how many of them follow    *)
(* the point.  The sizes of the column and of the decimal context are      *)
(* parameters; the code has NUMERIC(28, 12) and 28 digits.                 *)
(*                                                                         *)
(* A body may write the quantity as a string, as an integer or as a number *)
(* with a point or an exponent.  The parser makes a float of the last, and *)
(* the Decimal is made of what repr shows of the float.  A float appears   *)
(* here as that numeral, and the way through it as the operator Repr.      *)
(***************************************************************************)
EXTENDS Integers, FiniteSetsExt

CONSTANTS
  Quantities,        \* Decimals a body may write
  Repr(_),           \* repr(float(d)), read as a Decimal
  FloatDigits,       \* digits that survive a float: 15 for a double
  Symbols,           \* trading pairs of the right shape
  AllowedSymbols,
  Limits,            \* pairs [minimum, maximum] of finite floats: configurations
  Precision, Scale,  \* NUMERIC(Precision, Scale)
  ContextPrecision,  \* digits normalize() keeps
  MaxPlaces,         \* bound: no Decimal here has more places
  MaxZeros,          \* bound: nor more zeros to strip
  NotFinite,         \* NaN and the infinities
  None

Decimal == [coef : Int, exp : Int]

\* A number as it is written out.
Numeral == [digits : Nat, places : Nat]

\* What validation may meet.
Amount == {d \in Decimal : d.exp >= -MaxPlaces} \cup {NotFinite}

ASSUME QuantityAssumption ==
  /\ \A q \in Quantities : q \in Amount
  /\ \A q \in Quantities \ {NotFinite} : Repr(q) \in Amount
  /\ \A l \in Limits :
       /\ l.minimum \in Decimal /\ l.minimum.coef > 0 /\ l.minimum.exp >= -MaxPlaces
       /\ l.maximum \in Decimal /\ l.maximum.coef > 0 /\ l.maximum.exp >= -MaxPlaces
  /\ MaxPlaces \in Nat /\ MaxZeros \in Nat /\ ContextPrecision \in Nat /\ FloatDigits \in Nat
  /\ Precision \in 1..MaxZeros /\ Precision <= ContextPrecision
  /\ Scale \in 0..Precision /\ Scale <= MaxPlaces
  /\ NotFinite \notin Decimal /\ None \notin Decimal \cup Numeral
-----------------------------------------------------------------------------
(* Decimals                                                                *)

\* The powers of ten.
Ten[k \in Nat] == IF k = 0 THEN 1 ELSE 10 * Ten[k - 1]

\* The value, in units of the MaxPlaces-th place.
Units(d) == d.coef * Ten[d.exp + MaxPlaces]

Abs(n) == IF n < 0 THEN -n ELSE n

Digits(n) == Min({k \in 1..(MaxPlaces + MaxZeros) : Abs(n) < Ten[k]})

\* The zeros at the end of n: how often ten divides it.
Zeros(n) == Max({k \in 0..MaxZeros : n % Ten[k] = 0})

\* n / 10^k, halves away from zero, as PostgreSQL rounds; n is positive.
Rounded(n, k) == (2 * n + Ten[k]) \div (2 * Ten[k])

\* The same with halves to even, as the decimal context rounds.
HalfEven(n, k) ==
  LET up == Rounded(n, k)
  IN IF (2 * n + Ten[k]) % (2 * Ten[k]) = 0 /\ up % 2 = 1 THEN up - 1 ELSE up

\* Decimal.normalize(): rounded to the context, then without its zeros.
normalize(d) ==
  LET excess == Max({0, Digits(d.coef) - ContextPrecision})
      coef   == IF excess = 0 THEN d.coef ELSE HalfEven(d.coef, excess)
      zeros  == Zeros(coef)
  IN [coef |-> coef \div Ten[zeros], exp |-> d.exp + excess + zeros]

\* Mutant: str(d), in which a positive exponent stays one.
PlainNotation_Scientific(d) == [digits |-> d.coef, places |-> -d.exp]

\* format(d, "f")
PlainNotation(d) ==
  IF d.exp >= 0 THEN [digits |-> d.coef * Ten[d.exp], places |-> 0]
                ELSE [digits |-> d.coef, places |-> -d.exp]

\* rstrip("0")
StripZeros(text) ==
  LET zeros == Min({Zeros(text.digits), text.places})
  IN [digits |-> text.digits \div Ten[zeros], places |-> text.places - zeros]

\* Mutant: zeros go, whether or not there is a point before them.
format_decimal_AnyZeros(d) ==
  LET text  == PlainNotation(normalize(d))
      zeros == Zeros(text.digits)
  IN [ digits |-> text.digits \div Ten[zeros],
       places |-> Max({0, text.places - zeros}) ]

\* Mutant: the padding of the column shows.
format_decimal_Padded(d) == PlainNotation(d)

format_decimal(d) ==
  LET text == PlainNotation(normalize(d))
  IN IF text.places > 0 THEN StripZeros(text) ELSE text

\* What NUMERIC(Precision, Scale) makes of a value: rounded and padded.
Column(d) == [coef |-> Rounded(Units(d), MaxPlaces - Scale), exp |-> -Scale]

Overflows(d) == Column(d).coef >= Ten[Precision]
-----------------------------------------------------------------------------
VARIABLES
  setting,  \* MIN_ORDER_QUANTITY and MAX_ORDER_QUANTITY
  body,     \* the payload of the signal
  outcome,  \* how the webhook answered
  replied,  \* the quantity in its answer, a numeral
  stored,   \* trades.quantity
  sent,     \* the quantity parameter of the order
  listed    \* the quantity GET /trades shows

quantityVars == <<setting, body, outcome, replied, stored, sent, listed>>

Secrets == {"right", "wrong", "missing"}

\* JSON: "0.10", 5, 0.10 or 1e-1.
Written ==
  { w \in [form : {"string", "integer", "float"}, value : Quantities] :
      w.form = "integer" => w.value # NotFinite /\ w.value.exp = 0 }

Payload == [ quantity : Written, symbol : Symbols, header : Secrets, secret : Secrets ]

Outcome == { "waiting", "malformed", "unauthorised", "invalid", "out_of_range", "accepted" }

QuantityTypeOK ==
  /\ setting \in Limits
  /\ body \in Payload
  /\ outcome \in Outcome
  /\ stored \in Decimal \cup {None}
  /\ \A n \in {replied, sent, listed} : n \in Numeral \cup {None}
  /\ stored # None <=> outcome = "accepted"
  /\ sent # None => stored # None

QuantityInit ==
  /\ setting \in Limits
  /\ body \in Payload
  /\ outcome = "waiting"
  /\ replied = None /\ stored = None /\ sent = None /\ listed = None
-----------------------------------------------------------------------------
\* Mutant: the field is declared a float.
Parsed_AlwaysFloat(w) == IF w.value # NotFinite THEN Repr(w.value) ELSE NotFinite

\* The payload's quantity, a Decimal.
Parsed(w) == IF w.form = "float" /\ w.value # NotFinite THEN Repr(w.value) ELSE w.value

\* Mutant: decimal places are not looked at.
WellFormed_AnyPlaces(q) == q # NotFinite /\ q.coef > 0

\* The schema.  The places of the Decimal count, be they zeros: those written
\* in a string, those repr shows of a float.
WellFormed(q) == q # NotFinite /\ q.coef > 0 /\ -q.exp <= Scale

\* Few digits, whatever zeros follow them.
Short(d) ==
  \E k \in 0..MaxZeros : d.coef % Ten[k] = 0 /\ Abs(d.coef) < Ten[FloatDigits + k]

(* A short numeral that is still a quantity behind the float is unchanged. *)
(* Others may come back as a neighbour; out of range, as zero or infinity. *)
ASSUME ReprAssumption ==
  \A q \in Quantities \ {NotFinite} :
    Short(q) /\ WellFormed(Repr(q)) => Units(Repr(q)) = Units(q)

\* Header or body, either will do.
Authentic(b) == b.header = "right" \/ b.secret = "right"

\* Mutant: the coefficients are compared, whatever the exponents.
validate_signal_ByCoefficient(b) ==
  /\ b.symbol \in AllowedSymbols
  /\ setting.minimum.coef <= Parsed(b.quantity).coef
  /\ Parsed(b.quantity).coef <= setting.maximum.coef

validate_signal(b) ==
  /\ b.symbol \in AllowedSymbols
  /\ Units(setting.minimum) <= Units(Parsed(b.quantity))
  /\ Units(Parsed(b.quantity)) <= Units(setting.maximum)

Answered(reply, column) ==
  /\ outcome = "waiting"
  /\ outcome' = reply
  /\ stored' = column
  /\ UNCHANGED <<setting, body, sent, listed>>

\* 422 before anything else is looked at.
schema_rejects ==
  /\ ~WellFormed(Parsed(body.quantity))
  /\ Answered("malformed", None)
  /\ UNCHANGED replied

_authenticate_webhook ==
  /\ WellFormed(Parsed(body.quantity))
  /\ ~Authentic(body)
  /\ Answered("unauthorised", None)
  /\ UNCHANGED replied

limits_reject ==
  /\ WellFormed(Parsed(body.quantity)) /\ Authentic(body)
  /\ ~validate_signal(body)
  /\ Answered("invalid", None)
  /\ UNCHANGED replied

\* The INSERT.  A value the column cannot hold is an error of the database.
_create_pending_trade ==
  /\ WellFormed(Parsed(body.quantity)) /\ Authentic(body) /\ validate_signal(body)
  /\ IF Overflows(Parsed(body.quantity))
       THEN Answered("out_of_range", None)
       ELSE Answered("accepted", Column(Parsed(body.quantity)))
  /\ UNCHANGED replied

\* Queued, the answer shows the object as the payload filled it, whatever a
\* worker does meanwhile; sent within the request, the object has been read
\* again from the table.
reply ==
  /\ outcome = "accepted" /\ replied = None
  /\ \E shown \in {Parsed(body.quantity)} \cup (IF sent = None THEN {} ELSE {stored}) :
       replied' = format_decimal(shown)
  /\ UNCHANGED <<setting, body, outcome, stored, sent, listed>>

\* The claim reads the row again, and the order is made of that.
place_market_order ==
  /\ outcome = "accepted" /\ sent = None
  /\ sent' = format_decimal(stored)
  /\ UNCHANGED <<setting, body, outcome, replied, stored, listed>>

list_trades ==
  /\ outcome = "accepted"
  /\ listed' = format_decimal(stored)
  /\ UNCHANGED <<setting, body, outcome, replied, stored, sent>>

QuantityNext ==
  \/ schema_rejects \/ _authenticate_webhook \/ limits_reject \/ _create_pending_trade
  \/ reply \/ place_market_order \/ list_trades

QuantitySpec == QuantityInit /\ [][QuantityNext]_quantityVars
-----------------------------------------------------------------------------
(* Properties                                                              *)

\* The value a numeral stands for.
Reading(n) == n.digits * Ten[MaxPlaces - n.places]

\* Not a JSON number with more digits than a float keeps.
Kept(w) == w.form = "float" => Short(w.value)

(* What the exchange is asked for is exactly the payload's quantity,       *)
(* within this deployment's limits, after every conversion on the way: no  *)
(* digit is rounded off and no zero too many is stripped.  And that is the *)
(* number written in the body, unless a float stood between and the number *)
(* had more digits than a float keeps.                                     *)
SentAsAsked ==
  sent # None =>
    /\ Reading(sent) = Units(Parsed(body.quantity))
    /\ Kept(body.quantity) => Reading(sent) = Units(body.quantity.value)
    /\ Reading(sent) \in Units(setting.minimum)..Units(setting.maximum)

(* One quantity has one rendering: the webhook's answer, made from the     *)
(* payload, the order and every later answer, made from the padded column, *)
(* show the same digits, and none that a reader could leave out.           *)
OneRendering ==
  LET shown == {replied, sent, listed} \ {None}
  IN /\ \A m, n \in shown : m = n
     /\ \A n \in shown : n.places > 0 => n.digits % 10 # 0

(* A signal that passed every check is stored.  It can only be too large   *)
(* for the column if the configured maximum is.                            *)
AcceptedFits ==
  outcome = "out_of_range" => Units(setting.maximum) >= Ten[Precision - Scale + MaxPlaces]
=============================================================================
