------------------------------ MODULE FixedPoint ------------------------------
(***************************************************************************)
(* Prices and sizes as scaled integers, their decimal texts and their two  *)
(* serializations (pb-types/src/fixed.rs), and the one converter of the    *)
(* venue's timestamps (pb-types/src/time.rs).                              *)
(*                                                                         *)
(* A text is Malformed (a sign, an exponent, any other character) or       *)
(* digits around a point: [digits, int] before it and [places, frac] after *)
(* it, as numbers of digits and the values they spell.                     *)
(***************************************************************************)
EXTENDS Integers

CONSTANTS
    MaxU64, MaxU128,  \* the largest values of the machine's integers
    Malformed,
    Invalid           \* in place of the result of a conversion that fails

PRICE_SCALE == 10000
SIZE_SCALE == 1000000

Texts == [digits : Nat, int : Nat, places : Nat, frac : Nat]

\* How wide the integers are is left open.
Machine ==
    /\ MaxU64 \in Nat /\ MaxU128 \in Nat
    /\ PRICE_SCALE <= MaxU64 /\ MaxU64 <= MaxU128
    /\ Invalid \notin Nat /\ Malformed \notin Texts

Prices == 0 .. PRICE_SCALE
Sizes == 0 .. MaxU64

Pow10(n) == << 1, 10, 100, 1000, 10000, 100000, 1000000 >>[n + 1]

\* More than six places are told apart by their number alone.
WellSpelled(t) ==
    /\ t \in Texts
    /\ t.digits = 0 => t.int = 0
    /\ t.places <= 6 => t.frac < Pow10(t.places)

\* parse_scaled_decimal: exact, in checked u128 arithmetic.
ParseScaledDecimal(t, decimals) ==
    LET scaled == t.int * Pow10(decimals) + t.frac * Pow10(decimals - t.places)
    IN  IF t = Malformed THEN Invalid
        ELSE IF t.digits = 0 /\ t.places = 0 THEN Invalid
        ELSE IF t.places > decimals THEN Invalid
        ELSE IF scaled > MaxU128 THEN Invalid
        ELSE scaled

\* FixedPrice::new.
NewPrice(raw) == IF raw > PRICE_SCALE THEN Invalid ELSE raw

\* TryFrom<&str> of FixedPrice and of FixedSize.
ParsePrice(t) ==
    LET raw == ParseScaledDecimal(t, 4)
    IN  IF raw = Invalid THEN Invalid ELSE NewPrice(raw)

ParseSize(t) ==
    LET raw == ParseScaledDecimal(t, 6)
    IN  IF raw = Invalid THEN Invalid ELSE IF raw > MaxU64 THEN Invalid ELSE raw

\* Display: all the places, and at least one digit before the point.
Spell(raw, places, digits) ==
    [digits |-> digits, int |-> raw \div Pow10(places),
     places |-> places, frac |-> raw % Pow10(places)]

DisplayPrice(p) == Spell(p, 4, 1)

\* The digits of the whole part: none of them matters to a reader but the first.
DisplaySize(s) == Spell(s, 6, 1)

\* serde: the text in JSON, the scaled integer in the WAL's binary format.
SerializePrice(p, readable) == IF readable THEN DisplayPrice(p) ELSE p
SerializeSize(s, readable) == IF readable THEN DisplaySize(s) ELSE s
DeserializePrice(v, readable) == IF readable THEN ParsePrice(v) ELSE NewPrice(v)
DeserializeSize(v, readable) == IF readable THEN ParseSize(v) ELSE v

(***************************************************************************)
(* normalize_to_micros: the unit is told by the magnitude.                 *)
(***************************************************************************)
MS_THRESHOLD == 1000000 * 1000000
US_THRESHOLD == 1000 * MS_THRESHOLD
NS_THRESHOLD == 1000 * US_THRESHOLD

SaturatingMul(x, y) == IF x * y > MaxU64 THEN MaxU64 ELSE x * y

NormalizeToMicros(raw) ==
    IF raw = 0 THEN 0
    ELSE IF raw < MS_THRESHOLD THEN SaturatingMul(raw, 1000000)
    ELSE IF raw < US_THRESHOLD THEN SaturatingMul(raw, 1000)
    ELSE IF raw < NS_THRESHOLD THEN raw
    ELSE raw \div 1000
===============================================================================
