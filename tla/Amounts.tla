-------------------------------- MODULE Amounts --------------------------------
(***************************************************************************)
(* From the amount a developer writes to the integer that is paid.         *)
(* parse_dollar_amount serves Mpp::movement_charge, parse_units the        *)
(* requests with decimals, and both results are read back as integers of a *)
(* fixed width: u128 by the server's checks, u64 by the provider.          *)
(***************************************************************************)
EXTENDS Naturals, SequencesExt

CONSTANTS
    Signs,          \* the symbols other than digits that an amount has
    Digits,         \* the digits that occur
    MaxLength,      \* symbols of an amount
    DecimalPlaces,  \* the numbers of decimal places that are configured
    MaxPlaces,      \* the last power of ten that fits (38 for u128)
    Wide, Narrow    \* the largest u128 and u64

VARIABLES
    amount,         \* the text
    places,         \* the decimals of the token
    dollars,        \* what parse_dollar_amount says
    units           \* what parse_units says

vars == <<amount, places, dollars, units>>

Numerals == <<"0", "1", "2", "3", "4", "5", "6", "7", "8", "9">>

Blank == "space"

Texts == UNION {[1..n -> Signs \union Digits] : n \in 0..MaxLength}

AmountsAssumption ==
    /\ Digits \subseteq ToSet(Numerals) /\ "0" \in Digits
    /\ DecimalPlaces \subseteq Nat /\ MaxLength \in Nat
    /\ MaxPlaces \in Nat /\ Wide \in Nat /\ Narrow \in Nat

Accepted(value) == [said |-> "accepted", value |-> value]
Refused(why) == [said |-> "refused", why |-> why]

-----------------------------------------------------------------------------
(* Integers, as str::parse reads them. *)

Digit == [d \in ToSet(Numerals) |-> CHOOSE n \in 0..9 : d = Numerals[n + 1]]

Numeral(text) == \A k \in DOMAIN text : text[k] \in Digits

Value(numeral) ==
    LET value[k \in 0..Len(numeral)] ==
          IF k = 0 THEN 0 ELSE 10 * value[k - 1] + Digit[numeral[k]]
    IN  value[Len(numeral)]

TenTo(n) ==
    LET power[k \in 0..n] == IF k = 0 THEN 1 ELSE 10 * power[k - 1]
    IN  power[n]

\* Mutant of ReadInteger: what is no digit is skipped.
ReadIntegerTrimmed(text, max) ==
    LET digits == SelectSeq(text, LAMBDA c : c \in Digits)
    IN  IF digits # << >> /\ Value(digits) <= max
        THEN Accepted(Value(digits)) ELSE Refused("InvalidAmount")

(* A leading plus is allowed, an empty text is not. *)
ReadInteger(text, max) ==
    LET digits == IF text # << >> /\ Head(text) = "+" THEN Tail(text) ELSE text
    IN  IF digits # << >> /\ Numeral(digits) /\ Value(digits) <= max
        THEN Accepted(Value(digits)) ELSE Refused("InvalidAmount")

-----------------------------------------------------------------------------
(* The two parsers. *)

Trim(text) ==
    LET inner == {k \in DOMAIN text : text[k] # Blank}
    IN  IF inner = {} THEN << >>
        ELSE SubSeq(text, CHOOSE k \in inner : \A j \in inner : k <= j,
                          CHOOSE k \in inner : \A j \in inner : j <= k)

Points(text) == {k \in DOMAIN text : text[k] = "."}

(* The text before and after the first point. *)
Split(text) ==
    IF Points(text) = {} THEN [whole |-> text, fraction |-> << >>]
    ELSE LET p == CHOOSE k \in Points(text) : \A j \in Points(text) : k <= j
         IN  [whole |-> SubSeq(text, 1, p - 1),
              fraction |-> SubSeq(text, p + 1, Len(text))]

\* Mutant of Scaled: the fraction is added as it stands.
ScaledWhole(whole, fraction, decimals) ==
    Value(whole) * TenTo(decimals) + Value(fraction)

(* The base units of a numeral; the product and the sum are checked. *)
Scaled(whole, fraction, decimals) ==
    Value(whole) * TenTo(decimals)
        + Value(fraction) * TenTo(decimals - Len(fraction))

ParseDollarAmount(text, decimals) ==
    LET trimmed == Trim(text)
        whole == Split(trimmed).whole
        fraction == Split(trimmed).fraction
    IN  IF trimmed = << >> THEN Refused("Empty")
        ELSE IF Head(trimmed) = "-" THEN Refused("ZeroOrNegative")
        ELSE IF \/ whole \o fraction = << >>
                \/ ~Numeral(whole \o fraction) THEN Refused("InvalidFormat")
        ELSE IF Len(fraction) > decimals THEN Refused("TooManyDecimals")
        ELSE IF Value(whole) > Wide \/ Value(fraction) > Wide
             THEN Refused("InvalidFormat")
        ELSE IF decimals > MaxPlaces THEN Refused("Overflow")
        ELSE IF Scaled(whole, fraction, decimals) > Wide THEN Refused("Overflow")
        ELSE IF Scaled(whole, fraction, decimals) = 0
             THEN Refused("ZeroOrNegative")
        ELSE Accepted(Scaled(whole, fraction, decimals))

StripZeros(text) ==
    LET kept == {k \in DOMAIN text : text[k] # "0"}
    IN  IF kept = {} THEN <<"0">>
        ELSE SubSeq(text, CHOOSE k \in kept : \A j \in kept : k <= j, Len(text))

\* Mutant of Padding: no zeros follow the fraction.
PaddingNone(fraction, decimals) == << >>

Padding(fraction, decimals) == [k \in 1..(decimals - Len(fraction)) |-> "0"]

(* The digits are never looked at. *)
ParseUnits(text, decimals) ==
    LET whole == Split(text).whole
        fraction == Split(text).fraction
    IN  IF text = << >> \/ Points(fraction) # {} \/ Len(fraction) > decimals
        THEN Refused("InvalidAmount")
        ELSE Accepted(StripZeros(whole \o fraction \o Padding(fraction, decimals)))

(* ChargeRequest::with_base_units, then the integer that is read from it:  *)
(* parse_amount for the width of the server, amount_u64 for the provider.  *)
UnitsRead(max) ==
    IF units.said = "refused" THEN units ELSE ReadInteger(units.value, max)

-----------------------------------------------------------------------------
Init ==
    /\ amount \in Texts
    /\ places \in DecimalPlaces
    /\ dollars = Refused("none")
    /\ units = Refused("none")

Convert ==
    /\ dollars = Refused("none")
    /\ dollars' = ParseDollarAmount(amount, places)
    /\ units' = ParseUnits(amount, places)
    /\ UNCHANGED <<amount, places>>

Next == Convert

Spec == Init /\ [][Next]_vars

-----------------------------------------------------------------------------
(* Properties *)

Converted == dollars # Refused("none")

(* A decimal numeral, and the integer it stands for once its point has     *)
(* moved: written without the arithmetic of the parser.                    *)
Decimal(text) ==
    /\ text # << >> /\ text # <<".">>
    /\ \A k \in DOMAIN text : text[k] \in Digits \union {"."}
    /\ Points(Split(text).fraction) = {}

Shifted(text, decimals) ==
    LET fraction == Split(text).fraction
    IN  Value(Split(text).whole \o fraction \o Padding(fraction, decimals))

(* parse_dollar_amount accepts exactly the positive decimals that the      *)
(* places and the width can hold, with their exact value: no wrap, no      *)
(* rounding, no digit dropped.                                             *)
DollarsAreExact ==
    Converted =>
        LET text == Trim(amount)
            fits == /\ Decimal(text)
                    /\ Len(Split(text).fraction) <= places
                    /\ places <= MaxPlaces
                    /\ Shifted(text, places) \in 1..Wide
        IN  dollars.said = "accepted" <=> fits
            /\ (fits => dollars.value = Shifted(text, places))

(* An amount written without blanks that parse_dollar_amount accepts is    *)
(* the same amount through parse_units and the integer read back; and the  *)
(* provider pays it unless it exceeds u64, in which case it refuses.       *)
BothAgree ==
    Converted /\ dollars.said = "accepted" /\ Trim(amount) = amount =>
        /\ UnitsRead(Wide) = dollars
        /\ UnitsRead(Narrow) = IF dollars.value <= Narrow THEN dollars
                               ELSE Refused("InvalidAmount")

(* What parse_units lets through although it is no amount is not read as   *)
(* one either, but for zero and for a plus sign, which the integer parser  *)
(* allows and which may even follow the point (".+2" is 2 hundredths).     *)
NothingElseIsRead ==
    Converted /\ UnitsRead(Wide).said = "accepted" /\ places <= MaxPlaces =>
        \/ dollars = UnitsRead(Wide)
        \/ UnitsRead(Wide).value = 0
        \/ \E k \in DOMAIN amount : amount[k] = "+"

=============================================================================
