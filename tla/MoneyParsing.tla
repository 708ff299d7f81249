----------------------------- MODULE MoneyParsing -----------------------------
(***************************************************************************)
(* examples/domain/money.py: parse_minor_units and format_minor_units.     *)
(*                                                                         *)
(* An amount is a sequence of characters.  A Decimal has a coefficient of  *)
(* any length and an exponent; scaleb is an operation of the context and   *)
(* rounds half-even to Precision digits (28 in the default context), which *)
(* the comparison after it cannot notice.                                  *)
(***************************************************************************)
EXTENDS Integers, Sequences, SequencesExt, FiniteSetsExt

CONSTANTS
    minor_unit_digits,
    Precision

ASSUME MoneyConstants ==
    /\ minor_unit_digits \in Nat \ {0}
    /\ Precision \in Nat \ {0}

Digits == <<"0", "1", "2", "3", "4", "5", "6", "7", "8", "9">>
DigitSet == ToSet(Digits)
ValueOf(c) == (CHOOSE i \in DOMAIN Digits : Digits[i] = c) - 1

Rejected == -1    \* MoneyParseError

\* 10^n.
Ten[n \in Nat] == IF n = 0 THEN 1 ELSE 10 * Ten[n - 1]

\* raw.strip()
Strip(raw) ==
    LET inner == {i \in DOMAIN raw : raw[i] # " "} IN
    IF inner = {} THEN <<>> ELSE SubSeq(raw, Min(inner), Max(inner))

\* The coefficient of Decimal(text): its digits, read on over the point.
Coefficient(text) ==
    LET read[i \in 0..Len(text)] ==
          IF i = 0 THEN 0
          ELSE IF text[i] = "." THEN read[i - 1] ELSE 10 * read[i - 1] + ValueOf(text[i])
    IN  read[Len(text)]

\* -value.as_tuple().exponent
FractionDigits(text) ==
    LET points == {i \in DOMAIN text : text[i] = "."} IN
    IF points = {} THEN 0 ELSE Len(text) - Min(points)

\* The digits that a coefficient n has more than the context holds.
Excess(n) ==
    CHOOSE e \in 0..n : n < Ten[Precision + e] /\ (e > 0 => n >= Ten[Precision + e - 1])

\* A coefficient in a context: Precision digits of it, halves to even.
Rounded(n) ==
    LET unit == Ten[Excess(n)]
        kept == n \div unit
        rest == n % unit
        up == 2 * rest > unit \/ (2 * rest = unit /\ kept % 2 = 1)
    IN  (IF up THEN kept + 1 ELSE kept) * unit

\* What reaches Decimal, and what Decimal refuses.
Acceptable(text) ==
    /\ text # <<>>
    /\ ToSet(text) \subseteq DigitSet \cup {"."}
    /\ Cardinality({i \in DOMAIN text : text[i] = "."}) <= 1
    /\ text # <<".">>

\* Faulty parse_minor_units: takes separators out first.
ParseGrouped(raw) ==
    LET text == SelectSeq(Strip(raw), LAMBDA c : c # ",") IN
    IF Acceptable(text) /\ FractionDigits(text) <= minor_unit_digits
    THEN Rounded(Coefficient(text)) * Ten[minor_unit_digits - FractionDigits(text)]
    ELSE Rejected

parse_minor_units(raw) ==
    LET text == Strip(raw) IN
    IF Acceptable(text) /\ FractionDigits(text) <= minor_unit_digits
    THEN Rounded(Coefficient(text)) * Ten[minor_unit_digits - FractionDigits(text)]
    ELSE Rejected

-----------------------------------------------------------------------------

\* The decimal numeral of n, padded with zeros to a width.
Numeral(n, width) ==
    LET length == CHOOSE k \in 1..(n + width) :
                     /\ k >= width /\ n < Ten[k]
                     /\ k > width => n >= Ten[k - 1]
    IN  [i \in 1..length |-> Digits[((n \div Ten[length - i]) % 10) + 1]]

\* Groups of three from the right, where every fourth place is a separator.
Grouped(s) ==
    LET length == Len(s) + (Len(s) - 1) \div 3
        behind(i) == length - i
    IN  [i \in 1..length |->
            IF behind(i) % 4 = 3 THEN "," ELSE s[Len(s) - (behind(i) - behind(i) \div 4)]]

\* Faulty format_minor_units: the fraction is not padded.
FormatUnpadded(minor) ==
    LET scale == Ten[minor_unit_digits] IN
    Grouped(Numeral(minor \div scale, 1)) \o <<".">> \o Numeral(minor % scale, 1)

format_minor_units(minor) ==
    LET scale == Ten[minor_unit_digits] IN
    Grouped(Numeral(minor \div scale, 1)) \o <<".">>
        \o Numeral(minor % scale, minor_unit_digits)

-----------------------------------------------------------------------------
(* Reference: an amount by the places of its digits.                       *)

\* Blanks, digits, possibly a point and at most minor_unit_digits more, blanks.
WellFormed(raw) ==
    \E a, b \in 1..(Len(raw) + 1), p \in 1..(Len(raw) + 1) :
        /\ a <= p /\ p <= b
        /\ \A i \in DOMAIN raw :
              IF i < a \/ i >= b THEN raw[i] = " "
              ELSE IF i = p THEN raw[i] = "." ELSE raw[i] \in DigitSet
        /\ b - p <= minor_unit_digits + 1
        /\ \E i \in a..(b - 1) : i # p

\* The amount sent in minor units, each digit by its distance from the point.
Sent(raw) ==
    LET at(c) == {i \in DOMAIN raw : raw[i] = c}
        digits == {i \in DOMAIN raw : raw[i] \in DigitSet}
        point == IF at(".") # {} THEN Min(at(".")) ELSE Max(digits) + 1
        place(i) == IF i < point THEN point - i - 1 ELSE point - i
        sum[i \in 0..Len(raw)] ==
            IF i = 0 THEN 0
            ELSE IF i \in digits
                 THEN sum[i - 1] + ValueOf(raw[i]) * Ten[minor_unit_digits + place(i)]
                 ELSE sum[i - 1]
    IN  sum[Len(raw)]

\* The last place that the context keeps, of an amount that long.
Place(raw) == Ten[Excess(Coefficient(Strip(raw)))]

Distance(m, n) == IF m > n THEN m - n ELSE n - m

\* Accepted exactly if well formed; exact while the context holds the digits, and
\* beyond that half a place off at most.
ParsesAsSent(raw) ==
    LET minor == parse_minor_units(raw) IN
    /\ minor # Rejected <=> WellFormed(raw)
    /\ minor # Rejected =>
          /\ Coefficient(Strip(raw)) < Ten[Precision] => minor = Sent(raw)
          /\ 2 * Distance(minor, Sent(raw))
                <= Place(raw) * Ten[minor_unit_digits - FractionDigits(Strip(raw))]

\* What is displayed is never read as another amount: it parses as itself, or is
\* refused for its separators (money.py:113-120).
ReadsAsItself(minor) ==
    parse_minor_units(format_minor_units(minor))
        = IF minor < 1000 * Ten[minor_unit_digits] THEN minor ELSE Rejected
=============================================================================
