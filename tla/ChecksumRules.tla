--------------------------- MODULE ChecksumRules ---------------------------
(***************************************************************************)
(* The arithmetic of a compiled checksum rule over a view of the value, cut *)
(* from it by the operations of ViewSteps: read an integer from the view,   *)
(* transform it, compare it; or apply Luhn or ISO 7064 to it.  Only reads   *)
(* the loader accepts are compiled (ArithmeticBounds), so the rule computes *)
(* in IntWidth bits what it says of unbounded integers.                     *)
(***************************************************************************)
EXTENDS ArithmeticBounds, Checksums, ViewSteps

CONSTANTS Moduli, Tables, WeightLists, Alphabets, Comparands,
          MaxTransforms

VARIABLES number,     \* the integer the rule has computed
          exact,      \* that integer in unbounded arithmetic, for the invariants
          transforms, \* the number of transformations applied, -1 before the read
          outcome     \* "none", then the outcome

numberVars == <<number, exact, transforms, outcome>>
arithmeticVars == <<viewVars, numberVars>>

ASSUME WidthAssumption == MaxInt = 2 ^ (IntWidth - 1) - 1

ArithmeticTypeOK ==
  /\ ViewTypeOK
  /\ number.ok \in BOOLEAN /\ number.v \in -MaxInt - 1 .. MaxInt
  /\ transforms \in -1 .. MaxTransforms
  /\ outcome \in {"none", "valid", "invalid", "unsupported"}

------------------------------------------------------------------------------
(* The same in unbounded arithmetic, by position rather than by reading: a  *)
(* character stands for its place among some symbols.                       *)
Decimal(s) == MapThenSumSet(LAMBDA i : digit(s[i]) * 10 ^ (Len(s) - i), DOMAIN s)

(* The remainder of a number by 97, from the remainders of powers of ten.   *)
Power97[k \in Nat] == IF k = 0 THEN 1 ELSE (10 * Power97[k - 1]) % 97
Remainder97(s) == MapThenSumSet(LAMBDA i : digit(s[i]) * Power97[Len(s) - i], DOMAIN s) % 97

Digits10 == [i \in 1 .. 10 |-> 47 + i]
Base36 == Digits10 \o [i \in 1 .. 26 |-> 64 + i]
Symbols(mapping) == IF mapping = "digit_value" THEN Digits10 ELSE Base36
Spelled(points, symbols) == points # <<>> /\ Range(points) \subseteq Range(symbols)
Place(symbols, r) == (CHOOSE i \in DOMAIN symbols : symbols[i] = r) - 1

(* The positions of a string of n and those of k weights that meet.         *)
Paired(n, k, align) ==
  {p \in (1 .. n) \X (1 .. k) :
     CASE align = "left" -> p[1] = p[2]
       [] align = "right" -> n - p[1] = k - p[2]
       [] align = "cycle" -> (p[1] - p[2]) % k = 0}

Weighted(points, symbols, weights, align) ==
  MapThenSumSet(LAMBDA p : Place(symbols, points[p[1]]) * weights[p[2]],
                Paired(Len(points), Len(weights), align))

Expanded(s) ==
  FlattenSeq([i \in DOMAIN s |->
                IF isASCIIDigit(s[i]) THEN <<s[i]>>
                ELSE <<48 + ((s[i] - 55) \div 10), 48 + ((s[i] - 55) % 10)>>])

LuhnSum(s) ==
  MapThenSumSet(LAMBDA i : LET d == digit(s[i])
                           IN IF (Len(s) - i) % 2 = 0 THEN d ELSE ((2 * d) \div 10) + ((2 * d) % 10),
                DOMAIN s)

------------------------------------------------------------------------------
ArithmeticInit ==
  /\ ViewInit
  /\ number = Indeterminate /\ exact = Indeterminate
  /\ transforms = -1
  /\ outcome = "none"

(* The string expression of the rule.                                       *)
Fresh == transforms = -1 /\ outcome = "none"
StringStep == Fresh /\ ViewNext /\ UNCHANGED numberVars

Characters == Runes(view.s)

(* The rule reads i; the view spells e with these symbols, or nothing.      *)
Reads(i, symbols, e) ==
  /\ steps' = -1
  /\ number' = i
  /\ exact' = IF view.present /\ Spelled(Characters, symbols) THEN Number(e) ELSE Indeterminate
  /\ transforms' = 0
  /\ UNCHANGED <<view, outcome>>

(* The loader has proved the view this short.                               *)
ReadDigits ==
  /\ Fresh /\ RuneLen(view) <= MaxProvableDigits
  /\ Reads(DigitsToInteger(view), Digits10, Decimal(view.s))

ReadModDigits ==
  Fresh /\ \E m \in Moduli : Reads(ModDigits(view, m), Digits10, Decimal(view.s) % m)

ReadWeightedSum ==
  Fresh /\ \E ws \in WeightLists, align \in {"left", "right", "cycle"},
              mapping \in {"digit_value", "alnum_base36"} :
    /\ checkWeightedSumOverflow(ws, align, mapping, <<>>, RuneLen(view))
    /\ Reads(WeightedSum(view, ws, align, mapping), Symbols(mapping),
             Weighted(Characters, Symbols(mapping), ws, align))

ReadWeightedSumAlphabet ==
  Fresh /\ \E ws \in WeightLists, align \in {"left", "right", "cycle"}, alphabet \in Alphabets :
    /\ checkWeightedSumOverflow(ws, align, "custom_alphabet", alphabet, RuneLen(view))
    /\ Reads(WeightedSumAlphabet(view, ws, align, alphabet), Runes(alphabet),
             Weighted(Characters, Runes(alphabet), ws, align))

Transforms(i, e) ==
  /\ transforms \in 0 .. MaxTransforms - 1 /\ outcome = "none"
  /\ number' = i /\ exact' = e
  /\ transforms' = transforms + 1
  /\ UNCHANGED <<viewVars, outcome>>

DoModulo ==
  \E m \in Moduli :
    Transforms(Modulo(number, m), IF exact.ok THEN Number(exact.v % m) ELSE Indeterminate)

DoComplement ==
  \E m \in Moduli :
    Transforms(Complement(number, m),
               IF exact.ok /\ exact.v \in 0 .. m THEN Number(m - exact.v) ELSE Indeterminate)

DoRemainderMap ==
  \E t \in Tables :
    Transforms(RemainderMap(number, t),
               IF exact.ok /\ exact.v + 1 \in DOMAIN t THEN Number(t[exact.v + 1]) ELSE Indeterminate)

Answers(o) ==
  /\ outcome = "none" /\ outcome' = o /\ steps' = -1
  /\ UNCHANGED <<view, number, exact, transforms>>

DoCompareConstant == transforms >= 0 /\ \E c \in Comparands : Answers(CompareConstant(number, c))
DoCompareDigit ==
  transforms >= 0 /\ \E at \in 0 .. MaxProvableDigits : Answers(CompareDigit(number, view, at))
DoCompareSlice ==
  /\ transforms >= 0
  /\ \E at \in 0 .. MaxProvableDigits, n \in 1 .. MaxProvableDigits :
       Answers(CompareSlice(number, view, at, at + n))

DoLuhn == transforms = -1 /\ Answers(Luhn(view))
DoISO7064Mod97 == transforms = -1 /\ Answers(ISO7064Mod97(view))

ArithmeticNext ==
  \/ StringStep
  \/ ReadDigits \/ ReadModDigits \/ ReadWeightedSum \/ ReadWeightedSumAlphabet
  \/ DoModulo \/ DoComplement \/ DoRemainderMap
  \/ DoCompareConstant \/ DoCompareDigit \/ DoCompareSlice \/ DoLuhn \/ DoISO7064Mod97

ArithmeticSpec == ArithmeticInit /\ [][ArithmeticNext]_arithmeticVars

------------------------------------------------------------------------------
(* No sum, remainder or table lookup of an accepted rule is off by a wrap,  *)
(* a sign, a position or a symbol: the engine's integer is the integer the  *)
(* rule states, and it is indeterminate exactly where the rule gives none   *)
(* (integer.go, under the bounds of load.go).                               *)
ArithmeticIsExact == ArithmeticTypeOK /\ number = exact

(* integer.go: an operand that cannot be evaluated, the integer or the      *)
(* characters it is compared with, never makes an identifier invalid,       *)
(* through any chain of operations.                                         *)
DigitsBetween(from, to) ==
  /\ view.present /\ from < to /\ to <= Len(Characters)
  /\ Range(SubSeq(Characters, from + 1, to)) \subseteq ASCIIDigit
IndeterminateIsNotInvalid ==
  transforms >= 0 /\ outcome = "none" =>
    /\ \A n \in Comparands : CompareConstant(number, n) = "invalid" => exact.ok
    /\ \A at \in 0 .. MaxProvableDigits :
         /\ CompareDigit(number, view, at) = "invalid" => exact.ok /\ DigitsBetween(at, at + 1)
         /\ \A n \in 1 .. MaxProvableDigits :
              CompareSlice(number, view, at, at + n) = "invalid" =>
                exact.ok /\ DigitsBetween(at, at + n)

(* Luhn and ISO 7064 decide as their definitions do, digit by digit sums    *)
(* and remainders of the whole number.  A view that is absent, too short or *)
(* holds a character without a value is unsupported, never invalid          *)
(* (checksum.go).                                                           *)
AlgorithmsDecideByDefinition ==
  /\ outcome = "invalid" /\ transforms = -1 =>
       view.present /\ Len(view.s) >= 2 /\ ASCIIAlphanumeric(view)
  /\ Fresh /\ ASCIIDigits(view) /\ Len(view.s) >= 2 =>
       (Luhn(view) = "valid" <=> LuhnSum(view.s) % 10 = 0)
  /\ Fresh /\ ASCIIAlphanumeric(view) /\ Len(view.s) >= 3 =>
       (ISO7064Mod97(view) = "valid" <=> Remainder97(Expanded(view.s)) = 1)
==============================================================================
