----------------------------- MODULE Checksums -----------------------------
(***************************************************************************)
(* The integers and the checksum algorithms of the compiled rules           *)
(* (internal/runtime/integer.go and checksum.go).                           *)
(***************************************************************************)
EXTENDS Integers, Views, SequencesExt

CONSTANT IntWidth   \* the width of an integer, 64 in the code

(* Two's complement arithmetic.                                             *)
Wrap(x) == ((x + 2 ^ (IntWidth - 1)) % 2 ^ IntWidth) - 2 ^ (IntWidth - 1)

Indeterminate == [ok |-> FALSE, v |-> 0]
Number(v) == [ok |-> TRUE, v |-> v]

digit(b) == b - 48

DigitsToInteger(v) ==
  IF ~ASCIIDigits(v) THEN Indeterminate
  ELSE Number(FoldLeft(LAMBDA acc, b : Wrap(acc * 10 + digit(b)), 0, v.s))

ModDigits(v, m) ==
  IF ~ASCIIDigits(v) THEN Indeterminate
  ELSE Number(FoldLeft(LAMBDA acc, b : Wrap(acc * 10 + digit(b)) % m, 0, v.s))

(* Go's remainder takes the sign of the dividend.                           *)
Remainder(a, m) == IF a >= 0 THEN a % m ELSE -((-a) % m)

Modulo(i, m) ==
  IF i.ok THEN Number(Remainder(Wrap(Remainder(i.v, m) + m), m)) ELSE Indeterminate

Complement(i, m) == IF i.ok /\ i.v \in 0 .. m THEN Number(m - i.v) ELSE Indeterminate

RemainderMap(i, table) ==
  IF i.ok /\ i.v \in 0 .. Len(table) - 1 THEN Number(table[i.v + 1]) ELSE Indeterminate

Is(i, constant) == i.ok /\ i.v = constant

------------------------------------------------------------------------------
(* The value of a byte under the two mappings of fixed domain, or -1.       *)
MappedValue(mapping, b) ==
  IF isASCIIDigit(b) THEN digit(b)
  ELSE IF mapping = "alnum_base36" /\ isASCIIUpper(b) THEN b - 55 ELSE -1

(* The weight at position i of n, counted from 1, or 0 where none is.       *)
Weight(weights, align, n, i) ==
  LET k == Len(weights)
  IN CASE align = "left" -> IF i <= k THEN weights[i] ELSE 0
       [] align = "right" -> IF n - i < k THEN weights[k - (n - i)] ELSE 0
       [] align = "cycle" -> weights[((i - 1) % k) + 1]

SumOf(values, weights, align) ==
  FoldLeftDomain(LAMBDA acc, i : Wrap(acc + Wrap(values[i] * Weight(weights, align, Len(values), i))),
                 0, values)

WeightedSum(v, weights, align, mapping) ==
  LET values == [i \in DOMAIN v.s |-> MappedValue(mapping, v.s[i])]
  IN IF ~v.present \/ v.s = <<>> \/ \E i \in DOMAIN values : values[i] < 0 THEN Indeterminate
     ELSE Number(SumOf(values, weights, align))

(* The index of a code point in an alphabet, or -1.                         *)
alphabetIndex(alphabet, r) ==
  LET at == {i \in DOMAIN Runes(alphabet) : Runes(alphabet)[i] = r}
  IN IF at = {} THEN -1 ELSE Min(at) - 1

WeightedSumAlphabet(v, weights, align, alphabet) ==
  LET rs == Runes(v.s)
      values == [i \in DOMAIN rs |-> alphabetIndex(alphabet, rs[i])]
  IN IF ~v.present \/ v.s = <<>> \/ ~ValidString(v.s) \/ \E i \in DOMAIN values : values[i] < 0
     THEN Indeterminate
     ELSE Number(SumOf(values, weights, align))

------------------------------------------------------------------------------
OutcomeOf(holds) == IF holds THEN "valid" ELSE "invalid"

(* Luhn doubles every second digit from the right.                          *)
LuhnDigit(d, double) == IF ~double THEN d ELSE IF 2 * d > 9 THEN 2 * d - 9 ELSE 2 * d

(* Mutant: the digits are doubled from the left.                            *)
LuhnFromLeft(v) ==
  IF ~v.present \/ Len(v.s) < 2 \/ ~ASCIIDigits(v) THEN "unsupported"
  ELSE OutcomeOf(FoldLeftDomain(LAMBDA sum, i : sum + LuhnDigit(digit(v.s[i]), i % 2 = 0),
                                0, v.s) % 10 = 0)

Luhn(v) ==
  IF ~v.present \/ Len(v.s) < 2 \/ ~ASCIIDigits(v) THEN "unsupported"
  ELSE OutcomeOf(FoldLeftDomain(LAMBDA sum, i : sum + LuhnDigit(digit(v.s[i]), (Len(v.s) - i) % 2 = 1),
                                0, v.s) % 10 = 0)

(* A letter expands to two decimal digits.                                  *)
ISO7064Mod97(v) ==
  IF ~v.present \/ Len(v.s) < 3 \/ ~ASCIIAlphanumeric(v) THEN "unsupported"
  ELSE OutcomeOf(FoldLeft(LAMBDA rem, b : IF isASCIIDigit(b) THEN (rem * 10 + digit(b)) % 97
                                          ELSE (rem * 100 + MappedValue("alnum_base36", b)) % 97,
                          0, v.s) = 1)

(* Mutant: an integer without a value differs from any other.               *)
CompareIntsLoose(i, j) == OutcomeOf(i.ok /\ j.ok /\ i.v = j.v)

CompareInts(i, j) == IF i.ok /\ j.ok THEN OutcomeOf(i.v = j.v) ELSE "unsupported"

CompareDigit(i, v, index) ==
  IF ~i.ok \/ ~CharAtIn(v, index, ASCIIDigit) THEN "unsupported"
  ELSE OutcomeOf(i.v = digit(v.s[RuneOffset(v.s, index) + 1]))

CompareSlice(i, v, start, end) == CompareInts(i, DigitsToInteger(Slice(v, start, end)))

CompareConstant(i, constant) == CompareInts(i, Number(constant))
==============================================================================
