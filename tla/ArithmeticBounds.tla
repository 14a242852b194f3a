-------------------------- MODULE ArithmeticBounds --------------------------
(***************************************************************************)
(* The arithmetic limits of the rules (internal/gen/limits.go) and the      *)
(* proof obligation the loader discharges for each weighted sum             *)
(* (internal/gen/load.go, checkWeightedSumOverflow).                        *)
(***************************************************************************)
EXTENDS Integers, Utf8, FiniteSetsExt

CONSTANTS MaxInt,             \* the largest signed integer of the engine
          MaxInputBytes,      \* largest input of a public operation
          MaxConstantBytes,   \* largest constant of a rule
          MaxProvableDigits   \* widest decimal an integer is read from

unboundedLen == -1

Magnitude(w) == IF w < 0 THEN -w ELSE w

(* The largest contribution of one code point.                              *)
Contribution(mapping, alphabet) ==
  CASE mapping = "digit_value" -> 9
    [] mapping = "alnum_base36" -> 35
    [] mapping = "custom_alphabet" -> RuneCount(alphabet) - 1

(* The positions that are paired with a weight.                             *)
Pairs(weights, alignment, operandBound) ==
  IF alignment \in {"left", "right"} THEN Len(weights)
  ELSE IF operandBound = unboundedLen THEN MaxInputBytes + MaxConstantBytes
  ELSE operandBound

(* Mutant: the smallest weight bounds the sum.                              *)
LeastWeight(weights) == Min({Magnitude(weights[i]) : i \in DOMAIN weights} \cup {MaxInt})

LargestWeight(weights) == Max({Magnitude(weights[i]) : i \in DOMAIN weights} \cup {0})

SumFits(magnitude, pairs, contribution) ==
  magnitude # 0 /\ pairs # 0 =>
    /\ magnitude <= MaxInt \div pairs
    /\ contribution <= MaxInt \div (magnitude * pairs)

(* Whether the loader accepts a weighted sum over an operand of at most     *)
(* operandBound code points.                                                *)
checkWeightedSumOverflow(weights, alignment, mapping, alphabet, operandBound) ==
  SumFits(LargestWeight(weights), Pairs(weights, alignment, operandBound),
          Contribution(mapping, alphabet))
==============================================================================
