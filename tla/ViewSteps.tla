----------------------------- MODULE ViewSteps -----------------------------
(***************************************************************************)
(* A chain of string operations of a compiled rule: each takes the view the *)
(* one before it produced, the constants and indices come from the rules.   *)
(* Module ChecksumRules continues with what a rule computes of the view.    *)
(***************************************************************************)
EXTENDS Views, Integers

CONSTANTS Values,    \* the canonical values, well formed strings
          MaxIndex,  \* bounds the indices of the rules
          Texts,     \* the constants of the rules, well formed and not empty
          MaxSteps   \* bounds the chain

ASSUME TextsAssumption == \A t \in Texts : t # <<>> /\ ValidString(t)

VARIABLES
  view,
  steps      \* the operations so far, -1 once the view is complete and read

viewVars == <<view, steps>>

ViewTypeOK ==
  /\ view.present \in BOOLEAN /\ view.s \in Seq(Byte) /\ ValidString(view.s)
  /\ steps \in -1 .. MaxSteps

ViewInit ==
  /\ \E s \in Values : view \in {Value(s), Absent}
  /\ steps = 0

Produce(v) == steps \in 0 .. MaxSteps - 1 /\ view' = v /\ steps' = steps + 1

DoSlice == \E start, end \in 0 .. MaxIndex : Produce(Slice(view, start, end))
DoSliceFrom == \E start \in 0 .. MaxIndex : Produce(SliceFrom(view, start))
DoSliceTo == \E end \in 0 .. MaxIndex : Produce(SliceTo(view, end))
DoBeforeFirst == \E sep \in Texts : Produce(BeforeFirst(view, sep))
DoAfterFirst == \E sep \in Texts : Produce(AfterFirst(view, sep))
DoStripPrefix == \E prefix \in Texts : Produce(StripPrefix(view, prefix))
DoConcat == \E t \in Texts : Produce(Concat(view, Value(t)))

ViewNext ==
  DoSlice \/ DoSliceFrom \/ DoSliceTo \/ DoBeforeFirst \/ DoAfterFirst \/ DoStripPrefix \/ DoConcat

------------------------------------------------------------------------------
(* Cutting bytes does what the rules say of code points, on any view the    *)
(* operations before can have left: a slice never splits a code point, is   *)
(* cut where the rule says, and absence is final.                           *)
Points == INSTANCE CodePointViews
InPoints(v) == [present |-> v.present, points |-> Runes(v.s)]
CutsInCodePoints(points) ==
  /\ \A a \in 0 .. MaxIndex :
       /\ InPoints(SliceFrom(view, a)) = Points!Between(points, a, Len(points.points))
       /\ InPoints(SliceTo(view, a)) = Points!Between(points, 0, a)
       /\ \A b \in 0 .. MaxIndex : InPoints(Slice(view, a, b)) = Points!Between(points, a, b)
  /\ \A t \in Texts :
       /\ InPoints(BeforeFirst(view, t)) = Points!Before(points, Runes(t))
       /\ InPoints(AfterFirst(view, t)) = Points!Behind(points, Runes(t))
       /\ InPoints(StripPrefix(view, t)) = Points!Stripped(points, Runes(t))
       /\ InPoints(Concat(view, Value(t))) = Points!Joined(points, Runes(t))

(* The predicates answer by code points too, and never hold of an absent    *)
(* view: a byte wise ASCII test refuses every wider code point, and the     *)
(* position of a character is not its byte offset.                          *)
AnswersInCodePoints(points) ==
  LET n == Len(points)
      At(i) == points[i + 1]
  IN /\ \A k \in 0 .. MaxIndex : LengthEq(view, k) <=> view.present /\ n = k
     /\ ASCIIAlphanumeric(view) <=>
          /\ view.present /\ n > 0
          /\ \A i \in 0 .. n - 1 : isASCIIDigit(At(i)) \/ isASCIIUpper(At(i))
     /\ \A i \in 0 .. MaxIndex :
          CharAtIn(view, i, ASCIIDigit) <=> view.present /\ i < n /\ isASCIIDigit(At(i))

(* The methods of View, which count bytes, do what the same methods on      *)
(* sequences of code points do, for every view a chain of them can leave.   *)
CountsInCodePoints ==
  steps >= 0 =>
    \A points \in {InPoints(view)} :
      CutsInCodePoints(points) /\ AnswersInCodePoints(points.points)

(* The search over the sorted prefixes of a rule answers as reading them    *)
(* one by one would.                                                        *)
Ascending(values) ==
  \A i \in 1 .. Len(values) - 1 : BytesBefore(values[i], values[i + 1])
Lists == {l \in UNION {[1 .. n -> Texts] : n \in 1 .. 3} : Ascending(l)}
PrefixesAreFound ==
  steps >= 0 =>
  \A l \in Lists :
    PrefixInSorted(view, PrefixGroups(l)) <=> \E i \in DOMAIN l : StartsWith(view, l[i])
==============================================================================
