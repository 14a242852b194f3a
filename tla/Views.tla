------------------------------- MODULE Views -------------------------------
(***************************************************************************)
(* The possibly absent string views of the compiled rules                   *)
(* (internal/runtime/view.go).  A view is a piece of the value's bytes; the *)
(* rules count in code points.                                              *)
(***************************************************************************)
EXTENDS Utf8, FiniteSetsExt

Absent == [present |-> FALSE, s |-> <<>>]
Value(s) == [present |-> TRUE, s |-> s]

IsAbsent(v) == ~v.present
IsEmpty(v) == v.present /\ v.s = <<>>
RuneLen(v) == IF v.present THEN RuneCount(v.s) ELSE 0

From(s, o) == SubSeq(s, o + 1, Len(s))
UpTo(s, o) == SubSeq(s, 1, o)

(* Whether s holds exactly n code points.                                   *)
countIs(s, n) == HasRuneOffset(s, n) /\ RuneOffset(s, n) = Len(s)

LengthEq(v, n) == v.present /\ countIs(v.s, n)
LengthBetween(v, min, max) == v.present /\ RuneCount(v.s) \in min .. max
LengthIn(v, lengths) == v.present /\ RuneCount(v.s) \in lengths

EqualViews(v, w) == v.present /\ w.present /\ v.s = w.s

(* strings.Index: the first offset of sep in s, if any.                     *)
Occurrences(s, sep) == {o \in 0 .. Len(s) - Len(sep) : HasPrefix(From(s, o), sep)}
Index(s, sep) == Min(Occurrences(s, sep))

StartsWith(v, prefix) == v.present /\ HasPrefix(v.s, prefix)
EndsWith(v, suffix) ==
  v.present /\ Len(suffix) <= Len(v.s) /\ From(v.s, Len(v.s) - Len(suffix)) = suffix
Holds(v, literal) == v.present /\ Occurrences(v.s, literal) # {}

isASCIIDigit(b) == b \in 48 .. 57
isASCIIUpper(b) == b \in 65 .. 90
ASCIIDigit == 48 .. 57
ASCIIUpper == 65 .. 90

(* Every byte of a non empty view is in an ASCII class.                     *)
classOf(v, class) == v.present /\ v.s # <<>> /\ \A i \in DOMAIN v.s : v.s[i] \in class

ASCIIDigits(v) == classOf(v, ASCIIDigit)
ASCIIUpperLetters(v) == classOf(v, ASCIIUpper)
ASCIIAlphanumeric(v) == classOf(v, ASCIIDigit \cup ASCIIUpper)
ASCIICharset(v, set) == classOf(v, set)

CharAtIn(v, index, set) ==
  /\ v.present /\ HasRuneOffset(v.s, index)
  /\ LET off == RuneOffset(v.s, index)
     IN off < Len(v.s) /\ RuneAt(v.s, off) < 128 /\ RuneAt(v.s, off) \in set

(* The view from one byte offset, which exists, to a number of code points  *)
(* after it.                                                                *)
Cut(s, from, n) ==
  IF HasRuneOffset(From(s, from), n)
  THEN Value(UpTo(From(s, from), RuneOffset(From(s, from), n))) ELSE Absent

(* Mutant: the end counts from the start of the view.                       *)
SliceToEnd(v, start, end) ==
  IF ~v.present \/ start > end \/ ~HasRuneOffset(v.s, start) THEN Absent
  ELSE Cut(v.s, RuneOffset(v.s, start), end)

Slice(v, start, end) ==
  IF ~v.present \/ start > end \/ ~HasRuneOffset(v.s, start) THEN Absent
  ELSE Cut(v.s, RuneOffset(v.s, start), end - start)

SliceFrom(v, start) ==
  IF v.present /\ HasRuneOffset(v.s, start) THEN Value(From(v.s, RuneOffset(v.s, start)))
  ELSE Absent

SliceTo(v, end) ==
  IF v.present /\ HasRuneOffset(v.s, end) THEN Value(UpTo(v.s, RuneOffset(v.s, end)))
  ELSE Absent

BeforeFirst(v, sep) ==
  IF Holds(v, sep) THEN Value(UpTo(v.s, Index(v.s, sep))) ELSE Absent

AfterFirst(v, sep) ==
  IF Holds(v, sep) THEN Value(From(v.s, Index(v.s, sep) + Len(sep))) ELSE Absent

StripPrefix(v, prefix) ==
  IF StartsWith(v, prefix) THEN Value(From(v.s, Len(prefix))) ELSE Absent

Concat(v, w) == IF v.present /\ w.present THEN Value(v.s \o w.s) ELSE Absent

------------------------------------------------------------------------------
(* slices.BinarySearch over an ascending list.                              *)
BytesBefore(p, q) ==
  \E k \in DOMAIN q :
    /\ k > Len(p) \/ p[k] < q[k]
    /\ k - 1 <= Len(p) /\ UpTo(p, k - 1) = UpTo(q, k - 1)

BinarySearch(values, key) ==
  LET search[r \in (1 .. Len(values) + 1) \X (1 .. Len(values) + 1)] ==
        IF r[1] = r[2] THEN r[1]
        ELSE LET mid == (r[1] + r[2]) \div 2
             IN IF BytesBefore(values[mid], key) THEN search[<<mid + 1, r[2]>>]
                ELSE search[<<r[1], mid>>]
      at == search[<<1, Len(values) + 1>>]
  IN at <= Len(values) /\ values[at] = key

(* Mutant: one search over the whole list.                                  *)
PrefixesUngrouped(values) == {[length |-> Len(values[1]), values |-> values]}

(* The accepted prefixes are grouped by length, in the order they came.     *)
PrefixGroups(values) ==
  {[length |-> n, values |-> SelectSeq(values, LAMBDA p : Len(p) = n)] :
     n \in {Len(values[i]) : i \in DOMAIN values}}

PrefixInSorted(v, groups) ==
  /\ v.present
  /\ \E g \in groups : Len(v.s) >= g.length /\ BinarySearch(g.values, UpTo(v.s, g.length))
==============================================================================
