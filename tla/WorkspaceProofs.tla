--------------------------- MODULE WorkspaceProofs ---------------------------
(***************************************************************************)
(* The margin the generator reserves is enough, for every bundle, input    *)
(* and size: when no two definitions share a canonicalization program, the *)
(* value never leaves the scratch array and no step ever finds the left    *)
(* margin exhausted.                                                       *)
(*                                                                         *)
(* The invariants checked by TLC are not inductive: that the value fits    *)
(* now says nothing of the steps to come.  What is inductive is that it    *)
(* fits with room, on each side, for the growth of every remaining step.   *)
(***************************************************************************)
EXTENDS Workspace, TLAPS, FiniteSetTheorems, SequenceTheorems,
        WellFoundedInduction

(* Every definition runs a canonicalization program of its own, so that    *)
(* sizeScratch considers each under the target it is reached through.      *)
Unshared == Considered = Definitions

-----------------------------------------------------------------------------
(***************************************************************************)
(* Least and greatest elements.                                            *)
(***************************************************************************)

(* A nonempty set of naturals has a least element.                         *)
LEMMA LeastExists ==
  ASSUME NEW S, S \subseteq Nat, S # {}
  PROVE  \E n \in S : \A m \in S : n <= m
<1>1. \E n \in S : \A m \in S : ~(<<m, n>> \in OpToRel(<, Nat))
  BY NatLessThanWellFounded, WFMin
<1>2. PICK n \in S : \A m \in S : ~(<<m, n>> \in OpToRel(<, Nat))
  BY <1>1
<1>3. ASSUME NEW m \in S PROVE n <= m
  <2>1. m \in Nat /\ n \in Nat
    OBVIOUS
  <2>2. ~(m < n)
    BY <1>2, <1>3, <2>1 DEF OpToRel
  <2> QED BY <2>1, <2>2
<1> QED BY <1>2, <1>3

(* Least picks an element below all others.                                *)
LEMMA LeastIsLeast ==
  ASSUME NEW S, S \subseteq Nat, S # {}
  PROVE  Least(S) \in S /\ \A m \in S : Least(S) <= m
BY LeastExists DEF Least

(* A nonempty bounded set of naturals has a greatest element: the one      *)
(* closest to the bound.                                                   *)
LEMMA GreatestIsGreatest ==
  ASSUME NEW k \in Nat, NEW S, S \subseteq 0 .. k, S # {}
  PROVE  Greatest(S) \in S /\ \A m \in S : m <= Greatest(S)
<1> DEFINE D == { n \in Nat : \E m \in S : n = k - m }
<1>1. D # {} /\ D \subseteq Nat
  <2>1. PICK m \in S : TRUE
    OBVIOUS
  <2>2. k - m \in Nat
    OBVIOUS
  <2>3. k - m \in D
    BY <2>2
  <2> QED BY <2>3
<1>2. PICK n \in D : \A m \in D : n <= m
  BY <1>1, LeastExists
<1>3. PICK g \in S : n = k - g
  BY <1>2
<1>4. ASSUME NEW m \in S PROVE m <= g
  <2>1. k - m \in D
    OBVIOUS
  <2>2. k - g <= k - m
    BY <2>1, <1>2, <1>3
  <2>3. m \in Int /\ g \in Int
    OBVIOUS
  <2> QED BY <2>2, <2>3
<1> QED BY <1>4 DEF Greatest

-----------------------------------------------------------------------------
(***************************************************************************)
(* Code points of a string.                                                *)
(***************************************************************************)

(* A decoded code point ends within the string.                            *)
LEMMA RuneSizeBound ==
  ASSUME NEW s \in Seq(Byte), NEW o \in 0 .. Len(s) - 1
  PROVE  RuneSize(s, o) \in 1 .. Len(s) - o
<1>1. Len(s) \in Nat
  BY LenProperties
<1>2. LeadWidth(s[o + 1]) \in 1 .. 4
  BY DEF LeadWidth
<1>3. CASE WellFormedAt(s, o)
  <2>1. o + LeadWidth(s[o + 1]) <= Len(s)
    BY <1>3 DEF WellFormedAt
  <2> QED BY <1>1, <1>2, <1>3, <2>1 DEF RuneSize
<1>4. CASE ~WellFormedAt(s, o)
  BY <1>1, <1>4 DEF RuneSize
<1> QED BY <1>3, <1>4

LEMMA RuneCountType ==
  ASSUME NEW s \in Seq(Byte)
  PROVE  RuneCount(s) \in Nat
<1>1. Len(s) \in Nat
  BY LenProperties
<1>2. IsFiniteSet(0 .. Len(s) - 1)
  BY <1>1, FS_Interval
<1>3. RuneStarts(s) \subseteq 0 .. Len(s) - 1
  BY DEF RuneStarts
<1> QED BY <1>2, <1>3, FS_Subset, FS_CardinalityType DEF RuneCount

(* Where trimming stops, at either end.                                    *)
LEMMA TrimBounds ==
  ASSUME NEW s \in Seq(Byte)
  PROVE  /\ TrimStart(s) \in 0 .. Len(s)
         /\ TrimEnd(s) \in TrimStart(s) .. Len(s)
<1>1. Len(s) \in Nat
  BY LenProperties
<1>2. NonSpaces(s) \subseteq 0 .. Len(s) - 1
  BY DEF NonSpaces, RuneStarts
<1>3. TrimStart(s) \in 0 .. Len(s)
  <2> DEFINE S == NonSpaces(s) \cup { Len(s) }
  <2>1. S \subseteq Nat /\ S \subseteq 0 .. Len(s) /\ S # {}
    BY <1>1, <1>2
  <2>2. Least(S) \in S
    BY <2>1, LeastIsLeast
  <2> QED BY <2>1, <2>2 DEF TrimStart
<1>4. TrimEnd(s) \in TrimStart(s) .. Len(s)
  <2> DEFINE E == { o + RuneSize(s, o) : o \in NonSpaces(s) }
  <2> DEFINE S == E \cup { TrimStart(s) }
  <2>1. ASSUME NEW o \in NonSpaces(s) PROVE o + RuneSize(s, o) \in 0 .. Len(s)
    <3>1. o \in 0 .. Len(s) - 1
      BY <1>2
    <3>2. RuneSize(s, o) \in 1 .. Len(s) - o
      BY <3>1, RuneSizeBound
    <3> QED BY <1>1, <3>1, <3>2
  <2>2. S \subseteq 0 .. Len(s) /\ S # {}
    BY <1>3, <2>1
  <2>3. Greatest(S) \in S /\ \A m \in S : m <= Greatest(S)
    BY <1>1, <2>2, GreatestIsGreatest
  <2>4. TrimEnd(s) = Greatest(S)
    BY DEF TrimEnd
  <2>5. TrimStart(s) <= Greatest(S)
    BY <2>3
  <2>6. Greatest(S) \in 0 .. Len(s)
    BY <2>2, <2>3
  <2> HIDE DEF S
  <2> QED BY <1>1, <1>3, <2>4, <2>5, <2>6
<1> QED BY <1>3, <1>4

LEMMA FilterCutBounds ==
  ASSUME NEW s \in Seq(Byte), NEW step
  PROVE  FilterCut(step, s) \in 0 .. Len(s)
<1>1. Len(s) \in Nat
  BY LenProperties
<1> DEFINE S == { o \in RuneStarts(s) : ~Keeps(step, s, o) } \cup { Len(s) }
<1>2. S \subseteq 0 .. Len(s) /\ S \subseteq Nat /\ S # {}
  BY <1>1 DEF RuneStarts
<1>3. Least(S) \in S
  BY <1>2, LeastIsLeast
<1> QED BY <1>2, <1>3 DEF FilterCut

(* n copies of a nonempty sequence are at most as long as m >= n copies.   *)
LEMMA Times ==
  ASSUME NEW a \in Nat, NEW b \in Nat, NEW c \in Nat, a <= b
  PROVE  a * c \in Nat /\ a * c <= b * c
<1>1. b * c = a * c + (b - a) * c
  OBVIOUS
<1>2. a * c \in Nat /\ (b - a) * c \in Nat
  OBVIOUS
<1> QED BY <1>1, <1>2

LEMMA RepeatType ==
  ASSUME NEW pad \in Seq(Byte), NEW n \in Nat
  PROVE  Repeat(pad, n) \in Seq(Byte) /\ Len(Repeat(pad, n)) = n * Len(pad)
<1>1. Len(pad) \in Nat /\ n * Len(pad) \in Nat
  BY LenProperties, Times
<1>2. ASSUME NEW k \in 1 .. n * Len(pad)
      PROVE  pad[((k - 1) % Len(pad)) + 1] \in Byte
  <2>1. Len(pad) # 0
    BY <1>1
  <2>2. (k - 1) % Len(pad) \in 0 .. Len(pad) - 1
    BY <1>1, <2>1
  <2>3. ((k - 1) % Len(pad)) + 1 \in 1 .. Len(pad)
    BY <1>1, <2>2
  <2> QED BY <2>3, ElementOfSeq
<1>3. Repeat(pad, n) \in [1 .. n * Len(pad) -> Byte]
  BY <1>2 DEF Repeat
<1> QED BY <1>1, <1>3

-----------------------------------------------------------------------------
(***************************************************************************)
(* Room in the scratch array.                                              *)
(***************************************************************************)

(* Where the value lies, or will lie once loaded.                          *)
LoOf(buf) == IF buf.loaded THEN buf.lo ELSE LeftMargin
HiOf(buf) == IF buf.loaded THEN buf.hi ELSE LeftMargin + Len(buf.src)

(* The value fits, with left bytes to spare before it and right after it.  *)
Fits(buf, left, right) ==
  /\ buf \in Buf
  /\ left <= LoOf(buf)
  /\ LoOf(buf) <= HiOf(buf)
  /\ HiOf(buf) + right <= ScratchSize

LEMMA SizesType == LeftMargin \in Nat /\ ScratchSize \in Nat
BY SizingAssumption

LEMMA EdgesType ==
  ASSUME NEW buf \in Buf
  PROVE  LoOf(buf) \in Nat /\ HiOf(buf) \in Nat
BY SizingAssumption, LenProperties DEF Buf, LoOf, HiOf

LEMMA StrType ==
  ASSUME NEW buf, NEW left \in Nat, NEW right \in Nat, Fits(buf, left, right)
  PROVE  Str(buf) \in Seq(Byte) /\ Len(Str(buf)) = HiOf(buf) - LoOf(buf)
<1>1. CASE buf.loaded
  <2>1. buf.lo \in Nat /\ buf.hi \in Nat /\ buf.lo <= buf.hi
        /\ buf.hi <= ScratchSize /\ buf.b \in [1 .. ScratchSize -> Byte]
    BY <1>1, SizingAssumption DEF Fits, LoOf, HiOf, Buf
  <2>2. \A i \in buf.lo + 1 .. buf.hi : buf.b[i] \in Byte
    BY <2>1, SizingAssumption
  <2>3. /\ SubSeq(buf.b, buf.lo + 1, buf.hi) \in Seq(Byte)
        /\ Len(SubSeq(buf.b, buf.lo + 1, buf.hi)) =
             IF buf.lo + 1 <= buf.hi THEN buf.hi - (buf.lo + 1) + 1 ELSE 0
    BY <2>1, <2>2, SubSeqProperties
  <2> QED BY <1>1, <2>1, <2>3 DEF Str, Slice, LoOf, HiOf
<1>2. CASE ~buf.loaded
  BY <1>2, SizingAssumption, LenProperties DEF Fits, Buf, Str, LoOf, HiOf
<1> QED BY <1>1, <1>2

LEMMA CopiedType ==
  ASSUME NEW b \in [1 .. ScratchSize -> Byte], NEW offset \in Nat,
         NEW s \in Seq(Byte)
  PROVE  Copied(b, offset, s) \in [1 .. ScratchSize -> Byte]
<1>1. Len(s) \in Nat /\ \A i \in 1 .. Len(s) : s[i] \in Byte
  BY LenProperties, ElementOfSeq
<1>2. ASSUME NEW k \in 1 .. ScratchSize, k \in offset + 1 .. offset + Len(s)
      PROVE  s[k - offset] \in Byte
  BY <1>1, <1>2
<1> QED BY <1>2 DEF Copied

(* Loading moves nothing out of place: what fits unloaded fits loaded.     *)
LEMMA LoadFits ==
  ASSUME NEW buf, NEW left \in Nat, NEW right \in Nat, Fits(buf, left, right)
  PROVE  /\ Fits(Load(buf), left, right)
         /\ Load(buf).loaded
         /\ Load(buf).lo = LoOf(buf) /\ Load(buf).hi = HiOf(buf)
<1>1. CASE buf.loaded
  BY <1>1 DEF Load, LoOf, HiOf
<1>2. CASE ~buf.loaded
  <2>1. buf \in Buf /\ LeftMargin + Len(buf.src) <= ScratchSize
        /\ Len(buf.src) \in Nat /\ left <= LeftMargin
        /\ LeftMargin + Len(buf.src) + right <= ScratchSize
    BY <1>2, SizingAssumption, LenProperties DEF Fits, LoOf, HiOf, Buf
  <2>2. Copied(buf.b, LeftMargin, buf.src) \in [1 .. ScratchSize -> Byte]
    BY <2>1, CopiedType, SizingAssumption DEF Buf
  <2>3. CopyCount(LeftMargin, buf.src) = Len(buf.src)
    BY <2>1 DEF CopyCount
  <2>4. Load(buf) = [b |-> Copied(buf.b, LeftMargin, buf.src),
                     lo |-> LeftMargin, hi |-> LeftMargin + Len(buf.src),
                     src |-> buf.src, loaded |-> TRUE]
    BY <1>2, <2>1, <2>3 DEF Load, Buf
  <2>5. Load(buf) \in Buf
    BY <2>1, <2>2, <2>4, SizingAssumption DEF Buf
  <2> QED BY <1>2, <2>1, <2>4, <2>5, SizingAssumption DEF Fits, LoOf, HiOf
<1> QED BY <1>1, <1>2

(* A loaded value moved to other edges.                                    *)
LEMMA EdgesFit ==
  ASSUME NEW buf \in Buf, buf.loaded,
         NEW b \in [1 .. ScratchSize -> Byte], NEW lo \in Nat, NEW hi \in Nat,
         NEW left \in Nat, NEW right \in Nat,
         left <= lo, lo <= hi, hi + right <= ScratchSize
  PROVE  Fits([buf EXCEPT !.b = b, !.lo = lo, !.hi = hi], left, right)
BY DEF Fits, LoOf, HiOf, Buf

LEMMA TrimWhitespaceFits ==
  ASSUME NEW buf, NEW left \in Nat, NEW right \in Nat, Fits(buf, left, right)
  PROVE  Fits(TrimWhitespace(buf), left, right)
<1> DEFINE s == Str(buf)
           loaded == Load(buf)
           lo == loaded.lo + TrimStart(s)
           hi == loaded.lo + TrimEnd(s)
<1>1. s \in Seq(Byte) /\ Len(s) = HiOf(buf) - LoOf(buf)
  BY StrType
<1>2. /\ loaded \in Buf /\ loaded.loaded
      /\ loaded.lo = LoOf(buf) /\ loaded.hi = HiOf(buf)
  BY LoadFits DEF Fits
<1>3. LoOf(buf) \in Nat /\ HiOf(buf) \in Nat /\ left <= LoOf(buf)
      /\ LoOf(buf) <= HiOf(buf) /\ HiOf(buf) + right <= ScratchSize
  BY EdgesType DEF Fits
<1>4. TrimStart(s) \in 0 .. Len(s) /\ TrimEnd(s) \in TrimStart(s) .. Len(s)
  BY <1>1, TrimBounds
<1>5. lo \in Nat /\ hi \in Nat /\ left <= lo /\ lo <= hi /\ hi + right <= ScratchSize
  <2> HIDE DEF s, loaded
  <2>1. Len(s) \in Nat
    BY <1>1, LenProperties
  <2> QED BY <2>1, <1>1, <1>2, <1>3, <1>4, SizesType
<1>6. [loaded EXCEPT !.lo = lo, !.hi = hi] =
        [loaded EXCEPT !.b = loaded.b, !.lo = lo, !.hi = hi]
  BY <1>2 DEF Buf
<1>7. Fits([loaded EXCEPT !.lo = lo, !.hi = hi], left, right)
  BY <1>2, <1>5, <1>6, EdgesFit DEF Buf
<1> QED BY <1>7 DEF TrimWhitespace

LEMMA UppercaseASCIIFits ==
  ASSUME NEW buf, NEW left \in Nat, NEW right \in Nat, Fits(buf, left, right)
  PROVE  Fits(UppercaseASCII(buf), left, right)
<1> DEFINE loaded == Load(buf)
           b == [k \in 1 .. ScratchSize |->
                   IF k \in loaded.lo + 1 .. loaded.hi /\ IsASCIILower(loaded.b[k])
                   THEN loaded.b[k] - 32 ELSE loaded.b[k]]
<1>1. Fits(loaded, left, right) /\ loaded.loaded /\ loaded \in Buf
  BY LoadFits DEF Fits
<1>2. b \in [1 .. ScratchSize -> Byte]
  <2>1. \A k \in 1 .. ScratchSize : loaded.b[k] \in Byte
    BY <1>1 DEF Buf
  <2> QED BY <2>1, SMTT(60) DEF Byte, IsASCIILower
<1>3. [loaded EXCEPT !.b = b] =
        [loaded EXCEPT !.b = b, !.lo = loaded.lo, !.hi = loaded.hi]
  BY <1>1 DEF Buf
<1>4. loaded.lo \in Nat /\ loaded.hi \in Nat /\ left <= loaded.lo
      /\ loaded.lo <= loaded.hi /\ loaded.hi + right <= ScratchSize
  BY <1>1 DEF Fits, LoOf, HiOf, Buf
<1> HIDE DEF b
<1>5. Fits([loaded EXCEPT !.b = b], left, right)
  BY <1>1, <1>2, <1>3, <1>4, EdgesFit
<1> QED BY <1>5 DEF UppercaseASCII, b

(* With n bytes to spare before the value, the fallback is not taken.      *)
LEMMA ShiftLeftEdgeFits ==
  ASSUME NEW buf, buf.loaded, NEW n \in Nat, NEW left \in Nat, NEW right \in Nat,
         Fits(buf, left + n, right)
  PROVE  /\ Fits(ShiftLeftEdge(buf, n), left, right)
         /\ ShiftLeftEdge(buf, n).loaded
<1>1. /\ buf \in Buf /\ buf.lo \in Nat /\ buf.hi \in Nat
      /\ left + n <= buf.lo /\ buf.lo <= buf.hi /\ buf.hi + right <= ScratchSize
  BY DEF Fits, LoOf, HiOf, Buf
<1>2. buf.lo >= n /\ buf.lo - n \in Nat /\ left <= buf.lo - n /\ buf.lo - n <= buf.hi
  BY <1>1
<1>3. ShiftLeftEdge(buf, n) = [buf EXCEPT !.lo = buf.lo - n]
  BY <1>2 DEF ShiftLeftEdge
<1>4. [buf EXCEPT !.lo = buf.lo - n] =
        [buf EXCEPT !.b = buf.b, !.lo = buf.lo - n, !.hi = buf.hi]
  BY <1>1 DEF Buf
<1>5. buf.b \in [1 .. ScratchSize -> Byte]
  BY <1>1 DEF Buf
<1>6. Fits([buf EXCEPT !.b = buf.b, !.lo = buf.lo - n, !.hi = buf.hi], left, right)
  BY <1>1, <1>2, <1>5, EdgesFit
<1>7. [buf EXCEPT !.lo = buf.lo - n].loaded
  BY <1>1 DEF Buf
<1> QED BY <1>3, <1>4, <1>6, <1>7

LEMMA WriteAtLoFits ==
  ASSUME NEW buf, buf.loaded, NEW text \in Seq(Byte),
         NEW left \in Nat, NEW right \in Nat, Fits(buf, left, right)
  PROVE  Fits(WriteAtLo(buf, text), left, right)
<1>1. buf \in Buf /\ buf.lo \in Nat /\ buf.b \in [1 .. ScratchSize -> Byte]
  BY DEF Fits, Buf
<1>2. Copied(buf.b, buf.lo, text) \in [1 .. ScratchSize -> Byte]
  BY <1>1, CopiedType
<1> QED BY <1>1, <1>2 DEF WriteAtLo, Fits, LoOf, HiOf, Buf

LEMMA ReplacePrefixFits ==
  ASSUME NEW buf, NEW from \in Seq(Byte), NEW to \in Seq(Byte),
         NEW left \in Nat, NEW right \in Nat,
         Fits(buf, left + (IF Len(to) > Len(from) THEN Len(to) - Len(from) ELSE 0),
              right)
  PROVE  Fits(ReplacePrefix(buf, from, to), left, right)
<1> DEFINE loaded == Load(buf)
           n == IF Len(to) > Len(from) THEN Len(to) - Len(from) ELSE 0
<1>1. Len(from) \in Nat /\ Len(to) \in Nat /\ n \in Nat
  BY LenProperties
<1>2. /\ Fits(loaded, left + n, right) /\ loaded.loaded
      /\ loaded.lo = LoOf(buf) /\ loaded.hi = HiOf(buf)
  BY <1>1, LoadFits
<1>3. CASE ~HasPrefix(Str(buf), from)
  BY <1>1, <1>3, EdgesType DEF ReplacePrefix, Fits
<1>4. CASE HasPrefix(Str(buf), from) /\ Len(to) <= Len(from)
  <2> DEFINE lo == loaded.lo + (Len(from) - Len(to))
  <2>1. Len(from) <= HiOf(buf) - LoOf(buf)
    BY <1>1, <1>4, StrType DEF HasPrefix
  <2>2. loaded \in Buf /\ loaded.lo \in Nat /\ loaded.hi \in Nat
        /\ left <= loaded.lo /\ loaded.hi + right <= ScratchSize
        /\ loaded.b \in [1 .. ScratchSize -> Byte]
    BY <1>1, <1>2, <1>4 DEF Fits, LoOf, HiOf, Buf
  <2>3. lo \in Nat /\ left <= lo /\ lo <= loaded.hi
    BY <1>1, <1>2, <1>4, <2>1, <2>2
  <2>4. [loaded EXCEPT !.lo = lo] =
          [loaded EXCEPT !.b = loaded.b, !.lo = lo, !.hi = loaded.hi]
    BY <2>2 DEF Buf
  <2> HIDE DEF loaded, lo
  <2>5. Fits([loaded EXCEPT !.lo = lo], left, right)
        /\ [loaded EXCEPT !.lo = lo].loaded
    <3>1. Fits([loaded EXCEPT !.b = loaded.b, !.lo = lo, !.hi = loaded.hi],
               left, right)
      BY <1>2, <2>2, <2>3, EdgesFit
    <3> QED BY <1>2, <2>2, <2>4, <3>1 DEF Buf
  <2>6. Fits(WriteAtLo([loaded EXCEPT !.lo = lo], to), left, right)
    BY <2>5, WriteAtLoFits
  <2> QED BY <1>4, <2>6 DEF ReplacePrefix, loaded, lo
<1>5. CASE HasPrefix(Str(buf), from) /\ Len(to) > Len(from)
  <2>1. n = Len(to) - Len(from)
    BY <1>5
  <2> HIDE DEF n, loaded
  <2>2. /\ Fits(ShiftLeftEdge(loaded, n), left, right)
        /\ ShiftLeftEdge(loaded, n).loaded
    BY <1>1, <1>2, ShiftLeftEdgeFits
  <2>3. Fits(WriteAtLo(ShiftLeftEdge(loaded, n), to), left, right)
    BY <2>2, WriteAtLoFits
  <2>4. ReplacePrefix(buf, from, to) = WriteAtLo(ShiftLeftEdge(loaded, n), to)
    BY <1>1, <1>5, <2>1 DEF ReplacePrefix, loaded
  <2> QED BY <2>3, <2>4
<1> QED BY <1>1, <1>3, <1>4, <1>5

LEMMA PrependFits ==
  ASSUME NEW buf, NEW text \in Seq(Byte), NEW left \in Nat, NEW right \in Nat,
         Fits(buf, left + Len(text), right)
  PROVE  Fits(Prepend(buf, text), left, right)
<1>1. Len(text) \in Nat
  BY LenProperties
<1>2. Fits(Load(buf), left + Len(text), right) /\ Load(buf).loaded
  BY <1>1, LoadFits
<1>3. /\ Fits(ShiftLeftEdge(Load(buf), Len(text)), left, right)
      /\ ShiftLeftEdge(Load(buf), Len(text)).loaded
  BY <1>1, <1>2, ShiftLeftEdgeFits
<1> QED BY <1>3, WriteAtLoFits DEF Prepend

LEMMA AppendTextFits ==
  ASSUME NEW buf, NEW text \in Seq(Byte), NEW left \in Nat, NEW right \in Nat,
         Fits(buf, left, Len(text) + right)
  PROVE  Fits(AppendText(buf, text), left, right)
<1> DEFINE loaded == Load(buf)
<1>1. Len(text) \in Nat
  BY LenProperties
<1>2. Fits(loaded, left, Len(text) + right) /\ loaded.loaded
  BY <1>1, LoadFits
<1> HIDE DEF loaded
<1>3. /\ loaded \in Buf /\ loaded.b \in [1 .. ScratchSize -> Byte]
      /\ loaded.lo \in Nat /\ loaded.hi \in Nat
      /\ left <= loaded.lo /\ loaded.lo <= loaded.hi
      /\ loaded.hi + Len(text) + right <= ScratchSize
  BY <1>1, <1>2 DEF Fits, LoOf, HiOf, Buf
<1>4. CopyCount(loaded.hi, text) = Len(text)
  BY <1>1, <1>3, SizesType DEF CopyCount
<1>5. Copied(loaded.b, loaded.hi, text) \in [1 .. ScratchSize -> Byte]
  BY <1>3, CopiedType
<1>6. AppendText(buf, text) =
        [loaded EXCEPT !.b = Copied(loaded.b, loaded.hi, text), !.lo = loaded.lo,
                       !.hi = loaded.hi + Len(text)]
  BY <1>3, <1>4 DEF AppendText, loaded, Buf
<1>7. loaded.hi + Len(text) \in Nat /\ loaded.lo <= loaded.hi + Len(text)
  BY <1>1, <1>3
<1>8. Fits([loaded EXCEPT !.b = Copied(loaded.b, loaded.hi, text), !.lo = loaded.lo,
                          !.hi = loaded.hi + Len(text)], left, right)
  BY <1>2, <1>3, <1>5, <1>7, EdgesFit
<1> QED BY <1>6, <1>8

LEMMA InsertFits ==
  ASSUME NEW buf, NEW index \in Nat, NEW text \in Seq(Byte),
         NEW left \in Nat, NEW right \in Nat,
         Fits(buf, left, Len(text) + right)
  PROVE  Fits(Insert(buf, index, text), left, right)
<1> DEFINE loaded == Load(buf)
           off == loaded.lo + RuneOffset(Str(buf), index)
           tail == Slice(loaded.b, off, loaded.hi)
           shifted == Copied(loaded.b, off + Len(text), tail)
<1>1. Len(text) \in Nat
  BY LenProperties
<1>2. /\ Fits(loaded, left, Len(text) + right) /\ loaded.loaded
      /\ loaded.lo = LoOf(buf) /\ loaded.hi = HiOf(buf)
  BY <1>1, LoadFits
<1>3. Str(buf) \in Seq(Byte) /\ Len(Str(buf)) = loaded.hi - loaded.lo
  BY <1>1, <1>2, StrType
<1>4. /\ loaded \in Buf /\ loaded.b \in [1 .. ScratchSize -> Byte]
      /\ loaded.lo \in Nat /\ loaded.hi \in Nat
      /\ left <= loaded.lo /\ loaded.lo <= loaded.hi
      /\ loaded.hi + Len(text) + right <= ScratchSize
  BY <1>1, <1>2, SMTT(30) DEF Fits, LoOf, HiOf, Buf
<1>5. CASE ~HasRuneOffset(Str(buf), index)
  <2>1. Insert(buf, index, text) = buf
    BY <1>5 DEF Insert
  <2> QED BY <1>1, <2>1, EdgesType, SizesType DEF Fits
<1>6. CASE HasRuneOffset(Str(buf), index)
  <2>1. RuneOffset(Str(buf), index) \in 0 .. Len(Str(buf))
    BY <1>6 DEF HasRuneOffset, RuneOffset
  <2>2. off \in Nat /\ loaded.lo <= off /\ off <= loaded.hi
    BY <1>3, <1>4, <2>1, SMTT(60)
  <2> HIDE DEF loaded, off
  <2>3. \A i \in off + 1 .. loaded.hi : loaded.b[i] \in Byte
    BY <1>1, <1>4, <2>2, SizesType
  <2>4. tail \in Seq(Byte)
    BY <1>4, <2>2, <2>3, SubSeqProperties DEF Slice
  <2>5. shifted \in [1 .. ScratchSize -> Byte]
    BY <1>1, <1>4, <2>2, <2>4, CopiedType
  <2> HIDE DEF shifted, tail
  <2>6. Copied(shifted, off, text) \in [1 .. ScratchSize -> Byte]
    BY <2>2, <2>5, CopiedType
  <2>7. Insert(buf, index, text) =
          [loaded EXCEPT !.b = Copied(shifted, off, text), !.lo = loaded.lo,
                         !.hi = loaded.hi + Len(text)]
    BY <1>4, <1>6 DEF Insert, loaded, off, tail, shifted, Buf
  <2>8. loaded.hi + Len(text) \in Nat /\ loaded.lo <= loaded.hi + Len(text)
    BY <1>1, <1>4
  <2>9. Fits([loaded EXCEPT !.b = Copied(shifted, off, text), !.lo = loaded.lo,
                            !.hi = loaded.hi + Len(text)], left, right)
    BY <1>2, <1>4, <2>6, <2>8, EdgesFit
  <2> QED BY <2>7, <2>9
<1> QED BY <1>5, <1>6

LEMMA LeftPadFits ==
  ASSUME NEW buf, NEW length \in Nat, NEW pad \in Seq(Byte),
         NEW left \in Nat, NEW right \in Nat,
         Fits(buf, left + length * Len(pad), right)
  PROVE  Fits(LeftPad(buf, length, pad), left, right)
<1> DEFINE count == RuneCount(Str(buf))
           missing == length - count
           n == missing * Len(pad)
<1>1. Len(pad) \in Nat /\ length * Len(pad) \in Nat
  BY LenProperties, Times
<1>2. count \in Nat
  BY <1>1, StrType, RuneCountType
<1>3. CASE count >= length
  <2>1. LeftPad(buf, length, pad) = buf
    BY <1>3 DEF LeftPad
  <2> QED BY <1>1, <2>1, EdgesType DEF Fits
<1>4. CASE ~(count >= length)
  <2> HIDE DEF count
  <2>1. missing \in Nat /\ missing <= length
    BY <1>2, <1>4
  <2>2. n \in Nat /\ n <= length * Len(pad)
    BY <1>1, <2>1, Times
  <2> HIDE DEF missing, n
  <2>3. left + (length * Len(pad) - n) \in Nat
    BY <1>1, <2>2
  <2>4. Fits(buf, left + n, right)
    BY <1>1, <2>2, EdgesType DEF Fits
  <2>5. Fits(Load(buf), left + n, right) /\ Load(buf).loaded
    BY <2>2, <2>4, LoadFits
  <2>6. /\ Fits(ShiftLeftEdge(Load(buf), n), left, right)
        /\ ShiftLeftEdge(Load(buf), n).loaded
    BY <2>2, <2>5, ShiftLeftEdgeFits
  <2>7. Repeat(pad, missing) \in Seq(Byte)
    BY <2>1, RepeatType
  <2>8. Fits(WriteAtLo(ShiftLeftEdge(Load(buf), n), Repeat(pad, missing)), left, right)
    BY <2>6, <2>7, WriteAtLoFits
  <2>9. LeftPad(buf, length, pad) =
          WriteAtLo(ShiftLeftEdge(Load(buf), n), Repeat(pad, missing))
    BY <1>4 DEF LeftPad, missing, count, n
  <2> QED BY <2>8, <2>9
<1> QED BY <1>3, <1>4

LEMMA PrependCountryFits ==
  ASSUME NEW buf, NEW target \in Target, NEW left \in Nat, NEW right \in Nat,
         Fits(buf, left + Len(target.lead), right)
  PROVE  Fits(PrependCountry(buf, target), left, right)
<1>1. target.lead \in Seq(Byte) /\ Len(target.lead) \in Nat
  BY LenProperties DEF Target
<1>2. Fits(buf, left, right)
  BY <1>1, EdgesType DEF Fits
<1>3. Fits(Prepend(buf, target.lead), left, right)
  BY <1>1, PrependFits
<1> QED BY <1>2, <1>3 DEF PrependCountry

-----------------------------------------------------------------------------
(***************************************************************************)
(* What the remaining steps can add.                                       *)
(***************************************************************************)

LEMMA CompiledType ==
  ASSUME NEW d \in Definitions
  PROVE  /\ Compiled(d) \in Seq(Step)
         /\ Len(Compiled(d)) \in Nat
         /\ \A i \in 1 .. Len(Compiled(d)) : Compiled(d)[i] \in Step
<1>1. PreSteps[d] \in Seq(Step) /\ Steps[ProgramOf[d]] \in Seq(Step)
  BY BundleAssumption DEF ProgramsAccepted, Programs
<1>2. Compiled(d) \in Seq(Step)
  BY <1>1, ConcatProperties DEF Compiled
<1> QED BY <1>2, LenProperties, ElementOfSeq

(* A WHEN guards steps that follow it.                                     *)
LEMMA WhenBounds ==
  ASSUME NEW d \in Definitions, NEW i \in 1 .. Len(Compiled(d)),
         Compiled(d)[i].op = "WHEN"
  PROVE  i + Compiled(d)[i].number <= Len(Compiled(d))
<1> DEFINE pre == PreSteps[d]
           prog == Steps[ProgramOf[d]]
<1>1. pre \in Seq(Step) /\ prog \in Seq(Step)
  BY BundleAssumption DEF ProgramsAccepted, Programs
<1>2. /\ Len(Compiled(d)) = Len(pre) + Len(prog)
      /\ Len(pre) \in Nat /\ Len(prog) \in Nat
      /\ Compiled(d)[i] = IF i <= Len(pre) THEN pre[i] ELSE prog[i - Len(pre)]
  BY <1>1, ConcatProperties, LenProperties DEF Compiled
<1>3. ~(i <= Len(pre))
  <2> SUFFICES ASSUME i <= Len(pre) PROVE FALSE
    OBVIOUS
  <2>1. i \in 1 .. Len(pre)
    BY <1>2
  <2>2. i \in DOMAIN pre
    BY <1>1, <2>1, LenProperties
  <2>3. pre[i].op \in PreCanonicalizationOps
    BY <2>2, BundleAssumption DEF ProgramsAccepted
  <2> QED BY <1>2, <2>3 DEF PreCanonicalizationOps
<1>4. i - Len(pre) \in 1 .. Len(prog)
  <2> HIDE DEF pre, prog
  <2>1. i \in Nat /\ i <= Len(pre) + Len(prog)
    <3>1. Len(Compiled(d)) \in Nat
      BY CompiledType
    <3> QED BY <1>2, <3>1
  <2> QED BY <1>2, <1>3, <2>1
<1>5. i - Len(pre) \in DOMAIN prog
  BY <1>1, <1>4, LenProperties
<1>6. ProgramOf[d] \in Programs
  BY DEF Programs
<1>7. prog[i - Len(pre)].op = "WHEN" => i - Len(pre) + prog[i - Len(pre)].number <= Len(prog)
  BY <1>5, <1>6, BundleAssumption DEF ProgramsAccepted
<1>8. prog[i - Len(pre)] \in Step
  BY <1>1, <1>4, ElementOfSeq
<1> HIDE DEF pre, prog
<1>9. Compiled(d)[i] = prog[i - Len(pre)] /\ Compiled(d)[i].number \in Nat
  BY <1>2, <1>3, <1>8 DEF Step
<1> QED BY <1>2, <1>7, <1>9

LEMMA StepGrowthType ==
  ASSUME NEW step \in Step, NEW target \in Target
  PROVE  LeftGrowth(step, target) \in Nat /\ RightGrowth(step) \in Nat
<1>1. /\ Len(step.text) \in Nat /\ Len(step.replacement) \in Nat
      /\ Len(target.lead) \in Nat /\ step.number \in Nat
  BY LenProperties DEF Step, Target
<1>2. step.number * Len(step.text) \in Nat
  BY <1>1, Times
<1> QED BY <1>1, <1>2 DEF LeftGrowth, RightGrowth

(* The growth from a step on is the growth of the step and of the rest.    *)
LEMMA GrowthUnfolds ==
  ASSUME NEW d \in Definitions, NEW i \in 1 .. Len(Compiled(d))
  PROVE  /\ GrowthFrom[d][i].left =
              LeftGrowth(Compiled(d)[i], TargetOf[d]) + GrowthFrom[d][i + 1].left
         /\ GrowthFrom[d][i].right =
              RightGrowth(Compiled(d)[i]) + GrowthFrom[d][i + 1].right
<1> DEFINE last == Len(Compiled(d)) + 1
<1>1. i \in 1 .. last - 1
  BY CompiledType
<1>2. GrowthFrom[d][i] =
        [left  |-> LeftGrowth(Compiled(d)[i], TargetOf[d])
                     + GrowthFrom[d][i + 1].left,
         right |-> RightGrowth(Compiled(d)[i]) + GrowthFrom[d][i + 1].right]
  BY <1>1, GrowthAssumption
<1> QED BY <1>2

LEMMA GrowthType ==
  ASSUME NEW d \in Definitions, NEW i \in 1 .. Len(Compiled(d)) + 1
  PROVE  GrowthFrom[d][i].left \in Nat /\ GrowthFrom[d][i].right \in Nat
BY GrowthAssumption DEF Growth

(* Steps that are skipped only leave more room.                            *)
LEMMA GrowthShrinks ==
  ASSUME NEW d \in Definitions, NEW i \in 1 .. Len(Compiled(d)) + 1,
         NEW j \in i .. Len(Compiled(d)) + 1
  PROVE  /\ GrowthFrom[d][j].left <= GrowthFrom[d][i].left
         /\ GrowthFrom[d][j].right <= GrowthFrom[d][i].right
<1> DEFINE last == Len(Compiled(d)) + 1
           Shrunk(n) == /\ GrowthFrom[d][n].left <= GrowthFrom[d][i].left
                        /\ GrowthFrom[d][n].right <= GrowthFrom[d][i].right
           Grown == { n \in i .. last : ~Shrunk(n) }
<1>1. last \in Nat /\ i \in Nat
  BY CompiledType
<1>2. SUFFICES ASSUME Grown # {} PROVE FALSE
  BY <1>1
<1>3. Grown \subseteq Nat
  BY <1>1
<1>4. PICK n \in Grown : \A m \in Grown : n <= m
  BY <1>2, <1>3, LeastExists
<1>5. n # i
  BY <1>4, GrowthType
<1>6. n - 1 \in i .. last /\ n - 1 \in 1 .. Len(Compiled(d)) /\ n \in 1 .. last
  BY <1>1, <1>4, <1>5
<1>7. Shrunk(n - 1)
  BY <1>1, <1>4, <1>6
<1>8. /\ LeftGrowth(Compiled(d)[n - 1], TargetOf[d]) \in Nat
      /\ RightGrowth(Compiled(d)[n - 1]) \in Nat
  BY <1>6, CompiledType, StepGrowthType, BundleAssumption DEF ProgramsAccepted
<1>9. /\ GrowthFrom[d][n - 1].left =
           LeftGrowth(Compiled(d)[n - 1], TargetOf[d]) + GrowthFrom[d][n].left
      /\ GrowthFrom[d][n - 1].right =
           RightGrowth(Compiled(d)[n - 1]) + GrowthFrom[d][n].right
  <2>1. (n - 1) + 1 = n
    BY <1>6
  <2> QED BY <1>6, <2>1, GrowthUnfolds
<1>10. /\ GrowthFrom[d][n].left \in Nat /\ GrowthFrom[d][n].right \in Nat
       /\ GrowthFrom[d][i].left \in Nat /\ GrowthFrom[d][i].right \in Nat
  BY <1>6, GrowthType
<1>11. /\ GrowthFrom[d][n].left <= GrowthFrom[d][n - 1].left
       /\ GrowthFrom[d][n].right <= GrowthFrom[d][n - 1].right
       /\ GrowthFrom[d][n - 1].left \in Nat /\ GrowthFrom[d][n - 1].right \in Nat
  <2> HIDE DEF Shrunk, Grown
  <2> QED BY <1>8, <1>9, <1>10, SMTT(30)
<1>12. /\ GrowthFrom[d][n - 1].left <= GrowthFrom[d][i].left
       /\ GrowthFrom[d][n - 1].right <= GrowthFrom[d][i].right
  BY <1>7
<1>13. Shrunk(n)
  <2> HIDE DEF Grown
  <2>1. GrowthFrom[d][n].left <= GrowthFrom[d][i].left
    BY <1>10, <1>11, <1>12
  <2>2. GrowthFrom[d][n].right <= GrowthFrom[d][i].right
    BY <1>10, <1>11, <1>12
  <2> QED BY <2>1, <2>2
<1> QED BY <1>4, <1>13

-----------------------------------------------------------------------------
(***************************************************************************)
(* The inductive invariant.                                                *)
(***************************************************************************)

(* What the steps from i on of the call in progress can add.               *)
LeftFromStep(i) == GrowthFrom[def][i].left
RightFromStep(i) == GrowthFrom[def][i].right

(* The loop of a filter reads and writes inside the value, and never       *)
(* writes past what it has read.                                           *)
ScanInv ==
  scan.active =>
    /\ w.loaded
    /\ scan.dst <= scan.i
    /\ scan.i <= w.hi - w.lo
    /\ at <= Len(Compiled(def))
    /\ CurrentStep.op \in { "REMOVE_WHITESPACE", "REMOVE_CHARS" }

IInv ==
  /\ def \in Definitions
  /\ at \in 1 .. Len(Compiled(def)) + 1
  /\ scan \in Scan
  /\ answer \in Seq(Byte) \cup { NoAnswer }
  /\ Fits(w, LeftFromStep(at), RightFromStep(at))
  /\ ScanInv

(* A workspace that has room for more has room for less.                   *)
LEMMA FitsLess ==
  ASSUME NEW buf, NEW left \in Nat, NEW right \in Nat,
         NEW left2 \in 0 .. left, NEW right2 \in 0 .. right,
         Fits(buf, left, right)
  PROVE  Fits(buf, left2, right2)
BY EdgesType, SizesType DEF Fits

LEMMA InitIInv == Unshared /\ Init => IInv
<1> SUFFICES ASSUME Unshared, Init PROVE IInv
  OBVIOUS
<1>1. PICK in \in Inputs : w = New(in)
  BY DEF Init
<1>2. in \in Seq(Byte) /\ Len(in) \in Nat /\ Len(in) <= MaxInput
  BY InputsAssumption, LenProperties
<1>3. def \in Definitions /\ def \in Considered /\ at = 1 /\ scan = Idle
      /\ answer = NoAnswer
  BY DEF Init, Unshared
<1>4. at \in 1 .. Len(Compiled(def)) + 1
  BY <1>3, CompiledType
<1>5. LeftFromStep(1) \in Nat /\ RightFromStep(1) \in Nat
  BY <1>3, <1>4, GrowthType DEF LeftFromStep, RightFromStep
<1>6. LeftFromStep(1) <= LeftMargin
  BY <1>3, SizingAssumption DEF LeftFromStep
<1>7. LeftMargin + MaxInput + RightFromStep(1) <= ScratchSize
  BY <1>3, SizingAssumption DEF RightFromStep
<1>8. MaxInput \in Nat
  BY BundleAssumption DEF ProgramsAccepted
<1>9. LeftMargin + Len(in) + RightFromStep(1) <= ScratchSize
      /\ LeftMargin <= LeftMargin + Len(in)
  BY <1>2, <1>5, <1>7, <1>8, SizesType
<1>10. w \in Buf
  BY <1>1, <1>2, SizesType DEF New, Buf, Byte
<1>11. LoOf(w) = LeftMargin /\ HiOf(w) = LeftMargin + Len(in)
  BY <1>1 DEF New, LoOf, HiOf
<1>12. Fits(w, LeftFromStep(at), RightFromStep(at))
  BY <1>3, <1>6, <1>9, <1>10, <1>11 DEF Fits
<1>13. scan \in Scan /\ ScanInv
  BY <1>3 DEF Idle, Scan, ScanInv
<1> QED BY <1>3, <1>4, <1>12, <1>13 DEF IInv

(* A method that leaves room for the remaining steps preserves it.         *)
LEMMA LeavesIInv ==
  ASSUME IInv, at <= Len(Compiled(def)), ~scan.active,
         NEW buf, Leaves(buf),
         Fits(buf, LeftFromStep(at + 1), RightFromStep(at + 1))
  PROVE  IInv'
<1>1. /\ w' = buf /\ at' = at + 1 /\ def' = def /\ scan' = scan
      /\ answer' = answer
  BY DEF Leaves
<1>2. at' \in 1 .. Len(Compiled(def))' + 1
  BY <1>1, CompiledType DEF IInv
<1>3. Fits(w, LeftFromStep(at), RightFromStep(at))'
  BY <1>1 DEF LeftFromStep, RightFromStep
<1>4. ScanInv'
  BY <1>1 DEF ScanInv
<1> QED BY <1>1, <1>2, <1>3, <1>4 DEF IInv

(* The room before a step is its growth and the room after it.             *)
LEMMA RoomForStep ==
  ASSUME IInv, at <= Len(Compiled(def))
  PROVE  /\ at \in 1 .. Len(Compiled(def))
         /\ CurrentStep \in Step /\ TargetOf[def] \in Target
         /\ LeftFromStep(at + 1) \in Nat /\ RightFromStep(at + 1) \in Nat
         /\ LeftFromStep(at) \in Nat /\ RightFromStep(at) \in Nat
         /\ LeftGrowth(CurrentStep, TargetOf[def]) \in Nat
         /\ RightGrowth(CurrentStep) \in Nat
         /\ LeftFromStep(at) =
              LeftFromStep(at + 1) + LeftGrowth(CurrentStep, TargetOf[def])
         /\ RightFromStep(at) = RightGrowth(CurrentStep) + RightFromStep(at + 1)
<1>1. def \in Definitions /\ at \in 1 .. Len(Compiled(def))
      /\ at + 1 \in 1 .. Len(Compiled(def)) + 1
      /\ at \in 1 .. Len(Compiled(def)) + 1
  BY CompiledType DEF IInv
<1>2. CurrentStep \in Step /\ TargetOf[def] \in Target
  BY <1>1, CompiledType, BundleAssumption DEF ProgramsAccepted, CurrentStep
<1>3. /\ LeftFromStep(at + 1) \in Nat /\ RightFromStep(at + 1) \in Nat
      /\ LeftFromStep(at) \in Nat /\ RightFromStep(at) \in Nat
  BY <1>1, GrowthType DEF LeftFromStep, RightFromStep
<1>4. /\ LeftGrowth(CurrentStep, TargetOf[def]) \in Nat
      /\ RightGrowth(CurrentStep) \in Nat
  BY <1>2, StepGrowthType
<1>5. /\ LeftFromStep(at) =
           LeftGrowth(CurrentStep, TargetOf[def]) + LeftFromStep(at + 1)
      /\ RightFromStep(at) = RightGrowth(CurrentStep) + RightFromStep(at + 1)
  BY <1>1, GrowthUnfolds DEF LeftFromStep, RightFromStep, CurrentStep
<1> QED BY <1>1, <1>2, <1>3, <1>4, <1>5

(* One iteration of a filter writes inside what it has read.               *)
LEMMA FilterRuneIInv ==
  ASSUME IInv, FilterRune
  PROVE  IInv'
<1> DEFINE src == Str(w)
           size == RuneSize(src, scan.i)
           kept == SubSeq(src, scan.i + 1, scan.i + size)
           b == Copied(w.b, w.lo + scan.dst, kept)
<1>1. /\ w.loaded /\ scan.dst <= scan.i /\ at <= Len(Compiled(def))
      /\ scan.active /\ scan.i < Len(src) /\ scan.i \in Nat /\ scan.dst \in Nat
  BY DEF FilterRune, IInv, ScanInv, Scan
<1>2. LeftFromStep(at) \in Nat /\ RightFromStep(at) \in Nat
      /\ Fits(w, LeftFromStep(at), RightFromStep(at))
  BY <1>1, RoomForStep DEF IInv
<1>3. src \in Seq(Byte) /\ Len(src) \in Nat /\ Len(src) = w.hi - w.lo
  BY <1>1, <1>2, StrType, LenProperties DEF LoOf, HiOf
<1>4. scan.i \in 0 .. Len(src) - 1
  BY <1>1, <1>3
<1>5. size \in 1 .. Len(src) - scan.i
  BY <1>3, <1>4, RuneSizeBound
<1>6. kept \in Seq(Byte) /\ Len(kept) = size
  <2>1. scan.i + 1 \in 1 .. Len(src) + 1 /\ scan.i + size \in 0 .. Len(src)
        /\ scan.i + 1 <= scan.i + size
    BY <1>3, <1>4, <1>5
  <2>2. \A k \in scan.i + 1 .. scan.i + size : src[k] \in Byte
    BY <1>3, <2>1, ElementOfSeq
  <2> HIDE DEF src, size
  <2> QED BY <1>1, <1>3, <1>5, <2>1, <2>2, SubSeqProperties
<1>7. w \in Buf /\ w.lo \in Nat /\ w.hi \in Nat
      /\ w.b \in [1 .. ScratchSize -> Byte]
  BY <1>2 DEF Fits, Buf
<1>8. b \in [1 .. ScratchSize -> Byte]
  <2>1. w.lo + scan.dst \in Nat
    BY <1>1, <1>7
  <2> HIDE DEF kept
  <2> QED BY <1>6, <1>7, <2>1, CopiedType
<1> HIDE DEF src, size, kept, b
<1>9. /\ \/ w' = [w EXCEPT !.b = b]
            /\ scan' = [scan EXCEPT !.i = @ + size, !.dst = @ + size]
         \/ w' = w
            /\ scan' = [scan EXCEPT !.i = @ + size]
      /\ def' = def /\ at' = at /\ answer' = answer
  BY <1>6 DEF FilterRune, src, size, kept, b
<1>10. Fits(w', LeftFromStep(at), RightFromStep(at)) /\ w'.loaded
       /\ w'.lo = w.lo /\ w'.hi = w.hi
  BY <1>1, <1>2, <1>7, <1>8, <1>9 DEF Fits, LoOf, HiOf, Buf
<1>11. scan' \in Scan /\ scan'.dst <= scan'.i /\ scan'.i <= w.hi - w.lo
  <2>1. scan \in Scan
    BY DEF IInv
  <2>2. size \in Nat /\ scan.i + size <= w.hi - w.lo /\ scan.i <= w.hi - w.lo
        /\ scan.dst + size <= scan.i + size /\ scan.dst <= scan.i + size
        /\ scan.i + size \in Nat /\ scan.dst + size \in Nat
    BY <1>1, <1>3, <1>4, <1>5
  <2>3. \/ scan' = [scan EXCEPT !.i = scan.i + size, !.dst = scan.dst + size]
        \/ scan' = [scan EXCEPT !.i = scan.i + size]
    BY <1>9
  <2> QED BY <1>1, <2>1, <2>2, <2>3 DEF Scan
<1>12. ScanInv'
  BY <1>1, <1>9, <1>10, <1>11 DEF ScanInv, CurrentStep, IInv
<1>13. Fits(w, LeftFromStep(at), RightFromStep(at))'
  BY <1>9, <1>10 DEF LeftFromStep, RightFromStep
<1> QED BY <1>9, <1>11, <1>12, <1>13 DEF IInv

LEMMA FilterStartIInv ==
  ASSUME IInv, FilterStart
  PROVE  IInv'
<1> DEFINE cut == FilterCut(CurrentStep, Str(w))
<1>1. /\ cut < Len(Str(w)) /\ w' = Load(w) /\ at <= Len(Compiled(def))
      /\ scan' = [active |-> TRUE, i |-> cut, dst |-> cut]
      /\ def' = def /\ at' = at /\ answer' = answer
      /\ CurrentStep.op \in { "REMOVE_WHITESPACE", "REMOVE_CHARS" }
  BY DEF FilterStart, ReachesFilter, Reaches
<1>2. LeftFromStep(at) \in Nat /\ RightFromStep(at) \in Nat
      /\ Fits(w, LeftFromStep(at), RightFromStep(at))
  BY <1>1, RoomForStep DEF IInv
<1>3. Str(w) \in Seq(Byte) /\ Len(Str(w)) = HiOf(w) - LoOf(w)
      /\ Len(Str(w)) \in Nat
  BY <1>2, StrType, LenProperties
<1>4. cut \in 0 .. Len(Str(w))
  BY <1>3, FilterCutBounds
<1>5. /\ Fits(Load(w), LeftFromStep(at), RightFromStep(at))
      /\ Load(w).loaded /\ Load(w).lo = LoOf(w) /\ Load(w).hi = HiOf(w)
  BY <1>2, LoadFits
<1> HIDE DEF cut
<1>6. scan' \in Scan /\ ScanInv'
  BY <1>1, <1>3, <1>4, <1>5 DEF Scan, ScanInv, CurrentStep
<1>7. Fits(w, LeftFromStep(at), RightFromStep(at))'
  BY <1>1, <1>5 DEF LeftFromStep, RightFromStep
<1> QED BY <1>1, <1>6, <1>7 DEF IInv

LEMMA FilterEndIInv ==
  ASSUME IInv, FilterEnd
  PROVE  IInv'
<1>1. /\ scan.active /\ w.loaded /\ scan.dst <= scan.i /\ scan.i <= w.hi - w.lo
      /\ at <= Len(Compiled(def)) /\ scan.dst \in Nat /\ scan.i \in Nat
      /\ w' = [w EXCEPT !.hi = w.lo + scan.dst] /\ scan' = Idle
      /\ at' = at + 1 /\ def' = def /\ answer' = answer
  BY DEF FilterEnd, IInv, ScanInv, Scan
<1>2. /\ LeftFromStep(at) \in Nat /\ RightFromStep(at) \in Nat
      /\ LeftFromStep(at + 1) \in 0 .. LeftFromStep(at)
      /\ RightFromStep(at + 1) \in 0 .. RightFromStep(at)
      /\ at \in 1 .. Len(Compiled(def))
  BY <1>1, RoomForStep
<1>3. Fits(w, LeftFromStep(at + 1), RightFromStep(at + 1))
  BY <1>2, FitsLess DEF IInv
<1>4. w \in Buf /\ w.lo \in Nat /\ w.hi \in Nat
      /\ LeftFromStep(at + 1) <= w.lo /\ w.hi + RightFromStep(at + 1) <= ScratchSize
  BY <1>1, <1>3 DEF Fits, LoOf, HiOf, Buf
<1>5. w.lo + scan.dst \in Nat /\ w.lo <= w.lo + scan.dst
      /\ w.lo + scan.dst + RightFromStep(at + 1) <= ScratchSize
      /\ LeftFromStep(at + 1) \in Nat /\ RightFromStep(at + 1) \in Nat
  <2>1. w.lo + scan.dst \in Nat /\ w.lo <= w.lo + scan.dst
        /\ w.lo + scan.dst <= w.hi
    BY <1>1, <1>4
  <2>2. LeftFromStep(at + 1) \in Nat /\ RightFromStep(at + 1) \in Nat
    BY <1>2
  <2> QED BY <1>4, <2>1, <2>2, SizesType
<1>6. [w EXCEPT !.hi = w.lo + scan.dst] =
        [w EXCEPT !.b = w.b, !.lo = w.lo, !.hi = w.lo + scan.dst]
  BY <1>4 DEF Buf
<1>7. w.b \in [1 .. ScratchSize -> Byte]
  BY <1>4 DEF Buf
<1>8. Fits([w EXCEPT !.b = w.b, !.lo = w.lo, !.hi = w.lo + scan.dst],
           LeftFromStep(at + 1), RightFromStep(at + 1))
  BY <1>1, <1>4, <1>5, <1>7, EdgesFit
<1>9. Fits(w', LeftFromStep(at + 1), RightFromStep(at + 1))
  BY <1>1, <1>6, <1>8
<1>10. Fits(w, LeftFromStep(at), RightFromStep(at))'
  BY <1>1, <1>9 DEF LeftFromStep, RightFromStep
<1>11. at' \in 1 .. Len(Compiled(def))' + 1
  BY <1>1, <1>2
<1>12. scan' \in Scan /\ ScanInv'
  BY <1>1 DEF Scan, ScanInv, Idle
<1> QED BY <1>1, <1>10, <1>11, <1>12 DEF IInv

LEMMA DoWhenIInv ==
  ASSUME IInv, DoWhen
  PROVE  IInv'
<1> DEFINE next == IF HasPrefix(Str(w), CurrentStep.text) THEN at + 1
                   ELSE at + 1 + CurrentStep.number
<1>1. /\ at <= Len(Compiled(def)) /\ ~scan.active /\ CurrentStep.op = "WHEN"
      /\ at' = next /\ w' = w /\ def' = def /\ scan' = scan /\ answer' = answer
  BY DEF DoWhen, Reaches
<1>2. /\ at \in 1 .. Len(Compiled(def)) /\ def \in Definitions
      /\ CurrentStep.number \in Nat /\ Len(Compiled(def)) \in Nat
  BY <1>1, RoomForStep, CompiledType DEF Step, IInv
<1>3. at + CurrentStep.number <= Len(Compiled(def))
  BY <1>1, <1>2, WhenBounds DEF CurrentStep
<1>4. next \in at .. Len(Compiled(def)) + 1
  BY <1>2, <1>3
<1> HIDE DEF next
<1>5. /\ LeftFromStep(next) <= LeftFromStep(at)
      /\ RightFromStep(next) <= RightFromStep(at)
      /\ LeftFromStep(at) \in Nat /\ RightFromStep(at) \in Nat
      /\ LeftFromStep(next) \in Nat /\ RightFromStep(next) \in Nat
  <2>1. at \in 1 .. Len(Compiled(def)) + 1 /\ next \in 1 .. Len(Compiled(def)) + 1
    BY <1>2, <1>4
  <2> QED BY <1>2, <1>4, <2>1, GrowthShrinks, GrowthType
          DEF LeftFromStep, RightFromStep
<1>6. Fits(w, LeftFromStep(next), RightFromStep(next))
  BY <1>5, FitsLess DEF IInv
<1>7. Fits(w, LeftFromStep(at), RightFromStep(at))'
  BY <1>1, <1>6 DEF LeftFromStep, RightFromStep
<1>8. at' \in 1 .. Len(Compiled(def))' + 1
  BY <1>1, <1>2, <1>4
<1>9. scan' \in Scan /\ ScanInv'
  BY <1>1 DEF ScanInv, IInv
<1> QED BY <1>1, <1>7, <1>8, <1>9 DEF IInv

(* Every step of the call preserves the invariant.                         *)
LEMMA NextIInv == IInv /\ [Next]_vars => IInv'
<1> SUFFICES ASSUME IInv, [Next]_vars PROVE IInv'
  OBVIOUS
<1> DEFINE left == LeftFromStep(at + 1)
           right == RightFromStep(at + 1)
           grown == LeftGrowth(CurrentStep, TargetOf[def])
<1>1. ASSUME at <= Len(Compiled(def))
      PROVE  /\ left \in Nat /\ right \in Nat
             /\ Fits(w, left + grown, RightGrowth(CurrentStep) + right)
             /\ Fits(w, left, right)
             /\ CurrentStep \in Step /\ TargetOf[def] \in Target
  <2>1. /\ left \in 0 .. LeftFromStep(at) /\ right \in 0 .. RightFromStep(at)
        /\ LeftFromStep(at) \in Nat /\ RightFromStep(at) \in Nat
    BY <1>1, RoomForStep
  <2>2. Fits(w, left, right)
    BY <2>1, FitsLess DEF IInv
  <2> QED BY <1>1, <2>2, RoomForStep DEF IInv
<1>2. CASE DoTrimWhitespace
  BY <1>1, <1>2, TrimWhitespaceFits, LeavesIInv DEF DoTrimWhitespace, Reaches
<1>3. CASE DoUppercaseASCII
  BY <1>1, <1>3, UppercaseASCIIFits, LeavesIInv DEF DoUppercaseASCII, Reaches
<1>4. CASE DoReplacePrefix
  <2> DEFINE from == CurrentStep.text
             to == CurrentStep.replacement
  <2>1. /\ at <= Len(Compiled(def)) /\ ~scan.active
        /\ CurrentStep.op = "REPLACE_PREFIX" /\ Leaves(ReplacePrefix(w, from, to))
    BY <1>4 DEF DoReplacePrefix, Reaches
  <2>2. /\ grown = IF Len(to) > Len(from) THEN Len(to) - Len(from) ELSE 0
        /\ RightGrowth(CurrentStep) = 0
    BY <2>1 DEF LeftGrowth, RightGrowth
  <2>3. from \in Seq(Byte) /\ to \in Seq(Byte) /\ left \in Nat /\ right \in Nat
    BY <1>1, <2>1 DEF Step
  <2>4. Fits(w, left + (IF Len(to) > Len(from) THEN Len(to) - Len(from) ELSE 0), right)
    <3>1. RightGrowth(CurrentStep) + right = right
      BY <2>2, <2>3
    <3>2. Fits(w, left + grown, right)
      BY <1>1, <2>1, <3>1
    <3> QED BY <2>2, <3>2
  <2> HIDE DEF left, right, from, to
  <2>5. Fits(ReplacePrefix(w, from, to), left, right)
    BY <2>3, <2>4, ReplacePrefixFits
  <2> QED BY <2>1, <2>5, LeavesIInv DEF left, right
<1>5. CASE DoPrepend
  <2> DEFINE text == CurrentStep.text
  <2>1. /\ at <= Len(Compiled(def)) /\ ~scan.active
        /\ CurrentStep.op = "PREPEND" /\ Leaves(Prepend(w, text))
    BY <1>5 DEF DoPrepend, Reaches
  <2>2. grown = Len(text) /\ RightGrowth(CurrentStep) = 0
    BY <2>1 DEF LeftGrowth, RightGrowth
  <2>3. text \in Seq(Byte) /\ left \in Nat /\ right \in Nat
    BY <1>1, <2>1 DEF Step
  <2>4. Fits(w, left + Len(text), right)
    BY <1>1, <2>1, <2>2, <2>3
  <2>5. Fits(Prepend(w, text), left, right)
    BY <2>3, <2>4, PrependFits
  <2> QED BY <2>1, <2>5, LeavesIInv
<1>6. CASE DoAppend
  <2> DEFINE text == CurrentStep.text
  <2>1. /\ at <= Len(Compiled(def)) /\ ~scan.active
        /\ CurrentStep.op = "APPEND" /\ Leaves(AppendText(w, text))
    BY <1>6 DEF DoAppend, Reaches
  <2>2. grown = 0 /\ RightGrowth(CurrentStep) = Len(text)
    BY <2>1 DEF LeftGrowth, RightGrowth
  <2>3. text \in Seq(Byte) /\ left \in Nat /\ right \in Nat
    BY <1>1, <2>1 DEF Step
  <2>4. Fits(w, left, Len(text) + right)
    BY <1>1, <2>1, <2>2, <2>3
  <2>5. Fits(AppendText(w, text), left, right)
    BY <2>3, <2>4, AppendTextFits
  <2> QED BY <2>1, <2>5, LeavesIInv
<1>7. CASE DoInsert
  <2> DEFINE text == CurrentStep.text
             index == CurrentStep.number
  <2>1. /\ at <= Len(Compiled(def)) /\ ~scan.active
        /\ CurrentStep.op = "INSERT" /\ Leaves(Insert(w, index, text))
    BY <1>7 DEF DoInsert, Reaches
  <2>2. grown = 0 /\ RightGrowth(CurrentStep) = Len(text)
    BY <2>1 DEF LeftGrowth, RightGrowth
  <2>3. text \in Seq(Byte) /\ index \in Nat /\ left \in Nat /\ right \in Nat
    BY <1>1, <2>1 DEF Step
  <2>4. Fits(w, left, Len(text) + right)
    BY <1>1, <2>1, <2>2, <2>3
  <2>5. Fits(Insert(w, index, text), left, right)
    BY <2>3, <2>4, InsertFits
  <2> QED BY <2>1, <2>5, LeavesIInv
<1>8. CASE DoLeftPad
  <2> DEFINE pad == CurrentStep.text
             length == CurrentStep.number
  <2>1. /\ at <= Len(Compiled(def)) /\ ~scan.active
        /\ CurrentStep.op = "LEFT_PAD" /\ Leaves(LeftPad(w, length, pad))
    BY <1>8 DEF DoLeftPad, Reaches
  <2>2. grown = length * Len(pad) /\ RightGrowth(CurrentStep) = 0
    BY <2>1 DEF LeftGrowth, RightGrowth
  <2>3. pad \in Seq(Byte) /\ length \in Nat /\ left \in Nat /\ right \in Nat
    BY <1>1, <2>1 DEF Step
  <2>4. Fits(w, left + length * Len(pad), right)
    BY <1>1, <2>1, <2>2, <2>3
  <2>5. Fits(LeftPad(w, length, pad), left, right)
    BY <2>3, <2>4, LeftPadFits
  <2> QED BY <2>1, <2>5, LeavesIInv
<1>9. CASE DoPrependCountry
  <2> DEFINE target == TargetOf[def]
  <2>1. /\ at <= Len(Compiled(def)) /\ ~scan.active
        /\ CurrentStep.op = "PREPEND_COUNTRY_IF_MISSING"
        /\ Leaves(PrependCountry(w, target))
    BY <1>9 DEF DoPrependCountry, Reaches
  <2>2. grown = Len(target.lead) /\ RightGrowth(CurrentStep) = 0
    BY <2>1 DEF LeftGrowth, RightGrowth
  <2>3. target \in Target /\ left \in Nat /\ right \in Nat
    BY <1>1, <2>1
  <2>4. Fits(w, left + Len(target.lead), right)
    BY <1>1, <2>1, <2>2, <2>3
  <2>5. Fits(PrependCountry(w, target), left, right)
    BY <2>3, <2>4, PrependCountryFits
  <2> QED BY <2>1, <2>5, LeavesIInv
<1>10. CASE DoWhen
  BY <1>10, DoWhenIInv
<1>11. CASE FilterNothing
  BY <1>1, <1>11, LeavesIInv DEF FilterNothing, ReachesFilter, Reaches
<1>12. CASE FilterStart
  BY <1>12, FilterStartIInv
<1>13. CASE FilterRune
  BY <1>13, FilterRuneIInv
<1>14. CASE FilterEnd
  BY <1>14, FilterEndIInv
<1>15. CASE Return
  <2>1. /\ w' = w /\ at' = at /\ def' = def /\ scan' = scan
        /\ answer' = CanonicalOf(w.src, w)
    BY <1>15 DEF Return
  <2>2. answer' \in Seq(Byte)
    <3>1. LeftFromStep(at) \in Nat /\ RightFromStep(at) \in Nat
      BY GrowthType DEF IInv, LeftFromStep, RightFromStep
    <3>2. Str(w) \in Seq(Byte)
      BY <3>1, StrType DEF IInv
    <3> QED BY <2>1, <3>2 DEF CanonicalOf, Str
  <2> QED BY <2>1, <2>2
          DEF IInv, ScanInv, CurrentStep, LeftFromStep, RightFromStep
<1>16. CASE UNCHANGED vars
  BY <1>16 DEF vars, IInv, ScanInv, CurrentStep, LeftFromStep, RightFromStep
<1> QED
  BY <1>2, <1>3, <1>4, <1>5, <1>6, <1>7, <1>8, <1>9, <1>10, <1>11, <1>12,
     <1>13, <1>14, <1>15, <1>16 DEF Next

-----------------------------------------------------------------------------
(***************************************************************************)
(* The theorems.                                                           *)
(***************************************************************************)

THEOREM Invariance == Unshared => (Spec => []IInv)
<1>1. Unshared /\ Init => IInv
  BY InitIInv
<1>2. IInv /\ [Next]_vars => IInv'
  BY NextIInv
<1> QED BY <1>1, <1>2, PTL DEF Spec

(* The state of a call is what the code declares: the scratch array keeps  *)
(* its size, and the registers stay counts.                                *)
THEOREM TypeCorrect == Unshared => (Spec => []TypeOK)
<1>1. IInv => TypeOK
  BY DEF IInv, TypeOK, Fits
<1> QED BY <1>1, Invariance, PTL

(* Buf.Str and the slice expressions of buffer.go never leave the array.   *)
THEOREM StaysInScratch == Unshared => (Spec => []InScratch)
<1>1. IInv => InScratch
  <2> SUFFICES ASSUME IInv, w.loaded PROVE w.lo <= w.hi /\ w.hi <= ScratchSize
    BY DEF InScratch
  <2>1. /\ w \in Buf /\ w.lo <= w.hi
        /\ w.hi + RightFromStep(at) <= ScratchSize
    BY DEF IInv, Fits, LoOf, HiOf
  <2>2. RightFromStep(at) \in Nat /\ w.hi \in Nat
    BY <2>1, GrowthType DEF IInv, RightFromStep, Buf
  <2> QED BY <2>1, <2>2, SizesType
<1> QED BY <1>1, Invariance, PTL

(* What a step asks for is at most what growth() counts for it.            *)
LEMMA DemandBound ==
  ASSUME IInv, at <= Len(Compiled(def))
  PROVE  LeftDemand \in Nat /\ LeftDemand <= LeftGrowth(CurrentStep, TargetOf[def])
<1> DEFINE grown == LeftGrowth(CurrentStep, TargetOf[def])
           count == RuneCount(Str(w))
<1>1. /\ CurrentStep \in Step /\ TargetOf[def] \in Target /\ grown \in Nat
      /\ LeftFromStep(at) \in Nat /\ RightFromStep(at) \in Nat
  BY RoomForStep
<1>2. /\ Len(CurrentStep.text) \in Nat /\ Len(CurrentStep.replacement) \in Nat
      /\ Len(TargetOf[def].lead) \in Nat /\ CurrentStep.number \in Nat
  BY <1>1, LenProperties DEF Step, Target
<1>3. count \in Nat
  BY <1>1, StrType, RuneCountType DEF IInv
<1>4. CASE CurrentStep.op = "LEFT_PAD"
  <2>1. grown = CurrentStep.number * Len(CurrentStep.text)
    BY <1>4 DEF LeftGrowth
  <2>2. CASE count < CurrentStep.number
    <3> HIDE DEF count, grown
    <3>1. CurrentStep.number - count \in Nat
          /\ CurrentStep.number - count <= CurrentStep.number
      BY <1>2, <1>3, <2>2
    <3>2. /\ (CurrentStep.number - count) * Len(CurrentStep.text) \in Nat
          /\ (CurrentStep.number - count) * Len(CurrentStep.text) <=
                CurrentStep.number * Len(CurrentStep.text)
      BY <1>2, <3>1, Times
    <3>3. LeftDemand = (CurrentStep.number - count) * Len(CurrentStep.text)
      BY <1>4, <2>2 DEF LeftDemand, count
    <3> QED BY <2>1, <3>2, <3>3 DEF grown
  <2>3. CASE ~(count < CurrentStep.number)
    <3>1. LeftDemand = 0
      BY <1>4, <2>3 DEF LeftDemand
    <3> QED BY <1>1, <3>1
  <2> QED BY <2>2, <2>3
<1>5. CASE CurrentStep.op = "PREPEND"
  BY <1>2, <1>5 DEF LeftDemand, LeftGrowth
<1>6. CASE CurrentStep.op = "PREPEND_COUNTRY_IF_MISSING"
  <2>1. grown = Len(TargetOf[def].lead)
    BY <1>6 DEF LeftGrowth
  <2>2. LeftDemand = Len(TargetOf[def].lead) \/ LeftDemand = 0
    BY <1>6 DEF LeftDemand
  <2> QED BY <1>2, <2>1, <2>2
<1>7. CASE CurrentStep.op = "REPLACE_PREFIX"
  <2> DEFINE from == CurrentStep.text
             to == CurrentStep.replacement
  <2>1. CASE Len(to) > Len(from)
    <3>1. grown = Len(to) - Len(from)
      BY <1>7, <2>1 DEF LeftGrowth
    <3>2. LeftDemand = Len(to) - Len(from) \/ LeftDemand = 0
      BY <1>7 DEF LeftDemand
    <3>3. Len(to) - Len(from) \in Nat
      BY <1>2, <2>1
    <3> HIDE DEF grown, from, to
    <3>4. LeftDemand \in Nat /\ LeftDemand <= grown
      BY <3>1, <3>2, <3>3
    <3> QED BY <3>4 DEF grown
  <2>2. CASE ~(Len(to) > Len(from))
    <3>1. LeftDemand = 0
      BY <1>7, <2>2 DEF LeftDemand
    <3> QED BY <1>1, <3>1
  <2> QED BY <2>1, <2>2
<1>8. CASE CurrentStep.op \notin { "LEFT_PAD", "PREPEND",
                                  "PREPEND_COUNTRY_IF_MISSING", "REPLACE_PREFIX" }
  <2>1. LeftDemand = 0
    BY <1>8 DEF LeftDemand
  <2> QED BY <1>1, <2>1
<1> QED BY <1>4, <1>5, <1>6, <1>7, <1>8

(* The left margin the generator reserved is never exhausted: the fallback *)
(* of shiftLeftEdge, which moves the value right, does not run.            *)
THEOREM MarginNeverExhausted == Unshared => (Spec => []MarginSuffices)
<1>1. IInv => MarginSuffices
  <2> SUFFICES ASSUME IInv, at <= Len(Compiled(def))
               PROVE  LeftDemand <= Load(w).lo
    BY DEF MarginSuffices
  <2>1. /\ LeftFromStep(at) \in Nat /\ RightFromStep(at) \in Nat
        /\ LeftFromStep(at + 1) \in Nat
        /\ LeftGrowth(CurrentStep, TargetOf[def]) \in Nat
        /\ LeftFromStep(at) =
             LeftFromStep(at + 1) + LeftGrowth(CurrentStep, TargetOf[def])
    BY RoomForStep
  <2>2. LeftDemand \in Nat
        /\ LeftDemand <= LeftGrowth(CurrentStep, TargetOf[def])
    BY DemandBound
  <2>3. LeftFromStep(at) <= LoOf(w) /\ LoOf(w) \in Nat
    BY EdgesType DEF IInv, Fits
  <2>4. Load(w).lo = LoOf(w)
    BY <2>1, LoadFits DEF IInv
  <2> QED BY <2>1, <2>2, <2>3, <2>4
<1> QED BY <1>1, Invariance, PTL
-----------------------------------------------------------------------------
(***************************************************************************)
(* Modified is exact: what is loaded is changed in the same step.          *)
(***************************************************************************)

LEMMA BytesAreIntegers == \A c \in Byte : c \in Int
BY DEF Byte

(* A value not loaded yet, and what loading makes of it.                   *)
LEMMA LoadKeeps ==
  ASSUME NEW buf, NEW left \in Nat, NEW right \in Nat, Fits(buf, left, right),
         ~buf.loaded
  PROVE  /\ Str(buf) = buf.src /\ buf.src \in Seq(Byte) /\ Len(buf.src) \in Nat
         /\ Load(buf).lo \in Nat /\ Load(buf).hi = Load(buf).lo + Len(buf.src)
         /\ Load(buf).hi <= ScratchSize
         /\ Load(buf).b \in [1 .. ScratchSize -> Byte]
         /\ \A k \in 1 .. Len(buf.src) : Load(buf).b[Load(buf).lo + k] = buf.src[k]
         /\ Str(Load(buf)) = buf.src
<1>1. Str(buf) = buf.src /\ buf.src \in Seq(Byte) /\ Len(buf.src) \in Nat
  BY LenProperties DEF Fits, Buf, Str
<1>2. /\ Load(buf).loaded /\ Load(buf).lo = LeftMargin
      /\ Load(buf).hi = LeftMargin + Len(buf.src)
      /\ Load(buf) \in Buf /\ LeftMargin + Len(buf.src) <= ScratchSize
  BY LoadFits, <1>1, SizesType DEF LoOf, HiOf, Fits
<1>3. Load(buf).b = Copied(buf.b, LeftMargin, buf.src)
  BY DEF Load, Fits, Buf
<1>4. \A k \in 1 .. Len(buf.src) : Load(buf).b[LeftMargin + k] = buf.src[k]
  <2>1. \A k \in 1 .. Len(buf.src) :
          /\ LeftMargin + k \in 1 .. ScratchSize
          /\ LeftMargin + k \in LeftMargin + 1 .. LeftMargin + Len(buf.src)
          /\ (LeftMargin + k) - LeftMargin = k
    BY <1>1, <1>2, SizesType
  <2> QED BY <1>3, <2>1 DEF Copied
<1>5. Load(buf).b \in [1 .. ScratchSize -> Byte]
  BY <1>2 DEF Buf
<1>6. Str(Load(buf)) = buf.src
  <2> DEFINE low == LeftMargin + 1
             high == LeftMargin + Len(buf.src)
             cut == SubSeq(Load(buf).b, low, high)
  <2>1. low \in Int /\ high \in Int /\ high - low + 1 = Len(buf.src)
        /\ \A k \in low .. high : k \in 1 .. ScratchSize
    BY <1>1, <1>2, SizesType
  <2>2. \A k \in low .. high : Load(buf).b[k] \in Byte
    BY <1>5, <2>1
  <2> HIDE DEF low, high
  <2>3. /\ cut \in Seq(Byte)
        /\ Len(cut) = IF low <= high THEN high - low + 1 ELSE 0
        /\ \A k \in 1 .. high - low + 1 : cut[k] = Load(buf).b[low + k - 1]
    BY <2>1, <2>2, SubSeqProperties
  <2>4. Len(cut) = Len(buf.src)
    BY <1>1, <2>1, <2>3
  <2>5. \A k \in 1 .. Len(buf.src) : cut[k] = buf.src[k]
    <3>1. \A k \in 1 .. Len(buf.src) : low + k - 1 = LeftMargin + k
      BY SizesType DEF low
    <3> QED BY <1>4, <2>1, <2>3, <3>1
  <2>6. cut = buf.src
    BY <1>1, <2>3, <2>4, <2>5, SeqEqual
  <2> QED BY <1>2, <2>6 DEF Str, Slice, low, high
<1> QED BY <1>1, <1>2, <1>4, <1>5, <1>6, SizesType

(* A loaded value is as long as its edges are apart, and holds what lies   *)
(* between them.                                                           *)
LEMMA StrOfLoaded ==
  ASSUME NEW r, NEW left \in Nat, NEW right \in Nat, Fits(r, left, right), r.loaded
  PROVE  /\ r.lo \in Nat /\ r.hi \in Nat /\ Len(Str(r)) = r.hi - r.lo
         /\ \A k \in 1 .. r.hi - r.lo : Str(r)[k] = r.b[r.lo + k]
<1>1. /\ r.lo \in Nat /\ r.hi \in Nat /\ r.lo <= r.hi /\ r.hi <= ScratchSize
      /\ r.b \in [1 .. ScratchSize -> Byte]
  BY SizesType DEF Fits, LoOf, HiOf, Buf
<1> DEFINE low == r.lo + 1
           high == r.hi
           cut == SubSeq(r.b, low, high)
<1>2. /\ low \in Int /\ high \in Int
      /\ (IF low <= high THEN high - low + 1 ELSE 0) = r.hi - r.lo
      /\ high - low + 1 = r.hi - r.lo
      /\ \A k \in low .. high : k \in 1 .. ScratchSize
  BY <1>1, SizesType
<1>3. \A k \in low .. high : r.b[k] \in Byte
  BY <1>1, <1>2
<1>4. \A k \in 1 .. r.hi - r.lo : low + k - 1 = r.lo + k
  BY <1>1
<1>5. Str(r) = cut
  BY DEF Str, Slice
<1> HIDE DEF low, high
<1>6. /\ Len(cut) = IF low <= high THEN high - low + 1 ELSE 0
      /\ \A k \in 1 .. high - low + 1 : cut[k] = r.b[low + k - 1]
  BY <1>2, <1>3, SubSeqProperties
<1> HIDE DEF cut
<1> QED BY <1>1, <1>2, <1>4, <1>5, <1>6

LEMMA TrimChanges ==
  ASSUME NEW buf, NEW left \in Nat, NEW right \in Nat, Fits(buf, left, right),
         ~buf.loaded, TrimWhitespace(buf).loaded
  PROVE  Str(TrimWhitespace(buf)) # Str(buf)
<1> DEFINE s == Str(buf)
           r == TrimWhitespace(buf)
<1>1. s = buf.src /\ s \in Seq(Byte) /\ Len(s) \in Nat
      /\ Load(buf).lo \in Nat /\ Load(buf) \in Buf
  BY LoadKeeps, LoadFits DEF Fits
<1>2. TrimStart(s) \in 0 .. Len(s) /\ TrimEnd(s) \in TrimStart(s) .. Len(s)
  BY <1>1, TrimBounds
<1>3. /\ ~(TrimStart(s) = 0 /\ TrimEnd(s) = Len(s))
      /\ r = [Load(buf) EXCEPT !.lo = Load(buf).lo + TrimStart(s),
                               !.hi = Load(buf).lo + TrimEnd(s)]
  BY DEF TrimWhitespace
<1>4. r.lo = Load(buf).lo + TrimStart(s) /\ r.hi = Load(buf).lo + TrimEnd(s)
  BY <1>1, <1>3 DEF Buf
<1>5. Fits(r, left, right)
  BY TrimWhitespaceFits
<1>6. Len(Str(r)) = r.hi - r.lo
  BY <1>5, StrOfLoaded
<1> HIDE DEF s, r
<1>7. r.hi - r.lo = TrimEnd(s) - TrimStart(s)
  BY <1>1, <1>2, <1>4
<1>8. TrimEnd(s) - TrimStart(s) # Len(s)
  BY <1>1, <1>2, <1>3
<1>9. Str(r) # s
  BY <1>6, <1>7, <1>8
<1> QED BY <1>9 DEF s, r

LEMMA UppercaseChanges ==
  ASSUME NEW buf, NEW left \in Nat, NEW right \in Nat, Fits(buf, left, right),
         ~buf.loaded, UppercaseASCII(buf).loaded
  PROVE  Str(UppercaseASCII(buf)) # Str(buf)
<1> DEFINE loaded == Load(buf)
           r == UppercaseASCII(buf)
           b == [k \in 1 .. ScratchSize |->
                   IF k \in loaded.lo + 1 .. loaded.hi /\ IsASCIILower(loaded.b[k])
                   THEN loaded.b[k] - 32 ELSE loaded.b[k]]
<1>1. /\ Str(buf) = buf.src /\ buf.src \in Seq(Byte) /\ Len(buf.src) \in Nat
      /\ loaded.lo \in Nat /\ loaded.hi = loaded.lo + Len(buf.src)
      /\ loaded.hi <= ScratchSize
      /\ \A k \in 1 .. Len(buf.src) : loaded.b[loaded.lo + k] = buf.src[k]
      /\ loaded \in Buf
  BY LoadKeeps, LoadFits DEF Fits
<1>2. PICK k \in 1 .. Len(buf.src) : IsASCIILower(buf.src[k])
  BY <1>1 DEF UppercaseASCII
<1>3. r = [loaded EXCEPT !.b = b]
  BY DEF UppercaseASCII
<1>4. r.lo = loaded.lo /\ r.hi = loaded.hi /\ r.b = b
  BY <1>1, <1>3 DEF Buf
<1>5. Fits(r, left, right)
  BY UppercaseASCIIFits
<1>6. Str(r)[k] = r.b[r.lo + k]
  <2> HIDE DEF r, b, loaded
  <2>1. r.hi - r.lo = Len(buf.src)
    BY <1>1, <1>4
  <2>2. \A n \in 1 .. r.hi - r.lo : Str(r)[n] = r.b[r.lo + n]
    BY <1>5, StrOfLoaded DEF r
  <2> QED BY <1>2, <2>1, <2>2
<1>7. b[loaded.lo + k] = buf.src[k] - 32
  <2>1. loaded.lo + k \in 1 .. ScratchSize /\ loaded.lo + k \in loaded.lo + 1 .. loaded.hi
        /\ loaded.b[loaded.lo + k] = buf.src[k]
    BY <1>1, SizesType
  <2> QED BY <1>2, <2>1
<1>8. buf.src[k] \in Int
  <2>1. buf.src[k] \in Byte
    BY <1>1, <1>2, ElementOfSeq
  <2> QED BY <2>1, BytesAreIntegers
<1> HIDE DEF r, b, loaded
<1>9. Str(r)[k] # Str(buf)[k]
  BY <1>1, <1>4, <1>6, <1>7, <1>8
<1> QED BY <1>9 DEF r

(* Text written in front of a value lengthens it.                          *)
LEMMA GrownLeft ==
  ASSUME NEW buf, NEW n \in Nat, NEW text \in Seq(Byte),
         NEW room \in Nat, NEW right \in Nat, n <= room,
         Fits(buf, room, right), ~buf.loaded,
         NEW r, r = WriteAtLo(ShiftLeftEdge(Load(buf), n), text)
  PROVE  /\ r.loaded /\ r.lo \in Nat /\ Fits(r, room - n, right)
         /\ r.lo = Load(buf).lo - n /\ r.hi - r.lo = Len(buf.src) + n
         /\ r.b = Copied(Load(buf).b, r.lo, text)
         /\ Len(Str(r)) = Len(Str(buf)) + n
<1> DEFINE left == room - n
<1>0. left \in Nat /\ left + n = room
  OBVIOUS
<1> HIDE DEF left
<1>1. /\ Fits(Load(buf), left + n, right) /\ Fits(buf, left + n, right) /\ Load(buf).loaded /\ Load(buf) \in Buf
      /\ Load(buf).lo = LeftMargin /\ Load(buf).hi = LeftMargin + Len(buf.src)
  BY <1>0, LoadFits DEF Fits, LoOf, HiOf
<1>2. /\ Str(buf) = buf.src /\ Len(buf.src) \in Nat /\ LeftMargin >= n
  <2>1. Str(buf) = buf.src /\ Len(buf.src) \in Nat
    BY <1>0, LoadKeeps
  <2>2. left + n <= LeftMargin
    BY <1>1 DEF Fits, LoOf
  <2> QED BY <1>0, <2>1, <2>2, SizesType
<1> DEFINE shifted == ShiftLeftEdge(Load(buf), n)
<1>3. shifted = [Load(buf) EXCEPT !.lo = Load(buf).lo - n]
  BY <1>1, <1>2 DEF ShiftLeftEdge
<1>4. /\ shifted.lo = LeftMargin - n /\ shifted.hi = LeftMargin + Len(buf.src)
      /\ shifted.b = Load(buf).b
  BY <1>1, <1>3 DEF Buf
<1>5. Fits(shifted, left, right) /\ shifted.loaded /\ shifted \in Buf
  BY <1>0, <1>1, ShiftLeftEdgeFits DEF Fits
<1>6. /\ r = [shifted EXCEPT !.b = Copied(shifted.b, shifted.lo, text)]
      /\ Fits(r, left, right)
  BY <1>0, <1>5, WriteAtLoFits DEF WriteAtLo
<1> HIDE DEF shifted
<1>7. /\ r.lo = shifted.lo /\ r.hi = shifted.hi /\ r.loaded
      /\ r.b = Copied(shifted.b, shifted.lo, text)
  BY <1>5, <1>6 DEF Buf
<1>8. r.lo \in Nat /\ Len(Str(r)) = r.hi - r.lo
  BY <1>0, <1>6, <1>7, StrOfLoaded
<1> QED BY <1>1, <1>2, <1>4, <1>6, <1>7, <1>8, SizesType, SMTT(30) DEF left

LEMMA PrependChanges ==
  ASSUME NEW buf, NEW text \in Seq(Byte), NEW left \in Nat, NEW right \in Nat,
         Fits(buf, left + Len(text), right), ~buf.loaded, text # <<>>
  PROVE  Str(Prepend(buf, text)) # Str(buf)
<1>1. Len(text) \in Nat \ {0}
  BY EmptySeq
<1>2. Len(Str(Prepend(buf, text))) = Len(Str(buf)) + Len(text)
  <2>1. Prepend(buf, text) = WriteAtLo(ShiftLeftEdge(Load(buf), Len(text)), text)
    BY DEF Prepend
  <2>2. left + Len(text) \in Nat /\ Len(text) <= left + Len(text)
    BY <1>1
  <2> QED BY <1>1, <2>1, <2>2, GrownLeft
<1>3. Len(Str(buf)) \in Nat
  BY <1>1, LoadKeeps
<1> QED BY <1>1, <1>2, <1>3

LEMMA LeftPadChanges ==
  ASSUME NEW buf, NEW length \in Nat, NEW pad \in Seq(Byte),
         NEW left \in Nat, NEW right \in Nat,
         Fits(buf, left + length * Len(pad), right), ~buf.loaded, pad # <<>>,
         LeftPad(buf, length, pad).loaded
  PROVE  Str(LeftPad(buf, length, pad)) # Str(buf)
<1> DEFINE count == RuneCount(Str(buf))
           missing == length - count
           n == missing * Len(pad)
<1>1. Len(pad) \in Nat \ {0} /\ length * Len(pad) \in Nat
  BY EmptySeq, Times
<1>2. count \in Nat /\ Len(Str(buf)) \in Nat
  BY <1>1, StrType, RuneCountType, LenProperties
<1>3. ~(count >= length)
  BY DEF LeftPad
<1>4. LeftPad(buf, length, pad) =
        WriteAtLo(ShiftLeftEdge(Load(buf), n), Repeat(pad, missing))
  BY <1>3 DEF LeftPad
<1> HIDE DEF count
<1>5. missing \in Nat /\ missing <= length /\ 1 <= missing
  BY <1>2, <1>3
<1>6. n \in Nat /\ n <= length * Len(pad) /\ 1 * Len(pad) <= n
  BY <1>1, <1>5, Times
<1>7. Repeat(pad, missing) \in Seq(Byte)
  BY <1>5, RepeatType
<1> HIDE DEF missing, n
<1>8. n >= 1
  BY <1>1, <1>6
<1>9. /\ left + (length * Len(pad) - n) \in Nat /\ left + length * Len(pad) \in Nat
      /\ n <= left + length * Len(pad)
  BY <1>1, <1>6
<1>10. Len(Str(LeftPad(buf, length, pad))) = Len(Str(buf)) + n
  BY <1>4, <1>6, <1>7, <1>9, GrownLeft
<1> QED BY <1>2, <1>8, <1>10, <1>6

LEMMA AppendChanges ==
  ASSUME NEW buf, NEW text \in Seq(Byte), NEW left \in Nat, NEW right \in Nat,
         Fits(buf, left, Len(text) + right), ~buf.loaded, text # <<>>
  PROVE  Str(AppendText(buf, text)) # Str(buf)
<1> DEFINE loaded == Load(buf)
           r == AppendText(buf, text)
<1>1. Len(text) \in Nat \ {0} /\ Len(text) + right \in Nat
  BY EmptySeq
<1>2. /\ loaded \in Buf /\ loaded.loaded /\ Fits(loaded, left, Len(text) + right)
      /\ loaded.lo \in Nat /\ loaded.hi = loaded.lo + Len(buf.src)
      /\ Str(buf) = buf.src /\ Len(buf.src) \in Nat
  BY <1>1, LoadFits, LoadKeeps DEF Fits
<1>3. loaded.hi + Len(text) <= ScratchSize
  BY <1>1, <1>2, SizesType DEF Fits, HiOf
<1>4. /\ r.lo = loaded.lo /\ r.hi = loaded.hi + Len(text) /\ r.loaded
  BY <1>2, <1>3 DEF AppendText, CopyCount, Buf
<1>5. Fits(r, left, right)
  BY AppendTextFits
<1>6. Len(Str(r)) = r.hi - r.lo
  BY <1>4, <1>5, StrOfLoaded
<1> HIDE DEF r, loaded
<1>7. Str(r) # Str(buf)
  BY <1>1, <1>2, <1>4, <1>6
<1> QED BY <1>7 DEF r

LEMMA InsertChanges ==
  ASSUME NEW buf, NEW index \in Nat, NEW text \in Seq(Byte),
         NEW left \in Nat, NEW right \in Nat,
         Fits(buf, left, Len(text) + right), ~buf.loaded, text # <<>>,
         Insert(buf, index, text).loaded
  PROVE  Str(Insert(buf, index, text)) # Str(buf)
<1> DEFINE loaded == Load(buf)
           r == Insert(buf, index, text)
<1>1. Len(text) \in Nat \ {0} /\ Len(text) + right \in Nat
  BY EmptySeq
<1>2. /\ loaded \in Buf /\ loaded.loaded
      /\ loaded.lo \in Nat /\ loaded.hi = loaded.lo + Len(buf.src)
      /\ Str(buf) = buf.src /\ Len(buf.src) \in Nat
  BY <1>1, LoadFits, LoadKeeps DEF Fits
<1>3. /\ r.lo = loaded.lo /\ r.hi = loaded.hi + Len(text) /\ r.loaded
  BY <1>2 DEF Insert, Buf
<1>4. Fits(r, left, right)
  BY InsertFits
<1>5. Len(Str(r)) = r.hi - r.lo
  BY <1>3, <1>4, StrOfLoaded
<1> HIDE DEF r, loaded
<1>6. Str(r) # Str(buf)
  BY <1>1, <1>2, <1>3, <1>5
<1> QED BY <1>6 DEF r

LEMMA ReplacePrefixChanges ==
  ASSUME NEW buf, NEW from \in Seq(Byte), NEW to \in Seq(Byte), to # from,
         NEW left \in Nat, NEW right \in Nat,
         Fits(buf, left + (IF Len(to) > Len(from) THEN Len(to) - Len(from) ELSE 0),
              right),
         ~buf.loaded, ReplacePrefix(buf, from, to).loaded
  PROVE  Str(ReplacePrefix(buf, from, to)) # Str(buf)
<1> DEFINE loaded == Load(buf)
           r == ReplacePrefix(buf, from, to)
<1>1. /\ Len(from) \in Nat /\ Len(to) \in Nat
      /\ left + (IF Len(to) > Len(from) THEN Len(to) - Len(from) ELSE 0) \in Nat
  BY LenProperties
<1>2. /\ loaded \in Buf /\ loaded.loaded
      /\ loaded.lo \in Nat /\ loaded.hi = loaded.lo + Len(buf.src)
      /\ loaded.hi <= ScratchSize
      /\ loaded.b \in [1 .. ScratchSize -> Byte]
      /\ Str(buf) = buf.src /\ buf.src \in Seq(Byte) /\ Len(buf.src) \in Nat
  BY <1>1, LoadFits, LoadKeeps DEF Fits
<1>3. HasPrefix(buf.src, from)
  BY <1>2 DEF ReplacePrefix
<1>4. Len(from) <= Len(buf.src) /\ SubSeq(buf.src, 1, Len(from)) = from
  BY <1>3 DEF HasPrefix
<1>5. Fits(r, left, right)
  BY ReplacePrefixFits
<1>6. CASE Len(to) > Len(from)
  <2> DEFINE n == Len(to) - Len(from)
             room == left + (IF Len(to) > Len(from) THEN Len(to) - Len(from) ELSE 0)
  <2>1. n \in Nat /\ n <= room /\ room \in Nat /\ n > 0
    BY <1>1, <1>6
  <2>2. r = WriteAtLo(ShiftLeftEdge(loaded, n), to)
    BY <1>2, <1>3, <1>6 DEF ReplacePrefix
  <2>3. Len(Str(r)) = Len(Str(buf)) + n
    <3> HIDE DEF r, n
    <3>1. room \in Nat /\ n <= room /\ Fits(buf, room, right)
      BY <2>1
    <3> HIDE DEF room
    <3> QED BY <2>1, <2>2, <3>1, GrownLeft
  <2> QED BY <1>2, <2>1, <2>3
<1>7. CASE ~(Len(to) > Len(from))
  <2> DEFINE n == Len(from) - Len(to)
             narrowed == [loaded EXCEPT !.lo = loaded.lo + n]
  <2>1. n \in Nat
    BY <1>1, <1>7
  <2>0. loaded.lo + n \in Nat
    BY <1>2, <2>1
  <2>2. r = WriteAtLo(narrowed, to)
    BY <1>1, <1>2, <1>3, <1>7 DEF ReplacePrefix
  <2>3. /\ narrowed.lo = loaded.lo + n /\ narrowed.hi = loaded.hi
        /\ narrowed.loaded /\ narrowed.b = loaded.b
        /\ narrowed \in Buf
    <3> HIDE DEF loaded, n
    <3> QED BY <1>2, <2>0 DEF Buf
  <2>4. /\ r.lo = loaded.lo + n /\ r.hi = loaded.hi /\ r.loaded
        /\ r.b = Copied(loaded.b, loaded.lo + n, to)
    <3> HIDE DEF narrowed
    <3> QED BY <2>2, <2>3 DEF WriteAtLo, Buf
  <2> HIDE DEF r, loaded, narrowed
  <2>5. /\ Len(Str(r)) = r.hi - r.lo
        /\ \A k \in 1 .. r.hi - r.lo : Str(r)[k] = r.b[r.lo + k]
    BY <1>5, <2>4, StrOfLoaded
  <2>6. CASE n > 0
    <3>1. Len(Str(r)) = Len(buf.src) - n
      BY <1>2, <2>1, <2>4, <2>5
    <3> QED BY <1>2, <2>1, <2>6, <3>1 DEF r
  <2>7. CASE n = 0
    <3>1. Len(to) = Len(from)
      BY <1>1, <2>7
    <3>2. PICK k \in 1 .. Len(to) : to[k] # from[k]
      BY <3>1, SeqEqual
    <3>3. buf.src[k] = from[k]
      <4>1. k \in 1 .. Len(from) - 1 + 1 /\ 1 + k - 1 = k
        BY <1>1, <3>1
      <4>2. \A i \in 1 .. Len(from) : buf.src[i] \in Byte
        BY <1>1, <1>2, <1>4, ElementOfSeq
      <4>3. SubSeq(buf.src, 1, Len(from))[k] = buf.src[1 + k - 1]
        BY <1>1, <4>1, <4>2, SubSeqProperties
      <4> QED BY <1>4, <4>1, <4>3
    <3>4. Str(r)[k] = r.b[r.lo + k] /\ r.lo = loaded.lo
      BY <1>1, <1>2, <1>4, <2>4, <2>5, <2>7, <3>1
    <3>5. r.b[r.lo + k] = to[k]
      <4>1. /\ r.lo + k \in 1 .. ScratchSize
            /\ r.lo + k \in r.lo + 1 .. r.lo + Len(to) /\ (r.lo + k) - r.lo = k
        <5>1. r.lo \in Nat /\ r.lo + Len(buf.src) <= ScratchSize
          BY <1>2, <3>4
        <5>2. k \in Nat /\ 1 <= k /\ k <= Len(to) /\ k <= Len(buf.src)
          BY <1>1, <1>2, <1>4, <3>1
        <5> QED BY <1>1, <1>2, <5>1, <5>2, SizesType, SMTT(60)
      <4>2. r.b = Copied(loaded.b, r.lo, to)
        BY <2>4
      <4> QED BY <4>1, <4>2 DEF Copied
    <3> QED BY <1>2, <3>2, <3>3, <3>4, <3>5 DEF r
  <2> QED BY <2>1, <2>6, <2>7
<1> QED BY <1>6, <1>7

LEMMA PrependCountryChanges ==
  ASSUME NEW buf, NEW target \in Target, NEW left \in Nat, NEW right \in Nat,
         Fits(buf, left + Len(target.lead), right), ~buf.loaded,
         PrependCountry(buf, target).loaded
  PROVE  Str(PrependCountry(buf, target)) # Str(buf)
<1>1. target.lead # <<>> /\ PrependCountry(buf, target) = Prepend(buf, target.lead)
  BY DEF PrependCountry
<1>2. target.lead \in Seq(Byte)
  BY DEF Target
<1> QED BY <1>1, <1>2, PrependChanges

(* What a filter keeps from an offset on, as the function KeptFrom is      *)
(* taken from.                                                             *)
KeptFunction(step, s, o, kept) ==
  kept = [p \in o .. Len(s) |->
            IF p = Len(s) THEN <<>> ELSE KeptAt(step, s, p) \o kept[p + RuneSize(s, p)]]

(* It exists: what follows an offset depends on later offsets only.        *)
LEMMA KeptExists ==
  ASSUME NEW step, NEW s \in Seq(Byte), NEW o \in 0 .. Len(s)
  PROVE  \E kept : KeptFunction(step, s, o, kept)
<1> DEFINE n == Len(s)
           Missing == { m \in 0 .. n - o : ~(\E kept : KeptFunction(step, s, n - m, kept)) }
<1>0. n \in Nat
  BY LenProperties
<1> HIDE DEF n
<1>1. SUFFICES ASSUME Missing # {} PROVE FALSE
  <2>1. n - o \in 0 .. n - o /\ n - (n - o) = o
    BY <1>0 DEF n
  <2> QED BY <1>1, <2>1
<1>2. PICK m \in Missing : \A k \in Missing : m <= k
  <2>1. Missing \subseteq Nat
    BY <1>0
  <2> QED BY <1>1, <2>1, LeastExists
<1>3. m \in 0 .. n - o /\ ~(\E kept : KeptFunction(step, s, n - m, kept))
  BY <1>2
<1>4. CASE m = 0
  <2> DEFINE kept == [p \in n .. n |-> <<>>]
  <2>1. n - m = n
    BY <1>0, <1>4
  <2>2. KeptFunction(step, s, n, kept)
    <3>1. \A p \in n .. Len(s) : p = Len(s)
      BY <1>0 DEF n
    <3>2. [p \in n .. Len(s) |->
             IF p = Len(s) THEN <<>> ELSE KeptAt(step, s, p) \o kept[p + RuneSize(s, p)]]
            = kept
      BY <3>1 DEF n
    <3> QED BY <3>2 DEF KeptFunction
  <2> QED BY <1>3, <2>1, <2>2
<1>5. CASE m # 0
  <2> DEFINE p0 == n - m
  <2>1. m - 1 \in 0 .. n - o /\ m - 1 \notin Missing /\ n - (m - 1) = p0 + 1
    <3>1. m \in Nat /\ m > 0 /\ m <= n - o /\ n - o \in Int
      BY <1>0, <1>3, <1>5
    <3>2. m - 1 \in 0 .. n - o /\ n - (m - 1) = (n - m) + 1 /\ ~(m <= m - 1)
      BY <1>0, <3>1
    <3> HIDE DEF Missing
    <3> QED BY <1>2, <3>2
  <2>2. PICK f : KeptFunction(step, s, p0 + 1, f)
    BY <2>1
  <2>3. p0 \in Nat /\ p0 < n /\ p0 \in 0 .. Len(s) - 1
    BY <1>0, <1>3, <1>5 DEF n
  <2> DEFINE kept == [p \in p0 .. n |->
                        IF p = p0 THEN KeptAt(step, s, p0) \o f[p0 + RuneSize(s, p0)]
                        ELSE f[p]]
  <2>4. \A p \in p0 .. n : p # n => p + RuneSize(s, p) \in p0 + 1 .. n
    <3> SUFFICES ASSUME NEW p \in p0 .. n, p # n PROVE p + RuneSize(s, p) \in p0 + 1 .. n
      OBVIOUS
    <3>1. p \in 0 .. Len(s) - 1 /\ p \in Nat /\ p0 <= p
      BY <1>0, <2>3 DEF n
    <3>2. RuneSize(s, p) \in 1 .. n - p
      BY <3>1, RuneSizeBound DEF n
    <3> HIDE DEF p0
    <3> QED BY <1>0, <2>3, <3>1, <3>2
  <2> HIDE DEF p0
  <2>5. \A q \in p0 + 1 .. n : kept[q] = f[q]
    BY <1>0, <2>3
  <2>6. ASSUME NEW p \in p0 .. n
        PROVE  kept[p] = IF p = n THEN <<>> ELSE KeptAt(step, s, p) \o kept[p + RuneSize(s, p)]
    <3>1. CASE p = p0
      <4>1. kept[p] = KeptAt(step, s, p0) \o f[p0 + RuneSize(s, p0)]
        BY <3>1
      <4>2. f[p0 + RuneSize(s, p0)] = kept[p0 + RuneSize(s, p0)]
        <5>1. p0 \in p0 .. n /\ p0 # n
          BY <1>0, <2>3
        <5> QED BY <2>4, <2>5, <5>1
      <4>3. p # n
        BY <1>0, <2>3, <3>1
      <4> HIDE DEF kept
      <4> QED BY <3>1, <4>1, <4>2, <4>3
    <3>2. CASE p # p0
      <4>1. p \in p0 + 1 .. n /\ kept[p] = f[p]
        BY <1>0, <2>3, <3>2
      <4>2. f[p] = IF p = n THEN <<>> ELSE KeptAt(step, s, p) \o f[p + RuneSize(s, p)]
        BY <2>2, <4>1 DEF KeptFunction, n
      <4>3. p # n => f[p + RuneSize(s, p)] = kept[p + RuneSize(s, p)]
        BY <2>4, <2>5
      <4> HIDE DEF kept
      <4> QED BY <4>1, <4>2, <4>3
    <3> QED BY <3>1, <3>2
  <2>7. kept = [p \in p0 .. n |->
                  IF p = n THEN <<>> ELSE KeptAt(step, s, p) \o kept[p + RuneSize(s, p)]]
    <3>1. kept = [p \in p0 .. n |-> kept[p]]
      OBVIOUS
    <3> HIDE DEF kept
    <3> QED BY <2>6, <3>1
  <2> HIDE DEF kept
  <2>8. KeptFunction(step, s, p0, kept)
    BY <2>7 DEF KeptFunction, n
  <2> QED BY <1>3, <2>8 DEF p0
<1> QED BY <1>4, <1>5

LEMMA KeptAtType ==
  ASSUME NEW step, NEW s \in Seq(Byte), NEW o \in 0 .. Len(s) - 1
  PROVE  KeptAt(step, s, o) \in Seq(Byte) /\ Len(KeptAt(step, s, o)) <= RuneSize(s, o)
<1> DEFINE low == o + 1
           high == o + RuneSize(s, o)
<1>1. Len(s) \in Nat /\ RuneSize(s, o) \in 1 .. Len(s) - o
  BY LenProperties, RuneSizeBound
<1>2. /\ low \in Int /\ high \in Int /\ low <= high
      /\ high - low + 1 = RuneSize(s, o)
      /\ \A k \in low .. high : k \in 1 .. Len(s)
  BY <1>1
<1> HIDE DEF low, high
<1>3. \A k \in low .. high : s[k] \in Byte
  BY <1>2, ElementOfSeq
<1>4. SubSeq(s, low, high) \in Seq(Byte) /\ Len(SubSeq(s, low, high)) = high - low + 1
  BY <1>2, <1>3, SubSeqProperties
<1>5. <<>> \in Seq(Byte) /\ Len(<<>>) = 0
  BY EmptySeq
<1> QED BY <1>1, <1>2, <1>4, <1>5 DEF KeptAt, low, high

(* What a filter keeps from an offset on is no longer than what lies there, *)
(* and shorter when the first code point is removed.                       *)
LEMMA KeptBound ==
  ASSUME NEW step, NEW s \in Seq(Byte), NEW o \in 0 .. Len(s)
  PROVE  /\ KeptFrom(step, s, o) \in Seq(Byte) /\ Len(KeptFrom(step, s, o)) <= Len(s) - o
         /\ o < Len(s) /\ KeptAt(step, s, o) = <<>> => Len(KeptFrom(step, s, o)) < Len(s) - o
<1> DEFINE n == Len(s)
           kept == CHOOSE kept : KeptFunction(step, s, o, kept)
           Short(p) == kept[p] \in Seq(Byte) /\ Len(kept[p]) <= n - p
           Missing == { m \in 0 .. n - o : ~Short(n - m) }
<1>0. n \in Nat
  BY LenProperties
<1>1. KeptFunction(step, s, o, kept)
  BY KeptExists
<1>2. KeptFrom(step, s, o) = kept[o]
  BY DEF KeptFrom, KeptFunction
<1> HIDE DEF kept
<1>3. \A p \in o .. n :
        kept[p] = IF p = n THEN <<>> ELSE KeptAt(step, s, p) \o kept[p + RuneSize(s, p)]
  BY <1>1 DEF KeptFunction
<1> HIDE DEF n
<1>4. ASSUME NEW p \in o .. n, p # n
      PROVE  /\ p \in Nat /\ p + RuneSize(s, p) \in p + 1 .. n /\ p + RuneSize(s, p) \in o .. n
             /\ KeptAt(step, s, p) \in Seq(Byte)
             /\ Len(KeptAt(step, s, p)) \in Nat /\ Len(KeptAt(step, s, p)) <= RuneSize(s, p)
             /\ RuneSize(s, p) \in Nat /\ RuneSize(s, p) >= 1
  <2>1. p \in 0 .. Len(s) - 1 /\ p \in Nat /\ o <= p
    BY <1>0, <1>4 DEF n
  <2>2. RuneSize(s, p) \in 1 .. n - p
    BY <2>1, RuneSizeBound DEF n
  <2>3. KeptAt(step, s, p) \in Seq(Byte) /\ Len(KeptAt(step, s, p)) <= RuneSize(s, p)
    BY <2>1, KeptAtType
  <2>4. Len(KeptAt(step, s, p)) \in Nat
    BY <2>3, LenProperties
  <2> QED BY <1>0, <2>1, <2>2, <2>3, <2>4
<1>5. ASSUME NEW p \in o .. n, p # n, Short(p + RuneSize(s, p))
      PROVE  /\ kept[p] \in Seq(Byte)
             /\ Len(kept[p]) = Len(KeptAt(step, s, p)) + Len(kept[p + RuneSize(s, p)])
             /\ Len(kept[p + RuneSize(s, p)]) \in Nat
             /\ Len(kept[p + RuneSize(s, p)]) <= n - (p + RuneSize(s, p))
  <2>1. kept[p] = KeptAt(step, s, p) \o kept[p + RuneSize(s, p)]
    BY <1>3, <1>5
  <2>2. KeptAt(step, s, p) \in Seq(Byte)
    BY <1>4, <1>5
  <2>3. kept[p + RuneSize(s, p)] \in Seq(Byte)
    BY <1>5
  <2>4. Len(kept[p + RuneSize(s, p)]) \in Nat
    BY <2>3, LenProperties
  <2> QED BY <1>5, <2>1, <2>2, <2>3, <2>4, ConcatProperties
<1>6. Missing = {}
  <2> SUFFICES ASSUME Missing # {} PROVE FALSE
    OBVIOUS
  <2>1. PICK m \in Missing : \A k \in Missing : m <= k
    <3>1. Missing \subseteq Nat
      BY <1>0
    <3> QED BY <3>1, LeastExists
  <2>2. m \in 0 .. n - o /\ ~Short(n - m)
    OBVIOUS
  <2> DEFINE p == n - m
  <2>3. p \in o .. n
    BY <1>0, <2>2
  <2>4. CASE p = n
    <3>1. kept[p] = <<>>
      BY <1>3, <2>3, <2>4
    <3> QED BY <1>0, <2>2, <2>4, <3>1, EmptySeq
  <2>5. CASE p # n
    <3> DEFINE q == p + RuneSize(s, p)
    <3>1. q \in o .. n /\ q \in p + 1 .. n
      BY <1>4, <2>3, <2>5
    <3>2. n - q \in 0 .. n - o /\ n - q < m /\ n - (n - q) = q
      BY <1>0, <2>2, <2>3, <3>1, SMTT(30)
    <3>3. Short(q)
      <4>1. n - q \notin Missing
        <5>1. ~(m <= n - q)
          BY <1>0, <2>2, <3>2
        <5> HIDE DEF Missing
        <5> QED BY <2>1, <5>1
      <4> HIDE DEF q, p
      <4> QED BY <3>2, <4>1
    <3> HIDE DEF p
    <3>4. /\ kept[p] \in Seq(Byte) /\ Len(kept[p]) = Len(KeptAt(step, s, p)) + Len(kept[q])
          /\ Len(kept[q]) \in Nat /\ Len(kept[q]) <= n - q
      BY <1>5, <2>3, <2>5, <3>3
    <3>5. /\ Len(KeptAt(step, s, p)) \in Nat /\ Len(KeptAt(step, s, p)) <= RuneSize(s, p)
          /\ RuneSize(s, p) \in Nat
      BY <1>4, <2>3, <2>5
    <3>6. Len(kept[p]) <= n - p
      BY <1>0, <2>3, <3>4, <3>5
    <3> QED BY <2>2, <3>4, <3>6 DEF p
  <2> QED BY <2>4, <2>5
<1>7. \A p \in o .. n : Short(p)
  <2> SUFFICES ASSUME NEW p \in o .. n PROVE Short(p)
    OBVIOUS
  <2>1. n - p \in 0 .. n - o /\ n - (n - p) = p
    BY <1>0
  <2>2. Short(n - (n - p))
    BY <1>6, <2>1
  <2> HIDE DEF Short
  <2> QED BY <2>1, <2>2
<1>8. o \in o .. n
  BY <1>0 DEF n
<1>9. kept[o] \in Seq(Byte) /\ Len(kept[o]) <= n - o
  BY <1>7, <1>8
<1>10. ASSUME o < n, KeptAt(step, s, o) = <<>> PROVE Len(kept[o]) < n - o
  <2>1. /\ o + RuneSize(s, o) \in o .. n
        /\ RuneSize(s, o) \in Nat /\ RuneSize(s, o) >= 1
    BY <1>0, <1>4, <1>8, <1>10
  <2>2. Short(o + RuneSize(s, o))
    BY <1>7, <2>1
  <2>3. /\ Len(kept[o]) = Len(KeptAt(step, s, o)) + Len(kept[o + RuneSize(s, o)])
        /\ Len(kept[o + RuneSize(s, o)]) \in Nat
        /\ Len(kept[o + RuneSize(s, o)]) <= n - (o + RuneSize(s, o))
    BY <1>0, <1>5, <1>8, <1>10, <2>2
  <2>4. Len(KeptAt(step, s, o)) = 0
    BY <1>10
  <2> QED BY <1>0, <2>1, <2>3, <2>4
<1> QED BY <1>2, <1>9, <1>10 DEF n

(* A filter that starts removes the code point it starts at.               *)
LEMMA FilterChanges ==
  ASSUME IInv, FilterStart, ~w.loaded
  PROVE  Current' # Current
<1> DEFINE s == Str(w)
           cut == FilterCut(CurrentStep, s)
<1>1. /\ cut < Len(s) /\ w' = Load(w) /\ at <= Len(Compiled(def)) /\ ~scan.active
      /\ scan' = [active |-> TRUE, i |-> cut, dst |-> cut]
      /\ def' = def /\ at' = at
  BY DEF FilterStart, ReachesFilter, Reaches
<1>2. LeftFromStep(at) \in Nat /\ RightFromStep(at) \in Nat
      /\ Fits(w, LeftFromStep(at), RightFromStep(at))
  BY <1>1, RoomForStep DEF IInv
<1>3. /\ s \in Seq(Byte) /\ Len(s) \in Nat
      /\ w'.lo \in Nat /\ w'.lo + Len(s) <= ScratchSize
      /\ w'.b \in [1 .. ScratchSize -> Byte]
      /\ Str(w') = s
  BY <1>1, <1>2, LoadKeeps
<1>4. cut \in 0 .. Len(s) /\ ~Keeps(CurrentStep, s, cut)
  <2> DEFINE S == { o \in RuneStarts(s) : ~Keeps(CurrentStep, s, o) } \cup { Len(s) }
  <2>1. S \subseteq Nat /\ S # {}
    BY <1>3 DEF RuneStarts
  <2>2. cut \in S
    BY <2>1, LeastIsLeast DEF FilterCut
  <2>3. cut \in 0 .. Len(s)
    BY <1>3, FilterCutBounds
  <2> HIDE DEF cut
  <2> QED BY <1>1, <2>2, <2>3
<1>5. KeptAt(CurrentStep, s, cut) = <<>>
  BY <1>4 DEF KeptAt
<1>6. Current = s
  BY <1>1 DEF Current
<1> DEFINE head == SubSeq(w'.b, w'.lo + 1, w'.lo + cut)
<1>7. Current' = head \o KeptFrom(CurrentStep, s, cut)
  <2>1. CurrentStep' = CurrentStep
    BY <1>1 DEF CurrentStep
  <2>2. scan'.active /\ scan'.i = cut /\ scan'.dst = cut
    BY <1>1
  <2> QED BY <1>3, <2>1, <2>2 DEF Current
<1> HIDE DEF s, cut
<1>8. head \in Seq(Byte) /\ Len(head) = cut
  <2> DEFINE low == w'.lo + 1
             high == w'.lo + cut
  <2>1. /\ low \in Int /\ high \in Int
        /\ (IF low <= high THEN high - low + 1 ELSE 0) = cut
        /\ \A k \in low .. high : k \in 1 .. ScratchSize
    BY <1>3, <1>4, SizesType
  <2> HIDE DEF low, high
  <2>2. \A k \in low .. high : w'.b[k] \in Byte
    BY <1>3, <2>1
  <2>3. SubSeq(w'.b, low, high) \in Seq(Byte)
        /\ Len(SubSeq(w'.b, low, high)) = IF low <= high THEN high - low + 1 ELSE 0
    BY <2>1, <2>2, SubSeqProperties
  <2> QED BY <2>1, <2>3 DEF low, high
<1> HIDE DEF head
<1>9. /\ KeptFrom(CurrentStep, s, cut) \in Seq(Byte)
      /\ Len(KeptFrom(CurrentStep, s, cut)) < Len(s) - cut
  BY <1>1, <1>3, <1>4, <1>5, KeptBound DEF s, cut
<1>10. Len(Current') = cut + Len(KeptFrom(CurrentStep, s, cut))
  BY <1>7, <1>8, <1>9, ConcatProperties
<1>11. Len(KeptFrom(CurrentStep, s, cut)) \in Nat
  BY <1>9, LenProperties
<1> QED BY <1>3, <1>4, <1>6, <1>9, <1>10, <1>11

(* What the loader checked of the step about to run.                       *)
LEMMA CurrentAccepted ==
  ASSUME IInv, at <= Len(Compiled(def))
  PROVE  NodeAccepted(CurrentStep)
<1> DEFINE pre == PreSteps[def]
           prog == Steps[ProgramOf[def]]
<1>1. /\ pre \in Seq(Step) /\ prog \in Seq(Step)
      /\ \A i \in DOMAIN pre : NodeAccepted(pre[i])
      /\ \A i \in DOMAIN prog : NodeAccepted(prog[i])
  BY BundleAssumption DEF ProgramsAccepted, Programs, IInv
<1> HIDE DEF pre, prog
<1>2. /\ Len(pre) \in Nat /\ DOMAIN pre = 1 .. Len(pre)
      /\ Len(prog) \in Nat /\ DOMAIN prog = 1 .. Len(prog)
  BY <1>1, LenProperties
<1>3. Compiled(def) = pre \o prog
  BY DEF Compiled, pre, prog
<1>4. /\ Len(Compiled(def)) = Len(pre) + Len(prog)
      /\ \A i \in 1 .. Len(pre) + Len(prog) :
           Compiled(def)[i] = IF i <= Len(pre) THEN pre[i] ELSE prog[i - Len(pre)]
  BY <1>1, <1>3, ConcatProperties
<1>5. at \in 1 .. Len(pre) + Len(prog)
  BY <1>2, <1>4 DEF IInv
<1>6. CASE at <= Len(pre)
  <2>1. at \in DOMAIN pre /\ CurrentStep = pre[at]
    BY <1>2, <1>4, <1>5, <1>6 DEF CurrentStep
  <2> QED BY <1>1, <2>1
<1>7. CASE ~(at <= Len(pre))
  <2>1. at - Len(pre) \in DOMAIN prog /\ CurrentStep = prog[at - Len(pre)]
    BY <1>2, <1>4, <1>5, <1>7 DEF CurrentStep
  <2> QED BY <1>1, <2>1
<1> QED BY <1>6, <1>7

(* A step that loads the value changes it.                                 *)
LEMMA LoadingChanges ==
  ASSUME IInv, Next, ~w.loaded, w'.loaded
  PROVE  Current' # Current
<1> DEFINE left == LeftFromStep(at + 1)
           right == RightFromStep(at + 1)
           grown == LeftGrowth(CurrentStep, TargetOf[def])
<1>1. ~scan.active
  BY DEF IInv, ScanInv
<1>2. ASSUME at <= Len(Compiled(def))
      PROVE  /\ left \in Nat /\ right \in Nat
             /\ Fits(w, left + grown, RightGrowth(CurrentStep) + right)
             /\ Fits(w, left, right)
             /\ CurrentStep \in Step /\ TargetOf[def] \in Target
             /\ NodeAccepted(CurrentStep)
  <2>1. /\ left \in 0 .. LeftFromStep(at) /\ right \in 0 .. RightFromStep(at)
        /\ LeftFromStep(at) \in Nat /\ RightFromStep(at) \in Nat
    BY <1>2, RoomForStep
  <2>2. Fits(w, left, right)
    BY <2>1, FitsLess DEF IInv
  <2> QED BY <1>2, <2>2, RoomForStep, CurrentAccepted DEF IInv
<1>3. ASSUME NEW buf, Leaves(buf), Str(buf) # Str(w) PROVE Current' # Current
  BY <1>1, <1>3 DEF Leaves, Current
<1>4. CASE DoTrimWhitespace
  <2>1. at <= Len(Compiled(def)) /\ Leaves(TrimWhitespace(w))
    BY <1>4 DEF DoTrimWhitespace, Reaches
  <2>2. TrimWhitespace(w).loaded
    BY <2>1 DEF Leaves
  <2> QED BY <1>2, <1>3, <2>1, <2>2, TrimChanges
<1>5. CASE DoUppercaseASCII
  <2>1. at <= Len(Compiled(def)) /\ Leaves(UppercaseASCII(w))
    BY <1>5 DEF DoUppercaseASCII, Reaches
  <2>2. UppercaseASCII(w).loaded
    BY <2>1 DEF Leaves
  <2> QED BY <1>2, <1>3, <2>1, <2>2, UppercaseChanges
<1>6. CASE DoReplacePrefix
  <2> DEFINE from == CurrentStep.text
             to == CurrentStep.replacement
  <2>1. /\ at <= Len(Compiled(def)) /\ CurrentStep.op = "REPLACE_PREFIX"
        /\ Leaves(ReplacePrefix(w, from, to))
    BY <1>6 DEF DoReplacePrefix, Reaches
  <2>2. /\ grown = IF Len(to) > Len(from) THEN Len(to) - Len(from) ELSE 0
        /\ RightGrowth(CurrentStep) = 0
    BY <2>1 DEF LeftGrowth, RightGrowth
  <2>3. /\ from \in Seq(Byte) /\ to \in Seq(Byte) /\ left \in Nat /\ right \in Nat
        /\ to # from
    BY <1>2, <2>1 DEF Step, NodeAccepted
  <2>4. Fits(w, left + (IF Len(to) > Len(from) THEN Len(to) - Len(from) ELSE 0), right)
    <3>1. RightGrowth(CurrentStep) + right = right
      BY <2>2, <2>3
    <3>2. Fits(w, left + grown, right)
      BY <1>2, <2>1, <3>1
    <3> QED BY <2>2, <3>2
  <2>5. ReplacePrefix(w, from, to).loaded
    BY <2>1 DEF Leaves
  <2> HIDE DEF left, right, from, to
  <2>6. Str(ReplacePrefix(w, from, to)) # Str(w)
    BY <2>3, <2>4, <2>5, ReplacePrefixChanges
  <2> QED BY <1>3, <2>1, <2>6
<1>7. CASE DoPrepend
  <2> DEFINE text == CurrentStep.text
  <2>1. /\ at <= Len(Compiled(def)) /\ CurrentStep.op = "PREPEND"
        /\ Leaves(Prepend(w, text))
    BY <1>7 DEF DoPrepend, Reaches
  <2>2. grown = Len(text) /\ RightGrowth(CurrentStep) = 0
    BY <2>1 DEF LeftGrowth, RightGrowth
  <2>3. text \in Seq(Byte) /\ left \in Nat /\ right \in Nat /\ text # <<>>
    BY <1>2, <2>1 DEF Step, NodeAccepted
  <2>4. Fits(w, left + Len(text), right)
    BY <1>2, <2>1, <2>2, <2>3
  <2> QED BY <1>3, <2>1, <2>3, <2>4, PrependChanges
<1>8. CASE DoAppend
  <2> DEFINE text == CurrentStep.text
  <2>1. /\ at <= Len(Compiled(def)) /\ CurrentStep.op = "APPEND"
        /\ Leaves(AppendText(w, text))
    BY <1>8 DEF DoAppend, Reaches
  <2>2. grown = 0 /\ RightGrowth(CurrentStep) = Len(text)
    BY <2>1 DEF LeftGrowth, RightGrowth
  <2>3. text \in Seq(Byte) /\ left \in Nat /\ right \in Nat /\ text # <<>>
    BY <1>2, <2>1 DEF Step, NodeAccepted
  <2>4. Fits(w, left, Len(text) + right)
    BY <1>2, <2>1, <2>2, <2>3
  <2> QED BY <1>3, <2>1, <2>3, <2>4, AppendChanges
<1>9. CASE DoInsert
  <2> DEFINE text == CurrentStep.text
             index == CurrentStep.number
  <2>1. /\ at <= Len(Compiled(def)) /\ CurrentStep.op = "INSERT"
        /\ Leaves(Insert(w, index, text))
    BY <1>9 DEF DoInsert, Reaches
  <2>2. grown = 0 /\ RightGrowth(CurrentStep) = Len(text)
    BY <2>1 DEF LeftGrowth, RightGrowth
  <2>3. /\ text \in Seq(Byte) /\ left \in Nat /\ right \in Nat /\ text # <<>>
        /\ index \in Nat
    BY <1>2, <2>1 DEF Step, NodeAccepted
  <2>4. Fits(w, left, Len(text) + right)
    BY <1>2, <2>1, <2>2, <2>3
  <2>5. Insert(w, index, text).loaded
    BY <2>1 DEF Leaves
  <2> QED BY <1>3, <2>1, <2>3, <2>4, <2>5, InsertChanges
<1>10. CASE DoLeftPad
  <2> DEFINE pad == CurrentStep.text
             length == CurrentStep.number
  <2>1. /\ at <= Len(Compiled(def)) /\ CurrentStep.op = "LEFT_PAD"
        /\ Leaves(LeftPad(w, length, pad))
    BY <1>10 DEF DoLeftPad, Reaches
  <2>2. grown = length * Len(pad) /\ RightGrowth(CurrentStep) = 0
    BY <2>1 DEF LeftGrowth, RightGrowth
  <2>3. /\ pad \in Seq(Byte) /\ left \in Nat /\ right \in Nat /\ pad # <<>>
        /\ length \in Nat
    BY <1>2, <2>1 DEF Step, NodeAccepted
  <2>4. Fits(w, left + length * Len(pad), right)
    <3>1. RightGrowth(CurrentStep) + right = right
      BY <2>2, <2>3
    <3> QED BY <1>2, <2>1, <2>2, <3>1
  <2>5. LeftPad(w, length, pad).loaded
    BY <2>1 DEF Leaves
  <2> HIDE DEF left, right, pad, length
  <2>6. Str(LeftPad(w, length, pad)) # Str(w)
    BY <2>3, <2>4, <2>5, LeftPadChanges
  <2> QED BY <1>3, <2>1, <2>6
<1>11. CASE DoPrependCountry
  <2> DEFINE target == TargetOf[def]
  <2>1. /\ at <= Len(Compiled(def)) /\ CurrentStep.op = "PREPEND_COUNTRY_IF_MISSING"
        /\ Leaves(PrependCountry(w, target))
    BY <1>11 DEF DoPrependCountry, Reaches
  <2>2. grown = Len(target.lead) /\ RightGrowth(CurrentStep) = 0
    BY <2>1 DEF LeftGrowth, RightGrowth
  <2>3. target \in Target /\ left \in Nat /\ right \in Nat
    BY <1>2, <2>1
  <2>4. Fits(w, left + Len(target.lead), right)
    BY <1>2, <2>1, <2>2, <2>3
  <2>5. PrependCountry(w, target).loaded
    BY <2>1 DEF Leaves
  <2> QED BY <1>3, <2>1, <2>3, <2>4, <2>5, PrependCountryChanges
<1>12. CASE DoWhen \/ Return
  BY <1>12 DEF DoWhen, Return
<1>13. CASE FilterNothing
  BY <1>13 DEF FilterNothing, Leaves
<1>14. CASE FilterStart
  BY <1>14, FilterChanges
<1>15. CASE FilterRune \/ FilterEnd
  BY <1>1, <1>15 DEF FilterRune, FilterEnd
<1> QED
  BY <1>4, <1>5, <1>6, <1>7, <1>8, <1>9, <1>10, <1>11, <1>12, <1>13, <1>14,
     <1>15 DEF Next

(* Modified (buffer.go) is exact: the value is copied into the scratch     *)
(* array only by a step that changes it, because the loader refuses empty  *)
(* texts and prefixes replaced by themselves (load.go).                    *)
THEOREM OnlyChangesLoad == Unshared => (Spec => LoadsOnlyOnChange)
<1>1. IInv /\ [Next]_vars => [~w.loaded /\ w'.loaded => Current' # Current]_vars
  <2> SUFFICES ASSUME IInv, Next, ~w.loaded, w'.loaded PROVE Current' # Current
    OBVIOUS
  <2> QED BY LoadingChanges
<1> QED BY <1>1, Invariance, PTL DEF Spec, LoadsOnlyOnChange
=============================================================================
