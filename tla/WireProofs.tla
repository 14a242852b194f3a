----------------------------- MODULE WireProofs -----------------------------
(***************************************************************************)
(* A bundle cannot make a reader read past its slice, and a number is read  *)
(* as it was written or refused: for every bundle, of any length, every     *)
(* width of a byte and of a value, and every limit on the nesting.          *)
(*                                                                          *)
(* WithinSlice is inductive once every primitive of the reader is known to  *)
(* move forward and to stay within the window it is given.  For a varint    *)
(* that is a statement about a recursive function, proved by the last       *)
(* position at which it would fail.  VarintsAreExact is a statement about   *)
(* the buffer alone: the same function is followed from the byte that ends  *)
(* a value down to the first, and the sum of the payloads from the first    *)
(* up, whose bound decides whether the last byte overflows.                 *)
(***************************************************************************)
EXTENDS Wire, SequenceTheorems, FiniteSetTheorems, WellFoundedInduction, TLAPS

------------------------------------------------------------------------------
(***************************************************************************)
(* Numbers.                                                                *)
(***************************************************************************)

(* A nonempty set of naturals has a least element.                          *)
LEMMA LeastExists ==
  ASSUME NEW S, S \subseteq Nat, S # {}
  PROVE  \E n \in S : \A m \in S : n <= m
<1>1. \E n \in S : \A m \in S : ~(<<m, n>> \in OpToRel(<, Nat))
  BY NatLessThanWellFounded, WFMin
<1>2. PICK n \in S : \A m \in S : ~(<<m, n>> \in OpToRel(<, Nat))
  BY <1>1
<1>3. ASSUME NEW m \in S PROVE n <= m
  <2>1. m \in Nat /\ n \in Nat
    OBVIOUS
  <2>2. ~(m < n)
    BY <1>2, <1>3, <2>1 DEF OpToRel
  <2> QED BY <2>1, <2>2
<1> QED BY <1>2, <1>3

(* A power of two counts the subsets of a set: it is a positive number.     *)
LEMMA PowerIsPositive ==
  ASSUME NEW n \in Nat
  PROVE  2^n \in Nat /\ 2^n > 0
<1>1. IsFiniteSet(1 .. n) /\ Cardinality(1 .. n) = n
  <2>1. IsFiniteSet(1 .. n) /\ Cardinality(1 .. n) = IF 1 > n THEN 0 ELSE n - 1 + 1
    BY FS_Interval
  <2> QED BY <2>1
<1>2. IsFiniteSet(SUBSET (1 .. n)) /\ Cardinality(SUBSET (1 .. n)) = 2^n
  BY <1>1, FS_SUBSET
<1>3. SUBSET (1 .. n) # {}
  OBVIOUS
<1>4. Cardinality(SUBSET (1 .. n)) \in Nat /\ Cardinality(SUBSET (1 .. n)) # 0
  BY <1>2, <1>3, FS_CardinalityType, FS_EmptySet
<1> QED BY <1>2, <1>4

(* What a byte holds besides its continuation bit, and the bits it adds.    *)
LEMMA PayloadBound ==
  ASSUME NEW b \in Byte, NEW k \in Nat
  PROVE  (b % More) * 2^(k * Group) \in Nat
<1>1. Group \in Nat /\ More \in Nat /\ More > 0
  BY WidthAssumption, PowerIsPositive DEF More
<1>2. b \in Nat
  BY <1>1 DEF Byte, More
<1>3. b % More \in Nat
  BY <1>1, <1>2
<1>4. k * Group \in Nat
  BY <1>1
<1>5. 2^(k * Group) \in Nat
  BY <1>4, PowerIsPositive
<1>6. \A x, y \in Nat : x * y \in Nat
  OBVIOUS
<1> QED BY <1>3, <1>5, <1>6

------------------------------------------------------------------------------
(***************************************************************************)
(* The primitives of the reader.                                           *)
(***************************************************************************)

(* A result that, when there is one, is a number and a place after p, at    *)
(* most hi.                                                                 *)
Forward(r, p, hi) == r.ok => r.value \in Nat /\ r.pos \in Nat /\ p < r.pos /\ r.pos <= hi

(* What varint reads with k bytes read before, of what it reads with one    *)
(* more.                                                                    *)
ReadFrom(p, hi, k, rest) ==
  IF p + k >= hi \/ Overflows(k, At(p + k)) THEN Malformed
  ELSE LET bits == (At(p + k) % More) * 2^(k * Group)
       IN IF At(p + k) < More THEN Got(bits, p + k + 1)
          ELSE IF rest.ok THEN Got(rest.value + bits, rest.pos) ELSE Malformed

Reads(p, hi, lo, from) == from = [k \in lo .. Len(buf) |-> ReadFrom(p, hi, k, from[k + 1])]

LEMMA ReadsExists ==
  ASSUME buf \in Seq(Byte), NEW p \in Nat, NEW hi \in Nat, hi <= Len(buf), NEW lo \in 0 .. Len(buf)
  PROVE  \E from : Reads(p, hi, lo, from)
<1> DEFINE n == Len(buf)
           Missing == { m \in 0 .. n : ~ \E from : Reads(p, hi, n - m, from) }
<1>0. n \in Nat
  BY LenProperties
<1> HIDE DEF n
<1>1. SUFFICES ASSUME Missing # {} PROVE FALSE
  <2>1. n - lo \in 0 .. n /\ n - (n - lo) = lo
    BY <1>0 DEF n
  <2> QED BY <1>1, <2>1
<1>2. PICK m \in Missing : \A k \in Missing : m <= k
  <2>1. Missing \subseteq Nat
    BY <1>0
  <2> HIDE DEF Missing
  <2> QED BY <1>1, <2>1, LeastExists
<1>3. m \in 0 .. n /\ ~ \E from : Reads(p, hi, n - m, from)
  BY <1>2
<1>4. \A k, rest : k = n => ReadFrom(p, hi, k, rest) = Malformed
  BY <1>0 DEF ReadFrom, n
<1>5. CASE m = 0
  <2> DEFINE from == [k \in n .. n |-> Malformed]
  <2>1. \A k \in n .. n : from[k] = ReadFrom(p, hi, k, from[k + 1])
    BY <1>0, <1>4
  <2>2. from = [k \in n .. n |-> ReadFrom(p, hi, k, from[k + 1])]
    <3>1. from = [k \in n .. n |-> from[k]]
      OBVIOUS
    <3> HIDE DEF from
    <3> QED BY <2>1, <3>1
  <2>3. n - m = n
    BY <1>0, <1>5
  <2> QED BY <1>3, <2>2, <2>3 DEF Reads, n
<1>6. CASE m # 0
  <2> DEFINE k0 == n - m
  <2>1. m - 1 \in 0 .. n /\ ~(m <= m - 1) /\ n - (m - 1) = k0 + 1 /\ k0 \in Nat /\ k0 < n
    BY <1>0, <1>3, <1>6
  <2>2. PICK rest : Reads(p, hi, k0 + 1, rest)
    BY <1>2, <2>1
  <2> DEFINE from == [k \in k0 .. n |->
                       IF k = k0 THEN ReadFrom(p, hi, k0, rest[k0 + 1]) ELSE rest[k]]
  <2> HIDE DEF k0
  <2>3. ASSUME NEW k \in k0 .. n
        PROVE  from[k] = ReadFrom(p, hi, k, from[k + 1])
    <3>1. CASE k = n
      <4>1. n \in k0 + 1 .. n
        BY <1>0, <2>1
      <4>2. rest[n] = ReadFrom(p, hi, n, rest[n + 1])
        BY <2>2, <4>1 DEF Reads, n
      <4> QED BY <1>4, <2>1, <3>1, <4>2
    <3>2. CASE k # n
      <4>1. k + 1 \in k0 .. n /\ k + 1 # k0
        BY <1>0, <2>1, <3>2
      <4>2. from[k + 1] = rest[k + 1]
        BY <4>1
      <4>3. k # k0 => rest[k] = ReadFrom(p, hi, k, rest[k + 1])
        <5>1. k # k0 => k \in k0 + 1 .. n
          BY <1>0, <2>1
        <5> QED BY <2>2, <5>1 DEF Reads, n
      <4> QED BY <4>2, <4>3
    <3> QED BY <3>1, <3>2
  <2>4. from = [k \in k0 .. n |-> ReadFrom(p, hi, k, from[k + 1])]
    <3>1. from = [k \in k0 .. n |-> from[k]]
      OBVIOUS
    <3> HIDE DEF from
    <3> QED BY <2>3, <3>1
  <2> QED BY <1>3, <2>4 DEF Reads, n, k0
<1> QED BY <1>5, <1>6
(* A varint is a number, and ends after its place, within the window.       *)
LEMMA VarintForward ==
  ASSUME buf \in Seq(Byte), NEW p \in Nat, NEW hi \in Nat, hi <= Len(buf)
  PROVE  Forward(varint(p, hi), p, hi)
<1> DEFINE n == Len(buf)
           from == CHOOSE from : Reads(p, hi, 0, from)
<1>0. n \in Nat /\ 0 \in 0 .. n
  BY LenProperties
<1>1. Reads(p, hi, 0, from)
  BY <1>0, ReadsExists
<1>2. varint(p, hi) = from[0]
  BY DEF varint, Reads, ReadFrom
<1> HIDE DEF from
<1>3. \A k \in 0 .. n : from[k] = ReadFrom(p, hi, k, from[k + 1])
  BY <1>1 DEF Reads
<1> DEFINE Bad == { m \in 0 .. n : ~Forward(from[n - m], p + (n - m), hi) }
<1>4. Bad = {}
  <2>1. SUFFICES ASSUME Bad # {} PROVE FALSE
    OBVIOUS
  <2>2. PICK m \in Bad : \A k \in Bad : m <= k
    <3>1. Bad \subseteq Nat
      BY <1>0
    <3> HIDE DEF Bad
    <3> QED BY <2>1, <3>1, LeastExists
  <2> DEFINE k == n - m
             o == p + k
  <2>3. m \in 0 .. n /\ k \in 0 .. n /\ k \in Nat /\ o \in Nat /\ ~Forward(from[k], o, hi)
    BY <1>0, <2>2
  <2>4. from[k] = ReadFrom(p, hi, k, from[k + 1])
    BY <1>3, <2>3
  <2>5. o < hi
    <3>1. ~(o < hi) => from[k] = Malformed
      BY <2>3, <2>4 DEF ReadFrom
    <3> QED BY <2>3, <3>1 DEF Forward, Malformed
  <2>6. At(o) \in Byte
    <3>1. o + 1 \in 1 .. Len(buf)
      BY <1>0, <2>3, <2>5
    <3> HIDE DEF o, n
    <3> QED BY <3>1, ElementOfSeq DEF At
  <2> DEFINE bits == (At(o) % More) * 2^(k * Group)
  <2>7. bits \in Nat
    BY <2>3, <2>6, PayloadBound
  <2>8. from[k].ok => \/ from[k] = Got(bits, o + 1)
                      \/ from[k + 1].ok /\ from[k] = Got(from[k + 1].value + bits, from[k + 1].pos)
    <3> HIDE DEF k
    <3> QED BY <2>4 DEF ReadFrom, Malformed
  <2>9. ASSUME from[k + 1].ok
        PROVE  k + 1 \in 0 .. n /\ Forward(from[k + 1], o + 1, hi)
    <3>1. k # n
      <4>1. n = k => hi <= o
        BY <1>0, <2>3
      <4> QED BY <1>0, <2>3, <2>5, <4>1
    <3>2. m - 1 \in 0 .. n /\ ~(m <= m - 1) /\ n - (m - 1) = k + 1 /\ p + (k + 1) = o + 1
      BY <1>0, <2>3, <3>1
    <3>3. m - 1 \notin Bad
      BY <2>2, <3>2
    <3>4. Forward(from[n - (m - 1)], p + (n - (m - 1)), hi)
      BY <3>2, <3>3
    <3> QED BY <1>0, <2>3, <3>1, <3>2, <3>4
  <2> HIDE DEF bits, k, o, n
  <2>10. CASE from[k] = Got(bits, o + 1)
    <3>1. from[k].value = bits /\ from[k].pos = o + 1
      BY <2>10 DEF Got
    <3> QED BY <2>3, <2>5, <2>7, <3>1 DEF Forward
  <2>11. CASE from[k + 1].ok /\ from[k] = Got(from[k + 1].value + bits, from[k + 1].pos)
    <3>1. /\ from[k + 1].value \in Nat /\ from[k + 1].pos \in Nat
          /\ o + 1 < from[k + 1].pos /\ from[k + 1].pos <= hi
      BY <2>9, <2>11 DEF Forward
    <3>2. from[k].value = from[k + 1].value + bits /\ from[k].pos = from[k + 1].pos
      BY <2>11 DEF Got
    <3> QED BY <2>3, <2>7, <3>1, <3>2, SMTT(60) DEF Forward
  <2> QED BY <2>3, <2>8, <2>10, <2>11 DEF Forward
<1>5. Forward(from[0], p, hi)
  <2>1. n \in 0 .. n /\ n - n = 0 /\ p + (n - n) = p
    BY <1>0
  <2> QED BY <1>4, <2>1
<1> QED BY <1>2, <1>5

(* So is a tag, a body and a field of any wire type.                        *)
LEMMA NextForward ==
  ASSUME buf \in Seq(Byte), NEW p \in Nat, NEW hi \in Nat, hi <= Len(buf), next(p, hi).ok
  PROVE  /\ next(p, hi).pos \in Nat /\ p < next(p, hi).pos /\ next(p, hi).pos <= hi
         /\ next(p, hi).value \in {wireVarint, wireI64, wireBytes, wireI32}
<1> DEFINE tag == varint(p, hi)
           wire == tag.value % 8
<1>1. Forward(tag, p, hi)
  BY VarintForward
<1> HIDE DEF tag
<1>2. /\ next(p, hi) = Got(wire, tag.pos) /\ tag.ok
      /\ wire \in {wireVarint, wireI64, wireBytes, wireI32}
  BY DEF next, Malformed, tag
<1>3. next(p, hi).value = wire /\ next(p, hi).pos = tag.pos
  BY <1>2 DEF Got
<1> QED BY <1>1, <1>2, <1>3 DEF Forward

(* A body starts where its length ends, and ends within the window.         *)
LEMMA BytesForward ==
  ASSUME buf \in Seq(Byte), NEW p \in Nat, NEW hi \in Nat, hi <= Len(buf), bytes(p, hi).ok
  PROVE  /\ bytes(p, hi).value \in Nat /\ bytes(p, hi).pos \in Nat
         /\ p < bytes(p, hi).value /\ bytes(p, hi).value <= bytes(p, hi).pos
         /\ bytes(p, hi).pos <= hi
<1> DEFINE n == varint(p, hi)
<1>1. Forward(n, p, hi)
  BY VarintForward
<1> HIDE DEF n
<1>2. /\ n.ok /\ ~(n.value > hi - n.pos)
      /\ bytes(p, hi) = [ok |-> TRUE, value |-> n.pos, pos |-> n.pos + n.value]
  BY DEF bytes, Malformed, n
<1>3. bytes(p, hi).value = n.pos /\ bytes(p, hi).pos = n.pos + n.value
  BY <1>2
<1>4. n.value \in Nat /\ n.pos \in Nat /\ p < n.pos /\ n.pos <= hi
  BY <1>1, <1>2 DEF Forward
<1> QED BY <1>2, <1>3, <1>4

LEMMA SkipForward ==
  ASSUME buf \in Seq(Byte), NEW p \in Nat, NEW hi \in Nat, p <= hi, hi <= Len(buf),
         NEW wire \in {wireVarint, wireI64, wireBytes, wireI32}, skip(p, hi, wire).ok
  PROVE  skip(p, hi, wire).pos \in Nat /\ p <= skip(p, hi, wire).pos /\ skip(p, hi, wire).pos <= hi
<1>1. wireVarint = 0 /\ wireI64 = 1 /\ wireBytes = 2 /\ wireI32 = 5
  BY DEF wireVarint, wireI64, wireBytes, wireI32
<1>2. ASSUME NEW n \in {Fixed64, Fixed32}, fixed(p, hi, n).ok
      PROVE  fixed(p, hi, n).pos \in Nat /\ p <= fixed(p, hi, n).pos /\ fixed(p, hi, n).pos <= hi
  <2>1. n \in Nat
    BY SizesAssumption
  <2>2. ~(hi - p < n) /\ fixed(p, hi, n) = Got(0, p + n)
    BY <1>2 DEF fixed, Malformed
  <2>3. fixed(p, hi, n).pos = p + n
    BY <2>2 DEF Got
  <2> QED BY <2>1, <2>2, <2>3
<1>3. CASE wire = wireVarint
  <2>1. skip(p, hi, wire) = varint(p, hi)
    BY <1>1, <1>3 DEF skip
  <2>2. Forward(varint(p, hi), p, hi)
    BY VarintForward
  <2> QED BY <2>1, <2>2 DEF Forward
<1>4. CASE wire = wireI64
  <2>1. skip(p, hi, wire) = fixed(p, hi, Fixed64)
    BY <1>1, <1>4 DEF skip
  <2> QED BY <1>2, <2>1
<1>5. CASE wire = wireBytes
  <2>1. skip(p, hi, wire) = bytes(p, hi)
    BY <1>1, <1>5 DEF skip
  <2>2. /\ bytes(p, hi).value \in Nat /\ bytes(p, hi).pos \in Nat
        /\ p < bytes(p, hi).value /\ bytes(p, hi).value <= bytes(p, hi).pos
        /\ bytes(p, hi).pos <= hi
    BY <2>1, BytesForward
  <2> QED BY <2>1, <2>2
<1>6. CASE wire = wireI32
  <2>1. skip(p, hi, wire) = fixed(p, hi, Fixed32)
    BY <1>1, <1>6 DEF skip
  <2> QED BY <1>2, <2>1
<1> QED BY <1>3, <1>4, <1>5, <1>6
------------------------------------------------------------------------------
(***************************************************************************)
(* The windows.                                                            *)
(***************************************************************************)

Window == [lo : 0 .. Len(buf), hi : 0 .. Len(buf), pos : 0 .. Len(buf)]

(* The windows rs lie each within what the one before has passed.           *)
Inside(rs) ==
  \A k \in 1 .. Len(rs) :
    /\ rs[k].lo <= rs[k].pos /\ rs[k].pos <= rs[k].hi
    /\ rs[k].hi <= Len(buf)
    /\ k > 1 => rs[k - 1].lo < rs[k].lo /\ rs[k].hi = rs[k - 1].pos

Windows(rs) == rs \in Seq(Window) /\ Len(rs) \in 1 .. MaxDepth + 1 /\ Inside(rs)

LEMMA WithinIsWindows ==
  WithinSlice <=> buf \in Inputs /\ progress \in {"reading", "done", "malformed"} /\ Windows(readers)
<1>1. ASSUME readers \in Seq(Window) PROVE DOMAIN readers = 1 .. Len(readers)
  BY <1>1, LenProperties
<1> QED BY <1>1 DEF WithinSlice, ReaderTypeOK, Windows, Window, Inside

(* The innermost window, and what the buffer is.                            *)
LEMMA Innermost ==
  ASSUME WithinSlice
  PROVE  /\ buf \in Seq(Byte) /\ Len(buf) \in Nat
         /\ readers \in Seq(Window) /\ Len(readers) \in Nat /\ Len(readers) > 0
         /\ MaxDepth \in Nat /\ Len(readers) <= MaxDepth + 1
         /\ R \in Window /\ R.lo \in Nat /\ R.pos \in Nat /\ R.hi \in Nat
         /\ R.lo <= R.pos /\ R.pos <= R.hi /\ R.hi <= Len(buf)
<1>1. buf \in Inputs /\ Windows(readers)
  BY WithinIsWindows
<1>2. buf \in Seq(Byte)
  BY <1>1, InputsAssumption
<1>3. Len(buf) \in Nat
  BY <1>2, LenProperties
<1>4. /\ readers \in Seq(Window) /\ Len(readers) \in Nat /\ Len(readers) > 0
      /\ MaxDepth \in Nat /\ Len(readers) <= MaxDepth + 1
  BY <1>1, SizesAssumption DEF Windows
<1>5. Len(readers) \in 1 .. Len(readers)
  BY <1>4
<1>6. R \in Window
  BY <1>4, <1>5, ElementOfSeq DEF R
<1>7. R.lo \in Nat /\ R.pos \in Nat /\ R.hi \in Nat
  BY <1>3, <1>6 DEF Window
<1>8. R.lo <= R.pos /\ R.pos <= R.hi /\ R.hi <= Len(buf)
  BY <1>1, <1>5 DEF Windows, Inside, R
<1> QED BY <1>2, <1>3, <1>4, <1>6, <1>7, <1>8

(* The innermost reader moves on within its window.                         *)
Moved(p) == [readers EXCEPT ![Len(readers)].pos = p]

LEMMA MovedWindows ==
  ASSUME WithinSlice, NEW p \in Nat, R.pos <= p, p <= R.hi
  PROVE  /\ Windows(Moved(p)) /\ Len(Moved(p)) = Len(readers)
         /\ Moved(p)[Len(readers)].lo = R.lo /\ Moved(p)[Len(readers)].pos = p
<1> DEFINE n == Len(readers)
           moved == [R EXCEPT !.pos = p]
           rs == Moved(p)
<1>1. /\ Len(buf) \in Nat /\ readers \in Seq(Window) /\ n \in Nat /\ n > 0
      /\ R \in Window /\ R.lo \in Nat /\ R.pos \in Nat /\ R.hi \in Nat
      /\ R.lo <= R.pos /\ R.pos <= R.hi /\ R.hi <= Len(buf)
  BY Innermost
<1>2. Windows(readers)
  BY WithinIsWindows
<1>3. /\ moved \in Window /\ moved.lo = R.lo /\ moved.hi = R.hi /\ moved.pos = p
  <2>1. p \in 0 .. Len(buf)
    BY <1>1
  <2>2. PICK r \in Window : r = R
    BY <1>1
  <2>3. /\ [r EXCEPT !.pos = p] \in Window
        /\ [r EXCEPT !.pos = p].lo = r.lo /\ [r EXCEPT !.pos = p].hi = r.hi
        /\ [r EXCEPT !.pos = p].pos = p
    BY <2>1 DEF Window
  <2> QED BY <2>2, <2>3
<1>4. rs = [readers EXCEPT ![n] = moved]
  BY DEF Moved, R
<1>5. n \in 1 .. n
  BY <1>1
<1> HIDE DEF moved
<1>6. /\ rs \in Seq(Window) /\ Len(rs) = n
      /\ \A k \in 1 .. n : rs[k] = IF k = n THEN moved ELSE readers[k]
  BY <1>1, <1>3, <1>4, <1>5, ExceptSeq
<1> HIDE DEF rs, n
<1>7. ASSUME NEW k \in 1 .. n
      PROVE  /\ rs[k].lo <= rs[k].pos /\ rs[k].pos <= rs[k].hi
             /\ rs[k].hi <= Len(buf)
             /\ k > 1 => rs[k - 1].lo < rs[k].lo /\ rs[k].hi = rs[k - 1].pos
  <2>1. /\ readers[k].lo <= readers[k].pos /\ readers[k].pos <= readers[k].hi
        /\ readers[k].hi <= Len(buf)
        /\ k > 1 => readers[k - 1].lo < readers[k].lo /\ readers[k].hi = readers[k - 1].pos
    BY <1>2 DEF Windows, Inside, n
  <2>2. k > 1 => rs[k - 1] = readers[k - 1]
    <3>1. k > 1 => k - 1 \in 1 .. n /\ k - 1 # n
      BY <1>1
    <3> QED BY <1>6, <3>1
  <2>3. CASE k = n
    <3>1. rs[k] = moved /\ readers[k].lo = R.lo /\ readers[k].hi = R.hi
      BY <1>6, <2>3 DEF R, n
    <3>2. rs[k].lo = R.lo /\ rs[k].hi = R.hi /\ rs[k].pos = p
      BY <1>3, <3>1
    <3> QED BY <1>1, <2>1, <2>2, <3>1, <3>2
  <2>4. CASE k # n
    <3>1. rs[k] = readers[k]
      BY <1>6, <2>4
    <3> QED BY <2>1, <2>2, <3>1
  <2> QED BY <2>3, <2>4
<1>8. Windows(rs)
  BY <1>2, <1>6, <1>7 DEF Windows, Inside, n
<1>9. rs[n] = moved
  BY <1>5, <1>6
<1> QED BY <1>3, <1>6, <1>8, <1>9 DEF rs, n

------------------------------------------------------------------------------
(***************************************************************************)
(* The steps.                                                              *)
(***************************************************************************)

(* Windows speaks of the bundle, which does not change.                     *)
LEMMA WindowsStay ==
  ASSUME buf' = buf, buf \in Inputs, progress' \in {"reading", "done", "malformed"},
         Windows(readers')
  PROVE  WithinSlice'
<1>1. readers' \in Seq(Window) /\ Window' = Window
  BY DEF Windows, Window
<1>2. DOMAIN readers' = 1 .. Len(readers')
  BY <1>1, LenProperties
<1> QED BY <1>1, <1>2 DEF WithinSlice, ReaderTypeOK, Windows, Window, Inside

LEMMA InitWithin == ReaderInit => WithinSlice
<1> SUFFICES ASSUME ReaderInit PROVE WithinSlice
  OBVIOUS
<1> DEFINE root == [lo |-> 0, hi |-> Len(buf), pos |-> 0]
<1>1. buf \in Inputs /\ readers = <<root>> /\ progress = "reading"
  BY DEF ReaderInit
<1>2. Len(buf) \in Nat
  <2>1. buf \in Seq(Byte)
    BY <1>1, InputsAssumption
  <2> QED BY <2>1, LenProperties
<1>3. root \in Window
  BY <1>2 DEF Window
<1>4. readers \in Seq(Window) /\ Len(readers) = 1 /\ readers[1] = root
  BY <1>1, <1>3
<1>5. root.lo = 0 /\ root.hi = Len(buf) /\ root.pos = 0
  OBVIOUS
<1> HIDE DEF root
<1>6. Inside(readers)
  <2>1. \A k \in 1 .. Len(readers) : k = 1
    BY <1>4
  <2> QED BY <1>2, <1>4, <1>5, <2>1 DEF Inside
<1>7. Windows(readers)
  BY <1>4, <1>6, SizesAssumption DEF Windows
<1> QED BY <1>1, <1>7, WithinIsWindows

LEMMA FieldStep == ASSUME WithinSlice, SkipField \/ Packed PROVE WithinSlice'
<1>1. buf \in Inputs /\ progress \in {"reading", "done", "malformed"} /\ Windows(readers)
  BY WithinIsWindows
<1>2. CASE RefuseBytes
  BY <1>1, <1>2, WindowsStay DEF RefuseBytes
<1>3. /\ buf \in Seq(Byte) /\ R.pos \in Nat /\ R.hi \in Nat /\ R.hi <= Len(buf)
  BY Innermost
<1>4. Tag.ok
  BY DEF SkipField, Packed
<1>5. /\ Tag.pos \in Nat /\ R.pos < Tag.pos /\ Tag.pos <= R.hi
      /\ Tag.value \in {wireVarint, wireI64, wireBytes, wireI32}
  BY <1>3, <1>4, NextForward DEF Tag
<1>6. ASSUME NEW p \in Nat, Tag.pos <= p, p <= R.hi, MoveTo(p), UNCHANGED <<buf, progress>>
      PROVE  WithinSlice'
  <2>1. Windows(Moved(p))
    BY <1>3, <1>5, <1>6, MovedWindows
  <2>2. readers' = Moved(p)
    BY <1>6 DEF MoveTo, Moved
  <2> QED BY <1>1, <1>6, <2>1, <2>2, WindowsStay
<1>7. CASE SkipField /\ ~RefuseBytes
  <2> DEFINE body == skip(Tag.pos, R.hi, Tag.value)
  <2>1. body.ok /\ MoveTo(body.pos) /\ UNCHANGED <<buf, progress>>
    BY <1>7 DEF SkipField
  <2>2. body.pos \in Nat /\ Tag.pos <= body.pos /\ body.pos <= R.hi
    BY <1>3, <1>5, <2>1, SkipForward
  <2> HIDE DEF body
  <2> QED BY <1>6, <2>1, <2>2
<1>8. CASE Packed /\ ~RefuseBytes
  <2> DEFINE body == bytes(Tag.pos, R.hi)
  <2>1. body.ok /\ MoveTo(body.pos) /\ UNCHANGED <<buf, progress>>
    BY <1>8 DEF Packed
  <2>2. /\ body.value \in Nat /\ body.pos \in Nat /\ Tag.pos < body.value
        /\ body.value <= body.pos /\ body.pos <= R.hi
    BY <1>3, <1>5, <2>1, BytesForward
  <2> HIDE DEF body
  <2>3. Tag.pos <= body.pos
    BY <1>5, <2>2
  <2> QED BY <1>6, <2>1, <2>2, <2>3
<1> QED BY <1>2, <1>7, <1>8

(* A message opens a window over its body, which the reader it came from    *)
(* has already passed.                                                      *)
LEMMA MessageStep == ASSUME WithinSlice, OpenMessage PROVE WithinSlice'
<1>1. buf \in Inputs /\ progress \in {"reading", "done", "malformed"} /\ Windows(readers)
  BY WithinIsWindows
<1>2. CASE RefuseBytes
  BY <1>1, <1>2, WindowsStay DEF RefuseBytes
<1> DEFINE body == bytes(Tag.pos, R.hi)
           opened == [lo |-> body.value, hi |-> body.pos, pos |-> body.value]
           rs == Moved(body.pos)
           n == Len(readers)
<1>3. /\ buf \in Seq(Byte) /\ Len(buf) \in Nat
      /\ R.lo \in Nat /\ R.pos \in Nat /\ R.hi \in Nat /\ R.lo <= R.pos /\ R.hi <= Len(buf)
      /\ n \in Nat /\ n > 0 /\ MaxDepth \in Nat
  BY Innermost
<1>4. CASE ~RefuseBytes
  <2>1. /\ body.ok /\ n <= MaxDepth
        /\ readers' = Append(rs, opened)
        /\ UNCHANGED <<buf, progress>> /\ Tag.ok
    BY <1>4 DEF OpenMessage, Moved
  <2>2. Tag.pos \in Nat /\ R.pos < Tag.pos /\ Tag.pos <= R.hi
    BY <1>3, <2>1, NextForward DEF Tag
  <2>3. /\ body.value \in Nat /\ body.pos \in Nat /\ Tag.pos < body.value
        /\ body.value <= body.pos /\ body.pos <= R.hi
    BY <1>3, <2>1, <2>2, BytesForward
  <2> HIDE DEF body
  <2>4. /\ Windows(rs) /\ Len(rs) = n /\ rs[n].lo = R.lo /\ rs[n].pos = body.pos
    <3>1. R.pos <= body.pos
      BY <1>3, <2>2, <2>3
    <3> QED BY <2>3, <3>1, MovedWindows
  <2>5. /\ opened \in Window
        /\ opened.lo = body.value /\ opened.hi = body.pos /\ opened.pos = body.value
    BY <1>3, <2>3 DEF Window
  <2> HIDE DEF rs, opened, n
  <2>6. rs \in Seq(Window) /\ Inside(rs)
    BY <2>4 DEF Windows
  <2>7. /\ readers' \in Seq(Window) /\ Len(readers') = n + 1
        /\ \A k \in 1 .. n : readers'[k] = rs[k]
        /\ readers'[n + 1] = opened
    BY <2>1, <2>4, <2>5, <2>6, AppendProperties
  <2>8. ASSUME NEW k \in 1 .. Len(readers')
        PROVE  /\ readers'[k].lo <= readers'[k].pos /\ readers'[k].pos <= readers'[k].hi
               /\ readers'[k].hi <= Len(buf)
               /\ k > 1 => readers'[k - 1].lo < readers'[k].lo /\ readers'[k].hi = readers'[k - 1].pos
    <3>1. CASE k \in 1 .. n
      <4>1. readers'[k] = rs[k] /\ (k > 1 => readers'[k - 1] = rs[k - 1])
        <5>1. k > 1 => k - 1 \in 1 .. n
          BY <1>3, <3>1 DEF n
        <5> QED BY <2>7, <3>1, <5>1
      <4> QED BY <2>4, <2>6, <3>1, <4>1 DEF Inside
    <3>2. CASE k = n + 1
      <4>1. readers'[k] = opened /\ readers'[k - 1] = rs[n]
        <5>1. n \in 1 .. n /\ k - 1 = n
          BY <1>3, <3>2 DEF n
        <5> QED BY <2>7, <3>2, <5>1
      <4>2. rs[n].lo < opened.lo
        BY <1>3, <2>2, <2>3, <2>4, <2>5
      <4> QED BY <1>3, <2>3, <2>4, <2>5, <4>1, <4>2
    <3> QED BY <1>3, <2>7, <3>1, <3>2 DEF n
  <2>9. Len(readers') \in 1 .. MaxDepth + 1
    BY <1>3, <2>1, <2>7 DEF n
  <2>10. Windows(readers')
    BY <2>7, <2>8, <2>9 DEF Windows, Inside
  <2> QED BY <1>1, <2>1, <2>10, WindowsStay
<1> QED BY <1>2, <1>4

LEMMA EndMessageStep == ASSUME WithinSlice, CloseMessage PROVE WithinSlice'
<1>1. buf \in Inputs /\ progress \in {"reading", "done", "malformed"} /\ Windows(readers)
  BY WithinIsWindows
<1> DEFINE n == Len(readers)
<1>2. /\ n > 1 /\ readers' = SubSeq(readers, 1, n - 1) /\ UNCHANGED <<buf, progress>>
  BY DEF CloseMessage
<1>3. readers \in Seq(Window) /\ n \in Nat /\ n <= MaxDepth + 1 /\ MaxDepth \in Nat
  BY Innermost
<1>4. /\ readers' \in Seq(Window) /\ Len(readers') = n - 1
      /\ \A k \in 1 .. n - 1 : readers'[k] = readers[k]
  <2>1. \A k \in 1 .. n - 1 : readers[k] \in Window
    <3>1. \A k \in 1 .. n - 1 : k \in 1 .. Len(readers)
      BY <1>3
    <3> QED BY <1>3, <3>1, ElementOfSeq
  <2>2. 1 \in Int /\ n - 1 \in Int
    BY <1>3
  <2>3. /\ SubSeq(readers, 1, n - 1) \in Seq(Window)
        /\ Len(SubSeq(readers, 1, n - 1)) = IF 1 <= n - 1 THEN n - 1 - 1 + 1 ELSE 0
        /\ \A k \in 1 .. n - 1 - 1 + 1 : SubSeq(readers, 1, n - 1)[k] = readers[1 + k - 1]
    BY <2>1, <2>2, SubSeqProperties
  <2>4. n - 1 - 1 + 1 = n - 1 /\ 1 <= n - 1 /\ \A k \in 1 .. n - 1 : 1 + k - 1 = k
    BY <1>2, <1>3
  <2> HIDE DEF n
  <2> QED BY <1>2, <2>3, <2>4
<1>5. ASSUME NEW k \in 1 .. Len(readers')
      PROVE  /\ readers'[k].lo <= readers'[k].pos /\ readers'[k].pos <= readers'[k].hi
             /\ readers'[k].hi <= Len(buf)
             /\ k > 1 => readers'[k - 1].lo < readers'[k].lo /\ readers'[k].hi = readers'[k - 1].pos
  <2>1. k \in 1 .. n /\ k \in 1 .. n - 1 /\ (k > 1 => k - 1 \in 1 .. n - 1)
    BY <1>3, <1>4
  <2>2. readers'[k] = readers[k] /\ (k > 1 => readers'[k - 1] = readers[k - 1])
    BY <1>4, <2>1
  <2> QED BY <1>1, <2>1, <2>2 DEF Windows, Inside
<1>6. Len(readers') \in 1 .. MaxDepth + 1
  BY <1>2, <1>3, <1>4
<1>7. Windows(readers')
  BY <1>4, <1>5, <1>6 DEF Windows, Inside
<1> QED BY <1>1, <1>2, <1>7, WindowsStay

LEMMA StepWithin == WithinSlice /\ [ReaderNext]_readerVars => WithinSlice'
<1> SUFFICES ASSUME WithinSlice, [ReaderNext]_readerVars PROVE WithinSlice'
  OBVIOUS
<1>1. buf \in Inputs /\ progress \in {"reading", "done", "malformed"} /\ Windows(readers)
  BY WithinIsWindows
<1>2. CASE BadTag
  BY <1>1, <1>2, WindowsStay DEF BadTag, RefuseBytes
<1>3. CASE SkipField \/ Packed
  BY <1>3, FieldStep
<1>4. CASE OpenMessage
  BY <1>4, MessageStep
<1>5. CASE CloseMessage
  BY <1>5, EndMessageStep
<1>6. CASE EndBundle
  BY <1>1, <1>6, WindowsStay DEF EndBundle
<1>7. CASE UNCHANGED readerVars
  BY <1>1, <1>7, WindowsStay DEF readerVars
<1> QED BY <1>2, <1>3, <1>4, <1>5, <1>6, <1>7 DEF ReaderNext, Stopped

(* The promise of the comment on reader: no bundle makes a reader read past *)
(* its slice, or nest deeper than maxDecodeDepth.                           *)
THEOREM ReadersStayWithin == ReaderSpec => []WithinSlice
BY InitWithin, StepWithin, PTL DEF ReaderSpec

------------------------------------------------------------------------------
(***************************************************************************)
(* Powers of two.                                                          *)
(***************************************************************************)

(* Powers of two double: the subsets of 1 .. n + 1 are those of 1 .. n,      *)
(* each with and without n + 1.                                             *)
LEMMA PowerDoubles ==
  ASSUME NEW n \in Nat
  PROVE  2^(n + 1) = 2^n + 2^n
<1> DEFINE S == SUBSET (1 .. n)
           T == {s \cup {n + 1} : s \in S}
           f == [s \in S |-> s \cup {n + 1}]
<1>1. ASSUME NEW k \in Nat
      PROVE  IsFiniteSet(SUBSET (1 .. k)) /\ Cardinality(SUBSET (1 .. k)) = 2^k
  <2>1. IsFiniteSet(1 .. k) /\ Cardinality(1 .. k) = IF 1 > k THEN 0 ELSE k - 1 + 1
    BY FS_Interval
  <2>2. Cardinality(1 .. k) = k
    BY <2>1
  <2> QED BY <2>1, <2>2, FS_SUBSET
<1>2. n + 1 \notin 1 .. n /\ 1 .. n + 1 = (1 .. n) \cup {n + 1}
  OBVIOUS
<1>3. f \in Bijection(S, T)
  <2>1. f \in [S -> T]
    OBVIOUS
  <2>2. ASSUME NEW s \in S, NEW t \in S, f[s] = f[t] PROVE s = t
    BY <1>2, <2>2
  <2>3. ASSUME NEW u \in T PROVE \E s \in S : f[s] = u
    OBVIOUS
  <2> QED BY <2>1, <2>2, <2>3 DEF Bijection, Injection, Surjection, IsInjective
<1>4. IsFiniteSet(S) /\ Cardinality(S) = 2^n
  BY <1>1
<1>5. IsFiniteSet(T) /\ Cardinality(T) = 2^n
  BY <1>3, <1>4, FS_Bijection DEF ExistsBijection
<1>6. SUBSET (1 .. n + 1) = S \cup T
  <2>1. ASSUME NEW u \in SUBSET (1 .. n + 1) PROVE u \in S \cup T
    <3>1. CASE n + 1 \in u
      <4>1. u \ {n + 1} \in S /\ u = (u \ {n + 1}) \cup {n + 1}
        BY <1>2, <3>1
      <4> QED BY <4>1
    <3>2. CASE n + 1 \notin u
      BY <1>2, <3>2
    <3> QED BY <3>1, <3>2
  <2>2. S \cup T \subseteq SUBSET (1 .. n + 1)
    BY <1>2
  <2> QED BY <2>1, <2>2
<1>7. S \cap T = {}
  BY <1>2
<1>8. Cardinality(S \cup T) = Cardinality(S) + Cardinality(T) - Cardinality(S \cap T)
  BY <1>4, <1>5, FS_Union
<1>9. Cardinality(S \cap T) = 0
  BY <1>7, FS_EmptySet
<1>10. Cardinality(SUBSET (1 .. n + 1)) = 2^(n + 1)
  BY <1>1
<1>11. 2^n \in Nat
  BY PowerIsPositive
<1> HIDE DEF S, T
<1>12. Cardinality(S \cup T) = 2^n + 2^n - 0
  BY <1>4, <1>5, <1>8, <1>9
<1>13. 2^(n + 1) = 2^n + 2^n - 0
  BY <1>6, <1>10, <1>12
<1> QED BY <1>11, <1>13

(* There is one subset of the empty set.                                     *)
LEMMA PowerOfZero == 2^0 = 1
<1>1. IsFiniteSet({}) /\ Cardinality({}) = 0
  BY FS_EmptySet
<1>2. Cardinality(SUBSET {}) = 2^0
  BY <1>1, FS_SUBSET
<1>3. SUBSET {} = {{}}
  OBVIOUS
<1>4. Cardinality({{}}) = 1
  BY FS_Singleton
<1> QED BY <1>2, <1>3, <1>4

(* Powers of a sum are products of powers.                                  *)
LEMMA PowerOfSum ==
  ASSUME NEW a \in Nat, NEW b \in Nat
  PROVE  2^(a + b) = 2^a * 2^b
<1> DEFINE Bad == {m \in Nat : 2^(a + m) # 2^a * 2^m}
<1>1. SUFFICES Bad = {}
  OBVIOUS
<1>2. SUFFICES ASSUME Bad # {} PROVE FALSE
  OBVIOUS
<1>3. PICK m \in Bad : \A k \in Bad : m <= k
  <2>1. Bad \subseteq Nat
    OBVIOUS
  <2> HIDE DEF Bad
  <2> QED BY <1>2, <2>1, LeastExists
<1>4. m \in Nat /\ 2^(a + m) # 2^a * 2^m
  BY <1>3
<1>5. 2^a \in Nat
  BY PowerIsPositive
<1>6. CASE m = 0
  <2>1. 2^m = 1 /\ a + m = a
    BY <1>6, PowerOfZero
  <2> QED BY <1>4, <1>5, <2>1
<1>7. CASE m # 0
  <2> DEFINE k == m - 1
  <2>1. k \in Nat /\ k + 1 = m /\ ~(m <= k) /\ a + k \in Nat /\ (a + k) + 1 = a + m
    BY <1>4, <1>7
  <2>2. 2^(a + k) = 2^a * 2^k
    BY <1>3, <2>1
  <2>3. 2^m = 2^k + 2^k /\ 2^(a + m) = 2^(a + k) + 2^(a + k)
    BY <2>1, PowerDoubles
  <2>4. 2^k \in Nat
    BY <2>1, PowerIsPositive
  <2>5. \A x, y \in Nat : x * (y + y) = x * y + x * y
    OBVIOUS
  <2>6. 2^a * (2^k + 2^k) = 2^a * 2^k + 2^a * 2^k
    BY <1>5, <2>4, <2>5
  <2> QED BY <1>4, <2>2, <2>3, <2>6
<1> QED BY <1>6, <1>7

(* Powers grow with the exponent.                                           *)
LEMMA PowerGrows ==
  ASSUME NEW a \in Nat, NEW b \in Nat, a <= b
  PROVE  2^a <= 2^b
<1>1. b - a \in Nat /\ a + (b - a) = b
  OBVIOUS
<1>2. 2^b = 2^a * 2^(b - a)
  BY <1>1, PowerOfSum
<1>3. 2^a \in Nat /\ 2^(b - a) \in Nat /\ 2^(b - a) > 0
  BY <1>1, PowerIsPositive
<1>4. \A x, y \in Nat : y > 0 => x <= x * y
  OBVIOUS
<1>5. 2^a <= 2^a * 2^(b - a)
  BY <1>3, <1>4
<1> QED BY <1>2, <1>5

(* The bytes that fit a value whole, before the one that has a single bit   *)
(* of it left.                                                              *)
Whole == Width \div Group

LEMMA WidthShape ==
  /\ Whole \in Nat /\ Group \in Nat /\ Group > 1 /\ Whole * Group \in Nat
  /\ Width \in Nat /\ Width = Whole * Group + 1
<1>1. Group \in Nat /\ Group > 0 /\ Width \in Nat /\ Width = Whole * Group + 1
  BY WidthAssumption DEF Whole
<1>2. \A w, g \in Nat : g > 0 => w \div g \in Nat /\ w < g * (w \div g) + g
  OBVIOUS
<1>3. Whole \in Nat /\ Width < Group * Whole + Group
  BY <1>1, <1>2 DEF Whole
<1>4. Group # 1
  <2>1. SUFFICES ASSUME Group = 1 PROVE FALSE
    OBVIOUS
  <2>2. Width < 1 * Whole + 1 /\ Width = Whole * 1 + 1
    BY <1>1, <1>3, <2>1
  <2> QED BY <1>3, <2>2
<1>5. \A x, y \in Nat : x * y \in Nat
  OBVIOUS
<1>6. Whole * Group \in Nat
  BY <1>1, <1>3, <1>5
<1> QED BY <1>1, <1>3, <1>4, <1>6

(* Which byte has no bits left, and which a single one.                     *)
LEMMA OverflowPlaces ==
  ASSUME NEW k \in Nat
  PROVE  /\ k * Group \in Nat
         /\ k * Group >= Width <=> k > Whole
         /\ k * Group = Width - 1 <=> k = Whole
<1> DEFINE g == Group
           q == Whole
<1>1. q \in Nat /\ g \in Nat /\ g > 1 /\ q * g \in Nat /\ Width = q * g + 1 /\ k * g \in Nat
  BY WidthShape
<1>2. \A x, y \in Nat : x < y => x * g + g <= y * g
  <2>1. ASSUME NEW x \in Nat, NEW y \in Nat, x < y PROVE x * g + g <= y * g
    <3>1. PICK d \in Nat : y = x + 1 + d
      <4>1. y - (x + 1) \in Nat /\ y = x + 1 + (y - (x + 1))
        BY <2>1
      <4> QED BY <4>1
    <3>2. (x + 1 + d) * g = x * g + g + d * g /\ d * g \in Nat /\ x * g \in Nat
      BY <1>1
    <3> QED BY <1>1, <3>1, <3>2
  <2> QED BY <2>1
<1> HIDE DEF g, q
<1>3. k > q => q * g + g <= k * g
  BY <1>1, <1>2
<1>4. k < q => k * g + g <= q * g
  BY <1>1, <1>2
<1>5. k = q => k * g = q * g
  OBVIOUS
<1>6. k * g >= Width <=> k > q
  BY <1>1, <1>3, <1>4, <1>5
<1>7. k * g = Width - 1 <=> k = q
  BY <1>1, <1>3, <1>4, <1>5
<1> QED BY <1>1, <1>6, <1>7 DEF g, q

(* A byte that goes on overflows from the last place on, one that ends a    *)
(* value only if it is more than the bit that is left.                      *)
LEMMA OverflowCases ==
  ASSUME NEW k \in Nat, NEW b \in Byte
  PROVE  /\ b \in Nat /\ b % More \in Nat /\ b % More < More /\ More \in Nat /\ More > 1
         /\ b < More => b % More = b /\ (Overflows(k, b) <=> k > Whole \/ (k = Whole /\ b > 1))
         /\ b >= More => (Overflows(k, b) <=> k >= Whole)
<1>1. More \in Nat /\ More > 1
  <2>1. 2^1 <= 2^Group /\ 2^Group \in Nat
    <3>1. Group \in Nat /\ 1 \in Nat /\ 1 <= Group
      BY WidthShape
    <3> QED BY <3>1, PowerGrows, PowerIsPositive
  <2>2. 2^(0 + 1) = 2^0 + 2^0
    BY PowerDoubles
  <2>3. 2^1 = 2
    BY <2>2, PowerOfZero
  <2> QED BY <2>1, <2>3 DEF More
<1>2. b \in Nat
  BY <1>1 DEF Byte, More
<1>3. b % More \in Nat /\ b % More < More /\ (b < More => b % More = b)
  BY <1>1, <1>2
<1>4. Whole \in Nat
  BY WidthShape
<1>5. Overflows(k, b) <=> k > Whole \/ (k = Whole /\ b > 1)
  BY OverflowPlaces DEF Overflows
<1>6. b >= More => b > 1
  BY <1>1, <1>2
<1> QED BY <1>1, <1>2, <1>3, <1>4, <1>5, <1>6

------------------------------------------------------------------------------
(***************************************************************************)
(* The sum of the payloads.                                                *)
(***************************************************************************)

(* The sum of payloads that Written takes, with the one before as rest.     *)
Payload(p, k) == (At(p + k) % More) * 2^(k * Group)
SumStep(p, k, rest) == IF k = 0 THEN 0 ELSE rest + (At(p + k - 1) % More) * 2^((k - 1) * Group)
Sums(p, n, sum) == sum = [k \in 0 .. n |-> SumStep(p, k, sum[k - 1])]

LEMMA SumsExist ==
  ASSUME NEW p, NEW n \in Nat
  PROVE  \E sum : Sums(p, n, sum)
<1> DEFINE Missing == {m \in Nat : ~ \E sum : Sums(p, m, sum)}
<1>1. SUFFICES ASSUME Missing # {} PROVE FALSE
  OBVIOUS
<1>2. PICK m \in Missing : \A k \in Missing : m <= k
  <2>1. Missing \subseteq Nat
    OBVIOUS
  <2> HIDE DEF Missing
  <2> QED BY <1>1, <2>1, LeastExists
<1>3. m \in Nat /\ ~ \E sum : Sums(p, m, sum)
  BY <1>2
<1>4. CASE m = 0
  <2> DEFINE sum == [k \in 0 .. 0 |-> 0]
  <2>1. \A k \in 0 .. 0 : sum[k] = SumStep(p, k, sum[k - 1])
    BY DEF SumStep
  <2>2. sum = [k \in 0 .. 0 |-> SumStep(p, k, sum[k - 1])]
    <3>1. sum = [k \in 0 .. 0 |-> sum[k]]
      OBVIOUS
    <3> HIDE DEF sum
    <3> QED BY <2>1, <3>1
  <2> QED BY <1>3, <1>4, <2>2 DEF Sums
<1>5. CASE m # 0
  <2>1. m - 1 \in Nat /\ ~(m <= m - 1)
    BY <1>3, <1>5
  <2>2. PICK old : Sums(p, m - 1, old)
    BY <1>2, <2>1
  <2> DEFINE sum == [k \in 0 .. m |-> IF k = m THEN SumStep(p, m, old[m - 1]) ELSE old[k]]
  <2>3. ASSUME NEW k \in 0 .. m
        PROVE  sum[k] = SumStep(p, k, sum[k - 1])
    <3>1. k # 0 => sum[k - 1] = old[k - 1]
      BY <1>3
    <3>2. k # m => k \in 0 .. m - 1
      BY <1>3
    <3>3. k # m => old[k] = SumStep(p, k, old[k - 1])
      BY <2>2, <3>2 DEF Sums
    <3>4. sum[k] = SumStep(p, k, old[k - 1])
      BY <3>3
    <3> QED BY <3>1, <3>4 DEF SumStep
  <2>4. sum = [k \in 0 .. m |-> SumStep(p, k, sum[k - 1])]
    <3>1. sum = [k \in 0 .. m |-> sum[k]]
      OBVIOUS
    <3> HIDE DEF sum
    <3> QED BY <2>3, <3>1
  <2> QED BY <1>3, <2>4 DEF Sums
<1> QED BY <1>4, <1>5

(* A byte of the buffer.                                                    *)
LEMMA ByteAt ==
  ASSUME buf \in Seq(Byte), NEW o \in Nat, o < Len(buf)
  PROVE  At(o) \in Byte
<1>1. o + 1 \in 1 .. Len(buf)
  BY LenProperties
<1> QED BY <1>1, ElementOfSeq DEF At

(* The k payloads from p, summed by their rank, have k groups of bits.      *)
LEMMA SumsFit ==
  ASSUME buf \in Seq(Byte), NEW p \in Nat, NEW sum, Sums(p, Len(buf), sum),
         NEW n \in Nat, p + n <= Len(buf)
  PROVE  /\ sum[n] \in Nat /\ sum[n] < 2^(n * Group)
         /\ p + n < Len(buf) => Payload(p, n) \in Nat /\ sum[n + 1] = sum[n] + Payload(p, n)
<1>0. Len(buf) \in Nat
  BY LenProperties
<1>1. ASSUME NEW k \in Nat, p + k < Len(buf)
      PROVE  /\ Payload(p, k) \in Nat
             /\ sum[k + 1] = sum[k] + Payload(p, k)
             /\ Payload(p, k) + 2^(k * Group) <= 2^((k + 1) * Group)
             /\ 2^(k * Group) \in Nat
  <2>1. At(p + k) \in Byte
    BY <1>0, <1>1, ByteAt
  <2>2. k + 1 \in 0 .. Len(buf) /\ k + 1 # 0 /\ (k + 1) - 1 = k /\ p + (k + 1) - 1 = p + k
    BY <1>0, <1>1
  <2>3. sum[k + 1] = SumStep(p, k + 1, sum[(k + 1) - 1])
    BY <2>2 DEF Sums
  <2>4. sum[k + 1] = sum[k] + Payload(p, k)
    BY <2>2, <2>3 DEF SumStep, Payload
  <2>5. k * Group \in Nat /\ 2^(k * Group) \in Nat /\ Group \in Nat /\ More \in Nat
    BY WidthShape, OverflowPlaces, PowerIsPositive DEF More
  <2> DEFINE b == At(p + k) % More
             v == 2^(k * Group)
  <2>6. b \in Nat /\ b + 1 <= More
    BY <1>1, <2>1, OverflowCases
  <2>7. 2^((k + 1) * Group) = v * More
    <3>1. (k + 1) * Group = k * Group + Group
      BY <2>5
    <3>2. 2^(k * Group + Group) = 2^(k * Group) * 2^Group
      BY <2>5, PowerOfSum
    <3> QED BY <3>1, <3>2 DEF More
  <2>8. Payload(p, k) = b * v
    BY DEF Payload
  <2>9. \A x, y, z \in Nat : x + 1 <= z => x * y \in Nat /\ x * y + y <= y * z
    <3>1. ASSUME NEW x \in Nat, NEW y \in Nat, NEW z \in Nat, x + 1 <= z
          PROVE  x * y \in Nat /\ x * y + y <= y * z
      <4>1. PICK d \in Nat : z = x + 1 + d
        <5>1. z - (x + 1) \in Nat /\ z = x + 1 + (z - (x + 1))
          BY <3>1
        <5> QED BY <5>1
      <4>2. y * (x + 1 + d) = x * y + y + d * y /\ d * y \in Nat /\ x * y \in Nat
        OBVIOUS
      <4> QED BY <4>1, <4>2
    <3> QED BY <3>1
  <2> HIDE DEF b, v
  <2>10. b * v \in Nat /\ b * v + v <= v * More
    BY <2>5, <2>6, <2>9 DEF v
  <2> QED BY <2>4, <2>5, <2>7, <2>8, <2>10 DEF v
<1> DEFINE Bad == {m \in Nat : p + m <= Len(buf) /\ ~(sum[m] \in Nat /\ sum[m] < 2^(m * Group))}
<1>2. Bad = {}
  <2>1. SUFFICES ASSUME Bad # {} PROVE FALSE
    OBVIOUS
  <2>2. PICK m \in Bad : \A k \in Bad : m <= k
    <3>1. Bad \subseteq Nat
      OBVIOUS
    <3> HIDE DEF Bad
    <3> QED BY <2>1, <3>1, LeastExists
  <2>3. m \in Nat /\ p + m <= Len(buf) /\ ~(sum[m] \in Nat /\ sum[m] < 2^(m * Group))
    BY <2>2
  <2>4. CASE m = 0
    <3>1. 0 \in 0 .. Len(buf)
      BY <1>0
    <3>2. sum[0] = 0
      BY <3>1 DEF Sums, SumStep
    <3>3. 0 * Group = 0
      BY WidthShape
    <3>4. 2^(0 * Group) = 1
      BY <3>3, PowerOfZero
    <3>5. sum[0] \in Nat /\ sum[0] < 2^(0 * Group)
      BY <3>2, <3>4
    <3> QED BY <2>3, <2>4, <3>5
  <2>5. CASE m # 0
    <3> DEFINE k == m - 1
    <3>1. k \in Nat /\ k + 1 = m /\ p + k < Len(buf) /\ p + k <= Len(buf) /\ ~(m <= k)
      BY <1>0, <2>3, <2>5
    <3>2. sum[k] \in Nat /\ sum[k] < 2^(k * Group)
      BY <2>2, <3>1
    <3>3. /\ Payload(p, k) \in Nat /\ sum[m] = sum[k] + Payload(p, k) /\ 2^(k * Group) \in Nat
          /\ Payload(p, k) + 2^(k * Group) <= 2^(m * Group)
      BY <1>1, <3>1
    <3>4. m * Group \in Nat /\ 2^(m * Group) \in Nat
      BY <2>3, OverflowPlaces, PowerIsPositive
    <3> HIDE DEF k
    <3>5. sum[m] \in Nat /\ sum[m] < 2^(m * Group)
      BY <3>2, <3>3, <3>4
    <3> QED BY <2>3, <3>5
  <2> QED BY <2>4, <2>5
<1>3. sum[n] \in Nat /\ sum[n] < 2^(n * Group)
  BY <1>2
<1> QED BY <1>1, <1>3

------------------------------------------------------------------------------
(***************************************************************************)
(* What is read, against what is written.                                  *)
(***************************************************************************)

(* The byte that ends a value, when e bytes came before, fits the width.    *)
Ends(p, e) == e < Whole \/ (e = Whole /\ At(p + e) <= 1)

(* From the byte that ends the value downward: what was read with k bytes   *)
(* before are the payloads from there on, unless the last one is too large. *)
LEMMA ReadToEnd ==
  ASSUME buf \in Seq(Byte), NEW p \in Nat, NEW e \in Nat, p + e < Len(buf), At(p + e) < More,
         \A k \in Nat : k < e => At(p + k) >= More,
         NEW sum, Sums(p, Len(buf), sum), NEW from, Reads(p, Len(buf), 0, from)
  PROVE  from[0] = IF Ends(p, e) THEN Got(sum[e + 1], p + e + 1) ELSE Malformed
<1> DEFINE n == Len(buf)
           Right(k) == from[k] = IF Ends(p, e) THEN Got(sum[e + 1] - sum[k], p + e + 1) ELSE Malformed
           Bad == {m \in 0 .. e : ~Right(e - m)}
<1>0. n \in Nat /\ More \in Nat
  <2>1. More = 2^Group /\ Group \in Nat
    BY WidthShape DEF More
  <2> QED BY <2>1, LenProperties, PowerIsPositive
<1>1. ASSUME NEW k \in Nat, k <= e
      PROVE  /\ from[k] = ReadFrom(p, n, k, from[k + 1]) /\ ~(p + k >= n)
             /\ At(p + k) \in Byte /\ At(p + k) \in Nat
             /\ sum[k] \in Nat /\ Payload(p, k) \in Nat /\ sum[k + 1] = sum[k] + Payload(p, k)
  <2>1. k \in 0 .. n /\ p + k < n /\ p + k <= n /\ p + k \in Nat
    BY <1>0, <1>1
  <2>2. from[k] = ReadFrom(p, n, k, from[k + 1])
    BY <2>1 DEF Reads
  <2>3. At(p + k) \in Byte /\ At(p + k) \in Nat
    BY <2>1, ByteAt, OverflowCases
  <2> QED BY <2>1, <2>2, <2>3, SumsFit
<1>2. Whole \in Nat
  BY WidthShape
<1>3. Right(e)
  <2>1. Overflows(e, At(p + e)) <=> ~Ends(p, e)
    <3>1. Overflows(e, At(p + e)) <=> e > Whole \/ (e = Whole /\ At(p + e) > 1)
      BY <1>1, OverflowCases
    <3> QED BY <1>1, <1>2, <3>1 DEF Ends
  <2>2. from[e] = IF Ends(p, e) THEN Got(Payload(p, e), p + e + 1) ELSE Malformed
    BY <1>1, <2>1 DEF ReadFrom, Payload
  <2>3. Payload(p, e) = sum[e + 1] - sum[e]
    BY <1>1
  <2> QED BY <2>2, <2>3
<1>7. sum[0] = 0 /\ sum[e] \in Nat /\ sum[e + 1] \in Nat
  <2>1. 0 \in 0 .. n
    BY <1>0
  <2>2. sum[0] = 0
    BY <2>1 DEF Sums, SumStep
  <2>3. sum[e] \in Nat /\ Payload(p, e) \in Nat /\ sum[e + 1] = sum[e] + Payload(p, e)
    BY <1>1
  <2> QED BY <2>2, <2>3
<1>4. ASSUME NEW k \in Nat, k < e, Right(k + 1) PROVE Right(k)
  <2>0. /\ from[k] = ReadFrom(p, n, k, from[k + 1]) /\ ~(p + k >= n)
        /\ At(p + k) \in Byte /\ At(p + k) \in Nat
        /\ sum[k] \in Nat /\ Payload(p, k) \in Nat /\ sum[k + 1] = sum[k] + Payload(p, k)
    <3>1. k <= e
      BY <1>4
    <3> QED BY <1>1, <3>1
  <2>1. At(p + k) >= More
    BY <1>4
  <2>a. ~(At(p + k) < More)
    BY <1>0, <2>0, <2>1
  <2>2. Overflows(k, At(p + k)) <=> k >= Whole
    BY <2>0, <2>1, OverflowCases
  <2>3. CASE k >= Whole
    <3>1. from[k] = Malformed
      BY <2>0, <2>2, <2>3 DEF ReadFrom
    <3>2. ~Ends(p, e)
      BY <1>2, <1>4, <2>3 DEF Ends
    <3> QED BY <3>1, <3>2
  <2>4. CASE ~(k >= Whole)
    <3>1. from[k] = IF from[k + 1].ok THEN Got(from[k + 1].value + Payload(p, k), from[k + 1].pos)
                    ELSE Malformed
      BY <2>0, <2>a, <2>2, <2>4 DEF ReadFrom, Payload
    <3>2. CASE Ends(p, e)
      <4>1. from[k + 1] = Got(sum[e + 1] - sum[k + 1], p + e + 1)
        BY <1>4, <3>2
      <4>2. /\ from[k + 1].ok /\ from[k + 1].value = sum[e + 1] - sum[k + 1]
            /\ from[k + 1].pos = p + e + 1
        BY <4>1 DEF Got
      <4>3. /\ sum[e + 1] \in Nat /\ sum[k] \in Nat /\ Payload(p, k) \in Nat
            /\ sum[k + 1] = sum[k] + Payload(p, k)
        BY <1>7, <2>0
      <4>4. sum[e + 1] - sum[k + 1] + Payload(p, k) = sum[e + 1] - sum[k]
        BY <4>3
      <4> QED BY <3>1, <3>2, <4>2, <4>4
    <3>3. CASE ~Ends(p, e)
      <4>1. from[k + 1] = Malformed
        BY <1>4, <3>3
      <4>2. ~from[k + 1].ok
        BY <4>1 DEF Malformed
      <4> QED BY <3>1, <3>3, <4>2
    <3> QED BY <3>2, <3>3
  <2> QED BY <2>3, <2>4
<1>5. Bad = {}
  <2>1. SUFFICES ASSUME Bad # {} PROVE FALSE
    OBVIOUS
  <2>2. PICK m \in Bad : \A j \in Bad : m <= j
    <3>1. Bad \subseteq Nat
      OBVIOUS
    <3> HIDE DEF Bad
    <3> QED BY <2>1, <3>1, LeastExists
  <2> HIDE DEF Right
  <2>3. m \in 0 .. e /\ ~Right(e - m)
    BY <2>2
  <2>4. m # 0
    <3>1. e - 0 = e
      OBVIOUS
    <3> QED BY <1>3, <2>3, <3>1
  <2> DEFINE k == e - m
  <2>5. m - 1 \in 0 .. e /\ ~(m <= m - 1) /\ e - (m - 1) = k + 1 /\ k \in Nat /\ k < e
    BY <2>3, <2>4
  <2>6. Right(k + 1)
    <3>1. Right(e - (m - 1))
      BY <2>2, <2>5
    <3> QED BY <2>5, <3>1
  <2>7. Right(k)
    BY <1>4, <2>5, <2>6
  <2> QED BY <2>3, <2>7
<1>6. Right(0)
  <2>1. e \in 0 .. e /\ e - e = 0
    OBVIOUS
  <2> HIDE DEF Right
  <2> QED BY <1>5, <2>1
<1> QED BY <1>6, <1>7

(* Without a byte that ends it, nothing is read.                            *)
LEMMA ReadPastEnd ==
  ASSUME buf \in Seq(Byte), NEW p \in Nat, \A o \in Nat : p <= o /\ o < Len(buf) => At(o) >= More,
         NEW from, Reads(p, Len(buf), 0, from)
  PROVE  from[0] = Malformed
<1> DEFINE n == Len(buf)
           Bad == {m \in 0 .. n : from[n - m] # Malformed}
<1>0. n \in Nat /\ More \in Nat
  <2>1. More = 2^Group /\ Group \in Nat
    BY WidthShape DEF More
  <2> QED BY <2>1, LenProperties, PowerIsPositive
<1>1. Bad = {}
  <2>1. SUFFICES ASSUME Bad # {} PROVE FALSE
    OBVIOUS
  <2>2. PICK m \in Bad : \A j \in Bad : m <= j
    <3>1. Bad \subseteq Nat
      OBVIOUS
    <3> HIDE DEF Bad
    <3> QED BY <2>1, <3>1, LeastExists
  <2> DEFINE k == n - m
  <2>3. m \in 0 .. n /\ k \in 0 .. n /\ k \in Nat /\ from[k] # Malformed
    BY <1>0, <2>2
  <2>4. from[k] = ReadFrom(p, n, k, from[k + 1])
    BY <2>3 DEF Reads
  <2>5. p + k < n
    <3>1. p + k >= n => from[k] = Malformed
      BY <2>4 DEF ReadFrom
    <3> QED BY <1>0, <2>3, <3>1
  <2>6. At(p + k) >= More /\ At(p + k) \in Nat
    <3>1. p + k \in Nat /\ p <= p + k
      BY <2>3
    <3>2. At(p + k) \in Byte
      BY <2>5, <3>1, ByteAt
    <3> QED BY <2>3, <2>5, <3>1, <3>2, OverflowCases
  <2>7. m - 1 \in 0 .. n /\ ~(m <= m - 1) /\ n - (m - 1) = k + 1
    BY <1>0, <2>3, <2>5
  <2>8. from[k + 1] = Malformed
    BY <2>2, <2>7
  <2>9. ~from[k + 1].ok
    BY <2>8 DEF Malformed
  <2>10. ~(At(p + k) < More)
    BY <1>0, <2>6
  <2> HIDE DEF k
  <2> QED BY <2>3, <2>4, <2>9, <2>10 DEF ReadFrom
<1> QED
  <2>1. n \in 0 .. n /\ n - n = 0
    BY <1>0
  <2> QED BY <1>1, <2>1

(* A value of e + 1 bytes fits the width exactly when its last byte does.    *)
LEMMA FitsByEnd ==
  ASSUME buf \in Seq(Byte), NEW p \in Nat, NEW e \in Nat, p + e < Len(buf), At(p + e) < More,
         NEW sum, Sums(p, Len(buf), sum)
  PROVE  Ends(p, e) <=> e <= Whole /\ sum[e + 1] < 2^Width
<1> DEFINE v == 2^(Whole * Group)
           b == At(p + e)
<1>1. Len(buf) \in Nat /\ Whole \in Nat /\ Whole * Group \in Nat
  BY WidthShape, LenProperties
<1>2. b \in Nat /\ b % More = b
  <2>1. At(p + e) \in Byte
    BY <1>1, ByteAt
  <2> QED BY <2>1, OverflowCases
<1>3. v \in Nat /\ v > 0 /\ 2^Width = v + v
  BY <1>1, WidthShape, PowerIsPositive, PowerDoubles
<1>4. sum[e] \in Nat /\ Payload(p, e) \in Nat /\ sum[e + 1] = sum[e] + Payload(p, e) /\ sum[e] < 2^(e * Group)
  BY <1>1, SumsFit
<1> HIDE DEF v, b
<1>5. CASE e < Whole
  <2>1. e + 1 \in Nat /\ p + (e + 1) <= Len(buf) /\ (e + 1) * Group \in Nat
    <3>1. e + 1 \in Nat /\ p + (e + 1) <= Len(buf)
      BY <1>1
    <3> QED BY <3>1, OverflowPlaces
  <2>2. sum[e + 1] < 2^((e + 1) * Group) /\ sum[e + 1] \in Nat
    BY <2>1, SumsFit
  <2>3. (e + 1) * Group <= Whole * Group
    <3>1. \A x, y, g \in Nat : x <= y => x * g <= y * g
      <4>1. ASSUME NEW x \in Nat, NEW y \in Nat, NEW g \in Nat, x <= y PROVE x * g <= y * g
        <5>1. PICK d \in Nat : y = x + d
          <6>1. y - x \in Nat /\ y = x + (y - x)
            BY <4>1
          <6> QED BY <6>1
        <5>2. (x + d) * g = x * g + d * g /\ d * g \in Nat /\ x * g \in Nat
          OBVIOUS
        <5> QED BY <5>1, <5>2
      <4> QED BY <4>1
    <3>2. e + 1 <= Whole /\ Group \in Nat
      BY <1>1, <1>5, WidthShape
    <3> QED BY <1>1, <2>1, <3>1, <3>2
  <2>4. 2^((e + 1) * Group) <= v
    BY <1>1, <2>1, <2>3, PowerGrows DEF v
  <2>5. 2^((e + 1) * Group) \in Nat
    BY <2>1, PowerIsPositive
  <2>6. sum[e + 1] < 2^Width
    BY <1>3, <2>2, <2>4, <2>5
  <2> QED BY <1>1, <1>5, <2>6 DEF Ends
<1>6. CASE e = Whole
  <2>1. Payload(p, e) = b * v /\ sum[e] < v
    BY <1>2, <1>4, <1>6 DEF Payload, b, v
  <2>2. b <= 1 => b * v <= v
    <3>1. b <= 1 => b = 0 \/ b = 1
      BY <1>2
    <3>2. 0 * v = 0 /\ 1 * v = v
      BY <1>3
    <3> QED BY <1>3, <3>1, <3>2
  <2>3. ~(b <= 1) => v + v <= b * v
    <3>1. \A x, y \in Nat : x >= 2 => y + y <= x * y
      <4>1. ASSUME NEW x \in Nat, NEW y \in Nat, x >= 2 PROVE y + y <= x * y
        <5>1. PICK d \in Nat : x = 2 + d
          <6>1. x - 2 \in Nat /\ x = 2 + (x - 2)
            BY <4>1
          <6> QED BY <6>1
        <5>2. (2 + d) * y = y + y + d * y /\ d * y \in Nat
          OBVIOUS
        <5> QED BY <5>1, <5>2
      <4> QED BY <4>1
    <3> QED BY <1>2, <1>3, <3>1
  <2>4. b <= 1 <=> sum[e + 1] < 2^Width
    <3>1. b * v \in Nat
      BY <1>4, <2>1
    <3>2. CASE b <= 1
      BY <1>3, <1>4, <2>1, <2>2, <3>1, <3>2
    <3>3. CASE ~(b <= 1)
      BY <1>3, <1>4, <2>1, <2>3, <3>1, <3>3
    <3> QED BY <3>2, <3>3
  <2> QED BY <1>1, <1>6, <2>4 DEF Ends, b
<1> QED BY <1>1, <1>5, <1>6 DEF Ends

(* The first byte without continuation bit, if there is one.                *)
LEMMA FirstTerminator ==
  ASSUME buf \in Seq(Byte), NEW p \in Nat, Terminators(p) # {}
  PROVE  /\ Min(Terminators(p)) \in Nat /\ p <= Min(Terminators(p)) /\ Min(Terminators(p)) < Len(buf)
         /\ At(Min(Terminators(p))) < More
         /\ \A o \in Nat : p <= o /\ o < Min(Terminators(p)) => ~(At(o) < More)
<1> DEFINE T == Terminators(p)
<1>1. Len(buf) \in Nat
  BY LenProperties
<1>2. T \subseteq Nat
  BY <1>1 DEF Terminators
<1>3. \E o \in T : \A q \in T : o <= q
  <2> HIDE DEF T
  <2> QED BY <1>2, LeastExists DEF T
<1>4. Min(T) \in T /\ \A q \in T : Min(T) <= q
  <2> HIDE DEF T
  <2> QED BY <1>3 DEF Min
<1>5. ASSUME NEW o \in Nat, p <= o, o < Min(T) PROVE ~(At(o) < More)
  <2>1. o \notin T /\ Min(T) \in p .. Len(buf) - 1
    BY <1>2, <1>4, <1>5 DEF Terminators
  <2>2. o \in p .. Len(buf) - 1
    BY <1>1, <1>5, <2>1
  <2> QED BY <2>1, <2>2 DEF Terminators
<1>6. Min(T) \in p .. Len(buf) - 1 /\ At(Min(T)) < More
  BY <1>4 DEF Terminators
<1> QED BY <1>1, <1>5, <1>6

(* What varint reads is what is written, for every buffer.                   *)
LEMMA VarintExact ==
  ASSUME buf \in Seq(Byte)
  PROVE  VarintsAreExact
<1> SUFFICES ASSUME NEW p \in 0 .. Len(buf)
             PROVE  LET got == varint(p, Len(buf))
                        end == Min(Terminators(p))
                        fits == /\ Terminators(p) # {}
                                /\ end - p <= Width \div Group
                                /\ Written(p, end) < 2^Width
                    IN got = IF fits THEN Got(Written(p, end), end + 1) ELSE Malformed
  BY DEF VarintsAreExact
<1> DEFINE n == Len(buf)
           end == Min(Terminators(p))
           from == CHOOSE from : Reads(p, n, 0, from)
           sum == CHOOSE sum : Sums(p, n, sum)
<1>0. n \in Nat /\ 0 \in 0 .. n /\ p \in Nat /\ n <= Len(buf)
  BY LenProperties
<1>1. Reads(p, n, 0, from)
  BY <1>0, ReadsExists
<1>2. varint(p, n) = from[0]
  BY DEF varint, Reads, ReadFrom
<1>3. Sums(p, n, sum)
  BY <1>0, SumsExist
<1>4. \A o : Written(p, o) = sum[o + 1 - p]
  BY DEF Written, Sums, SumStep
<1> HIDE DEF from, sum
<1>5. CASE Terminators(p) = {}
  <2>1. ASSUME NEW o \in Nat, p <= o, o < n PROVE At(o) >= More
    <3>1. o \in p .. n - 1
      BY <1>0, <2>1
    <3>2. ~(At(o) < More)
      BY <1>5, <3>1 DEF Terminators
    <3>3. At(o) \in Byte
      BY <2>1, ByteAt
    <3>4. At(o) \in Nat /\ More \in Nat
      BY <2>1, <3>3, OverflowCases
    <3> QED BY <3>2, <3>4
  <2>2. from[0] = Malformed
    BY <1>0, <1>1, <2>1, ReadPastEnd
  <2> QED BY <1>2, <1>5, <2>2
<1>6. CASE Terminators(p) # {}
  <2> DEFINE e == end - p
  <2>1. /\ end \in Nat /\ p <= end /\ end < n /\ At(end) < More
        /\ \A o \in Nat : p <= o /\ o < end => ~(At(o) < More)
    BY <1>0, <1>6, FirstTerminator
  <2> HIDE DEF end
  <2>2. e \in Nat /\ p + e = end /\ end + 1 - p = e + 1 /\ p + e + 1 = end + 1
    BY <1>0, <2>1
  <2>3. ASSUME NEW k \in Nat, k < e PROVE At(p + k) >= More
    <3>1. p + k \in Nat /\ p <= p + k /\ p + k < end /\ p + k < n
      BY <1>0, <2>1, <2>3
    <3>2. ~(At(p + k) < More)
      BY <2>1, <3>1
    <3>3. At(p + k) \in Byte
      BY <3>1, ByteAt
    <3>4. At(p + k) \in Nat /\ More \in Nat
      BY <3>1, <3>3, OverflowCases
    <3> QED BY <3>2, <3>4
  <2> HIDE DEF e
  <2>4. from[0] = IF Ends(p, e) THEN Got(sum[e + 1], p + e + 1) ELSE Malformed
    BY <1>0, <1>1, <1>3, <2>1, <2>2, <2>3, ReadToEnd
  <2>5. Ends(p, e) <=> e <= Whole /\ sum[e + 1] < 2^Width
    BY <1>0, <1>3, <2>1, <2>2, FitsByEnd
  <2>6. Written(p, end) = sum[e + 1]
    BY <1>4, <2>2
  <2>7. varint(p, n) = IF e <= Whole /\ Written(p, end) < 2^Width
                       THEN Got(Written(p, end), end + 1) ELSE Malformed
    BY <1>2, <2>2, <2>4, <2>5, <2>6
  <2> QED BY <1>6, <2>7 DEF Whole, end, e
<1> QED BY <1>5, <1>6

(* A number of a bundle is read as it was written, or refused: for every    *)
(* bundle, every group and every width.                                     *)
THEOREM VarintsReadExactly == ReaderSpec => []VarintsAreExact
<1>1. WithinSlice => VarintsAreExact
  <2>1. ASSUME WithinSlice PROVE buf \in Seq(Byte)
    BY <2>1, InputsAssumption DEF WithinSlice, ReaderTypeOK
  <2> QED BY <2>1, VarintExact
<1> QED BY <1>1, ReadersStayWithin, PTL
==============================================================================
