-------------------------------- MODULE Wire --------------------------------
(***************************************************************************)
(* The Protobuf reader of the generator (internal/gen/protowire.go): one    *)
(* reader per message body, each a window of the bundle with a position.    *)
(*                                                                          *)
(* A byte carries Group payload bits and a continuation bit, a value Width  *)
(* bits: 7 and 64 in the code, small numbers here.  What the shapes of the  *)
(* code need is that Width is one more than a multiple of Group.            *)
(***************************************************************************)
EXTENDS Integers, Sequences, FiniteSetsExt

CONSTANTS Group, Width,      \* payload bits of a byte, bits of a value
          MaxField,          \* largest field number, math.MaxInt32
          Fixed64, Fixed32,  \* sizes of the two fixed wire types
          MaxDepth,          \* maxDecodeDepth
          Inputs             \* the bundles under study

Byte == 0 .. 2 * 2^Group - 1
More == 2^Group              \* the continuation bit

ASSUME WidthAssumption ==
  Group \in Nat \ {0} /\ Width \in Nat /\ Width = (Width \div Group) * Group + 1
ASSUME InputsAssumption == \A s \in Inputs : s \in Seq(Byte)
ASSUME SizesAssumption == MaxDepth \in Nat /\ {Fixed64, Fixed32} \subseteq Nat

wireVarint == 0
wireI64 == 1
wireBytes == 2
wireI32 == 5

VARIABLES
  buf,       \* the bundle, never changed
  readers,   \* one window [lo, hi, pos] per open message, the root first
  progress    \* "reading", "done" or "malformed"

readerVars == <<buf, readers, progress>>

ReaderTypeOK ==
  /\ buf \in Inputs
  /\ readers \in Seq([lo : 0 .. Len(buf), hi : 0 .. Len(buf), pos : 0 .. Len(buf)])
  /\ progress \in {"reading", "done", "malformed"}

------------------------------------------------------------------------------
(* Offsets count from 0; the byte at offset o is buf[o + 1].                *)
At(o) == buf[o + 1]

Malformed == [ok |-> FALSE, value |-> 0, pos |-> 0]
Got(v, p) == [ok |-> TRUE, value |-> v, pos |-> p]

(* The byte b after k others: only one bit is left for the last one.        *)
OverflowsLate(k, b) == k * Group >= Width
Overflows(k, b) == k * Group >= Width \/ (k * Group = Width - 1 /\ b > 1)

(* varint: the bytes from offset p of a window that ends at hi.             *)
varint(p, hi) ==
  LET from[k \in 0 .. Len(buf)] ==   \* with k bytes read before
        IF p + k >= hi \/ Overflows(k, At(p + k)) THEN Malformed
        ELSE LET bits == (At(p + k) % More) * 2^(k * Group)
             IN IF At(p + k) < More THEN Got(bits, p + k + 1)
                ELSE LET rest == from[k + 1]
                     IN IF rest.ok THEN Got(rest.value + bits, rest.pos) ELSE Malformed
  IN from[0]

(* next: a tag, as its field number and wire type.                          *)
next(p, hi) ==
  LET tag == varint(p, hi)
      num == tag.value \div 8
      wire == tag.value % 8
  IN IF ~tag.ok \/ num = 0 \/ num > MaxField
         \/ wire \notin {wireVarint, wireI64, wireBytes, wireI32}
     THEN Malformed
     ELSE Got(wire, tag.pos)

(* Mutant: the length is compared with the whole bundle.                    *)
BytesOfBundle(p, hi) ==
  LET n == varint(p, hi)
  IN IF ~n.ok \/ n.value > Len(buf) - n.pos THEN Malformed
     ELSE [ok |-> TRUE, value |-> n.pos, pos |-> n.pos + n.value]

(* bytes: a length, checked against what is left, then that many bytes.     *)
bytes(p, hi) ==
  LET n == varint(p, hi)
  IN IF ~n.ok \/ n.value > hi - n.pos THEN Malformed
     ELSE [ok |-> TRUE, value |-> n.pos, pos |-> n.pos + n.value]

fixed(p, hi, n) == IF hi - p < n THEN Malformed ELSE Got(0, p + n)

(* skip: the body of a field of the given wire type, unread.                *)
skip(p, hi, wire) ==
  CASE wire = wireVarint -> varint(p, hi)
    [] wire = wireI64 -> fixed(p, hi, Fixed64)
    [] wire = wireBytes -> bytes(p, hi)
    [] wire = wireI32 -> fixed(p, hi, Fixed32)

(* packedU32: varints until the end of a body.                              *)
packed(lo, hi) ==
  LET from[p \in lo .. hi] ==
        IF p >= hi THEN TRUE
        ELSE LET v == varint(p, hi) IN v.ok /\ from[v.pos]
  IN from[lo]

------------------------------------------------------------------------------
R == readers[Len(readers)]
done == R.pos >= R.hi

ReaderInit ==
  /\ buf \in Inputs
  /\ readers = <<[lo |-> 0, hi |-> Len(buf), pos |-> 0]>>
  /\ progress = "reading"

MidMessage == progress = "reading" /\ ~done
Tag == next(R.pos, R.hi)

MoveTo(p) == readers' = [readers EXCEPT ![Len(readers)].pos = p]

RefuseBytes ==
  /\ progress' = "malformed"
  /\ UNCHANGED <<buf, readers>>

BadTag == MidMessage /\ ~Tag.ok /\ RefuseBytes

(* A scalar, or a field the schema does not declare in the lenient pass.    *)
SkipField ==
  /\ MidMessage /\ Tag.ok
  /\ LET body == skip(Tag.pos, R.hi, Tag.value)
     IN IF body.ok
        THEN MoveTo(body.pos) /\ UNCHANGED <<buf, progress>>
        ELSE RefuseBytes

(* A repeated integer field in its packed form.                             *)
Packed ==
  /\ MidMessage /\ Tag.ok /\ Tag.value = wireBytes
  /\ LET body == bytes(Tag.pos, R.hi)
     IN IF body.ok /\ packed(body.value, body.pos)
        THEN MoveTo(body.pos) /\ UNCHANGED <<buf, progress>>
        ELSE RefuseBytes

(* message: a reader of its own over the body, one level deeper; the reader *)
(* it came from is already behind the body.                                 *)
OpenMessage ==
  /\ MidMessage /\ Tag.ok /\ Tag.value = wireBytes
  /\ LET body == bytes(Tag.pos, R.hi)
     IN IF body.ok /\ Len(readers) <= MaxDepth
        THEN /\ readers' = Append([readers EXCEPT ![Len(readers)].pos = body.pos],
                                  [lo |-> body.value, hi |-> body.pos, pos |-> body.value])
             /\ UNCHANGED <<buf, progress>>
        ELSE RefuseBytes

CloseMessage ==
  /\ progress = "reading" /\ done /\ Len(readers) > 1
  /\ readers' = SubSeq(readers, 1, Len(readers) - 1)
  /\ UNCHANGED <<buf, progress>>

EndBundle ==
  /\ progress = "reading" /\ done /\ Len(readers) = 1
  /\ progress' = "done"
  /\ UNCHANGED <<buf, readers>>

(* The bundle is read or refused: a reader never stops anywhere else, which *)
(* is what the absence of deadlock says.                                    *)
Stopped == progress # "reading" /\ UNCHANGED readerVars

ReaderNext == BadTag \/ SkipField \/ Packed \/ OpenMessage \/ CloseMessage \/ EndBundle \/ Stopped

ReaderSpec == ReaderInit /\ [][ReaderNext]_readerVars

------------------------------------------------------------------------------
(* A bundle can neither make a reader read past its slice nor recurse       *)
(* without bound (the promise of the comment on reader): every open message *)
(* lies within what its parent has passed, and nesting is limited.          *)
WithinSlice ==
  /\ ReaderTypeOK
  /\ Len(readers) \in 1 .. MaxDepth + 1
  /\ \A k \in DOMAIN readers :
       /\ readers[k].lo <= readers[k].pos /\ readers[k].pos <= readers[k].hi
       /\ readers[k].hi <= Len(buf)
       /\ k > 1 => readers[k - 1].lo < readers[k].lo /\ readers[k].hi = readers[k - 1].pos

(* The value written by the bytes from p: payloads by rank, little end      *)
(* first, up to the first byte without continuation bit.                    *)
Terminators(p) == {o \in p .. Len(buf) - 1 : At(o) < More}
Written(p, o) ==
  LET sum[k \in 0 .. Len(buf)] ==   \* of the first k payloads
        IF k = 0 THEN 0 ELSE sum[k - 1] + (At(p + k - 1) % More) * 2^((k - 1) * Group)
  IN sum[o + 1 - p]

(* A varint is read exactly when it ends within the buffer and its value    *)
(* has no more than Width bits in at most Width / Group + 1 bytes, and it is *)
(* then the value written: nothing wraps around.                            *)
VarintsAreExact ==
  \A p \in 0 .. Len(buf) :
    LET got == varint(p, Len(buf))
        end == Min(Terminators(p))
        fits == /\ Terminators(p) # {}
                /\ end - p <= Width \div Group
                /\ Written(p, end) < 2^Width
    IN got = IF fits THEN Got(Written(p, end), end + 1) ELSE Malformed

==============================================================================
