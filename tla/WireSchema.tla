----------------------------- MODULE WireSchema -----------------------------
(***************************************************************************)
(* The messages of a bundle, as the decoders of internal/gen/decode.go know *)
(* them.  Wire is the byte level below this: here a message body is the     *)
(* sequence of its fields, each with its number, wire type and contents.    *)
(***************************************************************************)
EXTENDS Integers, Sequences, FiniteSets

CONSTANTS MaxUint32, MaxInt32,  \* ranges of the integer types, scaled
          MaxNodesPerProgram    \* also the limit of the other lists, scaled

(* A field: a number in value, or for wire type bytes whether a string      *)
(* would be ill formed, with the fields of the body where it is a message   *)
(* and the numbers where it is a packed list.                               *)
Varint(f, v) == [field |-> f, wire |-> "varint", value |-> v, body |-> <<>>]
String(f, v) == [field |-> f, wire |-> "bytes", value |-> v, body |-> <<>>]
Nested(f, b) == [field |-> f, wire |-> "bytes", value |-> 0, body |-> b]
Numbers(f, s) == Nested(f, [i \in DOMAIN s |-> Varint(0, s[i])])

ASSUME RangesAssumption == MaxInt32 \in Nat /\ MaxUint32 \in Nat /\ MaxInt32 <= MaxUint32

------------------------------------------------------------------------------
(* One entry per field a decoder knows: how it is read, whether it may      *)
(* occur once only, how many values it may hold, the message it nests.      *)
Unlimited == 1000
Entries(fields, type, single, limit, sub) ==
  {[field |-> f, read |-> type, single |-> single, limit |-> limit, sub |-> sub] : f \in fields}
One(fields, type) == Entries(fields, type, TRUE, Unlimited, "")
Many(fields, type, limit) == Entries(fields, type, FALSE, limit, "")
Each(field, msg, limit) == Entries({field}, "message", FALSE, limit, msg)
Branch(field, msg) == Entries({field}, "message", TRUE, Unlimited, msg)

decodeBundle ==
  One({1}, "u32") \cup One({2}, "str") \cup Many({3}, "u32s", Unlimited) \cup One({4}, "bytes")
    \cup Each(6, "IdentifierDefinition", Unlimited) \cup Each(7, "Program", Unlimited)
    \cup Each(8, "IdentifierDispatcher", Unlimited)

decodeIdentifier ==
  One({1, 4, 5, 6}, "u32") \cup One({2, 3, 7}, "str")
    \cup Each(8, "Source", Unlimited) \cup One({9}, "enum")

decodeSource == One(1 .. 10, "str") \cup One({11}, "enum")

decodeDispatcher ==
  One({1}, "str") \cup Many({2}, "str", Unlimited) \cup One({3}, "u32")
    \cup Each(4, "CountryAlias", Unlimited) \cup Each(5, "DispatchTarget", Unlimited)

decodeCountryAlias == One({1, 2}, "str")

decodeTarget ==
  One({1, 3}, "str") \cup Many({2}, "str", Unlimited) \cup One({4}, "u32") \cup One({5}, "bool")

decodeProgram ==
  One({1, 4, 6}, "u32") \cup One({2}, "enum")
    \cup Each(3, "Node", MaxNodesPerProgram) \cup Each(5, "Capture", Unlimited)

decodeCapture == One({1}, "str") \cup One({2}, "u32")

decodeNode ==
  One({1}, "enum") \cup Many({2}, "u32s", MaxNodesPerProgram)
    \cup Branch(10, "StringOperation") \cup Branch(11, "IntegerOperation")
    \cup Branch(12, "PredicateOperation") \cup Branch(13, "CanonicalizationOperation")
    \cup Branch(14, "AssertionOperation") \cup Branch(15, "ChecksumOperation")
    \cup Branch(16, "CallOperation")

(* The kind of an operation is field 1 of each; the rest are parameters.    *)
Kind == One({1}, "enum")
stringParams == One({2}, "str") \cup One({3, 4}, "u32")
integerParams ==
  One({2}, "i64") \cup Many({3, 6}, "i64s", MaxNodesPerProgram)
    \cup One({4, 5}, "enum") \cup One({7}, "str")
predicateParams ==
  One({2}, "str") \cup Many({3}, "str", MaxNodesPerProgram)
    \cup Many({4}, "u32s", MaxNodesPerProgram) \cup One(5 .. 8, "u32") \cup One({9}, "i64")
canonicalizationParams == One({2, 3}, "str") \cup One({4, 5}, "u32")
assertionParams == One({2}, "enum") \cup One({3}, "str")
checksumParams == One(2 .. 4, "u32") \cup One({5}, "enum") \cup One({6}, "str") \cup One({7}, "i64")
callParams == One({2}, "u32")

Operations ==
  {"StringOperation", "IntegerOperation", "PredicateOperation", "CanonicalizationOperation",
   "AssertionOperation", "ChecksumOperation", "CallOperation"}

Schema ==
  [RuleBundle |-> decodeBundle, IdentifierDefinition |-> decodeIdentifier,
   Source |-> decodeSource, IdentifierDispatcher |-> decodeDispatcher,
   CountryAlias |-> decodeCountryAlias, DispatchTarget |-> decodeTarget,
   Program |-> decodeProgram, Capture |-> decodeCapture, Node |-> decodeNode,
   StringOperation |-> Kind \cup stringParams,
   IntegerOperation |-> Kind \cup integerParams,
   PredicateOperation |-> Kind \cup predicateParams,
   CanonicalizationOperation |-> Kind \cup canonicalizationParams,
   AssertionOperation |-> Kind \cup assertionParams,
   ChecksumOperation |-> Kind \cup checksumParams,
   CallOperation |-> Kind \cup callParams]

Messages == DOMAIN Schema
FieldsOf(msg) == {e.field : e \in Schema[msg]}
Knows(msg, t) == t.field \in FieldsOf(msg)
Entry(msg, t) == CHOOSE e \in Schema[msg] : e.field = t.field
IsOperation(msg) == msg \in Operations

(* Whether the reader of a type accepts a number or a string, and the wire  *)
(* types it accepts; lists come packed or one by one.                       *)
Fits(type, v) ==
  CASE type \in {"u32", "u32s"} -> v <= MaxUint32
    [] type = "enum" -> v <= MaxInt32
    [] type = "bool" -> v <= 1
    [] type = "str" -> v = 0
    [] OTHER -> TRUE

Lists == {"u32s", "i64s"}
Wires(type) ==
  IF type \in Lists THEN {"varint", "bytes"}
  ELSE IF type \in {"str", "bytes", "message"} THEN {"bytes"} ELSE {"varint"}

(* The values a field holds.                                                *)
Values(type, t) ==
  IF type \in Lists /\ t.wire = "bytes" THEN [i \in DOMAIN t.body |-> t.body[i].value]
  ELSE <<t.value>>

Readable(type, t) ==
  /\ t.wire \in Wires(type)
  /\ \A i \in DOMAIN Values(type, t) : Fits(type, Values(type, t)[i])
==============================================================================
