---------------------------- MODULE MCLoaderWalks ----------------------------
(* The three walks of the loader over what a bundle may hold: the reader    *)
(* over its bytes, the decoders over its messages, and the check of its     *)
(* calls.  They share no state, so one of them goes while the others stand  *)
(* where they ended on the smallest bundle.                                 *)
EXTENDS CallGraph, Wire, Decode

(* Every call graph of three programs with at most two calls each, unknown  *)
(* callees and a program of another kind included.                          *)
Unknown == 7
Callees == 1 .. 3 \cup {Unknown}
CallLists == {<<>>} \cup {<<c>> : c \in Callees} \cup {<<c, d>> : c, d \in Callees}
Uncalled == [kind |-> [p \in 1 .. 3 |-> "format"], calls |-> [p \in 1 .. 3 |-> <<>>]]

MCCallGraphs ==
  [kind : {[p \in 1 .. 3 |-> "format"], [p \in 1 .. 3 |-> IF p = 2 THEN "checksum" ELSE "format"]},
   calls : [1 .. 3 -> CallLists]]

(* Four payload bits and a continuation bit per byte, values of nine bits:  *)
(* the tag of field 1 is one byte.  Every buffer of up to four bytes over   *)
(* the tags of field 1 (varint, bytes, fixed, and the group type the reader *)
(* refuses) and small, continued and overflowing values; longer ones nest.  *)
MCInputs ==
  UNION {[1 .. n -> {8, 10, 11, 13, 0, 2, 16, 17}] : n \in 0 .. 4}
    \cup UNION {[1 .. n -> {8, 10, 2, 4}] : n \in 5 .. 6}

(* A small valid bundle with every message in it, and any one message of it *)
(* extended: by any known field of any wire type, in range or not, once or  *)
(* twice, or by fields the schema does not know.                            *)
Op(at) == CASE at = "IntegerOperation" -> 11 [] at = "PredicateOperation" -> 12
            [] at = "CanonicalizationOperation" -> 13 [] at = "AssertionOperation" -> 14
            [] at = "ChecksumOperation" -> 15 [] at = "CallOperation" -> 16 [] OTHER -> 10
OpName(n) == CHOOSE op \in Operations : Op(op) = n

BundleOf(at, extra, version, ids, kind) ==
  LET X(msg) == IF msg = at THEN extra ELSE <<>>
      op == Nested(Op(at), <<Varint(1, kind)>> \o X(OpName(Op(at))))
      node == Nested(3, (IF at = "Branch" THEN extra ELSE <<op>>) \o X("Node"))
      capture == Nested(5, <<Varint(2, 0)>> \o X("Capture"))
      program == Nested(7, <<node, capture>> \o X("Program"))
      source == Nested(8, <<String(2, 0)>> \o X("Source"))
      identifier == Nested(6, <<source>> \o X("IdentifierDefinition"))
      alias == Nested(4, <<String(1, 0)>> \o X("CountryAlias"))
      target == Nested(5, <<String(2, 0)>> \o X("DispatchTarget"))
      dispatcher == Nested(8, <<alias, target>> \o X("IdentifierDispatcher"))
  IN [oversized |-> FALSE,
      fields |-> <<Varint(1, version), Numbers(3, ids), identifier, program, dispatcher>>
                 \o X("RuleBundle")]

Strange == {20, 99}
Fields(at) == (IF at \in Messages THEN FieldsOf(at) ELSE {}) \cup Strange
Tokens(at) ==
  {Varint(f, v) : f \in Fields(at), v \in {1, 3, 9}}
    \cup {String(f, v) : f \in Fields(at), v \in {0, 1}}
    \cup {Numbers(f, s) : f \in Fields(at), s \in {<<1, 9>>, <<1, 1, 1>>}}
StrangeTokens == {Varint(20, 0), Varint(99, 0), String(20, 0), String(99, 0)}
Extras(at) ==
  {<<t>> : t \in Tokens(at)} \cup {<<t, t>> : t \in Tokens(at)}
    \cup {<<t, u>> : t, u \in StrangeTokens}

Every == Messages \cup {"Branch"}
Versions == {<<1, <<1, 2>>, 1>>, <<1, <<1, 2>>, 7>>, <<2, <<1>>, 1>>, <<1, <<1, 77>>, 7>>, <<1, <<2, 1>>, 1>>}
Cases == UNION {{<<at, x>> : x \in Extras(at)} : at \in Every}

Oversized == [oversized |-> TRUE, fields |-> <<>>]
MCBundles ==
  {BundleOf(c[1], c[2], v[1], v[2], v[3]) : c \in Cases, v \in Versions} \cup {Oversized}

(* The fields at each depth.  TLC sorts a set it has to count, and looks a  *)
(* field up in a sorted one at once.                                        *)
Pieces(bodies) ==
  LET pieces == {x[1][x[2]] : x \in {y \in bodies \X (1 .. 10) : y[2] \in DOMAIN y[1]}}
  IN IF Cardinality(pieces) = 0 THEN {} ELSE pieces
InBundle == Pieces({b.fields : b \in MCBundles})
InMessage == Pieces({t.body : t \in InBundle})
InPart == Pieces({t.body : t \in InMessage})
InNode == Pieces({t.body : t \in InPart})
InOperation == Pieces({t.body : t \in InNode})
AnyField == InBundle \cup InMessage \cup InPart \cup InNode \cup InOperation
MCFields == AnyField

------------------------------------------------------------------------------
WalkRests ==
  /\ graph = Uncalled /\ colour = [p \in Program |-> "black"] /\ depth = [p \in Program |-> 1]
  /\ stack = <<>> /\ root = N + 1 /\ ruling = "accepted"
ReaderRests == buf = <<>> /\ readers = <<[lo |-> 0, hi |-> 0, pos |-> 0]>> /\ progress = "done"
DecodeRests ==
  /\ bundle = Oversized /\ pass = "lenient" /\ open = Root(bundle)
  /\ decoded = <<>> /\ scout = <<>> /\ verdict = "invalid"

Init ==
  \/ WalkInit /\ ReaderRests /\ DecodeRests
  \/ WalkRests /\ ReaderInit /\ DecodeRests
  \/ WalkRests /\ ReaderRests /\ DecodeInit

vars == <<walkVars, readerVars, decodeVars>>
AllButWalk == <<readerVars, decodeVars>>
AllButReader == <<walkVars, decodeVars>>
AllButDecode == <<walkVars, readerVars>>

(* Each of them ends with an answer, and stops nowhere else: the absence of *)
(* deadlock says so of all three.                                           *)
Ended == ruling # "running" /\ progress # "reading" /\ verdict # "running" /\ UNCHANGED vars

Next ==
  \/ StartRoot /\ UNCHANGED AllButWalk
  \/ SkipRoot /\ UNCHANGED AllButWalk
  \/ Accept /\ UNCHANGED AllButWalk
  \/ RefuseUnknownCallee /\ UNCHANGED AllButWalk
  \/ RefuseKind /\ UNCHANGED AllButWalk
  \/ RefuseCycle /\ UNCHANGED AllButWalk
  \/ Enter /\ UNCHANGED AllButWalk
  \/ Reuse /\ UNCHANGED AllButWalk
  \/ Leave /\ UNCHANGED AllButWalk
  \/ RefuseDepth /\ UNCHANGED AllButWalk
  \/ BadTag /\ UNCHANGED AllButReader
  \/ SkipField /\ UNCHANGED AllButReader
  \/ Packed /\ UNCHANGED AllButReader
  \/ OpenMessage /\ UNCHANGED AllButReader
  \/ CloseMessage /\ UNCHANGED AllButReader
  \/ EndBundle /\ UNCHANGED AllButReader
  \/ RefuseOversized /\ UNCHANGED AllButDecode
  \/ SkipUnknown /\ UNCHANGED AllButDecode
  \/ RefuseUnknown /\ UNCHANGED AllButDecode
  \/ RefuseField /\ UNCHANGED AllButDecode
  \/ TakeField /\ UNCHANGED AllButDecode
  \/ EndMessage /\ UNCHANGED AllButDecode
  \/ RefuseIncomplete /\ UNCHANGED AllButDecode
  \/ EndLenientPass /\ UNCHANGED AllButDecode
  \/ CheckVersions /\ UNCHANGED AllButDecode
  \/ EndStrictPass /\ UNCHANGED AllButDecode
  \/ Ended

(* The walk over the calls is sequential code: it takes its next step.      *)
Spec == Init /\ [][Next]_vars /\ WF_walkVars(WalkNext)
==============================================================================
