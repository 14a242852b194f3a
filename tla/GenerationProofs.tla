---------------------------- MODULE GenerationProofs ----------------------------
(***************************************************************************)
(* The loader and the generator, for every bundle and every limit: what    *)
(* load.go accepts, it has checked (LoadInvariance); what it accepts, the  *)
(* generator emits without a panic (NoPassPanics), the engine can serve    *)
(* (AcceptedIsServed), and the Go compiler finds every name, and each      *)
(* string case once (NamesAreDeclared). The invariant of the loader says   *)
(* which checks each element has passed; the rest follows from those       *)
(* checks, one part of the generated code at a time, and the invariant of  *)
(* the passes says which names were declared so far.                       *)
(***************************************************************************)
EXTENDS Generation, TLAPS, SequenceTheorems, FiniteSetTheorems, WellFoundedInduction

------------------------------------------------------------------------------
(* The table of operations: each family writes the output, and reads the    *)
(* operands, that the loader checks it for.                                 *)

(* The operations of each family.                                           *)
StringNames ==
  {"CONSTANT", "VALUE", "SUBJECT", "COUNTRY_CODE", "SLICE", "SLICE_FROM", "SLICE_TO",
   "BEFORE_FIRST", "AFTER_FIRST", "STRIP_PREFIX", "CONCAT"}
IntegerNames ==
  {"DIGITS_TO_INTEGER", "MOD_DIGITS", "WEIGHTED_SUM", "MODULO", "COMPLEMENT", "REMAINDER_MAP"}
TestNames ==
  {"IS_EMPTY", "IS_ABSENT", "LENGTH_EQ", "LENGTH_IN", "LENGTH_BETWEEN", "ASCII_DIGITS",
   "ASCII_UPPER_LETTERS", "ASCII_ALPHANUMERIC", "ASCII_CHARSET", "STARTS_WITH", "ENDS_WITH",
   "PREFIX_IN", "CHAR_AT_IN", "CONTAINS"}
PredicateNames == TestNames \cup {"EQUALS", "ALL", "ANY", "NOT", "PROFILE_IS", "INTEGER_IS"}
StepNames ==
  {"CANON_SEQUENCE", "CANON_WHEN", "TRIM_WHITESPACE", "REMOVE_WHITESPACE", "UPPERCASE_ASCII",
   "REMOVE_CHARS", "REPLACE_PREFIX", "PREPEND", "APPEND", "INSERT", "LEFT_PAD",
   "PREPEND_COUNTRY_IF_MISSING"}
AssertionNames == {"ASSERT_SEQUENCE", "REQUIRE"}
ChecksumNames ==
  {"LUHN", "ISO7064_MOD97_10", "COMPARE_DIGIT", "COMPARE_SLICE", "CHOOSE_BRANCH",
   "CHECKSUM_WHEN", "ALL_CHECKS", "ANY_CHECK", "UNSUPPORTED", "COMPARE_CONSTANT"}
CallNames == {"CALL_FORMAT", "CALL_CHECKSUM"}

(* What each family of the table holds.                                     *)
LEMMA FamilyDomains ==
  /\ DOMAIN stringOps = StringNames
  /\ DOMAIN integerOps = IntegerNames
  /\ DOMAIN predicateOps = PredicateNames
  /\ DOMAIN canonicalizationOps = StepNames
  /\ DOMAIN assertionOps = AssertionNames
  /\ DOMAIN checksumOps = ChecksumNames
  /\ DOMAIN callOps = CallNames
BY DEF stringOps, StringNames, integerOps, IntegerNames, predicateOps, PredicateNames, TestNames,
       canonicalizationOps, StepNames, assertionOps, AssertionNames, checksumOps, ChecksumNames,
       callOps, CallNames

(* The table of operations is its families side by side (opSpecs).          *)
LEMMA Lookups ==
  /\ \A op \in StringNames : opSpecs[op] = stringOps[op]
  /\ \A op \in IntegerNames : opSpecs[op] = integerOps[op]
  /\ \A op \in PredicateNames : opSpecs[op] = predicateOps[op]
  /\ \A op \in StepNames : opSpecs[op] = canonicalizationOps[op]
  /\ \A op \in AssertionNames : opSpecs[op] = assertionOps[op]
  /\ \A op \in ChecksumNames : opSpecs[op] = checksumOps[op]
  /\ \A op \in CallNames : opSpecs[op] = callOps[op]
BY FamilyDomains DEF opSpecs, Opcodes, StringNames, IntegerNames, PredicateNames, TestNames,
                     StepNames, AssertionNames, ChecksumNames, CallNames

(* Every operation is of a family.                                          *)
LEMMA OpcodesNamed ==
  Opcodes = StringNames \cup IntegerNames \cup PredicateNames \cup StepNames \cup AssertionNames
              \cup ChecksumNames \cup CallNames
BY FamilyDomains DEF Opcodes

------------------------------------------------------------------------------
(* The type an operand is read as.                                          *)
TypeRead(as) == IF as \in {"local", "branch"} THEN "outcome" ELSE as

(* An operation has this output and this category, and declares the type    *)
(* of each operand the way the emitter reads it.                            *)
Shape(op, output, cat, n) ==
  /\ opSpecs[op].output = output /\ opSpecs[op].cat = cat
  /\ op # "CHOOSE_BRANCH" =>
       /\ \A k \in 1 .. Len(opSpecs[op].fixed) :
            opSpecs[op].fixed[k] = TypeRead(Emission!ReadAs(n, k))
       /\ opSpecs[op].maxRep # 0 =>
            \A k \in Nat : k > Len(opSpecs[op].fixed) =>
              opSpecs[op].repeated = TypeRead(Emission!ReadAs(n, k))

(* The fields of an entry of the table.                                     *)
LEMMA SpecFields ==
  ASSUME NEW cat, NEW output, NEW fixed, NEW required, NEW features
  PROVE  LET s == opSpec(cat, output, fixed, required, features)
         IN /\ s.cat = cat /\ s.output = output /\ s.fixed = fixed
            /\ s.repeated = "none" /\ s.minRep = 0 /\ s.maxRep = 0
            /\ s.required = required /\ s.optional = {}
BY DEF opSpec

LEMMA RepeatingFields ==
  ASSUME NEW cat, NEW output, NEW fixed, NEW required, NEW features, NEW type, NEW min, NEW max
  PROVE  LET s == Repeating(opSpec(cat, output, fixed, required, features), type, min, max)
         IN /\ s.cat = cat /\ s.output = output /\ s.fixed = fixed
            /\ s.repeated = type /\ s.minRep = min /\ s.maxRep = max
            /\ s.required = required /\ s.optional = {}
BY DEF opSpec, Repeating

LEMMA OptionalFields ==
  ASSUME NEW cat, NEW output, NEW fixed, NEW required, NEW features, NEW params
  PROVE  LET s == Optionally(opSpec(cat, output, fixed, required, features), params)
         IN /\ s.cat = cat /\ s.output = output /\ s.fixed = fixed
            /\ s.repeated = "none" /\ s.minRep = 0 /\ s.maxRep = 0
            /\ s.required = required /\ s.optional = params
BY DEF opSpec, Optionally

(* The shape of each family, one case for each way of reading operands.     *)
LEMMA StringShapes ==
  ASSUME NEW n, n.op \in StringNames
  PROVE  Shape(n.op, "string", "string", n)
<1>1. CASE n.op = "CONCAT"
  <2>1. opSpecs["CONCAT"] = stringOps.CONCAT
    BY Lookups DEF StringNames
  <2>2. stringOps.CONCAT = Repeating(opSpec("string", "string", <<>>, {}, {10}), "string", 1, 256)
    BY DEF stringOps, Str
  <2> QED BY <1>1, <2>1, <2>2, RepeatingFields DEF Shape, TypeRead, Emission!ReadAs
<1>2. CASE n.op \in {"CONSTANT", "VALUE", "SUBJECT", "COUNTRY_CODE"}
  <2>1. opSpecs[n.op] = stringOps[n.op]
    BY Lookups, <1>2 DEF StringNames
  <2> QED BY <1>2, <2>1 DEF Shape, stringOps, Str, View, opSpec, Repeating, TypeRead, Emission!ReadAs
<1>3. CASE n.op \in {"SLICE", "SLICE_FROM", "SLICE_TO", "BEFORE_FIRST", "AFTER_FIRST", "STRIP_PREFIX"}
  <2>1. opSpecs[n.op] = stringOps[n.op]
    BY Lookups, <1>3 DEF StringNames
  <2> QED BY <1>3, <2>1 DEF Shape, stringOps, Str, View, opSpec, Repeating, TypeRead, Emission!ReadAs
<1> QED BY <1>1, <1>2, <1>3 DEF StringNames

LEMMA IntegerShapes ==
  ASSUME NEW n, n.op \in IntegerNames
  PROVE  Shape(n.op, "integer", "integer", n)
<1>1. opSpecs[n.op] = integerOps[n.op]
  BY Lookups
<1>2. CASE n.op \in {"DIGITS_TO_INTEGER", "MOD_DIGITS"}
  BY <1>1, <1>2 DEF Shape, integerOps, IntOp, opSpec, Optionally, TypeRead, Emission!ReadAs
<1>3. CASE n.op \in {"MODULO", "COMPLEMENT", "REMAINDER_MAP"}
  BY <1>1, <1>3 DEF Shape, integerOps, IntOp, opSpec, Optionally, TypeRead, Emission!ReadAs
<1>4. CASE n.op = "WEIGHTED_SUM"
  <2>1. /\ integerOps.WEIGHTED_SUM.cat = "integer" /\ integerOps.WEIGHTED_SUM.output = "integer"
        /\ integerOps.WEIGHTED_SUM.fixed = <<"string">> /\ integerOps.WEIGHTED_SUM.maxRep = 0
    BY DEF integerOps, IntOp, opSpec, Optionally
  <2> QED BY <1>1, <1>4, <2>1 DEF Shape, TypeRead, Emission!ReadAs
<1> QED BY <1>2, <1>3, <1>4 DEF IntegerNames

LEMMA PredicateShapes ==
  ASSUME NEW n, n.op \in PredicateNames
  PROVE  Shape(n.op, "boolean", "predicate", n)
<1>1. opSpecs[n.op] = predicateOps[n.op]
  BY Lookups
<1>2. CASE n.op \in TestNames
  <2>1. n.op \in {"IS_EMPTY", "IS_ABSENT", "ASCII_DIGITS", "ASCII_UPPER_LETTERS",
                  "ASCII_ALPHANUMERIC", "ASCII_CHARSET"} =>
          \E required, features :
            predicateOps[n.op] = opSpec("predicate", "boolean", <<"string">>, required, features)
    BY DEF predicateOps, Pred, Test, Charset
  <2>2. n.op \in {"LENGTH_EQ", "LENGTH_IN", "LENGTH_BETWEEN", "STARTS_WITH", "ENDS_WITH",
                  "PREFIX_IN", "CHAR_AT_IN", "CONTAINS"} =>
          \E required, features :
            predicateOps[n.op] = opSpec("predicate", "boolean", <<"string">>, required, features)
    BY DEF predicateOps, Pred, Test
  <2>3. PICK required, features :
          predicateOps[n.op] = opSpec("predicate", "boolean", <<"string">>, required, features)
    BY <1>2, <2>1, <2>2 DEF TestNames
  <2>4. Emission!ReadAs(n, 1) = "string"
    BY <1>2 DEF TestNames, Emission!ReadAs
  <2> HIDE DEF TestNames
  <2> QED BY <1>1, <2>3, <2>4, SpecFields DEF Shape, TypeRead
<1>3. CASE n.op \in {"ALL", "ANY"}
  <2>1. predicateOps[n.op] =
          Repeating(opSpec("predicate", "boolean", <<>>, {}, {20}), "boolean", 1, Unbounded)
    BY <1>3 DEF predicateOps, Pred
  <2> QED BY <1>1, <1>3, <2>1, RepeatingFields DEF Shape, TypeRead, Emission!ReadAs
<1>4. CASE n.op \in {"EQUALS", "NOT", "PROFILE_IS", "INTEGER_IS"}
  BY <1>1, <1>4 DEF Shape, predicateOps, Pred, opSpec, Repeating, TypeRead, Emission!ReadAs
<1> QED BY <1>2, <1>3, <1>4 DEF PredicateNames

LEMMA StepShapes ==
  ASSUME NEW n, n.op \in StepNames
  PROVE  Shape(n.op, "step", "canonicalization", n)
<1>1. opSpecs[n.op] = canonicalizationOps[n.op]
  BY Lookups
<1>2. CASE n.op = "CANON_SEQUENCE"
  <2>1. canonicalizationOps.CANON_SEQUENCE =
          Repeating(opSpec("canonicalization", "step", <<>>, {}, {3}), "step", 0, Unbounded)
    BY DEF canonicalizationOps, Canon
  <2> QED BY <1>1, <1>2, <2>1, RepeatingFields DEF Shape, TypeRead, Emission!ReadAs
<1>3. CASE n.op = "CANON_WHEN"
  <2>1. canonicalizationOps.CANON_WHEN =
          Repeating(opSpec("canonicalization", "step", <<"boolean">>, {}, {4}), "step", 1, Unbounded)
    BY DEF canonicalizationOps, Canon
  <2>2. ASSUME NEW k \in Nat, k > 1
        PROVE  Emission!ReadAs(n, k) = "step"
    BY <1>3, <2>2 DEF Emission!ReadAs
  <2>3. Emission!ReadAs(n, 1) = "boolean"
    BY <1>3 DEF Emission!ReadAs
  <2> QED BY <1>1, <1>3, <2>1, <2>2, <2>3, RepeatingFields DEF Shape, TypeRead
<1>4. CASE n.op \in StepNames \ {"CANON_SEQUENCE", "CANON_WHEN"}
  BY <1>1, <1>4 DEF Shape, canonicalizationOps, Canon, opSpec, Repeating, TypeRead, Emission!ReadAs, StepNames
<1> QED BY <1>2, <1>3, <1>4

LEMMA AssertionShapes ==
  ASSUME NEW n, n.op \in AssertionNames
  PROVE  Shape(n.op, "assertion", "assertion", n)
<1>1. opSpecs[n.op] = assertionOps[n.op]
  BY Lookups
<1>2. CASE n.op = "ASSERT_SEQUENCE"
  <2>1. assertionOps.ASSERT_SEQUENCE =
          Repeating(opSpec("assertion", "assertion", <<>>, {}, {20}), "assertion", 1, Unbounded)
    BY DEF assertionOps
  <2> QED BY <1>1, <1>2, <2>1, RepeatingFields DEF Shape, TypeRead, Emission!ReadAs
<1>3. CASE n.op = "REQUIRE"
  BY <1>1, <1>3 DEF Shape, assertionOps, opSpec, Repeating, Optionally, TypeRead, Emission!ReadAs
<1> QED BY <1>2, <1>3 DEF AssertionNames

LEMMA ChecksumShapes ==
  ASSUME NEW n, n.op \in ChecksumNames
  PROVE  Shape(n.op, "outcome", "checksum", n)
<1>1. opSpecs[n.op] = checksumOps[n.op]
  BY Lookups
<1>2. CASE n.op \in {"CHOOSE_BRANCH", "ALL_CHECKS", "ANY_CHECK"}
  <2>1. checksumOps[n.op] =
          Repeating(opSpec("checksum", "outcome", <<>>, {}, {30} \cup {}), "outcome", 1, Unbounded)
    BY <1>2 DEF checksumOps, Outcome, Combinator
  <2> QED BY <1>1, <1>2, <2>1, RepeatingFields DEF Shape, TypeRead, Emission!ReadAs
<1>3. CASE n.op = "CHECKSUM_WHEN"
  BY <1>1, <1>3 DEF Shape, checksumOps, Outcome, opSpec, TypeRead, Emission!ReadAs
<1>4. CASE n.op \in {"LUHN", "ISO7064_MOD97_10", "UNSUPPORTED"}
  BY <1>1, <1>4 DEF Shape, checksumOps, Check, Outcome, opSpec, Optionally, TypeRead, Emission!ReadAs
<1>5. CASE n.op \in {"COMPARE_DIGIT", "COMPARE_SLICE", "COMPARE_CONSTANT"}
  BY <1>1, <1>5 DEF Shape, checksumOps, Check, Outcome, opSpec, Optionally, TypeRead, Emission!ReadAs
<1> QED BY <1>2, <1>3, <1>4, <1>5 DEF ChecksumNames

LEMMA CallShapes ==
  ASSUME NEW n, n.op \in CallNames
  PROVE  Shape(n.op, IF n.op = "CALL_FORMAT" THEN "assertion" ELSE "outcome", "call", n)
<1>1. opSpecs[n.op] = callOps[n.op]
  BY Lookups
<1> QED
  BY <1>1 DEF Shape, callOps, Outcome, opSpec, TypeRead, Emission!ReadAs, CallNames

------------------------------------------------------------------------------
(* A node of a family, and a node the loader let through.                   *)

(* An operation of each output type.                                        *)
OutputNames(type) ==
  CASE type = "string" -> StringNames
    [] type = "integer" -> IntegerNames
    [] type = "boolean" -> PredicateNames
    [] type = "step" -> StepNames
    [] type = "assertion" -> AssertionNames \cup {"CALL_FORMAT"}
    [] type = "outcome" -> ChecksumNames \cup {"CALL_CHECKSUM"}

Types == {"string", "integer", "boolean", "step", "assertion", "outcome"}

(* An operation is of the family its output names.                          *)
LEMMA OutputOf ==
  ASSUME NEW n, n.op \in Opcodes
  PROVE  opSpecs[n.op].output \in Types /\ n.op \in OutputNames(opSpecs[n.op].output)
<1>1. CASE n.op \in StringNames
  BY <1>1, StringShapes DEF Shape, OutputNames, Types
<1>2. CASE n.op \in IntegerNames
  BY <1>2, IntegerShapes DEF Shape, OutputNames, Types
<1>3. CASE n.op \in PredicateNames
  BY <1>3, PredicateShapes DEF Shape, OutputNames, Types
<1>4. CASE n.op \in StepNames
  BY <1>4, StepShapes DEF Shape, OutputNames, Types
<1>5. CASE n.op \in AssertionNames
  BY <1>5, AssertionShapes DEF Shape, OutputNames, Types
<1>6. CASE n.op \in ChecksumNames
  BY <1>6, ChecksumShapes DEF Shape, OutputNames, Types
<1>7. CASE n.op \in CallNames
  BY <1>7, CallShapes DEF Shape, OutputNames, Types, CallNames
<1> QED BY <1>1, <1>2, <1>3, <1>4, <1>5, <1>6, <1>7, OpcodesNamed

(* Whatever the family, the declared type of an operand is the one the      *)
(* emitter reads it as (CHOOSE_BRANCH apart, which reads branches).         *)
LEMMA OperandShape ==
  ASSUME NEW n, n.op \in Opcodes, n.op # "CHOOSE_BRANCH"
  PROVE  /\ \A k \in 1 .. Len(opSpecs[n.op].fixed) :
              opSpecs[n.op].fixed[k] = TypeRead(Emission!ReadAs(n, k))
         /\ opSpecs[n.op].maxRep # 0 =>
              \A k \in Nat : k > Len(opSpecs[n.op].fixed) =>
                opSpecs[n.op].repeated = TypeRead(Emission!ReadAs(n, k))
<1>1. \E output, cat : Shape(n.op, output, cat, n)
  BY StringShapes, IntegerShapes, PredicateShapes, StepShapes, AssertionShapes, ChecksumShapes,
     CallShapes, OpcodesNamed
<1> QED BY <1>1 DEF Shape

(* An operation has so many fixed operands.                                 *)
LEMMA FixedLength ==
  ASSUME NEW n, n.op \in Opcodes
  PROVE  Len(opSpecs[n.op].fixed) \in Nat
BY DEF Shape

------------------------------------------------------------------------------
(* A node that passed checks 10 to 13.                                      *)
NodePassed(p, i) == \E lengths : NodeFault(p, i, lengths) = 0

(* Each part of checks 10 to 13 held.                                       *)
LEMMA PassedNode ==
  ASSUME NEW p, NEW i, NodePassed(p, i)
  PROVE  /\ Known(p.nodes[i]) /\ checkOperands(p, i) /\ ParametersFit(p.nodes[i])
         /\ ConstantsBounded(p.nodes[i])
         /\ \E bound : OperationBounded(p.nodes[i], bound)
BY DEF NodePassed, NodeFault

------------------------------------------------------------------------------
(* The nodes the emitter writes.                                            *)

(* A nonempty set of naturals has a least element.                          *)
LEMMA LeastExists ==
  ASSUME NEW S, S \subseteq Nat, S # {}
  PROVE  \E n \in S : \A m \in S : n <= m
<1>1. PICK n \in S : \A m \in S : ~(<<m, n>> \in OpToRel(<, Nat))
  BY NatLessThanWellFounded, WFMin
<1>2. ASSUME NEW m \in S PROVE n <= m
  <2>1. m \in Nat /\ n \in Nat /\ ~(m < n)
    BY <1>1, <1>2 DEF OpToRel
  <2> QED BY <2>1
<1> QED BY <1>1, <1>2

(* What WrittenNodes adds at the node of index Len(p.nodes) + 1 - j.        *)
WrittenFrom(p, j, above) ==
  IF j = 0 THEN {}
  ELSE LET i == Len(p.nodes) + 1 - j
       IN IF \/ i \in Emission!Locals(p) \cup {p.root}
             \/ \E k \in above : i \in {o[1] : o \in Emission!Written(p, k)}
          THEN above \cup {i} ELSE above

(* The gathering of WrittenNodes over the first m nodes, as a function.     *)
Gathers(p, m, from) == from = [j \in 0 .. m |-> WrittenFrom(p, j, from[j - 1])]

(* There is such a function, by the least m without one.                    *)
LEMMA GathersExists ==
  ASSUME NEW p, NEW m \in Nat
  PROVE  \E from : Gathers(p, m, from)
<1> DEFINE Missing == {k \in Nat : ~ \E from : Gathers(p, k, from)}
<1>1. SUFFICES ASSUME Missing # {} PROVE FALSE
  OBVIOUS
<1>2. PICK k \in Missing : \A l \in Missing : k <= l
  <2>1. Missing \subseteq Nat
    OBVIOUS
  <2> HIDE DEF Missing
  <2> QED BY <1>1, <2>1, LeastExists
<1>3. CASE k = 0
  <2> DEFINE from == [j \in 0 .. 0 |-> {}]
  <2>1. \A j \in 0 .. 0 : from[j] = WrittenFrom(p, j, from[j - 1])
    BY DEF WrittenFrom
  <2>2. from = [j \in 0 .. 0 |-> from[j]]
    OBVIOUS
  <2> HIDE DEF from
  <2>3. from = [j \in 0 .. 0 |-> WrittenFrom(p, j, from[j - 1])]
    BY <2>1, <2>2
  <2> QED BY <1>3, <2>3 DEF Gathers
<1>4. CASE k # 0
  <2>1. k - 1 \in Nat /\ k - 1 \notin Missing
    BY <1>2, <1>4
  <2>2. PICK before : Gathers(p, k - 1, before)
    BY <2>1
  <2> DEFINE from == [j \in 0 .. k |-> IF j = k THEN WrittenFrom(p, k, before[k - 1]) ELSE before[j]]
  <2>3. ASSUME NEW j \in 0 .. k
        PROVE  from[j] = WrittenFrom(p, j, from[j - 1])
    <3>1. CASE j = k
      <4>1. from[k - 1] = before[k - 1]
        BY <1>4, <2>1
      <4> QED BY <3>1, <4>1
    <3>2. CASE j # k
      <4>1. j \in 0 .. k - 1
        BY <2>1, <3>2
      <4>2. before[j] = WrittenFrom(p, j, before[j - 1])
        BY <2>2, <4>1 DEF Gathers
      <4>3. CASE j = 0
        BY <3>2, <4>2, <4>3 DEF WrittenFrom
      <4>4. CASE j # 0
        <5>1. j - 1 \in 0 .. k /\ j - 1 # k
          BY <4>1, <4>4
        <5>2. from[j - 1] = before[j - 1]
          BY <5>1
        <5> QED BY <3>2, <4>2, <5>2
      <4> QED BY <4>3, <4>4
    <3> QED BY <3>1, <3>2
  <2>4. from = [j \in 0 .. k |-> from[j]]
    OBVIOUS
  <2> HIDE DEF from
  <2>5. from = [j \in 0 .. k |-> WrittenFrom(p, j, from[j - 1])]
    BY <2>3, <2>4
  <2> QED BY <2>5 DEF Gathers
<1> QED BY <1>3, <1>4

(* The nodes written are nodes of the program.                              *)
LEMMA WrittenAreNodes ==
  ASSUME NEW p, p.nodes \in Seq(ToSet(p.nodes))
  PROVE  Emission!WrittenNodes(p) \subseteq Indices(p)
<1> DEFINE n == Len(p.nodes)
           from == CHOOSE from : Gathers(p, n, from)
<1>0. n \in Nat /\ Indices(p) = 1 .. n
  BY LenProperties DEF Indices
<1>1. Gathers(p, n, from)
  BY <1>0, GathersExists
<1>2. Emission!WrittenNodes(p) = from[n]
  BY DEF Emission!WrittenNodes, Gathers, WrittenFrom
<1> HIDE DEF n, from
<1> DEFINE Outside == {j \in 0 .. n : ~(from[j] \subseteq 1 .. n)}
<1>3. Outside = {}
  <2>1. SUFFICES ASSUME Outside # {} PROVE FALSE
    OBVIOUS
  <2>2. PICK j \in Outside : \A l \in Outside : j <= l
    <3>1. Outside \subseteq Nat
      BY <1>0
    <3> HIDE DEF Outside
    <3> QED BY <2>1, <3>1, LeastExists
  <2>3. from[j] = WrittenFrom(p, j, from[j - 1])
    BY <1>1 DEF Gathers
  <2>4. CASE j = 0
    BY <2>2, <2>3, <2>4 DEF WrittenFrom
  <2>5. CASE j # 0
    <3>1. j - 1 \in 0 .. n /\ ~(j <= j - 1) /\ n + 1 - j \in 1 .. n
      BY <1>0, <2>5
    <3>2. from[j - 1] \subseteq 1 .. n
      BY <2>2, <3>1
    <3>3. from[j] \subseteq from[j - 1] \cup {n + 1 - j}
      BY <2>3, <2>5 DEF WrittenFrom, n
    <3> QED BY <2>2, <3>1, <3>2, <3>3
  <2> QED BY <2>4, <2>5
<1>4. n \in 0 .. n
  BY <1>0
<1> QED BY <1>0, <1>2, <1>3, <1>4

------------------------------------------------------------------------------
(* A program the loader let through is one the emitter has a case for.      *)

(* A program the loader let through: its decoded form, each of its nodes    *)
(* and its graph.                                                           *)
Accepted(p, isPre) ==
  /\ ProgramDecoded(p) /\ p.kind \in DOMAIN categoriesByProgramKind
  /\ \A i \in Indices(p) : NodePassed(p, i)
  /\ GraphFault(p, isPre) = 0

(* What it says of one node.                                                *)
LEMMA AcceptedNode ==
  ASSUME NEW p, NEW isPre, Accepted(p, isPre), NEW i \in Indices(p)
  PROVE  /\ p.nodes[i].op \in Opcodes
         /\ p.nodes[i].output = opSpecs[p.nodes[i].op].output
         /\ p.nodes[i].output \in Types
         /\ p.nodes[i].op \in OutputNames(p.nodes[i].output)
         /\ checkOperands(p, i) /\ checkCategory(p, i, isPre)
<1>1. NodePassed(p, i)
  BY DEF Accepted
<1>2. Known(p.nodes[i]) /\ checkOperands(p, i)
  BY <1>1, PassedNode
<1>3. p.nodes[i].op \in Opcodes /\ p.nodes[i].output = opSpecs[p.nodes[i].op].output
  BY <1>2 DEF Known
<1>4. checkCategory(p, i, isPre)
  BY DEF Accepted, GraphFault
<1> QED BY <1>2, <1>3, <1>4, OutputOf

(* What it says of the root.                                                *)
LEMMA AcceptedRoot ==
  ASSUME NEW p, NEW isPre, Accepted(p, isPre)
  PROVE  p.root \in Indices(p) /\ checkRoot(p)
BY DEF Accepted, GraphFault

(* An operand has the type it is read as, and is below what reads it.       *)
LEMMA OperandType ==
  ASSUME NEW p, NEW isPre, Accepted(p, isPre), NEW i \in Indices(p), NEW x \in DOMAIN p.nodes[i].in
  PROVE  /\ p.nodes[i].in[x] \in Indices(p) /\ p.nodes[i].in[x] < i
         /\ p.nodes[i].in[x] \in Inputs(p, i)
         /\ p.nodes[i].op # "CHOOSE_BRANCH" =>
              p.nodes[p.nodes[i].in[x]].output = TypeRead(Emission!ReadAs(p.nodes[i], x))
         /\ p.nodes[i].op = "CHOOSE_BRANCH" => p.nodes[p.nodes[i].in[x]].output = "outcome"
<1> DEFINE n == p.nodes[i]
           spec == opSpecs[n.op]
<1>1. n.op \in Opcodes /\ checkOperands(p, i)
  BY AcceptedNode
<1>2. ProgramDecoded(p) /\ NodeDecoded(n)
  BY DEF Accepted, ProgramDecoded, Indices
<1>3. n.in \in Seq(Position) /\ n.in[x] \in Position /\ x \in 1 .. Len(n.in) /\ Len(n.in) \in Nat
  BY <1>2, LenProperties, ElementOfSeq DEF NodeDecoded
<1>4. p.nodes \in Seq(ToSet(p.nodes)) /\ Indices(p) = 1 .. Len(p.nodes) /\ Len(p.nodes) \in Nat
  BY <1>2, LenProperties DEF ProgramDecoded, Indices
<1>5. n.in[x] \in Inputs(p, i)
  BY DEF Inputs
<1>6. n.in[x] < i
  BY <1>1, <1>5 DEF checkOperands
<1>7. n.in[x] \in Indices(p)
  BY <1>3, <1>4, <1>6 DEF Position
<1>8. ASSUME n.op # "CHOOSE_BRANCH"
      PROVE  p.nodes[n.in[x]].output = TypeRead(Emission!ReadAs(n, x))
  <2>1. /\ \A k \in 1 .. Len(spec.fixed) : spec.fixed[k] = TypeRead(Emission!ReadAs(n, k))
        /\ spec.maxRep # 0 =>
             \A k \in Nat : k > Len(spec.fixed) => spec.repeated = TypeRead(Emission!ReadAs(n, k))
    BY <1>1, <1>8, OperandShape
  <2>2. /\ \A k \in 1 .. Len(spec.fixed) : p.nodes[n.in[k]].output = spec.fixed[k]
        /\ \A k \in Len(spec.fixed) + 1 .. Len(n.in) : p.nodes[n.in[k]].output = spec.repeated
        /\ spec.maxRep # Unbounded => Len(n.in) - Len(spec.fixed) <= spec.maxRep
    BY <1>1 DEF checkOperands
  <2>3. Len(spec.fixed) \in Nat
    BY <1>1, FixedLength
  <2>4. CASE x \in 1 .. Len(spec.fixed)
    BY <2>1, <2>2, <2>4
  <2>5. CASE x \notin 1 .. Len(spec.fixed)
    <3>1. x \in Nat /\ x > Len(spec.fixed) /\ x \in Len(spec.fixed) + 1 .. Len(n.in)
      BY <1>3, <2>3, <2>5
    <3>2. spec.maxRep # 0
      <4>1. SUFFICES ASSUME spec.maxRep = 0 PROVE FALSE
        OBVIOUS
      <4>2. Len(n.in) - Len(spec.fixed) <= 0
        BY <2>2, <4>1 DEF Unbounded
      <4> QED BY <1>3, <2>3, <3>1, <4>2
    <3> QED BY <2>1, <2>2, <3>1, <3>2
  <2> QED BY <2>4, <2>5
<1>9. ASSUME n.op = "CHOOSE_BRANCH"
      PROVE  p.nodes[n.in[x]].output = "outcome"
  <2>1. opSpecs["CHOOSE_BRANCH"] = checksumOps["CHOOSE_BRANCH"]
    BY Lookups DEF ChecksumNames
  <2>2. checksumOps["CHOOSE_BRANCH"] = Repeating(opSpec("checksum", "outcome", <<>>, {}, {30} \cup {}), "outcome", 1, Unbounded)
    BY DEF checksumOps, Outcome, Combinator
  <2>3. spec.fixed = <<>> /\ spec.repeated = "outcome"
    BY <1>9, <2>1, <2>2, RepeatingFields
  <2>4. \A k \in Len(spec.fixed) + 1 .. Len(n.in) : p.nodes[n.in[k]].output = spec.repeated
    BY <1>1 DEF checkOperands
  <2>5. Len(spec.fixed) = 0
    BY <2>3
  <2>6. x \in Len(spec.fixed) + 1 .. Len(n.in)
    BY <1>3, <2>5
  <2> QED BY <2>3, <2>4, <2>6
<1> QED BY <1>5, <1>6, <1>7, <1>8, <1>9

(* An outcome that is no CHECKSUM_WHEN has a case.                          *)
LEMMA OutcomeHasCase ==
  ASSUME NEW p, NEW isPre, Accepted(p, isPre), NEW i \in Indices(p),
         p.nodes[i].output = "outcome", p.nodes[i].op # "CHECKSUM_WHEN"
  PROVE  p.nodes[i].op \in Emission!Cases["local"] /\ p.nodes[i].op \in Emission!Cases["check"]
<1>1. p.nodes[i].op \in ChecksumNames \cup {"CALL_CHECKSUM"}
  BY AcceptedNode DEF OutputNames
<1> QED BY <1>1 DEF ChecksumNames, Emission!Cases, Emission!checksumCases

(* An operand of some type is written by the case for this type.            *)
LEMMA TypeHasCase ==
  ASSUME NEW p, NEW isPre, Accepted(p, isPre), NEW i \in Indices(p),
         p.nodes[i].output \in {"step", "assertion", "string", "boolean", "integer"}
  PROVE  p.nodes[i].op \in Emission!Cases[p.nodes[i].output]
<1>1. p.nodes[i].op \in OutputNames(p.nodes[i].output)
  BY AcceptedNode
<1>2. CASE p.nodes[i].output = "step"
  BY <1>1, <1>2 DEF OutputNames, StepNames, Emission!Cases, Emission!stepCases
<1>3. CASE p.nodes[i].output = "assertion"
  BY <1>1, <1>3 DEF OutputNames, AssertionNames, Emission!Cases, Emission!assertionCases
<1>4. CASE p.nodes[i].output = "string"
  BY <1>1, <1>4 DEF OutputNames, StringNames, Emission!Cases, Emission!stringCases, Emission!trivial
<1>5. CASE p.nodes[i].output = "boolean"
  BY <1>1, <1>5 DEF OutputNames, PredicateNames, TestNames, Emission!Cases, Emission!predCases
<1>6. CASE p.nodes[i].output = "integer"
  BY <1>1, <1>6 DEF OutputNames, IntegerNames, Emission!Cases, Emission!intCases
<1> QED BY <1>2, <1>3, <1>4, <1>5, <1>6

(* What ReadAs can answer.                                                  *)
LEMMA ReadAsRange ==
  ASSUME NEW n, NEW x
  PROVE  Emission!ReadAs(n, x) \in {"step", "assertion", "string", "boolean", "integer", "local"}
BY DEF Emission!ReadAs

(* The branches written for a CHOOSE are operands of it.                    *)
LEMMA BranchesAreOperands ==
  ASSUME NEW p, NEW n, n.in \in Seq(Position), NEW x \in DOMAIN Emission!Branches(p, n)
  PROVE  x \in DOMAIN n.in /\ Emission!Branches(p, n)[x] = n.in[x]
<1> DEFINE plain == {k \in DOMAIN n.in : p.nodes[n.in[k]].op # "CHECKSUM_WHEN"}
           m == CHOOSE k \in plain : \A l \in plain : k =< l
<1>1. CASE plain = {}
  BY <1>1 DEF Emission!Branches
<1>2. CASE plain # {}
  <2>1. DOMAIN n.in = 1 .. Len(n.in) /\ Len(n.in) \in Nat
    BY LenProperties
  <2>2. \E k \in plain : \A l \in plain : k <= l
    <3>1. plain \subseteq Nat
      BY <2>1
    <3> HIDE DEF plain
    <3> QED BY <1>2, <3>1, LeastExists
  <2>3. m \in plain
    BY <2>2
  <2>4. Emission!Branches(p, n) = SubSeq(n.in, 1, m)
    BY <1>2 DEF Emission!Branches, Emission!Min
  <2>5. m \in 1 .. Len(n.in)
    BY <2>1, <2>3
  <2> HIDE DEF m, plain
  <2>6. Len(SubSeq(n.in, 1, m)) = m /\ SubSeq(n.in, 1, m) \in Seq(Position)
        /\ \A k \in 1 .. m : SubSeq(n.in, 1, m)[k] = n.in[k]
    BY <2>1, <2>5, SubSeqProperties
  <2>7. x \in 1 .. m
    BY <2>4, <2>6, LenProperties
  <2> QED BY <2>1, <2>4, <2>5, <2>6, <2>7
<1> QED BY <1>1, <1>2

(* Whatever is written for a node, the function that writes it has a case   *)
(* for it.                                                                  *)
LEMMA WrittenHasCase ==
  ASSUME NEW p, NEW isPre, Accepted(p, isPre), NEW k \in Indices(p), NEW o \in Emission!Written(p, k)
  PROVE  o[1] \in Indices(p) /\ p.nodes[o[1]].op \in Emission!Cases[o[2]]
<1> DEFINE n == p.nodes[k]
<1>0. n.in \in Seq(Position)
  BY DEF Accepted, ProgramDecoded, NodeDecoded, Indices
<1>1. CASE n.op = "CHOOSE_BRANCH"
  <2>1. PICK x \in DOMAIN Emission!Branches(p, n) :
          LET i == Emission!Branches(p, n)[x]
          IN o = <<i, IF p.nodes[i].op = "CHECKSUM_WHEN" THEN "branch" ELSE "local">>
    BY <1>1 DEF Emission!Written
  <2>2. x \in DOMAIN n.in /\ Emission!Branches(p, n)[x] = n.in[x]
    BY <1>0, <2>1, BranchesAreOperands
  <2>3. o = <<n.in[x], IF p.nodes[n.in[x]].op = "CHECKSUM_WHEN" THEN "branch" ELSE "local">>
    BY <2>1, <2>2
  <2>4. n.in[x] \in Indices(p) /\ p.nodes[n.in[x]].output = "outcome"
    BY <1>1, <2>2, OperandType
  <2>5. CASE p.nodes[n.in[x]].op = "CHECKSUM_WHEN"
    BY <2>3, <2>4, <2>5 DEF Emission!Cases
  <2>6. CASE p.nodes[n.in[x]].op # "CHECKSUM_WHEN"
    BY <2>3, <2>4, <2>6, OutcomeHasCase
  <2> QED BY <2>5, <2>6
<1>2. CASE n.op # "CHOOSE_BRANCH"
  <2>1. PICK x \in DOMAIN n.in : o = <<n.in[x], Emission!ReadAs(n, x)>>
    BY <1>2 DEF Emission!Written
  <2>2. /\ n.in[x] \in Indices(p) /\ n.in[x] \in Inputs(p, k)
        /\ p.nodes[n.in[x]].output = TypeRead(Emission!ReadAs(n, x))
    BY <1>2, <2>1, OperandType
  <2>3. CASE Emission!ReadAs(n, x) = "local"
    <3>1. p.nodes[n.in[x]].output = "outcome"
      BY <2>2, <2>3 DEF TypeRead
    <3>2. p.nodes[n.in[x]].op # "CHECKSUM_WHEN"
      <4>1. checkCategory(p, n.in[x], isPre)
        BY <2>2, AcceptedNode
      <4>2. k \in Consumers(p, n.in[x])
        BY <2>2 DEF Consumers
      <4> QED BY <1>2, <4>1, <4>2 DEF checkCategory, WhenBelongs
    <3> QED BY <2>1, <2>2, <2>3, <3>1, <3>2, OutcomeHasCase
  <2>4. CASE Emission!ReadAs(n, x) # "local"
    <3>1. Emission!ReadAs(n, x) \in {"step", "assertion", "string", "boolean", "integer"}
      BY <2>4, ReadAsRange
    <3>2. p.nodes[n.in[x]].output = Emission!ReadAs(n, x)
      BY <2>2, <3>1 DEF TypeRead
    <3> QED BY <2>1, <2>2, <3>1, <3>2, TypeHasCase
  <2> QED BY <2>3, <2>4
<1> QED BY <1>1, <1>2

(* The generator has a case for every node of a program the loader took.    *)
LEMMA AcceptedIsEmittable ==
  ASSUME NEW p, NEW isPre, Accepted(p, isPre)
  PROVE  Emission!Emittable(p)
<1>1. ASSUME NEW i \in Indices(p), NEW as \in Emission!ReadBy(p)[i]
      PROVE  p.nodes[i].op \in Emission!Cases[as]
  <2>1. \/ \E k \in Emission!WrittenNodes(p) : <<i, as>> \in Emission!Written(p, k)
        \/ i = p.root /\ as = Emission!RootAs[p.kind]
    <3> DEFINE reads == (UNION {Emission!Written(p, k) : k \in Emission!WrittenNodes(p)})
                          \cup {<<p.root, Emission!RootAs[p.kind]>>}
    <3>1. PICK o \in reads : o[1] = i /\ as = o[2]
      BY <1>1 DEF Emission!ReadBy, Indices
    <3>2. CASE o = <<p.root, Emission!RootAs[p.kind]>>
      BY <3>1, <3>2
    <3>3. CASE \E k \in Emission!WrittenNodes(p) : o \in Emission!Written(p, k)
      <4>1. PICK k \in Emission!WrittenNodes(p) : o \in Emission!Written(p, k)
        BY <3>3
      <4>2. PICK in, x, way : o = <<in[x], way>>
        BY <4>1 DEF Emission!Written
      <4>3. o = <<o[1], o[2]>>
        BY <4>2
      <4> QED BY <3>1, <4>1, <4>3
    <3>4. o \in UNION {Emission!Written(p, k) : k \in Emission!WrittenNodes(p)} =>
            \E k \in Emission!WrittenNodes(p) : o \in Emission!Written(p, k)
      OBVIOUS
    <3>5. \/ o = <<p.root, Emission!RootAs[p.kind]>>
          \/ o \in UNION {Emission!Written(p, k) : k \in Emission!WrittenNodes(p)}
      BY <3>1
    <3> QED BY <3>2, <3>3, <3>4, <3>5
  <2>2. CASE \E k \in Emission!WrittenNodes(p) : <<i, as>> \in Emission!Written(p, k)
    <3>1. PICK k \in Emission!WrittenNodes(p) : <<i, as>> \in Emission!Written(p, k)
      BY <2>2
    <3>2. k \in Indices(p)
      BY <3>1, WrittenAreNodes DEF Accepted, ProgramDecoded
    <3>3. p.nodes[<<i, as>>[1]].op \in Emission!Cases[<<i, as>>[2]]
      BY <3>1, <3>2, WrittenHasCase
    <3> QED BY <3>3
  <2>3. CASE i = p.root /\ as = Emission!RootAs[p.kind]
    <3>1. checkRoot(p) /\ p.kind \in {"canonicalization", "format", "checksum"}
      BY AcceptedRoot DEF Accepted, categoriesByProgramKind
    <3>2. CASE p.kind = "canonicalization"
      BY <2>3, <3>1, <3>2 DEF checkRoot, Emission!RootAs, Emission!Cases, Emission!stepCases
    <3>3. CASE p.kind = "format"
      BY <2>3, <3>1, <3>3 DEF checkRoot, Emission!RootAs, Emission!Cases, Emission!assertionCases
    <3>4. CASE p.kind = "checksum"
      <4>1. p.nodes[i].output = "outcome" /\ p.nodes[i].op # "CHECKSUM_WHEN" /\ as = "local"
        BY <2>3, <3>1, <3>4 DEF checkRoot, Emission!RootAs
      <4> QED BY <4>1, OutcomeHasCase
    <3> QED BY <3>1, <3>2, <3>3, <3>4
  <2> QED BY <2>1, <2>2, <2>3
<1>2. ASSUME NEW i \in Indices(p), i \in Emission!Checks(p)
      PROVE  p.nodes[i].op \in Emission!Cases["check"]
  <2>1. p.nodes[i].output = "outcome" /\ p.nodes[i].op # "CHECKSUM_WHEN"
    BY <1>2 DEF Emission!Checks, Emission!IsCheck
  <2> QED BY <2>1, OutcomeHasCase
<1>3. ASSUME NEW i \in Indices(p), i \in Emission!Hoisted(p)
      PROVE  p.nodes[i].op \in Emission!Cases[p.nodes[i].output]
  BY <1>3, TypeHasCase DEF Emission!Hoisted
<1> QED BY <1>1, <1>2, <1>3 DEF Emission!Emittable, Indices

------------------------------------------------------------------------------
(* The inductive invariant of the loader.                                   *)

(* The stages of the loader after each check.                               *)
AfterOwners == {"calls", "features", "accepted"}
AfterDispatchers == {"owners"} \cup AfterOwners
AfterIdentifiers == {"dispatchers"} \cup AfterDispatchers
AfterNodes == {"identifiers"} \cup AfterIdentifiers
AfterPrograms == {"nodes"} \cup AfterNodes

(* What the loader has checked when it reaches a place.                     *)
HeaderPassed(k) == ProgramFault(bundle, k, MaxNodesPerProgram, MaxTotalNodes) = 0

(* A program passed its node and graph checks.                              *)
ProgramPassed(k) ==
  LET p == bundle.programs[k]
  IN /\ \A i \in Indices(p) : NodePassed(p, i)
     /\ GraphFault(p, p.id \in preCanonicalizers(bundle)) = 0

(* The check of a stage was made of its k-th element.                       *)
Passed(stage, after, k) == phase \in after \/ (phase = stage /\ k < at)

(* Each element a stage is done with passed its check.                      *)
HeadersPassed ==
  \A k \in DOMAIN bundle.programs : Passed("programs", AfterPrograms, k) => HeaderPassed(k)
ProgramsPassed ==
  \A k \in DOMAIN bundle.programs : Passed("nodes", AfterNodes, k) => ProgramPassed(k)
NodesPassed ==
  phase = "nodes" /\ at \in DOMAIN bundle.programs =>
    \A i \in Indices(Current) : i < node => NodePassed(Current, i)
IdentifiersPassed ==
  \A k \in DOMAIN bundle.identifiers :
    Passed("identifiers", AfterIdentifiers, k) => IdentifierFault(bundle, k) = 0
DispatchersPassed ==
  \A k \in DOMAIN bundle.dispatchers :
    Passed("dispatchers", AfterDispatchers, k) => DispatcherFault(bundle, k) = 0

(* The invariant: the bundle is one the decoder gives, and whatever a       *)
(* stage is done with has passed. Of the checks on the whole bundle the     *)
(* last two are kept too.                                                   *)
LoadInv ==
  /\ BundleDecoded(bundle) /\ phase \in Phases /\ at \in Position /\ node \in Position
  /\ HeadersPassed /\ ProgramsPassed /\ NodesPassed /\ IdentifiersPassed /\ DispatchersPassed
  /\ phase \in AfterOwners => Owned(bundle)
  /\ phase \in {"features", "accepted"} => CallsAllowed(bundle)

(* Nothing has been checked of a decoded bundle.                            *)
LEMMA InitLoad == Init => LoadInv
BY BundlesAssumption DEF Init, LoadInv, HeadersPassed, ProgramsPassed, NodesPassed, IdentifiersPassed,
   DispatchersPassed, Passed, AfterPrograms, AfterNodes, AfterIdentifiers, AfterDispatchers,
   AfterOwners, Phases, Verdicts, Position

(* The parts of a bundle are numbered from 1.                               *)
LEMMA BundleShape ==
  ASSUME BundleDecoded(bundle)
  PROVE  /\ Len(bundle.programs) \in Nat /\ DOMAIN bundle.programs = 1 .. Len(bundle.programs)
         /\ Len(bundle.identifiers) \in Nat /\ DOMAIN bundle.identifiers = 1 .. Len(bundle.identifiers)
         /\ Len(bundle.dispatchers) \in Nat /\ DOMAIN bundle.dispatchers = 1 .. Len(bundle.dispatchers)
BY LenProperties DEF BundleDecoded

(* The stages come one after another.                                       *)
LEMMA AfterStages ==
  /\ phase \in {"nodes", "identifiers", "dispatchers", "owners", "calls", "features", "accepted"} =>
       phase \in AfterPrograms
  /\ phase \in {"identifiers", "dispatchers", "owners", "calls", "features", "accepted"} =>
       phase \in AfterNodes
  /\ phase \in {"dispatchers", "owners", "calls", "features", "accepted"} =>
       phase \in AfterIdentifiers
  /\ phase \in {"owners", "calls", "features", "accepted"} => phase \in AfterDispatchers
BY DEF AfterPrograms, AfterNodes, AfterIdentifiers, AfterDispatchers, AfterOwners

(* What is known once a stage is over.                                      *)
LEMMA StagesPassed ==
  ASSUME LoadInv
  PROVE  /\ phase \in AfterPrograms => \A k \in DOMAIN bundle.programs : HeaderPassed(k)
         /\ phase \in AfterNodes => \A k \in DOMAIN bundle.programs : ProgramPassed(k)
         /\ phase \in AfterIdentifiers =>
              \A k \in DOMAIN bundle.identifiers : IdentifierFault(bundle, k) = 0
         /\ phase \in AfterDispatchers =>
              \A k \in DOMAIN bundle.dispatchers : DispatcherFault(bundle, k) = 0
<1>1. HeadersPassed /\ ProgramsPassed /\ IdentifiersPassed /\ DispatchersPassed
  BY DEF LoadInv
<1>2. ASSUME phase \in AfterPrograms PROVE \A k \in DOMAIN bundle.programs : HeaderPassed(k)
  BY <1>1, <1>2 DEF HeadersPassed, Passed
<1>3. ASSUME phase \in AfterNodes PROVE \A k \in DOMAIN bundle.programs : ProgramPassed(k)
  BY <1>1, <1>3 DEF ProgramsPassed, Passed
<1>4. ASSUME phase \in AfterIdentifiers
      PROVE  \A k \in DOMAIN bundle.identifiers : IdentifierFault(bundle, k) = 0
  BY <1>1, <1>4 DEF IdentifiersPassed, Passed
<1>5. ASSUME phase \in AfterDispatchers
      PROVE  \A k \in DOMAIN bundle.dispatchers : DispatcherFault(bundle, k) = 0
  BY <1>1, <1>5 DEF DispatchersPassed, Passed
<1> QED BY <1>2, <1>3, <1>4, <1>5

(* A refusal leaves nothing to keep.                                        *)
LEMMA RefusalLoads ==
  ASSUME LoadInv, phase' = "refused", UNCHANGED <<bundle, at, node>>
  PROVE  LoadInv'
BY DEF LoadInv, HeadersPassed, ProgramsPassed, NodesPassed, IdentifiersPassed,
   DispatchersPassed, Passed, AfterPrograms, AfterNodes, AfterIdentifiers, AfterDispatchers,
   AfterOwners, Phases, Verdicts

(* One lemma for each step of the loader: what it let through it has        *)
(* checked, and nothing it had checked is lost.                             *)
LEMMA HeaderLoads == ASSUME LoadInv, CheckHeader PROVE LoadInv'
<1>1. CASE phase' = "refused" /\ UNCHANGED <<bundle, at, node>>
  BY <1>1, RefusalLoads
<1>2. CASE phase = "header" /\ Enter("programs")
  <2>1. \A k \in DOMAIN bundle.programs : ~(k < 1)
    BY BundleShape DEF LoadInv
  <2> QED BY <1>2, <2>1 DEF LoadInv, Enter, HeadersPassed, ProgramsPassed, NodesPassed, IdentifiersPassed,
     DispatchersPassed, Passed, AfterPrograms, AfterNodes, AfterIdentifiers, AfterDispatchers,
     AfterOwners, Phases, Verdicts, Position
<1> QED BY <1>1, <1>2 DEF CheckHeader, Refuse

LEMMA ProgramHeaderLoads == ASSUME LoadInv, CheckProgramHeader PROVE LoadInv'
<1> USE DEF AfterPrograms, AfterNodes, AfterIdentifiers, AfterDispatchers, AfterOwners, Phases, Verdicts, Position
<1>0. BundleDecoded(bundle) /\ at \in Nat /\ at # 0 /\ phase = "programs"
  BY DEF LoadInv, CheckProgramHeader
<1>1. CASE at > Len(bundle.programs)
  <2>1. Enter("nodes")
    BY <1>1 DEF CheckProgramHeader
  <2>2. \A k \in DOMAIN bundle.programs : HeaderPassed(k)
    BY <1>0, <1>1, BundleShape DEF LoadInv, HeadersPassed, Passed
  <2>3. \A k \in DOMAIN bundle.programs : ~(k < 1)
    BY <1>0, BundleShape
  <2>4. phase' = "nodes" /\ at' = 1 /\ node' = 1 /\ bundle' = bundle
    BY <2>1 DEF Enter
  <2>5. NodesPassed'
    <3>1. ~(\E i \in Nat \ {0} : i < 1)
      OBVIOUS
    <3>2. 1 \in DOMAIN bundle.programs => \A i \in Indices(bundle.programs[1]) : i \in Nat \ {0}
      <4>1. SUFFICES ASSUME 1 \in DOMAIN bundle.programs
                     PROVE  \A i \in Indices(bundle.programs[1]) : i \in Nat \ {0}
        OBVIOUS
      <4>2. bundle.programs[1].nodes \in Seq(ToSet(bundle.programs[1].nodes))
        BY <1>0, <4>1 DEF BundleDecoded, ProgramDecoded
      <4> QED BY <4>2, LenProperties DEF Indices
    <3> QED BY <2>4, <3>1, <3>2 DEF NodesPassed, Current
  <2> QED BY <2>2, <2>3, <2>4, <2>5 DEF LoadInv, HeadersPassed, ProgramsPassed, IdentifiersPassed,
             DispatchersPassed, Passed, HeaderPassed, ProgramPassed
<1>2. CASE at <= Len(bundle.programs) /\ ProgramFault(bundle, at, MaxNodesPerProgram, MaxTotalNodes) # 0
  <2>1. phase' = "refused" /\ UNCHANGED <<bundle, at, node>>
    BY <1>0, <1>2, BundleShape DEF CheckProgramHeader, Refuse
  <2> QED BY <2>1, RefusalLoads
<1>3. CASE at <= Len(bundle.programs) /\ ProgramFault(bundle, at, MaxNodesPerProgram, MaxTotalNodes) = 0
  <2>1. at' = at + 1 /\ UNCHANGED <<bundle, phase, node>>
    BY <1>0, <1>3, BundleShape DEF CheckProgramHeader
  <2>2. \A k \in DOMAIN bundle.programs : k < at + 1 => HeaderPassed(k)
    <3>1. \A k \in DOMAIN bundle.programs : k < at => HeaderPassed(k)
      BY <1>0 DEF LoadInv, HeadersPassed, Passed
    <3>2. HeaderPassed(at)
      BY <1>3 DEF HeaderPassed
    <3> QED BY <1>0, <3>1, <3>2, BundleShape
  <2> QED BY <1>0, <2>1, <2>2 DEF LoadInv, HeadersPassed, ProgramsPassed, NodesPassed, IdentifiersPassed,
             DispatchersPassed, Passed, HeaderPassed, ProgramPassed
<1> QED BY <1>0, <1>1, <1>2, <1>3, BundleShape

LEMMA NodeLoads == ASSUME LoadInv, CheckNode PROVE LoadInv'
<1>1. CASE NodeFault(Current, node, bounds) # 0
  <2>1. phase' = "refused" /\ UNCHANGED <<bundle, at, node>>
    BY <1>1 DEF CheckNode, Refuse
  <2> QED BY <2>1, RefusalLoads
<1>2. CASE NodeFault(Current, node, bounds) = 0
  <2>1. node' = node + 1 /\ phase = "nodes" /\ UNCHANGED <<bundle, phase, at>>
    BY <1>2 DEF CheckNode
  <2>2. /\ BundleDecoded(bundle) /\ node \in Nat \ {0} /\ at \in Position /\ NodesPassed
    BY DEF LoadInv, Position
  <2>3. ASSUME at \in DOMAIN bundle.programs, NEW i \in Indices(Current), i < node + 1
        PROVE  NodePassed(Current, i)
    <3>1. NodePassed(Current, node)
      BY <1>2 DEF NodePassed
    <3>2. ProgramDecoded(bundle.programs[at])
      BY <2>2, <2>3 DEF BundleDecoded
    <3>3. i \in Nat
      BY <3>2, LenProperties DEF ProgramDecoded, Indices, Current
    <3>4. i < node => NodePassed(Current, i)
      BY <2>1, <2>2, <2>3 DEF NodesPassed
    <3> QED BY <2>2, <2>3, <3>1, <3>3, <3>4
  <2>4. NodesPassed'
    BY <2>1, <2>3 DEF NodesPassed, Current
  <2>5. node + 1 \in Position
    BY <2>2 DEF Position
  <2> QED BY <2>1, <2>4, <2>5 DEF LoadInv, HeadersPassed, ProgramsPassed, IdentifiersPassed,
             DispatchersPassed, Passed, HeaderPassed, ProgramPassed
<1> QED BY <1>1, <1>2

(* The node after the last one is one past the number of nodes.             *)
LEMMA NodesAreCounted ==
  ASSUME BundleDecoded(bundle), NEW k \in DOMAIN bundle.programs
  PROVE  /\ Indices(bundle.programs[k]) = 1 .. Len(bundle.programs[k].nodes)
         /\ Len(bundle.programs[k].nodes) \in Nat
<1>1. bundle.programs[k].nodes \in Seq(ToSet(bundle.programs[k].nodes))
  BY DEF BundleDecoded, ProgramDecoded
<1> QED BY <1>1, LenProperties DEF Indices

LEMMA GraphLoads == ASSUME LoadInv, CheckGraph PROVE LoadInv'
<1> DEFINE check == GraphFault(Current, Current.id \in preCanonicalizers(bundle))
<1>0. /\ BundleDecoded(bundle) /\ node \in Position /\ at \in Nat \ {0} /\ NodesPassed
      /\ phase = "nodes" /\ at \in DOMAIN bundle.programs /\ node > Len(Current.nodes)
  BY BundleShape DEF LoadInv, CheckGraph, Position
<1>1. CASE check # 0
  <2>1. phase' = "refused" /\ UNCHANGED <<bundle, at, node>>
    BY <1>1 DEF CheckGraph, Refuse
  <2> QED BY <2>1, RefusalLoads
<1>2. CASE check = 0
  <2>1. at' = at + 1 /\ node' = 1 /\ UNCHANGED <<bundle, phase>>
    BY <1>2 DEF CheckGraph
  <2>2. ProgramPassed(at)
    <3>1. \A i \in Indices(Current) : i < node
      BY <1>0, NodesAreCounted DEF Current, Position
    <3> QED BY <1>0, <1>2, <3>1 DEF ProgramPassed, NodesPassed, Current
  <2>3. \A k \in DOMAIN bundle.programs : k < at + 1 => ProgramPassed(k)
    <3>1. \A k \in DOMAIN bundle.programs : k < at => ProgramPassed(k)
      BY <1>0 DEF LoadInv, ProgramsPassed, Passed
    <3> QED BY <1>0, <2>2, <3>1, BundleShape
  <2>4. NodesPassed'
    <3>1. \A k \in DOMAIN bundle.programs : \A i \in Indices(bundle.programs[k]) : ~(i < 1)
      BY <1>0, NodesAreCounted
    <3> QED BY <2>1, <3>1 DEF NodesPassed, Current
  <2>5. at + 1 \in Position /\ 1 \in Position
    BY <1>0 DEF Position
  <2>6. HeadersPassed'
    BY <1>0, <2>1, AfterStages, StagesPassed DEF HeadersPassed, HeaderPassed
  <2>8. IdentifiersPassed' /\ DispatchersPassed'
    BY <1>0, <2>1 DEF IdentifiersPassed, DispatchersPassed, Passed,
       AfterIdentifiers, AfterDispatchers, AfterOwners
  <2>7. ProgramsPassed'
    BY <1>0, <2>1, <2>3 DEF ProgramsPassed, Passed, ProgramPassed, AfterNodes, AfterIdentifiers,
       AfterDispatchers, AfterOwners
  <2> QED BY <1>0, <2>1, <2>4, <2>5, <2>6, <2>7, <2>8 DEF LoadInv, AfterOwners
<1> QED BY <1>1, <1>2

LEMMA ProgramsLoad == ASSUME LoadInv, ProgramsChecked PROVE LoadInv'
<1> USE DEF AfterPrograms, AfterNodes, AfterIdentifiers, AfterDispatchers, AfterOwners, Phases, Verdicts, Position
<1>1. CASE phase' = "refused" /\ UNCHANGED <<bundle, at, node>>
  BY <1>1, RefusalLoads
<1>2. CASE Enter("identifiers")
  <2>1. /\ BundleDecoded(bundle) /\ at \in Nat \ {0} /\ phase = "nodes"
        /\ at > Len(bundle.programs)
    BY DEF LoadInv, ProgramsChecked
  <2>2. \A k \in DOMAIN bundle.programs : k < at
    BY <2>1, BundleShape
  <2>3. \A k \in DOMAIN bundle.programs : ProgramPassed(k) /\ HeaderPassed(k)
    BY <2>1, <2>2 DEF LoadInv, ProgramsPassed, HeadersPassed, Passed
  <2>4. \A k \in DOMAIN bundle.identifiers : ~(k < 1)
    BY <2>1, BundleShape
  <2>5. phase' = "identifiers" /\ at' = 1 /\ node' = 1 /\ bundle' = bundle
    BY <1>2 DEF Enter
  <2>6. HeadersPassed' /\ ProgramsPassed' /\ NodesPassed'
    BY <2>3, <2>5 DEF HeadersPassed, ProgramsPassed, NodesPassed, HeaderPassed, ProgramPassed
  <2>7. IdentifiersPassed' /\ DispatchersPassed'
    BY <2>4, <2>5 DEF IdentifiersPassed, DispatchersPassed, Passed
  <2> QED BY <2>1, <2>5, <2>6, <2>7 DEF LoadInv
<1> QED BY <1>1, <1>2 DEF ProgramsChecked, Refuse

LEMMA IdentifierLoads == ASSUME LoadInv, CheckIdentifier PROVE LoadInv'
<1> USE DEF AfterPrograms, AfterNodes, AfterIdentifiers, AfterDispatchers, AfterOwners, Phases, Verdicts, Position
<1>0. BundleDecoded(bundle) /\ at \in Nat \ {0} /\ phase = "identifiers"
  BY DEF LoadInv, CheckIdentifier
<1>1. \A k \in DOMAIN bundle.identifiers : k < at => IdentifierFault(bundle, k) = 0
  BY <1>0 DEF LoadInv, IdentifiersPassed, Passed
<1>2. \A k \in DOMAIN bundle.programs : ProgramPassed(k) /\ HeaderPassed(k)
  BY <1>0, AfterStages, StagesPassed
<1>3. CASE at > Len(bundle.identifiers)
  <2>1. phase' = "dispatchers" /\ at' = 1 /\ node' = 1 /\ bundle' = bundle
    BY <1>3 DEF CheckIdentifier, Enter
  <2>2. \A k \in DOMAIN bundle.identifiers : IdentifierFault(bundle, k) = 0
    BY <1>0, <1>1, <1>3, BundleShape
  <2>3. \A k \in DOMAIN bundle.dispatchers : ~(k < 1)
    BY <1>0, BundleShape
  <2>4. HeadersPassed' /\ ProgramsPassed' /\ NodesPassed'
    BY <1>2, <2>1 DEF HeadersPassed, ProgramsPassed, NodesPassed, HeaderPassed, ProgramPassed
  <2>5. IdentifiersPassed' /\ DispatchersPassed'
    BY <2>1, <2>2, <2>3 DEF IdentifiersPassed, DispatchersPassed, Passed
  <2> QED BY <1>0, <2>1, <2>4, <2>5 DEF LoadInv
<1>4. CASE ~(at > Len(bundle.identifiers)) /\ IdentifierFault(bundle, at) # 0
  <2>1. phase' = "refused" /\ UNCHANGED <<bundle, at, node>>
    BY <1>4 DEF CheckIdentifier, Refuse
  <2> QED BY <2>1, RefusalLoads
<1>5. CASE ~(at > Len(bundle.identifiers)) /\ IdentifierFault(bundle, at) = 0
  <2>1. at' = at + 1 /\ UNCHANGED <<bundle, phase, node>>
    BY <1>5 DEF CheckIdentifier
  <2>2. \A k \in DOMAIN bundle.identifiers : k < at + 1 => IdentifierFault(bundle, k) = 0
    BY <1>0, <1>1, <1>5, BundleShape
  <2>3. HeadersPassed' /\ ProgramsPassed' /\ NodesPassed'
    BY <1>0, <1>2, <2>1 DEF HeadersPassed, ProgramsPassed, NodesPassed, HeaderPassed, ProgramPassed
  <2>4. IdentifiersPassed' /\ DispatchersPassed'
    BY <1>0, <2>1, <2>2 DEF IdentifiersPassed, DispatchersPassed, Passed
  <2> QED BY <1>0, <2>1, <2>3, <2>4 DEF LoadInv
<1> QED BY <1>3, <1>4, <1>5

LEMMA DispatcherLoads == ASSUME LoadInv, CheckDispatcher PROVE LoadInv'
<1> USE DEF AfterPrograms, AfterNodes, AfterIdentifiers, AfterDispatchers, AfterOwners, Phases, Verdicts, Position
<1>0. BundleDecoded(bundle) /\ at \in Nat \ {0} /\ phase = "dispatchers"
  BY DEF LoadInv, CheckDispatcher
<1>1. \A k \in DOMAIN bundle.dispatchers : k < at => DispatcherFault(bundle, k) = 0
  BY <1>0 DEF LoadInv, DispatchersPassed, Passed
<1>2. \A k \in DOMAIN bundle.programs : ProgramPassed(k) /\ HeaderPassed(k)
  BY <1>0, AfterStages, StagesPassed
<1>3. \A k \in DOMAIN bundle.identifiers : IdentifierFault(bundle, k) = 0
  BY <1>0, AfterStages, StagesPassed
<1>4. CASE at > Len(bundle.dispatchers)
  <2>1. phase' = "owners" /\ at' = 1 /\ node' = 1 /\ bundle' = bundle
    BY <1>4 DEF CheckDispatcher, Enter
  <2>2. \A k \in DOMAIN bundle.dispatchers : DispatcherFault(bundle, k) = 0
    BY <1>0, <1>1, <1>4, BundleShape
  <2>3. HeadersPassed' /\ ProgramsPassed' /\ NodesPassed'
    BY <1>2, <2>1 DEF HeadersPassed, ProgramsPassed, NodesPassed, HeaderPassed, ProgramPassed
  <2>4. IdentifiersPassed' /\ DispatchersPassed'
    BY <1>3, <2>1, <2>2 DEF IdentifiersPassed, DispatchersPassed
  <2> QED BY <1>0, <2>1, <2>3, <2>4 DEF LoadInv
<1>5. CASE ~(at > Len(bundle.dispatchers)) /\ DispatcherFault(bundle, at) # 0
  <2>1. phase' = "refused" /\ UNCHANGED <<bundle, at, node>>
    BY <1>5 DEF CheckDispatcher, Refuse
  <2> QED BY <2>1, RefusalLoads
<1>6. CASE ~(at > Len(bundle.dispatchers)) /\ DispatcherFault(bundle, at) = 0
  <2>1. at' = at + 1 /\ UNCHANGED <<bundle, phase, node>>
    BY <1>6 DEF CheckDispatcher
  <2>2. \A k \in DOMAIN bundle.dispatchers : k < at + 1 => DispatcherFault(bundle, k) = 0
    BY <1>0, <1>1, <1>6, BundleShape
  <2>3. HeadersPassed' /\ ProgramsPassed' /\ NodesPassed'
    BY <1>0, <1>2, <2>1 DEF HeadersPassed, ProgramsPassed, NodesPassed, HeaderPassed, ProgramPassed
  <2>4. IdentifiersPassed' /\ DispatchersPassed'
    BY <1>0, <1>3, <2>1, <2>2 DEF IdentifiersPassed, DispatchersPassed, Passed
  <2> QED BY <1>0, <2>1, <2>3, <2>4 DEF LoadInv
<1> QED BY <1>4, <1>5, <1>6

(* The checks of the whole bundle.                                          *)
LEMMA WholeLoads ==
  ASSUME LoadInv, CheckOwners \/ CheckCalls \/ CheckFeatures
  PROVE  LoadInv'
<1> USE DEF AfterPrograms, AfterNodes, AfterIdentifiers, AfterDispatchers, AfterOwners, Phases, Verdicts, Position
<1>1. CASE phase' = "refused" /\ UNCHANGED <<bundle, at, node>>
  BY <1>1, RefusalLoads
<1>2. CASE \/ phase = "owners" /\ Enter("calls") /\ Owned(bundle)
           \/ phase = "calls" /\ Enter("features") /\ CallsAllowed(bundle)
           \/ phase = "features" /\ Enter("accepted")
  <2>1. \A k \in DOMAIN bundle.programs : ProgramPassed(k) /\ HeaderPassed(k)
    BY <1>2, AfterStages, StagesPassed
  <2>2. \A k \in DOMAIN bundle.identifiers : IdentifierFault(bundle, k) = 0
    BY <1>2, AfterStages, StagesPassed
  <2>3. \A k \in DOMAIN bundle.dispatchers : DispatcherFault(bundle, k) = 0
    BY <1>2, AfterStages, StagesPassed
  <2>4. /\ phase' \in {"calls", "features", "accepted"} /\ at' = 1 /\ node' = 1 /\ bundle' = bundle
        /\ Owned(bundle) /\ (phase' # "calls" => CallsAllowed(bundle))
    BY <1>2 DEF LoadInv, Enter
  <2>5. HeadersPassed' /\ ProgramsPassed' /\ NodesPassed'
    BY <2>1, <2>4 DEF HeadersPassed, ProgramsPassed, NodesPassed, HeaderPassed, ProgramPassed
  <2>6. IdentifiersPassed' /\ DispatchersPassed'
    BY <2>2, <2>3, <2>4 DEF IdentifiersPassed, DispatchersPassed
  <2>7. BundleDecoded(bundle)
    BY DEF LoadInv
  <2> QED BY <2>4, <2>5, <2>6, <2>7 DEF LoadInv
<1> QED BY <1>1, <1>2 DEF CheckOwners, CheckCalls, CheckFeatures, Refuse

(* The steps together.                                                      *)
LEMMA LoadStep == LoadInv /\ [Next]_vars => LoadInv'
<1> SUFFICES ASSUME LoadInv, [Next]_vars PROVE LoadInv'
  OBVIOUS
<1>1. CASE UNCHANGED vars
  BY <1>1 DEF vars, LoadInv, HeadersPassed, ProgramsPassed, NodesPassed, IdentifiersPassed,
     DispatchersPassed, Passed, HeaderPassed, ProgramPassed, Current
<1> QED
  BY <1>1, HeaderLoads, ProgramHeaderLoads, NodeLoads, GraphLoads, ProgramsLoad, IdentifierLoads,
     DispatcherLoads, WholeLoads DEF Next

(* In every reachable state, whatever the loader is done with has passed    *)
(* its checks: load.go never goes on to the next element with a fault       *)
(* behind it.                                                               *)
THEOREM LoadInvariance == GenerationSpec => []LoadInv
<1>1. GenerationInit => LoadInv
  BY InitLoad DEF GenerationInit
<1>2. LoadInv /\ [Generate]_<<vars, generator>> => LoadInv'
  <2>1. Generate => [Next]_vars
    BY DEF Generate, Load, EmitDefinitions, EmitDispatch, EmitCanonicalizers, RefuseGrowth, EmitFormats,
       EmitChecksums, EmitTables, EmitRules, Emit, vars
  <2> QED BY <2>1, LoadStep DEF vars
<1> QED BY <1>1, <1>2, PTL DEF GenerationSpec

------------------------------------------------------------------------------
(* What the loader accepts, no pass of the generator panics on.             *)

(* Every program of a bundle is accepted once its graphs are checked.       *)
LEMMA ProgramsAreAccepted ==
  ASSUME LoadInv, phase \in AfterNodes, NEW k \in DOMAIN bundle.programs
  PROVE  Accepted(bundle.programs[k], bundle.programs[k].id \in preCanonicalizers(bundle))
<1>1. phase \in AfterPrograms
  BY DEF AfterPrograms
<1>2. ProgramPassed(k) /\ HeaderPassed(k)
  BY <1>1, StagesPassed
<1>3. ProgramDecoded(bundle.programs[k])
  BY DEF LoadInv, BundleDecoded
<1>4. bundle.programs[k].kind \in DOMAIN categoriesByProgramKind
  BY <1>2 DEF HeaderPassed, ProgramFault
<1> QED BY <1>2, <1>3, <1>4 DEF Accepted, ProgramPassed

(* Looking a program up by an ID some program of the bundle has.            *)
LEMMA ProgramFound ==
  ASSUME NEW id, NEW kind, IsProgram(bundle, id, kind)
  PROVE  \E k \in DOMAIN bundle.programs :
           Program(bundle, id) = bundle.programs[k] /\ bundle.programs[k].id = id
<1>1. ByID(bundle, id) # {}
  BY DEF IsProgram
<1>2. (CHOOSE k \in ByID(bundle, id) : TRUE) \in ByID(bundle, id)
  BY <1>1
<1> QED BY <1>2 DEF Program, ByID

(* So is the program a definition or a dispatcher names.                    *)
LEMMA FoundIsAccepted ==
  ASSUME LoadInv, phase \in AfterNodes, NEW id, NEW kind, IsProgram(bundle, id, kind)
  PROVE  Accepted(Program(bundle, id), id \in preCanonicalizers(bundle))
<1>1. PICK k \in DOMAIN bundle.programs :
        Program(bundle, id) = bundle.programs[k] /\ bundle.programs[k].id = id
  BY ProgramFound
<1> QED BY <1>1, ProgramsAreAccepted

(* What an accepted bundle satisfies, check by check.                       *)
LEMMA AcceptedBundle ==
  ASSUME LoadInv, phase = "accepted"
  PROVE  /\ BundleDecoded(bundle) /\ phase \in AfterNodes
         /\ \A k \in DOMAIN bundle.identifiers :
              IdentifierFormed(bundle, k) /\ ChecksumDeclared(bundle, bundle.identifiers[k])
         /\ \A k \in DOMAIN bundle.dispatchers :
              /\ KindsClaimed(bundle, k) /\ TargetsFormed(bundle.dispatchers[k])
              /\ CountryAliasesFormed(bundle.dispatchers[k])
         /\ Owned(bundle) /\ CallsAllowed(bundle)
<1>1. phase \in AfterNodes /\ phase \in AfterIdentifiers /\ phase \in AfterDispatchers /\ phase \in AfterOwners
  BY DEF AfterNodes, AfterIdentifiers, AfterDispatchers, AfterOwners
<1>2. BundleDecoded(bundle) /\ Owned(bundle) /\ CallsAllowed(bundle)
  BY <1>1 DEF LoadInv
<1>3. ASSUME NEW k \in DOMAIN bundle.identifiers
      PROVE  IdentifierFormed(bundle, k) /\ ChecksumDeclared(bundle, bundle.identifiers[k])
  BY <1>1, StagesPassed DEF IdentifierFault
<1>4. ASSUME NEW k \in DOMAIN bundle.dispatchers
      PROVE  /\ KindsClaimed(bundle, k) /\ TargetsFormed(bundle.dispatchers[k])
             /\ CountryAliasesFormed(bundle.dispatchers[k])
  BY <1>1, StagesPassed DEF DispatcherFault
<1> QED BY <1>1, <1>2, <1>3, <1>4

(* A definition is the target of a dispatcher.                              *)
LEMMA DefinitionIsTarget ==
  ASSUME Owned(bundle), NEW d \in ToSet(bundle.identifiers)
  PROVE  \E k \in DOMAIN bundle.dispatchers : \E t \in ToSet(bundle.dispatchers[k].targets) : t.def = d.id
<1>1. PICK x \in AllTargets(bundle) : bundle.dispatchers[x[1]].targets[x[2]].def = d.id
  BY DEF Owned
<1>2. PICK k \in DOMAIN bundle.dispatchers : \E e \in DOMAIN bundle.dispatchers[k].targets : x = <<k, e>>
  BY DEF AllTargets
<1> QED BY <1>1, <1>2 DEF ToSet

(* The search of programUses ends, because a call goes to an earlier        *)
(* program.                                                                 *)
LEMMA SearchesEnd == LoadInv => SearchEnds
<1> SUFFICES ASSUME LoadInv, phase \in {"identifiers", "dispatchers", "owners", "calls"},
                    NEW k \in DOMAIN bundle.programs, bundle.programs[k].kind = "canonicalization"
             PROVE  Calls(bundle, k) = {}
  BY DEF SearchEnds
<1>1. phase \in AfterNodes
  BY AfterStages
<1>2. Accepted(bundle.programs[k], bundle.programs[k].id \in preCanonicalizers(bundle))
  BY <1>1, ProgramsAreAccepted
<1>3. ASSUME NEW i \in Indices(bundle.programs[k])
      PROVE  opSpecs[bundle.programs[k].nodes[i].op].cat # "call"
  <2>1. opSpecs[bundle.programs[k].nodes[i].op].cat \in categoriesByProgramKind["canonicalization"]
    BY <1>2, AcceptedNode DEF checkCategory
  <2> QED BY <2>1 DEF categoriesByProgramKind
<1> QED BY <1>3 DEF Calls

(* Each program reached by the three kinds of passes is written without a   *)
(* panic.                                                                   *)
LEMMA PreCanonicalizersWrite ==
  ASSUME LoadInv, phase = "accepted"
  PROVE  PreCanonicalizersEmittable
<1> SUFFICES ASSUME NEW id \in preCanonicalizers(bundle)
             PROVE  StepsEmittable(Program(bundle, id), {})
  BY DEF PreCanonicalizersEmittable
<1> DEFINE p == Program(bundle, id)
<1>1. IsProgram(bundle, id, "canonicalization")
  BY AcceptedBundle DEF preCanonicalizers, KindsClaimed
<1>2. Accepted(p, TRUE)
  BY <1>1, FoundIsAccepted, AcceptedBundle
<1> HIDE DEF p
<1>3. Emission!Emittable(p)
  BY <1>2, AcceptedIsEmittable
<1>4. ASSUME NEW i \in Emission!WrittenNodes(p)
      PROVE  p.nodes[i].op # "PREPEND_COUNTRY_IF_MISSING"
  <2>1. i \in Indices(p)
    BY <1>2, WrittenAreNodes DEF Accepted, ProgramDecoded
  <2>2. p.nodes[i].op \in preCanonicalizationOps
    BY <1>2, <2>1, AcceptedNode DEF checkCategory
  <2> QED BY <2>2 DEF preCanonicalizationOps
<1> QED BY <1>3, <1>4 DEF StepsEmittable, p

LEMMA CanonicalizersWrite ==
  ASSUME LoadInv, phase = "accepted"
  PROVE  CanonicalizersEmittable
<1> SUFFICES ASSUME NEW d \in ToSet(bundle.identifiers)
             PROVE  StepsEmittable(Program(bundle, d.canon), targetOf(bundle, d.id))
  BY DEF CanonicalizersEmittable
<1>1. IsProgram(bundle, d.canon, "canonicalization")
  BY AcceptedBundle DEF ToSet, IdentifierFormed
<1>2. Emission!Emittable(Program(bundle, d.canon))
  BY <1>1, FoundIsAccepted, AcceptedBundle, AcceptedIsEmittable
<1>3. targetOf(bundle, d.id) # {}
  BY AcceptedBundle, DefinitionIsTarget DEF targetOf, TargetsOf
<1> QED BY <1>2, <1>3 DEF StepsEmittable

LEMMA RulesWrite ==
  ASSUME LoadInv, phase = "accepted", NEW kind
  PROVE  RulesEmittable(kind)
BY AcceptedBundle, ProgramsAreAccepted, AcceptedIsEmittable DEF RulesEmittable, ToSet

(* On no bundle does the loader or a pass of the generator panic:           *)
(* emitSteps, emitPrependCountry, emitAssertions, checksumExpr and the      *)
(* expressions meet only nodes they have a case for, and the search of      *)
(* programUses ends.                                                        *)
THEOREM NoPassPanics == GenerationSpec => []NeverPanics
<1>1. LoadInv => NeverPanics
  BY SearchesEnd, PreCanonicalizersWrite, CanonicalizersWrite, RulesWrite DEF NeverPanics, Emitting
<1> QED BY <1>1, LoadInvariance, PTL

------------------------------------------------------------------------------
(* Dispatch targets and tokens, as the lookups of the engine find them.     *)

(* An optional field decoded from the wire.                                 *)
LEMMA OptionalValue ==
  ASSUME NEW S, NEW s \in Optional(S)
  PROVE  /\ s \in Seq(S) /\ Len(s) \in {0, 1}
         /\ ~Present(s) => s = <<>>
         /\ Present(s) => Len(s) = 1 /\ s[1] \in S /\ s = <<s[1]>>
<1>1. s \in Seq(S) /\ Len(s) \in {0, 1}
  <2>1. s \in Seq(S) /\ Len(s) <= 1
    BY DEF Optional
  <2>2. Len(s) \in Nat
    BY <2>1, LenProperties
  <2>3. \A n \in Nat : n <= 1 => n \in {0, 1}
    OBVIOUS
  <2> QED BY <2>1, <2>2, <2>3
<1>2. ASSUME Present(s) PROVE Len(s) = 1 /\ s[1] \in S /\ s = <<s[1]>>
  <2>1. Len(s) = 1
    BY <1>1, <1>2, EmptySeq DEF Present
  <2>2. s[1] \in S
    BY <1>1, <2>1, ElementOfSeq
  <2>3. <<s[1]>> \in Seq(S) /\ Len(<<s[1]>>) = 1 /\ <<s[1]>>[1] = s[1]
    BY <2>2
  <2> QED BY <1>1, <2>1, <2>2, <2>3, SeqEqual
<1> QED BY <1>1, <1>2 DEF Present

(* The types of what a dispatcher holds.                                    *)
LEMMA DispatcherFields ==
  ASSUME BundleDecoded(bundle), NEW k \in DOMAIN bundle.dispatchers
  PROVE  LET d == bundle.dispatchers[k]
         IN /\ d \in DispatcherType /\ d.kind \in Seq(Byte) /\ d.aliases \in Seq(Seq(Byte))
            /\ d.targets \in Seq(TargetType) /\ Len(d.targets) \in Nat
            /\ DOMAIN d.targets = 1 .. Len(d.targets)
            /\ d.countryAliases \in Seq([alias : Seq(Byte), country : Seq(Byte)])
            /\ Len(d.aliases) \in Nat /\ DOMAIN d.aliases = 1 .. Len(d.aliases)
<1>1. bundle.dispatchers[k] \in DispatcherType
  BY DEF BundleDecoded
<1> QED BY <1>1, LenProperties DEF DispatcherType

(* The types of what a target holds.                                        *)
LEMMA TargetFields ==
  ASSUME BundleDecoded(bundle), NEW k \in DOMAIN bundle.dispatchers,
         NEW e \in DOMAIN bundle.dispatchers[k].targets
  PROVE  LET t == bundle.dispatchers[k].targets[e]
         IN /\ t \in TargetType /\ t.def \in Nat /\ t.country \in Optional(Seq(Byte))
            /\ t.accepted \in Seq(Seq(Byte)) /\ t.prefix \in Optional(Seq(Byte))
            /\ t.unprefixed \in BOOLEAN
<1>1. bundle.dispatchers[k].targets[e] \in TargetType
  BY DispatcherFields
<1> QED BY <1>1 DEF TargetType

(* The country of a target, by whether it has one.                          *)
LEMMA TargetCountry ==
  ASSUME LoadInv, phase = "accepted", NEW k \in DOMAIN bundle.dispatchers,
         NEW e \in DOMAIN bundle.dispatchers[k].targets
  PROVE  LET d == bundle.dispatchers[k]
             t == d.targets[e]
         IN /\ CountryOf(t.country) \in Seq(Byte)
            /\ CountryOf(t.country) = <<>> <=> ~Present(t.country)
            /\ Present(t.country) =>
                 /\ CountryTarget(d, e) /\ CountryOf(t.country) = t.country[1]
                 /\ validCountryToken(t.country[1])
            /\ ~Present(t.country) => GlobalAlone(d)
<1> DEFINE d == bundle.dispatchers[k]
           t == d.targets[e]
<1>1. BundleDecoded(bundle) /\ TargetsFormed(d)
  BY AcceptedBundle
<1>2. t.country \in Optional(Seq(Byte))
  BY <1>1, TargetFields
<1>3. Present(t.country) => CountryTarget(d, e)
  BY <1>1 DEF TargetsFormed
<1>4. ~Present(t.country) => GlobalAlone(d)
  BY <1>1 DEF TargetsFormed
<1>5. CASE Present(t.country)
  <2>1. validCountryToken(t.country[1]) /\ CountryOf(t.country) = t.country[1]
    BY <1>3, <1>5 DEF CountryTarget, CountryOf
  <2>2. t.country[1] \in Seq(Byte) /\ Len(t.country[1]) = 2
    BY <1>2, <1>5, <2>1, OptionalValue DEF validCountryToken
  <2>3. \A x : Len(x) = 2 => x # <<>>
    OBVIOUS
  <2> QED BY <1>3, <1>5, <2>1, <2>2, <2>3
<1>6. CASE ~Present(t.country)
  BY <1>4, <1>6 DEF CountryOf
<1> QED BY <1>5, <1>6

(* The kind tokens of two dispatchers are apart.                            *)
LEMMA TokensAreClaims ==
  ASSUME BundleDecoded(bundle), NEW k \in DOMAIN bundle.dispatchers
  PROVE  /\ Tables!Tokens(k) = Claims(bundle.dispatchers[k])
         /\ Tables!Tokens(k) \subseteq Seq(Byte)
<1> DEFINE d == bundle.dispatchers[k]
<1>1. /\ d.kind \in Seq(Byte) /\ d.aliases \in Seq(Seq(Byte))
      /\ Len(d.aliases) \in Nat /\ DOMAIN d.aliases = 1 .. Len(d.aliases)
  BY DispatcherFields
<1>2. Tables!Tokens(k) = {d.kind} \cup ToSet(d.aliases)
  BY DEF Tables!Tokens
<1> HIDE DEF d
<1>3. Claims(d) = {d.kind} \cup ToSet(d.aliases)
  <2>1. 0 .. Len(d.aliases) = {0} \cup 1 .. Len(d.aliases)
    BY <1>1
  <2>2. \A a \in 1 .. Len(d.aliases) : Claim(d, a) = d.aliases[a]
    BY <1>1 DEF Claim
  <2>3. Claim(d, 0) = d.kind
    BY DEF Claim
  <2> QED BY <1>1, <2>1, <2>2, <2>3 DEF Claims, ToSet
<1>4. {d.kind} \cup ToSet(d.aliases) \subseteq Seq(Byte)
  BY <1>1, ElementOfSeq DEF ToSet
<1> QED BY <1>2, <1>3, <1>4 DEF d

(* No two dispatchers claim the same token.                                 *)
LEMMA TokensApart ==
  ASSUME LoadInv, phase = "accepted", NEW k \in DOMAIN bundle.dispatchers,
         NEW l \in DOMAIN bundle.dispatchers, k # l
  PROVE  Tables!Tokens(k) \cap Tables!Tokens(l) = {}
<1>1. ASSUME NEW e \in DOMAIN bundle.dispatchers, NEW f \in DOMAIN bundle.dispatchers, e < f
      PROVE  Claims(bundle.dispatchers[e]) \cap Claims(bundle.dispatchers[f]) = {}
  <2>1. KindsClaimed(bundle, f) /\ BundleDecoded(bundle)
    BY AcceptedBundle
  <2>2. ASSUME NEW a \in 0 .. Len(bundle.dispatchers[f].aliases)
        PROVE  Claim(bundle.dispatchers[f], a) \notin Claims(bundle.dispatchers[e])
    <3>1. Claim(bundle.dispatchers[f], a) \notin Claimed(bundle, f, a)
      BY <2>1 DEF KindsClaimed
    <3>2. e \in 1 .. f - 1
      BY <1>1, <2>1, BundleShape
    <3> QED BY <3>1, <3>2 DEF Claimed
  <2> QED BY <2>2 DEF Claims
<1>2. k < l \/ l < k
  BY AcceptedBundle, BundleShape
<1>3. Claims(bundle.dispatchers[k]) \cap Claims(bundle.dispatchers[l]) = {}
  BY <1>1, <1>2
<1>4. Tables!Tokens(k) = Claims(bundle.dispatchers[k]) /\ Tables!Tokens(l) = Claims(bundle.dispatchers[l])
  BY TokensAreClaims, AcceptedBundle
<1> QED BY <1>3, <1>4

(* They are spelled as kinds are.                                           *)
LEMMA TokensAreSpelled ==
  ASSUME LoadInv, phase = "accepted", NEW k \in DOMAIN bundle.dispatchers
  PROVE  Tables!Tokens(k) \subseteq {s \in Seq(Tables!Byte) : Tables!IsKindToken(s)}
<1>1. KindsClaimed(bundle, k) /\ BundleDecoded(bundle)
  BY AcceptedBundle
<1>2. \A s : validKindToken(s) => Tables!IsKindToken(s)
  BY DEF validKindToken, Spells, Tables!IsKindToken, Lower, Digit
<1>3. \A s \in Claims(bundle.dispatchers[k]) : Tables!IsKindToken(s)
  BY <1>1, <1>2 DEF KindsClaimed, Claims
<1> QED BY <1>1, <1>3, TokensAreClaims DEF Tables!Byte, Byte

(* Two targets of one dispatcher.                                           *)
LEMMA TargetsApart ==
  ASSUME LoadInv, phase = "accepted", NEW k \in DOMAIN bundle.dispatchers,
         NEW e \in DOMAIN bundle.dispatchers[k].targets,
         NEW f \in DOMAIN bundle.dispatchers[k].targets, e # f
  PROVE  LET t == bundle.dispatchers[k].targets[e]
             u == bundle.dispatchers[k].targets[f]
         IN /\ Present(t.country) /\ Present(u.country)
            /\ CountryOf(t.country) # CountryOf(u.country)
            /\ ToSet(t.accepted) \cap ToSet(u.accepted) = {}
            /\ ~(t.unprefixed /\ u.unprefixed)
<1> DEFINE d == bundle.dispatchers[k]
           t == d.targets[e]
           u == d.targets[f]
<1>1. /\ BundleDecoded(bundle) /\ Len(d.targets) \in Nat /\ DOMAIN d.targets = 1 .. Len(d.targets)
  BY AcceptedBundle, DispatcherFields
<1>2. ASSUME NEW x \in DOMAIN d.targets PROVE Present(d.targets[x].country)
  <2>1. SUFFICES ASSUME GlobalAlone(d) PROVE FALSE
    BY <1>2, TargetCountry
  <2>2. Len(d.targets) = 1
    BY <2>1 DEF GlobalAlone
  <2> QED BY <1>1, <2>2
<1>3. ASSUME NEW x \in DOMAIN d.targets, NEW y \in DOMAIN d.targets, x < y
      PROVE  /\ CountryOf(d.targets[x].country) # CountryOf(d.targets[y].country)
             /\ ToSet(d.targets[x].accepted) \cap ToSet(d.targets[y].accepted) = {}
             /\ ~(d.targets[x].unprefixed /\ d.targets[y].unprefixed)
  <2>0. x \in 1 .. y - 1
    BY <1>1, <1>3
  <2>1. CountryTarget(d, y) /\ x \in 1 .. y - 1
    <3>1. Present(d.targets[y].country)
      BY <1>2, <1>3
    <3>2. Present(d.targets[y].country) => CountryTarget(d, y)
      BY <1>3, TargetCountry
    <3> QED BY <2>0, <3>1, <3>2
  <2>2. d.targets[x].country # d.targets[y].country
    BY <2>1 DEF CountryTarget
  <2>3. /\ d.targets[x].country = <<d.targets[x].country[1]>>
        /\ d.targets[y].country = <<d.targets[y].country[1]>>
    BY <1>1, <1>2, <1>3, TargetFields, OptionalValue
  <2>4. CountryOf(d.targets[x].country) # CountryOf(d.targets[y].country)
    BY <1>2, <1>3, <2>2, <2>3 DEF CountryOf
  <2>5. ASSUME NEW z \in DOMAIN d.targets[y].accepted
        PROVE  d.targets[y].accepted[z] \notin ToSet(d.targets[x].accepted)
    BY <2>1 DEF CountryTarget, AcceptedBefore
  <2>6. ToSet(d.targets[x].accepted) \cap ToSet(d.targets[y].accepted) = {}
    <3>1. \A p \in ToSet(d.targets[y].accepted) : p \notin ToSet(d.targets[x].accepted)
      BY <2>5 DEF ToSet
    <3> QED BY <3>1
  <2>7. ~(d.targets[x].unprefixed /\ d.targets[y].unprefixed)
    BY <2>1 DEF CountryTarget
  <2> QED BY <2>4, <2>6, <2>7
<1>4. e < f \/ f < e
  BY <1>1
<1> QED BY <1>2, <1>3, <1>4

(* The target of the dispatch table, and where it comes from.               *)
TargetAt(k, e) == TableTarget(bundle.dispatchers[k].targets[e])

(* The targets of the tables are the targets of the bundle.                 *)
LEMMA TableTargets ==
  ASSUME NEW k \in DOMAIN bundle.dispatchers, NEW t
  PROVE  t \in {TableTarget(u) : u \in ToSet(bundle.dispatchers[k].targets)} <=>
           \E e \in DOMAIN bundle.dispatchers[k].targets : t = TargetAt(k, e)
BY DEF ToSet, TargetAt

(* Field by field.                                                          *)
LEMMA TargetAtFields ==
  ASSUME NEW k, NEW e
  PROVE  LET t == bundle.dispatchers[k].targets[e]
         IN /\ TargetAt(k, e).def = t.def /\ TargetAt(k, e).country = CountryOf(t.country)
            /\ TargetAt(k, e).accepted = ToSet(t.accepted)
            /\ TargetAt(k, e).unprefixed = t.unprefixed
BY DEF TargetAt, TableTarget

(* The definitions of a bundle, looked up by their IDs.                     *)
LEMMA DefinitionsFound ==
  ASSUME LoadInv, phase = "accepted", NEW id \in DefinitionIDs(bundle)
  PROVE  /\ id # 0
         /\ \E k \in DOMAIN bundle.identifiers :
              Definition(bundle, id) = bundle.identifiers[k] /\ bundle.identifiers[k].id = id
<1>1. PICK k \in DOMAIN bundle.identifiers : bundle.identifiers[k].id = id
  BY DEF DefinitionIDs
<1>2. id # 0
  BY <1>1, AcceptedBundle DEF IdentifierFormed
<1>3. bundle.identifiers[k] \in ToSet(bundle.identifiers)
  BY DEF ToSet
<1>4. Definition(bundle, id) \in ToSet(bundle.identifiers) /\ Definition(bundle, id).id = id
  BY <1>1, <1>3 DEF Definition
<1> QED BY <1>2, <1>4 DEF ToSet

(* A target is that of a definition, and of one only.                       *)
LEMMA TargetOwned ==
  ASSUME LoadInv, phase = "accepted", NEW k \in DOMAIN bundle.dispatchers,
         NEW e \in DOMAIN bundle.dispatchers[k].targets
  PROVE  /\ bundle.dispatchers[k].targets[e].def \in DefinitionIDs(bundle)
         /\ \A l \in DOMAIN bundle.dispatchers : \A f \in DOMAIN bundle.dispatchers[l].targets :
              bundle.dispatchers[l].targets[f].def = bundle.dispatchers[k].targets[e].def =>
                k = l /\ e = f
<1> DEFINE T(x) == bundle.dispatchers[x[1]].targets[x[2]]
<1>1. \A l \in DOMAIN bundle.dispatchers : \A f \in DOMAIN bundle.dispatchers[l].targets :
        <<l, f>> \in AllTargets(bundle) /\ T(<<l, f>>) = bundle.dispatchers[l].targets[f]
  BY DEF AllTargets
<1>2. \A x, y \in AllTargets(bundle) : T(x).def = T(y).def => x = y
  BY AcceptedBundle DEF Owned
<1>3. \E def \in ToSet(bundle.identifiers) : def.id = T(<<k, e>>).def
  BY <1>1, AcceptedBundle DEF Owned
<1>4. T(<<k, e>>).def \in DefinitionIDs(bundle)
  BY <1>3 DEF DefinitionIDs, ToSet
<1>5. ASSUME NEW l \in DOMAIN bundle.dispatchers, NEW f \in DOMAIN bundle.dispatchers[l].targets,
             bundle.dispatchers[l].targets[f].def = bundle.dispatchers[k].targets[e].def
      PROVE  k = l /\ e = f
  <2>1. <<l, f>> = <<k, e>>
    BY <1>1, <1>2, <1>5
  <2> QED BY <2>1
<1> HIDE DEF T
<1>6. T(<<k, e>>) = bundle.dispatchers[k].targets[e]
  BY <1>1
<1> QED BY <1>4, <1>5, <1>6

(* The country aliases of a dispatcher, as a table.                         *)
LEMMA AliasesFormed ==
  ASSUME LoadInv, phase = "accepted", NEW k \in DOMAIN bundle.dispatchers,
         NEW code \in DOMAIN AliasTable(bundle.dispatchers[k])
  PROVE  LET d == bundle.dispatchers[k]
         IN \E x \in DOMAIN d.countryAliases :
              /\ code = d.countryAliases[x].alias
              /\ AliasTable(d)[code] = d.countryAliases[x].country
              /\ code \in Seq(Byte) /\ AliasTable(d)[code] \in Seq(Byte)
              /\ validCountryToken(code) /\ validCountryToken(AliasTable(d)[code])
              /\ code # AliasTable(d)[code] /\ code \notin Countries(d)
<1> DEFINE d == bundle.dispatchers[k]
           All == ToSet(d.countryAliases)
           y == CHOOSE y \in All : y.alias = code
<1>1. \E y1 \in All : y1.alias = code
  BY DEF AliasTable
<1>2. y \in All /\ y.alias = code
  BY <1>1
<1>3. AliasTable(d)[code] = y.country
  BY DEF AliasTable
<1> HIDE DEF y
<1>4. PICK x \in DOMAIN d.countryAliases : y = d.countryAliases[x]
  BY <1>2 DEF ToSet
<1>5. /\ d.countryAliases \in Seq([alias : Seq(Byte), country : Seq(Byte)])
      /\ CountryAliasesFormed(d)
  BY AcceptedBundle, DispatcherFields
<1>6. y.alias \in Seq(Byte) /\ y.country \in Seq(Byte)
  <2>1. y \in [alias : Seq(Byte), country : Seq(Byte)]
    BY <1>4, <1>5, LenProperties, ElementOfSeq
  <2> QED BY <2>1
<1>7. /\ validCountryToken(y.alias) /\ validCountryToken(y.country)
      /\ y.alias # y.country /\ y.alias \notin Countries(d)
  BY <1>4, <1>5 DEF CountryAliasesFormed
<1> QED BY <1>2, <1>3, <1>4, <1>6, <1>7

(* A country of two letters is not the empty string.                        *)
LEMMA TwoIsNotEmpty == \A s : Len(s) = 2 => s # <<>>
OBVIOUS

(* A target of the bundle is a target of the tables.                        *)
LEMMA TargetIsTyped ==
  ASSUME LoadInv, phase = "accepted", NEW k \in DOMAIN bundle.dispatchers,
         NEW e \in DOMAIN bundle.dispatchers[k].targets
  PROVE  TargetAt(k, e) \in [def : DefinitionIDs(bundle), country : Seq(Byte),
                             accepted : SUBSET Seq(Byte), unprefixed : BOOLEAN]
<1> DEFINE t == bundle.dispatchers[k].targets[e]
<1>1. t.accepted \in Seq(Seq(Byte)) /\ t.unprefixed \in BOOLEAN
  BY AcceptedBundle, TargetFields
<1>2. ToSet(t.accepted) \subseteq Seq(Byte)
  BY <1>1, LenProperties, ElementOfSeq DEF ToSet
<1>3. CountryOf(t.country) \in Seq(Byte) /\ t.def \in DefinitionIDs(bundle)
  BY TargetCountry, TargetOwned
<1> QED BY <1>1, <1>2, <1>3 DEF TargetAt, TableTarget

(* A country is a token.                                                    *)
LEMMA CountryIsToken ==
  ASSUME NEW s, validCountryToken(s)
  PROVE  Tables!IsCountryToken(s)
BY DEF validCountryToken, Spells, Tables!IsCountryToken, Upper

(* TablesAccepted, of the tables.                                           *)
TablesForm(D, Ids, Profile, T, A) ==
  /\ 0 \notin D /\ 0 \notin Ids
  /\ MaxInputBytes \in Nat
  /\ Profile \in [Ids -> Tables!Profiles]
  /\ \A d \in D :
       /\ Tables!Tokens(d) \subseteq {s \in Seq(Tables!Byte) : Tables!IsKindToken(s)}
       /\ \A e \in D \ {d} : Tables!Tokens(d) \cap Tables!Tokens(e) = {}
       /\ T[d] \in (SUBSET Tables!Target) \ {{}}
       /\ \A t \in T[d] :
            IF t.country = <<>>
            THEN /\ T[d] = {t}
                 /\ t.accepted = {}
                 /\ DOMAIN A[d] = {}
            ELSE Tables!IsCountryToken(t.country)
       /\ \A t, u \in T[d] :
            t # u => /\ t.country # u.country
                     /\ t.accepted \cap u.accepted = {}
                     /\ ~(t.unprefixed /\ u.unprefixed)
       /\ \A code \in DOMAIN A[d] :
            /\ {code, A[d][code]} \subseteq Seq(Tables!Byte)
            /\ Tables!IsCountryToken(code) /\ Tables!IsCountryToken(A[d][code])
            /\ code # A[d][code]
            /\ \A t \in T[d] : t.country # code
  /\ \A def \in Ids : \E t \in UNION {T[d] : d \in D} : t.def = def
  /\ \A d, e \in D : \A t \in T[d], u \in T[e] : t.def = u.def => d = e /\ t = u

(* The tables of an accepted bundle are what module Dispatch assumes.       *)
LEMMA TablesAreAccepted ==
  ASSUME LoadInv, phase = "accepted"
  PROVE  Tables!TablesAccepted
<1>0. /\ BundleDecoded(bundle)
      /\ DOMAIN bundle.dispatchers = 1 .. Len(bundle.dispatchers) /\ Len(bundle.dispatchers) \in Nat
  BY AcceptedBundle, BundleShape
<1> DEFINE Targets(k) == {TableTarget(t) : t \in ToSet(bundle.dispatchers[k].targets)}
<1>1. 0 \notin DOMAIN bundle.dispatchers /\ 0 \notin DefinitionIDs(bundle)
  BY <1>0, DefinitionsFound
<1>2. [id \in DefinitionIDs(bundle) |-> Definition(bundle, id).profile]
        \in [DefinitionIDs(bundle) -> Tables!Profiles]
  <2>1. ASSUME NEW id \in DefinitionIDs(bundle)
        PROVE  Definition(bundle, id).profile \in Tables!Profiles
    <3>1. PICK k \in DOMAIN bundle.identifiers : Definition(bundle, id) = bundle.identifiers[k]
      BY DefinitionsFound
    <3>2. IdentifierFormed(bundle, k)
      BY AcceptedBundle
    <3> QED BY <3>1, <3>2 DEF IdentifierFormed, Tables!Profiles
  <2> QED BY <2>1
<1>3. ASSUME NEW k \in DOMAIN bundle.dispatchers
      PROVE  /\ Targets(k) \in (SUBSET Tables!Target) \ {{}}
             /\ \A t \in Targets(k) :
                  IF t.country = <<>>
                  THEN /\ Targets(k) = {t} /\ t.accepted = {}
                       /\ DOMAIN AliasTable(bundle.dispatchers[k]) = {}
                  ELSE Tables!IsCountryToken(t.country)
             /\ \A t, u \in Targets(k) :
                  t # u => /\ t.country # u.country /\ t.accepted \cap u.accepted = {}
                           /\ ~(t.unprefixed /\ u.unprefixed)
  <2> DEFINE d == bundle.dispatchers[k]
  <2>0. \A t : t \in Targets(k) <=> \E e \in DOMAIN d.targets : t = TargetAt(k, e)
    BY TableTargets
  <2>00. DOMAIN d.targets = 1 .. Len(d.targets) /\ Len(d.targets) \in Nat /\ d.targets \in Seq(TargetType)
    BY <1>0, DispatcherFields
  <2> HIDE DEF Targets
  <2>1. Targets(k) \in SUBSET Tables!Target
    BY <2>0, TargetIsTyped DEF Tables!Target, Tables!Byte, Byte
  <2>2. Targets(k) # {}
    <3>1. d.targets # <<>>
      BY AcceptedBundle DEF TargetsFormed
    <3>2. 1 \in DOMAIN d.targets
      <4>1. Len(d.targets) # 0
        BY <2>00, <3>1, EmptySeq
      <4> QED BY <2>00, <4>1
    <3> QED BY <2>0, <3>2
  <2>3. ASSUME NEW t \in Targets(k), t.country = <<>>
        PROVE  /\ Targets(k) = {t} /\ t.accepted = {} /\ DOMAIN AliasTable(d) = {}
    <3>1. PICK e \in DOMAIN d.targets : t = TargetAt(k, e)
      BY <2>0, <2>3
    <3>2. ~Present(d.targets[e].country) /\ GlobalAlone(d)
      BY <2>3, <3>1, TargetCountry, TargetAtFields
    <3>3. Len(d.targets) = 1 /\ d.countryAliases = <<>> /\ d.targets[1].accepted = <<>>
      BY <3>2 DEF GlobalAlone
    <3>4. \A f \in DOMAIN d.targets : f = 1
      BY <2>00, <3>3
    <3>5. Targets(k) = {t}
      BY <2>0, <3>1, <3>4
    <3>6. t.accepted = {}
      <4>1. t.accepted = ToSet(d.targets[1].accepted)
        BY <3>1, <3>4, TargetAtFields
      <4> QED BY <3>3, <4>1 DEF ToSet
    <3>7. DOMAIN AliasTable(d) = {}
      BY <3>3 DEF AliasTable, ToSet
    <3> QED BY <3>5, <3>6, <3>7
  <2>4. ASSUME NEW t \in Targets(k), t.country # <<>>
        PROVE  Tables!IsCountryToken(t.country)
    <3>1. PICK e \in DOMAIN d.targets : t = TargetAt(k, e)
      BY <2>0, <2>4
    <3>2. Present(d.targets[e].country) /\ t.country = CountryOf(d.targets[e].country)
      BY <2>4, <3>1, TargetCountry, TargetAtFields
    <3>3. validCountryToken(t.country)
      BY <3>2, TargetCountry
    <3> QED BY <3>3, CountryIsToken
  <2>5. ASSUME NEW t \in Targets(k), NEW u \in Targets(k), t # u
        PROVE  /\ t.country # u.country /\ t.accepted \cap u.accepted = {}
               /\ ~(t.unprefixed /\ u.unprefixed)
    <3>1. PICK e \in DOMAIN d.targets : t = TargetAt(k, e)
      BY <2>0, <2>5
    <3>2. PICK f \in DOMAIN d.targets : u = TargetAt(k, f)
      BY <2>0, <2>5
    <3>3. e # f
      BY <2>5, <3>1, <3>2
    <3>4. /\ CountryOf(d.targets[e].country) # CountryOf(d.targets[f].country)
          /\ ToSet(d.targets[e].accepted) \cap ToSet(d.targets[f].accepted) = {}
          /\ ~(d.targets[e].unprefixed /\ d.targets[f].unprefixed)
      BY <3>3, TargetsApart
    <3>5. /\ t.country = CountryOf(d.targets[e].country) /\ u.country = CountryOf(d.targets[f].country)
          /\ t.accepted = ToSet(d.targets[e].accepted) /\ u.accepted = ToSet(d.targets[f].accepted)
          /\ t.unprefixed = d.targets[e].unprefixed /\ u.unprefixed = d.targets[f].unprefixed
      BY <3>1, <3>2, TargetAtFields
    <3> QED BY <3>4, <3>5
  <2> QED BY <2>1, <2>2, <2>3, <2>4, <2>5
<1>4. ASSUME NEW k \in DOMAIN bundle.dispatchers, NEW code \in DOMAIN AliasTable(bundle.dispatchers[k])
      PROVE  /\ {code, AliasTable(bundle.dispatchers[k])[code]} \subseteq Seq(Byte)
             /\ Tables!IsCountryToken(code)
             /\ Tables!IsCountryToken(AliasTable(bundle.dispatchers[k])[code])
             /\ code # AliasTable(bundle.dispatchers[k])[code]
             /\ \A t \in Targets(k) : t.country # code
  <2> DEFINE d == bundle.dispatchers[k]
  <2>1. /\ code \in Seq(Byte) /\ AliasTable(d)[code] \in Seq(Byte)
        /\ validCountryToken(code) /\ validCountryToken(AliasTable(d)[code])
        /\ code # AliasTable(d)[code] /\ code \notin Countries(d)
    BY AliasesFormed
  <2>2. ASSUME NEW t \in Targets(k) PROVE t.country # code
    <3>1. PICK e \in DOMAIN d.targets : t = TargetAt(k, e)
      BY <2>2, TableTargets
    <3>2. t.country = CountryOf(d.targets[e].country)
      BY <3>1, TargetAtFields
    <3>3. CASE Present(d.targets[e].country)
      <4>1. t.country = d.targets[e].country[1]
        BY <3>2, <3>3 DEF CountryOf
      <4>2. t.country \in Countries(d)
        BY <3>3, <4>1 DEF Countries
      <4> QED BY <2>1, <4>2
    <3>4. CASE ~Present(d.targets[e].country)
      <4>1. Len(code) = 2
        BY <2>1 DEF validCountryToken
      <4>2. t.country = <<>>
        BY <3>2, <3>4 DEF CountryOf
      <4> QED BY <4>1, <4>2, TwoIsNotEmpty
    <3> QED BY <3>3, <3>4
  <2> QED BY <2>1, <2>2, CountryIsToken
<1>5. ASSUME NEW def \in DefinitionIDs(bundle)
      PROVE  \E k \in DOMAIN bundle.dispatchers : \E t \in Targets(k) : t.def = def
  <2>1. PICK j \in DOMAIN bundle.identifiers : bundle.identifiers[j].id = def
    BY DEF DefinitionIDs
  <2>2. bundle.identifiers[j] \in ToSet(bundle.identifiers)
    BY DEF ToSet
  <2>3. PICK k \in DOMAIN bundle.dispatchers : \E t \in ToSet(bundle.dispatchers[k].targets) : t.def = def
    BY <2>1, <2>2, AcceptedBundle, DefinitionIsTarget
  <2>4. PICK t \in ToSet(bundle.dispatchers[k].targets) : t.def = def
    BY <2>3
  <2>5. TableTarget(t).def = def
    BY <2>4 DEF TableTarget
  <2> QED BY <2>5
<1>6. ASSUME NEW k \in DOMAIN bundle.dispatchers, NEW l \in DOMAIN bundle.dispatchers,
             NEW t \in Targets(k), NEW u \in Targets(l), t.def = u.def
      PROVE  k = l /\ t = u
  <2>1. PICK e \in DOMAIN bundle.dispatchers[k].targets : t = TargetAt(k, e)
    BY <1>6, TableTargets
  <2>2. PICK f \in DOMAIN bundle.dispatchers[l].targets : u = TargetAt(l, f)
    BY <1>6, TableTargets
  <2>3. k = l /\ e = f
    BY <1>6, <2>1, <2>2, TargetOwned, TargetAtFields
  <2> QED BY <2>1, <2>2, <2>3
<1>7. \A k \in DOMAIN bundle.dispatchers :
        /\ Tables!Tokens(k) \subseteq {s \in Seq(Tables!Byte) : Tables!IsKindToken(s)}
        /\ \A l \in DOMAIN bundle.dispatchers \ {k} : Tables!Tokens(k) \cap Tables!Tokens(l) = {}
  BY TokensAreSpelled, TokensApart
<1>8. MaxInputBytes \in Nat
  BY LimitsAssumption
<1>9. Tables!Byte = Byte
  BY DEF Tables!Byte, Byte
<1> HIDE DEF Targets
<1> DEFINE TargetTable == [k \in DOMAIN bundle.dispatchers |->
                             {TableTarget(t) : t \in ToSet(bundle.dispatchers[k].targets)}]
           AliasTables == [k \in DOMAIN bundle.dispatchers |-> AliasTable(bundle.dispatchers[k])]
           D == DOMAIN bundle.dispatchers
<1>10. \A k \in D : TargetTable[k] = Targets(k)
  BY DEF Targets
<1>11. \A k \in D : AliasTables[k] = AliasTable(bundle.dispatchers[k])
  OBVIOUS
<1> HIDE DEF TargetTable, AliasTables
<1>12. ASSUME NEW k \in D
       PROVE  /\ TargetTable[k] \in (SUBSET Tables!Target) \ {{}}
              /\ \A t \in TargetTable[k] :
                   IF t.country = <<>>
                   THEN /\ TargetTable[k] = {t} /\ t.accepted = {} /\ DOMAIN AliasTables[k] = {}
                   ELSE Tables!IsCountryToken(t.country)
              /\ \A t, u \in TargetTable[k] :
                   t # u => /\ t.country # u.country /\ t.accepted \cap u.accepted = {}
                            /\ ~(t.unprefixed /\ u.unprefixed)
  BY <1>3, <1>10, <1>11
<1>13. ASSUME NEW k \in D, NEW code \in DOMAIN AliasTables[k]
       PROVE  /\ {code, AliasTables[k][code]} \subseteq Seq(Tables!Byte)
              /\ Tables!IsCountryToken(code) /\ Tables!IsCountryToken(AliasTables[k][code])
              /\ code # AliasTables[k][code] /\ \A t \in TargetTable[k] : t.country # code
  <2>1. AliasTables[k] = AliasTable(bundle.dispatchers[k]) /\ TargetTable[k] = Targets(k)
    BY <1>10, <1>11
  <2>2. code \in DOMAIN AliasTable(bundle.dispatchers[k])
    BY <1>13, <2>1
  <2> QED BY <1>4, <1>9, <2>1, <2>2
<1>14. \A def \in DefinitionIDs(bundle) : \E t \in UNION {TargetTable[k] : k \in D} : t.def = def
  BY <1>5, <1>10
<1>15. \A k, l \in D : \A t \in TargetTable[k], u \in TargetTable[l] : t.def = u.def => k = l /\ t = u
  BY <1>6, <1>10
<1> DEFINE Profile == [id \in DefinitionIDs(bundle) |-> Definition(bundle, id).profile]
<1> HIDE DEF Profile
<1>16. Profile \in [DefinitionIDs(bundle) -> Tables!Profiles]
  BY <1>2 DEF Profile
<1>17. TablesForm(D, DefinitionIDs(bundle), Profile, TargetTable, AliasTables)
  BY <1>1, <1>7, <1>8, <1>12, <1>13, <1>14, <1>15, <1>16 DEF TablesForm
<1> QED
  BY <1>17 DEF TablesForm, Tables!TablesAccepted, Tables!AllTargets, TargetTable, AliasTables, Profile

------------------------------------------------------------------------------
(* The lookups answer what the bundle declares.                             *)

(* The targets of a dispatcher in the tables.                               *)
LEMMA TargetsOfTable ==
  ASSUME NEW k \in DOMAIN bundle.dispatchers
  PROVE  [j \in DOMAIN bundle.dispatchers |->
            {TableTarget(t) : t \in ToSet(bundle.dispatchers[j].targets)}][k]
           = {TargetAt(k, e) : e \in DOMAIN bundle.dispatchers[k].targets}
<1>1. [j \in DOMAIN bundle.dispatchers |->
         {TableTarget(t) : t \in ToSet(bundle.dispatchers[j].targets)}][k]
        = {TableTarget(t) : t \in ToSet(bundle.dispatchers[k].targets)}
  OBVIOUS
<1> QED BY <1>1, TableTargets

(* A global target, a country and a prefix are each found by what selects   *)
(* them.                                                                    *)
LEMMA GlobalAnswers ==
  ASSUME LoadInv, phase = "accepted", NEW k \in DOMAIN bundle.dispatchers,
         NEW e \in DOMAIN bundle.dispatchers[k].targets,
         CountryOf(bundle.dispatchers[k].targets[e].country) = <<>>
  PROVE  Tables!GlobalTarget(k) = bundle.dispatchers[k].targets[e].def
<1> DEFINE T == {TargetAt(k, f) : f \in DOMAIN bundle.dispatchers[k].targets}
           u == CHOOSE t \in T : t.country = <<>>
<1>1. ASSUME NEW f \in DOMAIN bundle.dispatchers[k].targets, TargetAt(k, f).country = <<>>
      PROVE  f = e
  <2>1. ~Present(bundle.dispatchers[k].targets[f].country)
    BY <1>1, TargetCountry, TargetAtFields
  <2> QED BY <2>1, TargetsApart
<1>2. TargetAt(k, e) \in T /\ TargetAt(k, e).country = <<>>
  BY TargetAtFields
<1>3. u \in T /\ u.country = <<>>
  BY <1>2
<1>4. u = TargetAt(k, e)
  BY <1>1, <1>3
<1>5. Tables!GlobalTarget(k) = IF \E t \in T : t.country = <<>> THEN u.def ELSE 0
  BY TargetsOfTable DEF Tables!GlobalTarget, Tables!TargetWith
<1> HIDE DEF u
<1>6. Tables!GlobalTarget(k) = u.def
  BY <1>2, <1>5
<1> QED BY <1>4, <1>6, TargetAtFields

LEMMA CountryAnswers ==
  ASSUME LoadInv, phase = "accepted", NEW k \in DOMAIN bundle.dispatchers,
         NEW e \in DOMAIN bundle.dispatchers[k].targets,
         CountryOf(bundle.dispatchers[k].targets[e].country) # <<>>
  PROVE  LET C == CountryOf(bundle.dispatchers[k].targets[e].country)
         IN Tables!CountryTarget(k, Tables!CountryAlias(k, C)) = bundle.dispatchers[k].targets[e].def
<1> DEFINE C == CountryOf(bundle.dispatchers[k].targets[e].country)
           T == {TargetAt(k, f) : f \in DOMAIN bundle.dispatchers[k].targets}
           u == CHOOSE t \in T : t.country # <<>> /\ t.country = C
<1>1. ASSUME NEW f \in DOMAIN bundle.dispatchers[k].targets, TargetAt(k, f).country = C
      PROVE  f = e
  <2>1. CountryOf(bundle.dispatchers[k].targets[f].country) = C
    BY <1>1, TargetAtFields
  <2> QED BY <2>1, TargetsApart
<1>2. TargetAt(k, e) \in T /\ TargetAt(k, e).country # <<>> /\ TargetAt(k, e).country = C
  BY TargetAtFields
<1>3. u \in T /\ u.country = C
  BY <1>2
<1>4. u = TargetAt(k, e)
  BY <1>1, <1>3
<1>5. Tables!CountryAlias(k, C) = C
  <2>1. C \in Countries(bundle.dispatchers[k])
    BY TargetCountry DEF Countries
  <2>2. C \notin DOMAIN AliasTable(bundle.dispatchers[k])
    BY <2>1, AliasesFormed
  <2>3. [j \in DOMAIN bundle.dispatchers |-> AliasTable(bundle.dispatchers[j])][k]
          = AliasTable(bundle.dispatchers[k])
    OBVIOUS
  <2> QED BY <2>2, <2>3 DEF Tables!CountryAlias
<1>6. Tables!CountryTarget(k, C) =
        IF \E t \in T : t.country # <<>> /\ t.country = C THEN u.def ELSE 0
  BY TargetsOfTable DEF Tables!CountryTarget, Tables!TargetWith
<1> HIDE DEF u
<1>7. Tables!CountryTarget(k, C) = u.def
  BY <1>2, <1>6
<1> QED BY <1>4, <1>5, <1>7, TargetAtFields

(* The longest of the prefixes a prefix begins with is itself.              *)
LEMMA LongestIsItself ==
  ASSUME NEW prefix \in Seq(Byte), NEW S, prefix \in S,
         \A q \in S : q \in Seq(Byte) /\ Tables!HasPrefix(prefix, q)
  PROVE  Tables!FirstCompared(S) = prefix
<1>1. ASSUME NEW q \in S, q # prefix
      PROVE  Len(q) < Len(prefix)
  <2>1. /\ q \in Seq(Byte) /\ Len(q) \in Nat /\ Len(prefix) \in Nat
        /\ Len(q) <= Len(prefix) /\ SubSeq(prefix, 1, Len(q)) = q
    BY LenProperties DEF Tables!HasPrefix
  <2>2. SubSeq(prefix, 1, Len(prefix)) = prefix
    BY SubSeqFull
  <2> QED BY <1>1, <2>1, <2>2
<1>2. \A q \in S \ {prefix} : Tables!ComparedBefore(prefix, q)
  BY <1>1, LenProperties DEF Tables!ComparedBefore
<1>3. ASSUME NEW p \in S, p # prefix PROVE ~Tables!ComparedBefore(p, prefix)
  <2>1. Len(p) < Len(prefix) /\ Len(p) \in Nat /\ Len(prefix) \in Nat
    BY <1>1, <1>3, LenProperties
  <2> QED BY <2>1 DEF Tables!ComparedBefore
<1>4. \A p \in S : (\A q \in S \ {p} : Tables!ComparedBefore(p, q)) => p = prefix
  BY <1>3
<1> QED BY <1>2, <1>4 DEF Tables!FirstCompared

LEMMA PrefixAnswers ==
  ASSUME LoadInv, phase = "accepted", NEW k \in DOMAIN bundle.dispatchers,
         NEW e \in DOMAIN bundle.dispatchers[k].targets,
         NEW prefix \in ToSet(bundle.dispatchers[k].targets[e].accepted)
  PROVE  Tables!PrefixTarget(k, prefix) = bundle.dispatchers[k].targets[e].def
<1> DEFINE T == {TargetAt(k, f) : f \in DOMAIN bundle.dispatchers[k].targets}
           M == Tables!PrefixesOf(k, prefix)
           u == CHOOSE t \in T : prefix \in t.accepted
<1>1. ASSUME NEW f \in DOMAIN bundle.dispatchers[k].targets, prefix \in TargetAt(k, f).accepted
      PROVE  f = e
  <2>1. prefix \in ToSet(bundle.dispatchers[k].targets[f].accepted)
    BY <1>1, TargetAtFields
  <2>2. e # f => ToSet(bundle.dispatchers[k].targets[e].accepted)
                   \cap ToSet(bundle.dispatchers[k].targets[f].accepted) = {}
    BY TargetsApart
  <2> QED BY <2>1, <2>2
<1>2. TargetAt(k, e) \in T /\ prefix \in TargetAt(k, e).accepted
  BY TargetAtFields
<1>3. u \in T /\ prefix \in u.accepted
  BY <1>2
<1>4. u = TargetAt(k, e)
  BY <1>1, <1>3
<1>5. Tables!AcceptedPrefixes(k) = UNION {t.accepted : t \in T}
  BY TargetsOfTable DEF Tables!AcceptedPrefixes
<1>6. \A f \in DOMAIN bundle.dispatchers[k].targets : TargetAt(k, f).accepted \subseteq Seq(Byte)
  BY TargetIsTyped
<1>7. Tables!AcceptedPrefixes(k) \subseteq Seq(Byte) /\ prefix \in Tables!AcceptedPrefixes(k)
  BY <1>2, <1>5, <1>6
<1>8. Tables!HasPrefix(prefix, prefix)
  BY <1>7, SubSeqFull, LenProperties DEF Tables!HasPrefix
<1>9. prefix \in M
  BY <1>7, <1>8 DEF Tables!PrefixesOf
<1>10. Tables!FirstCompared(M) = prefix
  BY <1>7, <1>9, LongestIsItself DEF Tables!PrefixesOf
<1>11. Tables!PrefixTarget(k, prefix) = IF \E t \in T : prefix \in t.accepted THEN u.def ELSE 0
  <2>1. M # {}
    BY <1>9
  <2> QED BY <1>10, <2>1, TargetsOfTable DEF Tables!PrefixTarget, Tables!TargetWith
<1> HIDE DEF u
<1>12. Tables!PrefixTarget(k, prefix) = u.def
  BY <1>2, <1>11
<1> QED BY <1>4, <1>12, TargetAtFields

(* Every target of an accepted bundle is the answer of its lookup.          *)
LEMMA TargetsAnswered == LoadInv /\ phase = "accepted" => TargetsAnswer
<1> SUFFICES ASSUME LoadInv, phase = "accepted", NEW k \in DOMAIN bundle.dispatchers,
                    NEW t \in ToSet(bundle.dispatchers[k].targets)
             PROVE  IF CountryOf(t.country) = <<>> THEN Tables!GlobalTarget(k) = t.def
                    ELSE /\ Tables!CountryTarget(k, Tables!CountryAlias(k, CountryOf(t.country))) = t.def
                         /\ \A prefix \in ToSet(t.accepted) : Tables!PrefixTarget(k, prefix) = t.def
  BY DEF TargetsAnswer
<1>1. PICK e \in DOMAIN bundle.dispatchers[k].targets : t = bundle.dispatchers[k].targets[e]
  BY DEF ToSet
<1> QED BY <1>1, GlobalAnswers, CountryAnswers, PrefixAnswers

------------------------------------------------------------------------------
(* The steps of a canonicalizer, written out one after another.             *)

(* A sequence of steps module CanonPrograms can run.                        *)
Runs(s, isPre) ==
  /\ s \in Seq(Programs!Step)
  /\ \A i \in DOMAIN s :
       /\ Programs!NodeAccepted(s[i])
       /\ isPre => s[i].op \in Programs!PreCanonicalizationOps
       /\ s[i].op = "WHEN" => i + s[i].number <= Len(s)

(* The steps of such a list are numbered from 1.                            *)
LEMMA StepsAreNumbered ==
  ASSUME NEW s \in Seq(Programs!Step), NEW i \in DOMAIN s
  PROVE  s[i] \in Programs!Step /\ s[i].number \in Nat /\ i \in Nat /\ Len(s) \in Nat
<1>1. DOMAIN s = 1 .. Len(s) /\ Len(s) \in Nat
  BY LenProperties
<1>2. s[i] \in Programs!Step
  BY <1>1, ElementOfSeq
<1> QED BY <1>1, <1>2 DEF Programs!Step

(* The empty list, and two lists one after the other.                       *)
LEMMA EmptyRuns == ASSUME NEW isPre PROVE Runs(<<>>, isPre)
BY DEF Runs

LEMMA ConcatRuns ==
  ASSUME NEW isPre, NEW s, NEW t, Runs(s, isPre), Runs(t, isPre)
  PROVE  Runs(s \o t, isPre)
<1>1. s \in Seq(Programs!Step) /\ t \in Seq(Programs!Step)
  BY DEF Runs
<1>2. /\ s \o t \in Seq(Programs!Step) /\ Len(s \o t) = Len(s) + Len(t)
      /\ Len(s) \in Nat /\ Len(t) \in Nat
      /\ \A i \in 1 .. Len(s) + Len(t) : (s \o t)[i] = IF i <= Len(s) THEN s[i] ELSE t[i - Len(s)]
  BY <1>1, ConcatProperties, LenProperties
<1> DEFINE u == s \o t
<1> HIDE DEF u
<1>3. ASSUME NEW i \in DOMAIN u
      PROVE  /\ Programs!NodeAccepted(u[i])
             /\ isPre => u[i].op \in Programs!PreCanonicalizationOps
             /\ u[i].op = "WHEN" => i + u[i].number <= Len(u)
  <2>1. i \in 1 .. Len(s) + Len(t) /\ u[i] = IF i <= Len(s) THEN s[i] ELSE t[i - Len(s)]
    BY <1>2, LenProperties DEF u
  <2>2. CASE i <= Len(s)
    <3>1. i \in DOMAIN s /\ u[i] = s[i]
      BY <1>1, <1>2, <2>1, <2>2, LenProperties
    <3>2. s[i].op = "WHEN" => i + s[i].number <= Len(s)
      BY <3>1 DEF Runs
    <3>3. s[i].number \in Nat
      BY <1>1, <3>1, StepsAreNumbered
    <3>4. u[i].op = "WHEN" => i + u[i].number <= Len(u)
      BY <1>2, <2>1, <3>1, <3>2, <3>3 DEF u
    <3> QED BY <3>1, <3>4 DEF Runs
  <2>3. CASE ~(i <= Len(s))
    <3>1. i - Len(s) \in DOMAIN t /\ u[i] = t[i - Len(s)]
      BY <1>1, <1>2, <2>1, <2>3, LenProperties
    <3>2. t[i - Len(s)].op = "WHEN" => i - Len(s) + t[i - Len(s)].number <= Len(t)
      BY <3>1 DEF Runs
    <3>3. t[i - Len(s)].number \in Nat
      BY <1>1, <3>1, StepsAreNumbered
    <3>4. u[i].op = "WHEN" => i + u[i].number <= Len(u)
      BY <1>2, <2>1, <3>1, <3>2, <3>3 DEF u
    <3> QED BY <3>1, <3>4 DEF Runs
  <2> QED BY <2>2, <2>3
<1>4. u \in Seq(Programs!Step)
  BY <1>2 DEF u
<1>5. Runs(u, isPre)
  BY <1>3, <1>4 DEF Runs
<1> QED BY <1>5 DEF u

(* One step, and a WHEN before the steps it guards.                         *)
LEMMA OneRuns ==
  ASSUME NEW isPre, NEW step \in Programs!Step, step.op # "WHEN", Programs!NodeAccepted(step),
         isPre => step.op \in Programs!PreCanonicalizationOps
  PROVE  Runs(<<step>>, isPre)
<1>1. <<step>> \in Seq(Programs!Step) /\ DOMAIN <<step>> = {1} /\ <<step>>[1] = step
  OBVIOUS
<1> QED BY <1>1 DEF Runs

LEMMA GuardRuns ==
  ASSUME NEW s, Runs(s, FALSE), NEW step \in Programs!Step, step.op = "WHEN", step.number = Len(s)
  PROVE  Runs(<<step>> \o s, FALSE)
<1>1. s \in Seq(Programs!Step) /\ Len(s) \in Nat
  BY LenProperties DEF Runs
<1>2. <<step>> \in Seq(Programs!Step) /\ Len(<<step>>) = 1 /\ <<step>>[1] = step
  OBVIOUS
<1> DEFINE u == <<step>> \o s
<1>3. /\ u \in Seq(Programs!Step) /\ Len(u) = 1 + Len(s)
      /\ \A i \in 1 .. 1 + Len(s) : u[i] = IF i <= 1 THEN <<step>>[i] ELSE s[i - 1]
  BY <1>1, <1>2, ConcatProperties
<1> HIDE DEF u
<1>4. ASSUME NEW i \in DOMAIN u
      PROVE  Programs!NodeAccepted(u[i]) /\ (u[i].op = "WHEN" => i + u[i].number <= Len(u))
  <2>1. i \in 1 .. 1 + Len(s)
    BY <1>3, LenProperties
  <2>2. CASE i = 1
    <3>1. u[i] = step
      BY <1>2, <1>3, <2>1, <2>2
    <3> QED BY <1>1, <1>3, <2>2, <3>1 DEF Programs!NodeAccepted
  <2>3. CASE i # 1
    <3>1. i - 1 \in DOMAIN s /\ u[i] = s[i - 1]
      BY <1>1, <1>3, <2>1, <2>3, LenProperties
    <3>2. s[i - 1].op = "WHEN" => i - 1 + s[i - 1].number <= Len(s)
      BY <3>1 DEF Runs
    <3>3. s[i - 1].number \in Nat
      BY <1>1, <3>1, StepsAreNumbered
    <3>4. u[i].op = "WHEN" => i + u[i].number <= Len(u)
      BY <1>1, <1>3, <2>1, <3>1, <3>2, <3>3
    <3> QED BY <3>1, <3>4 DEF Runs
  <2> QED BY <2>2, <2>3
<1>5. Runs(u, FALSE)
  BY <1>3, <1>4 DEF Runs
<1> QED BY <1>5 DEF u

------------------------------------------------------------------------------
(* What FlattenSeq joins.                                                   *)
Joins(seqs, m, f) == f = [i \in 1 .. m |-> IF i = 1 THEN seqs[i] ELSE f[i - 1] \o seqs[i]]

(* The lists put one after another exist, as a function of how many.        *)
LEMMA JoinsExists ==
  ASSUME NEW seqs, NEW m \in Nat
  PROVE  \E f : Joins(seqs, m, f)
<1> DEFINE Missing == {k \in Nat : ~ \E f : Joins(seqs, k, f)}
<1>1. SUFFICES ASSUME Missing # {} PROVE FALSE
  OBVIOUS
<1>2. PICK k \in Missing : \A l \in Missing : k <= l
  <2>1. Missing \subseteq Nat
    OBVIOUS
  <2> HIDE DEF Missing
  <2> QED BY <1>1, <2>1, LeastExists
<1>3. CASE k = 0
  <2>1. Joins(seqs, 0, [i \in 1 .. 0 |-> <<>>])
    <3>1. 1 .. 0 = {}
      OBVIOUS
    <3> QED BY <3>1 DEF Joins
  <2> QED BY <1>2, <1>3, <2>1
<1>4. CASE k # 0
  <2>1. k - 1 \in Nat /\ k - 1 \notin Missing
    BY <1>2, <1>4
  <2>2. PICK g : Joins(seqs, k - 1, g)
    BY <2>1
  <2> DEFINE f == [i \in 1 .. k |-> IF i = k THEN (IF k = 1 THEN seqs[k] ELSE g[k - 1] \o seqs[k])
                                    ELSE g[i]]
  <2>3. ASSUME NEW i \in 1 .. k
        PROVE  f[i] = IF i = 1 THEN seqs[i] ELSE f[i - 1] \o seqs[i]
    <3>1. CASE i = k /\ k # 1
      <4>1. f[k - 1] = g[k - 1]
        BY <2>1, <3>1
      <4> QED BY <3>1, <4>1
    <3>2. CASE i = k /\ k = 1
      BY <3>2
    <3>3. CASE i # k
      <4>1. i \in 1 .. k - 1
        BY <2>1, <3>3
      <4>2. g[i] = IF i = 1 THEN seqs[i] ELSE g[i - 1] \o seqs[i]
        BY <2>2, <4>1 DEF Joins
      <4>3. i # 1 => f[i - 1] = g[i - 1]
        <5>1. i # 1 => i - 1 \in 1 .. k /\ i - 1 # k
          BY <4>1
        <5> QED BY <5>1
      <4> QED BY <3>3, <4>2, <4>3
    <3> QED BY <3>1, <3>2, <3>3
  <2>4. f = [i \in 1 .. k |-> f[i]]
    OBVIOUS
  <2> HIDE DEF f
  <2>5. f = [i \in 1 .. k |-> IF i = 1 THEN seqs[i] ELSE f[i - 1] \o seqs[i]]
    BY <2>3, <2>4
  <2> QED BY <1>2, <2>5 DEF Joins
<1> QED BY <1>3, <1>4

(* Any number of lists one after another.                                   *)
LEMMA FlattenRuns ==
  ASSUME NEW isPre, NEW m \in Nat, NEW seqs, seqs \in Seq(Seq(Programs!Step)), Len(seqs) = m,
         \A k \in 1 .. m : Runs(seqs[k], isPre)
  PROVE  Runs(FlattenSeq(seqs), isPre)
<1>1. CASE m = 0
  <2>1. seqs = <<>>
    BY <1>1, EmptySeq
  <2> QED BY <2>1, EmptyRuns DEF FlattenSeq
<1>2. CASE m # 0
  <2> DEFINE f == CHOOSE f : Joins(seqs, m, f)
  <2>1. Joins(seqs, m, f)
    BY JoinsExists
  <2>2. FlattenSeq(seqs) = f[m]
    BY <1>2 DEF FlattenSeq, Joins
  <2> HIDE DEF f
  <2> DEFINE Bad == {i \in 1 .. m : ~Runs(f[i], isPre)}
  <2>3. Bad = {}
    <3>1. SUFFICES ASSUME Bad # {} PROVE FALSE
      OBVIOUS
    <3>2. PICK i \in Bad : \A l \in Bad : i <= l
      <4>1. Bad \subseteq Nat
        OBVIOUS
      <4> HIDE DEF Bad
      <4> QED BY <3>1, <4>1, LeastExists
    <3>3. f[i] = IF i = 1 THEN seqs[i] ELSE f[i - 1] \o seqs[i]
      BY <2>1, <3>2 DEF Joins
    <3>4. CASE i = 1
      BY <3>2, <3>3, <3>4
    <3>5. CASE i # 1
      <4>1. i - 1 \in 1 .. m /\ ~(i <= i - 1)
        BY <3>2, <3>5
      <4>2. Runs(f[i - 1], isPre)
        BY <3>2, <4>1
      <4>3. Runs(f[i - 1] \o seqs[i], isPre)
        BY <3>2, <4>2, ConcatRuns
      <4> QED BY <3>2, <3>3, <3>5, <4>3
    <3> QED BY <3>4, <3>5
  <2>4. m \in 1 .. m
    BY <1>2
  <2> QED BY <2>2, <2>3, <2>4
<1> QED BY <1>1, <1>2

------------------------------------------------------------------------------
(* The steps of each node of a program, from its leaves to its root.        *)

(* What Flattened makes of node i, from what it makes of the nodes below.   *)
Under(p, i, below) == FlattenSeq([k \in DOMAIN p.nodes[i].in |-> below[p.nodes[i].in[k]]])

(* The steps of one node, and those of the first m nodes.                   *)
FlatNode(p, i, below) ==
  LET n == p.nodes[i]
      under == Under(p, i, below)
  IN CASE opSpecs[n.op].output # "step" -> <<>>
       [] n.op = "CANON_SEQUENCE" -> under
       [] n.op = "CANON_WHEN" -> <<[StepOf(n, Len(under)) EXCEPT !.op = "WHEN"]>> \o under
       [] OTHER -> <<StepOf(n, NumberOf(n))>>

Flats(p, m, f) == f = [i \in 1 .. m |-> FlatNode(p, i, f)]

(* It reads no more than the operands.                                      *)
LEMMA FlatReadsOperands ==
  ASSUME NEW p, NEW i, NEW f, NEW g,
         \A k \in DOMAIN p.nodes[i].in : f[p.nodes[i].in[k]] = g[p.nodes[i].in[k]]
  PROVE  FlatNode(p, i, f) = FlatNode(p, i, g)
<1>1. [k \in DOMAIN p.nodes[i].in |-> f[p.nodes[i].in[k]]]
        = [k \in DOMAIN p.nodes[i].in |-> g[p.nodes[i].in[k]]]
  OBVIOUS
<1>2. Under(p, i, f) = Under(p, i, g)
  BY <1>1 DEF Under
<1> QED BY <1>2 DEF FlatNode

(* There is such a function, by the least m without one.                    *)
LEMMA FlatsExists ==
  ASSUME NEW p, NEW m \in Nat,
         \A i \in 1 .. m : \A k \in DOMAIN p.nodes[i].in : p.nodes[i].in[k] \in 1 .. i - 1
  PROVE  \E f : Flats(p, m, f)
<1> DEFINE Missing == {k \in 0 .. m : ~ \E f : Flats(p, k, f)}
<1>1. SUFFICES ASSUME Missing # {} PROVE FALSE
  <2>1. m \in 0 .. m
    OBVIOUS
  <2> QED BY <1>1, <2>1
<1>2. PICK k \in Missing : \A l \in Missing : k <= l
  <2>1. Missing \subseteq Nat
    OBVIOUS
  <2> HIDE DEF Missing
  <2> QED BY <1>1, <2>1, LeastExists
<1>3. CASE k = 0
  <2>1. Flats(p, 0, [i \in 1 .. 0 |-> <<>>])
    <3>1. 1 .. 0 = {}
      OBVIOUS
    <3> QED BY <3>1 DEF Flats
  <2> QED BY <1>2, <1>3, <2>1
<1>4. CASE k # 0
  <2>1. k - 1 \in 0 .. m /\ k - 1 \notin Missing /\ k \in 1 .. m
    BY <1>2, <1>4
  <2>2. PICK g : Flats(p, k - 1, g)
    BY <2>1
  <2> DEFINE f == [i \in 1 .. k |-> IF i = k THEN FlatNode(p, k, g) ELSE g[i]]
  <2>3. \A i \in 1 .. k - 1 : f[i] = g[i]
    BY <2>1
  <2>4. ASSUME NEW i \in 1 .. k
        PROVE  f[i] = FlatNode(p, i, f)
    <3>1. f[i] = FlatNode(p, i, g)
      BY <2>1, <2>2 DEF Flats
    <3>2. i \in 1 .. m
      BY <2>1
    <3>3. ASSUME NEW x \in DOMAIN p.nodes[i].in
          PROVE  f[p.nodes[i].in[x]] = g[p.nodes[i].in[x]]
      <4>1. p.nodes[i].in[x] \in 1 .. i - 1
        BY <3>2
      <4>2. p.nodes[i].in[x] \in 1 .. k - 1
        BY <2>1, <4>1
      <4> QED BY <2>3, <4>2
    <3> HIDE DEF f
    <3>4. FlatNode(p, i, f) = FlatNode(p, i, g)
      BY <3>3, FlatReadsOperands
    <3> QED BY <3>1, <3>4
  <2>5. f = [i \in 1 .. k |-> f[i]]
    OBVIOUS
  <2> HIDE DEF f
  <2>6. f = [i \in 1 .. k |-> FlatNode(p, i, f)]
    BY <2>4, <2>5
  <2> QED BY <1>2, <2>6 DEF Flats
<1> QED BY <1>3, <1>4

(* The constants of a step that passed check 13.                            *)
LEMMA StepRequires ==
  /\ \A op \in {"REMOVE_CHARS", "REPLACE_PREFIX", "PREPEND", "APPEND", "INSERT", "LEFT_PAD"} :
       "text" \in opSpecs[op].required
  /\ "replacement" \in opSpecs["REPLACE_PREFIX"].required
<1>1. \A op \in {"REMOVE_CHARS", "REPLACE_PREFIX", "PREPEND", "APPEND", "INSERT", "LEFT_PAD"} :
        opSpecs[op] = canonicalizationOps[op]
  BY Lookups DEF StepNames
<1> QED BY <1>1 DEF canonicalizationOps, Canon, opSpec

(* The constants of a step are within the limits.                           *)
LEMMA StepBounded ==
  ASSUME NEW n, NEW bound, OperationBounded(n, bound)
  PROVE  /\ n.op \in {"REMOVE_CHARS", "REPLACE_PREFIX", "PREPEND", "APPEND", "INSERT"} => n.par.text # <<>>
         /\ n.op = "LEFT_PAD" => n.par.text # <<>>
         /\ n.op = "REPLACE_PREFIX" => n.par.text # n.par.replacement
<1>1. n.op \in NonEmptyText => n.par.text # <<>>
  BY DEF OperationBounded
<1>2. n.op \in {"REMOVE_CHARS", "REPLACE_PREFIX", "PREPEND", "APPEND", "INSERT"} => n.op \in NonEmptyText
  BY DEF NonEmptyText
<1>3. n.op = "REPLACE_PREFIX" => n.par.text # n.par.replacement
  BY DEF OperationBounded
<1>4. n.op = "LEFT_PAD" => RuneCount(n.par.text) = 1
  BY DEF OperationBounded
<1>5. RuneCount(<<>>) = 0
  <2>1. RuneStarts(<<>>) = {}
    BY DEF RuneStarts
  <2> QED BY <2>1, FS_EmptySet DEF RuneCount
<1> QED BY <1>1, <1>2, <1>3, <1>4, <1>5

(* The fields of a step.                                                    *)
LEMMA StepFields ==
  ASSUME NEW n, NodeDecoded(n), NEW number \in Nat
  PROVE  /\ StepOf(n, number).op = n.op /\ StepOf(n, number).number = number
         /\ StepOf(n, number).text \in Seq(Byte) /\ StepOf(n, number).replacement \in Seq(Byte)
         /\ Has(n, "text") => StepOf(n, number).text = n.par["text"]
         /\ Has(n, "replacement") => StepOf(n, number).replacement = n.par["replacement"]
<1>1. /\ ParameterType["text"] = Seq(Byte) /\ ParameterType["replacement"] = Seq(Byte)
  BY DEF ParameterType
<1>2. Text(n, "text") \in Seq(Byte) /\ Text(n, "replacement") \in Seq(Byte)
  BY <1>1 DEF Text, Has, NodeDecoded
<1> QED BY <1>2 DEF StepOf, Text

(* The number of a step is a natural.                                       *)
LEMMA NumberIsNatural ==
  ASSUME NEW n, NodeDecoded(n)
  PROVE  NumberOf(n) \in Nat
<1>1. ParameterType["index"] = Nat /\ ParameterType["length"] = Nat
  BY DEF ParameterType
<1> QED BY <1>1 DEF NumberOf, Has, NodeDecoded

(* The steps under a node, when the nodes below give steps that run.        *)
LEMMA UnderRuns ==
  ASSUME NEW p, NEW i, p.nodes[i].in \in Seq(Position), NEW isPre, NEW f,
         \A k \in DOMAIN p.nodes[i].in : Runs(f[p.nodes[i].in[k]], isPre)
  PROVE  Runs(Under(p, i, f), isPre)
<1> DEFINE in == p.nodes[i].in
           seqs == [k \in DOMAIN in |-> f[in[k]]]
<1>1. DOMAIN in = 1 .. Len(in) /\ Len(in) \in Nat
  BY LenProperties
<1>2. \A k \in 1 .. Len(in) : seqs[k] = f[in[k]] /\ seqs[k] \in Seq(Programs!Step)
  BY <1>1 DEF Runs
<1>3. seqs \in Seq(Seq(Programs!Step)) /\ Len(seqs) = Len(in)
  <2>1. seqs \in [1 .. Len(in) -> Seq(Programs!Step)]
    BY <1>1, <1>2
  <2>2. DOMAIN seqs = 1 .. Len(in)
    BY <1>1
  <2> HIDE DEF seqs
  <2>3. seqs \in Seq(Seq(Programs!Step))
    BY <1>1, <2>1, SeqDef
  <2>4. DOMAIN seqs = 1 .. Len(seqs) /\ Len(seqs) \in Nat
    BY <2>3, LenProperties
  <2>5. \A a, b \in Nat : 1 .. a = 1 .. b => a = b
    <3>1. \A a, b \in Nat : 1 .. a \subseteq 1 .. b => a <= b
      <4>1. \A a \in Nat : a = 0 \/ a \in 1 .. a
        OBVIOUS
      <4> QED BY <4>1
    <3> QED BY <3>1
  <2> QED BY <1>1, <2>2, <2>3, <2>4, <2>5
<1>4. \A k \in 1 .. Len(in) : Runs(seqs[k], isPre)
  BY <1>1
<1>5. Runs(FlattenSeq(seqs), isPre)
  <2> HIDE DEF seqs
  <2> QED BY <1>1, <1>3, <1>4, FlattenRuns
<1> QED BY <1>5 DEF Under

(* A step is one of the operations of the engine.                           *)
LEMMA StepNamesAreOps ==
  /\ StepNames \ {"CANON_SEQUENCE", "CANON_WHEN"} \subseteq Programs!Ops
  /\ "WHEN" \in Programs!Ops /\ "WHEN" \notin StepNames
  /\ preCanonicalizationOps \ {"CANON_SEQUENCE"} \subseteq Programs!PreCanonicalizationOps
  /\ "CANON_WHEN" \notin preCanonicalizationOps
BY DEF StepNames, Programs!Ops, Programs!PreCanonicalizationOps, preCanonicalizationOps

(* A step on its own.                                                       *)
LEMMA NodeRuns ==
  ASSUME NEW p, NEW isPre, Accepted(p, isPre), NEW i \in Indices(p),
         p.nodes[i].op \in StepNames \ {"CANON_SEQUENCE", "CANON_WHEN"}
  PROVE  Runs(<<StepOf(p.nodes[i], NumberOf(p.nodes[i]))>>, isPre)
<1> DEFINE n == p.nodes[i]
           step == StepOf(n, NumberOf(n))
<1>1. NodeDecoded(n) /\ NodePassed(p, i)
  BY DEF Accepted, ProgramDecoded, Indices
<1>2. /\ step.op = n.op /\ step.number \in Nat /\ step.text \in Seq(Byte)
      /\ step.replacement \in Seq(Byte)
      /\ Has(n, "text") => step.text = n.par["text"]
      /\ Has(n, "replacement") => step.replacement = n.par["replacement"]
  BY <1>1, NumberIsNatural, StepFields
<1>3. step \in Programs!Step
  <2>1. step = [op |-> step.op, text |-> step.text, replacement |-> step.replacement,
                number |-> step.number]
    BY DEF StepOf
  <2>2. Programs!Byte = Byte
    BY DEF Programs!Byte, Byte
  <2> HIDE DEF step
  <2> QED BY <1>2, <2>1, <2>2, StepNamesAreOps DEF Programs!Step
<1>4. PICK bound : OperationBounded(n, bound)
  BY <1>1, PassedNode
<1>5. opSpecs[n.op].required \subseteq DOMAIN n.par
  BY <1>1, PassedNode DEF ParametersFit
<1>6. Programs!NodeAccepted(step)
  <2>1. n.op \in {"REMOVE_CHARS", "REPLACE_PREFIX", "PREPEND", "APPEND", "INSERT", "LEFT_PAD"} =>
          Has(n, "text")
    BY <1>5, StepRequires DEF Has
  <2>2. n.op = "REPLACE_PREFIX" => Has(n, "replacement")
    BY <1>5, StepRequires DEF Has
  <2>3. n.op \in {"REMOVE_CHARS", "REPLACE_PREFIX", "PREPEND", "APPEND", "INSERT", "LEFT_PAD"} =>
          step.text # <<>>
    BY <1>2, <1>4, <2>1, StepBounded
  <2>4. n.op = "REPLACE_PREFIX" => step.replacement # step.text
    BY <1>2, <1>4, <2>1, <2>2, StepBounded
  <2> HIDE DEF step
  <2> QED BY <1>2, <2>3, <2>4 DEF Programs!NodeAccepted
<1>7. isPre => step.op \in Programs!PreCanonicalizationOps
  <2>1. isPre => n.op \in preCanonicalizationOps
    BY AcceptedNode DEF checkCategory
  <2> QED BY <1>2, <2>1, StepNamesAreOps
<1>8. step.op # "WHEN"
  BY <1>2, StepNamesAreOps
<1> HIDE DEF step
<1>9. Runs(<<step>>, isPre)
  BY <1>3, <1>6, <1>7, <1>8, OneRuns
<1> QED BY <1>9 DEF step

(* Whatever the loader accepts flattens into steps that run.                *)
LEMMA FlatNodeRuns ==
  ASSUME NEW p, NEW isPre, Accepted(p, isPre), NEW i \in Indices(p), NEW f,
         \A k \in DOMAIN p.nodes[i].in : Runs(f[p.nodes[i].in[k]], isPre)
  PROVE  Runs(FlatNode(p, i, f), isPre)
<1> DEFINE n == p.nodes[i]
           under == Under(p, i, f)
<1>1. NodeDecoded(n) /\ n.in \in Seq(Position)
  BY DEF Accepted, ProgramDecoded, NodeDecoded, Indices
<1>2. Runs(under, isPre)
  BY <1>1, UnderRuns
<1>3. n.output = opSpecs[n.op].output /\ n.op \in OutputNames(n.output)
  BY AcceptedNode
<1> HIDE DEF under
<1>4. CASE opSpecs[n.op].output # "step"
  <2>1. n.op \notin StepNames
    BY <1>4, StepShapes DEF Shape
  <2>2. n.op # "CANON_SEQUENCE" /\ n.op # "CANON_WHEN"
    BY <2>1 DEF StepNames
  <2>3. FlatNode(p, i, f) = <<>>
    BY <1>4, <2>2 DEF FlatNode
  <2> QED BY <2>3, EmptyRuns
<1>5. CASE opSpecs[n.op].output = "step"
  <2>1. n.op \in StepNames
    BY <1>3, <1>5 DEF OutputNames
  <2>2. CASE n.op = "CANON_SEQUENCE"
    <3>1. FlatNode(p, i, f) = under
      BY <1>5, <2>2 DEF FlatNode, under
    <3> QED BY <1>2, <3>1
  <2>3. CASE n.op = "CANON_WHEN"
    <3> DEFINE step == [StepOf(n, Len(under)) EXCEPT !.op = "WHEN"]
    <3>1. FlatNode(p, i, f) = <<step>> \o under
      BY <1>5, <2>3 DEF FlatNode, under
    <3>2. ~isPre
      BY <2>3, AcceptedNode, StepNamesAreOps DEF checkCategory
    <3>3. Len(under) \in Nat
      BY <1>2, LenProperties DEF Runs
    <3>4. /\ StepOf(n, Len(under)).text \in Seq(Byte) /\ StepOf(n, Len(under)).replacement \in Seq(Byte)
      BY <1>1, <3>3, StepFields
    <3>5. step = [op |-> "WHEN", text |-> StepOf(n, Len(under)).text,
                  replacement |-> StepOf(n, Len(under)).replacement, number |-> Len(under)]
      BY DEF StepOf
    <3> HIDE DEF step
    <3>6. step \in Programs!Step /\ step.op = "WHEN" /\ step.number = Len(under)
      <4>1. Programs!Byte = Byte
        BY DEF Programs!Byte, Byte
      <4> QED BY <3>3, <3>4, <3>5, <4>1, StepNamesAreOps DEF Programs!Step
    <3>7. Runs(under, FALSE)
      BY <1>2, <3>2 DEF Runs
    <3>8. Runs(<<step>> \o under, FALSE)
      BY <3>6, <3>7, GuardRuns
    <3> QED BY <3>1, <3>2, <3>8 DEF Runs
  <2>4. CASE n.op \in StepNames \ {"CANON_SEQUENCE", "CANON_WHEN"}
    <3>1. FlatNode(p, i, f) = <<StepOf(n, NumberOf(n))>>
      BY <1>5, <2>4 DEF FlatNode
    <3> QED BY <2>4, <3>1, NodeRuns
  <2> QED BY <2>1, <2>2, <2>3, <2>4
<1> QED BY <1>4, <1>5

(* Every canonicalizer of the loader, written out, runs.                    *)
LEMMA FlattenedRuns ==
  ASSUME NEW p, NEW isPre, Accepted(p, isPre)
  PROVE  Runs(Flattened(p), isPre)
<1> DEFINE m == Len(p.nodes)
           f == CHOOSE f : Flats(p, m, f)
<1>1. m \in Nat /\ Indices(p) = 1 .. m
  BY LenProperties DEF Accepted, ProgramDecoded, Indices
<1>2. ASSUME NEW i \in Indices(p), NEW k \in DOMAIN p.nodes[i].in
      PROVE  p.nodes[i].in[k] \in 1 .. i - 1 /\ p.nodes[i].in[k] \in Indices(p)
  <2>1. p.nodes[i].in[k] \in Indices(p) /\ p.nodes[i].in[k] < i
    BY OperandType
  <2> QED BY <1>1, <2>1
<1>3. Flats(p, m, f)
  BY <1>1, <1>2, FlatsExists
<1>4. Flattened(p) = f[p.root]
  <2>1. f = CHOOSE g : g = [i \in Indices(p) |-> FlatNode(p, i, g)]
    BY <1>1 DEF Flats
  <2> QED BY <2>1 DEF Flattened, FlatNode, Under
<1> HIDE DEF f, m
<1> DEFINE Bad == {i \in Indices(p) : ~Runs(f[i], isPre)}
<1>5. Bad = {}
  <2>1. SUFFICES ASSUME Bad # {} PROVE FALSE
    OBVIOUS
  <2>2. PICK i \in Bad : \A l \in Bad : i <= l
    <3>1. Bad \subseteq Nat
      BY <1>1
    <3> HIDE DEF Bad
    <3> QED BY <2>1, <3>1, LeastExists
  <2>3. i \in Indices(p) /\ ~Runs(f[i], isPre)
    BY <2>2
  <2>4. f[i] = FlatNode(p, i, f)
    BY <1>1, <1>3, <2>3 DEF Flats
  <2>5. ASSUME NEW k \in DOMAIN p.nodes[i].in PROVE Runs(f[p.nodes[i].in[k]], isPre)
    <3>1. p.nodes[i].in[k] \in 1 .. i - 1 /\ p.nodes[i].in[k] \in Indices(p) /\ i \in 1 .. m
      BY <1>1, <1>2, <2>3
    <3>2. ~(i <= p.nodes[i].in[k])
      BY <1>1, <3>1
    <3> QED BY <2>2, <3>1, <3>2
  <2> QED BY <2>3, <2>4, <2>5, FlatNodeRuns
<1>6. p.root \in Indices(p)
  BY AcceptedRoot
<1> QED BY <1>4, <1>5, <1>6

------------------------------------------------------------------------------
(* The steps of the bundle are steps the engine can run.                    *)

(* The programs of a definition flatten into steps that run.                *)
LEMMA StepsRun ==
  ASSUME LoadInv, phase = "accepted", NEW k \in DOMAIN bundle.identifiers
  PROVE  \E isPre \in BOOLEAN : Runs(Flattened(Program(bundle, bundle.identifiers[k].canon)), isPre)
<1> DEFINE id == bundle.identifiers[k].canon
<1>1. IsProgram(bundle, id, "canonicalization") /\ phase \in AfterNodes
  BY AcceptedBundle DEF IdentifierFormed
<1>2. Accepted(Program(bundle, id), id \in preCanonicalizers(bundle))
  BY <1>1, FoundIsAccepted
<1> DEFINE p == Program(bundle, id)
           isPre == id \in preCanonicalizers(bundle)
<1>3. Accepted(p, isPre) /\ isPre \in BOOLEAN
  BY <1>2
<1> HIDE DEF isPre, p
<1>4. Runs(Flattened(p), isPre)
  BY <1>3, FlattenedRuns
<1>5. \E b \in BOOLEAN : Runs(Flattened(p), b)
  BY <1>3, <1>4
<1> QED BY <1>5 DEF p

(* The steps of the pre-canonicalizers.                                     *)
LEMMA PreStepsRun ==
  ASSUME LoadInv, phase = "accepted", NEW k \in DOMAIN bundle.identifiers
  PROVE  Runs(Flattened(Program(bundle, DispatcherOwning(bundle, bundle.identifiers[k].id).pre)), TRUE)
<1> DEFINE id == bundle.identifiers[k].id
           d == DispatcherOwning(bundle, id)
<1>1. \E j \in DOMAIN bundle.dispatchers : \E t \in ToSet(bundle.dispatchers[j].targets) : t.def = id
  BY AcceptedBundle, DefinitionIsTarget DEF ToSet
<1>2. d \in ToSet(bundle.dispatchers)
  BY <1>1 DEF DispatcherOwning, ToSet
<1> HIDE DEF d
<1>3. PICK j \in DOMAIN bundle.dispatchers : d = bundle.dispatchers[j]
  BY <1>2 DEF ToSet
<1>4. IsProgram(bundle, d.pre, "canonicalization") /\ phase \in AfterNodes
  BY <1>3, AcceptedBundle DEF KindsClaimed
<1>5. d.pre \in preCanonicalizers(bundle)
  BY <1>3 DEF preCanonicalizers
<1>6. Accepted(Program(bundle, d.pre), d.pre \in preCanonicalizers(bundle))
  BY <1>4, FoundIsAccepted
<1>7. Accepted(Program(bundle, d.pre), TRUE)
  BY <1>5, <1>6
<1>8. Runs(Flattened(Program(bundle, d.pre)), TRUE)
  BY <1>7, FlattenedRuns
<1> QED BY <1>8 DEF d

(* The target the steps of a definition read.                               *)
LEMMA StepsTargetIsTarget ==
  ASSUME LoadInv, phase = "accepted", NEW k \in DOMAIN bundle.identifiers
  PROVE  StepsTarget(bundle, bundle.identifiers[k].id) \in Programs!Target
<1> DEFINE id == bundle.identifiers[k].id
           t == CHOOSE t \in TargetsOf(bundle) : t.def = id
<1>1. \E j \in DOMAIN bundle.dispatchers : \E u \in ToSet(bundle.dispatchers[j].targets) : u.def = id
  BY AcceptedBundle, DefinitionIsTarget DEF ToSet
<1>2. t \in TargetsOf(bundle)
  BY <1>1 DEF TargetsOf
<1>3. StepsTarget(bundle, id) =
        [lead |-> IF Present(t.prefix) THEN t.prefix[1] ELSE CountryOf(t.country),
         acceptedPrefixes |-> ToSet(t.accepted)]
  BY DEF StepsTarget
<1> HIDE DEF t
<1>4. PICK j \in DOMAIN bundle.dispatchers : t \in ToSet(bundle.dispatchers[j].targets)
  BY <1>2 DEF TargetsOf
<1>5. PICK e \in DOMAIN bundle.dispatchers[j].targets : t = bundle.dispatchers[j].targets[e]
  BY <1>4 DEF ToSet
<1>6. CountryOf(t.country) \in Seq(Byte)
  BY <1>5, TargetCountry
<1>7. t.prefix \in Optional(Seq(Byte)) /\ t.accepted \in Seq(Seq(Byte))
  BY <1>5, AcceptedBundle, TargetFields
<1>8. Present(t.prefix) => t.prefix[1] \in Seq(Byte)
  BY <1>7, OptionalValue
<1>9. ToSet(t.accepted) \subseteq Seq(Byte)
  BY <1>7, LenProperties, ElementOfSeq DEF ToSet
<1>10. Programs!Byte = Byte
  BY DEF Programs!Byte, Byte
<1> DEFINE lead == IF Present(t.prefix) THEN t.prefix[1] ELSE CountryOf(t.country)
<1>11. lead \in Seq(Byte)
  BY <1>6, <1>8
<1> HIDE DEF lead
<1>12. [lead |-> lead, acceptedPrefixes |-> ToSet(t.accepted)] \in Programs!Target
  BY <1>9, <1>10, <1>11 DEF Programs!Target
<1> QED BY <1>3, <1>12 DEF lead

(* ProgramsAccepted, of the programs.                                       *)
ProgramsForm(n, Pre, Of, S, T) ==
  /\ n \in Nat \ {0}
  /\ MaxInputBytes \in Nat
  /\ Pre \in [1 .. n -> Seq(Programs!Step)]
  /\ \A p \in {Of[d] : d \in 1 .. n} : S[p] \in Seq(Programs!Step)
  /\ \A d \in 1 .. n : \A i \in DOMAIN Pre[d] : Programs!NodeAccepted(Pre[d][i])
  /\ \A p \in {Of[d] : d \in 1 .. n} : \A i \in DOMAIN S[p] : Programs!NodeAccepted(S[p][i])
  /\ T \in [1 .. n -> Programs!Target]
  /\ \A d \in 1 .. n : \A i \in DOMAIN Pre[d] : Pre[d][i].op \in Programs!PreCanonicalizationOps
  /\ \A p \in {Of[d] : d \in 1 .. n} : \A i \in DOMAIN S[p] :
       S[p][i].op = "WHEN" => i + S[p][i].number <= Len(S[p])

(* The programs of an accepted bundle are what module CanonPrograms         *)
(* assumes.                                                                 *)
LEMMA StepsAreAccepted ==
  ASSUME LoadInv, phase = "accepted", bundle.identifiers # <<>>
  PROVE  Programs!ProgramsAccepted
<1> DEFINE n == Len(bundle.identifiers)
           PreOf(k) == Flattened(Program(bundle, DispatcherOwning(bundle, bundle.identifiers[k].id).pre))
           StepsOfID(id) == Flattened(Program(bundle, id))
           IDs == {bundle.identifiers[k].canon : k \in DOMAIN bundle.identifiers}
           Pre == [k \in DOMAIN bundle.identifiers |-> 
              Flattened(Program(bundle, DispatcherOwning(bundle, bundle.identifiers[k].id).pre))]
           Of == [k \in DOMAIN bundle.identifiers |-> bundle.identifiers[k].canon]
           S == [id \in {bundle.identifiers[k].canon : k \in DOMAIN bundle.identifiers} |->
              Flattened(Program(bundle, id))]
           T == [k \in DOMAIN bundle.identifiers |-> StepsTarget(bundle, bundle.identifiers[k].id)]
<1>1. n \in Nat \ {0} /\ DOMAIN bundle.identifiers = 1 .. n
  <2>1. n \in Nat /\ DOMAIN bundle.identifiers = 1 .. n
    BY AcceptedBundle, BundleShape
  <2>2. bundle.identifiers \in Seq(IdentifierType)
    BY AcceptedBundle DEF BundleDecoded
  <2>3. n # 0
    BY <2>2, EmptySeq
  <2> QED BY <2>1, <2>3
<1>2. \A k \in 1 .. n : Runs(PreOf(k), TRUE)
  BY <1>1, PreStepsRun
<1>3. \A id \in IDs : \E isPre \in BOOLEAN : Runs(StepsOfID(id), isPre)
  BY <1>1, StepsRun
<1>4. \A k \in 1 .. n : StepsTarget(bundle, bundle.identifiers[k].id) \in Programs!Target
  BY <1>1, StepsTargetIsTarget
<1>5. T \in [1 .. n -> Programs!Target]
  BY <1>1, <1>4
<1>6. DOMAIN Pre = 1 .. n /\ Pre = [k \in 1 .. n |-> Pre[k]] /\ \A k \in 1 .. n : Pre[k] = PreOf(k)
  BY <1>1
<1>7. \A id \in IDs : S[id] = StepsOfID(id)
  OBVIOUS
<1>8. {Of[k] : k \in 1 .. n} = IDs
  BY <1>1
<1> HIDE DEF n, PreOf, StepsOfID, IDs, Pre, Of, S, T
<1>9. \A k \in 1 .. n : Runs(Pre[k], TRUE)
  BY <1>2, <1>6
<1>10. \A id \in IDs : \E isPre \in BOOLEAN : Runs(S[id], isPre)
  BY <1>3, <1>7
<1>11. Pre \in [1 .. n -> Seq(Programs!Step)]
  <2>1. \A k \in 1 .. n : Pre[k] \in Seq(Programs!Step)
    BY <1>9 DEF Runs
  <2> QED BY <1>6, <2>1
<1>12. \A k \in 1 .. n : \A i \in DOMAIN Pre[k] :
         Programs!NodeAccepted(Pre[k][i]) /\ Pre[k][i].op \in Programs!PreCanonicalizationOps
  BY <1>9 DEF Runs
<1>13. \A id \in IDs :
         /\ S[id] \in Seq(Programs!Step)
         /\ \A i \in DOMAIN S[id] :
              /\ Programs!NodeAccepted(S[id][i])
              /\ S[id][i].op = "WHEN" => i + S[id][i].number <= Len(S[id])
  BY <1>10 DEF Runs
<1>14. ProgramsForm(n, Pre, Of, S, T)
  BY <1>1, <1>5, <1>8, <1>11, <1>12, <1>13, LimitsAssumption DEF ProgramsForm
<1> QED
  BY <1>14 DEF ProgramsForm, Programs!ProgramsAccepted, Programs!Definitions, Programs!Programs,
     n, Pre, Of, S, T

(* Whatever bundle the loader accepts, the engine can serve: its tables     *)
(* answer each lookup as modules Dispatch and CanonPrograms assume, and     *)
(* its steps are within what the workspace handles (Load, load.go).         *)
THEOREM AcceptedIsServed == GenerationSpec => []AcceptedIsServable
<1>1. LoadInv => AcceptedIsServable
  BY TablesAreAccepted, StepsAreAccepted, TargetsAnswered DEF AcceptedIsServable
<1> QED BY <1>1, LoadInvariance, PTL

------------------------------------------------------------------------------
(* Two tokens in ascending order are two tokens.                            *)

(* The order of tokens is strict.                                           *)
LEMMA SamePrefix ==
  ASSUME NEW p \in Seq(Byte), NEW q \in Seq(Byte), NEW k \in Nat, k <= Len(p), k <= Len(q)
  PROVE  SubSeq(p, 1, k) = SubSeq(q, 1, k) <=> \A j \in 1 .. k : p[j] = q[j]
<1>1. Len(p) \in Nat /\ Len(q) \in Nat
  BY LenProperties
<1>2. \A j \in 1 .. k : p[j] \in Byte /\ q[j] \in Byte
  BY <1>1, ElementOfSeq
<1>3. /\ SubSeq(p, 1, k) \in Seq(Byte) /\ Len(SubSeq(p, 1, k)) = k
      /\ \A j \in 1 .. k : SubSeq(p, 1, k)[j] = p[j]
  <2>1. /\ SubSeq(p, 1, k) \in Seq(Byte)
        /\ Len(SubSeq(p, 1, k)) = IF 1 <= k THEN k - 1 + 1 ELSE 0
        /\ \A j \in 1 .. k - 1 + 1 : SubSeq(p, 1, k)[j] = p[1 + j - 1]
    BY <1>2, SubSeqProperties
  <2> QED BY <2>1
<1>4. /\ SubSeq(q, 1, k) \in Seq(Byte) /\ Len(SubSeq(q, 1, k)) = k
      /\ \A j \in 1 .. k : SubSeq(q, 1, k)[j] = q[j]
  <2>1. /\ SubSeq(q, 1, k) \in Seq(Byte)
        /\ Len(SubSeq(q, 1, k)) = IF 1 <= k THEN k - 1 + 1 ELSE 0
        /\ \A j \in 1 .. k - 1 + 1 : SubSeq(q, 1, k)[j] = q[1 + j - 1]
    BY <1>2, SubSeqProperties
  <2> QED BY <2>1
<1>5. ASSUME SubSeq(p, 1, k) = SubSeq(q, 1, k), NEW j \in 1 .. k PROVE p[j] = q[j]
  BY <1>3, <1>4, <1>5
<1>6. ASSUME \A j \in 1 .. k : p[j] = q[j] PROVE SubSeq(p, 1, k) = SubSeq(q, 1, k)
  <2>1. \A j \in 1 .. k : SubSeq(p, 1, k)[j] = SubSeq(q, 1, k)[j]
    BY <1>3, <1>4, <1>6
  <2> QED BY <1>3, <1>4, <2>1, SeqEqual
<1> QED BY <1>5, <1>6

(* One token is before another at the first byte where they differ.         *)
DiffersAt(p, q, k) ==
  /\ k \in 1 .. Len(q) /\ k - 1 <= Len(p)
  /\ k > Len(p) \/ p[k] < q[k]
  /\ \A j \in 1 .. k - 1 : p[j] = q[j]

(* BytesBefore is that order.                                               *)
LEMMA BeforeAt ==
  ASSUME NEW p \in Seq(Byte), NEW q \in Seq(Byte)
  PROVE  BytesBefore(p, q) <=> \E k \in Nat : DiffersAt(p, q, k)
<1>1. Len(p) \in Nat /\ Len(q) \in Nat /\ DOMAIN q = 1 .. Len(q)
  BY LenProperties
<1>2. ASSUME NEW k \in 1 .. Len(q), k - 1 <= Len(p)
      PROVE  SubSeq(p, 1, k - 1) = SubSeq(q, 1, k - 1) <=> \A j \in 1 .. k - 1 : p[j] = q[j]
  <2>1. k - 1 \in Nat /\ k - 1 <= Len(q)
    BY <1>1
  <2> QED BY <1>2, <2>1, SamePrefix
<1>3. ASSUME BytesBefore(p, q) PROVE \E k \in Nat : DiffersAt(p, q, k)
  <2>1. PICK k \in DOMAIN q : /\ k > Len(p) \/ p[k] < q[k]
                             /\ k - 1 <= Len(p) /\ SubSeq(p, 1, k - 1) = SubSeq(q, 1, k - 1)
    BY <1>3 DEF BytesBefore
  <2>2. k \in 1 .. Len(q) /\ k \in Nat
    BY <1>1
  <2>3. \A j \in 1 .. k - 1 : p[j] = q[j]
    BY <1>2, <2>1, <2>2
  <2>4. DiffersAt(p, q, k)
    BY <2>1, <2>2, <2>3 DEF DiffersAt
  <2> QED BY <2>2, <2>4
<1>4. ASSUME NEW k \in Nat, DiffersAt(p, q, k) PROVE BytesBefore(p, q)
  <2>1. k \in 1 .. Len(q) /\ k - 1 <= Len(p) /\ (k > Len(p) \/ p[k] < q[k])
    BY <1>4 DEF DiffersAt
  <2>2. SubSeq(p, 1, k - 1) = SubSeq(q, 1, k - 1)
    BY <1>2, <1>4, <2>1 DEF DiffersAt
  <2>3. k \in DOMAIN q
    BY <1>1, <2>1
  <2> QED BY <2>1, <2>2, <2>3 DEF BytesBefore
<1> QED BY <1>3, <1>4

(* Bytes compare as integers do.                                            *)
LEMMA BytesAreIntegers ==
  ASSUME NEW p \in Seq(Byte), NEW j \in 1 .. Len(p)
  PROVE  p[j] \in Int
<1>1. p[j] \in Byte
  BY ElementOfSeq
<1>2. \A x \in Byte : x \in Int
  BY DEF Byte
<1> QED BY <1>1, <1>2

(* A token is not before itself, and the order is transitive.               *)
LEMMA BeforeIsStrict ==
  /\ \A p \in Seq(Byte) : ~BytesBefore(p, p)
  /\ \A p, q, r \in Seq(Byte) : BytesBefore(p, q) /\ BytesBefore(q, r) => BytesBefore(p, r)
<1>1. ASSUME NEW p \in Seq(Byte), BytesBefore(p, p) PROVE FALSE
  <2>1. PICK k \in Nat : DiffersAt(p, p, k)
    BY <1>1, BeforeAt
  <2>2. Len(p) \in Nat /\ k \in 1 .. Len(p)
    BY <2>1, LenProperties DEF DiffersAt
  <2>3. p[k] \in Int
    BY <2>2, BytesAreIntegers
  <2>4. k > Len(p) \/ p[k] < p[k]
    BY <2>1 DEF DiffersAt
  <2> QED BY <2>2, <2>3, <2>4
<1>2. ASSUME NEW p \in Seq(Byte), NEW q \in Seq(Byte), NEW r \in Seq(Byte),
             BytesBefore(p, q), BytesBefore(q, r)
      PROVE  BytesBefore(p, r)
  <2>1. PICK k \in Nat : DiffersAt(p, q, k)
    BY <1>2, BeforeAt
  <2>2. PICK l \in Nat : DiffersAt(q, r, l)
    BY <1>2, BeforeAt
  <2>3. Len(p) \in Nat /\ Len(q) \in Nat /\ Len(r) \in Nat
    BY LenProperties
  <2>4. /\ \A j \in 1 .. Len(p) : p[j] \in Int
        /\ \A j \in 1 .. Len(q) : q[j] \in Int
        /\ \A j \in 1 .. Len(r) : r[j] \in Int
    BY BytesAreIntegers
  <2>5. CASE k < l
    <3>1. DiffersAt(p, r, k)
      BY <2>1, <2>2, <2>3, <2>5 DEF DiffersAt
    <3> QED BY <3>1, BeforeAt
  <2>6. CASE k = l
    <3>1. q[k] < r[k] /\ (k > Len(p) \/ p[k] < q[k])
      BY <2>1, <2>2, <2>3, <2>6 DEF DiffersAt
    <3>2. k > Len(p) \/ p[k] < r[k]
      <4>1. k \in 1 .. Len(q) /\ k \in 1 .. Len(r)
        BY <2>1, <2>2, <2>6 DEF DiffersAt
      <4>2. k > Len(p) \/ k \in 1 .. Len(p)
        BY <2>3, <4>1
      <4> QED BY <2>4, <3>1, <4>1, <4>2
    <3>3. DiffersAt(p, r, k)
      BY <2>1, <2>2, <2>3, <2>6, <3>2 DEF DiffersAt
    <3> QED BY <3>3, BeforeAt
  <2>7. CASE l < k
    <3>1. l \in 1 .. Len(p) /\ l \in 1 .. Len(q) /\ p[l] = q[l] /\ q[l] < r[l]
      BY <2>1, <2>2, <2>3, <2>7 DEF DiffersAt
    <3>2. DiffersAt(p, r, l)
      BY <2>1, <2>2, <2>3, <2>7, <3>1 DEF DiffersAt
    <3> QED BY <3>2, BeforeAt
  <2> QED BY <2>5, <2>6, <2>7
<1> QED BY <1>1, <1>2

(* Tokens in ascending order are all different.                             *)
LEMMA AscendingIsOneToOne ==
  ASSUME NEW n \in Nat, NEW s, \A k \in 1 .. n : s[k] \in Seq(Byte),
         \A k \in 1 .. n : k > 1 => BytesBefore(s[k - 1], s[k])
  PROVE  \A i, j \in 1 .. n : s[i] = s[j] => i = j
<1> DEFINE Bad == {j \in 1 .. n : \E i \in 1 .. j - 1 : ~BytesBefore(s[i], s[j])}
<1>1. Bad = {}
  <2>1. SUFFICES ASSUME Bad # {} PROVE FALSE
    OBVIOUS
  <2>2. PICK j \in Bad : \A l \in Bad : j <= l
    <3>1. Bad \subseteq Nat
      OBVIOUS
    <3> HIDE DEF Bad
    <3> QED BY <2>1, <3>1, LeastExists
  <2>3. PICK i \in 1 .. j - 1 : ~BytesBefore(s[i], s[j])
    BY <2>2
  <2>4. j \in 1 .. n /\ j > 1 /\ i \in 1 .. n /\ j - 1 \in 1 .. n
    BY <2>2, <2>3
  <2>5. BytesBefore(s[j - 1], s[j])
    BY <2>4
  <2>6. CASE i = j - 1
    BY <2>3, <2>5, <2>6
  <2>7. CASE i # j - 1
    <3>1. i \in 1 .. (j - 1) - 1
      BY <2>3, <2>4, <2>7
    <3>2. ~(j <= j - 1)
      BY <2>4
    <3>3. j - 1 \notin Bad
      BY <2>2, <3>2
    <3>4. BytesBefore(s[i], s[j - 1])
      BY <2>4, <3>1, <3>3
    <3> QED BY <2>3, <2>4, <2>5, <3>4, BeforeIsStrict
  <2> QED BY <2>6, <2>7
<1>2. ASSUME NEW i \in 1 .. n, NEW j \in 1 .. n, i < j PROVE s[i] # s[j]
  <2>1. i \in 1 .. j - 1
    BY <1>2
  <2>2. BytesBefore(s[i], s[j])
    BY <1>1, <2>1
  <2> QED BY <2>2, BeforeIsStrict
<1> QED BY <1>2

------------------------------------------------------------------------------
(* The cases of the switches.                                               *)

(* No switch has a constant case twice.                                     *)
LEMMA KindCasesApart ==
  ASSUME LoadInv, phase = "accepted"
  PROVE  IsInjective(KindCases)
<1> DEFINE D == DOMAIN bundle.dispatchers
           X == UNION {{k} \X (0 .. Len(bundle.dispatchers[k].aliases)) : k \in D}
<1>0. BundleDecoded(bundle) /\ Len(bundle.dispatchers) \in Nat /\ D = 1 .. Len(bundle.dispatchers)
  BY AcceptedBundle, BundleShape
<1>1. ASSUME NEW k \in D, NEW l \in D,
             NEW a \in 0 .. Len(bundle.dispatchers[k].aliases),
             NEW c \in 0 .. Len(bundle.dispatchers[l].aliases),
             Claim(bundle.dispatchers[k], a) = Claim(bundle.dispatchers[l], c)
      PROVE  k = l /\ a = c
  <2>1. Claim(bundle.dispatchers[k], a) \in Claims(bundle.dispatchers[k])
    BY DEF Claims
  <2>2. Claim(bundle.dispatchers[l], c) \in Claims(bundle.dispatchers[l])
    BY DEF Claims
  <2>3. k = l
    <3>1. k # l => Claims(bundle.dispatchers[k]) \cap Claims(bundle.dispatchers[l]) = {}
      BY <1>0, TokensApart, TokensAreClaims
    <3> QED BY <1>1, <2>1, <2>2, <3>1
  <2>4. ASSUME NEW x \in 0 .. Len(bundle.dispatchers[k].aliases),
               NEW y \in 0 .. Len(bundle.dispatchers[k].aliases), x < y
        PROVE  Claim(bundle.dispatchers[k], x) # Claim(bundle.dispatchers[k], y)
    <3>1. KindsClaimed(bundle, k) /\ Len(bundle.dispatchers[k].aliases) \in Nat
      BY <1>0, AcceptedBundle, DispatcherFields
    <3>2. Claim(bundle.dispatchers[k], y) \notin Claimed(bundle, k, y)
      BY <3>1 DEF KindsClaimed
    <3>3. x \in 0 .. y - 1
      BY <2>4, <3>1
    <3>4. Claim(bundle.dispatchers[k], x) \in Claimed(bundle, k, y)
      BY <3>3 DEF Claimed
    <3> QED BY <3>2, <3>4
  <2>5. Len(bundle.dispatchers[k].aliases) \in Nat
    BY <1>0, DispatcherFields
  <2> QED BY <1>1, <2>3, <2>4, <2>5
<1>2. DOMAIN KindCases = X
  BY DEF KindCases
<1>3. ASSUME NEW x \in X
      PROVE  \E k \in D : \E a \in 0 .. Len(bundle.dispatchers[k].aliases) :
               x = <<k, a>> /\ KindCases[x] = Claim(bundle.dispatchers[k], a)
  <2>1. PICK k \in D : x \in {k} \X (0 .. Len(bundle.dispatchers[k].aliases))
    OBVIOUS
  <2>2. PICK a \in 0 .. Len(bundle.dispatchers[k].aliases) : x = <<k, a>>
    BY <2>1
  <2>3. KindCases[x] = Claim(bundle.dispatchers[x[1]], x[2])
    BY DEF KindCases
  <2> QED BY <2>2, <2>3
<1> HIDE DEF X, D
<1>4. ASSUME NEW x \in X, NEW y \in X, KindCases[x] = KindCases[y] PROVE x = y
  <2>1. PICK k \in D : \E a \in 0 .. Len(bundle.dispatchers[k].aliases) :
          x = <<k, a>> /\ KindCases[x] = Claim(bundle.dispatchers[k], a)
    BY <1>3
  <2>2. PICK a \in 0 .. Len(bundle.dispatchers[k].aliases) :
          x = <<k, a>> /\ KindCases[x] = Claim(bundle.dispatchers[k], a)
    BY <2>1
  <2>3. PICK l \in D : \E c \in 0 .. Len(bundle.dispatchers[l].aliases) :
          y = <<l, c>> /\ KindCases[y] = Claim(bundle.dispatchers[l], c)
    BY <1>3
  <2>4. PICK c \in 0 .. Len(bundle.dispatchers[l].aliases) :
          y = <<l, c>> /\ KindCases[y] = Claim(bundle.dispatchers[l], c)
    BY <2>3
  <2> QED BY <1>1, <1>4, <2>2, <2>4
<1> QED BY <1>2, <1>4 DEF IsInjective

(* Nor has the switch of one dispatcher over its aliases and targets.       *)
LEMMA DispatcherCasesApart ==
  ASSUME LoadInv, phase = "accepted", NEW k \in DOMAIN bundle.dispatchers
  PROVE  LET d == bundle.dispatchers[k]
         IN /\ IsInjective([x \in DOMAIN d.countryAliases |-> d.countryAliases[x].alias])
            /\ IsInjective([x \in DOMAIN d.targets |-> d.targets[x].country])
<1> DEFINE d == bundle.dispatchers[k]
           alias == [x \in DOMAIN d.countryAliases |-> d.countryAliases[x].alias]
           n == Len(d.countryAliases)
<1>1. /\ d.countryAliases \in Seq([alias : Seq(Byte), country : Seq(Byte)])
      /\ CountryAliasesFormed(d)
  BY AcceptedBundle, DispatcherFields
<1>2. n \in Nat /\ DOMAIN d.countryAliases = 1 .. n
  BY <1>1, LenProperties
<1>3. \A x \in 1 .. n : alias[x] = d.countryAliases[x].alias /\ alias[x] \in Seq(Byte)
  <2>1. \A x \in 1 .. n : d.countryAliases[x] \in [alias : Seq(Byte), country : Seq(Byte)]
    BY <1>1, <1>2, ElementOfSeq
  <2> QED BY <1>2, <2>1
<1>4. \A x \in 1 .. n : x > 1 => BytesBefore(alias[x - 1], alias[x])
  <2>1. \A x \in 1 .. n : x > 1 => x - 1 \in 1 .. n
    BY <1>2
  <2>2. \A x \in 1 .. n : x > 1 => BytesBefore(d.countryAliases[x - 1].alias, d.countryAliases[x].alias)
    BY <1>1, <1>2 DEF CountryAliasesFormed
  <2> QED BY <1>3, <2>1, <2>2
<1>5. DOMAIN alias = 1 .. n
  BY <1>2
<1>6. IsInjective(alias)
  <2> HIDE DEF alias, n
  <2>1. \A i, j \in 1 .. n : alias[i] = alias[j] => i = j
    BY <1>2, <1>3, <1>4, AscendingIsOneToOne
  <2> QED BY <1>5, <2>1 DEF IsInjective
<1>7. ASSUME NEW x \in DOMAIN d.targets, NEW y \in DOMAIN d.targets,
             d.targets[x].country = d.targets[y].country
      PROVE  x = y
  BY <1>7, TargetsApart
<1>8. IsInjective([x \in DOMAIN d.targets |-> d.targets[x].country])
  BY <1>7 DEF IsInjective
<1> QED BY <1>6, <1>8

(* So no switch over strings has a case twice.                              *)
LEMMA CasesApart == LoadInv /\ phase = "accepted" => CasesDistinct
BY KindCasesApart, DispatcherCasesApart DEF CasesDistinct, ToSet

------------------------------------------------------------------------------
(* The names.                                                               *)

(* Every name some pass declares.                                           *)
AllNames(b) ==
  DefConsts(b) \cup DispatcherConsts(b) \cup PreCanonicalizers(b) \cup Canonicalizers(b)
    \cup RuleNames(b, "format") \cup RuleNames(b, "checksum") \cup ProgramTables(b)

(* The passes after the first.                                              *)
AfterDefinitions == {"dispatch", "canonicalizers", "formats", "checksums", "tables", "generated"}

(* What a pass declared stays declared, and nothing else is referred to.    *)
NamesInv ==
  /\ pass \in Passes /\ (pass # "definitions" => phase = "accepted")
  /\ referred \subseteq AllNames(bundle)
  /\ pass \in AfterDefinitions => DefConsts(bundle) \subseteq declared
  /\ pass \in AfterDefinitions \ {"dispatch"} =>
       DispatcherConsts(bundle) \cup PreCanonicalizers(bundle) \subseteq declared
  /\ pass \in {"formats", "checksums", "tables", "generated"} => Canonicalizers(bundle) \subseteq declared
  /\ pass \in {"checksums", "tables", "generated"} => RuleNames(bundle, "format") \subseteq declared
  /\ pass \in {"tables", "generated"} => RuleNames(bundle, "checksum") \subseteq declared
  /\ pass = "generated" => ProgramTables(bundle) \subseteq declared

(* What the passes refer to, of an accepted bundle.                         *)
LEMMA DispatchDeclared ==
  ASSUME LoadInv, phase = "accepted"
  PROVE  DispatchUses(bundle) \subseteq AllNames(bundle)
<1>1. ASSUME NEW t \in TargetsOf(bundle)
      PROVE  DefConst(Definition(bundle, t.def)) \in DefConsts(bundle)
  <2>1. PICK k \in DOMAIN bundle.dispatchers : t \in ToSet(bundle.dispatchers[k].targets)
    BY DEF TargetsOf
  <2>2. PICK e \in DOMAIN bundle.dispatchers[k].targets : t = bundle.dispatchers[k].targets[e]
    BY <2>1 DEF ToSet
  <2>3. t.def \in DefinitionIDs(bundle)
    BY <2>2, TargetOwned
  <2>4. Definition(bundle, t.def) \in ToSet(bundle.identifiers)
    BY <2>3, DefinitionsFound DEF ToSet
  <2> QED BY <2>4 DEF DefConsts
<1> QED BY <1>1 DEF DispatchUses, AllNames

(* A program of a kind is named by the pass of its kind.                    *)
LEMMA RuleDeclared ==
  ASSUME NEW id, NEW kind, IsProgram(bundle, id, kind)
  PROVE  ProgramName(bundle, id) \in RuleNames(bundle, kind)
<1>1. PICK k \in DOMAIN bundle.programs : bundle.programs[k].id = id /\ bundle.programs[k].kind = kind
  BY DEF IsProgram, ByID
<1>2. bundle.programs[k] \in programsOfKind(bundle, kind)
  BY <1>1 DEF programsOfKind, ToSet
<1> QED BY <1>1, <1>2 DEF RuleNames

(* A call and a table of a program the emitter writes.                      *)
LEMMA UsesDeclared ==
  ASSUME LoadInv, phase = "accepted", NEW kind \in {"canonicalization", "format", "checksum"}
  PROVE  UsedBy(bundle, kind) \subseteq AllNames(bundle)
<1> SUFFICES ASSUME NEW name \in UsedBy(bundle, kind) PROVE name \in AllNames(bundle)
  OBVIOUS
<1>1. PICK p \in programsOfKind(bundle, kind) :
        LET written == Emission!WrittenNodes(p)
        IN name \in {ProgramName(bundle, p.nodes[i].par.program_id) :
                       i \in {i \in written : opSpecs[p.nodes[i].op].cat = "call"}}
                      \cup {TableOf(bundle, p, i) : i \in TableNodes(p, written)}
  BY DEF UsedBy
<1>2. PICK k \in DOMAIN bundle.programs : p = bundle.programs[k] /\ p.kind = kind
  BY DEF programsOfKind, ToSet
<1>3. Accepted(p, p.id \in preCanonicalizers(bundle))
  BY <1>2, AcceptedBundle, ProgramsAreAccepted
<1>4. Emission!WrittenNodes(p) \subseteq Indices(p)
  BY <1>3, WrittenAreNodes DEF Accepted, ProgramDecoded
<1>5. CASE \E i \in TableNodes(p, Emission!WrittenNodes(p)) : name = TableOf(bundle, p, i)
  <2>1. PICK i \in TableNodes(p, Emission!WrittenNodes(p)) : name = TableOf(bundle, p, i)
    BY <1>5
  <2>2. i \in TableNodes(p, DOMAIN p.nodes)
    BY <1>4, <2>1 DEF TableNodes, Indices
  <2>3. name \in ProgramTables(bundle)
    BY <1>2, <2>1, <2>2 DEF ProgramTables, ToSet
  <2> QED BY <2>3 DEF AllNames
<1>6. CASE \E i \in Emission!WrittenNodes(p) :
             opSpecs[p.nodes[i].op].cat = "call" /\ name = ProgramName(bundle, p.nodes[i].par.program_id)
  <2>1. PICK i \in Emission!WrittenNodes(p) :
          opSpecs[p.nodes[i].op].cat = "call" /\ name = ProgramName(bundle, p.nodes[i].par.program_id)
    BY <1>6
  <2>2. p.nodes[i].par.program_id \in Calls(bundle, k)
    BY <1>2, <1>4, <2>1 DEF Calls
  <2>3. IsProgram(bundle, p.nodes[i].par.program_id, kind)
    BY <1>2, <2>2, AcceptedBundle DEF CallsAllowed
  <2>4. "call" \in categoriesByProgramKind[kind]
    BY <1>2, <1>3, <1>4, <2>1, AcceptedNode DEF checkCategory
  <2>5. kind \in {"format", "checksum"}
    BY <2>4 DEF categoriesByProgramKind
  <2> QED BY <2>1, <2>3, <2>5, RuleDeclared DEF AllNames
<1> QED BY <1>1, <1>5, <1>6

(* The rules the definitions select.                                        *)
LEMMA SelectedDeclared ==
  ASSUME LoadInv, phase = "accepted"
  PROVE  /\ {ProgramName(bundle, id) : id \in {d.format : d \in ToSet(bundle.identifiers)}}
              \subseteq AllNames(bundle)
         /\ {ProgramName(bundle, id) : id \in UNION {ToSet(d.checksum) : d \in ToSet(bundle.identifiers)}}
              \subseteq AllNames(bundle)
<1>1. ASSUME NEW d \in ToSet(bundle.identifiers)
      PROVE  IsProgram(bundle, d.format, "format")
  BY AcceptedBundle DEF IdentifierFormed, ToSet
<1>2. ASSUME NEW d \in ToSet(bundle.identifiers), NEW id \in ToSet(d.checksum)
      PROVE  IsProgram(bundle, id, "checksum")
  <2>1. PICK k \in DOMAIN bundle.identifiers : d = bundle.identifiers[k]
    BY DEF ToSet
  <2>2. ChecksumDeclared(bundle, d)
    BY <2>1, AcceptedBundle
  <2>3. d.checksum \in Optional(Nat)
    <3>1. bundle.identifiers \in Seq(IdentifierType)
      BY AcceptedBundle DEF BundleDecoded
    <3>2. d \in IdentifierType
      BY <2>1, <3>1, LenProperties, ElementOfSeq
    <3> QED BY <3>2 DEF IdentifierType
  <2>4. d.checksum \in Seq(Nat) /\ Len(d.checksum) \in {0, 1} /\ DOMAIN d.checksum = 1 .. Len(d.checksum)
    BY <2>3, OptionalValue, LenProperties
  <2>5. PICK x \in DOMAIN d.checksum : id = d.checksum[x]
    BY DEF ToSet
  <2>6. x = 1
    BY <2>4, <2>5
  <2>7. Present(d.checksum)
    BY <2>3, <2>4, <2>5, OptionalValue DEF Present
  <2> QED BY <2>2, <2>5, <2>6, <2>7 DEF ChecksumDeclared
<1>3. \A d \in ToSet(bundle.identifiers) : ProgramName(bundle, d.format) \in AllNames(bundle)
  BY <1>1, RuleDeclared DEF AllNames
<1>4. \A d \in ToSet(bundle.identifiers) : \A id \in ToSet(d.checksum) :
        ProgramName(bundle, id) \in AllNames(bundle)
  BY <1>2, RuleDeclared DEF AllNames
<1> QED BY <1>3, <1>4

(* A pass declares what it was to declare, and no more is referred to.      *)
LEMMA PassNames ==
  ASSUME LoadInv, NamesInv, phase = "accepted", UNCHANGED vars,
         NEW next, NEW names, NEW uses, pass' = next,
         declared' = declared \cup names, referred' = referred \cup uses,
         uses \subseteq AllNames(bundle),
         \/ pass = "definitions" /\ next = "dispatch" /\ names = DefConsts(bundle)
         \/ /\ pass = "dispatch" /\ next = "canonicalizers"
            /\ names = DispatcherConsts(bundle) \cup PreCanonicalizers(bundle)
         \/ pass = "canonicalizers" /\ next = "formats" /\ names = Canonicalizers(bundle)
         \/ pass = "formats" /\ next = "checksums" /\ names = RuleNames(bundle, "format")
         \/ pass = "checksums" /\ next = "tables" /\ names = RuleNames(bundle, "checksum")
         \/ pass = "tables" /\ next = "generated" /\ names = ProgramTables(bundle)
  PROVE  NamesInv'
<1>1. bundle' = bundle /\ phase' = phase
  BY DEF vars
<1>2. referred' \subseteq AllNames(bundle)
  BY DEF NamesInv
<1>3. pass' \in Passes
  BY DEF Passes, Outcomes
<1>4. declared \subseteq declared' /\ names \subseteq declared'
  OBVIOUS
<1> QED BY <1>1, <1>2, <1>3, <1>4 DEF NamesInv, AfterDefinitions

(* The passes together.                                                     *)
LEMMA NamesStep == LoadInv /\ NamesInv /\ [Generate]_<<vars, generator>> => NamesInv'
<1> SUFFICES ASSUME LoadInv, NamesInv, [Generate]_<<vars, generator>> PROVE NamesInv'
  OBVIOUS
<1>1. CASE UNCHANGED <<vars, generator>>
  BY <1>1 DEF vars, generator, NamesInv
<1>2. CASE Load
  <2>1. Next /\ UNCHANGED <<pass, declared, referred>>
    BY <1>2 DEF Load, generator
  <2>2. phase # "accepted" /\ bundle' = bundle
    BY <2>1 DEF Next, CheckHeader, CheckProgramHeader, CheckNode, CheckGraph, ProgramsChecked,
       CheckIdentifier, CheckDispatcher, CheckOwners, CheckCalls, CheckFeatures, Enter, Refuse
  <2>3. pass = "definitions"
    BY <2>2 DEF NamesInv
  <2> QED BY <2>1, <2>2, <2>3 DEF NamesInv, AfterDefinitions
<1>3. CASE EmitDefinitions
  <2>1. DefConsts(bundle) \subseteq AllNames(bundle)
    BY DEF AllNames
  <2> QED BY <1>3, <2>1, PassNames DEF EmitDefinitions, Emitting, Emit
<1>4. CASE EmitDispatch
  BY <1>4, DispatchDeclared, PassNames DEF EmitDispatch, Emitting, Emit
<1>5. CASE EmitCanonicalizers
  <2>1. Canonicalizers(bundle) \cup UsedBy(bundle, "canonicalization") \subseteq AllNames(bundle)
    BY <1>5, UsesDeclared DEF AllNames, EmitCanonicalizers, Emitting
  <2>2. referred' = referred \cup (Canonicalizers(bundle) \cup UsedBy(bundle, "canonicalization"))
    BY <1>5 DEF EmitCanonicalizers
  <2> QED BY <1>5, <2>1, <2>2, PassNames DEF EmitCanonicalizers, Emitting
<1>6. CASE RefuseGrowth
  BY <1>6 DEF RefuseGrowth, Emitting, vars, NamesInv, AfterDefinitions, Passes, Outcomes
<1>7. CASE EmitFormats
  <2>1. phase = "accepted"
    BY <1>7 DEF EmitFormats, EmitRules, Emitting
  <2> QED BY <1>7, <2>1, UsesDeclared, SelectedDeclared, PassNames DEF EmitFormats, EmitRules, Emitting, Emit
<1>8. CASE EmitChecksums
  <2>1. phase = "accepted"
    BY <1>8 DEF EmitChecksums, EmitRules, Emitting
  <2> QED BY <1>8, <2>1, UsesDeclared, SelectedDeclared, PassNames DEF EmitChecksums, EmitRules, Emitting, Emit
<1>9. CASE EmitTables
  BY <1>9, PassNames DEF EmitTables, Emitting, Emit
<1> QED BY <1>1, <1>2, <1>3, <1>4, <1>5, <1>6, <1>7, <1>8, <1>9 DEF Generate

(* Whatever bundle is generated from, the code refers to no name that no    *)
(* pass declared, and no switch over the strings of a caller has the same   *)
(* case twice (emit.go, emit_programs.go).                                  *)
THEOREM NamesAreDeclared == GenerationSpec => []NothingUndeclared
<1>1. GenerationInit => NamesInv
  BY DEF GenerationInit, NamesInv, Passes, AfterDefinitions
<1>2. LoadInv /\ NamesInv => NothingUndeclared
  BY CasesApart DEF NamesInv, NothingUndeclared, AllNames, AfterDefinitions
<1> QED BY <1>1, <1>2, NamesStep, LoadInvariance, PTL DEF GenerationSpec

=================================================================================
