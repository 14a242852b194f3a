---------------------------- MODULE ProgramRules ----------------------------
(***************************************************************************)
(* What the loader demands of one program of a bundle: checks 10 to 16 of   *)
(* internal/gen/load.go.  A program is a graph in topological order, each   *)
(* node one operation with the parameters it carries; nodes are counted     *)
(* from 1 here.                                                             *)
(***************************************************************************)
EXTENDS Opcodes, ArithmeticBounds, SequencesExt

CONSTANTS MaxSliceBound, MaxModulus, MaxWeights, MaxWeightMagnitude, MaxRemainderValues,
          MaxConstant, MaxAlphabetPoints, MaxCapturesPerFormat,
          MaxSteps   \* the evaluation budget

(* A node: its operation, declared type, operands and parameters.           *)
Node(op, in, par) == [op |-> op, output |-> opSpecs[op].output, in |-> in, par |-> par]

(* What decoding leaves in the parameters of a node, and in a program,      *)
(* whatever bytes it read.  Numbers on the wire have no sign; nodes are     *)
(* counted from 1.                                                          *)
ParameterType ==
  [text |-> Seq(Byte), replacement |-> Seq(Byte), alphabet |-> Seq(Byte),
   message_key |-> Seq(Byte), values |-> Seq(Seq(Byte)), lengths |-> Seq(Nat),
   start |-> Nat, end |-> Nat, index |-> Nat, length |-> Nat, min_length |-> Nat,
   max_length |-> Nat, program_id |-> Nat, modulus |-> Int, constant |-> Int,
   weights |-> Seq(Int), remainder_values |-> Seq(Int), alignment |-> STRING,
   mapping |-> STRING, reason_code |-> STRING]

Position == Nat \ {0}

NodeDecoded(n) ==
  /\ n.in \in Seq(Position)
  /\ DOMAIN n.par \subseteq DOMAIN ParameterType
  /\ \A p \in DOMAIN n.par : n.par[p] \in ParameterType[p]

ProgramDecoded(p) ==
  /\ p.id \in Nat /\ p.root \in Position /\ p.subject \in Nat
  /\ p.nodes \in Seq(ToSet(p.nodes))
  /\ \A i \in DOMAIN p.nodes : NodeDecoded(p.nodes[i])
  /\ p.captures \in Seq([name : STRING, node : Position])

Has(n, p) == p \in DOMAIN n.par
Inputs(p, i) == {p.nodes[i].in[k] : k \in DOMAIN p.nodes[i].in}

BytesBefore(p, q) ==
  \E k \in DOMAIN q :
    /\ k > Len(p) \/ p[k] < q[k]
    /\ k - 1 <= Len(p) /\ SubSeq(p, 1, k - 1) = SubSeq(q, 1, k - 1)
Distinct(s) == Cardinality(ToSet(s)) = Len(s)
Ascending(s) == \A k \in 1 .. Len(s) - 1 : BytesBefore(s[k], s[k + 1])

------------------------------------------------------------------------------
(* Checks 10 to 12: operation and type, operands, parameters.               *)
Known(n) == n.op \in Opcodes /\ n.output = opSpecs[n.op].output

checkOperands(p, i) ==
  LET n == p.nodes[i]
      spec == opSpecs[n.op]
      fixed == Len(spec.fixed)
      rest == Len(n.in) - fixed
      Type(k) == p.nodes[n.in[k]].output
  IN /\ \A in \in Inputs(p, i) : in < i
     /\ rest >= 0
     /\ \A k \in 1 .. fixed : Type(k) = spec.fixed[k]
     /\ rest >= spec.minRep
     /\ spec.maxRep # Unbounded => rest <= spec.maxRep
     /\ \A k \in fixed + 1 .. Len(n.in) : Type(k) = spec.repeated

ParametersFit(n) ==
  /\ DOMAIN n.par \subseteq allowed(opSpecs[n.op])
  /\ opSpecs[n.op].required \subseteq DOMAIN n.par

------------------------------------------------------------------------------
(* Check 13.  bound(k) is the provable length of operand k.                 *)
ConstantsBounded(n) ==
  /\ Has(n, "message_key") => n.par.message_key # <<>>
  /\ \A p \in {"text", "replacement"} \cap DOMAIN n.par : Len(n.par[p]) <= MaxConstantBytes
  /\ \A p \in {"start", "end", "index"} \cap DOMAIN n.par : n.par[p] <= MaxSliceBound
  /\ Has(n, "modulus") => n.par.modulus \in 2 .. MaxModulus
  /\ Has(n, "weights") =>
       /\ Len(n.par.weights) <= MaxWeights
       /\ LargestWeight(n.par.weights) <= MaxWeightMagnitude
  /\ Has(n, "remainder_values") => Len(n.par.remainder_values) <= MaxRemainderValues
  /\ Has(n, "constant") => n.par.constant \in -MaxConstant .. MaxConstant

checkAlphabet(n) ==
  /\ Has(n, "alphabet")
  /\ LET rs == Runes(n.par.alphabet)
     IN rs # <<>> /\ Distinct(rs) /\ Len(rs) <= MaxAlphabetPoints

WeightedSumBounded(n, bound) ==
  /\ n.par.alignment \in {"left", "right", "cycle"}
  /\ \/ n.par.mapping \in {"digit_value", "alnum_base36"} /\ ~Has(n, "alphabet")
     \/ n.par.mapping = "custom_alphabet" /\ checkAlphabet(n)
  /\ checkWeightedSumOverflow(n.par.weights, n.par.alignment, n.par.mapping,
                              IF Has(n, "alphabet") THEN n.par.alphabet ELSE <<>>, bound)

NonEmptyText ==
  {"BEFORE_FIRST", "AFTER_FIRST", "ASCII_CHARSET", "STARTS_WITH", "ENDS_WITH", "CONTAINS",
   "CHAR_AT_IN", "REMOVE_CHARS", "PREPEND", "APPEND", "INSERT", "REPLACE_PREFIX"}

Provable == 1 .. MaxProvableDigits
ProfileNames == {<<99>>, <<115>>}   \* compatible, strict_current

OperationBounded(n, bound) ==
  /\ n.op = "SLICE" => n.par.start <= n.par.end
  /\ n.op = "LENGTH_BETWEEN" => n.par.min_length <= n.par.max_length
  /\ n.op = "LENGTH_IN" =>
       \A k \in 1 .. Len(n.par.lengths) - 1 : n.par.lengths[k] < n.par.lengths[k + 1]
  /\ n.op = "PREFIX_IN" =>
       /\ Ascending(n.par.values)
       /\ \A k \in DOMAIN n.par.values : Len(n.par.values[k]) = Len(n.par.values[1])
       /\ n.par.values[1] # <<>>
  /\ n.op = "WEIGHTED_SUM" => WeightedSumBounded(n, bound)
  /\ n.op = "DIGITS_TO_INTEGER" => bound \in Provable
  /\ n.op = "COMPARE_SLICE" => n.par.end - n.par.start \in Provable
  /\ n.op = "REQUIRE" => n.par.reason_code \in provesInvalidity
  /\ n.op = "UNSUPPORTED" => n.par.reason_code \in absentChecksumReason
  /\ n.op = "PROFILE_IS" => n.par.text \in ProfileNames
  /\ n.op \in NonEmptyText => n.par.text # <<>>
  /\ n.op = "LEFT_PAD" => RuneCount(n.par.text) = 1 /\ n.par.length \in 1 .. MaxSliceBound
  /\ n.op = "REPLACE_PREFIX" => n.par.text # n.par.replacement

FromStart(b, start) == IF b = unboundedLen THEN unboundedLen ELSE Max({0, b - start})

(* Mutant: the operands without a bound are left out.                       *)
JoinedOfBounded(bs) ==
  LET Of(k) == Max({bs[k], 0})
      total == MapThenSumSet(Of, DOMAIN bs)
  IN IF total > MaxSliceBound THEN unboundedLen ELSE total

Joined(bs) ==
  LET Of(k) == bs[k]
      total == MapThenSumSet(Of, DOMAIN bs)
  IN IF unboundedLen \in ToSet(bs) \/ total > MaxSliceBound THEN unboundedLen ELSE total

(* The provable length of the string a node produces, from its operands'.   *)
stringBound(n, bounds) ==
  LET of(k) == bounds[n.in[k]]
  IN CASE n.output # "string" -> 0
       [] n.op = "CONSTANT" -> RuneCount(n.par.text)
       [] n.op = "COUNTRY_CODE" -> 2
       [] n.op = "SLICE" -> n.par.end - n.par.start
       [] n.op = "SLICE_FROM" -> FromStart(of(1), n.par.start)
       [] n.op = "SLICE_TO" ->
            IF of(1) = unboundedLen THEN n.par.end ELSE Min({of(1), n.par.end})
       [] n.op \in {"BEFORE_FIRST", "AFTER_FIRST", "STRIP_PREFIX"} -> of(1)
       [] n.op = "CONCAT" -> Joined([k \in DOMAIN n.in |-> of(k)])
       [] OTHER -> unboundedLen

(* Checks 10 to 13 of a node in their order: the one that refuses it, or 0. *)
OperandBound(n, bounds) == IF n.in = <<>> THEN 0 ELSE bounds[n.in[1]]
NodeFault(p, i, bounds) ==
  LET n == p.nodes[i]
  IN IF ~Known(n) THEN 10
     ELSE IF ~checkOperands(p, i) THEN 11
     ELSE IF ~ParametersFit(n) THEN 12
     ELSE IF ~(ConstantsBounded(n) /\ OperationBounded(n, OperandBound(n, bounds))) THEN 13
     ELSE 0

(* The capabilities a node uses.                                            *)
Features(n) ==
  opSpecs[n.op].features
    \cup (IF n.op = "WEIGHTED_SUM" /\ n.par.mapping = "custom_alphabet" THEN {42} ELSE {})

------------------------------------------------------------------------------
(* The graph of a program whose nodes passed: how far it expands once       *)
(* repeated operands are inlined, what its root, subject and captures may   *)
(* be, and the shape each kind of program has (checks 14 to 16).  A program *)
(* is [id, kind, nodes, root, subject, captures]; subject 0 is none, a      *)
(* capture is [name, node].                                                 *)
Indices(p) == DOMAIN p.nodes

(* What a node reads, directly or not; operands are at lower indices.       *)
Subtree(p, from) ==
  LET below[i \in Indices(p)] == {i} \cup UNION {below[in] : in \in Inputs(p, i)} IN below[from]

readsSubject(p, from) == \E i \in Subtree(p, from) : p.nodes[i].op = "SUBJECT"

------------------------------------------------------------------------------
saturatingAdd(a, b) == Min({a + b, MaxSteps + 1})

Instances(p) ==
  LET instances[i \in Indices(p)] ==
        LET Of(k) == instances[p.nodes[i].in[k]]
        IN saturatingAdd(1, MapThenSumSet(Of, DOMAIN p.nodes[i].in))
  IN instances

CaptureNodes(p) ==
  SelectSeq([k \in DOMAIN p.captures |-> p.captures[k].node], LAMBDA c : c <= Len(p.nodes))

(* Mutant: in the order of the list.                                        *)
CapturesListed(p) == CaptureNodes(p)

CapturesDescending(p) == SortSeq(CaptureNodes(p), >)

EmissionOrder(p) ==
  <<p.root>> \o (IF p.subject \in Indices(p) THEN <<p.subject>> ELSE <<>>)
    \o CapturesDescending(p)

(* A root an earlier one reaches is written inside it.                      *)
RootCost(p, j) ==
  LET roots == EmissionOrder(p)
  IN IF \E k \in 1 .. j - 1 : roots[j] \in Subtree(p, roots[k]) THEN 0
     ELSE Instances(p)[roots[j]]

expansionOf(p) ==
  LET Cost(j) == RootCost(p, j)
  IN saturatingAdd(MapThenSumSet(Cost, DOMAIN EmissionOrder(p)), 0)

------------------------------------------------------------------------------
(* Check 15.                                                                *)
SubjectAllowed(p) ==
  p.subject # 0 =>
    /\ p.kind # "canonicalization"
    /\ p.subject \in Indices(p)
    /\ p.nodes[p.subject].output = "string"
    /\ ~readsSubject(p, p.subject)

CapturesAllowed(p) ==
  /\ p.captures # <<>> => p.kind = "format"
  /\ Len(p.captures) <= MaxCapturesPerFormat
  /\ Distinct([k \in DOMAIN p.captures |-> p.captures[k].name])
  /\ \A k \in DOMAIN p.captures :
       /\ p.captures[k].name # ""
       /\ p.captures[k].node \in Indices(p)
       /\ p.nodes[p.captures[k].node].output = "string"

(* Check 16.                                                                *)
Consumers(p, i) == {k \in Indices(p) : i \in Inputs(p, k)}

(* Mutant: one of those that read a branch is a CHOOSE.                     *)
WhenBelongsOnce(p, i) == p.root = i \/ \E k \in Consumers(p, i) : p.nodes[k].op = "CHOOSE_BRANCH"

WhenBelongs(p, i) ==
  /\ \A k \in Consumers(p, i) : p.nodes[k].op = "CHOOSE_BRANCH"
  /\ p.root = i \/ Consumers(p, i) # {}

checkCategory(p, i, isPre) ==
  LET n == p.nodes[i]
      cat == opSpecs[n.op].cat
  IN /\ cat \in categoriesByProgramKind[p.kind]
     /\ cat = "call" => n.op = callOpForProgram[p.kind]
     /\ n.op = "SUBJECT" => p.kind # "canonicalization"
     /\ isPre => n.op \in preCanonicalizationOps
     /\ n.op = "CHECKSUM_WHEN" => WhenBelongs(p, i)

checkRoot(p) ==
  LET root == p.nodes[p.root]
  IN /\ p.kind = "canonicalization" => root.op = "CANON_SEQUENCE"
     /\ p.kind = "format" => root.op = "ASSERT_SEQUENCE"
     /\ p.kind = "checksum" => root.output = "outcome" /\ root.op # "CHECKSUM_WHEN"

(* Checks 14 to 16 in their order: the one that refuses the program, or 0.  *)
GraphFault(p, isPre) ==
  IF p.root \in Indices(p) /\ expansionOf(p) > MaxSteps THEN 14
  ELSE IF p.root \notin Indices(p) \/ ~SubjectAllowed(p) \/ ~CapturesAllowed(p) THEN 15
  ELSE IF ~(\A i \in Indices(p) : checkCategory(p, i, isPre)) \/ ~checkRoot(p) THEN 16
  ELSE 0

GraphFeatures(p) == IF p.subject # 0 \/ p.captures # <<>> THEN {11} ELSE {}
==============================================================================
