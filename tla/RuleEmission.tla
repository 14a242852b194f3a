---------------------------- MODULE RuleEmission ----------------------------
(***************************************************************************)
(* What the generator writes for a program (internal/gen/emit_programs.go   *)
(* and expr.go): which nodes become local variables, which are rendered     *)
(* inside others and as what, and in which order the statements come.       *)
(* Operands are at lower indices, so a node is read before it is rendered   *)
(* when indices are taken downwards.                                        *)
(***************************************************************************)
EXTENDS Integers, Sequences, FiniteSets, SequencesExt

trivial == {"SUBJECT", "VALUE", "CONSTANT", "COUNTRY_CODE"}

(* How often a node is an operand.                                          *)
uses(p, i) ==
  LET Reading(k) == Cardinality({x \in DOMAIN p.nodes[k].in : p.nodes[k].in[x] = i})
  IN MapThenSumSet(Reading, i + 1 .. Len(p.nodes))

(* The locals of a rule: its outcomes, and what is read more than once.  A  *)
(* canonicalizer has none.                                                  *)
IsCheck(n) == n.output = "outcome" /\ n.op # "CHECKSUM_WHEN"
Hoisted(p) ==
  {i \in DOMAIN p.nodes : /\ p.kind # "canonicalization"
                          /\ p.nodes[i].output \in {"string", "integer"}
                          /\ p.nodes[i].op \notin trivial /\ uses(p, i) > 1}
Checks(p) ==
  IF p.kind = "checksum" THEN {i \in DOMAIN p.nodes : IsCheck(p.nodes[i])} ELSE {}
Locals(p) == Hoisted(p) \cup Checks(p)

------------------------------------------------------------------------------
(* The branches a CHOOSE is written with: up to the first that is no WHEN.  *)
Branches(p, n) ==
  LET plain == {k \in DOMAIN n.in : p.nodes[n.in[k]].op # "CHECKSUM_WHEN"}
  IN IF plain = {} THEN n.in ELSE SubSeq(n.in, 1, Min(plain))

(* The operations each function of the generator has a case for.            *)
stepCases ==
  {"CANON_SEQUENCE", "CANON_WHEN", "TRIM_WHITESPACE", "REMOVE_WHITESPACE", "UPPERCASE_ASCII",
   "REMOVE_CHARS", "REPLACE_PREFIX", "PREPEND", "APPEND", "INSERT", "LEFT_PAD",
   "PREPEND_COUNTRY_IF_MISSING"}
assertionCases == {"ASSERT_SEQUENCE", "REQUIRE", "CALL_FORMAT"}
checksumCases ==
  {"LUHN", "ISO7064_MOD97_10", "COMPARE_DIGIT", "COMPARE_SLICE", "COMPARE_CONSTANT",
   "UNSUPPORTED", "ALL_CHECKS", "ANY_CHECK", "CALL_CHECKSUM"}
stringCases ==
  trivial \cup {"SLICE", "SLICE_FROM", "SLICE_TO", "BEFORE_FIRST", "AFTER_FIRST",
                "STRIP_PREFIX", "CONCAT"}
predCases ==
  {"IS_EMPTY", "IS_ABSENT", "EQUALS", "LENGTH_EQ", "LENGTH_IN", "LENGTH_BETWEEN",
   "ASCII_DIGITS", "ASCII_UPPER_LETTERS", "ASCII_ALPHANUMERIC", "ASCII_CHARSET", "STARTS_WITH",
   "ENDS_WITH", "PREFIX_IN", "CHAR_AT_IN", "CONTAINS", "ALL", "ANY", "NOT", "PROFILE_IS",
   "INTEGER_IS"}
intCases ==
  {"DIGITS_TO_INTEGER", "MOD_DIGITS", "WEIGHTED_SUM", "MODULO", "COMPLEMENT", "REMAINDER_MAP"}

(* An outcome is read through its local; a WHEN has none.                   *)
Cases ==
  [step |-> stepCases, assertion |-> assertionCases, check |-> checksumCases \cup {"CHOOSE_BRANCH"},
   local |-> checksumCases \cup {"CHOOSE_BRANCH"}, branch |-> {"CHECKSUM_WHEN"},
   string |-> stringCases, boolean |-> predCases, integer |-> intCases]
Ways == DOMAIN Cases

(* As what operand x of a node is rendered.                                 *)
ReadAs(n, x) ==
  CASE n.op = "CANON_SEQUENCE" -> "step"
    [] n.op = "CANON_WHEN" -> IF x = 1 THEN "boolean" ELSE "step"
    [] n.op = "ASSERT_SEQUENCE" -> "assertion"
    [] n.op \in {"REQUIRE", "ALL", "ANY", "NOT"} -> "boolean"
    [] n.op = "CHECKSUM_WHEN" -> IF x = 1 THEN "boolean" ELSE "local"
    [] n.op \in {"ALL_CHECKS", "ANY_CHECK"} -> "local"
    [] n.op \in {"MODULO", "COMPLEMENT", "REMAINDER_MAP", "INTEGER_IS"} -> "integer"
    [] n.op \in {"COMPARE_DIGIT", "COMPARE_SLICE", "COMPARE_CONSTANT"} /\ x = 1 -> "integer"
    [] OTHER -> "string"

(* The operands written for a node, each as what: a CHOOSE writes the       *)
(* branches it keeps, the last as its default when it is no WHEN.           *)
Written(p, i) ==
  LET n == p.nodes[i]
      in == IF n.op = "CHOOSE_BRANCH" THEN Branches(p, n) ELSE n.in
      As(x) == IF n.op # "CHOOSE_BRANCH" THEN ReadAs(n, x)
               ELSE IF p.nodes[in[x]].op = "CHECKSUM_WHEN" THEN "branch" ELSE "local"
  IN {<<in[x], As(x)>> : x \in DOMAIN in}

RootAs == [canonicalization |-> "step", format |-> "assertion", checksum |-> "local"]

(* The nodes the code of a program writes: its locals and its root, and     *)
(* whatever a node written reads.                                           *)
WrittenNodes(p) ==
  LET n == Len(p.nodes)
      from[j \in 0 .. n] ==
        IF j = 0 THEN {}
        ELSE LET above == from[j - 1]
                 i == n + 1 - j
             IN IF \/ i \in Locals(p) \cup {p.root}
                   \/ \E k \in above : i \in {o[1] : o \in Written(p, k)}
                THEN above \cup {i} ELSE above
  IN from[n]

(* The ways the nodes are read.                                             *)
ReadBy(p) ==
  LET reads == (UNION {Written(p, k) : k \in WrittenNodes(p)})
               \cup {<<p.root, RootAs[p.kind]>>}
  IN [i \in DOMAIN p.nodes |-> {o[2] : o \in {r \in reads : r[1] = i}}]

(* Every node written is written by a function that has a case for it: the  *)
(* generator panics otherwise.                                              *)
Emittable(p) ==
  LET readBy == ReadBy(p) IN
  \A i \in DOMAIN p.nodes :
    /\ \A as \in readBy[i] : p.nodes[i].op \in Cases[as]
    /\ i \in Checks(p) => p.nodes[i].op \in Cases["check"]
    /\ i \in Hoisted(p) => p.nodes[i].op \in Cases[p.nodes[i].output]

(* Go refuses a function with a local nothing reads.                        *)
UnreadLocals(p) ==
  LET readBy == ReadBy(p) IN {i \in Locals(p) : readBy[i] = {}}

------------------------------------------------------------------------------
(* The statements of a rule.                                                *)
InOrder(p, S) == SelectSeq([i \in DOMAIN p.nodes |-> i], LAMBDA i : i \in S)
Statements(kind, is) == [k \in DOMAIN is |-> [do |-> kind, node |-> is[k]]]

(* The assertions of a format rule, its nested sequences flattened.         *)
Assertions(p) ==
  LET flat[i \in DOMAIN p.nodes] ==
        IF p.nodes[i].op = "ASSERT_SEQUENCE"
        THEN FlattenSeq([k \in DOMAIN p.nodes[i].in |-> flat[p.nodes[i].in[k]]])
        ELSE <<i>>
  IN flat[p.root]

Emitted(p) ==
  Statements("local", InOrder(p, Hoisted(p)))
    \o (IF p.kind = "format" THEN Statements("assert", Assertions(p))
        ELSE Statements("check", InOrder(p, Checks(p))))
    \o <<[do |-> "return", node |-> p.root]>>
==============================================================================
