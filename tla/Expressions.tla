---------------------------- MODULE Expressions ----------------------------
(***************************************************************************)
(* The Go expressions a rule's string, boolean and integer nodes are        *)
(* rendered to (internal/gen/expr.go), by what they compute.  A node is     *)
(* [op, output, in, par]; its operands are at lower indices.  The context   *)
(* of a call, ruleCtx in the code, is [value, profile]; a called rule also  *)
(* has its subject.                                                         *)
(***************************************************************************)
EXTENDS Checksums

(* The bytes of a character set.                                            *)
Set(text) == ToSet(text)

stringExpr(n, c, subject, country, arg) ==
  CASE n.op = "CONSTANT" -> Value(n.par.text)
    [] n.op = "VALUE" -> Value(c.value)
    [] n.op = "SUBJECT" -> subject
    [] n.op = "COUNTRY_CODE" -> country
    [] n.op = "SLICE" -> Slice(arg[1], n.par.start, n.par.end)
    [] n.op = "SLICE_FROM" -> SliceFrom(arg[1], n.par.start)
    [] n.op = "SLICE_TO" -> SliceTo(arg[1], n.par.end)
    [] n.op = "BEFORE_FIRST" -> BeforeFirst(arg[1], n.par.text)
    [] n.op = "AFTER_FIRST" -> AfterFirst(arg[1], n.par.text)
    [] n.op = "STRIP_PREFIX" -> StripPrefix(arg[1], n.par.text)
    [] n.op = "CONCAT" ->
         FoldLeftDomain(LAMBDA v, k : Concat(v, arg[k]), Value(<<>>), n.in)

predExpr(n, c, arg) ==
  CASE n.op = "IS_EMPTY" -> IsEmpty(arg[1])
    [] n.op = "IS_ABSENT" -> IsAbsent(arg[1])
    [] n.op = "EQUALS" -> EqualViews(arg[1], arg[2])
    [] n.op = "LENGTH_EQ" -> LengthEq(arg[1], n.par.length)
    [] n.op = "LENGTH_IN" -> LengthIn(arg[1], ToSet(n.par.lengths))
    [] n.op = "LENGTH_BETWEEN" -> LengthBetween(arg[1], n.par.min_length, n.par.max_length)
    [] n.op = "ASCII_DIGITS" -> ASCIIDigits(arg[1])
    [] n.op = "ASCII_UPPER_LETTERS" -> ASCIIUpperLetters(arg[1])
    [] n.op = "ASCII_ALPHANUMERIC" -> ASCIIAlphanumeric(arg[1])
    [] n.op = "ASCII_CHARSET" -> ASCIICharset(arg[1], Set(n.par.text))
    [] n.op = "STARTS_WITH" -> StartsWith(arg[1], n.par.text)
    [] n.op = "ENDS_WITH" -> EndsWith(arg[1], n.par.text)
    [] n.op = "PREFIX_IN" -> PrefixInSorted(arg[1], PrefixGroups(n.par.values))
    [] n.op = "CHAR_AT_IN" -> CharAtIn(arg[1], n.par.index, Set(n.par.text))
    [] n.op = "CONTAINS" -> Holds(arg[1], n.par.text)
    [] n.op = "ALL" -> \A k \in DOMAIN n.in : arg[k]
    [] n.op = "ANY" -> \E k \in DOMAIN n.in : arg[k]
    [] n.op = "NOT" -> ~arg[1]
    [] n.op = "PROFILE_IS" -> c.profile = n.par.text
    [] n.op = "INTEGER_IS" -> Is(arg[1], n.par.constant)

intExpr(n, arg) ==
  CASE n.op = "DIGITS_TO_INTEGER" -> DigitsToInteger(arg[1])
    [] n.op = "MOD_DIGITS" -> ModDigits(arg[1], n.par.modulus)
    [] n.op = "WEIGHTED_SUM" /\ n.par.mapping = "custom_alphabet" ->
         WeightedSumAlphabet(arg[1], n.par.weights, n.par.alignment, n.par.alphabet)
    [] n.op = "WEIGHTED_SUM" /\ n.par.mapping # "custom_alphabet" ->
         WeightedSum(arg[1], n.par.weights, n.par.alignment, n.par.mapping)
    [] n.op = "MODULO" -> Modulo(arg[1], n.par.modulus)
    [] n.op = "COMPLEMENT" -> Complement(arg[1], n.par.modulus)
    [] n.op = "REMAINDER_MAP" -> RemainderMap(arg[1], n.par.remainder_values)

(* What each scalar node of a program renders to, when some nodes are read  *)
(* from a local variable instead.  The set holds one sequence, so that TLC  *)
(* evaluates upTo[i - 1] once.                                              *)
Rendered(nodes, c, subject, country, local) ==
  LET Rendering(n, arg) ==
        CASE n.output = "string" -> stringExpr(n, c, subject, country, arg)
          [] n.output = "boolean" -> predExpr(n, c, arg)
          [] n.output = "integer" -> intExpr(n, arg)
          [] OTHER -> Absent
      upTo[i \in 0 .. Len(nodes)] ==
        IF i = 0 THEN <<>>
        ELSE CHOOSE v \in
               {Append(ready,
                  IF i \in DOMAIN local THEN local[i]
                  ELSE Rendering(nodes[i], [k \in DOMAIN nodes[i].in |-> ready[nodes[i].in[k]]])) :
                  ready \in {upTo[i - 1]}} : TRUE
  IN upTo[Len(nodes)]

NoLocal == [i \in {} |-> Absent]
==============================================================================
