---------------------------- MODULE RuleMeaning ----------------------------
(***************************************************************************)
(* What a format or checksum rule means: its graph read from the root, node *)
(* by node, with no local variable, no statement order and no table.  The   *)
(* compiled rules of module RuleCode are compared with it.  A rule is       *)
(* called on [value, profile, country]; the country is that of the selected *)
(* target, absent for a GLOBAL one, and the code's ruleCtx does not hold it.*)
(***************************************************************************)
EXTENDS Expressions, RuleEmission, TLC

CONSTANTS Rules,     \* [id]: the program of a rule
          Contexts   \* what a rule may be called on: [value, profile, country]

(* A definition, which TLC evaluates once where it would evaluate the       *)
(* constant at each use.                                                    *)
Program == Rules

validStep == [status |-> "valid", reason |-> "ok", key |-> ""]
invalidStep(reason, key) == [status |-> "invalid", reason |-> reason, key |-> key]
unsupportedStep(reason, key) == [status |-> "unsupported", reason |-> reason, key |-> key]

KeyOf(n) == IF "message_key" \in DOMAIN n.par THEN n.par.message_key ELSE ""

fromOutcome(o, key) ==
  CASE o = "valid" -> [validStep EXCEPT !.key = key]
    [] o = "invalid" -> invalidStep("invalid_checksum", key)
    [] OTHER -> unsupportedStep("unsupported_checksum", key)

(* The algorithm a checksum node runs on its scalar operands.               *)
Algorithm(n, arg) ==
  CASE n.op = "LUHN" -> Luhn(arg[1])
    [] n.op = "ISO7064_MOD97_10" -> ISO7064Mod97(arg[1])
    [] n.op = "COMPARE_DIGIT" -> CompareDigit(arg[1], arg[2], n.par.index)
    [] n.op = "COMPARE_SLICE" -> CompareSlice(arg[1], arg[2], n.par.start, n.par.end)
    [] n.op = "COMPARE_CONSTANT" -> CompareConstant(arg[1], n.par.constant)

Algorithms == {"LUHN", "ISO7064_MOD97_10", "COMPARE_DIGIT", "COMPARE_SLICE", "COMPARE_CONSTANT"}

(* Results are pairs of a position and an outcome.                          *)
OfStatus(results, statuses) == {r \in results : r[2].status \in statuses}
FirstOf(results) == (CHOOSE r \in results : \A s \in results : r[1] <= s[1])[2]

(* What a node that joins others makes of them.                             *)
Joins(op, results) ==
  LET valid == OfStatus(results, {"valid"})
      invalid == OfStatus(results, {"invalid"})
      unsupported == OfStatus(results, {"unsupported"})
      First3(a, b, otherwise) == IF a # {} THEN FirstOf(a) ELSE IF b # {} THEN FirstOf(b) ELSE otherwise
  IN CASE op = "ALL_CHECKS" -> First3(invalid, unsupported, validStep)
       [] op = "ANY_CHECK" -> First3(valid, unsupported, FirstOf(results))
       [] op = "ASSERT_SEQUENCE" -> First3(results \ valid, {}, validStep)

(* The outcome of a node, from its operands: scalar and of are the values   *)
(* and the outcomes of the nodes of its rule, Called what a call returns.   *)
Possible(nodes, n, scalar) ==
  {k \in DOMAIN n.in :
     nodes[n.in[k]].op # "CHECKSUM_WHEN" \/ scalar[nodes[n.in[k]].in[1]]}
OutcomeIn(nodes, n, scalar, of, Called(_, _)) ==
  CASE n.op \in Algorithms ->
         fromOutcome(Algorithm(n, [k \in DOMAIN n.in |-> scalar[n.in[k]]]), KeyOf(n))
    [] n.op = "UNSUPPORTED" -> unsupportedStep(n.par.reason_code, KeyOf(n))
    [] n.op = "CHECKSUM_WHEN" -> of[n.in[2]]
    [] n.op = "CHOOSE_BRANCH" ->
         IF Possible(nodes, n, scalar) # {} THEN of[n.in[Min(Possible(nodes, n, scalar))]]
         ELSE unsupportedStep("unsupported_checksum", "")
    [] n.op \in {"ALL_CHECKS", "ANY_CHECK", "ASSERT_SEQUENCE"} ->
         Joins(n.op, {<<k, of[n.in[k]]>> : k \in DOMAIN n.in})
    [] n.op = "REQUIRE" ->
         IF scalar[n.in[1]] THEN validStep ELSE invalidStep(n.par.reason_code, KeyOf(n))
    [] n.op \in {"CALL_FORMAT", "CALL_CHECKSUM"} -> Called(n.par.program_id, scalar[n.in[1]])

(* The outcomes of the nodes of rule p, whose own subject and callers'      *)
(* context are given: a function from those nodes that have one.            *)
RECURSIVE Meaning(_, _, _)
Meaning(p, c, subject) ==
  LET Called(id, operand) ==
        CHOOSE o \in {Meaning(q, c, operand)[q.root] : q \in {Program[id]}} : TRUE
      Outcomes(scalar) ==
        LET of[i \in DOMAIN p.nodes] == OutcomeIn(p.nodes, p.nodes[i], scalar, of, Called) IN of
  IN CHOOSE m \in {Outcomes(scalar) :
                    scalar \in {Rendered(p.nodes, c, subject, c.country, NoLocal)}} : TRUE

(* The subject of a rule called from outside is what its subject node       *)
(* yields, which reads no subject, or the value where it declares none.     *)
SubjectOf(p, c) ==
  IF p.subject = 0 THEN Value(c.value)
  ELSE Rendered(p.nodes, c, Value(c.value), c.country, NoLocal)[p.subject]

(* What each rule means when it is called from outside, in each context.    *)
MeaningOf ==
  [call \in (DOMAIN Program) \X Contexts |->
     LET p == Program[call[1]] IN Meaning(p, call[2], SubjectOf(p, call[2]))[p.root]]
=============================================================================
