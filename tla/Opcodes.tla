------------------------------ MODULE Opcodes ------------------------------
(***************************************************************************)
(* The frozen contract of each operation of the rules (internal/gen/        *)
(* opcodes.go): its category, the type it produces, the operands it takes,  *)
(* the parameters it declares and the capabilities it requires.             *)
(***************************************************************************)
EXTENDS Integers, Sequences

Unbounded == -1

(* An operation with operands at fixed positions and no repeated operand.   *)
opSpec(cat, output, fixed, required, features) ==
  [cat |-> cat, output |-> output, fixed |-> fixed, repeated |-> "none", minRep |-> 0,
   maxRep |-> 0, required |-> required, optional |-> {}, features |-> {1} \cup features]

Repeating(spec, type, min, max) ==
  [spec EXCEPT !.repeated = type, !.minRep = min, !.maxRep = max]
Optionally(spec, params) == [spec EXCEPT !.optional = params]

allowed(spec) == spec.required \cup spec.optional

------------------------------------------------------------------------------
Str(fixed, required, features) == opSpec("string", "string", fixed, required, features)
View(required) == Str(<<"string">>, required, {10})

stringOps ==
  [CONSTANT |-> Str(<<>>, {"text"}, {}), VALUE |-> Str(<<>>, {}, {}),
   SUBJECT |-> Str(<<>>, {}, {}), COUNTRY_CODE |-> Str(<<>>, {}, {5}),
   SLICE |-> View({"start", "end"}), SLICE_FROM |-> View({"start"}),
   SLICE_TO |-> View({"end"}), BEFORE_FIRST |-> View({"text"}),
   AFTER_FIRST |-> View({"text"}), STRIP_PREFIX |-> View({"text"}),
   CONCAT |-> Repeating(Str(<<>>, {}, {10}), "string", 1, 256)]

IntOp(operand, required) == opSpec("integer", "integer", <<operand>>, required, {30})
integerOps ==
  [DIGITS_TO_INTEGER |-> IntOp("string", {}), MOD_DIGITS |-> IntOp("string", {"modulus"}),
   WEIGHTED_SUM |->
     Optionally([IntOp("string", {"weights", "alignment", "mapping"}) EXCEPT !.features = {1, 30, 33}],
                {"alphabet"}),
   MODULO |-> IntOp("integer", {"modulus"}), COMPLEMENT |-> IntOp("integer", {"modulus"}),
   REMAINDER_MAP |-> IntOp("integer", {"remainder_values"})]

Pred(fixed, required, features) == opSpec("predicate", "boolean", fixed, required, features)
Test(required) == Pred(<<"string">>, required, {20})
Charset(required) == Pred(<<"string">>, required, {2})

predicateOps ==
  [IS_EMPTY |-> Test({}), IS_ABSENT |-> Pred(<<"string">>, {}, {10}),
   EQUALS |-> Pred(<<"string", "string">>, {}, {20}), LENGTH_EQ |-> Test({"length"}),
   LENGTH_IN |-> Test({"lengths"}), LENGTH_BETWEEN |-> Test({"min_length", "max_length"}),
   ASCII_DIGITS |-> Charset({}), ASCII_UPPER_LETTERS |-> Charset({}),
   ASCII_ALPHANUMERIC |-> Charset({}), ASCII_CHARSET |-> Charset({"text"}),
   STARTS_WITH |-> Test({"text"}), ENDS_WITH |-> Test({"text"}),
   PREFIX_IN |-> Test({"values"}), CHAR_AT_IN |-> Test({"index", "text"}),
   CONTAINS |-> Test({"text"}),
   ALL |-> Repeating(Pred(<<>>, {}, {20}), "boolean", 1, Unbounded),
   ANY |-> Repeating(Pred(<<>>, {}, {20}), "boolean", 1, Unbounded),
   NOT |-> Pred(<<"boolean">>, {}, {20}), PROFILE_IS |-> Pred(<<>>, {"text"}, {21}),
   INTEGER_IS |-> Pred(<<"integer">>, {"constant"}, {30, 35})]

Canon(fixed, required, features) == opSpec("canonicalization", "step", fixed, required, features)
canonicalizationOps ==
  [CANON_SEQUENCE |-> Repeating(Canon(<<>>, {}, {3}), "step", 0, Unbounded),
   TRIM_WHITESPACE |-> Canon(<<>>, {}, {2, 3}), REMOVE_WHITESPACE |-> Canon(<<>>, {}, {2, 3}),
   UPPERCASE_ASCII |-> Canon(<<>>, {}, {2, 3}), REMOVE_CHARS |-> Canon(<<>>, {"text"}, {3}),
   REPLACE_PREFIX |-> Canon(<<>>, {"text", "replacement"}, {3}),
   PREPEND |-> Canon(<<>>, {"text"}, {3}), APPEND |-> Canon(<<>>, {"text"}, {3}),
   INSERT |-> Canon(<<>>, {"index", "text"}, {3}),
   LEFT_PAD |-> Canon(<<>>, {"length", "text"}, {3}),
   PREPEND_COUNTRY_IF_MISSING |-> Canon(<<>>, {}, {3, 5}),
   CANON_WHEN |-> Repeating(Canon(<<"boolean">>, {}, {4}), "step", 1, Unbounded)]

assertionOps ==
  [ASSERT_SEQUENCE |->
     Repeating(opSpec("assertion", "assertion", <<>>, {}, {20}), "assertion", 1, Unbounded),
   REQUIRE |->
     Optionally(opSpec("assertion", "assertion", <<"boolean">>, {"reason_code"}, {20}),
                {"message_key"})]

Outcome(cat, fixed, required, features) ==
  opSpec(cat, "outcome", fixed, required, {30} \cup features)
Check(fixed, required, features) ==
  Optionally(Outcome("checksum", fixed, required, features), {"message_key"})
Combinator == Repeating(Outcome("checksum", <<>>, {}, {}), "outcome", 1, Unbounded)

checksumOps ==
  [LUHN |-> Check(<<"string">>, {}, {31}), ISO7064_MOD97_10 |-> Check(<<"string">>, {}, {32}),
   COMPARE_DIGIT |-> Check(<<"integer", "string">>, {"index"}, {}),
   COMPARE_SLICE |-> Check(<<"integer", "string">>, {"start", "end"}, {}),
   CHOOSE_BRANCH |-> Combinator,
   CHECKSUM_WHEN |-> Outcome("checksum", <<"boolean", "outcome">>, {}, {}),
   ALL_CHECKS |-> Combinator, ANY_CHECK |-> Combinator,
   UNSUPPORTED |-> Check(<<>>, {"reason_code"}, {}),
   COMPARE_CONSTANT |-> Check(<<"integer">>, {"constant"}, {34})]

callOps ==
  [CALL_FORMAT |-> opSpec("call", "assertion", <<"string">>, {"program_id"}, {11, 20}),
   CALL_CHECKSUM |-> Outcome("call", <<"string">>, {"program_id"}, {11})]

Opcodes ==
  DOMAIN stringOps \cup DOMAIN integerOps \cup DOMAIN predicateOps
    \cup DOMAIN canonicalizationOps \cup DOMAIN assertionOps \cup DOMAIN checksumOps
    \cup DOMAIN callOps

opSpecs ==
  [op \in Opcodes |->
     CASE op \in DOMAIN stringOps -> stringOps[op]
       [] op \in DOMAIN integerOps -> integerOps[op]
       [] op \in DOMAIN predicateOps -> predicateOps[op]
       [] op \in DOMAIN canonicalizationOps -> canonicalizationOps[op]
       [] op \in DOMAIN assertionOps -> assertionOps[op]
       [] op \in DOMAIN checksumOps -> checksumOps[op]
       [] op \in DOMAIN callOps -> callOps[op]]

------------------------------------------------------------------------------
categoriesByProgramKind ==
  [canonicalization |-> {"string", "predicate", "canonicalization"},
   format |-> {"string", "predicate", "assertion", "call"},
   checksum |-> {"string", "predicate", "integer", "checksum", "call"}]

callOpForProgram == [format |-> "CALL_FORMAT", checksum |-> "CALL_CHECKSUM"]

preCanonicalizationOps ==
  {"CANON_SEQUENCE", "TRIM_WHITESPACE", "REMOVE_WHITESPACE", "UPPERCASE_ASCII", "REMOVE_CHARS"}

provesInvalidity ==
  {"empty", "invalid_length", "invalid_characters", "invalid_format", "country_mismatch"}
absentChecksumReason == {"unsupported_checksum", "checksum_not_published"}
==============================================================================
