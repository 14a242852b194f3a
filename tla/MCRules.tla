------------------------------ MODULE MCRules ------------------------------
(* The two machines of a compiled rule, its arithmetic over views (module   *)
(* ChecksumRules) and its statements (RuleCode), one of them in each        *)
(* behaviour; they share no variable.                                       *)
(*                                                                          *)
(* Statements: format rules with calls three deep, hoisted views and nested *)
(* sequences; a called checksum rule; and every checksum rule that joins    *)
(* two or three outcomes under one combinator, the first two under another, *)
(* with or without a WHEN around any of them.                               *)
EXTENDS RuleCode, ChecksumRules

CONSTANT MaxPoints   \* bounds the values of the arithmetic

No == [x \in {} |-> 0]
S(op, in, par) == [op |-> op, output |-> "string", in |-> in, par |-> par]
I(op, in, par) == [op |-> op, output |-> "integer", in |-> in, par |-> par]
B(op, in, par) == [op |-> op, output |-> "boolean", in |-> in, par |-> par]
A(op, in, par) == [op |-> op, output |-> "assertion", in |-> in, par |-> par]
C(op, in, par) == [op |-> op, output |-> "outcome", in |-> in, par |-> par]
P(kind, nodes) == [kind |-> kind, nodes |-> nodes, root |-> Len(nodes), subject |-> 0]

VALUE == S("VALUE", <<>>, No)
SUBJECT == S("SUBJECT", <<>>, No)
SliceOf(k, a, b) == S("SLICE", <<k>>, [start |-> a, end |-> b])
Fails(k, reason, key) == A("REQUIRE", <<k>>, [reason_code |-> reason, message_key |-> key])

(* Its subject starts with A; then it calls the rule of two digits on what  *)
(* follows, read twice.                                                     *)
Outer ==
  P("format",
    <<SUBJECT, S("AFTER_FIRST", <<1>>, [text |-> <<65>>]), B("STARTS_WITH", <<1>>, [text |-> <<65>>]),
      Fails(3, "invalid_format", "outer"), B("LENGTH_BETWEEN", <<2>>, [min_length |-> 1, max_length |-> 2]),
      A("REQUIRE", <<5>>, [reason_code |-> "invalid_length"]),
      A("CALL_FORMAT", <<2>>, [program_id |-> 2]), A("ASSERT_SEQUENCE", <<6, 7>>, No),
      A("ASSERT_SEQUENCE", <<4, 8>>, No)>>)
Digits ==
  P("format",
    <<SUBJECT, B("ASCII_DIGITS", <<1>>, No), Fails(2, "invalid_characters", "digits"),
      VALUE, SliceOf(1, 0, 1), S("CONCAT", <<5, 4>>, No), B("EQUALS", <<1, 4>>, No),
      B("NOT", <<7>>, No), B("ANY", <<8, 2>>, No), Fails(9, "invalid_format", ""),
      A("CALL_FORMAT", <<5>>, [program_id |-> 3]), A("CALL_FORMAT", <<6>>, [program_id |-> 4]),
      A("ASSERT_SEQUENCE", <<3, 10, 11, 12>>, No)>>)
One ==
  P("format",
    <<SUBJECT, B("CHAR_AT_IN", <<1>>, [index |-> 0, text |-> <<49>>]),
      B("PROFILE_IS", <<>>, [text |-> "strict_current"]), B("NOT", <<3>>, No), B("ANY", <<2, 4>>, No),
      Fails(5, "invalid_format", "one"), A("ASSERT_SEQUENCE", <<6>>, No)>>)
Short ==
  P("format",
    <<SUBJECT, B("LENGTH_EQ", <<1>>, [length |-> 3]), B("CONTAINS", <<1>>, [text |-> <<65>>]),
      B("ALL", <<2, 3>>, No), B("NOT", <<4>>, No), Fails(5, "invalid_length", "short"),
      A("ASSERT_SEQUENCE", <<6>>, No)>>)

(* A rule that reads the country.                                           *)
Home ==
  P("format",
    <<S("COUNTRY_CODE", <<>>, No), B("IS_ABSENT", <<1>>, No), B("NOT", <<2>>, No),
      Fails(3, "country_mismatch", "home"), A("ASSERT_SEQUENCE", <<4>>, No)>>)

(* Called by checksum rules, on a piece of the value.                       *)
Called ==
  P("checksum",
    <<SUBJECT, C("LUHN", <<1>>, [message_key |-> "luhn"]), SliceOf(1, 0, 1),
      I("DIGITS_TO_INTEGER", <<3>>, No), I("MODULO", <<4>>, [modulus |-> 3]),
      C("COMPARE_DIGIT", <<5, 3>>, [index |-> 0]), C("ANY_CHECK", <<2, 6>>, No)>>)

(* What the joined rules read: the value, all of it but its first character,*)
(* two predicates and a sum.                                                *)
Reading ==
  <<VALUE, S("SLICE_FROM", <<1>>, [start |-> 1]), B("STARTS_WITH", <<1>>, [text |-> <<49>>]),
    B("LENGTH_EQ", <<1>>, [length |-> 3]),
    I("WEIGHTED_SUM", <<2>>, [weights |-> <<1, 2>>, alignment |-> "left", mapping |-> "digit_value"])>>
Leaves ==
  <<C("LUHN", <<1>>, No),
    C("UNSUPPORTED", <<>>, [reason_code |-> "checksum_not_published", message_key |-> "none"]),
    C("CALL_CHECKSUM", <<2>>, [program_id |-> 5]),
    C("COMPARE_CONSTANT", <<5>>, [constant |-> 4, message_key |-> "sum"]),
    C("COMPARE_SLICE", <<5, 1>>, [start |-> 0, end |-> 1])>>

(* The leaves are nodes 6 to 8; only a CHOOSE may read a guarded one.       *)
Joining(leaves, first, second, guards) ==
  LET order == SetToSortSeq(guards, <)
      In(k) == IF k \in guards THEN 8 + (CHOOSE j \in DOMAIN order : order[j] = k) ELSE 5 + k
      whens == [j \in DOMAIN order |-> C("CHECKSUM_WHEN", <<3 + (order[j] % 2), 5 + order[j]>>, No)]
      inner == 9 + Len(order)
  IN P("checksum", Reading \o leaves \o whens \o <<C(first, <<In(1), In(2)>>, No), C(second, <<inner, In(3)>>, No)>>)

(* Join number k, by the digits of k.                                       *)
Combinators == <<"ALL_CHECKS", "ANY_CHECK", "CHOOSE_BRANCH">>
Guards == <<{}, {1}, {2}, {1, 2}, {3}, {1, 2, 3}>>
Digit(k, by, base) == ((k \div by) % base) + 1
Joined(k) ==
  Joining(<<Leaves[Digit(k, 54, 4)], Leaves[Digit(k, 216, 4) + 1], Leaves[Digit(k, 864, 2)]>>,
          Combinators[Digit(k, 1, 3)], Combinators[Digit(k, 3, 3)], Guards[Digit(k, 9, 6)])
AllRules == <<Outer, Digits, One, Short, Called, Home>> \o [k \in 1 .. 1728 |-> Joined(k)]

(* Those the loader and the Go compiler take.                               *)
Compiled(p) ==
  /\ \A i \in DOMAIN p.nodes : \A k \in DOMAIN p.nodes[i].in :
       p.nodes[p.nodes[i].in[k]].op = "CHECKSUM_WHEN" => p.nodes[i].op = "CHOOSE_BRANCH"
  /\ UnreadLocals(p) = {} /\ Emittable(p)
CompiledRules == SelectSeq(AllRules, Compiled)

Fr == Value(<<70, 82>>)
On(value, profile, country) == [value |-> value, profile |-> profile, country |-> country]
MCContexts ==
  {On(<<65>>, "compatible", Absent), On(<<65, 50>>, "compatible", Absent),
   On(<<65, 50>>, "strict_current", Absent), On(<<65, 49, 56>>, "strict_current", Absent),
   On(<<49, 56>>, "compatible", Absent), On(<<49, 50, 49>>, "compatible", Absent),
   On(<<50, 49, 56>>, "compatible", Absent)}

(* A rule whose subject is the value without its first character.           *)
Declared ==
  [P("format",
     <<VALUE, S("SLICE_FROM", <<1>>, [start |-> 1]), SUBJECT, B("ASCII_DIGITS", <<3>>, No),
       Fails(4, "invalid_characters", "declared"), A("ASSERT_SEQUENCE", <<5>>, No)>>)
   EXCEPT !.subject = 2]

(* The rules of a target with a country, and one with a subject node.       *)
SpecifiedRules == <<Home, Declared>>
SpecifiedContexts == {On(<<65, 50>>, "compatible", Fr)}

------------------------------------------------------------------------------
(* Values of up to MaxPoints code points over two digits, two upper case    *)
(* letters, a lower case one and a two byte code point; what a chain of     *)
(* string operations makes of them is longer by a constant.                 *)
Pieces == {<<49>>, <<56>>, <<65>>, <<90>>, <<97>>, <<195, 169>>}

Strings[n \in 0 .. MaxPoints] ==
  IF n = 0 THEN {<<>>} ELSE Strings[n - 1] \cup {p \o q : p \in Pieces, q \in Strings[n - 1]}

MCValues == Strings[MaxPoints]
MCTexts == {<<49>>, <<65>>, <<195, 169>>, <<65, 49>>}
MCWeights == {<<1, 3>>, <<-2, 1, 7>>, <<4>>, <<-60, 30>>}
MCTables == {<<0, 5, 1>>, <<9, -1>>}
MCAlphabets == {<<57, 195, 169, 65>>, <<65, 49>>}
MCModuli == {2, 7, 10}
MCComparands == {0, 7, -3}

------------------------------------------------------------------------------
(* One machine runs, the other rests where one of its runs ends, and where  *)
(* none of its actions is enabled but Finished.                             *)
vars == <<arithmeticVars, codeVars>>

ArithmeticRests ==
  /\ view = Absent /\ steps = -1 /\ transforms = -1
  /\ number = Indeterminate /\ exact = Indeterminate /\ outcome = "unsupported"

CodeRests ==
  /\ entry = 1 /\ c = CHOOSE x \in Contexts : TRUE
  /\ frames = <<>> /\ result = MeaningOf[entry, c]

Init ==
  \/ ArithmeticInit /\ CodeRests
  \/ CodeInit /\ ArithmeticRests

Next ==
  \/ StringStep /\ UNCHANGED codeVars
  \/ ReadDigits /\ UNCHANGED codeVars
  \/ ReadModDigits /\ UNCHANGED codeVars
  \/ ReadWeightedSum /\ UNCHANGED codeVars
  \/ ReadWeightedSumAlphabet /\ UNCHANGED codeVars
  \/ DoModulo /\ UNCHANGED codeVars
  \/ DoComplement /\ UNCHANGED codeVars
  \/ DoRemainderMap /\ UNCHANGED codeVars
  \/ DoCompareConstant /\ UNCHANGED codeVars
  \/ DoCompareDigit /\ UNCHANGED codeVars
  \/ DoCompareSlice /\ UNCHANGED codeVars
  \/ DoLuhn /\ UNCHANGED codeVars
  \/ DoISO7064Mod97 /\ UNCHANGED codeVars
  \/ EmitLocal /\ UNCHANGED arithmeticVars
  \/ Require /\ UNCHANGED arithmeticVars
  \/ CallFormat /\ UNCHANGED arithmeticVars
  \/ FormatReturned /\ UNCHANGED arithmeticVars
  \/ EmitCheck /\ UNCHANGED arithmeticVars
  \/ CallChecksum /\ UNCHANGED arithmeticVars
  \/ ChecksumReturned /\ UNCHANGED arithmeticVars
  \/ ReturnStatement /\ UNCHANGED arithmeticVars
  \/ Finished /\ UNCHANGED arithmeticVars

Spec == Init /\ [][Next]_vars
==============================================================================
