---------------------------- MODULE MCGeneration ----------------------------
(* One valid bundle with a country dispatcher and a global one, the same     *)
(* with one thing changed, canonicalizers that grow, checksum rules that     *)
(* join outcomes in several ways, and bundles whose format program is any    *)
(* small graph of string operations, with any subject and captures.          *)
EXTENDS Generation

N(op, in, par) == Node(op, in, par)
S(op, in, par) == [op |-> op, output |-> "string", in |-> in, par |-> par]
No == [x \in {} |-> 0]
VALUE == S("VALUE", <<>>, No)
Const(s) == S("CONSTANT", <<>>, [text |-> s])
SliceOf(k, a, b) == S("SLICE", <<k>>, [start |-> a, end |-> b])
Require(k) == N("REQUIRE", <<k>>, [reason_code |-> "empty"])
Assertions(in) == N("ASSERT_SEQUENCE", in, No)
Steps(in) == N("CANON_SEQUENCE", in, No)

P(id, kind, nodes) ==
  [id |-> id, kind |-> kind, nodes |-> nodes, root |-> Len(nodes), subject |-> 0,
   captures |-> <<>>]

Pre == P(1, "canonicalization", <<N("TRIM_WHITESPACE", <<>>, No), Steps(<<1>>)>>)
CanonVat ==
  P(2, "canonicalization",
    <<VALUE, N("STARTS_WITH", <<1>>, [text |-> <<65>>]), N("PREPEND", <<>>, [text |-> <<66>>]),
      N("CANON_WHEN", <<2, 3>>, No), N("PREPEND_COUNTRY_IF_MISSING", <<>>, No),
      Steps(<<4, 5>>)>>)
CanonGlobal == P(3, "canonicalization", <<N("LEFT_PAD", <<>>, [text |-> <<48>>, length |-> 2]), Steps(<<1>>)>>)
Called ==
  P(4, "format", <<N("SUBJECT", <<>>, No), N("IS_EMPTY", <<1>>, No), N("NOT", <<2>>, No),
                   Require(3), Assertions(<<4>>)>>)
Format ==
  P(5, "format", <<VALUE, SliceOf(1, 0, 2), N("CALL_FORMAT", <<2>>, [program_id |-> 4]),
                   N("LENGTH_BETWEEN", <<1>>, [min_length |-> 1, max_length |-> 3]), Require(4),
                   Assertions(<<3, 5>>)>>)
Sum == [weights |-> <<2, 1>>, alignment |-> "right", mapping |-> "digit_value"]
Checksum ==
  P(6, "checksum",
    <<VALUE, SliceOf(1, 0, 2), N("DIGITS_TO_INTEGER", <<2>>, No),
      N("WEIGHTED_SUM", <<2>>, Sum), N("INTEGER_IS", <<4>>, [constant |-> 1]),
      N("COMPARE_DIGIT", <<3, 1>>, [index |-> 0]), N("CHECKSUM_WHEN", <<5, 6>>, No),
      N("UNSUPPORTED", <<>>, [reason_code |-> "unsupported_checksum"]),
      N("CHOOSE_BRANCH", <<7, 8>>, No)>>)

FR == <<70, 82>>
GR == <<71, 82>>
EL == <<69, 76>>
Vat == <<118>>
Lei == <<108>>
I(id, kind, country, canon) ==
  [id |-> id, kind |-> kind, country |-> country, profile |-> "compatible", canon |-> canon,
   format |-> 5, checksum |-> <<6>>, absent |-> <<>>, sources |-> <<[id |-> <<97>>, tier |-> 1]>>]
T(def, country, accepted, prefix, unprefixed) ==
  [def |-> def, country |-> country, accepted |-> accepted, prefix |-> prefix,
   unprefixed |-> unprefixed]
D(kind, aliases, targets, countryAliases) ==
  [kind |-> kind, aliases |-> aliases, pre |-> 1, targets |-> targets,
   countryAliases |-> countryAliases]

Base ==
  [version |-> <<49, 46, 48>>, digest |-> 32, features |-> SupportedFeatures,
   programs |-> <<Pre, CanonVat, CanonGlobal, Called, Format, Checksum>>,
   identifiers |-> <<I(3, Lei, <<>>, 3), I(1, Vat, <<FR>>, 2), I(2, Vat, <<GR>>, 2)>>,
   dispatchers |->
     <<D(Lei, <<>>, <<T(3, <<>>, <<>>, <<>>, FALSE)>>, <<>>),
       D(Vat, <<<<116>>>>,
         <<T(1, <<FR>>, <<FR>>, <<>>, TRUE), T(2, <<GR>>, <<EL, GR>>, <<EL>>, FALSE)>>,
         <<[alias |-> EL, country |-> GR]>>)>>]

Long(n) == [k \in 1 .. n |-> 97]

HeaderChanges(B) ==
  {[B EXCEPT !.version = v] : v \in {<<>>, <<32>>, Long(9)}}
    \cup {[B EXCEPT !.digest = 31], [B EXCEPT !.features = SupportedFeatures \ {11}],
          [B EXCEPT !.identifiers = <<>>, !.dispatchers = <<>>]}

ProgramChanges(B) ==
  {[B EXCEPT !.programs[2].id = n] : n \in {0, 1, 9}}
    \cup {[B EXCEPT !.programs[5].nodes = @ \o @ \o @],
          [B EXCEPT !.programs[5].nodes = <<>>], [B EXCEPT !.programs[5].kind = "other"]}
    \cup {[B EXCEPT !.programs[5].root = r] : r \in {1, 7}}
    \cup {[B EXCEPT !.programs[5].subject = s] : s \in {1, 4, 7}}
    \cup {[B EXCEPT !.programs[3] =
             P(3, "canonicalization",
               <<VALUE, N("CALL_FORMAT", <<1>>, [program_id |-> 4]), CanonGlobal.nodes[1],
                 Steps(<<3>>)>>)]}
    \cup {[B EXCEPT !.programs[2].subject = 1], [B EXCEPT !.programs[4].subject = 1],
          [B EXCEPT !.programs[6].captures = <<[name |-> "a", node |-> 1]>>]}

Replacement ==
  {VALUE, N("SUBJECT", <<>>, No), N("CALL_FORMAT", <<1>>, [program_id |-> 4]),
   N("CALL_FORMAT", <<1>>, [program_id |-> 5]), N("CALL_FORMAT", <<1>>, [program_id |-> 6]),
   N("CALL_FORMAT", <<1>>, [program_id |-> 9]), N("CALL_CHECKSUM", <<1>>, [program_id |-> 6]),
   N("MODULO", <<3>>, [modulus |-> 1]), N("INTEGER_IS", <<3>>, [constant |-> 99]),
   N("IS_EMPTY", <<1, 1>>, No), N("CONTAINS", <<1>>, [text |-> <<>>]), N("CONTAINS", <<1>>, No),
   SliceOf(1, 2, 1), SliceOf(1, 0, 9), SliceOf(1, 0, 4), Require(5), N("CANON_WHEN", <<2>>, No),
   N("WEIGHTED_SUM", <<2>>, [Sum EXCEPT !.weights = <<9>>]),
   N("WEIGHTED_SUM", <<1>>, [Sum EXCEPT !.alignment = "cycle", !.weights = <<4>>]),
   N("WEIGHTED_SUM", <<1>>, [weights |-> <<1>>, alignment |-> "left",
                             mapping |-> "custom_alphabet", alphabet |-> <<65, 65>>]),
   N("WEIGHTED_SUM", <<1>>, [weights |-> <<1>>, alignment |-> "left",
                             mapping |-> "custom_alphabet", alphabet |-> <<65, 66>>]),
   N("PREFIX_IN", <<1>>, [values |-> <<FR, EL>>]), N("PREFIX_IN", <<1>>, [values |-> <<EL, Vat>>]),
   N("LENGTH_IN", <<1>>, [lengths |-> <<2, 2>>]), N("PROFILE_IS", <<>>, [text |-> <<99>>]),
   N("CHECKSUM_WHEN", <<5, 6>>, No), N("INSERT", <<>>, [index |-> 1, text |-> <<66>>]),
   N("LEFT_PAD", <<>>, [text |-> FR, length |-> 2]),
   N("REPLACE_PREFIX", <<>>, [text |-> FR, replacement |-> FR]), [VALUE EXCEPT !.op = "NEW"]}

(* Every node of every program.                                             *)
BasePositions(B) ==
  UNION {{<<p, i>> : i \in DOMAIN B.programs[p].nodes} : p \in DOMAIN B.programs}

NodeChanges(B) ==
  {[B EXCEPT !.programs[x[1]].nodes[x[2]] = n] : x \in BasePositions(B), n \in Replacement}

IdentifierChanges(B) ==
  {[B EXCEPT !.identifiers[2].id = n] : n \in {0, 3, 9}}
    \cup {[B EXCEPT !.identifiers[2].kind = k] : k \in {<<>>, <<48>>, Lei, Long(65), <<119>>}}
    \cup {[B EXCEPT !.identifiers[2].country = c] : c \in {<<>>, <<GR>>, <<<<71>>>>}}
    \cup {[B EXCEPT !.identifiers[2].canon = n, !.identifiers[2].format = m] :
            n \in {2, 5}, m \in {4, 5, 6, 9}}
    \cup {[B EXCEPT !.identifiers[2].checksum = c, !.identifiers[2].absent = a] :
            c \in {<<>>, <<6>>, <<5>>}, a \in {<<>>, <<"unsupported_checksum">>, <<"empty">>}}
    \cup {[B EXCEPT !.identifiers[1].canon = 2], [B EXCEPT !.identifiers[1].profile = "new"]}
    \cup {[B EXCEPT !.identifiers[1].sources = s] :
            s \in {<<>>, <<[id |-> <<>>, tier |-> 0]>>, <<[id |-> Lei, tier |-> 3]>>,
                   <<[id |-> Lei, tier |-> 0], [id |-> Lei, tier |-> 0]>>}}

DispatcherChanges(B) ==
  {[B EXCEPT !.dispatchers[1].kind = k] : k \in {<<>>, Vat, <<116>>, <<119>>}}
    \cup {[B EXCEPT !.dispatchers[2].aliases = a] :
            a \in {<<Vat>>, <<Lei>>, <<<<116>>, <<116>>>>, <<<<48>>>>, <<<<97>>, <<98>>>>}}
    \cup {[B EXCEPT !.dispatchers[2].pre = n] : n \in {2, 5, 9}}
    \cup {[B EXCEPT !.dispatchers[2].targets[1].country = c] : c \in {<<>>, <<GR>>, <<<<71>>>>}}
    \cup {[B EXCEPT !.dispatchers[2].targets[1].accepted = s] :
            s \in {<<>>, <<EL>>, <<GR, FR>>, <<Long(1)>>, <<[k \in 1 .. 9 |-> 65]>>}}
    \cup {[B EXCEPT !.dispatchers[2].targets[k].prefix = s] : k \in 1 .. 2, s \in {<<>>, <<Vat>>}}
    \cup {[B EXCEPT !.dispatchers[2].targets[2].unprefixed = TRUE],
          [B EXCEPT !.dispatchers[1].targets[1].accepted = <<EL>>],
          [B EXCEPT !.dispatchers[1].targets = <<>>],
          [B EXCEPT !.dispatchers[1].countryAliases = <<[alias |-> EL, country |-> GR]>>]}
    \cup {[B EXCEPT !.dispatchers[k].targets[1].def = n] : k \in 1 .. 2, n \in {1, 2, 3, 9}}
    \cup {[B EXCEPT !.dispatchers[2].countryAliases = <<[alias |-> a, country |-> c]>>] :
            a \in {EL, FR, GR, Vat}, c \in {FR, GR, Vat}}

(* Any three string operations below an assertion on the last.              *)
Leaves == {VALUE, Const(<<65>>), Const(<<195, 169, 65>>), S("SUBJECT", <<>>, No),
           S("COUNTRY_CODE", <<>>, No)}
Over(k) ==
  {SliceOf(k, 0, 1), SliceOf(k, 1, 3), S("SLICE_FROM", <<k>>, [start |-> 2]),
   S("SLICE_TO", <<k>>, [end |-> 2]), S("BEFORE_FIRST", <<k>>, [text |-> <<65>>]),
   S("AFTER_FIRST", <<k>>, [text |-> <<65>>]), S("STRIP_PREFIX", <<k>>, [text |-> <<195, 169>>])}
Pairs2(i) == {S("CONCAT", <<k, l>>, No) : k, l \in 1 .. i - 1}
Strings(i) == Leaves \cup UNION {Over(k) : k \in 1 .. i - 1} \cup Pairs2(i)

Asserting(nodes, tail, on, subject, captures) ==
  LET n == Len(nodes)
  IN [P(5, "format", nodes \o <<[tail[1] EXCEPT !.in = <<on>>], [tail[2] EXCEPT !.in = <<n + 1>>],
                                [tail[3] EXCEPT !.in = <<n + 2>>]>>)
        EXCEPT !.subject = subject, !.captures = captures]
Tail3 == <<N("IS_EMPTY", <<1>>, No), Require(1), Assertions(<<1>>)>>

(* Any graph of three nodes, of which the first is read and any joined, with *)
(* a subject and captures anywhere.                                         *)
Nodes(i) == {VALUE, SliceOf(i - 1, 0, 1)} \cup Pairs2(i)
C(name, n) == [name |-> name, node |-> n]
CaptureLists ==
  {<<>>} \cup {<<C("a", k)>> : k \in 1 .. 3}
    \cup {<<C("a", x[1]), C("b", x[2])>> : x \in {<<1, 2>>, <<2, 1>>, <<2, 3>>, <<3, 2>>}}
    \cup {<<C("", 1)>>, <<C("a", 1), C("a", 2)>>, <<C("a", 4)>>, <<C("a", 9)>>, <<C("a", 1), C("b", 2), C("c", 3)>>}

(* A bundle of one program, without definitions.                            *)
Single == [Base EXCEPT !.programs = <<>>, !.identifiers = <<>>, !.dispatchers = <<>>]

Bounded ==
  {[B EXCEPT !.programs = <<Asserting(<<x, y, z>>, tail, 3, 0, <<>>)>>] :
     B \in {Single}, tail \in {Tail3}, x \in Strings(1), y \in Strings(2), z \in Strings(3)}
Expanded ==
  {[B EXCEPT !.programs = <<Asserting(<<VALUE, y, z>>, tail, on, s, c)>>] :
     B \in {Single}, tail \in {Tail3}, y \in Nodes(2), z \in Nodes(3), on \in {1, 3},
     s \in 0 .. 3, c \in CaptureLists}

Changed(B) ==
  {B} \cup HeaderChanges(B) \cup ProgramChanges(B) \cup NodeChanges(B) \cup IdentifierChanges(B)
    \cup DispatcherChanges(B)

MCValues == {<<>>, <<65>>, <<49, 65>>, <<195, 169, 65>>, <<49, 50, 65>>}

Append4 == N("APPEND", <<>>, [text |-> <<65, 65, 65, 65>>])
Prepend4 == N("PREPEND", <<>>, [text |-> <<65, 65, 65, 65>>])
Repeated(n, k) == [i \in 1 .. k |-> n]
Growing(B) ==
  {[B EXCEPT !.programs[3] =
         P(3, "canonicalization", Repeated(n, k) \o <<Steps([i \in 1 .. 3 * k |-> ((i - 1) % k) + 1])>>)] :
        n \in {Append4, Prepend4}, k \in 1 .. 2}

(* Every definition with a canonicalizer of its own.                        *)
Apart(B) ==
  [B EXCEPT !.programs = Append(@, [CanonGlobal EXCEPT !.id = 7]),
               !.identifiers[1].canon = 7, !.identifiers[3].canon = 3]
ApartChanges(B) ==
  {[B EXCEPT !.programs[2].nodes[3] = n] :
        n \in {Append4, Prepend4, CanonGlobal.nodes[1],
               N("REPLACE_PREFIX", <<>>, [text |-> FR, replacement |-> <<65>>])}}

Joining ==
  {N("ALL_CHECKS", <<6, 8>>, No), N("ANY_CHECK", <<8, 6>>, No), N("ALL_CHECKS", <<7, 6>>, No),
   N("CHOOSE_BRANCH", <<8, 7>>, No), N("CHOOSE_BRANCH", <<6, 7, 8>>, No),
   N("REMAINDER_MAP", <<4>>, [remainder_values |-> <<0>>]), N("LUHN", <<1>>, No),
   N("PREFIX_IN", <<1>>, [values |-> <<<<65>>, <<66>>>>]), N("CANON_SEQUENCE", <<>>, No),
   N("COUNTRY_CODE", <<>>, No), N("PREPEND_COUNTRY_IF_MISSING", <<>>, No)}
JoinChanges(B) ==
  {[B EXCEPT !.programs[x[1]].nodes[x[2]] = n] : x \in BasePositions(B), n \in Joining}

(* A WHEN that a CHOOSE reads, and another combinator.                      *)
GuardedTwice ==
  P(6, "checksum",
    <<VALUE, N("STARTS_WITH", <<1>>, [text |-> FR]),
      N("UNSUPPORTED", <<>>, [reason_code |-> "unsupported_checksum"]),
      N("CHECKSUM_WHEN", <<2, 3>>, No), N("ALL_CHECKS", <<4, 3>>, No),
      N("CHOOSE_BRANCH", <<4, 5>>, No)>>)

(* Two global kinds that differ in a separator, in the order of their       *)
(* tokens, each with a dispatcher and a canonicalizer of its own.           *)
Dashed == <<97, 45, 98>>
Underscored == <<97, 95, 98>>
GlobalTarget(def) == <<T(def, <<>>, <<>>, <<>>, FALSE)>>
MCNames ==
  {Base,
   [Apart(Base) EXCEPT
      !.identifiers = <<I(1, Dashed, <<>>, 3), I(2, Underscored, <<>>, 7)>>,
      !.dispatchers = <<D(Dashed, <<>>, GlobalTarget(1), <<>>), D(Underscored, <<>>, GlobalTarget(2), <<>>)>>]}

MCGenerated ==
  UNION {{[B EXCEPT !.programs[6] = GuardedTwice]} \cup Changed(B) \cup Growing(B) \cup JoinChanges(B)
           \cup UNION {ApartChanges(A) : A \in {Apart(B)}} : B \in {Base}}
    \cup Expanded \cup Bounded
=============================================================================
