------------------------------ MODULE MCEngine ------------------------------
(***************************************************************************)
(* A small bundle in the shape of the published one: a country dispatcher  *)
(* with overlapping prefixes, a business prefix that is not the country    *)
(* code, an alias and no fallback; one with a single unprefixed target; and*)
(* a GLOBAL one.                                                           *)
(***************************************************************************)
EXTENDS Engine, TLC

(* Bytes: E, L, G, R, F; the digits 1 and 9; a space; an ill formed byte.  *)
E == 69
L == 76
G == 71
R == 82
F == 70
One == 49
Nine == 57
Space == 32
Bad == 194

Lower(s) == [k \in DOMAIN s |-> s[k] + 32]

Vat == <<118>>
Siren == <<115>>
Lei == <<108>>

MCDispatchers == { "vat", "siren", "lei" }
MCDefinitions == { "vatGR", "vatFR", "siren", "lei" }

MCKindOf == [vat |-> Vat, siren |-> Siren, lei |-> Lei]
MCKindAliases == [vat |-> { <<116>> }, siren |-> {}, lei |-> {}]

NoAliases == [code \in {} |-> <<>>]

MCCountryAliases ==
  [vat |-> [code \in { <<E, L>> } |-> <<G, R>>], siren |-> NoAliases, lei |-> NoAliases]

T(id, code, accepted, unprefixed) ==
  [def |-> id, country |-> code, accepted |-> accepted, unprefixed |-> unprefixed]

MCTargets ==
  [vat   |-> { T("vatGR", <<G, R>>, { <<E, L>>, <<E>> }, FALSE),
               T("vatFR", <<F, R>>, { <<E, F>>, <<F>> }, FALSE) },
   siren |-> { T("siren", <<F, R>>, {}, TRUE) },
   lei   |-> { T("lei", <<>>, {}, FALSE) }]

MCDefaultProfile ==
  [id \in MCDefinitions |-> IF id \in { "vatGR", "lei" } THEN "strict_current"
                             ELSE "compatible"]

(* The pre-canonicalizer removes whitespace.                               *)
MCPreCanonicalized(family, value) == SelectSeq(value, LAMBDA c : c # Space)

(* GR writes its own prefix in front, FR only under the compatible profile.*)
MCCanonicalized(id, profile, value) ==
  CASE id = "vatGR" /\ ~HasPrefix(value, <<E>>) -> <<E, L>> \o value
    [] id = "vatFR" /\ ~HasPrefix(value, <<F>>) /\ ~HasPrefix(value, <<E, F>>)
         /\ profile = "compatible" -> <<F>> \o value
    [] OTHER -> value

(* A value needs a digit; 9 is a shape only the strict profile refuses.    *)
MCFormatRule(id, profile, value) ==
  CASE value = <<>> -> StepOf("invalid", "empty")
    [] Contains(value, Nine) /\ profile = "strict_current" ->
         StepOf("invalid", "invalid_format")
    [] Contains(value, One) \/ Contains(value, Nine) -> StepOf("valid", "ok")
    [] OTHER -> StepOf("unsupported", "unsupported_format")

MCChecksumRule(id, profile, value) ==
  CASE id = "lei" -> StepOf("unsupported", "checksum_not_published")
    [] id # "lei" /\ Contains(value, Nine) ->
         [status |-> "invalid", reason |-> "invalid_checksum", key |-> "declared"]
    [] OTHER -> StepOf("valid", "ok")

MCMaxInput == 3

MCKinds == { <<Space, 86>>, <<116>>, Siren, Lei, <<120>> }

MCValues ==
  { <<>>, <<One>>, <<E, L, One>>, <<E, Space, F>>, <<E, F, Nine>>, <<F, Nine>>,
    <<E, One>>, <<Nine, Space>>, <<Bad>>, <<One, One, One>>,
    <<Space, One, One, One>>, <<Bad, One, One, One>> }

MCCountries ==
  { <<>>, <<Space>>, <<G, R>>, Lower(<<E, L>>), <<Space>> \o Lower(<<F, R>>),
    <<E, E>>, <<F>> }

(* The rules settle, so what is proved of bundles that do is of this one.   *)
ASSUME MCRulesSettle ==
  RulesSettle(UNION { [1 .. n -> { E, F, One, Nine, Space, Bad }] : n \in 0 .. 4 })
=============================================================================
