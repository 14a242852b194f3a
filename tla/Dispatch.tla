------------------------------ MODULE Dispatch ------------------------------
(***************************************************************************)
(* The dispatch tables the generator compiles out of a bundle (the         *)
(* switches of rules_gen.go, written by emit.go), the rules they lead to,  *)
(* and the few string functions dispatch applies to the caller's tokens.   *)
(*                                                                         *)
(* What a canonicalizer, a format rule or a checksum rule computes is the  *)
(* bundle's business: they are parameters here.  Module Workspace models   *)
(* how a canonicalizer runs.                                               *)
(***************************************************************************)
EXTENDS Utf8, SequencesExt

CONSTANTS
  Dispatchers,      (* the kind families                                   *)
  NoDispatcher,
  KindOf,           (* [d]: the canonical kind of a dispatcher             *)
  KindAliases,      (* [d]: the set of its kind aliases                    *)
  CountryAliases,   (* [d]: a function from alias to country code          *)
  Targets,          (* [d]: the set of its dispatch targets                *)
  Definitions,      (* the identifier definitions                          *)
  NoDefinition,
  DefaultProfile,   (* [def]: its documented default profile               *)
  PreCanonicalized(_, _),   (* d, value                                    *)
  Canonicalized(_, _, _),   (* def, profile, value                         *)
  FormatRule(_, _, _),      (* def, profile, value: a StepResult           *)
  ChecksumRule(_, _, _),    (* def, profile, value: a StepResult           *)
  MaxInput          (* the largest input accepted, in bytes                *)

Profiles == { "compatible", "strict_current" }

(* A GLOBAL target has the empty country.                                  *)
Target == [def : Definitions, country : Seq(Byte),
           accepted : SUBSET Seq(Byte), unprefixed : BOOLEAN]

AllTargets == UNION { Targets[d] : d \in Dispatchers }

Tokens(d) == { KindOf[d] } \cup KindAliases[d]

AcceptedPrefixes(d) == UNION { t.accepted : t \in Targets[d] }

(***************************************************************************)
(* String functions of internal/runtime/buffer.go and engine.go.           *)
(***************************************************************************)

IsASCIISpace(c) == c \in (9 .. 13) \cup { 32 }

TrimASCII(s) ==
  LET kept == { k \in DOMAIN s : ~IsASCIISpace(s[k]) }
  IN  IF kept = {} THEN <<>> ELSE SubSeq(s, Min(kept), Max(kept))

LowerASCII(s) == [k \in DOMAIN s |-> IF s[k] \in 65 .. 90 THEN s[k] + 32 ELSE s[k]]

UpperASCII(s) == [k \in DOMAIN s |-> IF IsASCIILower(s[k]) THEN s[k] - 32 ELSE s[k]]

IsCountryToken(s) == Len(s) = 2 /\ \A k \in DOMAIN s : s[k] \in 65 .. 90

(* Lower case letters, digits, _ and -: the check of kinds and their aliases.*)
IsKindToken(s) ==
  \A k \in DOMAIN s : s[k] \in (97 .. 122) \cup (48 .. 57) \cup { 95, 45 }

(* Checks 19 to 23 of the loader, which the generator refuses a bundle for.*)
TablesAccepted ==
  /\ NoDispatcher \notin Dispatchers /\ NoDefinition \notin Definitions
  /\ MaxInput \in Nat
  /\ DefaultProfile \in [Definitions -> Profiles]
  /\ \A d \in Dispatchers :
       /\ Tokens(d) \subseteq { s \in Seq(Byte) : IsKindToken(s) }
       /\ \A e \in Dispatchers \ {d} : Tokens(d) \cap Tokens(e) = {}
       /\ Targets[d] \in (SUBSET Target) \ {{}}
       /\ \A t \in Targets[d] :
            IF t.country = <<>>
            THEN /\ Targets[d] = {t}
                 /\ t.accepted = {}
                 /\ DOMAIN CountryAliases[d] = {}
            ELSE IsCountryToken(t.country)
       /\ \A t, u \in Targets[d] :
            t # u => /\ t.country # u.country
                     /\ t.accepted \cap u.accepted = {}
                     /\ ~(t.unprefixed /\ u.unprefixed)
       /\ \A code \in DOMAIN CountryAliases[d] :
            /\ { code, CountryAliases[d][code] } \subseteq Seq(Byte)
            /\ IsCountryToken(code) /\ IsCountryToken(CountryAliases[d][code])
            /\ code # CountryAliases[d][code]
            /\ \A t \in Targets[d] : t.country # code
  /\ \A def \in Definitions : \E t \in AllTargets : t.def = def
  /\ \A d, e \in Dispatchers : \A t \in Targets[d], u \in Targets[e] :
       t.def = u.def => d = e /\ t = u

ASSUME AcceptedBundle == TablesAccepted

(***************************************************************************)
(* The compiled tables.  A lookup that finds nothing returns NoDefinition. *)
(***************************************************************************)

DispatcherOf(token) ==
  IF \E d \in Dispatchers : token \in Tokens(d)
  THEN CHOOSE d \in Dispatchers : token \in Tokens(d) ELSE NoDispatcher

CountryAlias(d, code) ==
  IF code \in DOMAIN CountryAliases[d] THEN CountryAliases[d][code] ELSE code

(* The definition of the target of d that has a property, if one has.      *)
TargetWith(d, Has(_)) ==
  IF \E t \in Targets[d] : Has(t)
  THEN (CHOOSE t \in Targets[d] : Has(t)).def ELSE NoDefinition

CountryTarget(d, code) ==
  TargetWith(d, LAMBDA t : t.country # <<>> /\ t.country = code)

GlobalTarget(d) == TargetWith(d, LAMBDA t : t.country = <<>>)

UnprefixedTarget(d) ==
  TargetWith(d, LAMBDA t : t.country # <<>> /\ t.unprefixed)

(* Mutant: from the shortest to the longest.                               *)
ShorterFirst(p, q) ==
  \/ Len(p) < Len(q)
  \/ /\ Len(p) = Len(q)
     /\ \E k \in DOMAIN p : p[k] < q[k] /\ SubSeq(p, 1, k - 1) = SubSeq(q, 1, k - 1)

(* Prefixes are compared in the order the generator writes them: from the  *)
(* longest to the shortest, in byte order within a length.                 *)
ComparedBefore(p, q) ==
  \/ Len(p) > Len(q)
  \/ /\ Len(p) = Len(q)
     /\ \E k \in DOMAIN p : p[k] < q[k] /\ SubSeq(p, 1, k - 1) = SubSeq(q, 1, k - 1)

(* The prefixes of d the value begins with, and the first to be compared.   *)
PrefixesOf(d, value) == { p \in AcceptedPrefixes(d) : HasPrefix(value, p) }
FirstCompared(S) == CHOOSE p \in S : \A q \in S \ {p} : ComparedBefore(p, q)

PrefixTarget(d, value) ==
  LET matching == PrefixesOf(d, value)
  IN  IF matching = {} THEN NoDefinition
      ELSE TargetWith(d, LAMBDA t : FirstCompared(matching) \in t.accepted)

DefinitionCountry(def) == (CHOOSE t \in AllTargets : t.def = def).country

(***************************************************************************)
(* Results.                                                                *)
(***************************************************************************)

Statuses == { "valid", "invalid", "unsupported", "not_run" }

(* The registry, without the reasons a built engine never reports.         *)
Reasons ==
  { "ok", "empty", "invalid_length", "invalid_characters", "invalid_format",
    "invalid_checksum", "missing_country_code", "country_mismatch",
    "unsupported_kind", "unsupported_country", "unsupported_format",
    "unsupported_checksum", "checksum_not_published", "not_requested",
    "not_run_format_invalid", "not_run_format_unsupported", "input_too_long",
    "invalid_encoding" }

(* Of a message key, whether the rule declares one.                        *)
StepResult == [status : Statuses, reason : Reasons, key : { "", "declared" }]

StepOf(status, reason) == [status |-> status, reason |-> reason, key |-> ""]

(* The checksum step behind a format step that did not hold.               *)
NotRunAfter(status) ==
  StepOf("not_run", IF status = "invalid" THEN "not_run_format_invalid"
                    ELSE "not_run_format_unsupported")
=============================================================================
