---------------------------- MODULE BundleRules ----------------------------
(***************************************************************************)
(* What the loader demands of the identifiers and the dispatchers of a      *)
(* bundle: checks 6, 17 to 24 of internal/gen/load.go.                      *)
(*                                                                         *)
(* A bundle is [version, digest, features, programs, identifiers,           *)
(* dispatchers]; digest is the number of its bytes.  Tokens are sequences   *)
(* of bytes.  An optional field is a sequence of at most one value, so that *)
(* an absent country sorts before any present one.                          *)
(***************************************************************************)
EXTENDS ProgramRules

CONSTANTS MaxIdentifiers, MaxRulesVersionBytes, MaxCallDepth

Upper == 65 .. 90
Lower == 97 .. 122
Digit == 48 .. 57

Spells(s, alphabet, max) == Len(s) \in 1 .. max /\ \A k \in DOMAIN s : s[k] \in alphabet

validKindToken(s) == Spells(s, Lower \cup Digit \cup {95, 45}, 64) /\ s[1] \in Lower
validCountryToken(s) == Len(s) = 2 /\ Spells(s, Upper, 2)
validPrefixToken(s) == Spells(s, Upper \cup Digit, 8)
checkRulesVersion(s) ==
  Spells(s, Upper \cup Lower \cup Digit \cup {46, 45, 95}, MaxRulesVersionBytes)

Present(option) == option # <<>>

(* What decoding leaves in a bundle.                                        *)
Optional(S) == {s \in Seq(S) : Len(s) <= 1}
IdentifierType ==
  [id : Nat, kind : Seq(Byte), country : Optional(Seq(Byte)), profile : STRING, canon : Nat,
   format : Nat, checksum : Optional(Nat), absent : Optional(STRING),
   sources : Seq([id : Seq(Byte), tier : Nat])]
TargetType ==
  [def : Nat, country : Optional(Seq(Byte)), accepted : Seq(Seq(Byte)),
   prefix : Optional(Seq(Byte)), unprefixed : BOOLEAN]
DispatcherType ==
  [kind : Seq(Byte), aliases : Seq(Seq(Byte)), pre : Nat, targets : Seq(TargetType),
   countryAliases : Seq([alias : Seq(Byte), country : Seq(Byte)])]

BundleDecoded(b) ==
  /\ b.version \in Seq(Byte) /\ b.digest \in Nat /\ b.features \subseteq Nat
  /\ b.programs \in Seq(ToSet(b.programs))
  /\ \A k \in DOMAIN b.programs : ProgramDecoded(b.programs[k])
  /\ b.identifiers \in Seq(IdentifierType)
  /\ b.dispatchers \in Seq(DispatcherType)

(* The program of an ID, when the bundle has one of that kind.              *)
ByID(b, id) == {k \in DOMAIN b.programs : b.programs[k].id = id}
IsProgram(b, id, kind) == \E k \in ByID(b, id) : b.programs[k].kind = kind
Program(b, id) == b.programs[CHOOSE k \in ByID(b, id) : TRUE]
preCanonicalizers(b) == {b.dispatchers[k].pre : k \in DOMAIN b.dispatchers}

------------------------------------------------------------------------------
(* Checks 8 and 9 of a program, or 0.                                       *)
TotalNodes(b, k) ==
  LET Count(i) == Len(b.programs[i].nodes) IN MapThenSumSet(Count, 1 .. k)

ProgramFault(b, k, maxNodes, maxTotal) ==
  LET p == b.programs[k]
  IN IF \/ p.id = 0 \/ (k > 1 /\ p.id <= b.programs[k - 1].id)
        \/ p.kind \notin DOMAIN categoriesByProgramKind THEN 8
     ELSE IF Len(p.nodes) \notin 1 .. maxNodes \/ TotalNodes(b, k) > maxTotal THEN 9
     ELSE 0

------------------------------------------------------------------------------
OptionBefore(o, q) ==
  IF Present(o) /\ Present(q) THEN BytesBefore(o[1], q[1]) ELSE ~Present(o) /\ Present(q)

identifierOrderBefore(prev, next) ==
  \/ BytesBefore(prev.kind, next.kind)
  \/ prev.kind = next.kind /\ OptionBefore(prev.country, next.country)

(* Whether a program, or anything it calls, contains an operation.  No call *)
(* is left in a canonicalization program by check 16.                       *)
programUses(p, op) == \E i \in Indices(p) : p.nodes[i].op = op

IdentifierFormed(b, k) ==
  LET d == b.identifiers[k]
  IN /\ d.id # 0
     /\ \A e \in 1 .. k - 1 : b.identifiers[e].id # d.id
     /\ validKindToken(d.kind)
     /\ Present(d.country) => validCountryToken(d.country[1])
     /\ k > 1 => identifierOrderBefore(b.identifiers[k - 1], d)
     /\ d.profile \in {"compatible", "strict_current"}
     /\ IsProgram(b, d.canon, "canonicalization")
     /\ ~Present(d.country) => ~programUses(Program(b, d.canon), "PREPEND_COUNTRY_IF_MISSING")
     /\ IsProgram(b, d.format, "format")

Tiers == 0 .. 2   \* 0 states none
SourcesFormed(d) ==
  \A k \in DOMAIN d.sources :
    /\ d.sources[k].id # <<>> /\ d.sources[k].tier \in Tiers
    /\ k > 1 => BytesBefore(d.sources[k - 1].id, d.sources[k].id)

ChecksumDeclared(b, d) ==
  /\ Present(d.checksum) <=> ~Present(d.absent)
  /\ Present(d.checksum) => IsProgram(b, d.checksum[1], "checksum")
  /\ Present(d.absent) => d.absent[1] \in absentChecksumReason

(* Checks 17 and 18 of an identifier, or 0.                                 *)
IdentifierFault(b, k) ==
  IF ~IdentifierFormed(b, k) THEN 17
  ELSE IF ~ChecksumDeclared(b, b.identifiers[k]) \/ ~SourcesFormed(b.identifiers[k]) THEN 18
  ELSE 0

IdentifierFeatures(d) ==
  {21} \cup (IF Present(d.absent) THEN {30} ELSE {})
    \cup (IF d.sources # <<>> THEN {40} ELSE {})
    \cup (IF \E k \in DOMAIN d.sources : d.sources[k].tier # 0 THEN {41} ELSE {})

------------------------------------------------------------------------------
(* The kind tokens claimed before alias number a of dispatcher k; alias 0   *)
(* is its kind.                                                             *)
Claim(d, a) == IF a = 0 THEN d.kind ELSE d.aliases[a]
Claims(d) == {Claim(d, a) : a \in 0 .. Len(d.aliases)}

Claimed(b, k, a) ==
  (UNION {Claims(b.dispatchers[e]) : e \in 1 .. k - 1})
    \cup {Claim(b.dispatchers[k], c) : c \in 0 .. a - 1}

(* Check 19.                                                                *)
KindsClaimed(b, k) ==
  LET d == b.dispatchers[k]
  IN /\ k > 1 => BytesBefore(b.dispatchers[k - 1].kind, d.kind)
     /\ Ascending(d.aliases)
     /\ \A a \in 0 .. Len(d.aliases) :
          validKindToken(Claim(d, a)) /\ Claim(d, a) \notin Claimed(b, k, a)
     /\ IsProgram(b, d.pre, "canonicalization")

GlobalAlone(d) ==
  /\ Len(d.targets) = 1 /\ d.countryAliases = <<>>
  /\ d.targets[1].accepted = <<>> /\ ~Present(d.targets[1].prefix)

AcceptedBefore(d, k) ==
  UNION {ToSet(d.targets[e].accepted) : e \in 1 .. k - 1}

(* Mutant: two targets may answer without a country.                        *)
CountryTargetTwoDefaults(d, k) ==
  LET t == d.targets[k]
  IN /\ validCountryToken(t.country[1])
     /\ \A e \in 1 .. k - 1 : d.targets[e].country # t.country
     /\ Ascending(t.accepted)
     /\ \A x \in DOMAIN t.accepted :
          validPrefixToken(t.accepted[x]) /\ t.accepted[x] \notin AcceptedBefore(d, k)
     /\ Present(t.prefix) => validPrefixToken(t.prefix[1])

CountryTarget(d, k) ==
  LET t == d.targets[k]
  IN /\ validCountryToken(t.country[1])
     /\ \A e \in 1 .. k - 1 : d.targets[e].country # t.country
     /\ Ascending(t.accepted)
     /\ \A x \in DOMAIN t.accepted :
          validPrefixToken(t.accepted[x]) /\ t.accepted[x] \notin AcceptedBefore(d, k)
     /\ Present(t.prefix) => validPrefixToken(t.prefix[1])
     /\ t.unprefixed => \A e \in 1 .. k - 1 : ~d.targets[e].unprefixed

(* Checks 21 and 22.                                                        *)
TargetsFormed(d) ==
  /\ d.targets # <<>>
  /\ \A k \in DOMAIN d.targets :
       /\ k > 1 => OptionBefore(d.targets[k - 1].country, d.targets[k].country)
       /\ IF Present(d.targets[k].country) THEN CountryTarget(d, k) ELSE GlobalAlone(d)

Countries(d) == {d.targets[k].country[1] : k \in {k \in DOMAIN d.targets : Present(d.targets[k].country)}}

(* Check 20.                                                                *)
CountryAliasesFormed(d) ==
  LET alias(k) == d.countryAliases[k].alias
  IN \A k \in DOMAIN d.countryAliases :
       /\ validCountryToken(alias(k)) /\ validCountryToken(d.countryAliases[k].country)
       /\ k > 1 => BytesBefore(alias(k - 1), alias(k))
       /\ alias(k) # d.countryAliases[k].country
       /\ alias(k) \notin Countries(d)

(* Checks 19, 21 and 22 together, then 20, of a dispatcher, or 0.           *)
DispatcherFault(b, k) ==
  IF ~KindsClaimed(b, k) THEN 19
  ELSE IF ~TargetsFormed(b.dispatchers[k]) THEN 21
  ELSE IF ~CountryAliasesFormed(b.dispatchers[k]) THEN 20
  ELSE 0

------------------------------------------------------------------------------
(* Check 23: the targets of the bundle and the definitions are one to one.  *)
AllTargets(b) ==
  UNION {{<<k, e>> : e \in DOMAIN b.dispatchers[k].targets} : k \in DOMAIN b.dispatchers}

Owned(b) ==
  LET Defs == ToSet(b.identifiers)
      T(x) == b.dispatchers[x[1]].targets[x[2]]
  IN /\ \A x \in AllTargets(b) : \E def \in Defs :
          def.id = T(x).def /\ def.kind = b.dispatchers[x[1]].kind /\ def.country = T(x).country
     /\ \A x, y \in AllTargets(b) : T(x).def = T(y).def => x = y
     /\ \A def \in Defs : \E x \in AllTargets(b) : T(x).def = def.id

------------------------------------------------------------------------------
(* Check 24, by what it decides; module CallGraph models the walk.          *)
Calls(b, k) ==
  {b.programs[k].nodes[i].par.program_id : i \in {i \in Indices(b.programs[k]) :
     opSpecs[b.programs[k].nodes[i].op].cat = "call"}}

CallsAllowed(b) ==
  LET All == DOMAIN b.programs
      within[n \in 0 .. MaxCallDepth] ==
        IF n = 0 THEN {}
        ELSE {k \in All : \A id \in Calls(b, k) : ByID(b, id) \subseteq within[n - 1]}
  IN /\ \A k \in All : \A id \in Calls(b, k) : IsProgram(b, id, b.programs[k].kind)
     /\ within[MaxCallDepth] = All
==============================================================================
