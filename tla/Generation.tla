------------------------------ MODULE Generation ------------------------------
(***************************************************************************)
(* From an accepted bundle to Go source (internal/gen/emit.go and           *)
(* emit_programs.go): the passes of generator.run, once the loader of       *)
(* module Loader has accepted the bundle.  What is kept of the text is what *)
(* a Go compiler can object to: the names declared at the top level, the    *)
(* names used, the cases of each switch, the locals, and the sizes.         *)
(***************************************************************************)
EXTENDS Loader

CONSTANTS MaxScratchMargin,  \* the largest growth a workspace is sized for
          Radix              \* the base numbers are written in, 10 in the code

VARIABLES
  pass,      \* the pass of the generator to run next, or its outcome
  declared,  \* the names declared
  referred,  \* the names referred to
  scratch    \* scratchSizing

generator == <<pass, declared, referred, scratch>>

Emission == INSTANCE RuleEmission

------------------------------------------------------------------------------
(* The Go names of programs, definitions, dispatchers and tables            *)
(* (internal/gen/names.go).  A name is a sequence of symbols: a word of the *)
(* generator is one symbol above the bytes, the rest is spelled out, so two *)
(* names are one exactly when the Go names are.                             *)
Words ==
  <<"def", "dispatcher", "canonicalize", "format", "checksum", "preCanonicalize", "program",
    "weights", "remainders", "prefixes">>
Word(w) == <<255 + (CHOOSE k \in DOMAIN Words : Words[k] = w)>>

Digits(n) ==
  LET digits[k \in 0 .. n] ==
        (IF k < Radix THEN <<>> ELSE digits[k \div Radix]) \o <<48 + (k % Radix)>>
  IN digits[n]

------------------------------------------------------------------------------
Separator == {45, 95}
Capital(b) == IF b \in Lower THEN b - 32 ELSE b

(* "fr_siren" becomes "FrSiren".                                            *)
pascal(s) ==
  LET cased == [k \in DOMAIN s |-> IF k = 1 \/ s[k - 1] \in Separator THEN Capital(s[k]) ELSE s[k]]
  IN SelectSeq(cased, LAMBDA b : b \notin Separator)

definitionSuffix(d) == pascal(d.kind) \o (IF Present(d.country) THEN d.country[1] ELSE <<>>)
DefConst(d) == Word("def") \o definitionSuffix(d)
DispatcherConst(kind) == Word("dispatcher") \o pascal(kind)

(* The names claimed for programs, in the order of newNaming; the first one *)
(* claimed for a program is its name.                                       *)
DefinitionClaims(d) ==
  LET suffix == definitionSuffix(d)
  IN <<<<d.canon, Word("canonicalize") \o suffix>>, <<d.format, Word("format") \o suffix>>>>
       \o (IF Present(d.checksum) THEN <<<<d.checksum[1], Word("checksum") \o suffix>>>> ELSE <<>>)

ProgramClaims(b) ==
  FlattenSeq([k \in DOMAIN b.identifiers |-> DefinitionClaims(b.identifiers[k])])
    \o [k \in DOMAIN b.dispatchers |->
          <<b.dispatchers[k].pre, Word("preCanonicalize") \o Digits(b.dispatchers[k].pre)>>]
    \o [k \in DOMAIN b.programs |-> <<b.programs[k].id, Word("program") \o Digits(b.programs[k].id)>>]

Claimed1st(claims, id) ==
  claims[CHOOSE k \in DOMAIN claims :
           claims[k][1] = id /\ \A l \in 1 .. k - 1 : claims[l][1] # id][2]
ProgramName(b, id) == Claimed1st(ProgramClaims(b), id)

(* The table of node i of a program, counted from 0 in its name.            *)
TableName(b, p, word, i) == Word(word) \o ProgramName(b, p.id) \o Digits(i - 1)

------------------------------------------------------------------------------
Outcomes == {"generated", "refused"}
Passes ==
  {"definitions", "dispatch", "canonicalizers", "formats", "checksums", "tables"} \cup Outcomes

GenerationInit ==
  Init /\ pass = "definitions" /\ declared = {} /\ referred = {} /\ scratch = [left |-> 0, right |-> 0]

Emitting(this) == phase = "accepted" /\ pass = this

(* A pass that declares some names and refers to others.                    *)
Emit(next, names, uses) ==
  /\ pass' = next /\ declared' = declared \cup names /\ referred' = referred \cup uses
  /\ UNCHANGED <<vars, scratch>>

DefConsts(b) == {DefConst(d) : d \in ToSet(b.identifiers)}
DispatcherConsts(b) == {DispatcherConst(d.kind) : d \in ToSet(b.dispatchers)}

EmitDefinitions ==
  Emitting("definitions") /\ Emit("dispatch", DefConsts(bundle), DefConsts(bundle))

------------------------------------------------------------------------------
PreCanonicalizers(b) == {ProgramName(b, id) : id \in preCanonicalizers(b)}

(* The dispatch target a definition is reached through.                     *)
targetOf(b, id) == {t \in TargetsOf(b) : t.def = id}

(* emitSteps has a case for every step, and a target to fold                *)
(* PREPEND_COUNTRY_IF_MISSING against.                                      *)
StepsEmittable(p, target) ==
  /\ Emission!Emittable(p)
  /\ target = {} =>
       \A i \in Emission!WrittenNodes(p) : p.nodes[i].op # "PREPEND_COUNTRY_IF_MISSING"

PreCanonicalizersEmittable ==
  \A id \in preCanonicalizers(bundle) : StepsEmittable(Program(bundle, id), {})

(* The lookups name the definitions they answer, and route calls the        *)
(* pre-canonicalizer of the dispatcher it found.                            *)
DispatchUses(b) ==
  DispatcherConsts(b) \cup PreCanonicalizers(b)
    \cup {DefConst(Definition(b, t.def)) : t \in TargetsOf(b)}

EmitDispatch ==
  /\ Emitting("dispatch") /\ PreCanonicalizersEmittable
  /\ Emit("canonicalizers", DispatcherConsts(bundle) \cup PreCanonicalizers(bundle), DispatchUses(bundle))

------------------------------------------------------------------------------
Lead(t) == IF Present(t.prefix) THEN t.prefix[1] ELSE CountryOf(t.country)

(* Mutant: the first step a WHEN guards is not counted.                     *)
FirstStepLate(n) == IF n.op = "CANON_WHEN" THEN 3 ELSE 1

(* The first operand of a sequence or a WHEN that is a step.                *)
FirstStep(n) == IF n.op = "CANON_WHEN" THEN 2 ELSE 1

(* The bytes the steps of a program can add on either side.                 *)
growth(p, target) ==
  LET grows[i \in Indices(p)] ==
        LET n == p.nodes[i]
            Left(k) == grows[n.in[k]].left
            Right(k) == grows[n.in[k]].right
            steps == FirstStep(n) .. Len(n.in)
            LeftOnly(x) == [left |-> x, right |-> 0]
        IN CASE n.output # "step" -> LeftOnly(0)
             [] n.op \in {"CANON_SEQUENCE", "CANON_WHEN"} ->
                  [left |-> MapThenSumSet(Left, steps), right |-> MapThenSumSet(Right, steps)]
             [] n.op = "REPLACE_PREFIX" ->
                  LeftOnly(Max({0, Len(n.par.replacement) - Len(n.par.text)}))
             [] n.op = "PREPEND" -> LeftOnly(Len(n.par.text))
             [] n.op = "LEFT_PAD" -> LeftOnly(n.par.length * Len(n.par.text))
             [] n.op \in {"APPEND", "INSERT"} -> [left |-> 0, right |-> Len(n.par.text)]
             [] n.op = "PREPEND_COUNTRY_IF_MISSING" ->
                  LeftOnly(IF target = {} THEN 0 ELSE Len(Lead(CHOOSE t \in target : TRUE)))
             [] OTHER -> LeftOnly(0)
  IN grows[p.root]

(* sizeScratch considers a program once, the first time it meets it, and    *)
(* the canonicalizers after the routing ones.                               *)
Considered(b) ==
  {growth(Program(b, id), {}) : id \in preCanonicalizers(b)}
    \cup {growth(Program(b, b.identifiers[k].canon), targetOf(b, b.identifiers[k].id)) :
            k \in {k \in DOMAIN b.identifiers :
                     /\ b.identifiers[k].canon \notin preCanonicalizers(b)
                     /\ \A e \in 1 .. k - 1 : b.identifiers[e].canon # b.identifiers[k].canon}}

(* Mutant: only the rules of a definition, and not those they call.         *)
programsOwned(b, kind) ==
  {p \in ToSet(b.programs) : /\ p.kind = kind
     /\ \E d \in ToSet(b.identifiers) : p.id \in {d.format} \cup ToSet(d.checksum)}

programsOfKind(b, kind) == {p \in ToSet(b.programs) : p.kind = kind}
RuleNames(b, kind) == {ProgramName(b, p.id) : p \in programsOfKind(b, kind)}

(* The tables a node reads.                                                 *)
TableWord ==
  [WEIGHTED_SUM |-> "weights", REMAINDER_MAP |-> "remainders", PREFIX_IN |-> "prefixes"]
TableNodes(p, S) == {i \in S : p.nodes[i].op \in DOMAIN TableWord}
TableOf(b, p, i) == TableName(b, p, TableWord[p.nodes[i].op], i)

(* What the programs of a kind refer to: those they call, their tables.     *)
UsedBy(b, kind) ==
  UNION {LET written == Emission!WrittenNodes(p)
         IN {ProgramName(b, p.nodes[i].par.program_id) :
               i \in {i \in written : opSpecs[p.nodes[i].op].cat = "call"}}
              \cup {TableOf(b, p, i) : i \in TableNodes(p, written)} :
         p \in programsOfKind(b, kind)}

CanonicalizerName(d) == Word("canonicalize") \o definitionSuffix(d)
Canonicalizers(b) == {CanonicalizerName(d) : d \in ToSet(b.identifiers)}

CanonicalizersEmittable ==
  \A d \in ToSet(bundle.identifiers) :
    StepsEmittable(Program(bundle, d.canon), targetOf(bundle, d.id))

TooMuchGrowth == \E g \in Considered(bundle) : Max({g.left, g.right}) > MaxScratchMargin

sizeScratch ==
  LET sizes == Considered(bundle) \cup {[left |-> 0, right |-> 0]}
  IN [left |-> Max({g.left : g \in sizes}), right |-> Max({g.right : g \in sizes})]

EmitCanonicalizers ==
  /\ Emitting("canonicalizers") /\ ~TooMuchGrowth /\ CanonicalizersEmittable
  /\ pass' = "formats" /\ scratch' = sizeScratch
  /\ declared' = declared \cup Canonicalizers(bundle)
  /\ referred' = referred \cup Canonicalizers(bundle) \cup UsedBy(bundle, "canonicalization")
  /\ UNCHANGED vars

RefuseGrowth ==
  /\ Emitting("canonicalizers") /\ TooMuchGrowth
  /\ pass' = "refused"
  /\ UNCHANGED <<vars, declared, referred, scratch>>

------------------------------------------------------------------------------
RulesEmittable(kind) ==
  \A p \in ToSet(bundle.programs) : p.kind = kind => Emission!Emittable(p)

EmitRules(this, next, kind, selected) ==
  /\ Emitting(this) /\ RulesEmittable(kind)
  /\ Emit(next, RuleNames(bundle, kind),
          UsedBy(bundle, kind) \cup {ProgramName(bundle, id) : id \in selected})

EmitFormats ==
  EmitRules("formats", "checksums", "format", {d.format : d \in ToSet(bundle.identifiers)})
EmitChecksums ==
  EmitRules("checksums", "tables", "checksum",
            UNION {ToSet(d.checksum) : d \in ToSet(bundle.identifiers)})
ProgramTables(b) ==
  UNION {{TableOf(b, p, i) : i \in TableNodes(p, DOMAIN p.nodes)} : p \in ToSet(b.programs)}

EmitTables == Emitting("tables") /\ Emit("generated", ProgramTables(bundle), {})

------------------------------------------------------------------------------
(* generate calls Load, and the passes only on the bundle it returns.        *)
Load == Next /\ UNCHANGED generator

Generate ==
  \/ Load \/ EmitDefinitions \/ EmitDispatch \/ EmitCanonicalizers \/ RefuseGrowth
  \/ EmitFormats \/ EmitChecksums \/ EmitTables

GenerationSpec == GenerationInit /\ [][Generate]_<<vars, generator>> /\ WF_<<vars, generator>>(Generate)

------------------------------------------------------------------------------
(* The workspace is sized within the margins a step can need, and code is   *)
(* only generated from an accepted bundle (sizeScratch, main.go).           *)
GenerationTypeOK ==
  /\ pass \in Passes
  /\ pass # "definitions" => phase = "accepted"
  /\ scratch.left \in 0 .. MaxScratchMargin /\ scratch.right \in 0 .. MaxScratchMargin

(* The loader and the generator never stop on an accepted or a half checked *)
(* bundle: the search of programUses ends, and each panic of emitSteps,     *)
(* emitPrependCountry, emitAssertions, checksumExpr and of the expressions  *)
(* is out of reach.                                                         *)
NeverPanics ==
  /\ SearchEnds
  /\ Emitting("dispatch") => PreCanonicalizersEmittable
  /\ Emitting("canonicalizers") => CanonicalizersEmittable
  /\ Emitting("formats") => RulesEmittable("format")
  /\ Emitting("checksums") => RulesEmittable("checksum")

(* The switches over the tokens and the country codes of a caller have no   *)
(* string case twice, which a Go compiler refuses: dispatcherOf, and inside *)
(* each dispatcher countryAlias and countryTarget.  The switches over the   *)
(* constants generated for dispatchers and definitions are left to          *)
(* DeclaredOnce.                                                            *)
KindCases ==
  [x \in UNION {{k} \X (0 .. Len(bundle.dispatchers[k].aliases)) : k \in DOMAIN bundle.dispatchers} |->
     Claim(bundle.dispatchers[x[1]], x[2])]
CasesDistinct ==
  /\ IsInjective(KindCases)
  /\ \A d \in ToSet(bundle.dispatchers) :
       /\ IsInjective([k \in DOMAIN d.countryAliases |-> d.countryAliases[k].alias])
       /\ IsInjective([k \in DOMAIN d.targets |-> d.targets[k].country])

(* Whatever the generated code refers to, some pass declared, in whichever  *)
(* of the programs it was used, and dispatcherOf, countryAlias and          *)
(* countryTarget have one answer for each string (emitFormats,              *)
(* emitChecksums, emitTables, emitDispatch).  That a name is declared once  *)
(* is not part of it.                                                       *)
NothingUndeclared ==
  pass = "generated" => referred \subseteq declared /\ CasesDistinct

(* What is declared at the top level, a name for each declaration.          *)
ProgramsOf(b, kind) == SelectSeq(b.programs, LAMBDA p : p.kind = kind)
Routing(b) == SelectSeq(b.programs, LAMBDA p : p.id \in preCanonicalizers(b))
Declarations(b) ==
  LET Named(programs) == [k \in DOMAIN programs |-> ProgramName(b, programs[k].id)]
  IN [k \in DOMAIN b.identifiers |-> DefConst(b.identifiers[k])]
       \o [k \in DOMAIN b.dispatchers |-> DispatcherConst(b.dispatchers[k].kind)]
       \o [k \in DOMAIN b.identifiers |-> CanonicalizerName(b.identifiers[k])]
       \o Named(Routing(b)) \o Named(ProgramsOf(b, "format")) \o Named(ProgramsOf(b, "checksum"))

(* load.go:36: an accepted bundle is ready to generate from, so that no two *)
(* declarations of the generated source have one name.  They may: pascal    *)
(* drops the separators of a kind (names.go:85), and kinds that differ only *)
(* in them pass every check.  The constants of their dispatchers then       *)
(* collide, in the declarations and as cases of canonicalKind.              *)
DeclaredOnce == pass = "generated" => IsInjective(Declarations(bundle))

(* The workspace has room on both sides for the steps of every canonicalizer*)
(* no other definition shares, as the straight-line code of module          *)
(* CanonPrograms counts them (growth counts them on the graph), and the      *)
(* loader and the generator keep their types.                               *)
Alone(k) == \A e \in DOMAIN bundle.identifiers \ {k} : bundle.identifiers[e].canon # bundle.identifiers[k].canon
RoomForEveryCanonicalizer ==
  /\ TypeOK /\ GenerationTypeOK
  /\ pass \in {"formats", "checksums", "tables", "generated"} =>
       \A k \in DOMAIN bundle.identifiers :
         LET steps == Programs!Compiled(k)
             Left(j) == Programs!LeftGrowth(steps[j], StepsTarget(bundle, bundle.identifiers[k].id))
             Right(j) == Programs!RightGrowth(steps[j])
         IN Alone(k) => /\ MapThenSumSet(Left, DOMAIN steps) <= scratch.left
                        /\ MapThenSumSet(Right, DOMAIN steps) <= scratch.right

(* Whatever the bundle, it is refused or its code is written, and so no      *)
(* check and no pass of Load and run is repeated for ever.                  *)
Terminates == <>(phase = "refused" \/ pass \in Outcomes)
=============================================================================
