------------------------------- MODULE Loader -------------------------------
(***************************************************************************)
(* The validation of a decoded bundle (internal/gen/load.go): checks 6 to   *)
(* 25, in the order the code takes them, one action per check or group of   *)
(* checks, over one program, node, identifier or dispatcher at a time.      *)
(* Module Decode models checks 1 to 5, which run before.                    *)
(***************************************************************************)
EXTENDS BundleRules

CONSTANTS
  Bundles,   (* what checks 1 to 5 can leave to be validated               *)
  MaxNodesPerProgram, MaxTotalNodes, IntWidth

ASSUME BundlesAssumption == \A b \in Bundles : BundleDecoded(b)
ASSUME LimitsAssumption == MaxInputBytes \in Nat

VARIABLES
  bundle,
  phase,     (* what is checked next, or the verdict                       *)
  at,        (* the program, identifier or dispatcher checked next         *)
  node,      (* the node of program `at` checked next                      *)
  bounds,    (* the provable lengths of the nodes checked so far           *)
  used,      (* the capabilities used so far                               *)
  fault      (* the check that refused the bundle, or 0                    *)

vars == <<bundle, phase, at, node, bounds, used, fault>>

Verdicts == {"accepted", "refused"}
Phases ==
  {"header", "programs", "nodes", "identifiers", "dispatchers", "owners", "calls",
   "features"} \cup Verdicts

SupportedFeatures == {1, 2, 3, 4, 5, 10, 11, 20, 21, 30, 31, 32, 33, 34, 35, 40, 41, 42}

Init ==
  /\ bundle \in Bundles
  /\ phase = "header" /\ at = 1 /\ node = 1
  /\ bounds = <<>> /\ used = {1} /\ fault = 0

Refuse(check) ==
  /\ phase' = "refused" /\ fault' = check
  /\ UNCHANGED <<bundle, at, node, bounds, used>>

Enter(next) ==
  /\ phase' = next /\ at' = 1 /\ node' = 1 /\ bounds' = <<>>
  /\ UNCHANGED <<bundle, fault>>

Current == bundle.programs[at]

CheckHeader ==
  /\ phase = "header"
  /\ IF ~checkRulesVersion(bundle.version) THEN Refuse(6)
     ELSE IF bundle.digest # 32 THEN Refuse(7)
     ELSE Enter("programs") /\ UNCHANGED used

CheckProgramHeader ==
  /\ phase = "programs"
  /\ IF at > Len(bundle.programs) THEN Enter("nodes") /\ UNCHANGED used
     ELSE LET check == ProgramFault(bundle, at, MaxNodesPerProgram, MaxTotalNodes)
          IN IF check # 0 THEN Refuse(check)
             ELSE /\ at' = at + 1
                  /\ UNCHANGED <<bundle, phase, node, bounds, used, fault>>

CheckNode ==
  /\ phase = "nodes"
  /\ at <= Len(bundle.programs) /\ node <= Len(Current.nodes)
  /\ LET check == NodeFault(Current, node, bounds)
         n == Current.nodes[node]
     IN IF check # 0 THEN Refuse(check)
        ELSE /\ used' = used \cup Features(n)
             /\ bounds' = Append(bounds, stringBound(n, bounds))
             /\ node' = node + 1
             /\ UNCHANGED <<bundle, phase, at, fault>>

(* Mutant: the pass starts over the same program.                           *)
CheckGraphAgain ==
  /\ phase = "nodes"
  /\ at <= Len(bundle.programs) /\ node > Len(Current.nodes)
  /\ LET check == GraphFault(Current, Current.id \in preCanonicalizers(bundle))
     IN IF check # 0 THEN Refuse(check)
        ELSE /\ used' = used \cup GraphFeatures(Current)
             /\ node' = 1 /\ bounds' = <<>>
             /\ UNCHANGED <<bundle, phase, at, fault>>

CheckGraph ==
  /\ phase = "nodes"
  /\ at <= Len(bundle.programs) /\ node > Len(Current.nodes)
  /\ LET check == GraphFault(Current, Current.id \in preCanonicalizers(bundle))
     IN IF check # 0 THEN Refuse(check)
        ELSE /\ used' = used \cup GraphFeatures(Current)
             /\ at' = at + 1 /\ node' = 1 /\ bounds' = <<>>
             /\ UNCHANGED <<bundle, phase, fault>>

ProgramsChecked ==
  /\ phase = "nodes" /\ at > Len(bundle.programs)
  /\ IF Len(bundle.identifiers) > MaxIdentifiers THEN Refuse(17)
     ELSE Enter("identifiers") /\ UNCHANGED used

CheckIdentifier ==
  /\ phase = "identifiers"
  /\ IF at > Len(bundle.identifiers)
     THEN /\ Enter("dispatchers")
          /\ used' = used \cup (IF bundle.dispatchers = <<>> THEN {} ELSE {5})
     ELSE LET check == IdentifierFault(bundle, at)
          IN IF check # 0 THEN Refuse(check)
             ELSE /\ used' = used \cup IdentifierFeatures(bundle.identifiers[at])
                  /\ at' = at + 1
                  /\ UNCHANGED <<bundle, phase, node, bounds, fault>>

CheckDispatcher ==
  /\ phase = "dispatchers"
  /\ IF at > Len(bundle.dispatchers) THEN Enter("owners") /\ UNCHANGED used
     ELSE LET check == DispatcherFault(bundle, at)
          IN IF check # 0 THEN Refuse(check)
             ELSE /\ at' = at + 1
                  /\ UNCHANGED <<bundle, phase, node, bounds, used, fault>>

CheckOwners ==
  /\ phase = "owners"
  /\ IF Owned(bundle) THEN Enter("calls") /\ UNCHANGED used ELSE Refuse(23)

CheckCalls ==
  /\ phase = "calls"
  /\ IF CallsAllowed(bundle) THEN Enter("features") /\ UNCHANGED used ELSE Refuse(24)

CheckFeatures ==
  /\ phase = "features"
  /\ IF used \cap SupportedFeatures \subseteq bundle.features
     THEN Enter("accepted") /\ UNCHANGED used ELSE Refuse(25)

Next ==
  \/ CheckHeader \/ CheckProgramHeader \/ CheckNode \/ CheckGraph \/ ProgramsChecked
  \/ CheckIdentifier \/ CheckDispatcher \/ CheckOwners \/ CheckCalls \/ CheckFeatures

------------------------------------------------------------------------------
(* The tables the generator compiles an accepted bundle to, as module       *)
(* Dispatch takes them.                                                     *)
CountryOf(option) == IF Present(option) THEN option[1] ELSE <<>>
TableTarget(t) ==
  [def |-> t.def, country |-> CountryOf(t.country), accepted |-> ToSet(t.accepted),
   unprefixed |-> t.unprefixed]
AliasTable(d) ==
  LET All == ToSet(d.countryAliases)
  IN [code \in {x.alias : x \in All} |-> (CHOOSE x \in All : x.alias = code).country]
DefinitionIDs(b) == {b.identifiers[k].id : k \in DOMAIN b.identifiers}
Definition(b, id) == CHOOSE d \in ToSet(b.identifiers) : d.id = id

Unused2(x, y) == x
Unused3(x, y, z) == x

Tables == INSTANCE Dispatch WITH
  Dispatchers <- DOMAIN bundle.dispatchers, NoDispatcher <- 0,
  KindOf <- [k \in DOMAIN bundle.dispatchers |-> bundle.dispatchers[k].kind],
  KindAliases <- [k \in DOMAIN bundle.dispatchers |-> ToSet(bundle.dispatchers[k].aliases)],
  CountryAliases <- [k \in DOMAIN bundle.dispatchers |-> AliasTable(bundle.dispatchers[k])],
  Targets <- [k \in DOMAIN bundle.dispatchers |->
                {TableTarget(t) : t \in ToSet(bundle.dispatchers[k].targets)}],
  Definitions <- DefinitionIDs(bundle), NoDefinition <- 0,
  DefaultProfile <- [id \in DefinitionIDs(bundle) |-> Definition(bundle, id).profile],
  PreCanonicalized <- Unused2, Canonicalized <- Unused3, FormatRule <- Unused3,
  ChecksumRule <- Unused3, MaxInput <- MaxInputBytes

(* The steps of a canonicalization program once its sequences and its WHEN  *)
(* steps are flattened, as module CanonPrograms takes them.                 *)
Text(n, p) == IF Has(n, p) THEN n.par[p] ELSE <<>>
StepOf(n, number) ==
  [op |-> n.op, text |-> Text(n, "text"), replacement |-> Text(n, "replacement"),
   number |-> number]
NumberOf(n) ==
  IF Has(n, "index") THEN n.par.index ELSE IF Has(n, "length") THEN n.par.length ELSE 0

Flattened(p) ==
  LET flat[i \in Indices(p)] ==
        LET n == p.nodes[i]
            under == FlattenSeq([k \in DOMAIN n.in |-> flat[n.in[k]]])
        IN CASE opSpecs[n.op].output # "step" -> <<>>
             [] n.op = "CANON_SEQUENCE" -> under
             [] n.op = "CANON_WHEN" ->
                  <<[StepOf(n, Len(under)) EXCEPT !.op = "WHEN"]>> \o under
             [] OTHER -> <<StepOf(n, NumberOf(n))>>
  IN flat[p.root]

TargetsOf(b) == UNION {ToSet(b.dispatchers[k].targets) : k \in DOMAIN b.dispatchers}
DispatcherOwning(b, id) ==
  CHOOSE d \in ToSet(b.dispatchers) : \E t \in ToSet(d.targets) : t.def = id
StepsTarget(b, id) ==
  LET t == CHOOSE t \in TargetsOf(b) : t.def = id
  IN [lead |-> IF Present(t.prefix) THEN t.prefix[1] ELSE CountryOf(t.country),
      acceptedPrefixes |-> ToSet(t.accepted)]

Programs == INSTANCE CanonPrograms WITH
  NumDefinitions <- Len(bundle.identifiers),
  PreSteps <- [k \in DOMAIN bundle.identifiers |->
                 Flattened(Program(bundle, DispatcherOwning(bundle, bundle.identifiers[k].id).pre))],
  ProgramOf <- [k \in DOMAIN bundle.identifiers |-> bundle.identifiers[k].canon],
  Steps <- [id \in {bundle.identifiers[k].canon : k \in DOMAIN bundle.identifiers} |->
              Flattened(Program(bundle, id))],
  TargetOf <- [k \in DOMAIN bundle.identifiers |-> StepsTarget(bundle, bundle.identifiers[k].id)],
  MaxInput <- MaxInputBytes

------------------------------------------------------------------------------
TypeOK ==
  /\ phase \in Phases
  /\ used \subseteq SupportedFeatures
  /\ fault \in 0 .. 25 /\ (fault # 0 <=> phase = "refused")
  /\ phase = "nodes" => Len(bounds) = node - 1
  /\ \A k \in DOMAIN bounds : bounds[k] \in -1 .. MaxInt

(* Every definition answers to its own country or to each of its prefixes,  *)
(* whatever the aliases and the other targets are.                          *)
TargetsAnswer ==
  \A k \in DOMAIN bundle.dispatchers : \A t \in ToSet(bundle.dispatchers[k].targets) :
    LET T == CountryOf(t.country)
    IN IF T = <<>> THEN Tables!GlobalTarget(k) = t.def
       ELSE /\ Tables!CountryTarget(k, Tables!CountryAlias(k, T)) = t.def
            /\ \A prefix \in ToSet(t.accepted) :
                 Tables!PrefixTarget(k, prefix) = t.def

(* An accepted bundle is one the generated engine can serve: the dispatch   *)
(* tables and the canonicalization programs are what modules Dispatch and   *)
(* CanonPrograms assume, and no definition is out of reach (checkDispatchers,*)
(* checkTargets, checkCategory).                                            *)
AcceptedIsServable ==
  phase = "accepted" =>
    /\ bundle.identifiers # <<>> =>
         Tables!TablesAccepted /\ Programs!ProgramsAccepted
    /\ TargetsAnswer

(* The strings a checked node can hold.                                     *)
CONSTANTS Values
Expr == INSTANCE Expressions
Renders(nodes, v, s) ==
  Expr!Rendered(nodes, [value |-> v, profile |-> <<>>], s, Expr!Value(<<70, 82>>),
                Expr!NoLocal)

(* A length the loader proves really bounds the string: no value, and no    *)
(* subject a caller may pass, makes a checked node hold more code points    *)
(* (stringBound, on which digits_to_integer and weighted sums rely).        *)
BoundsAreSound ==
  phase = "nodes" /\ at <= Len(bundle.programs) =>
    \A k \in DOMAIN bounds \ (1 .. Len(bounds) - 1) :
      Current.nodes[k].output = "string" /\ bounds[k] # unboundedLen =>
        \A v \in Values, s \in {Expr!Absent} \cup {Expr!Value(x) : x \in Values} :
          Expr!RuneLen(Renders(SubSeq(Current.nodes, 1, k), v, s)[k]) <= bounds[k]

(* The instances a generator writes: one for each path from an emission     *)
(* root.  A capture is a root when no other root reaches it.                *)
Below(p, i) == Subtree(p, i)
MainRoots(p) ==
  {p.root} \cup ({p.subject} \cap (Indices(p) \ Below(p, p.root)))
EmissionRoots(p) ==
  LET Captures == {p.captures[k].node : k \in DOMAIN p.captures} \cap Indices(p)
  IN MainRoots(p) \cup
       {c \in Captures : \A r \in MainRoots(p) \cup (Captures \ {c}) : c \notin Below(p, r)}
Paths(p) ==
  LET paths[i \in Indices(p)] ==
        LET From(k) == paths[p.nodes[i].in[k]] IN 1 + MapThenSumSet(From, DOMAIN p.nodes[i].in)
  IN paths
Written(p) ==
  LET paths == Paths(p)
      From(r) == paths[r]
  IN MapThenSumSet(From, EmissionRoots(p))

(* A program whose expansion is past the budget is refused, whatever the    *)
(* order its captures are listed in, and one within it is not refused for   *)
(* it (expansionOf, saturatingAdd).                                         *)
ExpansionIsWhatIsWritten ==
  /\ phase = "nodes" /\ at > 1 /\ node = 1 => Written(bundle.programs[at - 1]) <= MaxSteps
  /\ phase = "refused" /\ fault = 14 => Written(Current) > MaxSteps

(* The pass over the identifiers follows calls without a mark                *)
(* (programUses): no program it starts from may call, since the cycle check *)
(* comes later.                                                             *)
SearchEnds ==
  phase \in {"identifiers", "dispatchers", "owners", "calls"} =>
    \A k \in DOMAIN bundle.programs :
      bundle.programs[k].kind = "canonicalization" => Calls(bundle, k) = {}
==============================================================================
