---------------------------- MODULE EngineProofs ----------------------------
EXTENDS Engine, TLAPS, SequenceTheorems, WellFoundedInduction

LEMMA SameText ==
  ASSUME NEW s, NEW t
  PROVE  /\ Abstract!TrimASCII(s) = TrimASCII(s)
         /\ Abstract!LowerASCII(s) = LowerASCII(s)
         /\ Abstract!UpperASCII(s) = UpperASCII(s)
         /\ Abstract!ValidString(s) = ValidString(s)
         /\ Abstract!IsCountryToken(s) = IsCountryToken(s)
         /\ Abstract!HasPrefix(s, t) = HasPrefix(s, t)
<1>1. Abstract!TrimASCII(s) = TrimASCII(s)
  BY DEF Abstract!TrimASCII, TrimASCII, Abstract!IsASCIISpace, IsASCIISpace, Abstract!Min,
         Abstract!Max, Min, Max
<1>2. Abstract!LowerASCII(s) = LowerASCII(s)
  BY DEF Abstract!LowerASCII, LowerASCII
<1>3. Abstract!UpperASCII(s) = UpperASCII(s)
  BY DEF Abstract!UpperASCII, UpperASCII, Abstract!IsASCIILower, IsASCIILower
<1>4. Abstract!ValidString(s) = ValidString(s)
  BY DEF Abstract!ValidString, ValidString, Abstract!RuneStarts, RuneStarts,
         Abstract!RuneSize, RuneSize, Abstract!WellFormedAt, WellFormedAt,
         Abstract!LeadWidth, LeadWidth
<1>5. Abstract!IsCountryToken(s) = IsCountryToken(s)
  BY DEF Abstract!IsCountryToken, IsCountryToken
<1>6. Abstract!HasPrefix(s, t) = HasPrefix(s, t)
  BY DEF Abstract!HasPrefix, HasPrefix
<1> QED BY <1>1, <1>2, <1>3, <1>4, <1>5, <1>6

LEMMA SameSteps ==
  ASSUME NEW s, NEW t
  PROVE  /\ Abstract!StepOf(s, t) = StepOf(s, t)
         /\ Abstract!NotRunAfter(s) = NotRunAfter(s)
         /\ Abstract!Tokens(s) = Tokens(s)
         /\ Abstract!Profiles = Profiles
BY DEF Abstract!StepOf, StepOf, Abstract!NotRunAfter, NotRunAfter, Abstract!Tokens, Tokens,
       Abstract!Profiles, Profiles

-----------------------------------------------------------------------------
(***************************************************************************)
(* Least and greatest elements, and the text functions that rest on them.  *)
(***************************************************************************)

(* A nonempty set of naturals has a least element.                         *)
LEMMA LeastExists ==
  ASSUME NEW S, S \subseteq Nat, S # {}
  PROVE  \E n \in S : \A m \in S : n <= m
<1>1. PICK n \in S : \A m \in S : ~(<<m, n>> \in OpToRel(<, Nat))
  BY NatLessThanWellFounded, WFMin
<1>2. ASSUME NEW m \in S PROVE n <= m
  <2>1. ~(m < n)
    BY <1>1 DEF OpToRel
  <2> QED BY <2>1
<1> QED BY <1>2

(* A nonempty bounded one has a greatest, the closest to the bound.        *)
LEMMA GreatestExists ==
  ASSUME NEW k \in Nat, NEW S, S \subseteq 0 .. k, S # {}
  PROVE  \E n \in S : \A m \in S : m <= n
<1> DEFINE D == { k - m : m \in S }
<1>1. \A m \in S : m \in Nat /\ m <= k
  OBVIOUS
<1>2. D \subseteq Nat
  <2>1. \A m \in S : k - m \in Nat
    BY <1>1
  <2> QED BY <2>1
<1>3. D # {}
  <2>1. PICK m \in S : TRUE
    OBVIOUS
  <2>2. k - m \in D
    OBVIOUS
  <2> QED BY <2>2
<1>4. PICK n \in D : \A x \in D : n <= x
  BY <1>2, <1>3, LeastExists
<1>5. PICK o \in S : n = k - o
  OBVIOUS
<1>6. ASSUME NEW m \in S PROVE m <= o
  <2>1. k - m \in D
    OBVIOUS
  <2>2. k - o <= k - m
    BY <1>4, <1>5, <2>1
  <2>3. m \in Nat /\ o \in Nat
    BY <1>1
  <2> HIDE DEF D
  <2> QED BY <2>2, <2>3
<1> QED BY <1>6

(* A letter in the other case is a byte.                                   *)
LEMMA CaseTyped ==
  \A b \in Byte : /\ b \in 65 .. 90 => b + 32 \in Byte
                  /\ b \in 97 .. 122 => b - 32 \in Byte
BY DEF Byte

(* What is trimmed or changed in case is still a sequence of bytes.        *)
LEMMA TextTyped ==
  ASSUME NEW s \in Seq(Byte)
  PROVE  /\ TrimASCII(s) \in Seq(Byte)
         /\ LowerASCII(s) \in Seq(Byte)
         /\ UpperASCII(s) \in Seq(Byte)
<1>1. TrimASCII(s) \in Seq(Byte)
  <2> DEFINE kept == { k \in DOMAIN s : ~IsASCIISpace(s[k]) }
  <2>1. CASE kept = {}
    BY <2>1 DEF TrimASCII
  <2>2. CASE kept # {}
    <3>1. kept \subseteq Nat /\ kept \subseteq 0 .. Len(s)
      OBVIOUS
    <3>2. Min(kept) \in kept
      BY <2>2, <3>1, LeastExists DEF Min
    <3>3. \E n \in kept : \A m \in kept : n >= m
      <4>1. PICK n \in kept : \A m \in kept : m <= n
        BY <2>2, <3>1, GreatestExists, Len(s) \in Nat
      <4> QED BY <3>1, <4>1
    <3>4. Max(kept) \in kept
      BY <3>3 DEF Max
    <3>5. Min(kept) \in 1 .. Len(s) /\ Max(kept) \in 1 .. Len(s)
      BY <3>2, <3>4
    <3>6. \A k \in Min(kept) .. Max(kept) : s[k] \in Byte
      BY <3>5
    <3>7. SubSeq(s, Min(kept), Max(kept)) \in Seq(Byte)
      BY <3>5, <3>6, SubSeqProperties
    <3> QED BY <2>2, <3>7 DEF TrimASCII
  <2> QED BY <2>1, <2>2
<1>2. /\ Len(s) \in Nat /\ DOMAIN s = 1 .. Len(s)
      /\ \A k \in DOMAIN s : s[k] \in Byte
  BY LenProperties, ElementOfSeq
<1>3. /\ LowerASCII(s) \in [1 .. Len(s) -> Byte]
      /\ UpperASCII(s) \in [1 .. Len(s) -> Byte]
  BY <1>2, CaseTyped DEF LowerASCII, UpperASCII, IsASCIILower
<1>4. ASSUME NEW n \in Nat, NEW f \in [1 .. n -> Byte] PROVE f \in Seq(Byte)
  OBVIOUS
<1> QED BY <1>1, <1>2, <1>3, <1>4

-----------------------------------------------------------------------------
(***************************************************************************)
(* The compiled tables: what the loader's checks 19 to 23 make of them.    *)
(***************************************************************************)

LEMMA BundleTyped ==
  /\ NoDispatcher \notin Dispatchers /\ NoDefinition \notin Definitions
  /\ MaxInput \in Nat
  /\ \A id \in Definitions : DefaultProfile[id] \in Profiles
  /\ \A e \in Dispatchers :
       /\ KindOf[e] \in Seq(Byte)
       /\ \A t \in Targets[e] : t \in Target /\ t \in AllTargets
BY AcceptedBundle DEF TablesAccepted, Tokens, AllTargets

(* No two targets of a dispatcher serve a country, accept a prefix or a     *)
(* value without one; a GLOBAL target is alone.                            *)
LEMMA TargetsDisjoint ==
  ASSUME NEW e \in Dispatchers, NEW t \in Targets[e], NEW u \in Targets[e],
         \/ t.country = u.country
         \/ t.accepted \cap u.accepted # {}
         \/ t.unprefixed /\ u.unprefixed
         \/ t.country = <<>>
         \/ t.def = u.def
  PROVE  t = u
BY AcceptedBundle DEF TablesAccepted

(* A definition is reached by one target only, so by one country.          *)
LEMMA CountryOfTarget ==
  ASSUME NEW e \in Dispatchers, NEW t \in Targets[e]
  PROVE  DefinitionCountry(t.def) = t.country
<1> DEFINE u == CHOOSE u \in AllTargets : u.def = t.def
<1>1. t \in AllTargets
  BY BundleTyped
<1>2. u \in AllTargets /\ u.def = t.def
  BY <1>1
<1>3. PICK f \in Dispatchers : u \in Targets[f]
  BY <1>2 DEF AllTargets
<1>4. u = t
  BY <1>2, <1>3, AcceptedBundle DEF TablesAccepted
<1> QED BY <1>4 DEF DefinitionCountry

CountryTargets(e, code) == { t \in Targets[e] : t.country # <<>> /\ t.country = code }
GlobalTargets(e) == { t \in Targets[e] : t.country = <<>> }
UnprefixedTargets(e) == { t \in Targets[e] : t.country # <<>> /\ t.unprefixed }
LongestPrefixTargets(e, v) ==
  { t \in Targets[e] :
      \E p \in t.accepted :
        /\ HasPrefix(v, p)
        /\ \A u \in Targets[e] : \A q \in u.accepted : HasPrefix(v, q) => Len(q) <= Len(p) }

(* A lookup by country finds the only target that serves it, or nothing.   *)
LEMMA CountryTargetFound ==
  ASSUME NEW e \in Dispatchers, NEW code
  PROVE  /\ CountryTargets(e, code) = {} => CountryTarget(e, code) = NoDefinition
         /\ \A t \in CountryTargets(e, code) :
              CountryTargets(e, code) = {t} /\ CountryTarget(e, code) = t.def
<1>1. \A t, u \in CountryTargets(e, code) : t = u
  BY TargetsDisjoint DEF CountryTargets
<1>2. CountryTarget(e, code) =
        IF \E t \in CountryTargets(e, code) : TRUE
        THEN (CHOOSE t \in Targets[e] : t.country # <<>> /\ t.country = code).def
        ELSE NoDefinition
  BY DEF CountryTarget, TargetWith, CountryTargets
<1>3. ASSUME NEW t \in CountryTargets(e, code)
      PROVE  (CHOOSE u \in Targets[e] : u.country # <<>> /\ u.country = code) = t
  BY <1>1, <1>3 DEF CountryTargets
<1> QED BY <1>1, <1>2, <1>3

LEMMA GlobalTargetFound ==
  ASSUME NEW e \in Dispatchers
  PROVE  /\ GlobalTargets(e) = {} => GlobalTarget(e) = NoDefinition
         /\ \A t \in GlobalTargets(e) :
              /\ Targets[e] = {t} /\ GlobalTargets(e) = {t}
              /\ GlobalTarget(e) = t.def
<1>1. ASSUME NEW t \in GlobalTargets(e) PROVE Targets[e] = {t}
  BY <1>1, TargetsDisjoint DEF GlobalTargets
<1>2. GlobalTarget(e) =
        IF \E t \in GlobalTargets(e) : TRUE
        THEN (CHOOSE t \in Targets[e] : t.country = <<>>).def
        ELSE NoDefinition
  BY DEF GlobalTarget, TargetWith, GlobalTargets
<1>3. ASSUME NEW t \in GlobalTargets(e)
      PROVE  (CHOOSE u \in Targets[e] : u.country = <<>>) = t
  BY <1>1, <1>3 DEF GlobalTargets
<1> QED BY <1>1, <1>2, <1>3 DEF GlobalTargets

LEMMA UnprefixedTargetFound ==
  ASSUME NEW e \in Dispatchers
  PROVE  /\ UnprefixedTargets(e) = {} => UnprefixedTarget(e) = NoDefinition
         /\ \A t \in UnprefixedTargets(e) :
              UnprefixedTargets(e) = {t} /\ UnprefixedTarget(e) = t.def
<1>1. \A t, u \in UnprefixedTargets(e) : t = u
  BY TargetsDisjoint DEF UnprefixedTargets
<1>2. UnprefixedTarget(e) =
        IF \E t \in UnprefixedTargets(e) : TRUE
        THEN (CHOOSE t \in Targets[e] : t.country # <<>> /\ t.unprefixed).def
        ELSE NoDefinition
  BY DEF UnprefixedTarget, TargetWith, UnprefixedTargets
<1>3. ASSUME NEW t \in UnprefixedTargets(e)
      PROVE  (CHOOSE u \in Targets[e] : u.country # <<>> /\ u.unprefixed) = t
  BY <1>1, <1>3 DEF UnprefixedTargets
<1> QED BY <1>1, <1>2, <1>3

(* Two prefixes of a value of the same length are the same.                *)
LEMMA PrefixesByLength ==
  ASSUME NEW v \in Seq(Byte), NEW p \in Seq(Byte), NEW q \in Seq(Byte),
         HasPrefix(v, p), HasPrefix(v, q), Len(p) = Len(q)
  PROVE  p = q
BY DEF HasPrefix

(* The order the generator writes them in puts the longest first: the one  *)
(* whose target is taken.                                                  *)
LEMMA FirstIsLongest ==
  ASSUME NEW e \in Dispatchers, NEW v \in Seq(Byte), PrefixesOf(e, v) # {}
  PROVE  /\ FirstCompared(PrefixesOf(e, v)) \in PrefixesOf(e, v)
         /\ \A q \in PrefixesOf(e, v) : Len(q) <= Len(FirstCompared(PrefixesOf(e, v)))
<1> DEFINE S == PrefixesOf(e, v)
<1>1. S \subseteq Seq(Byte)
  BY BundleTyped DEF PrefixesOf, AcceptedPrefixes, Target
<1>2. \E p \in S : \A q \in S \ {p} : ComparedBefore(p, q)
  <2> DEFINE Lengths == { Len(p) : p \in S }
  <2>1. Lengths # {} /\ Lengths \subseteq 0 .. Len(v) /\ Len(v) \in Nat
    <3>1. ASSUME NEW p \in S PROVE Len(p) \in 0 .. Len(v)
      BY <1>1, <3>1 DEF PrefixesOf, HasPrefix
    <3>2. Lengths # {}
      OBVIOUS
    <3>3. Lengths \subseteq 0 .. Len(v)
      BY <3>1
    <3> QED BY <3>2, <3>3
  <2>2. PICK n \in Lengths : \A m \in Lengths : m <= n
    BY <2>1, GreatestExists
  <2>3. PICK p \in S : Len(p) = n
    BY <2>2
  <2>4. ASSUME NEW q \in S \ {p} PROVE ComparedBefore(p, q)
    <3>1. Len(q) <= Len(p) /\ Len(q) # Len(p)
      BY <1>1, <2>2, <2>3, <2>4, PrefixesByLength DEF PrefixesOf
    <3>2. Len(p) > Len(q)
      BY <1>1, <3>1
    <3> QED BY <3>2 DEF ComparedBefore
  <2> QED BY <2>4
<1>3. /\ FirstCompared(S) \in S
      /\ \A q \in S \ { FirstCompared(S) } : ComparedBefore(FirstCompared(S), q)
  BY <1>2 DEF FirstCompared
<1>4. ASSUME NEW q \in S PROVE Len(q) <= Len(FirstCompared(S))
  <2>1. Len(q) \in Nat /\ Len(FirstCompared(S)) \in Nat
    BY <1>1, <1>3
  <2> QED BY <1>3, <2>1 DEF ComparedBefore
<1> QED BY <1>3, <1>4

LEMMA PrefixTargetFound ==
  ASSUME NEW e \in Dispatchers, NEW v \in Seq(Byte)
  PROVE  /\ LongestPrefixTargets(e, v) = {} => PrefixTarget(e, v) = NoDefinition
         /\ \A t \in LongestPrefixTargets(e, v) :
              LongestPrefixTargets(e, v) = {t} /\ PrefixTarget(e, v) = t.def
<1> DEFINE S == PrefixesOf(e, v)
<1> DEFINE p == FirstCompared(S)
<1>1. CASE S = {}
  <2>1. LongestPrefixTargets(e, v) = {}
    BY <1>1 DEF LongestPrefixTargets, PrefixesOf, AcceptedPrefixes
  <2> QED BY <1>1, <2>1 DEF PrefixTarget
<1>2. CASE S # {}
  <2>1. p \in S /\ \A q \in S : Len(q) <= Len(p)
    BY <1>2, FirstIsLongest
  <2>2. S \subseteq Seq(Byte)
    BY BundleTyped DEF PrefixesOf, AcceptedPrefixes, Target
  <2>3. \A u \in Targets[e] : \A q \in u.accepted : HasPrefix(v, q) => q \in S
    BY DEF PrefixesOf, AcceptedPrefixes
  <2>4. PICK t \in Targets[e] : p \in t.accepted
    BY <2>1 DEF PrefixesOf, AcceptedPrefixes
  <2>5. \A u \in Targets[e] : p \in u.accepted => u = t
    BY <2>4, TargetsDisjoint
  <2>6. t \in LongestPrefixTargets(e, v)
    BY <2>1, <2>3, <2>4 DEF LongestPrefixTargets, PrefixesOf
  <2>7. ASSUME NEW u \in LongestPrefixTargets(e, v) PROVE u = t
    <3>1. PICK q \in u.accepted :
            /\ HasPrefix(v, q)
            /\ \A x \in Targets[e] : \A y \in x.accepted : HasPrefix(v, y) => Len(y) <= Len(q)
      BY <2>7 DEF LongestPrefixTargets
    <3>2. q \in S /\ Len(q) <= Len(p) /\ Len(p) <= Len(q)
      BY <2>1, <2>3, <2>4, <2>7, <3>1 DEF LongestPrefixTargets, PrefixesOf
    <3>3. q = p
      <4>1. Len(q) \in Nat /\ Len(p) \in Nat
        BY <2>1, <2>2, <3>2
      <4>2. Len(q) = Len(p)
        BY <3>2, <4>1
      <4> QED BY <2>1, <2>2, <3>2, <4>2, PrefixesByLength DEF PrefixesOf
    <3> QED BY <2>5, <2>7, <3>3 DEF LongestPrefixTargets
  <2>8. PrefixTarget(e, v) = (CHOOSE u \in Targets[e] : p \in u.accepted).def
    BY <1>2, <2>4 DEF PrefixTarget, TargetWith
  <2>9. (CHOOSE u \in Targets[e] : p \in u.accepted) = t
    BY <2>4, <2>5
  <2> QED BY <2>6, <2>7, <2>8, <2>9
<1> QED BY <1>1, <1>2

-----------------------------------------------------------------------------
(***************************************************************************)
(* The stages against the one-step evaluation.                             *)
(***************************************************************************)

(* The lookups of the switches are the sets the promise is stated with.     *)
LEMMA SameLookups ==
  ASSUME NEW c, NEW e, e = Abstract!DispatcherFor(c)
  PROVE  /\ Abstract!ByCountry(c) = CountryTargets(e, Abstract!Context(c))
         /\ Abstract!ByPrefix(c) = LongestPrefixTargets(e, Abstract!PreCanonical(c))
         /\ Abstract!Global(c) = GlobalTargets(e)
<1>1. Abstract!ByCountry(c) = CountryTargets(e, Abstract!Context(c))
  BY DEF Abstract!ByCountry, CountryTargets, Abstract!Candidate
<1>2. Abstract!ByPrefix(c) = LongestPrefixTargets(e, Abstract!PreCanonical(c))
  BY SameText DEF Abstract!ByPrefix, LongestPrefixTargets, Abstract!Candidate
<1>3. Abstract!Global(c) = GlobalTargets(e)
  BY DEF Abstract!Global, GlobalTargets, Abstract!Candidate
<1> QED BY <1>1, <1>2, <1>3

(* Exactly the values a dispatcher resolves for are routed.                *)
LEMMA SameDispatcher ==
  /\ KindToken = Abstract!Token(call)
  /\ (\E e \in Dispatchers : KindToken \in Tokens(e)) =>
       /\ DispatcherOf(KindToken) = Abstract!DispatcherFor(call)
       /\ DispatcherOf(KindToken) \in Dispatchers
  /\ ~(\E e \in Dispatchers : KindToken \in Tokens(e)) =>
       DispatcherOf(KindToken) = NoDispatcher
<1>1. KindToken = Abstract!Token(call)
  BY SameText DEF KindToken, Abstract!Token
<1>2. Abstract!DispatcherFor(call) = CHOOSE e \in Dispatchers : KindToken \in Tokens(e)
  BY <1>1, SameSteps DEF Abstract!DispatcherFor
<1> QED BY <1>1, <1>2 DEF DispatcherOf

(* The alias of an absent country is no country: aliases are tokens.       *)
LEMMA SameContext ==
  ASSUME d \in Dispatchers, d = Abstract!DispatcherFor(call)
  PROVE  /\ NormalCountry = Abstract!Context(call)
         /\ Abstract!Malformed(call) <=>
              CountryToken # <<>> /\ ~IsCountryToken(CountryToken)
<1> DEFINE token == UpperASCII(TrimASCII(call.country))
<1> DEFINE aliases == CountryAliases[d]
<1>1. Abstract!Context(call) = IF token \in DOMAIN aliases THEN aliases[token] ELSE token
  BY SameText DEF Abstract!Context
<1>2. \A code \in DOMAIN aliases : IsCountryToken(code) /\ IsCountryToken(aliases[code])
  BY AcceptedBundle DEF TablesAccepted
<1>3. \A code : IsCountryToken(code) => code # <<>>
  BY DEF IsCountryToken
<1>4. NormalCountry = Abstract!Context(call)
  BY <1>1, <1>2, <1>3 DEF NormalCountry, CountryToken, CountryAlias
<1>5. Abstract!Malformed(call) <=> CountryToken # <<>> /\ ~IsCountryToken(CountryToken)
  BY <1>1, <1>2, <1>3, SameText DEF Abstract!Malformed, CountryToken
<1> QED BY <1>4, <1>5

LEMMA SameUnserved ==
  ASSUME d \in Dispatchers, d = Abstract!DispatcherFor(call)
  PROVE  Unserved <=> Abstract!Unserved(call)
<1>1. \A t \in Targets[d] : t.def # NoDefinition
  BY BundleTyped DEF Target
<1>2. CountryTarget(d, NormalCountry) = NoDefinition <=> Abstract!ByCountry(call) = {}
  BY <1>1, SameLookups, SameContext, CountryTargetFound DEF CountryTargets
<1>3. GlobalTarget(d) = NoDefinition <=> Abstract!Global(call) = {}
  BY <1>1, SameLookups, GlobalTargetFound DEF GlobalTargets
<1> QED BY <1>2, <1>3, SameContext DEF Unserved, Abstract!Unserved, HasTarget

(* The switch takes the target the promise selects, if it selects one.     *)
LEMMA SameSelection ==
  ASSUME d \in Dispatchers, d = Abstract!DispatcherFor(call),
         w = Abstract!PreCanonical(call), w \in Seq(Byte),
         country = Abstract!Context(call)
  PROVE  /\ Mismatch <=> Abstract!Contradicts(call)
         /\ Abstract!Eligible(call) = {} <=>
              \A k \in DOMAIN Candidates : ~HasTarget(Candidates[k])
         /\ Abstract!Eligible(call) \subseteq Targets[d]
         /\ \A k \in DOMAIN Candidates :
              HasTarget(Candidates[k]) /\ (\A j \in 1 .. k - 1 : ~HasTarget(Candidates[j]))
                => \A t \in Abstract!Eligible(call) :
                     Abstract!Eligible(call) = {t} /\ Candidates[k] = t.def
<1> DEFINE BC == CountryTargets(d, country)
<1> DEFINE BP == LongestPrefixTargets(d, w)
<1> DEFINE BG == GlobalTargets(d)
<1> DEFINE BU == UnprefixedTargets(d)
<1> DEFINE CT == CountryTarget(d, country)
<1> DEFINE PT == PrefixTarget(d, w)
<1> DEFINE GT == GlobalTarget(d)
<1> DEFINE UT == UnprefixedTarget(d)
<1>1. \A t \in Targets[d] : t.def # NoDefinition
  BY BundleTyped DEF Target
<1>2. /\ BC \subseteq Targets[d] /\ BP \subseteq Targets[d]
      /\ BG \subseteq Targets[d] /\ BU \subseteq Targets[d]
  BY DEF CountryTargets, LongestPrefixTargets, GlobalTargets, UnprefixedTargets
<1>3. /\ BC = {} => CT = NoDefinition
      /\ \A t \in BC : BC = {t} /\ CT = t.def
  BY CountryTargetFound
<1>4. /\ BP = {} => PT = NoDefinition
      /\ \A t \in BP : BP = {t} /\ PT = t.def
  BY PrefixTargetFound
<1>5. /\ BG = {} => GT = NoDefinition
      /\ \A t \in BG : Targets[d] = {t} /\ BG = {t} /\ GT = t.def
  BY GlobalTargetFound
<1>6. /\ BU = {} => UT = NoDefinition
      /\ \A t \in BU : BU = {t} /\ UT = t.def
  BY UnprefixedTargetFound
<1>7. Abstract!ByCountry(call) = BC /\ Abstract!ByPrefix(call) = BP
  BY SameLookups
<1>8. Abstract!Eligible(call) =
        CASE BC # {} -> BC
          [] BC = {} /\ BP # {} -> BP
          [] OTHER -> { t \in Targets[d] : t.country = <<>> \/ t.unprefixed }
  BY <1>7 DEF Abstract!Eligible, Abstract!Candidate
<1>9. { t \in Targets[d] : t.country = <<>> \/ t.unprefixed } = BG \cup BU
  BY DEF GlobalTargets, UnprefixedTargets
<1>10. BG # {} => BU = {}
  BY <1>5 DEF GlobalTargets, UnprefixedTargets
<1>11. Candidates = <<CT, PT, GT, UT>> /\ DOMAIN Candidates = 1 .. 4
  BY DEF Candidates
<1>12. Mismatch <=> Abstract!Contradicts(call)
  <2>1. \A t, u \in Targets[d] : t.def = u.def => t = u
    BY TargetsDisjoint
  <2>2. CASE BC = {} \/ BP = {}
    BY <1>3, <1>4, <1>7, <2>2 DEF Mismatch, HasTarget, Abstract!Contradicts
  <2>3. ASSUME NEW t \in BC, NEW u \in BP
        PROVE  Mismatch <=> Abstract!Contradicts(call)
    <3>1. BC = {t} /\ BP = {u} /\ CT = t.def /\ PT = u.def
      BY <1>3, <1>4, <2>3
    <3>2. t.def # NoDefinition /\ u.def # NoDefinition
      BY <1>1, <1>2, <2>3
    <3>3. t.def = u.def => t = u
      BY <1>2, <2>1, <2>3
    <3>4. Mismatch <=> t # u
      BY <3>1, <3>2, <3>3 DEF Mismatch, HasTarget
    <3>5. Abstract!Contradicts(call) <=> t # u
      BY <1>7, <3>1 DEF Abstract!Contradicts
    <3> QED BY <3>4, <3>5
  <2> QED BY <2>2, <2>3
<1>13. Abstract!Eligible(call) =
         IF BC # {} THEN BC ELSE IF BP # {} THEN BP ELSE IF BG # {} THEN BG ELSE BU
  BY <1>8, <1>9, <1>10
<1>14. Abstract!Eligible(call) \subseteq Targets[d]
  BY <1>2, <1>13
<1>15. /\ HasTarget(Candidates[1]) <=> BC # {}
       /\ HasTarget(Candidates[2]) <=> BP # {}
       /\ HasTarget(Candidates[3]) <=> BG # {}
       /\ HasTarget(Candidates[4]) <=> BU # {}
  BY <1>1, <1>2, <1>3, <1>4, <1>5, <1>6, <1>11 DEF HasTarget
<1>16. Abstract!Eligible(call) = {} <=>
         \A k \in DOMAIN Candidates : ~HasTarget(Candidates[k])
  BY <1>11, <1>13, <1>15
<1>17. ASSUME NEW k \in 1 .. 4, HasTarget(Candidates[k]),
              \A j \in 1 .. k - 1 : ~HasTarget(Candidates[j]),
              NEW t \in Abstract!Eligible(call)
       PROVE  Abstract!Eligible(call) = {t} /\ Candidates[k] = t.def
  <2>1. CASE k = 1
    BY <1>3, <1>11, <1>13, <1>15, <1>17, <2>1
  <2>2. CASE k = 2
    <3>1. BC = {} /\ BP # {}
      BY <1>15, <1>17, <2>2
    <3> QED BY <1>4, <1>11, <1>13, <1>17, <2>2, <3>1
  <2>3. CASE k = 3
    <3>1. BC = {} /\ BP = {} /\ BG # {}
      BY <1>15, <1>17, <2>3
    <3> QED BY <1>5, <1>11, <1>13, <1>17, <2>3, <3>1
  <2>4. CASE k = 4
    <3>1. BC = {} /\ BP = {} /\ BG = {}
      BY <1>15, <1>17, <2>4
    <3> QED BY <1>6, <1>11, <1>13, <1>17, <2>4, <3>1
  <2> QED BY <2>1, <2>2, <2>3, <2>4
<1> QED BY <1>11, <1>12, <1>14, <1>16, <1>17

-----------------------------------------------------------------------------
(***************************************************************************)
(* The inductive invariant: what is known of a call at each of its stages, *)
(* said with the terms of the one-step evaluation.                         *)
(***************************************************************************)

(* A rule is a total function: it returns bytes for bytes, and a step.      *)
RulesTyped ==
  \A v \in Seq(Byte) :
    /\ \A e \in Dispatchers : PreCanonicalized(e, v) \in Seq(Byte)
    /\ \A id \in Definitions, profile \in Profiles :
         /\ Canonicalized(id, profile, v) \in Seq(Byte)
         /\ FormatRule(id, profile, v) \in StepResult
         /\ ChecksumRule(id, profile, v) \in StepResult

Selected == CHOOSE t \in Abstract!Eligible(call) : TRUE

(* The identity of a call that selected a definition.                      *)
FinalProfile ==
  IF call.profile = "" THEN DefaultProfile[Selected.def] ELSE call.profile
FinalIdentity ==
  [kind |-> KindOf[Abstract!DispatcherFor(call)],
   canonical |-> Canonicalized(Selected.def, FinalProfile, Abstract!PreCanonical(call)),
   country |-> IF Selected.country = <<>> THEN Abstract!Context(call) ELSE Selected.country,
   profile |-> FinalProfile]

Started ==
  /\ pc # "idle" => call # NoCall /\ report = NoReport
  /\ pc \notin { "idle", "check" } => call.profile \in Profiles \cup { "" }
  /\ pc = "encoding" => /\ w = call.value /\ out = RawIdentity
                        /\ Len(call.value) <= MaxInput

Routed ==
  /\ pc \in { "country", "target", "canonicalize", "format", "checksum" } =>
       /\ Abstract!Resolved(call)
       /\ d = Abstract!DispatcherFor(call) /\ d \in Dispatchers
  /\ pc \in { "country", "target", "canonicalize" } =>
       /\ w = Abstract!PreCanonical(call)
       /\ out.kind = KindOf[d] /\ out.profile = DispatchProfile
  /\ pc = "country" => out.country = call.country
  /\ pc \in { "target", "canonicalize" } => out.country = country
  /\ pc \in { "target", "canonicalize", "format", "checksum" } =>
       /\ country = Abstract!Context(call)
       /\ ~Abstract!Malformed(call) /\ ~Abstract!Unserved(call)

Decided ==
  /\ pc \in { "canonicalize", "format", "checksum" } =>
       /\ ~Abstract!Contradicts(call)
       /\ Abstract!Eligible(call) # {}
       /\ Selected \in Targets[d] /\ def = Selected.def
  /\ pc \in { "format", "checksum" } =>
       out = FinalIdentity /\ call.mode # "canonicalize"
  /\ pc = "checksum" => Format.status = "valid" /\ call.mode = "validate"

(* An answered call has the answer of the one-step evaluation.             *)
AnsweredRight ==
  pc = "idle" =>
    IF call = NoCall THEN report = NoReport
    ELSE /\ report # NoReport
         /\ report = Abstract!ReportOf(call)
         /\ report # ErrUnknownProfile /\ Abstract!Resolved(call)
              /\ Abstract!Outcome(call).status = "valid" => def # NoDefinition

PhasesRun ==
  CASE pc \in { "check", "bound", "encoding" } -> 0 .. 0
    [] pc \in { "country", "target", "canonicalize" } -> 1 .. 1
    [] pc = "format" -> 2 .. 2
    [] pc = "checksum" -> 3 .. 3
    [] OTHER -> 0 .. 4
Traced ==
  /\ Len(trace) \in PhasesRun
  /\ \A k \in 1 .. Len(trace) : trace[k].rule = Phases[k]
  /\ pc \in { "format", "checksum" } =>
       \A k \in 2 .. Len(trace) : trace[k].profile = out.profile
  /\ Answered => \A k \in 2 .. Len(trace) : trace[k].profile = report.profile

(* The profile a call names is one the engine knows (routeUnder).           *)
KnownProfile(c) == c.profile \in Profiles \cup { "" }

(* The call a caller makes of what it was told.                            *)
Resubmitted(c, r) ==
  [c EXCEPT !.kind = r.kind, !.value = r.canonical, !.country = r.country]

(* A call that follows another up asks the same of another entry point, or  *)
(* what the caller was told.                                               *)
FollowsUp ==
  /\ call = NoCall => prior = NoPrior
  /\ prior # NoPrior /\ ~prior.resubmits =>
       /\ prior.call \in Call /\ prior.report \in Report
       /\ prior.call.mode # call.mode
       /\ call = [prior.call EXCEPT !.mode = call.mode]
       /\ prior.report = Abstract!ReportOf(prior.call)
  /\ prior # NoPrior /\ prior.resubmits =>
       /\ prior.call \in Call /\ KnownProfile(prior.call)
       /\ prior.report = Abstract!ReportOf(prior.call)
       /\ call = Resubmitted(prior.call, prior.report)

IInv ==
  TypeOK /\ Started /\ Routed /\ Decided /\ AnsweredRight /\ Traced /\ FollowsUp

-----------------------------------------------------------------------------
(***************************************************************************)
(* Types.                                                                  *)
(***************************************************************************)

LEMMA StepsTyped ==
  ASSUME NEW status \in Statuses, NEW reason \in Reasons
  PROVE  StepOf(status, reason) \in StepResult /\ NotRunAfter(status) \in StepResult
<1>1. /\ "not_run" \in Statuses
      /\ { "not_run_format_invalid", "not_run_format_unsupported" } \subseteq Reasons
  BY DEF Statuses, Reasons
<1>2. \A st \in Statuses, re \in Reasons : StepOf(st, re) \in StepResult
  BY DEF StepOf, StepResult
<1>3. NotRunAfter(status) \in StepResult
  BY <1>1, <1>2 DEF NotRunAfter
<1> QED BY <1>2, <1>3

LEMMA StoppedTyped ==
  ASSUME NEW status \in Statuses, NEW reason \in Reasons,
         NEW identity \in [kind : Seq(Byte), canonical : Seq(Byte), country : Seq(Byte),
                           profile : Profiles]
  PROVE  Stopped(identity, status, reason) \in Report
BY StepsTyped DEF Stopped, ReportWith, Report

LEMMA ProfileTyped ==
  ASSUME TypeOK, Started, pc \notin { "idle", "check" }
  PROVE  /\ call \in Call /\ DispatchProfile \in Profiles
         /\ def \in Definitions => EffectiveProfile \in Profiles
         /\ def \in Definitions =>
              \A p \in Profiles : ResolvedProfile(p) \in Profiles
BY BundleTyped DEF TypeOK, Started, DispatchProfile, EffectiveProfile, ResolvedProfile,
       Profiles

LEMMA RawIdentityTyped ==
  ASSUME TypeOK, Started, pc \notin { "idle", "check" }
  PROVE  RawIdentity \in [kind : Seq(Byte), canonical : Seq(Byte), country : Seq(Byte),
                          profile : Profiles]
<1>1. call.kind \in Seq(Byte) /\ call.value \in Seq(Byte) /\ call.country \in Seq(Byte)
  BY ProfileTyped DEF Call
<1>2. KindToken \in Seq(Byte)
  BY <1>1, TextTyped DEF KindToken
<1> QED BY <1>1, <1>2, ProfileTyped DEF RawIdentity

LEMMA CountryTyped ==
  ASSUME TypeOK, Started, pc = "country", d \in Dispatchers
  PROVE  NormalCountry \in Seq(Byte)
<1>1. CountryToken \in Seq(Byte)
  BY TextTyped, ProfileTyped DEF CountryToken, Call
<1>2. \A code \in DOMAIN CountryAliases[d] : CountryAliases[d][code] \in Seq(Byte)
  BY AcceptedBundle DEF TablesAccepted
<1> QED BY <1>1, <1>2 DEF NormalCountry, CountryAlias

Identities ==
  [kind : Seq(Byte), canonical : Seq(Byte), country : Seq(Byte), profile : Profiles]
Phased == [rule : { Phases[k] : k \in DOMAIN Phases }, profile : Profiles]

(* A call that starts, whatever it follows up, has the type of a call.      *)
LEMMA EnterTyped ==
  ASSUME NEW c \in Call,
         NEW before \in [call : Call \cup { NoCall }, report : Report \cup { NoReport },
                         resubmits : BOOLEAN],
         Enter(c, before)
  PROVE  TypeOK'
BY DEF TypeOK, Enter, Blank, Stages, Profiles

LEMMA CallersTyped ==
  ASSUME TypeOK, AnsweredRight, Ask \/ Leave \/ AskAgain \/ Resubmit
  PROVE  TypeOK' /\ call' \in Call \cup { NoCall }
<1>1. NoPrior \in [call : Call \cup { NoCall }, report : Report \cup { NoReport },
                   resubmits : BOOLEAN]
  BY DEF NoPrior
<1>2. CASE Ask
  <2>1. PICK c \in [kind : Kinds, value : Values, country : Countries,
                    profile : AskedProfiles, mode : Modes] : Enter(c, NoPrior)
    BY <1>2 DEF Ask
  <2>2. c \in Call
    BY CallersAssumption DEF Call
  <2> QED BY <1>1, <2>1, <2>2, EnterTyped DEF Enter
<1>3. CASE Leave
  BY <1>1, <1>3 DEF Leave, TypeOK, Blank, Stages, Profiles
<1>4. ASSUME Fresh, pc = "idle"
      PROVE  /\ call \in Call
             /\ \A r \in BOOLEAN :
                  This(r) \in [call : Call \cup { NoCall }, report : Report \cup { NoReport },
                               resubmits : BOOLEAN]
  BY <1>4 DEF Fresh, This, TypeOK, AnsweredRight
<1>5. CASE AskAgain
  <2>1. PICK md \in Modes : Enter([call EXCEPT !.mode = md], This(FALSE))
    BY <1>5 DEF AskAgain
  <2>2. Fresh /\ pc = "idle"
    BY <1>5, <2>1 DEF AskAgain, Enter
  <2>3. [call EXCEPT !.mode = md] \in Call
    BY <1>4, <2>2 DEF Call
  <2> QED BY <1>4, <2>1, <2>2, <2>3, EnterTyped DEF Enter
<1>6. CASE Resubmit
  <2>1. report \in Report /\ Fresh /\ pc = "idle"
    BY <1>6 DEF Resubmit, Fresh, TypeOK, Enter
  <2>2. [call EXCEPT !.kind = report.kind, !.value = report.canonical,
                     !.country = report.country] \in Call
    BY <1>4, <2>1 DEF Call, Report
  <2> QED BY <1>4, <1>6, <2>1, <2>2, EnterTyped DEF Resubmit, Enter
<1> QED BY <1>2, <1>3, <1>5, <1>6

(* A call that ends has a result.                                         *)
Replied == pc' = "idle" => report' # NoReport

(* A refusal reports typed steps on a typed identity.                      *)
LEMMA StopTyped ==
  ASSUME TypeOK, NEW identity \in Identities, NEW status \in Statuses,
         NEW reason \in Reasons, Stop(identity, status, reason),
         country' \in Seq(Byte), UNCHANGED <<call, d, def, w, trace, prior>>
  PROVE  TypeOK' /\ Replied
<1>1. [identity EXCEPT !.canonical = w] \in Identities
  BY DEF TypeOK, Identities
<1>2. out' \in Identities /\ report' \in Report
  BY <1>1, StoppedTyped DEF Stop, Answer, Identities
<1> QED BY <1>2, CallersAssumption DEF TypeOK, Identities, Stop, Answer, Stages, Replied

LEMMA PhaseTyped ==
  ASSUME TypeOK, NEW k \in DOMAIN Phases, NEW profile \in Profiles
  PROVE  Append(trace, [rule |-> Phases[k], profile |-> profile]) \in Seq(Phased)
<1>1. trace \in Seq(Phased) /\ [rule |-> Phases[k], profile |-> profile] \in Phased
  BY DEF TypeOK, Phased
<1> QED BY <1>1

LEMMA RoutingTyped ==
  ASSUME RulesTyped, TypeOK, Started, Routed,
         \/ CheckProfile \/ RefuseTooLong \/ StartRouting
         \/ RefuseEncoding \/ RefuseKind \/ ResolveKind
  PROVE  TypeOK' /\ Replied
<1> USE DEF TypeOK
<1>1. /\ "unsupported" \in Statuses
      /\ { "input_too_long", "invalid_encoding", "unsupported_kind" } \subseteq Reasons
  BY DEF Statuses, Reasons
<1>2. CASE CheckProfile
  BY <1>2, CallersAssumption DEF CheckProfile, Answer, Stages, Replied
<1>3. CASE RefuseTooLong
  <2>1. RawIdentity \in Identities
    BY <1>3, RawIdentityTyped DEF RefuseTooLong, Identities
  <2>2. report' \in Report
    BY <1>1, <1>3, <2>1, StoppedTyped DEF RefuseTooLong, Answer, Identities
  <2> QED BY <1>3, <2>2, CallersAssumption DEF RefuseTooLong, Answer, Stages, Replied
<1>4. CASE StartRouting
  <2>1. RawIdentity \in Identities /\ call.value \in Seq(Byte)
    BY <1>4, RawIdentityTyped, ProfileTyped DEF StartRouting, Identities, Call
  <2> QED BY <1>4, <2>1, CallersAssumption DEF StartRouting, Identities, Stages, Replied
<1>5. CASE RefuseEncoding
  <2>1. report' \in Report
    BY <1>1, <1>5, StoppedTyped DEF RefuseEncoding, Answer
  <2> QED BY <1>5, <2>1, CallersAssumption DEF RefuseEncoding, Answer, Stages, Replied
<1>6. CASE RefuseKind
  <2>1. report' \in Report
    BY <1>1, <1>6, StoppedTyped DEF RefuseKind, Answer
  <2> QED BY <1>6, <2>1, CallersAssumption DEF RefuseKind, Answer, Stages, Replied
<1>7. CASE ResolveKind
  <2>1. d' \in Dispatchers
    BY <1>7 DEF ResolveKind, DispatcherOf
  <2>2. out' \in Identities
    <3>1. KindOf[d'] \in Seq(Byte)
      BY <2>1, BundleTyped
    <3> QED BY <1>7, <3>1 DEF ResolveKind, Identities
  <2>3. w' \in Seq(Byte)
    BY <1>7, <2>1 DEF ResolveKind, RulesTyped
  <2>4. trace' \in Seq(Phased)
    <3>1. 1 \in DOMAIN Phases /\ Phases[1] = "preCanonicalize"
      BY DEF Phases
    <3> QED BY <1>7, <3>1, ProfileTyped, PhaseTyped DEF ResolveKind
  <2> QED BY <1>7, <2>1, <2>2, <2>3, <2>4, CallersAssumption DEF ResolveKind, Identities,
                 Phased, Stages, Replied
<1> QED BY <1>2, <1>3, <1>4, <1>5, <1>6, <1>7

LEMMA SelectionTyped ==
  ASSUME TypeOK, Started, Routed,
         \/ RefuseCountryToken \/ NormalizeCountry
         \/ RefuseMismatch \/ RefuseMissingCountry \/ SelectTarget
  PROVE  TypeOK' /\ Replied
<1>1. /\ { "unsupported", "invalid" } \subseteq Statuses
      /\ { "unsupported_country", "country_mismatch", "missing_country_code" } \subseteq Reasons
  BY DEF Statuses, Reasons
<1>2. out \in Identities /\ country \in Seq(Byte)
  BY DEF TypeOK, Identities
<1>3. CASE RefuseCountryToken
  BY <1>1, <1>2, <1>3, StopTyped DEF RefuseCountryToken
<1>4. CASE NormalizeCountry
  <2>1. NormalCountry \in Seq(Byte)
    BY <1>4, CountryTyped DEF NormalizeCountry, Routed
  <2>2. WithCountry \in Identities
    BY <1>2, <2>1 DEF WithCountry, Identities
  <2>3. CASE Unserved
    BY <1>1, <1>4, <2>1, <2>2, <2>3, StopTyped DEF NormalizeCountry
  <2>4. CASE ~Unserved
    BY <1>4, <2>1, <2>2, <2>4, CallersAssumption
       DEF NormalizeCountry, TypeOK, Identities, Stages, Replied
  <2> QED BY <2>3, <2>4
<1>5. CASE RefuseMismatch
  BY <1>1, <1>2, <1>5, StopTyped DEF RefuseMismatch
<1>6. CASE RefuseMissingCountry
  BY <1>1, <1>2, <1>6, StopTyped DEF RefuseMissingCountry
<1>7. CASE SelectTarget
  <2>1. d \in Dispatchers /\ w \in Seq(Byte)
    BY <1>7 DEF SelectTarget, Routed, TypeOK
  <2>2. PICK k \in 1 .. 4 : HasTarget(Candidates[k]) /\ def' = Candidates[k]
    BY <1>7 DEF SelectTarget, Candidates
  <2>3. \A t \in Targets[d] : t.def \in Definitions
    BY <2>1, BundleTyped DEF Target
  <2>4. /\ CountryTarget(d, country) \in Definitions \cup { NoDefinition }
        /\ PrefixTarget(d, w) \in Definitions \cup { NoDefinition }
        /\ GlobalTarget(d) \in Definitions \cup { NoDefinition }
        /\ UnprefixedTarget(d) \in Definitions \cup { NoDefinition }
    <3>1. CountryTarget(d, country) \in Definitions \cup { NoDefinition }
      BY <2>1, <2>3, CountryTargetFound DEF CountryTargets
    <3>2. PrefixTarget(d, w) \in Definitions \cup { NoDefinition }
      BY <2>1, <2>3, PrefixTargetFound DEF LongestPrefixTargets
    <3>3. GlobalTarget(d) \in Definitions \cup { NoDefinition }
      BY <2>1, <2>3, GlobalTargetFound DEF GlobalTargets
    <3>4. UnprefixedTarget(d) \in Definitions \cup { NoDefinition }
      BY <2>1, <2>3, UnprefixedTargetFound DEF UnprefixedTargets
    <3> QED BY <3>1, <3>2, <3>3, <3>4
  <2>5. def' \in Definitions \cup { NoDefinition }
    BY <2>2, <2>4 DEF Candidates
  <2> QED BY <1>7, <2>5, CallersAssumption DEF SelectTarget, TypeOK, Stages, Replied
<1> QED BY <1>3, <1>4, <1>5, <1>6, <1>7

LEMMA PipelineTyped ==
  ASSUME RulesTyped, TypeOK, Started, Routed, Decided,
         RunCanonicalizer \/ RunFormat \/ RunChecksum
  PROVE  TypeOK' /\ Replied
<1>1. d \in Dispatchers /\ def \in Definitions
  BY BundleTyped DEF Routed, Decided, RunCanonicalizer, RunFormat, RunChecksum, Target
<1>2. /\ 2 \in DOMAIN Phases /\ Phases[2] = "canonicalize"
      /\ 3 \in DOMAIN Phases /\ Phases[3] = "format"
      /\ 4 \in DOMAIN Phases /\ Phases[4] = "checksum"
  BY DEF Phases
<1>3. /\ "valid" \in Statuses /\ "not_run" \in Statuses
      /\ "ok" \in Reasons /\ "not_requested" \in Reasons
  BY DEF Statuses, Reasons
<1>4. out \in Identities /\ w \in Seq(Byte)
  BY DEF TypeOK, Identities
<1>5. CASE RunCanonicalizer
  <2>1. EffectiveProfile \in Profiles /\ ResolvedProfile(out.profile) \in Profiles
    BY <1>1, <1>4, <1>5, ProfileTyped DEF RunCanonicalizer, Identities
  <2>2. w' \in Seq(Byte)
    BY <1>1, <1>4, <1>5, <2>1 DEF RunCanonicalizer, RulesTyped
  <2>3. DefinitionCountry(def) \in Seq(Byte)
    BY <1>5, CountryOfTarget, BundleTyped DEF RunCanonicalizer, Routed, Decided, Target
  <2>4. out' \in Identities
    BY <1>4, <1>5, <2>1, <2>2, <2>3 DEF RunCanonicalizer, Identities
  <2>5. trace' \in Seq(Phased)
    BY <1>2, <1>5, <2>1, PhaseTyped DEF RunCanonicalizer
  <2>6. ReportWith(out', <<StepOf("valid", "ok")>>) \in Report
    BY <1>3, <2>4, StepsTyped DEF ReportWith, Report, Identities
  <2> QED BY <1>5, <2>2, <2>4, <2>5, <2>6, CallersAssumption DEF RunCanonicalizer, Answer,
                 TypeOK, Identities, Phased, Stages, Replied
<1>6. ASSUME RunFormat \/ RunChecksum
      PROVE  /\ Format \in StepResult /\ Format.status \in Statuses
             /\ ChecksumRule(def, out.profile, out.canonical) \in StepResult
  BY <1>1, <1>4 DEF Format, RulesTyped, Identities, StepResult
<1>7. ASSUME NEW s \in StepResult, NEW t \in StepResult
      PROVE  ReportWith(out, <<s, t>>) \in Report
  BY <1>4 DEF ReportWith, Report, Identities
<1>8. CASE RunFormat
  <2>1. trace' \in Seq(Phased)
    BY <1>2, <1>4, <1>8, PhaseTyped DEF RunFormat, Identities
  <2>2. /\ ReportWith(out, <<Format, NotRunAfter(Format.status)>>) \in Report
        /\ ReportWith(out, <<Format, StepOf("not_run", "not_requested")>>) \in Report
    BY <1>3, <1>6, <1>7, <1>8, StepsTyped
  <2> QED BY <1>8, <2>1, <2>2, CallersAssumption DEF RunFormat, Answer, TypeOK, Phased,
                 Stages, Replied
<1>9. CASE RunChecksum
  <2>1. trace' \in Seq(Phased)
    BY <1>2, <1>4, <1>9, PhaseTyped DEF RunChecksum, Identities
  <2>2. ReportWith(out, <<Format, ChecksumRule(def, out.profile, out.canonical)>>) \in Report
    BY <1>6, <1>7, <1>9
  <2> QED BY <1>9, <2>1, <2>2, CallersAssumption DEF RunChecksum, Answer, TypeOK, Phased,
                 Stages, Replied
<1> QED BY <1>5, <1>8, <1>9

-----------------------------------------------------------------------------
(***************************************************************************)
(* Every stage that answers gives the answer of the one-step evaluation.   *)
(***************************************************************************)

(* A failure of dispatch is the report of a routing that stopped.          *)
LEMMA FailureIsStopped ==
  ASSUME NEW identity, NEW status, NEW reason, identity.profile = DispatchProfile
  PROVE  Stopped(identity, status, reason) =
           Abstract!Failure(call, identity.kind, identity.canonical, identity.country,
                            StepOf(status, reason))
<1>1. StepOf(status, reason).status = status
  BY DEF StepOf
<1> QED BY <1>1, SameSteps DEF Stopped, ReportWith, Abstract!Failure, DispatchProfile

LEMMA UnresolvedReport ==
  ASSUME call.profile \in Profiles \cup { "" }, ~Abstract!Resolved(call)
  PROVE  Abstract!ReportOf(call) =
           Stopped(RawIdentity, "unsupported", Abstract!WhyUnresolved(call))
<1>1. /\ RawIdentity.kind = KindToken /\ RawIdentity.canonical = call.value
      /\ RawIdentity.country = call.country /\ RawIdentity.profile = DispatchProfile
  BY DEF RawIdentity
<1>2. Stopped(RawIdentity, "unsupported", Abstract!WhyUnresolved(call)) =
        Abstract!Failure(call, Abstract!Token(call), call.value, call.country,
                         StepOf("unsupported", Abstract!WhyUnresolved(call)))
  BY <1>1, FailureIsStopped, SameDispatcher
<1> QED BY <1>2, SameSteps DEF Abstract!ReportOf

LEMMA UndecidedReport ==
  ASSUME call.profile \in Profiles \cup { "" }, Abstract!Resolved(call),
         NEW status, status # "valid", NEW reason,
         Abstract!Outcome(call) = StepOf(status, reason), NEW identity,
         identity.kind = KindOf[Abstract!DispatcherFor(call)],
         identity.canonical = Abstract!PreCanonical(call),
         identity.country = IF Abstract!Malformed(call) THEN call.country
                            ELSE Abstract!Context(call),
         identity.profile = DispatchProfile
  PROVE  Abstract!ReportOf(call) = Stopped(identity, status, reason)
<1>1. StepOf(status, reason).status = status
  BY DEF StepOf
<1>2. Abstract!Outcome(call).status = status
  BY <1>1
<1> QED BY <1>2, FailureIsStopped, SameSteps DEF Abstract!ReportOf

(* The answer of a call that selected a definition.                        *)
FinalFormat == FormatRule(Selected.def, FinalProfile, FinalIdentity.canonical)
FinalChecksum ==
  IF FinalFormat.status # "valid" THEN NotRunAfter(FinalFormat.status)
  ELSE IF call.mode = "validate_format" THEN StepOf("not_run", "not_requested")
  ELSE ChecksumRule(Selected.def, FinalProfile, FinalIdentity.canonical)

LEMMA DecidedReport ==
  ASSUME call.profile \in Profiles \cup { "" }, Abstract!Resolved(call),
         ~Abstract!Malformed(call), ~Abstract!Unserved(call),
         ~Abstract!Contradicts(call), Abstract!Eligible(call) # {}
  PROVE  Abstract!ReportOf(call) =
           ReportWith(FinalIdentity,
             IF call.mode = "canonicalize" THEN <<StepOf("valid", "ok")>>
             ELSE <<FinalFormat, FinalChecksum>>)
<1>1. Abstract!Outcome(call) = StepOf("valid", "ok")
  BY SameSteps DEF Abstract!Outcome
<1>2. StepOf("valid", "ok").status = "valid"
  BY DEF StepOf
<1>3. Abstract!ReportOf(call) = Abstract!Success(call, Selected)
  BY <1>1, <1>2, SameSteps DEF Abstract!ReportOf, Selected
<1>4. Abstract!Success(call, Selected) =
        ReportWith(FinalIdentity,
          IF call.mode = "canonicalize" THEN <<StepOf("valid", "ok")>>
          ELSE <<FinalFormat, FinalChecksum>>)
  BY SameSteps DEF Abstract!Success, ReportWith, FinalIdentity, FinalProfile, FinalFormat,
         FinalChecksum
<1> QED BY <1>3, <1>4

(* What a step that answers must show; and that it answers right.          *)
AnswersRight ==
  /\ pc' = "idle"
  /\ report' = Abstract!ReportOf(call)
  /\ report' # ErrUnknownProfile /\ Abstract!Resolved(call)
       /\ Abstract!Outcome(call).status = "valid" => def' # NoDefinition

Proceeds == pc' # "idle" /\ report' = report

LEMMA StopAnswers ==
  ASSUME Started, Routed, pc \in { "country", "target" }, NEW identity \in Identities,
         NEW status, status # "valid", NEW reason, Stop(identity, status, reason),
         Abstract!Outcome(call) = StepOf(status, reason),
         identity.kind = out.kind, identity.profile = out.profile,
         identity.country = IF Abstract!Malformed(call) THEN call.country
                            ELSE Abstract!Context(call)
  PROVE  AnswersRight
<1> DEFINE stopped == [identity EXCEPT !.canonical = w]
<1>1. /\ stopped.kind = KindOf[Abstract!DispatcherFor(call)]
      /\ stopped.canonical = Abstract!PreCanonical(call)
      /\ stopped.country = IF Abstract!Malformed(call) THEN call.country
                           ELSE Abstract!Context(call)
      /\ stopped.profile = DispatchProfile
  BY DEF Routed, Identities
<1>2. Abstract!ReportOf(call) = Stopped(stopped, status, reason)
  BY <1>1, UndecidedReport DEF Started, Routed
<1>3. report' = Stopped(stopped, status, reason) /\ pc' = "idle"
  BY DEF Stop, Answer
<1>4. StepOf(status, reason).status = status
  BY DEF StepOf
<1>5. Abstract!Outcome(call).status # "valid"
  BY <1>4
<1> QED BY <1>2, <1>3, <1>5 DEF AnswersRight

(* Past the bound, a value is within it.                                   *)
LEMMA Within ==
  ASSUME TypeOK, Started, pc = "encoding"
  PROVE  ~(Len(call.value) > MaxInput)
<1>1. call.value \in Seq(Byte)
  BY ProfileTyped DEF Call
<1>2. Len(call.value) \in Nat /\ MaxInput \in Nat
  BY <1>1, BundleTyped, LenProperties
<1>3. Len(call.value) <= MaxInput
  BY DEF Started
<1> QED BY <1>2, <1>3

LEMMA RoutingAnswers ==
  ASSUME IInv,
         \/ CheckProfile \/ RefuseTooLong \/ StartRouting
         \/ RefuseEncoding \/ RefuseKind \/ ResolveKind
  PROVE  AnswersRight \/ Proceeds
<1>1. ASSUME call.profile \in Profiles \cup { "" }, ~Abstract!Resolved(call),
             Answer(Stopped(RawIdentity, "unsupported", Abstract!WhyUnresolved(call)))
      PROVE  AnswersRight
  BY <1>1, UnresolvedReport DEF AnswersRight, Answer
<1>2. CASE CheckProfile
  <2>1. call.profile \notin Profiles \cup { "" } => Abstract!ReportOf(call) = ErrUnknownProfile
    BY SameSteps DEF Abstract!ReportOf
  <2> QED BY <1>2, <2>1 DEF CheckProfile, Answer, AnswersRight, Proceeds
<1>3. CASE RefuseTooLong
  <2>1. Len(call.value) \in Nat /\ ~(Len(call.value) <= MaxInput)
    BY <1>3, BundleTyped, ProfileTyped DEF RefuseTooLong, IInv, Call
  <2>2. /\ ~Abstract!Resolved(call) /\ Abstract!WhyUnresolved(call) = "input_too_long"
        /\ call.profile \in Profiles \cup { "" }
    BY <1>3, <2>1 DEF RefuseTooLong, Abstract!Resolved, Abstract!WhyUnresolved, IInv,
           Started
  <2> QED BY <1>1, <1>3, <2>2 DEF RefuseTooLong
<1>4. CASE StartRouting
  BY <1>4 DEF StartRouting, Proceeds
<1>5. CASE RefuseEncoding
  <2>1. /\ pc = "encoding" /\ out = RawIdentity /\ ~(Len(call.value) > MaxInput)
        /\ call.profile \in Profiles \cup { "" }
    BY <1>5, Within DEF RefuseEncoding, IInv, Started
  <2>2. ~Abstract!Resolved(call) /\ Abstract!WhyUnresolved(call) = "invalid_encoding"
    BY <1>5, <2>1, SameText
       DEF RefuseEncoding, Abstract!Resolved, Abstract!WhyUnresolved
  <2> QED BY <1>1, <1>5, <2>1, <2>2 DEF RefuseEncoding
<1>6. CASE RefuseKind
  <2>1. /\ pc = "encoding" /\ out = RawIdentity /\ ~(Len(call.value) > MaxInput)
        /\ call.profile \in Profiles \cup { "" }
    BY <1>6, Within DEF RefuseKind, IInv, Started
  <2>2. DispatcherOf(KindToken) = NoDispatcher
    BY <1>6, <2>1 DEF RefuseKind, RawIdentity
  <2>3. ~\E e \in Dispatchers : KindToken \in Tokens(e)
    BY <2>2, SameDispatcher, BundleTyped
  <2>4. ~Abstract!Resolved(call)
    BY <2>3, SameDispatcher, SameSteps DEF Abstract!Resolved
  <2>5. Abstract!WhyUnresolved(call) = "unsupported_kind"
    BY <1>6, <2>1, SameText DEF RefuseKind, Abstract!WhyUnresolved
  <2> QED BY <1>1, <1>6, <2>1, <2>4, <2>5 DEF RefuseKind
<1>7. CASE ResolveKind
  BY <1>7 DEF ResolveKind, Proceeds
<1> QED BY <1>2, <1>3, <1>4, <1>5, <1>6, <1>7

LEMMA SelectionAnswers ==
  ASSUME IInv,
         \/ RefuseCountryToken \/ NormalizeCountry
         \/ RefuseMismatch \/ RefuseMissingCountry \/ SelectTarget
  PROVE  AnswersRight \/ Proceeds
<1>1. /\ out \in Identities /\ w \in Seq(Byte) /\ country \in Seq(Byte)
      /\ Started /\ Routed
  BY DEF IInv, TypeOK, Identities
<1>2. pc \in { "country", "target" } /\ d \in Dispatchers /\ d = Abstract!DispatcherFor(call)
  BY DEF RefuseCountryToken, NormalizeCountry, RefuseMismatch, RefuseMissingCountry,
         SelectTarget, IInv, Routed
<1>3. CASE RefuseCountryToken
  <2>1. Abstract!Malformed(call)
    BY <1>2, <1>3, SameContext DEF RefuseCountryToken
  <2>2. Abstract!Outcome(call) = StepOf("unsupported", "unsupported_country")
    BY <2>1, SameSteps DEF Abstract!Outcome
  <2>3. out.country = call.country
    BY <1>1, <1>3 DEF RefuseCountryToken, Routed
  <2> QED BY <1>1, <1>2, <1>3, <2>1, <2>2, <2>3, StopAnswers DEF RefuseCountryToken
<1>4. CASE NormalizeCountry
  <2>1. CASE Unserved
    <3>1. Abstract!Unserved(call) /\ ~Abstract!Malformed(call)
      BY <1>2, <1>4, <2>1, SameUnserved, SameContext DEF NormalizeCountry
    <3>2. Abstract!Outcome(call) = StepOf("unsupported", "unsupported_country")
      BY <3>1, SameSteps DEF Abstract!Outcome
    <3>3. /\ WithCountry \in Identities /\ WithCountry.country = Abstract!Context(call)
          /\ WithCountry.kind = out.kind /\ WithCountry.profile = out.profile
      <4>1. NormalCountry \in Seq(Byte) /\ NormalCountry = Abstract!Context(call)
        BY <1>2, <1>4, CountryTyped, SameContext DEF NormalizeCountry, IInv
      <4> QED BY <1>1, <4>1 DEF WithCountry, Identities
    <3>4. Stop(WithCountry, "unsupported", "unsupported_country")
      BY <1>4, <2>1 DEF NormalizeCountry
    <3> QED BY <1>1, <1>2, <3>1, <3>2, <3>3, <3>4, StopAnswers
  <2>2. CASE ~Unserved
    BY <1>4, <2>2 DEF NormalizeCountry, Proceeds
  <2> QED BY <2>1, <2>2
<1>5. ASSUME pc = "target"
      PROVE  /\ ~Abstract!Malformed(call) /\ ~Abstract!Unserved(call)
             /\ out.country = Abstract!Context(call)
             /\ Mismatch <=> Abstract!Contradicts(call)
             /\ Abstract!Eligible(call) = {} <=>
                  \A k \in DOMAIN Candidates : ~HasTarget(Candidates[k])
  <2>1. /\ w = Abstract!PreCanonical(call) /\ country = Abstract!Context(call)
        /\ ~Abstract!Malformed(call) /\ ~Abstract!Unserved(call)
        /\ out.country = country
    BY <1>1, <1>5 DEF Routed
  <2> QED BY <1>1, <1>2, <2>1, SameSelection
<1>6. CASE RefuseMismatch
  <2>1. pc = "target" /\ Mismatch
    BY <1>6 DEF RefuseMismatch
  <2>2. Abstract!Outcome(call) = StepOf("invalid", "country_mismatch")
    <3>1. HasTarget(Candidates[1]) /\ 1 \in DOMAIN Candidates
      BY <2>1 DEF Mismatch, Candidates
    <3>2. Abstract!Eligible(call) # {} /\ Abstract!Contradicts(call)
      BY <1>5, <2>1, <3>1
    <3> QED BY <1>5, <2>1, <3>2, SameSteps DEF Abstract!Outcome
  <2> QED BY <1>1, <1>2, <1>5, <1>6, <2>1, <2>2, StopAnswers DEF RefuseMismatch
<1>7. CASE RefuseMissingCountry
  <2>1. /\ pc = "target" /\ Abstract!Eligible(call) = {} /\ ~Abstract!Contradicts(call)
    BY <1>5, <1>7 DEF RefuseMissingCountry, Candidates, Mismatch
  <2>2. Abstract!Outcome(call) = StepOf("unsupported", "missing_country_code")
    BY <1>5, <2>1, SameSteps DEF Abstract!Outcome
  <2> QED BY <1>1, <1>2, <1>5, <1>7, <2>1, <2>2, StopAnswers DEF RefuseMissingCountry
<1>8. CASE SelectTarget
  BY <1>8 DEF SelectTarget, Proceeds
<1> QED BY <1>3, <1>4, <1>6, <1>7, <1>8

(* The profile routeUnder resolves for the canonicalizer is the one route   *)
(* resolves again, and the identity is the final one.                      *)
LEMMA CanonicalizerIdentity ==
  ASSUME IInv, RunCanonicalizer
  PROVE  /\ EffectiveProfile = FinalProfile /\ FinalProfile \in Profiles
         /\ out' = FinalIdentity
<1>1. /\ d \in Dispatchers /\ d = Abstract!DispatcherFor(call)
      /\ Selected \in Targets[d] /\ def = Selected.def
      /\ w = Abstract!PreCanonical(call) /\ out.kind = KindOf[d]
      /\ out.profile = DispatchProfile /\ out.country = Abstract!Context(call)
      /\ out \in Identities
  BY DEF IInv, TypeOK, Routed, Decided, RunCanonicalizer, Identities
<1>2. EffectiveProfile = FinalProfile /\ ResolvedProfile(out.profile) = FinalProfile
  BY <1>1 DEF EffectiveProfile, ResolvedProfile, FinalProfile, DispatchProfile
<1>3. DefinitionCountry(def) = Selected.country
  BY <1>1, CountryOfTarget
<1>4. FinalProfile \in Profiles
  <2>1. def \in Definitions
    BY <1>1, BundleTyped DEF Target
  <2> QED BY <1>2, <2>1, ProfileTyped DEF IInv, RunCanonicalizer
<1>5. out' = FinalIdentity
  BY <1>1, <1>2, <1>3 DEF RunCanonicalizer, FinalIdentity, Identities
<1> QED BY <1>2, <1>4, <1>5

LEMMA PipelineAnswers ==
  ASSUME IInv, RunCanonicalizer \/ RunFormat \/ RunChecksum
  PROVE  AnswersRight \/ Proceeds
<1>1. /\ Abstract!ReportOf(call) =
           ReportWith(FinalIdentity,
             IF call.mode = "canonicalize" THEN <<StepOf("valid", "ok")>>
             ELSE <<FinalFormat, FinalChecksum>>)
      /\ def' # NoDefinition
  <2>1. /\ call.profile \in Profiles \cup { "" } /\ Abstract!Resolved(call)
        /\ ~Abstract!Malformed(call) /\ ~Abstract!Unserved(call)
        /\ ~Abstract!Contradicts(call) /\ Abstract!Eligible(call) # {}
        /\ d \in Dispatchers /\ Selected \in Targets[d] /\ def = Selected.def
    BY DEF IInv, Started, Routed, Decided, RunCanonicalizer, RunFormat, RunChecksum
  <2>2. def' = def
    BY DEF RunCanonicalizer, RunFormat, RunChecksum
  <2>3. def # NoDefinition
    BY <2>1, BundleTyped DEF Target
  <2> QED BY <2>1, <2>2, <2>3, DecidedReport
<1>2. CASE RunCanonicalizer
  <2>1. CASE call.mode = "canonicalize"
    <3>1. report' = ReportWith(FinalIdentity, <<StepOf("valid", "ok")>>) /\ pc' = "idle"
      BY <1>2, <2>1, CanonicalizerIdentity DEF RunCanonicalizer, Answer
    <3> QED BY <1>1, <2>1, <3>1 DEF AnswersRight
  <2>2. CASE call.mode # "canonicalize"
    BY <1>2, <2>2 DEF RunCanonicalizer, Proceeds
  <2> QED BY <2>1, <2>2
<1>3. ASSUME RunFormat \/ RunChecksum
      PROVE  /\ out = FinalIdentity /\ call.mode # "canonicalize"
             /\ Format = FinalFormat
             /\ ChecksumRule(def, out.profile, out.canonical) =
                  ChecksumRule(Selected.def, FinalProfile, FinalIdentity.canonical)
  <2>1. out = FinalIdentity /\ call.mode # "canonicalize" /\ def = Selected.def
    BY <1>3 DEF IInv, Decided, RunFormat, RunChecksum
  <2>2. out.profile = FinalProfile
    BY <2>1 DEF FinalIdentity
  <2> QED BY <2>1, <2>2 DEF Format, FinalFormat
<1>4. CASE RunFormat
  <2>1. CASE Format.status # "valid"
    <3>1. report' = ReportWith(FinalIdentity, <<FinalFormat, FinalChecksum>>) /\ pc' = "idle"
      BY <1>3, <1>4, <2>1 DEF RunFormat, Answer, FinalChecksum
    <3> QED BY <1>1, <1>3, <1>4, <3>1 DEF AnswersRight
  <2>2. CASE Format.status = "valid" /\ call.mode = "validate_format"
    <3>1. report' = ReportWith(FinalIdentity, <<FinalFormat, FinalChecksum>>) /\ pc' = "idle"
      BY <1>3, <1>4, <2>2 DEF RunFormat, Answer, FinalChecksum
    <3> QED BY <1>1, <1>3, <1>4, <3>1 DEF AnswersRight
  <2>3. CASE Format.status = "valid" /\ call.mode # "validate_format"
    BY <1>4, <2>3 DEF RunFormat, Proceeds
  <2> QED BY <2>1, <2>2, <2>3
<1>5. CASE RunChecksum
  <2>1. Format.status = "valid" /\ call.mode = "validate"
    BY <1>5 DEF IInv, Decided, RunChecksum
  <2>2. report' = ReportWith(FinalIdentity, <<FinalFormat, FinalChecksum>>) /\ pc' = "idle"
    BY <1>3, <1>5, <2>1 DEF RunChecksum, Answer, FinalChecksum
  <2> QED BY <1>1, <1>3, <1>5, <2>2 DEF AnswersRight
<1> QED BY <1>2, <1>4, <1>5

(* A stage keeps the call, and answers it right or goes on.                *)
LEMMA StagesAnswer ==
  ASSUME IInv, Evaluate
  PROVE  /\ call' = call /\ prior' = prior /\ pc # "idle"
         /\ AnswersRight \/ Proceeds
<1>1. call' = call /\ prior' = prior /\ pc # "idle"
  BY DEF Evaluate, CheckProfile, RefuseTooLong, StartRouting, RefuseEncoding, RefuseKind,
         ResolveKind, RefuseCountryToken, NormalizeCountry, RefuseMismatch,
         RefuseMissingCountry, SelectTarget, RunCanonicalizer, RunFormat, RunChecksum
<1> QED BY <1>1, RoutingAnswers, SelectionAnswers, PipelineAnswers DEF Evaluate

-----------------------------------------------------------------------------
(***************************************************************************)
(* The invariant is inductive.                                             *)
(***************************************************************************)

LEMMA InitIInv == Init => IInv
<1> SUFFICES ASSUME Init PROVE IInv
  OBVIOUS
<1>1. TypeOK
  BY DEF Init, TypeOK, Blank, Stages, Profiles, NoPrior
<1>2. Started /\ Routed /\ Decided
  BY DEF Init, Started, Routed, Decided
<1>3. AnsweredRight /\ FollowsUp
  BY DEF Init, AnsweredRight, FollowsUp, NoPrior
<1>4. Traced
  BY DEF Init, Traced, PhasesRun, Answered
<1> QED BY <1>1, <1>2, <1>3, <1>4 DEF IInv

(* What callers do starts a call afresh or forgets one.                    *)
LEMMA CallersKeepIInv ==
  ASSUME IInv, Ask \/ Leave \/ AskAgain \/ Resubmit
  PROVE  IInv'
<1>1. TypeOK' /\ call' \in Call \cup { NoCall }
  BY CallersTyped DEF IInv
<1>2. /\ d' = NoDispatcher /\ country' = <<>> /\ def' = NoDefinition
      /\ out' = Blank /\ w' = <<>> /\ trace' = <<>> /\ report' = NoReport
      /\ pc' \in { "idle", "check" }
      /\ pc' = "idle" => call' = NoCall
  BY DEF Ask, Leave, AskAgain, Resubmit, Enter
<1>3. pc' = "check" => call' # NoCall
  <2>1. CASE Ask
    BY <2>1, CallersAssumption DEF Ask, Enter, Call
  <2>2. CASE Leave
    BY <2>2 DEF Leave
  <2>3. CASE AskAgain \/ Resubmit
    <3>1. call \in Call /\ report \in Report
      BY <2>3 DEF AskAgain, Resubmit, Fresh, Enter, IInv, TypeOK, AnsweredRight
    <3>2. \A md \in Modes : [call EXCEPT !.mode = md] \in Call
      BY <3>1 DEF Call
    <3>3. [call EXCEPT !.kind = report.kind, !.value = report.canonical,
                       !.country = report.country] \in Call
      BY <3>1 DEF Call, Report
    <3>4. CASE AskAgain
      <4>1. call' \in Call
        BY <3>2, <3>4 DEF AskAgain, Enter
      <4> QED BY <4>1, CallersAssumption
    <3>5. CASE Resubmit
      <4>1. call' \in Call
        BY <3>3, <3>5 DEF Resubmit, Enter
      <4> QED BY <4>1, CallersAssumption
    <3> QED BY <2>3, <3>4, <3>5
  <2> QED BY <2>1, <2>2, <2>3
<1>4. Started' /\ Routed' /\ Decided' /\ AnsweredRight'
  BY <1>2, <1>3 DEF Started, Routed, Decided, AnsweredRight
<1>5. Traced'
  BY <1>2 DEF Traced, PhasesRun, Answered
<1>6. FollowsUp'
  <2>1. CASE Ask \/ Leave
    BY <1>3, <2>1 DEF Ask, Leave, Enter, FollowsUp
  <2>2. CASE Resubmit
    <3>1. /\ call \in Call /\ report = Abstract!ReportOf(call)
          /\ report # ErrUnknownProfile
      BY <2>2 DEF Resubmit, Fresh, Enter, IInv, TypeOK, AnsweredRight
    <3>2. KnownProfile(call)
      BY <3>1, SameSteps DEF Abstract!ReportOf, KnownProfile
    <3>3. call' = Resubmitted(call, report) /\ prior' = This(TRUE) /\ pc' = "check"
      BY <2>2 DEF Resubmit, Resubmitted, Enter
    <3>4. prior'.call = call /\ prior'.report = report /\ prior'.resubmits = TRUE
      BY <3>3 DEF This
    <3>5. call' # NoCall
      BY <1>3, <3>3
    <3> QED BY <3>1, <3>2, <3>3, <3>4, <3>5 DEF FollowsUp
  <2>3. CASE AskAgain
    <3>1. PICK md \in Modes \ { call.mode } : Enter([call EXCEPT !.mode = md], This(FALSE))
      BY <2>3 DEF AskAgain
    <3>2. /\ call \in Call /\ report \in Report /\ report = Abstract!ReportOf(call)
      BY <2>3, <3>1 DEF AskAgain, Fresh, Enter, IInv, TypeOK, AnsweredRight
    <3>3. /\ call' = [call EXCEPT !.mode = md] /\ prior' = This(FALSE)
      BY <3>1 DEF Enter
    <3>4. call'.mode = md /\ call' = [call EXCEPT !.mode = call'.mode]
      BY <3>2, <3>3 DEF Call
    <3>5. prior'.call = call /\ prior'.report = report /\ ~prior'.resubmits
      BY <3>3 DEF This
    <3>6. call' # NoCall
      BY <1>2, <1>3, <3>1 DEF Enter
    <3> QED BY <3>1, <3>2, <3>4, <3>5, <3>6 DEF FollowsUp
  <2> QED BY <2>1, <2>2, <2>3
<1> QED BY <1>1, <1>4, <1>5, <1>6 DEF IInv

LEMMA EvaluateTyped ==
  ASSUME RulesTyped, IInv, Evaluate PROVE TypeOK' /\ Replied
BY RoutingTyped, SelectionTyped, PipelineTyped DEF Evaluate, IInv

LEMMA AnsweredRightStep ==
  ASSUME RulesTyped, IInv, Evaluate PROVE AnsweredRight'
<1>1. TypeOK' /\ call # NoCall /\ call' = call
  BY EvaluateTyped, StagesAnswer DEF IInv, Started
<1>2. CASE AnswersRight
  BY <1>1, <1>2, EvaluateTyped DEF AnswersRight, AnsweredRight, Replied
<1>3. CASE Proceeds
  BY <1>3 DEF Proceeds, AnsweredRight
<1> QED BY <1>2, <1>3, StagesAnswer

LEMMA StartedStep ==
  ASSUME IInv, Evaluate PROVE Started'
<1>1. call' = call /\ call # NoCall /\ (pc' # "idle" => report' = NoReport)
  BY StagesAnswer DEF IInv, Started, AnswersRight, Proceeds
<1>2. pc' \notin { "idle", "check" } => call.profile \in Profiles \cup { "" }
  <2>1. CASE pc = "check"
    BY <2>1 DEF Evaluate, CheckProfile, RefuseTooLong, StartRouting, RefuseEncoding, RefuseKind,
       ResolveKind, RefuseCountryToken, NormalizeCountry, RefuseMismatch,
       RefuseMissingCountry, SelectTarget, RunCanonicalizer, RunFormat, RunChecksum, Answer
  <2>2. CASE pc # "check"
    BY <2>2, StagesAnswer DEF IInv, Started
  <2> QED BY <2>1, <2>2
<1>3. pc' = "encoding" => w' = call.value /\ out' = RawIdentity /\ Len(call.value) <= MaxInput
  BY DEF Evaluate, CheckProfile, RefuseTooLong, StartRouting, RefuseEncoding, RefuseKind,
         ResolveKind, RefuseCountryToken, NormalizeCountry, RefuseMismatch,
         RefuseMissingCountry, SelectTarget, RunCanonicalizer, RunFormat, RunChecksum,
         Answer, Stop
<1>4. RawIdentity' = RawIdentity
  BY <1>1 DEF RawIdentity, KindToken, DispatchProfile
<1> QED BY <1>1, <1>2, <1>3, <1>4 DEF Started

(* The stages that go on to another one.                                   *)
LEMMA RoutedStep ==
  ASSUME IInv, Evaluate PROVE Routed'
<1>1. call' = call
  BY StagesAnswer
<1>2. CASE pc' \in { "idle", "check", "bound", "encoding" }
  BY <1>2 DEF Routed
<1>3. CASE ResolveKind
  <2>1. /\ pc = "encoding" /\ out = RawIdentity /\ w = call.value
        /\ ~(Len(call.value) > MaxInput) /\ Len(call.value) <= MaxInput
    BY <1>3, Within DEF ResolveKind, IInv, Started
  <2>2. /\ d' = DispatcherOf(KindToken) /\ d' # NoDispatcher /\ ValidString(call.value)
    BY <1>3, <2>1 DEF ResolveKind, RawIdentity
  <2>3. \E e \in Dispatchers : KindToken \in Tokens(e)
    BY <2>2, SameDispatcher
  <2>4. d' = Abstract!DispatcherFor(call) /\ d' \in Dispatchers
    BY <2>2, <2>3, SameDispatcher
  <2>5. Abstract!Resolved(call)
    BY <2>1, <2>2, <2>3, SameDispatcher, SameSteps, SameText DEF Abstract!Resolved
  <2>6. w' = Abstract!PreCanonical(call)
    BY <1>3, <2>1, <2>4 DEF ResolveKind, Abstract!PreCanonical
  <2>7. out' = [RawIdentity EXCEPT !.kind = KindOf[d']] /\ pc' = "country"
    BY <1>3, <2>1 DEF ResolveKind
  <2>8. out'.kind = KindOf[d'] /\ out'.profile = DispatchProfile /\ out'.country = call.country
    BY <2>7 DEF RawIdentity
  <2>9. DispatchProfile' = DispatchProfile
    BY <1>1 DEF DispatchProfile
  <2> QED BY <1>1, <2>4, <2>5, <2>6, <2>7, <2>8, <2>9 DEF Routed
<1>4. CASE NormalizeCountry /\ ~Unserved
  <2>1. pc = "country" /\ d' = d /\ w' = w /\ pc' = "target" /\ out' = WithCountry
        /\ country' = NormalCountry
    BY <1>4 DEF NormalizeCountry
  <2>2. /\ Abstract!Resolved(call) /\ d = Abstract!DispatcherFor(call) /\ d \in Dispatchers
        /\ w = Abstract!PreCanonical(call) /\ out.kind = KindOf[d]
        /\ out.profile = DispatchProfile /\ out \in Identities
    BY <2>1 DEF IInv, Routed, TypeOK, Identities
  <2>3. NormalCountry = Abstract!Context(call) /\ ~Abstract!Unserved(call)
        /\ ~Abstract!Malformed(call)
    BY <1>4, <2>2, SameContext, SameUnserved DEF NormalizeCountry
  <2>4. out'.kind = KindOf[d] /\ out'.profile = DispatchProfile /\ out'.country = country'
    BY <2>1, <2>2 DEF WithCountry, Identities
  <2>5. DispatchProfile' = DispatchProfile
    BY <1>1 DEF DispatchProfile
  <2> QED BY <1>1, <2>1, <2>2, <2>3, <2>4, <2>5 DEF Routed
<1>5. CASE SelectTarget \/ RunCanonicalizer \/ RunFormat
  <2>1. /\ d' = d /\ country' = country
        /\ pc \in { "target", "canonicalize", "format" }
        /\ pc' \in { "idle", "canonicalize", "format", "checksum" }
        /\ pc' = "canonicalize" => w' = w /\ out' = out /\ pc = "target"
    BY <1>5 DEF SelectTarget, RunCanonicalizer, RunFormat, Answer
  <2>2. DispatchProfile' = DispatchProfile
    BY <1>1 DEF DispatchProfile
  <2> QED BY <1>1, <2>1, <2>2 DEF IInv, Routed
<1> QED
  <2>1. \/ pc' \in { "idle", "check", "bound", "encoding" } \/ ResolveKind
        \/ (NormalizeCountry /\ ~Unserved) \/ SelectTarget \/ RunCanonicalizer \/ RunFormat
    BY DEF Evaluate, CheckProfile, RefuseTooLong, StartRouting, RefuseEncoding, RefuseKind,
           RefuseCountryToken, NormalizeCountry, RefuseMismatch,
           RefuseMissingCountry, RunChecksum, Answer, Stop
  <2> QED BY <1>2, <1>3, <1>4, <1>5, <2>1

LEMMA DecidedStep ==
  ASSUME IInv, Evaluate PROVE Decided'
<1>1. call' = call /\ Selected' = Selected /\ FinalIdentity' = FinalIdentity
  <2>1. call' = call
    BY StagesAnswer
  <2> QED BY <2>1 DEF Selected, FinalIdentity, FinalProfile
<1>2. CASE pc' \notin { "canonicalize", "format", "checksum" }
  BY <1>2 DEF Decided
<1>3. CASE SelectTarget
  <2>1. pc = "target" /\ d' = d /\ pc' = "canonicalize" /\ ~Mismatch
    BY <1>3 DEF SelectTarget
  <2>2. /\ d = Abstract!DispatcherFor(call) /\ d \in Dispatchers
        /\ w = Abstract!PreCanonical(call) /\ country = Abstract!Context(call)
        /\ w \in Seq(Byte)
    BY <2>1 DEF IInv, Routed, TypeOK
  <2>3. PICK k \in DOMAIN Candidates :
          /\ HasTarget(Candidates[k]) /\ def' = Candidates[k]
          /\ \A j \in 1 .. k - 1 : ~HasTarget(Candidates[j])
    BY <1>3 DEF SelectTarget
  <2>4. Abstract!Eligible(call) # {} /\ ~Abstract!Contradicts(call)
    BY <2>1, <2>2, <2>3, SameSelection
  <2>5. Selected \in Abstract!Eligible(call)
    BY <2>4 DEF Selected
  <2>6. Selected \in Targets[d] /\ def' = Selected.def
    BY <2>2, <2>3, <2>5, SameSelection
  <2> QED BY <1>1, <2>1, <2>4, <2>6 DEF Decided
<1>4. CASE RunCanonicalizer
  <2>1. /\ pc = "canonicalize" /\ d' = d /\ def' = def /\ out' = FinalIdentity
        /\ pc' = "format" => call.mode # "canonicalize"
        /\ pc' \in { "idle", "format" }
    BY <1>4, CanonicalizerIdentity DEF RunCanonicalizer, Answer
  <2> QED BY <1>1, <2>1 DEF IInv, Decided
<1>5. CASE RunFormat
  <2>1. /\ pc = "format" /\ d' = d /\ def' = def /\ out' = out
        /\ pc' \in { "idle", "checksum" }
    BY <1>5 DEF RunFormat, Answer
  <2>2. pc' = "checksum" => Format.status = "valid" /\ call.mode # "validate_format"
    BY <1>5 DEF RunFormat, Answer
  <2>3. Format' = Format
    BY <2>1 DEF Format
  <2>4. call.mode # "canonicalize" /\ call.mode \in Modes
    BY <2>1, ProfileTyped DEF IInv, Decided, Call
  <2>5. pc' = "checksum" => call.mode = "validate"
    BY <2>2, <2>4 DEF Modes
  <2> QED BY <1>1, <2>1, <2>2, <2>3, <2>5 DEF IInv, Decided
<1> QED
  <2>1. \/ pc' \notin { "canonicalize", "format", "checksum" }
        \/ SelectTarget \/ RunCanonicalizer \/ RunFormat
    BY DEF Evaluate, CheckProfile, RefuseTooLong, StartRouting, RefuseEncoding, RefuseKind,
           ResolveKind, RefuseCountryToken, NormalizeCountry, RefuseMismatch,
           RefuseMissingCountry, RunChecksum, Answer, Stop
  <2> QED BY <1>2, <1>3, <1>4, <1>5, <2>1

(* A phase added to the trace is the next one.                             *)
LEMMA PhaseRuns ==
  ASSUME TypeOK, \A k \in 1 .. Len(trace) : trace[k].rule = Phases[k],
         NEW n \in DOMAIN Phases, Len(trace) = n - 1, NEW profile \in Profiles,
         trace' = Append(trace, [rule |-> Phases[n], profile |-> profile])
  PROVE  /\ Len(trace') = n
         /\ \A k \in 1 .. Len(trace') : trace'[k].rule = Phases[k]
         /\ trace'[n].profile = profile
         /\ \A k \in 1 .. n - 1 : trace'[k] = trace[k]
<1>1. n \in 1 .. 4
  BY DEF Phases
<1>2. trace \in Seq(Phased) /\ [rule |-> Phases[n], profile |-> profile] \in Phased
  BY DEF TypeOK, Phased
<1>3. /\ Len(trace') = n
      /\ trace'[n] = [rule |-> Phases[n], profile |-> profile]
      /\ \A k \in 1 .. n - 1 : trace'[k] = trace[k]
  BY <1>1, <1>2
<1>4. ASSUME NEW k \in 1 .. n PROVE trace'[k].rule = Phases[k]
  <2>1. CASE k = n
    BY <1>3, <2>1
  <2>2. CASE k # n
    <3>1. k \in 1 .. n - 1
      BY <1>1, <2>2
    <3> QED BY <1>3, <3>1
  <2> QED BY <2>1, <2>2
<1> QED BY <1>3, <1>4

LEMMA TracedStep ==
  ASSUME IInv, Evaluate PROVE Traced'
<1>1. /\ TypeOK /\ Len(trace) \in PhasesRun /\ trace \in Seq(Phased)
      /\ \A k \in 1 .. Len(trace) : trace[k].rule = Phases[k]
  BY DEF IInv, Traced, TypeOK, Phased
<1> DOMAIN Phases = 1 .. 4
  BY DEF Phases
<1>2. CASE ResolveKind
  <2>1. Len(trace) = 0 /\ pc' = "country" /\ DispatchProfile \in Profiles
        /\ Phases[1] = "preCanonicalize"
    BY <1>1, <1>2, ProfileTyped DEF ResolveKind, PhasesRun, Phases, IInv
  <2>2. /\ Len(trace') = 1
        /\ \A k \in 1 .. Len(trace') : trace'[k].rule = Phases[k]
    <3>1. trace' = Append(trace, [rule |-> Phases[1], profile |-> DispatchProfile])
      BY <1>2, <2>1 DEF ResolveKind
    <3> QED BY <1>1, <2>1, <3>1, PhaseRuns
  <2> QED BY <2>1, <2>2 DEF Traced, PhasesRun, Answered
<1>3. CASE RunCanonicalizer
  <2>1. /\ Len(trace) = 1 /\ pc' \in { "idle", "format" } /\ FinalProfile \in Profiles
        /\ Phases[2] = "canonicalize" /\ out'.profile = FinalProfile
        /\ pc' = "idle" => report'.profile = FinalProfile
    <3>1. out' = FinalIdentity /\ FinalProfile \in Profiles
      BY <1>3, CanonicalizerIdentity
    <3>2. out'.profile = FinalProfile
      BY <3>1 DEF FinalIdentity
    <3>3. pc' = "idle" => report' = ReportWith(out', <<StepOf("valid", "ok")>>)
      BY <1>3 DEF RunCanonicalizer, Answer
    <3>4. pc' = "idle" => report'.profile = FinalProfile
      BY <3>2, <3>3 DEF ReportWith
    <3>5. Len(trace) = 1 /\ pc' \in { "idle", "format" } /\ Phases[2] = "canonicalize"
      BY <1>1, <1>3 DEF RunCanonicalizer, Answer, PhasesRun, Phases
    <3> QED BY <3>1, <3>2, <3>4, <3>5
  <2>2. /\ Len(trace') = 2
        /\ \A k \in 1 .. Len(trace') : trace'[k].rule = Phases[k]
        /\ trace'[2].profile = FinalProfile
    <3>1. EffectiveProfile = FinalProfile
      BY <1>3, CanonicalizerIdentity
    <3>2. trace' = Append(trace, [rule |-> Phases[2], profile |-> FinalProfile])
      BY <1>3, <2>1, <3>1 DEF RunCanonicalizer
    <3>3. 2 \in DOMAIN Phases /\ Len(trace) = 2 - 1 /\ FinalProfile \in Profiles
      BY <2>1
    <3> QED BY <1>1, <3>2, <3>3, PhaseRuns
  <2>3. \A k \in 2 .. Len(trace') : trace'[k].profile = FinalProfile
    BY <2>2
  <2>4. Len(trace') \in PhasesRun'
    BY <2>1, <2>2 DEF PhasesRun
  <2> QED BY <2>1, <2>2, <2>3, <2>4 DEF Traced, Answered
<1>4. ASSUME RunFormat \/ RunChecksum
      PROVE  /\ out' = out /\ out.profile \in Profiles
             /\ pc' = "idle" => report'.profile = out.profile
  <2>1. out' = out /\ out.profile \in Profiles
    BY <1>1, <1>4 DEF RunFormat, RunChecksum, TypeOK
  <2>2. pc' = "idle" => \E steps : report' = ReportWith(out, steps)
    BY <1>4 DEF RunFormat, RunChecksum, Answer
  <2> QED BY <2>1, <2>2 DEF ReportWith
<1>5. CASE RunFormat
  <2>1. Len(trace) = 2 /\ pc' \in { "idle", "checksum" } /\ Phases[3] = "format"
        /\ trace[2].profile = out.profile
    BY <1>1, <1>5 DEF RunFormat, Answer, PhasesRun, Phases, IInv, Traced
  <2>2. /\ Len(trace') = 3
        /\ \A k \in 1 .. Len(trace') : trace'[k].rule = Phases[k]
        /\ trace'[3].profile = out.profile /\ trace'[2] = trace[2]
    <3>1. trace' = Append(trace, [rule |-> Phases[3], profile |-> out.profile])
      BY <1>5, <2>1 DEF RunFormat
    <3>2. 3 \in DOMAIN Phases /\ Len(trace) = 3 - 1 /\ out.profile \in Profiles
      BY <1>4, <1>5, <2>1
    <3>3. 2 \in 1 .. 3 - 1
      OBVIOUS
    <3> QED BY <1>1, <3>1, <3>2, <3>3, PhaseRuns
  <2>3. \A k \in 2 .. Len(trace') : trace'[k].profile = out.profile
    <3>1. ASSUME NEW k \in 2 .. 3 PROVE k = 2 \/ k = 3
      OBVIOUS
    <3> QED BY <2>1, <2>2, <3>1
  <2>4. Len(trace') \in PhasesRun'
    BY <2>1, <2>2 DEF PhasesRun
  <2> QED BY <1>4, <1>5, <2>1, <2>2, <2>3, <2>4 DEF Traced, Answered
<1>6. CASE RunChecksum
  <2>1. Len(trace) = 3 /\ pc' = "idle" /\ Phases[4] = "checksum"
        /\ \A k \in 2 .. 3 : trace[k].profile = out.profile
    BY <1>1, <1>6 DEF RunChecksum, Answer, PhasesRun, Phases, IInv, Traced
  <2>2. /\ Len(trace') = 4
        /\ \A k \in 1 .. Len(trace') : trace'[k].rule = Phases[k]
        /\ trace'[4].profile = out.profile
        /\ \A k \in 1 .. 3 : trace'[k] = trace[k]
    <3>1. trace' = Append(trace, [rule |-> Phases[4], profile |-> out.profile])
      BY <1>6, <2>1 DEF RunChecksum
    <3>2. 4 \in DOMAIN Phases /\ Len(trace) = 4 - 1 /\ out.profile \in Profiles
      BY <1>4, <1>6, <2>1
    <3>3. \A k \in 1 .. 3 : k \in 1 .. 4 - 1
      OBVIOUS
    <3> QED BY <1>1, <3>1, <3>2, <3>3, PhaseRuns
  <2>3. \A k \in 2 .. Len(trace') : trace'[k].profile = out.profile
    <3>1. ASSUME NEW k \in 2 .. 4 PROVE (k \in 1 .. 3 /\ k \in 2 .. 3) \/ k = 4
      OBVIOUS
    <3> QED BY <2>1, <2>2, <3>1
  <2>4. Len(trace') \in PhasesRun'
    BY <2>1, <2>2 DEF PhasesRun
  <2> QED BY <1>4, <1>6, <2>1, <2>2, <2>3, <2>4 DEF Traced, Answered
<1> QED
  <2>1. \/ ResolveKind \/ RunCanonicalizer \/ RunFormat \/ RunChecksum
        \/ /\ trace' = trace
           /\ pc \in { "check", "bound", "encoding", "country", "target" }
           /\ pc' \notin { "format", "checksum" }
           /\ \/ pc' = "idle"
              \/ pc \in { "check", "bound" } /\ pc' \in { "bound", "encoding" }
              \/ pc = "country" /\ pc' = "target"
              \/ pc = "target" /\ pc' = "canonicalize"
    BY DEF Evaluate, CheckProfile, RefuseTooLong, StartRouting, RefuseEncoding, RefuseKind,
           RefuseCountryToken, NormalizeCountry, RefuseMismatch,
           RefuseMissingCountry, SelectTarget, Answer, Stop
  <2>2. ASSUME trace' = trace,
               pc \in { "check", "bound", "encoding", "country", "target" },
               pc' \notin { "format", "checksum" },
               \/ pc' = "idle"
               \/ pc \in { "check", "bound" } /\ pc' \in { "bound", "encoding" }
               \/ pc = "country" /\ pc' = "target"
               \/ pc = "target" /\ pc' = "canonicalize"
        PROVE  Traced'
    <3>1. Len(trace) \in 0 .. 1 /\ Len(trace') = Len(trace)
      BY <1>1, <2>2 DEF PhasesRun
    <3>2. Len(trace') \in PhasesRun'
      BY <1>1, <2>2, <3>1 DEF PhasesRun
    <3>3. ASSUME NEW k \in 2 .. Len(trace') PROVE FALSE
      <4>1. Len(trace') \in 0 .. 1
        BY <3>1
      <4> QED BY <4>1
    <3> QED BY <1>1, <2>2, <3>1, <3>2, <3>3 DEF Traced, Answered
  <2> QED BY <1>2, <1>3, <1>5, <1>6, <2>1, <2>2

LEMMA FollowsUpStep ==
  ASSUME IInv, Evaluate PROVE FollowsUp'
BY StagesAnswer DEF IInv, FollowsUp

LEMMA NextIInv ==
  ASSUME RulesTyped, IInv, [Next]_vars PROVE IInv'
<1>1. CASE Ask \/ Leave \/ AskAgain \/ Resubmit
  BY <1>1, CallersKeepIInv
<1>2. CASE Evaluate
  BY <1>2, EvaluateTyped, StartedStep, RoutedStep, DecidedStep, AnsweredRightStep,
     TracedStep, FollowsUpStep DEF IInv
<1>3. CASE UNCHANGED vars
  <2>1. TypeOK' /\ Traced' /\ FollowsUp'
    BY <1>3 DEF vars, IInv, TypeOK, Traced, PhasesRun, Answered, FollowsUp
  <2>2. Started' /\ AnsweredRight'
    BY <1>3 DEF vars, IInv, Started, RawIdentity, KindToken, DispatchProfile, AnsweredRight
  <2>3. Routed' /\ Decided'
    BY <1>3 DEF vars, IInv, Routed, DispatchProfile, Decided, Selected, FinalIdentity,
       FinalProfile, Format
  <2> QED BY <2>1, <2>2, <2>3 DEF IInv
<1> QED BY <1>1, <1>2, <1>3 DEF Next

(* Every stage of every call is where the one-step evaluation puts it,      *)
(* whatever the bundle and the calls are, provided rules return bytes and   *)
(* steps (evaluate, route, routeUnder of engine.go).                       *)
THEOREM StagesInvariance == RulesTyped => (Spec => []IInv)
<1> SUFFICES ASSUME RulesTyped PROVE Spec => []IInv
  OBVIOUS
<1>1. IInv /\ [Next]_vars => IInv'
  BY NextIInv
<1> QED BY <1>1, InitIInv, PTL DEF Spec

-----------------------------------------------------------------------------
(***************************************************************************)
(* What follows from it.                                                   *)
(***************************************************************************)

(* Each phase of a call runs at most once and in order, the checksum only   *)
(* behind a format, and all a definition owns under the reported profile.  *)
THEOREM PhasesOnceAlways == RulesTyped => (Spec => []PhasesOnce)
<1>1. ASSUME IInv PROVE PhasesOnce
  <2> DEFINE rules == [k \in DOMAIN trace |-> trace[k].rule]
  <2>1. TypeOK /\ trace \in Seq(Phased) /\ Len(trace) \in 0 .. 4
    BY <1>1 DEF IInv, TypeOK, Phased, Traced, PhasesRun
  <2>2. /\ DOMAIN trace = 1 .. Len(trace) /\ DOMAIN Phases = 1 .. 4
        /\ Phases \in Seq({ Phases[k] : k \in DOMAIN Phases }) /\ Len(Phases) = 4
    BY <2>1 DEF Phases
  <2>3. \A k \in 1 .. Len(trace) : rules[k] = Phases[k]
    BY <1>1, <2>2 DEF IInv, Traced
  <2>4. rules \in Seq({ Phases[k] : k \in DOMAIN Phases }) /\ Len(rules) = Len(trace)
    <3>1. \A k \in 1 .. Len(trace) : k \in DOMAIN Phases
      BY <2>1, <2>2
    <3>2. rules \in [1 .. Len(trace) -> { Phases[k] : k \in DOMAIN Phases }]
      BY <2>2, <2>3, <3>1
    <3> QED BY <2>1, <3>2
  <2>5. IsPrefix(rules, Phases)
    <3>1. SubSeq(rules, 1, Len(rules)) = SubSeq(Phases, 1, Len(rules))
      BY <2>1, <2>2, <2>3, <2>4
    <3>2. Len(rules) <= Len(Phases)
      BY <2>1, <2>2, <2>4
    <3> HIDE DEF rules
    <3> QED BY <3>1, <3>2 DEF IsPrefix
  <2> QED BY <1>1, <2>1, <2>5 DEF PhasesOnce, IInv, Traced
<1> SUFFICES ASSUME RulesTyped PROVE Spec => []PhasesOnce
  OBVIOUS
<1>2. Spec => []IInv
  BY StagesInvariance
<1> QED BY <1>1, <1>2, PTL

(* The entry point only matters past dispatch.                             *)
LEMMA EntryPointIrrelevant ==
  ASSUME NEW a \in Call, NEW b \in Call, a = [b EXCEPT !.mode = a.mode]
  PROVE  /\ a.profile = b.profile /\ a.country = b.country /\ a.value = b.value
         /\ Abstract!Token(a) = Abstract!Token(b)
         /\ Abstract!WhyUnresolved(a) = Abstract!WhyUnresolved(b)
         /\ Abstract!Resolved(a) <=> Abstract!Resolved(b)
         /\ Abstract!DispatcherFor(a) = Abstract!DispatcherFor(b)
         /\ Abstract!PreCanonical(a) = Abstract!PreCanonical(b)
         /\ Abstract!Context(a) = Abstract!Context(b)
         /\ Abstract!Malformed(a) <=> Abstract!Malformed(b)
         /\ Abstract!Eligible(a) = Abstract!Eligible(b)
         /\ Abstract!Outcome(a) = Abstract!Outcome(b)
<1>1. /\ a.kind = b.kind /\ a.profile = b.profile /\ a.country = b.country
      /\ a.value = b.value
  BY DEF Call
<1>2. Abstract!Token(a) = Abstract!Token(b)
  BY <1>1 DEF Abstract!Token
<1>3. /\ Abstract!WhyUnresolved(a) = Abstract!WhyUnresolved(b)
      /\ Abstract!Resolved(a) <=> Abstract!Resolved(b)
      /\ Abstract!DispatcherFor(a) = Abstract!DispatcherFor(b)
  BY <1>1, <1>2 DEF Abstract!WhyUnresolved, Abstract!Resolved, Abstract!DispatcherFor
<1>4. /\ Abstract!PreCanonical(a) = Abstract!PreCanonical(b)
      /\ Abstract!Context(a) = Abstract!Context(b)
      /\ Abstract!Candidate(a) = Abstract!Candidate(b)
  BY <1>1, <1>3 DEF Abstract!PreCanonical, Abstract!Context, Abstract!Candidate
<1>5. /\ Abstract!ByCountry(a) = Abstract!ByCountry(b)
      /\ Abstract!ByPrefix(a) = Abstract!ByPrefix(b)
      /\ Abstract!Global(a) = Abstract!Global(b)
  BY <1>4 DEF Abstract!ByCountry, Abstract!ByPrefix, Abstract!Global
<1>6. /\ Abstract!Malformed(a) <=> Abstract!Malformed(b)
      /\ Abstract!Unserved(a) <=> Abstract!Unserved(b)
      /\ Abstract!Contradicts(a) <=> Abstract!Contradicts(b)
      /\ Abstract!Eligible(a) = Abstract!Eligible(b)
  BY <1>4, <1>5
     DEF Abstract!Malformed, Abstract!Unserved, Abstract!Contradicts, Abstract!Eligible
<1>7. Abstract!Outcome(a) = Abstract!Outcome(b)
  BY <1>6 DEF Abstract!Outcome
<1> QED BY <1>1, <1>2, <1>3, <1>4, <1>6, <1>7

(* A failure of dispatch does not depend on the entry point either.         *)
LEMMA FailuresAgree ==
  ASSUME NEW a, NEW b, a.profile = b.profile,
         NEW kind, NEW value, NEW at, NEW step
  PROVE  /\ Identity(Abstract!Failure(a, kind, value, at, step)) =
              Identity(Abstract!Failure(b, kind, value, at, step))
         /\ Abstract!Failure(a, kind, value, at, step).steps[1] =
              Abstract!Failure(b, kind, value, at, step).steps[1]
BY DEF Abstract!Failure, Identity, ReportWith

(* Two calls that differ in their entry point only report the same         *)
(* identity, and the same first step unless one of them stops at a          *)
(* canonicalized value.                                                    *)
LEMMA ReportsAgree ==
  ASSUME NEW a \in Call, NEW b \in Call, a = [b EXCEPT !.mode = a.mode],
         KnownProfile(a)
  PROVE  /\ Identity(Abstract!ReportOf(a)) = Identity(Abstract!ReportOf(b))
         /\ \/ Abstract!ReportOf(a).steps[1] = Abstract!ReportOf(b).steps[1]
            \/ /\ "canonicalize" \in { a.mode, b.mode }
               /\ Abstract!Resolved(a) /\ Abstract!Outcome(a).status = "valid"
<1>2. CASE ~Abstract!Resolved(a)
  <2> DEFINE why == StepOf("unsupported", Abstract!WhyUnresolved(a))
  <2>1. /\ Abstract!ReportOf(a) =
             Abstract!Failure(a, Abstract!Token(a), a.value, a.country, why)
        /\ Abstract!ReportOf(b) =
             Abstract!Failure(b, Abstract!Token(a), a.value, a.country, why)
    BY <1>2, EntryPointIrrelevant, SameSteps DEF Abstract!ReportOf, KnownProfile
  <2> HIDE DEF why
  <2>2. a.profile = b.profile
    BY EntryPointIrrelevant
  <2>3. Identity(Abstract!ReportOf(a)) = Identity(Abstract!ReportOf(b))
    BY <2>1, <2>2, FailuresAgree
  <2>4. Abstract!ReportOf(a).steps[1] = Abstract!ReportOf(b).steps[1]
    BY <2>1, <2>2, FailuresAgree
  <2> QED BY <2>3, <2>4
<1>3. CASE Abstract!Resolved(a) /\ Abstract!Outcome(a).status # "valid"
  <2> DEFINE K == KindOf[Abstract!DispatcherFor(a)]
  <2> DEFINE C == IF Abstract!Malformed(a) THEN a.country ELSE Abstract!Context(a)
  <2>1. /\ Abstract!ReportOf(a) =
             Abstract!Failure(a, K, Abstract!PreCanonical(a), C, Abstract!Outcome(a))
        /\ Abstract!ReportOf(b) =
             Abstract!Failure(b, K, Abstract!PreCanonical(a), C, Abstract!Outcome(a))
    BY <1>3, EntryPointIrrelevant, SameSteps DEF Abstract!ReportOf, KnownProfile
  <2> HIDE DEF K, C
  <2>2. a.profile = b.profile
    BY EntryPointIrrelevant
  <2>3. Identity(Abstract!ReportOf(a)) = Identity(Abstract!ReportOf(b))
    BY <2>1, <2>2, FailuresAgree
  <2>4. Abstract!ReportOf(a).steps[1] = Abstract!ReportOf(b).steps[1]
    BY <2>1, <2>2, FailuresAgree
  <2> QED BY <2>3, <2>4
<1>4. CASE Abstract!Resolved(a) /\ Abstract!Outcome(a).status = "valid"
  <2>1. PICK t : /\ Abstract!ReportOf(a) = Abstract!Success(a, t)
                 /\ Abstract!ReportOf(b) = Abstract!Success(b, t)
    BY <1>4, EntryPointIrrelevant, SameSteps DEF Abstract!ReportOf, KnownProfile
  <2>2. Identity(Abstract!Success(a, t)) = Identity(Abstract!Success(b, t))
    BY EntryPointIrrelevant DEF Abstract!Success, Identity, ReportWith
  <2>3. a.mode # "canonicalize" /\ b.mode # "canonicalize" =>
          Abstract!Success(a, t).steps[1] = Abstract!Success(b, t).steps[1]
    BY EntryPointIrrelevant DEF Abstract!Success
  <2> QED BY <1>4, <2>1, <2>2, <2>3
<1> QED BY <1>2, <1>3, <1>4

(* Every entry point decides the same until the checksum (fuzz_test.go).   *)
THEOREM EntryPointsAlwaysAgree == RulesTyped => (Spec => []EntryPointsAgree)
<1>1. ASSUME IInv PROVE EntryPointsAgree
  <2> SUFFICES ASSUME Answered, prior # NoPrior, ~prior.resubmits
               PROVE  /\ Identity(report) = Identity(prior.report)
                      /\ \/ report.steps[1] = prior.report.steps[1]
                         \/ /\ "canonicalize" \in { call.mode, prior.call.mode }
                            /\ def # NoDefinition
    BY DEF EntryPointsAgree
  <2>1. /\ call \in Call /\ report = Abstract!ReportOf(call)
        /\ report # ErrUnknownProfile
        /\ Abstract!Resolved(call) /\ Abstract!Outcome(call).status = "valid"
             => def # NoDefinition
    BY <1>1 DEF IInv, TypeOK, AnsweredRight, Answered
  <2>2. /\ prior.call \in Call /\ prior.report = Abstract!ReportOf(prior.call)
        /\ call = [prior.call EXCEPT !.mode = call.mode]
    BY <1>1 DEF IInv, FollowsUp
  <2>3. KnownProfile(call)
    BY <2>1, SameSteps DEF Abstract!ReportOf, KnownProfile
  <2> QED BY <2>1, <2>2, <2>3, ReportsAgree
<1> SUFFICES ASSUME RulesTyped PROVE Spec => []EntryPointsAgree
  OBVIOUS
<1>2. Spec => []IInv
  BY StagesInvariance
<1> QED BY <1>1, <1>2, PTL

-----------------------------------------------------------------------------
(***************************************************************************)
(* The stages implement the one-step evaluation.                           *)
(***************************************************************************)

LEMMA StepImplements ==
  ASSUME RulesTyped, IInv, IInv', [Next]_vars
  PROVE  [Abstract!Next]_Abstract!vars
<1> USE DEF Abstract!Next, Abstract!vars
<1>1. CASE Ask
  <2>1. call' \in Call /\ call = NoCall /\ report' = NoReport
    <3>1. call' \in Call \cup { NoCall } /\ pc' # "idle"
      BY <1>1, CallersTyped DEF Ask, Enter, IInv
    <3> QED BY <1>1, <3>1 DEF Ask, Enter, IInv, Started
  <2> QED BY <2>1 DEF Abstract!Ask
<1>2. CASE Leave
  BY <1>2 DEF Leave, IInv, AnsweredRight, Abstract!Leave
<1>3. CASE AskAgain \/ Resubmit
  <2>1. call' \in Call /\ report # NoReport /\ report' = NoReport
    <3>1. call' \in Call \cup { NoCall } /\ pc' # "idle"
      BY <1>3, CallersTyped DEF AskAgain, Resubmit, Enter, IInv
    <3> QED BY <1>3, <3>1 DEF AskAgain, Resubmit, Fresh, Enter, IInv, Started
  <2> QED BY <2>1 DEF Abstract!Ask
<1>4. CASE Evaluate
  <2>1. call' = call /\ call # NoCall /\ report = NoReport
    BY <1>4, StagesAnswer DEF IInv, Started
  <2>2. CASE AnswersRight
    BY <2>1, <2>2 DEF AnswersRight, Abstract!Respond
  <2>3. CASE Proceeds
    BY <2>1, <2>3 DEF Proceeds
  <2> QED BY <1>4, <2>2, <2>3, StagesAnswer
<1>5. CASE UNCHANGED vars
  BY <1>5 DEF vars
<1> QED BY <1>1, <1>2, <1>3, <1>4, <1>5 DEF Next

(* Every behaviour of the engine is one of the one-step evaluation: a call  *)
(* is answered once, with what its own contents determine, whatever the    *)
(* bundle and the calls before it (Engine.run, route, routeUnder).         *)
THEOREM EngineImplements == RulesTyped => (Spec => Implements)
<1> SUFFICES ASSUME RulesTyped PROVE Spec => Implements
  OBVIOUS
<1>1. Init => Abstract!Init
  BY DEF Init, Abstract!Init
<1>2. IInv /\ IInv' /\ [Next]_vars => [Abstract!Next]_Abstract!vars
  BY StepImplements
<1>3. Spec => []IInv
  BY StagesInvariance
<1> QED BY <1>1, <1>2, <1>3, PTL DEF Spec, Implements, Abstract!Spec
-----------------------------------------------------------------------------
(***************************************************************************)
(* What a caller is told, submitted again.                                 *)
(***************************************************************************)

(* Trimming leaves no space at either end, and leaves alone what has none.  *)
LEMMA TrimSettles ==
  ASSUME NEW s \in Seq(Byte)
  PROVE  /\ s = <<>> \/ (~IsASCIISpace(s[1]) /\ ~IsASCIISpace(s[Len(s)])) => TrimASCII(s) = s
         /\ TrimASCII(s) # <<>> => /\ ~IsASCIISpace(TrimASCII(s)[1])
                                   /\ ~IsASCIISpace(TrimASCII(s)[Len(TrimASCII(s))])
<1> DEFINE kept == { k \in DOMAIN s : ~IsASCIISpace(s[k]) }
<1>0. Len(s) \in Nat /\ DOMAIN s = 1 .. Len(s)
  OBVIOUS
<1>1. CASE kept = {}
  <2>1. TrimASCII(s) = <<>>
    BY <1>1 DEF TrimASCII
  <2>2. s # <<>> => 1 \in DOMAIN s
    BY <1>0
  <2> QED BY <1>1, <2>1, <2>2
<1>2. CASE kept # {}
  <2>1. kept \subseteq Nat /\ kept \subseteq 0 .. Len(s)
    BY <1>0
  <2>2. Min(kept) \in kept /\ \A m \in kept : Min(kept) <= m
    BY <1>2, <2>1, LeastExists DEF Min
  <2>3. \E n \in kept : \A m \in kept : n >= m
    <3>1. PICK n \in kept : \A m \in kept : m <= n
      BY <1>0, <1>2, <2>1, GreatestExists
    <3> QED BY <2>1, <3>1
  <2>4. Max(kept) \in kept /\ \A m \in kept : Max(kept) >= m
    BY <2>3 DEF Max
  <2> DEFINE lo == Min(kept)
             hi == Max(kept)
  <2>5. lo \in 1 .. Len(s) /\ hi \in 1 .. Len(s) /\ lo <= hi
    BY <1>0, <2>2, <2>4
  <2>6. ~IsASCIISpace(s[lo]) /\ ~IsASCIISpace(s[hi])
    BY <2>2, <2>4
  <2>7. TrimASCII(s) = SubSeq(s, lo, hi)
    BY <1>2 DEF TrimASCII
  <2>8. ASSUME s = <<>> \/ (~IsASCIISpace(s[1]) /\ ~IsASCIISpace(s[Len(s)]))
        PROVE  TrimASCII(s) = s
    <3>1. s # <<>>
      BY <1>0, <2>5
    <3>2. 1 \in kept /\ Len(s) \in kept
      BY <1>0, <2>5, <2>8, <3>1
    <3>3. lo <= 1 /\ hi >= Len(s)
      BY <2>2, <2>4, <3>2
    <3>4. lo = 1 /\ hi = Len(s)
      <4>1. \A n \in Nat : \A l, h \in 1 .. n : l <= 1 /\ h >= n => l = 1 /\ h = n
        OBVIOUS
      <4> HIDE DEF lo, hi, kept
      <4> QED BY <1>0, <2>5, <3>3, <4>1
    <3> HIDE DEF lo, hi, kept
    <3>5. SubSeq(s, 1, Len(s)) = s
      OBVIOUS
    <3> QED BY <2>7, <3>4, <3>5
  <2> HIDE DEF lo, hi, kept
  <2>9. /\ Len(TrimASCII(s)) = hi - lo + 1
        /\ TrimASCII(s)[1] = s[lo] /\ TrimASCII(s)[hi - lo + 1] = s[hi]
    BY <2>5, <2>7
  <2> QED BY <2>6, <2>8, <2>9
<1> QED BY <1>1, <1>2

(* A kind in lower case and without spaces around it stays so.             *)
LEMMA KindSettles ==
  ASSUME NEW s \in Seq(Byte)
  PROVE  /\ LowerASCII(TrimASCII(LowerASCII(TrimASCII(s)))) = LowerASCII(TrimASCII(s))
         /\ IsKindToken(s) => LowerASCII(TrimASCII(s)) = s
<1>1. ASSUME NEW x \in Seq(Byte)
      PROVE  /\ LowerASCII(x) \in Seq(Byte) /\ Len(LowerASCII(x)) = Len(x)
             /\ \A k \in DOMAIN x : LowerASCII(x)[k] = IF x[k] \in 65 .. 90 THEN x[k] + 32 ELSE x[k]
  BY TextTyped DEF LowerASCII
<1>2. \A b \in Byte :
        LET l == IF b \in 65 .. 90 THEN b + 32 ELSE b
        IN  l \notin 65 .. 90 /\ (IsASCIISpace(l) => IsASCIISpace(b))
  BY DEF Byte, IsASCIISpace
<1>3. ASSUME NEW x \in Seq(Byte), \A k \in DOMAIN x : x[k] \notin 65 .. 90
      PROVE  LowerASCII(x) = x
  <2>1. LowerASCII(x) = [k \in DOMAIN x |-> x[k]]
    BY <1>3 DEF LowerASCII
  <2> QED BY <2>1
<1>4. LowerASCII(TrimASCII(LowerASCII(TrimASCII(s)))) = LowerASCII(TrimASCII(s))
  <2> DEFINE x == TrimASCII(s)
             y == LowerASCII(x)
  <2>1. x \in Seq(Byte) /\ (x # <<>> => ~IsASCIISpace(x[1]) /\ ~IsASCIISpace(x[Len(x)]))
    BY TextTyped, TrimSettles
  <2> HIDE DEF x
  <2>2. /\ y \in Seq(Byte) /\ Len(y) = Len(x) /\ Len(x) \in Nat
        /\ DOMAIN x = 1 .. Len(x) /\ DOMAIN y = 1 .. Len(x)
    BY <1>1, <2>1
  <2>3. ASSUME NEW k \in 1 .. Len(x)
        PROVE  y[k] \notin 65 .. 90 /\ (IsASCIISpace(y[k]) => IsASCIISpace(x[k]))
    <3>1. x[k] \in Byte
      BY <2>1, <2>2, ElementOfSeq
    <3>2. y[k] = IF x[k] \in 65 .. 90 THEN x[k] + 32 ELSE x[k]
      BY <1>1, <2>1, <2>2
    <3> HIDE DEF y
    <3> QED BY <1>2, <3>1, <3>2
  <2>4. y = <<>> \/ (~IsASCIISpace(y[1]) /\ ~IsASCIISpace(y[Len(y)]))
    <3>1. CASE Len(x) = 0
      BY <2>2, <3>1
    <3>2. CASE Len(x) > 0
      <4>1. x # <<>> /\ 1 \in 1 .. Len(x) /\ Len(x) \in 1 .. Len(x)
        BY <2>2, <3>2
      <4> QED BY <2>1, <2>2, <2>3, <4>1
    <3> QED BY <2>2, <3>1, <3>2
  <2> HIDE DEF y
  <2>5. TrimASCII(y) = y /\ LowerASCII(y) = y
    BY <1>3, <2>2, <2>3, <2>4, TrimSettles
  <2> QED BY <2>5 DEF x, y
<1>5. ASSUME IsKindToken(s) PROVE LowerASCII(TrimASCII(s)) = s
  <2>1. ASSUME NEW k \in DOMAIN s
        PROVE  s[k] \notin 65 .. 90 /\ ~IsASCIISpace(s[k])
    <3>1. s[k] \in (97 .. 122) \cup (48 .. 57) \cup { 95, 45 }
      BY <1>5 DEF IsKindToken
    <3>2. \A b : b \in (97 .. 122) \cup (48 .. 57) \cup { 95, 45 } =>
            b \notin 65 .. 90 /\ ~IsASCIISpace(b)
      BY DEF IsASCIISpace
    <3> QED BY <3>1, <3>2
  <2>2. s # <<>> => 1 \in DOMAIN s /\ Len(s) \in DOMAIN s
    OBVIOUS
  <2>3. TrimASCII(s) = s
    BY <2>1, <2>2, TrimSettles
  <2> QED BY <1>3, <2>1, <2>3
<1> QED BY <1>4, <1>5

(* So does a country, and the absence of one.                              *)
LEMMA CountrySettles ==
  ASSUME NEW s \in Seq(Byte), s = <<>> \/ IsCountryToken(s)
  PROVE  UpperASCII(TrimASCII(s)) = s
<1>1. ASSUME NEW k \in DOMAIN s
      PROVE  s[k] \in 65 .. 90 /\ ~IsASCIISpace(s[k]) /\ ~IsASCIILower(s[k])
  <2>1. s # <<>>
    OBVIOUS
  <2>2. s[k] \in 65 .. 90
    BY <2>1 DEF IsCountryToken
  <2>3. \A b : b \in 65 .. 90 => ~IsASCIISpace(b) /\ ~IsASCIILower(b)
    BY DEF IsASCIISpace, IsASCIILower
  <2> QED BY <2>2, <2>3
<1>2. s # <<>> => 1 \in DOMAIN s /\ Len(s) \in DOMAIN s
  OBVIOUS
<1>3. TrimASCII(s) = s
  BY <1>1, <1>2, TrimSettles
<1>4. UpperASCII(s) = [k \in DOMAIN s |-> s[k]]
  BY <1>1 DEF UpperASCII
<1> QED BY <1>3, <1>4

(* The kind of a dispatcher leads back to it.                              *)
LEMMA KindResolves ==
  ASSUME NEW c, NEW e \in Dispatchers, c.kind = KindOf[e]
  PROVE  /\ Abstract!Token(c) = KindOf[e]
         /\ Abstract!Token(c) \in Abstract!Tokens(e)
         /\ Abstract!DispatcherFor(c) = e
<1>1. KindOf[e] \in Tokens(e) /\ KindOf[e] \in Seq(Byte) /\ IsKindToken(KindOf[e])
  BY AcceptedBundle DEF TablesAccepted, Tokens
<1>2. Abstract!Token(c) = KindOf[e]
  BY <1>1, SameText, KindSettles DEF Abstract!Token
<1>3. \A f \in Dispatchers : KindOf[e] \in Tokens(f) => f = e
  BY <1>1, AcceptedBundle DEF TablesAccepted
<1>4. (CHOOSE f \in Dispatchers : KindOf[e] \in Tokens(f)) = e
  BY <1>1, <1>3
<1> QED BY <1>1, <1>2, <1>4, SameSteps DEF Abstract!DispatcherFor

(* A country no alias renames is the context of the call that names it.     *)
LEMMA CountryIsContext ==
  ASSUME NEW c, NEW e \in Dispatchers, Abstract!DispatcherFor(c) = e,
         c.country \in Seq(Byte), c.country = <<>> \/ IsCountryToken(c.country),
         c.country \notin DOMAIN CountryAliases[e]
  PROVE  Abstract!Context(c) = c.country
BY CountrySettles, SameText DEF Abstract!Context

(* A context that is not malformed is one an alias does not rename.         *)
LEMMA ContextIsCountry ==
  ASSUME NEW c \in Call, NEW e \in Dispatchers, Abstract!DispatcherFor(c) = e,
         \A code \in DOMAIN CountryAliases[e] :
           CountryAliases[e][code] \notin DOMAIN CountryAliases[e],
         ~Abstract!Malformed(c)
  PROVE  /\ Abstract!Context(c) \in Seq(Byte)
         /\ Abstract!Context(c) = <<>> \/ IsCountryToken(Abstract!Context(c))
         /\ Abstract!Context(c) \notin DOMAIN CountryAliases[e]
<1> DEFINE token == UpperASCII(TrimASCII(c.country))
<1>1. Abstract!Context(c) =
        IF token \in DOMAIN CountryAliases[e] THEN CountryAliases[e][token] ELSE token
  BY SameText DEF Abstract!Context
<1>2. c.country \in Seq(Byte)
  BY DEF Call
<1>3. token \in Seq(Byte)
  BY <1>2, TextTyped
<1>4. \A code \in DOMAIN CountryAliases[e] : CountryAliases[e][code] \in Seq(Byte)
  BY AcceptedBundle DEF TablesAccepted
<1> HIDE DEF token
<1> QED BY <1>1, <1>3, <1>4, SameText DEF Abstract!Malformed

(* What dispatch decides depends on the dispatcher, the value behind the   *)
(* pre-canonicalizer and the context, and on nothing else of a call.       *)
LEMMA DispatchIrrelevant ==
  ASSUME NEW a, NEW b,
         Abstract!DispatcherFor(a) = Abstract!DispatcherFor(b),
         Abstract!PreCanonical(a) = Abstract!PreCanonical(b),
         Abstract!Context(a) = Abstract!Context(b)
  PROVE  /\ Abstract!Malformed(a) <=> Abstract!Malformed(b)
         /\ Abstract!Outcome(a) = Abstract!Outcome(b)
<1>1. Abstract!Candidate(a) = Abstract!Candidate(b)
  BY DEF Abstract!Candidate
<1>2. /\ Abstract!ByCountry(a) = Abstract!ByCountry(b)
      /\ Abstract!ByPrefix(a) = Abstract!ByPrefix(b)
      /\ Abstract!Global(a) = Abstract!Global(b)
  BY <1>1 DEF Abstract!ByCountry, Abstract!ByPrefix, Abstract!Global
<1>3. /\ Abstract!Malformed(a) <=> Abstract!Malformed(b)
      /\ Abstract!Unserved(a) <=> Abstract!Unserved(b)
      /\ Abstract!Contradicts(a) <=> Abstract!Contradicts(b)
      /\ Abstract!Eligible(a) = Abstract!Eligible(b)
  BY <1>1, <1>2
     DEF Abstract!Malformed, Abstract!Unserved, Abstract!Contradicts, Abstract!Eligible
<1> QED BY <1>3 DEF Abstract!Outcome

LEMMA ResubmittedFields ==
  ASSUME NEW c \in Call, NEW r
  PROVE  /\ Resubmitted(c, r).kind = r.kind /\ Resubmitted(c, r).value = r.canonical
         /\ Resubmitted(c, r).country = r.country
         /\ Resubmitted(c, r).profile = c.profile /\ Resubmitted(c, r).mode = c.mode
BY DEF Resubmitted, Call

(* A failure says the same of two calls under one profile and entry point.  *)
LEMMA FailureStays ==
  ASSUME NEW a, NEW b, a.profile = b.profile, a.mode = b.mode,
         NEW kind, NEW value, NEW at, NEW step
  PROVE  Abstract!Failure(a, kind, value, at, step) = Abstract!Failure(b, kind, value, at, step)
BY DEF Abstract!Failure

LEMMA FailureFields ==
  ASSUME NEW c, NEW kind, NEW value, NEW at, NEW step
  PROVE  /\ Abstract!Failure(c, kind, value, at, step).kind = kind
         /\ Abstract!Failure(c, kind, value, at, step).canonical = value
         /\ Abstract!Failure(c, kind, value, at, step).country = at
BY DEF Abstract!Failure

(* A call no dispatcher resolves reports its own kind, value and country.   *)
LEMMA UnresolvedStays ==
  ASSUME NEW c \in Call, KnownProfile(c), ~Abstract!Resolved(c), NEW r,
         r = Abstract!ReportOf(c)
  PROVE  Abstract!ReportOf(Resubmitted(c, r)) = r
<1> DEFINE b == Resubmitted(c, r)
           why == StepOf("unsupported", Abstract!WhyUnresolved(c))
<1>1. r = Abstract!Failure(c, Abstract!Token(c), c.value, c.country, why)
  BY SameSteps DEF Abstract!ReportOf, KnownProfile
<1> HIDE DEF b, why
<1>2. r.kind = Abstract!Token(c) /\ r.canonical = c.value /\ r.country = c.country
  BY <1>1, FailureFields
<1>3. /\ b.kind = Abstract!Token(c) /\ b.value = c.value /\ b.country = c.country
      /\ b.profile = c.profile /\ b.mode = c.mode
  BY <1>2, ResubmittedFields DEF b
<1>4. c.kind \in Seq(Byte)
  BY DEF Call
<1>5. Abstract!Token(b) = Abstract!Token(c)
  <2>1. /\ Abstract!Token(c) = LowerASCII(TrimASCII(c.kind))
        /\ Abstract!Token(b) = LowerASCII(TrimASCII(b.kind))
    BY SameText DEF Abstract!Token
  <2> QED BY <1>3, <1>4, <2>1, KindSettles
<1>6. ~Abstract!Resolved(b) /\ Abstract!WhyUnresolved(b) = Abstract!WhyUnresolved(c)
  BY <1>3, <1>5 DEF Abstract!Resolved, Abstract!WhyUnresolved
<1>7. Abstract!ReportOf(b) =
        Abstract!Failure(b, Abstract!Token(c), c.value, c.country, why)
  BY <1>3, <1>5, <1>6, SameSteps DEF Abstract!ReportOf, KnownProfile, why
<1> QED BY <1>1, <1>3, <1>7, FailureStays DEF b

(* A call that selects no definition reports the value and the context it   *)
(* was dispatched by, which dispatch again as before.                       *)
LEMMA UndecidedStays ==
  ASSUME NEW c \in Call, KnownProfile(c), Abstract!Resolved(c),
         Abstract!Outcome(c).status # "valid", NEW r, r = Abstract!ReportOf(c),
         Settles(Abstract!DispatcherFor(c), Seq(Byte)), Len(r.canonical) <= MaxInput
  PROVE  Abstract!ReportOf(Resubmitted(c, r)) = r
<1> DEFINE b == Resubmitted(c, r)
           e == Abstract!DispatcherFor(c)
           pre == Abstract!PreCanonical(c)
           at == IF Abstract!Malformed(c) THEN c.country ELSE Abstract!Context(c)
<1>0. e \in Dispatchers /\ c.value \in Seq(Byte) /\ ValidString(c.value) /\ c.country \in Seq(Byte)
  BY SameText DEF Call, Abstract!Resolved, Abstract!DispatcherFor
<1>1. r = Abstract!Failure(c, KindOf[e], pre, at, Abstract!Outcome(c))
  BY SameSteps DEF Abstract!ReportOf, KnownProfile
<1> HIDE DEF b, at
<1>2. r.kind = KindOf[e] /\ r.canonical = pre /\ r.country = at
  BY <1>1, FailureFields
<1>3. /\ b.kind = KindOf[e] /\ b.value = pre /\ b.country = at
      /\ b.profile = c.profile /\ b.mode = c.mode
  BY <1>2, ResubmittedFields DEF b
<1>4. Abstract!DispatcherFor(b) = e /\ Abstract!Token(b) \in Abstract!Tokens(e)
  BY <1>0, <1>3, KindResolves
<1>5. pre = PreCanonicalized(e, c.value)
  BY DEF Abstract!PreCanonical
<1>6. ValidString(pre) /\ PreCanonicalized(e, pre) = pre
  BY <1>0, <1>5 DEF Settles
<1>7. Abstract!Resolved(b)
  BY <1>0, <1>2, <1>3, <1>4, <1>6, SameText DEF Abstract!Resolved
<1>8. Abstract!PreCanonical(b) = pre
  BY <1>3, <1>4, <1>6 DEF Abstract!PreCanonical
<1>9. Abstract!Context(b) = Abstract!Context(c)
  <2>1. CASE Abstract!Malformed(c)
    <3>1. b.country = c.country
      BY <1>3, <2>1 DEF at
    <3> QED BY <1>4, <3>1 DEF Abstract!Context
  <2>2. CASE ~Abstract!Malformed(c)
    <3>1. b.country = Abstract!Context(c)
      BY <1>3, <2>2 DEF at
    <3> QED BY <1>0, <1>4, <2>2, <3>1, ContextIsCountry, CountryIsContext DEF Settles
  <2> QED BY <2>1, <2>2
<1>10. /\ Abstract!Malformed(b) <=> Abstract!Malformed(c)
       /\ Abstract!Outcome(b) = Abstract!Outcome(c)
  BY <1>4, <1>8, <1>9, DispatchIrrelevant
<1>11. (IF Abstract!Malformed(b) THEN b.country ELSE Abstract!Context(b)) = at
  BY <1>3, <1>9, <1>10 DEF at
<1>12. Abstract!ReportOf(b) = Abstract!Failure(b, KindOf[e], pre, at, Abstract!Outcome(c))
  BY <1>3, <1>4, <1>7, <1>8, <1>10, <1>11, SameSteps DEF Abstract!ReportOf, KnownProfile
<1> QED BY <1>1, <1>3, <1>12, FailureStays DEF b

(* The prefix of a value that selected a target names no other.            *)
LEMMA PrefixAgrees ==
  ASSUME NEW c, NEW e \in Dispatchers, Abstract!DispatcherFor(c) = e,
         Abstract!PreCanonical(c) \in Seq(Byte),
         ~Abstract!Contradicts(c), NEW t \in Abstract!Eligible(c)
  PROVE  t \in Targets[e] /\ PrefixTarget(e, Abstract!PreCanonical(c)) \in { t.def, NoDefinition }
<1> DEFINE v == Abstract!PreCanonical(c)
<1>1. /\ Abstract!ByCountry(c) = CountryTargets(e, Abstract!Context(c))
      /\ Abstract!ByPrefix(c) = LongestPrefixTargets(e, v)
      /\ Abstract!Candidate(c) = Targets[e]
  BY SameLookups DEF Abstract!Candidate
<1> HIDE DEF v
<1>2. t \in Targets[e]
  BY <1>1 DEF Abstract!Eligible, CountryTargets, LongestPrefixTargets
<1>3. CASE LongestPrefixTargets(e, v) = {}
  BY <1>2, <1>3, PrefixTargetFound DEF v
<1>4. CASE LongestPrefixTargets(e, v) # {}
  <2>1. t \in LongestPrefixTargets(e, v)
    BY <1>1, <1>4 DEF Abstract!Eligible, Abstract!Contradicts
  <2>2. v \in Seq(Byte)
    BY DEF v
  <2>3. PrefixTarget(e, v) = t.def
    BY <2>1, <2>2, PrefixTargetFound
  <2> QED BY <1>2, <2>3 DEF v
<1> QED BY <1>3, <1>4

(* A value that names no other target, submitted under the country of a     *)
(* target (or to one without countries), selects it.                       *)
LEMMA TargetStays ==
  ASSUME NEW c, NEW e \in Dispatchers, Abstract!DispatcherFor(c) = e,
         Abstract!PreCanonical(c) \in Seq(Byte), NEW t \in Targets[e],
         PrefixTarget(e, Abstract!PreCanonical(c)) \in { t.def, NoDefinition },
         ~Abstract!Malformed(c), t.country # <<>> => Abstract!Context(c) = t.country
  PROVE  Abstract!Eligible(c) = {t} /\ Abstract!Outcome(c) = StepOf("valid", "ok")
<1> DEFINE v == Abstract!PreCanonical(c)
<1>1. /\ Abstract!ByCountry(c) = CountryTargets(e, Abstract!Context(c))
      /\ Abstract!ByPrefix(c) = LongestPrefixTargets(e, v)
      /\ Abstract!Global(c) = GlobalTargets(e)
      /\ Abstract!Candidate(c) = Targets[e]
  BY SameLookups DEF Abstract!Candidate
<1>2. v \in Seq(Byte) /\ PrefixTarget(e, v) \in { t.def, NoDefinition }
  OBVIOUS
<1> HIDE DEF v
<1>3. Abstract!ByPrefix(c) \subseteq {t}
  <2>1. ASSUME NEW u \in LongestPrefixTargets(e, v) PROVE u = t
    <3>1. PrefixTarget(e, v) = u.def /\ u \in Targets[e]
      BY <1>2, <2>1, PrefixTargetFound DEF LongestPrefixTargets
    <3>2. u.def # NoDefinition
      BY <3>1, BundleTyped DEF Target
    <3>3. u.def = t.def
      BY <1>2, <3>1, <3>2
    <3> QED BY <3>1, <3>3, TargetsDisjoint
  <2> QED BY <1>1, <2>1
<1>4. CASE t.country # <<>>
  <2>1. t \in CountryTargets(e, Abstract!Context(c))
    BY <1>4 DEF CountryTargets
  <2>2. Abstract!ByCountry(c) = {t}
    BY <1>1, <2>1, CountryTargetFound
  <2>3. Abstract!Eligible(c) = {t} /\ ~Abstract!Contradicts(c) /\ ~Abstract!Unserved(c)
    BY <1>3, <2>2 DEF Abstract!Eligible, Abstract!Contradicts, Abstract!Unserved
  <2> QED BY <2>3, SameSteps DEF Abstract!Outcome
<1>5. CASE t.country = <<>>
  <2>1. t \in GlobalTargets(e)
    BY <1>5 DEF GlobalTargets
  <2>2. Targets[e] = {t} /\ Abstract!Global(c) = {t}
    BY <1>1, <2>1, GlobalTargetFound
  <2>3. Abstract!ByCountry(c) = {}
    BY <1>1, <1>5, <2>2 DEF CountryTargets
  <2>4. t.accepted = {}
    BY <1>5, AcceptedBundle DEF TablesAccepted
  <2>5. Abstract!ByPrefix(c) = {}
    BY <1>1, <2>2, <2>4 DEF LongestPrefixTargets
  <2>6. Abstract!Eligible(c) = {t} /\ ~Abstract!Contradicts(c) /\ ~Abstract!Unserved(c)
    BY <1>1, <1>5, <2>2, <2>3, <2>5
       DEF Abstract!Eligible, Abstract!Contradicts, Abstract!Unserved
  <2> QED BY <2>6, SameSteps DEF Abstract!Outcome
<1> QED BY <1>4, <1>5

LEMMA SuccessFields ==
  ASSUME NEW c, NEW t
  PROVE  /\ Abstract!Success(c, t).kind = KindOf[Abstract!DispatcherFor(c)]
         /\ Abstract!Success(c, t).canonical =
              Canonicalized(t.def,
                            IF c.profile = "" THEN DefaultProfile[t.def] ELSE c.profile,
                            Abstract!PreCanonical(c))
         /\ Abstract!Success(c, t).country =
              IF t.country = <<>> THEN Abstract!Context(c) ELSE t.country
<1> DEFINE profile == IF c.profile = "" THEN DefaultProfile[t.def] ELSE c.profile
           x == Canonicalized(t.def, profile, Abstract!PreCanonical(c))
           at == IF t.country = <<>> THEN Abstract!Context(c) ELSE t.country
           format == FormatRule(t.def, profile, x)
           checksum ==
             IF format.status # "valid" THEN Abstract!NotRunAfter(format.status)
             ELSE IF c.mode = "validate_format"
               THEN Abstract!StepOf("not_run", "not_requested")
             ELSE ChecksumRule(t.def, profile, x)
           steps == IF c.mode = "canonicalize" THEN <<Abstract!StepOf("valid", "ok")>>
                    ELSE <<format, checksum>>
<1>1. Abstract!Success(c, t) =
        [kind |-> KindOf[Abstract!DispatcherFor(c)], canonical |-> x, country |-> at,
         profile |-> profile, steps |-> steps]
  BY DEF Abstract!Success
<1> HIDE DEF steps, x, at, profile
<1>2. /\ Abstract!Success(c, t).kind = KindOf[Abstract!DispatcherFor(c)]
      /\ Abstract!Success(c, t).canonical = x /\ Abstract!Success(c, t).country = at
  BY <1>1
<1> QED BY <1>2 DEF x, at, profile

(* A call that selected a target selects it again with the value and the    *)
(* country it was told, and is told the same.                              *)
LEMMA DecidedStays ==
  ASSUME RulesTyped, NEW c \in Call, KnownProfile(c), Abstract!Resolved(c),
         Abstract!Outcome(c).status = "valid", NEW r, r = Abstract!ReportOf(c),
         Settles(Abstract!DispatcherFor(c), Seq(Byte)), Len(r.canonical) <= MaxInput
  PROVE  Abstract!ReportOf(Resubmitted(c, r)) = r
<1> DEFINE b == Resubmitted(c, r)
           e == Abstract!DispatcherFor(c)
           pre == Abstract!PreCanonical(c)
           t == CHOOSE u \in Abstract!Eligible(c) : TRUE
           profile == IF c.profile = "" THEN DefaultProfile[t.def] ELSE c.profile
           x == Canonicalized(t.def, profile, pre)
           at == IF t.country = <<>> THEN Abstract!Context(c) ELSE t.country
<1>0. e \in Dispatchers /\ c.value \in Seq(Byte) /\ ValidString(c.value) /\ c.country \in Seq(Byte)
  BY SameText DEF Call, Abstract!Resolved, Abstract!DispatcherFor
<1>1. r = Abstract!Success(c, t)
  BY SameSteps DEF Abstract!ReportOf, KnownProfile
<1>2. r.kind = KindOf[e] /\ r.canonical = x /\ r.country = at
  <2> HIDE DEF t
  <2> QED BY <1>1, SuccessFields
<1> HIDE DEF b
<1>3. /\ b.kind = KindOf[e] /\ b.value = x /\ b.country = at
      /\ b.profile = c.profile /\ b.mode = c.mode
  BY <1>2, ResubmittedFields DEF b
<1>4. Abstract!DispatcherFor(b) = e /\ Abstract!Token(b) \in Abstract!Tokens(e)
  BY <1>0, <1>3, KindResolves
<1>5. /\ ~Abstract!Malformed(c) /\ ~Abstract!Unserved(c) /\ ~Abstract!Contradicts(c)
      /\ Abstract!Eligible(c) # {}
  <2> HIDE DEF t, at, x, profile, pre, e
  <2>1. \A status, reason : StepOf(status, reason).status = status
    BY DEF StepOf
  <2>2. CASE Abstract!Malformed(c) \/ Abstract!Unserved(c)
    <3>1. Abstract!Outcome(c) = StepOf("unsupported", "unsupported_country")
      BY <2>2, SameSteps DEF Abstract!Outcome
    <3> QED BY <2>1, <3>1
  <2>3. CASE ~(Abstract!Malformed(c) \/ Abstract!Unserved(c)) /\ Abstract!Contradicts(c)
    <3>1. Abstract!Eligible(c) # {}
      BY <2>3 DEF Abstract!Contradicts, Abstract!Eligible
    <3>2. Abstract!Outcome(c) = StepOf("invalid", "country_mismatch")
      BY <2>3, <3>1, SameSteps DEF Abstract!Outcome
    <3> QED BY <2>1, <3>2
  <2>4. CASE /\ ~(Abstract!Malformed(c) \/ Abstract!Unserved(c)) /\ ~Abstract!Contradicts(c)
             /\ Abstract!Eligible(c) = {}
    <3>1. Abstract!Outcome(c) = StepOf("unsupported", "missing_country_code")
      BY <2>4, SameSteps DEF Abstract!Outcome
    <3> QED BY <2>1, <3>1
  <2> QED BY <2>2, <2>3, <2>4
<1>6. t \in Abstract!Eligible(c)
  BY <1>5
<1>7. pre = PreCanonicalized(e, c.value) /\ pre \in Seq(Byte)
  BY <1>0 DEF Abstract!PreCanonical, RulesTyped
<1> HIDE DEF t, at, x, profile, pre, e
<1>8. t \in Targets[e] /\ PrefixTarget(e, pre) \in { t.def, NoDefinition }
  BY <1>0, <1>5, <1>6, <1>7, PrefixAgrees DEF e, pre
<1>9. t.def \in Definitions /\ profile \in Profiles /\ x \in Seq(Byte)
  <2>1. t.def \in Definitions
    BY <1>0, <1>8, BundleTyped DEF Target
  <2>2. profile \in Profiles
    BY <2>1, BundleTyped DEF KnownProfile, profile
  <2> QED BY <1>7, <2>1, <2>2 DEF RulesTyped, x
<1>10. /\ ValidString(x) /\ PreCanonicalized(e, x) = x /\ Canonicalized(t.def, profile, x) = x
       /\ PrefixTarget(e, x) \in { t.def, NoDefinition }
  <2>1. Settles(e, Seq(Byte))
    BY DEF e
  <2> QED BY <1>0, <1>7, <1>8, <1>9, <2>1 DEF Settles, x
<1>11. Abstract!Resolved(b)
  BY <1>0, <1>2, <1>3, <1>4, <1>10, SameText DEF Abstract!Resolved
<1>12. Abstract!PreCanonical(b) = x
  BY <1>3, <1>4, <1>10 DEF Abstract!PreCanonical
<1>13. Abstract!Context(b) = at /\ ~Abstract!Malformed(b)
  <2>1. CASE t.country = <<>>
    <3>1. at = Abstract!Context(c)
      BY <2>1 DEF at
    <3>2. Settles(e, Seq(Byte)) /\ Abstract!DispatcherFor(c) = e
      BY DEF e
    <3>3. Abstract!Context(b) = at
      BY <1>0, <1>3, <1>4, <1>5, <3>1, <3>2, ContextIsCountry, CountryIsContext DEF Settles
    <3> QED BY <1>5, <3>1, <3>3 DEF Abstract!Malformed
  <2>2. CASE t.country # <<>>
    <3>1. at = t.country /\ IsCountryToken(at) /\ at \in Seq(Byte)
      BY <1>0, <1>8, <2>2, AcceptedBundle, BundleTyped DEF TablesAccepted, at, Target
    <3>2. at \notin DOMAIN CountryAliases[e]
      BY <1>0, <1>8, <3>1, AcceptedBundle DEF TablesAccepted
    <3>3. Abstract!Context(b) = at
      BY <1>0, <1>3, <1>4, <3>1, <3>2, CountryIsContext
    <3> QED BY <3>1, <3>3, SameText DEF Abstract!Malformed
  <2> QED BY <2>1, <2>2
<1>14. Abstract!Eligible(b) = {t} /\ Abstract!Outcome(b) = StepOf("valid", "ok")
  <2>1. t.country # <<>> => at = t.country
    BY DEF at
  <2> QED BY <1>0, <1>4, <1>8, <1>9, <1>10, <1>12, <1>13, <2>1, TargetStays
<1>15. Abstract!ReportOf(b) = Abstract!Success(b, t)
  <2>1. (CHOOSE u \in Abstract!Eligible(b) : TRUE) = t
    BY <1>14
  <2>2. StepOf("valid", "ok").status = "valid"
    BY DEF StepOf
  <2> QED BY <1>3, <1>11, <1>14, <2>1, <2>2, SameSteps DEF Abstract!ReportOf, KnownProfile
<1>16. Abstract!Success(b, t) = Abstract!Success(c, t)
  <2>1. /\ KindOf[Abstract!DispatcherFor(b)] = KindOf[Abstract!DispatcherFor(c)]
        /\ b.mode = c.mode
        /\ (IF b.profile = "" THEN DefaultProfile[t.def] ELSE b.profile) = profile
        /\ (IF c.profile = "" THEN DefaultProfile[t.def] ELSE c.profile) = profile
        /\ (IF t.country = <<>> THEN Abstract!Context(b) ELSE t.country) = at
        /\ (IF t.country = <<>> THEN Abstract!Context(c) ELSE t.country) = at
        /\ Canonicalized(t.def, profile, Abstract!PreCanonical(b)) = x
        /\ Canonicalized(t.def, profile, Abstract!PreCanonical(c)) = x
    BY <1>3, <1>4, <1>10, <1>12, <1>13 DEF e, at, profile, x, pre
  <2> QED BY <2>1 DEF Abstract!Success
<1> QED BY <1>1, <1>15, <1>16 DEF b, t

(* The answer to what a caller was told is what it was told.               *)
LEMMA ReportStays ==
  ASSUME RulesTyped, RulesSettle(Seq(Byte)), NEW c \in Call, KnownProfile(c), NEW r,
         r = Abstract!ReportOf(c), Len(r.canonical) <= MaxInput
  PROVE  Abstract!ReportOf(Resubmitted(c, r)) = r
<1>1. ASSUME Abstract!Resolved(c) PROVE Settles(Abstract!DispatcherFor(c), Seq(Byte))
  <2>1. Abstract!DispatcherFor(c) \in Dispatchers
    BY <1>1 DEF Abstract!Resolved, Abstract!DispatcherFor
  <2> QED BY <2>1 DEF RulesSettle
<1>2. CASE ~Abstract!Resolved(c)
  BY <1>2, UnresolvedStays
<1>3. CASE Abstract!Resolved(c) /\ Abstract!Outcome(c).status # "valid"
  BY <1>1, <1>3, UndecidedStays
<1>4. CASE Abstract!Resolved(c) /\ Abstract!Outcome(c).status = "valid"
  BY <1>1, <1>4, DecidedStays
<1> QED BY <1>2, <1>3, <1>4

(* A caller that submits the kind, the canonical value and the country it   *)
(* was told is told the same again, unless the value has outgrown the byte  *)
(* limit: whatever the bundle's tables, if its canonicalizers leave alone  *)
(* what they wrote.                                                        *)
THEOREM ResubmissionsStay ==
  RulesTyped /\ RulesSettle(Seq(Byte)) => (Spec => []ResubmissionStable)
<1>1. ASSUME RulesTyped, RulesSettle(Seq(Byte)), IInv PROVE ResubmissionStable
  <2> SUFFICES ASSUME Answered, prior.resubmits, ~(Len(call.value) > MaxInput)
               PROVE  report = prior.report
    BY DEF ResubmissionStable
  <2>1. call \in Call /\ report = Abstract!ReportOf(call)
    BY <1>1 DEF IInv, TypeOK, AnsweredRight, Answered
  <2>2. prior # NoPrior
    BY DEF NoPrior
  <2>3. /\ prior.call \in Call /\ prior.report = Abstract!ReportOf(prior.call)
        /\ KnownProfile(prior.call)
        /\ call = Resubmitted(prior.call, prior.report)
    BY <1>1, <2>2 DEF IInv, FollowsUp
  <2>4. call.value = prior.report.canonical
    BY <2>3, ResubmittedFields
  <2>5. Len(prior.report.canonical) <= MaxInput
    <3>1. Len(call.value) \in Nat /\ MaxInput \in Nat
      BY <2>1, BundleTyped DEF Call
    <3> QED BY <2>4, <3>1
  <2> QED BY <1>1, <2>1, <2>3, <2>5, ReportStays
<1> SUFFICES ASSUME RulesTyped, RulesSettle(Seq(Byte)) PROVE Spec => []ResubmissionStable
  OBVIOUS
<1>2. Spec => []IInv
  BY StagesInvariance
<1>3. IInv => ResubmissionStable
  BY <1>1
<1> QED BY <1>2, <1>3, PTL
=============================================================================
