----------------------------- MODULE Evaluation -----------------------------
(***************************************************************************)
(* What one call of the engine promises, said without stages, tables or    *)
(* early returns: an answer is a function of the call.  The conditions are *)
(* the ones the identity table, the selection order and the pipeline talk  *)
(* about, each stated on the call itself.                                  *)
(***************************************************************************)
EXTENDS Dispatch

CONSTANTS Calls, NoCall, NoReport, ErrUnknownProfile

VARIABLES call, report

vars == <<call, report>>

(* The identity before a dispatcher resolves.                              *)
Token(c) == LowerASCII(TrimASCII(c.kind))

Resolved(c) ==
  /\ Len(c.value) <= MaxInput
  /\ ValidString(c.value)
  /\ \E d \in Dispatchers : Token(c) \in Tokens(d)

WhyUnresolved(c) ==
  IF Len(c.value) > MaxInput THEN "input_too_long"
  ELSE IF ~ValidString(c.value) THEN "invalid_encoding"
  ELSE "unsupported_kind"

DispatcherFor(c) == CHOOSE d \in Dispatchers : Token(c) \in Tokens(d)

PreCanonical(c) == PreCanonicalized(DispatcherFor(c), c.value)

(* The country context: the token the caller gave, normalized.             *)
Context(c) ==
  LET token == UpperASCII(TrimASCII(c.country))
      aliases == CountryAliases[DispatcherFor(c)]
  IN  IF token \in DOMAIN aliases THEN aliases[token] ELSE token

Candidate(c) == Targets[DispatcherFor(c)]

ByCountry(c) == { t \in Candidate(c) : t.country # <<>> /\ t.country = Context(c) }

(* The target owning the longest accepted prefix of the value.             *)
ByPrefix(c) ==
  { t \in Candidate(c) :
      \E p \in t.accepted :
        /\ HasPrefix(PreCanonical(c), p)
        /\ \A u \in Candidate(c) : \A q \in u.accepted :
             HasPrefix(PreCanonical(c), q) => Len(q) <= Len(p) }

Global(c) == { t \in Candidate(c) : t.country = <<>> }

Malformed(c) == Context(c) # <<>> /\ ~IsCountryToken(Context(c))

Unserved(c) == Context(c) # <<>> /\ ByCountry(c) = {} /\ Global(c) = {}

Contradicts(c) ==
  ByCountry(c) # {} /\ ByPrefix(c) # {} /\ ByCountry(c) # ByPrefix(c)

Eligible(c) ==
  CASE ByCountry(c) # {} -> ByCountry(c)
    [] ByCountry(c) = {} /\ ByPrefix(c) # {} -> ByPrefix(c)
    [] OTHER -> { t \in Candidate(c) : t.country = <<>> \/ t.unprefixed }

(* Why no definition is selected; "ok" when one is.                        *)
Outcome(c) ==
  CASE Malformed(c) \/ Unserved(c) -> StepOf("unsupported", "unsupported_country")
    [] ~(Malformed(c) \/ Unserved(c)) /\ Contradicts(c) ->
         StepOf("invalid", "country_mismatch")
    [] ~(Malformed(c) \/ Unserved(c)) /\ Eligible(c) = {} ->
         StepOf("unsupported", "missing_country_code")
    [] OTHER -> StepOf("valid", "ok")

(* A call that selects no definition answers with its dispatch failure.    *)
Failure(c, kind, value, country, step) ==
  [kind |-> kind, canonical |-> value, country |-> country,
   profile |-> IF c.profile = "" THEN "compatible" ELSE c.profile,
   steps |-> IF c.mode = "canonicalize" THEN <<step>>
             ELSE <<step, NotRunAfter(step.status)>>]

Success(c, target) ==
  LET profile == IF c.profile = "" THEN DefaultProfile[target.def] ELSE c.profile
      canonical == Canonicalized(target.def, profile, PreCanonical(c))
      format == FormatRule(target.def, profile, canonical)
      checksum ==
        IF format.status # "valid" THEN NotRunAfter(format.status)
        ELSE IF c.mode = "validate_format" THEN StepOf("not_run", "not_requested")
        ELSE ChecksumRule(target.def, profile, canonical)
  IN  [kind |-> KindOf[DispatcherFor(c)], canonical |-> canonical,
       country |-> IF target.country = <<>> THEN Context(c) ELSE target.country,
       profile |-> profile,
       steps |-> IF c.mode = "canonicalize" THEN <<StepOf("valid", "ok")>>
                 ELSE <<format, checksum>>]

ReportOf(c) ==
  IF c.profile \notin Profiles \cup {""} THEN ErrUnknownProfile
  ELSE IF ~Resolved(c) THEN
         Failure(c, Token(c), c.value, c.country,
                 StepOf("unsupported", WhyUnresolved(c)))
  ELSE IF Outcome(c).status # "valid" THEN
         Failure(c, KindOf[DispatcherFor(c)], PreCanonical(c),
                 IF Malformed(c) THEN c.country ELSE Context(c), Outcome(c))
  ELSE Success(c, CHOOSE t \in Eligible(c) : TRUE)

Init == call = NoCall /\ report = NoReport

Ask ==
  /\ call = NoCall \/ report # NoReport
  /\ call' \in Calls
  /\ report' = NoReport

Respond ==
  /\ call # NoCall /\ report = NoReport
  /\ report' = ReportOf(call)
  /\ call' = call

Leave ==
  /\ report # NoReport
  /\ call' = NoCall /\ report' = NoReport

Next == Ask \/ Respond \/ Leave

Spec == Init /\ [][Next]_vars
=============================================================================
