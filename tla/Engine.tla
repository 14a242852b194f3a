------------------------------- MODULE Engine -------------------------------
(***************************************************************************)
(* The public entry points of entid.go and the evaluation of engine.go:    *)
(* one call after another, each a sequence of stages with early returns.   *)
(* A stage is an action; pc is the stage the call is at.                   *)
(*                                                                         *)
(* The callers are the environment.  A caller may ask anything, and may    *)
(* follow a call up: ask the same of another entry point, or submit the    *)
(* canonical value it was given.                                           *)
(***************************************************************************)
EXTENDS Dispatch

CONSTANTS
  Kinds, Values, Countries,   (* what callers pass, as byte sequences      *)
  NoCall, NoReport,
  ErrUnknownProfile

Modes == { "canonicalize", "validate_format", "validate" }

(* An absent profile is the empty string; all the unknown ones are one.    *)
AskedProfiles == Profiles \cup { "", "bogus" }

Call == [kind : Seq(Byte), value : Seq(Byte), country : Seq(Byte),
         profile : AskedProfiles, mode : Modes]

Report == [kind : Seq(Byte), canonical : Seq(Byte), country : Seq(Byte),
           profile : Profiles, steps : Seq(StepResult)]

(* Callers pass bytes; no call and no result are neither calls nor results. *)
ASSUME CallersAssumption ==
  /\ Kinds \cup Values \cup Countries \subseteq Seq(Byte)
  /\ NoCall \notin Call
  /\ NoReport \notin Report \cup { ErrUnknownProfile }
  /\ ErrUnknownProfile \notin Report

VARIABLES
  call,     (* the call in progress, or the last one                       *)
  pc,
  d,        (* the dispatcher it resolved                                  *)
  country,  (* the country it routes by                                    *)
  def,      (* the definition it selected                                  *)
  out,      (* the identity it will report                                 *)
  w,        (* the value in its workspace                                  *)
  trace,    (* the rules of the bundle it ran, with their profile          *)
  report,   (* its result                                                  *)
  prior     (* the call this one follows up, with its result               *)

vars == <<call, pc, d, country, def, out, w, trace, report, prior>>

NoPrior == [call |-> NoCall, report |-> NoReport, resubmits |-> FALSE]

Blank == [kind |-> <<>>, canonical |-> <<>>, country |-> <<>>,
          profile |-> "compatible"]

Init ==
  /\ call = NoCall /\ pc = "idle"
  /\ d = NoDispatcher /\ country = <<>> /\ def = NoDefinition
  /\ out = Blank /\ w = <<>> /\ trace = <<>>
  /\ report = NoReport /\ prior = NoPrior

-----------------------------------------------------------------------------
(***************************************************************************)
(* Callers.                                                                *)
(***************************************************************************)

Enter(c, before) ==
  /\ pc = "idle"
  /\ call' = c
  /\ prior' = before
  /\ pc' = "check"
  /\ d' = NoDispatcher /\ country' = <<>> /\ def' = NoDefinition
  /\ out' = Blank /\ w' = <<>> /\ trace' = <<>>
  /\ report' = NoReport

Ask ==
  /\ call = NoCall
  /\ \E c \in [kind : Kinds, value : Values, country : Countries,
               profile : AskedProfiles, mode : Modes] :
       Enter(c, NoPrior)

(* The caller takes the result away: nothing of the call is kept.          *)
Leave ==
  /\ pc = "idle" /\ call # NoCall
  /\ call' = NoCall /\ pc' = "idle"
  /\ d' = NoDispatcher /\ country' = <<>> /\ def' = NoDefinition
  /\ out' = Blank /\ w' = <<>> /\ trace' = <<>>
  /\ report' = NoReport /\ prior' = NoPrior

Fresh == report \notin { NoReport, ErrUnknownProfile } /\ prior = NoPrior

This(resubmits) == [call |-> call, report |-> report, resubmits |-> resubmits]

(* The caller asks the same of another entry point.                        *)
AskAgain ==
  /\ Fresh
  /\ \E md \in Modes \ { call.mode } : Enter([call EXCEPT !.mode = md], This(FALSE))

(* The caller submits what it was told.                                    *)
Resubmit ==
  /\ Fresh
  /\ Enter([call EXCEPT !.kind = report.kind, !.value = report.canonical,
                        !.country = report.country], This(TRUE))

-----------------------------------------------------------------------------
(***************************************************************************)
(* Evaluation.                                                             *)
(***************************************************************************)

Answer(result) ==
  /\ report' = result
  /\ pc' = "idle"

ReportWith(identity, steps) ==
  [kind |-> identity.kind, canonical |-> identity.canonical,
   country |-> identity.country, profile |-> identity.profile, steps |-> steps]

(* Mutant: canonicalize reports every dispatch failure as unsupported.     *)
StoppedUnsupported(identity, status, reason) ==
  ReportWith(identity,
    IF call.mode = "canonicalize" THEN <<StepOf("unsupported", reason)>>
    ELSE <<StepOf(status, reason), NotRunAfter(status)>>)

(* A routing that stopped decides the format step.                         *)
Stopped(identity, status, reason) ==
  ReportWith(identity,
    IF call.mode = "canonicalize" THEN <<StepOf(status, reason)>>
    ELSE <<StepOf(status, reason), NotRunAfter(status)>>)

(* Input.check: the frozen set of profiles, and the absence of one.        *)
CheckProfile ==
  /\ pc = "check"
  /\ IF call.profile \in Profiles \cup {""}
     THEN pc' = "bound" /\ report' = report
     ELSE Answer(ErrUnknownProfile)
  /\ UNCHANGED <<call, d, country, def, out, w, trace, prior>>

DispatchProfile == IF call.profile = "" THEN "compatible" ELSE call.profile

KindToken == LowerASCII(TrimASCII(call.kind))

(* The identity reported before a dispatcher resolves: the raw one.        *)
RawIdentity ==
  [kind |-> KindToken, canonical |-> call.value, country |-> call.country,
   profile |-> DispatchProfile]

RefuseTooLong ==
  /\ pc = "bound"
  /\ Len(call.value) > MaxInput
  /\ Answer(Stopped(RawIdentity, "unsupported", "input_too_long"))
  /\ UNCHANGED <<call, d, country, def, out, w, trace, prior>>

StartRouting ==
  /\ pc = "bound"
  /\ Len(call.value) <= MaxInput
  /\ w' = call.value
  /\ out' = RawIdentity
  /\ pc' = "encoding"
  /\ UNCHANGED <<call, d, country, def, trace, report, prior>>

RefuseEncoding ==
  /\ pc = "encoding"
  /\ ~ValidString(call.value)
  /\ Answer(Stopped(out, "unsupported", "invalid_encoding"))
  /\ UNCHANGED <<call, d, country, def, out, w, trace, prior>>

RefuseKind ==
  /\ pc = "encoding"
  /\ ValidString(call.value)
  /\ DispatcherOf(out.kind) = NoDispatcher
  /\ Answer(Stopped(out, "unsupported", "unsupported_kind"))
  /\ UNCHANGED <<call, d, country, def, out, w, trace, prior>>

(* The pre-canonicalizer runs as soon as the dispatcher resolves.          *)
ResolveKind ==
  /\ pc = "encoding"
  /\ ValidString(call.value)
  /\ d' = DispatcherOf(out.kind)
  /\ d' # NoDispatcher
  /\ out' = [out EXCEPT !.kind = KindOf[d']]
  /\ w' = PreCanonicalized(d', w)
  /\ trace' = Append(trace, [rule |-> "preCanonicalize", profile |-> DispatchProfile])
  /\ pc' = "country"
  /\ UNCHANGED <<call, country, def, report, prior>>

(* stop reports the value as the workspace holds it.                       *)
Stop(identity, status, reason) ==
  /\ out' = [identity EXCEPT !.canonical = w]
  /\ Answer(Stopped(out', status, reason))

CountryToken == UpperASCII(TrimASCII(call.country))

RefuseCountryToken ==
  /\ pc = "country"
  /\ CountryToken # <<>>
  /\ ~IsCountryToken(CountryToken)
  /\ Stop(out, "unsupported", "unsupported_country")
  /\ UNCHANGED <<call, d, country, def, w, trace, prior>>

(* The country the call routes by; empty without one.                      *)
NormalCountry ==
  IF CountryToken = <<>> THEN <<>> ELSE CountryAlias(d, CountryToken)

WithCountry == [out EXCEPT !.country = NormalCountry]

HasTarget(found) == found # NoDefinition

Unserved ==
  /\ NormalCountry # <<>>
  /\ ~HasTarget(CountryTarget(d, NormalCountry))
  /\ ~HasTarget(GlobalTarget(d))

NormalizeCountry ==
  /\ pc = "country"
  /\ CountryToken = <<>> \/ IsCountryToken(CountryToken)
  /\ country' = NormalCountry
  /\ IF Unserved THEN Stop(WithCountry, "unsupported", "unsupported_country")
     ELSE out' = WithCountry /\ pc' = "target" /\ report' = report
  /\ UNCHANGED <<call, d, def, w, trace, prior>>

(* Mutant: the prefix is looked up in the raw value.                       *)
RawCandidates ==
  <<CountryTarget(d, country), PrefixTarget(d, call.value), GlobalTarget(d),
    UnprefixedTarget(d)>>

(* The candidates, in the order the switch of routeUnder tries them.       *)
Candidates ==
  <<CountryTarget(d, country), PrefixTarget(d, w), GlobalTarget(d),
    UnprefixedTarget(d)>>

Mismatch ==
  /\ HasTarget(CountryTarget(d, country))
  /\ HasTarget(PrefixTarget(d, w))
  /\ CountryTarget(d, country) # PrefixTarget(d, w)

RefuseMismatch ==
  /\ pc = "target"
  /\ Mismatch
  /\ Stop(out, "invalid", "country_mismatch")
  /\ UNCHANGED <<call, d, country, def, w, trace, prior>>

RefuseMissingCountry ==
  /\ pc = "target"
  /\ \A k \in DOMAIN Candidates : ~HasTarget(Candidates[k])
  /\ Stop(out, "unsupported", "missing_country_code")
  /\ UNCHANGED <<call, d, country, def, w, trace, prior>>

SelectTarget ==
  /\ pc = "target"
  /\ ~Mismatch
  /\ \E k \in DOMAIN Candidates :
       /\ HasTarget(Candidates[k])
       /\ \A j \in 1 .. k - 1 : ~HasTarget(Candidates[j])
       /\ def' = Candidates[k]
  /\ pc' = "canonicalize"
  /\ UNCHANGED <<call, d, country, out, w, trace, report, prior>>

(* Mutant: the canonicalizer runs under the profile of dispatch.           *)
CanonicalizerProfile == DispatchProfile

(* routeUnder resolves the profile for the canonicalizer, and route again  *)
(* for everything after it.                                                *)
EffectiveProfile ==
  IF call.profile = "" THEN DefaultProfile[def] ELSE DispatchProfile

ResolvedProfile(dispatchProfile) ==
  IF call.profile = "" THEN DefaultProfile[def] ELSE dispatchProfile

RunCanonicalizer ==
  /\ pc = "canonicalize"
  /\ w' = Canonicalized(def, EffectiveProfile, w)
  /\ trace' = Append(trace, [rule |-> "canonicalize", profile |-> EffectiveProfile])
  /\ out' = [out EXCEPT
               !.canonical = w',
               !.country = IF DefinitionCountry(def) # <<>>
                           THEN DefinitionCountry(def) ELSE @,
               !.profile = ResolvedProfile(@)]
  /\ IF call.mode = "canonicalize"
     THEN Answer(ReportWith(out', <<StepOf("valid", "ok")>>))
     ELSE pc' = "format" /\ report' = report
  /\ UNCHANGED <<call, d, country, def, prior>>

Format == FormatRule(def, out.profile, out.canonical)

(* What follows a format step: nothing behind one that did not hold, no    *)
(* checksum when none was asked for.                                       *)
RunFormat ==
  /\ pc = "format"
  /\ trace' = Append(trace, [rule |-> "format", profile |-> out.profile])
  /\ CASE Format.status # "valid" ->
            Answer(ReportWith(out, <<Format, NotRunAfter(Format.status)>>))
       [] Format.status = "valid" /\ call.mode = "validate_format" ->
            Answer(ReportWith(out, <<Format, StepOf("not_run", "not_requested")>>))
       [] OTHER -> pc' = "checksum" /\ report' = report
  /\ UNCHANGED <<call, d, country, def, out, w, prior>>

RunChecksum ==
  /\ pc = "checksum"
  /\ trace' = Append(trace, [rule |-> "checksum", profile |-> out.profile])
  /\ Answer(ReportWith(out, <<Format, ChecksumRule(def, out.profile, out.canonical)>>))
  /\ UNCHANGED <<call, d, country, def, out, w, prior>>

Evaluate ==
  \/ CheckProfile \/ RefuseTooLong \/ StartRouting
  \/ RefuseEncoding \/ RefuseKind \/ ResolveKind
  \/ RefuseCountryToken \/ NormalizeCountry
  \/ RefuseMismatch \/ RefuseMissingCountry \/ SelectTarget
  \/ RunCanonicalizer \/ RunFormat \/ RunChecksum

Next == Ask \/ Leave \/ AskAgain \/ Resubmit \/ Evaluate

(* The engine holds no state between calls, and no call waits: deadlock    *)
(* freedom is all its progress.                                            *)
Spec == Init /\ [][Next]_vars

-----------------------------------------------------------------------------
Stages == { "idle", "check", "bound", "encoding", "country", "target",
            "canonicalize", "format", "checksum" }

Phases == <<"preCanonicalize", "canonicalize", "format", "checksum">>

TypeOK ==
  /\ call \in Call \cup { NoCall }
  /\ pc \in Stages
  /\ d \in Dispatchers \cup { NoDispatcher }
  /\ country \in Seq(Byte)
  /\ def \in Definitions \cup { NoDefinition }
  /\ out \in [kind : Seq(Byte), canonical : Seq(Byte), country : Seq(Byte),
              profile : Profiles]
  /\ w \in Seq(Byte)
  /\ trace \in Seq([rule : { Phases[k] : k \in DOMAIN Phases }, profile : Profiles])
  /\ report \in Report \cup { NoReport, ErrUnknownProfile }
  /\ prior \in [call : Call \cup { NoCall }, report : Report \cup { NoReport },
                resubmits : BOOLEAN]

Answered == pc = "idle" /\ report \notin { NoReport, ErrUnknownProfile }

(* Each canonicalization phase runs at most once and a checksum only behind*)
(* a format; and the profile has one owner: whatever the definition owns   *)
(* runs under one and the same profile, which is the one reported, although*)
(* routeUnder and route resolve it separately (ir.md 5.2).                 *)
PhasesOnce ==
  /\ TypeOK
  /\ IsPrefix([k \in DOMAIN trace |-> trace[k].rule], Phases)
  /\ Answered => \A k \in 2 .. Len(trace) : trace[k].profile = report.profile

Identity(r) == ReportWith(r, <<>>)

(* "The other entry points must agree with Validate on everything the      *)
(* pipeline decides before the checksum" (fuzz_test.go).                   *)
EntryPointsAgree ==
  Answered /\ prior # NoPrior /\ ~prior.resubmits =>
    /\ Identity(report) = Identity(prior.report)
    /\ \/ report.steps[1] = prior.report.steps[1]
       \/ /\ "canonicalize" \in { call.mode, prior.call.mode }
          /\ def # NoDefinition

(* Bundles whose canonicalizers leave alone what they and the pre-         *)
(* canonicalizer wrote and keep it with the target it was written for      *)
(* (fuzz_test.go states it of well formed input), and whose aliases lead to *)
(* no alias.  The loader demands neither.                                  *)
Settles(e, values) ==
  /\ \A code \in DOMAIN CountryAliases[e] :
       CountryAliases[e][code] \notin DOMAIN CountryAliases[e]
  /\ \A v \in { x \in values : ValidString(x) } :
       LET pre == PreCanonicalized(e, v) IN
       /\ ValidString(pre) /\ PreCanonicalized(e, pre) = pre
       /\ \A t \in Targets[e], profile \in Profiles :
            PrefixTarget(e, pre) \in { t.def, NoDefinition } =>
              LET canonical == Canonicalized(t.def, profile, pre) IN
              /\ ValidString(canonical)
              /\ PreCanonicalized(e, canonical) = canonical
              /\ Canonicalized(t.def, profile, canonical) = canonical
              /\ PrefixTarget(e, canonical) \in { t.def, NoDefinition }

RulesSettle(values) == \A e \in Dispatchers : Settles(e, values)

(* A caller that submits the kind, canonical value and country it was told *)
(* is told the same again, verdicts included: canonicalization is          *)
(* idempotent through routing.  Only the byte limit may refuse the value   *)
(* canonicalization has grown.                                             *)
ResubmissionStable ==
  Answered /\ prior.resubmits =>
    \/ report = prior.report
    \/ Len(call.value) > MaxInput

-----------------------------------------------------------------------------
(***************************************************************************)
(* The stages implement the one-step evaluation: a call is answered exactly*)
(* once, with the answer its own contents determine, whatever the engine   *)
(* was asked before.                                                       *)
(***************************************************************************)
Abstract == INSTANCE Evaluation WITH Calls <- Call

(* Every behaviour of the engine is one of the abstract evaluation         *)
(* (Engine.run, route, routeUnder).                                        *)
Implements == Abstract!Spec
=============================================================================
