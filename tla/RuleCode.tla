------------------------------ MODULE RuleCode ------------------------------
(***************************************************************************)
(* The execution of the Go functions the format and checksum rules are      *)
(* compiled to (internal/gen/emit_programs.go, expr.go), one statement at a *)
(* time, calls included.  An expression is read from the graph with the     *)
(* local variables in place of the nodes they name (module Expressions);    *)
(* module RuleMeaning is what it should come to.                            *)
(***************************************************************************)
EXTENDS RuleMeaning

VARIABLES
  entry,    \* the rule called from outside
  frames,   \* the functions running, the outermost first
  c,        \* ruleCtx, handed down unchanged
  result    \* what the last function to return returned, or NoResult

codeVars == <<entry, frames, c, result>>

NoResult == [status |-> "none", reason |-> "", key |-> ""]
(* A function running: its rule, its statements and the next of them.       *)
Frame(rule, subject) ==
  [rule |-> rule, code |-> Emitted(rule), subject |-> subject, pc |-> 1, local |-> NoLocal]

CodeInit ==
  /\ entry \in DOMAIN Program /\ c \in Contexts
  /\ frames = <<Frame(Program[entry], Value(c.value))>>
  /\ result = NoResult

Running == frames # <<>>
Top == frames[Len(frames)]
Rule == Top.rule
Statement == Top.code[Top.pc]
N == Rule.nodes[Statement.node]

(* country_code() is the absent view in a rule: no target is selected when  *)
(* a rule is emitted.                                                       *)
Expressions == {Rendered(Rule.nodes, c, Top.subject, Absent, Top.local)}

Continue(local) ==
  /\ frames' = [frames EXCEPT ![Len(frames)].pc = @ + 1, ![Len(frames)].local = local]
  /\ UNCHANGED <<entry, c>>

Assigned(v) == Top.local @@ (Statement.node :> v)

Return(r) == frames' = Front(frames) /\ result' = r /\ UNCHANGED <<entry, c>>

EmitLocal ==
  /\ Running /\ Statement.do = "local"
  /\ \E expr \in Expressions : Continue(Assigned(expr[Statement.node]))
  /\ UNCHANGED result

Call ==
  /\ result = NoResult
  /\ \E expr \in Expressions :
       frames' = Append(frames, Frame(Program[N.par.program_id], expr[N.in[1]]))
  /\ UNCHANGED <<entry, c, result>>

------------------------------------------------------------------------------
Require ==
  /\ Running /\ Statement.do = "assert" /\ N.op = "REQUIRE"
  /\ IF \E expr \in Expressions : expr[N.in[1]] THEN Continue(Top.local) /\ UNCHANGED result
     ELSE Return(invalidStep(N.par.reason_code, KeyOf(N)))

CallFormat ==
  /\ Running /\ Statement.do = "assert" /\ N.op = "CALL_FORMAT" /\ Call

(* Mutant: what the callee returned stays.                                  *)
FormatReturnedStays ==
  /\ Running /\ Statement.do = "assert" /\ N.op = "CALL_FORMAT" /\ result # NoResult
  /\ IF result.status # "valid" THEN Return(result)
     ELSE Continue(Top.local) /\ UNCHANGED result

(* if r := callee(c, operand); r.status != Valid { return r }               *)
FormatReturned ==
  /\ Running /\ Statement.do = "assert" /\ N.op = "CALL_FORMAT" /\ result # NoResult
  /\ IF result.status # "valid" THEN Return(result)
     ELSE Continue(Top.local) /\ result' = NoResult

------------------------------------------------------------------------------
(* allChecks and anyCheck, over results already computed.                   *)
Where(results, status) == {k \in DOMAIN results : results[k].status = status}

(* Mutant: the first result that is not valid.                              *)
allChecksFirst(results) ==
  LET bad == DOMAIN results \ Where(results, "valid")
  IN IF bad = {} THEN validStep ELSE results[Min(bad)]

allChecks(results) ==
  LET invalid == Where(results, "invalid")
      unsupported == Where(results, "unsupported")
  IN IF invalid # {} THEN results[Min(invalid)]
     ELSE IF unsupported # {} THEN results[Min(unsupported)] ELSE validStep

anyCheck(results) ==
  LET valid == Where(results, "valid")
      unsupported == Where(results, "unsupported")
  IN IF valid # {} THEN results[Min(valid)]
     ELSE IF unsupported # {} THEN results[Min(unsupported)] ELSE results[1]

(* The first case of the switch whose predicate holds, or its default.      *)
Switch(expr) ==
  LET in == Branches(Rule, N)
      Branch(k) == Rule.nodes[in[k]]
      Default == {k \in DOMAIN in : Branch(k).op # "CHECKSUM_WHEN"}
      Holding == {k \in DOMAIN in \ Default : expr[Branch(k).in[1]]}
  IN IF Holding # {} THEN Top.local[Branch(Min(Holding)).in[2]]
     ELSE IF Default # {} THEN Top.local[in[Min(Default)]]
     ELSE unsupportedStep("unsupported_checksum", "")

joinLocals == [k \in DOMAIN N.in |-> Top.local[N.in[k]]]

checksumExpr(expr) ==
  LET arg == [k \in DOMAIN N.in |-> expr[N.in[k]]]
  IN CASE N.op \in Algorithms -> fromOutcome(Algorithm(N, arg), KeyOf(N))
       [] N.op = "UNSUPPORTED" -> unsupportedStep(N.par.reason_code, KeyOf(N))
       [] N.op = "CHOOSE_BRANCH" -> Switch(expr)
       [] N.op = "ALL_CHECKS" -> allChecks(joinLocals)
       [] N.op = "ANY_CHECK" -> anyCheck(joinLocals)

EmitCheck ==
  /\ Running /\ Statement.do = "check" /\ N.op # "CALL_CHECKSUM"
  /\ \E expr \in Expressions : Continue(Assigned(checksumExpr(expr)))
  /\ UNCHANGED result

CallChecksum ==
  /\ Running /\ Statement.do = "check" /\ N.op = "CALL_CHECKSUM" /\ Call

ChecksumReturned ==
  /\ Running /\ Statement.do = "check" /\ N.op = "CALL_CHECKSUM" /\ result # NoResult
  /\ Continue(Assigned(result)) /\ result' = NoResult

ReturnStatement ==
  /\ Running /\ Statement.do = "return"
  /\ Return(IF Rule.kind = "format" THEN validStep ELSE Top.local[Statement.node])

Finished == ~Running /\ UNCHANGED codeVars

CodeNext ==
  \/ EmitLocal \/ Require \/ CallFormat \/ FormatReturned \/ EmitCheck \/ CallChecksum
  \/ ChecksumReturned \/ ReturnStatement \/ Finished

CodeSpec == CodeInit /\ [][CodeNext]_codeVars

------------------------------------------------------------------------------
(* A rule holds no local but its own, and a step result is one of the three *)
(* outcomes (emitLocals, emitChecksumNodes).                                *)
CodeTypeOK ==
  /\ result.status \in {"valid", "invalid", "unsupported", "none"}
  /\ \A f \in DOMAIN frames :
       /\ frames[f].pc \in 1 .. Len(frames[f].code)
       /\ DOMAIN frames[f].local \subseteq {frames[f].code[k].node : k \in 1 .. frames[f].pc - 1}

(* What the nodes of a running function are, read from the graph alone.     *)
Scalars(f) == {Rendered(f.rule.nodes, c, f.subject, c.country, NoLocal)}

(* Every local of every function on the stack holds what its node denotes,  *)
(* however the node was hoisted, combined or returned by a callee           *)
(* (newRuleEmitter, emitLocals, emitChecksumNodes).                         *)
LocalsHoldTheirNodes ==
  /\ CodeTypeOK
  /\ \A f \in ToSet(frames) :
       \A scalar \in Scalars(f), meaning \in {Meaning(f.rule, c, f.subject)} :
         \A i \in DOMAIN f.local :
           f.local[i] = IF f.rule.nodes[i].output = "outcome"
                        THEN meaning[i] ELSE scalar[i]

(* What the compiled rule returns is what its graph means: the first failed *)
(* assertion, or the outcome of its root, with the reason and the message   *)
(* key of the node that decided it, across calls (ir.md, section 3).  It    *)
(* holds of the rules of a GLOBAL target that declare no subject node: the  *)
(* code tells a rule no country (expr.go:63) and calls every rule on the    *)
(* value (emit_programs.go:289).                                            *)
ResultIsMeaning ==
  ~Running => result = MeaningOf[entry, c]
==============================================================================
