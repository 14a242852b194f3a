---------------------------- MODULE CanonPrograms ----------------------------
(***************************************************************************)
(* The canonicalization programs of a bundle, as the generator compiles    *)
(* them, and the scratch buffer it reserves for them.                      *)
(*                                                                         *)
(* A program is a tree of steps whose root is a SEQUENCE; the generator    *)
(* flattens it, and a WHEN becomes an `if` around the steps it guards.  So *)
(* a program is a sequence of steps here, and a WHEN carries the number of *)
(* steps that follow it and that it guards.                                *)
(***************************************************************************)
EXTENDS Utf8

CONSTANTS
  NumDefinitions,   (* the identifier definitions are 1 .. NumDefinitions  *)
  PreSteps,         (* pre-canonicalizer of the dispatcher a definition is *)
                    (* reached through                                     *)
  ProgramOf,        (* the canonicalization program ID of a definition     *)
  Steps,            (* the steps of a program ID                           *)
  TargetOf,         (* the dispatch target a definition is reached through *)
  MaxInput          (* largest input accepted, in bytes                    *)

Definitions == 1 .. NumDefinitions

Programs == { ProgramOf[d] : d \in Definitions }

(* The five operations a pre-canonicalizer may use (SEQUENCE is flattened). *)
PreCanonicalizationOps ==
  { "TRIM_WHITESPACE", "REMOVE_WHITESPACE", "UPPERCASE_ASCII", "REMOVE_CHARS" }

Ops == PreCanonicalizationOps
         \cup { "REPLACE_PREFIX", "PREPEND", "APPEND", "INSERT", "LEFT_PAD",
                "PREPEND_COUNTRY_IF_MISSING", "WHEN" }

(* text and replacement are the constants of the node; number is the index *)
(* of an INSERT, the length of a LEFT_PAD, and the count of steps a WHEN   *)
(* guards.                                                                 *)
Step == [op : Ops, text : Seq(Byte), replacement : Seq(Byte), number : Nat]

(* lead is the canonical prefix, or the country code without one; it is    *)
(* empty for a GLOBAL target.                                              *)
Target == [lead : Seq(Byte), acceptedPrefixes : SUBSET Seq(Byte)]

(* What the loader checks of the constants of one step: the text of most   *)
(* operations is not empty, and a replacement changes the prefix.          *)
NodeAccepted(step) ==
  /\ step.op \in { "REMOVE_CHARS", "REPLACE_PREFIX", "PREPEND", "APPEND",
                   "INSERT", "LEFT_PAD" } => step.text # <<>>
  /\ step.op = "REPLACE_PREFIX" => step.replacement # step.text

(* What the loader accepts a bundle for.                                   *)
ProgramsAccepted ==
  /\ NumDefinitions \in Nat \ {0}
  /\ MaxInput \in Nat
  /\ PreSteps \in [Definitions -> Seq(Step)]
  /\ \A p \in Programs : Steps[p] \in Seq(Step)
  /\ \A d \in Definitions : \A i \in DOMAIN PreSteps[d] :
       NodeAccepted(PreSteps[d][i])
  /\ \A p \in Programs : \A i \in DOMAIN Steps[p] : NodeAccepted(Steps[p][i])
  /\ TargetOf \in [Definitions -> Target]
  /\ \A d \in Definitions : \A i \in DOMAIN PreSteps[d] :
       PreSteps[d][i].op \in PreCanonicalizationOps
  /\ \A p \in Programs : \A i \in DOMAIN Steps[p] :
       Steps[p][i].op = "WHEN" => i + Steps[p][i].number <= Len(Steps[p])

ASSUME BundleAssumption == ProgramsAccepted

(* Everything one call runs on the workspace: the pre-canonicalizer once,  *)
(* then the canonicalizer of the selected definition once.                 *)
Compiled(d) == PreSteps[d] \o Steps[ProgramOf[d]]

(***************************************************************************)
(* Sizing.                                                                 *)
(***************************************************************************)

(* The bytes a step can add before the value, and after it.                *)
LeftGrowth(step, target) ==
  CASE step.op = "REPLACE_PREFIX" ->
         IF Len(step.replacement) > Len(step.text)
         THEN Len(step.replacement) - Len(step.text) ELSE 0
    [] step.op = "PREPEND" -> Len(step.text)
    [] step.op = "LEFT_PAD" -> step.number * Len(step.text)
    [] step.op = "PREPEND_COUNTRY_IF_MISSING" -> Len(target.lead)
    [] OTHER -> 0

RightGrowth(step) ==
  IF step.op \in { "APPEND", "INSERT" } THEN Len(step.text) ELSE 0

(* sizeScratch considers each program once, under the target of the first  *)
(* definition that names it.                                               *)
Considered ==
  { d \in Definitions :
      \A e \in Definitions : ProgramOf[e] = ProgramOf[d] => d <= e }
=============================================================================
