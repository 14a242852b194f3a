--------------------------- MODULE Canonicalization ---------------------------
(***************************************************************************)
(* What a canonicalization promises: the steps of the compiled program act *)
(* in order on a sequence of code points, the input itself is returned     *)
(* when no step changed it, and otherwise the final value is.  There is no *)
(* buffer here, no byte offset and no loop.                                *)
(***************************************************************************)
EXTENDS CanonPrograms, SequencesExt

CONSTANTS
  Inputs,      (* the values a caller may pass, as sequences of code points*)
  NoAnswer

VARIABLES
  def,         (* the definition the value is routed to                    *)
  value,       (* the value after the steps taken so far                   *)
  at,          (* the next step                                            *)
  answer       (* the value returned                                       *)

vars == <<def, value, at, answer>>

(* The value without the code points of a set at its two ends.             *)
Stripped(v, Drops(_)) ==
  LET kept == { k \in DOMAIN v : ~Drops(v[k]) }
  IN  IF kept = {} THEN <<>> ELSE SubSeq(v, Min(kept), Max(kept))

Without(v, Drops(_)) == SelectSeq(v, LAMBDA r : ~Drops(r))

Uppercase(v) == [k \in DOMAIN v |-> IF v[k] \in 97 .. 122 THEN v[k] - 32 ELSE v[k]]

Padding(pad, n) == FlattenSeq([k \in 1 .. n |-> pad])

(* The value a step leaves.  text and replacement are read as code points. *)
After(step, target, v) ==
  LET text == Runes(step.text)
  IN  CASE step.op = "TRIM_WHITESPACE" -> Stripped(v, IsWhitespaceV1)
        [] step.op = "REMOVE_WHITESPACE" -> Without(v, IsWhitespaceV1)
        [] step.op = "REMOVE_CHARS" -> Without(v, LAMBDA r : Contains(text, r))
        [] step.op = "UPPERCASE_ASCII" -> Uppercase(v)
        [] step.op = "REPLACE_PREFIX" ->
             IF IsPrefix(text, v)
             THEN Runes(step.replacement) \o SubSeq(v, Len(text) + 1, Len(v))
             ELSE v
        [] step.op = "PREPEND" -> text \o v
        [] step.op = "APPEND" -> v \o text
        [] step.op = "INSERT" ->
             IF step.number <= Len(v)
             THEN SubSeq(v, 1, step.number) \o text
                    \o SubSeq(v, step.number + 1, Len(v))
             ELSE v
        [] step.op = "LEFT_PAD" ->
             IF Len(v) < step.number
             THEN Padding(text, step.number - Len(v)) \o v ELSE v
        [] step.op = "PREPEND_COUNTRY_IF_MISSING" ->
             IF \E p \in target.acceptedPrefixes : IsPrefix(Runes(p), v)
             THEN v ELSE Runes(target.lead) \o v
        [] OTHER -> v

(* A WHEN whose predicate fails skips the steps it guards.                 *)
NextAt(step, v) ==
  IF step.op = "WHEN" /\ ~IsPrefix(Runes(step.text), v)
  THEN at + 1 + step.number ELSE at + 1

Init ==
  /\ def \in Definitions
  /\ value \in Inputs
  /\ at = 1
  /\ answer = NoAnswer

TakeStep ==
  /\ at <= Len(Compiled(def))
  /\ value' = After(Compiled(def)[at], TargetOf[def], value)
  /\ at' = NextAt(Compiled(def)[at], value)
  /\ UNCHANGED <<def, answer>>

Return ==
  /\ at = Len(Compiled(def)) + 1
  /\ answer = NoAnswer
  /\ answer' = value
  /\ UNCHANGED <<def, value, at>>

Next == TakeStep \/ Return

Spec == Init /\ [][Next]_vars
=============================================================================
