------------------------------ MODULE Workspace ------------------------------
(***************************************************************************)
(* The canonicalization workspace of internal/runtime/buffer.go and the    *)
(* compiled canonicalizers that drive it: one call canonicalizes one input *)
(* in a scratch array on its stack, in place, without allocating.          *)
(*                                                                         *)
(* The value stays in the caller's string (src) until a step changes it;   *)
(* it is then copied to offset LeftMargin of the scratch array, where      *)
(* steps grow it on both sides.  Filtering runs byte by byte over the      *)
(* array it reads, so its loop is modelled one iteration at a time.        *)
(***************************************************************************)
EXTENDS CanonPrograms

CONSTANTS
  Inputs,        (* the values a caller may pass                           *)
  GrowthFrom,    (* [d][i]: what the steps from i on of Compiled(d) can    *)
                 (* add on either side                                     *)
  LeftMargin,    (* canonicalizationLeftMargin                             *)
  ScratchSize,   (* canonicalizationScratch                                *)
  NoAnswer       (* the call has not returned                              *)

Growth == [left : Nat, right : Nat]

ASSUME InputsAssumption ==
  /\ Inputs \subseteq Seq(Byte)
  /\ \A s \in Inputs : Len(s) <= MaxInput
  /\ NoAnswer \notin Seq(Byte)

(* growth() sums the steps of a program.                                   *)
ASSUME GrowthAssumption ==
  \A d \in Definitions :
    LET last == Len(Compiled(d)) + 1
    IN  /\ GrowthFrom[d] \in [1 .. last -> Growth]
        /\ GrowthFrom[d][last] = [left |-> 0, right |-> 0]
        /\ \A i \in 1 .. last - 1 :
             GrowthFrom[d][i] =
               [left  |-> LeftGrowth(Compiled(d)[i], TargetOf[d])
                            + GrowthFrom[d][i + 1].left,
                right |-> RightGrowth(Compiled(d)[i])
                            + GrowthFrom[d][i + 1].right]

(* sizeScratch() takes the largest growth on each side over the programs   *)
(* it considers, and the scratch array holds both beside the largest input.*)
ASSUME SizingAssumption ==
  /\ LeftMargin \in Nat
  /\ \A d \in Considered : GrowthFrom[d][1].left <= LeftMargin
  /\ \E d \in Considered : GrowthFrom[d][1].left = LeftMargin
  /\ ScratchSize \in Nat
  /\ \A d \in Considered :
       LeftMargin + MaxInput + GrowthFrom[d][1].right <= ScratchSize
  /\ \E d \in Considered :
       LeftMargin + MaxInput + GrowthFrom[d][1].right = ScratchSize

VARIABLES
  def,     (* the definition the value is routed to                        *)
  w,       (* the workspace                                                *)
  at,      (* the next step of Compiled(def)                               *)
  scan,    (* the registers of the filter loop                             *)
  answer   (* the canonical value the call returns                         *)

vars == <<def, w, at, scan, answer>>

(* Offset o of the scratch array is b[o + 1].                              *)
Buf == [b : [1 .. ScratchSize -> Byte], lo : Nat, hi : Nat,
        src : Seq(Byte), loaded : BOOLEAN]

(* The filter loop reads at i and writes at dst, both relative to lo.      *)
Scan == [active : BOOLEAN, i : Nat, dst : Nat]
Idle == [active |-> FALSE, i |-> 0, dst |-> 0]

-----------------------------------------------------------------------------
(***************************************************************************)
(* Methods of Buf.  Each takes a workspace and returns the one it leaves.  *)
(***************************************************************************)

(* b[from:to] as a string.                                                 *)
Slice(b, from, to) == SubSeq(b, from + 1, to)

Str(buf) == IF buf.loaded THEN Slice(buf.b, buf.lo, buf.hi) ELSE buf.src

(* Go's copy(b[offset:], s): what does not fit is not written.             *)
Copied(b, offset, s) ==
  [k \in 1 .. ScratchSize |->
     IF k \in offset + 1 .. offset + Len(s) THEN s[k - offset] ELSE b[k]]

CopyCount(offset, s) ==
  IF offset + Len(s) <= ScratchSize THEN Len(s) ELSE ScratchSize - offset

New(in) == [b |-> [k \in 1 .. ScratchSize |-> 0], lo |-> 0, hi |-> 0,
            src |-> in, loaded |-> FALSE]

(* Mutants: the value copied to the start of the array; hi as a length.    *)
LoadAtZero(buf) ==
  IF buf.loaded THEN buf
  ELSE [buf EXCEPT !.b = Copied(@, 0, buf.src),
                   !.lo = 0,
                   !.hi = CopyCount(0, buf.src),
                   !.loaded = TRUE]

LoadHiAsLength(buf) ==
  IF buf.loaded THEN buf
  ELSE [buf EXCEPT !.b = Copied(@, LeftMargin, buf.src),
                   !.lo = LeftMargin,
                   !.hi = CopyCount(LeftMargin, buf.src),
                   !.loaded = TRUE]

Load(buf) ==
  IF buf.loaded THEN buf
  ELSE [buf EXCEPT !.b = Copied(@, LeftMargin, buf.src),
                   !.lo = LeftMargin,
                   !.hi = LeftMargin + CopyCount(LeftMargin, buf.src),
                   !.loaded = TRUE]

Least(S) == CHOOSE n \in S : \A m \in S : n <= m
Greatest(S) == CHOOSE n \in S : \A m \in S : m <= n

IsSpaceAt(s, o) == IsWhitespaceV1(RuneAt(s, o))

NonSpaces(s) == { o \in RuneStarts(s) : ~IsSpaceAt(s, o) }

TrimStart(s) == Least(NonSpaces(s) \cup { Len(s) })

TrimEnd(s) ==
  Greatest({ o + RuneSize(s, o) : o \in NonSpaces(s) } \cup { TrimStart(s) })

(* Mutant: the early return on nothing to trim is dropped.                 *)
TrimAlwaysLoads(buf) ==
  LET s == Str(buf)
      loaded == Load(buf)
  IN  [loaded EXCEPT !.lo = loaded.lo + TrimStart(s),
                     !.hi = loaded.lo + TrimEnd(s)]

TrimWhitespace(buf) ==
  LET s == Str(buf)
      loaded == Load(buf)
  IN  IF TrimStart(s) = 0 /\ TrimEnd(s) = Len(s) THEN buf
      ELSE [loaded EXCEPT !.lo = loaded.lo + TrimStart(s),
                          !.hi = loaded.lo + TrimEnd(s)]

UppercaseASCII(buf) ==
  LET loaded == Load(buf)
  IN  IF \A k \in 1 .. Len(Str(buf)) : ~IsASCIILower(Str(buf)[k]) THEN buf
      ELSE [loaded EXCEPT !.b =
              [k \in 1 .. ScratchSize |->
                 IF k \in loaded.lo + 1 .. loaded.hi /\ IsASCIILower(@[k])
                 THEN @[k] - 32 ELSE @[k]]]

(* The fallback moves the value right when the left margin is exhausted.   *)
ShiftLeftEdge(buf, n) ==
  IF buf.lo >= n THEN [buf EXCEPT !.lo = @ - n]
  ELSE [buf EXCEPT !.b = Copied(@, n, Str(buf)),
                   !.hi = @ + (n - buf.lo),
                   !.lo = 0]

WriteAtLo(buf, text) == [buf EXCEPT !.b = Copied(@, buf.lo, text)]

ReplacePrefix(buf, from, to) ==
  LET loaded == Load(buf)
  IN  IF ~HasPrefix(Str(buf), from) THEN buf
      ELSE IF Len(to) <= Len(from)
           THEN WriteAtLo([loaded EXCEPT !.lo = @ + (Len(from) - Len(to))], to)
           ELSE WriteAtLo(ShiftLeftEdge(loaded, Len(to) - Len(from)), to)

Prepend(buf, text) == WriteAtLo(ShiftLeftEdge(Load(buf), Len(text)), text)

(* Append itself is an operator of Sequences.                              *)
AppendText(buf, text) ==
  LET loaded == Load(buf)
  IN  [loaded EXCEPT !.b = Copied(@, loaded.hi, text),
                     !.hi = @ + CopyCount(loaded.hi, text)]

(* Mutant: the index counts bytes.                                         *)
InsertAtByte(buf, index, text) ==
  LET loaded == Load(buf)
      off == loaded.lo + index
      tail == Slice(loaded.b, off, loaded.hi)
  IN  IF index > Len(Str(buf)) THEN buf
      ELSE [loaded EXCEPT
              !.b = Copied(Copied(@, off + Len(text), tail), off, text),
              !.hi = @ + Len(text)]

Insert(buf, index, text) ==
  LET loaded == Load(buf)
      off == loaded.lo + RuneOffset(Str(buf), index)
      tail == Slice(loaded.b, off, loaded.hi)
  IN  IF ~HasRuneOffset(Str(buf), index) THEN buf
      ELSE [loaded EXCEPT
              !.b = Copied(Copied(@, off + Len(text), tail), off, text),
              !.hi = @ + Len(text)]

Repeat(pad, n) == [k \in 1 .. n * Len(pad) |-> pad[((k - 1) % Len(pad)) + 1]]

LeftPad(buf, length, pad) ==
  LET missing == length - RuneCount(Str(buf))
  IN  IF RuneCount(Str(buf)) >= length THEN buf
      ELSE WriteAtLo(ShiftLeftEdge(Load(buf), missing * Len(pad)),
                     Repeat(pad, missing))

(* PREPEND_COUNTRY_IF_MISSING, folded against the target.                  *)
PrependCountry(buf, target) ==
  IF \/ target.lead = <<>>
     \/ \E prefix \in target.acceptedPrefixes : HasPrefix(Str(buf), prefix)
  THEN buf ELSE Prepend(buf, target.lead)

CanonicalOf(original, buf) ==
  IF ~buf.loaded THEN original ELSE Slice(buf.b, buf.lo, buf.hi)

(* Whether the filter keeps the code point at offset o of s.               *)
Keeps(step, s, o) ==
  IF step.op = "REMOVE_WHITESPACE" THEN ~IsSpaceAt(s, o)
  ELSE \/ RuneAt(s, o) >= 128
       \/ \A k \in DOMAIN step.text : step.text[k] # RuneAt(s, o)

(* Where the filter starts removing; Len(s) when it removes nothing.       *)
FilterCut(step, s) ==
  Least({ o \in RuneStarts(s) : ~Keeps(step, s, o) } \cup { Len(s) })

-----------------------------------------------------------------------------
(***************************************************************************)
(* One call.                                                               *)
(***************************************************************************)

Init ==
  /\ def \in Definitions
  /\ \E in \in Inputs : w = New(in)
  /\ at = 1
  /\ scan = Idle
  /\ answer = NoAnswer

CurrentStep == Compiled(def)[at]

(* The compiled canonicalizer reaches a step of operation op.              *)
Reaches(op) ==
  /\ at <= Len(Compiled(def))
  /\ ~scan.active
  /\ CurrentStep.op = op

(* A step that runs to its end in one method call leaves buf.              *)
Leaves(buf) ==
  /\ w' = buf
  /\ at' = at + 1
  /\ UNCHANGED <<def, scan, answer>>

DoTrimWhitespace == Reaches("TRIM_WHITESPACE") /\ Leaves(TrimWhitespace(w))

DoUppercaseASCII == Reaches("UPPERCASE_ASCII") /\ Leaves(UppercaseASCII(w))

DoReplacePrefix ==
  /\ Reaches("REPLACE_PREFIX")
  /\ Leaves(ReplacePrefix(w, CurrentStep.text, CurrentStep.replacement))

DoPrepend == Reaches("PREPEND") /\ Leaves(Prepend(w, CurrentStep.text))

DoAppend == Reaches("APPEND") /\ Leaves(AppendText(w, CurrentStep.text))

DoInsert ==
  /\ Reaches("INSERT")
  /\ Leaves(Insert(w, CurrentStep.number, CurrentStep.text))

DoLeftPad ==
  /\ Reaches("LEFT_PAD")
  /\ Leaves(LeftPad(w, CurrentStep.number, CurrentStep.text))

DoPrependCountry ==
  /\ Reaches("PREPEND_COUNTRY_IF_MISSING")
  /\ Leaves(PrependCountry(w, TargetOf[def]))

(* A WHEN whose predicate (the value starts with text) fails skips the     *)
(* steps it guards.                                                        *)
DoWhen ==
  /\ Reaches("WHEN")
  /\ at' = IF HasPrefix(Str(w), CurrentStep.text) THEN at + 1
           ELSE at + 1 + CurrentStep.number
  /\ UNCHANGED <<def, w, scan, answer>>

ReachesFilter == Reaches("REMOVE_WHITESPACE") \/ Reaches("REMOVE_CHARS")

(* filter() returns when it finds nothing to remove.                       *)
FilterNothing ==
  /\ ReachesFilter
  /\ FilterCut(CurrentStep, Str(w)) = Len(Str(w))
  /\ Leaves(w)

(* Otherwise it loads the value and starts its loop at the first removal.  *)
FilterStart ==
  LET cut == FilterCut(CurrentStep, Str(w))
  IN  /\ ReachesFilter
      /\ cut < Len(Str(w))
      /\ w' = Load(w)
      /\ scan' = [active |-> TRUE, i |-> cut, dst |-> cut]
      /\ UNCHANGED <<def, at, answer>>

(* Mutant: the loop does not advance past what it removes.                 *)
FilterSticks ==
  LET src == Str(w)
      size == RuneSize(src, scan.i)
      kept == SubSeq(src, scan.i + 1, scan.i + size)
  IN  /\ scan.active
      /\ scan.i < Len(src)
      /\ Keeps(CurrentStep, src, scan.i)
      /\ w' = [w EXCEPT !.b = Copied(@, w.lo + scan.dst, kept)]
      /\ scan' = [scan EXCEPT !.i = @ + size, !.dst = @ + Len(kept)]
      /\ UNCHANGED <<def, at, answer>>

(* One iteration: the bytes of a kept code point are copied down, never    *)
(* re-encoded.                                                             *)
FilterRune ==
  LET src == Str(w)
      size == RuneSize(src, scan.i)
      kept == SubSeq(src, scan.i + 1, scan.i + size)
  IN  /\ scan.active
      /\ scan.i < Len(src)
      /\ IF Keeps(CurrentStep, src, scan.i)
         THEN /\ w' = [w EXCEPT !.b = Copied(@, w.lo + scan.dst, kept)]
              /\ scan' = [scan EXCEPT !.i = @ + size, !.dst = @ + Len(kept)]
         ELSE /\ w' = w
              /\ scan' = [scan EXCEPT !.i = @ + size]
      /\ UNCHANGED <<def, at, answer>>

FilterEnd ==
  /\ scan.active
  /\ scan.i >= Len(Str(w))
  /\ w' = [w EXCEPT !.hi = w.lo + scan.dst]
  /\ scan' = Idle
  /\ at' = at + 1
  /\ UNCHANGED <<def, answer>>

(* The call copies the value out, or hands the input back.                 *)
Return ==
  /\ at = Len(Compiled(def)) + 1
  /\ answer = NoAnswer
  /\ answer' = CanonicalOf(w.src, w)
  /\ UNCHANGED <<def, w, at, scan>>

Next ==
  \/ DoTrimWhitespace \/ DoUppercaseASCII \/ DoReplacePrefix \/ DoPrepend
  \/ DoAppend \/ DoInsert \/ DoLeftPad \/ DoPrependCountry \/ DoWhen
  \/ FilterNothing \/ FilterStart \/ FilterRune \/ FilterEnd
  \/ Return

(* A canonicalization is straight-line code on the caller's goroutine.     *)
Spec == Init /\ [][Next]_vars /\ WF_vars(Next)

-----------------------------------------------------------------------------
TypeOK ==
  /\ def \in Definitions
  /\ w \in Buf
  /\ at \in 1 .. Len(Compiled(def)) + 1
  /\ scan \in Scan
  /\ answer \in Seq(Byte) \cup { NoAnswer }

(* The value never leaves the scratch array: every slice expression of the *)
(* methods stays within bounds, and Str never reads past the array.  In    *)
(* the code these are the unchecked unsafe.String of Buf.Str and the slice *)
(* expressions of Insert and String.                                       *)
InScratch == w.loaded => w.lo <= w.hi /\ w.hi <= ScratchSize

(* What the step about to run asks shiftLeftEdge for.                      *)
LeftDemand ==
  CASE CurrentStep.op = "PREPEND" -> Len(CurrentStep.text)
    [] CurrentStep.op = "PREPEND_COUNTRY_IF_MISSING"
         /\ \A p \in TargetOf[def].acceptedPrefixes : ~HasPrefix(Str(w), p) ->
         Len(TargetOf[def].lead)
    [] CurrentStep.op = "REPLACE_PREFIX"
         /\ HasPrefix(Str(w), CurrentStep.text)
         /\ Len(CurrentStep.replacement) > Len(CurrentStep.text) ->
         Len(CurrentStep.replacement) - Len(CurrentStep.text)
    [] CurrentStep.op = "LEFT_PAD" /\ RuneCount(Str(w)) < CurrentStep.number ->
         (CurrentStep.number - RuneCount(Str(w))) * Len(CurrentStep.text)
    [] OTHER -> 0

(* "The generator sizes the left margin so this never happens for a bundle *)
(* it accepted" (buffer.go): no step finds the left margin exhausted, so   *)
(* the fallback of shiftLeftEdge, which moves the value right, never runs. *)
MarginSuffices ==
  at <= Len(Compiled(def)) => LeftDemand <= Load(w).lo

(* The bytes the filter loop keeps of the code point at offset o of s, and *)
(* from there on.                                                          *)
KeptAt(step, s, o) ==
  IF Keeps(step, s, o) THEN SubSeq(s, o + 1, o + RuneSize(s, o)) ELSE <<>>

KeptFrom(step, s, o) ==
  LET kept[p \in o .. Len(s)] ==
        IF p = Len(s) THEN <<>> ELSE KeptAt(step, s, p) \o kept[p + RuneSize(s, p)]
  IN  kept[o]

(* The value, once the filter loop in progress has run to its end: what it *)
(* has written so far, then what it keeps of the rest.                     *)
Current ==
  IF scan.active
  THEN SubSeq(w.b, w.lo + 1, w.lo + scan.dst) \o KeptFrom(CurrentStep, Str(w), scan.i)
  ELSE Str(w)

(* Modified is exact: the value moves into the scratch array only in a     *)
(* step that changes it, so a call whose steps all left the value alone    *)
(* hands the caller's own string back and allocates nothing.               *)
LoadsOnlyOnChange ==
  [][~w.loaded /\ w'.loaded => Current' # Current]_vars

(* A call returns: the scanning loops end and no step gets stuck.          *)
Returns == <>(answer # NoAnswer)
-----------------------------------------------------------------------------
(***************************************************************************)
(* The in-place byte buffer implements the abstract canonicalization on    *)
(* code points.  A filter loop in progress stands for the filtered value:  *)
(* the abstract step happens when the loop starts.                         *)
(*                                                                         *)
(* Nothing is promised of an ill formed input: its call stands for one on  *)
(* no bytes that is never taken up.  Removing a character between two ill  *)
(* formed bytes can join them into a code point the input did not hold,    *)
(* which is why routeUnder refuses ill formed text before any step.        *)
(***************************************************************************)
Promised == ValidString(w.src)

Abstract ==
  INSTANCE Canonicalization WITH
    Inputs <- { Runes(s) : s \in { s \in Inputs : ValidString(s) } } \cup { <<>> },
    value  <- IF Promised THEN Runes(Current) ELSE <<>>,
    at     <- IF ~Promised THEN 1 ELSE IF scan.active THEN at + 1 ELSE at,
    answer <- IF ~Promised \/ answer = NoAnswer THEN NoAnswer ELSE Runes(answer)

(* Every call of the compiled canonicalizer is a call of the abstract one. *)
Implements == Abstract!Spec
=============================================================================
