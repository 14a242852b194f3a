--------------------------- MODULE CodePointViews ---------------------------
(***************************************************************************)
(* What the string operations of a rule promise: a view is absent, or a     *)
(* sequence of code points, and each operation is counted in code points,   *)
(* indices from 0.  Nothing is produced from an absent view.                *)
(***************************************************************************)
EXTENDS Naturals, Sequences

Nothing == [present |-> FALSE, points |-> <<>>]
Of(points) == [present |-> TRUE, points |-> points]

(* The code points of v from a up to b, or nothing.                         *)
Between(v, a, b) ==
  IF v.present /\ a <= b /\ b <= Len(v.points) THEN Of(SubSeq(v.points, a + 1, b)) ELSE Nothing

Starts(text, prefix) == Len(prefix) <= Len(text) /\ SubSeq(text, 1, Len(prefix)) = prefix

(* The positions where a literal occurs, and what its first occurrence cuts *)
(* v in.                                                                    *)
Places(v, literal) ==
  {i \in 0 .. Len(v.points) : Starts(SubSeq(v.points, i + 1, Len(v.points)), literal)}
First(places) == CHOOSE i \in places : \A j \in places : i <= j
Before(v, literal) ==
  IF v.present /\ Places(v, literal) # {} THEN Between(v, 0, First(Places(v, literal))) ELSE Nothing
Behind(v, literal) ==
  IF v.present /\ Places(v, literal) # {}
  THEN Between(v, First(Places(v, literal)) + Len(literal), Len(v.points)) ELSE Nothing

Stripped(v, literal) ==
  IF v.present /\ Starts(v.points, literal) THEN Between(v, Len(literal), Len(v.points)) ELSE Nothing
Joined(v, literal) == IF v.present THEN Of(v.points \o literal) ELSE Nothing
==============================================================================
