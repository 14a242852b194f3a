------------------------------ MODULE MCWorkspace ------------------------------
(***************************************************************************)
(* Instances of the workspace for TLC: small bundles in the shape of the   *)
(* published one, over seven bytes that cover the cases the steps tell     *)
(* apart: a space, a separator, a lower-case letter, an upper-case letter, *)
(* and the bytes of a no-break space (C2 A0) and of a copyright sign       *)
(* (C2 A9), ill formed when apart.                                         *)
(***************************************************************************)
EXTENDS Workspace, TLC

CONSTANT
  Bundle    (* which bundle: "sized" or "shared"                           *)

Space == 32
Dash == 45
LetterA == 65
LetterB == 66
Lower == 97
LeadC2 == 194
ContA0 == 160
ContA9 == 169

Alphabet == { Space, Dash, LetterA, Lower, LeadC2, ContA0, ContA9 }

(* Every input of up to three bytes, and the longer ones over fewer.       *)
MCInputs ==
  UNION { [1 .. n -> Alphabet] : n \in 0 .. 3 }
    \cup UNION { [1 .. n -> {Dash, LeadC2, ContA0, ContA9}] : n \in 4 .. MaxInput }

S(op, text, replacement, number) ==
  [op |-> op, text |-> text, replacement |-> replacement, number |-> number]

Trim == S("TRIM_WHITESPACE", <<>>, <<>>, 0)
RemoveWhitespace == S("REMOVE_WHITESPACE", <<>>, <<>>, 0)
RemoveDash == S("REMOVE_CHARS", <<Dash>>, <<>>, 0)
Upper == S("UPPERCASE_ASCII", <<>>, <<>>, 0)
Country == S("PREPEND_COUNTRY_IF_MISSING", <<>>, <<>>, 0)

Routing == <<Trim, RemoveWhitespace, Upper>>

(* Program 1 is the VAT shape: separators out, one prefix spelled another  *)
(* way, country in front.  Program 2 pads and inserts a separator, then    *)
(* grows on the right.  Program 3 grows a prefix in place under a WHEN.    *)
MCSteps ==
  << << RemoveDash, S("REPLACE_PREFIX", <<LetterA, LetterA>>, <<LetterB>>, 0),
        Country >>,
     << S("LEFT_PAD", <<LetterB>>, <<>>, 3), S("INSERT", <<Dash, LetterB>>, <<>>, 2),
        S("APPEND", <<LetterB>>, <<>>, 0), RemoveDash >>,
     << S("WHEN", <<LetterA>>, <<>>, 2),
        S("REPLACE_PREFIX", <<LetterA>>, <<LetterB, LetterB, LetterB>>, 0),
        S("PREPEND", <<Dash>>, <<>>, 0), Trim, RemoveDash >> >>

T(lead, prefixes) == [lead |-> lead, acceptedPrefixes |-> prefixes]

(* In the "shared" bundle definitions 1 and 2 run program 1, as the loader *)
(* allows, and the second has the longer canonical prefix.                 *)
MCProgramOf == IF Bundle = "sized" THEN <<1, 2, 3>> ELSE <<1, 1, 3>>

MCTargetOf ==
  << T(<<LetterA>>, { <<LetterA>>, <<LetterB>> }),
     T(<<LetterB, LetterB, LetterB, LetterB>>, {<<LetterB, LetterB>>}),
     T(<<>>, {}) >>

MCPreSteps == <<Routing, Routing, <<Trim>> >>

(* The sums growth() computes, from the last step back to the first.       *)
SumFrom(d, Bytes(_)) ==
  LET sum[i \in 1 .. Len(Compiled(d)) + 1] ==
        IF i > Len(Compiled(d)) THEN 0 ELSE Bytes(Compiled(d)[i]) + sum[i + 1]
  IN  sum

LeftFrom(d) == SumFrom(d, LAMBDA step : LeftGrowth(step, TargetOf[d]))
RightFrom(d) == SumFrom(d, RightGrowth)

MCGrowthFrom ==
  [d \in Definitions |->
     [i \in 1 .. Len(Compiled(d)) + 1 |->
        [left |-> LeftFrom(d)[i], right |-> RightFrom(d)[i]]]]
=============================================================================
