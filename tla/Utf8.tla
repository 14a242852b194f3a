-------------------------------- MODULE Utf8 --------------------------------
(***************************************************************************)
(* Strings as the Go code sees them: sequences of bytes, read one code     *)
(* point at a time with package unicode/utf8.  Offsets are byte offsets,   *)
(* counted from 0 as in the code; the byte at offset o of s is s[o + 1].   *)
(*                                                                         *)
(* A byte that starts no well formed code point decodes to RuneError with  *)
(* size 1, as utf8.DecodeRune does.  The narrower second-byte ranges that  *)
(* exclude overlong forms and surrogates are left out: no byte sequence of *)
(* the instances uses the lead bytes they concern (E0, ED, F0, F4).        *)
(***************************************************************************)
EXTENDS Naturals, Sequences, FiniteSets

Byte == 0 .. 255

RuneError == 65533

(* The length the lead byte announces; 1 for ASCII and for a byte that     *)
(* cannot lead a multi-byte form.                                          *)
LeadWidth(c) ==
  IF c \in 194 .. 223 THEN 2
  ELSE IF c \in 224 .. 239 THEN 3
  ELSE IF c \in 240 .. 244 THEN 4
  ELSE 1

WellFormedAt(s, o) ==
  LET width == LeadWidth(s[o + 1])
  IN  /\ s[o + 1] \in 0 .. 127 \cup 194 .. 244
      /\ o + width <= Len(s)
      /\ \A k \in 1 .. width - 1 : s[o + 1 + k] \in 128 .. 191

(* The size utf8.DecodeRune returns at offset o.                           *)
RuneSize(s, o) == IF WellFormedAt(s, o) THEN LeadWidth(s[o + 1]) ELSE 1

(* The code point utf8.DecodeRune returns at offset o.                     *)
RuneAt(s, o) ==
  LET Tail6(k) == s[o + 1 + k] % 64
  IN  IF ~WellFormedAt(s, o) THEN RuneError
      ELSE CASE LeadWidth(s[o + 1]) = 1 -> s[o + 1]
             [] LeadWidth(s[o + 1]) = 2 -> (s[o + 1] % 32) * 64 + Tail6(1)
             [] LeadWidth(s[o + 1]) = 3 ->
                  ((s[o + 1] % 16) * 64 + Tail6(1)) * 64 + Tail6(2)
             [] OTHER ->
                  (((s[o + 1] % 8) * 64 + Tail6(1)) * 64 + Tail6(2)) * 64
                    + Tail6(3)

(* The offsets at which a scan from the left decodes a code point: those   *)
(* no code point started up to three bytes earlier extends past.  A        *)
(* continuation byte never leads, so a scan from the right stops at the    *)
(* same offsets.                                                           *)
RuneStarts(s) ==
  { o \in 0 .. Len(s) - 1 :
      \A d \in 1 .. 3 : d <= o => RuneSize(s, o - d) <= d }

RuneCount(s) == Cardinality(RuneStarts(s))

ValidString(s) == \A o \in RuneStarts(s) : WellFormedAt(s, o)

(* The byte offset of code point position i, which exists when s holds at  *)
(* least i code points.                                                    *)
RunesBefore(s, o) == Cardinality({ p \in RuneStarts(s) : p < o })

IsRuneOffset(s, i, o) ==
  o \in RuneStarts(s) \cup { Len(s) } /\ RunesBefore(s, o) = i

HasRuneOffset(s, i) == \E o \in 0 .. Len(s) : IsRuneOffset(s, i, o)

RuneOffset(s, i) == CHOOSE o \in 0 .. Len(s) : IsRuneOffset(s, i, o)

(* The code points of s, decoded from the left.                            *)
Runes(s) ==
  LET from[o \in 0 .. Len(s)] ==
        IF o = Len(s) THEN <<>>
        ELSE <<RuneAt(s, o)>> \o from[o + RuneSize(s, o)]
  IN  from[0]

HasPrefix(s, prefix) ==
  /\ Len(prefix) <= Len(s)
  /\ SubSeq(s, 1, Len(prefix)) = prefix

(* The frozen whitespace table of the rules.                               *)
IsWhitespaceV1(r) ==
  r \in (9 .. 13) \cup (8192 .. 8202)
        \cup { 32, 133, 160, 5760, 8232, 8233, 8239, 8287, 12288, 65279 }

IsASCIILower(c) == c \in 97 .. 122
=============================================================================
