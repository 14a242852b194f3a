----------------------------- MODULE TesteeProofs -----------------------------
(***************************************************************************)
(* The testee answers every request once, in order, and never one it does  *)
(* not have in full: for every size of header, frame, pipe and buffer, any *)
(* number of exchanges, and every way the bytes are cut into pieces.       *)
(*                                                                         *)
(* The invariants TLC checks speak of the responses.  What is inductive    *)
(* says of the requests as well that what the testee holds and what is in  *)
(* the pipe are the bytes of the last one, each once and in order, and     *)
(* nothing at all when it has been answered.                               *)
(***************************************************************************)
EXTENDS Testee, SequenceTheorems, WellFoundedInduction, TLAPS

(* s holds the bytes of message i that follow the first from of them.      *)
Bytes(s, i, from) == \A k \in 1 .. Len(s) : s[k] = [of |-> i, at |-> from + k]

FrameLength(i) == HeaderBytes + requests[i].size

(* The bytes of the request that are neither held nor on their way.        *)
Gone == IF pc = "body" THEN HeaderBytes ELSE 0

(* What the testee has of the last request, and what is on its way to it,  *)
(* are the bytes the runner has written, in order.                         *)
Arriving ==
  /\ Len(answers) + 1 = Len(requests)
  /\ written <= FrameLength(Len(requests))
  /\ Gone + Len(have) + Len(inbuf) + Len(stdin) = written
  /\ Bytes(have, Len(requests), Gone)
  /\ Bytes(inbuf, Len(requests), Gone + Len(have))
  /\ Bytes(stdin, Len(requests), Gone + Len(have) + Len(inbuf))

(* Every request has been answered: there is nothing left of them.         *)
Idle ==
  /\ Len(answers) = Len(requests)
  /\ have = <<>> /\ inbuf = <<>> /\ stdin = <<>>
  /\ IF requests = <<>> THEN written = 0 ELSE written = FrameLength(Len(requests))

(* The input ended within the last request, which the testee will not get. *)
Cut ==
  /\ pc = "end"
  /\ Len(answers) + 1 = Len(requests)
  /\ written < FrameLength(Len(requests))

Received ==
  /\ Idle \/ Arriving \/ Cut
  /\ pc = "body" => Arriving /\ size = requests[Len(requests)].size
  /\ pc \notin { "header", "body" } => have = <<>>

(* What each state of the runner says of the exchange.                     *)
RunnerKnows ==
  /\ runner = "idle" => Len(answers) = Len(requests) /\ toSend = <<>>
  /\ runner = "writing" => requests # <<>> /\ written < FrameLength(Len(requests))
  /\ runner = "reading" => requests # <<>> /\ written = FrameLength(Len(requests))

(* The end of the input is the end of all that was written to it.          *)
EndIsFinal ==
  /\ pc = "end" => InputEnded /\ have = <<>> /\ inbuf = <<>> /\ stdin = <<>>
  /\ exit = "clean" => pc = "end" /\ outbuf = <<>>

(* The responses, and where the testee is in writing the last one.         *)
Sent ==
  /\ got \o stdout \o outbuf \o toSend = Responses
  /\ pc \in { "write", "spill" } <=> toSend # <<>>
  /\ pc \in { "header", "body" } => outbuf = <<>>

IInv == TypeOK /\ Received /\ RunnerKnows /\ EndIsFinal /\ Sent

-----------------------------------------------------------------------------
(***************************************************************************)
(* Numbers and sequences.                                                  *)
(***************************************************************************)

(* A nonempty set of naturals has a least element.                         *)
LEMMA LeastExists ==
  ASSUME NEW S, S \subseteq Nat, S # {}
  PROVE  \E n \in S : \A m \in S : n <= m
<1>1. \E n \in S : \A m \in S : ~(<<m, n>> \in OpToRel(<, Nat))
  BY NatLessThanWellFounded, WFMin
<1>2. PICK n \in S : \A m \in S : ~(<<m, n>> \in OpToRel(<, Nat))
  BY <1>1
<1>3. ASSUME NEW m \in S PROVE n <= m
  <2>1. m \in Nat /\ n \in Nat
    OBVIOUS
  <2>2. ~(m < n)
    BY <1>2, <1>3, <2>1 DEF OpToRel
  <2> QED BY <2>1, <2>2
<1> QED BY <1>2, <1>3

(* The least of two numbers is one of them, and above neither.             *)
LEMMA MinOfTwo ==
  ASSUME NEW a \in Nat, NEW b \in Nat
  PROVE  /\ Min({ a, b }) \in Nat /\ Min({ a, b }) <= a /\ Min({ a, b }) <= b
         /\ Min({ a, b }) = a \/ Min({ a, b }) = b
<1>1. \E x \in { a, b } : \A y \in { a, b } : x <= y
  <2>1. CASE a <= b
    BY <2>1
  <2>2. CASE b <= a
    BY <2>2
  <2> QED BY <2>1, <2>2
<1>2. Min({ a, b }) \in { a, b } /\ \A y \in { a, b } : Min({ a, b }) <= y
  BY <1>1 DEF Min
<1> QED BY <1>2

(* Cutting a sequence in two loses nothing.                                *)
LEMMA TakeDrop ==
  ASSUME NEW S, NEW s \in Seq(S), NEW k \in 0 .. Len(s)
  PROVE  /\ SubSeq(s, 1, k) \in Seq(S) /\ SubSeq(s, k + 1, Len(s)) \in Seq(S)
         /\ Len(SubSeq(s, 1, k)) = k /\ Len(SubSeq(s, k + 1, Len(s))) = Len(s) - k
         /\ \A i \in 1 .. k : SubSeq(s, 1, k)[i] = s[i]
         /\ \A i \in 1 .. Len(s) - k : SubSeq(s, k + 1, Len(s))[i] = s[k + i]
         /\ SubSeq(s, 1, k) \o SubSeq(s, k + 1, Len(s)) = s
<1>0. Len(s) \in Nat /\ \A i \in 1 .. Len(s) : s[i] \in S
  BY LenProperties, ElementOfSeq
<1>1. /\ SubSeq(s, 1, k) \in Seq(S)
      /\ Len(SubSeq(s, 1, k)) = IF 1 <= k THEN k - 1 + 1 ELSE 0
      /\ \A i \in 1 .. k - 1 + 1 : SubSeq(s, 1, k)[i] = s[1 + i - 1]
  <2>1. \A i \in 1 .. k : s[i] \in S
    BY <1>0
  <2> QED BY <1>0, <2>1, SubSeqProperties
<1>2. /\ SubSeq(s, k + 1, Len(s)) \in Seq(S)
      /\ Len(SubSeq(s, k + 1, Len(s))) = IF k + 1 <= Len(s) THEN Len(s) - (k + 1) + 1 ELSE 0
      /\ \A i \in 1 .. Len(s) - (k + 1) + 1 : SubSeq(s, k + 1, Len(s))[i] = s[(k + 1) + i - 1]
  <2>1. \A i \in k + 1 .. Len(s) : s[i] \in S
    BY <1>0
  <2>2. k + 1 \in Int /\ Len(s) \in Int
    BY <1>0
  <2> QED BY <2>1, <2>2, SubSeqProperties
<1>3. SubSeq(s, 1, k) \o SubSeq(s, k + 1, Len(s)) = s
  <2>1. 1 \in 1 .. Len(s) + 1 /\ k \in 1 - 1 .. Len(s) /\ Len(s) \in k .. Len(s)
    BY <1>0
  <2>2. SubSeq(s, 1, k) \o SubSeq(s, k + 1, Len(s)) = SubSeq(s, 1, Len(s))
    BY <2>1, ConcatAdjacentSubSeq
  <2> QED BY <2>2, SubSeqFull
<1> DEFINE front == SubSeq(s, 1, k)
           rest == SubSeq(s, k + 1, Len(s))
<1>4. front \in Seq(S) /\ Len(front) = k /\ \A i \in 1 .. k : front[i] = s[i]
  <2>1. k - 1 + 1 = k /\ \A i \in 1 .. k : 1 + i - 1 = i
    BY <1>0
  <2>2. Len(front) = k
    BY <1>0, <1>1
  <2> QED BY <1>1, <2>1, <2>2
<1>5. rest \in Seq(S) /\ Len(rest) = Len(s) - k /\ \A i \in 1 .. Len(s) - k : rest[i] = s[k + i]
  <2>1. Len(s) - (k + 1) + 1 = Len(s) - k /\ \A i \in 1 .. Len(s) - k : (k + 1) + i - 1 = k + i
    BY <1>0
  <2>2. Len(rest) = Len(s) - k
    BY <1>0, <1>2
  <2> QED BY <1>2, <2>1, <2>2
<1> QED BY <1>3, <1>4, <1>5

(* Moving the front of one sequence to the end of the one before it.       *)
LEMMA Moved ==
  ASSUME NEW S, NEW r \in Seq(S), NEW s \in Seq(S), NEW k \in 0 .. Len(s)
  PROVE  (r \o SubSeq(s, 1, k)) \o SubSeq(s, k + 1, Len(s)) = r \o s
<1> DEFINE front == SubSeq(s, 1, k)
           rest == SubSeq(s, k + 1, Len(s))
<1>1. front \in Seq(S) /\ rest \in Seq(S)
  BY TakeDrop
<1>2. front \o rest = s
  BY TakeDrop
<1> HIDE DEF front, rest
<1>3. (r \o front) \o rest = r \o (front \o rest)
  BY <1>1, ConcatAssociative
<1>4. (r \o front) \o rest = r \o s
  BY <1>2, <1>3
<1> QED BY <1>4 DEF front, rest

(* What is read, in the pipe, in the buffer and still to write, in a row.   *)
InARow(r, s, t, u) == r \o s \o t \o u

Nested(r, s, t, u) == r \o (s \o (t \o u))

(* Four sequences in a row may be grouped from either side.                *)
LEMMA FourInARow ==
  ASSUME NEW S, NEW r \in Seq(S), NEW s \in Seq(S), NEW t \in Seq(S), NEW u \in Seq(S)
  PROVE  InARow(r, s, t, u) \in Seq(S) /\ InARow(r, s, t, u) = Nested(r, s, t, u)
<1>1. /\ r \o s \in Seq(S) /\ t \o u \in Seq(S)
      /\ r \o s \o t \in Seq(S) /\ r \o s \o t \o u \in Seq(S)
  BY ConcatProperties
<1>2. (r \o s) \o t \o u = (r \o s) \o (t \o u)
  <2> DEFINE rs == r \o s
  <2>1. rs \in Seq(S)
    BY <1>1
  <2> HIDE DEF rs
  <2>2. (rs \o t) \o u = rs \o (t \o u)
    BY <2>1, ConcatAssociative, SMTT(30)
  <2> QED BY <2>2 DEF rs
<1>3. (r \o s) \o (t \o u) = r \o (s \o (t \o u))
  <2> DEFINE tu == t \o u
  <2>1. tu \in Seq(S)
    BY <1>1
  <2> HIDE DEF tu
  <2>2. (r \o s) \o tu = r \o (s \o tu)
    BY <2>1, ConcatAssociative, SMTT(30)
  <2> QED BY <2>2 DEF tu
<1>4. r \o s \o t \o u = r \o (s \o (t \o u))
  BY <1>2, <1>3
<1>5. InARow(r, s, t, u) = Nested(r, s, t, u)
  BY <1>4 DEF InARow, Nested
<1>6. InARow(r, s, t, u) \in Seq(S)
  BY <1>1 DEF InARow
<1> QED BY <1>5, <1>6

-----------------------------------------------------------------------------
(***************************************************************************)
(* Flattening: FlattenSeq is the last value of a recursive function, whose *)
(* existence and values come by least counterexample.                      *)
(***************************************************************************)

(* f flattens the first n of the sequences ss, one more at each index.     *)
Flattens(ss, n, f) ==
  f = [i \in 1 .. n |-> IF i = 1 THEN ss[i] ELSE f[i - 1] \o ss[i]]

LEMMA FlattensExists ==
  ASSUME NEW ss, NEW n \in Nat
  PROVE  \E f : Flattens(ss, n, f)
<1> DEFINE Missing == { m \in Nat : ~ \E f : Flattens(ss, m, f) }
<1>1. SUFFICES ASSUME Missing # {} PROVE FALSE
  OBVIOUS
<1>2. PICK m \in Missing : \A k \in Missing : m <= k
  <2>1. Missing \subseteq Nat
    OBVIOUS
  <2> HIDE DEF Missing
  <2> QED BY <1>1, <2>1, LeastExists
<1>3. CASE m = 0
  <2> DEFINE f == [i \in 1 .. 0 |-> ss[i]]
  <2>1. f = [i \in 1 .. 0 |-> IF i = 1 THEN ss[i] ELSE f[i - 1] \o ss[i]]
    OBVIOUS
  <2>2. Flattens(ss, 0, f)
    BY <2>1 DEF Flattens
  <2> QED BY <1>3, <2>2
<1>4. CASE m # 0
  <2>1. m - 1 \in Nat /\ ~(m <= m - 1)
    BY <1>4
  <2>2. PICK g : Flattens(ss, m - 1, g)
    BY <1>2, <2>1
  <2> DEFINE f == [i \in 1 .. m |->
                    IF i = m THEN (IF m = 1 THEN ss[m] ELSE g[m - 1] \o ss[m]) ELSE g[i]]
  <2>3. ASSUME NEW i \in 1 .. m
        PROVE  f[i] = IF i = 1 THEN ss[i] ELSE f[i - 1] \o ss[i]
    <3>1. CASE i = m
      <4>1. m # 1 => m - 1 \in 1 .. m /\ m - 1 # m
        BY <2>1
      <4>2. m # 1 => f[m - 1] = g[m - 1]
        BY <4>1
      <4> QED BY <3>1, <4>2
    <3>2. CASE i # m
      <4>1. i \in 1 .. m - 1 /\ (i # 1 => i - 1 \in 1 .. m /\ i - 1 # m)
        BY <2>1, <3>2
      <4>2. g[i] = IF i = 1 THEN ss[i] ELSE g[i - 1] \o ss[i]
        BY <2>2, <4>1 DEF Flattens
      <4> QED BY <3>2, <4>1, <4>2
    <3> QED BY <3>1, <3>2
  <2>4. f = [i \in 1 .. m |-> IF i = 1 THEN ss[i] ELSE f[i - 1] \o ss[i]]
    <3> DEFINE h == [i \in 1 .. m |-> IF i = 1 THEN ss[i] ELSE f[i - 1] \o ss[i]]
    <3>1. \A i \in 1 .. m : f[i] = h[i]
      <4> HIDE DEF f
      <4> QED BY <2>3
    <3>2. f = [i \in 1 .. m |-> f[i]] /\ h = [i \in 1 .. m |-> h[i]]
      OBVIOUS
    <3> HIDE DEF f, h
    <3>3. f = h
      BY <3>1, <3>2
    <3> QED BY <3>3 DEF h
  <2>5. Flattens(ss, m, f)
    BY <2>4 DEF Flattens
  <2> QED BY <2>5
<1> QED BY <1>3, <1>4

(* What flattens a list also flattens the lists it begins with: two such   *)
(* functions agree where their lists do.                                   *)
LEMMA FlattensAgree ==
  ASSUME NEW ss, NEW tt, NEW f, NEW g, NEW n \in Nat, NEW m \in Nat, m <= n,
         Flattens(ss, m, f), Flattens(tt, n, g), \A i \in 1 .. m : ss[i] = tt[i]
  PROVE  \A i \in 1 .. m : f[i] = g[i]
<1> DEFINE Differ == { i \in 1 .. m : f[i] # g[i] }
<1>1. SUFFICES ASSUME Differ # {} PROVE FALSE
  OBVIOUS
<1>2. PICK i \in Differ : \A k \in Differ : i <= k
  <2>1. Differ \subseteq Nat
    OBVIOUS
  <2> HIDE DEF Differ
  <2> QED BY <1>1, <2>1, LeastExists
<1>3. i \in 1 .. m /\ i \in 1 .. n
  OBVIOUS
<1>4. /\ f[i] = IF i = 1 THEN ss[i] ELSE f[i - 1] \o ss[i]
      /\ g[i] = IF i = 1 THEN tt[i] ELSE g[i - 1] \o tt[i]
  BY <1>3 DEF Flattens
<1>5. i # 1 => f[i - 1] = g[i - 1]
  <2>1. i # 1 => i - 1 \in 1 .. m /\ ~(i <= i - 1)
    BY <1>3
  <2> QED BY <1>2, <2>1
<1> QED BY <1>3, <1>4, <1>5

LEMMA FlattenIsLast ==
  ASSUME NEW S, NEW ss \in Seq(S), ss # <<>>
  PROVE  \E f : Flattens(ss, Len(ss), f) /\ FlattenSeq(ss) = f[Len(ss)]
<1> DEFINE f == CHOOSE f : Flattens(ss, Len(ss), f)
<1>1. Len(ss) \in Nat /\ Len(ss) # 0
  BY EmptySeq, LenProperties
<1>2. Flattens(ss, Len(ss), f)
  BY <1>1, FlattensExists
<1>3. FlattenSeq(ss) = f[Len(ss)]
  BY <1>1 DEF FlattenSeq, Flattens
<1> QED BY <1>2, <1>3
(* Flattening sequences over a set gives a sequence over it.               *)
LEMMA FlattenTyped ==
  ASSUME NEW S, NEW ss \in Seq(Seq(S))
  PROVE  FlattenSeq(ss) \in Seq(S)
<1>1. CASE ss = <<>>
  BY <1>1, EmptySeq DEF FlattenSeq
<1>2. CASE ss # <<>>
  <2>1. Len(ss) \in Nat /\ Len(ss) # 0 /\ \A i \in 1 .. Len(ss) : ss[i] \in Seq(S)
    BY <1>2, EmptySeq, LenProperties, ElementOfSeq
  <2>2. PICK f : Flattens(ss, Len(ss), f) /\ FlattenSeq(ss) = f[Len(ss)]
    BY <1>2, FlattenIsLast
  <2> DEFINE Bad == { i \in 1 .. Len(ss) : f[i] \notin Seq(S) }
  <2>3. Bad = {}
    <3>1. SUFFICES ASSUME Bad # {} PROVE FALSE
      OBVIOUS
    <3>2. PICK i \in Bad : \A k \in Bad : i <= k
      <4>1. Bad \subseteq Nat
        OBVIOUS
      <4> HIDE DEF Bad
      <4> QED BY <3>1, <4>1, LeastExists
    <3>3. f[i] = IF i = 1 THEN ss[i] ELSE f[i - 1] \o ss[i]
      BY <2>2 DEF Flattens
    <3>4. i # 1 => f[i - 1] \in Seq(S)
      <4>1. i # 1 => i - 1 \in 1 .. Len(ss) /\ ~(i <= i - 1)
        BY <2>1
      <4> QED BY <3>2, <4>1
    <3>5. f[i] \in Seq(S)
      BY <2>1, <3>3, <3>4, ConcatProperties
    <3> QED BY <3>5
  <2>4. Len(ss) \in 1 .. Len(ss)
    BY <2>1
  <2> QED BY <2>2, <2>3, <2>4
<1> QED BY <1>1, <1>2

(* One more sequence is added at the end.                                  *)
LEMMA FlattenAppend ==
  ASSUME NEW S, NEW ss \in Seq(Seq(S)), NEW s \in Seq(S)
  PROVE  FlattenSeq(Append(ss, s)) = FlattenSeq(ss) \o s
<1> DEFINE tt == Append(ss, s)
<1>1. /\ tt \in Seq(Seq(S)) /\ tt # <<>> /\ Len(tt) = Len(ss) + 1
      /\ \A i \in 1 .. Len(ss) : tt[i] = ss[i]
      /\ tt[Len(ss) + 1] = s /\ Len(ss) \in Nat
  BY AppendProperties, LenProperties
<1> HIDE DEF tt
<1>2. PICK g : Flattens(tt, Len(tt), g) /\ FlattenSeq(tt) = g[Len(tt)]
  BY <1>1, FlattenIsLast
<1>3. g[Len(tt)] = IF Len(tt) = 1 THEN s ELSE g[Len(ss)] \o s
  <2>1. Len(tt) \in 1 .. Len(tt) /\ Len(tt) - 1 = Len(ss)
    BY <1>1
  <2> QED BY <1>1, <1>2, <2>1 DEF Flattens
<1>4. CASE ss = <<>>
  <2>1. FlattenSeq(ss) = <<>> /\ Len(ss) = 0
    BY <1>4, EmptySeq DEF FlattenSeq
  <2> QED BY <1>1, <1>2, <1>3, <2>1, ConcatEmptySeq DEF tt
<1>5. CASE ss # <<>>
  <2>1. PICK f : Flattens(ss, Len(ss), f) /\ FlattenSeq(ss) = f[Len(ss)]
    BY <1>5, FlattenIsLast
  <2>2. Len(ss) # 0 /\ Len(ss) \in 1 .. Len(ss)
    BY <1>1, <1>5, EmptySeq
  <2>3. f[Len(ss)] = g[Len(ss)]
    <3>1. \A i \in 1 .. Len(ss) : ss[i] = tt[i]
      BY <1>1
    <3>2. Len(ss) \in Nat /\ Len(tt) \in Nat /\ Len(ss) <= Len(tt)
      BY <1>1
    <3>3. Flattens(ss, Len(ss), f) /\ Flattens(tt, Len(tt), g)
      BY <1>2, <2>1
    <3>4. \A i \in 1 .. Len(ss) : f[i] = g[i]
      BY <3>1, <3>2, <3>3, FlattensAgree
    <3> QED BY <2>2, <3>4
  <2> QED BY <1>1, <1>2, <1>3, <2>1, <2>2, <2>3 DEF tt
<1> QED BY <1>4, <1>5

-----------------------------------------------------------------------------
(***************************************************************************)
(* Frames, and the responses so far.                                       *)
(***************************************************************************)

LEMMA FrameProperties ==
  ASSUME NEW i \in Nat, NEW length \in Nat
  PROVE  /\ Frame(i, length) \in Seq({ b \in WireByte : b.of = i })
         /\ Frame(i, length) \in Seq(WireByte)
         /\ Len(Frame(i, length)) = HeaderBytes + length
         /\ HeaderBytes + length > 0
         /\ Bytes(Frame(i, length), i, 0)
<1>1. HeaderBytes \in Nat /\ HeaderBytes > 0 /\ HeaderBytes + length \in Nat
  BY TesteeAssumption
<1>2. \A k \in 1 .. HeaderBytes + length :
        [of |-> i, at |-> k] \in { b \in WireByte : b.of = i }
  BY <1>1 DEF WireByte
<1>3. Frame(i, length) \in [1 .. HeaderBytes + length -> { b \in WireByte : b.of = i }]
  BY <1>2 DEF Frame
<1>4. Frame(i, length) \in Seq({ b \in WireByte : b.of = i })
  BY <1>1, <1>3, SeqDef
<1>5. Len(Frame(i, length)) = HeaderBytes + length
  BY <1>1, <1>3, <1>4, LenProperties
<1>6. Frame(i, length) \in Seq(WireByte)
  BY <1>4, SeqMonotonic
<1>7. Bytes(Frame(i, length), i, 0)
  BY <1>1, <1>5 DEF Bytes, Frame
<1> QED BY <1>1, <1>4, <1>5, <1>6, <1>7
(* Cutting a run of the bytes of a message gives two runs.                 *)
LEMMA BytesCut ==
  ASSUME NEW s \in Seq(WireByte), NEW i, NEW from \in Nat, Bytes(s, i, from),
         NEW k \in 0 .. Len(s)
  PROVE  Bytes(SubSeq(s, 1, k), i, from) /\ Bytes(SubSeq(s, k + 1, Len(s)), i, from + k)
<1> DEFINE front == SubSeq(s, 1, k)
           rest == SubSeq(s, k + 1, Len(s))
<1>1. Len(s) \in Nat /\ Len(front) = k /\ Len(rest) = Len(s) - k
  BY LenProperties, TakeDrop
<1>2. \A j \in 1 .. k : front[j] = s[j]
  BY TakeDrop
<1>3. \A j \in 1 .. Len(s) - k : rest[j] = s[k + j]
  BY TakeDrop
<1> HIDE DEF front, rest
<1>4. ASSUME NEW j \in 1 .. Len(front) PROVE front[j] = [of |-> i, at |-> from + j]
  <2>1. j \in 1 .. k /\ j \in 1 .. Len(s)
    BY <1>1
  <2> QED BY <1>2, <2>1 DEF Bytes
<1>5. ASSUME NEW j \in 1 .. Len(rest) PROVE rest[j] = [of |-> i, at |-> (from + k) + j]
  <2>1. k + j \in 1 .. Len(s) /\ from + (k + j) = (from + k) + j
    BY <1>1
  <2>2. s[k + j] = [of |-> i, at |-> from + (k + j)]
    BY <2>1 DEF Bytes
  <2> QED BY <1>1, <1>3, <2>1, <2>2
<1> QED BY <1>4, <1>5 DEF front, rest, Bytes

(* Two runs, one after the other, are a run.                               *)
LEMMA BytesJoin ==
  ASSUME NEW s \in Seq(WireByte), NEW t \in Seq(WireByte), NEW i, NEW from \in Nat,
         Bytes(s, i, from), Bytes(t, i, from + Len(s))
  PROVE  Bytes(s \o t, i, from)
<1>1. /\ Len(s) \in Nat /\ Len(t) \in Nat /\ Len(s \o t) = Len(s) + Len(t)
      /\ \A j \in 1 .. Len(s) + Len(t) :
           (s \o t)[j] = IF j <= Len(s) THEN s[j] ELSE t[j - Len(s)]
  BY LenProperties, ConcatProperties
<1>2. ASSUME NEW j \in 1 .. Len(s \o t) PROVE (s \o t)[j] = [of |-> i, at |-> from + j]
  <2>1. CASE j <= Len(s)
    <3>1. j \in 1 .. Len(s)
      BY <1>1, <2>1
    <3> QED BY <1>1, <2>1, <3>1 DEF Bytes
  <2>2. CASE ~(j <= Len(s))
    <3>1. j - Len(s) \in 1 .. Len(t) /\ (from + Len(s)) + (j - Len(s)) = from + j
      BY <1>1, <2>2
    <3>2. t[j - Len(s)] = [of |-> i, at |-> (from + Len(s)) + (j - Len(s))]
      BY <3>1 DEF Bytes
    <3> QED BY <1>1, <2>2, <3>1, <3>2
  <2> QED BY <2>1, <2>2
<1> QED BY <1>2 DEF Bytes

(* The responses of the lengths in a.                                      *)
ResponsesOf(a) == FlattenSeq([i \in 1 .. Len(a) |-> Frame(i, a[i])])

LEMMA FramesTyped ==
  ASSUME NEW a \in Seq(Nat)
  PROVE  /\ [i \in 1 .. Len(a) |-> Frame(i, a[i])] \in Seq(Seq({ b \in WireByte : b.of <= Len(a) }))
         /\ [i \in 1 .. Len(a) |-> Frame(i, a[i])] \in Seq(Seq(WireByte))
         /\ Len([i \in 1 .. Len(a) |-> Frame(i, a[i])]) = Len(a)
<1> DEFINE frames == [i \in 1 .. Len(a) |-> Frame(i, a[i])]
           Upto == { b \in WireByte : b.of <= Len(a) }
<1>1. Len(a) \in Nat /\ \A i \in 1 .. Len(a) : a[i] \in Nat
  BY LenProperties, ElementOfSeq
<1>2. ASSUME NEW i \in 1 .. Len(a) PROVE Frame(i, a[i]) \in Seq(Upto) /\ Frame(i, a[i]) \in Seq(WireByte)
  <2>1. /\ Frame(i, a[i]) \in Seq({ b \in WireByte : b.of = i })
        /\ Frame(i, a[i]) \in Seq(WireByte)
    <3>1. i \in Nat /\ a[i] \in Nat
      BY <1>1
    <3> QED BY <3>1, FrameProperties
  <2>2. { b \in WireByte : b.of = i } \subseteq Upto
    BY <1>1
  <2> HIDE DEF Upto
  <2> QED BY <2>1, <2>2, SeqMonotonic
<1> HIDE DEF Upto
<1>3. frames \in [1 .. Len(a) -> Seq(Upto)] /\ frames \in [1 .. Len(a) -> Seq(WireByte)]
  BY <1>2
<1> HIDE DEF frames
<1>4. frames \in Seq(Seq(Upto)) /\ frames \in Seq(Seq(WireByte))
  <2>1. \A T : frames \in [1 .. Len(a) -> T] => frames \in Seq(T)
    BY <1>1, SeqDef
  <2> QED BY <1>3, <2>1
<1>5. Len(frames) = Len(a)
  BY <1>1, <1>3, <1>4, LenProperties
<1> QED BY <1>4, <1>5 DEF Upto, frames

LEMMA ResponsesTyped ==
  ASSUME NEW a \in Seq(Nat)
  PROVE  /\ ResponsesOf(a) \in Seq({ b \in WireByte : b.of <= Len(a) })
         /\ ResponsesOf(a) \in Seq(WireByte)
BY FramesTyped, FlattenTyped DEF ResponsesOf

(* A response more is one frame more.                                      *)
LEMMA ResponsesAppend ==
  ASSUME NEW a \in Seq(Nat), NEW n \in Nat
  PROVE  ResponsesOf(Append(a, n)) = ResponsesOf(a) \o Frame(Len(a) + 1, n)
<1> DEFINE b == Append(a, n)
           frames == [i \in 1 .. Len(a) |-> Frame(i, a[i])]
           more == [i \in 1 .. Len(b) |-> Frame(i, b[i])]
           last == Frame(Len(a) + 1, n)
<1>1. /\ Len(a) \in Nat /\ b \in Seq(Nat) /\ Len(b) = Len(a) + 1
      /\ \A i \in 1 .. Len(a) : b[i] = a[i]
      /\ b[Len(a) + 1] = n
  BY LenProperties, AppendProperties
<1> HIDE DEF b
<1>2. frames \in Seq(Seq(WireByte)) /\ more \in Seq(Seq(WireByte))
      /\ Len(frames) = Len(a) /\ Len(more) = Len(b)
  BY <1>1, FramesTyped
<1>3. last \in Seq(WireByte)
  <2>1. Len(a) + 1 \in Nat
    BY <1>1
  <2> QED BY <2>1, FrameProperties
<1>4. more = Append(frames, last)
  <2>1. /\ Append(frames, last) \in Seq(Seq(WireByte))
        /\ Len(Append(frames, last)) = Len(frames) + 1
        /\ \A i \in 1 .. Len(frames) : Append(frames, last)[i] = frames[i]
        /\ Append(frames, last)[Len(frames) + 1] = last
    <3> HIDE DEF frames, last
    <3> QED BY <1>2, <1>3, AppendProperties
  <2>2. ASSUME NEW i \in 1 .. Len(b) PROVE more[i] = Append(frames, last)[i]
    <3>1. CASE i \in 1 .. Len(a)
      <4>1. more[i] = Frame(i, a[i]) /\ frames[i] = Frame(i, a[i])
        BY <1>1, <3>1
      <4> QED BY <1>2, <2>1, <3>1, <4>1
    <3>2. CASE i = Len(a) + 1
      <4>1. more[i] = last
        BY <1>1, <3>2
      <4> QED BY <1>2, <2>1, <3>2, <4>1
    <3> QED BY <1>1, <3>1, <3>2
  <2>3. Len(Append(frames, last)) = Len(more)
    BY <1>1, <1>2, <2>1
  <2> HIDE DEF frames, last, more
  <2> QED BY <1>2, <2>1, <2>2, <2>3, SeqEqual
<1>5. FlattenSeq(more) = FlattenSeq(frames) \o last
  <2> HIDE DEF frames, last, more
  <2> QED BY <1>2, <1>3, <1>4, FlattenAppend
<1> QED BY <1>5 DEF ResponsesOf, b

(* The last byte of the last response is nowhere else in the responses.    *)
LEMMA LastByteIsLast ==
  ASSUME NEW a \in Seq(Nat), a # <<>>, NEW k \in 1 .. Len(ResponsesOf(a)),
         ResponsesOf(a)[k] = [of |-> Len(a), at |-> HeaderBytes + a[Len(a)]]
  PROVE  k = Len(ResponsesOf(a))
<1>1. PICK b \in Seq(Nat), n \in Nat : a = Append(b, n)
  BY SequenceEmptyOrAppend
<1> DEFINE before == ResponsesOf(b)
           last == Frame(Len(b) + 1, n)
<1>2. Len(b) \in Nat /\ Len(a) = Len(b) + 1 /\ a[Len(a)] = n
  BY <1>1, AppendProperties, LenProperties
<1>3. ResponsesOf(a) = before \o last
  BY <1>1, ResponsesAppend
<1>4. before \in Seq(WireByte) /\ before \in Seq({ x \in WireByte : x.of <= Len(b) })
  BY ResponsesTyped
<1>5. last \in Seq(WireByte) /\ Len(last) = HeaderBytes + n /\ Bytes(last, Len(b) + 1, 0)
  <2>1. Len(b) + 1 \in Nat
    BY <1>2
  <2> QED BY <2>1, FrameProperties
<1> HIDE DEF before, last
<1>6. /\ Len(before) \in Nat /\ Len(last) \in Nat /\ HeaderBytes \in Nat
      /\ Len(before \o last) = Len(before) + Len(last)
      /\ \A i \in 1 .. Len(before) + Len(last) :
           (before \o last)[i] = IF i <= Len(before) THEN before[i] ELSE last[i - Len(before)]
  BY <1>4, <1>5, LenProperties, ConcatProperties, TesteeAssumption
<1>7. k \in 1 .. Len(before) + Len(last)
  BY <1>3, <1>6
<1>8. (before \o last)[k] = [of |-> Len(b) + 1, at |-> HeaderBytes + n]
  BY <1>2, <1>3
<1>9. ~(k <= Len(before))
  <2> SUFFICES ASSUME k <= Len(before) PROVE FALSE
    OBVIOUS
  <2>1. k \in 1 .. Len(before) /\ before[k] = [of |-> Len(b) + 1, at |-> HeaderBytes + n]
    BY <1>6, <1>7, <1>8
  <2>2. before[k] \in { x \in WireByte : x.of <= Len(b) }
    BY <1>4, <2>1, ElementOfSeq
  <2>3. before[k].of <= Len(b) /\ before[k].of = Len(b) + 1
    BY <2>1, <2>2
  <2> QED BY <1>2, <2>3
<1>10. k - Len(before) \in 1 .. Len(last)
       /\ last[k - Len(before)] = [of |-> Len(b) + 1, at |-> HeaderBytes + n]
  BY <1>6, <1>7, <1>8, <1>9, SMTT(60)
<1>11. last[k - Len(before)] = [of |-> Len(b) + 1, at |-> 0 + (k - Len(before))]
  BY <1>5, <1>10 DEF Bytes
<1>12. last[k - Len(before)].at = HeaderBytes + n
       /\ last[k - Len(before)].at = 0 + (k - Len(before))
  <2>1. last[k - Len(before)].at = HeaderBytes + n
    BY <1>10
  <2>2. last[k - Len(before)].at = 0 + (k - Len(before))
    BY <1>11
  <2> QED BY <2>1, <2>2
<1> QED BY <1>3, <1>5, <1>6, <1>7, <1>12
-----------------------------------------------------------------------------
(***************************************************************************)
(* The invariant.                                                          *)
(***************************************************************************)

(* The numbers the state is measured in.                                   *)
Numbers ==
  /\ HeaderBytes \in Nat /\ HeaderBytes > 0
  /\ PipeCapacity \in Nat /\ ReadBuffer \in Nat /\ WriteBuffer \in Nat
  /\ PipeCapacity > 0 /\ ReadBuffer > 0 /\ WriteBuffer > 0
  /\ MaxFrame \in Nat /\ MaxExchanges \in Nat
  /\ Len(have) \in Nat /\ Len(inbuf) \in Nat /\ Len(stdin) \in Nat
  /\ Len(toSend) \in Nat /\ Len(outbuf) \in Nat /\ Len(stdout) \in Nat /\ Len(got) \in Nat
  /\ Len(requests) \in Nat /\ Len(answers) \in Nat
  /\ written \in Nat /\ size \in Nat /\ Gone \in Nat
  /\ requests # <<>> <=> Len(requests) > 0
  /\ requests # <<>> =>
       /\ requests[Len(requests)].size \in Nat
       /\ FrameLength(Len(requests)) \in Nat /\ FrameLength(Len(requests)) >= HeaderBytes

LEMMA NumbersAreNumbers == ASSUME TypeOK PROVE Numbers
<1>1. /\ HeaderBytes \in Nat /\ HeaderBytes > 0
      /\ PipeCapacity \in Nat /\ ReadBuffer \in Nat /\ WriteBuffer \in Nat
      /\ PipeCapacity > 0 /\ ReadBuffer > 0 /\ WriteBuffer > 0
      /\ MaxFrame \in Nat /\ MaxExchanges \in Nat
  BY TesteeAssumption
<1>2. /\ Len(have) \in Nat /\ Len(inbuf) \in Nat /\ Len(stdin) \in Nat
      /\ Len(toSend) \in Nat /\ Len(outbuf) \in Nat /\ Len(stdout) \in Nat /\ Len(got) \in Nat
  BY LenProperties DEF TypeOK
<1>3. Len(requests) \in Nat /\ Len(answers) \in Nat
  BY LenProperties DEF TypeOK
<1>4. written \in Nat /\ size \in Nat /\ Gone \in Nat
  BY <1>1 DEF TypeOK, Gone
<1>5. requests # <<>> <=> Len(requests) > 0
  BY <1>3, EmptySeq DEF TypeOK
<1>6. ASSUME requests # <<>>
      PROVE  /\ requests[Len(requests)].size \in Nat
             /\ FrameLength(Len(requests)) \in Nat /\ FrameLength(Len(requests)) >= HeaderBytes
  <2>1. Len(requests) \in 1 .. Len(requests)
    BY <1>3, <1>5, <1>6
  <2>2. requests[Len(requests)] \in Request
    BY <2>1, ElementOfSeq DEF TypeOK
  <2>3. requests[Len(requests)].size \in Nat
    BY <2>2, TesteeAssumption DEF Request
  <2> QED BY <1>1, <2>3 DEF FrameLength
<1> QED BY <1>1, <1>2, <1>3, <1>4, <1>5, <1>6 DEF Numbers

LEMMA EmptyBytes == \A i, from : Bytes(<<>>, i, from)
BY DEF Bytes

(* Responses is ResponsesOf the answers, in this state and the next.       *)
LEMMA ResponsesAre == Responses = ResponsesOf(answers)
BY DEF Responses, ResponsesOf

LEMMA InitHolds == Init => IInv
<1> SUFFICES ASSUME Init PROVE IInv
  OBVIOUS
<1> USE DEF Init
<1>1. Len(<<>>) = 0 /\ \A S : <<>> \in Seq(S)
  BY EmptySeq
<1>2. TypeOK
  <2>1. 0 <= MaxExchanges /\ 0 <= PipeCapacity /\ 0 <= ReadBuffer /\ 0 <= WriteBuffer
        /\ 0 <= HeaderBytes
    BY TesteeAssumption
  <2> QED BY <1>1, <2>1 DEF TypeOK, Wanted
<1>3. Received
  BY DEF Received, Idle
<1>4. RunnerKnows
  BY DEF RunnerKnows
<1>5. EndIsFinal
  BY DEF EndIsFinal
<1>6. Sent
  <2>1. Responses = <<>>
    BY <1>1 DEF Responses, FlattenSeq
  <2>2. <<>> \o <<>> \o <<>> \o <<>> = <<>>
    BY <1>1, ConcatEmptySeq
  <2> QED BY <2>1, <2>2 DEF Sent
<1> QED BY <1>2, <1>3, <1>4, <1>5, <1>6 DEF IInv

(* The runner begins an exchange when the last one is over.                *)
LEMMA RunnerBeginsStep == ASSUME IInv, RunnerBegins PROVE IInv'
<1> USE DEF runnerVars, readerVars, writerVars
<1>0. Numbers
  BY NumbersAreNumbers DEF IInv
<1>1. /\ runner = "idle" /\ runner' = "writing" /\ written' = 0
      /\ Len(requests) < MaxExchanges
      /\ UNCHANGED <<stdin, pc, readerVars, writerVars, stdout, got, exit>>
  BY DEF RunnerBegins
<1>2. PICK request \in Request : requests' = Append(requests, request)
  BY DEF RunnerBegins
<1>3. /\ requests' \in Seq(Request) /\ requests' # <<>> /\ Len(requests') = Len(requests) + 1
      /\ requests'[Len(requests')] = request /\ request.size \in Nat
  <2>1. requests \in Seq(Request)
    BY DEF IInv, TypeOK
  <2>2. request.size \in Nat
    BY TesteeAssumption DEF Request
  <2> QED BY <1>2, <2>1, <2>2, AppendProperties
<1>4. Len(answers) = Len(requests) /\ toSend = <<>>
  BY <1>1 DEF IInv, RunnerKnows
<1>5. have = <<>> /\ inbuf = <<>> /\ stdin = <<>> /\ pc # "body"
  BY <1>0, <1>4 DEF IInv, Received, Arriving, Cut, Idle, Numbers
<1>6. FrameLength(Len(requests))' \in Nat /\ FrameLength(Len(requests))' > 0
  BY <1>0, <1>3 DEF FrameLength, Numbers
<1>7. TypeOK'
  BY <1>0, <1>1, <1>3 DEF IInv, TypeOK, Wanted, Numbers
<1>8. Arriving'
  <2>1. Gone' = 0 /\ Len(<<>>) = 0
    BY <1>1, <1>5, EmptySeq DEF Gone
  <2> QED BY <1>0, <1>1, <1>3, <1>4, <1>5, <1>6, <2>1, EmptyBytes DEF Arriving, Numbers
<1>9. Received'
  BY <1>1, <1>5, <1>8 DEF Received
<1>10. RunnerKnows'
  BY <1>1, <1>3, <1>6 DEF RunnerKnows
<1>11. EndIsFinal'
  BY <1>1 DEF IInv, EndIsFinal, InputEnded
<1>12. Sent'
  BY <1>1 DEF IInv, Sent, Responses
<1> QED BY <1>7, <1>9, <1>10, <1>11, <1>12 DEF IInv
(* The k bytes of a message that follow the first w of them.               *)
Piece(i, length, w, k) == SubSeq(Frame(i, length), w + 1, w + k)

(* They are a run of its bytes.                                            *)
LEMMA PieceOfFrame ==
  ASSUME NEW i \in Nat, NEW length \in Nat, NEW w \in Nat, NEW k \in Nat,
         w + k <= HeaderBytes + length
  PROVE  /\ Piece(i, length, w, k) \in Seq(WireByte)
         /\ Len(Piece(i, length, w, k)) = k
         /\ Bytes(Piece(i, length, w, k), i, w)
<1> DEFINE frame == Frame(i, length)
           piece == SubSeq(frame, w + 1, w + k)
<1>1. HeaderBytes \in Nat
  BY TesteeAssumption
<1>2. /\ frame \in Seq(WireByte) /\ Len(frame) = HeaderBytes + length
      /\ Bytes(frame, i, 0)
  BY FrameProperties
<1> HIDE DEF frame
<1>3. \A j \in w + 1 .. w + k : j \in 1 .. Len(frame) /\ frame[j] \in WireByte
  <2>1. \A j \in w + 1 .. w + k : j \in 1 .. Len(frame)
    BY <1>1, <1>2
  <2> QED BY <1>2, <2>1, ElementOfSeq
<1>4. /\ piece \in Seq(WireByte)
      /\ Len(piece) = IF w + 1 <= w + k THEN (w + k) - (w + 1) + 1 ELSE 0
      /\ \A j \in 1 .. (w + k) - (w + 1) + 1 : piece[j] = frame[(w + 1) + j - 1]
  <2>1. w + 1 \in Int /\ w + k \in Int
    OBVIOUS
  <2> QED BY <1>3, <2>1, SubSeqProperties
<1> HIDE DEF piece
<1>5. Len(piece) = k
  BY <1>4
<1>6. ASSUME NEW j \in 1 .. Len(piece) PROVE piece[j] = [of |-> i, at |-> w + j]
  <2>1. j \in 1 .. (w + k) - (w + 1) + 1 /\ (w + 1) + j - 1 = w + j /\ w + j \in w + 1 .. w + k
    BY <1>5
  <2>2. piece[j] = frame[w + j]
    BY <1>4, <2>1
  <2>3. w + j \in 1 .. Len(frame)
    BY <1>3, <2>1
  <2>4. frame[w + j] = [of |-> i, at |-> 0 + (w + j)]
    BY <1>2, <2>3 DEF Bytes
  <2> QED BY <2>1, <2>2, <2>4
<1> QED BY <1>4, <1>5, <1>6 DEF Piece, piece, frame, Bytes

(* It puts the next bytes of the request in the pipe.                      *)
LEMMA RunnerWritesStep == ASSUME IInv, RunnerWrites PROVE IInv'
<1> USE DEF runnerVars, readerVars, writerVars
<1>0. Numbers
  BY NumbersAreNumbers DEF IInv
<1> DEFINE n == Len(requests)
           length == requests[n].size
<1>1. /\ runner = "writing"
      /\ UNCHANGED <<requests, pc, readerVars, writerVars, stdout, got, exit>>
  BY DEF RunnerWrites
<1>2. requests # <<>> /\ written < FrameLength(n) /\ FrameLength(n) = HeaderBytes + length
      /\ n \in Nat /\ length \in Nat
  BY <1>0, <1>1 DEF IInv, RunnerKnows, FrameLength, Numbers
<1>3. LastRequest = Frame(n, length) /\ Len(LastRequest) = FrameLength(n)
  BY <1>2, FrameProperties DEF LastRequest
<1> DEFINE room == PipeCapacity - Len(stdin)
           left == FrameLength(n) - written
<1>4. room \in Nat /\ Len(stdin) + room = PipeCapacity
  <2>1. Len(stdin) <= PipeCapacity
    BY DEF IInv, TypeOK
  <2> QED BY <1>0, <2>1 DEF Numbers
<1>5. left \in Nat /\ written + left = FrameLength(n)
  <2>1. FrameLength(n) \in Nat /\ written \in Nat /\ written < FrameLength(n)
    BY <1>0, <1>2 DEF Numbers
  <2> HIDE DEF n
  <2> QED BY <2>1
<1>6. PICK k \in Nat :
        /\ k > 0 /\ k <= room /\ k <= left
        /\ stdin' = stdin \o SubSeq(Frame(n, length), written + 1, written + k)
        /\ written' = written + k
        /\ runner' = IF written + k = FrameLength(n) THEN "reading" ELSE runner
  <2>1. \E k \in 1 .. Min({ room, left }) :
          /\ stdin' = stdin \o SubSeq(Frame(n, length), written + 1, written + k)
          /\ written' = written + k
          /\ runner' = IF written + k = FrameLength(n) THEN "reading" ELSE runner
    BY <1>3 DEF RunnerWrites
  <2> HIDE DEF room, left
  <2>2. Min({ room, left }) \in Nat /\ Min({ room, left }) <= room /\ Min({ room, left }) <= left
    BY <1>4, <1>5, MinOfTwo
  <2>3. \A k \in 1 .. Min({ room, left }) : k \in Nat /\ k > 0 /\ k <= room /\ k <= left
    BY <1>4, <1>5, <2>2
  <2> QED BY <2>1, <2>3
<1>7. Len(stdin) + k <= PipeCapacity
  <2>1. Len(stdin) \in Nat
    BY <1>0 DEF Numbers
  <2> HIDE DEF room
  <2> QED BY <1>4, <1>6, <2>1
<1>8. written + k <= FrameLength(n)
  <2>1. written \in Nat
    BY <1>0 DEF Numbers
  <2> HIDE DEF n, left
  <2> QED BY <1>5, <1>6, <2>1
<1> DEFINE piece == Piece(n, length, written, k)
<1>9. piece \in Seq(WireByte) /\ Len(piece) = k /\ Bytes(piece, n, written)
  <2>1. n \in Nat /\ length \in Nat /\ written \in Nat
    BY <1>0, <1>2 DEF Numbers
  <2>2. written + k <= HeaderBytes + length
    <3> HIDE DEF n, length
    <3> QED BY <1>2, <1>8
  <2> HIDE DEF n, length
  <2> QED BY <2>1, <2>2, PieceOfFrame
<1>10. stdin' = stdin \o piece
  BY <1>6 DEF Piece
<1> HIDE DEF piece, room, left
<1>11. Arriving /\ pc # "end"
  BY <1>0, <1>1, <1>2 DEF IInv, Received, Idle, Arriving, Cut, EndIsFinal, InputEnded, Numbers
<1>12. stdin' \in Seq(WireByte) /\ Len(stdin') = Len(stdin) + k
  BY <1>9, <1>10, ConcatProperties DEF IInv, TypeOK
<1>13. Gone + Len(have) + Len(inbuf) + Len(stdin) = written
  BY <1>11 DEF Arriving
<1>14. Bytes(stdin', n, Gone + Len(have) + Len(inbuf))
  <2>1. Bytes(stdin, n, Gone + Len(have) + Len(inbuf)) /\ Gone + Len(have) + Len(inbuf) \in Nat
    BY <1>0, <1>11 DEF Arriving, Numbers
  <2>2. Bytes(piece, n, (Gone + Len(have) + Len(inbuf)) + Len(stdin))
    BY <1>9, <1>13
  <2>3. stdin \in Seq(WireByte)
    BY DEF IInv, TypeOK
  <2> QED BY <1>9, <1>10, <2>1, <2>2, <2>3, BytesJoin
<1>15. Arriving'
  <2>1. Gone' = Gone /\ FrameLength(Len(requests))' = FrameLength(n)
    BY <1>1 DEF Gone, FrameLength
  <2>2. written' <= FrameLength(n)
    BY <1>6, <1>8
  <2>3. Gone + Len(have) + Len(inbuf) + Len(stdin') = written'
    <3>1. /\ Gone \in Nat /\ Len(have) \in Nat /\ Len(inbuf) \in Nat /\ Len(stdin) \in Nat
          /\ written' = written + k /\ Len(stdin') = Len(stdin) + k
      BY <1>0, <1>6, <1>12 DEF Numbers
    <3> QED BY <1>13, <3>1
  <2> QED BY <1>1, <1>11, <1>14, <2>1, <2>2, <2>3 DEF Arriving
<1>16. Received'
  BY <1>1, <1>15 DEF IInv, Received
<1>17. TypeOK'
  <2>1. runner' \in { "idle", "writing", "reading", "closed", "died" } /\ written' \in Nat
    BY <1>0, <1>1, <1>6 DEF Numbers
  <2>2. Len(stdin') <= PipeCapacity
    BY <1>7, <1>12
  <2> QED BY <1>1, <1>12, <2>1, <2>2 DEF IInv, TypeOK, Wanted
<1>18. RunnerKnows'
  <2>1. FrameLength(Len(requests))' = FrameLength(n) /\ requests' # <<>>
    BY <1>1, <1>2 DEF FrameLength
  <2>2. \/ runner' = "reading" /\ written' = FrameLength(n)
        \/ runner' = "writing" /\ written' < FrameLength(n)
    <3>1. FrameLength(n) \in Nat /\ written + k \in Nat
      BY <1>0, <1>2, <1>6 DEF Numbers
    <3> HIDE DEF n
    <3> QED BY <1>1, <1>6, <1>8, <3>1
  <2> QED BY <2>1, <2>2 DEF RunnerKnows
<1>19. EndIsFinal'
  BY <1>1, <1>11 DEF IInv, EndIsFinal
<1>20. Sent'
  BY <1>1 DEF IInv, Sent, Responses
<1> QED BY <1>16, <1>17, <1>18, <1>19, <1>20 DEF IInv

(* It reads what is in the pipe; the last byte of the last response, which *)
(* is nowhere else, ends the exchange.                                     *)
LEMMA RunnerReadsStep == ASSUME IInv, RunnerReads PROVE IInv'
<1> USE DEF runnerVars, readerVars, writerVars
<1>0. Numbers
  BY NumbersAreNumbers DEF IInv
<1>1. /\ runner = "reading"
      /\ UNCHANGED <<requests, written, stdin, pc, readerVars, writerVars, exit>>
  BY DEF RunnerReads
<1>2. PICK k \in 1 .. Len(stdout) :
        /\ got' = got \o SubSeq(stdout, 1, k)
        /\ stdout' = SubSeq(stdout, k + 1, Len(stdout))
        /\ runner' = IF Answered(got') THEN "idle" ELSE runner
  BY DEF RunnerReads
<1>3. got \in Seq(WireByte) /\ stdout \in Seq(WireByte)
      /\ outbuf \in Seq(WireByte) /\ toSend \in Seq(WireByte) /\ answers \in Seq(Nat)
  BY DEF IInv, TypeOK
<1>4. k \in 0 .. Len(stdout) /\ k \in Nat
  BY <1>0 DEF Numbers
<1>5. stdout' \in Seq(WireByte) /\ Len(stdout') = Len(stdout) - k
  BY <1>2, <1>3, <1>4, TakeDrop
<1>6. got' \in Seq(WireByte)
  <2>1. SubSeq(stdout, 1, k) \in Seq(WireByte)
    BY <1>3, <1>4, TakeDrop
  <2> QED BY <1>2, <1>3, <2>1, ConcatProperties
<1>7. got' \o stdout' \o outbuf \o toSend = Responses
  <2>1. got' \o stdout' = got \o stdout
    BY <1>2, <1>3, <1>4, Moved
  <2> QED BY <2>1 DEF IInv, Sent
<1>8. ASSUME Answered(got')
      PROVE  Len(answers) = Len(requests) /\ toSend = <<>>
  <2>1. /\ Len(answers) = Len(requests) /\ got' # <<>>
        /\ Last(got') = [of |-> Len(answers), at |-> HeaderBytes + Last(answers)]
    BY <1>1, <1>8 DEF Answered
  <2>2. answers # <<>> /\ Last(answers) = answers[Len(answers)]
    BY <1>0, <1>1, <2>1, EmptySeq DEF IInv, RunnerKnows, Numbers, Last
  <2> DEFINE j == Len(got')
             rest == stdout' \o (outbuf \o toSend)
  <2>3. /\ outbuf \o toSend \in Seq(WireByte) /\ Len(outbuf \o toSend) = Len(outbuf) + Len(toSend)
        /\ rest \in Seq(WireByte) /\ Len(rest) = Len(stdout') + (Len(outbuf) + Len(toSend))
    <3>1. outbuf \o toSend \in Seq(WireByte) /\ Len(outbuf \o toSend) = Len(outbuf) + Len(toSend)
      BY <1>3, ConcatProperties
    <3>2. rest \in Seq(WireByte) /\ Len(rest) = Len(stdout') + Len(outbuf \o toSend)
      BY <1>5, <3>1, ConcatProperties
    <3> QED BY <3>1, <3>2
  <2>4. ResponsesOf(answers) = got' \o rest
    <3>1. InARow(got', stdout', outbuf, toSend) = got' \o rest
      <4>1. InARow(got', stdout', outbuf, toSend) = Nested(got', stdout', outbuf, toSend)
        BY <1>3, <1>5, <1>6, FourInARow
      <4> QED BY <4>1 DEF Nested
    <3> HIDE DEF rest
    <3> QED BY <1>7, <3>1, ResponsesAre DEF InARow
  <2> HIDE DEF rest
  <2>5. /\ j \in Nat /\ j > 0 /\ Len(rest) \in Nat
        /\ Len(got' \o rest) = j + Len(rest)
        /\ \A i \in 1 .. j + Len(rest) :
             (got' \o rest)[i] = IF i <= j THEN got'[i] ELSE rest[i - j]
    <3>1. j \in Nat /\ j > 0 /\ Len(rest) \in Nat
      BY <1>6, <2>1, <2>3, LenProperties, EmptySeq
    <3>2. rest \in Seq(WireByte)
      BY <2>3
    <3> QED BY <1>6, <3>1, <3>2, ConcatProperties
  <2>6. j \in 1 .. Len(got' \o rest) /\ (got' \o rest)[j] = got'[j]
    BY <2>5
  <2>7. got'[j] = [of |-> Len(answers), at |-> HeaderBytes + answers[Len(answers)]]
    BY <2>1, <2>2 DEF Last
  <2>8. j = Len(got' \o rest)
    <3>1. j \in 1 .. Len(ResponsesOf(answers))
      BY <2>4, <2>6
    <3>2. ResponsesOf(answers)[j] = [of |-> Len(answers), at |-> HeaderBytes + answers[Len(answers)]]
      BY <2>4, <2>6, <2>7
    <3>3. j = Len(ResponsesOf(answers))
      <4> HIDE DEF j
      <4> QED BY <1>3, <2>2, <3>1, <3>2, LastByteIsLast
    <3> QED BY <2>4, <3>3
  <2>9. Len(toSend) = 0
    <3>1. Len(rest) = 0
      BY <2>5, <2>8
    <3>2. Len(stdout') \in Nat /\ Len(outbuf) \in Nat /\ Len(toSend) \in Nat
      BY <1>3, <1>5, LenProperties
    <3>3. Len(stdout') + (Len(outbuf) + Len(toSend)) = 0
      BY <2>3, <3>1
    <3> QED BY <3>2, <3>3
  <2> QED BY <1>3, <2>1, <2>9, EmptySeq
<1>9. TypeOK'
  <2>1. runner' \in { "idle", "writing", "reading", "closed", "died" }
    BY <1>1, <1>2
  <2>2. Len(stdout') <= PipeCapacity
    BY <1>0, <1>4, <1>5 DEF IInv, TypeOK, Numbers
  <2> QED BY <1>1, <1>5, <1>6, <2>1, <2>2 DEF IInv, TypeOK, Wanted
<1>10. Received'
  BY <1>1 DEF IInv, Received, Idle, Arriving, Cut, FrameLength, Gone
<1>11. RunnerKnows'
  BY <1>1, <1>2, <1>8 DEF IInv, RunnerKnows, FrameLength
<1>12. EndIsFinal'
  <2>1. pc # "end"
    BY <1>1 DEF IInv, EndIsFinal, InputEnded
  <2> QED BY <1>1, <2>1 DEF IInv, EndIsFinal
<1>13. Sent'
  BY <1>1, <1>7 DEF IInv, Sent, Responses
<1> QED BY <1>9, <1>10, <1>11, <1>12, <1>13 DEF IInv

(* It closes its end, or dies: only what it is doing changes.              *)
LEMMA RunnerLeavesStep == ASSUME IInv, RunnerCloses \/ RunnerDies PROVE IInv'
<1>1. /\ runner' \in { "closed", "died" }
      /\ UNCHANGED <<requests, written, stdin, pc, readerVars, writerVars, stdout, got, exit>>
  BY DEF RunnerCloses, RunnerDies
<1> USE DEF readerVars, writerVars
<1>2. TypeOK'
  BY <1>1 DEF IInv, TypeOK, Wanted
<1>3. Received'
  BY <1>1 DEF IInv, Received, Idle, Arriving, Cut, FrameLength, Gone
<1>4. RunnerKnows'
  BY <1>1 DEF RunnerKnows
<1>5. EndIsFinal'
  BY <1>1 DEF IInv, EndIsFinal, InputEnded
<1>6. Sent'
  BY <1>1 DEF IInv, Sent, Responses
<1> QED BY <1>2, <1>3, <1>4, <1>5, <1>6 DEF IInv
(* While the testee waits for bytes and there are some, they are of the    *)
(* last request.                                                           *)
LEMMA WaitingIsArriving ==
  ASSUME IInv, Reading, inbuf # <<>> \/ stdin # <<>>
  PROVE  /\ Arriving /\ pc \in { "header", "body" } /\ exit = "running"
         /\ Wanted \in Nat /\ Len(have) < Wanted
<1>1. pc \in { "header", "body" } /\ exit = "running" /\ Len(have) < Wanted
  BY DEF Reading
<1>2. Arriving
  BY <1>1 DEF IInv, Received, Idle, Cut
<1>3. Wanted \in Nat
  BY TesteeAssumption DEF IInv, TypeOK, Wanted
<1> QED BY <1>1, <1>2, <1>3

(* A read of the pipe fills the buffer, or goes past it.                   *)
LEMMA FillStep == ASSUME IInv, Fill PROVE IInv'
<1> USE DEF runnerVars, readerVars, writerVars
<1>0. Numbers
  BY NumbersAreNumbers DEF IInv
<1>1. /\ Reading /\ inbuf = <<>> /\ stdin # <<>>
      /\ UNCHANGED <<runnerVars, pc, size, writerVars, stdout, exit>>
  BY DEF Fill
<1>2. /\ Arriving /\ pc \in { "header", "body" } /\ exit = "running"
      /\ Wanted \in Nat /\ Len(have) < Wanted
  BY <1>1, WaitingIsArriving
<1> DEFINE missing == Wanted - Len(have)
           direct == missing >= ReadBuffer
<1>3. missing \in Nat /\ Len(have) + missing = Wanted
  BY <1>0, <1>2 DEF Numbers
<1>4. PICK k \in Nat :
        /\ k <= Len(stdin) /\ stdin' = SubSeq(stdin, k + 1, Len(stdin))
        /\ \/ /\ have' = have \o SubSeq(stdin, 1, k) /\ inbuf' = inbuf
              /\ k <= missing
           \/ /\ have' = have /\ inbuf' = SubSeq(stdin, 1, k)
              /\ k <= ReadBuffer
  <2> DEFINE amount == IF direct THEN missing ELSE ReadBuffer
             k == Min({ Len(stdin), amount })
  <2>1. /\ stdin' = SubSeq(stdin, k + 1, Len(stdin))
        /\ IF direct THEN have' = have \o SubSeq(stdin, 1, k) /\ inbuf' = inbuf
           ELSE inbuf' = SubSeq(stdin, 1, k) /\ have' = have
    BY DEF Fill
  <2>2. amount \in Nat /\ Len(stdin) \in Nat
    BY <1>0, <1>3 DEF Numbers
  <2>3. (direct => amount = missing) /\ (~direct => amount = ReadBuffer)
    OBVIOUS
  <2> HIDE DEF amount, direct, missing
  <2>4. k \in Nat /\ k <= Len(stdin) /\ k <= amount
    BY <2>2, MinOfTwo
  <2> HIDE DEF k
  <2>5. /\ direct => k <= missing
        /\ ~direct => k <= ReadBuffer
    BY <2>3, <2>4
  <2> QED BY <2>1, <2>4, <2>5
<1> DEFINE n == Len(requests)
           front == SubSeq(stdin, 1, k)
           rest == SubSeq(stdin, k + 1, Len(stdin))
<1>5. /\ have \in Seq(WireByte) /\ stdin \in Seq(WireByte) /\ inbuf \in Seq(WireByte)
      /\ Len(have) <= Wanted /\ Len(stdin) <= PipeCapacity
  BY DEF IInv, TypeOK
<1>6. k \in 0 .. Len(stdin)
  BY <1>0, <1>4 DEF Numbers
<1>7. /\ front \in Seq(WireByte) /\ rest \in Seq(WireByte)
      /\ Len(front) = k /\ Len(rest) = Len(stdin) - k
  BY <1>5, <1>6, TakeDrop
<1>8. /\ Gone + Len(have) + Len(stdin) = written /\ Len(inbuf) = 0
      /\ Gone + Len(have) \in Nat
      /\ Bytes(have, n, Gone) /\ Bytes(stdin, n, Gone + Len(have))
  <2>1. Len(inbuf) = 0
    BY <1>1, EmptySeq
  <2>2. Gone + Len(have) + Len(inbuf) = Gone + Len(have)
    BY <1>0, <2>1 DEF Numbers
  <2> QED BY <1>0, <1>2, <2>1, <2>2 DEF Arriving, Numbers
<1>9. Bytes(front, n, Gone + Len(have)) /\ Bytes(rest, n, (Gone + Len(have)) + k)
  BY <1>5, <1>6, <1>8, BytesCut
<1>10. stdin' = rest /\ Len(stdin') = Len(stdin) - k /\ Len(stdin') <= PipeCapacity
       /\ stdin' \in Seq(WireByte) /\ Len(stdin) \in Nat
  <2>1. Len(stdin) - k <= PipeCapacity
    BY <1>0, <1>4, <1>5 DEF Numbers
  <2> QED BY <1>0, <1>4, <1>7, <2>1 DEF Numbers
<1>11. /\ have' \in Seq(WireByte) /\ inbuf' \in Seq(WireByte)
       /\ Len(have') <= Wanted /\ Len(inbuf') <= ReadBuffer
       /\ Gone + Len(have') + Len(inbuf') + Len(stdin') = written
       /\ Bytes(have', n, Gone) /\ Bytes(inbuf', n, Gone + Len(have'))
       /\ Bytes(stdin', n, Gone + Len(have') + Len(inbuf'))
  <2>1. CASE have' = have \o SubSeq(stdin, 1, k) /\ inbuf' = inbuf /\ k <= missing
    <3>1. have' \in Seq(WireByte) /\ Len(have') = Len(have) + k
      <4> HIDE DEF front
      <4>1. have' = have \o front
        BY <2>1 DEF front
      <4> QED BY <1>5, <1>7, <4>1, ConcatProperties
    <3>2. Bytes(have', n, Gone)
      <4> HIDE DEF front
      <4>1. have' = have \o front /\ Gone \in Nat
        BY <1>0, <2>1 DEF front, Numbers
      <4> QED BY <1>5, <1>7, <1>8, <1>9, <4>1, BytesJoin
    <3>3. inbuf' = <<>> /\ Len(inbuf') = 0 /\ inbuf' \in Seq(WireByte) /\ 0 <= ReadBuffer
      BY <1>0, <1>1, <1>5, <1>8, <2>1 DEF Numbers
    <3>4. Gone + Len(have') + Len(inbuf') = (Gone + Len(have)) + k
          /\ Gone + Len(have') + Len(inbuf') + Len(stdin') = written
      <4>1. Gone \in Nat /\ Len(have) \in Nat /\ k \in Nat /\ Len(stdin) \in Nat
        BY <1>0 DEF Numbers
      <4>2. /\ Gone + Len(have) + Len(stdin) = written /\ Len(have') = Len(have) + k
            /\ Len(inbuf') = 0 /\ Len(stdin') = Len(stdin) - k
        BY <1>8, <1>10, <3>1, <3>3
      <4> QED BY <4>1, <4>2
    <3>5. Len(have') <= Wanted
      <4> HIDE DEF missing
      <4> QED BY <1>0, <1>2, <1>3, <2>1, <3>1 DEF Numbers
    <3>6. Bytes(inbuf', n, Gone + Len(have'))
      BY <3>3, EmptyBytes
    <3>7. Bytes(stdin', n, Gone + Len(have') + Len(inbuf'))
      <4> HIDE DEF rest
      <4> QED BY <1>9, <1>10, <3>4
    <3> QED BY <3>1, <3>2, <3>3, <3>4, <3>5, <3>6, <3>7
  <2>2. CASE have' = have /\ inbuf' = SubSeq(stdin, 1, k) /\ k <= ReadBuffer
    <3> HIDE DEF front, rest
    <3>1. inbuf' = front
      BY <2>2 DEF front
    <3>2. Gone + Len(have') + Len(inbuf') = (Gone + Len(have)) + k
          /\ Gone + Len(have') + Len(inbuf') + Len(stdin') = written
      <4>1. Gone \in Nat /\ Len(have) \in Nat /\ k \in Nat /\ Len(stdin) \in Nat
        BY <1>0 DEF Numbers
      <4> QED BY <1>7, <1>8, <1>10, <2>2, <3>1, <4>1, SMTT(60)
    <3> QED BY <1>5, <1>7, <1>8, <1>9, <1>10, <2>2, <3>1, <3>2
  <2> QED BY <1>4, <2>1, <2>2
<1> HIDE DEF front, rest
<1>12. Wanted' = Wanted /\ Gone' = Gone
  BY <1>1 DEF Wanted, Gone
<1>13. TypeOK'
  BY <1>1, <1>10, <1>11, <1>12 DEF IInv, TypeOK
<1>14. Arriving'
  BY <1>1, <1>2, <1>11, <1>12 DEF Arriving, FrameLength
<1>15. Received'
  BY <1>1, <1>2, <1>14 DEF IInv, Received
<1>16. RunnerKnows'
  BY <1>1 DEF IInv, RunnerKnows, FrameLength
<1>17. EndIsFinal'
  BY <1>1, <1>2 DEF EndIsFinal
<1>18. Sent'
  BY <1>1 DEF IInv, Sent, Responses
<1> QED BY <1>13, <1>15, <1>16, <1>17, <1>18 DEF IInv

(* Bytes go from the buffer to the header or the body.                     *)
LEMMA ConsumeStep == ASSUME IInv, Consume PROVE IInv'
<1> USE DEF runnerVars, readerVars, writerVars
<1>0. Numbers
  BY NumbersAreNumbers DEF IInv
<1>1. /\ Reading /\ inbuf # <<>>
      /\ UNCHANGED <<runnerVars, stdin, pc, size, writerVars, stdout, exit>>
  BY DEF Consume
<1>2. /\ Arriving /\ pc \in { "header", "body" } /\ exit = "running"
      /\ Wanted \in Nat /\ Len(have) < Wanted
  BY <1>1, WaitingIsArriving
<1> DEFINE missing == Wanted - Len(have)
           k == Min({ Len(inbuf), missing })
           n == Len(requests)
           front == SubSeq(inbuf, 1, k)
           rest == SubSeq(inbuf, k + 1, Len(inbuf))
<1>3. missing \in Nat /\ Len(have) + missing = Wanted
  BY <1>0, <1>2 DEF Numbers
<1>4. have' = have \o front /\ inbuf' = rest
  BY DEF Consume
<1>5. k \in Nat /\ k <= Len(inbuf) /\ k <= missing
  <2> HIDE DEF missing
  <2>1. Len(inbuf) \in Nat
    BY <1>0 DEF Numbers
  <2> QED BY <1>3, <2>1, MinOfTwo
<1> HIDE DEF missing, k
<1>6. k \in 0 .. Len(inbuf)
  BY <1>0, <1>5 DEF Numbers
<1>7. have \in Seq(WireByte) /\ inbuf \in Seq(WireByte) /\ Len(inbuf) <= ReadBuffer
  BY DEF IInv, TypeOK
<1>8. /\ front \in Seq(WireByte) /\ rest \in Seq(WireByte)
      /\ Len(front) = k /\ Len(rest) = Len(inbuf) - k
  BY <1>6, <1>7, TakeDrop
<1>9. /\ Gone + Len(have) \in Nat /\ Gone \in Nat
      /\ Gone + Len(have) + Len(inbuf) + Len(stdin) = written
      /\ Bytes(have, n, Gone) /\ Bytes(inbuf, n, Gone + Len(have))
      /\ Bytes(stdin, n, Gone + Len(have) + Len(inbuf))
  BY <1>0, <1>2 DEF Arriving, Numbers
<1>10. Bytes(front, n, Gone + Len(have)) /\ Bytes(rest, n, (Gone + Len(have)) + k)
  BY <1>6, <1>7, <1>9, BytesCut
<1> HIDE DEF front, rest
<1>11. have' \in Seq(WireByte) /\ Len(have') = Len(have) + k
  BY <1>4, <1>7, <1>8, ConcatProperties
<1>12. Bytes(have', n, Gone)
  BY <1>4, <1>7, <1>8, <1>9, <1>10, BytesJoin
<1>13. /\ Gone + Len(have') = (Gone + Len(have)) + k
       /\ Gone + Len(have') + Len(inbuf') = Gone + Len(have) + Len(inbuf)
       /\ Len(have') <= Wanted /\ Len(inbuf') <= ReadBuffer
  <2>1. /\ Gone \in Nat /\ Len(have) \in Nat /\ Len(inbuf) \in Nat /\ k \in Nat
        /\ ReadBuffer \in Nat /\ Len(inbuf') = Len(inbuf) - k
    BY <1>0, <1>4, <1>5, <1>8 DEF Numbers
  <2> QED BY <1>2, <1>3, <1>5, <1>7, <1>11, <2>1
<1>14. Bytes(inbuf', n, Gone + Len(have')) /\ Bytes(stdin, n, Gone + Len(have') + Len(inbuf'))
  BY <1>4, <1>9, <1>10, <1>13
<1>15. Wanted' = Wanted /\ Gone' = Gone
  BY <1>1 DEF Wanted, Gone
<1>16. TypeOK'
  BY <1>1, <1>4, <1>8, <1>11, <1>13, <1>15 DEF IInv, TypeOK
<1>17. Arriving'
  BY <1>1, <1>2, <1>9, <1>12, <1>13, <1>14, <1>15 DEF Arriving, FrameLength
<1>18. Received'
  BY <1>1, <1>2, <1>17 DEF IInv, Received
<1>19. RunnerKnows'
  BY <1>1 DEF IInv, RunnerKnows, FrameLength
<1>20. EndIsFinal'
  BY <1>1, <1>2 DEF EndIsFinal
<1>21. Sent'
  BY <1>1 DEF IInv, Sent, Responses
<1> QED BY <1>16, <1>18, <1>19, <1>20, <1>21 DEF IInv
(* The input ends where a message would begin.                             *)
LEMMA CleanEndStep == ASSUME IInv, CleanEnd PROVE IInv'
<1> USE DEF runnerVars, readerVars, writerVars
<1>0. Numbers
  BY NumbersAreNumbers DEF IInv
<1>1. /\ pc \in { "header", "body" } /\ exit = "running" /\ Len(have) < Wanted
      /\ have = <<>> /\ inbuf = <<>> /\ stdin = <<>> /\ InputEnded
      /\ pc' = "end"
      /\ UNCHANGED <<runnerVars, stdin, readerVars, writerVars, stdout, exit>>
  BY DEF CleanEnd, EndOfInput, Reading
<1>2. Len(<<>>) = 0
  BY EmptySeq
<1>3. toSend = <<>>
  BY <1>1 DEF IInv, Sent
<1>4. TypeOK'
  <2>1. Len(have') <= Wanted'
    BY <1>0, <1>1, <1>2 DEF Wanted, Numbers
  <2> QED BY <1>1, <2>1 DEF IInv, TypeOK
<1>5. Idle' \/ Arriving' \/ Cut'
  <2>1. CASE Idle
    BY <1>1, <2>1 DEF Idle, FrameLength
  <2>2. CASE Arriving
    <3>1. Gone = written /\ Gone' = 0
      BY <1>0, <1>1, <1>2, <2>2 DEF Arriving, Gone, Numbers
    <3>2. CASE pc = "header"
      <4>1. written = 0
        BY <3>1, <3>2 DEF Gone
      <4> QED BY <1>0, <1>1, <1>2, <2>2, <3>1, <4>1, EmptyBytes DEF Arriving, FrameLength, Numbers
    <3>3. CASE pc = "body"
      <4>1. written = HeaderBytes /\ size = requests[Len(requests)].size /\ size > 0
        BY <1>0, <1>1, <1>2, <3>1, <3>3 DEF Gone, Wanted, IInv, Received, Numbers
      <4>2. written < FrameLength(Len(requests))
        BY <1>0, <4>1 DEF FrameLength, Numbers
      <4> QED BY <1>1, <2>2, <4>2 DEF Arriving, Cut, FrameLength
    <3> QED BY <1>1, <3>2, <3>3
  <2>3. CASE Cut
    BY <1>1, <2>3 DEF Cut
  <2> QED BY <2>1, <2>2, <2>3 DEF IInv, Received
<1>6. Received'
  BY <1>1, <1>5 DEF Received
<1>7. RunnerKnows'
  BY <1>1 DEF IInv, RunnerKnows, FrameLength
<1>8. EndIsFinal'
  BY <1>1 DEF EndIsFinal, InputEnded
<1>9. Sent'
  BY <1>1, <1>3 DEF IInv, Sent, Responses
<1> QED BY <1>4, <1>6, <1>7, <1>8, <1>9 DEF IInv

(* The testee gives up: its variables stay what they are.                  *)
LEMMA FailureStep ==
  ASSUME IInv, exit' = "failed",
         UNCHANGED <<runnerVars, stdin, pc, readerVars, writerVars, stdout>>
  PROVE  IInv'
<1> USE DEF runnerVars, readerVars, writerVars
<1>1. TypeOK'
  BY DEF IInv, TypeOK, Wanted
<1>2. Received'
  BY DEF IInv, Received, Idle, Arriving, Cut, FrameLength, Gone
<1>3. RunnerKnows'
  BY DEF IInv, RunnerKnows, FrameLength
<1>4. EndIsFinal'
  BY DEF IInv, EndIsFinal, InputEnded
<1>5. Sent'
  BY DEF IInv, Sent, Responses
<1> QED BY <1>1, <1>2, <1>3, <1>4, <1>5 DEF IInv

(* The header announces the length of the body of the last request.        *)
LEMMA HeaderReadStep == ASSUME IInv, HeaderRead PROVE IInv'
<1> USE DEF runnerVars, readerVars, writerVars
<1>0. Numbers
  BY NumbersAreNumbers DEF IInv
<1>1. /\ exit = "running" /\ pc = "header" /\ Len(have) = HeaderBytes
      /\ UNCHANGED <<runnerVars, stdin, inbuf, writerVars, stdout>>
  BY DEF HeaderRead
<1>2. CASE exit' = "failed" /\ UNCHANGED <<pc, have, size>>
  BY <1>1, <1>2, FailureStep
<1>3. CASE /\ pc' = "body" /\ have' = <<>> /\ size' = Announced(have)
           /\ UNCHANGED exit
  <2>1. Arriving
    <3>1. have # <<>>
      BY <1>0, <1>1, EmptySeq DEF Numbers
    <3> QED BY <1>1, <3>1 DEF IInv, Received, Idle, Cut
  <2>2. Announced(have) = requests[Len(requests)].size
    <3>1. 1 \in 1 .. Len(have)
      BY <1>0, <1>1 DEF Numbers
    <3>2. have[1] = [of |-> Len(requests), at |-> Gone + 1]
      BY <2>1, <3>1 DEF Arriving, Bytes
    <3> QED BY <3>2 DEF Announced
  <2>3. requests # <<>> /\ size' \in Nat
    BY <1>0, <1>3, <2>1, <2>2 DEF Arriving, Numbers
  <2>4. Len(have') = 0 /\ have' \in Seq(WireByte)
    BY <1>3, EmptySeq
  <2>5. TypeOK'
    <3>1. Len(have') <= Wanted'
      BY <1>3, <2>3, <2>4 DEF Wanted
    <3> QED BY <1>1, <1>3, <2>3, <2>4, <3>1 DEF IInv, TypeOK
  <2>6. Arriving'
    <3>1. Gone = 0 /\ Gone' = HeaderBytes
      BY <1>1, <1>3 DEF Gone
    <3>2. /\ HeaderBytes + Len(have') = Len(have) /\ Gone + Len(have) = Len(have)
          /\ Gone' + Len(have') = Gone + Len(have)
      BY <1>0, <1>1, <2>4, <3>1 DEF Numbers
    <3>3. Bytes(have', Len(requests), Gone')
      BY <1>3, EmptyBytes
    <3>4. /\ Gone' + Len(have') + Len(inbuf) + Len(stdin) = written
          /\ Bytes(inbuf, Len(requests), Gone' + Len(have'))
          /\ Bytes(stdin, Len(requests), Gone' + Len(have') + Len(inbuf))
      BY <2>1, <3>2 DEF Arriving
    <3> QED BY <1>1, <1>3, <2>1, <3>3, <3>4 DEF Arriving, FrameLength
  <2>7. Received'
    BY <1>1, <1>3, <2>2, <2>6 DEF Received
  <2>8. RunnerKnows'
    BY <1>1 DEF IInv, RunnerKnows, FrameLength
  <2>9. EndIsFinal'
    BY <1>1, <1>3 DEF EndIsFinal
  <2>10. Sent'
    BY <1>1, <1>3 DEF IInv, Sent, Responses
  <2> QED BY <2>5, <2>7, <2>8, <2>9, <2>10 DEF IInv
<1> QED BY <1>2, <1>3 DEF HeaderRead

(* The body is whole: the request is answered, and the response begun.     *)
LEMMA BodyReadStep == ASSUME IInv, BodyRead PROVE IInv'
<1> USE DEF runnerVars, readerVars, writerVars
<1>0. Numbers
  BY NumbersAreNumbers DEF IInv
<1>1. /\ exit = "running" /\ pc = "body" /\ Len(have) = size
      /\ UNCHANGED <<runnerVars, stdin, inbuf, size, outbuf, stdout>>
  BY DEF BodyRead
<1>2. CASE exit' = "failed" /\ UNCHANGED <<pc, have, answers, toSend>>
  BY <1>1, <1>2, FailureStep
<1>3. CASE \E length \in Answers :
             /\ answers' = Append(answers, length) /\ toSend' = Response(length)
             /\ pc' = "write" /\ have' = <<>> /\ UNCHANGED exit
  <2>1. PICK length \in Answers :
          /\ answers' = Append(answers, length) /\ toSend' = Response(length)
          /\ pc' = "write" /\ have' = <<>> /\ UNCHANGED exit
    BY <1>3
  <2>2. length \in Nat
    BY TesteeAssumption
  <2>3. Arriving /\ size = requests[Len(requests)].size /\ Gone = HeaderBytes
    BY <1>1 DEF IInv, Received, Gone
  <2>4. requests # <<>> /\ Len(answers) + 1 = Len(requests)
    BY <1>0, <2>3 DEF Arriving, Numbers
  <2>5. /\ written = FrameLength(Len(requests))
        /\ Len(inbuf) = 0 /\ Len(stdin) = 0
    <3>1. /\ Gone + Len(have) + Len(inbuf) + Len(stdin) = written
          /\ written <= FrameLength(Len(requests))
      BY <2>3 DEF Arriving
    <3>2. FrameLength(Len(requests)) = HeaderBytes + Len(have)
      BY <1>1, <2>3 DEF FrameLength
    <3> QED BY <1>0, <2>3, <3>1, <3>2, SMTT(30) DEF Numbers
  <2>6. inbuf = <<>> /\ stdin = <<>>
    <3>1. inbuf \in Seq(WireByte) /\ stdin \in Seq(WireByte)
      BY DEF IInv, TypeOK
    <3> QED BY <2>5, <3>1, EmptySeq
  <2>7. answers' \in Seq(Nat) /\ Len(answers') = Len(answers) + 1
    <3>1. answers \in Seq(Nat)
      BY DEF IInv, TypeOK
    <3> QED BY <2>1, <2>2, <3>1, AppendProperties
  <2>8. toSend' \in Seq(WireByte) /\ toSend' # <<>> /\ toSend' = Frame(Len(answers) + 1, length)
    <3>1. Len(answers) + 1 \in Nat
      BY <1>0 DEF Numbers
    <3>2. /\ Frame(Len(answers) + 1, length) \in Seq(WireByte)
          /\ Len(Frame(Len(answers) + 1, length)) > 0
      BY <2>2, <3>1, FrameProperties
    <3>3. toSend' = Frame(Len(answers) + 1, length)
      BY <2>1 DEF Response, Current
    <3> QED BY <3>2, <3>3, EmptySeq
  <2>9. TypeOK'
    <3>1. Len(have') <= Wanted' /\ have' \in Seq(WireByte)
      BY <1>0, <1>1, <2>1, EmptySeq DEF Wanted, Numbers
    <3> QED BY <1>1, <2>1, <2>7, <2>8, <3>1 DEF IInv, TypeOK
  <2>10. Idle'
    BY <1>1, <2>1, <2>4, <2>5, <2>6, <2>7 DEF Idle, FrameLength
  <2>11. Received'
    BY <2>1, <2>10 DEF Received
  <2>12. RunnerKnows'
    <3>1. runner # "idle"
      BY <1>0, <2>4 DEF IInv, RunnerKnows, Numbers
    <3> QED BY <1>1, <3>1 DEF IInv, RunnerKnows, FrameLength
  <2>13. EndIsFinal'
    BY <1>1, <2>1 DEF EndIsFinal
  <2>14. Sent'
    <3>1. toSend = <<>> /\ outbuf = <<>>
      BY <1>1 DEF IInv, Sent
    <3>2. /\ got \in Seq(WireByte) /\ stdout \in Seq(WireByte) /\ answers \in Seq(Nat)
          /\ got \o stdout \in Seq(WireByte)
      BY ConcatProperties DEF IInv, TypeOK
    <3>3. got \o stdout \o <<>> \o <<>> = Responses
      BY <3>1 DEF IInv, Sent
    <3>4. got \o stdout \o <<>> = got \o stdout
      BY <3>2, ConcatEmptySeq
    <3>5. got \o stdout = Responses
      BY <3>3, <3>4
    <3>6. Responses' = Responses \o toSend'
      <4>1. Responses' = ResponsesOf(answers')
        BY DEF Responses, ResponsesOf
      <4>2. ResponsesOf(Append(answers, length)) = ResponsesOf(answers) \o Frame(Len(answers) + 1, length)
        BY <2>2, <3>2, ResponsesAppend
      <4> QED BY <2>1, <2>8, <4>1, <4>2, ResponsesAre
    <3>7. got' \o stdout' \o outbuf' \o toSend' = Responses'
      BY <1>1, <3>1, <3>4, <3>5, <3>6
    <3> QED BY <2>1, <2>8, <3>7 DEF Sent
  <2> QED BY <2>9, <2>11, <2>12, <2>13, <2>14 DEF IInv
<1> QED BY <1>2, <1>3 DEF BodyRead

(* Writing leaves alone what the testee has read.                          *)
LEMMA WritingStep ==
  ASSUME IInv, pc \in { "write", "spill", "flush", "end" },
         pc' \in { "header", "write", "spill", "flush", "end" },
         pc' = "end" <=> pc = "end",
         UNCHANGED <<runnerVars, stdin, readerVars, answers>>,
         outbuf' \in Seq(WireByte), Len(outbuf') <= WriteBuffer,
         toSend' \in Seq(WireByte),
         stdout' \in Seq(WireByte), Len(stdout') <= PipeCapacity,
         exit' \in { "running", "clean", "failed" },
         got' \o stdout' \o outbuf' \o toSend' = Responses,
         pc' \in { "write", "spill" } <=> toSend' # <<>>,
         pc' \in { "header", "body" } => outbuf' = <<>>,
         exit' = "clean" => pc' = "end" /\ outbuf' = <<>>,
         toSend = <<>> => toSend' = <<>>
  PROVE  IInv'
<1> USE DEF runnerVars, readerVars
<1>0. Numbers
  BY NumbersAreNumbers DEF IInv
<1>1. have = <<>>
  BY DEF IInv, Received
<1>2. TypeOK'
  <2>1. Len(have') <= Wanted'
    <3>1. Len(have') = 0
      BY <1>1, EmptySeq
    <3> QED BY <1>0, <3>1 DEF Wanted, Numbers
  <2> QED BY <2>1 DEF IInv, TypeOK
<1>3. Received'
  <2>1. Gone = 0 /\ Gone' = 0
    BY DEF Gone
  <2> QED BY <1>1, <2>1 DEF IInv, Received, Idle, Arriving, Cut, FrameLength
<1>4. RunnerKnows'
  BY DEF IInv, RunnerKnows, FrameLength
<1>5. EndIsFinal'
  BY DEF IInv, EndIsFinal, InputEnded
<1>6. Sent'
  BY DEF Sent, Responses
<1> QED BY <1>2, <1>3, <1>4, <1>5, <1>6 DEF IInv
(* Moving the front of a sequence to the end of the last of two before it. *)
MovesInPlace(r, s, t, k) ==
  (r \o (s \o SubSeq(t, 1, k))) \o SubSeq(t, k + 1, Len(t)) = (r \o s) \o t

LEMMA MovedAfter ==
  ASSUME NEW S, NEW r \in Seq(S), NEW s \in Seq(S), NEW t \in Seq(S), NEW k \in 0 .. Len(t)
  PROVE  MovesInPlace(r, s, t, k)
<1> DEFINE front == SubSeq(t, 1, k)
           rest == SubSeq(t, k + 1, Len(t))
<1>1. front \in Seq(S)
  BY TakeDrop
<1>2. r \o s \in Seq(S)
  BY ConcatProperties
<1>3. ((r \o s) \o front) \o rest = (r \o s) \o t
  BY <1>2, Moved
<1> HIDE DEF front, rest
<1>4. (r \o s) \o front = r \o (s \o front)
  BY <1>1, ConcatAssociative
<1>5. (r \o (s \o front)) \o rest = (r \o s) \o t
  BY <1>3, <1>4
<1> QED BY <1>5 DEF front, rest, MovesInPlace

(* The response goes to the buffer as far as there is room.                *)
LEMMA BufferStep == ASSUME IInv, Buffer PROVE IInv'
<1>0. Numbers
  BY NumbersAreNumbers DEF IInv
<1> DEFINE room == WriteBuffer - Len(outbuf)
           k == Min({ Len(toSend), room })
<1>1. /\ exit = "running" /\ pc = "write"
      /\ UNCHANGED <<runnerVars, stdin, readerVars, answers, stdout, exit>>
      /\ outbuf' = outbuf \o SubSeq(toSend, 1, k)
      /\ toSend' = SubSeq(toSend, k + 1, Len(toSend))
      /\ pc' = IF k = Len(toSend) THEN "flush" ELSE "spill"
  BY DEF Buffer
<1>2. /\ outbuf \in Seq(WireByte) /\ toSend \in Seq(WireByte) /\ Len(outbuf) <= WriteBuffer
      /\ got \in Seq(WireByte) /\ stdout \in Seq(WireByte) /\ Len(stdout) <= PipeCapacity
      /\ exit \in { "running", "clean", "failed" }
  BY DEF IInv, TypeOK
<1>3. room \in Nat /\ Len(outbuf) + room = WriteBuffer
  BY <1>0, <1>2 DEF Numbers
<1>4. k \in Nat /\ k <= Len(toSend) /\ k <= room
  <2> HIDE DEF room
  <2>1. Len(toSend) \in Nat
    BY <1>0 DEF Numbers
  <2> QED BY <1>3, <2>1, MinOfTwo
<1> HIDE DEF k
<1>5. k \in 0 .. Len(toSend)
  BY <1>0, <1>4 DEF Numbers
<1>6. /\ toSend' \in Seq(WireByte) /\ Len(toSend') = Len(toSend) - k
      /\ SubSeq(toSend, 1, k) \in Seq(WireByte) /\ Len(SubSeq(toSend, 1, k)) = k
  BY <1>1, <1>2, <1>5, TakeDrop
<1>7. outbuf' \in Seq(WireByte) /\ Len(outbuf') <= WriteBuffer
  <2> DEFINE front == SubSeq(toSend, 1, k)
  <2>1. outbuf' = outbuf \o front /\ front \in Seq(WireByte) /\ Len(front) = k
    BY <1>1, <1>6
  <2> HIDE DEF front, room
  <2>2. outbuf' \in Seq(WireByte) /\ Len(outbuf') = Len(outbuf) + k
    BY <1>2, <2>1, ConcatProperties
  <2> QED BY <1>0, <1>3, <1>4, <2>2 DEF Numbers
<1>8. got' \o stdout' \o outbuf' \o toSend' = Responses
  <2>1. got \o stdout \in Seq(WireByte)
    BY <1>2, ConcatProperties
  <2>2. ((got \o stdout) \o outbuf') \o toSend' = ((got \o stdout) \o outbuf) \o toSend
    <3> DEFINE out == got \o stdout
    <3>1. out \in Seq(WireByte)
      BY <2>1
    <3> HIDE DEF out
    <3>2. MovesInPlace(out, outbuf, toSend, k)
      BY <1>2, <1>5, <3>1, MovedAfter
    <3>3. (out \o outbuf') \o toSend' = (out \o outbuf) \o toSend
      BY <1>1, <3>2 DEF MovesInPlace
    <3> QED BY <3>3 DEF out
  <2> QED BY <1>1, <2>2 DEF IInv, Sent, runnerVars
<1>9. toSend' = <<>> <=> k = Len(toSend)
  <2>1. Len(toSend') = 0 <=> k = Len(toSend)
    BY <1>0, <1>4, <1>6 DEF Numbers
  <2>2. toSend' = <<>> <=> Len(toSend') = 0
    BY <1>6, EmptySeq
  <2> QED BY <2>1, <2>2
<1>10. toSend # <<>>
  BY <1>1 DEF IInv, Sent
<1>11. /\ pc \in { "write", "spill", "flush", "end" }
       /\ pc' \in { "header", "write", "spill", "flush", "end" }
       /\ pc' = "end" <=> pc = "end"
       /\ pc' \in { "write", "spill" } <=> toSend' # <<>>
       /\ pc' \in { "header", "body" } => outbuf' = <<>>
       /\ exit' = "clean" => pc' = "end" /\ outbuf' = <<>>
       /\ UNCHANGED <<runnerVars, stdin, readerVars, answers>>
  BY <1>1, <1>9
<1> QED BY <1>1, <1>2, <1>6, <1>7, <1>8, <1>10, <1>11, WritingStep

(* The pipe takes what fits.                                               *)
LEMMA DrainStep == ASSUME IInv, Drain PROVE IInv'
<1>0. Numbers
  BY NumbersAreNumbers DEF IInv
<1> DEFINE room == PipeCapacity - Len(stdout)
           k == Min({ Len(outbuf), room })
<1>1. /\ exit = "running" /\ pc \in { "spill", "flush", "end" }
      /\ UNCHANGED <<runnerVars, stdin, pc, readerVars, answers, toSend, exit>>
      /\ stdout' = stdout \o SubSeq(outbuf, 1, k)
      /\ outbuf' = SubSeq(outbuf, k + 1, Len(outbuf))
  BY DEF Drain, Flushing
<1>2. /\ outbuf \in Seq(WireByte) /\ toSend \in Seq(WireByte) /\ Len(outbuf) <= WriteBuffer
      /\ got \in Seq(WireByte) /\ stdout \in Seq(WireByte) /\ Len(stdout) <= PipeCapacity
      /\ exit \in { "running", "clean", "failed" }
  BY DEF IInv, TypeOK
<1>3. room \in Nat /\ Len(stdout) + room = PipeCapacity
  BY <1>0, <1>2 DEF Numbers
<1>4. k \in Nat /\ k <= Len(outbuf) /\ k <= room
  <2> HIDE DEF room
  <2>1. Len(outbuf) \in Nat
    BY <1>0 DEF Numbers
  <2> QED BY <1>3, <2>1, MinOfTwo
<1> HIDE DEF k
<1>5. k \in 0 .. Len(outbuf)
  BY <1>0, <1>4 DEF Numbers
<1>6. /\ outbuf' \in Seq(WireByte) /\ Len(outbuf') = Len(outbuf) - k
      /\ SubSeq(outbuf, 1, k) \in Seq(WireByte) /\ Len(SubSeq(outbuf, 1, k)) = k
  BY <1>1, <1>2, <1>5, TakeDrop
<1>7. stdout' \in Seq(WireByte) /\ Len(stdout') <= PipeCapacity
  <2> DEFINE front == SubSeq(outbuf, 1, k)
  <2>1. stdout' = stdout \o front /\ front \in Seq(WireByte) /\ Len(front) = k
    BY <1>1, <1>6
  <2> HIDE DEF front, room
  <2>2. stdout' \in Seq(WireByte) /\ Len(stdout') = Len(stdout) + k
    BY <1>2, <2>1, ConcatProperties
  <2> QED BY <1>0, <1>3, <1>4, <2>2 DEF Numbers
<1>8. got' \o stdout' \o outbuf' \o toSend' = Responses
  <2>1. (got \o stdout') \o outbuf' = (got \o stdout) \o outbuf
    <3>1. MovesInPlace(got, stdout, outbuf, k)
      BY <1>2, <1>5, MovedAfter
    <3> QED BY <1>1, <3>1 DEF MovesInPlace
  <2> QED BY <1>1, <2>1 DEF IInv, Sent, runnerVars
<1>9. Len(outbuf') <= WriteBuffer
  BY <1>0, <1>2, <1>4, <1>6 DEF Numbers
<1>10. toSend' = toSend
  BY <1>1
<1>11. /\ pc \in { "write", "spill", "flush", "end" }
       /\ pc' \in { "header", "write", "spill", "flush", "end" }
       /\ pc' = "end" <=> pc = "end"
       /\ pc' \in { "write", "spill" } <=> toSend' # <<>>
       /\ pc' \in { "header", "body" } => outbuf' = <<>>
       /\ exit' = "clean" => pc' = "end" /\ outbuf' = <<>>
       /\ UNCHANGED <<runnerVars, stdin, readerVars, answers>>
  BY <1>1 DEF IInv, Sent
<1> QED BY <1>1, <1>2, <1>6, <1>7, <1>8, <1>9, <1>10, <1>11, WritingStep

(* The buffer is empty: the testee writes on, reads on or ends.            *)
LEMMA FlushedStep == ASSUME IInv, Flushed PROVE IInv'
<1>1. /\ exit = "running" /\ pc \in { "spill", "flush", "end" } /\ outbuf = <<>>
      /\ UNCHANGED <<runnerVars, stdin, readerVars, writerVars, stdout>>
      /\ IF pc = "end" THEN exit' = "clean" /\ pc' = pc
         ELSE pc' = (IF pc = "spill" THEN "write" ELSE "header") /\ exit' = exit
  BY DEF Flushed, Flushing
<1>2. /\ outbuf' \in Seq(WireByte) /\ Len(outbuf') <= WriteBuffer
      /\ toSend' \in Seq(WireByte)
      /\ stdout' \in Seq(WireByte) /\ Len(stdout') <= PipeCapacity
  BY <1>1 DEF IInv, TypeOK, writerVars
<1>3. got' \o stdout' \o outbuf' \o toSend' = Responses
  BY <1>1 DEF IInv, Sent, runnerVars, writerVars
<1>4. /\ pc \in { "write", "spill", "flush", "end" }
      /\ pc' \in { "header", "write", "spill", "flush", "end" }
      /\ pc' = "end" <=> pc = "end"
      /\ exit' \in { "running", "clean", "failed" }
      /\ pc' \in { "header", "body" } => outbuf' = <<>>
      /\ exit' = "clean" => pc' = "end" /\ outbuf' = <<>>
      /\ UNCHANGED <<runnerVars, stdin, readerVars, answers>>
      /\ toSend = <<>> => toSend' = <<>>
  BY <1>1 DEF writerVars
<1>5. pc' \in { "write", "spill" } <=> toSend' # <<>>
  BY <1>1 DEF IInv, Sent, writerVars
<1> QED BY <1>2, <1>3, <1>4, <1>5, WritingStep

LEMMA StutterStep == ASSUME IInv, UNCHANGED vars PROVE IInv'
<1> USE DEF vars
<1>1. TypeOK'
  BY DEF IInv, TypeOK, Wanted
<1>2. Received'
  BY DEF IInv, Received, Idle, Arriving, Cut, FrameLength, Gone
<1>3. RunnerKnows'
  BY DEF IInv, RunnerKnows, FrameLength
<1>4. EndIsFinal'
  BY DEF IInv, EndIsFinal, InputEnded
<1>5. Sent'
  BY DEF IInv, Sent, Responses
<1> QED BY <1>1, <1>2, <1>3, <1>4, <1>5 DEF IInv

LEMMA StepHolds == IInv /\ [Next]_vars => IInv'
<1> SUFFICES ASSUME IInv, [Next]_vars PROVE IInv'
  OBVIOUS
<1>1. CASE RunnerBegins
  BY <1>1, RunnerBeginsStep
<1>2. CASE RunnerWrites
  BY <1>2, RunnerWritesStep
<1>3. CASE RunnerReads
  BY <1>3, RunnerReadsStep
<1>4. CASE RunnerCloses \/ RunnerDies
  BY <1>4, RunnerLeavesStep
<1>5. CASE Fill
  BY <1>5, FillStep
<1>6. CASE Consume
  BY <1>6, ConsumeStep
<1>7. CASE CleanEnd
  BY <1>7, CleanEndStep
<1>8. CASE TruncatedEnd \/ WriteFails
  BY <1>8, FailureStep DEF TruncatedEnd, WriteFails
<1>9. CASE HeaderRead
  BY <1>9, HeaderReadStep
<1>10. CASE BodyRead
  BY <1>10, BodyReadStep
<1>11. CASE Buffer
  BY <1>11, BufferStep
<1>12. CASE Drain
  BY <1>12, DrainStep
<1>13. CASE Flushed
  BY <1>13, FlushedStep
<1>14. CASE UNCHANGED vars
  BY <1>14, StutterStep
<1> QED BY <1>1, <1>2, <1>3, <1>4, <1>5, <1>6, <1>7, <1>8, <1>9, <1>10, <1>11, <1>12,
           <1>13, <1>14 DEF Next, Testee, Ended

(* The invariant holds throughout, for all sizes and every piecemeal       *)
(* delivery, and whether or not the runner dies.                           *)
THEOREM ExchangeInvariance == Spec => []IInv
<1>1. Spec => Init /\ [][Next]_vars
  BY DEF Spec
<1> QED BY <1>1, InitHolds, StepHolds, PTL

-----------------------------------------------------------------------------
(***************************************************************************)
(* What the runs check, for every value of the constants.                  *)
(***************************************************************************)

(* serve answers one request after the other: whatever of the responses    *)
(* the runner has read, with the pipe and the buffer, are the responses to *)
(* the requests answered so far, in order, and none of it is held back     *)
(* while the testee waits for the next one or when it has ended cleanly.   *)
THEOREM LockStepAlways == Spec => []LockStep
<1>1. IInv => LockStep
  <2> SUFFICES ASSUME IInv PROVE LockStep
    OBVIOUS
  <2>1. /\ got \in Seq(WireByte) /\ stdout \in Seq(WireByte)
        /\ got \o stdout \in Seq(WireByte)
    BY ConcatProperties DEF IInv, TypeOK
  <2>2. ASSUME pc = "header" \/ exit = "clean" PROVE got \o stdout = Responses
    <3>1. outbuf = <<>> /\ toSend = <<>>
      BY <2>2 DEF IInv, Sent, EndIsFinal
    <3>2. got \o stdout \o <<>> \o <<>> = Responses
      BY <3>1 DEF IInv, Sent
    <3>3. got \o stdout \o <<>> = got \o stdout
      BY <2>1, ConcatEmptySeq
    <3> QED BY <3>2, <3>3
  <2> QED BY <2>2 DEF IInv, Sent, LockStep
<1> QED BY <1>1, ExchangeInvariance, PTL

(* readFrame never hands serve a part of a request, and serve never ends   *)
(* cleanly with a whole request unanswered.                                *)
THEOREM NothingUnansweredAlways == Spec => []NothingUnanswered
<1>1. IInv => NothingUnanswered
  <2> SUFFICES ASSUME IInv PROVE NothingUnanswered
    OBVIOUS
  <2>0. Numbers
    BY NumbersAreNumbers DEF IInv
  <2>1. ASSUME requests # <<>>
        PROVE  Len(LastRequest) = FrameLength(Len(requests))
    BY <2>0, <2>1, FrameProperties DEF LastRequest, FrameLength, Numbers
  <2>2. CASE Idle
    <3>1. Submitted = Len(requests) /\ Len(answers) = Len(requests)
      BY <2>1, <2>2 DEF Submitted, Idle
    <3> QED BY <2>0, <3>1 DEF NothingUnanswered, Numbers
  <2>3. CASE Arriving \/ Cut
    <3>1. Len(answers) + 1 = Len(requests) /\ requests # <<>>
      BY <2>0, <2>3 DEF Arriving, Cut, Numbers
    <3>2. Len(answers) <= Submitted
      BY <2>0, <3>1 DEF Submitted, Numbers
    <3>3. ASSUME exit = "clean" PROVE Len(answers) = Submitted
      <4>1. pc = "end" /\ have = <<>> /\ inbuf = <<>> /\ stdin = <<>>
        BY <3>3 DEF IInv, EndIsFinal
      <4>2. written < FrameLength(Len(requests))
        <5>1. CASE Arriving
          <6>1. Gone = 0 /\ Len(<<>>) = 0
            BY <4>1, EmptySeq DEF Gone
          <6>2. written = 0
            BY <4>1, <5>1, <6>1 DEF Arriving
          <6> QED BY <2>0, <3>1, <6>2 DEF Numbers
        <5>2. CASE Cut
          BY <5>2 DEF Cut
        <5> QED BY <2>3, <5>1, <5>2
      <4>3. written # Len(LastRequest)
        BY <2>0, <2>1, <3>1, <4>2 DEF Numbers
      <4> QED BY <2>0, <3>1, <4>3 DEF Submitted, Numbers
    <3> QED BY <3>2, <3>3 DEF NothingUnanswered
  <2> QED BY <2>2, <2>3 DEF IInv, Received
<1> QED BY <1>1, ExchangeInvariance, PTL
=============================================================================
