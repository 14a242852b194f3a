--------------------------- MODULE CallGraphProofs ---------------------------
(***************************************************************************)
(* Proofs about CallGraph, for every bundle, every number of programs and   *)
(* every limit: what the walk accepts has falling depths within the limit,  *)
(* and what it refuses has no ranking at all.                               *)
(***************************************************************************)
EXTENDS CallGraph, TLAPS

Frm(k) == stack[k]
Numbers(p) == DOMAIN graph.calls[p]
CallAt(p, i) == graph.calls[p][i]

(* Call i of program p is explored, and is shallower than d.                *)
Settled(p, i, d) ==
  /\ CallAt(p, i) \in Program
  /\ graph.kind[CallAt(p, i)] = graph.kind[p]
  /\ colour[CallAt(p, i)] = "black"
  /\ depth[CallAt(p, i)] < d

PathInv ==
  /\ \A k \in 1 .. Len(stack) : colour[Frm(k).program] = "grey"
  /\ \A k, l \in 1 .. Len(stack) : k # l => Frm(k).program # Frm(l).program
  /\ \A p \in Program : colour[p] = "grey" => \E k \in 1 .. Len(stack) : Frm(k).program = p
  /\ \A k \in 1 .. Len(stack) - 1 :
       /\ Frm(k).next \in Numbers(Frm(k).program)
       /\ CallAt(Frm(k).program, Frm(k).next) = Frm(k + 1).program
       /\ graph.kind[Frm(k + 1).program] = graph.kind[Frm(k).program]

BlackInv ==
  \A p \in Program : colour[p] = "black" =>
    /\ depth[p] \in 1 .. MaxCallDepth
    /\ \A i \in Numbers(p) : Settled(p, i, depth[p])

FrameInv ==
  \A k \in 1 .. Len(stack) : \A i \in Numbers(Frm(k).program) :
    i < Frm(k).next => Settled(Frm(k).program, i, Frm(k).best)

RootInv ==
  /\ \A p \in Program : p < root => colour[p] = "black"
  /\ stack # <<>> => Frm(1).program = root

(* Depths and the best of a frame are below every ranking, and a ranking    *)
(* falls along the stack.                                                   *)
LowerInv ==
  \A rank \in [Program -> 1 .. MaxCallDepth] :
    WellTyped /\ Ranked(rank) =>
      /\ \A p \in Program : colour[p] = "black" => depth[p] <= rank[p]
      /\ \A k \in 1 .. Len(stack) : Frm(k).best <= rank[Frm(k).program]
      /\ \A k, l \in 1 .. Len(stack) : k < l => rank[Frm(l).program] < rank[Frm(k).program]

WalkInv == PathInv /\ BlackInv /\ FrameInv /\ RootInv /\ LowerInv

IInv ==
  /\ WalkTypeOK
  /\ Running => WalkInv
  /\ AcceptedIsRanked
  /\ RefusedIsUnservable

------------------------------------------------------------------------------
(* What pushing, popping and resuming do to a stack of frames.              *)
LEMMA PushFacts ==
  ASSUME NEW s \in Seq(Frames), NEW f \in Frames
  PROVE  /\ Append(s, f) \in Seq(Frames)
         /\ Len(Append(s, f)) = Len(s) + 1
         /\ \A k \in 1 .. Len(s) : Append(s, f)[k] = s[k]
         /\ Append(s, f)[Len(s) + 1] = f
  OBVIOUS

LEMMA PopFacts ==
  ASSUME NEW s \in Seq(Frames), s # <<>>
  PROVE  /\ SubSeq(s, 1, Len(s) - 1) \in Seq(Frames)
         /\ Len(SubSeq(s, 1, Len(s) - 1)) = Len(s) - 1
         /\ \A k \in 1 .. Len(s) - 1 : SubSeq(s, 1, Len(s) - 1)[k] = s[k]
  OBVIOUS

LEMMA ResumeFacts ==
  ASSUME NEW s \in Seq(Frames), NEW d \in Nat
  PROVE  /\ Resume(s, d) \in Seq(Frames)
         /\ Len(Resume(s, d)) = Len(s)
         /\ \A k \in 1 .. Len(s) : Resume(s, d)[k].program = s[k].program
         /\ \A k \in 1 .. Len(s) : k # Len(s) => Resume(s, d)[k] = s[k]
         /\ s # <<>> =>
              /\ Resume(s, d)[Len(s)].next = s[Len(s)].next + 1
              /\ Resume(s, d)[Len(s)].best = Larger(s[Len(s)].best, d + 1)
<1>1. CASE s = <<>>
  BY <1>1 DEF Resume
<1>2. CASE s # <<>>
  <2> DEFINE g == Advance(s[Len(s)], d)
             t == [s EXCEPT ![Len(s)] = g]
  <2>1. Len(s) \in 1 .. Len(s) /\ s[Len(s)] \in Frames
    BY <1>2
  <2>2. /\ g \in Frames
        /\ g.program = s[Len(s)].program
        /\ g.next = s[Len(s)].next + 1
        /\ g.best = Larger(s[Len(s)].best, d + 1)
    BY <2>1 DEF Frames, Larger, Advance
  <2>3. Resume(s, d) = t
    BY <1>2 DEF Resume
  <2> HIDE DEF g
  <2>4. t \in Seq(Frames) /\ Len(t) = Len(s)
    BY <2>1, <2>2
  <2>5. t[Len(s)] = g
    BY <2>1
  <2>6. \A k \in 1 .. Len(s) : k # Len(s) => t[k] = s[k]
    BY <2>1
  <2> HIDE DEF t
  <2>7. QED
    BY <2>1, <2>2, <2>3, <2>4, <2>5, <2>6
<1>3. QED
  BY <1>1, <1>2

------------------------------------------------------------------------------
(* A bundle keeps its shape, and a ranking falls along each numbered call.  *)
LEMMA BundleFacts ==
  ASSUME WalkTypeOK
  PROVE  /\ IsCallGraph(graph)
         /\ \A p \in Program : graph.calls[p] \in Seq(Nat)
         /\ \A p \in Program : Numbers(p) = 1 .. Len(graph.calls[p])
<1>1. graph \in CallGraphs
  BY DEF WalkTypeOK
<1>2. IsCallGraph(graph)
  BY <1>1, CallGraphsAssumption
<1>3. QED
  BY <1>2 DEF IsCallGraph, Numbers

LEMMA FrameFacts ==
  ASSUME WalkTypeOK, NEW k \in 1 .. Len(stack)
  PROVE  /\ Frm(k) \in Frames
         /\ Frm(k).program \in Program
         /\ Frm(k).next \in Nat \ {0}
         /\ Frm(k).best \in Nat \ {0}
<1>1. stack \in Seq(Frames)
  BY DEF WalkTypeOK
<1>2. stack[k] \in Frames
  BY <1>1
<1>3. QED
  BY <1>2 DEF Frm, Frames

LEMMA TopFacts ==
  ASSUME WalkTypeOK, stack # <<>>
  PROVE  /\ Len(stack) \in 1 .. Len(stack)
         /\ Top = Frm(Len(stack))
BY DEF WalkTypeOK, Top, Frm

LEMMA RankFalls ==
  ASSUME NEW rank, WellTyped, Ranked(rank), NEW p \in Program, NEW i \in Numbers(p)
  PROVE  CallAt(p, i) \in Program /\ rank[CallAt(p, i)] < rank[p]
BY DEF WellTyped, Ranked, CallsOf, CallAt, Numbers

LEMMA SameBundle ==
  ASSUME graph' = graph
  PROVE  /\ WellTyped' <=> WellTyped
         /\ \A rank : Ranked(rank)' <=> Ranked(rank)
         /\ \A p \in Program : Numbers(p)' = Numbers(p)
         /\ \A p, i : CallAt(p, i)' = CallAt(p, i)
BY DEF WellTyped, Ranked, CallsOf, Program, Numbers, CallAt

(* A verdict that leaves the walk's own state alone only has to be right.   *)
LEMMA RefusePreserves ==
  ASSUME IInv, Running, NEW reason \in {"cycle", "unknown", "kind"}, Conclude(reason), ~Servable
  PROVE  IInv'
<1>1. WalkTypeOK'
  BY DEF IInv, WalkTypeOK, Conclude, Frames, Program
<1>2. ~Running' /\ AcceptedIsRanked'
  BY DEF Conclude, Running, AcceptedIsRanked
<1>3. RefusedIsUnservable'
  BY DEF Conclude, RefusedIsUnservable, Servable, WellTyped, Ranked, CallsOf, Program
<1>4. QED
  BY <1>1, <1>2, <1>3 DEF IInv

LEMMA CallIsNumbered ==
  ASSUME WalkTypeOK, Calling
  PROVE  /\ Top.program \in Program
         /\ Top.next \in Numbers(Top.program)
         /\ CallAt(Top.program, Top.next) = Callee
<1>1. stack # <<>> /\ Top.next <= Len(graph.calls[Top.program])
  BY DEF Calling
<1>2. Top.program \in Program /\ Top.next \in Nat \ {0}
  BY <1>1, TopFacts, FrameFacts
<1>3. Numbers(Top.program) = 1 .. Len(graph.calls[Top.program])
      /\ Len(graph.calls[Top.program]) \in Nat
  BY <1>2, BundleFacts
<1>4. QED
  BY <1>1, <1>2, <1>3 DEF CallAt, Callee

LEMMA UnknownPreserves == ASSUME IInv, RefuseUnknownCallee PROVE IInv'
<1>1. WalkTypeOK /\ stack # <<>> /\ Calling
  BY DEF IInv, RefuseUnknownCallee, Calling
<1>2. Top.program \in Program /\ Top.next \in Numbers(Top.program)
  BY <1>1, CallIsNumbered
<1>3. Callee \in CallsOf(Top.program)
  BY <1>2 DEF Callee, CallsOf, Numbers
<1>4. ~Servable
  BY <1>2, <1>3 DEF RefuseUnknownCallee, Servable, WellTyped
<1>5. QED
  BY <1>1, <1>4, RefusePreserves DEF RefuseUnknownCallee, Calling

LEMMA KindPreserves == ASSUME IInv, RefuseKind PROVE IInv'
<1>1. WalkTypeOK /\ stack # <<>> /\ Calling
  BY DEF IInv, RefuseKind, Calling
<1>2. Top.program \in Program /\ Top.next \in Numbers(Top.program)
  BY <1>1, CallIsNumbered
<1>3. Callee \in CallsOf(Top.program)
  BY <1>2 DEF Callee, CallsOf, Numbers
<1>4. ~Servable
  BY <1>2, <1>3 DEF RefuseKind, Servable, WellTyped
<1>5. QED
  BY <1>1, <1>4, RefusePreserves DEF RefuseKind, Calling

(* A grey callee is an activation on the stack; a ranking would fall from   *)
(* it down to the caller and again along the call back to it.               *)
LEMMA CyclePreserves == ASSUME IInv, RefuseCycle PROVE IInv'
<1>1. WalkTypeOK /\ stack # <<>> /\ Callable /\ Calling /\ Running /\ WalkInv
  BY DEF IInv, RefuseCycle, Callable, Calling
<1>2. Top.program \in Program /\ Top.next \in Numbers(Top.program)
  BY <1>1, CallIsNumbered
<1>3. Callee \in Program /\ CallAt(Top.program, Top.next) = Callee
  BY <1>1 DEF Callable, Callee, CallAt
<1>4. PICK k \in 1 .. Len(stack) : Frm(k).program = Callee
  BY <1>1, <1>3 DEF WalkInv, PathInv, RefuseCycle
<1>5. ASSUME NEW rank \in [Program -> 1 .. MaxCallDepth], WellTyped, Ranked(rank)
      PROVE  FALSE
  <2>1. rank[Callee] < rank[Top.program]
    BY <1>2, <1>3, <1>5, RankFalls
  <2>2. k = Len(stack) \/ rank[Frm(Len(stack)).program] < rank[Frm(k).program]
    <3>1. \A i, j \in 1 .. Len(stack) : i < j => rank[Frm(j).program] < rank[Frm(i).program]
      BY <1>1, <1>5 DEF WalkInv, LowerInv
    <3>2. Len(stack) \in 1 .. Len(stack) /\ Len(stack) \in Nat
      BY <1>1, TopFacts DEF WalkTypeOK
    <3>3. QED
      BY <3>1, <3>2
  <2>3. rank[Callee] \in Int /\ rank[Top.program] \in Int
    BY <1>2, <1>3
  <2>4. QED
    BY <1>1, <1>4, <2>1, <2>2, <2>3, TopFacts
<1>6. ~Servable
  BY <1>5 DEF Servable
<1>7. QED
  BY <1>1, <1>6, RefusePreserves DEF RefuseCycle

(* What visit(p) finds when it starts on a white program: nothing on the    *)
(* stack, or a call to it.                                                  *)
LEMMA PushPreserves ==
  ASSUME IInv, Running, NEW p \in Program, colour[p] = "white", Push(p),
         stack = <<>> => p = root,
         stack # <<>> =>
           /\ Top.next \in Numbers(Top.program)
           /\ CallAt(Top.program, Top.next) = p
           /\ graph.kind[p] = graph.kind[Top.program]
  PROVE  IInv'
<1> USE DEF Frm
<1>1. WalkTypeOK /\ WalkInv
  BY DEF IInv
<1>2. stack \in Seq(Frames) /\ Frame(p) \in Frames
  BY <1>1 DEF WalkTypeOK, Frame, Frames
<1>3. /\ stack' \in Seq(Frames)
      /\ Len(stack') = Len(stack) + 1
      /\ \A k \in 1 .. Len(stack) : stack'[k] = stack[k]
      /\ stack'[Len(stack) + 1] = Frame(p)
      /\ Len(stack) \in Nat
  BY <1>2, PushFacts DEF Push
<1>4. Frame(p).program = p /\ Frame(p).next = 1 /\ Frame(p).best = 1
  BY DEF Frame
<1>5. /\ graph' = graph /\ depth' = depth /\ root' = root /\ ruling' = ruling
      /\ colour' = [colour EXCEPT ![p] = "grey"]
  BY DEF Push
<1>6. /\ colour'[p] = "grey"
      /\ \A q \in Program : q # p => colour'[q] = colour[q]
      /\ \A q \in Program : colour[q] = "black" => colour'[q] = "black"
      /\ \A q \in Program : colour'[q] = "black" => colour[q] = "black"
  BY <1>1, <1>5 DEF WalkTypeOK
<1>7. \A k \in 1 .. Len(stack) :
        stack[k].program \in Program /\ colour[stack[k].program] = "grey" /\ stack[k].program # p
  BY <1>1, FrameFacts DEF WalkInv, PathInv
<1>8. stack # <<>> => Len(stack) \in 1 .. Len(stack) /\ Top = stack[Len(stack)]
  BY <1>1, TopFacts
<1>9. WalkTypeOK'
  BY <1>1, <1>3, <1>5 DEF WalkTypeOK, Frames, Program
<1>10. PathInv'
  <2>1. \A k \in 1 .. Len(stack') : colour'[stack'[k].program] = "grey"
    BY <1>3, <1>4, <1>6, <1>7
  <2>2. \A k, l \in 1 .. Len(stack') : k # l => stack'[k].program # stack'[l].program
    BY <1>1, <1>3, <1>4, <1>7 DEF WalkInv, PathInv
  <2>3. \A q \in Program : colour'[q] = "grey" => \E k \in 1 .. Len(stack') : stack'[k].program = q
    <3>1. SUFFICES ASSUME NEW q \in Program, colour'[q] = "grey"
                   PROVE  \E k \in 1 .. Len(stack') : stack'[k].program = q
      OBVIOUS
    <3>2. CASE q = p
      BY <3>2, <1>3, <1>4
    <3>3. CASE q # p
      <4>1. PICK k \in 1 .. Len(stack) : stack[k].program = q
        BY <3>1, <3>3, <1>1, <1>6 DEF WalkInv, PathInv
      <4>2. QED
        BY <4>1, <1>3
    <3>4. QED
      BY <3>2, <3>3
  <2>4. ASSUME NEW k \in 1 .. Len(stack') - 1
        PROVE  /\ stack'[k].next \in Numbers(stack'[k].program)
               /\ CallAt(stack'[k].program, stack'[k].next) = stack'[k + 1].program
               /\ graph.kind[stack'[k + 1].program] = graph.kind[stack'[k].program]
    <3>1. k \in 1 .. Len(stack) /\ stack'[k] = stack[k] /\ stack # <<>>
      BY <1>3
    <3>2. CASE k = Len(stack)
      BY <3>1, <3>2, <1>3, <1>4, <1>8
    <3>3. CASE k # Len(stack)
      <4>1. k \in 1 .. Len(stack) - 1 /\ stack'[k + 1] = stack[k + 1]
        BY <3>1, <3>3, <1>3
      <4>2. QED
        BY <4>1, <3>1, <1>1 DEF WalkInv, PathInv
    <3>4. QED
      BY <3>2, <3>3
  <2>5. QED
    BY <2>1, <2>2, <2>3, <2>4, <1>5 DEF PathInv, Numbers, CallAt, Program
<1>11. BlackInv'
  BY <1>1, <1>5, <1>6 DEF WalkInv, BlackInv, Settled, Numbers, CallAt, Program
<1>12. FrameInv'
  <2>1. SUFFICES ASSUME NEW k \in 1 .. Len(stack'), NEW i \in Numbers(stack'[k].program),
                        i < stack'[k].next
                 PROVE  Settled(stack[k].program, i, stack[k].best)'
    BY <1>5 DEF FrameInv, Numbers
  <2>2. CASE k = Len(stack) + 1
    <3>1. Numbers(p) = 1 .. Len(graph.calls[p]) /\ graph.calls[p] \in Seq(Nat)
      BY <1>1, BundleFacts
    <3>2. i \in 1 .. Len(graph.calls[p]) /\ i < 1
      BY <3>1, <2>1, <2>2, <1>3, <1>4
    <3>3. QED
      BY <3>2
  <2>3. CASE k \in 1 .. Len(stack)
    <3>1. Settled(stack[k].program, i, stack[k].best)
      BY <2>1, <2>3, <1>1, <1>3 DEF WalkInv, FrameInv
    <3>2. QED
      BY <3>1, <2>3, <1>3, <1>5, <1>6 DEF Settled, CallAt, Program
  <2>4. QED
    BY <2>2, <2>3, <1>3
<1>13. RootInv'
  <2>1. \A q \in Program : q < root => colour'[q] = "black"
    BY <1>1, <1>6 DEF WalkInv, RootInv
  <2>2. stack'[1].program = root
    <3>1. CASE stack = <<>>
      BY <3>1, <1>3, <1>4
    <3>2. CASE stack # <<>>
      BY <3>2, <1>1, <1>3, <1>8 DEF WalkInv, RootInv
    <3>3. QED
      BY <3>1, <3>2
  <2>3. QED
    BY <2>1, <2>2, <1>5 DEF RootInv, Program
<1>14. LowerInv'
  <2>1. SUFFICES ASSUME NEW rank \in [Program -> 1 .. MaxCallDepth], WellTyped, Ranked(rank)
                 PROVE  /\ \A q \in Program : colour'[q] = "black" => depth[q] <= rank[q]
                        /\ \A k \in 1 .. Len(stack') : stack'[k].best <= rank[stack'[k].program]
                        /\ \A k, l \in 1 .. Len(stack') :
                             k < l => rank[stack'[l].program] < rank[stack'[k].program]
    BY <1>5, SameBundle DEF LowerInv, Program
  <2>2. /\ \A q \in Program : colour[q] = "black" => depth[q] <= rank[q]
        /\ \A k \in 1 .. Len(stack) : stack[k].best <= rank[stack[k].program]
        /\ \A k, l \in 1 .. Len(stack) : k < l => rank[stack[l].program] < rank[stack[k].program]
    BY <1>1, <2>1 DEF WalkInv, LowerInv
  <2>3. rank[p] \in Nat /\ rank[p] >= 1
    BY SizeAssumption
  <2>4. \A k \in 1 .. Len(stack) : rank[stack[k].program] \in Nat
    BY <1>7
  <2>5. ASSUME stack # <<>>
        PROVE  rank[p] < rank[stack[Len(stack)].program]
    BY <2>1, <2>5, <1>7, <1>8, RankFalls
  <2>6. \A k \in 1 .. Len(stack) : rank[p] < rank[stack[k].program]
    <3>1. SUFFICES ASSUME NEW k \in 1 .. Len(stack)
                   PROVE  rank[p] < rank[stack[k].program]
      OBVIOUS
    <3>2. stack # <<>> /\ Len(stack) \in 1 .. Len(stack)
      BY <1>2, <3>1
    <3>3. rank[p] < rank[stack[Len(stack)].program]
      BY <2>5, <3>2
    <3>4. k = Len(stack) \/ rank[stack[Len(stack)].program] < rank[stack[k].program]
      BY <2>2, <3>2, <1>3
    <3>5. QED
      BY <2>3, <2>4, <3>2, <3>3, <3>4
  <2>7. \A k \in 1 .. Len(stack') : stack'[k].best <= rank[stack'[k].program]
    BY <1>3, <1>4, <2>2, <2>3
  <2>8. \A k, l \in 1 .. Len(stack') : k < l => rank[stack'[l].program] < rank[stack'[k].program]
    BY <1>3, <1>4, <2>2, <2>6
  <2>9. QED
    BY <2>2, <2>7, <2>8, <1>6
<1>15. AcceptedIsRanked' /\ RefusedIsUnservable'
  BY <1>5 DEF AcceptedIsRanked, RefusedIsUnservable, Running
<1>16. QED
  BY <1>9, <1>10, <1>11, <1>12, <1>13, <1>14, <1>15 DEF IInv, WalkInv

(* A stack resumed with the depth d of a black program q keeps what is      *)
(* known of its frames: the call just returned is settled, and the best of  *)
(* the last frame stays below every ranking.                                *)
LEMMA ResumeFrames ==
  ASSUME WalkTypeOK, NEW s \in Seq(Frames), NEW q \in Program,
         colour[q] = "black",
         s # <<>> =>
           /\ s[Len(s)].next \in Numbers(s[Len(s)].program)
           /\ CallAt(s[Len(s)].program, s[Len(s)].next) = q
           /\ graph.kind[q] = graph.kind[s[Len(s)].program],
         \A k \in 1 .. Len(s) : \A i \in Numbers(s[k].program) :
           i < s[k].next => Settled(s[k].program, i, s[k].best)
  PROVE  \A k \in 1 .. Len(s) : \A i \in Numbers(s[k].program) :
           i < Resume(s, depth[q])[k].next =>
             Settled(s[k].program, i, Resume(s, depth[q])[k].best)
<1>1. depth[q] \in Nat
  BY DEF WalkTypeOK
<1>2. SUFFICES ASSUME NEW k \in 1 .. Len(s), NEW i \in Numbers(s[k].program),
                      i < Resume(s, depth[q])[k].next
               PROVE  Settled(s[k].program, i, Resume(s, depth[q])[k].best)
  OBVIOUS
<1>3. s # <<>> /\ Len(s) \in 1 .. Len(s) /\ s[k] \in Frames
  BY <1>2
<1>4. s[k].program \in Program /\ s[k].next \in Nat /\ s[k].best \in Nat
  BY <1>3 DEF Frames
<1>5. i \in Nat
  BY <1>2, <1>4, BundleFacts
<1>6. CASE k # Len(s)
  BY <1>1, <1>2, <1>6, ResumeFacts
<1>7. CASE k = Len(s)
  <2>1. /\ Resume(s, depth[q])[k].next = s[k].next + 1
        /\ Resume(s, depth[q])[k].best = Larger(s[k].best, depth[q] + 1)
    BY <1>1, <1>3, <1>7, ResumeFacts
  <2>2. s[k].best <= Larger(s[k].best, depth[q] + 1) /\ depth[q] < Larger(s[k].best, depth[q] + 1)
        /\ Larger(s[k].best, depth[q] + 1) \in Nat
    BY <1>1, <1>4 DEF Larger
  <2>3. CASE i = s[k].next
    BY <1>3, <1>7, <2>1, <2>2, <2>3 DEF Settled
  <2>4. CASE i < s[k].next
    <3>1. Settled(s[k].program, i, s[k].best)
      BY <2>4
    <3>2. depth[CallAt(s[k].program, i)] \in Nat
      BY <3>1 DEF Settled, WalkTypeOK
    <3>3. QED
      BY <3>1, <3>2, <2>1, <2>2, <1>4 DEF Settled
  <2>5. QED
    BY <1>2, <1>4, <1>5, <2>1, <2>3, <2>4
<1>8. QED
  BY <1>6, <1>7

LEMMA ResumeLower ==
  ASSUME WalkTypeOK, NEW s \in Seq(Frames), NEW q \in Program,
         NEW rank \in [Program -> 1 .. MaxCallDepth], WellTyped, Ranked(rank),
         depth[q] <= rank[q],
         s # <<>> =>
           /\ s[Len(s)].next \in Numbers(s[Len(s)].program)
           /\ CallAt(s[Len(s)].program, s[Len(s)].next) = q,
         \A k \in 1 .. Len(s) : s[k].best <= rank[s[k].program]
  PROVE  \A k \in 1 .. Len(s) : Resume(s, depth[q])[k].best <= rank[s[k].program]
<1>1. depth[q] \in Nat
  BY DEF WalkTypeOK
<1>2. SUFFICES ASSUME NEW k \in 1 .. Len(s)
               PROVE  Resume(s, depth[q])[k].best <= rank[s[k].program]
  OBVIOUS
<1>3. s # <<>> /\ s[k] \in Frames
  BY <1>2
<1>4. s[k].program \in Program /\ s[k].best \in Nat
  BY <1>3 DEF Frames
<1>5. CASE k # Len(s)
  BY <1>1, <1>2, <1>5, ResumeFacts
<1>6. CASE k = Len(s)
  <2>1. rank[q] < rank[s[k].program]
    BY <1>3, <1>4, <1>6, RankFalls
  <2>2. rank[q] \in Nat /\ rank[s[k].program] \in Nat
    BY <1>4, SizeAssumption
  <2>3. Resume(s, depth[q])[k].best = Larger(s[k].best, depth[q] + 1)
    BY <1>1, <1>3, <1>6, ResumeFacts
  <2>4. QED
    BY <1>1, <1>4, <2>1, <2>2, <2>3 DEF Larger
<1>7. QED
  BY <1>5, <1>6

(* A call to a black program: only the last frame changes.                  *)
LEMMA ReusePreserves == ASSUME IInv, Reuse PROVE IInv'
<1> USE DEF Frm
<1>1. /\ WalkTypeOK /\ WalkInv /\ stack # <<>> /\ Running
      /\ stack \in Seq(Frames)
      /\ Callee \in Program /\ colour[Callee] = "black"
      /\ graph.kind[Callee] = graph.kind[Top.program]
      /\ stack' = Resume(stack, depth[Callee])
      /\ graph' = graph /\ colour' = colour /\ depth' = depth
      /\ root' = root /\ ruling' = ruling
  BY DEF IInv, WalkTypeOK, Reuse, Callable, Calling
<1>2. depth[Callee] \in Nat
  BY <1>1 DEF WalkTypeOK
<1>3. /\ stack' \in Seq(Frames) /\ Len(stack') = Len(stack)
      /\ \A k \in 1 .. Len(stack) : stack'[k].program = stack[k].program
      /\ \A k \in 1 .. Len(stack) : k # Len(stack) => stack'[k] = stack[k]
  BY <1>1, <1>2, ResumeFacts
<1>4. Len(stack) \in 1 .. Len(stack) /\ Top = stack[Len(stack)] /\ Top.program \in Program
      /\ Len(stack) \in Nat
  BY <1>1, TopFacts, FrameFacts
<1>5. Top.next \in Numbers(Top.program) /\ CallAt(Top.program, Top.next) = Callee
  BY <1>1, CallIsNumbered DEF Reuse, Callable
<1>6. WalkTypeOK'
  BY <1>1, <1>3 DEF WalkTypeOK, Frames, Program
<1>7. PathInv'
  <2>1. PathInv
    BY <1>1 DEF WalkInv
  <2>2. \A k \in 1 .. Len(stack) : stack[k].program \in Program
    BY <1>1, FrameFacts
  <2>3. \A k \in 1 .. Len(stack) - 1 :
          stack'[k] = stack[k] /\ stack'[k + 1].program = stack[k + 1].program
    BY <1>3, <1>4
  <2>4. \A p \in Program : colour[p] = "grey" =>
          \E k \in 1 .. Len(stack') : stack'[k].program = p
    BY <2>1, <1>3 DEF PathInv
  <2>5. \A k \in 1 .. Len(stack') - 1 :
          /\ stack'[k].next \in Numbers(stack'[k].program)
          /\ CallAt(stack'[k].program, stack'[k].next) = stack'[k + 1].program
          /\ graph.kind[stack'[k + 1].program] = graph.kind[stack'[k].program]
    BY <2>1, <2>3, <1>3 DEF PathInv
  <2>6. /\ \A k \in 1 .. Len(stack') : colour[stack'[k].program] = "grey"
        /\ \A k, l \in 1 .. Len(stack') : k # l => stack'[k].program # stack'[l].program
    BY <2>1, <1>3, SMTT(60) DEF PathInv
  <2>7. QED
    BY <2>4, <2>5, <2>6, <1>1 DEF PathInv, Numbers, CallAt, Program
<1>8. BlackInv'
  BY <1>1 DEF WalkInv, BlackInv, Settled, Numbers, CallAt, Program
<1>9. FrameInv'
  <2>1. \A k \in 1 .. Len(stack) : \A i \in Numbers(stack[k].program) :
          i < stack[k].next => Settled(stack[k].program, i, stack[k].best)
    BY <1>1 DEF WalkInv, FrameInv
  <2>2. \A k \in 1 .. Len(stack) : \A i \in Numbers(stack[k].program) :
          i < stack'[k].next => Settled(stack[k].program, i, stack'[k].best)
    BY <1>1, <1>4, <1>5, <2>1, ResumeFrames
  <2>3. ASSUME NEW k \in 1 .. Len(stack'), NEW i \in Numbers(stack[k].program)',
               i < stack'[k].next
        PROVE  Settled(stack[k].program, i, stack[k].best)'
    <3>1. k \in 1 .. Len(stack) /\ i \in Numbers(stack[k].program)
      BY <2>3, <1>1, <1>3 DEF Numbers
    <3>2. Settled(stack[k].program, i, stack'[k].best)
      BY <2>2, <2>3, <3>1
    <3>3. QED
      BY <3>2, <1>1, <1>3 DEF Settled, CallAt, Program
  <2>4. QED
    BY <2>3 DEF FrameInv
<1>10. RootInv'
  BY <1>1, <1>3, <1>4 DEF WalkInv, RootInv, Program
<1>11. LowerInv'
  <2>1. SUFFICES ASSUME NEW rank \in [Program -> 1 .. MaxCallDepth], WellTyped, Ranked(rank)
                 PROVE  /\ \A p \in Program : colour[p] = "black" => depth[p] <= rank[p]
                        /\ \A k \in 1 .. Len(stack') : stack'[k].best <= rank[stack'[k].program]
                        /\ \A k, l \in 1 .. Len(stack') :
                             k < l => rank[stack'[l].program] < rank[stack'[k].program]
    BY <1>1, SameBundle DEF LowerInv, Program
  <2>2. /\ \A p \in Program : colour[p] = "black" => depth[p] <= rank[p]
        /\ \A k \in 1 .. Len(stack) : stack[k].best <= rank[stack[k].program]
        /\ \A k, l \in 1 .. Len(stack) : k < l => rank[stack[l].program] < rank[stack[k].program]
    BY <1>1, <2>1 DEF WalkInv, LowerInv
  <2>3. \A k \in 1 .. Len(stack) : stack'[k].best <= rank[stack[k].program]
    BY <1>1, <1>4, <1>5, <2>1, <2>2, ResumeLower
  <2>4. QED
    BY <2>2, <2>3, <1>3
<1>12. AcceptedIsRanked' /\ RefusedIsUnservable'
  BY <1>1 DEF AcceptedIsRanked, RefusedIsUnservable, Running
<1>13. QED
  BY <1>6, <1>7, <1>8, <1>9, <1>10, <1>11, <1>12 DEF IInv, WalkInv

(* The last call of the innermost activation is explored: blackening it     *)
(* keeps what is known of black programs.                                   *)
LEMMA BlackenFacts ==
  ASSUME IInv, Explored, Blacken, graph' = graph
  PROVE  /\ Top.program \in Program /\ Top.best \in Nat \ {0}
         /\ colour'[Top.program] = "black" /\ depth'[Top.program] = Top.best
         /\ \A p \in Program : p # Top.program =>
              colour'[p] = colour[p] /\ depth'[p] = depth[p]
         /\ colour' \in [Program -> {"white", "grey", "black"}]
         /\ depth' \in [Program -> Nat]
         /\ colour[Top.program] = "grey"
         /\ \A i \in Numbers(Top.program) : Settled(Top.program, i, Top.best)
         /\ \A p \in Program : \A i, d : Settled(p, i, d) => Settled(p, i, d)'
<1>1. WalkTypeOK /\ WalkInv /\ stack # <<>>
  BY DEF IInv, Explored
<1>2. /\ Len(stack) \in 1 .. Len(stack) /\ Top = Frm(Len(stack))
      /\ Top.program \in Program /\ Top.best \in Nat \ {0} /\ Top.next \in Nat
  BY <1>1, TopFacts, FrameFacts
<1>3. colour[Top.program] = "grey"
  BY <1>1, <1>2 DEF WalkInv, PathInv
<1>4. Numbers(Top.program) = 1 .. Len(graph.calls[Top.program])
      /\ Len(graph.calls[Top.program]) \in Nat
  BY <1>1, <1>2, BundleFacts
<1>5. \A i \in Numbers(Top.program) : i < Top.next
  BY <1>2, <1>4 DEF Explored
<1>6. \A i \in Numbers(Top.program) : Settled(Top.program, i, Top.best)
  BY <1>1, <1>2, <1>5 DEF WalkInv, FrameInv
<1>7. /\ colour'[Top.program] = "black" /\ depth'[Top.program] = Top.best
      /\ \A p \in Program : p # Top.program => colour'[p] = colour[p] /\ depth'[p] = depth[p]
      /\ colour' \in [Program -> {"white", "grey", "black"}]
      /\ depth' \in [Program -> Nat]
  BY <1>1, <1>2 DEF Blacken, WalkTypeOK
<1>8. ASSUME NEW p \in Program, NEW i, NEW d, Settled(p, i, d)
      PROVE  Settled(p, i, d)'
  <2>1. CallAt(p, i) # Top.program /\ CallAt(p, i) \in Program
    BY <1>3, <1>8 DEF Settled
  <2>2. QED
    BY <2>1, <1>7, <1>8 DEF Settled, CallAt, Program
<1>9. QED
  BY <1>2, <1>3, <1>6, <1>7, <1>8

LEMMA BestIsLower ==
  ASSUME IInv, Explored, NEW rank \in [Program -> 1 .. MaxCallDepth], WellTyped, Ranked(rank)
  PROVE  Top.best <= rank[Top.program]
<1>1. WalkTypeOK /\ WalkInv /\ stack # <<>>
  BY DEF IInv, Explored
<1>2. QED
  BY <1>1, TopFacts DEF WalkInv, LowerInv

(* A best over the limit is over every ranking.                             *)
LEMMA DepthPreserves == ASSUME IInv, RefuseDepth PROVE IInv'
<1>1. /\ WalkTypeOK /\ Explored /\ Blacken /\ Top.best > MaxCallDepth
      /\ ruling' = "depth" /\ graph' = graph /\ stack' = stack /\ root' = root
  BY DEF IInv, RefuseDepth
<1>2. /\ colour' \in [Program -> {"white", "grey", "black"}]
      /\ depth' \in [Program -> Nat]
      /\ Top.program \in Program /\ Top.best \in Nat
  BY <1>1, BlackenFacts
<1>3. WalkTypeOK'
  BY <1>1, <1>2 DEF WalkTypeOK, Frames, Program
<1>4. ~Servable
  <2>1. SUFFICES ASSUME WellTyped, NEW rank \in [Program -> 1 .. MaxCallDepth], Ranked(rank)
                 PROVE  FALSE
    BY DEF Servable
  <2>2. Top.best <= rank[Top.program]
    BY <1>1, <2>1, BestIsLower
  <2>3. rank[Top.program] <= MaxCallDepth /\ rank[Top.program] \in Nat
    BY <1>2, SizeAssumption
  <2>4. QED
    BY <1>1, <1>2, <2>2, <2>3, SizeAssumption
<1>5. ~Servable'
  BY <1>1, <1>4, SameBundle DEF Servable, Program
<1>6. QED
  BY <1>1, <1>3, <1>5 DEF IInv, Running, AcceptedIsRanked, RefusedIsUnservable

LEMMA LeavePreserves == ASSUME IInv, Leave PROVE IInv'
<1> USE DEF Frm
<1> DEFINE q == Top.program
<1>1. /\ WalkTypeOK /\ WalkInv /\ stack # <<>> /\ Running
      /\ stack \in Seq(Frames)
      /\ Explored /\ Blacken /\ Top.best <= MaxCallDepth
      /\ stack' = Resume(Under, Top.best)
      /\ root' = (IF Len(stack) = 1 THEN root + 1 ELSE root)
      /\ graph' = graph /\ ruling' = ruling
  BY DEF IInv, WalkTypeOK, Leave, Explored
<1>2. /\ Under \in Seq(Frames) /\ Len(Under) = Len(stack) - 1 /\ Len(stack) \in Nat \ {0}
      /\ \A k \in 1 .. Len(Under) : Under[k] = stack[k]
  BY <1>1, PopFacts DEF Under
<1>3. /\ q \in Program /\ Top.best \in Nat \ {0}
      /\ colour'[q] = "black" /\ depth'[q] = Top.best
      /\ \A p \in Program : p # q => colour'[p] = colour[p] /\ depth'[p] = depth[p]
      /\ colour' \in [Program -> {"white", "grey", "black"}]
      /\ depth' \in [Program -> Nat]
      /\ colour[q] = "grey"
      /\ \A i \in Numbers(q) : Settled(q, i, Top.best)
      /\ \A p \in Program : \A i, d : Settled(p, i, d) => Settled(p, i, d)'
  BY <1>1, BlackenFacts
<1>4. /\ stack' \in Seq(Frames) /\ Len(stack') = Len(stack) - 1
      /\ \A k \in 1 .. Len(Under) : stack'[k].program = stack[k].program
      /\ \A k \in 1 .. Len(Under) : k # Len(Under) => stack'[k] = stack[k]
  <2>1. /\ Resume(Under, Top.best) \in Seq(Frames)
        /\ Len(Resume(Under, Top.best)) = Len(Under)
        /\ \A k \in 1 .. Len(Under) : Resume(Under, Top.best)[k].program = Under[k].program
        /\ \A k \in 1 .. Len(Under) : k # Len(Under) => Resume(Under, Top.best)[k] = Under[k]
    BY <1>2, <1>3, ResumeFacts
  <2>2. QED
    BY <2>1, <1>1, <1>2
<1>5. Len(stack) \in 1 .. Len(stack) /\ Top = stack[Len(stack)]
  BY <1>1, TopFacts
<1>6. \A k \in 1 .. Len(Under) : stack[k].program \in Program /\ stack[k].program # q
  <2>1. \A k \in 1 .. Len(Under) : k \in 1 .. Len(stack) /\ k # Len(stack)
    BY <1>2
  <2>2. QED
    BY <2>1, <1>1, <1>5, FrameFacts DEF WalkInv, PathInv
<1>7. Under # <<>> =>
        /\ Len(Under) \in 1 .. Len(Under)
        /\ Under[Len(Under)].next \in Numbers(Under[Len(Under)].program)
        /\ CallAt(Under[Len(Under)].program, Under[Len(Under)].next) = q
        /\ graph.kind[q] = graph.kind[Under[Len(Under)].program]
  <2>1. SUFFICES ASSUME Under # <<>> PROVE
        /\ Len(Under) \in 1 .. Len(Under)
        /\ stack[Len(Under)].next \in Numbers(stack[Len(Under)].program)
        /\ CallAt(stack[Len(Under)].program, stack[Len(Under)].next) = q
        /\ graph.kind[q] = graph.kind[stack[Len(Under)].program]
    BY <1>2
  <2>2. Len(Under) \in 1 .. Len(stack) - 1 /\ Len(Under) + 1 = Len(stack)
        /\ Len(Under) \in 1 .. Len(Under)
    BY <1>2, <2>1
  <2>3. QED
    BY <2>2, <1>1, <1>5 DEF WalkInv, PathInv
<1>8. WalkTypeOK'
  <2>1. root' \in 1 .. N + 1
    <3>1. CASE Len(stack) = 1
      <4>1. root = q
        BY <3>1, <1>1, <1>5 DEF WalkInv, RootInv
      <4>2. QED
        BY <3>1, <4>1, <1>1, <1>3, SizeAssumption DEF Program
    <3>2. CASE Len(stack) # 1
      BY <3>2, <1>1 DEF WalkTypeOK
    <3>3. QED
      BY <3>1, <3>2
  <2>2. QED
    BY <2>1, <1>1, <1>3, <1>4 DEF WalkTypeOK, Frames, Program
<1>9. PathInv'
  <2>1. PathInv
    BY <1>1 DEF WalkInv
  <2>2. \A k \in 1 .. Len(stack') : colour'[stack'[k].program] = "grey"
    <3>1. \A k \in 1 .. Len(stack') :
            /\ k \in 1 .. Len(stack) /\ k \in 1 .. Len(Under)
            /\ stack'[k].program = stack[k].program
      BY <1>2, <1>4
    <3>2. \A k \in 1 .. Len(stack) : colour[stack[k].program] = "grey"
      BY <2>1 DEF PathInv
    <3>3. QED
      BY <3>1, <3>2, <1>3, <1>6, SMTT(60)
  <2>3. \A k, l \in 1 .. Len(stack') : k # l => stack'[k].program # stack'[l].program
    BY <2>1, <1>2, <1>4, SMTT(30) DEF PathInv
  <2>4. ASSUME NEW p \in Program, colour'[p] = "grey"
        PROVE  \E k \in 1 .. Len(stack') : stack'[k].program = p
    <3>1. p # q /\ colour[p] = "grey"
      BY <2>4, <1>3
    <3>2. PICK k \in 1 .. Len(stack) : stack[k].program = p
      BY <2>1, <3>1 DEF PathInv
    <3>3. k \in 1 .. Len(Under)
      BY <3>1, <3>2, <1>2, <1>5
    <3>4. QED
      BY <3>2, <3>3, <1>2, <1>4
  <2>5. ASSUME NEW k \in 1 .. Len(stack') - 1
        PROVE  /\ stack'[k].next \in Numbers(stack'[k].program)
               /\ CallAt(stack'[k].program, stack'[k].next) = stack'[k + 1].program
               /\ graph.kind[stack'[k + 1].program] = graph.kind[stack'[k].program]
    <3>1. k \in 1 .. Len(Under) /\ k # Len(Under) /\ k + 1 \in 1 .. Len(Under)
          /\ k \in 1 .. Len(stack) - 1
      BY <1>2, <1>4
    <3>2. stack'[k] = stack[k] /\ stack'[k + 1].program = stack[k + 1].program
      BY <3>1, <1>4
    <3>3. QED
      BY <2>1, <3>1, <3>2 DEF PathInv
  <2>6. QED
    BY <2>2, <2>3, <2>4, <2>5, <1>1 DEF PathInv, Numbers, CallAt, Program
<1>10. BlackInv'
  <2>1. ASSUME NEW p \in Program, colour'[p] = "black"
        PROVE  depth'[p] \in 1 .. MaxCallDepth /\ \A i \in Numbers(p) : (Settled(p, i, depth[p]))'
    <3>1. CASE p = q
      <4>1. depth'[p] \in 1 .. MaxCallDepth
        BY <3>1, <1>1, <1>3, SizeAssumption
      <4>2. ASSUME NEW i \in Numbers(p)
            PROVE  (Settled(p, i, depth[p]))'
        <5>1. Settled(q, i, Top.best)
          BY <3>1, <1>3, <4>2
        <5>2. CallAt(q, i) \in Program /\ CallAt(q, i) # q
          BY <5>1, <1>3 DEF Settled
        <5>3. QED
          BY <3>1, <5>1, <5>2, <1>1, <1>3 DEF Settled, CallAt, Program
      <4>3. QED
        BY <4>1, <4>2
    <3>2. CASE p # q
      <4>1. colour[p] = "black" /\ depth'[p] = depth[p]
        BY <2>1, <3>2, <1>3
      <4>2. depth[p] \in 1 .. MaxCallDepth /\ \A i \in Numbers(p) : Settled(p, i, depth[p])
        BY <4>1, <1>1 DEF WalkInv, BlackInv
      <4>3. ASSUME NEW i \in Numbers(p)
            PROVE  (Settled(p, i, depth[p]))'
        <5>1. Settled(p, i, depth[p])
          BY <4>2, <4>3
        <5>2. CallAt(p, i) \in Program /\ CallAt(p, i) # q
          BY <5>1, <1>3 DEF Settled
        <5>3. QED
          BY <4>1, <5>1, <5>2, <1>1, <1>3 DEF Settled, CallAt, Program
      <4>4. QED
        BY <4>1, <4>2, <4>3
    <3>3. QED
      BY <3>1, <3>2
  <2>2. QED
    BY <2>1, <1>1 DEF BlackInv, Numbers, Program
<1>11. FrameInv'
  <2>1. /\ WalkTypeOK'
        /\ colour'[q] = "black"
        /\ \A k \in 1 .. Len(Under) : \A i \in Numbers(Under[k].program) :
             i < Under[k].next => (Settled(stack[k].program, i, stack[k].best) /\ Under[k] = stack[k])
    <3>1. \A k \in 1 .. Len(stack) : \A i \in Numbers(stack[k].program) :
            i < stack[k].next => Settled(stack[k].program, i, stack[k].best)
      BY <1>1 DEF WalkInv, FrameInv
    <3>2. \A k \in 1 .. Len(Under) : k \in 1 .. Len(stack)
      BY <1>2
    <3>3. QED
      BY <3>1, <3>2, <1>2, <1>3, <1>8
  <2>2. ASSUME NEW k \in 1 .. Len(stack'), NEW i \in Numbers(stack[k].program), i < stack'[k].next
        PROVE  /\ CallAt(stack[k].program, i) \in Program
               /\ graph.kind[CallAt(stack[k].program, i)] = graph.kind[stack[k].program]
               /\ colour'[CallAt(stack[k].program, i)] = "black"
               /\ depth'[CallAt(stack[k].program, i)] < stack'[k].best
    <3>1. k \in 1 .. Len(Under) /\ Under[k] = stack[k] /\ Under # <<>> /\ stack[k] \in Frames
          /\ Len(Under) \in 1 .. Len(Under)
      BY <1>2, <1>4, <2>2
    <3>2. stack[k].program \in Program /\ stack[k].next \in Nat /\ stack[k].best \in Nat
      BY <3>1 DEF Frames
    <3>3. i \in Nat
      BY <1>1, <2>2, <3>2, BundleFacts
    <3>4. ASSUME i < stack[k].next
          PROVE  /\ CallAt(stack[k].program, i) \in Program
                 /\ graph.kind[CallAt(stack[k].program, i)] = graph.kind[stack[k].program]
                 /\ colour'[CallAt(stack[k].program, i)] = "black"
                 /\ depth'[CallAt(stack[k].program, i)] \in Nat
                 /\ depth'[CallAt(stack[k].program, i)] < stack[k].best
      <4>1. Settled(stack[k].program, i, stack[k].best)
        BY <2>1, <2>2, <3>1, <3>4
      <4>2. CallAt(stack[k].program, i) \in Program /\ CallAt(stack[k].program, i) # q
        BY <4>1, <1>3 DEF Settled
      <4>3. QED
        BY <4>1, <4>2, <1>3 DEF Settled
    <3>5. CASE k # Len(Under)
      BY <3>1, <3>4, <3>5, <1>4, <2>2
    <3>6. CASE k = Len(Under)
      <4>1. /\ stack'[k].next = stack[k].next + 1
            /\ stack'[k].best = Larger(stack[k].best, Top.best + 1)
        BY <3>1, <3>6, <1>1, <1>2, <1>3, ResumeFacts
      <4>2. stack[k].best <= Larger(stack[k].best, Top.best + 1)
            /\ Top.best < Larger(stack[k].best, Top.best + 1)
            /\ Larger(stack[k].best, Top.best + 1) \in Nat
        BY <1>3, <3>2 DEF Larger
      <4>3. CASE i < stack[k].next
        BY <3>4, <4>1, <4>2, <4>3, <3>2
      <4>4. CASE i = stack[k].next
        <5>1. CallAt(stack[k].program, i) = q /\ graph.kind[q] = graph.kind[stack[k].program]
          BY <4>4, <3>1, <3>6, <1>7
        <5>2. QED
          BY <5>1, <4>1, <4>2, <1>3
      <4>5. QED
        BY <4>1, <4>3, <4>4, <2>2, <3>2, <3>3
    <3>7. QED
      BY <3>5, <3>6
  <2>3. \A k \in 1 .. Len(stack') : stack'[k].program = stack[k].program
    BY <1>2, <1>4
  <2>4. ASSUME NEW k \in 1 .. Len(stack'), NEW i \in Numbers(stack[k].program)',
               i < stack'[k].next
        PROVE  Settled(stack[k].program, i, stack[k].best)'
    <3>1. i \in Numbers(stack[k].program)
      BY <2>3, <2>4, <1>1 DEF Numbers
    <3>2. /\ CallAt(stack[k].program, i) \in Program
          /\ graph.kind[CallAt(stack[k].program, i)] = graph.kind[stack[k].program]
          /\ colour'[CallAt(stack[k].program, i)] = "black"
          /\ depth'[CallAt(stack[k].program, i)] < stack'[k].best
      BY <2>2, <2>4, <3>1
    <3>3. graph' = graph /\ stack'[k].program = stack[k].program
      BY <2>3, <2>4, <1>1
    <3>4. QED
      BY <3>2, <3>3 DEF Settled, CallAt, Program
  <2>5. QED
    BY <2>4 DEF FrameInv
<1>12. RootInv'
  <2>1. CASE Len(stack) = 1
    <3>1. root = q
      BY <2>1, <1>1, <1>5 DEF WalkInv, RootInv
    <3>2. ASSUME NEW p \in Program, p < root + 1
          PROVE  colour'[p] = "black"
      <4>1. p = root \/ p < root
        BY <3>2, <1>1 DEF Program, WalkTypeOK
      <4>2. QED
        BY <3>1, <4>1, <1>1, <1>3 DEF WalkInv, RootInv
    <3>3. stack' = <<>>
      BY <2>1, <1>4
    <3>4. QED
      BY <2>1, <3>2, <3>3, <1>1 DEF RootInv, Program
  <2>2. CASE Len(stack) # 1
    <3>1. \A p \in Program : p < root => colour'[p] = "black"
      BY <1>1, <1>3 DEF WalkInv, RootInv
    <3>2. stack'[1].program = stack[1].program /\ stack[1].program = root
      BY <2>2, <1>1, <1>2, <1>4, SMTT(60) DEF WalkInv, RootInv
    <3>3. QED
      BY <2>2, <3>1, <3>2, <1>1 DEF RootInv, Program
  <2>3. QED
    BY <2>1, <2>2
<1>13. LowerInv'
  <2>1. SUFFICES ASSUME NEW rank \in [Program -> 1 .. MaxCallDepth], WellTyped, Ranked(rank)
                 PROVE  /\ \A p \in Program : colour'[p] = "black" => depth'[p] <= rank[p]
                        /\ \A k \in 1 .. Len(stack') : stack'[k].best <= rank[stack'[k].program]
                        /\ \A k, l \in 1 .. Len(stack') :
                             k < l => rank[stack'[l].program] < rank[stack'[k].program]
    BY <1>1, SameBundle DEF LowerInv, Program
  <2>2. /\ \A p \in Program : colour[p] = "black" => depth[p] <= rank[p]
        /\ \A k \in 1 .. Len(stack) : stack[k].best <= rank[stack[k].program]
        /\ \A k, l \in 1 .. Len(stack) : k < l => rank[stack[l].program] < rank[stack[k].program]
    BY <1>1, <2>1 DEF WalkInv, LowerInv
  <2>3. Top.best <= rank[q]
    BY <2>2, <1>5
  <2>4. \A p \in Program : colour'[p] = "black" => depth'[p] <= rank[p]
    BY <2>2, <2>3, <1>3
  <2>5. ASSUME NEW k \in 1 .. Len(stack')
        PROVE  stack'[k].best <= rank[stack'[k].program]
    <3>1. k \in 1 .. Len(Under) /\ k \in 1 .. Len(stack) /\ Under[k] = stack[k] /\ Under # <<>>
          /\ stack[k] \in Frames /\ Len(Under) \in 1 .. Len(Under)
      BY <1>1, <1>2, <1>4, <2>5
    <3>2. stack[k].program \in Program /\ stack[k].best \in Nat
          /\ stack'[k].program = stack[k].program
      BY <3>1, <1>4 DEF Frames
    <3>3. CASE k # Len(Under)
      BY <3>1, <3>3, <1>4, <2>2
    <3>4. CASE k = Len(Under)
      <4>1. rank[q] < rank[stack[k].program]
        BY <3>1, <3>2, <3>4, <1>7, <2>1, RankFalls
      <4>2. stack'[k].best = Larger(stack[k].best, Top.best + 1)
        BY <3>1, <3>4, <1>1, <1>2, <1>3, ResumeFacts
      <4>3. rank[q] \in Nat /\ rank[stack[k].program] \in Nat
        BY <1>3, <3>2, SizeAssumption
      <4>4. stack[k].best <= rank[stack[k].program]
        BY <2>2, <3>1
      <4>5. QED
        BY <4>1, <4>2, <4>3, <4>4, <2>3, <1>3, <3>2 DEF Larger
    <3>5. QED
      BY <3>3, <3>4
  <2>6. \A k, l \in 1 .. Len(stack') : k < l => rank[stack'[l].program] < rank[stack'[k].program]
    <3>1. \A k \in 1 .. Len(stack') :
            k \in 1 .. Len(stack) /\ stack'[k].program = stack[k].program
      BY <1>2, <1>4
    <3>2. QED
      BY <2>2, <3>1
  <2>7. QED
    BY <2>4, <2>5, <2>6
<1>14. AcceptedIsRanked' /\ RefusedIsUnservable'
  BY <1>1 DEF AcceptedIsRanked, RefusedIsUnservable, Running
<1>15. QED
  BY <1>8, <1>9, <1>10, <1>11, <1>12, <1>13, <1>14 DEF IInv, WalkInv

(* Past the last root every program is black, so its depth is final.        *)
LEMMA AcceptPreserves == ASSUME IInv, Accept PROVE IInv'
<1>1. /\ WalkTypeOK /\ WalkInv /\ stack = <<>> /\ root > N
      /\ ruling' = "accepted" /\ graph' = graph /\ colour' = colour /\ depth' = depth
      /\ stack' = stack /\ root' = root
  BY DEF IInv, Accept, Conclude
<1>2. \A p \in Program : colour[p] = "black"
  BY <1>1, SizeAssumption DEF WalkInv, RootInv, Program, WalkTypeOK
<1>3. \A p \in Program : depth[p] \in 1 .. MaxCallDepth
                         /\ \A i \in Numbers(p) : Settled(p, i, depth[p])
  BY <1>1, <1>2 DEF WalkInv, BlackInv
<1>4. WellTyped /\ Ranked(depth)
  BY <1>3 DEF WellTyped, Ranked, CallsOf, Settled, CallAt, Numbers
<1>5. AcceptedIsRanked'
  BY <1>1, <1>3, <1>4 DEF AcceptedIsRanked, WellTyped, Ranked, CallsOf, Program
<1>6. WalkTypeOK'
  BY <1>1 DEF WalkTypeOK, Frames, Program
<1>7. QED
  BY <1>1, <1>5, <1>6 DEF IInv, Running, RefusedIsUnservable

LEMMA SkipPreserves == ASSUME IInv, SkipRoot PROVE IInv'
<1>1. /\ WalkTypeOK /\ WalkInv /\ Running /\ stack = <<>> /\ root <= N /\ colour[root] = "black"
      /\ root' = root + 1 /\ graph' = graph /\ colour' = colour /\ depth' = depth
      /\ stack' = stack /\ ruling' = ruling
  BY DEF IInv, SkipRoot
<1>2. WalkTypeOK'
  BY <1>1, SizeAssumption DEF WalkTypeOK, Frames, Program
<1>3. RootInv'
  <2>1. \A p \in Program : p < root + 1 => p < root \/ p = root
    BY <1>1 DEF WalkTypeOK, Program
  <2>2. QED
    BY <2>1, <1>1 DEF WalkInv, RootInv, Program
<1>4. PathInv' /\ BlackInv' /\ FrameInv'
  BY <1>1 DEF WalkInv, PathInv, BlackInv, FrameInv, Settled, Numbers, CallAt, Frm, Program
<1>5. LowerInv'
  BY <1>1, SameBundle DEF WalkInv, LowerInv, Frm, Program
<1>6. AcceptedIsRanked' /\ RefusedIsUnservable'
  BY <1>1 DEF AcceptedIsRanked, RefusedIsUnservable, Running
<1>7. QED
  BY <1>2, <1>3, <1>4, <1>5, <1>6 DEF IInv, WalkInv

------------------------------------------------------------------------------
(* The invariant of the walk holds of every bundle, whatever its calls.     *)
THEOREM WalkInvariance == WalkSpec => []IInv
<1>1. WalkInit => IInv
  <2>1. SUFFICES ASSUME WalkInit PROVE IInv
    OBVIOUS
  <2>2. WalkTypeOK
    BY <2>1, SizeAssumption DEF WalkInit, WalkTypeOK, Program
  <2>3. WalkInv
    BY <2>1, SizeAssumption
       DEF WalkInit, WalkInv, PathInv, BlackInv, FrameInv, RootInv, LowerInv, Frm, Program
  <2>4. AcceptedIsRanked /\ RefusedIsUnservable
    BY <2>1 DEF WalkInit, AcceptedIsRanked, RefusedIsUnservable
  <2>5. QED
    BY <2>2, <2>3, <2>4 DEF IInv
<1>2. IInv /\ [WalkNext]_walkVars => IInv'
  <2>1. SUFFICES ASSUME IInv, [WalkNext]_walkVars PROVE IInv'
    OBVIOUS
  <2>2. CASE StartRoot
    <3>1. root \in Program /\ stack = <<>> /\ Running /\ colour[root] = "white" /\ Push(root)
      BY <2>1, <2>2, SizeAssumption DEF StartRoot, IInv, WalkTypeOK, Program
    <3>2. QED
      BY <2>1, <3>1, PushPreserves
  <2>3. CASE SkipRoot
    BY <2>1, <2>3, SkipPreserves
  <2>4. CASE Accept
    BY <2>1, <2>4, AcceptPreserves
  <2>5. CASE RefuseUnknownCallee
    BY <2>1, <2>5, UnknownPreserves
  <2>6. CASE RefuseKind
    BY <2>1, <2>6, KindPreserves
  <2>7. CASE RefuseCycle
    BY <2>1, <2>7, CyclePreserves
  <2>8. CASE Enter
    <3>1. WalkTypeOK /\ Running /\ Calling /\ stack # <<>> /\ Callee \in Program
          /\ graph.kind[Callee] = graph.kind[Top.program]
          /\ colour[Callee] = "white" /\ Push(Callee)
      BY <2>1, <2>8 DEF IInv, Enter, Callable, Calling
    <3>2. Top.next \in Numbers(Top.program) /\ CallAt(Top.program, Top.next) = Callee
      BY <3>1, CallIsNumbered
    <3>3. QED
      BY <2>1, <3>1, <3>2, PushPreserves
  <2>9. CASE Reuse
    BY <2>1, <2>9, ReusePreserves
  <2>10. CASE Leave
    BY <2>1, <2>10, LeavePreserves
  <2>11. CASE RefuseDepth
    BY <2>1, <2>11, DepthPreserves
  <2>12. CASE UNCHANGED walkVars
    <3>1. /\ graph' = graph /\ colour' = colour /\ depth' = depth /\ stack' = stack
          /\ root' = root /\ ruling' = ruling
      BY <2>12 DEF walkVars
    <3>2. WalkTypeOK'
      BY <2>1, <3>1 DEF IInv, WalkTypeOK, Frames, Program
    <3>6. AcceptedIsRanked' /\ RefusedIsUnservable'
      BY <2>1, <3>1, SameBundle DEF IInv, AcceptedIsRanked, RefusedIsUnservable, Servable, Program
    <3>3. Running => PathInv' /\ RootInv'
      BY <2>1, <3>1 DEF IInv, WalkInv, PathInv, RootInv, Numbers, CallAt, Frm, Program
    <3>7. Running => BlackInv'
      BY <2>1, <3>1 DEF IInv, WalkInv, BlackInv, Settled, Numbers, CallAt, Program
    <3>8. Running => FrameInv'
      BY <2>1, <3>1 DEF IInv, WalkInv, FrameInv, Settled, Numbers, CallAt, Frm, Program
    <3>4. Running => LowerInv'
      BY <2>1, <3>1, SameBundle DEF IInv, WalkInv, LowerInv, Frm, Program
    <3>5. QED
      BY <3>1, <3>2, <3>3, <3>4, <3>6, <3>7, <3>8 DEF IInv, WalkInv, Running
  <2>13. QED
    BY <2>1, <2>2, <2>3, <2>4, <2>5, <2>6, <2>7, <2>8, <2>9, <2>10, <2>11, <2>12 DEF WalkNext
<1>3. QED
  BY <1>1, <1>2, PTL DEF WalkSpec

(* Colours, depths and the stack of the walk keep their types.              *)
THEOREM WalkTypeCorrect == WalkSpec => []WalkTypeOK
<1>1. IInv => WalkTypeOK
  BY DEF IInv
<1>2. QED
  BY <1>1, WalkInvariance, PTL

(* Whatever checkCallGraph accepts has calls that resolve, and static call  *)
(* depths that fall along every call and stay within the limit.             *)
THEOREM AcceptedCallsEnd == WalkSpec => []AcceptedIsRanked
<1>1. IInv => AcceptedIsRanked
  BY DEF IInv
<1>2. QED
  BY <1>1, WalkInvariance, PTL

(* Whatever checkCallGraph refuses could not have been served: it has a     *)
(* call that does not resolve, or no ranking within the limit.              *)
THEOREM RefusalsAreJustified == WalkSpec => []RefusedIsUnservable
<1>1. IInv => RefusedIsUnservable
  BY DEF IInv
<1>2. QED
  BY <1>1, WalkInvariance, PTL

(* A program met again is never explored again: it leaves white for good,   *)
(* and black with the depth it has is for good too, because only a white    *)
(* program is entered and only the innermost grey one is left.              *)
THEOREM ExploredAtMostOnce == WalkSpec => ExploredOnce
<1> DEFINE Once == \A p \in Program :
             /\ colour[p] # "white" => colour'[p] # "white"
             /\ colour[p] = "black" => colour'[p] = "black" /\ depth'[p] = depth[p]
<1>1. ASSUME IInv, [WalkNext]_walkVars PROVE [Once]_walkVars
  <2> SUFFICES ASSUME WalkNext PROVE Once
    BY <1>1
  <2>1. /\ colour \in [Program -> {"white", "grey", "black"}]
        /\ depth \in [Program -> Nat]
    BY <1>1 DEF IInv, WalkTypeOK
  <2>2. CASE StartRoot \/ Enter
    <3>1. PICK q \in Program : colour[q] = "white" /\ Push(q)
      <4>1. CASE StartRoot
        <5>1. root \in Nat /\ root >= 1
          BY <1>1 DEF IInv, WalkTypeOK
        <5>2. root \in Program
          BY <4>1, <5>1, SizeAssumption DEF StartRoot, Program
        <5> QED BY <4>1, <5>2 DEF StartRoot
      <4>2. CASE Enter
        BY <4>2 DEF Enter, Callable
      <4> QED BY <2>2, <4>1, <4>2
    <3> QED BY <2>1, <3>1 DEF Push
  <2>3. CASE Leave \/ RefuseDepth
    <3>1. Explored /\ Blacken
      BY <2>3 DEF Leave, RefuseDepth
    <3>2. WalkTypeOK /\ stack # <<>> /\ PathInv
      BY <1>1, <3>1 DEF Explored, IInv, WalkInv
    <3>3. Top = Frm(Len(stack)) /\ Len(stack) \in 1 .. Len(stack)
      BY <3>2, TopFacts
    <3>4. Top.program \in Program /\ colour[Top.program] = "grey"
      BY <3>2, <3>3, FrameFacts DEF PathInv
    <3> QED BY <2>1, <3>1, <3>4 DEF Blacken
  <2>4. CASE SkipRoot \/ Accept \/ RefuseUnknownCallee \/ RefuseKind \/ RefuseCycle \/ Reuse
    BY <2>1, <2>4 DEF SkipRoot, Accept, RefuseUnknownCallee, RefuseKind, RefuseCycle, Reuse, Conclude
  <2> QED BY <2>2, <2>3, <2>4 DEF WalkNext
<1> QED BY <1>1, WalkInvariance, PTL DEF WalkSpec, ExploredOnce
==============================================================================
