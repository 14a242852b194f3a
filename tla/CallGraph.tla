------------------------------ MODULE CallGraph ------------------------------
(***************************************************************************)
(* Check 24 of the bundle loader (internal/gen/load.go, checkCallGraph):    *)
(* the programs of a bundle call one another, and the emitted Go functions  *)
(* will call one another in the same way.  The loader walks the calls depth *)
(* first and refuses a cycle, a call that resolves to nothing or to another *)
(* kind of program, and a static depth over the limit.                      *)
(*                                                                          *)
(* The recursion of visit is the stack of frames it leaves on the Go stack. *)
(***************************************************************************)
EXTENDS Integers, Sequences

CONSTANTS N,             \* number of programs; they are numbered in bundle order
          CallGraphs,       \* the bundles under study
          MaxCallDepth   \* the limit of limits.go

Program == 1 .. N

(* What the walk reads of a bundle: the kind of each program and the        *)
(* program number of each of its CALL nodes, in node order.                 *)
IsCallGraph(b) ==
  /\ b.kind \in [Program -> {"format", "checksum"}]
  /\ b.calls \in [Program -> Seq(Nat)]

ASSUME SizeAssumption == N \in Nat /\ MaxCallDepth \in Nat \ {0}
ASSUME CallGraphsAssumption == \A b \in CallGraphs : IsCallGraph(b)

VARIABLES
  graph,    \* the bundle being checked, never changed
  colour,    \* "white", "grey" (on the current path) or "black"
  depth,     \* static call depth of the black programs
  stack,     \* activations of visit, the innermost one last
  root,      \* the program the outer loop has reached
  ruling    \* "running", "accepted" or why the bundle is refused

walkVars == <<graph, colour, depth, stack, root, ruling>>

Frame(p) == [program |-> p, next |-> 1, best |-> 1]
Frames == [program : Program, next : Nat \ {0}, best : Nat \ {0}]

WalkTypeOK ==
  /\ graph \in CallGraphs
  /\ colour \in [Program -> {"white", "grey", "black"}]
  /\ depth \in [Program -> Nat]
  /\ stack \in Seq(Frames)
  /\ root \in 1 .. N + 1
  /\ ruling \in {"running", "accepted", "cycle", "unknown", "kind", "depth"}

------------------------------------------------------------------------------
Larger(a, b) == IF a < b THEN b ELSE a

Top == stack[Len(stack)]
Under == SubSeq(stack, 1, Len(stack) - 1)

(* The caller is given the depth of its callee.                             *)
AdvanceByDepth(f, d) ==
  [program |-> f.program, next |-> f.next + 1, best |-> Larger(f.best, d)]

(* The frame below continues with the depth d its call returned.            *)
Advance(f, d) ==
  [program |-> f.program, next |-> f.next + 1, best |-> Larger(f.best, d + 1)]

Resume(s, d) == IF s = <<>> THEN s ELSE [s EXCEPT ![Len(s)] = Advance(@, d)]

WalkInit ==
  /\ graph \in CallGraphs
  /\ colour = [p \in Program |-> "white"]
  /\ depth = [p \in Program |-> 0]
  /\ stack = <<>>
  /\ root = 1
  /\ ruling = "running"

Running == ruling = "running"

(* visit(p) on a white program.                                             *)
Push(p) ==
  /\ colour' = [colour EXCEPT ![p] = "grey"]
  /\ stack' = Append(stack, Frame(p))
  /\ UNCHANGED <<graph, depth, root, ruling>>

Conclude(reason) ==
  /\ ruling' = reason
  /\ UNCHANGED <<graph, colour, depth, stack, root>>

(* The outer loop visits every program in order; a black one returns the    *)
(* depth it has, which the loop drops.                                      *)
StartRoot ==
  /\ Running /\ stack = <<>> /\ root <= N
  /\ colour[root] = "white"
  /\ Push(root)

SkipRoot ==
  /\ Running /\ stack = <<>> /\ root <= N
  /\ colour[root] = "black"
  /\ root' = root + 1
  /\ UNCHANGED <<graph, colour, depth, stack, ruling>>

Accept ==
  /\ Running /\ stack = <<>> /\ root > N
  /\ Conclude("accepted")

(* The next CALL node of the innermost activation.                          *)
Calling == Running /\ stack # <<>> /\ Top.next <= Len(graph.calls[Top.program])
Callee == graph.calls[Top.program][Top.next]

RefuseUnknownCallee == Calling /\ Callee \notin Program /\ Conclude("unknown")

RefuseKind ==
  /\ Calling /\ Callee \in Program
  /\ graph.kind[Callee] # graph.kind[Top.program]
  /\ Conclude("kind")

Callable ==
  /\ Calling /\ Callee \in Program
  /\ graph.kind[Callee] = graph.kind[Top.program]

(* Every program met twice is taken for a cycle.                            *)
RefuseVisited == Callable /\ colour[Callee] # "white" /\ Conclude("cycle")

RefuseCycle == Callable /\ colour[Callee] = "grey" /\ Conclude("cycle")

(* The memoized depth is not used.                                          *)
EnterAgain == Callable /\ colour[Callee] \in {"white", "black"} /\ Push(Callee)

Enter == Callable /\ colour[Callee] = "white" /\ Push(Callee)

(* The caller does not get past a call it need not explore.                 *)
ReuseSticks == Callable /\ colour[Callee] = "black" /\ UNCHANGED walkVars

Reuse ==
  /\ Callable /\ colour[Callee] = "black"
  /\ stack' = Resume(stack, depth[Callee])
  /\ UNCHANGED <<graph, colour, depth, root, ruling>>

(* Every call explored: blacken, then compare with the limit.               *)
Explored == Running /\ stack # <<>> /\ Top.next > Len(graph.calls[Top.program])

Blacken ==
  /\ colour' = [colour EXCEPT ![Top.program] = "black"]
  /\ depth' = [depth EXCEPT ![Top.program] = Top.best]

Leave ==
  /\ Explored /\ Top.best <= MaxCallDepth
  /\ Blacken
  /\ stack' = Resume(Under, Top.best)
  /\ root' = IF Len(stack) = 1 THEN root + 1 ELSE root
  /\ UNCHANGED <<graph, ruling>>

RefuseDepth ==
  /\ Explored /\ Top.best > MaxCallDepth
  /\ Blacken
  /\ ruling' = "depth"
  /\ UNCHANGED <<graph, stack, root>>

WalkNext ==
  \/ StartRoot \/ SkipRoot \/ Accept
  \/ RefuseUnknownCallee \/ RefuseKind \/ RefuseCycle
  \/ Enter \/ Reuse \/ Leave \/ RefuseDepth

(* The walk is sequential code: it takes its next step.                     *)
WalkSpec == WalkInit /\ [][WalkNext]_walkVars /\ WF_walkVars(WalkNext)

------------------------------------------------------------------------------
CallsOf(p) == {graph.calls[p][i] : i \in DOMAIN graph.calls[p]}

WellTyped ==
  \A p \in Program : \A c \in CallsOf(p) :
    c \in Program /\ graph.kind[c] = graph.kind[p]

(* A rank falls along every call: no cycle, and no chain longer than the    *)
(* largest rank.                                                            *)
Ranked(rank) == \A p \in Program : \A c \in CallsOf(p) : rank[c] < rank[p]

Servable ==
  WellTyped /\ \E rank \in [Program -> 1 .. MaxCallDepth] : Ranked(rank)

(* An accepted bundle has a static call depth the emitted functions never   *)
(* exceed: the depths the walk recorded fall along every call and stay      *)
(* within MaxCallDepth, so no chain of emitted calls is endless or longer   *)
(* than the limit.                                                          *)
AcceptedIsRanked ==
  ruling = "accepted" =>
    /\ WellTyped
    /\ \A p \in Program : depth[p] \in 1 .. MaxCallDepth
    /\ Ranked(depth)

(* The walk refuses only bundles that cannot be served: whatever the order  *)
(* of its programs and calls, a bundle with well-typed calls, without cycle *)
(* and within the depth limit is accepted, although cycle and depth are     *)
(* decided from colours and memoized depths in the middle of the walk.      *)
RefusedIsUnservable == ruling \notin {"running", "accepted"} => ~Servable

(* A shared callee is explored once: programs leave white and grey for      *)
(* good, so the walk is linear in the calls even where the number of paths  *)
(* is exponential.                                                          *)
ExploredOnce ==
  [][\A p \in Program :
       /\ colour[p] # "white" => colour'[p] # "white"
       /\ colour[p] = "black" => colour'[p] = "black" /\ depth'[p] = depth[p]]_walkVars

(* The walk ends on every bundle, cyclic ones included.                     *)
WalkTerminates == <>(ruling # "running")
==============================================================================
