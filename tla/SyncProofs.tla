----------------------------- MODULE SyncProofs -----------------------------
(***************************************************************************)
(* What the synchronization keeps true for every list of releases, and any  *)
(* number of runs, cut off or not: nothing unattested reaches a tree, a     *)
(* branch carries one release in all its parts, main only moves to a        *)
(* release this engine follows.                                             *)
(*                                                                         *)
(* The invariants TLC checks say nothing of a run in progress.  What is     *)
(* inductive says, for each point of it, which checks its tag has passed    *)
(* and which files already are of that tag; and between the push and the    *)
(* status, that the branch is still the tree that was verified.             *)
(***************************************************************************)
EXTENDS Sync, TLAPS

BranchRecords ==
  [tree : Trees, base : Trees, status : {"none", "success", "failure"},
   by : {"bot", "human"}, auto : BOOLEAN]

Runs ==
  [place : Places, tag : Releases, index : Trees, verify : {"none", "success", "failure"}]

Points ==
  {"idle", "compare", "download", "attest", "manifest", "bundle", "docs", "lock", "identity",
   "provenance", "generate", "verify", "push", "status", "propose"}

Typed ==
  /\ latest \in Nat /\ 0 .. latest \subseteq Releases
  /\ main \in Trees /\ tree \in [Places -> Trees]
  /\ branch \in [Versions -> BranchRecords]
  /\ pc \in Points /\ run \in Runs
  /\ pc \in {"verify", "push", "status", "propose"} => run.place = "workflow"

(* The checks the tag of a run has passed: what comes before each of them.  *)
Checked ==
  /\ pc \notin {"idle", "compare", "download"} => run.tag \in SumsMatch
  /\ pc \notin {"idle", "compare", "download", "attest"} => run.tag \in Attested
  /\ pc \notin {"idle", "compare", "download", "attest", "manifest"} => run.tag \in Complete

Unattested == \A p \in Places, f \in Files : tree[p][f] \in Trusted
BranchesTrusted == \A v \in Versions, f \in Files : branch[v].tree[f] \in Trusted
MainTrusted == \A f \in Files : main[f] \in Trusted

(* The files of the tree that are of the tag of the run already.            *)
Before(f) ==
  CASE f = "bundle" -> {"docs", "lock", "identity", "provenance", "generate", "verify", "push", "status"}
    [] f = "docs" -> {"lock", "identity", "provenance", "generate", "verify", "push", "status"}
    [] f = "lock" -> {"identity", "provenance", "generate", "verify", "push", "status"}
    [] f = "identity" -> {"provenance", "generate", "verify", "push", "status"}
    [] f = "provenance" -> {"generate", "verify", "push", "status"}
    [] f = "gen" -> {"verify", "push", "status"}
Written == \A f \in Files : pc \in Before(f) => Tree[f] = run.tag

Pushed ==
  pc = "status" =>
    \/ branch[Version[run.tag]] = NoBranch
    \/ \A f \in Files : branch[Version[run.tag]].tree[f] = run.tag
VerdictIsHonest ==
  pc \in {"push", "status"} /\ run.verify = "success" => run.tag \in Followed
GreenIsFollowed ==
  \A v \in Versions : branch[v].status = "success" => branch[v].tree.lock \in Followed

IInv ==
  /\ Typed /\ Checked /\ Unattested /\ BranchesTrusted /\ MainTrusted /\ Written
  /\ Pushed /\ VerdictIsHonest /\ GreenIsFollowed /\ BranchesAreWhole

USE DEF Files, Places

-----------------------------------------------------------------------------
(***************************************************************************)
(* Trees and branches.                                                     *)
(***************************************************************************)

(* The tag of a run, and a file cut off, are what a file can be.            *)
LEMMA TreesTyped ==
  /\ Torn \notin Releases
  /\ 0 \in Releases
  /\ \A r \in Releases \cup {Torn} : TreeOf(r) \in Trees
  /\ \A t \in Trees, f \in Files : t[f] \in Releases \cup {Torn}
  /\ \A t \in Trees, f \in Files, r \in Releases \cup {Torn} : [t EXCEPT ![f] = r] \in Trees
BY ReleasesAssumption DEF TreeOf, Trees, Torn

LEMMA NoBranchTyped == NoBranch \in BranchRecords
BY TreesTyped DEF NoBranch, BranchRecords

LEMMA VersionTyped ==
  ASSUME NEW r \in Releases PROVE Version[r] \in Versions
BY DEF Versions

-----------------------------------------------------------------------------
(***************************************************************************)
(* Types.                                                                  *)
(***************************************************************************)

(* How a run ends keeps the types: its tree is main again, or one given.    *)
LEMMA EndTyped ==
  ASSUME Typed, NEW how, NEW t \in Trees, End(how, t)
  PROVE  /\ tree' \in [Places -> Trees] /\ run' \in Runs /\ pc' = "idle"
         /\ run'.tag = run.tag
<1>1. TreeOf(0) \in Trees
  BY TreesTyped
<1>2. run' = [run EXCEPT !.index = TreeOf(0), !.verify = "none"] /\ run \in Runs
  BY DEF Typed, End
<1>3. run' \in Runs /\ run'.tag = run.tag
  BY <1>1, <1>2 DEF Runs
<1> QED BY <1>3 DEF Typed, End

LEMMA TypedInit == Init => Typed
BY TreesTyped, NoBranchTyped, ReleasesAssumption DEF Init, Typed, Points, Runs

LEMMA TypedStep ==
  ASSUME Typed, [Next]_vars PROVE Typed'
<1> USE DEF Typed, Points
<1>1. CASE Publish
  BY <1>1 DEF Publish
<1>2. ASSUME NEW place \in Places, NEW tag \in 0 .. latest, Start(place, tag),
             UNCHANGED <<latest, main, branch>>
      PROVE  Typed'
  <2>1. run' \in Runs
    BY <1>2 DEF Start, Runs
  <2> QED BY <1>2, <2>1 DEF Start
<1>3. CASE ScheduledStart
  <2>1. latest \in 0 .. latest
    OBVIOUS
  <2> QED BY <1>2, <1>3, <2>1 DEF ScheduledStart, Start
<1>4. CASE ManualStart
  BY <1>2, <1>4 DEF ManualStart, Start
<1>5. ASSUME NEW next \in Points, Proceed(next),
             next \in {"verify", "push", "status", "propose"} => run.place = "workflow"
      PROVE  Typed'
  BY <1>5 DEF Proceed, Go
<1>6. Tree \in Trees
  BY DEF Tree, Runs
<1>7. ASSUME NEW how, Stop(how)
      PROVE  Typed'
  BY <1>6, <1>7, EndTyped DEF Stop
<1>8. CASE CompareLock
  BY <1>5, <1>7, <1>8 DEF CompareLock
<1>9. CASE Download
  BY <1>5, <1>7, <1>9 DEF Download
<1>10. CASE VerifyAttestation
  BY <1>5, <1>7, <1>10 DEF VerifyAttestation
<1>11. CASE CheckManifest
  BY <1>5, <1>7, <1>11 DEF CheckManifest
<1>12. CASE Write
  <2>1. run.tag \in Releases \cup {Torn} /\ Torn \in Releases \cup {Torn} /\ run.place \in Places
    BY DEF Runs
  <2>2. pc \in Files
    BY <1>12 DEF Write, After
  <2>3. tree'[run.place] \in Trees
    BY <1>12, <2>1, <2>2, <1>6 DEF Write, Trees, Tree
  <2>4. tree' \in [Places -> Trees]
    BY <1>12, <2>1, <2>3 DEF Write
  <2>5. pc' \in Points \ {"verify", "push", "status", "propose"}
    BY <1>12 DEF Write, Go, After
  <2> QED BY <1>12, <2>4, <2>5 DEF Write
<1>13. CASE Generate
  <2>1. CASE Generates(Tree) /\ run.place = "workflow"
    BY <1>13, <2>1, <1>6, TreesTyped DEF Generate, WriteFile, Go, Trees, Tree
  <2>2. CASE Generates(Tree) /\ run.place # "workflow"
    <3>1. [Tree EXCEPT !.gen = Tree.bundle] \in Trees
      BY <1>6 DEF Trees
    <3> QED BY <1>13, <2>2, <3>1, EndTyped DEF Generate
  <2>3. CASE ~Generates(Tree)
    BY <1>13, <2>3, <1>6, EndTyped DEF Generate
  <2> QED BY <2>1, <2>2, <2>3
<1>14. CASE Verify
  <2>1. run' \in Runs /\ run'.place = run.place
    BY <1>14 DEF Verify, Verdict, Runs
  <2> QED BY <1>14, <2>1 DEF Verify, Go
<1>15. CASE Push
  <2>1. /\ [tree |-> Committed, base |-> run.index, status |-> "none", by |-> "bot",
            auto |-> branch[Version[run.tag]].auto] \in BranchRecords
        /\ Version[run.tag] \in Versions
    BY <1>6, VersionTyped DEF Committed, Runs, BranchRecords
  <2>2. branch' \in [Versions -> BranchRecords]
    BY <1>15, <2>1 DEF Push
  <2> QED BY <1>15, <2>2 DEF Push, Go
<1>16. CASE Report
  <2> DEFINE b == branch[Version[run.tag]]
  <2>1. Version[run.tag] \in Versions /\ b \in BranchRecords
    BY VersionTyped DEF Runs
  <2>2. [b EXCEPT !.status = IF b.by = "bot" /\ b # NoBranch THEN run.verify ELSE b.status]
          \in BranchRecords
    BY <2>1 DEF Runs, BranchRecords
  <2>3. branch' \in [Versions -> BranchRecords]
    BY <1>16, <2>1, <2>2 DEF Report
  <2> QED BY <1>16, <2>3 DEF Report, Go
<1>17. CASE Propose
  <2>1. Version[run.tag] \in Versions /\ branch[Version[run.tag]] \in BranchRecords
    BY VersionTyped DEF Runs
  <2>2. branch' \in [Versions -> BranchRecords]
    <3>1. [branch[Version[run.tag]] EXCEPT !.auto = TRUE] \in BranchRecords
      BY <2>1 DEF BranchRecords
    <3> QED BY <1>17, <2>1, <3>1 DEF Propose
  <2>3. \E how : End(how, Tree)
    BY <1>17 DEF Propose
  <2> QED BY <1>17, <2>2, <2>3, <1>6, EndTyped DEF Propose
<1>18. CASE Regenerate
  <2>1. [tree["developer"] EXCEPT !.gen = tree["developer"].bundle] \in Trees
    BY DEF Trees
  <2> QED BY <1>18, <2>1 DEF Regenerate
<1>19. CASE Crash
  <2>1. ASSUME NEW f \in Files PROVE [Tree EXCEPT ![f] = Torn] \in Trees
    BY <1>6, <2>1, TreesTyped
  <2>2. [Tree EXCEPT !.gen = Torn] \in Trees
    BY <1>6, TreesTyped
  <2>3. PICK t \in Trees : End("crashed", t)
    BY <1>6, <1>19, <2>1, <2>2 DEF Crash, After
  <2> QED BY <1>19, <2>3, EndTyped DEF Crash
<1>20. ASSUME NEW v \in Versions, HumanPushes(v) PROVE Typed'
  <2>1. branch[v] \in BranchRecords /\ Verdict(branch[v].tree, branch[v].tree) \in {"success", "failure"}
    BY DEF Verdict
  <2>2. [branch[v] EXCEPT !.by = "human", !.status = Verdict(branch[v].tree, branch[v].tree)]
          \in BranchRecords
    BY <2>1 DEF BranchRecords
  <2>3. branch' \in [Versions -> BranchRecords]
    BY <1>20, <2>2 DEF HumanPushes
  <2> QED BY <1>20, <2>3 DEF HumanPushes
<1>21. ASSUME NEW v \in Versions, Merge(v) PROVE Typed'
  BY <1>21, NoBranchTyped DEF Merge, BranchRecords
<1>22. CASE UNCHANGED vars
  BY <1>22 DEF vars
<1> QED
  BY <1>1, <1>3, <1>4, <1>8, <1>9, <1>10, <1>11, <1>12, <1>13, <1>14, <1>15, <1>16, <1>17,
     <1>18, <1>19, <1>20, <1>21, <1>22 DEF Next, Step

-----------------------------------------------------------------------------
(***************************************************************************)
(* Nothing unattested.                                                     *)
(***************************************************************************)

LEMMA CheckedStep ==
  ASSUME Typed, Checked, [Next]_vars PROVE Checked'
<1> USE DEF Checked
<1>1. CASE UNCHANGED vars
  BY <1>1 DEF vars
<1>2. ASSUME NEW how, NEW t, End(how, t) PROVE Checked'
  BY <1>2 DEF End
<1>3. CASE Step
  <2>1. CASE CompareLock
    BY <2>1, <1>2 DEF CompareLock, Stop, Proceed, Go
  <2>2. CASE Download
    BY <2>2, <1>2 DEF Download, Stop, Proceed, Go
  <2>3. CASE VerifyAttestation
    BY <2>3, <1>2 DEF VerifyAttestation, Stop, Proceed, Go
  <2>4. CASE CheckManifest
    BY <2>4, <1>2 DEF CheckManifest, Stop, Proceed, Go
  <2>5. CASE Write
    BY <2>5 DEF Write, Go, After
  <2>6. CASE Generate
    BY <2>6, <1>2 DEF Generate, Go
  <2>7. CASE Verify
    <3>1. run'.tag = run.tag
      BY <2>7 DEF Verify, Typed, Runs
    <3> QED BY <2>7, <3>1 DEF Verify, Go
  <2>8. CASE Push
    BY <2>8 DEF Push, Go
  <2>9. CASE Report
    BY <2>9 DEF Report, Go
  <2>10. CASE Propose
    BY <2>10, <1>2 DEF Propose
  <2> QED BY <1>3, <2>1, <2>2, <2>3, <2>4, <2>5, <2>6, <2>7, <2>8, <2>9, <2>10 DEF Step
<1>4. CASE Crash
  BY <1>4, <1>2 DEF Crash
<1>5. CASE Publish \/ Regenerate \/ \E v \in Versions : HumanPushes(v) \/ Merge(v)
  BY <1>5 DEF Publish, Regenerate, HumanPushes, Merge
<1>6. CASE ScheduledStart \/ ManualStart
  BY <1>6 DEF ScheduledStart, ManualStart, Start
<1> QED BY <1>1, <1>3, <1>4, <1>5, <1>6 DEF Next

(* What a run has passed all the checks for can be trusted.                 *)
LEMMA TagTrusted ==
  ASSUME Typed, Checked,
         pc \notin {"idle", "compare", "download", "attest", "manifest"}
  PROVE  run.tag \in Trusted
BY DEF Checked, Trusted

LEMMA TornTrusted == Torn \in Trusted
BY DEF Trusted

LEMMA EndTrusted ==
  ASSUME Typed, Unattested, MainTrusted, NEW how, NEW t \in Trees,
         \A f \in Files : t[f] \in Trusted, End(how, t)
  PROVE  Unattested'
<1>1. tree' = [tree EXCEPT ![run.place] = IF run.place = "workflow" THEN main ELSE t]
  BY DEF End
<1>2. run.place \in Places /\ tree \in [Places -> Trees]
  BY DEF Typed, Runs
<1>3. ASSUME NEW p \in Places, NEW f \in Files PROVE tree'[p][f] \in Trusted
  <2>1. tree'[p] \in {tree[p], main, t}
    BY <1>1, <1>2
  <2> QED BY <2>1 DEF Unattested, MainTrusted
<1> QED BY <1>3 DEF Unattested

LEMMA TreeTyped ==
  ASSUME Typed
  PROVE  run.place \in Places /\ Tree \in Trees /\ Tree = tree[run.place]
BY DEF Typed, Runs, Tree

LEMMA UnattestedStep ==
  ASSUME Typed, Checked, Unattested, MainTrusted, BranchesTrusted, [Next]_vars
  PROVE  Unattested' /\ MainTrusted' /\ BranchesTrusted'
<1>1. Tree \in Trees /\ \A f \in Files : Tree[f] \in Trusted
  BY TreeTyped DEF Unattested
<1>2. ASSUME UNCHANGED <<main, branch>>
      PROVE  MainTrusted' /\ BranchesTrusted'
  BY <1>2 DEF MainTrusted, BranchesTrusted
<1>3. ASSUME NEW how, End(how, Tree) PROVE Unattested'
  BY <1>1, <1>3, EndTrusted
<1>4. ASSUME UNCHANGED tree PROVE Unattested'
  BY <1>4 DEF Unattested
<1>5. CASE CompareLock \/ Download \/ VerifyAttestation \/ CheckManifest
  BY <1>2, <1>3, <1>4, <1>5
  DEF CompareLock, Download, VerifyAttestation, CheckManifest, Stop, Proceed
<1>6. CASE Write
  <2>1. run.tag \in Trusted
    BY <1>6, TagTrusted DEF Write, After
  <2>2. tree \in [Places -> Trees] /\ run.place \in Places
    BY TreeTyped DEF Typed
  <2>3. ASSUME NEW p \in Places, NEW f \in Files PROVE tree'[p][f] \in Trusted
    <3>1. tree'[p][f] \in {tree[p][f], run.tag, Torn}
      BY <1>6, <2>2 DEF Write, Trees, After
    <3> QED BY <3>1, <2>1, TornTrusted DEF Unattested
  <2> QED BY <2>3, <1>2, <1>6 DEF Unattested, Write
<1>7. CASE Generate
  <2>1. CASE UNCHANGED <<main, branch>> /\ WriteFile("gen", Tree.bundle)
    <3>1. ASSUME NEW p \in Places, NEW f \in Files PROVE tree'[p][f] \in Trusted
      <4>1. tree'[p][f] \in {tree[p][f], Tree.bundle}
        BY <2>1, TreeTyped DEF WriteFile, Typed, Trees
      <4> QED BY <4>1, <1>1 DEF Unattested
    <3> QED BY <3>1, <2>1, <1>2 DEF Unattested
  <2>2. CASE End("synchronized", [Tree EXCEPT !.gen = Tree.bundle])
    <3>1. /\ [Tree EXCEPT !.gen = Tree.bundle] \in Trees
          /\ \A f \in Files : [Tree EXCEPT !.gen = Tree.bundle][f] \in Trusted
      BY <1>1 DEF Trees
    <3>2. Unattested'
      BY <2>2, <3>1, EndTrusted
    <3> QED BY <1>2, <1>7, <3>2 DEF Generate
  <2> QED BY <1>2, <1>3, <1>7, <2>1, <2>2 DEF Generate
<1>8. CASE Verify \/ Report
  <2>1. CASE Verify
    BY <2>1, <1>2, <1>4 DEF Verify
  <2>2. CASE Report
    <3>1. ASSUME NEW v \in Versions PROVE branch'[v].tree = branch[v].tree
      BY <2>2 DEF Report, Typed, BranchRecords
    <3> QED BY <2>2, <3>1, <1>4 DEF Report, BranchesTrusted, MainTrusted
  <2> QED BY <1>8, <2>1, <2>2
<1>9. CASE Push
  <2>1. ASSUME NEW v \in Versions PROVE branch'[v].tree \in {branch[v].tree, Tree}
    BY <1>9 DEF Push, Typed, Committed
  <2>2. BranchesTrusted'
    BY <2>1, <1>1 DEF BranchesTrusted
  <2> QED BY <1>9, <2>2, <1>4 DEF Push, MainTrusted
<1>10. CASE Propose
  <2>1. ASSUME NEW v \in Versions PROVE branch'[v].tree = branch[v].tree
    BY <1>10 DEF Propose, Typed, BranchRecords
  <2> QED BY <1>3, <1>10, <2>1 DEF Propose, MainTrusted, BranchesTrusted
<1>11. CASE Regenerate
  <2>1. ASSUME NEW p \in Places, NEW f \in Files PROVE tree'[p][f] \in Trusted
    <3>1. tree'[p][f] \in {tree[p][f], tree["developer"]["bundle"]}
      BY <1>11 DEF Regenerate, Typed, Trees
    <3> QED BY <3>1 DEF Unattested
  <2> QED BY <2>1, <1>2, <1>11 DEF Regenerate, Unattested
<1>12. CASE Crash
  <2>1. ASSUME NEW g \in Files
        PROVE  /\ [Tree EXCEPT ![g] = Torn] \in Trees
               /\ \A f \in Files : [Tree EXCEPT ![g] = Torn][f] \in Trusted
    <3>1. [Tree EXCEPT ![g] = Torn] \in Trees
      BY <1>1, <2>1, TreesTyped
    <3>2. ASSUME NEW f \in Files PROVE [Tree EXCEPT ![g] = Torn][f] \in Trusted
      BY <1>1, TornTrusted DEF Trees
    <3> QED BY <3>1, <3>2
  <2>2. [Tree EXCEPT !.gen = Torn] = [Tree EXCEPT !["gen"] = Torn]
    OBVIOUS
  <2>3. Unattested'
    BY <1>3, <1>12, <2>1, <2>2, EndTrusted DEF Crash, After
  <2> QED BY <2>3, <1>2, <1>12 DEF Crash
<1>13. CASE ScheduledStart \/ ManualStart
  <2>1. PICK place, tag : Start(place, tag)
    BY <1>13 DEF ScheduledStart, ManualStart
  <2>2. ASSUME NEW p \in Places PROVE tree'[p] \in {tree[p], main}
    BY <2>1 DEF Start, Typed
  <2>3. Unattested'
    BY <2>2 DEF Unattested, MainTrusted
  <2> QED BY <2>1, <2>3, <1>2 DEF Start
<1>14. ASSUME NEW v \in Versions, HumanPushes(v)
       PROVE  Unattested' /\ MainTrusted' /\ BranchesTrusted'
  <2>1. ASSUME NEW u \in Versions PROVE branch'[u].tree = branch[u].tree
    BY <1>14 DEF HumanPushes, Typed, BranchRecords
  <2> QED BY <1>14, <2>1, <1>4 DEF HumanPushes, MainTrusted, BranchesTrusted
<1>15. ASSUME NEW v \in Versions, Merge(v)
       PROVE  Unattested' /\ MainTrusted' /\ BranchesTrusted'
  <2>1. \A f \in Files : NoBranch.tree[f] \in Trusted
    BY TornTrusted DEF NoBranch, TreeOf
  <2>2. ASSUME NEW u \in Versions PROVE branch'[u].tree \in {branch[u].tree, NoBranch.tree}
    BY <1>15 DEF Merge, Typed
  <2>3. BranchesTrusted'
    BY <2>1, <2>2 DEF BranchesTrusted
  <2> QED BY <1>15, <2>3, <1>4 DEF Merge, MainTrusted, BranchesTrusted
<1>16. CASE UNCHANGED vars
  BY <1>2, <1>4, <1>16 DEF vars
<1>17. CASE Publish
  BY <1>2, <1>4, <1>17 DEF Publish
<1> QED
  BY <1>5, <1>6, <1>7, <1>8, <1>9, <1>10, <1>11, <1>12, <1>13, <1>14, <1>15, <1>16, <1>17
  DEF Next, Step

-----------------------------------------------------------------------------
(***************************************************************************)
(* One release in all the parts of a tree.                                 *)
(***************************************************************************)

(* What is neither a step of a run nor the end of one leaves it no further. *)
LEMMA OutsideOfRuns ==
  ASSUME Typed, [Next]_vars, ~Step
  PROVE  \/ pc' \in {"idle", "compare"}
         \/ pc' = pc /\ run' = run /\ tree' = tree
<1>1. CASE ScheduledStart \/ ManualStart \/ Crash
  BY <1>1 DEF ScheduledStart, ManualStart, Start, Crash, End
<1>2. CASE Publish \/ Regenerate \/ UNCHANGED vars
  BY <1>2 DEF Publish, Regenerate, vars
<1>3. CASE \E v \in Versions : HumanPushes(v) \/ Merge(v)
  BY <1>3 DEF HumanPushes, Merge
<1> QED BY <1>1, <1>2, <1>3 DEF Next

LEMMA WrittenStep ==
  ASSUME Typed, Written, [Next]_vars PROVE Written'
<1>1. ASSUME pc' \in {"idle", "compare", "download", "attest", "manifest", "bundle", "propose"}
      PROVE  Written'
  BY <1>1 DEF Written, Before
<1>2. ASSUME tree' = tree, run'.tag = run.tag, run'.place = run.place,
             NEW f \in Files, pc \in Before(f)
      PROVE  Tree'[f] = run'.tag
  BY <1>2 DEF Written, Tree
<1>3. CASE CompareLock \/ Download \/ VerifyAttestation \/ CheckManifest \/ Report \/ Propose
  BY <1>1, <1>3
  DEF CompareLock, Download, VerifyAttestation, CheckManifest, Report, Propose, Stop, Proceed,
      Go, End
<1>4. CASE Write
  <2>1. /\ tree \in [Places -> Trees] /\ run.place \in Places /\ pc \in Files
        /\ run' = run /\ pc \in {"bundle", "docs", "lock", "identity", "provenance"}
        /\ pc' = After[pc]
    BY <1>4, TreeTyped DEF Typed, Write, Go, After
  <2>2. Tree'[pc] = run.tag
    <3>1. CASE pc = "identity"
      BY <1>4, <2>1, <3>1 DEF Write, Tree, Trees
    <3>2. CASE pc # "identity"
      BY <1>4, <2>1, <3>2 DEF Write, Tree, Trees
    <3> QED BY <3>1, <3>2
  <2>3. ASSUME NEW f \in Files \ {pc}, pc = "lock" => f # "identity"
        PROVE  Tree'[f] = Tree[f]
    BY <1>4, <2>1, <2>3 DEF Write, Tree, Trees
  <2>4. ASSUME NEW f \in Files, pc' \in Before(f)
        PROVE  f = pc \/ (pc \in Before(f) /\ (pc = "lock" => f # "identity"))
    BY <2>1, <2>4 DEF After, Before
  <2>5. ASSUME NEW f \in Files, pc' \in Before(f) PROVE Tree'[f] = run'.tag
    <3>1. CASE f = pc
      BY <2>1, <2>2, <3>1
    <3>2. CASE f # pc
      BY <2>1, <2>3, <2>4, <2>5, <3>2 DEF Written
    <3> QED BY <3>1, <3>2
  <2> QED BY <2>5 DEF Written
<1>5. CASE Generate
  <2>1. CASE pc' = "idle"
    BY <1>1, <2>1
  <2>2. CASE WriteFile("gen", Tree.bundle) /\ pc' = "verify" /\ run' = run
    <3>1. pc = "generate" /\ tree \in [Places -> Trees]
      BY <1>5 DEF Generate, Typed
    <3>2. \A f \in Files \ {"gen"} : Tree[f] = run.tag
      BY <3>1 DEF Written, Before
    <3>3. \A f \in Files : Tree'[f] = run.tag
      BY <2>2, <3>1, <3>2, TreeTyped DEF WriteFile, Tree, Trees
    <3> QED BY <2>2, <3>3 DEF Written
  <2> QED BY <1>5, <2>1, <2>2 DEF Generate, Go, End
<1>6. CASE Verify
  <2>1. run'.tag = run.tag /\ run'.place = run.place
    BY <1>6 DEF Verify, Typed, Runs
  <2>2. ASSUME NEW f \in Files, pc' \in Before(f) PROVE pc \in Before(f)
    BY <1>6, <2>2 DEF Verify, Go, Before
  <2> QED BY <1>2, <1>6, <2>1, <2>2 DEF Written, Verify
<1>7. CASE Push
  <2>1. ASSUME NEW f \in Files, pc' \in Before(f) PROVE pc \in Before(f)
    BY <1>7, <2>1 DEF Push, Go, Before
  <2> QED BY <1>2, <1>7, <2>1 DEF Written, Push
<1>8. CASE ~Step
  BY <1>1, <1>2, <1>8, OutsideOfRuns DEF Written
<1> QED BY <1>3, <1>4, <1>5, <1>6, <1>7, <1>8 DEF Step

(* At the push, every part of the tree is of the release of the run.        *)
LEMMA CommittedIsWhole ==
  ASSUME Typed, Written, Push
  PROVE  /\ \A f \in Files : Committed[f] = run.tag
         /\ Whole(Committed) /\ Committed.lock = run.tag
<1>1. \A f \in Files : Tree[f] = run.tag
  BY DEF Push, Written, Before
<1>2. run.tag # Torn
  BY TreesTyped DEF Typed, Runs
<1> QED BY <1>1, <1>2 DEF Whole, Committed

LEMMA BranchesAreWholeStep ==
  ASSUME Typed, Written, BranchesAreWhole, [Next]_vars PROVE BranchesAreWhole'
<1>1. ASSUME branch' = branch PROVE BranchesAreWhole'
  BY <1>1 DEF BranchesAreWhole, Whole
<1>2. ASSUME \A v \in Versions : /\ branch'[v].tree = branch[v].tree
                                 /\ branch[v] = NoBranch => branch'[v] = NoBranch
      PROVE  BranchesAreWhole'
  BY <1>2 DEF BranchesAreWhole, Whole
<1>3. CASE Push
  <2>1. ASSUME NEW v \in Versions, branch'[v] # NoBranch
        PROVE  Whole(branch'[v].tree) /\ Version[branch'[v].tree.lock] = v
    <3>1. CASE v = Version[run.tag]
      <4>1. branch'[v].tree = Committed
        BY <1>3, <3>1 DEF Push, Typed
      <4> QED BY <1>3, <3>1, <4>1, CommittedIsWhole
    <3>2. CASE v # Version[run.tag]
      BY <1>3, <2>1, <3>2 DEF Push, Typed, BranchesAreWhole
    <3> QED BY <3>1, <3>2
  <2> QED BY <2>1 DEF BranchesAreWhole, Whole
<1>4. CASE Report
  <2>1. ASSUME NEW v \in Versions
        PROVE  /\ branch'[v].tree = branch[v].tree
               /\ branch[v] = NoBranch => branch'[v] = NoBranch
    BY <1>4 DEF Report, Typed, BranchRecords, NoBranch
  <2> QED BY <1>2, <2>1
<1>5. CASE Propose
  <2>1. ASSUME NEW v \in Versions
        PROVE  /\ branch'[v].tree = branch[v].tree
               /\ branch[v] = NoBranch => branch'[v] = NoBranch
    BY <1>5 DEF Propose, Typed, BranchRecords
  <2> QED BY <1>2, <2>1
<1>6. ASSUME NEW v \in Versions, HumanPushes(v) PROVE BranchesAreWhole'
  <2>1. ASSUME NEW u \in Versions
        PROVE  /\ branch'[u].tree = branch[u].tree
               /\ branch[u] = NoBranch => branch'[u] = NoBranch
    BY <1>6 DEF HumanPushes, Typed, BranchRecords
  <2> QED BY <1>2, <2>1
<1>7. ASSUME NEW v \in Versions, Merge(v) PROVE BranchesAreWhole'
  <2>1. ASSUME NEW u \in Versions PROVE branch'[u] \in {branch[u], NoBranch}
    BY <1>7 DEF Merge, Typed
  <2> QED BY <2>1 DEF BranchesAreWhole, Whole
<1>8. CASE CompareLock \/ Download \/ VerifyAttestation \/ CheckManifest \/ Write \/ Generate \/ Verify
  BY <1>1, <1>8
  DEF CompareLock, Download, VerifyAttestation, CheckManifest, Write, Generate, Verify, Stop, Proceed
<1>9. CASE Publish \/ ScheduledStart \/ ManualStart \/ Regenerate \/ Crash \/ UNCHANGED vars
  BY <1>1, <1>9 DEF Publish, ScheduledStart, ManualStart, Start, Regenerate, Crash, vars
<1> QED BY <1>3, <1>4, <1>5, <1>6, <1>7, <1>8, <1>9 DEF Next, Step

-----------------------------------------------------------------------------
(***************************************************************************)
(* The verdict of a run, and the status of a branch.                       *)
(***************************************************************************)

LEMMA VerdictStep ==
  ASSUME Typed, Written, VerdictIsHonest, [Next]_vars PROVE VerdictIsHonest'
<1>1. CASE Verify
  <2>1. Tree.lock = run.tag
    BY <1>1 DEF Verify, Written, Before
  <2>2. run'.verify = "success" => run.tag \in Followed
    BY <1>1, <2>1 DEF Verify, Verdict, Verified, Typed, Runs
  <2>3. run'.tag = run.tag
    BY <1>1 DEF Verify, Typed, Runs
  <2> QED BY <2>2, <2>3 DEF VerdictIsHonest
<1>2. CASE Push
  BY <1>2 DEF Push, Go, VerdictIsHonest
<1>3. CASE Step /\ ~Verify /\ ~Push
  <2>1. CASE CompareLock \/ Download \/ VerifyAttestation \/ CheckManifest \/ Propose
    BY <2>1
    DEF CompareLock, Download, VerifyAttestation, CheckManifest, Propose, Stop, Proceed, Go, End,
        VerdictIsHonest
  <2>2. CASE Write \/ Generate
    BY <2>2 DEF Write, Generate, Go, End, After, VerdictIsHonest
  <2>3. CASE Report
    BY <2>3 DEF Report, Go, VerdictIsHonest
  <2> QED BY <1>3, <2>1, <2>2, <2>3 DEF Step
<1>4. CASE ~Step
  BY <1>4, OutsideOfRuns DEF VerdictIsHonest
<1> QED BY <1>1, <1>2, <1>3, <1>4

LEMMA PushedStep ==
  ASSUME Typed, Written, Pushed, [Next]_vars PROVE Pushed'
<1>1. CASE Push
  <2>1. Version[run.tag] \in Versions /\ run' = run
    BY <1>1, VersionTyped DEF Typed, Runs, Push
  <2>2. branch'[Version[run.tag]].tree = Committed
    BY <1>1, <2>1 DEF Push, Typed
  <2> QED BY <1>1, <2>1, <2>2, CommittedIsWhole DEF Pushed
<1>2. CASE Step /\ ~Push
  BY <1>2
  DEF Step, CompareLock, Download, VerifyAttestation, CheckManifest, Write, Generate, Verify,
      Report, Propose, Stop, Proceed, Go, End, After, Pushed
<1>3. CASE ScheduledStart \/ ManualStart \/ Crash
  BY <1>3 DEF ScheduledStart, ManualStart, Start, Crash, End, Pushed
<1>4. CASE Publish \/ Regenerate \/ UNCHANGED vars
  BY <1>4 DEF Publish, Regenerate, vars, Pushed
<1>5. ASSUME NEW v \in Versions, HumanPushes(v) PROVE Pushed'
  <2>1. ASSUME NEW u \in Versions
        PROVE  /\ branch'[u].tree = branch[u].tree
               /\ branch[u] = NoBranch => branch'[u] = NoBranch
    BY <1>5 DEF HumanPushes, Typed, BranchRecords
  <2> QED BY <1>5, <2>1, VersionTyped DEF HumanPushes, Pushed, Typed, Runs
<1>6. ASSUME NEW v \in Versions, Merge(v) PROVE Pushed'
  <2>1. ASSUME NEW u \in Versions PROVE branch'[u] \in {branch[u], NoBranch}
    BY <1>6 DEF Merge, Typed
  <2>2. Version[run.tag] \in Versions
    BY VersionTyped DEF Typed, Runs
  <2> QED BY <1>6, <2>1, <2>2 DEF Merge, Pushed
<1> QED BY <1>1, <1>2, <1>3, <1>4, <1>5, <1>6 DEF Next

LEMMA GreenStep ==
  ASSUME Typed, Pushed, VerdictIsHonest, GreenIsFollowed, [Next]_vars PROVE GreenIsFollowed'
<1>1. ASSUME branch' = branch PROVE GreenIsFollowed'
  BY <1>1 DEF GreenIsFollowed
<1>2. CASE Push
  <2>1. ASSUME NEW v \in Versions
        PROVE  branch'[v] = branch[v] \/ branch'[v].status = "none"
    BY <1>2 DEF Push, Typed
  <2> QED BY <2>1 DEF GreenIsFollowed
<1>3. CASE Report
  <2> DEFINE b == branch[Version[run.tag]]
  <2>1. Version[run.tag] \in Versions /\ b \in BranchRecords
    BY VersionTyped DEF Typed, Runs
  <2>2. b # NoBranch => b.tree.lock = run.tag
    BY <1>3 DEF Report, Pushed
  <2>3. run.verify = "success" => run.tag \in Followed
    BY <1>3 DEF Report, VerdictIsHonest
  <2>4. ASSUME NEW v \in Versions, branch'[v].status = "success"
        PROVE  branch'[v].tree.lock \in Followed
    <3>1. branch'[v].tree = branch[v].tree
      BY <1>3 DEF Report, Typed, BranchRecords
    <3>2. CASE v = Version[run.tag] /\ b.by = "bot" /\ b # NoBranch
      <4>1. branch'[v].status = run.verify
        BY <1>3, <2>1, <3>2 DEF Report, Typed, BranchRecords
      <4> QED BY <2>2, <2>3, <2>4, <3>1, <3>2, <4>1
    <3>3. CASE ~(v = Version[run.tag] /\ b.by = "bot" /\ b # NoBranch)
      <4>1. branch'[v].status = branch[v].status
        BY <1>3, <2>1, <3>3 DEF Report, Typed, BranchRecords
      <4> QED BY <2>4, <3>1, <4>1 DEF GreenIsFollowed
    <3> QED BY <3>2, <3>3
  <2> QED BY <2>4 DEF GreenIsFollowed
<1>4. CASE Propose
  <2>1. ASSUME NEW v \in Versions
        PROVE  branch'[v].tree = branch[v].tree /\ branch'[v].status = branch[v].status
    BY <1>4 DEF Propose, Typed, BranchRecords
  <2> QED BY <2>1 DEF GreenIsFollowed
<1>5. ASSUME NEW v \in Versions, HumanPushes(v) PROVE GreenIsFollowed'
  <2>1. ASSUME NEW u \in Versions
        PROVE  /\ branch'[u].tree = branch[u].tree
               /\ branch'[u].status = IF u = v THEN Verdict(branch[v].tree, branch[v].tree)
                                      ELSE branch[u].status
    BY <1>5 DEF HumanPushes, Typed, BranchRecords
  <2>2. Verdict(branch[v].tree, branch[v].tree) = "success" => branch[v].tree.lock \in Followed
    BY DEF Verdict, Verified
  <2> QED BY <2>1, <2>2 DEF GreenIsFollowed
<1>6. ASSUME NEW v \in Versions, Merge(v) PROVE GreenIsFollowed'
  <2>1. ASSUME NEW u \in Versions PROVE branch'[u] \in {branch[u], NoBranch}
    BY <1>6 DEF Merge, Typed
  <2>2. NoBranch.status # "success"
    BY DEF NoBranch
  <2> QED BY <2>1, <2>2 DEF GreenIsFollowed
<1>7. CASE CompareLock \/ Download \/ VerifyAttestation \/ CheckManifest \/ Write \/ Generate \/ Verify
  BY <1>1, <1>7
  DEF CompareLock, Download, VerifyAttestation, CheckManifest, Write, Generate, Verify, Stop, Proceed
<1>8. CASE Publish \/ ScheduledStart \/ ManualStart \/ Regenerate \/ Crash \/ UNCHANGED vars
  BY <1>1, <1>8 DEF Publish, ScheduledStart, ManualStart, Start, Regenerate, Crash, vars
<1> QED BY <1>2, <1>3, <1>4, <1>5, <1>6, <1>7, <1>8 DEF Next, Step

-----------------------------------------------------------------------------
(***************************************************************************)
(* The theorems.                                                           *)
(***************************************************************************)

LEMMA IInvInit == Init => IInv
<1> SUFFICES ASSUME Init PROVE IInv
  OBVIOUS
<1>1. Typed
  BY TypedInit
<1>2. 0 \in Trusted
  BY ReleasesAssumption DEF Trusted
<1>3. MainTrusted /\ Unattested
  BY <1>2 DEF Init, MainTrusted, Unattested, TreeOf
<1>4. BranchesTrusted
  BY TornTrusted DEF Init, BranchesTrusted, NoBranch, TreeOf
<1>5. Checked /\ Written /\ Pushed /\ VerdictIsHonest
  BY DEF Init, Checked, Written, Before, Pushed, VerdictIsHonest
<1>6. GreenIsFollowed /\ BranchesAreWhole
  BY DEF Init, GreenIsFollowed, BranchesAreWhole, NoBranch
<1> QED BY <1>1, <1>3, <1>4, <1>5, <1>6 DEF IInv

LEMMA IInvStep == IInv /\ [Next]_vars => IInv'
BY TypedStep, CheckedStep, UnattestedStep, WrittenStep, PushedStep, VerdictStep, GreenStep,
   BranchesAreWholeStep
DEF IInv

(* The inductive invariant holds of every behaviour of the synchronization, *)
(* however its runs are interleaved with publications, merges and cuts.     *)
THEOREM SyncInvariance == Spec => []IInv
BY IInvInit, IInvStep, PTL DEF Spec

(* Nothing of a release that is not attested, complete and equal to its own *)
(* sums is ever in a tree or on a branch (sync_release.sh).                 *)
THEOREM NothingUnattestedEver == Spec => []NothingUnattested
<1>1. IInv => NothingUnattested
  <2> SUFFICES ASSUME IInv PROVE NothingUnattested
    OBVIOUS
  <2>1. TypeOK
    <3>1. latest \in Releases
      <4>1. latest \in 0 .. latest
        BY DEF IInv, Typed
      <4> QED BY <4>1 DEF IInv, Typed
    <3>2. \A v \in Versions : branch[v] \in Branches
      BY DEF IInv, Typed, BranchRecords, Branches
    <3>3. pc \in DOMAIN After \cup
            {"idle", "compare", "download", "attest", "manifest", "generate", "verify", "push",
             "status", "propose"}
      BY DEF IInv, Typed, Points, After
    <3> QED BY <3>1, <3>2, <3>3 DEF TypeOK, IInv, Typed
  <2>2. \A t \in AllTrees : \A f \in Files : t[f] \in Trusted
    BY DEF AllTrees, IInv, Unattested, MainTrusted, BranchesTrusted
  <2> QED BY <2>1, <2>2 DEF NothingUnattested
<1> QED BY <1>1, SyncInvariance, PTL

(* A branch that was pushed carries one release of its version in all its   *)
(* parts, whatever earlier runs left behind (open_sync_pr.sh).              *)
THEOREM BranchesAreWholeAlways == Spec => []BranchesAreWhole
<1>1. IInv => BranchesAreWhole
  BY DEF IInv
<1> QED BY <1>1, SyncInvariance, PTL

(* Main only moves to one release, whole, that this engine follows: the     *)
(* required status is that of the tree that is merged (sync.yml).           *)
THEOREM MainIsFollowedAlways == Spec => MainIsFollowed
<1>1. IInv /\ [Next]_vars => [main' # main => Whole(main') /\ main'.lock \in Followed]_vars
  <2> SUFFICES ASSUME IInv, Next, main' # main
               PROVE  Whole(main') /\ main'.lock \in Followed
    BY DEF vars
  <2>1. PICK v \in Versions : Merge(v)
    <3>1. CASE Publish \/ ScheduledStart \/ ManualStart \/ Regenerate \/ Crash
      BY <3>1 DEF Publish, ScheduledStart, ManualStart, Start, Regenerate, Crash
    <3>2. CASE Step
      BY <3>2
      DEF Step, CompareLock, Download, VerifyAttestation, CheckManifest, Write, Generate, Verify,
          Push, Report, Propose, Stop, Proceed
    <3>3. ASSUME NEW v \in Versions, HumanPushes(v) PROVE FALSE
      BY <3>3 DEF HumanPushes
    <3> QED BY <3>1, <3>2, <3>3 DEF Next
  <2>2. main' = branch[v].tree /\ branch[v] # NoBranch /\ branch[v].status = "success"
    BY <2>1 DEF Merge
  <2>3. Whole(branch[v].tree) /\ branch[v].tree.lock \in Followed
    BY <2>2 DEF IInv, BranchesAreWhole, GreenIsFollowed
  <2> QED BY <2>2, <2>3
<1> QED BY <1>1, SyncInvariance, PTL DEF Spec, MainIsFollowed

(* Generated code is only ever written from the bundle the lock names, by a *)
(* script or by hand (verifyLock).                                          *)
THEOREM GeneratedFromTheLockAlways == Spec => GeneratedFromTheLock
<1> DEFINE Generated(p) ==
      tree'[p].gen # tree[p].gen /\ tree'[p].gen # Torn /\ tree'[p] # main =>
        SameCode(tree[p].lock, tree'[p].gen)
<1>1. IInv /\ [Next]_vars => [\A p \in Places : Generated(p)]_vars
  <2> SUFFICES ASSUME IInv, Next, NEW p \in Places PROVE Generated(p)
    BY DEF vars
  <2> DEFINE t == tree[p]
  <2>1. /\ Typed /\ tree \in [Places -> Trees] /\ run.place \in Places
        /\ Tree = tree[run.place] /\ Tree \in Trees /\ t \in Trees
    BY TreeTyped DEF IInv, Typed
  <2>2. ASSUME tree' = tree PROVE Generated(p)
    BY <2>2
  <2>3. ASSUME NEW how, NEW u \in Trees, End(how, u),
               u.gen \in {Tree.gen, Torn} \/ SameCode(Tree.lock, u.gen)
        PROVE  Generated(p)
    <3>1. tree'[p] = IF p = run.place THEN IF p = "workflow" THEN main ELSE u ELSE t
      BY <2>1, <2>3 DEF End
    <3> QED BY <2>1, <2>3, <3>1
  <2>4. ASSUME NEW how, End(how, Tree) PROVE Generated(p)
    BY <2>1, <2>3, <2>4
  <2>5. CASE CompareLock \/ Download \/ VerifyAttestation \/ CheckManifest \/ Propose
    BY <2>2, <2>4, <2>5
    DEF CompareLock, Download, VerifyAttestation, CheckManifest, Propose, Stop, Proceed
  <2>6. CASE Write
    <3>1. tree'[p].gen = t.gen
      BY <2>1, <2>6 DEF Write, Trees, After
    <3> QED BY <3>1
  <2>7. ASSUME NEW u \in Trees, Generates(u) PROVE SameCode(u.lock, u.bundle)
    BY <2>7 DEF Generates, SameCode
  <2>8. CASE Generate
    <3>1. CASE Generates(Tree) /\ WriteFile("gen", Tree.bundle)
      <4>1. tree'[p] = IF p = run.place THEN [Tree EXCEPT !["gen"] = Tree.bundle] ELSE t
        BY <2>1, <3>1 DEF WriteFile
      <4>2. [Tree EXCEPT !["gen"] = Tree.bundle].gen = Tree.bundle
        BY <2>1 DEF Trees
      <4> QED BY <2>1, <2>7, <3>1, <4>1, <4>2
    <3>2. CASE Generates(Tree) /\ End("synchronized", [Tree EXCEPT !.gen = Tree.bundle])
      <4>1. /\ [Tree EXCEPT !.gen = Tree.bundle] \in Trees
            /\ [Tree EXCEPT !.gen = Tree.bundle].gen = Tree.bundle
        BY <2>1 DEF Trees
      <4> QED BY <2>1, <2>3, <2>7, <3>2, <4>1
    <3> QED BY <2>4, <2>8, <3>1, <3>2 DEF Generate
  <2>9. CASE Verify \/ Push \/ Report
    BY <2>2, <2>9 DEF Verify, Push, Report
  <2>10. CASE Regenerate
    <3>1. tree'[p] = IF p = "developer" THEN [t EXCEPT !["gen"] = t.bundle] ELSE t
      BY <2>1, <2>10 DEF Regenerate
    <3>2. [t EXCEPT !["gen"] = t.bundle].gen = t.bundle
      BY <2>1 DEF Trees
    <3> QED BY <2>1, <2>7, <2>10, <3>1, <3>2 DEF Regenerate
  <2>11. CASE Crash
    <3>1. ASSUME NEW f \in Files \ {"gen"}
          PROVE  [Tree EXCEPT ![f] = Torn] \in Trees /\ [Tree EXCEPT ![f] = Torn].gen = Tree.gen
      BY <2>1, <3>1, TreesTyped DEF Trees
    <3>2. [Tree EXCEPT !.gen = Torn] \in Trees /\ [Tree EXCEPT !.gen = Torn].gen = Torn
      BY <2>1, TreesTyped DEF Trees
    <3>3. PICK u \in Trees : End("crashed", u) /\ u.gen \in {Tree.gen, Torn}
      BY <2>1, <2>11, <3>1, <3>2 DEF Crash, After
    <3> QED BY <2>3, <3>3
  <2>12. CASE ScheduledStart \/ ManualStart
    <3>1. PICK place, tag : Start(place, tag)
      BY <2>12 DEF ScheduledStart, ManualStart
    <3>2. tree'[p] \in {t, main}
      BY <2>1, <3>1 DEF Start
    <3> QED BY <3>2
  <2>13. CASE Publish \/ \E v \in Versions : HumanPushes(v) \/ Merge(v)
    BY <2>2, <2>13 DEF Publish, HumanPushes, Merge
  <2> QED
    BY <2>5, <2>6, <2>8, <2>9, <2>10, <2>11, <2>12, <2>13 DEF Next, Step
<1> QED BY <1>1, SyncInvariance, PTL DEF Spec, GeneratedFromTheLock
=============================================================================
