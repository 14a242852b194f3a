-------------------------------- MODULE Sync --------------------------------
(***************************************************************************)
(* The synchronization of the engine with a release of the rules:           *)
(* scripts/sync_release.sh, verify.sh and open_sync_pr.sh, the workflow     *)
(* that runs them on a fresh checkout, and cmd/entid-gen, which writes the  *)
(* generated code.  A developer may run the first script too, on a tree of  *)
(* their own.  A run may be cut off anywhere, in the middle of a file too.  *)
(*                                                                         *)
(* A file is known by the release it comes from.  Releases of one version   *)
(* carry the same rules under different tags.                               *)
(***************************************************************************)
EXTENDS Integers, TLC

CONSTANTS
  Releases,      \* tags, numbered in the order they are published
  Version,       \* the rules version of a release
  SumsMatch,     \* releases whose artifacts match their SHA256SUMS
  Attested,      \* releases whose attestation verifies
  Complete,      \* releases whose manifest has every field and names its commit
  Generatable,   \* releases whose bundle the generator accepts
  Followed,      \* releases whose tests and conformance this engine passes
  MaxManual,     \* bound on the runs started by hand
  MaxCrashes     \* bound on the runs cut off

ASSUME ReleasesAssumption ==
  /\ 0 \in Releases /\ Releases \subseteq Nat
  /\ 0 \in SumsMatch \cap Attested \cap Complete \cap Generatable \cap Followed
  /\ MaxManual \in Nat /\ MaxCrashes \in Nat

Torn == -1           \* a file cut off in the middle, or files of two releases
(* The lock is two files here: its digests, and its last line, the identity. *)
Files == {"bundle", "docs", "lock", "identity", "provenance", "gen"}
TreeOf(r) == [f \in Files |-> r]
NoBranch == [tree |-> TreeOf(Torn), base |-> TreeOf(Torn), status |-> "none", by |-> "bot", auto |-> FALSE]
Versions == {Version[r] : r \in Releases}
Places == {"workflow", "developer"}

VARIABLES
  latest,   \* the most recent release published
  main,     \* the tree of the main branch
  tree,     \* the working tree of each place
  branch,   \* rules/<version>: [tree, base, status, by, auto], or NoBranch
  pc,       \* the next step of the run, or "idle"
  run,      \* [place, tag, index, verify] of the run, or of the last one
  outcome,  \* how the last run ended
  manual,   \* the runs started by hand
  crashes

vars == <<latest, main, tree, branch, pc, run, outcome, manual, crashes>>

Init ==
  /\ latest = 0 /\ main = TreeOf(0) /\ tree = [p \in Places |-> main]
  /\ branch = [v \in Versions |-> NoBranch]
  /\ pc = "idle" /\ outcome = "none" /\ manual = 0 /\ crashes = 0
  /\ run = [place |-> "workflow", tag |-> 0, index |-> main, verify |-> "none"]

------------------------------------------------------------------------------
Publish ==
  /\ latest + 1 \in Releases /\ latest' = latest + 1
  /\ UNCHANGED <<main, tree, branch, pc, run, outcome, manual, crashes>>

(* The workflow starts from a fresh checkout of main, one run at a time; a  *)
(* developer from the tree as it is.                                        *)
Start(place, tag) ==
  /\ pc = "idle" /\ pc' = "compare" /\ outcome' = "none"
  /\ tree' = IF place = "workflow" THEN [tree EXCEPT ![place] = main] ELSE tree
  /\ run' = [place |-> place, tag |-> tag, index |-> main, verify |-> "none"]
  /\ UNCHANGED <<latest, main, branch, crashes>>

ScheduledStart == Start("workflow", latest) /\ UNCHANGED manual
ManualStart ==
  /\ manual < MaxManual /\ manual' = manual + 1
  /\ \E place \in Places, tag \in 0 .. latest : Start(place, tag)

Tree == tree[run.place]

(* A run ends and leaves t; the workflow's checkout goes with its runner.     *)
End(how, t) ==
  /\ pc' = "idle" /\ outcome' = how
  /\ tree' = [tree EXCEPT ![run.place] = IF run.place = "workflow" THEN main ELSE t]
  /\ run' = [run EXCEPT !.index = TreeOf(0), !.verify = "none"]

Go(next) == pc' = next /\ UNCHANGED outcome
Proceed(next) == Go(next) /\ UNCHANGED <<latest, main, tree, branch, run, manual, crashes>>
Stop(how) == End(how, Tree) /\ UNCHANGED <<latest, main, branch, manual, crashes>>

WriteFile(f, r) == tree' = [tree EXCEPT ![run.place][f] = r]

(* Mutant: a release whose branch was pushed is taken for proposed.         *)
RecordedOrPushed ==
  Tree.identity = run.tag \/ branch[Version[run.tag]].tree.identity = run.tag

(* attestation_identity, the last line of the lock, names the release.      *)
Recorded == Tree.identity = run.tag

CompareLock ==
  /\ pc = "compare"
  /\ IF Recorded THEN Stop("up to date") ELSE Proceed("download")

Download ==
  /\ pc = "download"
  /\ IF run.tag \in SumsMatch THEN Proceed("attest") ELSE Stop("refused")

(* Mutant: the files are written before the attestation is verified.        *)
AttestAfterwards == pc = "attest" /\ Proceed("manifest")

VerifyAttestation ==
  /\ pc = "attest"
  /\ IF run.tag \in Attested THEN Proceed("manifest") ELSE Stop("refused")

CheckManifest ==
  /\ pc = "manifest"
  /\ IF run.tag \in Complete THEN Proceed("bundle") ELSE Stop("refused")

(* Mutant: the provenance note is left behind.                              *)
AfterWithoutProvenance ==
  [bundle |-> "docs", docs |-> "lock", lock |-> "identity", identity |-> "generate",
   provenance |-> "generate"]

After ==
  [bundle |-> "docs", docs |-> "lock", lock |-> "identity", identity |-> "provenance",
   provenance |-> "generate"]

(* cp of the bundle, of the rest of spec/ and of the lock, and the writer of*)
(* the provenance note.  What replaces the lock has no identity yet.        *)
Write ==
  /\ pc \in DOMAIN After
  /\ tree' = [tree EXCEPT ![run.place][pc] = run.tag,
                          ![run.place].identity = IF pc = "lock" THEN Torn ELSE @]
  /\ Go(After[pc])
  /\ UNCHANGED <<latest, main, branch, run, manual, crashes>>

(* Releases of one version have one bundle, with one digest.                *)
SameCode(x, y) == {x, y} \subseteq Releases /\ Version[x] = Version[y]

(* Mutant: entid-gen does not look at the lock.                             *)
GeneratesUnlocked(t) == t.bundle \in Generatable

(* entid-gen: verifyLock, gen.Load and gen.Generate.                        *)
Generates(t) == SameCode(t.bundle, t.lock) /\ t.bundle \in Generatable

(* The end of sync_release.sh, whose output the next steps of the workflow use. *)
Generate ==
  /\ pc = "generate"
  /\ IF Generates(Tree)
     THEN IF run.place = "workflow"
          THEN WriteFile("gen", Tree.bundle) /\ Go("verify") /\ UNCHANGED run
          ELSE End("synchronized", [Tree EXCEPT !.gen = Tree.bundle])
     ELSE End("failed", Tree)
  /\ UNCHANGED <<latest, main, branch, manual, crashes>>

(* A developer runs go generate alone.                                      *)
Regenerate ==
  /\ pc = "idle" /\ Generates(tree["developer"])
  /\ tree' = [tree EXCEPT !["developer"].gen = tree["developer"].bundle]
  /\ UNCHANGED <<latest, main, branch, pc, run, outcome, manual, crashes>>

------------------------------------------------------------------------------
(* make verify: the digests of the lock, the provenance, the regenerated    *)
(* code against the index, then the tests.                                  *)
Verified(t, index) ==
  /\ t.bundle = t.lock /\ t.docs = t.lock /\ t.provenance = t.lock
  /\ Generates(t) /\ SameCode(t.bundle, index.gen)
  /\ t.lock \in Followed

Verdict(t, index) == IF Verified(t, index) THEN "success" ELSE "failure"

(* The workflow verifies before it commits: its index is still main.        *)
Verify ==
  /\ pc = "verify" /\ Go("push")
  /\ run' = [run EXCEPT !.verify = Verdict(Tree, run.index)]
  /\ UNCHANGED <<latest, main, tree, branch, manual, crashes>>

(* Mutant: only the lock and the generated code are committed.              *)
CommittedInPart == [run.index EXCEPT !.lock = Tree.lock, !.gen = Tree.gen]

(* git add spec rules.lock rules_gen.go; git commit.                        *)
Committed == Tree

(* git switch -C and a push with a lease: the branch of an earlier run is   *)
(* replaced.  Something is always staged, since the lock differs.           *)
Push ==
  /\ pc = "push" /\ Go("status")
  /\ branch' = [branch EXCEPT ![Version[run.tag]] =
                  [tree |-> Committed, base |-> run.index, status |-> "none", by |-> "bot",
                   auto |-> @.auto]]
  /\ UNCHANGED <<latest, main, tree, run, manual, crashes>>

(* The status goes to the commit that was pushed, the head of the branch or *)
(* not any more.                                                            *)
Report ==
  /\ pc = "status" /\ Go("propose")
  /\ branch' = [branch EXCEPT ![Version[run.tag]].status =
                  IF branch[Version[run.tag]].by = "bot" /\ branch[Version[run.tag]] # NoBranch
                  THEN run.verify ELSE @]
  /\ UNCHANGED <<latest, main, tree, run, manual, crashes>>

(* gh pr create, or edit, and gh pr merge --auto, of a branch that is there. *)
Propose ==
  /\ pc = "propose"
  /\ IF branch[Version[run.tag]] = NoBranch
     THEN End("gone", Tree) /\ UNCHANGED branch
     ELSE /\ branch' = [branch EXCEPT ![Version[run.tag]].auto = TRUE]
          /\ End("proposed", Tree)
  /\ UNCHANGED <<latest, main, manual, crashes>>

(* The run is cut off; the file being written may be torn.                  *)
Crash ==
  /\ pc # "idle" /\ crashes < MaxCrashes /\ crashes' = crashes + 1
  /\ \/ End("crashed", Tree)
     \/ /\ pc \in DOMAIN After \ {"identity"}
        /\ End("crashed", [Tree EXCEPT ![pc] = Torn])
     \/ /\ pc = "generate" /\ Generates(Tree)
        /\ End("crashed", [Tree EXCEPT !.gen = Torn])
  /\ UNCHANGED <<latest, main, branch, manual>>

------------------------------------------------------------------------------
(* A human pushes to the branch, and ci.yml verifies its commit.            *)
HumanPushes(v) ==
  /\ branch[v] # NoBranch
  /\ branch' = [branch EXCEPT ![v].by = "human",
                               ![v].status = Verdict(branch[v].tree, branch[v].tree)]
  /\ UNCHANGED <<latest, main, tree, pc, run, outcome, manual, crashes>>

(* Mutant: main is not protected.                                           *)
MergeUnprotected(v) ==
  /\ branch[v] # NoBranch /\ branch[v].auto /\ branch[v].base = main
  /\ main' = branch[v].tree /\ branch' = [branch EXCEPT ![v] = NoBranch]
  /\ UNCHANGED <<latest, tree, pc, run, outcome, manual, crashes>>

(* Auto-merge, once the status is green and nothing conflicts.              *)
Merge(v) ==
  /\ branch[v] # NoBranch /\ branch[v].auto /\ branch[v].base = main
  /\ branch[v].status = "success"
  /\ main' = branch[v].tree /\ branch' = [branch EXCEPT ![v] = NoBranch]
  /\ UNCHANGED <<latest, tree, pc, run, outcome, manual, crashes>>

Step ==
  \/ CompareLock \/ Download \/ VerifyAttestation \/ CheckManifest \/ Write \/ Generate
  \/ Verify \/ Push \/ Report \/ Propose

Next ==
  \/ Publish \/ ScheduledStart \/ ManualStart \/ Step \/ Regenerate \/ Crash
  \/ \E v \in Versions : HumanPushes(v) \/ Merge(v)

(* A run goes on until it ends, and the clock starts one again and again,   *)
(* whatever else is started meanwhile.                                      *)
Spec == Init /\ [][Next]_vars /\ WF_vars(Step) /\ SF_vars(ScheduledStart)

------------------------------------------------------------------------------
Trees == [Files -> Releases \cup {Torn}]
Branches ==
  {NoBranch} \cup [tree : Trees, base : Trees, status : {"none", "success", "failure"},
      by : {"bot", "human"}, auto : BOOLEAN]

TypeOK ==
  /\ latest \in Releases /\ main \in Trees /\ tree \in [Places -> Trees]
  /\ \A v \in Versions : branch[v] \in Branches
  /\ pc \in DOMAIN After \cup
       {"idle", "compare", "download", "attest", "manifest", "generate", "verify", "push",
        "status", "propose"}
  /\ pc \in {"verify", "push", "status", "propose"} => run.place = "workflow"

(* Nothing of a release that is not attested, or that does not match its    *)
(* own sums, is ever in any tree, not even in a run that is cut off: the    *)
(* order sync_release.sh calls the one property that matters.               *)
Trusted == (SumsMatch \cap Attested \cap Complete) \cup {Torn}
AllTrees ==
  {main, tree["workflow"], tree["developer"]} \cup
    {branch[v].tree : v \in {v \in Versions : branch[v] # NoBranch}}
NothingUnattested ==
  /\ TypeOK
  /\ \A t \in AllTrees : \A f \in Files : t[f] \in Trusted

(* A branch that was pushed carries one release in all its parts, whatever  *)
(* earlier runs left behind (open_sync_pr.sh).                              *)
Whole(t) == \A f \in Files : t[f] = t.lock /\ t.lock # Torn
BranchesAreWhole ==
  \A v \in Versions : branch[v] # NoBranch =>
    Whole(branch[v].tree) /\ Version[branch[v].tree.lock] = v

(* Main only moves to a release this engine follows (the required status).  *)
MainIsFollowed == [][main' # main => Whole(main') /\ main'.lock \in Followed]_vars

(* Generated code is only ever written from the bundle the lock names, by   *)
(* a script or by hand (verifyLock).                                        *)
GeneratedFromTheLock ==
  [][\A p \in Places :
       tree'[p].gen # tree[p].gen /\ tree'[p].gen # Torn /\ tree'[p] # main =>
         SameCode(tree[p].lock, tree'[p].gen)]_vars

(* A release that can be trusted and generated reaches main or a pull       *)
(* request set to merge, or is replaced by a later one, however many runs   *)
(* are cut off before: one that stops between the push and the proposal     *)
(* leaves a branch nobody is asked to merge, and a later run must not take  *)
(* it for a proposal (open_sync_pr.sh).                                     *)
Proposable == SumsMatch \cap Attested \cap Complete \cap Generatable
Carries(r) ==
  \/ main.lock = r
  \/ LET b == branch[Version[r]] IN b # NoBranch /\ b.auto /\ b.tree.lock = r
LatestIsProposed ==
  \A r \in Proposable : (latest = r) ~> (Carries(r) \/ latest # r)
=============================================================================
