# A TLA+ model of entid-go

entid-go canonicalizes and validates business identifiers offline. Its rules
are not in its source: a *bundle* published by another repository is compiled
into Go (`rules_gen.go`) by a generator (`internal/gen`), and the compiled rules
run on a small runtime (`internal/runtime`) driven by the engine (`engine.go`,
`entid.go`). This directory holds the TLA+ modules that model the program, the
TLC configurations that check them, and the proofs TLAPS checks.

## Inventory

| Part | State it keeps | Operations | Correct when |
|---|---|---|---|
| Engine (`engine.go`, `entid.go`, `result.go`) | none between calls; per call the routed value, the profile, the definition | `Canonicalize`, `ValidateFormat`, `ValidateChecksum`, `Validate` | early returns come in the order of the specification; each program runs once, under one profile; `Invalid` has a proof; entry points agree; a reported identity can be submitted again |
| Dispatch tables (`rules_gen.go`, `internal/gen/emit.go`) | constants | kind, country, prefix and fallback lookups | the longest prefix wins; tables satisfy what the loader checked |
| Canonicalization workspace (`internal/runtime/buffer.go`) | a scratch array, the edges of the value in it, the caller's string | trim, filter, upper-case, replace prefix, prepend, append, insert, pad | the value never leaves the array; steps compute what they say on code points; loops end; a clean value is never copied |
| Scratch sizing and canonicalizer emission (`internal/gen/emit_programs.go`) | the bundle | `growth`, `sizeScratch`, `emitSteps` | the room reserved is enough for every step of every call |
| Views, checksums, integers (`internal/runtime/view.go`, `checksum.go`, `integer.go`) | none | slices, cursors, weighted sums, Luhn, MOD 97 | equal to their definitions; indeterminate rather than wrong |
| Loader (`internal/gen/load.go`, `limits.go`, `model.go`, `opcodes.go`) | the validator's tables | 25 checks: categories, bounds, expansion, dispatchers, call graph | accepts only bundles the emitter and the runtime can serve, in bounded time |
| Wire decoding (`protowire.go`, `decode.go`) | nested readers; the message being built | varints, tags, skipping, messages; two passes | never reads past the slice it was given; a version gap is named before an unknown field |
| Expression emitter, names (`expr.go`, `names.go`, `emit_programs.go`) | emitted locals, claimed names | emit | what is emitted is what the node means, and compiles |
| `entid-gen` | files | check the lock, load, generate, write | never writes from a bundle the lock does not name |
| `entid-testee` | bufio buffers | read a frame, answer, write a frame | one response per request, in order; no mutual wait; ends with its input |
| Release synchronization (`scripts/`, `.github/workflows/sync.yml`) | working tree, branch, pull request | fetch, verify, write, regenerate, propose | nothing is written before the attestation holds; what is pushed is one release whole, and an interrupted run is made up for by a later one |
| `entid-demo`, coverage metadata | none | print | no behaviour of interest |

How they meet: the decoder hands messages to the loader, the loader a validated
bundle to the emitter, whose output *is* the dispatch tables, the canonicalizers
and the rules the engine calls. The engine owns one workspace per call, on its
stack, and calls the pre-canonicalizer and the canonicalizer on it. The testee
is one caller of the engine; the runner at the other end of its pipes is a
process of another repository. The scripts run the generator on a tree they
write.

What is hard here is seldom concurrency: the engine holds no mutable state. It
is byte offsets against code points in an array without bounds checks; a size
computed at generation time that must hold for every later call; the order of
early returns and of the loader's checks, each relying on the ones before; two
resolutions of one profile; identities that callers store and submit again;
nested readers over untrusted bytes; framing over pipes that cut messages
anywhere; and, in the scripts, interruptions between two writes and a main
branch that moves meanwhile. `PROJECT.json` lists each hazard at its line with
the properties that cover it.

## Modules

| Module | Models |
|---|---|
| `Utf8` | strings as byte sequences; `utf8.DecodeRune`, code-point offsets, whitespace |
| `CanonPrograms` | canonicalization programs as the emitter flattens them; `growth`; which definitions `sizeScratch` considers |
| `Workspace` | every method of `Buf` and one call of a compiled canonicalizer; at its end, the mapping onto `Canonicalization` |
| `Canonicalization` | what a program promises: its steps on sequences of code points |
| `Dispatch` | dispatch tables, the loader's checks on them, lookups, steps of a report |
| `Engine` | `evaluate`, `route` and `routeUnder`, one early return or stage per action, and callers that follow a call up; at its end, the mapping onto `Evaluation` |
| `Evaluation` | the answer to a call, declaratively, in one step |
| `Views`, `CodePointViews` | `rt.View` in bytes, and the same operations as counting in code points |
| `ArithmeticBounds` | the limits of `limits.go` and the overflow argument of a weighted sum |
| `Checksums` | integers that become indeterminate; weighted sums, Luhn, MOD 97 |
| `ViewSteps`, `ChecksumRules` | chains of those operations, as a compiled rule makes them |
| `Wire` | the reader of `protowire.go`: nested windows over one buffer |
| `WireSchema`, `Decode` | messages over fields; both passes of `Load` up to check 5 |
| `Opcodes` | the table of operations |
| `ProgramRules`, `BundleRules` | checks 6 to 25 as conditions, with the bounds and the expansion they compute |
| `Loader` | `Load` after decoding: the order of those checks and the first that refuses |
| `CallGraph` | check 24 as the depth-first walk it is |
| `Generation` | what `emit.go` declares, names, numbers and sizes for an accepted bundle |
| `Expressions`, `RuleEmission`, `RuleCode` | the statements written for a format or checksum program, and their execution |
| `RuleMeaning` | what the nodes of such a program mean, without statements |
| `Sync` | the synchronization scripts, the workflow and `entid-gen` on the tree they share |
| `Testee` | the serve loop, its buffers and pipes, and the runner |
| `WorkspaceProofs`, `EngineProofs`, `CallGraphProofs`, `WireProofs`, `DecodeProofs`, `GenerationProofs`, `SyncProofs`, `TesteeProofs` | the theorems about the module of that name |
| `MC...` | instances for TLC |

Composition: `Workspace` instantiates `Canonicalization` and `Engine`
`Evaluation` as the abstract specifications they implement. `Generation`
extends `Loader`, which uses `BundleRules`, `ProgramRules` and `Opcodes`;
`Loader` instantiates `Dispatch` and `CanonPrograms` with what is generated from
the bundle, so that what the loader accepts is compared with what the engine and the
workspace assume; `RuleCode` extends `RuleEmission` and compares with `RuleMeaning`;
`ChecksumRules` extends `ViewSteps`, and both compare with references of their
own.

### Workspace

`w` is a `Buf`: `b`, `lo`, `hi`, `src`, `loaded` are its fields. A byte at
offset `o` of the array is `b[o + 1]`. Each method is an operator from a buffer
to the buffer it leaves (`TrimWhitespace`, `ReplacePrefix`, `Insert`, ...), and
`Do...` runs it when the compiled canonicalizer reaches such a step. `filter`
reads and overwrites the same bytes, so it is a loop in the model too:
`FilterStart`, `FilterRune`, `FilterEnd` with the registers `i` and `dst`. The
other loops write each byte from bytes they do not touch again and are one
step. A program is a tree in the bundle and a straight line with `if`s in the
emitted code; here it is a sequence in which a `WHEN` carries the number of
steps it guards. The predicates of `WHEN` are reduced to a prefix test. Scratch
sizes are constants constrained by `GrowthAssumption` and `SizingAssumption`,
which say what `growth` and `sizeScratch` compute; TLC evaluates them on each
instance.

`Canonicalization` runs the same programs on sequences of code points, with no
array, no offsets and no sizes. The refinement mapping decodes the value, once
the filter in progress has run to its end. An ill-formed input is mapped to a
call that is never taken up, since the engine refuses it before any program
runs; the safety properties of the run do cover such inputs.

### Engine

`pc` is the stage of the call: check, bound, encoding, country, target,
canonicalize, format, checksum. Each `Refuse...` action is one early return
with the condition the code tests at that point; `StartRouting`, `ResolveKind`,
`NormalizeCountry`, `SelectTarget` and `RunCanonicalizer` are what happens
between them; `RunFormat` and `RunChecksum` the end of `evaluate`. What a rule
or a canonicalizer computes is a constant operator; what is checked is when it
is called, on which value and under which profile. Callers `Ask`, `Leave`,
`AskAgain` (the same input through another entry point) and `Resubmit` (the
identity a report gave). `TablesAccepted` in `Dispatch` states the loader's
checks on dispatchers and targets that the lookups rely on. All profiles the
bundle does not know are one.

### Rules: views, checksums, emission

`Views` works on bytes as the code does, with offsets found by scanning code
points; `CodePointViews` states the same methods by counting. `ChecksumRules`
composes them: a value is cut by a chain of string operations, then read as an
integer, transformed and compared, or given to an algorithm, at `IntWidth` bits
and within the bounds the loader proves; the exact value it is compared with is
spelled out from the characters by definitions of its own. `RuleCode` runs
emitted functions statement by statement, `ResultIsMeaning` compares with the
nodes' meaning, which knows the country of the target and the declared subject.
Message keys are reduced to whether one is declared.

### Loader, decoding and generation

`Wire` reads byte by byte: `readers` is the stack of open messages, each a
window `[lo, hi)` with a position. `Decode` is the layer above: bodies are
sequences of fields, and each message decoder's order of tests (wire type,
repetition, knowledge) is the code's. `Loader` takes the 25 checks in the order
the *code* takes them, which is not that of their numbers: 21 and 22 come before
20, and 17 and 18 alternate per identifier. The colour walk of check 24 has a
module of its own, `CallGraph`, with the recursion as a stack of frames.
`Generation` keeps of the emitted text what a compiler can object to:
declarations, uses, cases, locals, sizes. The names declared so far are a set:
what is asked of it is whether a name referred to is there. That no name is
declared twice is another question, `DeclaredOnce`, which `generation_names`
refutes; of the cases of switches `NothingUndeclared` covers those over strings of
a caller, not those over generated constants. In `Decode`, `AllFields` is
every field of a bundle at any depth, a constant so that decoding a body of any
depth is a function of it.

### Sync

A file is known by the release it came from; `Torn` is one whose writing was cut
off. A tree has the files the scripts write, with the lock split into its
digests (`lock`) and the line that names the release (`identity`), which are
written apart. There are two trees: the workflow's checkout, made anew from main
for each run, and a developer's, which stays as a run left it. Each action is
one step of `sync_release.sh`, `verify.sh` or `open_sync_pr.sh` that reads or
writes shared state; `Crash` ends a run anywhere, the middle of a file included.
Releases appear, continuous integration and humans merge: these are external. A
squash merge happens only from a base that is main. Runs come one at a time, as
the concurrency group of the workflow makes them.

### Testee

One byte is a pair (message, position), so any lost or repeated boundary shows.
`Fill` is a read of the pipe by the `bufio.Reader`, `Consume` the copy into the
header or body that `io.ReadFull` wants; `CleanEnd` and `TruncatedEnd` are the
two errors `io.ReadFull` gives at the end of the stream; `Buffer`, `Drain` and
`Flushed` are `writeFrame` over a `bufio.Writer` and the final `Flush`. A write
larger than the empty buffer goes past it in the library; the bytes are the
same in the same order, and the model sends them through the buffer. The runner
follows `testee.proto`: one request, then exactly one response. It may close
between exchanges and die anywhere. Field coding inside a message is reduced to
whether the body decodes, and a response to its length.

## Runs

| Run | Question | Bounds |
|---|---|---|
| `workspace` | does the value stay in the array, is the margin enough, is a clean value left alone, does every call return, and does the byte buffer compute what the steps say on code points | inputs of up to 3 bytes, some of 4, over a space, a separator, a letter in both cases and the bytes of U+00A0 and U+00A9, ill formed too; three programs that use every operation |
| `workspace_shared` | the same margin when two definitions share a program: **violated** | `MaxInput` = 3 |
| `engine` | one profile per call, each program once, agreement of entry points, stability under resubmission, and the declarative answer | 3 dispatchers, 4 definitions, overlapping prefixes, an alias, 12 values, 7 country tokens, 3 profiles and an unknown one; a call and one follow-up |
| `rules` | do offsets in bytes give what counting in code points gives; is arithmetic exact within the loader's bounds; are the algorithms their definitions; is `Invalid` never a matter of missing digits; does emitted code compute what the nodes mean | values of 2 code points of 6, chains of 2 string operations and 2 transforms, 9-bit integers; about 1800 pairs of a rule and a context: calls three deep, hoisted views, every checksum rule that joins two or three outcomes |
| `rules_specified` | the same of a rule that reads its country and of one that declares a subject: **violated** | these two rules, one value, a target of a country |
| `loader_walks` | do readers stay within their slice; is a varint its value or refused; are exactly the bundles that conform decoded; does the tolerant pass read the same bundle; does check 24 accept exactly the graphs whose calls are bounded, exploring each program once; does each walk end with an answer | 4 payload bits per byte and values of 9 bits, all inputs of 4 bytes over 8, of 6 over 4, one level of nesting; a valid bundle with each message in it, any one of them extended by known, repeated, mistyped and unknown fields, integer ranges scaled down; every graph of 3 programs with at most 2 calls each, `MaxCallDepth` = 2 |
| `decode_gap` | is a version gap named first whatever a later version adds: **violated** | the bundles of `loader_walks` |
| `generation` | can what is accepted be routed, bounded, emitted, declared and given room; do both end | a valid bundle and its one-fault variants, and every small graph of string operations in one; limits scaled down (`MaxSteps` = 12, `MaxTotalNodes` = 34, ...) |
| `generation_names` | is every name of the generated code declared once: **violated** | the valid bundle, and one with two kinds that differ in a separator |
| `sync` | is nothing unattested written; is every pushed branch one release; is main only moved to a release this engine follows; is code generated from the lock; does the latest release reach main or a pull request set to merge in the end | 5 releases after the recorded one: one not attested, two of one version, one the engine does not follow yet, one the generator refuses; one manual run, one crash |
| `testee` | framing, lock step, progress, end of input | 3 exchanges; headers of 2 bytes; messages longer than pipes and buffers; empty, maximal and oversized bodies |
| `testee_truncated` | is a truncated frame refused: **violated** | 1 exchange |

Why these bounds are enough to be interesting: the longest code point of the
workspace's alphabet has two bytes, so its inputs hold two of them, one between
two removals, and every split of one; the programs grow on both sides, shrink,
pad by code points, insert after a multi-byte character and guard growth by a
`WHEN`. `LeftMargin` and `ScratchSize` are literals in each configuration and the
assumptions check that they are exactly what the generator computes, so there is
no slack to hide an overrun. In the engine every pair of conditions an early
return could confuse is met by some input (too long and ill formed, ill formed
and unknown kind, unserved country and mismatching prefix, ...). A varint of
nine bits at four per byte overflows in its third byte as the code's does in its
tenth, since the width is one more than a multiple of the group in both. A cycle,
a diamond and a chain over the limit exist among three programs. Three exchanges
let a testee be wrong about the one before and the one after. A crash can leave
every mixture of two releases, and the runs after it see them.

`loader_walks` and `rules` each check several machines that share no state: the
reader, the decoders and the walk of check 24; the arithmetic of a rule and the
execution of emitted rules. `MCLoaderWalks` and `MCRules` let one of them go
while the others stand where they end, so a run checks the union of their
behaviours and not the product.

Deadlock is checked in `engine`, `loader_walks`, `rules` (for emitted rules; a
chain of string operations is of any length), `sync` and `testee`. It is off
where the system stops: a canonicalization and a load end.

`ResubmissionStable` is about bundles whose rules settle (`RulesSettle`): the
canonicalizers leave their own output alone (`fuzz_test.go` demands it of the
published ones over well formed input), no prefix they write belongs to another
target, and no country alias leads to another. The loader requires none of it: a
country whose alias no target serves and is itself an alias is refused under one
country and, submitted again, under another. `MCEngine` assumes it of its bundle, and
TLC evaluates that on every text of up to four bytes out of six.

Fairness: a canonicalization, the loader's checks, the walk of check 24 and the
generator are straight-line code on the caller's goroutine, so these
specifications assume weak fairness of their next step. `Sync` assumes that a
run that was started goes on (weak fairness of a step) and that the schedule
starts runs again and again (strong fairness of `ScheduledStart`, which a run in
progress disables); nothing is assumed of publications, merges, developers or
crashes, of which there is a bounded number. `Testee` assumes weak fairness of
the testee, and of a runner that has begun an exchange (it writes its request
and reads the response), never that it begins or closes one. The other
specifications have only safety properties.

### The five violations

- `workspace_shared`: `sizeScratch` considers a program once, under the target
  of the first definition that names it, while a canonicalizer is compiled per
  definition. If the second has a longer canonical prefix, the left margin is
  exhausted, which a comment of `shiftLeftEdge` says cannot happen to a bundle
  the generator accepted. The loader accepts shared programs. The published
  bundle has none.
- `testee_truncated`: `io.ReadFull` returns `io.EOF` when it read nothing, also
  for a body; a stream cut right after a header is taken for a clean end, where
  the test of truncated frames wants a refusal.
- `decode_gap`: a bundle of a later version should be answered as incompatible
  before what it adds is refused (`load.go:48`, `spec/ir.md:1355`). `decodeNode`
  refuses a node with no branch it knows in the tolerant pass too
  (`decode.go:561`), so an operation of a new category is answered as invalid;
  `decodeCountryAlias` (`decode.go:312`) tests the wire type, and it and
  `decodeCapture` (484) the repetition, of a field before they know it is
  unknown, with the same effect. Each of the three is reached on its own, and
  without them the property holds: `VerdictIsDeclared` in `loader_walks` says the
  version gap does come first for everything else a later version may add.
- `rules_specified`: `COUNTRY_CODE` in a format or checksum program is always
  absent (`expr.go:63`), where `spec/ir.md:203` gives the country of the target;
  and a declared `subject_node` is validated and not emitted
  (`emit_programs.go:289`, 351), where `spec/ir.md:54` says it produces the
  subject. `RuleMeaning` follows the specification, so each of the two rules of
  the run breaks `ResultIsMeaning`; `rules` checks it for the targets and rules
  the two do not concern.
- `generation_names`: `pascal` drops the separators of a kind (`names.go:85`), and
  no check compares what it makes of two kinds. `a-b` and `a_b` are accepted;
  their constants are declared twice and are two cases of `canonicalKind`
  (`emit.go:269`), so the code does not compile, against `load.go:36`.

### Disagreements met without a run

Read while modelling; each module follows the code. Lines are of `src/`.

- `internal/gen/load.go:589`: the comment bounds an unbounded operand by the
  canonical value; a `CONCAT` of several `VALUE`s is a multiple of that. The sum
  stays far from 64 bits all the same.
- `internal/gen/names.go:76`: some kinds get the name of a function of the
  generated file; `emit_programs.go:423`: a checksum node nothing reads becomes a
  local nobody uses; `emit.go:118`: definitions are numbered in a `uint8`. Each is
  accepted and its code does not compile, against `load.go:36`.
- `scripts/sync_release.sh:216`: the lock is copied before provenance and
  generation; a run cut off in between leaves a developer's tree of two releases
  in which the next run finds nothing to do. A checkout of the workflow is
  discarded.
- `scripts/verify.sh:111`: the comparison with the index fails on every
  synchronization that changes the generated code, and is reported as the status
  of a commit on which it passes (`open_sync_pr.sh:55`).
- `scripts/sync_release.sh:228`: a bundle the generator refuses ends the run
  before the pull request that was to show it to a human (`open_sync_pr.sh:6`).

## Proofs

Eight modules hold theorems. Each proves an inductive invariant, which TLC had
checked on the instance of the run first where it can evaluate it, and derives
the properties.

| Theorem | For every | Property |
|---|---|---|
| `WorkspaceProofs`: `StaysInScratch`, `MarginNeverExhausted`, `OnlyChangesLoad` (and `TypeCorrect`, `Invariance`) | bundle without shared programs, input and size | `InScratch`, `MarginSuffices`, `LoadsOnlyOnChange` |
| `EngineProofs`: `PhasesOnceAlways`, `EntryPointsAlwaysAgree`, `EngineImplements` (and `StagesInvariance`) | accepted bundle, rules and calls | `PhasesOnce`, `EntryPointsAgree`, `Implements` |
| `EngineProofs`: `ResubmissionsStay` | accepted bundle whose rules settle, and calls | `ResubmissionStable` |
| `CallGraphProofs`: `AcceptedCallsEnd`, `RefusalsAreJustified`, `ExploredAtMostOnce` (and `WalkTypeCorrect`, `WalkInvariance`) | call graph and limit | `AcceptedIsRanked`, `RefusedIsUnservable`, `ExploredOnce` |
| `WireProofs`: `ReadersStayWithin`, `VarintsReadExactly` | buffer, group, width, nesting limit | `WithinSlice`, `VarintsAreExact` |
| `DecodeProofs`: `ScoutReadsTheSame` (and `PassesInvariance`) | bundle, depth and integer ranges | `ScoutReadTheSame` |
| `GenerationProofs`: `NoPassPanics`, `AcceptedIsServed`, `NamesAreDeclared` (and `LoadInvariance`) | bundle the decoder gives, and limits | `NeverPanics`, `AcceptedIsServable`, `NothingUndeclared` |
| `SyncProofs`: `NothingUnattestedEver`, `BranchesAreWholeAlways`, `MainIsFollowedAlways`, `GeneratedFromTheLockAlways` (and `SyncInvariance`) | set of releases and number of manual and cut-off runs | `NothingUnattested`, `BranchesAreWhole`, `MainIsFollowed`, `GeneratedFromTheLock` |
| `TesteeProofs`: `LockStepAlways`, `NothingUnansweredAlways` (and `ExchangeInvariance`) | size of header, frame, pipe and buffers, number of exchanges | `LockStep`, `NothingUnanswered` |

**Workspace.** The hypothesis `Unshared` says that `sizeScratch` considers every
definition, that is, that no two share a canonicalization program;
`workspace_shared` shows that it cannot be dropped. Otherwise the proofs use the
assumptions on the constants: `BundleAssumption` (types of steps, a `WHEN` stays
inside its program, the loader's conditions on the constants of a step),
`InputsAssumption` (no input longer than `MaxInput`, which `evaluate` refuses),
`GrowthAssumption` and `SizingAssumption`. That the value is in the array now
does not say the next step has room. `IInv` says the value, where it is or will
be once loaded, fits with the growth of *every remaining step* to spare on each
side (`Fits(w, LeftFromStep(at), RightFromStep(at))`), and that a filter in
progress writes behind what it has read. (1) Each method, given room for its own
growth and some more, leaves that more (`TrimWhitespaceFits` ...
`PrependCountryFits`); trimming and filtering need bounds on where code points
start and end (`RuneSizeBound`, `TrimBounds`), padding needs that repeated text
is as long as counted (`RepeatType`); (2) the growth from a step on is its own
plus that of the rest (`GrowthUnfolds`), and never increases along the program
(`GrowthShrinks`), which is what makes skipping a `WHEN` safe; (3)
`SizingAssumption` gives the whole growth initially. `OnlyChangesLoad` needs what
a step writes and not only where: a method that loads also changes the value,
which for the replacing and inserting ones is the loader's demand that a text is
not empty and a replacement not the prefix itself.

**Engine.** `IInv` says, for each stage, that what the call holds is what the
declarative evaluation determines: `Started` (the call), `Routed` (dispatcher,
pre-canonical value, country), `Decided` (target, definition, identity),
`AnsweredRight` (the report), `Traced` (the programs run so far and their
profile), `FollowsUp` (what the previous answer was). Each early return is then
the abstract case of the same condition, given that those before it did not
apply. It uses `AcceptedBundle` (what the loader checks of the tables: without
disjoint tokens or one fallback, the order of lookups would show) and
`CallersAssumption`. The hypothesis `RulesTyped` is that canonicalizers return
byte strings and rules return step results, which are parameters of the model.
`ResubmissionsStay` assumes `RulesSettle` of the canonicalizers, one at a time, and
shows that dispatch preserves it: it is proved on the one-step evaluation, by the
kind of answer. What is reported of a call that no dispatcher resolves is its own
contents with the kind normalized, and normalizing is idempotent (`TrimSettles`,
`KindSettles`); of one that selects no target, the value and the country dispatch
decided by (`DispatchIrrelevant`), the kind leading back to its dispatcher because
the loader accepts kinds in lower case only (`KindResolves`); of one that selects a
target, its country, which no alias of an accepted bundle renames, and a value whose
prefix names no other target, so the target is selected again whether it was found
by country, prefix or default (`PrefixAgrees`, `TargetStays`).

**Call graph.** `IInv` is the type of the walk and `WalkInv`: the grey programs
are the stack, each called by the one below (`PathInv`); a black program is
ranked above its callees, all black (`BlackInv`); a frame has dealt with the
callees before its cursor (`FrameInv`); the roots before the current one are
black (`RootInv`); and depths are never less than some chain of calls
(`LowerInv`), with which a refusal for depth is justified. A cycle refused is on
the stack.

**Wire.** `WithinSlice` is inductive once every primitive is known to move
forward and to stay within the window it is given. For a varint that is a
statement about a recursive function (`ReadsExists`, `VarintForward`), proved by
the last position at which it would fail. A payload that passes the comparison
with the remaining bytes ends within the window; that the comparison is made on
values and not on positions is what makes a huge length harmless. `VarintsReadExactly`
compares the reader, which shifts and reduces modulo the width, with the number
written. The recursive reader is followed from the byte that ends the value (or the end
of the window) back to the first (`ReadToEnd`, `ReadPastEnd`), the sum from the
first payload on (`SumsFit`: the payloads before byte `k` are below `2^(k*Group)`,
so nothing wraps before the last byte); at the last byte the reader's test for
overflow is then the comparison with `2^Width` (`FitsByEnd`). What is used of
powers of two (`PowerDoubles`, `PowerOfSum`) comes from counting the subsets of an
interval. Assumed: `WidthAssumption` (the width is one bit more than a number of
whole groups, as 64 is of 7), `InputsAssumption`, `SizesAssumption`.

**Decode.** `ScoutReadTheSame` relates the end of the strict pass to the end of
the lenient one, two runs of one decoder over one bundle, of which only the
second is in the state. `PassInv` is a simulation: the lenient pass has a
*history*, a function from naturals to the messages open and the fields read,
each step of which ends a message or reads a known field as any pass would
(`Follows`, which leaves open what a step over an unknown field does); when it
ends the history is complete, and the strict pass always stands somewhere on it.
Where the strict pass goes on at all, the step is determined by what is open, so
it moves along the history; nothing follows an empty stack, so when it ends it
stands at the end. `TypeInv` keeps the bodies in the sequences `BundlesAssumption`
names.

**Loader and generator.** No property of an accepted bundle is inductive: the
verdict is one step, the checks are many. `LoadInv` says what each stage is done
with has passed: for programs, nodes, identifiers and dispatchers before the
cursor (`Passed`), and all of them in every later stage; that the whole bundle
has passed the checks of ownership and calls once those stages are over. It is
not a property of the run, because a node has passed when there are *some*
lengths of its operands under which it has no fault (`NodePassed`), which is not
enumerable; TLC checks its consequences. From it, at the end:
`NoPassPanics`, by families of operations (which ones a category may hold, what
their operands write, so that each case of the emitter is met) and because the
marks of `programUses` only grow within a finite set (`SearchesEnd`);
`AcceptedIsServed`, by the tables (`TablesAreAccepted`: claimed tokens, aliases
and prefixes, `TargetsAnswered`: no target is hidden by another), and the
flattened steps (`StepsAreAccepted`: every constant has the length its step
wants, every `WHEN` ends within its program), which are what `EngineProofs` and
`WorkspaceProofs` assume of a bundle; `NamesAreDeclared`, from `LoadInv` and
`NamesInv`, which says what each pass has declared and that only names of
the bundle were referred to, with the search of `programUses` complete when it
ends. Assumed: `BundlesAssumption` (what the decoder gives: numbers are naturals,
enumerations are of the known values, lists are finite) and `LimitsAssumption`.

**Sync.** The checked properties say nothing of a run in progress. `IInv` says,
for each point of it, which checks its tag has passed (`Checked`) and which files
already are of that tag (`Written`); of the time between push and status, that
the branch is the one pushed (`Pushed`), that a success was that of a followed
release (`VerdictIsHonest`) and is attached to one (`GreenIsFollowed`); and of
trees, branches and main that each file is trusted or cut off. A cut-off run
keeps all of it, because it says nothing of which release a file left behind is
of. The bounds `MaxManual` and `MaxCrashes` are any naturals.

**Testee.** `LockStep` and `NothingUnanswered` speak of responses; what is
inductive speaks of the requests as well. Either the testee owes nothing
(`Idle`), or what it holds, has buffered and has in the pipe are the bytes of the
one request outstanding, each once and in order (`Arriving`), or the input ended
within that request (`Cut`); `RunnerKnows`, `EndIsFinal` and `Sent` tie the
runner's state, the end of the stream and the response in progress to it. An end
right after a header is one of the ways into `Cut`, which is why the theorems
hold although `testee_truncated` is violated: the request was not received.

The proofs use the theorems of the library about sequences, finite sets and
well-founded relations. Inductions are done through a least counterexample
(`WFMin`), since induction theorems that take an operator as a parameter cannot
be instantiated by the provers at hand. `PTL` combines the steps; assumptions on
the constants are named where the constants are declared, and TLC evaluates
them.

### Only model-checked

- Liveness, which is out of the provers' reach, as is `ENABLED`: `Returns`,
  `WalkTerminates`, `Terminates`, `EveryRequestAnswered`, `EndsWithItsInput`, `LatestIsProposed`.
- What a recursion or a fold over data computes, for every input, which would
  take an induction the provers cannot instantiate or a library operator they
  cannot open: of strings and their UTF-8 forms `CountsInCodePoints`,
  `PrefixesAreFound`, `LocalsHoldTheirNodes`, `ResultIsMeaning`; of numbers and their digits
  `ArithmeticIsExact`, `AlgorithmsDecideByDefinition` and
  `IndeterminateIsNotInvalid`; of nested messages `VerdictIsDeclared`; of the nodes of a program
  `BoundsAreSound`, `ExpansionIsWhatIsWritten`, `RoomForEveryCanonicalizer`
  (a sum over the flattened steps against one over the graph; the type
  invariants of loader and generator, which speak of those numbers, are conjuncts
  of it); and the refinement of `Canonicalization`, which needs the code points
  of a string after each step.
- `RuleMeaning` and `RuleCode` and what they extend keep `RECURSIVE` operators,
  for which the prover loses arithmetic.

Neither proved nor model-checked is that the rules of the published bundle settle,
as `ResubmissionsStay` assumes: this is a matter of its data.

## Not modelled

The coding of the testee's messages and of the tables' text; layout and comments
of generated code; message keys beyond their presence; coverage metadata and the
demo; the published tables, which are data. The second byte of a UTF-8 form has
narrower ranges after four lead bytes, which no instance uses. What GitHub,
continuous integration and humans do is external and as free as the scripts can
meet it.

## What is left

The refinement of `Canonicalization`, method by method, with the filter loop
last; `RoomForEveryCanonicalizer`, which would join `GenerationProofs` to the
assumptions `GrowthAssumption` and `SizingAssumption` of `WorkspaceProofs`; the
binary search of `PrefixesAreFound` on sorted values of one length. Each first
needs an induction over sequences done by hand, through a least counterexample.
