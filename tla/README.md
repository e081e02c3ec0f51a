# A TLA+ model of invariant-testing

The repository is a fork of Clam, an abstract interpreter for LLVM bitcode built
on the Crab library, turned into a *metamorphic tester of itself*. Clam analyses a
C program, writes the invariants it infers into the bitcode as assumptions, and
makes variants of the result whose assumptions are stronger or weaker. A sound
analyzer must not lose warnings under weaker assumptions or gain any under
stronger ones; where it does, a Python campaign stores the program as a bug, and a
delta debugger reduces it.

This directory holds specifications of the parts that make up that loop, the
TLC configurations that check them on small instances, and proofs, checked by
TLAPS, that some of their properties hold for every instance.

## 1. Inventory

### 1.1 The loop

```
clam_caller.py ----fork----> core 0 ... core n        (one process per core)
                               |  pick a C file, random parameters -> config.json
                               v
     clam.py -> clam --crab-opt     (the pipeline)    initial.bc, stronger_i/*.bc, weaker_i/*.bc
                               |
     clam.py on each .bc, --ocrab=*.crabir            warnings; read_results.py for "inter"
                               |
     process_clam.check_assertions                    code, logged
                               |
     warnings compared: failed? -> process_bugs.add_files -> bugs/bug_N
                                                              |
                              clam_debugger.py: rename, minimize, narrow down, debug
create_files.py: the same producer, but it publishes the variants on a mount for
                 another project, with back-pressure
```

### 1.2 Components

| component | state | operations | talks to | what is hard | what makes it correct |
|---|---|---|---|---|---|
| **pipeline**, `tools/clam/clam.cc` from 560 | one LLVM module in memory, never reloaded; the optimizer's globals `Seed`, `Mode`, `AddAssertions`, `Subfolder` | build a chain of passes, run it, write a file; repeat | the analysis (read only), the three passes below | what a run leaves behind is what the next one starts from | all files are one program; each holds only its own assumptions; each is comparable with initial.bc |
| **DeleteAssume**, **DeleteCrabCommand** | a list of instructions to erase | collect, erase from the back | the module | order of erasure against uses | no operand disappears under a user |
| **Optimizer**, `lib/Clam/Optimizer/Optimizer.cc` | lists of dead blocks and edges; a log | visit blocks, expand each constraint to an assumption and assertions, remove dead code | `ClamGlobalAnalysis::getPre`, `hasFeasibleEdge` | lists processed backwards after the visit; branches with two dead edges | feasible edges survive; every live block keeps a successor |
| **CodeExpander** (same file) | none between constraints | choose a relation by dice, shift a constant by a random amount | `random_normal` | 64-bit subtraction, narrowing to int, an unbounded loop | stronger, weaker or equal as the mode says; constants fit; the loop ends |
| **comparison**, `utils/process_clam.py` | a running code | pair .crabir files, compare dictionaries, fold outcomes | the campaign | folding by conditional addition | no outcome hides another |
| **count**, `scripts/read_results.py` | counters per function | read a file line by line, add up | `find_warnings`, the campaign | boundary at the last function, equal names | every assertion counted once |
| **campaign**, `clam_caller.py`, `utils/process_bugs.py`, `utils/run_clam.py` | per process: a list of known bugs, a config; shared: `bugs/` | scan, fork, pick, run, store; stop and restart | file system; the other cores through `bugs/` | non-atomic list-then-mkdir, copies interrupted by a stop, a list copied at fork | stored programs are not tested again; a folder holds one program; no file starves |
| **mount**, `create_files.py` | folders of a core on the mount | publish variants, wait while there are too many | a consumer that is not in the repository | listing is stale when used; limit applied per program | names are free, numbers bounded, waiting ends |
| **delta debugger**, `utils/delta_debugger.py` | the list of assumptions (of the *class*), granularity, minimized.ll | test complements, refine | clam, as an oracle | a list shortened while it is walked, state shared by debuggers | ends; 1-minimal; the file written still fails |
| **bug maintenance**, `clam_debugger.py` | `bugs/` | rename in two phases, minimize, delete duplicates and non-reproducible folders | `bugs/`, possibly while a campaign runs | partial renames, deletions while walking | no bug lost, names compact |
| **CFG builder**, `lib/Clam/CfgBuilder*.cc` | the CrabIR graph of a function; caches of literals, of skipped instructions, of pending calls of the verifier | translate instructions, split edges, lower comparisons, declare functions, translate calls | the heap abstraction, the property checks | a comparison is translated once, by its users, or by both; values that meet on an edge; signs and widths | every execution of the bitcode is one of the CrabIR; failures are not lost |
| **property checks**, `lib/Clam/Properties` | ghost size and offset per pointer, bases checked in the block | emit checks before loads and stores | the CFG builder | what is seen is not checked again | no missed violation |
| **heap abstraction**, `lib/Clam/SeaDsa*.cc` | numbers of nodes; regions read, modified and created by each function and call | number, type, compare over all functions and calls | sea-dsa (external) | actual and formal regions are matched by position in lists made separately | unique numbers; calls and declarations agree; nothing modified is lost |
| **analysis**, `lib/Clam/Clam.cc` | maps of invariants before and after blocks, infeasible edges, check results, parameters | analyse one function, all, or the call graph; clear; verdict | the CFG builder, Crab, the query cache | a parameter changed by reference half-way; results that pile up | what a client is told holds of every execution |
| **query cache**, `lib/Clam/ClamQueryCache.cc` | ranges and tags by instruction | range, tags, alias | the analysis | never invalidated; ranges wrap | answers are sound |
| **path analyzer**, `lib/Clam/crab/path_analyzer.cc` | invariants along a path, a core of statements | solve, minimise an infeasible path | Crab | two slices, greedy deletion | the core is infeasible and minimal |
| **devirtualisation**, `lib/Transforms/DevirtFunctions.cc` | call sites by type, bounce functions by set of targets | resolve indirect calls | sea-dsa, types | caching of bounces | the targets called are those resolved |
| **other passes**, **drivers**, **domains** | see `PROJECT.json` | | | | |

The hazards of this code, each at its line with the properties that cover it, are
listed in `PROJECT.json` under `hazards`.

## 2. Modules

| module | models | checked through |
|---|---|---|
| `MetamorphicSuite` | *abstract*: what a suite of variants promises, whoever builds it | as a property of `pipeline` |
| `Pipeline` | clam.cc 560-736, Optimizer.cc, DeleteAssume.cc, DeleteCrabCommand.cc | `MCPipeline` |
| `PipelineProofs` | theorems about `Pipeline` | |
| `ConstraintTransform` | `CodeExpander::genCode`/`cstToValue` and `random_normal` on one constraint | `MCTransform` |
| `TransformProofs` | theorems about it | |
| `AssertionCompare` | `check_assertions`, `compare_assertions` | `MCVerdict` |
| `AssertionCount` | `processLog`, `find_warnings` | `MCVerdict` |
| `CompareProofs` | theorems about both | |
| `DeltaDebug` | `DeltaDebugger`, `minimize_all` | `MCDelta` |
| `DeltaProofs` | theorems about it | |
| `MountPipe` | `create_new_mount_folder`, the waiting loop, an external consumer | `MCMount` |
| `Campaign` | `clam_caller.py`, `process_bugs.py` | `MCCampaign` |
| `CampaignProofs` | theorems about it, and about `MountPipe` | |
| `Bitcode` | *external*: the instructions of LLVM, how a block of them runs | `MCTranslation` |
| `CrabIR` | *external*: the statements of CrabIR, how they run | `MCTranslation` |
| `ScalarTranslation` | CfgBuilder.cc, CfgBuilderLit.cc, CfgBuilderUtils.cc: comparisons, logic, arithmetic, casts, selects, calls of the verifier | `MCTranslation` |
| `MemTranslation` | CfgBuilder.cc, CfgBuilderEmitters.cc, `Properties/`: pointers, loads, stores, allocations, globals, checks | `MCTranslation` |
| `CfgTranslation` | CfgBuilder.cc: blocks, visits, edges, phi nodes, exit, regions of the entry | `MCTranslation` |
| `TranslationRun` | both programs side by side, and the properties | `MCTranslation` |
| `RegionTypes` | SeaDsaToRegion.cc, SeaDsaHeapAbstractionUtils.cc | `MCHeap` |
| `RegionAbstraction` | SeaDsaHeapAbstraction.cc | `MCHeap` |
| `CallTranslation` | CfgBuilder.cc: declarations, calls; CfgBuilderMemRegions.cc | `MCHeap` |
| `RegionProofs` | theorems about the three | |
| `AbstractDomain` | *external*: an interval and a relational domain of Crab | `MCAnalysis` |
| `PathAnalysis` | path_analyzer.cc | `MCAnalysis` |
| `ClamAnalysis` | Clam.cc | `MCAnalysis` |
| `ClamQueries` | ClamQueryCache.cc, the rest of Clam.cc | `MCAnalysis` |
| `AnalysisProofs` | theorems about the two | |
| `NatSets` | facts about sets of naturals, induction and recursion, for the proofs | |

### 2.1 Pipeline and MetamorphicSuite

*State.* `mod[b]` is the set of instructions of block `b` that the passes create or
delete: the assumption or assertion calls, the comparison each takes and the sum
that one takes. An instruction is a record of the call it was built for (name,
constraint, form, run); `Uses` reads operands off these records. `succ` and
`unreach` are the control flow. `passes` is the chain of the current run, `run` its
number: 0 places the assertions, 1 writes initial.bc, 2+i writes variant i. `seed`,
`mode`, `add` are the optimizer's globals. `files` is what has been written.

*Actions.* One per pass, but a pass that other code could observe half-way is
split: DeleteCrabCommand erases one instruction at a time (`CollectCrabCommands`,
`EraseCrabCommand`, `EndErase`), the optimizer visits a block (`VisitBlock`),
expands a constraint (`ExpandConstraint`) and prunes (`RemoveDeadCode`) in steps.
`flip_a_coin` and `throw_dice` are nondeterministic; the seed only matters by
whether it is -1. An invariant is a set of constraint occurrences with a home
block, a sort, and a fate (translatable, no common integer type, a number that does
not fit).

*Abstraction.* Of the constant of a condition only its form is kept; what the forms
mean is `ConstraintTransform`. The analysis' answers are constants of the model:
clam_analysis is computed once and only read.

*Refinement.* `ImplementsSuite` instantiates `MetamorphicSuite` with the program
under test (the module without assumptions, from run 1 on) and the files. The
abstract specification allows two steps, fixing the program and publishing one
more variant whose assumptions are admissible for its mode.

### 2.2 ConstraintTransform

One constraint `e <= c`, `e = c` or `e # c` over a type with largest value `max`.
`Convert` covers the outcomes that keep the constant, `StartShift`, `Redraw`,
`Shift` the random shift. `Room` is `max_a` as compiled: the subtraction in
`int64_t` may overflow, which is undefined, so both the wrapped and the unwrapped
comparison are allowed; `ToInt` is the conversion to `int`. The widths are the
constants `IntMax` and `LongMax`, the draws of the normal distribution any set.

### 2.3 AssertionCompare, AssertionCount

A .crabir file is the dictionary `compare_assertions` reads from it, or for the
count the sequence of its declarations and results. `AssertionCompare` takes one
step per pair of files, with the code's early returns as actions of their own
(`Reject`, `CompareOnly`). `AssertionCount` takes one step per line.

### 2.4 DeltaDebug

`fails[p]` is the set of line sets for which clam gives the number of warnings of
the whole program: arbitrary, except that the whole program is in it.
`addSpecificAssumptions` is modelled with the skip its loop makes after each line
it removes, so a test may keep assumptions nobody asked for. `Walk` is that loop and
`WithAssumptions` that of `find_assumptions`, both as recursive functions, which the
provers can unfold. `assumptions` is the list of the class, which the next debugger
extends. `debug` and the removal of
empty results in `minimize_all` do not touch this state.

### 2.5 MountPipe

One core's directory on the mount. `ChooseName` is the listing, `MakeFolder` the
mkdir; `Consume`, the other project, may remove any folder between them. `Count`
and `GoOn`/`Sleep` are the two halves of the waiting loop: the count is stale when
it is used. A listing with a number past the end of `nums` raises an IndexError:
the process is `dead` and no property claims that it is not.

### 2.6 Campaign

The first process scans `bugs/`, forks, and is stopped by ^C or SIGTERM, which then
reaches the cores one by one, each between two shell commands (`Die`). A core's
`Pick` to `VariantFails` are its main loop and `run`, with the outcomes of clam
nondeterministic; `ListBugFolders` to `CopyTransformed` are `create_new_bug_folder`
and `add_files`, one step per shell command that matters. `stored`, `earlier` and
`shared` are history. A file that was not found too large and is not known to have
a bug is picked in any order within a round.

### 2.7 ScalarTranslation, MemTranslation, CfgTranslation, TranslationRun

`Bitcode` and `CrabIR` say how the two languages run, as far as the translation
relies on it: numbers of a few bits that wrap in one, integers in the other. A
function is a record of instructions, blocks and memory. `CfgTranslation` is the
builder as a state machine: one step per visited instruction (`VisitInst` and its
parts), then one per edge with its guard and the values that meet on it, the exit
block, the regions initialised in the entry. The literal cache, the instructions
left to their users and the pending calls of the verifier are state, as the order
of the visits decides what they hold; the uses of a value may be listed in either
order (`rev`), since LLVM fixes none. Each `visit...` of the source is an operator
that gives the statements it emits; the parameters of the builder are `par`.
`TranslationRun` then runs the bitcode from every input, a block and an edge at a
time, and follows the set of CrabIR configurations that agree with it on every
variable the CrabIR assigns. `MetAt` names the places where code and bitcode are
known to part (3.2); a property claims nothing of an execution that met one, and
everything of the others.

### 2.8 RegionTypes, RegionAbstraction, CallTranslation

The graph of sea-dsa is given (`Heaps`): nodes with typed fields, the nodes of
each function, and for each call the simulation of callee cells by caller cells.
`NumberField` is one turn of the loops of `initialize`, in their order;
`CompareCalls` compares a function with all its calls and drops what they disagree
on. `Declare` and `Build` are the declaration of each function and the
translation of its body with its calls, over the lists the abstraction gives; a
region that is first asked for there is numbered there. `named` is history: every
region that getRegion has given. `RegionsStable` says that getRegion would give each
of them again, which is what the copies kept in the lists rely on. An error the code
ends with is `stopped`. The loops that number regions are recursive functions and
folds over sequences, so that the provers can follow them.

### 2.9 PathAnalysis, ClamAnalysis, ClamQueries

Crab's domains are two finite ones: sets of stores (relational) and boxes. Its
fixpoint is the least one. A client opens an analysis, runs it any number of
times, under assumptions or none, clears it and asks in between. `results` holds,
per object, the maps of `IntraClamImpl`; an invariant is kept as the domain and
the assumptions it came from. Crab's iteration is `Rounds`, a recursive function
over the number of the round that takes all analyses at once; `FixpointAssumption`
says that it has ended after `MaxRounds` of them, as Crab does, and TLC evaluates it.

Two things are history. `under` holds, per object, the analyses since it was
cleared. `of`, in an answer and in the cache, is the invariant that the answer was
found in: nothing the code does depends on it, and it lets `AnswersSound` say which
executions a cached answer is about after other analyses or a `clear()`. The
reference of the properties is the relational fixpoint, which is exact here.
`PathAnalysis` is `solve` with both phases of layered solving, the two slices and the
greedy deletion.

## 3. Runs

| run | instance | shows |
|---|---|---|
| `pipeline` | 7 blocks, 8 constraints, 2 variants, 9 option settings; 26 000 states | all safety properties of 2.1, the refinement, and that every file is written |
| `transform` | 4-bit int, 6-bit int64; types of 1, 3, 5, 6 bits; constants past both ends | `Sound`, `ConstantFits`, `ShiftEnds` |
| `verdict` | all pairs of listings of up to 2 files with 2 assertions, all files of up to 5 lines and 3 functions; 97 000 states | `CodeTellsOutcomes`; code 0 only where no assertion compared regressed (`NoRegressionPasses`); no result counted twice and none of a closed function lost (`ClosedFunctionsCounted`) |
| `delta` | two bug folders, 4 and 3 assumptions, 100s of oracles; 5 000 states | 1-minimality, the file written, termination |
| `mount` | limit 2, 3 variants; 1 300 states | free names, bounds, progress |
| `campaign` | 2 cores, 3 files (one too large), 2 sessions; 1.4 million states up to symmetry | `ForgottenOnlyIfShared`, `FewUnfinished` |
| `campaign_one_core` | 1 core, 2 variants, 3 sessions; 13 000 states | `StoredNotRetested`, `OneProgramPerFolder`, `FilesTakeTurns` |
| `translate` | 21 families of functions (199 scalar functions, 25 with memory), 4 and 8 settings of the builder; numbers of 2 bits; up to 6 blocks; 38 000 states | `NoExecutionLost`, `NoFailureMissed`, `NoFalseAlarm` |
| `heap` | all layouts of a node with types at 0, 2, 4; a callee with three nodes that meet in two of its caller, of 7 kinds; 139 000 states | `IdsUnique`, `RegionsStable`, `TypedDisjoint`, `OrderKept`, `ModifiedPassedBack`, `NoAbort` |
| `analysis` | 3 functions with a join, a loop, a dead block, too many live variables; 2 assumptions, 9 paths; 21 000 states | `AnswersSound`, `EdgesSound`, `VerdictSound`, `PathExplained` |
| `translate_branch` | the functions of `translate` | **violated**: the guard of an edge reads a Boolean nothing assigns |
| `heap_order` | the programs of `heap` | **violated**: a call and its declaration list regions in different orders |

**Why these bounds.** *pipeline*: what a run leaves behind can only disturb the
next one, so two variants after initial.bc show every pair of consecutive modes
(stronger, then weaker); the function has a block of each kind and a constraint of
each sort and fate. *transform*: properties compare `c`, `max` and the two wider
maxima, and the four types lie on all sides of them. *compare*: the pass over the
files keeps a code only, two files already combine any two outcomes, and the
theorem covers any number. *count*: five lines hold two closed functions and an
open one with results between. *delta*: four assumptions give granularities 2 and
4, a list that shrinks in either, and both ways out of the loop; the second folder
starts with the first one's list. *mount*: a batch may exceed the limit, and
folders below a high one may be consumed. *campaign*: two cores suffice for a
shared number, one restart to read what the first session left, one variant since
a core stores a second file in the same round. Sessions are bounded by
`MaxSessions`, the lines of a .crabir file by `MaxLines`, files of a listing by
`MaxFiles`, the blocks an execution runs by
`MaxBlocks`, cached answers by `MaxCached`, and analyses by `MaxChecks` checks.
*translate*: in two bits every pair of signs and both overflows occur, and three
of them would only repeat them; six blocks go round each loop twice, so a value of
the turn before can be read. *heap*: three nodes of the callee in two of the
caller make any two of them meet or not, with every combination of read, modified
and new; a node of six bytes has fields that touch, overlap and lie apart.
*analysis*: five checks allow the same function, and the module, to be analysed twice
with different assumptions; the paths meet every way `solve` can end, an `assert(false)`
among them; two cached answers, one older than the other.

**Fairness.** *Pipeline*, *AssertionCompare*, *AssertionCount*, *DeltaDebug*: one
sequential process, `WF_vars(Next)`. *ConstraintTransform*: also
`SF_vars(LuckyRedraw)`: the normal distribution gives every small positive number
with positive probability, so a loop that some number would end meets it (an
abstraction of "with probability 1"); it says nothing when no number would.
*MountPipe*: the producer is scheduled, and the consumer removes a folder now and
then, as the comment at create_files.py:291 expects. *Campaign*: each process is
scheduled and SIGTERM is delivered; nothing makes the campaign stop or restart.

**Mutants.** The `Mut...` definitions are plausible wrong versions of the operator
they stand before; `PROJECT.json` names the property each one breaks.

The analyses, the heap abstraction and the translation are called by a client that
may stop at any time: their specifications state no fairness and no liveness.

`verdict` merges two scripts that share no data: a behaviour runs one of them.

### 3.1 Where code and comments part

* `execEdge` decides whether a condition is read as a Boolean by "the same
  condition" as `visitCmpInst` (CfgBuilder.cc 4069-4071), but that one also leaves a
  comparison to calls of the verifier (`translate_branch`).
* The regions a callee only reads are taken, at a call, out of the image of what it
  accesses (`stable_difference`); the result is not the image of what the callee
  reads (`heap_order`). The call then passes two regions in each other's place.
* `clear()` of the two analyses of modules leaves the query cache as it is, though it
  is to "clear all the internal state" (Clam.hh 128-130, 199-201); ranges and tags
  asked for before it are told again after it. `AnswersSound` says what they still
  mean: they hold of the executions the former analysis allowed, which need not be
  those the next one allows.
* `random_normal(0, max_a)` excludes both ends, so `max_a = 1` never returns
  although the comment at Optimizer.cc 352-353 allows it. clam then runs until its
  CPU limit and the file counts as timed out. `ShiftEnds` claims the end only where
  some number lies strictly between.
* `compare_assertions` looks for missing assertions in weaker mode only, against
  process_clam.py 145-146, so a stronger variant that lost an assertion gets code 0
  (line 153). `NoRegressionPasses` claims one direction only: with code 0, no assertion
  that is on both sides and passed has become a warning.
* `processLog` never stores the last function of a file, against read_results.py 9-10.
  `ClosedFunctionsCounted` claims bounds only, which a fixed program would keep too: no
  total is more than the results in the file, and none is less than those of the functions
  that a later declaration closes, if their names differ.
* Two cores may share a bug folder; the next session then tests a stored program
  again, against clam_caller.py 302. `ForgottenOnlyIfShared` says this is the only
  way.

Without a run: `check_assertions` adds codes up and may
return 4 and more where its comment stops at 3; its comparison of function names
compares two `None`s; ddmin never tests the program without assumptions, so the
check that wants none (`process_bugs.py` 77-89, called nowhere) would not notice;
`create_new_mount_folder` can index past its list; run 0 and run 1 write the same
`log.txt`; two variants of one second may have neighbouring seeds, and nothing
keeps them distinct.

### 3.2 Where the analyses leave the program

The properties of `translate` name these, in `MetAt`, and hold of every execution
that meets none. Lines are of CfgBuilder.cc unless another file is given.

| name | the code |
|---|---|
| mixed signs | 159-251: an unsigned comparison lowered to signed ones is reversed when the signs differ |
| negative condition | 1766-1811: assume and assert take `v >= 1` for true |
| assume_not of select | 999-1024: the optimisation for assumptions through a select takes `assume_not` for `assume` |
| unassigned | 152-157: without `include_useless_havoc` nothing forgets a value of the turn before; also 1910-1911, comparisons of Booleans with other predicates |
| self-loop | 4278-4282: the assignments come before the guard, which reads the new values |
| switch | 4258-4275: the assignments for all successors stand in the block of the switch |
| one target | 4042: of a branch with both targets the same, both conditions are negated |
| overflow | 3328-3398: an option makes the overflow flag false |
| stale literal | CfgBuilderLit.cc 103-107: a constant keeps the sign it was first read with |
| constant expression | 1074-1079: an assertion of a comparison that has no linear constraint is dropped |
| shared array | 1268-1280: two objects of one region share cell 0 |
| external call | 3290-3291: not havoced |
| memset | 2441-2444: contents are left |
| dropped store | 2891-2895, 2924-2929, 3024-3028: a constant expression is not stored, nor, outside singleton memory, a value that is not translated or a constant of another width |
| unresized scalar | 2934-2955: the scalar of a singleton is assigned whatever its width; a number that does not fit is not truncated |
| strong update | 884-892, 2824-2829, 3764: first stores to globals and in the entry of main |
| freed after seen | UafCheck.cc 35-50: a base checked once in a block is not checked again |
| unchecked bounds | BndCheck.cc 37-51, 99-105, 233-255 |

A value that is not translated ends the program when it is stored to singleton memory
(2919-2924, `StoreError`).

These are the failing cases of the hazards at those lines: the properties catch a
translation that fails anywhere else, and not these. The exclusions below are of the
same kind.

`analysis` excludes, in the definitions that say so: intervals as wide as the type
(`TooWide`: ClamQueryCache.cc 42-50), tags a block adds before the instruction
(`Excluded`: 193-199, which reads the entry of the block), the core of a path
that writes a variable twice (`Rewritten`: path_analyzer.cc 445-460), a path that is
infeasible first past a statement that reads nothing, such as `assert(false)`, for which
`solve` answers TRUE (`Unexplained`: path_analyzer.cc 163-168, 306-312), and one on which
the Boolean phase of layered solving passes over the havoc of a Boolean and goes on with
its old value (`StaleBoolean`: path_analyzer.cc 54-60). The run has a path of each of the
last two kinds. Seen in
Clam.cc: assumptions on a block of one function end the analysis of a module at
the next (359-362, 654-659); the inter-procedural analysis ignores its assumptions
(859-860) and the domain it chose for a large program (906, 921); a large function
leaves the interval domain to all that follow (274).

`heap` excludes: a region read in the callee and modified in the caller
(`OrderKept`), pointers past the bytes sea-dsa knows of (`Inside`), fields behind the
point where the search for overlaps ends early, at the first whose accesses differ in size
(`TypedDisjoint`: SeaDsaToRegion.cc 114-115), regions dropped
since one call disagrees (`ModifiedPassedBack`), and the calls of `Awkward`, for
which `doCallSite` may end the program.

`mount` starts with an empty directory, while create_files.py 317-324 keeps the folders it
finds there.

## 4. Proofs

Proved with TLAPS for all values of the constants that satisfy the named
assumptions of the modules. Every theorem has the form `Spec => []P` (one is a
refinement); unless said otherwise `P` is not inductive, and an invariant that
implies it is, with one lemma per action or group of actions for its steps.

### 4.1 PipelineProofs

`TypeOK`, `OwnAssumptionsOnly` and `SameProgram`. `SameProgram` needs that
*whatever is in the module besides assumptions and what computes them* has not
changed since run 0, and that dead-code removal done once is done for good; so the
invariant `IInv` relates `mod` and `succ` to the last file at every point between
two files: after the first run the program part of the module is that of every file
written, the assumptions in it are of the current run or, while the deleting
passes are still to come, of the one before; which passes are still to come is
itself part of the invariant (`passes` is in `Remaining`).

`OperandsAlive`. DeleteCrabCommand erases comparisons by name, whoever uses them.
It is safe because it always runs right after DeleteAssume: `NoAssumes` says that
no assumption is left when it is the next pass, `Closed` that every instruction set
a pass inserts carries its operands.

`FeasibleEdgesSurvive` and `LiveBlocksKeepASuccessor` both follow from `EdgesKept`,
one invariant per block. The lemma behind it, `PrunedKeeps`, is about the backward
walk over the list of infeasible edges on a branch of at most two.

`OraclesAssumedInInitial` and the refinement `ImplementsSuite` need to know what
each file assumes of each constraint. `CInv` adds to `IInv` how far the optimizer
has come (`Progress`), what the module assumes of each constraint it has expanded
(`AssumptionsNow`), what each file does (`AssumptionsWritten`), and that an oracle
is about a constraint initial.bc assumes (`Oracles`). `Reference(c)`, the form
initial.bc assumes, is defined from constants and options alone, which is why run 0
and run 1 agree on it. The refinement maps the end of run 0 to the abstract step that fixes
the program, each `Write` to a publication and every other step to a stutter.

### 4.2 TransformProofs

`Sound`, `ConstantFits` and `TypeOK`. The inductive invariant says of a running
shift that `max_a` lies in `Room`, and a lemma bounds `Room`: any accepted draw is at
most the distance of `c` from the end of its type, although the subtraction wraps
in 64 bits and the result is narrowed to an int. That is where the assumptions
`IntMax <= LongMax` and `Maxima` at most `LongMax` are used.

### 4.3 CompareProofs

`CodeTellsOutcomes` and `NoRegressionPasses`: the invariant characterises `result`
after `i` files by the set of outcomes seen; it is `CodeTellsOutcomes` with `i` for
the length of the listing.

`ClosedFunctionsCounted`, of `VerdictSpec`, the two scripts beside each other. A
line belongs to the last declaration before it (`Body`). While the file is read,
`Stored` says that each counter in `funmap` is the number of lines of its function,
and `curr` that of the lines since the last declaration, and, of functions that share a
name, at most those of them all (`AtMost`); while the functions are
added up, the totals are those of the lines whose function is no longer in `todo`
(`Added`), so their order does not matter, and never more than the lines of the file
(`Totals`). The assumption that no function is
called `NoFunction` stands for Python's `None` not being a string.

### 4.4 RegionProofs

`IdsUnique`, `RegionsStable` and `TypedDisjoint`, for every program, in `initialize`
and while functions are declared and translated, when the region of a pointer may be
asked for and numbered for the first time. A new number must be above all that were
given, so the invariant (`Naming`) says that every numbered node owns an interval of
numbers below the counter and that the intervals are disjoint; that a number
remembered as that of a global is the first of its node (`Singles`); and that a region
handed out is the one getRegion gives today (`HandedOut`). A region inside its node
then has the number of its byte in its node's interval, which gives the first two
properties. The steps of `Declare` and `Build` ask for regions in a fold over a list
of requests; one lemma, proved along the positions of the list, says that every
request keeps `Naming`, whatever the list holds. `TypedDisjoint` is about the walk of
`isOverlappingCell` over the sorted offsets: it meets every field that touches the
region, up to the first whose accesses differ in size.

The assumptions (`HeapsAssumption`, `PointersAssumption`) say of a program that sizes
and offsets are naturals, that lists are lists, and that the pointers a function has
point into its nodes.

### 4.5 AnalysisProofs

`EdgesSound`, `VerdictSound` and `AnswersSound`, for every program, any assumptions a
client makes, every width of integers, and every order of analyses, clears and
queries. In three parts:

* *The abstract semantics.* What a statement makes of some stores in the exact domain
  is in what any domain makes of more stores (`PostSound`); so is what a block makes
  (`RunSound`), and what is known after as many rounds (`RoundCovers`). Hence
  the invariants of any domain cover the exact ones (`FixpointCovers`). The folds
  over statements are unfolded through `RunTrace`, the sequence of values they pass
  through.
* *The results.* They pile up over analyses in different domains and under different
  assumptions. The invariant says that they are accounted for by the analyses since the
  last `clear()`: each infeasible edge is one that some of them never left, each count
  of checks is at least that of each of them, a nonzero count of errors comes from one
  of them, and an invariant in the map is that of an analysis. With the first part,
  `EdgesSound` and `VerdictSound` follow. That the checks of a function are counted, and
  not looked at, needs finite cardinalities (`ChecksCount`). That an inter-procedural
  analysis stores the results of all functions is a fold over the module
  (`ProgramAccounted`).
* *The answers.* A range is an interval taken modulo `2^w`, and it wraps
  around when its bounds do: `RangeHolds` says that it holds the remainder of every number of
  the interval, unless the interval has `2^w` numbers or more (`TooWide`).
  An answer that is not cached is found in the invariant of its block, which the
  first part covers; `Remembered` says of a cached answer that it was such an
  answer. Nothing is said of what `clear()` or a later analysis did to the results: that
  is what the history `of` is for.

The assumptions: `DomainAssumption` and `CodeAssumption` (statements write a variable
what it can hold), `FunctionsAssumption` (a block is of one function),
`FixpointAssumption` (control stays in a function, and the iteration has ended), and
`QueriesAssumption`.

### 4.6 CampaignProofs

The campaign, for any number of cores, files and sessions:

* `FewUnfinished`, by `Accounted`: there is an injection from the folders without a
  config to the cores, each of which is off or at work on that folder. A stop keeps
  it, and a new session cannot add to it.
* `ForgottenOnlyIfShared`, by `Clean`: as long as no two calls of `add_files` used
  one number, the cores fill different folders, each with its own program only; each
  stored file has a folder nobody writes to, and every running core knows it.

Under the hypothesis `Cardinality(Cores) = 1`, which is a way the campaign can be
started and the one the run `campaign_one_core` checks, `shared` stays empty
(`Reserved`: a number chosen by the only core is still free at its mkdir). Hence
`StoredNotRetested` and `OneProgramPerFolder`, which two cores need not keep.

The mount, of an instance of `MountPipe`: `FreshName` and `NamesBounded`, for every
limit, every batch and every moment at which the other project removes a folder.
`Room` counts: the folders there are and those of the batch still to come fit into
`MAX_FILES + Variants`, because a batch starts only from a count that was at most the
limit and folders only vanish until it is used. With `ChosenIsFree`, that the first
gap is at most the number of folders (a pigeonhole argument), this bounds the names.

### 4.7 DeltaProofs

`MinimizedStillFails`, `OneMinimal` and `NothingForeign`, for every list of folders,
every file and every oracle, monotone or not. The invariant: what ddmin holds has
failed (`Failing`), and at the finest granularity every complement before `start`
has passed (`Tested`). That the *first* list fails is the part that looks at the
code line by line: `find_assumptions` finds every assumption of the file
(`WithAssumptionsHas`, an induction over its lines), so nothing is unwanted, and the
loop of `addSpecificAssumptions` then leaves the file as it is (`WalkAll`), whatever
it skips otherwise. `NothingForeign` follows from 1-minimality: leaving out a text
that is no line of the file changes nothing of what is written. `Order # <<>>` is
assumed: with no bug folder nothing runs.

### 4.8 NatSets

The library's induction theorems take an operator; `SetInduction` is induction for
a set, proved from the well-foundedness of `<`, and `Recursion` says that a function
on the naturals is defined by a value and a step. `LeastElement`,
`GreatestElement` and `FreeNumber` are what the proofs about folder numbers and
declarations rest on.

### 4.9 Only model-checked

* Liveness (`SuiteComplete`, `ShiftEnds`, `WaitingEnds`, `AllMinimized`,
  `FilesTakeTurns`): beyond the prover.
* `NoExecutionLost`, `NoFailureMissed`, `NoFalseAlarm`: `MemTranslation` uses recursive
  operators (initialisers of globals), so nothing can be proved in a module that
  reaches it.
* `PathExplained`: the deletion of statements one after another explains a path only
  where no variable is written twice or read before it is written, which is an
  assumption about SSA form that the paths of the run meet and an arbitrary path
  does not.
* `OrderKept`, `ModifiedPassedBack`, `NoAbort`: they hold of the programs of the run, and
  not of every graph that the constants allow. They match the regions of a call and its declaration
  position by position, and rely on what sea-dsa's graphs look like (which nodes can
  meet, which are global), of which the repository states no rule that could be
  assumed.

## 5. Not modelled

* The abstract domains and the fixpoint (Crab) and the graphs of sea-dsa are not in
  the repository; small stand-ins, marked external, take their place.
* In the translation: the special intrinsics of Crab, `skipAssertionIfUntypedOrCyclic`
  (deprecated), the simplification of the finished graph, floating point, and the
  checks at memcpy and memset.
* In the analysis: summaries of calls (the functions of the instance do not call
  each other), `alias`, printing, the plumbing of the LLVM passes; a null output
  file is dereferenced at Clam.cc 459-460, which is left out with it.
* A second manager in one process, which finds the static flag of 4896 set.
* Replacement of values by constants in the optimizer; the preprocessing and
  analysis inside `main` of clam.
* `clam_debugger.py` besides `minimize` and `minimize_all`; what files contain.
* Devirtualisation, the instrumentation of bitcode, lowering and preprocessing
  passes: they rewrite one instruction at a time through LLVM, or repeat what the
  property checks do. clam-pp, drivers, printing, building, logs: no state.

What would come next: the rules of sea-dsa's graphs under which calls and declarations
always agree; calls between the functions of `ClamAnalysis`; the renaming of bug
folders while a campaign stores bugs.
