------------------------------ MODULE Pipeline ------------------------------
(***************************************************************************)
(* The part of `clam --crab-opt` that turns one analysed LLVM function     *)
(* into a suite of metamorphic variants (tools/clam/clam.cc, from line     *)
(* 560 on).  A chain of legacy pass managers edits ONE module in memory:   *)
(*                                                                         *)
(*   run 0        DeleteAssume, DeleteCrabCommand, Optimizer,              *)
(*                DeleteAssume, DeleteCrabCommand      adds the assertions *)
(*   run 1        DeleteAssume, DeleteCrabCommand, Optimizer, write        *)
(*                                                     writes initial.bc   *)
(*   run 2 + i    the same passes, with a seed and a mode   writes file i  *)
(*                                                                         *)
(* Nothing is ever reloaded, so what a run leaves behind is what the next  *)
(* one starts from.  An invariant of the analysis is a constraint          *)
(* occurrence c \in Cst; coins and dice are nondeterministic choices.      *)
(***************************************************************************)
EXTENDS Integers, Sequences, FiniteSets

CONSTANTS
  Blocks,       \* basic blocks, numbered in the function's order
  Cst,          \* constraint occurrences, numbered in program order
  Home,         \* Home[c]: the block whose invariant c belongs to
  AtLoad,       \* occurrences inserted after a load; the rest go to a block entry
  Kind,         \* Kind[c]: the sort of linear constraint
  Fate,         \* Fate[c]: whether CodeExpander can translate c
  ExitBlocks,   \* blocks that end in a return
  AssertBody,   \* blocks of the body of __VERIFIER_assert
  LoopHeaders,  \* blocks that are loop headers
  Bottom,       \* blocks whose invariant is bottom
  Infeasible,   \* edges <<b, s>> the analysis found infeasible
  Successors,   \* Successors[b]: the targets of b's terminator, in order
  UserAssumes,  \* blocks where the program itself calls verifier.assume
  UserAsserts,  \* blocks where the program itself asserts
  NumOfFiles,   \* option --num-of-files
  Rand,         \* values rand() % 1000000 may take
  Options       \* the settings of the command-line options

Kinds == {"tautology", "contradiction", "inequality", "equality", "disequation"}
Fates == {"ok", "untyped", "overflow"}
Modes == {"stronger", "weaker"}
Locations == {"none", "block", "loop_header", "load_inst", "all"}
OptionType == [crabOpt: BOOLEAN, disableCrab: BOOLEAN, oneFile: BOOLEAN,
               random: BOOLEAN, stronger: BOOLEAN, oracle: BOOLEAN,
               invLoc: Locations, dce: BOOLEAN]

ASSUME BlocksAssumption == Blocks \subseteq Nat \ {0} /\ IsFiniteSet(Blocks)
ASSUME CstAssumption == Cst \subseteq Nat \ {0} /\ IsFiniteSet(Cst)
ASSUME InvariantAssumption == /\ Home \in [Cst -> Blocks]
                              /\ AtLoad \subseteq Cst
                              /\ Kind \in [Cst -> Kinds]
                              /\ Fate \in [Cst -> Fates]
ASSUME CfgAssumption == /\ Successors \in [Blocks -> Seq(Blocks)]
                        /\ \A b \in Blocks : Len(Successors[b]) <= 2
                        /\ ExitBlocks \subseteq {b \in Blocks : Successors[b] = <<>>}
                        /\ Bottom \subseteq Blocks
ASSUME OptionsAssumption == /\ NumOfFiles \in Nat
                            /\ Rand \subseteq Nat
                            /\ Options \subseteq OptionType

VARIABLES
  opts,      \* the options of this execution
  mod,       \* mod[b]: the instructions of b that matter here
  succ,      \* succ[b]: the targets of b's terminator now
  unreach,   \* blocks that end in `unreachable`, the program's own or a dead one's
  run,       \* which pass manager is running
  passes,    \* the passes it has yet to run, the current one first
  seed, mode, add,   \* the optimizer's globals Seed, Mode, AddAssertions
  pc,        \* where inside the current pass
  left,      \* Optimizer: blocks not visited yet
  pending,   \* Optimizer: constraints of the visited block not expanded yet
  dead,      \* Optimizer: blocks found dead
  toRemove,  \* DeleteCrabCommand: instructions to erase
  files      \* the bitcode files written, in order

optVars == <<left, pending, dead>>
vars == <<opts, mod, succ, unreach, run, passes, seed, mode, add, pc,
          optVars, toRemove, files>>

-----------------------------------------------------------------------------
(* Instructions.  An inserted call takes the i1 computed by an icmp, which *)
(* takes the sum computed by binary operators, unless it takes a constant. *)
(* Everything built for one call carries the call's name, constraint, form *)
(* and run, so that uses can be read off the records.                      *)

Forms == {"asis", "false", "true", "eq", "strict", "shift", "le", "ge", "const"}
Constants == {"false", "true"}
AssertNames == {"random_assert_", "stronger_assert_", "oracle_assert_"}
Names == AssertNames \cup {"crab_", "user"}

Instr == [op: {"bin", "icmp", "assume", "assert"}, name: Names,
          cst: Nat, form: Forms, run: Int]

I(op, name, c, form, k) ==
  [op |-> op, name |-> name, cst |-> c, form |-> form, run |-> k]

\* i takes the result of j as an operand
Uses(i, j) ==
  /\ i.name = j.name /\ i.cst = j.cst /\ i.form = j.form /\ i.run = j.run
  /\ \/ i.op \in {"assume", "assert"} /\ j.op = "icmp"
     \/ i.op = "icmp" /\ j.op = "bin"

\* what the program holds when main() reaches the metamorphic part
UserCode == [b \in Blocks |->
  (IF b \in UserAssumes
     THEN {I("icmp", "user", 0, "asis", -1), I("assume", "user", 0, "asis", -1)}
     ELSE {})
  \cup (IF b \in UserAsserts
     THEN {I("icmp", "user", 0, "const", -1), I("assert", "user", 0, "const", -1)}
     ELSE {})]
-----------------------------------------------------------------------------
(* The pass managers main() builds.                                        *)

MutDeletes == <<"DeleteCrabCommand", "DeleteAssume">>
Deletes == <<"DeleteAssume", "DeleteCrabCommand">>

PassesOf(k) ==
  LET d1 == Deletes[1]  d2 == Deletes[2]
  IN  IF k = 0
        THEN IF opts.disableCrab THEN <<d1, d2, d1, d2>>
                                 ELSE <<d1, d2, "Optimizer", d1, d2>>
        ELSE IF opts.disableCrab THEN <<d1, d2, "Write">>
                                 ELSE <<d1, d2, "Optimizer", "Write">>

\* AddAssertions: the run that places the assertions is the first one only
MutAddOf(k) == 1
AddOf(k) == IF k = 0 THEN 1 ELSE 0

\* ProduceOneFile returns after initial.bc
MutLastRun == IF opts.oneFile THEN 1 ELSE NumOfFiles
LastRun == IF opts.oneFile THEN 1 ELSE NumOfFiles + 1

\* the file loop: mode by position, seed from rand() plus the position
ModeOf(i) == IF i < NumOfFiles \div 2 THEN "stronger" ELSE "weaker"

Init ==
  /\ opts \in Options
  /\ mod = UserCode
  /\ succ = Successors
  /\ unreach = {b \in Blocks : Successors[b] = <<>>} \ ExitBlocks
  /\ run = 0
  /\ passes = PassesOf(0)
  /\ seed = -1 /\ mode = "weaker" /\ add = AddOf(0)
  /\ pc = IF opts.crabOpt THEN "pass" ELSE "done"
  /\ left = {} /\ pending = {} /\ dead = {}
  /\ toRemove = {}
  /\ files = <<>>

\* createOptimizerPass for the next pass manager, once the current one has run
NextRun ==
  /\ pc = "pass" /\ passes = <<>>
  /\ run < LastRun
  /\ run' = run + 1
  /\ passes' = PassesOf(run + 1)
  /\ add' = AddOf(run + 1)
  /\ IF run = 0
       THEN seed' = -1 /\ mode' = "weaker"
       ELSE \E r \in Rand : seed' = r + (run - 1) /\ mode' = ModeOf(run - 1)
  /\ UNCHANGED <<opts, mod, succ, unreach, pc, optVars, toRemove, files>>

\* ProduceOneFile, or the end of the file loop
Finish ==
  /\ pc = "pass" /\ passes = <<>>
  /\ run >= LastRun
  /\ pc' = "done"
  /\ UNCHANGED <<opts, mod, succ, unreach, run, passes, seed, mode, add,
                 optVars, toRemove, files>>

Current(pass) == pc = "pass" /\ passes # <<>> /\ Head(passes) = pass

-----------------------------------------------------------------------------
(* DeleteAssume and DeleteCrabCommand.                                     *)

MutDeleteAssume ==
  /\ Current("DeleteAssume")
  /\ mod' = [b \in Blocks |-> {i \in mod[b] : i.op # "assume" \/ i.name = "user"}]
  /\ passes' = Tail(passes)
  /\ UNCHANGED <<opts, succ, unreach, run, seed, mode, add, pc, optVars,
                 toRemove, files>>

\* every call of verifier.assume goes, whoever inserted it
DeleteAssume ==
  /\ Current("DeleteAssume")
  /\ mod' = [b \in Blocks |-> {i \in mod[b] : i.op # "assume"}]
  /\ passes' = Tail(passes)
  /\ UNCHANGED <<opts, succ, unreach, run, seed, mode, add, pc, optVars,
                 toRemove, files>>

\* the comparisons and binary operators whose name starts with "crab"
CrabCommands == {i \in UNION {mod[b] : b \in Blocks} :
                   i.op \in {"icmp", "bin"} /\ i.name = "crab_"}

CollectCrabCommands ==
  /\ Current("DeleteCrabCommand")
  /\ toRemove' = CrabCommands
  /\ pc' = "erase"
  /\ UNCHANGED <<opts, mod, succ, unreach, run, passes, seed, mode, add,
                 optVars, files>>

\* i was collected before j: program order, operands before their users
Precedes(i, j) == \/ i.cst < j.cst
                  \/ i.cst = j.cst /\ i.op = "bin" /\ j.op = "icmp"

\* to_remove is popped from its back: users are erased before their operands
EraseCrabCommand ==
  /\ pc = "erase" /\ toRemove # {}
  /\ \E i \in toRemove :
       /\ \A j \in toRemove : ~ Precedes(i, j)
       /\ mod' = [b \in Blocks |-> mod[b] \ {i}]
       /\ toRemove' = toRemove \ {i}
  /\ UNCHANGED <<opts, succ, unreach, run, passes, seed, mode, add, pc,
                 optVars, files>>

EndErase ==
  /\ pc = "erase" /\ toRemove = {}
  /\ pc' = "pass"
  /\ passes' = Tail(passes)
  /\ UNCHANGED <<opts, mod, succ, unreach, run, seed, mode, add, optVars,
                 toRemove, files>>

-----------------------------------------------------------------------------
(* CodeExpander: what genCode may return for c, as the form of the assumed *)
(* condition; "none" inserts nothing, "dropped" leaves only the sum that   *)
(* was built before a number was found not to fit the type.                *)

Fit(c, f) == IF Fate[c] = "overflow" THEN "dropped" ELSE f

Strengthened(c) == {"false"} \cup
  IF Kind[c] = "inequality" THEN {Fit(c, f) : f \in {"eq", "strict", "shift"}} ELSE {}

Weakened(c) == {"true"} \cup
  IF Kind[c] = "inequality" THEN {Fit(c, "shift")}
  ELSE IF Kind[c] = "equality" THEN {Fit(c, f) : f \in {"le", "ge"}}
  ELSE {}

MutTransformed(c) == IF mode = "weaker" THEN Strengthened(c) ELSE Weakened(c)
Transformed(c) == IF mode = "stronger" THEN Strengthened(c) ELSE Weakened(c)

\* seed -1 switches the transformations off
MutTransforms == TRUE
Transforms == seed # -1

GenCode(c) ==
  IF Kind[c] = "tautology" THEN {"none"}
  ELSE IF Kind[c] = "contradiction" THEN {"false"}
  ELSE IF Fate[c] = "untyped" THEN {"none"}
  ELSE {Fit(c, "asis")} \cup IF Transforms THEN Transformed(c) ELSE {}

\* the call op(f) for c and the instructions its argument is computed by
Call(op, name, c, f) ==
  {I(op, name, c, f, run)}
  \cup (IF f \in Constants THEN {} ELSE {I("icmp", name, c, f, run)})
  \cup (IF f \in Constants \cup {"const"} THEN {} ELSE {I("bin", name, c, f, run)})

MutAssumed(c, f) ==
  IF f = "none" THEN {}
  ELSE IF f = "dropped" THEN {I("bin", "crab_", c, f, run)}
  ELSE Call("assume", "crab_", c, f)
Assumed(c, f) ==
  IF f = "none" THEN {}
  ELSE IF f = "dropped" THEN {I("bin", "crab_", c, "asis", run)}
  ELSE Call("assume", "crab_", c, f)

\* the assertions that may follow the assumption of c
RandomAssert(c) ==
  IF opts.random /\ Kind[c] # "contradiction"
    THEN {{}, Call("assert", "random_assert_", c, "const")} ELSE {{}}

StrongerAssert(c) == {{}} \cup
  IF opts.stronger /\ Kind[c] = "inequality"
    THEN {Call("assert", "stronger_assert_", c, f) : f \in {"eq", "strict", "shift"}}
    ELSE {}

OracleAssert(c) ==
  IF ~ opts.oracle THEN {}
  ELSE Call("assert", "oracle_assert_", c,
            IF Kind[c] = "contradiction" THEN "false" ELSE "asis")

Asserted(c, f) ==
  IF add = 0 \/ f \in {"none", "dropped"} THEN {{}}
  ELSE {r \cup s \cup OracleAssert(c) : r \in RandomAssert(c), s \in StrongerAssert(c)}

-----------------------------------------------------------------------------
(* Optimizer::runOnModule on the function under test.                      *)

NothingToDo == opts.invLoc = "none" /\ ~ opts.dce

StartOptimizer ==
  /\ Current("Optimizer")
  /\ IF NothingToDo
       THEN passes' = Tail(passes) /\ UNCHANGED <<pc, left>>
       ELSE pc' = "blocks" /\ left' = Blocks /\ UNCHANGED passes
  /\ UNCHANGED <<opts, mod, succ, unreach, run, seed, mode, add, pending, dead,
                 toRemove, files>>

\* x comes first in S, in the function's order
IsFirst(x, S) == x \in S /\ \A y \in S : x <= y

\* the constraints the loop over F's blocks expands in block b
AtEntry(b) == \/ opts.invLoc \in {"block", "all"}
              \/ opts.invLoc = "loop_header" /\ b \in LoopHeaders

Target(b) ==
  {c \in Cst : /\ Home[c] = b /\ b \notin AssertBody
               /\ IF c \in AtLoad THEN opts.invLoc \in {"load_inst", "all"}
                                   ELSE AtEntry(b) /\ b \notin ExitBlocks}

VisitBlock ==
  /\ pc = "blocks" /\ pending = {} /\ left # {}
  /\ \E b \in left :
        /\ IsFirst(b, left)
        /\ left' = left \ {b}
        /\ IF b \in unreach \/ (opts.dce /\ b \in Bottom)
             THEN pending' = {}
             ELSE pending' = Target(b)
        /\ dead' = IF opts.dce /\ b \in Bottom \ unreach THEN dead \cup {b} ELSE dead
  /\ UNCHANGED <<opts, mod, succ, unreach, run, passes, seed, mode, add, pc,
                 toRemove, files>>

ExpandConstraint ==
  /\ pc = "blocks" /\ pending # {}
  /\ \E c \in pending :
        /\ IsFirst(c, pending)
        /\ pending' = pending \ {c}
        /\ \E f \in GenCode(c) : \E A \in Asserted(c, f) :
             mod' = [mod EXCEPT ![Home[c]] = @ \cup Assumed(c, f) \cup A]
  /\ UNCHANGED <<opts, succ, unreach, run, passes, seed, mode, add, pc, left,
                 dead, toRemove, files>>

MutPruned(b) == SelectSeq(succ[b], LAMBDA s : <<b, s>> \notin Infeasible)

MutPrunedOrder(b) ==
  LET s == succ[b]
  IN  IF Len(s) < 2 \/ b \in unreach THEN s
      ELSE IF <<b, s[1]>> \in Infeasible THEN <<s[1]>> ELSE s

\* removeDeadEdge on b's dead edges, last found first: a conditional branch
\* loses a dead target, an unconditional one keeps it
Pruned(b) ==
  LET s == succ[b]
      DeadEdge(n) == <<b, s[n]>> \in Infeasible
  IN  IF Len(s) < 2 \/ s[1] = s[2] \/ b \in unreach THEN s
      ELSE IF DeadEdge(2) THEN <<s[1]>>
      ELSE IF DeadEdge(1) THEN <<s[2]>>
      ELSE s

RemoveDeadCode ==
  /\ pc = "blocks" /\ left = {} /\ pending = {}
  /\ succ' = [b \in Blocks |-> IF b \in dead THEN <<>>
                              ELSE IF opts.dce THEN Pruned(b) ELSE succ[b]]
  /\ mod' = [b \in Blocks |-> IF b \in dead THEN {} ELSE mod[b]]
  /\ unreach' = unreach \cup dead
  /\ dead' = {}
  /\ pc' = "pass"
  /\ passes' = Tail(passes)
  /\ UNCHANGED <<opts, run, seed, mode, add, left, pending, toRemove, files>>

\* createBitcodeWriterPass
Write ==
  /\ Current("Write")
  /\ files' = Append(files, [mode |-> mode, seed |-> seed, body |-> mod, succ |-> succ])
  /\ passes' = Tail(passes)
  /\ UNCHANGED <<opts, mod, succ, unreach, run, seed, mode, add, pc, optVars,
                 toRemove>>

Stopped == pc = "done" /\ UNCHANGED vars

Next == \/ NextRun \/ Finish
        \/ DeleteAssume
        \/ CollectCrabCommands \/ EraseCrabCommand \/ EndErase
        \/ StartOptimizer \/ VisitBlock \/ ExpandConstraint \/ RemoveDeadCode
        \/ Write
        \/ Stopped

\* clam is one sequential process: while it can take a step it does
Spec == Init /\ [][Next]_vars /\ WF_vars(Next)
-----------------------------------------------------------------------------
(* Correctness.                                                            *)

FileType == [mode: Modes, seed: Int, body: [Blocks -> SUBSET Instr],
             succ: [Blocks -> Seq(Blocks)]]
PassNames == {"DeleteAssume", "DeleteCrabCommand", "Optimizer", "Write"}

\* Every variable has the type the code gives it.
TypeOK ==
  /\ opts \in OptionType
  /\ mod \in [Blocks -> SUBSET Instr]
  /\ succ \in [Blocks -> Seq(Blocks)]
  /\ unreach \subseteq Blocks /\ left \subseteq Blocks /\ dead \subseteq Blocks
  /\ pending \subseteq Cst
  /\ run \in Nat
  /\ passes \in Seq(PassNames)
  /\ seed \in Int /\ mode \in Modes /\ add \in {0, 1}
  /\ pc \in {"pass", "erase", "blocks", "done"}
  /\ toRemove \subseteq Instr
  /\ files \in Seq(FileType)

\* No pass erases an instruction that another one still uses: in every
\* intermediate state the operand of each call and of each comparison the
\* optimizer built is there (eraseFromParent demands that no use remains).
OperandsAlive ==
  \A b \in Blocks : \A i \in mod[b] :
    /\ i.op \in {"assume", "assert"} /\ i.form \notin Constants
         => \E j \in mod[b] : j.op = "icmp" /\ Uses(i, j)
    /\ i.op = "icmp" /\ i.form # "const" /\ i.name # "user"
         => \E j \in mod[b] : j.op = "bin" /\ Uses(i, j)

\* A written file holds the assumptions of its own run only: none of the
\* program's own, none of the run that placed the assertions, none of the
\* file written before, although all runs edit the same module.
OwnAssumptionsOnly ==
  \A k \in DOMAIN files : \A b \in Blocks : \A i \in files[k].body[b] :
    i.op = "assume" \/ i.name = "crab_" => i.run = k

\* a file without its assumptions and what computes them
Program(body) == [b \in Blocks |->
                    {i \in body[b] : i.op # "assume" /\ i.name # "crab_"}]

\* Every file is the same program with the same assertions as initial.bc, so
\* that a difference in what the analyzer proves of them comes from the
\* assumptions alone.
SameProgram ==
  \A k \in DOMAIN files : /\ Program(files[k].body) = Program(files[1].body)
                          /\ files[k].succ = files[1].succ

\* Dead-code removal is driven by the invariants but never cuts an edge the
\* analysis left feasible out of a block it left alive.
FeasibleEdgesSurvive ==
  \A b \in Blocks \ unreach : \A n \in 1..Len(Successors[b]) :
    <<b, Successors[b][n]>> \notin Infeasible
      => \E m \in 1..Len(succ[b]) : succ[b][m] = Successors[b][n]

\* A block whose two edges are both infeasible keeps one: only returns and
\* unreachable blocks have no successor.
LiveBlocksKeepASuccessor ==
  \A b \in Blocks : succ[b] = <<>> => b \in ExitBlocks \cup unreach

\* the forms under which c is assumed in file k
AssumedForms(k, c) ==
  {i.form : i \in {j \in UNION {files[k].body[b] : b \in Blocks} :
                     j.op = "assume" /\ j.cst = c}}

\* The invariants asserted as oracles are all among those initial.bc assumes
\* unchanged, so that no oracle can fail there for want of its assumption.
OraclesAssumedInInitial ==
  \A k \in DOMAIN files : \A b \in Blocks : \A i \in files[k].body[b] :
    i.op = "assert" /\ i.name = "oracle_assert_"
      => AssumedForms(1, i.cst) = {i.form}

\* The pipeline implements MetamorphicSuite: the program under test is what
\* run 0 leaves once its assumptions are gone.
NoProgram == <<>>

Suite == INSTANCE MetamorphicSuite WITH
  program <- IF run = 0 THEN NoProgram ELSE <<Program(mod)>>,
  suite <- [k \in DOMAIN files |->
              [mode |-> files[k].mode, program |-> <<Program(files[k].body)>>,
               assumed |-> [c \in Cst |-> AssumedForms(k, c)]]]

ImplementsSuite == Suite!Spec

\* Every pass ends and every file asked for is written, unless --produce-only-one
\* stopped after initial.bc.
SuiteComplete ==
  <>(pc = "done" /\ Len(files) = IF ~ opts.crabOpt THEN 0
                                 ELSE IF opts.oneFile THEN 1 ELSE NumOfFiles + 1)
=============================================================================
