--------------------------- MODULE PipelineProofs ---------------------------
(***************************************************************************)
(* Theorems about Pipeline, for every function, every set of constraints,  *)
(* every command line and every number of files: types; whose assumptions  *)
(* a file holds; that all files hold one program; what the passes do to    *)
(* operands, edges and assumptions; and that the files written are a suite *)
(* as MetamorphicSuite specifies it.                                       *)
(***************************************************************************)
EXTENDS Pipeline, SequenceTheorems, TLAPS

-----------------------------------------------------------------------------
(* The inductive invariant.                                                *)

DA == "DeleteAssume"
DC == "DeleteCrabCommand"
OP == "Optimizer"
WR == "Write"

\* what may be left of the current pass manager
Remaining ==
  IF run = 0
    THEN IF opts.disableCrab
           THEN {<<DA, DC, DA, DC>>, <<DC, DA, DC>>, <<DA, DC>>, <<DC>>, <<>>}
           ELSE {<<DA, DC, OP, DA, DC>>, <<DC, OP, DA, DC>>, <<OP, DA, DC>>,
                 <<DA, DC>>, <<DC>>, <<>>}
    ELSE IF opts.disableCrab
           THEN {<<DA, DC, WR>>, <<DC, WR>>, <<WR>>, <<>>}
           ELSE {<<DA, DC, OP, WR>>, <<DC, OP, WR>>, <<OP, WR>>, <<WR>>, <<>>}

Control ==
  /\ passes \in Remaining
  /\ add = AddOf(run)
  /\ pc = "erase" => passes # <<>> /\ Head(passes) = DC
  /\ pc = "blocks" => passes # <<>> /\ Head(passes) = OP
  /\ pc # "blocks" => dead = {}

\* what the current run has cleaned up so far
AssumesOwn ==
  run >= 1 /\ (passes = <<>> \/ Head(passes) # DA)
    => \A b \in Blocks : \A i \in mod[b] : i.op = "assume" => i.run = run

CrabOwn ==
  /\ \A b \in Blocks : \A i \in mod[b] : i.name = "crab_" => i.op # "assert"
  /\ pc = "erase" => CrabCommands \subseteq toRemove
  /\ pc = "erase" => \A i \in toRemove : i.name = "crab_"
  /\ run >= 1 /\ (passes = <<>> \/ Head(passes) \notin {DA, DC})
       => \A b \in Blocks : \A i \in mod[b] :
            i.name = "crab_" /\ i.op # "assume" => i.run = run

\* one file per run from run 1 on
FilesWritten ==
  Len(files) = IF run = 0 THEN 0 ELSE IF passes = <<>> THEN run ELSE run - 1

\* once the optimizer has run, it finds no more dead code
NoDeadCodeLeft == /\ Bottom \subseteq unreach
                  /\ \A b \in Blocks : Pruned(b) = succ[b]

OptimizerDone == run >= 1 \/ (run = 0 /\ passes \in {<<DA, DC>>, <<DC>>, <<>>})

DeadCode ==
  /\ opts.dce /\ ~ opts.disableCrab /\ OptimizerDone => NoDeadCodeLeft
  /\ opts.dce /\ pc = "blocks" => Bottom \subseteq unreach \cup dead \cup left
  /\ run >= 1 => dead = {}
  /\ ~ opts.dce => dead = {}

\* the program under test no longer changes
Stable ==
  run >= 1 => \A k \in DOMAIN files : /\ Program(files[k].body) = Program(mod)
                                     /\ files[k].succ = succ

IInv == /\ TypeOK
        /\ Control
        /\ AssumesOwn
        /\ CrabOwn
        /\ FilesWritten
        /\ DeadCode
        /\ Stable
        /\ OwnAssumptionsOnly

-----------------------------------------------------------------------------
(* The operators the actions are built from.                               *)

LEMMA CallType ==
  ASSUME NEW op \in {"assume", "assert"}, NEW name \in Names, NEW c \in Nat,
         NEW f \in Forms, run \in Int
  PROVE  /\ Call(op, name, c, f) \subseteq Instr
         /\ \A i \in Call(op, name, c, f) :
              /\ i.name = name /\ i.run = run
              /\ i.op \in {"bin", "icmp", op}
  <1>1. CASE f \in Constants
    BY <1>1 DEF Call, Constants, I, Instr
  <1>2. CASE f = "const"
    BY <1>2 DEF Call, Constants, I, Instr
  <1>3. CASE f \notin Constants /\ f # "const"
    BY <1>3 DEF Call, Constants, I, Instr
  <1> QED BY <1>1, <1>2, <1>3

LEMMA GenCodeForms ==
  ASSUME NEW c \in Cst, NEW f \in GenCode(c)
  PROVE  f \in Forms \cup {"none", "dropped"}
  <1>1. \A g \in Forms : Fit(c, g) \in Forms \cup {"dropped"}
    BY DEF Fit
  <1>2. Strengthened(c) \subseteq Forms \cup {"dropped"}
    BY <1>1 DEF Strengthened, Forms
  <1>3. Weakened(c) \subseteq Forms \cup {"dropped"}
    <2>1. CASE Kind[c] = "inequality"
      BY <1>1, <2>1 DEF Weakened, Forms
    <2>2. CASE Kind[c] = "equality"
      BY <1>1, <2>2 DEF Weakened, Forms
    <2>3. CASE Kind[c] \notin {"inequality", "equality"}
      BY <1>1, <2>3 DEF Weakened, Forms
    <2> QED BY <2>1, <2>2, <2>3
  <1>4. CASE Kind[c] = "tautology"
    BY <1>4 DEF GenCode
  <1>5. CASE Kind[c] = "contradiction"
    BY <1>5 DEF GenCode, Forms
  <1>6. CASE Kind[c] \notin {"tautology", "contradiction"} /\ Fate[c] = "untyped"
    BY <1>6 DEF GenCode
  <1>7. CASE Kind[c] \notin {"tautology", "contradiction"} /\ Fate[c] # "untyped"
    BY <1>1, <1>2, <1>3, <1>7 DEF GenCode, Transformed, Forms
  <1> QED BY <1>4, <1>5, <1>6, <1>7

LEMMA AssumedType ==
  ASSUME NEW c \in Cst, NEW f \in Forms \cup {"none", "dropped"}, run \in Nat
  PROVE  /\ Assumed(c, f) \subseteq Instr
         /\ \A i \in Assumed(c, f) :
              i.name = "crab_" /\ i.run = run /\ i.op # "assert"
  <1>0. c \in Nat /\ "crab_" \in Names
    BY CstAssumption DEF Names
  <1>1. CASE f = "none"
    BY <1>1 DEF Assumed
  <1>2. CASE f = "dropped"
    BY <1>0, <1>2 DEF Assumed, I, Instr, Forms
  <1>3. CASE f \in Forms
    <2>1. Assumed(c, f) = Call("assume", "crab_", c, f)
      BY <1>3 DEF Assumed, Forms
    <2> QED BY <1>0, <1>3, <2>1, CallType
  <1> QED BY <1>1, <1>2, <1>3

LEMMA AssertedType ==
  ASSUME NEW c \in Cst, NEW f, NEW A \in Asserted(c, f), run \in Nat
  PROVE  /\ A \subseteq Instr
         /\ \A i \in A : i.name # "crab_" /\ i.op # "assume"
         /\ add = 0 => A = {}
  <1> DEFINE Fine(S) == /\ S \subseteq Instr
                        /\ \A i \in S : i.name # "crab_" /\ i.op # "assume"
  <1>0. c \in Nat BY CstAssumption
  <1>1. ASSUME NEW n \in AssertNames, NEW g \in Forms
        PROVE  Fine(Call("assert", n, c, g))
    <2>1. n \in Names /\ n # "crab_" BY DEF Names, AssertNames
    <2> QED BY <1>0, <2>1, CallType
  <1>2. \A r \in RandomAssert(c) : Fine(r)
    BY <1>1 DEF RandomAssert, AssertNames, Forms
  <1>3. \A s \in StrongerAssert(c) : Fine(s)
    BY <1>1 DEF StrongerAssert, AssertNames, Forms
  <1>4. Fine(OracleAssert(c))
    BY <1>1 DEF OracleAssert, AssertNames, Forms
  <1>5. CASE add = 0 \/ f \in {"none", "dropped"}
    BY <1>5 DEF Asserted
  <1>6. CASE ~ (add = 0 \/ f \in {"none", "dropped"})
    <2>1. PICK r \in RandomAssert(c), s \in StrongerAssert(c) :
            A = r \cup s \cup OracleAssert(c)
      BY <1>6 DEF Asserted
    <2> QED BY <1>2, <1>3, <1>4, <1>6, <2>1
  <1> QED BY <1>5, <1>6

LEMMA TailTypeP ==
  ASSUME NEW S, NEW s \in Seq(S), s # <<>>
  PROVE  Tail(s) \in Seq(S)
  BY HeadTailProperties

LEMMA PrunedType ==
  ASSUME NEW b \in Blocks, succ \in [Blocks -> Seq(Blocks)]
  PROVE  Pruned(b) \in Seq(Blocks)
  <1>1. succ[b] \in Seq(Blocks)
    OBVIOUS
  <1>2. CASE Len(succ[b]) < 2
    BY <1>1, <1>2 DEF Pruned
  <1>3. CASE Len(succ[b]) >= 2
    <2>1. succ[b][1] \in Blocks /\ succ[b][2] \in Blocks
      BY <1>1, <1>3, ElementOfSeq
    <2> QED BY <1>1, <1>3, <2>1 DEF Pruned
  <1> QED BY <1>1, <1>2, <1>3, LenProperties

-----------------------------------------------------------------------------
(* Type correctness.                                                       *)

LEMMA PassLists ==
  ASSUME NEW k \in Nat
  PROVE  PassesOf(k) = IF k = 0
           THEN IF opts.disableCrab THEN <<DA, DC, DA, DC>>
                                    ELSE <<DA, DC, OP, DA, DC>>
           ELSE IF opts.disableCrab THEN <<DA, DC, WR>> ELSE <<DA, DC, OP, WR>>
  BY DEF PassesOf, Deletes, DA, DC, OP, WR

LEMMA PassesOfType ==
  ASSUME NEW k \in Nat
  PROVE  PassesOf(k) \in Seq(PassNames)
  <1>1. DA \in PassNames /\ DC \in PassNames /\ OP \in PassNames /\ WR \in PassNames
    BY DEF PassNames, DA, DC, OP, WR
  <1>2. CASE k = 0 /\ opts.disableCrab
    <2>1. PassesOf(k) = <<DA, DC, DA, DC>>
      BY <1>2, PassLists
    <2>2. <<DA, DC, DA, DC>> \in Seq(PassNames)
      BY <1>1
    <2> QED BY <2>1, <2>2
  <1>3. CASE k = 0 /\ ~ opts.disableCrab
    <2>1. PassesOf(k) = <<DA, DC, OP, DA, DC>>
      BY <1>3, PassLists
    <2>2. <<DA, DC, OP, DA, DC>> \in Seq(PassNames)
      BY <1>1
    <2> QED BY <2>1, <2>2
  <1>4. CASE k # 0 /\ opts.disableCrab
    <2>1. PassesOf(k) = <<DA, DC, WR>>
      BY <1>4, PassLists
    <2>2. <<DA, DC, WR>> \in Seq(PassNames)
      BY <1>1
    <2> QED BY <2>1, <2>2
  <1>5. CASE k # 0 /\ ~ opts.disableCrab
    <2>1. PassesOf(k) = <<DA, DC, OP, WR>>
      BY <1>5, PassLists
    <2>2. <<DA, DC, OP, WR>> \in Seq(PassNames)
      BY <1>1
    <2> QED BY <2>1, <2>2
  <1> QED BY <1>2, <1>3, <1>4, <1>5

\* inside a pass, that pass is still listed
Busy == pc \in {"erase", "blocks"} => passes # <<>>

LEMMA InitType == Init => TypeOK /\ Busy
  <1> SUFFICES ASSUME Init PROVE TypeOK /\ Busy
    OBVIOUS
  <1>1. mod \in [Blocks -> SUBSET Instr]
    BY DEF Init, UserCode, I, Instr, Names, Forms
  <1>2. succ \in [Blocks -> Seq(Blocks)] /\ opts \in OptionType
    BY CfgAssumption, OptionsAssumption DEF Init
  <1>3. passes \in Seq(PassNames)
    BY PassesOfType DEF Init
  <1>4. add \in {0, 1}
    BY DEF Init, AddOf
  <1>5. files \in Seq(FileType)
    BY DEF Init
  <1> QED BY <1>1, <1>2, <1>3, <1>4, <1>5 DEF Init, TypeOK, Modes, Busy

LEMMA BusyStep == TypeOK /\ Busy /\ [Next]_vars => Busy'
  <1> SUFFICES ASSUME TypeOK, Busy, [Next]_vars PROVE Busy'
    OBVIOUS
  <1>1. CASE CollectCrabCommands
    BY <1>1 DEF CollectCrabCommands, Current, Busy
  <1>2. CASE StartOptimizer
    BY <1>2 DEF StartOptimizer, Current, Busy
  <1>3. CASE EraseCrabCommand \/ VisitBlock \/ ExpandConstraint \/ UNCHANGED vars
    BY <1>3 DEF EraseCrabCommand, VisitBlock, ExpandConstraint, vars, Busy
  <1>4. CASE NextRun \/ Finish \/ DeleteAssume \/ EndErase \/ RemoveDeadCode \/ Write
    BY <1>4 DEF NextRun, Finish, DeleteAssume, EndErase, RemoveDeadCode, Write,
                Current, Busy
  <1> QED BY <1>1, <1>2, <1>3, <1>4 DEF Next, Stopped

LEMMA TypeStep == TypeOK /\ Busy /\ [Next]_vars => TypeOK'
  <1> SUFFICES ASSUME TypeOK, Busy, [Next]_vars PROVE TypeOK'
    OBVIOUS
  <1>t. ASSUME NEW pass, Current(pass) PROVE Tail(passes) \in Seq(PassNames)
    BY <1>t, HeadTailProperties DEF Current, TypeOK
  <1>1. CASE NextRun
    <2>1. passes' \in Seq(PassNames)
      <3>1. PassesOf(run + 1) \in Seq(PassNames)
        BY PassesOfType DEF TypeOK
      <3> QED BY <1>1, <3>1 DEF NextRun
    <2>2. add' \in {0, 1}
      BY <1>1 DEF NextRun, AddOf
    <2>3. seed' \in Int /\ mode' \in Modes
      BY <1>1, OptionsAssumption DEF NextRun, TypeOK, ModeOf, Modes
    <2> QED BY <1>1, <2>1, <2>2, <2>3 DEF NextRun, TypeOK, optVars
  <1>2. CASE Finish
    BY <1>2 DEF Finish, TypeOK, optVars
  <1>3. CASE DeleteAssume
    BY <1>3, <1>t DEF DeleteAssume, TypeOK, optVars
  <1>4. CASE CollectCrabCommands
    <2>1. CrabCommands \subseteq Instr
      BY DEF CrabCommands, TypeOK
    <2> QED BY <1>4, <2>1 DEF CollectCrabCommands, TypeOK, optVars
  <1>5. CASE EraseCrabCommand
    BY <1>5 DEF EraseCrabCommand, TypeOK, optVars
  <1>6. CASE EndErase
    <2>1. Tail(passes) \in Seq(PassNames)
      BY <1>6, TailTypeP DEF EndErase, TypeOK, Busy
    <2> QED BY <1>6, <2>1 DEF EndErase, TypeOK, optVars
  <1>7. CASE StartOptimizer
    BY <1>7, <1>t DEF StartOptimizer, TypeOK
  <1>8. CASE VisitBlock
    <2>1. PICK b \in left : /\ left' = left \ {b}
                            /\ pending' = {} \/ pending' = Target(b)
                            /\ dead' = dead \/ dead' = dead \cup {b}
      BY <1>8 DEF VisitBlock
    <2>2. Target(b) \subseteq Cst
      BY DEF Target
    <2> QED BY <1>8, <2>1, <2>2 DEF VisitBlock, TypeOK
  <1>9. CASE ExpandConstraint
    <2>1. PICK c \in pending :
            /\ pending' = pending \ {c}
            /\ \E f \in GenCode(c) : \E A \in Asserted(c, f) :
                 mod' = [mod EXCEPT ![Home[c]] = @ \cup Assumed(c, f) \cup A]
      BY <1>9 DEF ExpandConstraint
    <2>0. c \in Cst
      BY DEF TypeOK
    <2>5. PICK f \in GenCode(c) : \E A \in Asserted(c, f) :
            mod' = [mod EXCEPT ![Home[c]] = @ \cup Assumed(c, f) \cup A]
      BY <2>1
    <2>2. PICK A \in Asserted(c, f) :
            mod' = [mod EXCEPT ![Home[c]] = @ \cup Assumed(c, f) \cup A]
      BY <2>5
    <2>3. Assumed(c, f) \subseteq Instr /\ A \subseteq Instr
      BY <2>0, GenCodeForms, AssumedType, AssertedType DEF TypeOK
    <2>4. mod' \in [Blocks -> SUBSET Instr]
      BY <2>2, <2>3 DEF TypeOK
    <2>6. pending' \subseteq Cst
      BY <2>1 DEF TypeOK
    <2> QED BY <1>9, <2>4, <2>6 DEF ExpandConstraint, TypeOK
  <1>10. CASE RemoveDeadCode
    <2>1. succ' \in [Blocks -> Seq(Blocks)]
      BY <1>10, PrunedType DEF RemoveDeadCode, TypeOK
    <2>2. mod' \in [Blocks -> SUBSET Instr]
      BY <1>10 DEF RemoveDeadCode, TypeOK
    <2>3. Tail(passes) \in Seq(PassNames)
      BY <1>10, TailTypeP DEF RemoveDeadCode, TypeOK, Busy
    <2> QED BY <1>10, <2>1, <2>2, <2>3 DEF RemoveDeadCode, TypeOK
  <1>11. CASE Write
    <2>1. files' \in Seq(FileType)
      <3>1. [mode |-> mode, seed |-> seed, body |-> mod, succ |-> succ] \in FileType
        BY DEF FileType, TypeOK
      <3> QED BY <1>11, <3>1, AppendProperties DEF Write, TypeOK
    <2> QED BY <1>11, <1>t, <2>1 DEF Write, TypeOK, optVars
  <1>12. CASE UNCHANGED vars
    BY <1>12 DEF vars, optVars, TypeOK
  <1> QED BY <1>1, <1>2, <1>3, <1>4, <1>5, <1>6, <1>7, <1>8, <1>9, <1>10, <1>11,
             <1>12 DEF Next, Stopped

\* Every execution keeps every variable in its type, whatever the function,
\* the constraints and the options.
THEOREM TypeCorrect == Spec => []TypeOK
  <1> QED BY InitType, BusyStep, TypeStep, PTL DEF Spec

-----------------------------------------------------------------------------
(* Control: where the pass managers are.                                   *)

\* what remains once the first pass of a list is done
LEMMA TailOfLists ==
  /\ Tail(<<DA, DC, OP, DA, DC>>) = <<DC, OP, DA, DC>>
  /\ Tail(<<DC, OP, DA, DC>>) = <<OP, DA, DC>>
  /\ Tail(<<OP, DA, DC>>) = <<DA, DC>>
  /\ Tail(<<DA, DC, DA, DC>>) = <<DC, DA, DC>>
  /\ Tail(<<DC, DA, DC>>) = <<DA, DC>>
  /\ Tail(<<DA, DC>>) = <<DC>>
  /\ Tail(<<DC>>) = <<>>
  /\ Tail(<<DA, DC, OP, WR>>) = <<DC, OP, WR>>
  /\ Tail(<<DC, OP, WR>>) = <<OP, WR>>
  /\ Tail(<<OP, WR>>) = <<WR>>
  /\ Tail(<<DA, DC, WR>>) = <<DC, WR>>
  /\ Tail(<<DC, WR>>) = <<WR>>
  /\ Tail(<<WR>>) = <<>>
  OBVIOUS

LEMMA RemainingStep ==
  ASSUME passes \in Remaining, passes # <<>>, run' = run, opts' = opts,
         passes' = Tail(passes)
  PROVE  passes' \in Remaining'
  BY TailOfLists, Zenon DEF Remaining

LEMMA ControlInit == Init => Control
  <1> SUFFICES ASSUME Init PROVE Control
    OBVIOUS
  <1>1. passes \in Remaining
    BY PassLists DEF Init, Remaining
  <1> QED BY <1>1 DEF Init, Control, AddOf

LEMMA ControlStep ==
  ASSUME TypeOK, Control, [Next]_vars
  PROVE  Control'
  <1>1. CASE NextRun
    <2>1. run + 1 \in Nat /\ run + 1 # 0 /\ run' = run + 1 /\ opts' = opts
      BY <1>1 DEF NextRun, TypeOK
    <2>2. passes' = PassesOf(run + 1)
      BY <1>1 DEF NextRun
    <2>3. passes' \in Remaining'
      BY <2>1, <2>2, PassLists DEF Remaining
    <2> QED BY <1>1, <2>1, <2>3 DEF NextRun, Control, optVars
  <1>2. CASE Finish \/ CollectCrabCommands \/ EraseCrabCommand \/ VisitBlock
             \/ ExpandConstraint \/ UNCHANGED vars
    BY <1>2 DEF Finish, CollectCrabCommands, EraseCrabCommand, VisitBlock,
                ExpandConstraint, vars, optVars, Control, Current, Remaining,
                AddOf, DA, DC, OP, WR
  <1>3. CASE DeleteAssume \/ EndErase \/ RemoveDeadCode \/ Write
    <2>1. /\ passes # <<>> /\ passes' = Tail(passes)
          /\ run' = run /\ opts' = opts /\ add' = add
          /\ pc' = "pass" /\ dead' = {}
      BY <1>3 DEF DeleteAssume, EndErase, RemoveDeadCode, Write, Current, Control,
                  optVars
    <2>2. passes' \in Remaining'
      BY <2>1, RemainingStep DEF Control
    <2> QED BY <2>1, <2>2 DEF Control, AddOf
  <1>4. CASE StartOptimizer
    <2>1. CASE NothingToDo
      <3>1. passes # <<>> /\ passes' = Tail(passes) /\ run' = run /\ opts' = opts
            /\ add' = add /\ pc' = "pass" /\ dead' = {}
        BY <1>4, <2>1 DEF StartOptimizer, Current, Control
      <3>2. passes' \in Remaining'
        BY <3>1, RemainingStep DEF Control
      <3> QED BY <3>1, <3>2 DEF Control, AddOf
    <2>2. CASE ~ NothingToDo
      BY <1>4, <2>2 DEF StartOptimizer, Current, Control, Remaining, AddOf, DA, DC,
                        OP, WR
    <2> QED BY <2>1, <2>2
  <1> QED BY <1>1, <1>2, <1>3, <1>4 DEF Next, Stopped

-----------------------------------------------------------------------------
(* Ownership: whose assumptions the module and the files hold.             *)

LEMMA ListFacts ==
  ASSUME passes \in Remaining, passes # <<>>
  PROVE  /\ Head(passes) = DA => Tail(passes) # <<>> /\ Head(Tail(passes)) = DC
         /\ run # 0 => (Tail(passes) = <<>> <=> Head(passes) = WR)
         /\ Head(passes) = WR => run # 0
         /\ Head(passes) = OP => ~ opts.disableCrab
  <1> DEFINE P(p) == /\ Head(p) = DA => Tail(p) # <<>> /\ Head(Tail(p)) = DC
                     /\ run # 0 => (Tail(p) = <<>> <=> Head(p) = WR)
                     /\ Head(p) = WR => run # 0
                     /\ Head(p) = OP => ~ opts.disableCrab
  <1>1. CASE run = 0 /\ opts.disableCrab
    <2>1. \/ passes = <<DA, DC, DA, DC>> \/ passes = <<DC, DA, DC>>
          \/ passes = <<DA, DC>> \/ passes = <<DC>>
      BY <1>1 DEF Remaining
    <2>2. P(<<DA, DC, DA, DC>>)
      BY <1>1 DEF DA, DC, OP, WR
    <2>3. P(<<DC, DA, DC>>)
      BY <1>1 DEF DA, DC, OP, WR
    <2>4. P(<<DA, DC>>)
      BY <1>1 DEF DA, DC, OP, WR
    <2>5. P(<<DC>>)
      BY <1>1 DEF DA, DC, OP, WR
    <2> HIDE DEF P
    <2>9. P(passes)
      BY <2>1, <2>2, <2>3, <2>4, <2>5
    <2> QED BY <2>9 DEF P
  <1>2. CASE run = 0 /\ ~ opts.disableCrab
    <2>1. \/ passes = <<DA, DC, OP, DA, DC>> \/ passes = <<DC, OP, DA, DC>>
          \/ passes = <<OP, DA, DC>> \/ passes = <<DA, DC>> \/ passes = <<DC>>
      BY <1>2 DEF Remaining
    <2>2. P(<<DA, DC, OP, DA, DC>>)
      BY <1>2 DEF DA, DC, OP, WR
    <2>3. P(<<DC, OP, DA, DC>>)
      BY <1>2 DEF DA, DC, OP, WR
    <2>4. P(<<OP, DA, DC>>)
      BY <1>2 DEF DA, DC, OP, WR
    <2>5. P(<<DA, DC>>)
      BY <1>2 DEF DA, DC, OP, WR
    <2>6. P(<<DC>>)
      BY <1>2 DEF DA, DC, OP, WR
    <2> HIDE DEF P
    <2>9. P(passes)
      BY <2>1, <2>2, <2>3, <2>4, <2>5, <2>6
    <2> QED BY <2>9 DEF P
  <1>3. CASE run # 0 /\ opts.disableCrab
    <2>1. \/ passes = <<DA, DC, WR>> \/ passes = <<DC, WR>> \/ passes = <<WR>>
      BY <1>3 DEF Remaining
    <2>2. P(<<DA, DC, WR>>)
      BY <1>3 DEF DA, DC, OP, WR
    <2>3. P(<<DC, WR>>)
      BY <1>3 DEF DA, DC, OP, WR
    <2>4. P(<<WR>>)
      BY <1>3 DEF DA, DC, OP, WR
    <2> HIDE DEF P
    <2>9. P(passes)
      BY <2>1, <2>2, <2>3, <2>4
    <2> QED BY <2>9 DEF P
  <1>4. CASE run # 0 /\ ~ opts.disableCrab
    <2>1. \/ passes = <<DA, DC, OP, WR>> \/ passes = <<DC, OP, WR>>
          \/ passes = <<OP, WR>> \/ passes = <<WR>>
      BY <1>4 DEF Remaining
    <2>2. P(<<DA, DC, OP, WR>>)
      BY <1>4 DEF DA, DC, OP, WR
    <2>3. P(<<DC, OP, WR>>)
      BY <1>4 DEF DA, DC, OP, WR
    <2>4. P(<<OP, WR>>)
      BY <1>4 DEF DA, DC, OP, WR
    <2>5. P(<<WR>>)
      BY <1>4 DEF DA, DC, OP, WR
    <2> HIDE DEF P
    <2>9. P(passes)
      BY <2>1, <2>2, <2>3, <2>4, <2>5
    <2> QED BY <2>9 DEF P
  <1> QED BY <1>1, <1>2, <1>3, <1>4

LEMMA FirstPass ==
  ASSUME NEW k \in Nat
  PROVE  PassesOf(k) # <<>> /\ Head(PassesOf(k)) = DA
  <1> DEFINE P(p) == p # <<>> /\ Head(p) = DA
  <1>1. P(<<DA, DC, DA, DC>>) /\ P(<<DA, DC, OP, DA, DC>>)
        /\ P(<<DA, DC, WR>>) /\ P(<<DA, DC, OP, WR>>)
    OBVIOUS
  <1>2. \/ PassesOf(k) = <<DA, DC, DA, DC>> \/ PassesOf(k) = <<DA, DC, OP, DA, DC>>
        \/ PassesOf(k) = <<DA, DC, WR>> \/ PassesOf(k) = <<DA, DC, OP, WR>>
    BY PassLists
  <1> QED BY <1>1, <1>2, Zenon

\* what the expansion of one constraint adds to the module
LEMMA ExpandAdds ==
  ASSUME TypeOK, ExpandConstraint
  PROVE  \A b \in Blocks :
           /\ mod[b] \subseteq mod'[b]
           /\ \A i \in mod'[b] \ mod[b] :
                /\ i.op = "assume" => i.run = run
                /\ i.name = "crab_" => i.run = run /\ i.op # "assert"
                /\ add = 0 => i.name = "crab_"
  <1>1. PICK c \in pending : \E f \in GenCode(c) : \E A \in Asserted(c, f) :
          mod' = [mod EXCEPT ![Home[c]] = @ \cup Assumed(c, f) \cup A]
    BY DEF ExpandConstraint
  <1>2. PICK f \in GenCode(c) : \E A \in Asserted(c, f) :
          mod' = [mod EXCEPT ![Home[c]] = @ \cup Assumed(c, f) \cup A]
    BY <1>1
  <1>3. PICK A \in Asserted(c, f) :
          mod' = [mod EXCEPT ![Home[c]] = @ \cup Assumed(c, f) \cup A]
    BY <1>2
  <1>4. \A i \in Assumed(c, f) : i.name = "crab_" /\ i.run = run /\ i.op # "assert"
    BY GenCodeForms, AssumedType DEF TypeOK
  <1>5. /\ \A i \in A : i.name # "crab_" /\ i.op # "assume"
        /\ add = 0 => A = {}
    BY AssertedType DEF TypeOK
  <1>6. \A b \in Blocks : mod[b] \subseteq mod'[b]
                          /\ mod'[b] \subseteq mod[b] \cup Assumed(c, f) \cup A
    BY <1>3 DEF TypeOK
  <1> QED BY <1>4, <1>5, <1>6

LEMMA AssumesOwnStep ==
  ASSUME TypeOK, Control, AssumesOwn, [Next]_vars
  PROVE  AssumesOwn'
  <1> USE DEF AssumesOwn
  <1>0. DC # DA /\ OP # DA /\ WR # DA
    BY DEF DA, DC, OP, WR
  <1>1. CASE NextRun
    <2>1. passes' = PassesOf(run + 1) /\ run + 1 \in Nat
      BY <1>1 DEF NextRun, TypeOK
    <2> QED BY <2>1, FirstPass
  <1>2. CASE DeleteAssume
    BY <1>2 DEF DeleteAssume
  <1>3. CASE CollectCrabCommands \/ Finish \/ VisitBlock \/ UNCHANGED vars
    BY <1>3 DEF CollectCrabCommands, Finish, VisitBlock, vars
  <1>4. CASE EraseCrabCommand
    BY <1>4 DEF EraseCrabCommand, TypeOK
  <1>5. CASE EndErase
    BY <1>0, <1>5 DEF EndErase, Control
  <1>6. CASE StartOptimizer
    BY <1>0, <1>6 DEF StartOptimizer, Current, OP
  <1>7. CASE ExpandConstraint
    <2>1. \A b \in Blocks : \A i \in mod'[b] : i \in mod[b] \/ (i.op = "assume" => i.run = run)
      BY <1>7, ExpandAdds
    <2>2. passes' = passes /\ run' = run /\ (passes = <<>> \/ Head(passes) # DA)
      BY <1>0, <1>7 DEF ExpandConstraint, Control
    <2> QED BY <2>1, <2>2
  <1>8. CASE RemoveDeadCode
    BY <1>0, <1>8 DEF RemoveDeadCode, Control
  <1>9. CASE Write
    BY <1>0, <1>9 DEF Write, Current, WR
  <1> QED BY <1>1, <1>2, <1>3, <1>4, <1>5, <1>6, <1>7, <1>8, <1>9 DEF Next, Stopped

LEMMA CrabOwnStep ==
  ASSUME TypeOK, Control, CrabOwn, [Next]_vars
  PROVE  CrabOwn'
  <1>0. DC # DA /\ OP # DA /\ WR # DA /\ OP # DC /\ WR # DC
    BY DEF DA, DC, OP, WR
  <1>1. CASE NextRun
    <2>1. passes' = PassesOf(run + 1) /\ run + 1 \in Nat
      BY <1>1 DEF NextRun, TypeOK
    <2>2. passes' # <<>> /\ Head(passes') = DA
      BY <2>1, FirstPass
    <2> QED BY <1>1, <2>2 DEF NextRun, CrabOwn
  <1>2. CASE DeleteAssume
    <2>1. passes # <<>> /\ Head(passes) = DA /\ passes' = Tail(passes) /\ pc' = "pass"
      BY <1>2 DEF DeleteAssume, Current, DA
    <2>2. passes' # <<>> /\ Head(passes') = DC
      BY <2>1, ListFacts DEF Control
    <2>3. \A b \in Blocks : mod'[b] \subseteq mod[b]
      BY <1>2 DEF DeleteAssume, TypeOK
    <2> QED BY <2>1, <2>2, <2>3 DEF CrabOwn
  <1>3. CASE CollectCrabCommands
    <2>1. passes # <<>> /\ Head(passes) = DC
      BY <1>3 DEF CollectCrabCommands, Current, DC
    <2>2. CrabCommands' = CrabCommands /\ toRemove' = CrabCommands
      BY <1>3 DEF CollectCrabCommands, CrabCommands
    <2>3. \A i \in toRemove' : i.name = "crab_"
      BY <2>2 DEF CrabCommands
    <2> QED BY <1>3, <2>1, <2>2, <2>3 DEF CollectCrabCommands, CrabOwn
  <1>4. CASE EraseCrabCommand
    <2>1. passes # <<>> /\ Head(passes) = DC
      BY <1>4 DEF EraseCrabCommand, Control
    <2>2. PICK i \in toRemove : /\ mod' = [b \in Blocks |-> mod[b] \ {i}]
                                /\ toRemove' = toRemove \ {i}
      BY <1>4 DEF EraseCrabCommand
    <2>3. CrabCommands' \subseteq CrabCommands \ {i}
      BY <2>2 DEF CrabCommands, TypeOK
    <2>4. CrabCommands \subseteq toRemove
      BY <1>4 DEF EraseCrabCommand, CrabOwn
    <2>5. CrabCommands' \subseteq toRemove'
      BY <2>2, <2>3, <2>4
    <2>6. /\ \A b \in Blocks : mod'[b] \subseteq mod[b]
          /\ toRemove' \subseteq toRemove
      BY <2>2 DEF TypeOK
    <2> QED BY <1>4, <2>1, <2>5, <2>6 DEF EraseCrabCommand, CrabOwn
  <1>5. CASE EndErase
    <2>1. CrabCommands = {}
      BY <1>5 DEF EndErase, CrabOwn
    <2>2. \A b \in Blocks : \A i \in mod[b] : i.name = "crab_" => i.op = "assume"
      <3> SUFFICES ASSUME NEW b \in Blocks, NEW i \in mod[b], i.name = "crab_"
                   PROVE  i.op = "assume"
        OBVIOUS
      <3>1. i \in Instr
        BY DEF TypeOK
      <3>2. i.op \in {"bin", "icmp", "assume", "assert"}
        BY <3>1 DEF Instr
      <3>3. i.op # "assert"
        BY DEF CrabOwn
      <3>4. i.op \notin {"icmp", "bin"}
        BY <2>1 DEF CrabCommands
      <3> QED BY <3>2, <3>3, <3>4
    <2> QED BY <1>5, <2>2 DEF EndErase, CrabOwn
  <1>6. CASE StartOptimizer
    BY <1>0, <1>6 DEF StartOptimizer, Current, OP, CrabOwn
  <1>7. CASE ExpandConstraint
    <2>1. \A b \in Blocks : \A i \in mod'[b] \ mod[b] :
            i.name = "crab_" => i.run = run /\ i.op # "assert"
      BY <1>7, ExpandAdds
    <2>2. /\ passes' = passes /\ run' = run /\ pc' = "blocks"
          /\ passes # <<>> /\ Head(passes) = OP
      BY <1>7 DEF ExpandConstraint, Control
    <2> QED BY <1>0, <2>1, <2>2 DEF CrabOwn
  <1>8. CASE RemoveDeadCode
    <2>1. \A b \in Blocks : mod'[b] \subseteq mod[b]
      BY <1>8 DEF RemoveDeadCode, TypeOK
    <2>2. pc' = "pass" /\ run' = run /\ passes # <<>> /\ Head(passes) = OP
      BY <1>8 DEF RemoveDeadCode, Control
    <2> QED BY <1>0, <2>1, <2>2 DEF CrabOwn
  <1>9. CASE Write
    BY <1>0, <1>9 DEF Write, Current, WR, CrabOwn
  <1>10. CASE Finish \/ VisitBlock \/ UNCHANGED vars
    BY <1>10 DEF Finish, VisitBlock, vars, CrabOwn, CrabCommands
  <1> QED BY <1>1, <1>2, <1>3, <1>4, <1>5, <1>6, <1>7, <1>8, <1>9, <1>10
       DEF Next, Stopped

LEMMA FilesWrittenStep ==
  ASSUME TypeOK, Control, FilesWritten, [Next]_vars
  PROVE  FilesWritten'
  <1>0. DA # WR /\ DC # WR /\ OP # WR
    BY DEF DA, DC, OP, WR
  <1>a. ASSUME passes # <<>>, Head(passes) # WR, passes' = Tail(passes),
               run' = run, files' = files
        PROVE  FilesWritten'
    <2>1. run # 0 => passes' # <<>>
      BY <1>a, ListFacts DEF Control
    <2> QED BY <1>a, <2>1 DEF FilesWritten
  <1>1. CASE NextRun
    <2>1. passes' = PassesOf(run + 1) /\ run + 1 \in Nat /\ run' = run + 1
      BY <1>1 DEF NextRun, TypeOK
    <2>2. passes' # <<>>
      BY <2>1, FirstPass
    <2>3. Len(files) = run
      BY <1>1 DEF NextRun, FilesWritten
    <2>4. files' = files /\ run' # 0 /\ run' - 1 = run
      BY <1>1, <2>1 DEF NextRun, TypeOK
    <2> QED BY <2>2, <2>3, <2>4 DEF FilesWritten
  <1>2. CASE DeleteAssume
    BY <1>0, <1>2, <1>a DEF DeleteAssume, Current, DA
  <1>3. CASE EndErase
    BY <1>0, <1>3, <1>a DEF EndErase, Control
  <1>4. CASE StartOptimizer
    <2>1. passes # <<>> /\ Head(passes) = OP /\ run' = run /\ files' = files
      BY <1>4 DEF StartOptimizer, Current, OP
    <2>2. CASE NothingToDo
      BY <1>0, <1>4, <2>1, <2>2, <1>a DEF StartOptimizer
    <2>3. CASE ~ NothingToDo
      BY <1>4, <2>1, <2>3 DEF StartOptimizer, FilesWritten
    <2> QED BY <2>2, <2>3
  <1>5. CASE RemoveDeadCode
    BY <1>0, <1>5, <1>a DEF RemoveDeadCode, Control
  <1>6. CASE Write
    <2>1. passes # <<>> /\ Head(passes) = WR /\ passes' = Tail(passes) /\ run' = run
      BY <1>6 DEF Write, Current, WR
    <2>2. run # 0 /\ passes' = <<>>
      BY <2>1, ListFacts DEF Control
    <2>3. Len(files) = run - 1
      BY <2>1, <2>2 DEF FilesWritten
    <2>4. Len(files') = Len(files) + 1
      BY <1>6 DEF Write, TypeOK
    <2>5. Len(files') = run
      BY <2>3, <2>4 DEF TypeOK
    <2> QED BY <2>1, <2>2, <2>5 DEF FilesWritten
  <1>7. CASE Finish \/ CollectCrabCommands \/ EraseCrabCommand \/ VisitBlock
             \/ ExpandConstraint \/ UNCHANGED vars
    BY <1>7 DEF Finish, CollectCrabCommands, EraseCrabCommand, VisitBlock,
                ExpandConstraint, vars, FilesWritten
  <1> QED BY <1>1, <1>2, <1>3, <1>4, <1>5, <1>6, <1>7 DEF Next, Stopped

LEMMA OwnAssumptionsStep ==
  ASSUME TypeOK, Control, AssumesOwn, CrabOwn, FilesWritten, OwnAssumptionsOnly,
         [Next]_vars
  PROVE  OwnAssumptionsOnly'
  <1>1. CASE Write
    <2> DEFINE new == [mode |-> mode, seed |-> seed, body |-> mod, succ |-> succ]
    <2>1. passes # <<>> /\ Head(passes) = WR /\ files' = Append(files, new)
      BY <1>1 DEF Write, Current, WR
    <2>2. run # 0 /\ WR # DA /\ WR # DC
      BY <2>1, ListFacts DEF Control, WR, DA, DC
    <2>8. run \in Nat /\ Len(files) \in Nat
      BY DEF TypeOK
    <2>9. Len(files) = run - 1
      BY <2>1, <2>2 DEF FilesWritten
    <2>3. Len(files) + 1 = run
      BY <2>8, <2>9
    <2>4. \A b \in Blocks : \A i \in mod[b] :
            i.op = "assume" \/ i.name = "crab_" => i.run = run
      BY <2>1, <2>2 DEF AssumesOwn, CrabOwn, TypeOK
    <2>5. \A k \in DOMAIN files' : \/ k \in DOMAIN files /\ files'[k] = files[k]
                                   \/ k = run /\ files'[k] = new
      BY <2>1, <2>3, AppendProperties DEF TypeOK
    <2>6. new.body = mod
      OBVIOUS
    <2> QED BY <2>4, <2>5, <2>6 DEF OwnAssumptionsOnly
  <1>2. CASE UNCHANGED files
    BY <1>2 DEF OwnAssumptionsOnly
  <1> QED BY <1>1, <1>2 DEF Next, Stopped, NextRun, Finish, DeleteAssume, CollectCrabCommands,
       EraseCrabCommand, EndErase, StartOptimizer, VisitBlock, ExpandConstraint,
       RemoveDeadCode, vars

-----------------------------------------------------------------------------
(* Dead code: only the first run of the optimizer finds any.               *)

\* past the optimizer of run 0 means past it
LEMMA DoneLists ==
  ASSUME run = 0, ~ opts.disableCrab, passes \in Remaining, passes # <<>>,
         Tail(passes) \in {<<DA, DC>>, <<DC>>, <<>>}, Head(passes) # OP
  PROVE  passes \in {<<DA, DC>>, <<DC>>, <<>>}
  <1> DEFINE D == {<<DA, DC>>, <<DC>>, <<>>}
             P(p) == Tail(p) \in D /\ Head(p) # OP => p \in D
  <1>1. \/ passes = <<DA, DC, OP, DA, DC>> \/ passes = <<DC, OP, DA, DC>>
        \/ passes = <<OP, DA, DC>> \/ passes = <<DA, DC>> \/ passes = <<DC>>
    BY DEF Remaining
  <1>2. Len(<<DC, OP, DA, DC>>) = 4 /\ Len(<<OP, DA, DC>>) = 3
    OBVIOUS
  <1>3. \A d \in D : Len(d) <= 2
    <2>1. Len(<<DA, DC>>) <= 2 /\ Len(<<DC>>) <= 2 /\ Len(<<>>) <= 2
      OBVIOUS
    <2> QED BY <2>1, Zenon
  <1>4. P(<<DA, DC, OP, DA, DC>>)
    BY <1>2, <1>3, TailOfLists
  <1>5. P(<<DC, OP, DA, DC>>)
    BY <1>2, <1>3, TailOfLists
  <1>6. P(<<OP, DA, DC>>)
    OBVIOUS
  <1>7. P(<<DA, DC>>) /\ P(<<DC>>)
    OBVIOUS
  <1> HIDE DEF P
  <1>8. P(passes)
    BY <1>1, <1>4, <1>5, <1>6, <1>7
  <1> QED BY <1>8 DEF P

\* pruning a pruned block changes nothing
LEMMA RemoveDeadCodeStep ==
  ASSUME TypeOK, DeadCode, RemoveDeadCode, opts.dce
  PROVE  NoDeadCodeLeft'
  <1>1. Bottom \subseteq unreach'
    BY DEF RemoveDeadCode, DeadCode
  <1>2. ASSUME NEW b \in Blocks PROVE (Pruned(b) = succ[b])'
    <2>1. CASE b \in dead
      <3>1. succ'[b] = <<>>
        BY <2>1 DEF RemoveDeadCode
      <3> QED BY <3>1 DEF Pruned
    <2>2. CASE b \notin dead
      <3>1. succ'[b] = Pruned(b) /\ succ[b] \in Seq(Blocks)
        BY <2>2 DEF RemoveDeadCode, TypeOK
      <3>2. CASE Pruned(b) = succ[b]
        BY <3>1, <3>2 DEF Pruned, RemoveDeadCode
      <3>3. CASE Pruned(b) # succ[b]
        <4>1. Pruned(b) = <<succ[b][1]>> \/ Pruned(b) = <<succ[b][2]>>
          BY <3>3 DEF Pruned
        <4>2. Len(succ'[b]) = 1
          <5>1. Len(<<succ[b][1]>>) = 1 /\ Len(<<succ[b][2]>>) = 1
            OBVIOUS
          <5> QED BY <3>1, <4>1, <5>1
        <4> QED BY <4>2 DEF Pruned
      <3> QED BY <3>2, <3>3
    <2> QED BY <2>1, <2>2
  <1> QED BY <1>1, <1>2 DEF NoDeadCodeLeft

LEMMA NoDeadCodeUnchanged ==
  ASSUME NoDeadCodeLeft, succ' = succ, unreach' = unreach
  PROVE  NoDeadCodeLeft'
  BY DEF NoDeadCodeLeft, Pruned

LEMMA DeadCodeStep ==
  ASSUME TypeOK, Control, DeadCode, [Next]_vars
  PROVE  DeadCode'
  <1> DEFINE P == opts.dce /\ ~ opts.disableCrab
  <1>0. run \in Nat
    BY DEF TypeOK
  <1>1. CASE RemoveDeadCode
    <2>1. P /\ OptimizerDone' => NoDeadCodeLeft'
      BY <1>1, RemoveDeadCodeStep
    <2>2. pc' = "pass" /\ dead' = {} /\ opts' = opts
      BY <1>1 DEF RemoveDeadCode
    <2> QED BY <2>1, <2>2 DEF DeadCode
  <1>2. CASE NextRun
    <2>1. OptimizerDone
      BY <1>2, <1>0 DEF NextRun, OptimizerDone
    <2>2. succ' = succ /\ unreach' = unreach /\ opts' = opts /\ pc' = "pass"
          /\ dead' = {}
      BY <1>2 DEF NextRun, optVars, Control
    <2> QED BY <2>1, <2>2, NoDeadCodeUnchanged DEF DeadCode
  <1>3. CASE DeleteAssume \/ EndErase \/ Write
    <2>1. /\ passes # <<>> /\ Head(passes) # OP /\ passes' = Tail(passes)
          /\ run' = run /\ opts' = opts /\ succ' = succ /\ unreach' = unreach
          /\ pc' = "pass" /\ dead' = {}
      BY <1>3 DEF DeleteAssume, EndErase, Write, Current, Control, optVars, OP, DC
    <2>2. ~ opts.disableCrab /\ OptimizerDone' => OptimizerDone
      BY <1>0, <2>1, DoneLists DEF OptimizerDone, Control
    <2> QED BY <2>1, <2>2, NoDeadCodeUnchanged DEF DeadCode
  <1>4. CASE StartOptimizer
    <2>1. /\ passes # <<>> /\ Head(passes) = OP
          /\ run' = run /\ opts' = opts /\ succ' = succ /\ unreach' = unreach
          /\ dead' = dead
      BY <1>4 DEF StartOptimizer, Current, OP
    <2>2. CASE NothingToDo
      <3>1. ~ opts.dce /\ pc' = "pass" /\ dead = {}
        BY <1>4, <2>2 DEF StartOptimizer, NothingToDo, Current, Control
      <3> QED BY <2>1, <3>1 DEF DeadCode
    <2>3. CASE ~ NothingToDo
      <3>1. passes' = passes /\ pc' = "blocks" /\ left' = Blocks /\ dead = {}
        BY <1>4, <2>3 DEF StartOptimizer, Current, Control
      <3>2. OptimizerDone' => OptimizerDone
        BY <2>1, <3>1 DEF OptimizerDone
      <3> QED BY <2>1, <3>1, <3>2, NoDeadCodeUnchanged, CfgAssumption DEF DeadCode
    <2> QED BY <2>2, <2>3
  <1>5. CASE VisitBlock
    <2>1. PICK b \in left :
            /\ left' = left \ {b}
            /\ dead' = IF opts.dce /\ b \in Bottom \ unreach THEN dead \cup {b} ELSE dead
      BY <1>5 DEF VisitBlock
    <2>2. /\ passes # <<>> /\ Head(passes) = OP
          /\ passes' = passes /\ pc' = pc /\ pc = "blocks"
          /\ run' = run /\ opts' = opts /\ succ' = succ /\ unreach' = unreach
      BY <1>5 DEF VisitBlock, Control
    <2>3. ~ opts.disableCrab
      BY <2>2, ListFacts DEF Control
    <2>4. opts.dce => Bottom \subseteq unreach' \cup dead' \cup left'
      BY <2>1, <2>2 DEF DeadCode
    <2>5. run >= 1 /\ opts.dce => Bottom \subseteq unreach
      BY <2>3 DEF DeadCode, NoDeadCodeLeft, OptimizerDone
    <2>6. (run >= 1 \/ ~ opts.dce) => dead' = {}
      BY <2>1, <2>5 DEF DeadCode
    <2>7. OptimizerDone' => OptimizerDone
      BY <2>2 DEF OptimizerDone
    <2> QED BY <2>2, <2>4, <2>6, <2>7, NoDeadCodeUnchanged DEF DeadCode
  <1>6. CASE Finish \/ CollectCrabCommands \/ EraseCrabCommand \/ ExpandConstraint
             \/ UNCHANGED vars
    <2>1. /\ passes' = passes /\ run' = run /\ opts' = opts /\ succ' = succ
          /\ unreach' = unreach /\ dead' = dead /\ left' = left
          /\ pc' = "blocks" => pc = "blocks"
      BY <1>6 DEF Finish, CollectCrabCommands, EraseCrabCommand, ExpandConstraint,
                  vars, optVars
    <2>2. OptimizerDone' => OptimizerDone
      BY <2>1 DEF OptimizerDone
    <2> QED BY <2>1, <2>2, NoDeadCodeUnchanged DEF DeadCode
  <1> QED BY <1>1, <1>2, <1>3, <1>4, <1>5, <1>6 DEF Next, Stopped
-----------------------------------------------------------------------------
(* Stability: from run 1 on, only assumptions come and go.                 *)

LEMMA ProgramKept ==
  ASSUME TypeOK, Control, CrabOwn, DeadCode, [Next]_vars, run >= 1
  PROVE  Program(mod') = Program(mod) /\ succ' = succ
  <1>0. run \in Nat
    BY DEF TypeOK
  <1>1. CASE DeleteAssume
    <2>1. \A b \in Blocks : mod'[b] = {i \in mod[b] : i.op # "assume"}
      BY <1>1 DEF DeleteAssume
    <2>2. Program(mod') = Program(mod)
      BY <2>1 DEF Program
    <2> QED BY <1>1, <2>2 DEF DeleteAssume
  <1>2. CASE EraseCrabCommand
    <2>1. PICK i \in toRemove : mod' = [b \in Blocks |-> mod[b] \ {i}]
      BY <1>2 DEF EraseCrabCommand
    <2>2. i.name = "crab_"
      BY <1>2 DEF EraseCrabCommand, CrabOwn
    <2>3. Program(mod') = Program(mod)
      BY <2>1, <2>2 DEF Program
    <2> QED BY <1>2, <2>3 DEF EraseCrabCommand
  <1>3. CASE ExpandConstraint
    <2>1. add = 0
      BY <1>0 DEF Control, AddOf
    <2>2. \A b \in Blocks : /\ mod[b] \subseteq mod'[b]
                            /\ \A i \in mod'[b] \ mod[b] : i.name = "crab_"
      BY <1>3, <2>1, ExpandAdds
    <2>3. Program(mod') = Program(mod)
      BY <2>2 DEF Program
    <2> QED BY <1>3, <2>3 DEF ExpandConstraint
  <1>4. CASE RemoveDeadCode
    <2>1. dead = {}
      BY DEF DeadCode
    <2>2. ~ opts.disableCrab
      BY <1>4, ListFacts DEF RemoveDeadCode, Control
    <2>3. opts.dce => \A b \in Blocks : Pruned(b) = succ[b]
      BY <2>2 DEF DeadCode, OptimizerDone, NoDeadCodeLeft
    <2>4. succ' = [b \in Blocks |-> succ[b]] /\ mod' = [b \in Blocks |-> mod[b]]
      BY <1>4, <2>1, <2>3, Zenon DEF RemoveDeadCode
    <2>5. succ' = succ /\ mod' = mod
      BY <2>4 DEF TypeOK
    <2> QED BY <2>5 DEF Program
  <1>5. CASE NextRun \/ Finish \/ CollectCrabCommands \/ EndErase \/ StartOptimizer
             \/ VisitBlock \/ Write \/ UNCHANGED vars
    <2>1. mod' = mod /\ succ' = succ
      BY <1>5 DEF NextRun, Finish, CollectCrabCommands, EndErase, StartOptimizer,
                  VisitBlock, Write, vars
    <2> QED BY <2>1 DEF Program
  <1> QED BY <1>1, <1>2, <1>3, <1>4, <1>5 DEF Next, Stopped

LEMMA StableStep ==
  ASSUME TypeOK, Control, CrabOwn, FilesWritten, DeadCode, Stable, [Next]_vars
  PROVE  Stable'
  <1>0. run \in Nat
    BY DEF TypeOK
  <1>1. CASE NextRun /\ run = 0
    <2>1. Len(files) = 0 /\ files' = files
      BY <1>1 DEF FilesWritten, NextRun
    <2>2. DOMAIN files = {}
      BY <2>1 DEF TypeOK
    <2> QED BY <2>1, <2>2 DEF Stable
  <1>2. CASE NextRun /\ run # 0
    <2>1. run >= 1 /\ files' = files /\ succ' = succ /\ mod' = mod
      BY <1>0, <1>2 DEF NextRun
    <2> QED BY <2>1 DEF Stable, Program
  <1>3. CASE Write
    <2> DEFINE new == [mode |-> mode, seed |-> seed, body |-> mod, succ |-> succ]
    <2>1. files' = Append(files, new) /\ run' = run /\ mod' = mod /\ succ' = succ
      BY <1>3 DEF Write
    <2>2. \A k \in DOMAIN files' : \/ k \in DOMAIN files /\ files'[k] = files[k]
                                   \/ files'[k] = new
      BY <2>1, AppendProperties DEF TypeOK
    <2>3. new.body = mod /\ new.succ = succ
      OBVIOUS
    <2> HIDE DEF new
    <2> QED BY <2>1, <2>2, <2>3 DEF Stable, Program
  <1>4. CASE run' = run /\ files' = files
    <2>1. run >= 1 => Program(mod') = Program(mod) /\ succ' = succ
      BY ProgramKept
    <2> QED BY <1>4, <2>1 DEF Stable
  <1> QED BY <1>1, <1>2, <1>3, <1>4
          DEF Next, Stopped, Finish, DeleteAssume, CollectCrabCommands,
              EraseCrabCommand, EndErase, StartOptimizer, VisitBlock,
              ExpandConstraint, RemoveDeadCode, vars

-----------------------------------------------------------------------------
(* The inductive invariant, and what follows from it.                      *)

LEMMA InvInit == Init => IInv
  <1> SUFFICES ASSUME Init PROVE IInv
    OBVIOUS
  <1>1. TypeOK /\ Control
    BY InitType, ControlInit
  <1>2. run = 0 /\ files = <<>> /\ dead = {} /\ pc \in {"pass", "done"} /\ passes = PassesOf(0)
    BY DEF Init
  <1>3. AssumesOwn /\ FilesWritten /\ Stable /\ OwnAssumptionsOnly
    BY <1>2 DEF AssumesOwn, FilesWritten, Stable, OwnAssumptionsOnly
  <1>4. \A b \in Blocks : \A i \in mod[b] : i.name # "crab_"
    BY DEF Init, UserCode, I
  <1>5. CrabOwn
    BY <1>2, <1>4 DEF CrabOwn
  <1>6. ~ opts.disableCrab => ~ OptimizerDone
    <2>1. SUFFICES ASSUME ~ opts.disableCrab PROVE ~ OptimizerDone
      OBVIOUS
    <2>2. passes = <<DA, DC, OP, DA, DC>>
      BY <1>2, <2>1, PassLists
    <2>3. Len(<<DA, DC, OP, DA, DC>>) = 5 /\ Len(<<DA, DC>>) = 2
          /\ Len(<<DC>>) = 1 /\ Len(<<>>) = 0
      OBVIOUS
    <2>4. Len(passes) = 5
      BY <2>2, <2>3, Zenon
    <2>5. 5 # 2 /\ 5 # 1 /\ 5 # 0
      OBVIOUS
    <2>6. passes # <<DA, DC>> /\ passes # <<DC>> /\ passes # <<>>
      BY <2>3, <2>4, <2>5, Zenon
    <2> QED BY <1>2, <2>6 DEF OptimizerDone
  <1>7. DeadCode
    BY <1>2, <1>6 DEF DeadCode
  <1> QED BY <1>1, <1>3, <1>5, <1>7 DEF IInv

LEMMA InvStep == IInv /\ [Next]_vars => IInv'
  <1> SUFFICES ASSUME IInv, [Next]_vars PROVE IInv'
    OBVIOUS
  <1>1. TypeOK /\ Control /\ Busy
    BY DEF IInv, Control, Busy
  <1>2. TypeOK' /\ Control'
    BY <1>1, TypeStep, ControlStep
  <1>3. AssumesOwn' /\ CrabOwn'
    BY <1>1, AssumesOwnStep, CrabOwnStep DEF IInv
  <1>4. FilesWritten' /\ DeadCode' /\ Stable'
    BY <1>1, FilesWrittenStep, DeadCodeStep, StableStep DEF IInv
  <1>5. OwnAssumptionsOnly'
    BY <1>1, OwnAssumptionsStep DEF IInv
  <1> QED BY <1>2, <1>3, <1>4, <1>5 DEF IInv

LEMMA Invariant == Spec => []IInv
  BY InvInit, InvStep, PTL DEF Spec

\* Whatever the function and the options, no written file holds an assumption,
\* or an instruction that computes one, of the program itself or of another
\* run: DeleteAssume and DeleteCrabCommand together undo a whole optimizer run.
THEOREM OwnAssumptions == Spec => []OwnAssumptionsOnly
  BY Invariant, PTL DEF IInv

\* Whatever the function and the options, all the files hold one and the same
\* program with the same assertions: after run 0 the optimizer places no
\* assertion and finds no dead code it has not removed already.
THEOREM SameProgramInAll == Spec => []SameProgram
  <1>1. IInv => SameProgram
    <2> SUFFICES ASSUME IInv, NEW k \in DOMAIN files
                 PROVE  /\ Program(files[k].body) = Program(files[1].body)
                        /\ files[k].succ = files[1].succ
      BY DEF SameProgram
    <2>1. run \in Nat /\ files \in Seq(FileType)
      BY DEF IInv, TypeOK
    <2>2. Len(files) > 0 /\ 1 \in DOMAIN files
      BY <2>1
    <2>3. run >= 1
      BY <2>1, <2>2 DEF IInv, FilesWritten
    <2> QED BY <2>2, <2>3 DEF IInv, Stable
  <1> QED BY Invariant, <1>1, PTL

-----------------------------------------------------------------------------
(* Operands.                                                               *)

\* in a set of instructions each call and each comparison has its operand
Closed(S) ==
  \A i \in S :
    /\ i.op \in {"assume", "assert"} /\ i.form \notin Constants
         => \E j \in S : j.op = "icmp" /\ Uses(i, j)
    /\ i.op = "icmp" /\ i.form # "const" /\ i.name # "user"
         => \E j \in S : j.op = "bin" /\ Uses(i, j)

\* DeleteCrabCommand always runs right after DeleteAssume, so that no
\* assumption uses what it erases
NoAssumes ==
  passes # <<>> /\ Head(passes) = DC => \A b \in Blocks : \A i \in mod[b] : i.op # "assume"

LEMMA CallClosed ==
  ASSUME NEW op \in {"assume", "assert"}, NEW name, NEW c, NEW f
  PROVE  Closed(Call(op, name, c, f))
  <1>1. CASE f \in Constants
    BY <1>1 DEF Closed, Call, Constants, I
  <1>2. CASE f = "const"
    <2>1. Call(op, name, c, f)
            = {I(op, name, c, "const", run), I("icmp", name, c, "const", run)}
      BY <1>2 DEF Call, Constants
    <2>2. Closed({I(op, name, c, "const", run), I("icmp", name, c, "const", run)})
      BY DEF Closed, I, Uses
    <2> QED BY <2>1, <2>2
  <1>3. CASE f \notin Constants /\ f # "const"
    <2>1. Call(op, name, c, f) = {I(op, name, c, f, run), I("icmp", name, c, f, run),
                                  I("bin", name, c, f, run)}
      BY <1>3 DEF Call
    <2> QED BY <1>3, <2>1 DEF Closed, I, Uses
  <1> QED BY <1>1, <1>2, <1>3

LEMMA UnionClosed ==
  ASSUME NEW S, NEW T, Closed(S), Closed(T)
  PROVE  Closed(S \cup T)
  BY DEF Closed

LEMMA AssumedClosed ==
  ASSUME NEW c, NEW f
  PROVE  Closed(Assumed(c, f))
  <1>1. CASE f = "none"
    BY <1>1 DEF Assumed, Closed
  <1>2. CASE f = "dropped"
    BY <1>2 DEF Assumed, Closed, I
  <1>3. CASE f # "none" /\ f # "dropped"
    BY <1>3, CallClosed DEF Assumed
  <1> QED BY <1>1, <1>2, <1>3

LEMMA AssertedClosed ==
  ASSUME NEW c, NEW f, NEW A \in Asserted(c, f)
  PROVE  Closed(A)
  <1>0. Closed({})
    BY DEF Closed
  <1>1. \A r \in RandomAssert(c) : Closed(r)
    BY <1>0, CallClosed DEF RandomAssert
  <1>2. \A s \in StrongerAssert(c) : Closed(s)
    BY <1>0, CallClosed DEF StrongerAssert
  <1>3. Closed(OracleAssert(c))
    BY <1>0, CallClosed DEF OracleAssert
  <1>4. CASE add = 0 \/ f \in {"none", "dropped"}
    BY <1>0, <1>4 DEF Asserted
  <1>5. CASE ~ (add = 0 \/ f \in {"none", "dropped"})
    <2>1. PICK r \in RandomAssert(c), s \in StrongerAssert(c) :
            A = r \cup s \cup OracleAssert(c)
      BY <1>5 DEF Asserted
    <2> QED BY <1>1, <1>2, <1>3, <2>1, UnionClosed
  <1> QED BY <1>4, <1>5

\* which pass may follow which
LEMMA NextPass ==
  ASSUME passes \in Remaining, passes # <<>>, Tail(passes) # <<>>,
         Head(Tail(passes)) = DC
  PROVE  Head(passes) = DA
  <1> DEFINE P(p) == Tail(p) # <<>> /\ Head(Tail(p)) = DC => Head(p) = DA
  <1>0. DA # DC /\ DC # OP /\ DC # WR
    BY DEF DA, DC, OP, WR
  <1>1. P(<<DA, DC, DA, DC>>) /\ P(<<DC, DA, DC>>) /\ P(<<DA, DC>>) /\ P(<<DC>>)
    BY <1>0
  <1>2. P(<<DA, DC, OP, DA, DC>>) /\ P(<<DC, OP, DA, DC>>) /\ P(<<OP, DA, DC>>)
    BY <1>0
  <1>3. P(<<DA, DC, WR>>) /\ P(<<DC, WR>>) /\ P(<<WR>>)
    BY <1>0
  <1>4. P(<<DA, DC, OP, WR>>) /\ P(<<DC, OP, WR>>) /\ P(<<OP, WR>>)
    BY <1>0
  <1> HIDE DEF P
  <1>5. P(passes)
    BY <1>1, <1>2, <1>3, <1>4, Zenon DEF Remaining
  <1> QED BY <1>5 DEF P

LEMMA NoAssumesStep ==
  ASSUME TypeOK, Control, NoAssumes, [Next]_vars
  PROVE  NoAssumes'
  <1>0. DA # DC /\ OP # DC /\ WR # DC /\ DA # OP /\ DA # WR
    BY DEF DA, DC, OP, WR
  <1>1. CASE NextRun
    <2>1. passes' = PassesOf(run + 1) /\ run + 1 \in Nat
      BY <1>1 DEF NextRun, TypeOK
    <2> QED BY <1>0, <2>1, FirstPass DEF NoAssumes
  <1>2. CASE DeleteAssume
    BY <1>2 DEF DeleteAssume, NoAssumes
  <1>3. CASE CollectCrabCommands \/ Finish \/ VisitBlock \/ UNCHANGED vars
    BY <1>3 DEF CollectCrabCommands, Finish, VisitBlock, vars, NoAssumes
  <1>4. CASE EraseCrabCommand
    BY <1>4 DEF EraseCrabCommand, NoAssumes, TypeOK
  <1>5. CASE EndErase \/ RemoveDeadCode \/ Write
    <2>1. passes # <<>> /\ Head(passes) # DA /\ passes' = Tail(passes)
      BY <1>0, <1>5 DEF EndErase, RemoveDeadCode, Write, Current, Control, WR
    <2> QED BY <2>1, NextPass DEF Control, NoAssumes
  <1>6. CASE StartOptimizer
    <2>1. passes # <<>> /\ Head(passes) = OP /\ (passes' = Tail(passes) \/ passes' = passes)
      BY <1>6 DEF StartOptimizer, Current, OP
    <2> QED BY <1>0, <2>1, NextPass DEF Control, NoAssumes
  <1>7. CASE ExpandConstraint
    BY <1>0, <1>7 DEF ExpandConstraint, Control, NoAssumes
  <1> QED BY <1>1, <1>2, <1>3, <1>4, <1>5, <1>6, <1>7 DEF Next, Stopped

LEMMA ClosedStep ==
  ASSUME TypeOK, Control, CrabOwn, NoAssumes, [Next]_vars,
         \A b \in Blocks : Closed(mod[b])
  PROVE  \A b \in Blocks : Closed(mod'[b])
  <1>1. CASE UNCHANGED mod
    BY <1>1
  <1>2. CASE DeleteAssume
    <2>1. ASSUME NEW b \in Blocks PROVE Closed(mod'[b])
      <3>1. mod'[b] = {i \in mod[b] : i.op # "assume"}
        BY <1>2 DEF DeleteAssume
      <3> QED BY <3>1 DEF Closed
    <2> QED BY <2>1
  <1>3. CASE EraseCrabCommand
    <2>1. PICK i \in toRemove : /\ \A j \in toRemove : ~ Precedes(i, j)
                                /\ mod' = [b \in Blocks |-> mod[b] \ {i}]
      BY <1>3 DEF EraseCrabCommand
    <2>2. i.name = "crab_" /\ CrabCommands \subseteq toRemove
      BY <1>3 DEF EraseCrabCommand, CrabOwn
    <2>3. \A b \in Blocks : \A u \in mod[b] : u.op # "assume"
      BY <1>3 DEF EraseCrabCommand, Control, NoAssumes
    <2>4. ASSUME NEW b \in Blocks, NEW u \in mod[b], Uses(u, i) PROVE FALSE
      <3>1. u.name = "crab_" /\ u.op # "assume" /\ u.op # "assert"
        BY <2>2, <2>3, <2>4 DEF Uses, CrabOwn
      <3>2. u.op = "icmp" /\ i.op = "bin" /\ u.cst = i.cst
        BY <2>4, <3>1 DEF Uses
      <3>3. u \in toRemove
        BY <2>2, <3>1, <3>2 DEF CrabCommands
      <3> QED BY <2>1, <3>2, <3>3 DEF Precedes
    <2>5. ASSUME NEW b \in Blocks PROVE Closed(mod'[b])
      <3>1. mod'[b] = mod[b] \ {i}
        BY <2>1
      <3> QED BY <2>4, <3>1 DEF Closed
    <2> QED BY <2>5
  <1>4. CASE ExpandConstraint
    <2>1. PICK c \in pending : \E f \in GenCode(c) : \E A \in Asserted(c, f) :
            mod' = [mod EXCEPT ![Home[c]] = @ \cup Assumed(c, f) \cup A]
      BY <1>4 DEF ExpandConstraint
    <2>2. PICK f \in GenCode(c) : \E A \in Asserted(c, f) :
            mod' = [mod EXCEPT ![Home[c]] = @ \cup Assumed(c, f) \cup A]
      BY <2>1
    <2>3. PICK A \in Asserted(c, f) :
            mod' = [mod EXCEPT ![Home[c]] = @ \cup Assumed(c, f) \cup A]
      BY <2>2
    <2>4. Closed(Assumed(c, f)) /\ Closed(A)
      BY AssumedClosed, AssertedClosed
    <2>5. ASSUME NEW b \in Blocks PROVE Closed(mod'[b])
      <3>1. mod'[b] = mod[b] \/ mod'[b] = mod[b] \cup Assumed(c, f) \cup A
        BY <2>3 DEF TypeOK
      <3> QED BY <2>4, <3>1, UnionClosed
    <2> QED BY <2>5
  <1>5. CASE RemoveDeadCode
    <2>1. \A b \in Blocks : mod'[b] = {} \/ mod'[b] = mod[b]
      BY <1>5 DEF RemoveDeadCode
    <2> QED BY <2>1 DEF Closed
  <1> QED BY <1>1, <1>2, <1>3, <1>4, <1>5
          DEF Next, Stopped, NextRun, Finish, CollectCrabCommands, EndErase,
              StartOptimizer, VisitBlock, Write, vars

\* In every state of every run, whatever the function and the options, no
\* instruction has lost an operand: the order in which the passes are added and
\* in which DeleteCrabCommand erases never removes what is still used.
THEOREM OperandsStayAlive == Spec => []OperandsAlive
  <1> DEFINE Inv == NoAssumes /\ \A b \in Blocks : Closed(mod[b])
  <1>1. Init => Inv
    <2> SUFFICES ASSUME Init PROVE Inv
      OBVIOUS
    <2>1. passes # <<>> /\ Head(passes) = DA /\ DA # DC
      BY FirstPass DEF Init, DA, DC
    <2>2. ASSUME NEW b \in Blocks PROVE Closed(mod[b])
      <3>1. Closed({})
        BY DEF Closed
      <3>2. Closed({I("icmp", "user", 0, "asis", -1), I("assume", "user", 0, "asis", -1)})
        BY DEF Closed, I, Uses
      <3>3. Closed({I("icmp", "user", 0, "const", -1), I("assert", "user", 0, "const", -1)})
        BY DEF Closed, I, Uses
      <3> QED BY <3>1, <3>2, <3>3, UnionClosed DEF Init, UserCode
    <2> QED BY <2>1, <2>2 DEF NoAssumes
  <1>2. IInv /\ Inv /\ [Next]_vars => Inv'
    BY NoAssumesStep, ClosedStep DEF IInv
  <1>3. Inv => OperandsAlive
    BY DEF Closed, OperandsAlive
  <1> QED BY Invariant, <1>1, <1>2, <1>3, PTL DEF Spec

-----------------------------------------------------------------------------
(* Edges.                                                                  *)

Targets(s) == {s[n] : n \in 1..Len(s)}

\* what dead-code removal keeps of block b
EdgesKept(b) ==
  /\ Len(succ[b]) <= 2
  /\ succ[b] = <<>> => b \in ExitBlocks \cup unreach
  /\ b \notin unreach
       => \A t \in Targets(Successors[b]) : <<b, t>> \notin Infeasible => t \in Targets(succ[b])

\* Pruning drops infeasible edges only, and never the last one.
LEMMA PrunedKeeps ==
  ASSUME NEW b \in Blocks, succ \in [Blocks -> Seq(Blocks)], Len(succ[b]) <= 2
  PROVE  /\ Len(Pruned(b)) <= 2
         /\ Pruned(b) = <<>> => succ[b] = <<>>
         /\ \A t \in Targets(succ[b]) : <<b, t>> \notin Infeasible => t \in Targets(Pruned(b))
  <1>0. succ[b] \in Seq(Blocks) /\ Len(succ[b]) \in Nat
    OBVIOUS
  <1>1. CASE Pruned(b) = succ[b]
    BY <1>0, <1>1
  <1>2. CASE Pruned(b) # succ[b]
    <2>0. ~ (Len(succ[b]) < 2)
      BY <1>2 DEF Pruned
    <2>6. \A n \in Nat : n <= 2 /\ ~ (n < 2) => n = 2
      OBVIOUS
    <2>5. Len(succ[b]) = 2
      BY <1>0, <2>0, <2>6, Zenon
    <2>1. \/ <<b, succ[b][2]>> \in Infeasible /\ Pruned(b) = <<succ[b][1]>>
          \/ <<b, succ[b][1]>> \in Infeasible /\ Pruned(b) = <<succ[b][2]>>
      BY <1>2, Zenon DEF Pruned
    <2>2. Targets(succ[b]) = {succ[b][1], succ[b][2]}
      BY <2>5 DEF Targets
    <2>3. CASE <<b, succ[b][2]>> \in Infeasible /\ Pruned(b) = <<succ[b][1]>>
      <3>1. Targets(<<succ[b][1]>>) = {succ[b][1]} /\ Len(<<succ[b][1]>>) = 1
        BY DEF Targets
      <3> QED BY <2>2, <2>3, <3>1
    <2>4. CASE <<b, succ[b][1]>> \in Infeasible /\ Pruned(b) = <<succ[b][2]>>
      <3>1. Targets(<<succ[b][2]>>) = {succ[b][2]} /\ Len(<<succ[b][2]>>) = 1
        BY DEF Targets
      <3> QED BY <2>2, <2>4, <3>1
    <2> QED BY <2>1, <2>3, <2>4
  <1> QED BY <1>1, <1>2

LEMMA EdgesInit == Init => \A b \in Blocks : EdgesKept(b)
  <1> SUFFICES ASSUME Init, NEW b \in Blocks PROVE EdgesKept(b)
    OBVIOUS
  <1>1. succ = Successors /\ unreach = {c \in Blocks : Successors[c] = <<>>} \ ExitBlocks
    BY DEF Init
  <1> QED BY <1>1, CfgAssumption DEF EdgesKept

LEMMA EdgesStep ==
  ASSUME TypeOK, \A b \in Blocks : EdgesKept(b), [Next]_vars
  PROVE  \A b \in Blocks : EdgesKept(b)'
  <1>1. CASE RemoveDeadCode
    <2> SUFFICES ASSUME NEW b \in Blocks PROVE EdgesKept(b)'
      OBVIOUS
    <2>0. EdgesKept(b) /\ unreach \subseteq unreach' /\ dead \subseteq unreach'
      BY <1>1 DEF RemoveDeadCode
    <2>1. CASE b \in dead
      <3>1. succ'[b] = <<>>
        BY <1>1, <2>1 DEF RemoveDeadCode
      <3> QED BY <2>0, <2>1, <3>1 DEF EdgesKept
    <2>2. CASE b \notin dead /\ opts.dce
      <3>1. succ'[b] = Pruned(b)
        BY <1>1, <2>2 DEF RemoveDeadCode
      <3>2. /\ Len(Pruned(b)) <= 2
            /\ Pruned(b) = <<>> => succ[b] = <<>>
            /\ \A t \in Targets(succ[b]) : <<b, t>> \notin Infeasible => t \in Targets(Pruned(b))
        BY <2>0, PrunedKeeps DEF EdgesKept, TypeOK
      <3> QED BY <2>0, <3>1, <3>2 DEF EdgesKept
    <2>3. CASE b \notin dead /\ ~ opts.dce
      <3>1. succ'[b] = succ[b]
        BY <1>1, <2>3 DEF RemoveDeadCode
      <3> QED BY <2>0, <3>1 DEF EdgesKept
    <2> QED BY <2>1, <2>2, <2>3
  <1>2. CASE UNCHANGED <<succ, unreach>>
    BY <1>2 DEF EdgesKept
  <1> QED BY <1>1, <1>2
          DEF Next, Stopped, NextRun, Finish, DeleteAssume, CollectCrabCommands,
              EraseCrabCommand, EndErase, StartOptimizer, VisitBlock, ExpandConstraint,
              Write, vars

LEMMA EdgesInvariant == Spec => [](\A b \in Blocks : EdgesKept(b))
  <1>1. IInv /\ (\A b \in Blocks : EdgesKept(b)) /\ [Next]_vars
          => (\A b \in Blocks : EdgesKept(b))'
    BY EdgesStep DEF IInv
  <1> QED BY Invariant, EdgesInit, <1>1, PTL DEF Spec

\* Removing dead code never cuts an edge the analysis left feasible out of a
\* block that was not removed, however often the optimizer runs.
THEOREM FeasibleEdgesStay == Spec => []FeasibleEdgesSurvive
  <1>1. (\A b \in Blocks : EdgesKept(b)) => FeasibleEdgesSurvive
    BY DEF EdgesKept, FeasibleEdgesSurvive, Targets
  <1> QED BY EdgesInvariant, <1>1, PTL

\* A block that neither returns nor is unreachable keeps a successor, even if
\* the analysis found all of its edges infeasible.
THEOREM SuccessorsStay == Spec => []LiveBlocksKeepASuccessor
  <1>1. (\A b \in Blocks : EdgesKept(b)) => LiveBlocksKeepASuccessor
    BY DEF EdgesKept, LiveBlocksKeepASuccessor
  <1> QED BY EdgesInvariant, <1>1, PTL
-----------------------------------------------------------------------------
(* Assumptions: what every file assumes of every constraint.               *)

\* the constraints every run of the optimizer expands
Due == {c \in Cst : /\ Home[c] \notin unreach
                    /\ ~ (opts.dce /\ Home[c] \in Bottom)
                    /\ c \in Target(Home[c])}

\* how c is assumed when nothing is transformed
BaseForm(c) ==
  IF Kind[c] = "tautology" THEN {}
  ELSE IF Kind[c] = "contradiction" THEN {"false"}
  ELSE IF Fate[c] = "ok" THEN {"asis"} ELSE {}

\* what initial.bc assumes of c
Reference(c) == IF c \in Due /\ ~ opts.disableCrab THEN BaseForm(c) ELSE {}

\* what is assumed of c once genCode has returned f
Kept(f) == IF f \in {"none", "dropped"} THEN {} ELSE {f}

\* the forms in S under which c is assumed
FormsIn(S, c) == {i.form : i \in {j \in S : j.op = "assume" /\ j.cst = c}}
FormsNow(c) == FormsIn(UNION {mod[b] : b \in Blocks}, c)

\* this run has expanded c
Expanded(c) ==
  /\ c \in Due /\ ~ opts.disableCrab
  /\ \/ pc = "blocks" /\ Home[c] \notin left /\ c \notin pending
     \/ passes = <<>>
     \/ Head(passes) = WR

Progress ==
  /\ pending \subseteq {c \in Due : Home[c] \notin left}
  /\ pc # "blocks" => pending = {}
  /\ dead \subseteq Bottom
  /\ run <= 1 => seed = -1

Conforming(f, m, c) == f \in Suite!Admissible(m, BaseForm(c))

AssumptionsNow ==
  run >= 1 /\ (passes = <<>> \/ Head(passes) # DA)
    => \A c \in Cst : IF Expanded(c)
                        THEN /\ Conforming(FormsNow(c), mode, c)
                             /\ seed = -1 => FormsNow(c) = BaseForm(c)
                        ELSE FormsNow(c) = {}

AssumptionsWritten ==
  \A k \in DOMAIN files : \A c \in Cst :
    /\ AssumedForms(k, c) \in Suite!Admissible(files[k].mode, Reference(c))
    /\ k = 1 => AssumedForms(k, c) = Reference(c)

\* the oracles in a set of instructions are about what initial.bc assumes
OraclesFounded(S) ==
  \A i \in S : i.op = "assert" /\ i.name = "oracle_assert_"
    => i.cst \in Cst /\ Reference(i.cst) = {i.form}

Oracles == /\ \A b \in Blocks : OraclesFounded(mod[b])
           /\ \A k \in DOMAIN files : \A b \in Blocks : OraclesFounded(files[k].body[b])

CInv == Progress /\ AssumptionsNow /\ AssumptionsWritten /\ Oracles

LEMMA AdmissibleForms ==
  ASSUME NEW m
  PROVE  /\ Suite!Admissible(m, {"asis"}) =
              IF m = "stronger" THEN {{"asis"}, {"false"}, {"eq"}, {"strict"}, {"shift"}}
                                ELSE {{"asis"}, {"true"}, {"shift"}, {"le"}, {"ge"}}
         /\ Suite!Admissible(m, {"false"}) = {{"false"}}
         /\ Suite!Admissible(m, {}) = {{}, IF m = "stronger" THEN {"false"} ELSE {"true"}}
  <1>1. {"asis"} # {"false"} /\ {"asis"} # {} /\ {"false"} # {}
    OBVIOUS
  <1> QED BY <1>1 DEF Suite!Admissible

\* Whatever genCode returns is comparable with what it returns without a seed.
LEMMA GenKept ==
  ASSUME NEW c \in Cst, NEW f \in GenCode(c)
  PROVE  /\ Conforming(Kept(f), mode, c)
         /\ seed = -1 => Kept(f) = BaseForm(c)
  <1>1. CASE Kind[c] = "tautology"
    BY <1>1, AdmissibleForms DEF GenCode, Kept, BaseForm, Conforming
  <1>2. CASE Kind[c] = "contradiction"
    BY <1>2, AdmissibleForms DEF GenCode, Kept, BaseForm, Conforming
  <1> DEFINE Linear == Kind[c] \in {"inequality", "equality", "disequation"}
  <1>3. CASE Linear /\ Fate[c] = "untyped"
    BY <1>3, AdmissibleForms DEF GenCode, Kept, BaseForm, Conforming
  <1>4. CASE Linear /\ Fate[c] = "overflow"
    <2>1. \A g : Fit(c, g) = "dropped"
      BY <1>4 DEF Fit
    <2>2. BaseForm(c) = {}
      BY <1>4 DEF BaseForm
    <2>3. seed = -1 => f = "dropped"
      BY <1>4, <2>1 DEF GenCode, Transforms
    <2>4. f \in IF mode = "stronger" THEN {"dropped", "false"} ELSE {"dropped", "true"}
      <3>1. Strengthened(c) \subseteq {"dropped", "false"}
        BY <2>1 DEF Strengthened
      <3>2. Weakened(c) \subseteq {"dropped", "true"}
        BY <2>1 DEF Weakened
      <3> QED BY <1>4, <2>1, <3>1, <3>2 DEF GenCode, Transformed
    <2> QED BY <2>2, <2>3, <2>4, AdmissibleForms DEF Kept, Conforming
  <1>5. CASE Linear /\ Fate[c] = "ok"
    <2>1. \A g : Fit(c, g) = g
      BY <1>5 DEF Fit
    <2>2. BaseForm(c) = {"asis"}
      BY <1>5 DEF BaseForm
    <2>3. seed = -1 => f = "asis"
      BY <1>5, <2>1 DEF GenCode, Transforms
    <2>4. f \in IF mode = "stronger" THEN {"asis", "false", "eq", "strict", "shift"}
                                     ELSE {"asis", "true", "shift", "le", "ge"}
      <3>1. Strengthened(c) \subseteq {"false", "eq", "strict", "shift"}
        BY <2>1 DEF Strengthened
      <3>2. Weakened(c) \subseteq {"true", "shift", "le", "ge"}
        BY <2>1 DEF Weakened
      <3> QED BY <1>5, <2>1, <3>1, <3>2 DEF GenCode, Transformed
    <2>5. Kept(f) = {f}
      BY <2>4 DEF Kept
    <2> QED BY <2>2, <2>3, <2>4, <2>5, AdmissibleForms DEF Conforming
  <1>6. Fate[c] \in Fates /\ Kind[c] \in Kinds
    BY InvariantAssumption
  <1> QED BY <1>1, <1>2, <1>3, <1>4, <1>5, <1>6 DEF Fates, Kinds

LEMMA BaseForms ==
  ASSUME NEW c
  PROVE  BaseForm(c) \in {{}, {"false"}, {"asis"}}
  BY DEF BaseForm

\* The constraints due never change: the blocks the optimizer makes unreachable
\* are those whose invariants it never expanded.
LEMMA DueSteady ==
  ASSUME TypeOK, Progress, DeadCode, [Next]_vars
  PROVE  opts' = opts /\ Due' = Due
  <1>1. opts' = opts
    BY DEF Next, Stopped, NextRun, Finish, DeleteAssume, CollectCrabCommands,
           EraseCrabCommand, EndErase, StartOptimizer, VisitBlock, ExpandConstraint,
           RemoveDeadCode, Write, vars
  <1>2. unreach' = unreach \/ (unreach' = unreach \cup dead /\ RemoveDeadCode)
    BY DEF Next, Stopped, NextRun, Finish, DeleteAssume, CollectCrabCommands,
           EraseCrabCommand, EndErase, StartOptimizer, VisitBlock, ExpandConstraint,
           RemoveDeadCode, Write, vars
  <1>3. dead \subseteq Bottom /\ (~ opts.dce => dead = {})
    BY DEF Progress, DeadCode
  <1>4. \A b : Target(b)' = Target(b)
    BY <1>1 DEF Target, AtEntry
  <1> QED BY <1>1, <1>2, <1>3, <1>4 DEF Due

LEMMA ProgressStep ==
  ASSUME TypeOK, Control, DeadCode, Progress, [Next]_vars
  PROVE  Progress'
  <1>0. Due' = Due /\ run \in Nat
    BY DueSteady DEF TypeOK
  <1>1. CASE NextRun
    <2>1. run' <= 1 => run = 0
      BY <1>0, <1>1 DEF NextRun
    <2> QED BY <1>0, <1>1, <2>1 DEF NextRun, optVars, Progress
  <1>2. CASE StartOptimizer
    <2>1. pending = {} /\ pending' = {} /\ dead' = dead /\ run' = run /\ seed' = seed
      BY <1>2 DEF StartOptimizer, Current, Progress
    <2> QED BY <2>1 DEF Progress
  <1>3. CASE VisitBlock
    <2>1. PICK b \in left :
            /\ left' = left \ {b}
            /\ IF b \in unreach \/ (opts.dce /\ b \in Bottom)
                 THEN pending' = {} ELSE pending' = Target(b)
            /\ dead' = IF opts.dce /\ b \in Bottom \ unreach THEN dead \cup {b} ELSE dead
      BY <1>3 DEF VisitBlock
    <2>2. pending' \subseteq {c \in Due : Home[c] = b}
      <3>1. \A c \in Target(b) : c \in Cst /\ Home[c] = b
        BY DEF Target
      <3> QED BY <2>1, <3>1 DEF Due
    <2>3. pending' \subseteq {c \in Due' : Home[c] \notin left'}
      BY <1>0, <2>1, <2>2
    <2>4. dead' \subseteq Bottom
      BY <2>1 DEF Progress
    <2> QED BY <1>3, <2>3, <2>4 DEF VisitBlock, Progress
  <1>4. CASE ExpandConstraint
    <2>1. pending' \subseteq pending /\ left' = left /\ dead' = dead
          /\ run' = run /\ seed' = seed /\ pc' = pc /\ pc = "blocks"
      BY <1>4 DEF ExpandConstraint
    <2> QED BY <1>0, <2>1 DEF Progress
  <1>5. CASE RemoveDeadCode
    BY <1>0, <1>5 DEF RemoveDeadCode, Progress
  <1>6. CASE Finish \/ DeleteAssume \/ CollectCrabCommands \/ EraseCrabCommand
             \/ EndErase \/ Write \/ UNCHANGED vars
    <2>1. pending' = pending /\ left' = left /\ dead' = dead /\ run' = run /\ seed' = seed
          /\ (pc' = "blocks" <=> pc = "blocks")
      BY <1>6 DEF Finish, DeleteAssume, CollectCrabCommands, EraseCrabCommand,
                  EndErase, Write, Current, vars, optVars
    <2> QED BY <1>0, <2>1 DEF Progress
  <1> QED BY <1>1, <1>2, <1>3, <1>4, <1>5, <1>6 DEF Next, Stopped

\* with nothing to do, no constraint is due
LEMMA NothingDue ==
  ASSUME NothingToDo
  PROVE  Due = {}
  <1>1. opts.invLoc = "none"
    BY DEF NothingToDo
  <1>2. \A b : Target(b) = {}
    BY <1>1 DEF Target, AtEntry
  <1> QED BY <1>2 DEF Due

LEMMA FormsMember ==
  ASSUME NEW c, NEW f
  PROVE  f \in FormsNow(c) <=> \E b \in Blocks : \E i \in mod[b] :
                                 i.op = "assume" /\ i.cst = c /\ i.form = f
  BY DEF FormsNow, FormsIn

\* the forms the expansion of one constraint adds
LEMMA ExpandForms ==
  ASSUME TypeOK, ExpandConstraint
  PROVE  \E c \in pending : \E f \in GenCode(c) :
           /\ pending' = pending \ {c}
           /\ FormsNow(c)' = FormsNow(c) \cup Kept(f)
           /\ \A d \in Cst \ {c} : FormsNow(d)' = FormsNow(d)
  <1>1. PICK c \in pending :
          /\ pending' = pending \ {c}
          /\ \E f \in GenCode(c) : \E A \in Asserted(c, f) :
               mod' = [mod EXCEPT ![Home[c]] = @ \cup Assumed(c, f) \cup A]
    BY DEF ExpandConstraint
  <1>2. PICK f \in GenCode(c) : \E A \in Asserted(c, f) :
          mod' = [mod EXCEPT ![Home[c]] = @ \cup Assumed(c, f) \cup A]
    BY <1>1
  <1>3. PICK A \in Asserted(c, f) :
          mod' = [mod EXCEPT ![Home[c]] = @ \cup Assumed(c, f) \cup A]
    BY <1>2
  <1>4. c \in Cst /\ Home[c] \in Blocks
    BY InvariantAssumption DEF TypeOK
  <1>5. \A i \in A : i.op # "assume"
    BY <1>4, AssertedType DEF TypeOK
  <1>6. \A i \in Assumed(c, f) : i.op = "assume" => i.cst = c /\ i.form = f /\ Kept(f) = {f}
    BY DEF Assumed, Call, I, Kept
  <1>7. Kept(f) # {} => I("assume", "crab_", c, f, run) \in Assumed(c, f)
    BY DEF Assumed, Call, Kept
  <1>8. mod'[Home[c]] = mod[Home[c]] \cup Assumed(c, f) \cup A
        /\ \A b \in Blocks \ {Home[c]} : mod'[b] = mod[b]
    BY <1>3, <1>4 DEF TypeOK
  <1>9. \A d : \A g : g \in FormsNow(d)' <=> \E b \in Blocks : \E i \in mod'[b] :
                               i.op = "assume" /\ i.cst = d /\ i.form = g
    BY DEF FormsNow, FormsIn
  <1>10. ASSUME NEW d \in Cst \ {c} PROVE FormsNow(d)' = FormsNow(d)
    <2>1. \A g : g \in FormsNow(d)' <=> g \in FormsNow(d)
      BY <1>4, <1>5, <1>6, <1>8, <1>9, FormsMember
    <2> QED BY <2>1
  <1>11. FormsNow(c)' = FormsNow(c) \cup Kept(f)
    <2>1. ASSUME NEW g \in FormsNow(c)' PROVE g \in FormsNow(c) \cup Kept(f)
      BY <1>4, <1>5, <1>6, <1>8, <1>9, FormsMember
    <2>2. ASSUME NEW g \in FormsNow(c) PROVE g \in FormsNow(c)'
      BY <1>4, <1>8, <1>9, FormsMember
    <2>3. ASSUME NEW g \in Kept(f) PROVE g \in FormsNow(c)'
      <3>1. I("assume", "crab_", c, f, run) \in mod'[Home[c]] /\ g = f
        BY <1>7, <1>8, <2>3 DEF Kept
      <3> QED BY <1>4, <1>9, <3>1 DEF I
    <2> QED BY <2>1, <2>2, <2>3
  <1> QED BY <1>1, <1>10, <1>11

\* which pass follows which from run 1 on
LEMMA LaterLists ==
  ASSUME run # 0, passes \in Remaining, passes # <<>>
  PROVE  /\ Head(passes) = DC => /\ Tail(passes) # <<>>
                                 /\ \/ Head(Tail(passes)) = OP
                                    \/ opts.disableCrab /\ Head(Tail(passes)) = WR
         /\ Head(passes) = OP => Tail(passes) # <<>> /\ Head(Tail(passes)) = WR
  <1> DEFINE P(p) == /\ Head(p) = DC => /\ Tail(p) # <<>>
                                        /\ \/ Head(Tail(p)) = OP
                                           \/ opts.disableCrab /\ Head(Tail(p)) = WR
                     /\ Head(p) = OP => Tail(p) # <<>> /\ Head(Tail(p)) = WR
  <1>0. DA # DC /\ DA # OP /\ WR # DC /\ WR # OP /\ DC # OP
    BY DEF DA, DC, OP, WR
  <1>1. P(<<DA, DC, WR>>) /\ P(<<WR>>)
    BY <1>0
  <1>2. P(<<DA, DC, OP, WR>>) /\ P(<<DC, OP, WR>>) /\ P(<<OP, WR>>)
    BY <1>0
  <1>3. opts.disableCrab => P(<<DC, WR>>)
    BY <1>0
  <1> HIDE DEF P
  <1>4. P(passes)
    BY <1>1, <1>2, <1>3, Zenon DEF Remaining
  <1> QED BY <1>4 DEF P

LEMMA AssumptionsNowStep ==
  ASSUME TypeOK, Control, DeadCode, Progress, AssumptionsNow, [Next]_vars
  PROVE  AssumptionsNow'
  <1> DEFINE Right(c) == IF Expanded(c)
                           THEN /\ Conforming(FormsNow(c), mode, c)
                                /\ seed = -1 => FormsNow(c) = BaseForm(c)
                           ELSE FormsNow(c) = {}
  <1>0. Due' = Due /\ opts' = opts /\ run \in Nat
        /\ DA # DC /\ DA # OP /\ DA # WR /\ DC # WR /\ OP # WR
    BY DueSteady DEF TypeOK, DA, DC, OP, WR
  <1>a. ASSUME run' = run, run >= 1, passes # <<>> => Head(passes) # DA,
               NEW c \in Cst, FormsNow(c)' = FormsNow(c), Expanded(c)' <=> Expanded(c),
               mode' = mode, seed' = seed
        PROVE  Right(c)'
    <2>1. Right(c)
      BY <1>a DEF AssumptionsNow
    <2> QED BY <1>a, <2>1 DEF Conforming
  <1>b. mod' = mod => \A c : FormsNow(c)' = FormsNow(c)
    BY DEF FormsNow
  <1>1. CASE NextRun
    <2>1. passes' = PassesOf(run + 1) /\ run + 1 \in Nat
      BY <1>1 DEF NextRun, TypeOK
    <2> QED BY <2>1, FirstPass DEF AssumptionsNow
  <1> SUFFICES ASSUME ~ NextRun, run' >= 1, passes' = <<>> \/ Head(passes') # DA,
                      NEW c \in Cst
               PROVE  Right(c)'
    BY <1>1 DEF AssumptionsNow
  <1>2. CASE DeleteAssume
    <2>1. passes # <<>> /\ Head(passes) = DA /\ passes' = Tail(passes) /\ pc' = "pass"
          /\ run' = run
      BY <1>2 DEF DeleteAssume, Current, DA
    <2>2. passes' # <<>> /\ Head(passes') = DC
      BY <2>1, ListFacts DEF Control
    <2>3. ~ Expanded(c)'
      BY <1>0, <2>1, <2>2 DEF Expanded
    <2>4. \A b \in Blocks : \A i \in mod'[b] : i.op # "assume"
      BY <1>2 DEF DeleteAssume
    <2>5. FormsNow(c)' = {}
      BY <2>4 DEF FormsNow, FormsIn
    <2> QED BY <2>3, <2>5
  <1>3. CASE EraseCrabCommand
    <2>1. /\ run' = run /\ passes' = passes /\ passes # <<>> /\ Head(passes) = DC
          /\ pc' = "erase" /\ pc = "erase"
      BY <1>3 DEF EraseCrabCommand, Control
    <2>2. ~ Expanded(c) /\ ~ Expanded(c)'
      BY <1>0, <2>1 DEF Expanded
    <2>3. FormsNow(c) = {}
      BY <1>0, <2>1, <2>2 DEF AssumptionsNow
    <2>4. \A b \in Blocks : mod'[b] \subseteq mod[b]
      BY <1>3 DEF EraseCrabCommand, TypeOK
    <2>5. FormsNow(c)' = {}
      BY <2>3, <2>4 DEF FormsNow, FormsIn
    <2> QED BY <2>2, <2>5
  <1>4. CASE EndErase
    <2>1. /\ run' = run /\ mod' = mod /\ passes # <<>> /\ Head(passes) = DC
          /\ pc' = "pass" /\ pc = "erase" /\ passes' = Tail(passes)
          /\ mode' = mode /\ seed' = seed
      BY <1>4 DEF EndErase, Control
    <2>2. /\ Tail(passes) # <<>>
          /\ \/ Head(Tail(passes)) = OP
             \/ opts.disableCrab /\ Head(Tail(passes)) = WR
      BY <1>0, <2>1, LaterLists DEF Control
    <2>3. ~ Expanded(c) /\ ~ Expanded(c)'
      BY <1>0, <2>1, <2>2 DEF Expanded
    <2> QED BY <1>0, <1>a, <1>b, <2>1, <2>3
  <1>5. CASE StartOptimizer
    <2>1. /\ run' = run /\ mod' = mod /\ passes # <<>> /\ Head(passes) = OP
          /\ pc = "pass" /\ mode' = mode /\ seed' = seed
      BY <1>5 DEF StartOptimizer, Current, OP
    <2>2. ~ Expanded(c)
      BY <1>0, <2>1 DEF Expanded
    <2>3. CASE NothingToDo
      <3>1. ~ Expanded(c)'
        BY <1>0, <2>3, NothingDue DEF Expanded
      <3> QED BY <1>0, <1>a, <1>b, <2>1, <2>2, <3>1
    <2>4. CASE ~ NothingToDo
      <3>1. pc' = "blocks" /\ left' = Blocks /\ passes' = passes
        BY <1>5, <2>4 DEF StartOptimizer
      <3>2. Home[c] \in left'
        BY <3>1, InvariantAssumption
      <3>3. ~ Expanded(c)'
        BY <1>0, <2>1, <3>1, <3>2 DEF Expanded
      <3> QED BY <1>0, <1>a, <1>b, <2>1, <2>2, <3>3
    <2> QED BY <2>3, <2>4
  <1>6. CASE VisitBlock
    <2>1. PICK b \in left :
            /\ left' = left \ {b}
            /\ IF b \in unreach \/ (opts.dce /\ b \in Bottom)
                 THEN pending' = {} ELSE pending' = Target(b)
      BY <1>6 DEF VisitBlock
    <2>2. /\ run' = run /\ mod' = mod /\ passes # <<>> /\ Head(passes) = OP
          /\ pc = "blocks" /\ pc' = "blocks" /\ passes' = passes
          /\ mode' = mode /\ seed' = seed /\ pending = {}
      BY <1>6 DEF VisitBlock, Control
    <2>3. CASE Home[c] = b
      <3>1. c \in Due => c \in pending'
        BY <2>1, <2>3 DEF Due
      <3>2. ~ Expanded(c)
        BY <1>0, <2>1, <2>2, <2>3 DEF Expanded
      <3>3. ~ Expanded(c)'
        BY <1>0, <2>2, <3>1 DEF Expanded
      <3> QED BY <1>0, <1>a, <1>b, <2>2, <3>2, <3>3
    <2>4. CASE Home[c] # b
      <3>1. c \notin pending'
        BY <2>1, <2>4 DEF Target
      <3>2. Expanded(c)' <=> Expanded(c)
        BY <1>0, <2>1, <2>2, <2>4, <3>1 DEF Expanded
      <3> QED BY <1>0, <1>a, <1>b, <2>2, <3>2
    <2> QED BY <2>3, <2>4
  <1>7. CASE ExpandConstraint
    <2>1. PICK x \in pending : \E f \in GenCode(x) :
             /\ pending' = pending \ {x}
             /\ FormsNow(x)' = FormsNow(x) \cup Kept(f)
             /\ \A d \in Cst \ {x} : FormsNow(d)' = FormsNow(d)
      BY <1>7, ExpandForms
    <2>2. PICK f \in GenCode(x) :
             /\ pending' = pending \ {x}
             /\ FormsNow(x)' = FormsNow(x) \cup Kept(f)
             /\ \A d \in Cst \ {x} : FormsNow(d)' = FormsNow(d)
      BY <2>1
    <2>3. /\ run' = run /\ passes # <<>> /\ Head(passes) = OP /\ left' = left
          /\ pc = "blocks" /\ pc' = "blocks" /\ passes' = passes
          /\ mode' = mode /\ seed' = seed
      BY <1>7 DEF ExpandConstraint, Control
    <2>4. CASE c = x
      <3>1. ~ Expanded(c)
        BY <1>0, <2>1, <2>3, <2>4 DEF Expanded
      <3>2. FormsNow(c) = {}
        BY <1>0, <2>3, <3>1 DEF AssumptionsNow
      <3>3. FormsNow(c)' = Kept(f)
        BY <2>2, <2>4, <3>2
      <3>4. Expanded(c)'
        <4>1. c \in Due /\ Home[c] \notin left
          BY <2>1, <2>4 DEF Progress
        <4>2. ~ opts.disableCrab
          BY <2>3, ListFacts DEF Control
        <4> QED BY <1>0, <2>2, <2>3, <2>4, <4>1, <4>2 DEF Expanded
      <3>5. /\ Conforming(Kept(f), mode, c)
            /\ seed = -1 => Kept(f) = BaseForm(c)
        BY <2>4, GenKept
      <3> QED BY <2>3, <3>3, <3>4, <3>5
    <2>5. CASE c # x
      <3>1. Expanded(c)' <=> Expanded(c)
        BY <1>0, <2>2, <2>3, <2>5 DEF Expanded
      <3> QED BY <1>0, <1>a, <2>2, <2>3, <2>5, <3>1
    <2> QED BY <2>4, <2>5
  <1>8. CASE RemoveDeadCode
    <2>1. /\ run' = run /\ passes # <<>> /\ Head(passes) = OP /\ left = {} /\ pending = {}
          /\ pc = "blocks" /\ pc' = "pass" /\ passes' = Tail(passes)
          /\ mode' = mode /\ seed' = seed
      BY <1>8 DEF RemoveDeadCode, Control
    <2>2. dead = {}
      BY <2>1 DEF DeadCode
    <2>3. mod' = [b \in Blocks |-> mod[b]]
      BY <1>8, <2>2 DEF RemoveDeadCode
    <2>4. mod' = mod
      BY <2>3 DEF TypeOK
    <2>5. Tail(passes) # <<>> /\ Head(Tail(passes)) = WR
      BY <1>0, <2>1, LaterLists DEF Control
    <2>6. Expanded(c)' <=> Expanded(c)
      BY <1>0, <2>1, <2>5 DEF Expanded
    <2> QED BY <1>0, <1>a, <1>b, <2>1, <2>4, <2>6
  <1>9. CASE Write
    <2>1. /\ run' = run /\ mod' = mod /\ passes # <<>> /\ Head(passes) = WR
          /\ pc = "pass" /\ pc' = "pass" /\ passes' = Tail(passes)
          /\ mode' = mode /\ seed' = seed
      BY <1>9 DEF Write, Current, WR
    <2>2. passes' = <<>>
      BY <1>0, <2>1, ListFacts DEF Control
    <2>3. Expanded(c)' <=> Expanded(c)
      BY <1>0, <2>1, <2>2 DEF Expanded
    <2> QED BY <1>0, <1>a, <1>b, <2>1, <2>3
  <1>10. CASE Finish \/ CollectCrabCommands \/ UNCHANGED vars
    <2>1. /\ run' = run /\ mod' = mod /\ passes' = passes
          /\ mode' = mode /\ seed' = seed /\ left' = left /\ pending' = pending
          /\ pc = "blocks" <=> pc' = "blocks"
      BY <1>10 DEF Finish, CollectCrabCommands, Current, vars, optVars
    <2>2. Expanded(c)' <=> Expanded(c)
      BY <1>0, <2>1 DEF Expanded
    <2> QED BY <1>0, <1>a, <1>b, <2>1, <2>2
  <1> QED BY <1>2, <1>3, <1>4, <1>5, <1>6, <1>7, <1>8, <1>9, <1>10 DEF Next, Stopped

LEMMA OracleAdded ==
  ASSUME TypeOK, Control, Progress, ExpandConstraint,
         NEW b \in Blocks, NEW i \in mod'[b] \ mod[b],
         i.op = "assert", i.name = "oracle_assert_"
  PROVE  i.cst \in Cst /\ Reference(i.cst) = {i.form}
  <1>1. PICK c \in pending : \E f \in GenCode(c) : \E A \in Asserted(c, f) :
          mod' = [mod EXCEPT ![Home[c]] = @ \cup Assumed(c, f) \cup A]
    BY DEF ExpandConstraint
  <1>2. PICK f \in GenCode(c) : \E A \in Asserted(c, f) :
          mod' = [mod EXCEPT ![Home[c]] = @ \cup Assumed(c, f) \cup A]
    BY <1>1
  <1>3. PICK A \in Asserted(c, f) :
          mod' = [mod EXCEPT ![Home[c]] = @ \cup Assumed(c, f) \cup A]
    BY <1>2
  <1>4. i \in Assumed(c, f) \cup A
    BY <1>3 DEF TypeOK
  <1>5. i \notin Assumed(c, f)
    BY DEF Assumed, Call, I
  <1>6. ~ (add = 0 \/ f \in {"none", "dropped"})
    BY <1>4, <1>5 DEF Asserted
  <1>7. PICK r \in RandomAssert(c), s \in StrongerAssert(c) :
          A = r \cup s \cup OracleAssert(c)
    BY <1>6 DEF Asserted
  <1>8. i \notin r
    BY DEF RandomAssert, Call, I
  <1>9. i \notin s
    BY DEF StrongerAssert, Call, I
  <1>10. i \in OracleAssert(c)
    BY <1>4, <1>5, <1>7, <1>8, <1>9
  <1>11. i.cst = c /\ i.form = IF Kind[c] = "contradiction" THEN "false" ELSE "asis"
    BY <1>10 DEF OracleAssert, Call, I
  <1>12. c \in Cst /\ c \in Due /\ ~ opts.disableCrab
    BY ListFacts DEF ExpandConstraint, Progress, Control, Due
  <1>13. seed = -1
    BY <1>6 DEF Control, AddOf, Progress
  <1>14. BaseForm(c) = {f}
    BY <1>6, <1>12, <1>13, GenKept DEF Kept
  <1>15. BaseForm(c) = {i.form}
    BY <1>11, <1>14 DEF BaseForm
  <1> QED BY <1>11, <1>12, <1>15 DEF Reference

LEMMA ReferenceSteady ==
  ASSUME TypeOK, Progress, DeadCode, [Next]_vars
  PROVE  \A c : Reference(c)' = Reference(c)
  BY DueSteady DEF Reference, BaseForm

\* a written file is what the module was when it was written
LEMMA FilesGrow ==
  ASSUME TypeOK, [Next]_vars
  PROVE  \/ files' = files
         \/ /\ Write
            /\ files' = Append(files, [mode |-> mode, seed |-> seed, body |-> mod, succ |-> succ])
  BY DEF Next, Stopped, NextRun, Finish, DeleteAssume, CollectCrabCommands,
         EraseCrabCommand, EndErase, StartOptimizer, VisitBlock, ExpandConstraint,
         RemoveDeadCode, Write, vars

LEMMA FilesAppended ==
  ASSUME TypeOK, NEW new, files' = Append(files, new), NEW k \in DOMAIN files'
  PROVE  \/ k \in DOMAIN files /\ files'[k] = files[k]
         \/ k = Len(files) + 1 /\ files'[k] = new
  BY AppendProperties DEF TypeOK

LEMMA OraclesStep ==
  ASSUME TypeOK, Control, DeadCode, Progress, Oracles, [Next]_vars
  PROVE  Oracles'
  <1>r. \A c : Reference(c)' = Reference(c)
    BY ReferenceSteady
  <1>1. ASSUME NEW b \in Blocks, NEW i \in mod'[b], i.op = "assert", i.name = "oracle_assert_"
        PROVE  i.cst \in Cst /\ Reference(i.cst)' = {i.form}
    <2>1. CASE i \in mod[b]
      <3>1. OraclesFounded(mod[b])
        BY DEF Oracles
      <3> QED BY <1>1, <1>r, <2>1, <3>1 DEF OraclesFounded
    <2>2. CASE i \notin mod[b]
      <3>1. ExpandConstraint
        BY <1>1, <2>2 DEF Next, Stopped, NextRun, Finish, DeleteAssume, CollectCrabCommands,
              EraseCrabCommand, EndErase, StartOptimizer, VisitBlock,
              RemoveDeadCode, Write, vars, TypeOK
      <3> QED BY <1>1, <1>r, <2>2, <3>1, OracleAdded
    <2> QED BY <2>1, <2>2
  <1>2. \A b \in Blocks : OraclesFounded(mod[b])'
    BY <1>1 DEF OraclesFounded
  <1>3. ASSUME NEW k \in DOMAIN files', NEW b \in Blocks
        PROVE  OraclesFounded(files[k].body[b])'
    <2>1. CASE k \in DOMAIN files /\ files'[k] = files[k]
      <3>1. OraclesFounded(files[k].body[b])
        BY <2>1 DEF Oracles
      <3> QED BY <1>r, <2>1, <3>1 DEF OraclesFounded
    <2>2. CASE files'[k].body = mod
      <3>1. OraclesFounded(mod[b])
        BY DEF Oracles
      <3> QED BY <1>r, <2>2, <3>1 DEF OraclesFounded
    <2>3. CASE files' = files
      BY <2>1, <2>3
    <2> QED BY <2>1, <2>2, <2>3, FilesGrow, FilesAppended
  <1> QED BY <1>2, <1>3 DEF Oracles

LEMMA AssumptionsWrittenStep ==
  ASSUME TypeOK, Control, FilesWritten, DeadCode, Progress, AssumptionsNow,
         AssumptionsWritten, [Next]_vars
  PROVE  AssumptionsWritten'
  <1>r. \A c : Reference(c)' = Reference(c)
    BY ReferenceSteady
  <1>1. CASE files' = files
    BY <1>1, <1>r DEF AssumptionsWritten, AssumedForms
  <1>2. CASE Write /\ files' = Append(files, [mode |-> mode, seed |-> seed,
                                              body |-> mod, succ |-> succ])
    <2> SUFFICES ASSUME NEW k \in DOMAIN files', NEW c \in Cst
                 PROVE  /\ AssumedForms(k, c)'
                             \in Suite!Admissible(files'[k].mode, Reference(c))
                        /\ k = 1 => AssumedForms(k, c)' = Reference(c)
      BY <1>r DEF AssumptionsWritten, Suite!Admissible
    <2>1. CASE k \in DOMAIN files /\ files'[k] = files[k]
      <3>1. AssumedForms(k, c)' = AssumedForms(k, c)
        BY <2>1 DEF AssumedForms
      <3> QED BY <2>1, <3>1 DEF AssumptionsWritten
    <2>2. CASE k = Len(files) + 1
               /\ files'[k] = [mode |-> mode, seed |-> seed, body |-> mod, succ |-> succ]
      <3>1. AssumedForms(k, c)' = FormsNow(c) /\ files'[k].mode = mode
        BY <2>2 DEF AssumedForms, FormsNow, FormsIn
      <3>2. passes # <<>> /\ Head(passes) = WR /\ pc = "pass" /\ run # 0 /\ run >= 1
        BY <1>2, ListFacts DEF Write, Current, WR, Control, TypeOK
      <3>3. WR # DA
        BY DEF WR, DA
      <3>4. IF Expanded(c) THEN /\ Conforming(FormsNow(c), mode, c)
                                /\ seed = -1 => FormsNow(c) = BaseForm(c)
                           ELSE FormsNow(c) = {}
        BY <3>2, <3>3 DEF AssumptionsNow
      <3>5. Expanded(c) <=> c \in Due /\ ~ opts.disableCrab
        BY <3>2 DEF Expanded
      <3>6. FormsNow(c) \in Suite!Admissible(mode, Reference(c))
        BY <3>4, <3>5, AdmissibleForms DEF Reference, Conforming
      <3>7. k = 1 => seed = -1
        <4>1. Len(files) \in Nat /\ run \in Nat /\ Len(files) = run - 1
          BY <3>2 DEF FilesWritten, TypeOK
        <4>2. k = 1 => run = 1
          BY <2>2, <4>1
        <4> QED BY <4>2 DEF Progress
      <3>8. k = 1 => FormsNow(c) = Reference(c)
        BY <3>4, <3>5, <3>7 DEF Reference
      <3> QED BY <3>1, <3>6, <3>8
    <2> QED BY <1>2, <2>1, <2>2, FilesAppended
  <1> QED BY <1>1, <1>2, FilesGrow

LEMMA CInvInit == Init => CInv
  <1> SUFFICES ASSUME Init PROVE CInv
    OBVIOUS
  <1>1. run = 0 /\ seed = -1 /\ files = <<>> /\ dead = {} /\ pending = {}
    BY DEF Init
  <1>2. Progress /\ AssumptionsNow /\ AssumptionsWritten
    BY <1>1 DEF Progress, AssumptionsNow, AssumptionsWritten
  <1>3. \A b \in Blocks : \A i \in mod[b] : i.name = "user"
    BY DEF Init, UserCode, I
  <1>4. Oracles
    BY <1>1, <1>3 DEF Oracles, OraclesFounded
  <1> QED BY <1>2, <1>4 DEF CInv

LEMMA CInvariant == Spec => [](IInv /\ CInv)
  <1>1. IInv /\ CInv /\ [Next]_vars => CInv'
    BY ProgressStep, AssumptionsNowStep, AssumptionsWrittenStep, OraclesStep DEF IInv, CInv
  <1> QED BY Invariant, CInvInit, <1>1, PTL DEF Spec

\* The invariants asserted as oracles in run 0 are, in initial.bc, assumed
\* unchanged at the same place, for every function and every choice of options:
\* both runs expand the same constraints, with the same outcome.
THEOREM OraclesHold == Spec => []OraclesAssumedInInitial
  <1>1. IInv /\ CInv => OraclesAssumedInInitial
    <2> SUFFICES ASSUME IInv, CInv, NEW k \in DOMAIN files, NEW b \in Blocks,
                        NEW i \in files[k].body[b],
                        i.op = "assert", i.name = "oracle_assert_"
                 PROVE  AssumedForms(1, i.cst) = {i.form}
      BY DEF OraclesAssumedInInitial
    <2>1. i.cst \in Cst /\ Reference(i.cst) = {i.form}
      BY DEF CInv, Oracles, OraclesFounded
    <2>2. 1 \in DOMAIN files
      BY DEF IInv, TypeOK
    <2> QED BY <2>1, <2>2 DEF CInv, AssumptionsWritten
  <1> QED BY CInvariant, <1>1, PTL

-----------------------------------------------------------------------------
(* Refinement.                                                             *)

\* the variables of MetamorphicSuite, as Pipeline keeps them
Published == [k \in DOMAIN files |->
               [mode |-> files[k].mode, program |-> <<Program(files[k].body)>>,
                assumed |-> [c \in Cst |-> AssumedForms(k, c)]]]
UnderTest == IF run = 0 THEN NoProgram ELSE <<Program(mod)>>

LEMMA SuiteInit == Init => Suite!Init
  <1> SUFFICES ASSUME Init PROVE Suite!Init
    OBVIOUS
  <1>1. run = 0 /\ DOMAIN files = {}
    BY DEF Init
  <1>2. Published = <<>>
    BY <1>1 DEF Published
  <1> QED BY <1>1, <1>2 DEF Suite!Init, Published

\* a function on 1..n is a sequence of length n
LEMMA FunctionLength ==
  ASSUME NEW n \in Nat, NEW s, s = [k \in 1..n |-> s[k]]
  PROVE  Len(s) = n
  <1> DEFINE R == {s[j] : j \in 1..n}
  <1>1. s \in [1..n -> R]
    OBVIOUS
  <1> HIDE DEF R
  <1>2. s \in Seq(R)
    BY <1>1
  <1> QED BY <1>1, <1>2

\* the suite, as a sequence
LEMMA PublishedLength ==
  ASSUME TypeOK
  PROVE  Len(Published) = Len(files)
  <1>1. DOMAIN files = 1..Len(files) /\ Len(files) \in Nat
    BY DEF TypeOK
  <1>2. Published = [k \in DOMAIN files |-> Published[k]]
    BY DEF Published
  <1>3. Published = [k \in 1..Len(files) |-> Published[k]]
    BY <1>1, <1>2, Zenon
  <1> QED BY <1>1, <1>3, FunctionLength

\* writing a file publishes a variant that conforms to the first
LEMMA WritePublishes ==
  ASSUME IInv, CInv, TypeOK', CInv', Write
  PROVE  Suite!Publish
  <1> DEFINE new == [mode |-> mode, seed |-> seed, body |-> mod, succ |-> succ]
  <1>1. files' = Append(files, new) /\ mod' = mod /\ run' = run
    BY DEF Write
  <1>2. run # 0
    BY ListFacts DEF Write, Current, WR, IInv, Control
  <1>3. UnderTest # NoProgram /\ UnderTest' = UnderTest
    BY <1>1, <1>2 DEF UnderTest, NoProgram
  <1>4. Len(files) \in Nat /\ Len(files') = Len(files) + 1
        /\ files'[Len(files) + 1] = new
        /\ \A n \in 1..Len(files) : files'[n] = files[n]
    BY <1>1, AppendProperties DEF IInv, TypeOK
  <1>5. Len(Published) = Len(files) /\ Len(Published') = Len(files')
    <2>1. Len(Published) = Len(files)
      BY PublishedLength DEF IInv
    <2>2. (TypeOK => Len(Published) = Len(files))'
      BY PublishedLength, PTL
    <2> QED BY <2>1, <2>2
  <1>6. Len(Published') = Len(Published) + 1
    BY <1>4, <1>5
  <1>7. \A n \in 1..Len(Published) : Published'[n] = Published[n]
    <2> SUFFICES ASSUME NEW n \in 1..Len(files) PROVE Published'[n] = Published[n]
      BY <1>5
    <2>1. n \in DOMAIN files /\ n \in DOMAIN files' /\ files'[n] = files[n]
      BY <1>4 DEF IInv, TypeOK
    <2> QED BY <2>1 DEF Published, AssumedForms
  <1>8. Published'[Len(Published')].program = UnderTest
    <2>1. Len(files') \in DOMAIN files' /\ files'[Len(files')].body = mod
      BY <1>4 DEF TypeOK
    <2> QED BY <1>2, <1>5, <2>1 DEF Published, UnderTest
  <1>9. Suite!Conforms(Published'[Len(Published')], Published'[1])
    <2>1. Len(files') \in DOMAIN files' /\ 1 \in DOMAIN files'
      BY <1>4 DEF TypeOK
    <2>2. \A c \in Cst : \A k \in DOMAIN files' :
            /\ AssumedForms(k, c)' \in Suite!Admissible(files'[k].mode, Reference(c)')
            /\ k = 1 => AssumedForms(k, c)' = Reference(c)'
      BY DEF CInv, AssumptionsWritten, Suite!Admissible
    <2>3. \A k \in DOMAIN files' : \A c \in Cst :
            /\ Published'[k].assumed[c] = AssumedForms(k, c)'
            /\ Published'[k].mode = files'[k].mode
      BY DEF Published
    <2> QED BY <1>5, <2>1, <2>2, <2>3 DEF Suite!Conforms
  <1> HIDE DEF new
  <1> QED BY <1>3, <1>6, <1>7, <1>8, <1>9 DEF Suite!Publish, Published, UnderTest

LEMMA SuiteStep ==
  ASSUME IInv, CInv, IInv', CInv', [Next]_vars
  PROVE  Suite!Next \/ (UnderTest' = UnderTest /\ Published' = Published)
  <1>1. CASE Write
    BY <1>1, WritePublishes DEF IInv, Suite!Next
  <1>2. CASE NextRun /\ run = 0
    <2>1. run' # 0 /\ files' = files
      BY <1>2 DEF NextRun
    <2>2. UnderTest = NoProgram /\ UnderTest' # NoProgram /\ Published' = Published
      BY <1>2, <2>1 DEF UnderTest, NoProgram, Published, AssumedForms
    <2> QED BY <2>2 DEF Suite!Next, Suite!Fix, UnderTest, Published
  <1>3. CASE ~ Write /\ ~ (NextRun /\ run = 0)
    <2>1. files' = files
      BY <1>3, FilesGrow DEF IInv
    <2>2. (run = 0 /\ run' = 0) \/ (run >= 1 /\ run' >= 1)
      BY <1>3 DEF Next, Stopped, NextRun, Finish, DeleteAssume, CollectCrabCommands,
         EraseCrabCommand, EndErase, StartOptimizer, VisitBlock, ExpandConstraint,
         RemoveDeadCode, vars, IInv, TypeOK
    <2>3. UnderTest' = UnderTest
      BY <2>2, ProgramKept DEF UnderTest, IInv
    <2>4. Published' = Published
      BY <2>1 DEF Published, AssumedForms
    <2> QED BY <2>3, <2>4
  <1> QED BY <1>1, <1>2, <1>3

\* The files clam writes are a metamorphic suite as MetamorphicSuite specifies
\* it: run 0 fixes the program under test, every Write publishes that program
\* with assumptions comparable to those of initial.bc, constraint by constraint,
\* and every other step of every pass is invisible.
THEOREM PipelineImplementsSuite == Spec => ImplementsSuite
  <1>1. IInv /\ CInv /\ (IInv /\ CInv)' /\ [Next]_vars
          => [Suite!Next]_<<UnderTest, Published>>
    BY SuiteStep
  <1> QED BY CInvariant, SuiteInit, <1>1, PTL
          DEF Spec, ImplementsSuite, Suite!Spec, UnderTest, Published
=============================================================================
