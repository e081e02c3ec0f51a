---------------------------- MODULE PathAnalysis ----------------------------
(***************************************************************************)
(* The path analyser, src/lib/Clam/crab/path_analyzer.cc: the forward      *)
(* analysis of one acyclic path, and when it is infeasible, a subset of    *)
(* its statements, the core, that is enough to make it infeasible.         *)
(***************************************************************************)
EXTENDS AbstractDomain

CONSTANTS Code,      \* block or edge -> the statements of its Crab block
          Edges      \* the pairs of blocks one of which may follow the other

ASSUME CodeAssumption ==
    \A b \in DOMAIN Code : /\ Code[b] \in Seq(ToSet(Code[b]))
                           /\ \A st \in ToSet(Code[b]) : WellTyped(st)

\* A statement of a path: where it is, and what it is.
StmtsOf(b)  == [i \in 1 .. Len(Code[b]) |-> [b |-> b, i |-> i, st |-> Code[b][i]]]
AllStmts(p) == FlattenSeq([k \in 1 .. Len(p) |-> StmtsOf(p[k])])
Exec(d, inv, core) == FoldLeft(LAMBDA v, c : Post(d, v, c.st), inv, core)

\* The number of statements after which the path is bottom, 0 if none.
Earliest(S) == IF S = {} THEN 0 ELSE Least(S)
BottomAt(d, sts) == Earliest({k \in 1 .. Len(sts) : Exec(d, Top, SubSeq(sts, 1, k)) = Bottom})

\* solve_path(): the statements executed, those of the Boolean phase or
\* all, up to the one that gives bottom, and the value each block of the
\* path has at its entry, unless bottom was met before it.
Selected(p, boolOnly) == IF boolOnly THEN SelectSeq(AllStmts(p), LAMBDA c : IsBool(c.st))
                         ELSE AllStmts(p)
Until(n, sts, at) == [ found |-> n # 0,
                       stmts |-> IF n = 0 THEN sts ELSE SubSeq(sts, 1, n),
                       at    |-> at ]
SolvePath(d, p, boolOnly) ==
    Until(BottomAt(d, Selected(p, boolOnly)), Selected(p, boolOnly),
          [k \in 1 .. Len(p) |-> Exec(d, Top, Selected(SubSeq(p, 1, k - 1), boolOnly))])

\* solve(): with layered solving the whole path is executed only when the
\* Boolean statements alone do not give bottom, and what they executed stays
\* in front of the statements of the path.
Layered(first, second) ==
    IF first.found THEN first ELSE [second EXCEPT !.stmts = first.stmts \o @]
Solved(d, p, layered) ==
    IF layered THEN Layered(SolvePath(d, p, TRUE), SolvePath(d, p, FALSE))
    ELSE SolvePath(d, p, FALSE)

\* The blocks are walked in order: one met before ends the program, an
\* edge the graph does not have ends the analysis.
IsConnected(p) == \A k \in 1 .. Len(p) - 1 : <<p[k], p[k + 1]>> \in Edges
Repeats(p)     == \E k \in 2 .. Len(p) : /\ p[k] \in ToSet(SubSeq(p, 1, k - 1))
                                         /\ IsConnected(SubSeq(p, 1, k))

-----------------------------------------------------------------------------
\* remove_irrelevant_statements(): the last statement is where bottom was
\* found.  An assume(false) of its block explains all; a last statement
\* that reads nothing, or is not a guard, explains nothing; otherwise
\* the statements are walked backwards from it, with the variables wanted.
AssumesFalse(b) == SelectSeq(StmtsOf(b), LAMBDA c : c.st = AssumeFalse)

SliceStep(onlyData, acc, c) ==
    LET wanted == IF Defs(c.st) = {}
                  THEN Uses(c.st) # {} /\ (onlyData => Uses(c.st) \cap acc.d # {})
                  ELSE Defs(c.st) \cap acc.d # {}
    IN  IF wanted THEN [ d   |-> (acc.d \ Defs(c.st)) \cup Uses(c.st),
                         out |-> <<c>> \o acc.out ]
        ELSE acc

Slice(sts, onlyData) ==
    LET last == sts[Len(sts)]
        kept == FoldRight(LAMBDA c, acc : SliceStep(onlyData, acc, c),
                          Front(sts), [d |-> Uses(last.st), out |-> <<last>>])
    IN  CASE Len(sts) = 1 ->
               [kind |-> IF last.st = AssumeFalse THEN "trivial" ELSE "explanation",
                core |-> sts]
          [] Len(sts) > 1 /\ AssumesFalse(last.b) # <<>> ->
               [kind |-> "trivial", core |-> <<Last(AssumesFalse(last.b))>>]
          [] Len(sts) > 1 /\ AssumesFalse(last.b) = <<>> ->
               IF last.st.op \notin Guards \/ Uses(last.st) = {}
               THEN [kind |-> "none", core |-> <<>>]
               ELSE [kind |-> "explanation", core |-> kept.out]

\* The semantic phase: each statement in turn is dropped when what is left
\* of the core still gives bottom.
MutDropRedundant(d, core) == core
DropRedundant(d, core) ==
    LET Left(on) == LET s == SetToSortSeq(on, <) IN [k \in 1 .. Len(s) |-> core[s[k]]]
        Drop(on, i) == IF Exec(d, Top, Left(on \ {i})) = Bottom THEN on \ {i} ELSE on
    IN  Left(FoldLeft(Drop, 1 .. Len(core), [i \in 1 .. Len(core) |-> i]))

\* minimize_path(): the data slice if it is enough, else the slice with
\* every guard; then the semantic phase, and the check that ends the
\* program when the core it leaves is not bottom.
Enough(d, data, all) ==
    IF data.kind # "explanation" \/ Exec(d, Top, data.core) = Bottom THEN data ELSE all
Verified(d, slice, core) ==
    [slice EXCEPT !.core = core,
                  !.kind = IF Exec(d, Top, core) = Bottom THEN @ ELSE "abort"]
Semantic(d, slice) ==
    IF slice.kind = "explanation" THEN Verified(d, slice, DropRedundant(d, slice.core)) ELSE slice
MinimizePath(d, sts) == Semantic(d, Enough(d, Slice(sts, TRUE), Slice(sts, FALSE)))

\* solve(): TRUE when the path may be feasible or is not explained.
Answer(res, core, at, abort) == [res |-> res, core |-> core, at |-> at, abort |-> abort]
Explained(min, at) == Answer(min.kind = "none", min.core, at, min.kind = "abort")
AtBlocks(p, at)    == [b \in ToSet(p) |-> at[Least({k \in 1 .. Len(p) : p[k] = b})]]
SolveWith(d, p, path) ==
    IF path.found THEN Explained(MinimizePath(d, path.stmts), AtBlocks(p, path.at))
    ELSE Answer(TRUE, <<>>, AtBlocks(p, path.at), FALSE)
Solve(d, p, layered) ==
    LET nothing == [b \in ToSet(p) |-> Bottom]
    IN  CASE Repeats(p) -> Answer(FALSE, <<>>, nothing, TRUE)
          [] ~Repeats(p) /\ (p = <<>> \/ ~IsConnected(p)) -> Answer(TRUE, <<>>, nothing, FALSE)
          [] ~Repeats(p) /\ p # <<>> /\ IsConnected(p) -> SolveWith(d, p, Solved(d, p, layered))
=============================================================================
