---------------------------- MODULE ClamAnalysis ----------------------------
(***************************************************************************)
(* The analyses of src/lib/Clam/Clam.cc, driven by a client that opens an  *)
(* analysis, runs it and clears it.  There are three of                    *)
(* them: IntraClam ("function"), one per function, which also analyses     *)
(* single paths; IntraGlobalClam ("module"), every function in turn; and   *)
(* InterGlobalClam ("program"), the call graph as a whole.  The functions  *)
(* of the instance do not call each other, so the fixpoint of Crab is the  *)
(* same for all three.                                                     *)
(***************************************************************************)
EXTENDS PathAnalysis, TLC

CONSTANTS
    FunSeq,       \* the functions of the module, in its order
    Tracked,      \* those isTrackable() accepts: with a body, not variadic
    Blocks,       \* function -> its blocks, the entry first, the return last
    EdgeBlocks,   \* the edges translated to a Crab block of their own
    MaxLive,      \* function -> the most variables live in one of its blocks
    relational_threshold,
    Assumptions,  \* the assumptions a client may make: block -> value
    Kinds,        \* the analyses a client may open
    MaxRounds,    \* a bound: the rounds of an analysis
    MaxChecks     \* a bound: no analysis once so many checks are counted

Funs       == ToSet(FunSeq)
BlockSet(f) == ToSet(Blocks[f])
FunOf(b)   == CHOOSE f \in Funs : b \in BlockSet(f)
Nodes(f)   == BlockSet(f) \cup {e \in EdgeBlocks : e[1] \in BlockSet(f)}
NoAssumption == <<>>
NoAnswer     == [op |-> "none"]

\* A block is of one function, an edge of two blocks, and a client may assume
\* nothing.
ASSUME FunctionsAssumption ==
    /\ FunSeq \in Seq(Funs) /\ Tracked \subseteq Funs /\ NoAssumption \in Assumptions
    /\ \A e \in EdgeBlocks : e = <<e[1], e[2]>>
    /\ \A f \in Tracked : IsFiniteSet(Nodes(f))
    /\ \A f, g \in Funs : BlockSet(f) \cap BlockSet(g) # {} => f = g

IsOpen(k)    == k # "closed"

VARIABLES
    kind,         \* the analysis the client opened
    params,       \* AnalysisParams: dom, run_liveness, check, store_invariants
    declared,     \* the manager holds a builder for every function
    built,        \* the functions whose Crab body has been built
    todo,         \* what the analysis of a module has still to do
    results,      \* object -> m_pre_map, m_post_map, infeasible edges, checks
    cache,        \* ClamQueryCache
    under,        \* history: object -> the analyses since it was cleared
    answer,       \* what the client was told last
    stopped       \* CLAM_ERROR ended the program

vars == <<kind, params, declared, built, todo, results, cache, under, answer, stopped>>

Objects == IF kind = "function" THEN Tracked ELSE {"module"}
Object(f) == IF kind = "function" THEN f ELSE "module"

-----------------------------------------------------------------------------
\* Crab's forward analyser, started at a block with the top value: the
\* blocks of the function are met again, each at its entry with what is
\* assumed of it, until a round changes nothing.  All analyses take their
\* rounds together.
Analyses == Tracked \X Doms \X Assumptions
Preds(n) == {p \in DOMAIN Code : <<p, n>> \in Edges}
Into(d, m, n, a, e) ==
    LET inv == Abs(d, (IF n = e THEN Top ELSE Bottom)
                      \cup UNION {Run(d, m[p], Code[p]) : p \in Preds(n)})
    IN  IF n \in DOMAIN a THEN inv \cap a[n] ELSE inv
NextRound(m) ==
    [q \in Analyses |-> [n \in Nodes(q[1]) |-> Into(q[2], m[q], n, q[3], Blocks[q[1]][1])]]
Rounds[k \in 0 .. MaxRounds] ==
    IF k = 0 THEN [q \in Analyses |-> [n \in Nodes(q[1]) |-> Bottom]]
    ELSE LET m    == Rounds[k - 1]
             next == NextRound(m)
         IN  IF next = m THEN m ELSE next
Fixpoint == Rounds[MaxRounds]

\* Control stays in a function, and Crab ends when it has a fixpoint.
ASSUME FixpointAssumption ==
    /\ \A f \in Tracked : /\ Nodes(f) \subseteq DOMAIN Code
                          /\ \A n \in Nodes(f) : Preds(n) \subseteq Nodes(f)
    /\ MaxRounds \in Nat
    /\ NextRound(Fixpoint) = Fixpoint

\* The verdicts of the checker on the assertions of a function.
Assertions(f) == {c \in UNION {{<<n, i>> : i \in DOMAIN Code[n]} : n \in Nodes(f)} :
                    Code[c[1]][c[2]].op \in {"assert", "bool_assert"}}
Passes(c, s)  == Holds(Code[c[1]][c[2]], s)
Arriving(d, fix, c) == Run(d, fix[c[1]], SubSeq(Code[c[1]], 1, c[2] - 1))
Verdict(d, fix, c) ==
    LET inv == Arriving(d, fix, c)
    IN  IF \A s \in inv : Passes(c, s) THEN "safe"
        ELSE IF \A s \in inv : ~Passes(c, s) THEN "error" ELSE "warning"
Verdicts == {"safe", "error", "warning"}
Checks == [q \in Analyses |->
             [v \in Verdicts |-> Cardinality({c \in Assertions(q[1]) :
                                                Verdict(q[2], Fixpoint[q], c) = v})]]

\* An invariant is kept as what it was computed from, the domain and the
\* assumptions: this is its value.
InvAt(key, b) == Fixpoint[<<FunOf(b), key.dom, key.a>>][b]
LastInv(q, n) == Run(q[2], Fixpoint[q][n], Code[n])
NeverLeft == [q \in Analyses |->
                {e \in EdgeBlocks \cap Nodes(q[1]) : LastInv(q, e) = Bottom}]

\* analyzeImpl(): the checks are added to those there are, the blocks that
\* already have an invariant get the new one, the infeasible edges pile up.
NoResults == [ pre |-> <<>>, post |-> <<>>, edges |-> {},
               checks |-> [v \in Verdicts |-> 0] ]

Overwritten(old, new) ==
    [b \in DOMAIN old \cup DOMAIN new |-> IF b \in DOMAIN new THEN new[b] ELSE old[b]]
Analyzed(r, f, d, a) ==
    LET invs == [b \in BlockSet(f) |-> [dom |-> d, a |-> a]]
        done == IF params.store_invariants
                THEN [r EXCEPT !.pre = Overwritten(@, invs), !.post = Overwritten(@, invs),
                               !.edges = @ \cup NeverLeft[<<f, d, a>>]]
                ELSE r
    IN  IF params.check
        THEN [done EXCEPT !.checks = [v \in DOMAIN @ |-> @[v] + Checks[<<f, d, a>>][v]]]
        ELSE done

\* The domain an intra-procedural analysis of f uses, and leaves in the
\* parameters of its caller.
TooManyLive(f) == MaxLive[f] > relational_threshold
DomainFor(f) == IF IsRelational(params.dom) /\ TooManyLive(f) THEN "int" ELSE params.dom

\* IntraClamImpl::analyze() for f: an assumption on a block the builder of f
\* does not know ends the program.
AnalyzeFunction(f, a) ==
    /\ params' = [params EXCEPT !.dom = DomainFor(f)]
    /\ built'  = built \cup {f}
    /\ IF DOMAIN a \subseteq BlockSet(f)
       THEN /\ results' = [results EXCEPT ![Object(f)] = Analyzed(@, f, DomainFor(f), a)]
            /\ under'   = [under EXCEPT ![Object(f)] = @ \cup {<<f, a>>}]
            /\ UNCHANGED stopped
       ELSE stopped' = TRUE /\ UNCHANGED <<results, under>>

\* mkCfgBuilder() is only called while the manager has no builder for f; the
\* first call declares every function of the module, and builds f.
Construct(f) ==
    /\ declared' = TRUE
    /\ built' = IF declared THEN built ELSE built \cup {f}

-----------------------------------------------------------------------------
\* The constructors: IntraClam opens functions one by one, IntraGlobalClam
\* opens a function when it comes to it, InterGlobalClam all of them.
Open(k) ==
    /\ kind = "closed" /\ kind' = k
    /\ declared' = (k = "program")
    /\ built'    = IF k = "program" THEN Tracked ELSE {}
    /\ results'  = [o \in IF k = "function" THEN Tracked ELSE {"module"} |-> NoResults]
    /\ under'    = [o \in DOMAIN results' |-> {}]
    /\ UNCHANGED <<params, todo, cache, answer, stopped>>

OpenFunction(f) ==
    /\ kind = "function" /\ f \notin todo.opened /\ ~stopped
    /\ Construct(f)
    /\ todo' = [todo EXCEPT !.opened = @ \cup {f}]
    /\ UNCHANGED <<kind, params, results, cache, under, answer, stopped>>

Idle == IsOpen(kind) /\ ~stopped /\ todo.funs = <<>>
Total(r)  == r.checks["safe"] + r.checks["error"] + r.checks["warning"]
MayRun(o) == Idle /\ Total(results[o]) < MaxChecks

\* IntraClam::analyze().
AnalyzeOne(f, a) ==
    /\ kind = "function" /\ f \in todo.opened /\ MayRun(f)
    /\ AnalyzeFunction(f, a)
    /\ answer' = NoAnswer
    /\ UNCHANGED <<kind, declared, todo, cache>>

\* IntraGlobalClam::analyze(), and one turn of its loop.
AnalyzeModule(a) ==
    /\ kind = "module" /\ MayRun("module")
    /\ todo' = [todo EXCEPT !.funs = FunSeq, !.a = a]
    /\ answer' = NoAnswer
    /\ UNCHANGED <<kind, params, declared, built, results, cache, under, stopped>>

AnalyzeNext ==
    /\ kind = "module" /\ todo.funs # <<>> /\ ~stopped
    /\ IF Head(todo.funs) \in Tracked
       THEN declared' = TRUE /\ AnalyzeFunction(Head(todo.funs), todo.a)
       ELSE UNCHANGED <<params, declared, built, results, under, stopped>>
    /\ todo' = [todo EXCEPT !.funs = Tail(@)]
    /\ UNCHANGED <<kind, cache, answer>>

\* InterGlobalClam::analyze(): the assumptions are not used, and the domain
\* is the one asked for, whatever the liveness analysis found.
AnalyzedIfTracked(r, f) ==
    IF f \in Tracked THEN Analyzed(r, f, params.dom, NoAssumption) ELSE r
AnalyzeProgram(a) ==
    /\ kind = "program" /\ MayRun("module")
    /\ results' = [results EXCEPT !["module"] = FoldLeft(AnalyzedIfTracked, @, FunSeq)]
    /\ under'   = [under EXCEPT !["module"] = @ \cup {<<f, NoAssumption>> : f \in Tracked}]
    /\ answer'  = NoAnswer
    /\ UNCHANGED <<kind, params, declared, built, todo, cache, stopped>>

\* clear(), and releaseMemory() of the pass: the results go, the cache of
\* the queries stays.
MutClear(o) ==
    /\ Idle /\ o \in Objects
    /\ results' = [results EXCEPT ![o] = [NoResults EXCEPT !.edges = results[o].edges]]
    /\ under'   = [under EXCEPT ![o] = {}]
    /\ answer'  = NoAnswer
    /\ UNCHANGED <<kind, params, declared, built, todo, cache, stopped>>
Clear(o) ==
    /\ Idle /\ o \in Objects
    /\ results' = [results EXCEPT ![o] = NoResults]
    /\ under'   = [under EXCEPT ![o] = {}]
    /\ answer'  = NoAnswer
    /\ UNCHANGED <<kind, params, declared, built, todo, cache, stopped>>

hasFeasibleEdge(o, b1, b2) == <<b1, b2>> \notin results[o].edges

\* The verdict ClamPass prints when it was asked to check.
MutBrunch(r) ==
    IF Total(r) = 0 THEN "NOCHECKS"
    ELSE IF r.checks["warning"] = 0 THEN "TRUE" ELSE "INCONCLUSIVE"
Brunch(r) ==
    IF Total(r) = 0 THEN "NOCHECKS"
    ELSE IF r.checks["error"] > 0 THEN "FALSE"
    ELSE IF r.checks["warning"] = 0 THEN "TRUE" ELSE "INCONCLUSIVE"
=============================================================================
