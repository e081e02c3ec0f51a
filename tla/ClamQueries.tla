---------------------------- MODULE ClamQueries -----------------------------
(***************************************************************************)
(* What a client asks of the analyses: the ranges and tags of the query    *)
(* cache, src/lib/Clam/ClamQueryCache.cc, the verdict of the pass and the  *)
(* analysis of a path, src/lib/Clam/Clam.cc.  A client asks in any order,  *)
(* before, between and after analyses.                                     *)
(***************************************************************************)
EXTENDS ClamAnalysis

CONSTANTS
    Mod,          \* 2 to the bits of an integer instruction
    TagOf,        \* reference -> the variable that holds its region's tags
    Asked,        \* the blocks and values a client asks about
    Paths,        \* the sequences of blocks it asks about
    MaxCached     \* a bound on the answers cached

ASSUME QueriesAssumption ==
    /\ Mod \in Nat \ {0}
    /\ DOMAIN TagOf \subseteq Vars /\ \A v \in DOMAIN TagOf : TagOf[v] \in Bools
    /\ \A q \in Asked : q[1] \in DOMAIN Code

-----------------------------------------------------------------------------
\* The query cache.  ConstantRange(l, u) are the numbers of a type from l up to
\* u, u left out, modulo Mod; equal bounds are only meant for the full range,
\* when they are the greatest number, and the empty one.
FullRange == 0 .. Mod - 1
Wrapped(l, u) ==
    IF l = u THEN (IF l = Mod - 1 THEN FullRange ELSE {})
    ELSE {(l + k) % Mod : k \in 0 .. ((u - l) % Mod) - 1}
getConstantRange(lb, ub) ==
    IF lb = ub THEN {lb % Mod} ELSE Wrapped(lb % Mod, (ub + 1) % Mod)

IsFinite(inv, v) == inv # Bottom /\ Values(inv, v) \cap {Lo, Hi} = {}
RangeOf(inv, v)  == getConstantRange(Least(Values(inv, v)), Greatest(Values(inv, v)))

\* range(I): the invariant of the block is pushed through its statements to
\* the first one that defines I alone, and gives a finite interval for it.
After(pre, b, i) == Run(pre.dom, pre.inv, SubSeq(Code[b], 1, i))
Known(pre, b, v) == {i \in DOMAIN Code[b] :
                       /\ Code[b][i].x = v
                       /\ LET inv == After(pre, b, i) IN inv = Bottom \/ IsFinite(inv, v)}
MutRangeAt(pre, b, v) == RangeOf(After(pre, b, Least(Known(pre, b, v)) - 1), v)
RangeAt(pre, b, v) ==
    LET inv == After(pre, b, Least(Known(pre, b, v)))
    IN  IF inv = Bottom THEN {} ELSE RangeOf(inv, v)

PreOf(b)   == [ dom |-> results["module"].pre[b].dom,
                inv |-> InvAt(results["module"].pre[b], b) ]
HasPre(b)  == b \in DOMAIN results["module"].pre
Queries(key) == /\ kind \in {"module", "program"} /\ Idle
                /\ key \notin DOMAIN cache => Cardinality(DOMAIN cache) < MaxCached

\* What is found out, and (history) the invariant it is found out of.
NoInvariant  == [dom |-> "none", a |-> NoAssumption]
Unknown(x)   == [is |-> x, of |-> NoInvariant]
Found(b, x)  == [is |-> x, of |-> results["module"].pre[b]]

Told(op, b, v, x) == answer' = [op |-> op, b |-> b, v |-> v, is |-> x.is, of |-> x.of]
Cached(key, x) == cache' = [k \in DOMAIN cache \cup {key} |-> IF k = key THEN x ELSE cache[k]]
Same == UNCHANGED <<kind, params, declared, todo, results, under, stopped>>

range(b, v) ==
    LET key == <<"range", b, v>> IN
    /\ Queries(key) /\ v \in Vars \ Bools /\ v \in {Code[b][i].x : i \in DOMAIN Code[b]}
    /\ Same
    /\ IF key \in DOMAIN cache
       THEN Told("range", b, v, cache[key]) /\ UNCHANGED <<cache, built>>
       ELSE IF HasPre(b) /\ declared /\ Known(PreOf(b), b, v) # {}
       THEN /\ Cached(key, Found(b, RangeAt(PreOf(b), b, v)))
            /\ Told("range", b, v, Found(b, RangeAt(PreOf(b), b, v)))
            /\ built' = built \cup {FunOf(b)}
       ELSE Told("range", b, v, Unknown(FullRange)) /\ UNCHANGED <<cache, built>>

\* range(B, V): the interval at the entry of the block.
rangeAtEntry(b, v) ==
    LET key == <<"entry", b, v>> IN
    /\ Queries(key) /\ v \in Vars \ Bools
    /\ Same /\ UNCHANGED built
    /\ IF key \in DOMAIN cache
       THEN Told("entry", b, v, cache[key]) /\ UNCHANGED cache
       ELSE IF HasPre(b) /\ PreOf(b).inv = Bottom
       THEN Told("entry", b, v, Found(b, {})) /\ UNCHANGED cache
       ELSE IF HasPre(b) /\ declared /\ IsFinite(PreOf(b).inv, v)
       THEN /\ Cached(key, Found(b, RangeOf(PreOf(b).inv, v)))
            /\ Told("entry", b, v, Found(b, RangeOf(PreOf(b).inv, v)))
       ELSE Told("entry", b, v, Unknown(FullRange)) /\ UNCHANGED cache

\* tags(I) and tags(B, V): both read the tags at the entry of the block.
AnyTags == 0 .. 1
TagsIn(inv, v) == IF inv # Bottom /\ Values(inv, TagOf[v]) # 0 .. 1
                  THEN Values(inv, TagOf[v]) ELSE AnyTags
tags(b, v, ofInst) ==
    LET op  == IF ofInst THEN "tags" ELSE "tagsAtEntry"
        key == <<op, b, v>> IN
    /\ Queries(key) /\ v \in DOMAIN TagOf
    /\ ofInst => v \in {Code[b][i].x : i \in DOMAIN Code[b]}
    /\ Same
    /\ IF key \in DOMAIN cache
       THEN Told(op, b, v, cache[key]) /\ UNCHANGED <<cache, built>>
       ELSE IF HasPre(b) /\ declared /\ TagsIn(PreOf(b).inv, v) # AnyTags
       THEN /\ Cached(key, Found(b, TagsIn(PreOf(b).inv, v)))
            /\ Told(op, b, v, Found(b, TagsIn(PreOf(b).inv, v)))
            /\ built' = IF ofInst THEN built \cup {FunOf(b)} ELSE built
       ELSE Told(op, b, v, Unknown(AnyTags)) /\ UNCHANGED <<cache, built>>

-----------------------------------------------------------------------------
\* pathAnalyze(): the blocks of a function not built yet have no label, its
\* entry and its return block excepted, and its edges have none.
LabelOf(f) == IF f \in built THEN Nodes(f) ELSE {Head(Blocks[f]), Last(Blocks[f])}
CrabPath(bs, labels) ==
    FlattenSeq([k \in 1 .. Len(bs) |->
                  IF k < Len(bs) /\ <<bs[k], bs[k + 1]>> \in labels
                  THEN <<bs[k], <<bs[k], bs[k + 1]>>>> ELSE <<bs[k]>>])

\* pathAnalyzeImpl(): the blocks up to the first bottom get an invariant, of
\* which only this is kept: whether it is not bottom.
PostOf(path, at) ==
    LET bs  == SelectSeq(path, LAMBDA n : n \notin EdgeBlocks)
        bot == {k \in 1 .. Len(bs) : at[bs[k]] = Bottom}
        n   == IF bot = {} THEN Len(bs) ELSE Least(bot)
    IN  [b \in ToSet(SubSeq(bs, 1, n)) |-> at[b] # Bottom]

CrabPaths == {CrabPath(bs, labels) : bs \in Paths, labels \in {{}, EdgeBlocks}}
Solution == [d \in Doms, p \in CrabPaths, l \in BOOLEAN |-> Solve(d, p, l)]

PathAnswer(path, s, whole) ==
    [ op |-> "path", path |-> path, whole |-> whole, dom |-> params.dom, res |-> s.res,
      abort |-> s.abort, core |-> IF s.res THEN <<>> ELSE s.core, post |-> PostOf(path, s.at) ]
pathAnalyze(f, bs, layered) ==
    LET path == CrabPath(bs, LabelOf(f) \cap EdgeBlocks)
    IN  /\ kind = "function" /\ f \in todo.opened /\ Idle
        /\ IF ToSet(bs) \subseteq LabelOf(f)
           THEN /\ built' = built \cup {f}
                /\ answer' = PathAnswer(path, Solution[params.dom, path, layered], f \in built)
                /\ stopped' = answer'.abort
           ELSE /\ stopped' = TRUE /\ answer' = NoAnswer /\ UNCHANGED built
        /\ UNCHANGED <<kind, params, declared, todo, results, cache, under>>

-----------------------------------------------------------------------------
Init ==
    /\ kind = "closed" /\ declared = FALSE /\ built = {} /\ stopped = FALSE
    /\ params \in [dom : Doms, check : BOOLEAN, store_invariants : BOOLEAN]
    /\ todo = [opened |-> {}, funs |-> <<>>, a |-> NoAssumption]
    /\ results = <<>> /\ cache = <<>> /\ under = <<>> /\ answer = NoAnswer

Next ==
    \/ \E k \in Kinds : Open(k)
    \/ \E f \in Tracked : OpenFunction(f)
    \/ \E f \in Tracked, a \in Assumptions : AnalyzeOne(f, a)
    \/ \E a \in Assumptions : AnalyzeModule(a)
    \/ AnalyzeNext
    \/ \E a \in Assumptions : AnalyzeProgram(a)
    \/ \E o \in Objects : Clear(o)
    \/ \E q \in Asked : \/ range(q[1], q[2])
                        \/ rangeAtEntry(q[1], q[2])
                        \/ \E ofInst \in BOOLEAN : tags(q[1], q[2], ofInst)
    \/ \E f \in Tracked, layered \in BOOLEAN :
          \E bs \in Paths : ToSet(bs) \subseteq BlockSet(f) /\ pathAnalyze(f, bs, layered)

Spec == Init /\ [][Next]_vars

-----------------------------------------------------------------------------
\* The stores at the entry of a block, and past its first i statements, of
\* the executions that an answer is about: those the assumptions of the
\* analysis that it comes from allow, or all if it comes from none.
Reaching(b, of) ==
    IF of = NoInvariant THEN Top ELSE Fixpoint[<<FunOf(b), "zones", of.a>>][b]
Reached(b, of, i) == Run("zones", Reaching(b, of), SubSeq(Code[b], 1, i))
Numbers(s, v)  == IF s[v] \in {Lo, Hi} THEN FullRange ELSE {s[v] % Mod}
DefsOf(b, v)   == {i \in DOMAIN Code[b] : Code[b][i].x = v}
LastDef(b, v)  == Greatest(DefsOf(b, v))

\* Known and excluded: an interval as wide as the type or wider wraps around
\* to an empty or a wrong range; of a value a block defines twice the first
\* interval is told; and the tags of an instruction are those of the entry
\* of its block, whatever the block adds before it.
TooWide(inv, v) == Greatest(Values(inv, v)) - Least(Values(inv, v)) >= Mod - 1
InvOf(b, of)    == [dom |-> of.dom, inv |-> InvAt(of, b)]
Excluded(op, b, v, of) ==
    \/ op \in {"range", "entry"} /\ of # NoInvariant /\
         LET inv == IF op = "entry" THEN InvAt(of, b)
                    ELSE After(InvOf(b, of), b, LastDef(b, v))
         IN  inv # Bottom /\ TooWide(inv, v)
    \/ op = "range" /\ Cardinality(DefsOf(b, v)) > 1
    \/ op = "tags" /\ TagOf[v] \in {Code[b][i].x : i \in DOMAIN Code[b]}

\* The set n of numbers or tags holds what the executions give the value.
Holding(op, b, v, of, n) ==
    CASE op = "range" -> \A s \in Reached(b, of, LastDef(b, v)) : Numbers(s, v) \subseteq n
      [] op = "entry" -> \A s \in Reaching(b, of) : Numbers(s, v) \subseteq n
      [] op = "tags"  -> \A s \in Reached(b, of, LastDef(b, v) - 1) : s[TagOf[v]] \in n
      [] op = "tagsAtEntry" -> \A s \in Reaching(b, of) : s[TagOf[v]] \in n

\* What a query answers holds of every execution that the analysis it comes
\* from allows: each number an execution gives the value, at the entry of the
\* block or past the instruction, is in the range, and each tag in the tags;
\* whatever was analysed, cleared and asked before (ClamQueryCache.cc:73-243,
\* Clam.cc:627-632).
AnswersSound ==
    answer.op \in {"range", "entry", "tags", "tagsAtEntry"} =>
      \/ Excluded(answer.op, answer.b, answer.v, answer.of)
      \/ Holding(answer.op, answer.b, answer.v, answer.of, answer.is)

\* An edge is reported infeasible only if some analysis since the last
\* clear() looked at executions none of which takes it (Clam.cc:402-410,
\* 599-602, 627-632): the optimiser removes such edges.
EdgesSound ==
    \A o \in DOMAIN results : \A e \in EdgeBlocks :
      ~hasFeasibleEdge(o, e[1], e[2]) =>
      \E u \in under[o] : /\ e \in Nodes(u[1])
                         /\ Run("zones", Fixpoint[<<u[1], "zones", u[2]>>][e], Code[e]) = Bottom

\* The stores that reach an assertion, of the executions an analysis allows.
Reaches(u, c) == Arriving("zones", Fixpoint[<<u[1], "zones", u[2]>>], c)

\* The verdict of the pass, of the analyses since the last clear(): TRUE only
\* if no execution they allow fails an assertion, FALSE only if one of them
\* has an assertion that no execution it allows passes, NOCHECKS only if the
\* functions analysed so far have none (Clam.cc:1369-1381).
VerdictSound ==
    (kind \in {"module", "program"} /\ params.check) =>
      LET v == Brunch(results["module"])
          us == under["module"] IN
      /\ v = "TRUE"  => \A u \in us : \A c \in Assertions(u[1]) :
                          \A s \in Reaches(u, c) : Passes(c, s)
      /\ v = "FALSE" => \E u \in us : \E c \in Assertions(u[1]) :
                          \A s \in Reaches(u, c) : ~Passes(c, s)
      /\ v = "NOCHECKS" => \A u \in us : Assertions(u[1]) = {}

\* What a path does when every statement outside its core is forgotten:
\* a guard passes, an assignment gives any value.
Weakened(d, path, core) ==
    FoldLeft(LAMBDA inv, c :
               IF c \in ToSet(core) THEN Post(d, inv, c.st)
               ELSE IF Defs(c.st) = {} THEN inv
               ELSE Post(d, inv, Stmt("havoc", c.st.x, None, 0)),
             Top, AllStmts(path))
IsSubPath(core, path) == ToSet(core) \subseteq ToSet(AllStmts(path))
\* Known and excluded: a variable the path writes twice, a region with two
\* stores, whose first value may stand in for the second one in the core.
Rewritten(path) == \E c, e \in ToSet(AllStmts(path)) :
                     c # e /\ Defs(c.st) \cap Defs(e.st) # {}

\* Known and excluded: the path is bottom first past a statement that reads
\* nothing, an assert(false), which gives the slice nothing to start from; and
\* a Boolean forgotten between two statements of the Boolean phase, which
\* passes over the havoc and goes on with the old value.
Unexplained(d, path) ==
    LET k == BottomAt(d, AllStmts(path))
    IN  k > 1 /\ Uses(AllStmts(path)[k].st) = {}
StaleBoolean(path) ==
    LET at == AllStmts(path)
    IN  \E i, j, k \in DOMAIN at :
          /\ i < j /\ j < k /\ IsBool(at[i].st) /\ IsBool(at[k].st)
          /\ at[j].st.op = "havoc" /\ at[j].st.x \in Bools
          /\ at[j].st.x \in (Defs(at[i].st) \cup Uses(at[i].st)) \cap Uses(at[k].st)

\* A path through a function that is built is reported infeasible only when
\* its statements are, or a Boolean is stale; an infeasible one is reported
\* so, unless bottom comes at a statement that reads nothing, and then with a
\* core that alone makes it infeasible, and from which no statement can be
\* left out; only a path that meets a block twice ends the program
\* (path_analyzer.cc:87-172, 306-312, 380-491).
PathExplained ==
    answer.op = "path" =>
      LET path == answer.path  d == answer.dom
          infeasible == Exec(d, Top, AllStmts(path)) = Bottom IN
      /\ answer.abort <=> Repeats(path)
      /\ (answer.whole /\ IsConnected(path) /\ ~answer.abort) =>
           /\ ~answer.res => infeasible \/ StaleBoolean(path)
           /\ answer.res  => ~infeasible \/ Unexplained(d, path)
      /\ (~answer.res /\ ~answer.abort /\ ~Rewritten(path)) =>
           /\ IsSubPath(answer.core, path)
           /\ Weakened(d, path, answer.core) = Bottom
           /\ \A k \in DOMAIN answer.core :
                Weakened(d, path, RemoveAt(answer.core, k)) # Bottom

=============================================================================
