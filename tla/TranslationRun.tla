---------------------------- MODULE TranslationRun ----------------------------
(***************************************************************************)
(* The translation of a function, and then the bitcode and its translation *)
(* run side by side, a block and an edge at a time: the environments of    *)
(* CrabIR that agree with the execution of the bitcode are followed.  What *)
(* the analyses conclude of the CrabIR holds of the program as long as     *)
(* every execution of the bitcode is among them.                           *)
(***************************************************************************)
EXTENDS CfgTranslation

CONSTANT MaxBlocks       \* the blocks an execution runs through

VARIABLES
    x,         \* the execution of the bitcode
    at,        \* the block it is at
    configs,   \* the configurations of the CrabIR that agree with it
    path,      \* the blocks it has run
    met        \* the divergences, named below, that it has come across

runVars == <<x, at, configs, path, met>>
vars == <<prog, par, litState, memState, cfgVars, runVars>>

\* The values of the arguments of the function.
Arguments == {v \in Names : Is(v, "arg")}
ArgValues(v) == CASE Ty(v) = "bool" -> {0, 1}
                  [] Ty(v) = "ref" -> {0} \cup DOMAIN prog.obj
                  [] OTHER -> MinInt .. MaxInt
GlobalAddrs == [v \in {u \in Names : Is(u, "global")} |-> prog.val[v].f.addr]

RunInit ==
    /\ Init
    /\ x = Started(<<>>) /\ at = 0 /\ configs = {} /\ path = <<>> /\ met = {}

Start ==
    /\ phase = "run" /\ at = 0
    /\ \E env \in [Arguments -> UNION {ArgValues(v) : v \in Arguments}] :
         /\ \A v \in Arguments : env[v] \in ArgValues(v)
         /\ x' = Started(env @@ GlobalAddrs)
         /\ configs' = {Config([y \in {Var(v) : v \in {u \in Arguments : Tracked(u)}} |-> env[y.v]])}
    /\ at' = 1
    /\ UNCHANGED <<prog, par, path, met>> /\ UNCHANGED <<litState, memState, cfgVars>>

Assigned == UNION {Assigns(AllCode[k]) : k \in DOMAIN AllCode}

\* The configurations of D in which the variables that the CrabIR assigns
\* have the values of the bitcode; temporaries do not survive the block.
Kept20(y) == y.ty \in {"cell", "region"} \/ y.v \notin Names \/ y.k = 0 \/ y.k >= 20
Agreeing(D, env) ==
    {[c EXCEPT !.env = [y \in {z \in DOMAIN c.env : Kept20(z)} |-> c.env[y]]] :
       c \in {d \in D : \A y \in DOMAIN d.env \cap Assigned :
                          y.k = 0 /\ y.v \in DOMAIN env /\ y.ty # "cell" => d.env[y] = env[y.v]}}

\* What the CrabIR leads to, from the end of block b to block d.
Across(D, b, d) ==
    UNION {Exec(mids[k].code, D) : k \in {j \in DOMAIN mids : mids[j].from = b /\ mids[j].to = d}}
    \cup (IF <<b, d>> \in edges THEN D ELSE {})

-----------------------------------------------------------------------------
(***************************************************************************)
(* Where the CrabIR is known to leave the bitcode, each the behaviour of   *)
(* the lines the README gives: y is the execution at the end of block b.   *)
(***************************************************************************)
Num(y, v) == IF Is(v, "const") THEN prog.val[v].f ELSE IF v \in DOMAIN y.env THEN y.env[v] ELSE 0
Differ(y, i) == (Num(y, Ops(i)[1]) < 0) # (Num(y, Ops(i)[2]) < 0)
Unassigned == {v \in Names : /\ Var(v) \notin Assigned /\ prog.val[v].op \notin {"arg", "const"}
                             /\ \E k \in DOMAIN AllCode : Var(v) \in ReadsOf(AllCode[k])}

StoresOf(b) == SelectSeq(code[b], LAMBDA s : s.op = "store")

MetAt(b, y) ==
    LET ins == {Body(b)[k] : k \in DOMAIN Body(b)}
        t == Term(b)
        cond == IF Is(t, "br") /\ Ops(t) # <<>> THEN {Ops(t)[1]} \cup OperandSet(Ops(t)[1]) ELSE {}
    IN {k \in {"mixed signs", "negative condition", "assume_not of select", "unassigned",
               "self-loop", "switch", "one target", "overflow", "stale literal", "constant expression",
               "shared array", "external call", "memset", "dropped store", "unresized scalar", "strong update",
               "freed after seen", "unchecked bounds"} :
        CASE k = "mixed signs" ->
               par.lower /\ \E i \in ins : Is(i, "icmp") /\ IsUnsignedCmp(i) /\ Differ(y, i)
          [] k = "negative condition" ->
               \E c \in ins : IsVerifierCall(c) /\ Ops(c) # <<>> /\ Num(y, Ops(c)[1]) < 0
          [] k = "assume_not of select" ->
               \E c \in ins : c \in DOMAIN pendAssume /\ prog.val[c].f = "assume_not"
          [] k = "unassigned" ->
               /\ ins \cap Unassigned # {}
               /\ (\E j \in DOMAIN path : path[j] = b)
          [] k = "self-loop" ->
               Is(t, "br") /\ b \in SuccSet(b) /\ \E v \in cond : IsPhi(v) /\ Home(v) = b
          [] k = "switch" -> Is(t, "switch") /\ \E d \in SuccSet(b) : Phis(d) # <<>>
          [] k = "overflow" ->
               \E i \in ins : Is(i, "extract") /\ prog.val[i].f = 1 /\ par.overflow /\ Num(y, i) = 1
          [] k = "stale literal" -> \E v \in DOMAIN lits : lits[v] # prog.val[v].f
          [] k = "constant expression" ->
               \E c \in ins \cap DOMAIN pendInt : \E o \in OperandSet(pendInt[c]) : Is(o, "constexpr")
          [] k = "shared array" ->
               \E p, q \in DOMAIN prog.rgn : /\ par.track = "sing" /\ prog.rgn[p].id = prog.rgn[q].id
                                             /\ p # q /\ Is(p, "alloca") /\ Is(q, "alloca")
          [] k = "external call" -> par.track = "mem" /\ \E i \in ins : Is(i, "extern") /\ ModifiedRegions(i) # {}
          [] k = "memset" -> \E i \in ins : Is(i, "memset") /\ Region(Ops(i)[1]).known
          [] k = "dropped store" ->
               \E i \in ins : /\ Is(i, "store") /\ Region(Ops(i)[1]).known
                             /\ StoreInst(i).code = <<>>
          [] k = "unresized scalar" ->
               \E i \in ins : /\ Is(i, "store") /\ IsSingleton(Region(Ops(i)[1]))
                             /\ ~ InRange(Region(Ops(i)[1]).w, Num(y, Ops(i)[2]))
          [] k = "strong update" ->
               \E s \in ToSet(StoresOf(b)) : s.f.strong /\ \E g \in DOMAIN prog.rgnAt : prog.rgnAt[g].id = s.f.rgn
          [] k = "freed after seen" ->
               \E j, m, n \in DOMAIN Body(b) :
                 /\ j < m /\ m < n /\ Is(Body(b)[m], "free")
                 /\ {prog.val[Body(b)[j]].op, prog.val[Body(b)[n]].op} \subseteq {"load", "store"}
                 /\ BasePtr[Ops(Body(b)[j])[1]] = BasePtr[Ops(Body(b)[n])[1]]
          [] k = "unchecked bounds" ->
               /\ par.check = "bounds"
               /\ \E i \in ins : /\ prog.val[i].op \in {"load", "store"}
                                /\ \/ ~ Relevant(Ops(i)[1]) \/ Ops(i)[1] \notin DOMAIN bnd
                                   \/ \E u \in Names : IsPhi(u) /\ u \in DOMAIN bnd
          [] k = "one target" -> Len(Succs(b)) = 2 /\ Cardinality(SuccSet(b)) = 1}

\* With a call of seahorn.fail, "safe" means that main cannot return.
AtReturn == IF HasSeahornFail THEN "error" ELSE "return"

\* A block of the bitcode and its translation.
RunBlock ==
    /\ at > 0 /\ x.out = "run" /\ Len(path) < MaxBlocks
    /\ \E y \in ExecSeq(x, Body(at)) :
         LET D == Exec(code[at], configs)
             bad == {c \in D : c.bad}
             known == met \cup MetAt(at, y)
         IN IF y.out # "run" \/ Succs(at) = <<>>
            THEN /\ x' = IF y.out = "run" THEN [y EXCEPT !.out = AtReturn] ELSE y
                 /\ configs' = bad \cup Agreeing(D \ bad, y.env)
                 /\ at' = at /\ met' = known
            ELSE LET d == Target(y, at)
                     z == TakeEdge(y, at, d)
                 IN /\ x' = z /\ at' = d /\ met' = known
                    /\ configs' = bad \cup Agreeing(Across(D \ bad, at, d), z.env)
    /\ path' = Append(path, at)
    /\ UNCHANGED <<prog, par>> /\ UNCHANGED <<litState, memState, cfgVars>>

Next == \/ Translate /\ UNCHANGED runVars
        \/ Start
        \/ RunBlock

Spec == RunInit /\ [][Next]_vars

-----------------------------------------------------------------------------
\* The translation loses no execution: as long as the bitcode runs, some
\* configuration of the CrabIR that has not failed agrees with it on every
\* variable, across all blocks and edges (execEdge, the phi assignments and
\* the visits together), unless a divergence was met.
NoExecutionLost ==
    x.out \in {"run", "return"} /\ at > 0 => (met # {} \/ \E c \in configs : ~ c.bad)

\* An execution that fails an assertion, or makes a faulty access that is
\* checked for, fails in the CrabIR as well: a program the analyses call
\* safe is safe.
NoFailureMissed == x.out = "error" => (met # {} \/ \E c \in configs : c.bad)

\* Where the CrabIR leaves nothing open, it fails only when the bitcode does:
\* the translation is exact, and loses no precision to the order of its
\* visits or to the optimizer.
Exact == {"add", "sub", "mul", "sdiv", "srem", "band", "bor", "bxor"}
Lossless == /\ Unassigned = {}
            /\ \A k \in DOMAIN AllCode : \A j \in DOMAIN AllCode[k] : LET s == AllCode[k][j] IN
                 /\ s.op \in {"assign", "test", "select", "choose", "cast", "assume", "assert", "bin"}
                 /\ s.op = "bin" => s.f \in Exact
                 /\ s.op \in {"test", "choose", "assume", "assert"} => s.f \notin Unsigned
NoFalseAlarm ==
    Lossless /\ x.out \in {"run", "return"} => (met # {} \/ \A c \in configs : ~ c.bad)

\* A comparison that the guard of an edge reads as a Boolean is assigned:
\* the guard "checks the same condition we checked in visitCmpInst" (comment
\* in execEdge).  Otherwise the guard restricts nothing at first, and in a
\* loop what the first pass guessed: visitCmpInst skips also what the calls
\* of the verifier will translate.
BranchConditionTranslated ==
    phase = "run" => \A k \in DOMAIN mids : \A y \in ReadsOf(mids[k].code) :
        y.k = 0 /\ Is(y.v, "icmp") => y \in Assigned
=============================================================================
