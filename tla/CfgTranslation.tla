---------------------------- MODULE CfgTranslation ----------------------------
(***************************************************************************)
(* CfgBuilderImpl::buildCfg: the blocks in topological order, instruction  *)
(* by instruction, then the edges to the successors with the phi nodes of  *)
(* each, then the exit of the function and its regions.  One action per    *)
(* kind of visit of the builder; the program and the parameters are chosen *)
(* at the start.                                                           *)
(***************************************************************************)
EXTENDS MemTranslation

CONSTANTS Cases,          \* the functions translated, each with its parameters
          ProgramOf(_)    \* the function of a case

VARIABLES
    code,      \* the statements of each block
    mids,      \* the blocks added between two blocks, in order
    edges,     \* the edges between blocks without a block in between
    phase,     \* "visit", "edges", "exit", "regions", "run", or "error"
    cur, next  \* the block translated, and the next instruction or edge of it

litState == <<lits, skipped, pendInt, pendBool, pendAssume>>
cfgVars  == <<code, mids, edges, phase, cur, next>>

\* setExitBlock: the return; the block of an entry that only loops; the
\* first block that is unreachable; or the last one without a successor.
Exit ==
    LET returns == {b \in Blocks : Is(Term(b), "ret")}
        loops == {b \in Blocks : Succs(1) = <<b>> /\ Succs(b) = <<b>>}
        stuck == {b \in Blocks : Is(Term(b), "unreachable")}
        sinks == {b \in Blocks : Succs(b) = <<>>}
        least(S) == CHOOSE b \in S : \A d \in S : b =< d
        last(S)  == CHOOSE b \in S : \A d \in S : d =< b
    IN IF returns # {} THEN least(returns)
       ELSE IF loops # {} THEN least(loops)
       ELSE IF stuck # {} THEN least(stuck)
       ELSE IF sinks # {} THEN last(sinks)
       ELSE 0

Init ==
    /\ \E c \in Cases : prog = ProgramOf(c[1]) /\ par = c[2]
    /\ lits = <<>> /\ skipped = {} /\ pendInt = <<>> /\ pendBool = <<>> /\ pendAssume = <<>>
    /\ geps = <<>> /\ stored = {} /\ seen = {} /\ bnd = <<>>
    /\ code = [b \in Blocks |-> IF b = 1 THEN GlobalsAtMain ELSE <<>>]
    /\ mids = <<>> /\ edges = {}
    /\ phase = "visit" /\ cur = 1 /\ next = 1

-----------------------------------------------------------------------------
(***************************************************************************)
(* CrabIntraBlockBuilder: the visits of the instructions of a block.       *)
(***************************************************************************)
Visited       == Body(cur)[next]
Visiting(ops) == phase = "visit" /\ next =< Len(Body(cur)) /\ prog.val[Visited].op \in ops

Emit(stmts) ==
    /\ code' = [code EXCEPT ![cur] = @ \o stmts]
    /\ next' = next + 1
    /\ UNCHANGED <<prog, par, mids, edges, phase, cur>>

\* The literals a visit asks for, and nothing new in the optimizer.
Literals(V, signed) == lits' = Cached(V, signed) /\ UNCHANGED optVars
NoMemory == UNCHANGED memState

\* The visit of an instruction the optimizer may leave to its users.
EmitUnlessSkipped(i, stmts, signed) ==
    LET k == SkipTranslation(i)
    IN IF k.skip THEN Emit(<<>>) /\ Record(i, k) /\ UNCHANGED lits
       ELSE Emit(stmts) /\ Literals(OperandSet(i), signed)

VisitCmp ==
    /\ Visiting({"icmp"})
    /\ NoMemory
    /\ LET i == Visited
       IN IF LeftToUsers(i) THEN Emit(<<>>) /\ UNCHANGED litState
          ELSE IF CmpOperandsAre(i, "bool") \/ ~ (CmpOperandsAre(i, "int") \/ IsRef(Ops(i)[1]))
            THEN Emit(CmpInst(i)) /\ Literals(OperandSet(i), TRUE)
          ELSE EmitUnlessSkipped(i, CmpInst(i), ~ (CmpOperandsAre(i, "int") /\ IsUnsignedCmp(i)))

VisitBinary ==
    /\ Visiting({"bin"})
    /\ Emit(BinaryOperator(Visited)) /\ Literals(OperandSet(Visited), TRUE)
    /\ NoMemory

\* A cast that nothing uses is not translated, nor is one whose uses only
\* access memory that is not tracked.
AllUsesAreNonTrackMem(i) ==
    AllUsers(i, LAMBDA u : /\ par.track # "mem"
                           /\ prog.val[u].op \in {"load", "store"}
                           /\ ~ Region(Ops(u)[1]).known
                           /\ Is(u, "load") \/ Ty(Ops(u)[2]) # "ref" \/ ~ Region(Ops(u)[2]).known)
VisitCast ==
    /\ Visiting(Casts \cup {"bitcast", "ptrtoint", "inttoptr"})
    /\ UNCHANGED <<geps, stored, seen>>
    /\ LET i == Visited
       IN IF ~ Tracked(i) \/ AllUsesAreNonTrackMem(i)
          THEN Emit(<<>>) /\ UNCHANGED <<lits, optVars, bnd>>
          ELSE IF ~ SkipTranslation(i).skip /\ ~ (prog.val[i].op \in Casts)
            THEN /\ Emit(PointerCast(i).code) /\ bnd' = PointerCast(i).bnd
                 /\ Literals(OperandSet(i), TRUE)
          ELSE EmitUnlessSkipped(i, CastInst(i), TRUE) /\ UNCHANGED bnd

\* The operands of the comparison that decides a select are read as well.
VisitSelect ==
    /\ Visiting({"select"})
    /\ UNCHANGED <<geps, stored, seen>>
    /\ LET i == Visited
           c == Ops(i)[1]
           signed == ~ (Is(c, "icmp") /\ Lowered(c))
           more == IF Ty(i) = "int" /\ Is(c, "icmp") THEN OperandSet(c) ELSE {}
           all == [v \in {u \in OperandSet(i) : IsConst(u) /\ u \notin DOMAIN lits} |-> ConstValue(v, TRUE)]
       IN IF ~ Tracked(i) \/ i \in skipped THEN Emit(<<>>) /\ UNCHANGED <<lits, optVars, bnd>>
          ELSE IF IsRef(i)
            THEN /\ Emit(PointerSelect(i).code) /\ bnd' = PointerSelect(i).bnd
                 /\ Literals(OperandSet(i), TRUE)
          ELSE /\ Emit(SelectInst(i)) /\ UNCHANGED <<bnd, optVars>>
               /\ lits' = lits @@ all @@ Cached(more, signed)

\* doVerifierCall; a comparison left to the call is read when it is checked.
VisitVerifierCall ==
    /\ Visiting({"call"}) /\ IsVerifierCall(Visited)
    /\ LET c == Visited
       IN /\ Emit(VerifierCall(c))
          /\ Literals(IF c \in DOMAIN pendInt THEN OperandSet(pendInt[c]) ELSE {}, TRUE)
    /\ NoMemory

VisitOther ==
    /\ Visiting({"extract", "overflow", "fcmp"})
    /\ Emit(IF Is(Visited, "extract") THEN ExtractValue(Visited)
            ELSE IF Is(Visited, "overflow") THEN <<>> ELSE OtherInst(Visited))
    /\ UNCHANGED litState /\ NoMemory

\* A terminator emits nothing of its own.
VisitTerminator ==
    /\ Visiting({"br", "switch", "ret", "unreachable"})
    /\ Emit(<<>>) /\ UNCHANGED litState /\ NoMemory

EmitMemory(m) == Emit(m.code) /\ bnd' = m.bnd /\ Literals(OperandSet(Visited), TRUE)

VisitAlloca ==
    /\ Visiting({"alloca"})
    /\ EmitMemory(Alloca(Visited))
    /\ UNCHANGED <<geps, stored, seen>>

VisitGetElementPtr ==
    /\ Visiting({"gep"})
    /\ EmitMemory(GepInst(Visited))
    /\ geps' = IF par.track = "sing" /\ ~ GepSkipped(Visited)
               THEN geps @@ (Visited :> ShadowGep(Visited)) ELSE geps
    /\ UNCHANGED <<stored, seen>>

\* An access marks the base it checks, and a store the region it writes.
Accesses(i) == par.track = "mem" /\ par.check # "none" /\ IsVar(Op(i, 1))
VisitStore ==
    /\ Visiting({"store"}) /\ ~ StoreRejected(Visited)
    /\ EmitMemory(StoreInst(Visited))
    /\ stored' = IF StoresArray(Visited) THEN stored \cup {Region(Ops(Visited)[1]).id} ELSE stored
    /\ seen' = IF Accesses(Visited) /\ StoreInst(Visited) # Nothing THEN SeenAfter(Ops(Visited)[1]) ELSE seen
    /\ UNCHANGED geps

\* CLAM_ERROR: clam exits.
StoreError ==
    /\ Visiting({"store"}) /\ StoreRejected(Visited)
    /\ phase' = "error"
    /\ UNCHANGED <<prog, par, code, mids, edges, cur, next>> /\ UNCHANGED litState /\ NoMemory

VisitLoad ==
    /\ Visiting({"load"})
    /\ EmitMemory(LoadInst(Visited))
    /\ seen' = IF Accesses(Visited) THEN SeenAfter(Ops(Visited)[1]) ELSE seen
    /\ UNCHANGED <<geps, stored>>

VisitCall ==
    /\ Visiting({"alloc", "free", "memset", "extern"})
    /\ LET i == Visited
       IN /\ EmitMemory(CASE Is(i, "alloc") -> AllocFn(i) [] Is(i, "free") -> FreeFn(i)
                          [] Is(i, "memset") -> MemIntrinsic(i) [] Is(i, "extern") -> ExternalCall(i))
          /\ seen' = IF Is(i, "memset") /\ Accesses(i) THEN SeenAfter(Ops(i)[1]) ELSE seen
    /\ UNCHANGED <<geps, stored>>

Visits == \/ VisitCmp \/ VisitBinary \/ VisitCast \/ VisitSelect \/ VisitVerifierCall
          \/ VisitOther \/ VisitTerminator \/ VisitAlloca \/ VisitGetElementPtr
          \/ VisitStore \/ StoreError \/ VisitLoad \/ VisitCall

EndBlock ==
    /\ phase = "visit" /\ next > Len(Body(cur))
    /\ phase' = "edges" /\ next' = 1
    /\ UNCHANGED <<prog, par, code, mids, edges, cur>> /\ UNCHANGED litState /\ NoMemory

-----------------------------------------------------------------------------
(***************************************************************************)
(* The edges, execEdge and CrabInterBlockBuilder.                          *)
(***************************************************************************)
\* The successors visited: the default of a switch is first and last.
SuccVector == Succs(cur) \o (IF Is(Term(cur), "switch") THEN <<prog.val[Term(cur)].f.default>> ELSE <<>>)

\* The condition of the branch from b to d, as a guard of the block between.
Guard(b, d) ==
    LET c == Ops(Term(b))[1]
        neg == Succs(b)[2] = d
        cst == IF CmpOperandsAre(c, "int") THEN CmpToInt(c, neg) ELSE CmpToRef(c, neg)
        operands == IF CmpOperandsAre(c, "bool") THEN <<>>
                    ELSE IF CmpOperandsAre(c, "int") /\ Lowered(c)
                      THEN IF CmpToLowered(c, neg) = <<>> THEN <<>>
                           ELSE CmpToLowered(c, neg) \o <<AssumeCst("eq", Tmp(c, 9, "bool"), True)>>
                    ELSE IF cst = NoConstraint THEN <<>>
                    ELSE <<AssumeCst(cst.f, cst.a, cst.b)>>
        asBool == <<AssumeCst("eq", Var(c), IF neg THEN False ELSE True)>>
    IN IF IsConst(c)
       THEN IF Succs(b)[IF prog.val[c].f = 1 THEN 1 ELSE 2] # d THEN <<Unreachable>> ELSE <<>>
       ELSE IF Is(c, "constexpr") THEN <<>>
       ELSE IF ~ Is(c, "icmp") THEN asBool
       ELSE operands \o (IF CmpOperandsAre(c, "bool") \/ ~ OnlyBranchesOrSelects(c)
                         THEN asBool ELSE <<>>)

\* CrabInterBlockBuilder: the old values of the phis of the block that are
\* read are saved first.
MutPhiAssignments(b, d) ==
    LET phis == SelectSeq(Phis(d), Tracked)
    IN Done([k \in DOMAIN phis |-> Assign(Var(phis[k]), SLit(prog.val[phis[k]].f[b]))])
PhiAssignments(b, d) ==
    LET phis == SelectSeq(Phis(d), Tracked)
        inc(p) == prog.val[p].f[b]
        own == {inc(p) : p \in {phis[k] : k \in DOMAIN phis}} \cap {Phis(d)[k] : k \in DOMAIN Phis(d)}
        old(p) == Tmp(p, 10, Ty(p))
        saved == SelectSeq(Phis(d), LAMBDA p : p \in own)
        copy(p, x, r1, o, r2) == IF Ty(p) = "ref" THEN GepRef(p, x, r1, o, r2, Cst(0))
                                 ELSE Done(<<Assign(x, o)>>)
        one(p) == LET v == inc(p)
                  IN IF v \in own THEN copy(p, Var(p), Region(p), old(v), Region(p))
                     ELSE IF ~ HasLit(SLit(v)) THEN Done(<<Havoc(Var(p))>>)
                     ELSE IF Ty(p) = "ref" /\ ~ IsVar(SLit(v)) THEN Done(AssumedNull(Var(p)))
                     ELSE copy(p, Var(p), Region(p), SLit(v), Region(v))
        all == [k \in DOMAIN saved |-> copy(saved[k], old(saved[k]), Region(saved[k]),
                                            Var(saved[k]), Region(saved[k]))]
               \o [k \in DOMAIN phis |-> one(phis[k])]
    IN FoldLeft(Then, Nothing, all)

TakeSuccessor ==
    /\ phase = "edges" /\ next =< Len(SuccVector)
    /\ LET d == SuccVector[next]
           phis == PhiAssignments(cur, d)
           between == Is(Term(cur), "br") /\ Len(Succs(cur)) = 2
           c == Ops(Term(cur))[1]
           incoming == {prog.val[Phis(d)[k]].f[cur] : k \in DOMAIN Phis(d)}
           guard == Guard(cur, d)
       IN /\ IF between
             THEN /\ mids' = Append(mids, [from |-> cur, to |-> d,
                                           code |-> IF d = cur THEN phis.code \o guard
                                                    ELSE guard \o phis.code])
                  /\ UNCHANGED <<code, edges>>
             ELSE /\ edges' = edges \cup {<<cur, d>>}
                  /\ code' = [code EXCEPT ![cur] = @ \o phis.code]
                  /\ UNCHANGED mids
          /\ bnd' = phis.bnd
          /\ lits' = IF between /\ Is(c, "icmp")
                     THEN Cached(OperandSet(c), ~ Lowered(c)) @@ Cached(incoming, TRUE)
                     ELSE Cached(incoming, TRUE)
    /\ next' = next + 1
    /\ UNCHANGED <<prog, par, phase, cur, geps, stored, seen>> /\ UNCHANGED optVars

\* The next block; the emitters forget what the block before has checked.
MutNextBlock ==
    /\ phase = "edges" /\ next > Len(SuccVector)
    /\ cur' = (IF cur < Len(prog.blk) THEN cur + 1 ELSE cur)
    /\ phase' = (IF cur < Len(prog.blk) THEN "visit" ELSE "exit")
    /\ next' = 1
    /\ UNCHANGED <<prog, par, code, mids, edges>> /\ UNCHANGED litState /\ NoMemory
NextBlock ==
    /\ phase = "edges" /\ next > Len(SuccVector)
    /\ IF cur < Len(prog.blk) THEN cur' = cur + 1 /\ phase' = "visit"
       ELSE cur' = cur /\ phase' = "exit"
    /\ next' = 1 /\ seen' = {}
    /\ UNCHANGED <<prog, par, code, mids, edges, geps, stored, bnd>> /\ UNCHANGED litState

-----------------------------------------------------------------------------
(***************************************************************************)
(* The end of the construction.                                            *)
(***************************************************************************)
\* A call of seahorn.fail in main fails at the exit; a block that ends in
\* unreachable is followed by the exit.
HasSeahornFail == prog.main /\ \E v \in Names : Is(v, "call") /\ prog.val[v].f = "fail"
JoinExit ==
    /\ phase = "exit" /\ phase' = "regions"
    /\ code' = IF Exit # 0 /\ HasSeahornFail
               THEN [code EXCEPT ![Exit] = Append(@, AssertCst("eq", True, False))] ELSE code
    /\ edges' = edges \cup {<<b, Exit>> : b \in {d \in Blocks : /\ Exit \notin {0, d}
                                                                /\ Is(Term(d), "unreachable")}}
    /\ UNCHANGED <<prog, par, mids, cur, next>> /\ UNCHANGED litState /\ NoMemory

\* initializeRegions, for a function without calls: every region that a
\* statement names is initialised at the front of the entry.
AllCode == [b \in Blocks |-> code[b]] \o [k \in DOMAIN mids |-> mids[k].code]
RegionsNamed == UNION {UNION {ToSet(AllCode[k][j].r) : j \in DOMAIN AllCode[k]} : k \in DOMAIN AllCode}
InitializeRegions ==
    /\ phase = "regions" /\ phase' = "run"
    /\ code' = IF par.track # "mem" THEN code
               ELSE [code EXCEPT ![1] = SetToSeq({About(Stmt("region_init", NoVar, "", <<>>), <<r>>) :
                                                   r \in RegionsNamed}) \o @]
    /\ UNCHANGED <<prog, par, mids, edges, cur, next>> /\ UNCHANGED litState /\ NoMemory

Translate == Visits \/ EndBlock \/ TakeSuccessor \/ NextBlock \/ JoinExit \/ InitializeRegions
=============================================================================
