-------------------------- MODULE ScalarTranslation --------------------------
(***************************************************************************)
(* How CfgBuilder.cc turns the instructions of a function that do not      *)
(* access memory into statements of CrabIR: literals and their cache       *)
(* (CfgBuilderLit.cc), comparisons, arithmetic, logic, casts, selects, and *)
(* the calls of the verifier, which an optimizer may translate together    *)
(* with the instruction that computes their condition.  Each operator maps *)
(* one function of the source and returns the statements it emits.         *)
(***************************************************************************)
EXTENDS CrabIR, Bitcode

VARIABLES
    par,         \* m_params, see Params in MCTranslation
    lits,        \* m_lit_cache: the number each constant was first read as
    skipped,     \* m_skipped: selects that will not be translated
    pendInt,     \* m_pending_int_vericall: call -> the comparison it checks
    pendBool,    \* m_pending_bool_vericall: call -> the Boolean it checks
    pendAssume   \* m_pending_bool_assume: call -> a Boolean assumed with it

optVars == <<skipped, pendInt, pendBool, pendAssume>>

Tracked(v)  == Ty(v) \in {"bool", "int"} \/ (Ty(v) = "ref" /\ par.track = "mem")
IsRef(v)    == Ty(v) = "ref" /\ par.track = "mem"
IsConst(v)  == Is(v, "const")

\* The number a constant is read as; a Boolean constant is 0 or 1.
ConstValue(v, signed) ==
    IF Ty(v) = "int" /\ ~ signed THEN AsUnsigned(prog.val[v].f, prog.val[v].w)
    ELSE prog.val[v].f

\* getLit: a cached literal is returned whatever the signedness asked for, a
\* constant expression and a constant that is too wide have no literal.
NoLit == [none |-> TRUE]
HasLit(o) == o # NoLit
Var(v)  == CVar(v, 0, Ty(v))
Tmp(v, k, ty) == CVar(v, k, ty)
Lit(v, signed) ==
    IF prog.val[v].op \in {"constexpr", "toobig"} \/ Ty(v) \notin {"bool", "int", "ref"} THEN NoLit
    ELSE IF IsConst(v) THEN Cst(IF v \in DOMAIN lits THEN lits[v] ELSE ConstValue(v, signed))
    ELSE Var(v)
SLit(v) == Lit(v, TRUE)
Op(v, i) == SLit(Ops(v)[i])

\* The cache after the literals of the values of V were asked for.
Cached(V, signed) ==
    lits @@ [v \in {u \in V : IsConst(u) /\ u \notin DOMAIN lits} |-> ConstValue(v, signed)]

OperandSet(v) == {Ops(v)[i] : i \in DOMAIN Ops(v)}

\* havoc: with include_useless_havoc off, the variable is left unassigned.
HavocIfKept(x) == IF par.useless THEN <<Havoc(x)>> ELSE <<>>
Not(x, o)      == Test(x, "eq", o, False)

-----------------------------------------------------------------------------
(***************************************************************************)
(* Comparisons.                                                            *)
(***************************************************************************)
\* normalizeCmpInst: a greater-than becomes a less-than of swapped operands.
Normal(i) ==
    LET f == prog.val[i].f
        swap == [ugt |-> "ult", sgt |-> "slt", uge |-> "ule", sge |-> "sle"]
    IN IF f \in DOMAIN swap THEN [f |-> swap[f], l |-> Ops(i)[2], r |-> Ops(i)[1]]
       ELSE [f |-> f, l |-> Ops(i)[1], r |-> Ops(i)[2]]

IsUnsignedCmp(i) == Normal(i).f \in {"ult", "ule"}
Lowered(i)       == par.lower /\ IsUnsignedCmp(i)

Negation == [eq |-> "ne", ne |-> "eq", lt |-> "ge", le |-> "gt", gt |-> "le", ge |-> "lt",
             ult |-> "uge", ule |-> "ugt"]
CrabRel  == [eq |-> "eq", ne |-> "ne", slt |-> "lt", sle |-> "le", ult |-> "ult", ule |-> "ule"]
Relation(f, neg) == IF neg THEN Negation[CrabRel[f]] ELSE CrabRel[f]

\* unsignedCmpIntoSignOnes: selects on the signs of the two operands; with
\* the first negative and the second not, an unsigned less-than is "true".
UnsignedAsSigned(x, f, a, b, neg) ==
    LET t(k)  == Tmp(x.v, k, "bool")
        rel   == Relation(IF f = "ule" THEN "sle" ELSE "slt", neg)
        yes   == IF neg THEN False ELSE True
        no    == IF neg THEN True ELSE False
        sign(o) == IF IsVar(o) THEN "unknown" ELSE IF o.n >= 0 THEN "nonneg" ELSE "neg"
        whenNonNeg(r) ==
            CASE sign(b) = "nonneg" -> <<Test(r, rel, a, b)>>
              [] sign(b) = "neg" -> <<Assign(r, no)>>
              [] OTHER -> <<Test(t(1), "ge", b, Cst(0)), Test(t(2), rel, a, b),
                            Assign(t(3), no), Choose(r, t(1), t(2), t(3))>>
        whenNeg(r) ==
            CASE sign(b) = "nonneg" -> <<Assign(r, yes)>>
              [] sign(b) = "neg" -> <<Test(r, rel, a, b)>>
              [] OTHER -> <<Test(t(1), "ge", b, Cst(0)), Assign(t(4), yes),
                            Test(t(5), rel, a, b), Choose(r, t(1), t(4), t(5))>>
    IN CASE sign(a) = "nonneg" -> whenNonNeg(x)
         [] sign(a) = "neg" -> whenNeg(x)
         [] OTHER -> <<Test(t(6), "ge", a, Cst(0))>> \o whenNonNeg(t(7)) \o whenNeg(t(8))
                     \o <<Choose(x, t(6), t(7), t(8))>>

\* cmpInstToCrabBool: the comparison as an assignment of its Boolean.
CmpToBool(i) ==
    LET n == Normal(i)
        a == Lit(n.l, ~ IsUnsignedCmp(i))
        b == Lit(n.r, ~ IsUnsignedCmp(i))
    IN IF ~ HasLit(a) \/ ~ HasLit(b) THEN HavocIfKept(Var(i))
       ELSE IF Lowered(i) THEN UnsignedAsSigned(Var(i), n.f, a, b, FALSE)
       ELSE <<Test(Var(i), CrabRel[n.f], a, b)>>

\* A constraint on operands a and b, or none.
Constraint(f, a, b) == [f |-> f, a |-> a, b |-> b]
NoConstraint        == [none |-> TRUE]

\* cmpInstToCrabInt: the comparison, or its negation, as a constraint.
CmpToInt(i, neg) ==
    LET n == Normal(i)
    IN IF Ty(n.l) # "int" \/ Ty(n.r) # "int" \/ ~ HasLit(SLit(n.l)) \/ ~ HasLit(SLit(n.r))
       THEN NoConstraint
       ELSE Constraint(Relation(n.f, neg), SLit(n.l), SLit(n.r))

\* cmpInstToCrabRef: the same for pointers; "not null" is "above null".
CmpToRef(i, neg) ==
    LET n == Normal(i)
        a == SLit(n.l)
        b == SLit(n.r)
        p == IF IsVar(a) THEN a ELSE b
        isNull(o) == ~ IsVar(o)
        signless == [ult |-> "slt", ule |-> "sle", slt |-> "slt", sle |-> "sle", eq |-> "eq", ne |-> "ne"]
        f == CrabRel[signless[n.f]]
        withNull == CASE n.f = "ne" -> "gt"
                      [] f = "lt" -> IF isNull(a) THEN "gt" ELSE "lt"
                      [] OTHER    -> IF isNull(a) THEN "ge" ELSE "le"
    IN IF Ty(n.l) # "ref" \/ Ty(n.r) # "ref" \/ ~ HasLit(a) \/ ~ HasLit(b) THEN NoConstraint
       ELSE IF isNull(a) /\ isNull(b)
         THEN Constraint("eq", True, IF (n.f = "eq") # neg THEN True ELSE False)
       ELSE IF ~ isNull(a) /\ ~ isNull(b) THEN Constraint(IF neg THEN Negation[f] ELSE f, a, b)
       ELSE IF n.f = "eq" THEN Constraint(IF neg THEN "gt" ELSE "eq", p, Null)
       ELSE Constraint(IF neg THEN Negation[withNull] ELSE withNull, p, Null)

\* unsignedCmpInstToCrabInt: the lowered comparison in a fresh Boolean, the
\* temporary 9 of the comparison.
CmpToLowered(i, neg) ==
    LET n == Normal(i)
        a == Lit(n.l, FALSE)
        b == Lit(n.r, FALSE)
    IN IF ~ HasLit(a) \/ ~ HasLit(b) THEN <<>>
       ELSE UnsignedAsSigned(Tmp(i, 9, "bool"), n.f, a, b, neg)

-----------------------------------------------------------------------------
(***************************************************************************)
(* The optimizer of the verifier's calls.                                  *)
(***************************************************************************)
IsVerifierCall(u) == Is(u, "call") /\ prog.val[u].f \in Verifiers \cup {"fail"}
IsAssumeCall(u)   == Is(u, "call") /\ prog.val[u].f \in {"assume", "assume_not"}

\* AllUsesAreBrOrIntSelectCondInst, with the filter both callers pass:
\* branches, and selects of integers on v no verifier's call uses.
AnyUseIsVerifierCall(v) == ~ AllUsers(v, LAMBDA u : ~ IsVerifierCall(u))
OnlyBranchesOrSelects(v) ==
    AllUsers(v, LAMBDA u : \/ Is(u, "br")
                           \/ /\ Is(u, "select")
                              /\ Ty(u) # "bool" /\ ~ IsRef(u) /\ Ops(u)[1] = v
                              /\ ~ AnyUseIsVerifierCall(u))

\* AllUsesAreVerifierCalls: the uses are followed in the order of the list;
\* at the first extension its own uses decide, whatever uses come after it.
AllVerifierCalls(v, throughCasts, nonBool, onlyAssume) ==
    LET accepted(u) == /\ IF onlyAssume THEN IsAssumeCall(u) ELSE IsVerifierCall(u)
                       /\ nonBool => Ops(u) # <<>> /\ Ty(Ops(u)[1]) # "bool"
        all[u \in Names] ==
            FoldLeft(LAMBDA r, w :
                       IF r.done THEN r
                       ELSE IF throughCasts /\ prog.val[w].op \in {"zext", "sext"}
                         THEN [all[w] EXCEPT !.done = TRUE, !.calls = IF all[w].ok THEN @ \cup r.calls ELSE {}]
                       ELSE IF accepted(w) THEN [r EXCEPT !.calls = @ \cup {w}]
                       ELSE [done |-> TRUE, ok |-> FALSE, calls |-> {}],
                     [done |-> FALSE, ok |-> TRUE, calls |-> {}], Users(u))
    IN all[v]

\* skipTranslation: whether the instruction is left to the calls that use
\* it, and what each of these calls will be translated to.
Kept == [skip |-> FALSE, select |-> {}, ints |-> {}, bools |-> {}, cond |-> "", neg |-> FALSE]
IsZeroConst(v) == IsConst(v) /\ prog.val[v].f = 0
SkipTranslation(i) ==
    LET direct == AllVerifierCalls(i, FALSE, FALSE, FALSE)
        sel    == Users(i)[1]
        viaSel == AllVerifierCalls(sel, FALSE, FALSE, TRUE)
        byInts == AllVerifierCalls(i, TRUE, TRUE, FALSE)
        zeroIf(k) == IsZeroConst(Ops(sel)[k])
    IN IF i \in skipped THEN [Kept EXCEPT !.skip = TRUE]
       ELSE IF Is(i, "zext") /\ Ty(Ops(i)[1]) = "bool" /\ direct.ok
         THEN [Kept EXCEPT !.skip = TRUE, !.bools = direct.calls]
       ELSE IF /\ Is(i, "zext") /\ Ty(Ops(i)[1]) = "bool"
               /\ Len(Users(i)) = 1 /\ Is(sel, "select")
               /\ zeroIf(2) \/ zeroIf(3)
               /\ viaSel.ok
         THEN [Kept EXCEPT !.skip = TRUE, !.select = {sel}, !.bools = viaSel.calls,
                           !.cond = Ops(sel)[1], !.neg = zeroIf(2)]
       ELSE IF Is(i, "icmp") /\ par.avoidBool /\ byInts.ok
         THEN [Kept EXCEPT !.skip = TRUE, !.ints = byInts.calls]
       ELSE Kept

\* What skipTranslation records, as a part of every action that calls it.
Record(i, k) ==
    /\ skipped' = skipped \cup k.select
    /\ pendInt' = [c \in k.ints |-> i] @@ pendInt
    /\ pendBool' = [c \in k.bools |-> Ops(i)[1]] @@ pendBool
    /\ pendAssume' = IF k.cond = "" THEN pendAssume
                     ELSE [c \in k.bools |-> [on |-> k.cond, neg |-> k.neg]] @@ pendAssume

\* A Boolean checked by a verifier's function.
MutCheckBool(callee, x) ==
    IF callee = "assume" THEN <<AssumeCst("eq", x, True)>> ELSE <<AssertCst("eq", x, False)>>
CheckBool(callee, x) ==
    CASE callee = "assume_not" -> <<AssumeCst("eq", x, False)>>
      [] callee = "assume"     -> <<AssumeCst("eq", x, True)>>
      [] OTHER                 -> <<AssertCst("eq", x, True)>>

\* doTranslation: the comparison a call checks, negated for assume_not, or
\* the Boolean it checks and then the condition of the select between them.
DoTranslation(c) ==
    LET callee == prog.val[c].f
    IN IF c \in DOMAIN pendInt
       THEN LET neg == callee = "assume_not"
                int == CmpToInt(pendInt[c], neg)
                cst == IF int # NoConstraint THEN int ELSE CmpToRef(pendInt[c], neg)
            IN IF cst = NoConstraint THEN <<>>
               ELSE IF callee = "assert" THEN <<AssertCst(cst.f, cst.a, cst.b)>>
               ELSE <<AssumeCst(cst.f, cst.a, cst.b)>>
       ELSE CheckBool(callee, SLit(pendBool[c])) \o
            (IF c \in DOMAIN pendAssume
             THEN <<AssumeCst("eq", SLit(pendAssume[c].on),
                              IF pendAssume[c].neg THEN False ELSE True)>>
             ELSE <<>>)

\* doVerifierCall: a constant condition is decided here, and is true when it
\* is positive; an integer condition is taken as true from 1 on.
VerifierCall(c) ==
    LET callee == prog.val[c].f
        cond   == Ops(c)[1]
        x      == SLit(cond)
        constTrue == prog.val[cond].f > 0
    IN CASE callee = "error" -> <<AssertCst("eq", True, False)>>
         [] callee = "fail" -> <<>>
         [] ~ Tracked(cond) -> <<>>
         [] IsConst(cond) ->
              IF callee = "assert" THEN (IF constTrue THEN <<>> ELSE <<AssertCst("eq", True, False)>>)
              ELSE IF constTrue = (callee = "assume") THEN <<>> ELSE <<Unreachable>>
         [] c \in DOMAIN pendInt \cup DOMAIN pendBool -> DoTranslation(c)
         [] Ty(cond) = "bool" -> CheckBool(callee, x)
         [] callee = "assume_not" -> <<AssumeCst("le", x, Cst(0))>>
         [] callee = "assume" -> <<AssumeCst("ge", x, Cst(1))>>
         [] OTHER -> <<AssertCst("ge", x, Cst(1))>>

-----------------------------------------------------------------------------
(***************************************************************************)
(* Arithmetic, logic and casts.                                            *)
(***************************************************************************)
\* doBinOp: two constants are folded where z_number has the operation, a
\* constant before a variable is not supported.
CrabOp == [add |-> "add", sub |-> "sub", mul |-> "mul", sdiv |-> "sdiv", udiv |-> "udiv",
           srem |-> "srem", urem |-> "urem", and |-> "and", or |-> "or", xor |-> "xor",
           shl |-> "shl", ashr |-> "ashr", lshr |-> "lshr"]
NotFolded == {"udiv", "srem", "urem", "lshr"}
BinOp(f, x, a, b) ==
    IF IsVar(a) THEN <<Bin(x, CrabOp[f], a, b)>>
    ELSE IF ~ IsVar(b) /\ f \notin NotFolded
      THEN <<Assign(x, Cst(CHOOSE n \in BinResult(f, Bits, a.n, b.n) : TRUE))>>
    ELSE <<Havoc(x)>>

\* doArithmetic: a constant first operand goes through a temporary.
Arithmetic(i) ==
    LET f == prog.val[i].f
        a == Op(i, 1)
        b == Op(i, 2)
        t(k) == Tmp(i, k, "int")
    IN IF ~ HasLit(a) \/ ~ HasLit(b) THEN HavocIfKept(Var(i))
       ELSE IF IsVar(a) THEN BinOp(f, Var(i), a, b)
       ELSE IF IsVar(b) THEN <<Assign(t(1), a)>> \o BinOp(f, Var(i), t(1), b)
       ELSE <<Assign(t(1), a), Assign(t(2), b)>> \o BinOp(f, Var(i), t(1), t(2))

\* doBoolLogicOp, into variable x.
BoolLogic(f, x, v1, v2) ==
    LET a == SLit(v1)
        b == SLit(v2)
        k == IF IsVar(a) THEN b ELSE a       \* the constant, if one is
        o == IF IsVar(a) THEN a ELSE b       \* the other operand
        copy(r) == <<Assign(x, r)>>
    IN IF ~ HasLit(a) \/ ~ HasLit(b) THEN HavocIfKept(x)
       ELSE IF IsVar(a) /\ IsVar(b)
         THEN <<Bin(x, [and |-> "band", or |-> "bor", xor |-> "bxor"][f], a, b)>>
       ELSE CASE f = "and" -> IF k = False THEN copy(False) ELSE copy(o)
              [] f = "or"  -> IF k = True THEN copy(True) ELSE copy(o)
              [] f = "xor" -> IF k = False THEN copy(o)
                              ELSE IF IsVar(o) THEN <<Not(x, o)>>
                              ELSE copy(IF o = True THEN False ELSE True)

\* doIntLogicOp.
IntLogic(i) ==
    IF ~ HasLit(Op(i, 1)) \/ ~ HasLit(Op(i, 2)) THEN HavocIfKept(Var(i))
    ELSE BinOp(prog.val[i].f, Var(i), Op(i, 1), Op(i, 2))

\* visitBinaryOperator.
BinaryOperator(i) ==
    IF prog.val[i].f \notin {"and", "or", "xor"} THEN Arithmetic(i)
    ELSE IF Ty(i) = "bool" THEN BoolLogic(prog.val[i].f, Var(i), Ops(i)[1], Ops(i)[2])
    ELSE IntLogic(i)

\* visitCmpInst, for a comparison the optimizer does not keep: nothing if
\* branches and selects will read the operands themselves, and nothing for
\* a comparison of Booleans other than eq and ne.
CmpOperandsAre(i, ty) == Ty(Ops(i)[1]) = ty /\ Ty(Ops(i)[2]) = ty
LeftToUsers(i) ==
    \/ IsRef(Ops(i)[1]) /\ IsRef(Ops(i)[2]) /\ AllUsers(i, LAMBDA u : Is(u, "br"))
    \/ CmpOperandsAre(i, "int") /\ OnlyBranchesOrSelects(i)
CmpInst(i) ==
    LET f == Normal(i).f
        ref == CmpToRef(i, FALSE)
        t == Tmp(i, 1, "bool")
    IN CASE IsRef(Ops(i)[1]) /\ IsRef(Ops(i)[2]) ->
              IF ref = NoConstraint THEN HavocIfKept(Var(i))
              ELSE <<Test(Var(i), ref.f, ref.a, ref.b)>>
         [] CmpOperandsAre(i, "bool") ->
              CASE f = "eq" -> BoolLogic("xor", t, Ops(i)[1], Ops(i)[2]) \o <<Not(Var(i), t)>>
                [] f = "ne" -> BoolLogic("xor", Var(i), Ops(i)[1], Ops(i)[2])
                [] OTHER -> <<>>
         [] CmpOperandsAre(i, "int") -> CmpToBool(i)
         [] OTHER -> HavocIfKept(Var(i))

\* visitCastInst, casts of integers; casts of pointers to and from integers
\* have no translation.
CastKind(i) == <<prog.val[i].op, prog.val[Ops(i)[1]].w, prog.val[i].w>>
CastInst(i) ==
    LET src == Op(i, 1)
        t   == Tmp(i, 1, Ty(Ops(i)[1]))
    IN IF ~ HasLit(src) THEN HavocIfKept(Var(i))
       ELSE IF prog.val[i].op \in Casts
         THEN IF IsVar(src) THEN <<Cast(Var(i), CastKind(i), src)>>
              ELSE <<Assign(t, src), Cast(Var(i), CastKind(i), t)>>
       ELSE HavocIfKept(Var(i))

-----------------------------------------------------------------------------
(***************************************************************************)
(* Selects, and the other instructions.                                    *)
(***************************************************************************)
\* visitSelectInst, for Booleans and integers: a select of integers on a
\* comparison reads the operands of the comparison; otherwise the condition
\* is extended to an integer.
SelectOnCst(x, c, a, b) == Stmt("choose", x, c.f, <<c.a, c.b, a, b>>)
SelectInst(i) ==
    LET cond == Ops(i)[1]
        c == SLit(cond)
        a == Op(i, 2)
        b == Op(i, 3)
        t(k) == Tmp(i, k, "bool")
        ic == Tmp(i, 3, "int")
        chosen == IF c = True THEN a ELSE b
        direct == Is(cond, "icmp")
        cst == CmpToInt(cond, FALSE)
    IN IF IsConst(cond) THEN <<Assign(Var(i), chosen)>>
       ELSE IF Ty(i) = "bool"
         THEN (IF IsVar(a) THEN <<>> ELSE <<Assign(t(1), a)>>) \o
              (IF IsVar(b) THEN <<>> ELSE <<Assign(t(2), b)>>) \o
              <<Choose(Var(i), c, IF IsVar(a) THEN a ELSE t(1), IF IsVar(b) THEN b ELSE t(2))>>
       ELSE IF direct /\ Lowered(cond) /\ CmpToLowered(cond, FALSE) # <<>>
         THEN CmpToLowered(cond, FALSE) \o
              <<Cast(ic, <<"zext", 1, 8>>, Tmp(cond, 9, "bool")),
                SelectOnCst(Var(i), Constraint("ge", ic, Cst(1)), a, b)>>
       ELSE IF direct /\ ~ Lowered(cond) /\ cst # NoConstraint
         THEN <<SelectOnCst(Var(i), cst, a, b)>>
       ELSE <<Cast(ic, <<"zext", 1, 8>>, c), Choose(Var(i), ic, a, b)>>

\* visitInstruction: a result of an instruction without translation.
OtherInst(i) == IF Tracked(i) THEN HavocIfKept(Var(i)) ELSE <<>>

\* doArithmeticWithOverflowIntrinsic and visitExtractValueInst: with the
\* option, the operation is done and the overflow flag is false.
ExtractValue(i) ==
    LET op == Ops(i)[1]
    IN IF ~ (par.overflow /\ Is(op, "overflow")) THEN OtherInst(i)
       ELSE IF prog.val[i].f = 0 THEN BinOp(prog.val[op].f, Var(i), Op(op, 1), Op(op, 2))
       ELSE <<Assign(Var(i), False)>>
=============================================================================
