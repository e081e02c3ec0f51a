---------------------------- MODULE MemTranslation ----------------------------
(***************************************************************************)
(* How CfgBuilder.cc translates the instructions that use memory, at the   *)
(* three levels of --crab-track: "num" (no memory), "sing" (singleton      *)
(* memory, as Crab arrays and scalars) and "mem" (references and regions), *)
(* and the checks that the property emitters of src/lib/Clam/Properties    *)
(* put around the statements on references.  The region of a pointer is    *)
(* what the heap abstraction answered, prog.rgn.                           *)
(***************************************************************************)
EXTENDS ScalarTranslation

VARIABLES
    geps,     \* m_gep_map: the shadow offset of a gep in singleton memory
    stored,   \* m_regions_with_store
    seen,     \* m_seen of the emitter: the bases already checked
    bnd       \* m_ref_bnd_map: the ghost size and offset of a pointer

memState == <<geps, stored, seen, bnd>>

\* getRegion: the region of a pointer if this level tracks it.
NoRegion == [id |-> "", known |-> FALSE]
TrackedRegion(r) == par.track = "mem" \/ (par.track = "sing" /\ r.scalar /\ ~ r.heap)
Region(v) == IF v \in DOMAIN prog.rgn /\ TrackedRegion(prog.rgn[v]) THEN prog.rgn[v] ELSE NoRegion

\* getSingletonValue; the Crab variables of a region.
IsSingleton(r) == par.single /\ r.known /\ r.single
RgnVar(r)    == CVar(r.id, 0, "region")
ScalarVar(r) == CVar(r.id, 0, IF r.w = 1 THEN "bool" ELSE "int")

Gep(x, base, off) == Bin(x, "add", base, off)

\* A store to or a load from a region.
Access(op, x, r, strong, a) ==
    About(Stmt(op, x, [rgn |-> r.id, known |-> r.known, strong |-> strong], a), <<RgnVar(r)>>)

\* getInputOutputRegions of a call.
ModifiedRegions(i) == {r \in prog.val[i].f.writes : TrackedRegion(r)}

\* What a translation emits, and the bounds known after it.
Done(stmts)      == [code |-> stmts, bnd |-> bnd]
Nothing          == Done(<<>>)
Then(m, n)       == [code |-> m.code \o n.code, bnd |-> m.bnd @@ n.bnd]
Ghost(i, k)      == Tmp(i, k, "int")

-----------------------------------------------------------------------------
(***************************************************************************)
(* The property emitters.  getBasePtr: the pointer an access is based on,  *)
(* and whether it is known to be dereferenceable.                          *)
(***************************************************************************)
NoBase == [ptr |-> "", deref |-> FALSE]
BasePtr[v \in Names] ==
    CASE Is(v, "bitcast") -> BasePtr[Ops(v)[1]]
      [] Is(v, "gep") -> IF ~ prog.val[v].f.inbounds THEN NoBase
                         ELSE IF Is(Ops(v)[1], "load") THEN [ptr |-> Ops(v)[1], deref |-> FALSE]
                         ELSE BasePtr[Ops(v)[1]]
      [] Is(v, "alloca") \/ Is(v, "global") -> [ptr |-> v, deref |-> TRUE]
      [] Is(v, "select") -> IF BasePtr[Ops(v)[2]].deref /\ BasePtr[Ops(v)[3]].deref
                            THEN BasePtr[Ops(v)[2]] ELSE NoBase
      [] Is(v, "arg") -> [ptr |-> v, deref |-> prog.val[v].f = 1]
      [] Is(v, "const") -> [ptr |-> v, deref |-> FALSE]
      [] OTHER -> NoBase

\* isRelevantCheck: not for a dereferenceable base (a global or an alloca,
\* for use after free), nor for a base this block has checked.
Relevant(ptr) ==
    LET base == BasePtr[ptr]
        skip == IF par.check = "uaf"
                THEN base.ptr # "" /\ (Is(base.ptr, "global") \/ Is(base.ptr, "alloca"))
                ELSE base.deref
    IN ~ skip /\ base.ptr \notin seen

SeenAfter(ptr) ==
    IF Relevant(ptr) /\ BasePtr[ptr].ptr # "" THEN seen \cup {BasePtr[ptr].ptr} ELSE seen

\* The checks of the three emitters; bounds are checked only for a pointer
\* whose bounds are known.
NullChecks(ptr) == <<AssertCst("gt", SLit(ptr), Null)>>
UafChecks(i, ptr, r) ==
    LET alive == Tmp(i, 20, "bool")
    IN <<About(Stmt("unfreed", alive, "", <<SLit(ptr)>>), <<RgnVar(r)>>), AssertCst("eq", alive, True)>>
BndChecks(i, ptr) ==
    LET g == bnd[ptr]
    IN IF ptr \notin DOMAIN bnd THEN <<>>
       ELSE <<AssertCst("ge", g.off, Cst(0)),
              Bin(Ghost(i, 21), "add", g.off, Cst(prog.size)),
              AssertCst("ge", g.size, Ghost(i, 21))>>

\* insertCrabIRWithEmitter, before an access by i to ptr.
Checks(i, ptr, r) ==
    CASE par.check = "none" \/ ~ Relevant(ptr) \/ (par.typedOnly /\ ~ r.known) -> <<>>
      [] par.check = "null"   -> NullChecks(ptr)
      [] par.check = "uaf"    -> UafChecks(i, ptr, r)
      [] par.check = "bounds" -> BndChecks(i, ptr)

\* What the bounds emitter does after an allocation, a gep, a load of a
\* pointer and a select; an entry of the map is never replaced.
WithBounds(i, stmts, size, off) ==
    IF par.check # "bounds" THEN Nothing
    ELSE [code |-> stmts, bnd |-> bnd @@ (i :> [size |-> size, off |-> off])]

AfterAlloc(i, size) ==
    WithBounds(i, <<Assign(Ghost(i, 22), size), Assign(Ghost(i, 23), Cst(0))>>,
               Ghost(i, 22), Ghost(i, 23))

AfterLoad(i) ==
    WithBounds(i, <<Havoc(Ghost(i, 22)), Havoc(Ghost(i, 23))>>, Ghost(i, 22), Ghost(i, 23))

\* The bounds of the first operand, whichever value a phi node takes.
AfterGep(i, off) ==
    LET p == Ops(i)[1]
    IN CASE ~ (IsPhi(i) \/ Is(i, "bitcast") \/ Is(i, "gep")) -> Nothing
         [] IsConst(p) ->
              WithBounds(i, <<Assign(Ghost(i, 22), Cst(0)), Assign(Ghost(i, 23), Cst(0))>>,
                         Ghost(i, 22), Ghost(i, 23))
         [] p \notin DOMAIN bnd -> Nothing
         [] off = Cst(0) -> WithBounds(i, <<>>, bnd[p].size, bnd[p].off)
         [] OTHER -> WithBounds(i, <<Bin(Ghost(i, 23), "add", off, bnd[p].off)>>,
                                bnd[p].size, Ghost(i, 23))

AfterSelect(i) ==
    LET one(k) == IF IsConst(Ops(i)[k]) THEN [size |-> Cst(0), off |-> Cst(0)]
                  ELSE bnd[Ops(i)[k]]
        known(k) == IsConst(Ops(i)[k]) \/ Ops(i)[k] \in DOMAIN bnd
        cond == Ghost(i, 24)
    IN IF ~ known(2) \/ ~ known(3) THEN Done(<<Cast(cond, <<"zext", 1, 64>>, Op(i, 1))>>)
       ELSE WithBounds(i, <<Cast(cond, <<"zext", 1, 64>>, Op(i, 1)),
                            Choose(Ghost(i, 23), cond, one(2).off, one(3).off),
                            Choose(Ghost(i, 22), cond, one(2).size, one(3).size)>>,
                       Ghost(i, 22), Ghost(i, 23))

-----------------------------------------------------------------------------
(***************************************************************************)
(* Initial contents, MemoryInitializer and initializeGlobalsAtMain.        *)
(***************************************************************************)
\* InitZeroInitializer and InitGlobalMemory: the scalars of a constant with
\* their offsets.  A zero-initialised structure is laid out without the
\* padding that its other initialisers have.
Scalar(off, n, w) == [off |-> off, n |-> n, w |-> w]
RECURSIVE StorageSize(_), ZeroCells(_, _), Cells(_, _)
StorageSize(t) ==
    CASE t.k = "int" -> t.size [] t.k = "struct" -> t.size [] t.k = "array" -> t.n * StorageSize(t.of)
ZeroCells(t, off) ==
    CASE t.k = "int" -> <<Scalar(off, 0, t.w)>>
      [] t.k = "struct" ->
           FlattenSeq([j \in DOMAIN t.of |->
             ZeroCells(t.of[j], off + FoldLeft(LAMBDA n, e : n + StorageSize(e), 0, SubSeq(t.of, 1, j - 1)))])
      [] t.k = "array" ->
           FlattenSeq([j \in 1 .. t.n |-> ZeroCells(t.of, off + (j - 1) * StorageSize(t.of))])
Cells(c, off) ==
    CASE c.k = "int" -> <<Scalar(off, c.n, c.w)>>
      [] c.k = "zero" -> ZeroCells(c.type, off)
      [] c.k = "struct" -> FlattenSeq([j \in DOMAIN c.of |-> Cells(c.of[j], off + c.offs[j])])
      [] c.k = "array" -> FlattenSeq([j \in DOMAIN c.of |-> Cells(c.of[j], off + (j - 1) * c.step)])
      [] OTHER -> <<>>

\* InitInteger, for every scalar of a global or an array: the first one of
\* a region is a strong update.
Initialised(base, cells) ==
    LET r(j) == prog.rgnAt[<<base, cells[j].off>>]
        first(j) == \A k \in 1 .. j - 1 : r(k).id # r(j).id
        t(j) == Tmp(base, 40 + j, "ref")
        one(j) ==
          LET n == Cst(cells[j].n)
          IN CASE IsSingleton(r(j)) -> <<Assign(ScalarVar(r(j)), n)>>
               [] par.track = "sing" /\ r(j).known /\ r(j).scalar ->
                    <<Access("store", NoVar, r(j), first(j), <<Cst(cells[j].off), n>>)>>
               [] par.track = "mem" /\ par.globals /\ r(j).known ->
                    <<About(Gep(t(j), Var(base), Cst(cells[j].off)),
                            <<RgnVar(r(j)), RgnVar(Region(base))>>),
                      Access("store", NoVar, r(j), FALSE, <<t(j), n>>)>>
               [] OTHER -> <<>>
    IN FlattenSeq([j \in DOMAIN cells |-> one(j)])

-----------------------------------------------------------------------------
(***************************************************************************)
(* Allocation, deallocation and pointer arithmetic.                        *)
(***************************************************************************)
\* make_ref: a reference to a new object of the region.
MakeRef(i, size) ==
    Then(Done(<<About(Stmt("make_ref", Var(i), Region(i).id, <<>>), <<RgnVar(Region(i))>>)>>),
         AfterAlloc(i, size))

\* doAllocFn: the size of calloc and strdup is not read, the contents of
\* calloc and realloc are not modelled.
AllocFn(i) ==
    LET f == prog.val[i].f
    IN IF ~ IsRef(i) THEN Done(OtherInst(i)) ELSE
       (IF f.fn = "malloc" THEN MakeRef(i, Op(i, 1))
        ELSE IF f.fn = "realloc" THEN MakeRef(i, Op(i, 2))
        ELSE Then(Done(<<Havoc(Ghost(i, 25))>>), MakeRef(i, Ghost(i, 25))))

\* visitAllocaInst: a reference, or with the option the zeroes of an array.
Alloca(i) ==
    LET n == Ops(i)[1]
        elem == prog.val[i].f.elem
        size == IF IsConst(n) THEN Cst(elem * prog.val[n].f) ELSE Ghost(i, 25)
    IN IF IsRef(i)
       THEN Then(Then(IF IsConst(n) THEN Nothing ELSE Done(<<Bin(size, "mul", SLit(n), Cst(elem))>>),
                      MakeRef(i, size)),
                 IF par.pointers THEN Done(<<AssumeCst("gt", Var(i), Null)>>) ELSE Nothing)
       ELSE IF par.zero /\ par.track = "sing" /\ Region(i).known /\ Region(i).scalar
         THEN Done(Initialised(i, ZeroCells(prog.val[i].f.type, 0)))
       ELSE Nothing

\* doFreeFn.
FreeFn(i) ==
    IF par.track = "mem" /\ IsVar(Op(i, 1))
    THEN Done(<<About(Stmt("remove_ref", NoVar, "", <<Op(i, 1)>>),
                      <<RgnVar(Region(Ops(i)[1]))>>)>>)
    ELSE Nothing

\* doMemIntrinsic: only the checks of the pointers, the memory stays as it is.
MemIntrinsic(i) ==
    LET check(k) == IF par.check \in {"null", "uaf"} THEN Checks(i, Ops(i)[k], Region(Ops(i)[k])) ELSE <<>>
    IN IF par.track # "mem" \/ ~ IsVar(Op(i, 1)) THEN Nothing
       ELSE Done(IF Len(Ops(i)) = 1 THEN check(1)
                 ELSE IF IsVar(Op(i, 2)) THEN check(2) \o check(1) ELSE <<>>)

\* insertCrabIRWithEmitter::gep_ref.
GepRef(i, x, r1, base, r2, off) ==
    Then(Done(<<About(Gep(x, base, off), <<RgnVar(r1), RgnVar(r2)>>)>>), AfterGep(i, off))

\* visitCastInst of a pointer: null is assumed but not assigned.
PointerCast(i) ==
    IF ~ Is(i, "bitcast") \/ ~ HasLit(Op(i, 1)) THEN Done(HavocIfKept(Var(i)))
    ELSE IF IsVar(Op(i, 1))
      THEN GepRef(i, Var(i), Region(i), Op(i, 1), Region(Ops(i)[1]), Cst(0))
    ELSE Done(<<AssumeCst("eq", Var(i), Null)>>)

\* visitSelectInst of pointers.
AssumedNull(x) == <<Havoc(x), AssumeCst("eq", x, Null)>>
PointerSelect(i) ==
    LET chosen == Ops(i)[IF Op(i, 1) = True THEN 2 ELSE 3]
        rs == {RgnVar(Region(Ops(i)[k])) : k \in {j \in 2 .. 3 : IsVar(Op(i, j))}}
    IN IF IsConst(Ops(i)[1])
       THEN IF IsVar(SLit(chosen))
            THEN GepRef(i, Var(i), Region(i), SLit(chosen), Region(chosen), Cst(0))
            ELSE Done(AssumedNull(Var(i)))
       ELSE IF rs = {} THEN Done(AssumedNull(Var(i)))
       ELSE Then(Done(<<About(Choose(Var(i), Op(i, 1), Op(i, 2), Op(i, 3)),
                              <<RgnVar(Region(i))>> \o SetToSeq(rs))>>),
                 AfterSelect(i))

\* evalOffset: the offset from a known object, if it is constant.
KnownOffset[v \in Names] ==
    CASE prog.val[v].op \in {"alloca", "global"} -> <<0>>
      [] Is(v, "alloc") -> <<0>>
      [] Is(v, "bitcast") -> KnownOffset[Ops(v)[1]]
      [] Is(v, "gep") /\ Len(Ops(v)) = 1 /\ KnownOffset[Ops(v)[1]] # <<>> ->
           <<KnownOffset[Ops(v)[1]][1] + prog.val[v].f.off>>
      [] OTHER -> <<>>

\* doGep: a constant offset at once; otherwise the index and then the field,
\* the second from the result of the first but in the region of the base.
DoGep(i, x, base, r1, r2) ==
    LET f == prog.val[i].f
        scaled == Tmp(i, 1, "int")
        index == <<Bin(scaled, "mul", Op(i, 2), Cst(f.size))>>
        add(b, o) == IF x.ty = "ref" THEN GepRef(i, x, r1, b, r2, o)
                     ELSE Done(<<Bin(x, "add", b, o)>>)
    IN CASE x.ty = "int" /\ ~ (r1.known /\ r2.known) -> Nothing
         [] Len(Ops(i)) = 1 -> add(base, Cst(f.off))
         [] f.field = 0 -> Then(Done(index), add(base, scaled))
         [] OTHER -> Then(Then(Done(index), add(base, scaled)), add(x, Cst(f.field)))

\* visitGetElementPtrInst.
StrippedIsObject(v) ==
    LET s[u \in Names] == IF Is(u, "bitcast") THEN s[Ops(u)[1]] ELSE u
    IN prog.val[s[v]].op \in {"alloca", "global"}
ShadowGep(i) == Tmp(i, 31, "int")
GepSkipped(i) == \/ par.track = "num"
                 \/ par.track = "sing" /\ ~ Region(i).known
                 \/ IsSingleton(Region(i))
                 \/ par.track = "sing" /\ KnownOffset[i] # <<>>
GepInst(i) ==
    LET base == Ops(i)[1]
    IN IF GepSkipped(i) THEN Nothing
       ELSE IF par.track = "mem"
         THEN IF ~ IsVar(SLit(base)) THEN Done(HavocIfKept(Var(i)))
              ELSE DoGep(i, Var(i), SLit(base), Region(i), Region(base))
       ELSE IF StrippedIsObject(base)
         THEN DoGep(i, ShadowGep(i), Cst(0), Region(i), Region(base))
       ELSE Nothing

-----------------------------------------------------------------------------
(***************************************************************************)
(* Stores and loads.                                                       *)
(***************************************************************************)
Width(v) == CASE Ty(v) = "ref" -> 32 [] Ty(v) = "bool" -> 1 [] OTHER -> prog.val[v].w

\* inferArrayIndex: a constant, the shadow of the gep, or a variable that
\* nothing assigns.
ArrayIndex(i, ptr) ==
    CASE KnownOffset[ptr] # <<>> -> Cst(KnownOffset[ptr][1])
      [] Is(ptr, "gep") /\ ptr \in DOMAIN geps -> geps[ptr]
      [] OTHER -> Tmp(i, 30, "int")

Resized(x, from, to, o) == <<Cast(x, <<IF to < from THEN "trunc" ELSE "sext", from, to>>, o)>>

\* StoreIntoSingletonMem: the first store to a region in the entry block of
\* main is a strong update.
StrongStore(i, r) == r.single \/ (prog.main /\ Home(i) = 1 /\ r.id \notin stored)

IgnoredAccess(ptr) == \/ par.track = "sing" /\ ~ Region(ptr).known
                      \/ IsConst(ptr) \/ Is(ptr, "constexpr")
StoresArray(i) ==
    LET r == Region(Ops(i)[1])
    IN /\ par.track = "sing" /\ ~ IgnoredAccess(Ops(i)[1])
       /\ ~ IsSingleton(r)

\* A value without a literal (a constant that is too wide for the numbers of
\* the analysis) stops the translation to singleton memory: CLAM_ERROR.
StoreRejected(i) ==
    /\ par.track = "sing" /\ ~ IgnoredAccess(Ops(i)[1])
    /\ ~ Is(Ops(i)[2], "constexpr") /\ ~ HasLit(Op(i, 2))

\* visitStoreInst; the scalar of a singleton is assigned whatever the width.
StoreInst(i) ==
    LET ptr == Ops(i)[1]
        v   == Ops(i)[2]
        r   == Region(ptr)
        val == SLit(v)
        fits == ~ r.known \/ r.w = Width(v)
        t   == Tmp(i, 1, "int")
        resize == IF fits \/ ~ IsVar(val) THEN <<>> ELSE Resized(t, Width(v), r.w, val)
        written == IF resize = <<>> THEN val ELSE t
    IN IF par.track = "num" \/ IgnoredAccess(ptr) \/ ~ HasLit(val) THEN Nothing
       ELSE IF IsSingleton(r) /\ Ty(v) \in {"int", "bool"} THEN Done(<<Assign(ScalarVar(r), val)>>)
       ELSE IF par.track = "sing"
         THEN Done(resize \o
                   <<Access("store", NoVar, r, StrongStore(i, r), <<ArrayIndex(i, ptr), written>>)>>)
       ELSE IF ~ IsVar(val) /\ ~ fits THEN Nothing
       ELSE Done(resize \o Checks(i, ptr, r) \o
                 <<Access("store", NoVar, r, FALSE, <<SLit(ptr), written>>)>>)

\* visitLoadInst and LoadFromSingletonMem.
LoadInst(i) ==
    LET ptr == Ops(i)[1]
        r   == Region(ptr)
        fits == ~ r.known \/ r.w = Width(i)
        x   == IF fits THEN Var(i) ELSE Tmp(i, 1, "int")
        resize == IF fits THEN <<>> ELSE Resized(Var(i), r.w, Width(i), x)
    IN CASE ~ Tracked(i) \/ (par.track = "sing" /\ ~ r.known) -> Nothing
         [] IgnoredAccess(ptr) \/ par.track = "num" -> Done(HavocIfKept(Var(i)))
         [] IsSingleton(r) /\ Ty(i) \in {"int", "bool"} -> Done(<<Assign(Var(i), ScalarVar(r))>>)
         [] par.track = "sing" ->
              Done(<<Access("load", x, r, FALSE, <<ArrayIndex(i, ptr)>>)>> \o resize)
         [] OTHER ->
              Then(Done(Checks(i, ptr, r) \o <<Access("load", x, r, FALSE, <<SLit(ptr)>>)>>),
                   Then(IF IsRef(i) THEN AfterLoad(i) ELSE Nothing, Done(resize)))

\* visitCallInst, an external function: its result and, below the level
\* "mem", the regions it may write are havocked.
ExternalCall(i) ==
    LET rs == SetToSeq(ModifiedRegions(i))
        result == IF Tracked(i) THEN HavocIfKept(Var(i)) ELSE <<>>
        region(r) == IF IsSingleton(r) THEN <<Havoc(ScalarVar(r))>>
                     ELSE IF par.track = "sing" THEN <<Stmt("forget", NoVar, r.id, <<>>)>>
                     ELSE <<>>
    IN Done(result \o FlattenSeq([k \in DOMAIN rs |-> region(rs[k])]))

-----------------------------------------------------------------------------
\* initializeGlobalsAtMain.
GlobalsAtMain ==
    LET one(g) ==
          LET r == Region(g)
              f == prog.val[g].f
          IN (IF ~ par.globals THEN <<>>
              ELSE (IF IsSingleton(r) THEN (IF par.pointers THEN <<Havoc(Var(g))>> ELSE <<>>)
                    ELSE IF f.string THEN <<Havoc(Var(g))>>
                    ELSE <<About(Stmt("make_ref", Var(g), r.id, <<>>), <<RgnVar(r)>>)>>)
                   \o (IF par.pointers /\ ~ f.string THEN <<AssumeCst("gt", Var(g), Null)>> ELSE <<>>))
             \o Initialised(g, Cells(f.init, 0))
    IN IF prog.main THEN FlattenSeq([k \in DOMAIN prog.globals |-> one(prog.globals[k])]) ELSE <<>>
=============================================================================
