---------------------------- MODULE CallTranslation ----------------------------
(***************************************************************************)
(* The declaration of each function of CrabIR and the calls to it          *)
(* (CfgBuilder.cc): the regions of RegionAbstraction become inputs and     *)
(* outputs, matched by their position.  All functions are declared first,  *)
(* then their bodies are translated.  A heap of Heaps also has             *)
(*   params    the cells of a function's pointer parameters,               *)
(*   globals   the globals of its graph, and at, their cells per function, *)
(*   returns   the functions whose result is a pointer,                    *)
(*   body      what a body does, in order: [k |-> "use", cell] accesses    *)
(*             memory, [k |-> "call", c] calls.                            *)
(***************************************************************************)
EXTENDS RegionAbstraction

CONSTANT Main       \* the function named main

\* A pointer has a cell of a node, or none; a body uses pointers and makes
\* calls of the program.
Pointed(h) == Cells(h) \cup {NoCell}
Items(h) == [k : {"use"}, cell : Pointed(h)] \cup [k : {"call"}, c : DOMAIN h.calls]
ASSUME PointersAssumption ==
    \A h \in Heaps :
      /\ h.fns \in Seq(ToSet(h.fns))
      /\ \A f \in ToSet(h.fns) : /\ h.params[f] \in Seq(Pointed(h))
                                 /\ h.globals[f] \in Seq(DOMAIN h.at[f])
                                 /\ \A g \in DOMAIN h.at[f] : h.at[f][g] \in Pointed(h)
                                 /\ h.body[f] \in Seq(Items(h))
      /\ \A c \in DOMAIN h.calls : /\ {h.calls[c].in, h.calls[c].callee} \subseteq ToSet(h.fns)
                                  /\ h.globals[h.calls[c].callee] \in Seq(DOMAIN h.at[h.calls[c].in])

VARIABLES
    par,        \* [track : {"sing", "mem"}, single : lower_singleton_aliases]
    cache,      \* m_rgn_cache: the types of the variables of the regions
    undeclared, \* the functions still to be declared
    decl,       \* the inputs and outputs of a function
    built,      \* the functions whose body is translated
    sites,      \* the inputs, outputs and casts of a call
    stopped     \* the error that ended the translation, if any

callVars == <<par, cache, undeclared, decl, built, sites, stopped>>
vars == <<heapVars, callVars>>

Mem == par.track = "mem"

\* isTrackedRegion, getSingletonValue.
TrackedRegion(r) == Mem \/ (ContainScalar(r.info) /\ ~ r.heap)
IsSingle(r) == par.single /\ r.info # Untyped /\ r.sing # NoScalar

\* getInputRegions, getInputOutputRegions, getOutputRegions.
TrackedOnly(rs) == SelectSeq(rs, TrackedRegion)

-----------------------------------------------------------------------------
\* The types of the variables of a region.
ScalarType(r) == <<"value", r.info.k, IF r.info.k = "bool" THEN 1 ELSE r.sing.w>>
TypeOf(kind, r) == CASE kind = "scalar" -> ScalarType(r)
                     [] kind = "array"  -> <<"array", r.info.k, 0>>
                     [] kind = "region" -> <<"region", r.info.k, r.info.w>>
Untypeable(kind, r) == kind # "region" /\ ~ ContainScalar(r.info)
Ref == <<"ref", "ptr", 32>>

MutKind(r) == IF Mem THEN "region" ELSE "array"
Kind(r) == IF IsSingle(r) THEN "scalar" ELSE IF Mem THEN "region" ELSE "array"

\* The regions handed out so far, and a list of inputs and outputs under
\* construction, w.
Regioned(w) == [ids |-> ids, named |-> named, w |-> w]
Work == [in |-> <<>>, out |-> <<>>, cache |-> cache, stop |-> ""]

\* mkScalarVar, mkArrayVar, mkRegionVar of a region: the first one made for
\* a number is used from then on.
Made(w, kind, r) ==
    IF r.id \in DOMAIN w.cache THEN w
    ELSE IF Untypeable(kind, r) THEN [w EXCEPT !.stop = "untypeable region"]
    ELSE [w EXCEPT !.cache = (r.id :> TypeOf(kind, r)) @@ @]
CachedType(w, r) == IF r.id \in DOMAIN w.cache THEN w.cache[r.id] ELSE Ref

Variable(ty, of, id) == [ty |-> ty, of |-> of, id |-> id]
AddIn(w, v)  == [w EXCEPT !.in = Append(@, v)]
AddOut(w, v) == [w EXCEPT !.out = Append(@, v)]

\* An input of a call; an output of a call or of a declaration.
PassIn(w, kind, r)  == LET m == Made(w, kind, r)
                       IN AddIn(m, Variable(CachedType(m, r), <<"cell", r.cell>>, r.id))
PassOut(w, kind, r) == LET m == Made(w, kind, r)
                       IN AddOut(m, Variable(CachedType(m, r), <<"cell", r.cell>>, r.id))

\* The region of a pointer (getRegion), which may be numbered only now.
RegionAt(a, c) == IF c = NoCell THEN NoRegion ELSE Region(a.ids, heap, c)
LookedUp(a, c, w) ==
    [ids   |-> IF c = NoCell THEN a.ids ELSE Numbered(a.ids, heap, c),
     named |-> a.named \cup {RegionAt(a, c)},
     w     |-> w]

-----------------------------------------------------------------------------
(***************************************************************************)
(* addFunctionDeclaration.  The inputs are fresh variables, assigned to    *)
(* those of the parameters and regions in the entry block.                 *)
(***************************************************************************)
Fresh == -1

\* translateInputValueAsScalar, of a reference: the parameter or global of.
FormalReference(a, c, of) ==
    LET r == RegionAt(a, c)
    IN LookedUp(a, c, IF IsSingle(r) THEN a.w
                      ELSE AddIn(Made(a.w, "region", r), Variable(Ref, of, Fresh)))

\* translateInputRegionAsScalar, -AsArray, -AsRegion.
FormalRegion(w, kind, r) ==
    LET m == Made(w, kind, r)
    IN IF kind = "scalar" /\ CachedType(m, r)[1] # "value"
       THEN [m EXCEPT !.stop = "region is not a scalar"]
       ELSE AddIn(m, Variable(IF kind = "scalar" THEN CachedType(m, r) ELSE TypeOf(kind, r),
                              <<"cell", r.cell>>, Fresh))

FormalParam(a, f, i) ==
    IF Mem THEN FormalReference(a, heap.params[f][i], <<"param", i>>) ELSE a
FormalParams(b, f) ==
    FoldLeft(LAMBDA a, i : FormalParam(a, f, i), b, [i \in DOMAIN heap.params[f] |-> i])

\* The globals of f whose region is not a scalar.
GlobalIsScalar(a, f, g) == par.single /\ IsSingle(RegionAt(a, heap.at[f][g]))
FormalGlobal(a, f, g) ==
    IF ~ Mem THEN a
    ELSE IF GlobalIsScalar(a, f, g) THEN LookedUp(a, heap.at[f][g], a.w)
    ELSE FormalReference(a, heap.at[f][g], <<"global", g>>)
FormalGlobals(b, f) == FoldLeft(LAMBDA a, g : FormalGlobal(a, f, g), b, heap.globals[f])

Occurs(r, rs) == \E i \in DOMAIN rs : rs[i].id = r.id

FormalInOut(w, r) ==
    LET kind == IF IsSingle(r) /\ ContainScalar(r.info) THEN "scalar"
                ELSE IF Mem THEN "region" ELSE "array"
    IN PassOut(FormalRegion(w, kind, r), kind, r)

FormalRegions(w, f) ==
    LET news  == TrackedOnly(NewOf(f, lists[f]))
        whole == IF Mem THEN "region" ELSE "array"
        inout(a, r) == IF Occurs(r, news) THEN a ELSE FormalInOut(a, r)
    IN FoldLeft(LAMBDA a, r : PassOut(a, whole, r),
         FoldLeft(inout,
           FoldLeft(LAMBDA a, r : FormalRegion(a, Kind(r), r),
             w, TrackedOnly(OnlyReadOf(f, lists[f]))),
           TrackedOnly(ModifiedOf(f, lists[f]))),
         news)

\* regions_from_memory_object: every region of the function has a variable.
ObjectRegions(w, f) ==
    IF ~ Mem THEN w
    ELSE FoldLeft(LAMBDA a, r : IF IsSingle(r) THEN a ELSE Made(a, "region", r), w, equiv[f])

Result(w, f) == IF Mem /\ f \in heap.returns
                THEN AddOut(w, Variable(Ref, <<"result">>, Fresh)) ELSE w

Declaration(f) ==
    LET p == FormalParams(Regioned(Result(Work, f)), f)
        a == IF f = Main THEN p ELSE FormalGlobals(p, f)
    IN [a EXCEPT !.w = ObjectRegions(IF f = Main THEN @ ELSE FormalRegions(@, f), f)]

-----------------------------------------------------------------------------
\* doCallSite: the actual inputs and outputs.
ActualGlobal(a, f, g) ==
    LET w == IF GlobalIsScalar(a, f, g) THEN a.w
             ELSE AddIn(a.w, Variable(Ref, <<"global", g>>, Fresh))
    IN IF ~ Mem THEN a
       ELSE IF par.single THEN LookedUp(a, heap.at[f][g], w)
       ELSE [a EXCEPT !.w = w]
ActualGlobals(b, c) ==
    FoldLeft(LAMBDA a, g : ActualGlobal(a, heap.calls[c].in, g),
             b, heap.globals[heap.calls[c].callee])

ActualParams(w, c) ==
    LET step(a, i) == IF Mem THEN AddIn(a, Variable(Ref, <<"param", i>>, Fresh)) ELSE a
    IN FoldLeft(step, w, [i \in DOMAIN heap.params[heap.calls[c].callee] |-> i])

MutActualRegions(w, c) ==
    LET f     == heap.calls[c].callee
        es    == callLists[c]
        news  == TrackedOnly(NewOf(f, es))
        whole == IF Mem THEN "region" ELSE "array"
        inout(a, r) == IF Occurs(r, news) THEN a
                       ELSE PassOut(PassIn(a, Kind(r), r), Kind(r), r)
    IN FoldLeft(LAMBDA a, r : PassIn(a, Kind(r), r),
         FoldLeft(LAMBDA a, r : PassOut(a, whole, r),
           FoldLeft(inout, w, TrackedOnly(ModifiedOf(f, es))), news),
         TrackedOnly(OnlyReadOf(f, es)))

ActualRegions(w, c) ==
    LET f     == heap.calls[c].callee
        es    == callLists[c]
        news  == TrackedOnly(NewOf(f, es))
        whole == IF Mem THEN "region" ELSE "array"
        inout(a, r) == IF Occurs(r, news) THEN a
                       ELSE PassOut(PassIn(a, Kind(r), r), Kind(r), r)
    IN FoldLeft(LAMBDA a, r : PassOut(a, whole, r),
         FoldLeft(inout,
           FoldLeft(LAMBDA a, r : PassIn(a, Kind(r), r), w, TrackedOnly(OnlyReadOf(f, es))),
           TrackedOnly(ModifiedOf(f, es))),
         news)

\* The types of a call and of a declaration fit, or a region_cast makes them.
SameType(t, u) == \/ t = u
                  \/ /\ t[1] = "region" /\ u[1] = "region"
                     /\ (t[2] = "unknown") # (u[2] = "unknown")
Fits(formals, actuals) == \A i \in DOMAIN formals : SameType(formals[i].ty, actuals[i].ty)
Casts(formals, actuals) == {i \in DOMAIN formals : formals[i].ty # actuals[i].ty}

Checked(w, d) ==
    [w EXCEPT !.stop =
       CASE @ # "" -> @
         [] Len(d.in) # Len(w.in)   -> "number of inputs"
         [] Len(d.out) # Len(w.out) -> "number of outputs"
         [] ~ (Fits(d.in, w.in) /\ Fits(d.out, w.out)) -> "type"
         [] OTHER -> ""]

Call(b, c) ==
    LET callee == heap.calls[c].callee
        a == ActualGlobals([b EXCEPT !.w = ActualParams([@ EXCEPT !.in = <<>>, !.out = <<>>], c)], c)
    IN [a EXCEPT !.w = Checked(ActualRegions(Result(@, callee), c), decl[callee])]

\* The translation of a body, b.a with the calls b.sites: what it stops at
\* ends it.
Used(a, cell) ==
    LET r == RegionAt(a, cell)
    IN LookedUp(a, cell, IF TrackedRegion(r) THEN Made(a.w, Kind(r), r) ELSE a.w)
CallSite(w, d) == [in |-> w.in, out |-> w.out,
                   castIn |-> Casts(d.in, w.in), castOut |-> Casts(d.out, w.out)]
BodyStep(b, item) ==
    IF b.a.w.stop # "" THEN b
    ELSE IF item.k = "use" THEN [b EXCEPT !.a = Used(@, item.cell)]
    ELSE LET a == Call(b.a, item.c)
         IN [a     |-> a,
             sites |-> IF a.w.stop # "" THEN b.sites
                       ELSE (item.c :> CallSite(a.w, decl[heap.calls[item.c].callee])) @@ b.sites]
Body(f) == FoldLeft(BodyStep, [a |-> Regioned(Work), sites |-> sites], heap.body[f])

-----------------------------------------------------------------------------
Init ==
    /\ HeapInit
    /\ par \in [track : {"sing", "mem"}, single : BOOLEAN]
    /\ cache = <<>>
    /\ undeclared = heap.fns
    /\ decl = [f \in ToSet(heap.fns) |-> [in |-> <<>>, out |-> <<>>]]
    /\ built = {}
    /\ sites = <<>>
    /\ stopped = ""

After(a) == /\ ids' = a.ids /\ named' = a.named /\ cache' = a.w.cache /\ stopped' = a.w.stop
            /\ UNCHANGED <<heap, todo, lists, atCall, callLists, equiv, unchecked, par>>

\* mkCfgBuilder, the first time: all functions, in the order of the module.
Declare ==
    /\ stopped = "" /\ todo = <<>> /\ unchecked = <<>> /\ undeclared # <<>>
    /\ LET f == Head(undeclared)
           a == Declaration(f)
       IN After(a) /\ decl' = [decl EXCEPT ![f] = [in |-> a.w.in, out |-> a.w.out]]
    /\ undeclared' = Tail(undeclared)
    /\ UNCHANGED <<built, sites>>

\* mkCfgBuilder of a function: its body, once.
Build(f) ==
    /\ stopped = "" /\ todo = <<>> /\ unchecked = <<>> /\ undeclared = <<>>
    /\ f \notin built
    /\ LET b == Body(f)
       IN After(b.a) /\ sites' = b.sites
    /\ built' = built \cup {f}
    /\ UNCHANGED <<undeclared, decl>>

Abstract == (NumberField \/ CompareCalls) /\ UNCHANGED callVars

Next == Abstract \/ Declare \/ (\E f \in ToSet(heap.fns) : Build(f))

Spec == Init /\ [][Next]_vars

-----------------------------------------------------------------------------
\* A region is a copy of what getRegion said when it was handed out, kept in
\* the lists of the functions and in their declarations, and getRegion numbers
\* nodes as it is asked: asked again, at any time, it says the same.
RegionsStable == \A r \in named : Inside(r.cell) => r = GetRegion(r.cell)

\* The bytes of field o of node n, of which some type is accessed there.
BytesAt(n, o) == UNION {o .. o + t.bytes - 1 : t \in heap.node[n].types[o]}

\* A region that is not unknown is a sequence of bytes of one type
\* (HeapAbstraction.hh, Region): no access through another field of the node
\* touches them, unless a field of several sizes ended the search for one.
TypedDisjoint ==
    \A r \in named : r.info # Untyped =>
      LET n == r.cell[1]
          ts == heap.node[n].types
      IN \A o \in DOMAIN ts \ {r.cell[2]} :
           \/ BytesAt(n, o) \cap BytesAt(n, r.cell[2]) = {}
           \/ \E p \in DOMAIN ts : p =< o /\ SizeOf(ts[p]) = Mixed

-----------------------------------------------------------------------------
\* The number of the region of the caller that stands for what a formal is.
Image(c, of) == LET cell == heap.calls[c].sim[of]
                IN ids.base[cell[1]] + cell[2]
StandsFor(c, formal, actual) == IF formal.of[1] = "cell"
                                THEN actual.id = Image(c, formal.of[2])
                                ELSE actual.of = formal.of

\* At each call the actual inputs and outputs are, one by one, what the
\* inputs and outputs of the callee are in the caller.
Agrees(c) ==
    LET d == decl[heap.calls[c].callee]
    IN /\ \A i \in DOMAIN d.in  : StandsFor(c, d.in[i], sites[c].in[i])
       /\ \A i \in DOMAIN d.out : StandsFor(c, d.out[i], sites[c].out[i])
DeclAndCallAgree == \A c \in DOMAIN sites : Agrees(c)

\* Whether a region that the callee only reads is, in the caller, one that
\* the callee modifies.
Kept(c, P(_, _)) == {i \in DOMAIN callLists[c] : P(heap.calls[c].callee, callLists[c][i])}
ReadIsModified(c) ==
    \E i \in Kept(c, LAMBDA f, e : ~ IsNew(f, e) /\ ~ IsModified(f, e)), j \in Kept(c, IsModified) :
      callLists[c][i].r.id = callLists[c][j].r.id

\* They agree as long as no region that is only read in the callee is
\* modified, under another name, in the caller.
OrderKept == \A c \in DOMAIN sites : ReadIsModified(c) \/ Agrees(c)

\* A region that a callee may modify is an output of each of its calls, so
\* the caller does not keep the old value, unless the types of some call of
\* it do not fit (and it is passed to none).
ModifiedPassedBack ==
    \A c \in DOMAIN sites : \A i \in DOMAIN atCall[c] :
      LET f == heap.calls[c].callee
          e == atCall[c][i]
      IN IsModified(f, e) /\ TrackedRegion(e.r) =>
           \/ \E v \in ToSet(sites[c].out) : v.id = e.r.id
           \/ \E d \in CallsTo(heap, f) : ~ atCall[d][i].ok

\* The calls whose translation may stop: a region is a scalar, or not
\* tracked, on one side only; a new region, or one that is only read, is in
\* the caller one that is modified; a parameter is a scalar in the callee.
Differs(e) == LET r == Region(ids, heap, e.of)
              IN \/ IsSingle(e.r) # IsSingle(r)
                 \/ TrackedRegion(e.r) # TrackedRegion(r)
NewIsModified(c) == \E i \in Kept(c, IsNew), j \in Kept(c, IsModified) :
                       callLists[c][i].r.id = callLists[c][j].r.id
Awkward(c) ==
    LET f == heap.calls[c].callee
    IN \/ \E i \in DOMAIN callLists[c] : Differs(callLists[c][i])
       \/ NewIsModified(c) \/ ReadIsModified(c)
       \/ \E i \in DOMAIN heap.params[f] : IsSingle(GetRegion(heap.params[f][i]))
       \/ \E i \in DOMAIN heap.globals[f] :
            LET g == heap.globals[f][i]
            IN IsSingle(GetRegion(heap.at[f][g]))
                 # IsSingle(GetRegion(heap.at[heap.calls[c].in][g]))

\* A global of integers accessed as a pointer.
ScalarOfPointers == \E r \in named : r.sing # NoScalar /\ r.info.k = "ptr"

\* Two regions took one number, so they have one variable, of one type.
SharedNumber == \E r, s \in named : r.cell # s.cell /\ r.id = s.id

\* The translation never stops with an error (doCallSite checks that a call
\* and its declaration have as many inputs and outputs, of the same types),
\* unless one of the calls is awkward or regions are confused.
NoAbort == stopped # "" =>
    ScalarOfPointers \/ SharedNumber \/ \E c \in DOMAIN heap.calls : Awkward(c)
=============================================================================
