---------------------------- MODULE MCTranslation ----------------------------
(***************************************************************************)
(* Small functions, and parameters, to translate and run.                  *)
(***************************************************************************)
EXTENDS TranslationRun

Arg(ty)        == Inst("arg", ty, IF ty = "bool" THEN 1 ELSE Bits, <<>>, 0)
Num0(n)        == Inst("const", "int", Bits, <<>>, n)
Truth(n)       == Inst("const", "bool", 1, <<>>, n)
Icmp(f, a, b)  == Inst("icmp", "bool", 1, <<a, b>>, f)
Op2(f, a, b)   == Inst("bin", "int", Bits, <<a, b>>, f)
Bool2(f, a, b) == Inst("bin", "bool", 1, <<a, b>>, f)
Zext(a)        == Inst("zext", "int", 8, <<a>>, "")
Call(f, a)     == Inst("call", "none", 0, a, f)
Phi(ty, w, f)  == Inst("phi", ty, w, [k \in 1 .. Cardinality(DOMAIN f) |-> f[SetToSortSeq(DOMAIN f, <)[k]]], f)
IntPhi(f)      == Phi("int", Bits, f)
SelectOf(ty, w, c, a, b) == Inst("select", ty, w, <<c, a, b>>, "")
Br(d)          == Inst("br", "none", 0, <<>>, <<d>>)
CondBr(c, d, e) == Inst("br", "none", 0, <<c>>, <<d, e>>)
Ret            == Inst("ret", "none", 0, <<>>, "")

Plain(val, blk, rev) ==
    [val |-> val, blk |-> blk, rev |-> rev, rgn |-> <<>>, rgnAt |-> <<>>, obj |-> <<>>,
     mem |-> <<>>, globals |-> <<>>, main |-> TRUE, check |-> "none", size |-> 4]

Preds == {"eq", "ne", "slt", "sge", "ult", "uge"}
Verifying == {"assert", "assume", "assume_not"}

\* A comparison checked by a call, and read again by a branch.
Checked(f, callee, rev) ==
    Plain([a |-> Arg("int"), b |-> Arg("int"), c |-> Icmp(f, "a", "b"), z |-> Zext("c"),
           v |-> Call(callee, <<"z">>), t |-> CondBr("c", 2, 3), e |-> Call("error", <<>>),
           u |-> Inst("unreachable", "none", 0, <<>>, ""), r |-> Ret],
          <<<<"c", "z", "v", "t">>, <<"e", "u">>, <<"r">>>>, rev)

\* A counting loop, and what holds at its end.
Loop(f, n, rev) ==
    Plain([a |-> Arg("int"), n0 |-> Num0(0), n1 |-> Num0(1), n2 |-> Num0(n),
           i |-> IntPhi(1 :> "n0" @@ 3 :> "j"), k |-> IntPhi(1 :> "a" @@ 3 :> "i"),
           c |-> Icmp(f, "i", "n2"), j |-> Op2("add", "i", "n1"),
           t1 |-> Br(2), t2 |-> CondBr("c", 3, 4), t3 |-> Br(2),
           d |-> Icmp("sle", "k", "i"), z |-> Zext("d"), v |-> Call("assert", <<"z">>), r |-> Ret],
          <<<<"t1">>, <<"i", "k", "c", "t2">>, <<"j", "t3">>, <<"d", "z", "v", "r">>>>, rev)

\* A loop whose condition is also checked by a call in its body.
LoopChecked(f) ==
    Plain([n0 |-> Num0(0), n1 |-> Num0(1), i |-> IntPhi(1 :> "n0" @@ 3 :> "j"), c |-> Icmp(f, "i", "n1"),
           z |-> Zext("c"), v |-> Call("assert", <<"z">>), j |-> Op2("add", "i", "n1"),
           t1 |-> Br(2), t2 |-> CondBr("c", 3, 4), t3 |-> Br(2), r |-> Ret],
          <<<<"t1">>, <<"i", "c", "z", "t2">>, <<"v", "j", "t3">>, <<"r">>>>, FALSE)

\* Two values swapped by a switch, and a branch with one target.
SwitchSwap ==
    Plain([a |-> Arg("int"), b |-> Arg("int"), p |-> IntPhi(1 :> "a" @@ 2 :> "q"), q |-> IntPhi(1 :> "b" @@ 2 :> "p"),
           t1 |-> Br(2), t2 |-> Inst("switch", "none", 0, <<"p">>, [default |-> 2, cases |-> <<<<0, 3>>>>]), r |-> Ret],
          <<<<"t1">>, <<"p", "q", "t2">>, <<"r">>>>, FALSE)
OneTarget ==
    Plain([a |-> Arg("int"), b |-> Arg("int"), c |-> Icmp("slt", "a", "b"), t |-> CondBr("c", 2, 2), r |-> Ret],
          <<<<"c", "t">>, <<"r">>>>, FALSE)

\* A loop of one block, which tests the value before or after the step.
SelfLoop(f, tested) ==
    Plain([a |-> Arg("int"), n0 |-> Num0(0), n1 |-> Num0(1),
           i |-> IntPhi(1 :> "n0" @@ 2 :> "j"), j |-> Op2("add", "i", "n1"),
           c |-> Icmp(f, tested, "a"), t1 |-> Br(2), t2 |-> CondBr("c", 2, 3),
           d |-> Icmp("sge", "i", "n0"), z |-> Zext("d"), v |-> Call("assert", <<"z">>), r |-> Ret],
          <<<<"t1">>, <<"i", "j", "c", "t2">>, <<"d", "z", "v", "r">>>>, FALSE)

\* Two values swapped around a loop, and two arms that join.
Swap(f) ==
    Plain([a |-> Arg("int"), b |-> Arg("int"), n0 |-> Num0(0),
           p |-> IntPhi(1 :> "a" @@ 2 :> "q"), q |-> IntPhi(1 :> "b" @@ 2 :> "p"),
           c |-> Icmp(f, "p", "n0"), t1 |-> Br(2), t2 |-> CondBr("c", 3, 2),
           s |-> SelectOf("int", Bits, "c", "p", "q"), t3 |-> CondBr("e", 4, 5),
           e |-> Icmp("slt", "s", "q"), t4 |-> Br(5),
           m |-> IntPhi(3 :> "n0" @@ 4 :> "s"), d |-> Icmp("sle", "m", "n0"),
           z |-> Zext("d"), v |-> Call("assert", <<"z">>), r |-> Ret],
          <<<<"t1">>, <<"p", "q", "c", "t2">>, <<"s", "e", "t3">>, <<"t4">>,
            <<"m", "d", "z", "v", "r">>>>, FALSE)

\* Logic, arithmetic and casts on two operands, the second an argument for k = 9.
Compute(f, g, k) ==
    Plain([a |-> Arg("int"), n |-> IF k = 9 THEN Arg("int") ELSE Num0(k),
           x |-> Op2(f, "a", "n"), y |-> Op2(f, "n", "a"),
           l |-> Icmp("slt", "x", "y"), o |-> Icmp("sge", "a", "n"), h |-> Bool2(g, "l", "o"),
           w |-> Inst("sext", "int", 8, <<"h">>, ""), u |-> Inst("trunc", "int", Bits, <<"w">>, ""),
           n1 |-> Num0(-1), d |-> Icmp("eq", "u", "n1"), z |-> Zext("d"),
           v |-> Call("assert", <<"z">>), r |-> Ret],
          <<<<"x", "y", "l", "o", "h", "w", "u", "d", "z", "v", "r">>>>, FALSE)

\* The two shapes of the optimizer that go through a select, and a Boolean
\* select, on a comparison of Booleans.
Selected(callee, zeroFirst, f) ==
    Plain([a |-> Arg("bool"), b |-> Arg("bool"), n0 |-> Inst("const", "int", 8, <<>>, 0), t |-> Truth(1),
           c |-> Icmp(f, "a", "b"), y |-> Zext("a"),
           s |-> IF zeroFirst THEN SelectOf("int", 8, "b", "n0", "y") ELSE SelectOf("int", 8, "b", "y", "n0"),
           v |-> Call(callee, <<"s">>), k |-> SelectOf("bool", 1, "c", "a", "t"), g |-> CondBr("k", 2, 3),
           e |-> Call("error", <<>>), u |-> Inst("unreachable", "none", 0, <<>>, ""), r |-> Ret],
          <<<<"c", "y", "s", "v", "k", "g">>, <<"e", "u">>, <<"r">>>>, FALSE)

\* A switch, with or without values that meet at its targets, whose default
\* ends in a call of seahorn.fail.
Switched(phi) ==
    Plain([a |-> Arg("int"), n0 |-> Num0(0), n1 |-> Num0(1),
           w |-> Inst("switch", "none", 0, <<"a">>, [default |-> 2, cases |-> <<<<0, 3>>, <<1, 3>>>>]),
           v |-> Call(IF phi THEN "error" ELSE "fail", <<>>),
           u |-> Inst("unreachable", "none", 0, <<>>, ""),
           m |-> IF phi THEN IntPhi(1 :> "a") ELSE Op2("add", "a", "n1"),
           d |-> Icmp("sge", "m", "n0"), z |-> Zext("d"), q |-> Call("assert", <<"z">>), r |-> Ret],
          <<<<"w">>, <<"v", "u">>, <<"m", "d", "z", "q", "r">>>>, FALSE)

\* A condition that is an integer, and an addition with overflow.
Overflow(callee) ==
    Plain([a |-> Arg("int"), b |-> Arg("int"), o |-> Inst("overflow", "none", Bits, <<"a", "b">>, "add"),
           s |-> Inst("extract", "int", Bits, <<"o">>, 0), f |-> Inst("extract", "bool", 1, <<"o">>, 1),
           t |-> CondBr("f", 3, 2), v |-> Call(callee, <<"s">>), r1 |-> Br(3), r |-> Ret],
          <<<<"o", "f", "t">>, <<"s", "v", "r1">>, <<"r">>>>, FALSE)

\* A constant that is read as an unsigned number, and then as a signed one.
Limits(f) ==
    Plain([a |-> Arg("int"), n |-> Num0(-1), c |-> Icmp(f, "a", "n"), y |-> Op2("add", "a", "n"),
           z |-> Zext("c"), d |-> Icmp("sle", "y", "a"), e |-> Bool2("or", "c", "d"), q |-> Zext("e"),
           v |-> Call("assert", <<"q">>), r |-> Ret],
          <<<<"c", "y", "z", "d", "e", "q", "v", "r">>>>, FALSE)

\* A comparison with a constant expression, left to the call that checks it.
OnConstexpr(callee) ==
    Plain([a |-> Arg("int"), k |-> Inst("constexpr", "int", Bits, <<>>, 0), c |-> Icmp("sgt", "a", "k"),
           z |-> Zext("c"), v |-> Call(callee, <<"z">>), r |-> Ret],
          <<<<"c", "z", "v", "r">>>>, FALSE)

-----------------------------------------------------------------------------
(***************************************************************************)
(* Functions that use memory: objects of 8 bytes at 16 and at 32, accessed *)
(* 4 bytes at a time.                                                      *)
(***************************************************************************)
Rgn(id, w, single, heap) ==
    [id |-> id, known |-> TRUE, w |-> w, scalar |-> w # 32, heap |-> heap, single |-> single]
RefArg == Inst("arg", "ref", 32, <<>>, 0)
NullPtr == Inst("const", "ref", 32, <<>>, 0)
AllocaAt(n, addr) == Inst("alloca", "ref", 32, <<n>>, [addr |-> addr, elem |-> 8, type |-> [k |-> "none"]])
MallocAt(n, addr) == Inst("alloc", "ref", 32, <<n>>, [addr |-> addr, fn |-> "malloc"])
Field(p, off)  == Inst("gep", "ref", 32, <<p>>, [off |-> off, size |-> 0, field |-> 0, inbounds |-> TRUE])
Elem(p, idx)   == Inst("gep", "ref", 32, <<p, idx>>, [off |-> 0, size |-> 4, field |-> 0, inbounds |-> TRUE])
Load(p)        == Inst("load", "int", Bits, <<p>>, "")
LoadRef(p)     == Inst("load", "ref", 32, <<p>>, "")
Store(p, n)    == Inst("store", "none", 0, <<p, n>>, "")
Size8          == Inst("const", "int", 32, <<>>, 8)
Size1          == Inst("const", "int", 32, <<>>, 1)

Objects == (16 :> 8) @@ (32 :> 8)
WithMemory(f, rgn, check) == [f EXCEPT !.rgn = rgn, !.obj = Objects, !.check = check]
\* An array of two elements: stores at 0 and at 4 or at index i, and a load;
\* the elements are fields of two regions or cells of one.
Cells2(fields, symbolic) ==
    LET R(k) == Rgn(IF fields THEN "R4" ELSE "R", Bits, FALSE, FALSE)
    IN WithMemory(
         Plain([a |-> Arg("int"), i |-> Arg("int"), n1 |-> Size1, k0 |-> Num0(0), k1 |-> Num0(1),
                p |-> AllocaAt("n1", 16), g |-> IF symbolic THEN Elem("p", "i") ELSE Field("p", 4),
                s1 |-> Store("p", "a"), s2 |-> Store("g", "k1"), x |-> Load("p"), y |-> Load("g"),
                c |-> Icmp("eq", "x", "a"), d |-> Icmp("eq", "y", "k1"), h |-> Bool2("and", "c", "d"),
                z |-> Zext("h"), v |-> Call("assert", <<"z">>), r |-> Ret],
               <<<<"p", "g", "s1", "s2", "x", "y", "c", "d", "h", "z", "v", "r">>>>, FALSE),
         [p |-> [R(0) EXCEPT !.id = "R"], g |-> R(4)], "none")

\* Two objects whose addresses meet in a select, so that they share a region.
Shared(track) ==
    LET R == Rgn("R", Bits, FALSE, FALSE)
    IN WithMemory(
         Plain([b |-> Arg("bool"), a |-> Arg("int"), n1 |-> Size1, k0 |-> Num0(0), k1 |-> Num0(1),
                p |-> AllocaAt("n1", 16), q |-> AllocaAt("n1", 32), s1 |-> Store("p", "k0"), s2 |-> Store("q", "k1"),
                m |-> SelectOf("ref", 32, "b", "p", "q"), s3 |-> Store("m", "a"), x |-> Load("p"),
                c |-> Icmp("eq", "x", "k0"), z |-> Zext("c"), v |-> Call("assert", <<"z">>), r |-> Ret],
               <<<<"p", "q", "s1", "s2", "m", "s3", "x", "c", "z", "v", "r">>>>, FALSE),
         [p |-> R, q |-> R, m |-> R], "none")

\* Objects of 8 bytes at 16 and of 4 at 32.
Uneven(f) == [f EXCEPT !.obj = (16 :> 8) @@ (32 :> 4)]

\* Accesses through an argument that may be null, or to an object that is
\* freed before or between them.
Accessed(check, first) ==
    WithMemory(
      Plain([q |-> RefArg, nul |-> NullPtr, k1 |-> Num0(1), s1 |-> Store("q", "k1"),
             f |-> Inst("free", "none", 0, <<"q">>, ""), l |-> Load("q"), c |-> Icmp("ne", "q", "nul"),
             t |-> CondBr("c", 2, 3), y |-> Load("q"), d |-> Icmp("eq", "y", "k1"), z |-> Zext("d"),
             v |-> Call("assert", <<"z">>), r |-> Ret, r2 |-> Ret],
            <<first \o <<"c", "t">>, <<"y", "d", "z", "v", "r">>, <<"r2">>>>, FALSE),
      [q |-> Rgn("R", Bits, FALSE, TRUE)], check)

\* An access at an index of an object: allocated, on the stack, an argument.
Indexed(base) ==
    LET R == Rgn("R", Bits, FALSE, TRUE)
    IN WithMemory(
         Plain([i |-> Arg("int"), n1 |-> Size1, n8 |-> Size8, k0 |-> Num0(0),
                p |-> CASE base = "malloc" -> MallocAt("n8", 16)
                        [] base = "alloca" -> AllocaAt("n1", 16)
                        [] OTHER -> RefArg,
                g |-> Elem("p", "i"), s |-> Store("g", "k0"), l |-> Load("g"), r |-> Ret],
               <<(IF base = "arg" THEN <<>> ELSE <<"p">>) \o <<"g", "s", "l", "r">>>>, FALSE),
         [p |-> R, g |-> R], "bounds")

\* Two objects of different sizes that meet in a phi node or in a select.
Joined(check, phi) ==
    LET R == Rgn("R", Bits, FALSE, TRUE)
    IN Uneven(WithMemory(
         Plain([b |-> Arg("bool"), n4 |-> Inst("const", "int", 32, <<>>, 4), n8 |-> Size8, k0 |-> Num0(0),
                p |-> MallocAt("n8", 16), q |-> MallocAt("n4", 32), t |-> CondBr("b", 2, 3), t2 |-> Br(4), t3 |-> Br(4),
                m |-> IF phi THEN Phi("ref", 32, 2 :> "p" @@ 3 :> "q") ELSE SelectOf("ref", 32, "b", "p", "q"),
                s1 |-> Store("m", "k0"), g |-> Field("m", 4), s2 |-> Store("g", "k0"), x |-> Load("m"),
                c |-> Icmp("eq", "x", "k0"), z |-> Zext("c"), v |-> Call("assert", <<"z">>), r |-> Ret],
               <<<<"p", "q", "t">>, <<"t2">>, <<"t3">>, <<"m", "s1", "g", "s2", "x", "c", "z", "v", "r">>>>, FALSE),
         [p |-> R, q |-> R, m |-> R, g |-> R], check))

\* A cell written by a store, and then by something else.
Rewritten(by) ==
    LET R == Rgn("R", Bits, FALSE, FALSE)
    IN WithMemory(
         Plain([a |-> Arg("int"), n1 |-> Size1, k0 |-> Num0(0), p |-> AllocaAt("n1", 16), s1 |-> Store("p", "a"),
                w |-> CASE by = "memset" -> Inst("memset", "none", 0, <<"p">>, "")
                        [] by = "extern" -> Inst("extern", "none", 0, <<>>, [cells |-> {16}, writes |-> {R}])
                        [] by \in {"wide", "toobig"} -> Store("p", "k8"),
                k8 |-> Inst(IF by = "wide" THEN "const" ELSE "toobig", "int", 8, <<>>, 1), x |-> Load("p"), c |-> Icmp("eq", "x", "a"),
                z |-> Zext("c"), v |-> Call("assert", <<"z">>), r |-> Ret],
               <<<<"p", "s1", "w", "x", "c", "z", "v", "r">>>>, FALSE),
         [p |-> R], "none")

\* A pointer through memory, a cast of null, and a comparison with null.
Pointers ==
    LET R == Rgn("R", Bits, FALSE, FALSE)
    IN WithMemory(
         Plain([a |-> Arg("int"), n1 |-> Size1, nul |-> NullPtr, pp |-> AllocaAt("n1", 32), p |-> AllocaAt("n1", 16),
                s1 |-> Store("pp", "p"), m |-> LoadRef("pp"), s2 |-> Store("m", "a"), x |-> Load("p"),
                o |-> Inst("bitcast", "ref", 32, <<"nul">>, ""), u |-> Inst("bitcast", "ref", 32, <<"m">>, ""),
                c |-> Icmp("eq", "x", "a"), e |-> Icmp("ne", "u", "nul"), h |-> Icmp("eq", "o", "p"),
                y |-> Bool2("and", "c", "e"), z |-> Zext("y"), v |-> Call("assert", <<"z">>),
                t |-> CondBr("h", 2, 3), r |-> Ret, r2 |-> Ret],
               <<<<"pp", "p", "s1", "m", "s2", "x", "o", "u", "c", "e", "h", "y", "z", "v", "t">>, <<"r">>, <<"r2">>>>, FALSE),
         [pp |-> Rgn("P", 32, FALSE, FALSE), p |-> R, m |-> R, u |-> R, o |-> R], "none")

\* A global of two elements, or one that is a scalar, read after a store, to
\* the scalar also of a wider constant that fits, or does not fit, its width.
Global(kind) ==
    LET scalar == kind \in {"scalar", "fits", "wraps"}
        R == Rgn("RG", Bits, scalar, FALSE)
        int == [k |-> "int", size |-> 4, w |-> Bits]
    IN [WithMemory(
         Plain([a |-> Arg("int"), k1 |-> Num0(1),
                G |-> Inst("global", "ref", 32, <<>>,
                           [addr |-> 32, string |-> FALSE,
                            init |-> CASE kind = "array" -> [k |-> "array", step |-> 4,
                                                            of |-> <<[k |-> "int", n |-> 1, w |-> Bits],
                                                                     [k |-> "int", n |-> 1, w |-> Bits]>>]
                                       [] kind = "zero" -> [k |-> "zero", type |-> [k |-> "array", n |-> 2, of |-> int]]
                                       [] scalar -> [k |-> "int", n |-> 1, w |-> Bits]]),
                k8 |-> Inst("const", "int", 8, <<>>, IF kind = "fits" THEN 1 ELSE 2),
                g |-> Field("G", IF scalar THEN 0 ELSE 4),
                s |-> Store("G", IF kind \in {"fits", "wraps"} THEN "k8" ELSE "a"), x |-> Load("g"),
                c |-> Icmp("eq", "x", "k1"), z |-> Zext("c"), v |-> Call("assert", <<"z">>), r |-> Ret],
               <<<<"g", "s", "x", "c", "z", "v", "r">>>>, FALSE),
         [G |-> R, g |-> R], "none")
       EXCEPT !.globals = <<"G">>, !.rgnAt = (<<"G", 0>> :> R) @@ (<<"G", 4>> :> R),
              !.mem = IF kind = "zero" THEN (32 :> 0) @@ (36 :> 0) ELSE (32 :> 1) @@ (36 :> 1)]

-----------------------------------------------------------------------------
\* A function is named by its family and what it is built from.
MCProgramOf(c) ==
    CASE c[1] = "checked"  -> Checked(c[2], c[3], c[4])
      [] c[1] = "loop"     -> Loop(c[2], c[3], c[4])
      [] c[1] = "selfloop" -> SelfLoop(c[2], c[3])
      [] c[1] = "swap"     -> Swap(c[2])
      [] c[1] = "loopchecked" -> LoopChecked(c[2])
      [] c[1] = "switchswap" -> SwitchSwap
      [] c[1] = "onetarget" -> OneTarget
      [] c[1] = "compute"  -> Compute(c[2], c[3], c[4])
      [] c[1] = "selected" -> Selected(c[2], c[3], c[4])
      [] c[1] = "switched" -> Switched(c[2])
      [] c[1] = "overflow" -> Overflow(c[2])
      [] c[1] = "limits"   -> Limits(c[2])
      [] c[1] = "constexpr" -> OnConstexpr(c[2])
      [] c[1] = "cells"    -> Cells2(c[2], c[3])
      [] c[1] = "shared"   -> Shared(0)
      [] c[1] = "pointers" -> Pointers
      [] c[1] = "null" \/ c[1] = "uaf" -> Accessed(c[1], c[2])
      [] c[1] = "indexed"  -> Indexed(c[2])
      [] c[1] = "joined"   -> Joined(c[2], c[3])
      [] c[1] = "rewritten" -> Rewritten(c[2])
      [] c[1] = "global"   -> Global(c[2])

ScalarCases ==
    {<<"checked", f, v, rev>> : f \in Preds, v \in Verifying, rev \in BOOLEAN}
    \cup {<<"loop", f, n, rev>> : f \in Preds, n \in {1, -1}, rev \in BOOLEAN}
    \cup {<<"selfloop", f, v>> : f \in Preds, v \in {"i", "j"}}
    \cup {<<"swap", f>> : f \in Preds}
    \cup {<<"loopchecked", f>> : f \in Preds}
    \cup {<<"switchswap">>, <<"onetarget">>}
    \cup {<<"compute", f, g, k>> : f \in {"add", "sub", "mul", "sdiv", "srem", "udiv", "and", "shl", "lshr"},
                                  g \in {"and", "or", "xor"}, k \in {9, 1, -1}}
    \cup {<<"selected", v, z, f>> : v \in Verifying, z \in BOOLEAN, f \in {"eq", "ne", "ult"}}
    \cup {<<"switched", p>> : p \in BOOLEAN}
    \cup {<<"overflow", v>> : v \in Verifying}
    \cup {<<"limits", f>> : f \in Preds}
    \cup {<<"constexpr", v>> : v \in Verifying}
MemCases ==
    {<<"cells", TRUE, FALSE>>, <<"cells", FALSE, FALSE>>, <<"cells", FALSE, TRUE>>, <<"shared">>, <<"pointers">>,
     <<"null", <<>>>>, <<"null", <<"s1">>>>, <<"uaf", <<"s1", "f">>>>, <<"uaf", <<"s1", "f", "l">>>>}
    \cup {<<"indexed", b>> : b \in {"malloc", "alloca", "arg"}}
    \cup {<<"joined", c, p>> : c \in {"none", "bounds"}, p \in BOOLEAN}
    \cup {<<"rewritten", b>> : b \in {"memset", "extern", "wide", "toobig"}}
    \cup {<<"global", k>> : k \in {"array", "zero", "scalar", "fits", "wraps"}}

Defaults == [track |-> "num", useless |-> TRUE, avoidBool |-> TRUE, lower |-> FALSE,
             overflow |-> FALSE, single |-> FALSE, check |-> "none", typedOnly |-> FALSE,
             pointers |-> TRUE, globals |-> TRUE, zero |-> FALSE]
ScalarParams == {Defaults, [Defaults EXCEPT !.useless = FALSE, !.overflow = TRUE], [Defaults EXCEPT !.avoidBool = FALSE],
             [Defaults EXCEPT !.avoidBool = FALSE, !.lower = TRUE]}
MemParams ==
    {[Defaults EXCEPT !.track = t, !.single = s, !.pointers = p] : t \in {"sing", "mem"}, s \in BOOLEAN, p \in BOOLEAN}
MCCases == {<<c, [p EXCEPT !.check = MCProgramOf(c).check]>> : c \in MemCases, p \in {q \in MemParams : q.track = "mem"}}
           \cup {<<c, p>> : c \in {d \in MemCases : MCProgramOf(d).check = "none"}, p \in MemParams}
           \cup {<<c, p>> : c \in ScalarCases, p \in ScalarParams}
MCInts == -3 .. 2
MCAddrs == {0, 16, 32}
=============================================================================
