------------------------------- MODULE CrabIR -------------------------------
(***************************************************************************)
(* The statements of CrabIR that the translation of src/lib/Clam emits,    *)
(* and what they do to an environment.  Crab itself is a submodule that    *)
(* the repository does not hold: the meaning of its statements is modelled *)
(* from how CfgBuilder.cc uses them.  Integers are mathematical, as in     *)
(* Crab's numerical domains; an unsigned constraint and a bitwise or       *)
(* unsigned operation tell the domains nothing, so their result is any     *)
(* value.  A variable no statement has assigned holds any value, and keeps *)
(* it: that is what a variable missing from an environment stands for.     *)
(***************************************************************************)
EXTENDS Integers, Sequences, FiniteSets, SequencesExt

CONSTANTS Ints,      \* the values an unassigned integer is tried with
          Addrs      \* the values an unassigned reference is tried with

\* An operand is a variable or a constant.  Variable v.k of an LLVM value v
\* is the value itself for k = 0 and a temporary of its translation for
\* k > 0; the cell k of the region or array v has type "cell".
CVar(v, k, ty) == [v |-> v, k |-> k, ty |-> ty]
Cst(n)         == [n |-> n]
IsVar(o)       == "v" \in DOMAIN o
True  == Cst(1)
False == Cst(0)
Null  == Cst(0)

\* A statement: its operation, the variable it assigns, what else it needs,
\* its operands, and the regions it is about.
Stmt(op, x, f, a)  == [op |-> op, x |-> x, f |-> f, a |-> a, r |-> <<>>]
About(s, rs)       == [s EXCEPT !.r = rs]
NoVar              == CVar("", 0, "none")
Havoc(x)           == Stmt("havoc", x, "", <<>>)
Assign(x, o)       == Stmt("assign", x, "", <<o>>)
Bin(x, f, o1, o2)  == Stmt("bin", x, f, <<o1, o2>>)
Test(x, f, o1, o2) == Stmt("test", x, f, <<o1, o2>>)
Choose(x, c, o1, o2) == Stmt("select", x, "", <<c, o1, o2>>)
Cast(x, f, o)      == Stmt("cast", x, f, <<o>>)
AssumeCst(f, o1, o2) == Stmt("assume", NoVar, f, <<o1, o2>>)
AssertCst(f, o1, o2) == Stmt("assert", NoVar, f, <<o1, o2>>)
Unreachable        == AssumeCst("eq", True, False)

TypeVals(ty) == CASE ty = "bool" -> {0, 1}
                  [] ty = "ref"  -> Addrs
                  [] ty = "cell" -> Ints \cup Addrs
                  [] OTHER       -> Ints

-----------------------------------------------------------------------------
Holds(f, a, b) ==
    CASE f = "eq" -> a = b  [] f = "ne" -> a # b
      [] f = "lt" -> a < b  [] f = "le" -> a =< b
      [] f = "gt" -> a > b  [] f = "ge" -> a >= b

Unsigned == {"ult", "ule", "ugt", "uge"}

\* The truth values a constraint may have for the domains.
Truths(f, a, b) == IF f \in Unsigned THEN BOOLEAN ELSE {Holds(f, a, b)}

\* The results an operation may have for the domains.
Quot(a, b) == IF (a < 0) = (b < 0) THEN (IF a < 0 THEN (-a) \div (-b) ELSE a \div b)
              ELSE IF a < 0 THEN -((-a) \div b) ELSE -(a \div (-b))
Results(f, a, b) ==
    CASE f = "add" -> {a + b}
      [] f = "sub" -> {a - b}
      [] f = "mul" -> {a * b}
      [] f \in {"sdiv", "srem"} ->
           IF b = 0 THEN {}
           ELSE {IF f = "sdiv" THEN Quot(a, b) ELSE a - b * Quot(a, b)}
      [] f = "shl"  -> IF b \in 0 .. 3 THEN {a * 2 ^ b} ELSE Ints
      [] f = "band" -> {IF a = 1 THEN b ELSE 0}
      [] f = "bor"  -> {IF a = 1 THEN 1 ELSE b}
      [] f = "bxor" -> {IF a = b THEN 0 ELSE 1}
      [] OTHER -> Ints

\* A cast to or from an integer of w bits: f is the kind, the width of the
\* source and the width of the result.
Wrap(n, w) == LET m == n % 2 ^ w IN IF m >= 2 ^ (w - 1) THEN m - 2 ^ w ELSE m
Converted(f, a) ==
    CASE f[1] = "zext"  -> IF f[2] = 1 THEN a ELSE a % 2 ^ f[2]
      [] f[1] = "sext"  -> IF f[2] = 1 THEN -a ELSE a
      [] f[1] = "trunc" -> IF f[3] = 1 THEN a % 2 ELSE Wrap(a, f[3])

-----------------------------------------------------------------------------
(***************************************************************************)
(* A configuration is an environment and whether an assertion has failed.  *)
(***************************************************************************)
Config(e) == [env |-> e, bad |-> FALSE]

\* The cell k of region r; a strong update of an array leaves one value for
\* all of it, in the cell Whole.  The object of an address is its multiple
\* of ObjectGap.
Whole       == -100
Cell(r, k)  == CVar(r, k, "cell")
ObjectGap   == 16
FreedFlag(a) == CVar("freed", a \div ObjectGap, "cell")
Contents(r, k, e) ==
    IF Cell(r, k) \in DOMAIN e \/ Cell(r, Whole) \notin DOMAIN e THEN Cell(r, k) ELSE Cell(r, Whole)
Without(e, r) == [x \in {y \in DOMAIN e : y.v # r} |-> e[x]]

\* The variables a statement reads, with the cell a load reads.
Reads(s) == {s.a[i] : i \in {j \in DOMAIN s.a : IsVar(s.a[j])}}

\* Every environment that gives the unassigned variables of V a value.
Completed(e, V) ==
    LET U == {x \in V : x \notin DOMAIN e}
    IN IF U = {} THEN {e}
       ELSE {e @@ g : g \in {h \in [U -> UNION {TypeVals(x.ty) : x \in U}] :
                               \A x \in U : h[x] \in TypeVals(x.ty)}}

Set(c, x, n) == [c EXCEPT !.env = (x :> n) @@ @]

\* The configurations after a statement whose operands all have a value.
Effect(s, c) ==
    LET e == c.env
        val(i) == IF IsVar(s.a[i]) THEN e[s.a[i]] ELSE s.a[i].n
    IN CASE s.op = "havoc"  -> {Set(c, s.x, n) : n \in TypeVals(s.x.ty)}
         [] s.op = "assign" -> {Set(c, s.x, val(1))}
         [] s.op = "bin"    -> {Set(c, s.x, n) : n \in Results(s.f, val(1), val(2))}
         [] s.op = "test"   -> {Set(c, s.x, IF b THEN 1 ELSE 0) :
                                  b \in Truths(s.f, val(1), val(2))}
         [] s.op = "select" -> {Set(c, s.x, IF val(1) >= 1 THEN val(2) ELSE val(3))}
         [] s.op = "choose" -> {Set(c, s.x, IF b THEN val(3) ELSE val(4)) :
                                  b \in Truths(s.f, val(1), val(2))}
         [] s.op = "cast"   -> {Set(c, s.x, Converted(s.f, val(1)))}
         [] s.op = "assume" -> IF TRUE \in Truths(s.f, val(1), val(2)) THEN {c} ELSE {}
         [] s.op = "assert" ->
              {IF b THEN c ELSE [c EXCEPT !.bad = TRUE] : b \in Truths(s.f, val(1), val(2))}
         [] s.op = "store" ->
              IF ~ s.f.known THEN {c}
              ELSE IF s.f.strong
                THEN {[c EXCEPT !.env = (Cell(s.f.rgn, Whole) :> val(2)) @@ Without(e, s.f.rgn)]}
              ELSE {Set(c, Cell(s.f.rgn, val(1)), val(2))}
         [] s.op = "load" ->
              IF ~ s.f.known THEN {Set(c, s.x, n) : n \in TypeVals(s.x.ty)}
              ELSE LET cell == Contents(s.f.rgn, val(1), e)
                   IN {Set([c EXCEPT !.env = g], s.x, g[cell]) : g \in Completed(e, {cell})}
         [] s.op = "forget" -> {[c EXCEPT !.env = Without(e, s.f)]}
         [] s.op = "make_ref" -> {Set(c, s.x, n) : n \in Addrs \ {0}}
         [] s.op = "remove_ref" -> {Set(c, FreedFlag(val(1)), 1)}
         [] s.op = "unfreed" ->
              {Set(c, s.x, IF val(1) # 0 /\ FreedFlag(val(1)) \in DOMAIN e THEN 0 ELSE 1)}
         [] OTHER -> {c}

Step(s, c) ==
    IF c.bad THEN {c}
    ELSE UNION {Effect(s, [c EXCEPT !.env = g]) : g \in Completed(c.env, Reads(s))}

\* The configurations a sequence of statements leads to.
Exec(code, C) == FoldLeft(LAMBDA D, s : UNION {Step(s, c) : c \in D}, C, code)

Assigns(code) == {code[i].x : i \in DOMAIN code} \ {NoVar}
ReadsOf(code) == UNION {Reads(code[i]) : i \in DOMAIN code}
=============================================================================
