------------------------------- MODULE Bitcode -------------------------------
(***************************************************************************)
(* The LLVM bitcode that clam reads, as data, and its execution.  LLVM is  *)
(* a library: this is its meaning as the translation in CfgBuilder.cc uses *)
(* it.  A function is a record of                                          *)
(*   val  what each name is: a constant, an argument or an instruction,    *)
(*        [op, ty, w, a, f] with its type, its width in bits, the names of *)
(*        its operands and what else the operation needs;                  *)
(*   blk  the names of each block in order, a terminator last, the blocks  *)
(*        in topological order;                                            *)
(*   rev  whether the list of the uses of a value is in reverse order (it  *)
(*        is when bitcode was just read, passes leave it in any order);    *)
(*   obj  the objects: the address of each with its size;                  *)
(*   mem  the contents of the globals at the start;                        *)
(*   check  the kind of access that is an error here: "none", "null",      *)
(*        "uaf" or "bounds"; other faulty accesses are undefined.          *)
(* An execution that wraps around, divides by zero or dereferences null is *)
(* undefined or outside what Crab's mathematical integers are about: it    *)
(* stops, and nothing is claimed of it.                                    *)
(***************************************************************************)
EXTENDS Integers, Sequences, FiniteSets, SequencesExt

CONSTANT Bits        \* the width of the integers of the programs

VARIABLE prog        \* the function that is translated and run

Inst(op, ty, w, a, f) == [op |-> op, ty |-> ty, w |-> w, a |-> a, f |-> f]

Is(v, op)    == prog.val[v].op = op
Ty(v)        == prog.val[v].ty
Ops(v)       == prog.val[v].a
Blocks       == 1 .. Len(prog.blk)
Names        == DOMAIN prog.val
Term(b)      == Last(prog.blk[b])
Casts        == {"zext", "sext", "trunc"}

\* The phi nodes of a block, and its other instructions.
IsPhi(v)     == Is(v, "phi")
Phis(b)      == SelectSeq(prog.blk[b], IsPhi)
Body(b)      == SelectSeq(prog.blk[b], LAMBDA v : ~ IsPhi(v))
Home(v)      == CHOOSE b \in Blocks : \E i \in DOMAIN prog.blk[b] : prog.blk[b][i] = v

\* The users of a value, in the order of its list of uses.
Text         == FlattenSeq(prog.blk)
Users(v) == LET us == SelectSeq(Text, LAMBDA u : \E i \in DOMAIN Ops(u) : Ops(u)[i] = v)
            IN IF prog.rev THEN Reverse(us) ELSE us
AllUsers(v, P(_)) == \A i \in DOMAIN Users(v) : P(Users(v)[i])

\* The successors of a block, in the order of the terminator's operands.
Succs(b) == LET t == prog.val[Term(b)]
            IN CASE t.op = "br" -> t.f
                 [] t.op = "switch" -> <<t.f.default>> \o [i \in DOMAIN t.f.cases |-> t.f.cases[i][2]]
                 [] OTHER -> <<>>
SuccSet(b) == {Succs(b)[i] : i \in DOMAIN Succs(b)}

-----------------------------------------------------------------------------
MinInt == -(2 ^ (Bits - 1))
MaxInt == 2 ^ (Bits - 1) - 1
AsUnsigned(n, w) == n % 2 ^ w
AsSigned(n, w)   == LET m == n % 2 ^ w IN IF m >= 2 ^ (w - 1) THEN m - 2 ^ w ELSE m
Bit(n, i)        == (n \div 2 ^ i) % 2

UnsignedPreds == {"ult", "ule", "ugt", "uge"}
PredHolds(f, w, a, b) ==
    LET x == IF f \in UnsignedPreds THEN AsUnsigned(a, w) ELSE a
        y == IF f \in UnsignedPreds THEN AsUnsigned(b, w) ELSE b
    IN CASE f = "eq" -> x = y  [] f = "ne" -> x # y
         [] f \in {"ult", "slt"} -> x < y  [] f \in {"ule", "sle"} -> x =< y
         [] f \in {"ugt", "sgt"} -> x > y  [] f \in {"uge", "sge"} -> x >= y

Truncated(a, b) == LET q == (IF a < 0 THEN -a ELSE a) \div (IF b < 0 THEN -b ELSE b)
                   IN IF (a < 0) = (b < 0) THEN q ELSE -q

BitwiseOf(f, w, a, b) ==
    LET bit(i) == CASE f = "and" -> Bit(a, i) * Bit(b, i)
                    [] f = "or"  -> IF Bit(a, i) + Bit(b, i) > 0 THEN 1 ELSE 0
                    [] f = "xor" -> (Bit(a, i) + Bit(b, i)) % 2
    IN FoldFunction(+, 0, [i \in 0 .. w - 1 |-> bit(i) * 2 ^ i])

\* The result of a binary operation, a set that is empty when it is undefined.
BinResult(f, w, a, b) ==
    CASE f = "add" -> {a + b}  [] f = "sub" -> {a - b}  [] f = "mul" -> {a * b}
      [] f = "sdiv" -> IF b = 0 THEN {} ELSE {Truncated(a, b)}
      [] f = "srem" -> IF b = 0 THEN {} ELSE {a - b * Truncated(a, b)}
      [] f = "udiv" -> IF b = 0 THEN {}
                       ELSE {AsSigned(AsUnsigned(a, w) \div AsUnsigned(b, w), w)}
      [] f = "urem" -> IF b = 0 THEN {}
                       ELSE {AsSigned(AsUnsigned(a, w) % AsUnsigned(b, w), w)}
      [] f = "shl"  -> IF b \in 0 .. w - 1 THEN {a * 2 ^ b} ELSE {}
      [] f = "ashr" -> IF b \in 0 .. w - 1 THEN {a \div 2 ^ b} ELSE {}
      [] f = "lshr" -> IF b \in 0 .. w - 1
                       THEN {AsSigned(AsUnsigned(a, w) \div 2 ^ b, w)} ELSE {}
      [] w = 1      -> {BitwiseOf(f, 1, a, b)}
      [] OTHER      -> {AsSigned(BitwiseOf(f, w, AsUnsigned(a, w), AsUnsigned(b, w)), w)}
InRange(w, n) == IF w = 1 THEN n \in {0, 1} ELSE -(2 ^ (w - 1)) =< n /\ n < 2 ^ (w - 1)

CastResult(v, n) ==
    LET w == prog.val[Ops(v)[1]].w
    IN CASE Is(v, "zext")  -> AsUnsigned(n, w)
         [] Is(v, "sext")  -> IF w = 1 THEN -n ELSE n
         [] Is(v, "trunc") -> IF prog.val[v].w = 1 THEN n % 2 ELSE AsSigned(n, prog.val[v].w)

-----------------------------------------------------------------------------
(***************************************************************************)
(* An execution: the values of the names, the memory (a function from the  *)
(* addresses written so far), and whether it goes on, has failed an        *)
(* assertion ("error") or has stopped.                                     *)
(***************************************************************************)
Started(env) == [env |-> env, mem |-> prog.mem, freed |-> {}, out |-> "run"]

ObjectAt(a)  == {o \in DOMAIN prog.obj : o =< a /\ a < o + prog.obj[o]}
FaultsOf(x, a) == {k \in {"null", "uaf", "bounds"} :
                     CASE k = "null" -> a = 0
                       [] k = "uaf"  -> ObjectAt(a) \cap x.freed # {}
                       [] k = "bounds" -> a # 0 /\ ObjectAt(a) = {}}

Value(x, v) == IF prog.val[v].op \in {"const", "constexpr", "toobig"} THEN prog.val[v].f ELSE x.env[v]

Put(x, v, S)  == {[x EXCEPT !.env = (v :> n) @@ @] : n \in S}
Stop(x)       == {[x EXCEPT !.out = "stop"]}
Fail(x)       == {[x EXCEPT !.out = "error"]}

\* What a call of a function of the verifier does with its condition.
VerifierResult(x, callee, n) ==
    CASE callee = "error"      -> Fail(x)
      [] callee = "assert"     -> IF n = 0 THEN Fail(x) ELSE {x}
      [] callee = "assume"     -> IF n = 0 THEN Stop(x) ELSE {x}
      [] callee = "assume_not" -> IF n = 0 THEN {x} ELSE Stop(x)

Verifiers == {"assert", "assume", "assume_not", "error"}

\* The executions that one instruction leads to (phis and branches apart).
ExecInst(x, v) ==
    LET i == prog.val[v]
        arg(k) == Value(x, Ops(v)[k])
    IN CASE i.op = "icmp" ->
              Put(x, v, {IF PredHolds(i.f, prog.val[Ops(v)[1]].w, arg(1), arg(2)) THEN 1 ELSE 0})
         [] i.op = "bin" ->
              LET S == BinResult(i.f, i.w, arg(1), arg(2))
              IN IF S # {} /\ \A n \in S : InRange(i.w, n) THEN Put(x, v, S) ELSE Stop(x)
         [] i.op \in Casts -> Put(x, v, {CastResult(v, arg(1))})
         [] i.op = "select" -> Put(x, v, {IF arg(1) = 1 THEN arg(2) ELSE arg(3)})
         [] i.op = "bitcast" -> Put(x, v, {arg(1)})
         [] i.op \in {"alloca", "alloc"} -> Put(x, v, {i.f.addr})
         [] i.op = "free" -> IF arg(1) = 0 THEN {x} ELSE {[x EXCEPT !.freed = @ \cup ObjectAt(arg(1))]}
         [] i.op = "gep" -> Put(x, v, {arg(1) + (IF Len(Ops(v)) = 1 THEN i.f.off
                                                 ELSE arg(2) * i.f.size + i.f.field)})
         [] i.op \in {"load", "store", "memset"} ->
              IF FaultsOf(x, arg(1)) # {}
              THEN (IF prog.check \in FaultsOf(x, arg(1)) THEN Fail(x) ELSE Stop(x))
              ELSE CASE i.op = "store" -> {[x EXCEPT !.mem = (arg(1) :> arg(2)) @@ @]}
                     [] i.op = "memset" -> {[x EXCEPT !.mem = (arg(1) :> 0) @@ @]}
                     [] arg(1) \in DOMAIN x.mem ->
                          Put(x, v, {IF i.ty = "int" THEN AsSigned(x.mem[arg(1)], i.w) ELSE x.mem[arg(1)]})
                     [] OTHER -> Stop(x)
         [] i.op = "extern" ->
              {[x EXCEPT !.mem = m @@ @] : m \in [i.f.cells -> {0, 1}]}
         [] i.op = "call" /\ i.f \in Verifiers ->
              VerifierResult(x, i.f, IF Ops(v) = <<>> THEN 0 ELSE arg(1))
         [] i.op = "call" /\ i.f = "nondet" ->
              Put(x, v, IF i.ty = "bool" THEN {0, 1} ELSE MinInt .. MaxInt)
         [] i.op = "overflow" ->
              LET n == CHOOSE r \in BinResult(i.f, i.w, arg(1), arg(2)) : TRUE
              IN Put(x, v, {n})
         [] i.op = "extract" ->
              LET n == x.env[Ops(v)[1]]
              IN IF i.f = 1 THEN Put(x, v, {IF InRange(Bits, n) THEN 0 ELSE 1})
                 ELSE IF InRange(Bits, n) THEN Put(x, v, {n}) ELSE Stop(x)
         [] i.op = "unreachable" -> Stop(x)
         [] OTHER -> {x}

ExecSeq(x, names) ==
    FoldLeft(LAMBDA X, v : UNION {IF y.out = "run" THEN ExecInst(y, v) ELSE {y} : y \in X},
             {x}, names)

\* The block a terminator goes to, and the phis evaluated together on the way.
Target(x, b) ==
    LET t == prog.val[Term(b)]
    IN IF t.op = "switch"
       THEN LET hit == {i \in DOMAIN t.f.cases : t.f.cases[i][1] = Value(x, t.a[1])}
            IN IF hit = {} THEN t.f.default ELSE t.f.cases[CHOOSE i \in hit : TRUE][2]
       ELSE IF t.a = <<>> \/ Value(x, t.a[1]) = 1 THEN t.f[1] ELSE t.f[2]

TakeEdge(x, b, d) ==
    LET new == [v \in {Phis(d)[i] : i \in DOMAIN Phis(d)} |-> Value(x, prog.val[v].f[b])]
    IN [x EXCEPT !.env = new @@ @]
=============================================================================
