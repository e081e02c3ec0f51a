--------------------------- MODULE AbstractDomain ---------------------------
(***************************************************************************)
(* What src/lib/Clam/Clam.cc and src/lib/Clam/crab/path_analyzer.cc ask of *)
(* Crab, which is a submodule the repository does not hold: statements,    *)
(* abstract values and the forward transformer.  An abstract value is the  *)
(* set of stores it describes.  The relational domain, "zones", is exact   *)
(* on these sets; the other one, "int", keeps the box of a set, that is,   *)
(* one interval per variable.  Lo and Hi stand for every integer that is   *)
(* at most Lo or at least Hi, so an interval that holds one of them is not *)
(* finite.                                                                 *)
(***************************************************************************)
EXTENDS Integers, Sequences, FiniteSets, SequencesExt

CONSTANTS Vars,      \* the variables of the CrabIR programs
          Bools,     \* those that are 0 or 1: Booleans, and the tags of a region
          Lo, Hi     \* the least and the greatest integer told apart

ASSUME DomainAssumption == /\ Bools \subseteq Vars
                           /\ Lo \in Int /\ Hi \in Int /\ Lo < 0 /\ Hi > 1

Doms == {"zones", "int"}
IsRelational(d) == d = "zones"

Bound(n) == IF n < Lo THEN Lo ELSE IF n > Hi THEN Hi ELSE n
Stored(v) == IF v \in Bools THEN 0 .. 1 ELSE Lo .. Hi
Top      == {s \in [Vars -> Lo .. Hi] : \A v \in Bools : s[v] \in 0 .. 1}
Bottom   == {}

Values(inv, v) == {s[v] : s \in inv}
Least(S)    == CHOOSE n \in S : \A k \in S : n =< k
Greatest(S) == CHOOSE n \in S : \A k \in S : n >= k

\* The best value of domain d that holds the stores of inv.
Abs(d, inv) ==
    IF d = "zones" \/ inv = Bottom THEN inv
    ELSE LET lb == [v \in Vars |-> Least(Values(inv, v))]
             ub == [v \in Vars |-> Greatest(Values(inv, v))]
         IN  {s \in Top : \A v \in Vars : lb[v] =< s[v] /\ s[v] =< ub[v]}

\* A statement: operation, the variable it defines, the one it reads, a
\* number.  "havoc" x, "assign" x := n, "add" x := y + n, "test" x := (y <= n),
\* "assume" y <= n, "assume_not" y > n, "assert" y <= n, and the Boolean
\* "bool_assume" y = n and "bool_assert" y = 1; assume(false) reads nothing.
None == "none"
Stmt(op, x, y, n) == [op |-> op, x |-> x, y |-> y, n |-> n]
AssumeFalse       == Stmt("assume", None, None, 0)

Uses(st) == {st.y} \ {None}
Defs(st) == {st.x} \ {None}
Guards   == {"assume", "assume_not", "assert", "bool_assume", "bool_assert"}

\* The statements the Boolean phase of a path analysis executes: the guards
\* and the assignments of Booleans, but not their havoc.
IsBool(st) == \/ st.op \in {"bool_assume", "bool_assert"}
              \/ st.x \in Bools /\ st.op # "havoc"

Holds(st, s) ==
    /\ st.y # None
    /\ CASE st.op \in {"assume", "assert"} -> s[st.y] =< st.n
         [] st.op = "assume_not"  -> s[st.y] > st.n
         [] st.op = "bool_assume" -> s[st.y] = st.n
         [] st.op = "bool_assert" -> s[st.y] = 1

Written(st, s) ==
    CASE st.op = "assign" -> {st.n}
      [] st.op = "add"    -> {IF s[st.y] \in {Lo, Hi} THEN s[st.y]
                              ELSE Bound(s[st.y] + st.n)}
      [] st.op = "test"   -> {IF s[st.y] =< st.n THEN 1 ELSE 0}
      [] st.op = "havoc"  -> Stored(st.x)

\* A statement writes a variable what it can hold.
WellTyped(st) == \/ st.op \in Guards
                 \/ st.x \in Vars /\ \A s \in Top : Written(st, s) \subseteq Stored(st.x)

\* The forward transformer of domain d.  Past an assertion it holds.
Post(d, inv, st) ==
    Abs(d, IF st.op \in Guards THEN {s \in inv : Holds(st, s)}
           ELSE UNION {{[s EXCEPT ![st.x] = n] : n \in Written(st, s)} : s \in inv})

\* The value after a sequence of statements.
Run(d, inv, sts) == FoldLeft(LAMBDA v, st : Post(d, v, st), inv, sts)
=============================================================================
