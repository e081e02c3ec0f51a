---------------------------- MODULE AnalysisProofs ----------------------------
(***************************************************************************)
(* Proofs about ClamAnalysis and ClamQueries, for every program, any       *)
(* assumptions and every order of analyses, clears and queries.            *)
(*                                                                         *)
(* 1. One step of any domain holds of what the exact one makes of the same *)
(*    stores, and so does a block, and a round of the fixpoint: an         *)
(*    invariant covers all executions its assumptions allow.               *)
(* 2. Results of an object are accounted for by the analyses since it was  *)
(*    cleared (IInv).  With 1 this gives the edges and the verdict.        *)
(* 3. A range wraps around its type as the numbers do, unless the interval *)
(*    is too wide; so a new answer holds, and a cached one is a former new *)
(*    answer (QInv).                                                       *)
(***************************************************************************)
EXTENDS ClamQueries, NatSets

-----------------------------------------------------------------------------
(* Abstract values.                                                        *)

\* A set of the integers told apart has a least and a greatest element.
LEMMA LeastOf ==
    ASSUME NEW S \in SUBSET (Lo .. Hi), S # {}
    PROVE  Least(S) \in S /\ \A k \in S : Least(S) =< k
<1> DEFINE T == {k - Lo : k \in S}
<1>1. T \in SUBSET Nat /\ T # {}
  <2>1. \A k \in Lo .. Hi : k - Lo \in Nat
    BY DomainAssumption
  <2> QED BY <2>1
<1>2. PICK x \in T : \A y \in T : x <= y
  <2> HIDE DEF T
  <2> QED BY <1>1, LeastElement
<1>3. PICK n \in S : x = n - Lo
  BY <1>2
<1>4. \A k \in S : n =< k
  <2> TAKE k \in S
  <2>1. k - Lo \in T
    OBVIOUS
  <2>2. x <= k - Lo
    BY <1>2, <2>1
  <2> QED BY <1>3, <2>2, DomainAssumption
<1> QED BY <1>4 DEF Least

LEMMA GreatestOf ==
    ASSUME NEW S \in SUBSET (Lo .. Hi), S # {}
    PROVE  Greatest(S) \in S /\ \A k \in S : Greatest(S) >= k
<1> DEFINE T == {Hi - k : k \in S}
<1>1. T \in SUBSET Nat /\ T # {}
  <2>1. \A k \in Lo .. Hi : Hi - k \in Nat
    BY DomainAssumption
  <2> QED BY <2>1
<1>2. PICK x \in T : \A y \in T : x <= y
  <2> HIDE DEF T
  <2> QED BY <1>1, LeastElement
<1>3. PICK n \in S : x = Hi - n
  BY <1>2
<1>4. \A k \in S : n >= k
  <2> TAKE k \in S
  <2>1. Hi - k \in T
    OBVIOUS
  <2>2. x <= Hi - k
    BY <1>2, <2>1
  <2> QED BY <1>3, <2>2, DomainAssumption
<1> QED BY <1>4 DEF Greatest

\* The values of a variable lie between the least and the greatest one.
LEMMA ValuesBetween ==
    ASSUME NEW X \in SUBSET Top, X # {}, NEW v \in Vars
    PROVE  /\ Values(X, v) \in SUBSET (Lo .. Hi) /\ Values(X, v) # {}
           /\ Least(Values(X, v)) \in Values(X, v)
           /\ Greatest(Values(X, v)) \in Values(X, v)
           /\ \A s \in X : /\ s[v] \in Values(X, v)
                           /\ Least(Values(X, v)) =< s[v]
                           /\ s[v] =< Greatest(Values(X, v))
<1>1. Values(X, v) \in SUBSET (Lo .. Hi) /\ Values(X, v) # {}
  BY DEF Values, Top
<1>2. \A s \in X : s[v] \in Values(X, v)
  BY DEF Values
<1>3. /\ Least(Values(X, v)) \in Values(X, v)
      /\ \A k \in Values(X, v) : Least(Values(X, v)) =< k
  BY <1>1, LeastOf
<1>4. /\ Greatest(Values(X, v)) \in Values(X, v)
      /\ \A k \in Values(X, v) : Greatest(Values(X, v)) >= k
  BY <1>1, GreatestOf
<1>5. \A s \in X : Least(Values(X, v)) =< s[v] /\ s[v] =< Greatest(Values(X, v))
  <2> TAKE s \in X
  <2>1. s[v] \in Values(X, v) /\ s[v] \in Int /\ Greatest(Values(X, v)) \in Int
    BY <1>1, <1>2, <1>4, DomainAssumption
  <2>2. Least(Values(X, v)) =< s[v] /\ Greatest(Values(X, v)) >= s[v]
    BY <1>2, <1>3, <1>4
  <2> HIDE DEF Values
  <2> QED BY <2>1, <2>2
<1> QED BY <1>1, <1>2, <1>3, <1>4, <1>5

\* A value of a domain holds the stores it is made of, and stores only.
LEMMA AbsHolds ==
    ASSUME NEW d, NEW X \in SUBSET Top
    PROVE  X \subseteq Abs(d, X) /\ Abs(d, X) \in SUBSET Top
<1>1. CASE d = "zones" \/ X = Bottom
  BY <1>1 DEF Abs
<1>2. CASE d # "zones" /\ X # Bottom
  <2>1. Abs(d, X) = {s \in Top : \A v \in Vars : /\ Least(Values(X, v)) =< s[v]
                                                /\ s[v] =< Greatest(Values(X, v))}
    BY <1>2 DEF Abs
  <2>2. \A s \in X : \A v \in Vars : /\ Least(Values(X, v)) =< s[v]
                                     /\ s[v] =< Greatest(Values(X, v))
    BY <1>2, ValuesBetween DEF Bottom
  <2> QED BY <2>1, <2>2
<1> QED BY <1>1, <1>2

LEMMA ZonesExact == \A X : Abs("zones", X) = X
  BY DEF Abs

\* A statement leads from stores to stores, and in every domain at least to
\* those it leads to.
LEMMA PostSound ==
    ASSUME NEW d, NEW S, NEW T \in SUBSET Top, S \subseteq T, NEW st, WellTyped(st)
    PROVE  Post("zones", S, st) \subseteq Post(d, T, st) /\ Post(d, T, st) \in SUBSET Top
<1> DEFINE Exact(X) == IF st.op \in Guards THEN {s \in X : Holds(st, s)}
                       ELSE UNION {{[s EXCEPT ![st.x] = n] : n \in Written(st, s)} : s \in X}
<1>1. Exact(T) \in SUBSET Top
  <2>1. CASE st.op \in Guards
    BY <2>1
  <2>2. CASE st.op \notin Guards
    <3>1. st.x \in Vars /\ \A s \in Top : Written(st, s) \subseteq Stored(st.x)
      BY <2>2 DEF WellTyped
    <3>2. ASSUME NEW s \in T, NEW n \in Written(st, s) PROVE [s EXCEPT ![st.x] = n] \in Top
      <4>1. n \in Stored(st.x) /\ n \in Lo .. Hi
        BY <3>1, <3>2, DomainAssumption DEF Stored
      <4>2. /\ s \in [Vars -> Lo .. Hi] /\ st.x \in Vars
            /\ \A v \in Bools : s[v] \in 0 .. 1
            /\ st.x \in Bools => n \in 0 .. 1
        BY <3>1, <4>1 DEF Stored, Top
      <4>3. [s EXCEPT ![st.x] = n] \in [Vars -> Lo .. Hi]
        BY <4>1, <4>2
      <4>4. \A v \in Bools : [s EXCEPT ![st.x] = n][v] \in 0 .. 1
        BY <4>2, DomainAssumption
      <4> QED BY <4>3, <4>4 DEF Top
    <3>3. Exact(T) = UNION {{[s EXCEPT ![st.x] = n] : n \in Written(st, s)} : s \in T}
      BY <2>2
    <3> QED BY <3>2, <3>3
  <2> QED BY <2>1, <2>2
<1>2. Exact(S) \subseteq Exact(T)
  <2>1. CASE st.op \in Guards
    BY <2>1
  <2>2. CASE st.op \notin Guards
    BY <2>2
  <2> QED BY <2>1, <2>2
<1>3. \A e, X : Post(e, X, st) = Abs(e, Exact(X))
  BY DEF Post
<1> HIDE DEF Exact
<1> QED BY <1>1, <1>2, <1>3, AbsHolds, ZonesExact
-----------------------------------------------------------------------------
(* Loops.  A loop over a sequence folds a step; the steps are cases of     *)
(* one, so that the induction is done once.                                *)

Step(k, d, a, x) == IF k = "run" THEN Post(d, a, x) ELSE AnalyzedIfTracked(a, x)

\* it gives, for the first positions of s, what the loop has made of b.
Loop(it, k, d, b, s, n) ==
    it = [t \in SUBSET (1 .. n) |-> IF t = {} THEN b
                                    ELSE Step(k, d, it[t \ {Max(t)}], s[Max(t)])]

LEMMA LoopExists ==
    ASSUME NEW k, NEW d, NEW b, NEW s, NEW n \in Nat
    PROVE  \E it : Loop(it, k, d, b, s, n)
<1> DEFINE Good == {m \in Nat : \E it : Loop(it, k, d, b, s, m)}
<1>1. 0 \in Good
  <2> DEFINE v == [t \in SUBSET (1 .. 0) |-> b]
  <2>1. \A t \in SUBSET (1 .. 0) : t = {}
    OBVIOUS
  <2>2. v = [t \in SUBSET (1 .. 0) |-> IF t = {} THEN b
                                       ELSE Step(k, d, v[t \ {Max(t)}], s[Max(t)])]
    BY <2>1
  <2>3. Loop(v, k, d, b, s, 0)
    BY <2>2 DEF Loop
  <2> HIDE DEF v
  <2> QED BY <2>3
<1>2. ASSUME NEW m \in Nat, m \in Good PROVE m + 1 \in Good
  <2>1. PICK it : Loop(it, k, d, b, s, m)
    BY <1>2
  <2> DEFINE old(t) == it[t \ {m + 1}]
             v == [t \in SUBSET (1 .. (m + 1)) |->
                     IF m + 1 \in t THEN Step(k, d, it[t \ {m + 1}], s[m + 1]) ELSE it[t]]
             w == [t \in SUBSET (1 .. (m + 1)) |->
                     IF t = {} THEN b ELSE Step(k, d, v[t \ {Max(t)}], s[Max(t)])]
  <2>2. ASSUME NEW t \in SUBSET (1 .. (m + 1)) PROVE v[t] = w[t]
    <3>1. CASE t = {}
      <4>1. t \in SUBSET (1 .. m) /\ m + 1 \notin t
        BY <3>1
      <4>2. it[t] = b
        BY <2>1, <3>1, <4>1 DEF Loop
      <4> QED BY <3>1, <4>1, <4>2
    <3>2. CASE t # {} /\ m + 1 \in t
      <4>1. Max(t) = m + 1
        BY <3>2, MaxOfPrefix
      <4>2. t \ {m + 1} \in SUBSET (1 .. (m + 1)) /\ m + 1 \notin t \ {m + 1}
        OBVIOUS
      <4>3. v[t \ {m + 1}] = it[t \ {m + 1}]
        BY <4>2
      <4>4. w[t] = Step(k, d, v[t \ {m + 1}], s[m + 1])
        BY <3>2, <4>1
      <4>5. v[t] = Step(k, d, it[t \ {m + 1}], s[m + 1])
        BY <3>2
      <4> HIDE DEF v, w
      <4> QED BY <4>3, <4>4, <4>5
    <3>3. CASE t # {} /\ m + 1 \notin t
      <4>1. t \in SUBSET (1 .. m)
        BY <3>3
      <4>2. Max(t) \in t
        BY <3>3, MaxOfPrefix
      <4>3. t \ {Max(t)} \in SUBSET (1 .. (m + 1)) /\ m + 1 \notin t \ {Max(t)}
        BY <3>3
      <4>4. v[t \ {Max(t)}] = it[t \ {Max(t)}]
        BY <4>3
      <4>5. it[t] = Step(k, d, it[t \ {Max(t)}], s[Max(t)])
        BY <2>1, <3>3, <4>1 DEF Loop
      <4>6. v[t] = it[t]
        BY <3>3
      <4>7. w[t] = Step(k, d, v[t \ {Max(t)}], s[Max(t)])
        BY <3>3
      <4> HIDE DEF v, w
      <4> QED BY <4>4, <4>5, <4>6, <4>7
    <3> QED BY <3>1, <3>2, <3>3
  <2>3. v = w
    BY <2>2
  <2>4. Loop(v, k, d, b, s, m + 1)
    BY <2>3 DEF Loop
  <2> HIDE DEF v
  <2> QED BY <2>4
<1>3. \A m \in Nat : m \in Good
  <2> HIDE DEF Good
  <2> QED BY <1>1, <1>2, SetInduction
<1> QED BY <1>3

\* w gives what the loop has made of b after each number of its turns.
Trace(w, k, d, b, s, n) == /\ w[0] = b
                           /\ \A m \in 0 .. (n - 1) : w[m + 1] = Step(k, d, w[m], s[m + 1])

LEMMA LoopTrace ==
    ASSUME NEW k, NEW d, NEW b, NEW s, NEW n \in Nat, NEW it, Loop(it, k, d, b, s, n)
    PROVE  \E w : Trace(w, k, d, b, s, n) /\ w[n] = it[1 .. n]
<1> DEFINE w == [m \in 0 .. n |-> it[1 .. m]]
<1>1. w[0] = b
  <2>1. 1 .. 0 = {}
    OBVIOUS
  <2>2. it[{}] = b
    BY DEF Loop
  <2> QED BY <2>1, <2>2
<1>2. ASSUME NEW m \in 0 .. (n - 1) PROVE it[1 .. (m + 1)] = Step(k, d, it[1 .. m], s[m + 1])
  <2> DEFINE t == 1 .. (m + 1)
  <2>2. t \in SUBSET (1 .. n) /\ t # {} /\ m + 1 \in t /\ m + 1 \in 1 .. n
    <3>1. m + 1 \in 1 .. (m + 1) /\ m + 1 \in 1 .. n /\ \A i \in 1 .. (m + 1) : i \in 1 .. n
      OBVIOUS
    <3> QED BY <3>1
  <2>3. Max(t) = m + 1
    <3>1. t \in SUBSET (1 .. (m + 1)) /\ m + 1 \in Nat
      OBVIOUS
    <3> HIDE DEF t
    <3> QED BY <2>2, <3>1, MaxOfPrefix
  <2>4. t \ {m + 1} = 1 .. m
    <3>1. \A i \in 1 .. (m + 1) : i # m + 1 => i \in 1 .. m
      OBVIOUS
    <3>2. \A i \in 1 .. m : i # m + 1 /\ i \in 1 .. (m + 1)
      OBVIOUS
    <3> QED BY <3>1, <3>2
  <2>5. it[t] = Step(k, d, it[t \ {Max(t)}], s[Max(t)])
    <3> HIDE DEF t
    <3> QED BY <2>2 DEF Loop
  <2> QED BY <2>3, <2>4, <2>5
<1>3. ASSUME NEW m \in 0 .. (n - 1) PROVE w[m + 1] = Step(k, d, w[m], s[m + 1])
  <2>1. w[m + 1] = it[1 .. (m + 1)] /\ w[m] = it[1 .. m]
    OBVIOUS
  <2> HIDE DEF w
  <2> QED BY <1>2, <2>1
<1>4. w[n] = it[1 .. n]
  OBVIOUS
<1> HIDE DEF w
<1> QED BY <1>1, <1>3, <1>4 DEF Trace

\* The run of a sequence of statements goes through one value after another.
LEMMA RunTrace ==
    ASSUME NEW d, NEW b, NEW s, NEW n \in Nat, DOMAIN s = 1 .. n
    PROVE  \E w : Trace(w, "run", d, b, s, n) /\ w[n] = Run(d, b, s)
<1> DEFINE Eq(it) == it = [t \in SUBSET DOMAIN s |-> IF t = {} THEN b
                             ELSE Post(d, it[t \ {Max(t)}], s[Max(t)])]
           all == CHOOSE it : Eq(it)
<1>1. \A it : Loop(it, "run", d, b, s, n) <=> Eq(it)
  BY DEF Loop, Step
<1>2. Eq(all)
  <2>1. PICK it : Loop(it, "run", d, b, s, n)
    BY LoopExists
  <2>2. \E x : Eq(x)
    BY <1>1, <2>1, Zenon
  <2> HIDE DEF Eq
  <2> QED BY <2>2, Zenon
<1>3. Run(d, b, s) = all[DOMAIN s]
  BY Zenon DEF Run, FoldLeft, MapThenFoldSet
<1>4. Loop(all, "run", d, b, s, n)
  <2> HIDE DEF all, Eq
  <2> QED BY <1>1, <1>2, Zenon
<1> HIDE DEF all
<1> QED BY <1>3, <1>4, LoopTrace

\* The loop over the functions of the module goes through one result after
\* another.
LEMMA ProgramTrace ==
    ASSUME NEW b, NEW s, NEW n \in Nat, DOMAIN s = 1 .. n
    PROVE  \E w : Trace(w, "program", "none", b, s, n) /\ w[n] = FoldLeft(AnalyzedIfTracked, b, s)
<1> DEFINE Eq(it) == it = [t \in SUBSET DOMAIN s |-> IF t = {} THEN b
                             ELSE AnalyzedIfTracked(it[t \ {Max(t)}], s[Max(t)])]
           all == CHOOSE it : Eq(it)
<1>1. \A it : Loop(it, "program", "none", b, s, n) <=> Eq(it)
  BY DEF Loop, Step
<1>2. Eq(all)
  <2>1. PICK it : Loop(it, "program", "none", b, s, n)
    BY LoopExists
  <2>2. \E x : Eq(x)
    BY <1>1, <2>1, Zenon
  <2> HIDE DEF Eq
  <2> QED BY <2>2, Zenon
<1>3. FoldLeft(AnalyzedIfTracked, b, s) = all[DOMAIN s]
  BY Zenon DEF FoldLeft, MapThenFoldSet
<1>4. Loop(all, "program", "none", b, s, n)
  <2> HIDE DEF all, Eq
  <2> QED BY <1>1, <1>2, Zenon
<1> HIDE DEF all
<1> QED BY <1>3, <1>4, LoopTrace

-----------------------------------------------------------------------------
(* The statements of a block, in two domains.                              *)

Statements(s, n) == DOMAIN s = 1 .. n /\ \A i \in 1 .. n : WellTyped(s[i])

\* The exact run of a sequence of statements stays within that of any domain.
LEMMA RunSound ==
    ASSUME NEW d, NEW S, NEW T \in SUBSET Top, S \subseteq T,
           NEW s, NEW n \in Nat, Statements(s, n)
    PROVE  Run("zones", S, s) \subseteq Run(d, T, s) /\ Run(d, T, s) \in SUBSET Top
<1>1. PICK v : Trace(v, "run", "zones", S, s, n) /\ v[n] = Run("zones", S, s)
  BY RunTrace DEF Statements
<1>2. PICK w : Trace(w, "run", d, T, s, n) /\ w[n] = Run(d, T, s)
  BY RunTrace DEF Statements
<1> DEFINE Good == {m \in Nat : m =< n => v[m] \subseteq w[m] /\ w[m] \in SUBSET Top}
<1>3. 0 \in Good
  BY <1>1, <1>2 DEF Trace
<1>4. ASSUME NEW m \in Nat, m \in Good PROVE m + 1 \in Good
  <2> SUFFICES ASSUME m + 1 =< n PROVE v[m + 1] \subseteq w[m + 1] /\ w[m + 1] \in SUBSET Top
    OBVIOUS
  <2>1. m \in 0 .. (n - 1) /\ m + 1 \in 1 .. n /\ m =< n
    OBVIOUS
  <2>2. v[m] \subseteq w[m] /\ w[m] \in SUBSET Top
    BY <1>4, <2>1
  <2>3. v[m + 1] = Post("zones", v[m], s[m + 1]) /\ w[m + 1] = Post(d, w[m], s[m + 1])
    BY <1>1, <1>2, <2>1, Zenon DEF Trace, Step
  <2>4. WellTyped(s[m + 1])
    BY <2>1 DEF Statements
  <2> QED BY <2>2, <2>3, <2>4, PostSound
<1>5. \A m \in Nat : m \in Good
  <2> HIDE DEF Good
  <2> QED BY <1>3, <1>4, SetInduction
<1> QED BY <1>1, <1>2, <1>5

\* What a block is made of can be run, and so can its first statements.
LEMMA BlockStatements ==
    ASSUME NEW b \in DOMAIN Code
    PROVE  /\ Len(Code[b]) \in Nat /\ Statements(Code[b], Len(Code[b]))
           /\ \A i \in 0 .. Len(Code[b]) : Statements(SubSeq(Code[b], 1, i), i)
<1>1. /\ Code[b] \in Seq(ToSet(Code[b]))
      /\ \A st \in ToSet(Code[b]) : WellTyped(st)
  BY CodeAssumption
<1>2. Len(Code[b]) \in Nat /\ DOMAIN Code[b] = 1 .. Len(Code[b])
  BY <1>1
<1>3. \A i \in 1 .. Len(Code[b]) : WellTyped(Code[b][i])
  BY <1>1, <1>2 DEF ToSet
<1>4. ASSUME NEW i \in 0 .. Len(Code[b]) PROVE Statements(SubSeq(Code[b], 1, i), i)
  <2>1. DOMAIN SubSeq(Code[b], 1, i) = 1 .. i
    BY <1>1, <1>2
  <2>2. \A k \in 1 .. i : SubSeq(Code[b], 1, i)[k] = Code[b][k] /\ k \in 1 .. Len(Code[b])
    BY <1>1, <1>2
  <2> QED BY <1>3, <2>1, <2>2 DEF Statements
<1> QED BY <1>2, <1>3, <1>4 DEF Statements
-----------------------------------------------------------------------------
(* The rounds of the analyses.                                             *)

Nothing == [q \in Analyses |-> [n \in Nodes(q[1]) |-> Bottom]]
RoundsUpto(r, n) == r = [k \in 0 .. n |-> IF k = 0 THEN Nothing ELSE NextRound(r[k - 1])]

LEMMA RoundsExist ==
    ASSUME NEW n \in Nat
    PROVE  \E r : RoundsUpto(r, n)
<1> DEFINE Good == {m \in Nat : \E r : RoundsUpto(r, m)}
<1>1. 0 \in Good
  <2> DEFINE r == [k \in 0 .. 0 |-> Nothing]
  <2>1. r = [k \in 0 .. 0 |-> IF k = 0 THEN Nothing ELSE NextRound(r[k - 1])]
    OBVIOUS
  <2> HIDE DEF r
  <2> QED BY <2>1 DEF RoundsUpto
<1>2. ASSUME NEW m \in Nat, m \in Good PROVE m + 1 \in Good
  <2>1. PICK r : RoundsUpto(r, m)
    BY <1>2
  <2> DEFINE v == [k \in 0 .. (m + 1) |-> IF k = m + 1 THEN NextRound(r[m]) ELSE r[k]]
             w == [k \in 0 .. (m + 1) |-> IF k = 0 THEN Nothing ELSE NextRound(v[k - 1])]
  <2>2. ASSUME NEW k \in 0 .. (m + 1) PROVE v[k] = w[k]
    <3>1. CASE k = m + 1
      <4>1. v[k] = NextRound(r[m])
        BY <3>1
      <4>2. k - 1 \in 0 .. (m + 1) /\ k - 1 # m + 1 /\ k # 0 /\ k - 1 = m
        BY <3>1
      <4>3. v[k - 1] = r[m]
        BY <4>2
      <4>4. w[k] = NextRound(v[k - 1])
        BY <4>2
      <4> HIDE DEF v, w
      <4> QED BY <4>1, <4>3, <4>4
    <3>2. CASE k = 0
      <4>1. v[k] = r[k] /\ k \in 0 .. m
        BY <3>2
      <4>2. r[k] = Nothing
        BY <2>1, <3>2, <4>1 DEF RoundsUpto
      <4> QED BY <3>2, <4>1, <4>2
    <3>3. CASE k # m + 1 /\ k # 0
      <4>1. k \in 0 .. m /\ k - 1 \in 0 .. m /\ k - 1 # m + 1 /\ k - 1 \in 0 .. (m + 1)
        BY <3>3
      <4>2. v[k] = r[k]
        BY <3>3
      <4>3. v[k - 1] = r[k - 1]
        BY <4>1
      <4>4. r[k] = NextRound(r[k - 1])
        BY <2>1, <3>3, <4>1 DEF RoundsUpto
      <4>5. w[k] = NextRound(v[k - 1])
        BY <3>3
      <4> HIDE DEF v, w
      <4> QED BY <4>2, <4>3, <4>4, <4>5
    <3> QED BY <3>1, <3>2, <3>3
  <2>3. v = w
    BY <2>2
  <2>4. RoundsUpto(v, m + 1)
    BY <2>3 DEF RoundsUpto
  <2> HIDE DEF v
  <2> QED BY <2>4
<1>3. \A m \in Nat : m \in Good
  <2> HIDE DEF Good
  <2> QED BY <1>1, <1>2, SetInduction
<1> QED BY <1>3

LEMMA RoundsValue == RoundsUpto(Rounds, MaxRounds)
<1> DEFINE Eq(r) == r = [k \in 0 .. MaxRounds |->
                           IF k = 0 THEN [q \in Analyses |-> [n \in Nodes(q[1]) |-> Bottom]]
                           ELSE LET m    == r[k - 1]
                                    next == NextRound(m)
                                IN  IF next = m THEN m ELSE next]
<1>1. \A r : RoundsUpto(r, MaxRounds) <=> Eq(r)
  <2> TAKE r
  <2>1. [k \in 0 .. MaxRounds |-> IF k = 0 THEN Nothing ELSE NextRound(r[k - 1])]
        = [k \in 0 .. MaxRounds |->
                           IF k = 0 THEN [q \in Analyses |-> [n \in Nodes(q[1]) |-> Bottom]]
                           ELSE LET m    == r[k - 1]
                                    next == NextRound(m)
                                IN  IF next = m THEN m ELSE next]
    BY DEF Nothing
  <2> QED BY <2>1, Zenon DEF RoundsUpto
<1>2. \E r : Eq(r)
  <2>1. PICK r : RoundsUpto(r, MaxRounds)
    BY RoundsExist, FixpointAssumption
  <2> HIDE DEF Eq
  <2> QED BY <1>1, <2>1
<1>3. Eq(CHOOSE r : Eq(r))
  <2> HIDE DEF Eq
  <2> QED BY <1>2, Zenon
<1>4. Rounds = CHOOSE r : Eq(r)
  BY Zenon DEF Rounds
<1> HIDE DEF Eq
<1> QED BY <1>1, <1>3, <1>4, Zenon

\* What the analyses of a function know of a block: every store that an
\* execution of the exact one has there.
Covers(m) ==
    \A f \in Tracked, d \in Doms, a \in Assumptions : \A n \in Nodes(f) :
      /\ m[<<f, d, a>>][n] \in SUBSET Top
      /\ m[<<f, "zones", a>>][n] \subseteq m[<<f, d, a>>][n]

LEMMA RoundCovers ==
    ASSUME NEW m, Covers(m)
    PROVE  Covers(NextRound(m))
<1> SUFFICES ASSUME NEW f \in Tracked, NEW d \in Doms, NEW a \in Assumptions, NEW n \in Nodes(f)
             PROVE  /\ NextRound(m)[<<f, d, a>>][n] \in SUBSET Top
                    /\ NextRound(m)[<<f, "zones", a>>][n] \subseteq NextRound(m)[<<f, d, a>>][n]
  BY DEF Covers
<1> DEFINE e == Blocks[f][1]
           From(c) == (IF n = e THEN Top ELSE Bottom)
                      \cup UNION {Run(c, m[<<f, c, a>>][p], Code[p]) : p \in Preds(n)}
<1>1. "zones" \in Doms
  BY DEF Doms
<1>2. \A c \in Doms : NextRound(m)[<<f, c, a>>][n] = Into(c, m[<<f, c, a>>], n, a, e)
  <2> TAKE c \in Doms
  <2> DEFINE q == <<f, c, a>>
  <2>1. q \in Analyses /\ q[1] = f /\ q[2] = c /\ q[3] = a
    BY DEF Analyses
  <2> HIDE DEF q
  <2>2. NextRound(m)[q][n] = Into(q[2], m[q], n, q[3], Blocks[q[1]][1])
    BY <2>1 DEF NextRound
  <2> QED BY <2>1, <2>2 DEF q
<1>3. \A c \in Doms : NextRound(m)[<<f, c, a>>][n]
                      = IF n \in DOMAIN a THEN Abs(c, From(c)) \cap a[n] ELSE Abs(c, From(c))
  BY <1>2 DEF Into
<1>4. ASSUME NEW p \in Preds(n)
      PROVE  /\ Run("zones", m[<<f, "zones", a>>][p], Code[p]) \subseteq Run(d, m[<<f, d, a>>][p], Code[p])
             /\ Run(d, m[<<f, d, a>>][p], Code[p]) \in SUBSET Top
  <2>1. p \in Nodes(f) /\ p \in DOMAIN Code
    BY FixpointAssumption
  <2>2. Len(Code[p]) \in Nat /\ Statements(Code[p], Len(Code[p]))
    BY <2>1, BlockStatements
  <2> DEFINE exact == m[<<f, "zones", a>>][p]
             known == m[<<f, d, a>>][p]
  <2>3. known \in SUBSET Top /\ exact \subseteq known
    BY <2>1 DEF Covers
  <2>4. Run("zones", exact, Code[p]) \subseteq Run(d, known, Code[p]) /\ Run(d, known, Code[p]) \in SUBSET Top
    <3> HIDE DEF exact, known
    <3> QED BY <2>2, <2>3, RunSound
  <2> QED BY <2>4
<1>5. From("zones") \subseteq From(d) /\ From(d) \in SUBSET Top
  BY <1>4 DEF Bottom
<1> HIDE DEF From
<1>6. Abs("zones", From("zones")) = From("zones")
  BY ZonesExact
<1>7. From(d) \subseteq Abs(d, From(d)) /\ Abs(d, From(d)) \in SUBSET Top
  BY <1>5, AbsHolds
<1> QED BY <1>1, <1>3, <1>5, <1>6, <1>7

LEMMA FixpointCovers == Covers(Fixpoint)
<1> DEFINE Good == {k \in Nat : k =< MaxRounds => Covers(Rounds[k])}
<1>1. 0 \in Good
  <2>1. Rounds[0] = Nothing
    BY RoundsValue, FixpointAssumption DEF RoundsUpto
  <2>2. Covers(Nothing)
    <3> SUFFICES ASSUME NEW f \in Tracked, NEW d \in Doms, NEW a \in Assumptions, NEW n \in Nodes(f)
                 PROVE  Nothing[<<f, d, a>>][n] = {}
      <4>1. "zones" \in Doms
        BY DEF Doms
      <4> QED BY <4>1 DEF Covers
    <3> DEFINE q == <<f, d, a>>
    <3>1. q \in Analyses /\ q[1] = f
      BY DEF Analyses
    <3> HIDE DEF q
    <3>2. Nothing[q][n] = {}
      BY <3>1 DEF Nothing, Bottom
    <3> QED BY <3>2 DEF q
  <2> QED BY <2>1, <2>2
<1>2. ASSUME NEW k \in Nat, k \in Good PROVE k + 1 \in Good
  <2> SUFFICES ASSUME k + 1 =< MaxRounds PROVE Covers(Rounds[k + 1])
    OBVIOUS
  <2>1. k + 1 \in 0 .. MaxRounds /\ k + 1 # 0 /\ (k + 1) - 1 = k /\ k =< MaxRounds
    BY FixpointAssumption
  <2>2. Rounds[k + 1] = NextRound(Rounds[k])
    BY <2>1, RoundsValue DEF RoundsUpto
  <2>3. Covers(Rounds[k])
    BY <1>2, <2>1
  <2> QED BY <2>2, <2>3, RoundCovers
<1>3. \A k \in Nat : k \in Good
  <2> HIDE DEF Good
  <2> QED BY <1>1, <1>2, SetInduction
<1>4. MaxRounds \in Nat /\ MaxRounds =< MaxRounds
  BY FixpointAssumption
<1> QED BY <1>3, <1>4 DEF Fixpoint
-----------------------------------------------------------------------------
(* What an analysis of a function says of its edges and its assertions.    *)

LEMMA AnalysisType ==
    ASSUME NEW f \in Tracked, NEW d \in Doms, NEW a \in Assumptions
    PROVE  /\ <<f, d, a>> \in Analyses
           /\ <<f, "zones", a>> \in Analyses
BY DEF Analyses, Doms

\* An edge none of whose stores is left in some domain is not taken.
LEMMA NeverLeftSound ==
    ASSUME NEW f \in Tracked, NEW d \in Doms, NEW a \in Assumptions,
           NEW e \in NeverLeft[<<f, d, a>>]
    PROVE  e \in Nodes(f) /\ Run("zones", Fixpoint[<<f, "zones", a>>][e], Code[e]) = Bottom
<1> DEFINE q == <<f, d, a>>
           known == Fixpoint[<<f, d, a>>][e]
           exact == Fixpoint[<<f, "zones", a>>][e]
<1>1. q \in Analyses /\ q[1] = f /\ q[2] = d
  BY AnalysisType
<1>2. e \in Nodes(f) /\ Run(d, known, Code[e]) = Bottom
  <2>1. NeverLeft[q] = {x \in EdgeBlocks \cap Nodes(q[1]) : LastInv(q, x) = Bottom}
    <3> HIDE DEF q
    <3> QED BY <1>1 DEF NeverLeft
  <2>2. e \in Nodes(q[1]) /\ Run(q[2], Fixpoint[q][e], Code[e]) = Bottom
    BY <2>1, Zenon DEF LastInv
  <2> QED BY <1>1, <2>2
<1>3. known \in SUBSET Top /\ exact \subseteq known
  BY <1>2, FixpointCovers DEF Covers
<1>4. Len(Code[e]) \in Nat /\ Statements(Code[e], Len(Code[e]))
  BY <1>2, BlockStatements, FixpointAssumption
<1>5. Run("zones", exact, Code[e]) \subseteq Run(d, known, Code[e])
  <2> HIDE DEF exact, known
  <2> QED BY <1>3, <1>4, RunSound
<1> QED BY <1>2, <1>5 DEF Bottom

\* The stores that reach an assertion are among those a domain has there.
LEMMA ArrivingSound ==
    ASSUME NEW f \in Tracked, NEW d \in Doms, NEW a \in Assumptions, NEW c \in Assertions(f)
    PROVE  Arriving("zones", Fixpoint[<<f, "zones", a>>], c) \subseteq Arriving(d, Fixpoint[<<f, d, a>>], c)
<1> DEFINE b == c[1]
           known == Fixpoint[<<f, d, a>>][b]
           exact == Fixpoint[<<f, "zones", a>>][b]
           s == SubSeq(Code[b], 1, c[2] - 1)
<1>1. b \in Nodes(f) /\ c[2] \in DOMAIN Code[b]
  BY DEF Assertions
<1>2. b \in DOMAIN Code
  BY <1>1, FixpointAssumption
<1>3. known \in SUBSET Top /\ exact \subseteq known
  BY <1>1, FixpointCovers DEF Covers
<1>4. c[2] - 1 \in Nat /\ Statements(s, c[2] - 1)
  <2>1. Len(Code[b]) \in Nat /\ DOMAIN Code[b] = 1 .. Len(Code[b])
    BY <1>2, BlockStatements DEF Statements
  <2>2. c[2] - 1 \in 0 .. Len(Code[b])
    BY <1>1, <2>1
  <2> QED BY <1>2, <2>2, BlockStatements
<1>5. Run("zones", exact, s) \subseteq Run(d, known, s)
  <2> HIDE DEF exact, known, s
  <2> QED BY <1>3, <1>4, RunSound
<1> QED BY <1>5 DEF Arriving

\* What the checker says of an assertion is true of the executions.
LEMMA VerdictMeans ==
    ASSUME NEW f \in Tracked, NEW d \in Doms, NEW a \in Assumptions, NEW c \in Assertions(f)
    PROVE  /\ Verdict(d, Fixpoint[<<f, d, a>>], c) \in Verdicts
           /\ Verdict(d, Fixpoint[<<f, d, a>>], c) = "safe" =>
                \A s \in Reaches(<<f, a>>, c) : Passes(c, s)
           /\ Verdict(d, Fixpoint[<<f, d, a>>], c) = "error" =>
                \A s \in Reaches(<<f, a>>, c) : ~ Passes(c, s)
<1> DEFINE inv == Arriving(d, Fixpoint[<<f, d, a>>], c)
<1>1. Reaches(<<f, a>>, c) \subseteq inv
  BY ArrivingSound DEF Reaches
<1>2. Verdict(d, Fixpoint[<<f, d, a>>], c)
      = IF \A s \in inv : Passes(c, s) THEN "safe"
        ELSE IF \A s \in inv : ~ Passes(c, s) THEN "error" ELSE "warning"
  BY DEF Verdict
<1> HIDE DEF inv
<1> QED BY <1>1, <1>2 DEF Verdicts

LEMMA AssertionsFinite ==
    ASSUME NEW f \in Tracked
    PROVE  IsFiniteSet(Assertions(f))
<1> DEFINE at(n) == {<<n, i>> : i \in DOMAIN Code[n]}
           Of == {at(n) : n \in Nodes(f)}
<1>1. IsFiniteSet(Nodes(f))
  BY FunctionsAssumption
<1>2. ASSUME NEW n \in Nodes(f) PROVE IsFiniteSet(at(n))
  <2>1. Len(Code[n]) \in Nat /\ DOMAIN Code[n] = 1 .. Len(Code[n])
    BY BlockStatements, FixpointAssumption DEF Statements
  <2>2. IsFiniteSet(DOMAIN Code[n])
    <3>1. IsFiniteSet(1 .. Len(Code[n]))
      BY <2>1, FS_Interval
    <3> QED BY <2>1, <3>1
  <2>3. IsFiniteSet({<<n, i>> : i \in DOMAIN Code[n]})
    <3> DEFINE g == [i \in DOMAIN Code[n] |-> <<n, i>>]
               T == {<<n, i>> : i \in DOMAIN Code[n]}
    <3>1. g \in Surjection(DOMAIN Code[n], T)
      BY DEF Surjection
    <3> HIDE DEF g, T
    <3>2. IsFiniteSet(T)
      BY <2>2, <3>1, FS_Surjection
    <3> QED BY <3>2 DEF T
  <2> QED BY <2>3
<1>3. IsFiniteSet(Of)
  <2> DEFINE g == [n \in Nodes(f) |-> at(n)]
  <2>1. g \in Surjection(Nodes(f), Of)
    BY DEF Surjection
  <2> HIDE DEF g, Of
  <2> QED BY <1>1, <2>1, FS_Surjection
<1>4. \A T \in Of : IsFiniteSet(T)
  BY <1>2
<1>5. IsFiniteSet(UNION Of)
  <2> HIDE DEF Of
  <2> QED BY <1>3, <1>4, FS_UNION
<1>6. Assertions(f) \subseteq UNION Of
  BY DEF Assertions
<1> HIDE DEF Of
<1> QED BY <1>5, <1>6, FS_Subset
\* The counts of an analysis are those of the verdicts on its assertions.
LEMMA ChecksCount ==
    ASSUME NEW f \in Tracked, NEW d \in Doms, NEW a \in Assumptions, NEW v \in Verdicts
    PROVE  /\ Checks[<<f, d, a>>][v] \in Nat
           /\ Checks[<<f, d, a>>][v] = 0 =>
                \A c \in Assertions(f) : Verdict(d, Fixpoint[<<f, d, a>>], c) # v
           /\ Checks[<<f, d, a>>][v] # 0 =>
                \E c \in Assertions(f) : Verdict(d, Fixpoint[<<f, d, a>>], c) = v
<1> DEFINE q == <<f, d, a>>
           C == {c \in Assertions(f) : Verdict(d, Fixpoint[<<f, d, a>>], c) = v}
<1>1. q \in Analyses /\ q[1] = f /\ q[2] = d
  BY AnalysisType
<1>2. Checks[q][v] = Cardinality(C)
  <2>1. Checks[q][v] = Cardinality({c \in Assertions(q[1]) : Verdict(q[2], Fixpoint[q], c) = v})
    <3> HIDE DEF q
    <3> QED BY <1>1 DEF Checks
  <2> QED BY <1>1, <2>1
<1>3. IsFiniteSet(C)
  BY AssertionsFinite, FS_Subset
<1>4. Cardinality(C) \in Nat /\ (Cardinality(C) = 0 <=> C = {})
  <2> HIDE DEF C
  <2> QED BY <1>3, FS_CardinalityType, FS_EmptySet
<1> QED BY <1>2, <1>4

-----------------------------------------------------------------------------
(* The results of an object.                                               *)

\* A key of an invariant: the domain and the assumptions it comes from.
Keys == [dom : Doms, a : Assumptions]
IsResults(r) ==
    /\ r = [pre |-> r.pre, post |-> r.post, edges |-> r.edges, checks |-> r.checks]
    /\ r.checks \in [Verdicts -> Nat]
    /\ \A b \in DOMAIN r.pre : /\ r.pre[b] \in Keys
                               /\ \E f \in Tracked : b \in BlockSet(f)

\* Every infeasible edge was found by one of the analyses us.
EdgesFound(r, us) ==
    \A e \in r.edges : \E u \in us, d \in Doms : e \in NeverLeft[<<u[1], d, u[2]>>]
\* No count is below that of one of the analyses us, and an error is one of
\* their errors.
Counted(r, us) ==
    \A u \in us : \E d \in Doms : \A v \in Verdicts : Checks[<<u[1], d, u[2]>>][v] =< r.checks[v]
Blamed(r, us) ==
    r.checks["error"] > 0 =>
      \E u \in us, d \in Doms : Checks[<<u[1], d, u[2]>>]["error"] > 0

Accounted(r, us, check) ==
    /\ us \in SUBSET (Tracked \X Assumptions)
    /\ IsResults(r) /\ EdgesFound(r, us)
    /\ check => Counted(r, us)
    /\ Blamed(r, us)

LEMMA NothingAnalyzed ==
    ASSUME NEW check
    PROVE  Accounted(NoResults, {}, check)
<1>1. DOMAIN <<>> = {}
  OBVIOUS
<1>2. IsResults(NoResults)
  BY <1>1 DEF NoResults, IsResults, Verdicts
<1> QED BY <1>2 DEF Accounted, EdgesFound, Counted, Blamed, NoResults, Verdicts

LEMMA AnalyzedType ==
    ASSUME NEW r, NEW f \in Tracked, NEW d \in Doms, NEW a \in Assumptions, IsResults(r)
    PROVE  /\ IsResults(Analyzed(r, f, d, a))
           /\ Analyzed(r, f, d, a).edges \subseteq r.edges \cup NeverLeft[<<f, d, a>>]
           /\ params.check => \A v \in Verdicts :
                Analyzed(r, f, d, a).checks[v] = r.checks[v] + Checks[<<f, d, a>>][v]
           /\ ~ params.check => Analyzed(r, f, d, a).checks = r.checks
<1> DEFINE invs == [b \in BlockSet(f) |-> [dom |-> d, a |-> a]]
           done == IF params.store_invariants
                   THEN [r EXCEPT !.pre = Overwritten(@, invs), !.post = Overwritten(@, invs),
                                  !.edges = @ \cup NeverLeft[<<f, d, a>>]]
                   ELSE r
           more == [v \in DOMAIN r.checks |-> r.checks[v] + Checks[<<f, d, a>>][v]]
<1>1. Analyzed(r, f, d, a) = IF params.check THEN [done EXCEPT !.checks = [v \in DOMAIN @ |-> @[v] + Checks[<<f, d, a>>][v]]]
                             ELSE done
  BY DEF Analyzed
<1>2. /\ IsResults(done) /\ done.checks = r.checks
      /\ done.edges \subseteq r.edges \cup NeverLeft[<<f, d, a>>]
  <2>1. CASE ~ params.store_invariants
    BY <2>1
  <2>2. CASE params.store_invariants
    <3> DEFINE pre == Overwritten(r.pre, invs)
               post == Overwritten(r.post, invs)
               edges == r.edges \cup NeverLeft[<<f, d, a>>]
    <3>1. done = [r EXCEPT !.pre = pre, !.post = post, !.edges = edges]
      BY <2>2
    <3>2. \A b \in DOMAIN pre : pre[b] \in Keys /\ \E g \in Tracked : b \in BlockSet(g)
      <4>1. \A b \in BlockSet(f) : invs[b] \in Keys
        BY DEF Keys
      <4>2. DOMAIN invs = BlockSet(f)
        OBVIOUS
      <4> HIDE DEF invs
      <4> QED BY <4>1, <4>2 DEF Overwritten, IsResults
    <3> HIDE DEF done, pre, post, edges
    <3>3. done = [pre |-> pre, post |-> post, edges |-> edges, checks |-> r.checks]
      BY <3>1 DEF IsResults
    <3> QED BY <3>2, <3>3 DEF IsResults, edges
  <2> QED BY <2>1, <2>2
<1>3. more \in [Verdicts -> Nat] /\ \A v \in Verdicts : more[v] = r.checks[v] + Checks[<<f, d, a>>][v]
  <2>1. \A v \in Verdicts : Checks[<<f, d, a>>][v] \in Nat /\ r.checks[v] \in Nat
    BY ChecksCount DEF IsResults
  <2>2. DOMAIN r.checks = Verdicts
    BY DEF IsResults
  <2> QED BY <2>1, <2>2
<1>4. CASE ~ params.check
  BY <1>1, <1>2, <1>4
<1>5. CASE params.check
  <2>1. Analyzed(r, f, d, a) = [done EXCEPT !.checks = more]
    <3> HIDE DEF done
    <3> QED BY <1>1, <1>2, <1>5
  <2> HIDE DEF done, more
  <2>2. Analyzed(r, f, d, a)
        = [pre |-> done.pre, post |-> done.post, edges |-> done.edges, checks |-> more]
    BY <1>2, <2>1 DEF IsResults
  <2> QED BY <1>2, <1>3, <1>5, <2>2 DEF IsResults
<1> QED BY <1>4, <1>5
\* An analysis adds its results.
LEMMA AnalyzedAccounted ==
    ASSUME NEW r, NEW us, NEW f \in Tracked, NEW d \in Doms, NEW a \in Assumptions,
           Accounted(r, us, params.check)
    PROVE  Accounted(Analyzed(r, f, d, a), us \cup {<<f, a>>}, params.check)
<1> DEFINE x  == Analyzed(r, f, d, a)
           vs == us \cup {<<f, a>>}
           n  == Checks[<<f, d, a>>]
<1>1. us \in SUBSET (Tracked \X Assumptions) /\ IsResults(r)
  BY DEF Accounted
<1>2. /\ IsResults(x) /\ x.edges \subseteq r.edges \cup NeverLeft[<<f, d, a>>]
      /\ params.check => \A v \in Verdicts : x.checks[v] = r.checks[v] + n[v]
      /\ ~ params.check => x.checks = r.checks
  BY <1>1, AnalyzedType
<1>3. <<f, a>> \in vs /\ <<f, a>>[1] = f /\ <<f, a>>[2] = a
  OBVIOUS
<1>4. \A v \in Verdicts : r.checks[v] \in Nat /\ n[v] \in Nat
  BY <1>1, ChecksCount DEF IsResults
<1>5. EdgesFound(x, vs)
  <2> HIDE DEF x, vs
  <2> SUFFICES ASSUME NEW e \in x.edges
               PROVE  \E u \in vs, c \in Doms : e \in NeverLeft[<<u[1], c, u[2]>>]
    BY DEF EdgesFound
  <2>1. CASE e \in r.edges
    BY <2>1 DEF Accounted, EdgesFound, vs
  <2>2. CASE e \in NeverLeft[<<f, d, a>>]
    BY <1>3, <2>2
  <2> QED BY <1>2, <2>1, <2>2
<1>6. ASSUME params.check PROVE Counted(x, vs)
  <2> HIDE DEF x
  <2> SUFFICES ASSUME NEW u \in vs
               PROVE  \E c \in Doms : \A v \in Verdicts : Checks[<<u[1], c, u[2]>>][v] =< x.checks[v]
    BY DEF Counted
  <2>0. \A v \in Verdicts : x.checks[v] = r.checks[v] + n[v]
    BY <1>2, <1>6
  <2>1. CASE u \in us
    <3>1. PICK c \in Doms : \A v \in Verdicts : Checks[<<u[1], c, u[2]>>][v] =< r.checks[v]
      BY <1>6, <2>1 DEF Accounted, Counted
    <3>2. \A v \in Verdicts : Checks[<<u[1], c, u[2]>>][v] \in Nat
      <4>1. u[1] \in Tracked /\ u[2] \in Assumptions
        BY <1>1, <2>1
      <4> QED BY <4>1, ChecksCount
    <3>3. ASSUME NEW v \in Verdicts PROVE Checks[<<u[1], c, u[2]>>][v] =< x.checks[v]
      <4> DEFINE k == Checks[<<u[1], c, u[2]>>][v]
      <4>1. k \in Nat /\ k =< r.checks[v]
        BY <3>1, <3>2
      <4>2. r.checks[v] \in Nat /\ n[v] \in Nat /\ x.checks[v] = r.checks[v] + n[v]
        BY <1>4, <2>0
      <4> HIDE DEF k, n
      <4>3. k =< x.checks[v]
        BY <4>1, <4>2
      <4> QED BY <4>3 DEF k
    <3> QED BY <3>3
  <2>2. CASE u = <<f, a>>
    <3>1. ASSUME NEW v \in Verdicts PROVE n[v] =< x.checks[v]
      <4>2. r.checks[v] \in Nat /\ n[v] \in Nat /\ x.checks[v] = r.checks[v] + n[v]
        BY <1>4, <2>0
      <4> HIDE DEF n
      <4> QED BY <4>2
    <3> QED BY <2>2, <3>1
  <2> QED BY <2>1, <2>2
<1>7. Blamed(x, vs)
  <2> HIDE DEF x, vs
  <2> SUFFICES ASSUME x.checks["error"] > 0
               PROVE  \E u \in vs, c \in Doms : Checks[<<u[1], c, u[2]>>]["error"] > 0
    BY DEF Blamed
  <2>1. "error" \in Verdicts /\ r.checks["error"] \in Nat /\ n["error"] \in Nat
    BY <1>4 DEF Verdicts
  <2>2. r.checks["error"] > 0 \/ n["error"] > 0
    <3> HIDE DEF n
    <3>1. CASE params.check
      <4>1. x.checks["error"] = r.checks["error"] + n["error"]
        BY <1>2, <2>1, <3>1
      <4> QED BY <2>1, <4>1
    <3>2. CASE ~ params.check
      BY <1>2, <3>2
    <3> QED BY <3>1, <3>2
  <2>3. CASE r.checks["error"] > 0
    BY <2>3 DEF Accounted, Blamed, vs
  <2>4. CASE n["error"] > 0
    BY <1>3, <2>4
  <2> QED BY <2>2, <2>3, <2>4
<1>8. vs \in SUBSET (Tracked \X Assumptions)
  BY <1>1
<1> HIDE DEF x, vs
<1>9. Accounted(x, vs, params.check)
  BY <1>2, <1>5, <1>6, <1>7, <1>8 DEF Accounted
<1> QED BY <1>9 DEF x, vs

\* So does the analysis of the functions of a module, one after another.
LEMMA ProgramAccounted ==
    ASSUME NEW r, NEW us, params.dom \in Doms, Accounted(r, us, params.check)
    PROVE  Accounted(FoldLeft(AnalyzedIfTracked, r, FunSeq),
                     us \cup {<<f, NoAssumption>> : f \in Tracked}, params.check)
<1> DEFINE n == Len(FunSeq)
           Of(m) == us \cup {<<f, NoAssumption>> : f \in {g \in Tracked : \E k \in 1 .. m : FunSeq[k] = g}}
<1>1. n \in Nat /\ DOMAIN FunSeq = 1 .. n
  BY FunctionsAssumption
<1>2. PICK w : Trace(w, "program", "none", r, FunSeq, n) /\ w[n] = FoldLeft(AnalyzedIfTracked, r, FunSeq)
  BY <1>1, ProgramTrace
<1> DEFINE Good == {m \in Nat : m =< n => Accounted(w[m], Of(m), params.check)}
<1>3. 0 \in Good
  <2>1. Of(0) = us
    OBVIOUS
  <2> QED BY <1>2, <2>1 DEF Trace
<1>4. ASSUME NEW m \in Nat, m \in Good PROVE m + 1 \in Good
  <2> SUFFICES ASSUME m + 1 =< n PROVE Accounted(w[m + 1], Of(m + 1), params.check)
    OBVIOUS
  <2>1. m \in 0 .. (n - 1) /\ m =< n
    BY <1>1
  <2>2. Accounted(w[m], Of(m), params.check)
    BY <1>4, <2>1
  <2>3. w[m + 1] = AnalyzedIfTracked(w[m], FunSeq[m + 1])
    BY <1>2, <2>1, Zenon DEF Trace, Step
  <2>4. \A k : k \in 1 .. (m + 1) <=> k \in 1 .. m \/ k = m + 1
    OBVIOUS
  <2>5. CASE FunSeq[m + 1] \in Tracked
    <3>1. Of(m + 1) = Of(m) \cup {<<FunSeq[m + 1], NoAssumption>>}
      <4> HIDE DEF n
      <4> QED BY <2>4, <2>5
    <3>2. w[m + 1] = Analyzed(w[m], FunSeq[m + 1], params.dom, NoAssumption)
      BY <2>3, <2>5 DEF AnalyzedIfTracked
    <3> HIDE DEF Of, n
    <3> QED BY <2>2, <2>5, <3>1, <3>2, AnalyzedAccounted, FunctionsAssumption
  <2>6. CASE FunSeq[m + 1] \notin Tracked
    <3>1. Of(m + 1) = Of(m)
      <4> HIDE DEF n
      <4> QED BY <2>4, <2>6
    <3>2. w[m + 1] = w[m]
      BY <2>3, <2>6 DEF AnalyzedIfTracked
    <3> HIDE DEF Of, n
    <3> QED BY <2>2, <3>1, <3>2
  <2> QED BY <2>5, <2>6
<1>5. \A m \in Nat : m \in Good
  <2> HIDE DEF Good
  <2> QED BY <1>3, <1>4, SetInduction
<1>6. Of(n) = us \cup {<<f, NoAssumption>> : f \in Tracked}
  <2>1. \A f \in Tracked : \E k \in 1 .. n : FunSeq[k] = f
    BY <1>1, FunctionsAssumption DEF Funs, ToSet
  <2> HIDE DEF n
  <2> QED BY <2>1
<1>7. Accounted(w[n], Of(n), params.check)
  <2>1. n \in Nat /\ n =< n
    BY <1>1
  <2> HIDE DEF n, Of
  <2> QED BY <1>5, <2>1
<1> HIDE DEF Of, n
<1> QED BY <1>2, <1>6, <1>7
-----------------------------------------------------------------------------
(* The inductive invariant of the analyses.                                *)

Typed ==
    /\ params \in [dom : Doms, check : BOOLEAN, store_invariants : BOOLEAN]
    /\ todo = [opened |-> todo.opened, funs |-> todo.funs, a |-> todo.a]
    /\ todo.opened \subseteq Tracked /\ todo.a \in Assumptions
    /\ DOMAIN under = DOMAIN results
    /\ kind = "function" => DOMAIN results = Tracked
    /\ kind \in {"module", "program"} => DOMAIN results = {"module"}

AllAccounted == \A o \in DOMAIN results : Accounted(results[o], under[o], params.check)
IInv == Typed /\ AllAccounted

\* An analysis of f puts its results with those of one object.
LEMMA AnalyzeFunctionKeeps ==
    ASSUME IInv, NEW f \in Tracked, NEW a \in Assumptions, AnalyzeFunction(f, a),
           UNCHANGED kind, Object(f) \in DOMAIN results,
           todo' = [opened |-> todo.opened, funs |-> todo'.funs, a |-> todo.a]
    PROVE  IInv'
<1> DEFINE d == DomainFor(f)
           o == Object(f)
<1>1. d \in Doms
  BY DEF DomainFor, Doms, IInv, Typed
<1>2. /\ params' = [params EXCEPT !.dom = d]
      /\ params' \in [dom : Doms, check : BOOLEAN, store_invariants : BOOLEAN]
      /\ params'.check = params.check
  <2>1. params' = [params EXCEPT !.dom = d]
    BY DEF AnalyzeFunction
  <2> HIDE DEF d
  <2> QED BY <1>1, <2>1 DEF IInv, Typed
<1>3. CASE UNCHANGED <<results, under>>
  BY <1>2, <1>3 DEF IInv, Typed, AllAccounted
<1>4. CASE /\ results' = [results EXCEPT ![o] = Analyzed(@, f, d, a)]
           /\ under' = [under EXCEPT ![o] = @ \cup {<<f, a>>}]
  <2>1. DOMAIN results' = DOMAIN results /\ DOMAIN under' = DOMAIN under
    BY <1>4
  <2>2. Typed'
    <3> HIDE DEF d, o
    <3> QED BY <1>2, <2>1 DEF IInv, Typed
  <2>3. ASSUME NEW p \in DOMAIN results
        PROVE  Accounted(results'[p], under'[p], params'.check)
    <3>1. Accounted(results[p], under[p], params.check) /\ DOMAIN under = DOMAIN results
      BY DEF IInv, Typed, AllAccounted
    <3>2. CASE p = o
      <4>1. results'[p] = Analyzed(results[p], f, d, a) /\ under'[p] = under[p] \cup {<<f, a>>}
        BY <1>4, <3>1, <3>2
      <4> HIDE DEF d, o
      <4>2. Accounted(results'[p], under'[p], params.check)
        BY <1>1, <3>1, <4>1, AnalyzedAccounted
      <4> QED BY <1>2, <4>2
    <3>3. CASE p # o
      <4>1. results'[p] = results[p] /\ under'[p] = under[p]
        BY <1>4, <3>3
      <4> QED BY <1>2, <3>1, <4>1
    <3> QED BY <3>2, <3>3
  <2>4. AllAccounted'
    BY <2>1, <2>3 DEF AllAccounted
  <2> QED BY <2>2, <2>4 DEF IInv
<1>5. \/ UNCHANGED <<results, under>>
      \/ /\ results' = [results EXCEPT ![o] = Analyzed(@, f, d, a)]
         /\ under' = [under EXCEPT ![o] = @ \cup {<<f, a>>}]
  BY DEF AnalyzeFunction
<1> QED BY <1>3, <1>4, <1>5

LEMMA IInvInit == Init => IInv
<1> SUFFICES ASSUME Init PROVE IInv
  OBVIOUS
<1>1. DOMAIN <<>> = {}
  OBVIOUS
<1> QED BY <1>1, FunctionsAssumption DEF Init, IInv, Typed, AllAccounted

LEMMA OpenKeeps == ASSUME IInv, NEW k \in Kinds, Open(k) PROVE IInv'
<1>1. /\ results' = [o \in IF k = "function" THEN Tracked ELSE {"module"} |-> NoResults]
      /\ under'   = [o \in DOMAIN results' |-> {}]
      /\ kind' = k /\ UNCHANGED <<params, todo>>
  BY DEF Open
<1>2. Typed'
  BY <1>1 DEF IInv, Typed
<1>3. \A o \in DOMAIN results' : results'[o] = NoResults /\ under'[o] = {}
  BY <1>1
<1>4. AllAccounted'
  BY <1>3, NothingAnalyzed DEF AllAccounted
<1> QED BY <1>2, <1>4 DEF IInv

LEMMA OpenFunctionKeeps == ASSUME IInv, NEW f \in Tracked, OpenFunction(f) PROVE IInv'
<1>1. UNCHANGED <<kind, params, results, under>> /\ todo' = [todo EXCEPT !.opened = @ \cup {f}]
  BY DEF OpenFunction
<1>2. todo' = [opened |-> todo.opened \cup {f}, funs |-> todo.funs, a |-> todo.a]
  BY <1>1 DEF IInv, Typed
<1>3. Typed'
  BY <1>1, <1>2 DEF IInv, Typed
<1> QED BY <1>1, <1>3 DEF IInv, AllAccounted

LEMMA AnalyzeOneKeeps ==
    ASSUME IInv, NEW f \in Tracked, NEW a \in Assumptions, AnalyzeOne(f, a)
    PROVE  IInv'
<1>1. kind = "function" /\ AnalyzeFunction(f, a) /\ UNCHANGED <<kind, todo>>
  BY DEF AnalyzeOne
<1>2. Object(f) \in DOMAIN results
  BY <1>1 DEF Object, IInv, Typed
<1>3. todo' = [opened |-> todo.opened, funs |-> todo'.funs, a |-> todo.a]
  BY <1>1 DEF IInv, Typed
<1> QED BY <1>1, <1>2, <1>3, AnalyzeFunctionKeeps

LEMMA AnalyzeModuleKeeps ==
    ASSUME IInv, NEW a \in Assumptions, AnalyzeModule(a)
    PROVE  IInv'
<1>1. /\ UNCHANGED <<kind, params, results, under>>
      /\ todo' = [todo EXCEPT !.funs = FunSeq, !.a = a]
  BY DEF AnalyzeModule
<1>2. todo' = [opened |-> todo.opened, funs |-> FunSeq, a |-> a]
  BY <1>1 DEF IInv, Typed
<1>3. Typed'
  BY <1>1, <1>2 DEF IInv, Typed
<1> QED BY <1>1, <1>3 DEF IInv, AllAccounted

LEMMA AnalyzeNextKeeps == ASSUME IInv, AnalyzeNext PROVE IInv'
<1>1. kind = "module" /\ kind' = kind /\ todo' = [todo EXCEPT !.funs = Tail(@)]
  BY DEF AnalyzeNext
<1>2. todo' = [opened |-> todo.opened, funs |-> todo'.funs, a |-> todo.a]
  BY <1>1 DEF IInv, Typed
<1>3. CASE Head(todo.funs) \in Tracked
  <2> DEFINE f == Head(todo.funs)
  <2>1. AnalyzeFunction(f, todo.a)
    BY <1>3 DEF AnalyzeNext
  <2>2. Object(f) \in DOMAIN results /\ todo.a \in Assumptions
    BY <1>1 DEF Object, IInv, Typed
  <2> HIDE DEF f
  <2>3. f \in Tracked
    BY <1>3 DEF f
  <2> QED BY <1>1, <1>2, <2>1, <2>2, <2>3, AnalyzeFunctionKeeps
<1>4. CASE Head(todo.funs) \notin Tracked
  <2>1. UNCHANGED <<kind, params, results, under>>
    BY <1>1, <1>4 DEF AnalyzeNext
  <2>2. Typed'
    BY <1>2, <2>1 DEF IInv, Typed
  <2> QED BY <2>1, <2>2 DEF IInv, AllAccounted
<1> QED BY <1>3, <1>4

LEMMA AnalyzeProgramKeeps ==
    ASSUME IInv, NEW a \in Assumptions, AnalyzeProgram(a)
    PROVE  IInv'
<1> DEFINE after(r) == FoldLeft(AnalyzedIfTracked, r, FunSeq)
           more == {<<f, NoAssumption>> : f \in Tracked}
<1>1. /\ kind = "program" /\ UNCHANGED <<kind, params, todo>>
      /\ results' = [results EXCEPT !["module"] = after(@)]
      /\ under'   = [under EXCEPT !["module"] = @ \cup more]
  BY DEF AnalyzeProgram
<1> HIDE DEF after, more
<1>2. DOMAIN results = {"module"} /\ DOMAIN under = {"module"}
  BY <1>1 DEF IInv, Typed
<1>3. /\ results'["module"] = after(results["module"])
      /\ under'["module"] = under["module"] \cup more
      /\ DOMAIN results' = {"module"} /\ DOMAIN under' = {"module"}
  BY <1>1, <1>2
<1>4. Typed'
  BY <1>1, <1>3 DEF IInv, Typed
<1>5. Accounted(results["module"], under["module"], params.check) /\ params.dom \in Doms
  BY <1>2 DEF IInv, Typed, AllAccounted
<1>6. Accounted(after(results["module"]), under["module"] \cup more, params.check)
  BY <1>5, ProgramAccounted DEF after, more
<1>7. AllAccounted'
  BY <1>1, <1>3, <1>6 DEF AllAccounted
<1> QED BY <1>4, <1>7 DEF IInv

LEMMA ClearKeeps == ASSUME IInv, NEW o \in Objects, Clear(o) PROVE IInv'
<1>1. /\ UNCHANGED <<kind, params, todo>>
      /\ results' = [results EXCEPT ![o] = NoResults]
      /\ under'   = [under EXCEPT ![o] = {}]
  BY DEF Clear
<1>2. DOMAIN results' = DOMAIN results /\ DOMAIN under' = DOMAIN under
  BY <1>1
<1>3. Typed'
  BY <1>1, <1>2 DEF IInv, Typed
<1>4. ASSUME NEW p \in DOMAIN results PROVE Accounted(results'[p], under'[p], params.check)
  <2>1. CASE p = o
    <3>1. results'[p] = NoResults /\ under'[p] = {}
      BY <1>1, <2>1 DEF IInv, Typed
    <3> QED BY <3>1, NothingAnalyzed
  <2>2. CASE p # o
    <3>1. results'[p] = results[p] /\ under'[p] = under[p]
      BY <1>1, <2>2 DEF IInv, Typed
    <3> QED BY <3>1 DEF IInv, AllAccounted
  <2> QED BY <2>1, <2>2
<1>5. AllAccounted'
  BY <1>1, <1>2, <1>4 DEF AllAccounted
<1> QED BY <1>3, <1>5 DEF IInv

\* A query and the analysis of a path leave the results alone.
LEMMA SameKeeps == ASSUME IInv, UNCHANGED <<kind, params, todo, results, under>> PROVE IInv'
  BY DEF IInv, Typed, AllAccounted

LEMMA IInvNext == IInv /\ [Next]_vars => IInv'
<1> SUFFICES ASSUME IInv, [Next]_vars PROVE IInv'
  OBVIOUS
<1>1. ASSUME NEW k \in Kinds, Open(k) PROVE IInv'
  BY <1>1, OpenKeeps
<1>2. ASSUME NEW f \in Tracked, OpenFunction(f) PROVE IInv'
  BY <1>2, OpenFunctionKeeps
<1>3. ASSUME NEW f \in Tracked, NEW a \in Assumptions, AnalyzeOne(f, a) PROVE IInv'
  BY <1>3, AnalyzeOneKeeps
<1>4. ASSUME NEW a \in Assumptions, AnalyzeModule(a) PROVE IInv'
  BY <1>4, AnalyzeModuleKeeps
<1>5. ASSUME AnalyzeNext PROVE IInv'
  BY <1>5, AnalyzeNextKeeps
<1>6. ASSUME NEW a \in Assumptions, AnalyzeProgram(a) PROVE IInv'
  BY <1>6, AnalyzeProgramKeeps
<1>7. ASSUME NEW o \in Objects, Clear(o) PROVE IInv'
  BY <1>7, ClearKeeps
<1>8. ASSUME NEW q \in Asked, range(q[1], q[2]) PROVE IInv'
  <2>1. UNCHANGED <<kind, params, todo, results, under>>
    BY <1>8 DEF range, Same
  <2> QED BY <2>1, SameKeeps
<1>9. ASSUME NEW q \in Asked, rangeAtEntry(q[1], q[2]) PROVE IInv'
  <2>1. UNCHANGED <<kind, params, todo, results, under>>
    BY <1>9 DEF rangeAtEntry, Same
  <2> QED BY <2>1, SameKeeps
<1>10. ASSUME NEW q \in Asked, NEW ofInst \in BOOLEAN, tags(q[1], q[2], ofInst) PROVE IInv'
  <2>1. UNCHANGED <<kind, params, todo, results, under>>
    BY <1>10 DEF tags, Same
  <2> QED BY <2>1, SameKeeps
<1>11. ASSUME NEW f \in Tracked, NEW layered \in BOOLEAN, NEW bs \in Paths, pathAnalyze(f, bs, layered)
       PROVE  IInv'
  <2>1. UNCHANGED <<kind, params, todo, results, under>>
    BY <1>11 DEF pathAnalyze
  <2> QED BY <2>1, SameKeeps
<1>12. ASSUME UNCHANGED vars PROVE IInv'
  BY <1>12, SameKeeps DEF vars
<1> QED BY <1>1, <1>2, <1>3, <1>4, <1>5, <1>6, <1>7, <1>8, <1>9, <1>10, <1>11, <1>12 DEF Next

\* The results of an object are accounted for by the analyses since it was
\* cleared: no edge that none of them found, no count below one of theirs, no
\* error that none of them has (Clam.cc:588-632).
THEOREM AnalysisInvariant == Spec => []IInv
<1>1. IInv /\ [Next]_vars => IInv'
  BY IInvNext
<1> QED BY <1>1, IInvInit, PTL DEF Spec

LEMMA IInvEdges == IInv => EdgesSound
<1> SUFFICES ASSUME IInv, NEW o \in DOMAIN results, NEW e \in EdgeBlocks,
                    ~ hasFeasibleEdge(o, e[1], e[2])
             PROVE  \E u \in under[o] : /\ e \in Nodes(u[1])
                       /\ Run("zones", Fixpoint[<<u[1], "zones", u[2]>>][e], Code[e]) = Bottom
  BY DEF EdgesSound
<1>1. e \in results[o].edges
  BY FunctionsAssumption DEF hasFeasibleEdge
<1>2. Accounted(results[o], under[o], params.check)
  BY DEF IInv, AllAccounted
<1>3. PICK u \in under[o], d \in Doms : e \in NeverLeft[<<u[1], d, u[2]>>]
  BY <1>1, <1>2 DEF Accounted, EdgesFound
<1>4. u[1] \in Tracked /\ u[2] \in Assumptions
  BY <1>2 DEF Accounted
<1> QED BY <1>3, <1>4, NeverLeftSound

LEMMA IInvVerdict == IInv => VerdictSound
<1> SUFFICES ASSUME IInv, kind \in {"module", "program"}, params.check PROVE VerdictSound
  BY DEF VerdictSound
<1> DEFINE r  == results["module"]
           us == under["module"]
<1>1. Accounted(r, us, TRUE)
  <2>1. "module" \in DOMAIN results /\ params.check = TRUE
    BY DEF IInv, Typed
  <2> QED BY <2>1 DEF IInv, AllAccounted
<1>2. /\ r.checks["safe"] \in Nat /\ r.checks["error"] \in Nat /\ r.checks["warning"] \in Nat
  BY <1>1 DEF Accounted, IsResults, Verdicts
<1>3. \A u \in us : u[1] \in Tracked /\ u[2] \in Assumptions /\ u = <<u[1], u[2]>>
  BY <1>1 DEF Accounted
<1>4. ASSUME NEW u \in us
      PROVE  \E d \in Doms : \A v \in Verdicts : r.checks[v] = 0 =>
               \A c \in Assertions(u[1]) : Verdict(d, Fixpoint[<<u[1], d, u[2]>>], c) # v
  <2>1. PICK d \in Doms : \A v \in Verdicts : Checks[<<u[1], d, u[2]>>][v] =< r.checks[v]
    BY <1>1 DEF Accounted, Counted
  <2>2. ASSUME NEW v \in Verdicts, r.checks[v] = 0
        PROVE  \A c \in Assertions(u[1]) : Verdict(d, Fixpoint[<<u[1], d, u[2]>>], c) # v
    <3>1. /\ Checks[<<u[1], d, u[2]>>][v] \in Nat
          /\ Checks[<<u[1], d, u[2]>>][v] = 0 =>
               \A c \in Assertions(u[1]) : Verdict(d, Fixpoint[<<u[1], d, u[2]>>], c) # v
      BY <1>3, ChecksCount
    <3>2. Checks[<<u[1], d, u[2]>>][v] = 0
      <4> DEFINE k == Checks[<<u[1], d, u[2]>>][v]
      <4>1. k \in Nat /\ k =< 0
        BY <2>1, <2>2, <3>1
      <4> HIDE DEF k
      <4>2. k = 0
        BY <4>1
      <4> QED BY <4>2 DEF k
    <3> QED BY <3>1, <3>2
  <2> QED BY <2>2
<1>5. "safe" \in Verdicts /\ "error" \in Verdicts /\ "warning" \in Verdicts
  BY DEF Verdicts
<1>6. ASSUME Brunch(r) = "TRUE", NEW u \in us, NEW c \in Assertions(u[1]), NEW s \in Reaches(u, c)
      PROVE  Passes(c, s)
  <2>1. r.checks["error"] = 0 /\ r.checks["warning"] = 0
    <3> HIDE DEF r
    <3> QED BY <1>2, <1>6 DEF Brunch
  <2>2. PICK d \in Doms : \A v \in Verdicts : r.checks[v] = 0 =>
               \A e \in Assertions(u[1]) : Verdict(d, Fixpoint[<<u[1], d, u[2]>>], e) # v
    BY <1>4
  <2>3. /\ Verdict(d, Fixpoint[<<u[1], d, u[2]>>], c) # "error"
        /\ Verdict(d, Fixpoint[<<u[1], d, u[2]>>], c) # "warning"
    BY <1>5, <2>1, <2>2
  <2>4. /\ Verdict(d, Fixpoint[<<u[1], d, u[2]>>], c) \in Verdicts
        /\ Verdict(d, Fixpoint[<<u[1], d, u[2]>>], c) = "safe" =>
             \A t \in Reaches(<<u[1], u[2]>>, c) : Passes(c, t)
    BY <1>3, VerdictMeans
  <2>5. Verdict(d, Fixpoint[<<u[1], d, u[2]>>], c) = "safe"
    BY <2>3, <2>4 DEF Verdicts
  <2>6. Reaches(<<u[1], u[2]>>, c) = Reaches(u, c)
    BY DEF Reaches
  <2> QED BY <1>6, <2>4, <2>5, <2>6
<1>7. ASSUME Brunch(r) = "FALSE"
      PROVE  \E u \in us : \E c \in Assertions(u[1]) : \A s \in Reaches(u, c) : ~ Passes(c, s)
  <2>1. r.checks["error"] > 0
    <3> HIDE DEF r
    <3> QED BY <1>2, <1>7 DEF Brunch
  <2>2. PICK u \in us, d \in Doms : Checks[<<u[1], d, u[2]>>]["error"] > 0
    BY <1>1, <2>1 DEF Accounted, Blamed
  <2>3. Checks[<<u[1], d, u[2]>>]["error"] # 0
    BY <2>2
  <2>4. PICK c \in Assertions(u[1]) : Verdict(d, Fixpoint[<<u[1], d, u[2]>>], c) = "error"
    BY <1>3, <1>5, <2>3, ChecksCount
  <2>5. \A s \in Reaches(<<u[1], u[2]>>, c) : ~ Passes(c, s)
    BY <1>3, <2>4, VerdictMeans
  <2>6. Reaches(<<u[1], u[2]>>, c) = Reaches(u, c)
    BY DEF Reaches
  <2> QED BY <2>5, <2>6
<1>8. ASSUME Brunch(r) = "NOCHECKS", NEW u \in us PROVE Assertions(u[1]) = {}
  <2>1. Total(r) = 0
    <3> HIDE DEF r
    <3> QED BY <1>8 DEF Brunch
  <2>2. r.checks["safe"] = 0 /\ r.checks["error"] = 0 /\ r.checks["warning"] = 0
    <3>1. r.checks["safe"] + r.checks["error"] + r.checks["warning"] = 0
      BY <2>1 DEF Total
    <3>2. \A i, j, k \in Nat : i + j + k = 0 => i = 0 /\ j = 0 /\ k = 0
      OBVIOUS
    <3> HIDE DEF r
    <3> QED BY <1>2, <3>1, <3>2
  <2>3. PICK d \in Doms : \A v \in Verdicts : r.checks[v] = 0 =>
               \A e \in Assertions(u[1]) : Verdict(d, Fixpoint[<<u[1], d, u[2]>>], e) # v
    BY <1>4
  <2>4. ASSUME NEW c \in Assertions(u[1]) PROVE FALSE
    <3>1. Verdict(d, Fixpoint[<<u[1], d, u[2]>>], c) \in Verdicts
      BY <1>3, VerdictMeans
    <3>2. \A v \in Verdicts : Verdict(d, Fixpoint[<<u[1], d, u[2]>>], c) # v
      BY <2>2, <2>3 DEF Verdicts
    <3> QED BY <3>1, <3>2
  <2> QED BY <2>4
<1> HIDE DEF r
<1> QED BY <1>6, <1>7, <1>8 DEF VerdictSound, r

\* An edge reported infeasible is taken by no execution that one of the
\* analyses since the last clear() looks at, whatever domain it used
\* (Clam.cc:402-410, 599-602, 627-632).
THEOREM InfeasibleEdges == Spec => []EdgesSound
BY AnalysisInvariant, IInvEdges, PTL

\* TRUE, FALSE and NOCHECKS of the pass are true of the executions that the
\* analyses since the last clear() look at (Clam.cc:1369-1381).
THEOREM VerdictOfThePass == Spec => []VerdictSound
BY AnalysisInvariant, IInvVerdict, PTL
-----------------------------------------------------------------------------
(* Numbers modulo Mod.                                                     *)

LEMMA NoMultiple ==
    ASSUME NEW k \in Int, NEW m \in Nat \ {0}, -m < k * m, k * m < m
    PROVE  k = 0
<1>1. ASSUME k >= 1 PROVE k * m >= m
  <2>1. (k - 1) * m >= 0
    BY <1>1
  <2> QED BY <2>1
<1>2. ASSUME k =< -1 PROVE k * m =< -m
  <2>1. (-1 - k) * m >= 0
    BY <1>2
  <2> QED BY <2>1
<1> QED BY <1>1, <1>2

LEMMA Remainder ==
    ASSUME NEW a \in Int, NEW m \in Nat \ {0}
    PROVE  a % m \in 0 .. (m - 1) /\ \E q \in Int : a = q * m + (a % m)
<1>1. a % m \in 0 .. (m - 1)
  OBVIOUS
<1>2. a \div m \in Int /\ a = (a \div m) * m + (a % m)
  OBVIOUS
<1> QED BY <1>1, <1>2

\* Numbers that differ by a multiple of the modulus have one remainder.
LEMMA RemainderOf ==
    ASSUME NEW q \in Int, NEW m \in Nat \ {0}, NEW r \in 0 .. (m - 1)
    PROVE  (q * m + r) % m = r
<1> DEFINE a == q * m + r
<1>1. a \in Int
  OBVIOUS
<1>2. PICK p \in Int : a = p * m + (a % m)
  <2> HIDE DEF a
  <2> QED BY <1>1, Remainder
<1>3. a % m \in 0 .. (m - 1)
  <2> HIDE DEF a
  <2> QED BY <1>1, Remainder
<1>4. (q - p) * m = (a % m) - r
  <2> DEFINE s == a % m
  <2>1. q * m + r = p * m + s /\ s \in Int
    BY <1>2, <1>3
  <2> HIDE DEF s, a
  <2>2. (q - p) * m = s - r
    BY <2>1
  <2> QED BY <2>2 DEF s
<1>5. q - p = 0
  <2> DEFINE s == a % m
  <2>1. s \in 0 .. (m - 1) /\ (q - p) * m = s - r
    BY <1>3, <1>4
  <2> HIDE DEF s, a
  <2>2. -m < (q - p) * m /\ (q - p) * m < m
    <3>1. -m < s - r /\ s - r < m
      BY <2>1
    <3> QED BY <2>1, <3>1
  <2> QED BY <2>2, NoMultiple
<1>6. a % m = r
  <2> DEFINE s == a % m
  <2>1. s \in Int /\ q = p /\ q * m + r = p * m + s
    BY <1>2, <1>3, <1>5
  <2> HIDE DEF s, a
  <2>2. s = r
    BY <2>1
  <2> QED BY <2>2 DEF s
<1> QED BY <1>6

LEMMA RemainderShift ==
    ASSUME NEW a \in Int, NEW q \in Int, NEW m \in Nat \ {0}
    PROVE  (a + q * m) % m = a % m
<1> DEFINE r == a % m
<1>1. PICK p \in Int : a = p * m + r
  BY Remainder
<1>2. r \in 0 .. (m - 1)
  BY Remainder
<1> HIDE DEF r
<1>3. a + q * m = (p + q) * m + r
  BY <1>1, <1>2
<1>4. ((p + q) * m + r) % m = r
  BY <1>2, RemainderOf
<1> QED BY <1>3, <1>4 DEF r

\* The range of an interval narrower than the type holds its numbers.
LEMMA RangeHolds ==
    ASSUME NEW lb \in Int, NEW ub \in Int, NEW n \in Int,
           lb =< n, n =< ub, ub - lb < Mod - 1
    PROVE  n % Mod \in getConstantRange(lb, ub)
<1>1. Mod \in Nat \ {0}
  BY QueriesAssumption
<1>2. CASE lb = ub
  <2>1. n = lb
    BY <1>2
  <2> QED BY <1>2, <2>1 DEF getConstantRange
<1>3. CASE lb # ub
  <2> DEFINE l == lb % Mod
             u == (ub + 1) % Mod
  <2>1. PICK p \in Int : lb = p * Mod + l
    BY <1>1, Remainder
  <2>2. PICK q \in Int : ub + 1 = q * Mod + u
    <3> DEFINE a == ub + 1
    <3>1. a \in Int
      OBVIOUS
    <3> HIDE DEF a
    <3>2. \E q \in Int : a = q * Mod + (a % Mod)
      BY <1>1, <3>1, Remainder
    <3> QED BY <3>2 DEF a
  <2>3. l \in 0 .. (Mod - 1) /\ u \in 0 .. (Mod - 1)
    BY <1>1, Remainder
  <2>4. getConstantRange(lb, ub) = Wrapped(l, u)
    BY <1>3 DEF getConstantRange
  <2> HIDE DEF l, u
  <2>5. ub + 1 - lb \in 0 .. (Mod - 1) /\ ub + 1 - lb > 1
    BY <1>1, <1>3
  <2>6. (u - l) % Mod = ub + 1 - lb
    <3>1. u - l = (p - q) * Mod + (ub + 1 - lb)
      BY <1>1, <2>1, <2>2, <2>3
    <3>2. ((p - q) * Mod + (ub + 1 - lb)) % Mod = ub + 1 - lb
      <4> DEFINE r == ub + 1 - lb
      <4>1. r \in 0 .. (Mod - 1)
        BY <2>5
      <4> HIDE DEF r
      <4>2. ((p - q) * Mod + r) % Mod = r
        BY <1>1, <4>1, RemainderOf
      <4> QED BY <4>2 DEF r
    <3> QED BY <3>1, <3>2
  <2>7. l # u
    <3> SUFFICES ASSUME l = u PROVE FALSE
      OBVIOUS
    <3>1. u - l = 0 /\ 0 % Mod = 0
      BY <1>1, <2>3
    <3> QED BY <2>5, <2>6, <3>1
  <2>8. n - lb \in 0 .. (((u - l) % Mod) - 1)
    BY <2>6
  <2>9. (l + (n - lb)) % Mod = n % Mod
    <3>1. l + (n - lb) = n + (-p) * Mod
      BY <1>1, <2>1, <2>3
    <3>2. (n + (-p) * Mod) % Mod = n % Mod
      <4> DEFINE k == -p
      <4>1. k \in Int
        OBVIOUS
      <4> HIDE DEF k
      <4>2. (n + k * Mod) % Mod = n % Mod
        BY <1>1, <4>1, RemainderShift
      <4> QED BY <4>2 DEF k
    <3> QED BY <3>1, <3>2
  <2>10. Wrapped(l, u) = {(l + k) % Mod : k \in 0 .. (((u - l) % Mod) - 1)}
    BY <2>7 DEF Wrapped
  <2>11. n % Mod \in {(l + k) % Mod : k \in 0 .. (((u - l) % Mod) - 1)}
    <3> DEFINE K == 0 .. (((u - l) % Mod) - 1)
    <3>1. n - lb \in K
      BY <2>8
    <3> HIDE DEF K
    <3>2. n % Mod \in {(l + k) % Mod : k \in K}
      BY <2>9, <3>1
    <3> QED BY <3>2 DEF K
  <2> QED BY <2>4, <2>10, <2>11
<1> QED BY <1>2, <1>3
-----------------------------------------------------------------------------
(* What the queries answer.                                                *)

\* The range of an invariant holds the numbers of its stores.
LEMMA IntervalHolds ==
    ASSUME NEW inv \in SUBSET Top, NEW v \in Vars, NEW s \in inv,
           IsFinite(inv, v), ~ TooWide(inv, v)
    PROVE  Numbers(s, v) \subseteq RangeOf(inv, v)
<1> DEFINE lb == Least(Values(inv, v))
           ub == Greatest(Values(inv, v))
<1>1. /\ Values(inv, v) \in SUBSET (Lo .. Hi) /\ s[v] \in Values(inv, v)
      /\ lb \in Values(inv, v) /\ ub \in Values(inv, v) /\ lb =< s[v] /\ s[v] =< ub
  BY ValuesBetween
<1>2. lb \in Int /\ ub \in Int /\ s[v] \in Int
  BY <1>1, DomainAssumption
<1>3. s[v] \notin {Lo, Hi}
  BY <1>1 DEF IsFinite
<1>4. ub - lb < Mod - 1
  <2>1. ~ (ub - lb >= Mod - 1)
    BY DEF TooWide
  <2> HIDE DEF lb, ub
  <2> QED BY <1>2, <2>1, QueriesAssumption
<1>5. s[v] % Mod \in getConstantRange(lb, ub)
  <2> DEFINE n == s[v]
  <2>1. n \in Int /\ lb =< n /\ n =< ub
    BY <1>1, <1>2
  <2> HIDE DEF n, lb, ub
  <2>2. n % Mod \in getConstantRange(lb, ub)
    BY <1>2, <1>4, <2>1, RangeHolds
  <2> QED BY <2>2 DEF n
<1> QED BY <1>3, <1>5 DEF Numbers, RangeOf

\* The last definition of a value in a block.
LEMMA LastDefType ==
    ASSUME NEW b \in DOMAIN Code, NEW v, DefsOf(b, v) # {}
    PROVE  /\ LastDef(b, v) \in DefsOf(b, v) /\ LastDef(b, v) \in 1 .. Len(Code[b])
           /\ IsFiniteSet(DefsOf(b, v))
<1>1. Len(Code[b]) \in Nat /\ DOMAIN Code[b] = 1 .. Len(Code[b])
  BY BlockStatements DEF Statements
<1>2. DefsOf(b, v) \in SUBSET (1 .. Len(Code[b]))
  BY <1>1 DEF DefsOf
<1>3. IsFiniteSet(DefsOf(b, v))
  <2>1. IsFiniteSet(1 .. Len(Code[b]))
    BY <1>1, FS_Interval
  <2> QED BY <1>2, <2>1, FS_Subset
<1>4. DefsOf(b, v) \in SUBSET Nat
  BY <1>1, <1>2
<1> HIDE DEF DefsOf
<1>5. \E x \in DefsOf(b, v) : \A y \in DefsOf(b, v) : x >= y
  BY <1>3, <1>4, GreatestElement
<1>6. LastDef(b, v) \in DefsOf(b, v)
  BY <1>5 DEF LastDef, Greatest
<1> QED BY <1>2, <1>3, <1>6

LEMMA OneDef ==
    ASSUME NEW b \in DOMAIN Code, NEW v, DefsOf(b, v) # {}, ~ (Cardinality(DefsOf(b, v)) > 1)
    PROVE  DefsOf(b, v) = {LastDef(b, v)}
<1> DEFINE S == DefsOf(b, v)
           i == LastDef(b, v)
<1>1. i \in S /\ IsFiniteSet(S)
  BY LastDefType
<1> HIDE DEF S, i
<1>2. IsFiniteSet(S \ {i}) /\ Cardinality(S \ {i}) = Cardinality(S) - 1
  BY <1>1, FS_RemoveElement
<1>3. Cardinality(S) \in Nat /\ Cardinality(S \ {i}) \in Nat
  BY <1>1, <1>2, FS_CardinalityType
<1>4. Cardinality(S \ {i}) = 0
  <2>1. ~ (Cardinality(S) > 1)
    BY DEF S
  <2> QED BY <1>2, <1>3, <2>1
<1>5. S \ {i} = {}
  BY <1>2, <1>4, FS_EmptySet
<1>6. S = {i}
  BY <1>1, <1>5
<1> QED BY <1>6 DEF S, i

\* Statements that do not write a variable leave it the values it has.
LEMMA RunKeeps ==
    ASSUME NEW Z \in SUBSET Top, NEW s, NEW n \in Nat, Statements(s, n),
           NEW t \in Vars, \A i \in 1 .. n : s[i].x # t
    PROVE  \A y \in Run("zones", Z, s) : y[t] \in Values(Z, t)
<1>1. PICK w : Trace(w, "run", "zones", Z, s, n) /\ w[n] = Run("zones", Z, s)
  BY RunTrace DEF Statements
<1> DEFINE Good == {m \in Nat : m =< n => /\ w[m] \in SUBSET Top
                                          /\ \A y \in w[m] : y[t] \in Values(Z, t)}
<1>2. 0 \in Good
  BY <1>1 DEF Trace, Values
<1>3. ASSUME NEW m \in Nat, m \in Good PROVE m + 1 \in Good
  <2> SUFFICES ASSUME m + 1 =< n
               PROVE  w[m + 1] \in SUBSET Top /\ \A y \in w[m + 1] : y[t] \in Values(Z, t)
    OBVIOUS
  <2> DEFINE X == w[m]
             st == s[m + 1]
  <2>1. m \in 0 .. (n - 1) /\ m =< n /\ m + 1 \in 1 .. n
    OBVIOUS
  <2>2. X \in SUBSET Top /\ \A y \in X : y[t] \in Values(Z, t)
    BY <1>3, <2>1
  <2>3. w[m + 1] = Post("zones", X, st)
    BY <1>1, <2>1, Zenon DEF Trace, Step
  <2>4. WellTyped(st) /\ st.x # t
    BY <2>1 DEF Statements
  <2> HIDE DEF X, st
  <2>5. Post("zones", X, st) \in SUBSET Top
    BY <2>2, <2>4, PostSound
  <2>6. Post("zones", X, st)
        = IF st.op \in Guards THEN {y \in X : Holds(st, y)}
          ELSE UNION {{[y EXCEPT ![st.x] = k] : k \in Written(st, y)} : y \in X}
    BY ZonesExact DEF Post
  <2>7. \A y \in Post("zones", X, st) : y[t] \in Values(Z, t)
    <3>1. CASE st.op \in Guards
      BY <2>2, <2>6, <3>1
    <3>2. CASE st.op \notin Guards
      <4> SUFFICES ASSUME NEW y \in Post("zones", X, st) PROVE y[t] \in Values(Z, t)
        OBVIOUS
      <4>1. PICK x \in X : \E k \in Written(st, x) : y = [x EXCEPT ![st.x] = k]
        BY <2>6, <3>2
      <4>2. x \in [Vars -> Lo .. Hi]
        BY <2>2 DEF Top
      <4>3. y[t] = x[t]
        BY <2>4, <4>1, <4>2
      <4> QED BY <2>2, <4>3
    <3> QED BY <3>1, <3>2
  <2> QED BY <2>3, <2>5, <2>7
<1>4. \A m \in Nat : m \in Good
  <2> HIDE DEF Good
  <2> QED BY <1>2, <1>3, SetInduction
<1> QED BY <1>1, <1>4

\* The first statements of a block, and what is reached past them.
LEMMA ReachedType ==
    ASSUME NEW b \in DOMAIN Code, NEW of, Reaching(b, of) \in SUBSET Top,
           NEW i \in 0 .. Len(Code[b])
    PROVE  /\ Reached(b, of, i) \in SUBSET Top
           /\ \A d, X : X \in SUBSET Top /\ Reaching(b, of) \subseteq X =>
                /\ Reached(b, of, i) \subseteq Run(d, X, SubSeq(Code[b], 1, i))
                /\ Run(d, X, SubSeq(Code[b], 1, i)) \in SUBSET Top
<1> DEFINE s == SubSeq(Code[b], 1, i)
           Z == Reaching(b, of)
<1>1. Statements(s, i) /\ i \in Nat
  BY BlockStatements
<1> HIDE DEF s, Z
<1>2. Z \in SUBSET Top
  BY DEF Z
<1>3. \A d, X : X \in SUBSET Top /\ Z \subseteq X =>
        Run("zones", Z, s) \subseteq Run(d, X, s) /\ Run(d, X, s) \in SUBSET Top
  BY <1>1, RunSound
<1>4. Reached(b, of, i) = Run("zones", Z, s)
  BY DEF Reached, Z, s
<1>5. Run("zones", Z, s) \in SUBSET Top
  BY <1>2, <1>3
<1> QED BY <1>3, <1>4, <1>5 DEF Z, s
\* The invariant of a block that a key stands for holds the stores at its
\* entry in the executions the analysis allows.
LEMMA KeyMeans ==
    ASSUME NEW r, IsResults(r), NEW b \in DOMAIN r.pre
    PROVE  LET of == r.pre[b] IN
           /\ of \in Keys /\ of # NoInvariant
           /\ InvAt(of, b) \in SUBSET Top
           /\ Reaching(b, of) \subseteq InvAt(of, b)
<1> DEFINE of == r.pre[b]
<1>1. of \in Keys /\ of.dom \in Doms /\ of.a \in Assumptions
  BY DEF IsResults, Keys
<1>2. PICK f \in Tracked : b \in BlockSet(f)
  BY DEF IsResults
<1>3. FunOf(b) = f
  BY <1>2, FunctionsAssumption DEF FunOf
<1>4. of # NoInvariant
  BY <1>1 DEF Doms, NoInvariant
<1>5. b \in Nodes(f)
  BY <1>2 DEF Nodes
<1> HIDE DEF of
<1>6. /\ Fixpoint[<<f, of.dom, of.a>>][b] \in SUBSET Top
      /\ Fixpoint[<<f, "zones", of.a>>][b] \subseteq Fixpoint[<<f, of.dom, of.a>>][b]
  BY <1>1, <1>5, FixpointCovers DEF Covers
<1>7. /\ InvAt(of, b) \in SUBSET Top
      /\ Reaching(b, of) \subseteq InvAt(of, b)
  BY <1>3, <1>4, <1>6 DEF InvAt, Reaching
<1> QED BY <1>1, <1>4, <1>7 DEF of

\* The answer when nothing is found out: any number, any tag.
LEMMA UnknownHolds ==
    ASSUME NEW b \in DOMAIN Code, NEW v
    PROVE  /\ v \in Vars /\ DefsOf(b, v) # {} => Holding("range", b, v, NoInvariant, FullRange)
           /\ v \in Vars => Holding("entry", b, v, NoInvariant, FullRange)
           /\ v \in DOMAIN TagOf /\ DefsOf(b, v) # {} =>
                Holding("tags", b, v, NoInvariant, AnyTags)
           /\ v \in DOMAIN TagOf => Holding("tagsAtEntry", b, v, NoInvariant, AnyTags)
<1>1. Reaching(b, NoInvariant) = Top
  BY DEF Reaching
<1>2. Len(Code[b]) \in Nat
  BY BlockStatements
<1>3. ASSUME DefsOf(b, v) # {}
      PROVE  /\ Reached(b, NoInvariant, LastDef(b, v)) \in SUBSET Top
             /\ Reached(b, NoInvariant, LastDef(b, v) - 1) \in SUBSET Top
  <2> DEFINE i == LastDef(b, v)
  <2>1. i \in 1 .. Len(Code[b])
    BY <1>3, LastDefType
  <2> HIDE DEF i
  <2>2. i \in 0 .. Len(Code[b]) /\ i - 1 \in 0 .. Len(Code[b])
    BY <1>2, <2>1
  <2>3. Reached(b, NoInvariant, i) \in SUBSET Top /\ Reached(b, NoInvariant, i - 1) \in SUBSET Top
    BY <1>1, <2>2, ReachedType
  <2> QED BY <2>3 DEF i
<1>4. ASSUME NEW s \in Top, v \in Vars PROVE Numbers(s, v) \subseteq FullRange
  <2>1. s[v] \in Int
    BY <1>4, DomainAssumption DEF Top
  <2>2. s[v] % Mod \in 0 .. (Mod - 1)
    BY <2>1, Remainder, QueriesAssumption
  <2> QED BY <2>2 DEF Numbers, FullRange
<1>5. ASSUME NEW s \in Top, v \in DOMAIN TagOf PROVE s[TagOf[v]] \in AnyTags
  BY <1>5, QueriesAssumption DEF Top, AnyTags
<1>6. v \in Vars /\ DefsOf(b, v) # {} => Holding("range", b, v, NoInvariant, FullRange)
  BY <1>3, <1>4 DEF Holding
<1>7. v \in Vars => Holding("entry", b, v, NoInvariant, FullRange)
  BY <1>1, <1>4 DEF Holding
<1>8. v \in DOMAIN TagOf /\ DefsOf(b, v) # {} => Holding("tags", b, v, NoInvariant, AnyTags)
  BY <1>3, <1>5 DEF Holding
<1>9. v \in DOMAIN TagOf => Holding("tagsAtEntry", b, v, NoInvariant, AnyTags)
  BY <1>1, <1>5 DEF Holding
<1> QED BY <1>6, <1>7, <1>8, <1>9

\* The answers found in an invariant, the excluded ones aside.
LEMMA RangeSound ==
    ASSUME NEW b \in DOMAIN Code, NEW v \in Vars, DefsOf(b, v) # {}, NEW of, of # NoInvariant,
           InvAt(of, b) \in SUBSET Top, Reaching(b, of) \subseteq InvAt(of, b),
           Known(InvOf(b, of), b, v) # {}, ~ Excluded("range", b, v, of)
    PROVE  Holding("range", b, v, of, RangeAt(InvOf(b, of), b, v))
<1> DEFINE i   == LastDef(b, v)
           inv == After(InvOf(b, of), b, i)
<1>1. DefsOf(b, v) = {i}
  <2>1. ~ (Cardinality(DefsOf(b, v)) > 1)
    BY DEF Excluded
  <2> QED BY <2>1, OneDef
<1>2. i \in 1 .. Len(Code[b]) /\ i \in DefsOf(b, v)
  BY LastDefType
<1>3. Known(InvOf(b, of), b, v) = {i}
  <2>1. Known(InvOf(b, of), b, v) \subseteq DefsOf(b, v)
    BY DEF Known, DefsOf
  <2> QED BY <1>1, <2>1
<1>4. inv = Bottom \/ IsFinite(inv, v)
  <2>1. i \in Known(InvOf(b, of), b, v)
    BY <1>3
  <2> QED BY <2>1 DEF Known
<1>5. Least({i}) = i
  <2>1. i \in {i} /\ \A k \in {i} : i =< k
    BY <1>2, BlockStatements
  <2> HIDE DEF i
  <2> QED BY <2>1 DEF Least
<1>6. RangeAt(InvOf(b, of), b, v) = IF inv = Bottom THEN {} ELSE RangeOf(inv, v)
  BY <1>3, <1>5 DEF RangeAt
<1>7. inv \in SUBSET Top /\ Reached(b, of, i) \subseteq inv
  <2>1. i \in 0 .. Len(Code[b])
    BY <1>2, BlockStatements
  <2>2. inv = Run(of.dom, InvAt(of, b), SubSeq(Code[b], 1, i))
    BY DEF After, InvOf
  <2> HIDE DEF i, inv
  <2>3. Reaching(b, of) \in SUBSET Top
    OBVIOUS
  <2> QED BY <2>1, <2>2, <2>3, ReachedType
<1>8. inv = Bottom \/ ~ TooWide(inv, v)
  BY DEF Excluded
<1> HIDE DEF i, inv
<1>9. ASSUME NEW s \in Reached(b, of, i) PROVE Numbers(s, v) \subseteq RangeAt(InvOf(b, of), b, v)
  <2>1. s \in inv /\ inv # Bottom
    BY <1>7 DEF Bottom
  <2>2. Numbers(s, v) \subseteq RangeOf(inv, v)
    BY <1>4, <1>7, <1>8, <2>1, IntervalHolds
  <2> QED BY <1>6, <2>1, <2>2
<1> QED BY <1>9 DEF Holding, i

LEMMA EntrySound ==
    ASSUME NEW b, NEW v \in Vars, NEW of, of # NoInvariant,
           InvAt(of, b) \in SUBSET Top, Reaching(b, of) \subseteq InvAt(of, b),
           IsFinite(InvAt(of, b), v), ~ Excluded("entry", b, v, of)
    PROVE  Holding("entry", b, v, of, RangeOf(InvAt(of, b), v))
<1>1. InvAt(of, b) # Bottom
  BY DEF IsFinite
<1>2. ~ TooWide(InvAt(of, b), v)
  BY <1>1 DEF Excluded
<1>3. \A s \in Reaching(b, of) : Numbers(s, v) \subseteq RangeOf(InvAt(of, b), v)
  BY <1>2, IntervalHolds
<1> QED BY <1>3 DEF Holding

\* Both ask for the tags at the entry of the block.
LEMMA TagsSound ==
    ASSUME NEW b \in DOMAIN Code, NEW v \in DOMAIN TagOf, NEW of,
           InvAt(of, b) \in SUBSET Top, Reaching(b, of) \subseteq InvAt(of, b),
           TagsIn(InvAt(of, b), v) # AnyTags
    PROVE  /\ Holding("tagsAtEntry", b, v, of, TagsIn(InvAt(of, b), v))
           /\ DefsOf(b, v) # {} => \/ Excluded("tags", b, v, of)
                                   \/ Holding("tags", b, v, of, TagsIn(InvAt(of, b), v))
<1> DEFINE t == TagOf[v]
           Z == Reaching(b, of)
<1>1. TagsIn(InvAt(of, b), v) = Values(InvAt(of, b), t)
  BY DEF TagsIn
<1>2. t \in Vars
  BY QueriesAssumption, DomainAssumption
<1>3. Values(Z, t) \subseteq Values(InvAt(of, b), t)
  BY DEF Values
<1>4. \A s \in Z : s[t] \in Values(InvAt(of, b), t)
  BY DEF Values
<1>5. ASSUME DefsOf(b, v) # {}, ~ Excluded("tags", b, v, of)
      PROVE  \A s \in Reached(b, of, LastDef(b, v) - 1) : s[t] \in Values(InvAt(of, b), t)
  <2> DEFINE i == LastDef(b, v) - 1
             s == SubSeq(Code[b], 1, i)
  <2>1. /\ Len(Code[b]) \in Nat /\ DOMAIN Code[b] = 1 .. Len(Code[b])
        /\ \A j \in 0 .. Len(Code[b]) : Statements(SubSeq(Code[b], 1, j), j)
    BY BlockStatements DEF Statements
  <2>2. LastDef(b, v) \in 1 .. Len(Code[b])
    BY <1>5, LastDefType
  <2>3. i \in 0 .. Len(Code[b]) /\ i \in Nat
    BY <2>1, <2>2
  <2>4. \A k \in DOMAIN Code[b] : Code[b][k].x # t
    BY <1>5 DEF Excluded
  <2> HIDE DEF i
  <2>5. \A k \in 1 .. i : s[k].x # t
    <3>1. \A k \in 1 .. i : s[k] = Code[b][k] /\ k \in DOMAIN Code[b]
      BY <2>1, <2>3, CodeAssumption
    <3> QED BY <2>4, <3>1
  <2>6. Statements(s, i)
    BY <2>1, <2>3
  <2>7. Z \in SUBSET Top
    OBVIOUS
  <2> HIDE DEF s, Z, t
  <2>8. \A y \in Run("zones", Z, s) : y[t] \in Values(Z, t)
    BY <1>2, <2>3, <2>5, <2>6, <2>7, RunKeeps
  <2>9. Reached(b, of, i) = Run("zones", Z, s)
    BY DEF Reached, Z, s
  <2>10. \A y \in Reached(b, of, i) : y[t] \in Values(InvAt(of, b), t)
    BY <1>3, <2>8, <2>9
  <2> QED BY <2>10 DEF i
<1> HIDE DEF Z
<1>6. Holding("tagsAtEntry", b, v, of, TagsIn(InvAt(of, b), v))
  BY <1>1, <1>4 DEF Holding, Z
<1>7. ASSUME DefsOf(b, v) # {}, ~ Excluded("tags", b, v, of)
      PROVE  Holding("tags", b, v, of, TagsIn(InvAt(of, b), v))
  BY <1>1, <1>5, <1>7 DEF Holding
<1> QED BY <1>6, <1>7
-----------------------------------------------------------------------------
(* The inductive invariant of the queries: what is told now is sound, and  *)
(* so is what is cached and may be told later, whatever is analysed or     *)
(* cleared in between.                                                     *)

Queried == {"range", "entry", "tags", "tagsAtEntry"}
Sound(op, b, v, x) == Excluded(op, b, v, x.of) \/ Holding(op, b, v, x.of, x.is)
Remembered == \A key \in DOMAIN cache : Sound(key[1], key[2], key[3], cache[key])

QInv == Remembered /\ AnswersSound

LEMMA ToldSound ==
    ASSUME NEW op \in Queried, NEW b, NEW v, NEW x, Sound(op, b, v, x), Told(op, b, v, x)
    PROVE  AnswersSound'
<1>1. answer' = [op |-> op, b |-> b, v |-> v, is |-> x.is, of |-> x.of]
  BY DEF Told
<1>2. /\ answer'.op = op /\ answer'.b = b /\ answer'.v = v
      /\ answer'.is = x.is /\ answer'.of = x.of
  BY <1>1
<1>3. \/ Excluded(answer'.op, answer'.b, answer'.v, answer'.of)
      \/ Holding(answer'.op, answer'.b, answer'.v, answer'.of, answer'.is)
  BY <1>2 DEF Sound
<1> QED BY <1>3 DEF AnswersSound

LEMMA CachedSound ==
    ASSUME Remembered, NEW op, NEW b, NEW v, NEW x, Sound(op, b, v, x), Cached(<<op, b, v>>, x)
    PROVE  Remembered'
<1> DEFINE new == <<op, b, v>>
<1>1. cache' = [k \in DOMAIN cache \cup {new} |-> IF k = new THEN x ELSE cache[k]]
  BY DEF Cached
<1>2. new[1] = op /\ new[2] = b /\ new[3] = v
  OBVIOUS
<1> HIDE DEF new
<1>3. ASSUME NEW key \in DOMAIN cache' PROVE Sound(key[1], key[2], key[3], cache'[key])
  <2>1. CASE key = new
    <3>1. cache'[key] = x
      BY <1>1, <2>1
    <3> QED BY <1>2, <2>1, <3>1
  <2>2. CASE key # new
    <3>1. key \in DOMAIN cache /\ cache'[key] = cache[key]
      BY <1>1, <2>2
    <3> QED BY <3>1 DEF Remembered
  <2> QED BY <2>1, <2>2
<1> QED BY <1>3 DEF Remembered

\* A cached answer is told again.
LEMMA CacheTold ==
    ASSUME Remembered, NEW op \in Queried, NEW b, NEW v, <<op, b, v>> \in DOMAIN cache,
           Told(op, b, v, cache[<<op, b, v>>]), UNCHANGED cache
    PROVE  QInv'
<1> DEFINE key == <<op, b, v>>
<1>1. key[1] = op /\ key[2] = b /\ key[3] = v
  OBVIOUS
<1>2. Sound(op, b, v, cache[key])
  <2> HIDE DEF key
  <2>1. key \in DOMAIN cache
    BY DEF key
  <2> QED BY <1>1, <2>1 DEF Remembered
<1>3. AnswersSound'
  BY <1>2, ToldSound
<1>4. Remembered'
  BY DEF Remembered
<1> QED BY <1>3, <1>4 DEF QInv

\* When nothing is found out, nothing is cached.
LEMMA UnknownTold ==
    ASSUME Remembered, NEW op \in Queried, NEW b, NEW v, NEW n,
           Holding(op, b, v, NoInvariant, n), Told(op, b, v, Unknown(n)), UNCHANGED cache
    PROVE  QInv'
<1>1. Sound(op, b, v, Unknown(n))
  BY DEF Sound, Unknown
<1>2. AnswersSound'
  BY <1>1, ToldSound
<1>3. Remembered'
  BY DEF Remembered
<1> QED BY <1>2, <1>3 DEF QInv

LEMMA FoundTold ==
    ASSUME Remembered, NEW op \in Queried, NEW b, NEW v, NEW n,
           Sound(op, b, v, Found(b, n)), Told(op, b, v, Found(b, n)),
           Cached(<<op, b, v>>, Found(b, n)) \/ UNCHANGED cache
    PROVE  QInv'
<1>1. AnswersSound'
  BY ToldSound
<1>2. Remembered'
  <2>1. CASE Cached(<<op, b, v>>, Found(b, n))
    BY <2>1, CachedSound
  <2>2. CASE UNCHANGED cache
    BY <2>2 DEF Remembered
  <2> QED BY <2>1, <2>2
<1> QED BY <1>1, <1>2 DEF QInv

\* What a key in the results of a module stands for.
LEMMA PreMeans ==
    ASSUME IInv, kind \in {"module", "program"}, NEW b, HasPre(b)
    PROVE  LET of == results["module"].pre[b] IN
           /\ of # NoInvariant /\ PreOf(b) = InvOf(b, of) /\ PreOf(b).inv = InvAt(of, b)
           /\ InvAt(of, b) \in SUBSET Top /\ Reaching(b, of) \subseteq InvAt(of, b)
           /\ \A n : Found(b, n).of = of /\ Found(b, n).is = n
<1> DEFINE r == results["module"]
           of == r.pre[b]
<1>1. IsResults(r)
  BY DEF IInv, Typed, AllAccounted, Accounted
<1>2. b \in DOMAIN r.pre
  BY DEF HasPre
<1>3. of # NoInvariant /\ InvAt(of, b) \in SUBSET Top /\ Reaching(b, of) \subseteq InvAt(of, b)
  <2> HIDE DEF r
  <2> QED BY <1>1, <1>2, KeyMeans
<1>4. PreOf(b) = InvOf(b, of) /\ PreOf(b).inv = InvAt(of, b)
  BY DEF PreOf, InvOf
<1>5. \A n : Found(b, n).of = of /\ Found(b, n).is = n
  BY DEF Found
<1> HIDE DEF of
<1>6. /\ of # NoInvariant /\ PreOf(b) = InvOf(b, of) /\ PreOf(b).inv = InvAt(of, b)
      /\ InvAt(of, b) \in SUBSET Top /\ Reaching(b, of) \subseteq InvAt(of, b)
      /\ \A n : Found(b, n).of = of /\ Found(b, n).is = n
  BY <1>3, <1>4, <1>5
<1> QED BY <1>6 DEF of

LEMMA RangeKeeps ==
    ASSUME IInv, Remembered, NEW b \in DOMAIN Code, NEW v, range(b, v)
    PROVE  QInv'
<1> DEFINE key == <<"range", b, v>>
           n   == RangeAt(PreOf(b), b, v)
<1>1. /\ kind \in {"module", "program"} /\ v \in Vars /\ DefsOf(b, v) # {}
      /\ "range" \in Queried
  BY DEF range, Queries, DefsOf, Queried
<1>2. CASE key \in DOMAIN cache
  <2>1. Told("range", b, v, cache[key]) /\ UNCHANGED cache
    BY <1>2 DEF range
  <2> QED BY <1>1, <1>2, <2>1, CacheTold
<1>3. CASE key \notin DOMAIN cache /\ HasPre(b) /\ declared /\ Known(PreOf(b), b, v) # {}
  <2>1. Cached(key, Found(b, n)) /\ Told("range", b, v, Found(b, n))
    BY <1>3 DEF range
  <2> DEFINE of == results["module"].pre[b]
  <2>2. /\ of # NoInvariant /\ PreOf(b) = InvOf(b, of)
        /\ InvAt(of, b) \in SUBSET Top /\ Reaching(b, of) \subseteq InvAt(of, b)
        /\ Found(b, n).of = of /\ Found(b, n).is = n
    BY <1>1, <1>3, PreMeans
  <2> HIDE DEF of
  <2>3. Known(InvOf(b, of), b, v) # {} /\ n = RangeAt(InvOf(b, of), b, v)
    BY <1>3, <2>2
  <2>4. Excluded("range", b, v, of) \/ Holding("range", b, v, of, n)
    <3> HIDE DEF n
    <3> QED BY <1>1, <2>2, <2>3, RangeSound
  <2>5. Sound("range", b, v, Found(b, n))
    <3> HIDE DEF n
    <3> QED BY <2>2, <2>4 DEF Sound
  <2> QED BY <1>1, <2>1, <2>5, FoundTold
<1>4. CASE key \notin DOMAIN cache /\ ~ (HasPre(b) /\ declared /\ Known(PreOf(b), b, v) # {})
  <2>1. Told("range", b, v, Unknown(FullRange)) /\ UNCHANGED cache
    BY <1>4 DEF range
  <2>2. Holding("range", b, v, NoInvariant, FullRange)
    BY <1>1, UnknownHolds
  <2> QED BY <1>1, <2>1, <2>2, UnknownTold
<1> QED BY <1>2, <1>3, <1>4

LEMMA EntryKeeps ==
    ASSUME IInv, Remembered, NEW b \in DOMAIN Code, NEW v, rangeAtEntry(b, v)
    PROVE  QInv'
<1> DEFINE key == <<"entry", b, v>>
           n   == RangeOf(PreOf(b).inv, v)
           of  == results["module"].pre[b]
<1>1. kind \in {"module", "program"} /\ v \in Vars /\ "entry" \in Queried
  BY DEF rangeAtEntry, Queries, Queried
<1>2. CASE key \in DOMAIN cache
  <2>1. Told("entry", b, v, cache[key]) /\ UNCHANGED cache
    BY <1>2 DEF rangeAtEntry
  <2> QED BY <1>1, <1>2, <2>1, CacheTold
<1>3. CASE key \notin DOMAIN cache /\ HasPre(b) /\ PreOf(b).inv = Bottom
  <2>1. Told("entry", b, v, Found(b, {})) /\ UNCHANGED cache
    BY <1>3 DEF rangeAtEntry
  <2>2. /\ Reaching(b, of) \subseteq InvAt(of, b) /\ PreOf(b).inv = InvAt(of, b)
        /\ Found(b, {}).of = of /\ Found(b, {}).is = {}
    BY <1>1, <1>3, PreMeans
  <2> HIDE DEF of
  <2>3. Holding("entry", b, v, of, {})
    BY <1>3, <2>2 DEF Holding, Bottom
  <2>4. Sound("entry", b, v, Found(b, {}))
    BY <2>2, <2>3 DEF Sound
  <2> QED BY <1>1, <2>1, <2>4, FoundTold
<1>4. CASE /\ key \notin DOMAIN cache /\ ~ (HasPre(b) /\ PreOf(b).inv = Bottom)
           /\ HasPre(b) /\ declared /\ IsFinite(PreOf(b).inv, v)
  <2>1. Cached(key, Found(b, n)) /\ Told("entry", b, v, Found(b, n))
    BY <1>4 DEF rangeAtEntry
  <2>2. /\ of # NoInvariant /\ PreOf(b).inv = InvAt(of, b)
        /\ InvAt(of, b) \in SUBSET Top /\ Reaching(b, of) \subseteq InvAt(of, b)
        /\ Found(b, n).of = of /\ Found(b, n).is = n
    BY <1>1, <1>4, PreMeans
  <2> HIDE DEF of
  <2>3. IsFinite(InvAt(of, b), v) /\ n = RangeOf(InvAt(of, b), v)
    BY <1>4, <2>2
  <2>4. Excluded("entry", b, v, of) \/ Holding("entry", b, v, of, n)
    <3> HIDE DEF n
    <3> QED BY <1>1, <2>2, <2>3, EntrySound
  <2>5. Sound("entry", b, v, Found(b, n))
    <3> HIDE DEF n
    <3> QED BY <2>2, <2>4 DEF Sound
  <2> QED BY <1>1, <2>1, <2>5, FoundTold
<1>5. CASE /\ key \notin DOMAIN cache /\ ~ (HasPre(b) /\ PreOf(b).inv = Bottom)
           /\ ~ (HasPre(b) /\ declared /\ IsFinite(PreOf(b).inv, v))
  <2>1. Told("entry", b, v, Unknown(FullRange)) /\ UNCHANGED cache
    BY <1>5 DEF rangeAtEntry
  <2>2. Holding("entry", b, v, NoInvariant, FullRange)
    BY <1>1, UnknownHolds
  <2> QED BY <1>1, <2>1, <2>2, UnknownTold
<1> QED BY <1>2, <1>3, <1>4, <1>5

LEMMA TagsKeeps ==
    ASSUME IInv, Remembered, NEW b \in DOMAIN Code, NEW v, NEW ofInst \in BOOLEAN, tags(b, v, ofInst)
    PROVE  QInv'
<1> DEFINE op  == IF ofInst THEN "tags" ELSE "tagsAtEntry"
           key == <<op, b, v>>
           n   == TagsIn(PreOf(b).inv, v)
           of  == results["module"].pre[b]
<1>1. /\ kind \in {"module", "program"} /\ v \in DOMAIN TagOf /\ op \in Queried
      /\ \/ op = "tags" /\ DefsOf(b, v) # {}
         \/ op = "tagsAtEntry"
  BY DEF tags, Queries, Queried, DefsOf
<1>2. CASE key \in DOMAIN cache
  <2>1. Told(op, b, v, cache[key]) /\ UNCHANGED cache
    BY <1>2 DEF tags
  <2> HIDE DEF op
  <2> QED BY <1>1, <1>2, <2>1, CacheTold
<1>3. CASE key \notin DOMAIN cache /\ HasPre(b) /\ declared /\ n # AnyTags
  <2>1. Cached(key, Found(b, n)) /\ Told(op, b, v, Found(b, n))
    BY <1>3 DEF tags
  <2> HIDE DEF op
  <2>2. /\ PreOf(b).inv = InvAt(of, b)
        /\ InvAt(of, b) \in SUBSET Top /\ Reaching(b, of) \subseteq InvAt(of, b)
        /\ Found(b, n).of = of /\ Found(b, n).is = n
    BY <1>1, <1>3, PreMeans
  <2> HIDE DEF of
  <2>3. n = TagsIn(InvAt(of, b), v) /\ TagsIn(InvAt(of, b), v) # AnyTags
    BY <1>3, <2>2
  <2>4. Excluded(op, b, v, of) \/ Holding(op, b, v, of, n)
    <3> HIDE DEF n
    <3> QED BY <1>1, <2>2, <2>3, TagsSound
  <2>5. Sound(op, b, v, Found(b, n))
    <3> HIDE DEF n
    <3> QED BY <2>2, <2>4 DEF Sound
  <2> HIDE DEF n
  <2> QED BY <1>1, <2>1, <2>5, FoundTold
<1>4. CASE key \notin DOMAIN cache /\ ~ (HasPre(b) /\ declared /\ n # AnyTags)
  <2>1. Told(op, b, v, Unknown(AnyTags)) /\ UNCHANGED cache
    BY <1>4 DEF tags
  <2> HIDE DEF op
  <2>2. Holding(op, b, v, NoInvariant, AnyTags)
    BY <1>1, UnknownHolds
  <2> QED BY <1>1, <2>1, <2>2, UnknownTold
<1> QED BY <1>2, <1>3, <1>4

\* Any other step tells nothing of a value, or tells nothing new.
LEMMA OtherKeeps ==
    ASSUME QInv, UNCHANGED cache, UNCHANGED answer \/ answer'.op \notin Queried
    PROVE  QInv'
<1>1. Remembered'
  BY DEF QInv, Remembered
<1>2. AnswersSound'
  BY DEF QInv, AnswersSound, Queried
<1> QED BY <1>1, <1>2 DEF QInv

LEMMA QInvNext == IInv /\ QInv /\ [Next]_vars => QInv'
<1> SUFFICES ASSUME IInv, QInv, [Next]_vars PROVE QInv'
  OBVIOUS
<1>0. Remembered /\ NoAnswer.op \notin Queried /\ \A q \in Asked : q[1] \in DOMAIN Code
  BY QueriesAssumption DEF QInv, NoAnswer, Queried
<1>1. ASSUME NEW k \in Kinds, Open(k) PROVE QInv'
  BY <1>1, OtherKeeps DEF Open
<1>2. ASSUME NEW f \in Tracked, OpenFunction(f) PROVE QInv'
  BY <1>2, OtherKeeps DEF OpenFunction
<1>3. ASSUME NEW f \in Tracked, NEW a \in Assumptions, AnalyzeOne(f, a) PROVE QInv'
  <2>1. UNCHANGED cache /\ answer' = NoAnswer
    BY <1>3 DEF AnalyzeOne
  <2> QED BY <1>0, <2>1, OtherKeeps
<1>4. ASSUME NEW a \in Assumptions, AnalyzeModule(a) PROVE QInv'
  <2>1. UNCHANGED cache /\ answer' = NoAnswer
    BY <1>4 DEF AnalyzeModule
  <2> QED BY <1>0, <2>1, OtherKeeps
<1>5. ASSUME AnalyzeNext PROVE QInv'
  <2>1. UNCHANGED <<cache, answer>>
    BY <1>5 DEF AnalyzeNext
  <2> QED BY <2>1, OtherKeeps
<1>6. ASSUME NEW a \in Assumptions, AnalyzeProgram(a) PROVE QInv'
  <2>1. UNCHANGED cache /\ answer' = NoAnswer
    BY <1>6 DEF AnalyzeProgram
  <2> QED BY <1>0, <2>1, OtherKeeps
<1>7. ASSUME NEW o \in Objects, Clear(o) PROVE QInv'
  <2>1. UNCHANGED cache /\ answer' = NoAnswer
    BY <1>7 DEF Clear
  <2> QED BY <1>0, <2>1, OtherKeeps
<1>8. ASSUME NEW q \in Asked, range(q[1], q[2]) PROVE QInv'
  BY <1>0, <1>8, RangeKeeps
<1>9. ASSUME NEW q \in Asked, rangeAtEntry(q[1], q[2]) PROVE QInv'
  BY <1>0, <1>9, EntryKeeps
<1>10. ASSUME NEW q \in Asked, NEW ofInst \in BOOLEAN, tags(q[1], q[2], ofInst) PROVE QInv'
  BY <1>0, <1>10, TagsKeeps
<1>11. ASSUME NEW f \in Tracked, NEW layered \in BOOLEAN, NEW bs \in Paths, pathAnalyze(f, bs, layered)
       PROVE  QInv'
  <2>1. UNCHANGED cache
    BY <1>11 DEF pathAnalyze
  <2>2. answer' = NoAnswer \/ \E path, s, whole : answer' = PathAnswer(path, s, whole)
    BY <1>11, Zenon DEF pathAnalyze
  <2>3. \A path, s, whole : PathAnswer(path, s, whole).op = "path"
    BY DEF PathAnswer
  <2>4. answer'.op \notin Queried
    BY <1>0, <2>2, <2>3 DEF Queried
  <2> QED BY <2>1, <2>4, OtherKeeps
<1>12. ASSUME UNCHANGED vars PROVE QInv'
  <2>1. UNCHANGED <<cache, answer>>
    BY <1>12 DEF vars
  <2> QED BY <2>1, OtherKeeps
<1> QED BY <1>1, <1>2, <1>3, <1>4, <1>5, <1>6, <1>7, <1>8, <1>9, <1>10, <1>11, <1>12 DEF Next

LEMMA QInvInit == Init => QInv
<1> SUFFICES ASSUME Init PROVE QInv
  OBVIOUS
<1>1. DOMAIN <<>> = {}
  OBVIOUS
<1> QED BY <1>1 DEF Init, QInv, Remembered, AnswersSound, NoAnswer

\* A range or a set of tags that is told, from the cache or not, holds of every
\* execution that the analysis it comes from allows, whatever was analysed,
\* cleared and asked before (ClamQueryCache.cc:73-243, Clam.cc:627-632).
THEOREM AnswersAboutValues == Spec => []AnswersSound
<1>1. QInv => AnswersSound
  BY DEF QInv
<1>2. IInv /\ QInv /\ [Next]_vars => QInv'
  BY QInvNext
<1> QED BY <1>1, <1>2, QInvInit, AnalysisInvariant, PTL DEF Spec
=============================================================================
