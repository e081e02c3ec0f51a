---------------------------- MODULE CompareProofs ----------------------------
(***************************************************************************)
(* The return code of check_assertions means what its caller takes it to   *)
(* mean, for every number of files and every set of assertions; the totals *)
(* find_warnings takes from a .crabir file count no result twice and none  *)
(* of a closed function too few, for every file.                           *)
(***************************************************************************)
EXTENDS MCVerdict, NatSets

\* the code so far, for the outcomes of the first n files
Tells(n) ==
  /\ result = 0 <=> ~ Seen(1, n) /\ ~ Seen(2, n)
  /\ result = 1 <=> Seen(1, n) /\ ~ Seen(2, n)
  /\ result = 2 <=> ~ Seen(1, n) /\ Seen(2, n)
  /\ result >= 3 <=> Seen(1, n) /\ Seen(2, n)

IInv ==
  /\ result \in Int /\ i \in Nat
  /\ mode \in {"stronger", "weaker"}
  /\ Len(init) \in Nat /\ Len(tran) \in Nat
  /\ pc = "start" => i = 0 /\ result = 0
  /\ pc = "loop" => /\ Len(init) = Len(tran) /\ i <= Len(init) /\ Len(init) > 0
                    /\ result >= 0 /\ Tells(i)
  /\ pc = "done" => \/ result = -1 /\ (Len(init) # Len(tran) \/ Len(init) = 0)
                    \/ result >= 0 /\ Tells(Len(init)) /\ Len(init) = Len(tran)
                       /\ Len(init) > 0

LEMMA CompareCodes ==
  ASSUME NEW d, NEW t
  PROVE  compare_assertions(d, t) \in {0, 1, 2}
  BY DEF compare_assertions

LEMMA SeenNext ==
  ASSUME NEW n \in Nat, NEW r
  PROVE  Seen(r, n + 1) <=> Seen(r, n) \/ compare_assertions(init[n + 1], tran[n + 1]) = r
  <1>1. 1..(n + 1) = (1..n) \cup {n + 1}
    OBVIOUS
  <1> QED BY <1>1 DEF Seen

LEMMA ListingLength == ASSUME NEW l \in Listing PROVE Len(l) \in Nat
  <1>1. PICK n \in 0..MaxFiles : l \in [1..n -> Dict]
    BY DEF Listing
  <1>2. Len(l) = n
    BY <1>1, MaxFilesAssumption
  <1> QED BY <1>2, MaxFilesAssumption

LEMMA InvInit == Init => IInv
  BY ListingLength DEF Init, IInv

LEMMA InvStep == IInv /\ [Next]_vars => IInv'
  <1> SUFFICES ASSUME IInv, [Next]_vars PROVE IInv'
    OBVIOUS
  <1>1. CASE Reject
    BY <1>1 DEF Reject, IInv
  <1>2. CASE CompareOnly
    <2> DEFINE r == compare_assertions(init[1], tran[1])
    <2>1. r \in {0, 1, 2}
      BY CompareCodes
    <2>2. \A x : Seen(x, 1) <=> r = x
      BY DEF Seen
    <2>3. /\ Len(init) = Len(tran) /\ Len(init) = 1 /\ result' = r /\ i' = 1 /\ pc' = "done"
          /\ mode' = mode /\ init' = init /\ tran' = tran
      BY <1>2 DEF CompareOnly
    <2>4. \A x : Seen(x, Len(init))' <=> Seen(x, 1)
      BY <2>3 DEF Seen, compare_assertions, Failed
    <2> HIDE DEF r
    <2>5. Tells(Len(init))'
      BY <2>1, <2>2, <2>3, <2>4 DEF Tells
    <2>6. result' >= 0 /\ result' \in Int /\ i' \in Nat /\ Len(init') > 0
          /\ Len(init') = Len(tran') /\ Len(init') \in Nat /\ Len(tran') \in Nat
      <3>1. Len(init) \in Nat /\ Len(tran) \in Nat
        BY DEF IInv
      <3>2. init' = init /\ tran' = tran /\ Len(init) = Len(tran) /\ Len(init) = 1 /\ i' = 1
        BY <2>3
      <3>3. result' = r
        BY <2>3
      <3>4. result' >= 0 /\ result' \in Int
        BY <2>1, <3>3
      <3> QED BY <3>1, <3>2, <3>4
    <2>7. mode' \in {"stronger", "weaker"}
      BY <2>3 DEF IInv
    <2>8. pc' # "start" /\ pc' # "loop"
      BY <2>3
    <2> QED BY <2>5, <2>6, <2>7, <2>8, Zenon DEF IInv
  <1>3. CASE StartLoop
    <2>1. \A x : ~ Seen(x, 0)
      BY DEF Seen
    <2>2. /\ i = 0 /\ i' = 0 /\ result = 0 /\ result' = 0 /\ pc' = "loop"
          /\ mode' = mode /\ init' = init /\ tran' = tran
          /\ Len(init) = Len(tran) /\ Len(init) > 1
      BY <1>3 DEF StartLoop, IInv
    <2>3. \A x : ~ Seen(x, i)'
      BY <2>2 DEF Seen
    <2>4. Tells(i)'
      BY <2>2, <2>3 DEF Tells
    <2> QED BY <2>2, <2>4 DEF IInv
  <1>4. CASE CompareNext
    <2> DEFINE r == compare_assertions(init[i + 1], tran[i + 1])
    <2>1. r \in {0, 1, 2}
      BY CompareCodes
    <2>2. \A x : Seen(x, i + 1) <=> Seen(x, i) \/ r = x
      BY SeenNext DEF IInv
    <2>3. /\ result' = Combine(result, r) /\ i' = i + 1 /\ pc = "loop" /\ pc' = "loop"
          /\ mode' = mode /\ init' = init /\ tran' = tran /\ i < Len(init)
      BY <1>4 DEF CompareNext
    <2> HIDE DEF r
    <2>4. result' = IF result # r THEN result + r ELSE result
      BY <2>3 DEF Combine
    <2>5. Tells(i)
      BY <2>3 DEF IInv
    <2>6. \A x : Seen(x, i)' <=> Seen(x, i + 1)
      BY <2>3 DEF Seen, compare_assertions, Failed
    <2>7. \A x : Seen(x, i)' <=> Seen(x, i) \/ r = x
      BY <2>2, <2>6
    <2>8. Tells(i)'
      BY <2>1, <2>3, <2>4, <2>5, <2>7 DEF Tells, IInv
    <2>9. result' >= 0 /\ result' \in Int
      BY <2>1, <2>3, <2>4 DEF IInv
    <2> QED BY <2>3, <2>8, <2>9 DEF IInv
  <1>5. CASE Return
    <2>1. \A x : Seen(x, Len(init))' <=> Seen(x, Len(init))
      BY <1>5 DEF Return, Seen, compare_assertions, Failed
    <2> QED BY <1>5, <2>1 DEF Return, IInv, Tells
  <1>6. CASE UNCHANGED vars
    BY <1>6 DEF vars, IInv, Tells, Seen, compare_assertions, Failed
  <1> QED BY <1>1, <1>2, <1>3, <1>4, <1>5, <1>6 DEF Next, Stopped

LEMMA Invariant == Spec => []IInv
  BY InvInit, InvStep, PTL DEF Spec

\* Whatever the number of files and the order of their outcomes, the return
\* code of check_assertions tells passed, failed, missing and both apart.
THEOREM CodesTellOutcomes == Spec => []CodeTellsOutcomes
  <1>1. IInv => CodeTellsOutcomes
    BY DEF IInv, CodeTellsOutcomes, Tells
  <1> QED BY Invariant, <1>1, PTL

\* A function whose assertions regressed is never outvoted by the others: code
\* 0 is given only if there is none.
THEOREM NoRegressionIsLost == Spec => []NoRegressionPasses
  <1>1. ASSUME IInv PROVE NoRegressionPasses
    <2> SUFFICES ASSUME pc = "done", Len(init) = Len(tran), Len(init) > 0,
                        result = 0
                 PROVE  \A k \in 1..Len(init) : ~ Regression(init[k], tran[k])
      BY DEF NoRegressionPasses
    <2>1. ~ Seen(1, Len(init)) /\ ~ Seen(2, Len(init))
      BY <1>1 DEF IInv, Tells
    <2>2. \A k \in 1..Len(init) : compare_assertions(init[k], tran[k]) \in {0, 1, 2}
      BY CompareCodes
    <2>3. ASSUME NEW d, NEW t
          PROVE  compare_assertions(d, t) = 0 => ~ Regression(d, t)
      BY <1>1 DEF compare_assertions, Regression, Failed, IInv
    <2> QED BY <2>1, <2>2, <2>3 DEF Seen
  <1> QED BY Invariant, <1>1, PTL

-----------------------------------------------------------------------------
(***************************************************************************)
(* The count.  A line belongs to the last function declared before it; at  *)
(* every moment the counters stored are those of the functions closed so   *)
(* far, and curr holds those of the function at hand.                      *)
(***************************************************************************)

Decls(l) == {k \in 1..Len(l) : l[k].kind = "declare"}

\* d is the last declaration up to line k.
LastDecl(l, d, k) == d \in Decls(l) /\ d <= k /\ \A e \in Decls(l) : e <= k => e <= d

Body(l, k, f) == \E d \in Decls(l) : LastDecl(l, d, k) /\ l[d].func = f

Distinct(l) == \A m, k \in Decls(l) : l[m].func = l[k].func => m = k

Marked(l, kind, T) == {k \in T : l[k].kind = kind}
Tally(l, T) == [ok   |-> Cardinality(Marked(l, "OK", T)),
                fail |-> Cardinality(Marked(l, "FAIL", T))]

Log(l) == /\ Len(l) \in Nat \ {0}
          /\ \A k \in 1..Len(l) : /\ l[k].kind \in {"declare", "OK", "FAIL"}
                                  /\ l[k].kind = "declare" => l[k].func # Count!NoFunction
          /\ l[1].kind = "declare"

\* the counters s are natural numbers, none above that of t
AtMost(s, t) == s.ok \in Nat /\ s.fail \in Nat /\ s.ok <= t.ok /\ s.fail <= t.fail

\* the counters of the functions declared before line d: no more than the
\* lines of the functions of that name, and all of them if names differ
Stored(l, d, m) ==
  /\ DOMAIN m = {l[e].func : e \in {e \in Decls(l) : e < d}}
  /\ \A f \in DOMAIN m : AtMost(m[f], Tally(l, {k \in 1..(d - 1) : Body(l, k, f)}))
  /\ Distinct(l) => \A f \in DOMAIN m :
                      m[f] = Tally(l, {k \in 1..(d - 1) : Body(l, k, f)})

\* r lines of l are read, c is the current function, t its counters
Read(l, r, c, t, m) ==
  /\ r \in 0..Len(l)
  /\ r = 0 => c = Count!NoFunction /\ DOMAIN m = {}
  /\ r > 0 => \E d \in Decls(l) : /\ LastDecl(l, d, r) /\ c = l[d].func
                                  /\ t = Tally(l, d..r)
                                  /\ Stored(l, d, m)

\* the functions of m but those of F are added up in s
Added(l, m, F, s) ==
  \E d \in Decls(l) :
    /\ LastDecl(l, d, Len(l)) /\ Stored(l, d, m) /\ F \subseteq DOMAIN m
    /\ AtMost(s, Tally(l, {k \in 1..(d - 1) : \A f \in F : ~ Body(l, k, f)}))
    /\ Distinct(l) => s = Tally(l, {k \in 1..(d - 1) : \A f \in F : ~ Body(l, k, f)})

LEMMA MarkedFinite ==
  ASSUME NEW l, NEW n \in Nat, NEW T \in SUBSET (1..n), NEW kind
  PROVE  IsFiniteSet(Marked(l, kind, T)) /\ Cardinality(Marked(l, kind, T)) \in Nat
  <1>1. IsFiniteSet(1..n)
    BY FS_Interval
  <1>2. Marked(l, kind, T) \in SUBSET (1..n)
    BY DEF Marked
  <1> QED BY <1>1, <1>2, FS_Subset, FS_CardinalityType

\* Lines of two sets are counted together.
LEMMA TallyUnion ==
  ASSUME NEW l, NEW n \in Nat, NEW T \in SUBSET (1..n), NEW U \in SUBSET (1..n),
         T \cap U = {}
  PROVE  /\ Tally(l, T \cup U).ok = Tally(l, T).ok + Tally(l, U).ok
         /\ Tally(l, T \cup U).fail = Tally(l, T).fail + Tally(l, U).fail
  <1>1. ASSUME NEW kind
        PROVE  Cardinality(Marked(l, kind, T \cup U))
                 = Cardinality(Marked(l, kind, T)) + Cardinality(Marked(l, kind, U))
    <2>1. Marked(l, kind, T \cup U) = Marked(l, kind, T) \cup Marked(l, kind, U)
      BY DEF Marked
    <2>2. Marked(l, kind, T) \cap Marked(l, kind, U) = {}
      BY DEF Marked
    <2>3. /\ IsFiniteSet(Marked(l, kind, T)) /\ Cardinality(Marked(l, kind, T)) \in Nat
          /\ IsFiniteSet(Marked(l, kind, U)) /\ Cardinality(Marked(l, kind, U)) \in Nat
      BY MarkedFinite
    <2>4. Cardinality(Marked(l, kind, T) \cup Marked(l, kind, U))
            = Cardinality(Marked(l, kind, T)) + Cardinality(Marked(l, kind, U))
                - Cardinality(Marked(l, kind, T) \cap Marked(l, kind, U))
      BY <2>3, FS_Union
    <2>5. Cardinality(Marked(l, kind, T) \cap Marked(l, kind, U)) = 0
      BY <2>2, FS_EmptySet
    <2>6. \A a, b \in Nat : a + b - 0 = a + b
      OBVIOUS
    <2> QED BY <2>1, <2>3, <2>4, <2>5, <2>6, Zenon
  <1> QED BY <1>1 DEF Tally

\* Fewer lines, no more results.
LEMMA TallyMonotone ==
  ASSUME NEW l, NEW n \in Nat, NEW U \in SUBSET (1..n), NEW T \in SUBSET U
  PROVE  AtMost(Tally(l, T), Tally(l, U))
  <1>1. ASSUME NEW kind
        PROVE  /\ Cardinality(Marked(l, kind, T)) \in Nat
               /\ Cardinality(Marked(l, kind, T)) <= Cardinality(Marked(l, kind, U))
    <2>1. IsFiniteSet(Marked(l, kind, U))
      BY MarkedFinite
    <2>2. Marked(l, kind, T) \in SUBSET Marked(l, kind, U) /\ T \in SUBSET (1..n)
      BY DEF Marked
    <2> QED BY <2>1, <2>2, MarkedFinite, FS_Subset
  <1> QED BY <1>1 DEF AtMost, Tally

LEMMA TallyNat ==
  ASSUME NEW l, NEW n \in Nat, NEW T \in SUBSET (1..n)
  PROVE  Tally(l, T).ok \in Nat /\ Tally(l, T).fail \in Nat
  BY MarkedFinite DEF Tally

LEMMA TallyDeclaration ==
  ASSUME NEW l, NEW k, l[k].kind = "declare"
  PROVE  Tally(l, {k}) = Count!Zero
  <1>1. Marked(l, "OK", {k}) = {} /\ Marked(l, "FAIL", {k}) = {}
    BY DEF Marked
  <1> QED BY <1>1, FS_EmptySet DEF Tally, Count!Zero

\* Every line has one last declaration before it.
LEMMA HasDeclaration ==
  ASSUME NEW l, Log(l), NEW k \in 1..Len(l)
  PROVE  \E d \in Decls(l) : LastDecl(l, d, k)
  <1> DEFINE T == {e \in Decls(l) : e <= k}
  <1>1. Len(l) \in Nat /\ k \in Nat /\ 1 \in 1..Len(l) /\ 1 <= k
    BY DEF Log
  <1>2. 1 \in T /\ T \in SUBSET Nat /\ T \in SUBSET (1..k)
    BY <1>1 DEF Log, Decls
  <1>3. IsFiniteSet(T)
    <2>1. IsFiniteSet(1..k)
      BY <1>1, FS_Interval
    <2> HIDE DEF T
    <2> QED BY <1>2, <2>1, FS_Subset
  <1>4. PICK d \in T : \A e \in T : d >= e
    BY <1>2, <1>3, GreatestElement
  <1> QED BY <1>1, <1>4 DEF LastDecl, Decls

LEMMA OneLastDecl ==
  ASSUME NEW l, NEW d, NEW e, NEW k, LastDecl(l, d, k), LastDecl(l, e, k)
  PROVE  d = e
  BY DEF LastDecl, Decls

LEMMA BodyFrom ==
  ASSUME NEW l, Log(l), NEW r \in 1..Len(l), NEW d, LastDecl(l, d, r), NEW k \in d..r
  PROVE  k \in 1..r /\ Body(l, k, l[d].func)
  <1>1. r \in Nat /\ d \in Nat /\ d >= 1 /\ d <= r /\ d \in Decls(l)
    BY DEF LastDecl, Decls, Log
  <1>2. LastDecl(l, d, k)
    BY <1>1 DEF LastDecl, Decls
  <1> QED BY <1>1, <1>2 DEF Body

\* The lines of the function at hand are those from its declaration on.
LEMMA BodiesUpTo ==
  ASSUME NEW l, Log(l), Distinct(l), NEW r \in 1..Len(l), NEW d, LastDecl(l, d, r)
  PROVE  /\ {k \in 1..r : Body(l, k, l[d].func)} = d..r
         /\ \A f : f # l[d].func =>
              {k \in 1..r : Body(l, k, f)} = {k \in 1..(d - 1) : Body(l, k, f)}
  <1>0. r \in Nat /\ d \in Nat /\ d >= 1 /\ d <= r /\ d \in Decls(l)
    BY DEF LastDecl, Decls, Log
  <1>1. ASSUME NEW k \in d..r PROVE LastDecl(l, d, k)
    BY <1>0 DEF LastDecl, Decls
  <1>2. \A k \in d..r : \A f : Body(l, k, f) <=> f = l[d].func
    BY <1>0, <1>1, OneLastDecl DEF Body
  <1>3. ASSUME NEW k \in 1..(d - 1) PROVE ~ Body(l, k, l[d].func)
    <2>1. ASSUME NEW e \in Decls(l), LastDecl(l, e, k), l[e].func = l[d].func PROVE FALSE
      <3>1. e = d
        BY <1>0, <2>1 DEF Distinct
      <3>2. e <= k
        BY <2>1 DEF LastDecl
      <3> QED BY <1>0, <3>1, <3>2
    <2> QED BY <2>1 DEF Body
  <1>4. 1..r = (1..(d - 1)) \cup (d..r)
    BY <1>0
  <1>5. \A k \in d..r : k \in 1..r
    BY <1>0
  <1> QED BY <1>2, <1>3, <1>4, <1>5

-----------------------------------------------------------------------------
(* The steps of processLog.                                                *)

LEMMA ReadFirst ==
  ASSUME NEW l, Log(l), NEW t, NEW m, DOMAIN m = {}, t = Count!Zero
  PROVE  Read(l, 1, l[1].func, t, m)
  <1>1. 1 \in Decls(l) /\ 1 \in 0..Len(l)
    BY DEF Log, Decls
  <1>2. LastDecl(l, 1, 1)
    BY <1>1 DEF LastDecl
  <1>3. 1..1 = {1}
    OBVIOUS
  <1>4. t = Tally(l, 1..1)
    BY <1>3, TallyDeclaration DEF Log
  <1>5. {e \in Decls(l) : e < 1} = {}
    BY DEF Decls
  <1>6. Stored(l, 1, m)
    BY <1>5 DEF Stored
  <1>7. \E d \in Decls(l) : /\ LastDecl(l, d, 1) /\ l[1].func = l[d].func
                            /\ t = Tally(l, d..1) /\ Stored(l, d, m)
    BY <1>1, <1>2, <1>4, <1>6, Zenon
  <1> QED BY <1>1, <1>7 DEF Read

LEMMA ReadDeclaration ==
  ASSUME NEW l, Log(l), NEW r, NEW c, NEW t, NEW m, Read(l, r, c, t, m),
         r > 0, r < Len(l), l[r + 1].kind = "declare",
         NEW w, w = [f \in DOMAIN m \cup {c} |-> IF f = c THEN t ELSE m[f]]
  PROVE  Read(l, r + 1, l[r + 1].func, Count!Zero, w)
  <1>0. r \in 1..Len(l) /\ r + 1 \in 1..Len(l) /\ r + 1 \in Decls(l) /\ r + 1 \in 0..Len(l)
        /\ (r + 1) - 1 = r
    BY DEF Log, Read, Decls
  <1>1. PICK d \in Decls(l) : /\ LastDecl(l, d, r) /\ c = l[d].func
                              /\ t = Tally(l, d..r)
                              /\ Stored(l, d, m)
    BY DEF Read
  <1>2. LastDecl(l, r + 1, r + 1)
    BY <1>0 DEF LastDecl
  <1>3. Tally(l, (r + 1)..(r + 1)) = Count!Zero
    <2>1. (r + 1)..(r + 1) = {r + 1}
      BY <1>0
    <2> QED BY <2>1, TallyDeclaration
  <1>4. {e \in Decls(l) : e < r + 1} = {e \in Decls(l) : e < d} \cup {d}
    BY <1>0, <1>1 DEF LastDecl, Decls
  <1>5. DOMAIN w = {l[e].func : e \in {e \in Decls(l) : e < r + 1}}
    BY <1>1, <1>4 DEF Stored
  <1>6. ASSUME Distinct(l), NEW f \in DOMAIN w
        PROVE  w[f] = Tally(l, {k \in 1..r : Body(l, k, f)})
    <2>1. CASE f = c
      <3>1. {k \in 1..r : Body(l, k, f)} = d..r
        BY <1>0, <1>1, <1>6, <2>1, BodiesUpTo
      <3> QED BY <1>1, <2>1, <3>1
    <2>2. CASE f # c
      <3>1. {k \in 1..r : Body(l, k, f)} = {k \in 1..(d - 1) : Body(l, k, f)}
        BY <1>0, <1>1, <1>6, <2>2, BodiesUpTo
      <3>2. f \in DOMAIN m /\ w[f] = m[f]
        BY <1>6, <2>2
      <3> QED BY <1>1, <1>6, <3>1, <3>2 DEF Stored
    <2> QED BY <2>1, <2>2
  <1>61. ASSUME NEW f \in DOMAIN w
         PROVE  AtMost(w[f], Tally(l, {k \in 1..r : Body(l, k, f)}))
    <2> DEFINE U == {k \in 1..r : Body(l, k, f)}
               P == {k \in 1..(d - 1) : Body(l, k, f)}
    <2>1. r \in Nat /\ d \in Nat /\ d <= r /\ U \in SUBSET (1..r) /\ P \in SUBSET U
      BY <1>0, <1>1 DEF LastDecl, Decls, Log
    <2>2. P \in SUBSET (1..r)
      BY <2>1
    <2>3. CASE f = c
      <3>1. d..r \in SUBSET U
        BY <1>0, <1>1, <2>3, BodyFrom
      <3>2. w[f] = Tally(l, d..r)
        BY <1>1, <2>3
      <3> DEFINE T == d..r
      <3>3. T \in SUBSET U
        BY <3>1
      <3>4. w[f] = Tally(l, T)
        BY <3>2
      <3>5. U \in SUBSET (1..r) /\ r \in Nat
        BY <2>1
      <3> HIDE DEF T, U
      <3>6. AtMost(Tally(l, T), Tally(l, U))
        BY <3>3, <3>5, TallyMonotone
      <3>7. AtMost(w[f], Tally(l, U))
        BY <3>4, <3>6
      <3> QED BY <3>7 DEF U
    <2>4. CASE f # c
      <3>1. f \in DOMAIN m /\ w[f] = m[f]
        BY <1>61, <2>4
      <3>2. AtMost(m[f], Tally(l, P))
        BY <1>1, <3>1 DEF Stored
      <3>3. P \in SUBSET U /\ P \in SUBSET (1..r) /\ U \in SUBSET (1..r) /\ r \in Nat
        BY <2>1, <2>2
      <3> HIDE DEF U, P
      <3>4. AtMost(Tally(l, P), Tally(l, U))
        BY <3>3, TallyMonotone
      <3>5. /\ Tally(l, U).ok \in Nat /\ Tally(l, U).fail \in Nat
            /\ Tally(l, P).ok \in Nat /\ Tally(l, P).fail \in Nat
        BY <3>3, TallyNat
      <3>6. AtMost(w[f], Tally(l, U))
        BY <3>1, <3>2, <3>4, <3>5 DEF AtMost
      <3> QED BY <3>6 DEF U
    <2> QED BY <2>3, <2>4
  <1>7. Stored(l, r + 1, w)
    BY <1>0, <1>5, <1>6, <1>61 DEF Stored
  <1>8. \E e \in Decls(l) : /\ LastDecl(l, e, r + 1) /\ l[r + 1].func = l[e].func
                            /\ Count!Zero = Tally(l, e..(r + 1)) /\ Stored(l, e, w)
    BY <1>0, <1>2, <1>3, <1>7, Zenon
  <1>9. r + 1 > 0 /\ r + 1 # 0
    BY <1>0
  <1> QED BY <1>0, <1>8, <1>9 DEF Read

LEMMA ReadResult ==
  ASSUME NEW l, Log(l), NEW r, NEW c, NEW t, NEW m, Read(l, r, c, t, m),
         r < Len(l), l[r + 1].kind # "declare",
         NEW t2, t2 = IF l[r + 1].kind = "OK" THEN [t EXCEPT !.ok = @ + 1]
                                              ELSE [t EXCEPT !.fail = @ + 1]
  PROVE  Read(l, r + 1, c, t2, m)
  <1>0. r \in 1..Len(l) /\ r > 0 /\ r + 1 \in 1..Len(l) /\ r + 1 \notin Decls(l)
        /\ r + 1 \in 0..Len(l) /\ Len(l) \in Nat /\ l[r + 1].kind \in {"OK", "FAIL"}
    BY DEF Log, Read, Decls
  <1>1. PICK d \in Decls(l) : /\ LastDecl(l, d, r) /\ c = l[d].func
                              /\ t = Tally(l, d..r)
                              /\ Stored(l, d, m)
    BY <1>0 DEF Read
  <1>2. LastDecl(l, d, r + 1)
    BY <1>0, <1>1 DEF LastDecl, Decls
  <1>3. /\ d..(r + 1) = (d..r) \cup {r + 1} /\ (d..r) \cap {r + 1} = {}
        /\ d..r \in SUBSET (1..Len(l)) /\ {r + 1} \in SUBSET (1..Len(l))
    BY <1>0, <1>1 DEF LastDecl, Decls
  <1>4. /\ Tally(l, d..(r + 1)).ok = Tally(l, d..r).ok + Tally(l, {r + 1}).ok
        /\ Tally(l, d..(r + 1)).fail = Tally(l, d..r).fail + Tally(l, {r + 1}).fail
    <2>1. /\ Tally(l, (d..r) \cup {r + 1}).ok = Tally(l, d..r).ok + Tally(l, {r + 1}).ok
          /\ Tally(l, (d..r) \cup {r + 1}).fail = Tally(l, d..r).fail + Tally(l, {r + 1}).fail
      <3> DEFINE T == d..r
                 U == {r + 1}
      <3>1. T \in SUBSET (1..Len(l)) /\ U \in SUBSET (1..Len(l)) /\ T \cap U = {}
        BY <1>3
      <3> HIDE DEF T, U
      <3>2. /\ Tally(l, T \cup U).ok = Tally(l, T).ok + Tally(l, U).ok
            /\ Tally(l, T \cup U).fail = Tally(l, T).fail + Tally(l, U).fail
        BY <1>0, <3>1, TallyUnion
      <3> QED BY <3>2 DEF T, U
    <2> QED BY <1>3, <2>1
  <1>5. \A k : Marked(l, k, {r + 1}) = IF l[r + 1].kind = k THEN {r + 1} ELSE {}
    BY DEF Marked
  <1>6. Cardinality({r + 1}) = 1 /\ Cardinality({}) = 0
    BY FS_Singleton, FS_EmptySet
  <1>7. /\ Tally(l, {r + 1}).ok = IF l[r + 1].kind = "OK" THEN 1 ELSE 0
        /\ Tally(l, {r + 1}).fail = IF l[r + 1].kind = "OK" THEN 0 ELSE 1
    BY <1>0, <1>5, <1>6 DEF Tally
  <1>8. Cardinality(Marked(l, "OK", d..r)) \in Nat /\ Cardinality(Marked(l, "FAIL", d..r)) \in Nat
    BY <1>0, <1>3, MarkedFinite
  <1>9. t2 = Tally(l, d..(r + 1))
    <2>1. t = [ok |-> t.ok, fail |-> t.fail] /\ t.ok \in Nat /\ t.fail \in Nat
          /\ t.ok = Tally(l, d..r).ok /\ t.fail = Tally(l, d..r).fail
      BY <1>1, <1>8 DEF Tally
    <2>2. CASE l[r + 1].kind = "OK"
      <3>1. t2 = [ok |-> t.ok + 1, fail |-> t.fail]
        BY <2>1, <2>2
      <3>2. Tally(l, d..(r + 1)).ok = t.ok + 1 /\ Tally(l, d..(r + 1)).fail = t.fail
        BY <1>4, <1>7, <2>1, <2>2
      <3> QED BY <3>1, <3>2 DEF Tally
    <2>3. CASE l[r + 1].kind # "OK"
      <3>1. t2 = [ok |-> t.ok, fail |-> t.fail + 1]
        BY <2>1, <2>3
      <3>2. Tally(l, d..(r + 1)).ok = t.ok /\ Tally(l, d..(r + 1)).fail = t.fail + 1
        BY <1>4, <1>7, <2>1, <2>3
      <3> QED BY <3>1, <3>2 DEF Tally
    <2> QED BY <2>2, <2>3
  <1> QED BY <1>0, <1>1, <1>2, <1>9 DEF Read

LEMMA OneBody ==
  ASSUME NEW l, NEW k, NEW f, NEW g, Body(l, k, f), Body(l, k, g)
  PROVE  f = g
  <1>1. PICK d \in Decls(l) : LastDecl(l, d, k) /\ l[d].func = f
    BY DEF Body
  <1>2. PICK e \in Decls(l) : LastDecl(l, e, k) /\ l[e].func = g
    BY DEF Body
  <1> QED BY <1>1, <1>2, OneLastDecl

\* Nothing is added up at the end of the file.
LEMMA AddedNone ==
  ASSUME NEW l, Log(l), NEW c, NEW t, NEW m, Read(l, Len(l), c, t, m)
  PROVE  Added(l, m, DOMAIN m, Count!Zero)
  <1>1. PICK d \in Decls(l) : LastDecl(l, d, Len(l)) /\ Stored(l, d, m)
    BY DEF Read, Log
  <1>2. ASSUME NEW k \in 1..(d - 1) PROVE \E f \in DOMAIN m : Body(l, k, f)
    <2>1. k \in 1..Len(l) /\ k < d /\ k \in Nat /\ d \in Nat
      BY <1>1 DEF LastDecl, Decls, Log
    <2>2. PICK e \in Decls(l) : LastDecl(l, e, k)
      BY <2>1, HasDeclaration
    <2>3. e < d
      BY <2>1, <2>2 DEF LastDecl, Decls
    <2>4. l[e].func \in DOMAIN m
      BY <1>1, <2>2, <2>3 DEF Stored
    <2> QED BY <2>2, <2>4 DEF Body
  <1>3. {k \in 1..(d - 1) : \A f \in DOMAIN m : ~ Body(l, k, f)} = {}
    BY <1>2
  <1>4. Tally(l, {}) = Count!Zero
    <2>1. Marked(l, "OK", {}) = {} /\ Marked(l, "FAIL", {}) = {}
      BY DEF Marked
    <2> QED BY <2>1, FS_EmptySet DEF Tally, Count!Zero
  <1>5. AtMost(Count!Zero, Count!Zero)
    BY DEF AtMost, Count!Zero
  <1> QED BY <1>1, <1>3, <1>4, <1>5 DEF Added

\* Every function is added up once, whatever the order.
LEMMA AddedOne ==
  ASSUME NEW l, Log(l), NEW m, NEW F, NEW s, Added(l, m, F, s), NEW f \in F,
         NEW s2, s2 = [ok |-> s.ok + m[f].ok, fail |-> s.fail + m[f].fail]
  PROVE  Added(l, m, F \ {f}, s2)
  <1>1. PICK d \in Decls(l) :
          /\ LastDecl(l, d, Len(l)) /\ Stored(l, d, m) /\ F \subseteq DOMAIN m
          /\ AtMost(s, Tally(l, {k \in 1..(d - 1) : \A g \in F : ~ Body(l, k, g)}))
          /\ Distinct(l) => s = Tally(l, {k \in 1..(d - 1) : \A g \in F : ~ Body(l, k, g)})
    BY DEF Added
  <1> DEFINE T == {k \in 1..(d - 1) : \A g \in F : ~ Body(l, k, g)}
             U == {k \in 1..(d - 1) : Body(l, k, f)}
             V == {k \in 1..(d - 1) : \A g \in F \ {f} : ~ Body(l, k, g)}
  <1>2. V = T \cup U /\ T \cap U = {}
    BY OneBody
  <1>3. Len(l) \in Nat /\ T \in SUBSET (1..Len(l)) /\ U \in SUBSET (1..Len(l))
    BY <1>1 DEF LastDecl, Decls, Log
  <1>4. Distinct(l) => s = Tally(l, T) /\ m[f] = Tally(l, U)
    BY <1>1 DEF Stored
  <1>41. AtMost(s, Tally(l, T)) /\ AtMost(m[f], Tally(l, U))
    BY <1>1 DEF Stored
  <1> HIDE DEF T, U, V
  <1>5. /\ Tally(l, T \cup U).ok = Tally(l, T).ok + Tally(l, U).ok
        /\ Tally(l, T \cup U).fail = Tally(l, T).fail + Tally(l, U).fail
    BY <1>2, <1>3, TallyUnion
  <1>6. Distinct(l) => s2 = [ok |-> Tally(l, V).ok, fail |-> Tally(l, V).fail]
    BY <1>2, <1>4, <1>5
  <1>7. Distinct(l) => s2 = Tally(l, V)
    BY <1>6 DEF Tally
  <1>8. AtMost(s2, Tally(l, V))
    <2>1. /\ Tally(l, T).ok \in Nat /\ Tally(l, T).fail \in Nat
          /\ Tally(l, U).ok \in Nat /\ Tally(l, U).fail \in Nat
      BY <1>3, TallyNat
    <2>2. s2.ok = s.ok + m[f].ok /\ s2.fail = s.fail + m[f].fail
      OBVIOUS
    <2>3. /\ Tally(l, V).ok = Tally(l, T).ok + Tally(l, U).ok
          /\ Tally(l, V).fail = Tally(l, T).fail + Tally(l, U).fail
      BY <1>2, <1>5
    <2> QED BY <1>41, <2>1, <2>2, <2>3 DEF AtMost
  <1> QED BY <1>1, <1>7, <1>8 DEF Added, V

\* Nothing is counted that is no line of the file.
LEMMA AddedAtMost ==
  ASSUME NEW l, Log(l), NEW m, NEW s, Added(l, m, {}, s)
  PROVE  AtMost(s, Tally(l, 1..Len(l)))
  <1>1. PICK e \in Decls(l) :
          AtMost(s, Tally(l, {k \in 1..(e - 1) : \A f \in {} : ~ Body(l, k, f)}))
    BY DEF Added
  <1>2. {k \in 1..(e - 1) : \A f \in {} : ~ Body(l, k, f)} = 1..(e - 1)
    OBVIOUS
  <1>3. Len(l) \in Nat /\ 1..(e - 1) \in SUBSET (1..Len(l))
        /\ 1..Len(l) \in SUBSET (1..Len(l))
    BY DEF Log, Decls
  <1> DEFINE T == 1..(e - 1)
             U == 1..Len(l)
  <1>4. AtMost(s, Tally(l, T))
    BY <1>1, <1>2
  <1>5. T \in SUBSET U /\ U \in SUBSET (1..Len(l))
    BY <1>3
  <1> HIDE DEF T, U
  <1>6. AtMost(Tally(l, T), Tally(l, U)) /\ Tally(l, U).ok \in Nat /\ Tally(l, U).fail \in Nat
    BY <1>3, <1>5, TallyMonotone, TallyNat
  <1>7. AtMost(s, Tally(l, U))
    BY <1>4, <1>6 DEF AtMost
  <1> QED BY <1>7 DEF U

\* With all of them added up and names that differ, the totals are those of
\* the lines before the last declaration.
LEMMA AddedAll ==
  ASSUME NEW l, Log(l), NEW m, NEW s, Added(l, m, {}, s), Distinct(l),
         NEW d \in Decls(l), \A e \in Decls(l) : e <= d
  PROVE  /\ s.ok = Cardinality({k \in 1..d : l[k].kind = "OK"})
         /\ s.fail = Cardinality({k \in 1..d : l[k].kind = "FAIL"})
  <1>1. PICK e \in Decls(l) :
          /\ LastDecl(l, e, Len(l))
          /\ s = Tally(l, {k \in 1..(e - 1) : \A f \in {} : ~ Body(l, k, f)})
    BY DEF Added
  <1>2. e = d
    BY <1>1 DEF LastDecl, Decls, Log
  <1>3. {k \in 1..(e - 1) : \A f \in {} : ~ Body(l, k, f)} = 1..(d - 1)
    BY <1>2
  <1>4. s = Tally(l, 1..(d - 1))
    BY <1>1, <1>3
  <1>5. d \in Nat /\ l[d].kind = "declare" /\ 1..d = (1..(d - 1)) \cup {d}
    BY DEF Decls
  <1>6. ASSUME NEW kind \in {"OK", "FAIL"}
        PROVE  Marked(l, kind, 1..(d - 1)) = {k \in 1..d : l[k].kind = kind}
    BY <1>5 DEF Marked
  <1> QED BY <1>4, <1>6 DEF Tally

-----------------------------------------------------------------------------
(* The invariant of the count.                                             *)

\* the totals s: no more than the results of l, and if names differ, those up
\* to the last declaration
Totals(l, s) ==
  /\ AtMost(s, Tally(l, 1..Len(l)))
  /\ Distinct(l) => \A d \in Decls(l) : (\A e \in Decls(l) : e <= d) =>
       /\ s.ok = Cardinality({k \in 1..d : l[k].kind = "OK"})
       /\ s.fail = Cardinality({k \in 1..d : l[k].kind = "FAIL"})

CountInv ==
  /\ counting \in {"read", "total", "done"}
  /\ counting = "read" => Log(log) /\ Read(log, row, curr_func, curr, funmap)
                          /\ (row = 0 => curr = Count!Zero) /\ totals = Count!Zero
  /\ counting = "total" => Log(log) /\ Added(log, funmap, todo, totals)
  /\ counting = "done" => Totals(log, totals) /\ warnings = totals.fail

LEMMA CountInit == VerdictInit => CountInv
  <1> SUFFICES ASSUME VerdictInit PROVE CountInv
    OBVIOUS
  <1>1. CASE Count!Init
    <2>1. PICK k \in 1..MaxLines : log \in [1..k -> Count!Lines] /\ log[1].kind = "declare"
      BY <1>1 DEF Count!Init
    <2>2. Len(log) = k /\ k \in Nat \ {0}
      BY <2>1, LinesAssumption DEF Count!LinesAssumption
    <2>3. \A x \in Count!Lines : /\ x.kind \in {"declare", "OK", "FAIL"}
                                 /\ x.kind = "declare" => x.func # Count!NoFunction
      BY LinesAssumption DEF Count!LinesAssumption, Count!Lines
    <2>4. Log(log)
      BY <2>1, <2>2, <2>3 DEF Log
    <2>5. /\ counting = "read" /\ row = 0 /\ curr_func = Count!NoFunction
          /\ curr = Count!Zero /\ funmap = <<>> /\ totals = Count!Zero
      BY <1>1 DEF Count!Init
    <2>6. DOMAIN funmap = {}
      BY <2>5
    <2>7. Read(log, row, curr_func, curr, funmap)
      BY <2>4, <2>5, <2>6 DEF Read, Log
    <2> QED BY <2>4, <2>5, <2>7 DEF CountInv
  <1>2. CASE CountRests
    <2>1. Decls(log) = {}
      BY <1>2 DEF CountRests, Decls
    <2>2. /\ totals = Count!Zero /\ warnings = 0 /\ counting = "done"
          /\ log = <<[kind |-> "OK"]>> /\ Len(log) = 1
      BY <1>2 DEF CountRests
    <2>3. Tally(log, 1..Len(log)).ok \in Nat /\ Tally(log, 1..Len(log)).fail \in Nat
      <3>1. \A T \in SUBSET (1..1) : Tally(log, T).ok \in Nat /\ Tally(log, T).fail \in Nat
        BY TallyNat
      <3> QED BY <2>2, <3>1
    <2>4. AtMost(totals, Tally(log, 1..Len(log)))
      BY <2>2, <2>3 DEF AtMost, Count!Zero
    <2>5. Totals(log, totals)
      BY <2>1, <2>4 DEF Totals
    <2> QED BY <2>2, <2>5 DEF CountInv, Count!Zero
  <1> QED BY <1>1, <1>2 DEF VerdictInit

LEMMA CountUnchanged ==
  ASSUME CountInv, UNCHANGED countVars
  PROVE  CountInv'
  BY DEF CountInv, countVars

LEMMA CountStep == CountInv /\ [VerdictNext]_<<vars, countVars>> => CountInv'
  <1> SUFFICES ASSUME CountInv, [VerdictNext]_<<vars, countVars>> PROVE CountInv'
    OBVIOUS
  <1>1. CASE Count!Declare
    <2>1. PICK l : l = log
      OBVIOUS
    <2>2. /\ counting = "read" /\ row < Len(l) /\ l[row + 1].kind = "declare"
          /\ curr_func' = l[row + 1].func /\ row' = row + 1 /\ log' = l
          /\ totals' = totals /\ counting' = "read"
      BY <1>1, <2>1 DEF Count!Declare, Count!Reading, Count!Line
    <2>3. Log(l) /\ Read(l, row, curr_func, curr, funmap) /\ totals = Count!Zero
          /\ (row = 0 => curr = Count!Zero) /\ row \in 0..Len(l)
      BY <2>1, <2>2 DEF CountInv, Read
    <2>4. CASE row = 0
      <3>1. curr_func = Count!NoFunction /\ DOMAIN funmap = {} /\ curr = Count!Zero
        BY <2>3, <2>4 DEF Read
      <3>2. funmap' = funmap /\ curr' = curr
        BY <1>1, <3>1 DEF Count!Declare
      <3>3. row' = 1 /\ curr_func' = l[1].func
        BY <2>2, <2>4
      <3>4. Read(l, 1, l[1].func, curr, funmap)
        BY <2>3, <3>1, ReadFirst
      <3> QED BY <2>2, <2>3, <3>2, <3>3, <3>4 DEF CountInv
    <2>5. CASE row # 0
      <3>1. row > 0 /\ row' # 0
        BY <2>2, <2>3, <2>5 DEF Log
      <3>2. curr_func # Count!NoFunction
        BY <2>3, <3>1 DEF Read, Decls, Log
      <3>3. /\ funmap' = [f \in DOMAIN funmap \cup {curr_func} |->
                            IF f = curr_func THEN curr ELSE funmap[f]]
            /\ curr' = Count!Zero
        BY <1>1, <3>2 DEF Count!Declare
      <3>4. PICK w : w = [f \in DOMAIN funmap \cup {curr_func} |->
                            IF f = curr_func THEN curr ELSE funmap[f]]
        OBVIOUS
      <3>5. Read(l, row + 1, l[row + 1].func, Count!Zero, w)
        BY <2>2, <2>3, <3>1, <3>4, ReadDeclaration
      <3>6. funmap' = w
        BY <3>3, <3>4
      <3> QED BY <2>2, <2>3, <3>1, <3>3, <3>5, <3>6 DEF CountInv
    <2> QED BY <2>4, <2>5
  <1>2. CASE Count!CountResult
    <2>1. PICK l : l = log
      OBVIOUS
    <2>2. /\ counting = "read" /\ row < Len(l) /\ l[row + 1].kind # "declare"
          /\ row' = row + 1 /\ log' = l /\ curr_func' = curr_func /\ funmap' = funmap
          /\ curr' = (IF l[row + 1].kind = "OK" THEN [curr EXCEPT !.ok = @ + 1]
                                               ELSE [curr EXCEPT !.fail = @ + 1])
          /\ totals' = totals /\ counting' = "read"
      BY <1>2, <2>1 DEF Count!CountResult, Count!Reading, Count!Line
    <2>3. Log(l) /\ Read(l, row, curr_func, curr, funmap) /\ totals = Count!Zero
          /\ row \in 0..Len(l)
      BY <2>1, <2>2 DEF CountInv, Read
    <2>4. PICK t2 : t2 = IF l[row + 1].kind = "OK" THEN [curr EXCEPT !.ok = @ + 1]
                                                   ELSE [curr EXCEPT !.fail = @ + 1]
      OBVIOUS
    <2>5. Read(l, row + 1, curr_func, t2, funmap)
      BY <2>2, <2>3, <2>4, ReadResult
    <2>6. curr' = t2 /\ row' # 0
      BY <2>2, <2>3, <2>4
    <2> QED BY <2>2, <2>3, <2>5, <2>6 DEF CountInv
  <1>3. CASE Count!EndOfFile
    <2>1. /\ counting = "read" /\ row = Len(log) /\ counting' = "total"
          /\ todo' = DOMAIN funmap /\ UNCHANGED <<log, funmap, totals>>
      BY <1>3 DEF Count!EndOfFile
    <2>2. Log(log) /\ Read(log, Len(log), curr_func, curr, funmap) /\ totals = Count!Zero
      BY <2>1 DEF CountInv
    <2>3. Added(log, funmap, DOMAIN funmap, totals)
      BY <2>2, AddedNone
    <2> QED BY <2>1, <2>2, <2>3 DEF CountInv
  <1>4. CASE Count!AddUp
    <2>1. PICK f \in todo :
            /\ totals' = [ok |-> totals.ok + funmap[f].ok, fail |-> totals.fail + funmap[f].fail]
            /\ todo' = todo \ {f}
      BY <1>4 DEF Count!AddUp
    <2>2. counting = "total" /\ counting' = "total" /\ UNCHANGED <<log, funmap>>
      BY <1>4 DEF Count!AddUp
    <2>3. Log(log) /\ Added(log, funmap, todo, totals)
      BY <2>2 DEF CountInv
    <2>4. PICK s2 : s2 = [ok |-> totals.ok + funmap[f].ok, fail |-> totals.fail + funmap[f].fail]
      OBVIOUS
    <2>5. Added(log, funmap, todo \ {f}, s2)
      BY <2>3, <2>4, AddedOne
    <2> QED BY <2>1, <2>2, <2>3, <2>4, <2>5 DEF CountInv
  <1>5. CASE Count!FindWarnings
    <2>1. PICK l : l = log
      OBVIOUS
    <2>2. /\ counting = "total" /\ todo = {} /\ warnings' = totals.fail /\ counting' = "done"
          /\ log' = l /\ totals' = totals
      BY <1>5, <2>1 DEF Count!FindWarnings
    <2>3. Log(l) /\ Added(l, funmap, {}, totals)
      BY <2>1, <2>2 DEF CountInv
    <2>4. Totals(l, totals)
      BY <2>3, AddedAll, AddedAtMost DEF Totals
    <2> QED BY <2>2, <2>4 DEF CountInv
  <1>6. CASE UNCHANGED countVars
    BY <1>6, CountUnchanged
  <1>7. CASE Count!Stopped
    BY <1>7, CountUnchanged DEF Count!Stopped, Count!vars, countVars
  <1> QED BY <1>1, <1>2, <1>3, <1>4, <1>5, <1>6, <1>7
      DEF VerdictNext, Count!Next, vars, countVars

\* AssertionCount counts with the same cardinality.
LEMMA SameCardinality == \A S : Count!Cardinality(S) = Cardinality(S)
  BY DEF Count!Cardinality, Cardinality

\* For every .crabir file, find_warnings (process_clam.py) counts no result
\* twice, and none too few of a function that a later declaration closes if
\* names differ, whatever the order in which processLog adds the functions up.
THEOREM ClosedFunctionsAreCounted == VerdictSpec => []ClosedFunctionsCounted
  <1>1. ASSUME CountInv PROVE ClosedFunctionsCounted
    <2> SUFFICES ASSUME counting = "done"
                 PROVE  /\ warnings <= Count!Results("FAIL", 1, Len(log))
                        /\ totals.ok <= Count!Results("OK", 1, Len(log))
                        /\ Count!DistinctNames => \A last \in Count!Declarations :
                             (\A k \in Count!Declarations : k <= last) =>
                               /\ warnings >= Count!Results("FAIL", 1, last)
                               /\ totals.ok >= Count!Results("OK", 1, last)
      BY DEF ClosedFunctionsCounted, Count!ClosedFunctionsCounted
    <2>1. Count!Declarations = Decls(log)
      BY DEF Count!Declarations, Decls
    <2>2. Count!DistinctNames => Distinct(log)
      BY <2>1 DEF Count!DistinctNames, Distinct
    <2>3. Totals(log, totals) /\ warnings = totals.fail
      BY <1>1 DEF CountInv
    <2>4. totals.ok \in Nat /\ totals.fail \in Nat
          /\ totals.ok <= Cardinality({k \in 1..Len(log) : log[k].kind = "OK"})
          /\ totals.fail <= Cardinality({k \in 1..Len(log) : log[k].kind = "FAIL"})
      BY <2>3 DEF Totals, AtMost, Tally, Marked
    <2>5. /\ warnings <= Count!Results("FAIL", 1, Len(log))
          /\ totals.ok <= Count!Results("OK", 1, Len(log))
      BY <2>3, <2>4, SameCardinality DEF Count!Results
    <2>6. ASSUME Count!DistinctNames, NEW last \in Count!Declarations,
                 \A k \in Count!Declarations : k <= last
          PROVE  /\ warnings >= Count!Results("FAIL", 1, last)
                 /\ totals.ok >= Count!Results("OK", 1, last)
      <3>1. /\ totals.ok = Cardinality({k \in 1..last : log[k].kind = "OK"})
            /\ totals.fail = Cardinality({k \in 1..last : log[k].kind = "FAIL"})
        BY <2>1, <2>2, <2>3, <2>6 DEF Totals
      <3>2. totals.ok = Count!Results("OK", 1, last) /\ warnings = Count!Results("FAIL", 1, last)
        BY <2>3, <3>1, SameCardinality DEF Count!Results
      <3> QED BY <2>3, <2>4, <3>2
    <2> QED BY <2>5, <2>6
  <1> QED BY <1>1, CountInit, CountStep, PTL DEF VerdictSpec
=============================================================================
