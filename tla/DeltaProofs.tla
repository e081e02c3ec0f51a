----------------------------- MODULE DeltaProofs -----------------------------
(***************************************************************************)
(* Theorems about DeltaDebug, for every list of bug folders, every file    *)
(* and whatever clam finds in the files that are tested.                   *)
(***************************************************************************)
EXTENDS DeltaDebug, NatSets, SequenceTheorems

-----------------------------------------------------------------------------
(* The inductive invariant.                                                *)

Types == /\ fails \in Oracles
         /\ bug \in 1..Len(Order)
         /\ assumptions \in Seq(STRING) /\ inp \in Seq(STRING)
         /\ n \in Nat \ {0} /\ start \in Nat
         /\ pc \in {"init", "outer", "inner", "finish", "done"}

\* what ddmin holds fails, and so does the file left in the end
Failing == /\ pc \in {"outer", "inner", "finish", "done"} => Fail(inp)
           /\ pc = "done" => minimized = addSpecificAssumptions(inp)

\* at the finest granularity, the complements before start have passed
Passed(k) == ~ Fail(RemoveAt(inp, k))
Tested == /\ pc = "inner" => Len(inp) >= 2
          /\ pc = "inner" /\ n = Len(inp) =>
               \A k \in 1..Len(inp) : k <= start => Passed(k)
          /\ pc \in {"finish", "done"} /\ Len(inp) >= 2 =>
               \A k \in 1..Len(inp) : Passed(k)

IInv == Types /\ Failing /\ Tested

-----------------------------------------------------------------------------
(* What is written to minimized.ll.                                        *)

LEMMA ProgramType ==
  ASSUME Types
  PROVE  /\ Program \in Programs /\ Texts \in Seq(STRING)
         /\ 1..Len(Texts) \in fails[Program]
  <1>1. Order \in Seq(Programs) /\ bug \in 1..Len(Order)
    BY ProgramsAssumption DEF Types
  <1>2. Program \in Programs
    BY <1>1, ElementOfSeq DEF Program
  <1> QED BY <1>2, ProgramsAssumption, OraclesAssumption DEF Texts, Types

LEMMA FailSame ==
  ASSUME bug' = bug, fails' = fails, NEW list
  PROVE  Fail(list)' <=> Fail(list)
  <1>1. Texts' = Texts /\ Program' = Program
    BY DEF Texts, Program
  <1>2. Unwanted(list)' = Unwanted(list)
    BY <1>1 DEF Unwanted, IsAssumption
  <1>3. \A u : Walk(u)' = Walk(u)
    BY <1>1 DEF Walk, Without, FirstEqual
  <1>4. AllLines' = AllLines
    BY <1>1 DEF AllLines
  <1>5. addSpecificAssumptions(list)' = addSpecificAssumptions(list)
    BY <1>1, <1>2, <1>3, <1>4 DEF addSpecificAssumptions
  <1> QED BY <1>1, <1>5 DEF Fail

LEMMA FailNext ==
  ASSUME bug' = bug, fails' = fails, NEW list, inp' = list
  PROVE  /\ Fail(inp)' <=> Fail(list)
         /\ addSpecificAssumptions(inp)' = addSpecificAssumptions(list)
         /\ \A k : Passed(k)' <=> ~ Fail(RemoveAt(list, k))
  <1>1. Texts' = Texts /\ Program' = Program
    BY DEF Texts, Program
  <1>2. \A l : Unwanted(l)' = Unwanted(l)
    BY <1>1 DEF Unwanted, IsAssumption
  <1>3. \A u : Walk(u)' = Walk(u)
    BY <1>1 DEF Walk, Without, FirstEqual
  <1>4. AllLines' = AllLines
    BY <1>1 DEF AllLines
  <1>5. \A l : addSpecificAssumptions(l)' = addSpecificAssumptions(l)
    BY <1>1, <1>2, <1>3, <1>4 DEF addSpecificAssumptions
  <1>6. \A l : Fail(l)' <=> Fail(l)
    BY <1>1, <1>5 DEF Fail
  <1> QED BY <1>5, <1>6 DEF Passed

LEMMA AppendRange ==
  ASSUME NEW T, NEW l \in Seq(T), NEW e \in T
  PROVE  Range(l) \subseteq Range(Append(l, e)) /\ e \in Range(Append(l, e))
  <1> DEFINE a == Append(l, e)
  <1>1. /\ a \in Seq(T) /\ Len(a) = Len(l) + 1 /\ a[Len(l) + 1] = e
        /\ \A i \in 1..Len(l) : a[i] = l[i]
    BY AppendProperties
  <1>2. Len(l) \in Nat /\ DOMAIN l = 1..Len(l) /\ DOMAIN a = 1..(Len(l) + 1)
    BY <1>1
  <1> HIDE DEF a
  <1> QED BY <1>1, <1>2 DEF Range

\* If no line is unwanted, the whole file is written.
LEMMA WalkAll ==
  ASSUME Types
  PROVE  Range(Walk({})[<<AllLines, 1>>]) = 1..Len(Texts)
  <1> DEFINE D == Seq(1..Len(Texts)) \X Nat
             Eq(w) == w = [s \in D |-> IF s[2] > Len(s[1]) THEN s[1]
                                       ELSE w[<<Without(s[1], s[2], {}), s[2] + 1>>]]
             w0 == [s \in D |-> s[1]]
             W == Walk({})
             S == {d \in Nat : d <= Len(Texts) => W[<<AllLines, Len(Texts) + 1 - d>>] = AllLines}
  <1>0. Len(Texts) \in Nat
    BY ProgramType
  <1>1. \A s \in D : Without(s[1], s[2], {}) = s[1] /\ <<s[1], s[2] + 1>> \in D
                     /\ s[1] \in Seq(1..Len(Texts)) /\ s[2] \in Nat
    BY DEF Without
  <1>2. Eq(w0)
    <2>1. \A s \in D : w0[<<Without(s[1], s[2], {}), s[2] + 1>>] = s[1]
      BY <1>1
    <2> QED BY <2>1
  <1>3. W = CHOOSE w : Eq(w)
    BY DEF Walk
  <1> HIDE DEF Eq, w0, W
  <1>4. Eq(W)
    BY <1>2, <1>3, Zenon
  <1>5. AllLines \in Seq(1..Len(Texts)) /\ Len(AllLines) = Len(Texts)
    BY <1>0 DEF AllLines
  <1>6. ASSUME NEW at \in Nat
        PROVE  W[<<AllLines, at>>] = IF at > Len(Texts) THEN AllLines
                                                      ELSE W[<<AllLines, at + 1>>]
    <2> DEFINE s == <<AllLines, at>>
    <2>1. s \in D /\ s[1] = AllLines /\ s[2] = at
      BY <1>5
    <2>2. W[s] = IF s[2] > Len(s[1]) THEN s[1]
                 ELSE W[<<Without(s[1], s[2], {}), s[2] + 1>>]
      BY <1>4, <2>1, Zenon DEF Eq
    <2>3. Without(s[1], s[2], {}) = AllLines
      BY <1>1, <2>1
    <2> QED BY <1>5, <2>1, <2>2, <2>3
  <1>7. 0 \in S
    <2>1. Len(Texts) + 1 - 0 \in Nat /\ Len(Texts) + 1 - 0 > Len(Texts)
      BY <1>0
    <2>2. W[<<AllLines, Len(Texts) + 1 - 0>>] = AllLines
      BY <1>6, <2>1, Zenon
    <2> QED BY <2>2
  <1>8. ASSUME NEW d \in Nat, d \in S PROVE d + 1 \in S
    <2>1. d + 1 \in Nat
      OBVIOUS
    <2>2. ASSUME d + 1 <= Len(Texts)
          PROVE  W[<<AllLines, Len(Texts) + 1 - (d + 1)>>] = AllLines
      <3>1. PICK at : at = Len(Texts) - d
        OBVIOUS
      <3>2. at \in Nat /\ ~ (at > Len(Texts)) /\ at + 1 = Len(Texts) + 1 - d
            /\ Len(Texts) + 1 - (d + 1) = at
        BY <1>0, <2>2, <3>1
      <3>3. W[<<AllLines, Len(Texts) + 1 - d>>] = AllLines
        BY <1>0, <1>8, <2>2
      <3>4. W[<<AllLines, at>>] = W[<<AllLines, at + 1>>]
        BY <1>6, <3>2
      <3> QED BY <3>2, <3>3, <3>4
    <2> QED BY <2>1, <2>2
  <1>9. \A d \in Nat : d \in S
    <2> HIDE DEF S
    <2> QED BY <1>7, <1>8, SetInduction
  <1>10. W[<<AllLines, 1>>] = AllLines
    <2>1. Len(Texts) \in S
      BY <1>0, <1>9
    <2>2. Len(Texts) + 1 - Len(Texts) = 1
      BY <1>0
    <2> QED BY <1>0, <2>1, <2>2
  <1>11. Range(AllLines) = 1..Len(Texts)
    BY DEF AllLines, Range
  <1> QED BY <1>10, <1>11 DEF W

\* find_assumptions keeps the list of the class and adds every assumption of
\* the file.
LEMMA WithAssumptionsHas ==
  ASSUME Types
  PROVE  /\ WithAssumptions \in Seq(STRING)
         /\ \A m \in 1..Len(Texts) : IsAssumption(m) => Texts[m] \in Range(WithAssumptions)
  <1> DEFINE L == Len(Texts)
             G == [x \in Nat \X Seq(STRING) |->
                     IF x[1] \in 1..L /\ IsAssumption(x[1]) THEN Append(x[2], Texts[x[1]])
                                                            ELSE x[2]]
             Eq(w) == w = [k \in Nat |->
                             IF k = 0 THEN assumptions
                             ELSE IF k <= L /\ IsAssumption(k) THEN Append(w[k - 1], Texts[k])
                             ELSE w[k - 1]]
             F == CHOOSE w : Eq(w)
             S == {k \in Nat : /\ F[k] \in Seq(STRING)
                               /\ \A m \in 1..L : m <= k /\ IsAssumption(m) => Texts[m] \in Range(F[k])}
  <1>0. L \in Nat /\ \A m \in 1..L : Texts[m] \in STRING
    BY ProgramType
  <1>1. G \in [Nat \X Seq(STRING) -> Seq(STRING)]
    <2>1. ASSUME NEW x \in Nat \X Seq(STRING)
          PROVE  (IF x[1] \in 1..L /\ IsAssumption(x[1]) THEN Append(x[2], Texts[x[1]])
                                                         ELSE x[2]) \in Seq(STRING)
      BY <1>0, AppendProperties
    <2> QED BY <2>1
  <1>2. assumptions \in Seq(STRING)
    BY DEF Types
  <1>3. PICK w : DefinedBy(w, Seq(STRING), assumptions, G)
    <2> HIDE DEF G, Eq, F, S, L
    <2> QED BY <1>1, <1>2, Recursion
  <1>4. Eq(w)
    <2>1. ASSUME NEW k \in Nat, k # 0
          PROVE  w[k] = IF k <= L /\ IsAssumption(k) THEN Append(w[k - 1], Texts[k]) ELSE w[k - 1]
      <3>1. k - 1 \in Nat /\ (k - 1) + 1 = k
        BY <2>1
      <3>2. w[k] = G[<<k, w[k - 1]>>]
        BY <1>3, <3>1 DEF DefinedBy
      <3>3. k \in 1..L <=> k <= L
        BY <1>0, <2>1
      <3>4. w[k - 1] \in Seq(STRING)
        BY <1>3, <3>1 DEF DefinedBy
      <3> QED BY <2>1, <3>2, <3>3, <3>4
    <2>2. w = [k \in Nat |-> w[k]] /\ w[0] = assumptions
      BY <1>3 DEF DefinedBy
    <2> QED BY <2>1, <2>2
  <1>5. WithAssumptions = F[L]
    BY DEF WithAssumptions
  <1> HIDE DEF Eq
  <1>6. Eq(F)
    BY <1>4, Zenon
  <1> HIDE DEF F
  <1>7. /\ F[0] = assumptions
        /\ \A k \in Nat : F[k + 1] = IF k + 1 <= L /\ IsAssumption(k + 1)
                                       THEN Append(F[k], Texts[k + 1]) ELSE F[k]
    <2>1. F[0] = assumptions
      BY <1>6 DEF Eq
    <2>2. ASSUME NEW k \in Nat
          PROVE  F[k + 1] = IF k + 1 <= L /\ IsAssumption(k + 1)
                              THEN Append(F[k], Texts[k + 1]) ELSE F[k]
      <3>1. k + 1 \in Nat /\ k + 1 # 0 /\ (k + 1) - 1 = k
        OBVIOUS
      <3>2. F[k + 1] = IF k + 1 = 0 THEN assumptions
                       ELSE IF k + 1 <= L /\ IsAssumption(k + 1)
                              THEN Append(F[(k + 1) - 1], Texts[k + 1])
                       ELSE F[(k + 1) - 1]
        BY <1>6, <3>1, Zenon DEF Eq
      <3> QED BY <3>1, <3>2
    <2> QED BY <2>1, <2>2
  <1>8. 0 \in S
    <2>1. \A m \in 1..L : ~ (m <= 0)
      BY <1>0
    <2> QED BY <1>2, <1>7, <2>1
  <1>9. ASSUME NEW k \in Nat, k \in S PROVE k + 1 \in S
    <2>1. F[k] \in Seq(STRING)
          /\ \A m \in 1..L : m <= k /\ IsAssumption(m) => Texts[m] \in Range(F[k])
      BY <1>9
    <2>2. CASE k + 1 <= L /\ IsAssumption(k + 1)
      <3>1. F[k + 1] = Append(F[k], Texts[k + 1])
        BY <1>7, <2>2, Zenon
      <3>5. k + 1 \in 1..L
        BY <1>0, <2>2
      <3>6. Texts[k + 1] \in STRING
        BY <1>0, <3>5, Zenon
      <3>2. F[k + 1] \in Seq(STRING)
        BY <2>1, <3>1, <3>6, AppendProperties
      <3>3. Range(F[k]) \subseteq Range(F[k + 1]) /\ Texts[k + 1] \in Range(F[k + 1])
        BY <2>1, <3>1, <3>6, AppendRange
      <3>4. ASSUME NEW m \in 1..L, m <= k + 1, IsAssumption(m)
            PROVE  Texts[m] \in Range(F[k + 1])
        <4>1. CASE m <= k
          BY <2>1, <3>3, <3>4, <4>1
        <4>2. CASE m = k + 1
          BY <3>3, <4>2
        <4> QED BY <1>0, <3>4, <4>1, <4>2
      <3> QED BY <3>2, <3>4
    <2>3. CASE ~ (k + 1 <= L /\ IsAssumption(k + 1))
      <3>1. F[k + 1] = F[k]
        BY <1>7, <2>3
      <3>2. ASSUME NEW m \in 1..L, m <= k + 1, IsAssumption(m) PROVE m <= k
        <4>1. m <= L /\ (m = k + 1 \/ m <= k)
          BY <1>0, <3>2
        <4> QED BY <2>3, <3>2, <4>1, Zenon
      <3> QED BY <2>1, <3>1, <3>2
    <2> QED BY <2>2, <2>3
  <1>10. \A k \in Nat : k \in S
    <2> HIDE DEF S
    <2> QED BY <1>8, <1>9, SetInduction
  <1>11. L \in S
    BY <1>0, <1>10
  <1> HIDE DEF L
  <1>12. /\ F[L] \in Seq(STRING)
         /\ \A m \in 1..L : IsAssumption(m) => Texts[m] \in Range(F[L])
    BY <1>0, <1>11
  <1> QED BY <1>5, <1>12 DEF L

\* A list that keeps every assumption of the file writes the whole file.
LEMMA AllKept ==
  ASSUME Types, NEW list,
         \A m \in 1..Len(Texts) : IsAssumption(m) => Texts[m] \in Range(list)
  PROVE  Fail(list)
  <1>1. Unwanted(list) = {}
    BY DEF Unwanted
  <1>2. addSpecificAssumptions(list) = 1..Len(Texts)
    BY <1>1, WalkAll DEF addSpecificAssumptions
  <1> QED BY <1>2, ProgramType DEF Fail

-----------------------------------------------------------------------------
(* The complements that are tested.                                        *)

LEMMA DivType ==
  ASSUME NEW m \in Nat, NEW k \in Nat \ {0}
  PROVE  m \div k \in Nat
  OBVIOUS

LEMMA DivSelf ==
  ASSUME NEW m \in Nat \ {0}
  PROVE  m \div m = 1
  OBVIOUS

LEMMA RemoveAtProperties ==
  ASSUME NEW T, NEW s \in Seq(T), NEW k \in 1..Len(s)
  PROVE  /\ DOMAIN RemoveAt(s, k) = 1..(Len(s) - 1)
         /\ \A i \in 1..(Len(s) - 1) :
              RemoveAt(s, k)[i] = s[IF i < k THEN i ELSE i + 1]
  <1> DEFINE front == SubSeq(s, 1, k - 1)
             back == SubSeq(s, k + 1, Len(s))
  <1>0. Len(s) \in Nat /\ k \in Nat
    OBVIOUS
  <1>1. front \in Seq(T) /\ Len(front) = k - 1 /\ \A i \in 1..(k - 1) : front[i] = s[i]
    OBVIOUS
  <1>2. back \in Seq(T) /\ Len(back) = Len(s) - k
        /\ \A i \in 1..(Len(s) - k) : back[i] = s[k + i]
    BY <1>0
  <1> HIDE DEF front, back
  <1> DEFINE both == front \o back
  <1>3. /\ both \in Seq(T) /\ Len(both) = Len(front) + Len(back)
        /\ \A i \in 1..(Len(front) + Len(back)) :
             both[i] = IF i <= Len(front) THEN front[i] ELSE back[i - Len(front)]
    BY <1>1, <1>2, ConcatProperties
  <1> HIDE DEF both
  <1>4. Len(front) + Len(back) = Len(s) - 1
    BY <1>0, <1>1, <1>2
  <1>5. DOMAIN both = 1..(Len(s) - 1)
    BY <1>3, <1>4
  <1>6. ASSUME NEW i \in 1..(Len(s) - 1)
        PROVE  both[i] = s[IF i < k THEN i ELSE i + 1]
    <2>1. both[i] = IF i <= Len(front) THEN front[i] ELSE back[i - Len(front)]
      BY <1>3, <1>4
    <2>2. CASE i < k
      BY <1>0, <1>1, <2>1, <2>2
    <2>3. CASE ~ (i < k)
      <3>1. i - (k - 1) \in 1..(Len(s) - k) /\ k + (i - (k - 1)) = i + 1 /\ ~ (i <= k - 1)
        BY <1>0, <2>3
      <3> QED BY <1>1, <1>2, <2>1, <2>3, <3>1
    <2> QED BY <2>2, <2>3
  <1> QED BY <1>5, <1>6 DEF RemoveAt, front, back, both

\* A complement is a list of assumptions, and at the finest granularity it is
\* the list without one of them.
LEMMA ComplementProperties ==
  ASSUME Types, start < Len(inp)
  PROVE  /\ Complement \in Seq(STRING)
         /\ SubsetLength \in Nat
         /\ n = Len(inp) => SubsetLength = 1 /\ Complement = RemoveAt(inp, start + 1)
  <1>1. inp \in Seq(STRING) /\ Len(inp) \in Nat /\ n \in Nat \ {0} /\ start \in Nat
    BY DEF Types
  <1>2. SubsetLength \in Nat
    BY <1>1, DivType DEF SubsetLength
  <1>3. SubSeq(inp, 1, start) \in Seq(STRING)
    BY <1>1
  <1>4. SubSeq(inp, start + SubsetLength + 1, Len(inp)) \in Seq(STRING)
    BY <1>1, <1>2
  <1>5. Complement \in Seq(STRING)
    BY <1>3, <1>4 DEF Complement
  <1>6. ASSUME n = Len(inp)
        PROVE  SubsetLength = 1 /\ Complement = RemoveAt(inp, start + 1)
    <2>1. SubsetLength = 1
      BY <1>1, <1>6, DivSelf DEF SubsetLength
    <2>2. start + SubsetLength + 1 = (start + 1) + 1 /\ (start + 1) - 1 = start
      BY <1>1, <2>1
    <2> QED BY <2>1, <2>2 DEF Complement, RemoveAt
  <1> QED BY <1>2, <1>5, <1>6

-----------------------------------------------------------------------------
(* Every step keeps the invariant.                                         *)

LEMMA InvInit == Init => IInv
  <1> SUFFICES ASSUME Init PROVE IInv
    OBVIOUS
  <1>1. Len(Order) \in Nat /\ Len(Order) >= 1
    BY ProgramsAssumption
  <1> QED BY <1>1 DEF Init, IInv, Types, Failing, Tested

LEMMA FindAssumptionsStep ==
  ASSUME IInv, FindAssumptions
  PROVE  IInv'
  <1>1. PICK new : new = WithAssumptions
    OBVIOUS
  <1>2. inp' = new /\ assumptions' = new /\ n' = 2 /\ start' = 0 /\ pc' = "outer"
        /\ bug' = bug /\ fails' = fails
    BY <1>1 DEF FindAssumptions
  <1>3. new \in Seq(STRING) /\ Fail(new)
    BY <1>1, WithAssumptionsHas, AllKept DEF IInv
  <1>4. Fail(inp)'
    BY <1>2, <1>3, FailNext
  <1>5. Types'
    BY <1>2, <1>3 DEF IInv, Types
  <1> QED BY <1>2, <1>4, <1>5 DEF IInv, Failing, Tested

LEMMA OuterStep ==
  ASSUME IInv, Outer
  PROVE  IInv'
  <1>1. PICK l : l = inp
    OBVIOUS
  <1>2. inp' = l /\ bug' = bug /\ fails' = fails /\ pc = "outer" /\ pc' = "inner"
        /\ start' = 0 /\ Len(inp) >= 2 /\ UNCHANGED <<assumptions, n>>
    BY <1>1 DEF Outer
  <1>3. Types' /\ Len(inp)' >= 2
    BY <1>2, <1>1 DEF IInv, Types
  <1>4. Failing'
    BY <1>1, <1>2, FailNext DEF IInv, Failing
  <1>5. \A k \in 1..Len(inp)' : ~ (k <= start')
    BY <1>2
  <1>6. Tested'
    BY <1>2, <1>3, <1>5 DEF Tested
  <1> QED BY <1>3, <1>4, <1>6 DEF IInv

LEMMA TestFailsStep ==
  ASSUME IInv, TestFails
  PROVE  IInv'
  <1>1. PICK new : new = Complement
    OBVIOUS
  <1>2. inp' = new /\ bug' = bug /\ fails' = fails /\ pc' = "outer"
        /\ Fail(new) /\ n' = (IF n > 2 THEN n - 1 ELSE 2)
        /\ UNCHANGED <<assumptions, start>>
    BY <1>1 DEF TestFails
  <1>3. new \in Seq(STRING)
    BY <1>1, ComplementProperties DEF IInv, TestFails
  <1>4. Types'
    BY <1>2, <1>3 DEF IInv, Types
  <1>5. Fail(inp)'
    BY <1>2, FailNext
  <1> QED BY <1>2, <1>4, <1>5 DEF IInv, Failing, Tested

LEMMA TestPassesStep ==
  ASSUME IInv, TestPasses
  PROVE  IInv'
  <1>1. PICK l : l = inp
    OBVIOUS
  <1>2. inp' = l /\ bug' = bug /\ fails' = fails /\ pc = "inner" /\ pc' = "inner"
        /\ start < Len(inp) /\ ~ Fail(Complement) /\ start' = start + SubsetLength
        /\ UNCHANGED <<assumptions, n>>
    BY <1>1 DEF TestPasses
  <1>3. SubsetLength \in Nat
        /\ (n = Len(inp) => SubsetLength = 1 /\ Complement = RemoveAt(inp, start + 1))
    BY <1>2, ComplementProperties DEF IInv
  <1>4. Types'
    BY <1>1, <1>2, <1>3 DEF IInv, Types
  <1>5. Failing' /\ \A k : Passed(k)' <=> Passed(k)
    BY <1>1, <1>2, FailNext DEF IInv, Failing, Passed
  <1>6. ASSUME n = Len(inp), NEW k \in 1..Len(inp), k <= start + 1
        PROVE  Passed(k)
    <2>1. CASE k <= start
      BY <1>2, <1>6, <2>1 DEF IInv, Tested
    <2>2. CASE k = start + 1
      BY <1>2, <1>3, <1>6, <2>2 DEF Passed
    <2> QED BY <1>6, <2>1, <2>2 DEF IInv, Types
  <1>7. Tested'
    <2>1. Len(inp') = Len(inp) /\ n' = n
      BY <1>1, <1>2
    <2>2. Len(inp) >= 2
      BY <1>2 DEF IInv, Tested
    <2>3. ASSUME n = Len(inp), NEW k \in 1..Len(inp), k <= start' PROVE Passed(k)'
      BY <1>2, <1>3, <1>5, <1>6, <2>3
    <2> QED BY <1>2, <2>1, <2>2, <2>3 DEF Tested
  <1> QED BY <1>4, <1>5, <1>7 DEF IInv

LEMMA RefineStep ==
  ASSUME IInv, Refine
  PROVE  IInv'
  <1>1. PICK l : l = inp
    OBVIOUS
  <1>2. inp' = l /\ bug' = bug /\ fails' = fails /\ pc = "inner" /\ start >= Len(inp)
        /\ UNCHANGED <<assumptions, start>>
    BY <1>1 DEF Refine
  <1>3. Len(inp) >= 2 /\ Len(inp) \in Nat
    BY <1>2 DEF IInv, Tested, Types
  <1>4. \A k : Passed(k)' <=> Passed(k)
    BY <1>1, <1>2, FailNext DEF Passed
  <1>5. Fail(inp)'
    BY <1>1, <1>2, FailNext DEF IInv, Failing
  <1>6. CASE n = Len(inp)
    <2>1. pc' = "finish" /\ n' = n
      BY <1>6 DEF Refine
    <2>2. \A k \in 1..Len(inp) : k <= start
      BY <1>2, <1>3 DEF IInv, Types
    <2>3. \A k \in 1..Len(inp) : Passed(k)
      BY <1>2, <1>6, <2>2 DEF IInv, Tested
    <2>4. Types'
      BY <1>1, <1>2, <2>1 DEF IInv, Types
    <2> QED BY <1>1, <1>2, <1>4, <1>5, <2>1, <2>3, <2>4 DEF IInv, Failing, Tested
  <1>7. CASE n # Len(inp)
    <2>1. pc' = "outer" /\ n' = (IF n * 2 < Len(inp) THEN n * 2 ELSE Len(inp))
      BY <1>7 DEF Refine
    <2>2. n' \in Nat \ {0}
      BY <1>3, <2>1 DEF IInv, Types
    <2>3. Types'
      BY <1>1, <1>2, <2>1, <2>2 DEF IInv, Types
    <2> QED BY <1>5, <2>1, <2>3 DEF IInv, Failing, Tested
  <1> QED BY <1>6, <1>7

LEMMA FinishStep ==
  ASSUME IInv, Finish
  PROVE  IInv'
  <1>1. PICK l : l = inp
    OBVIOUS
  <1>2. inp' = l /\ bug' = bug /\ fails' = fails /\ pc' = "done"
        /\ minimized' = addSpecificAssumptions(l) /\ UNCHANGED <<assumptions, n, start>>
    BY <1>1 DEF Finish
  <1>3. (\A k : Passed(k)' <=> Passed(k)) /\ (Fail(inp)' <=> Fail(inp))
        /\ minimized' = addSpecificAssumptions(inp)'
    BY <1>1, <1>2, FailNext DEF Passed
  <1>4. pc = "finish" \/ (pc = "outer" /\ Len(inp) < 2)
    BY DEF Finish
  <1>5. Types'
    BY <1>1, <1>2 DEF IInv, Types
  <1>6. Failing'
    BY <1>2, <1>3, <1>4 DEF IInv, Failing
  <1>7. Len(inp) \in Nat
    BY DEF IInv, Types
  <1>8. Len(inp) >= 2 => \A k \in 1..Len(inp) : Passed(k)
    BY <1>4, <1>7 DEF IInv, Tested
  <1>9. Tested'
    BY <1>1, <1>2, <1>3, <1>8 DEF Tested
  <1> QED BY <1>5, <1>6, <1>9 DEF IInv

LEMMA InvStep == IInv /\ [Next]_vars => IInv'
  <1> SUFFICES ASSUME IInv, [Next]_vars PROVE IInv'
    OBVIOUS
  <1>1. CASE FindAssumptions
    BY <1>1, FindAssumptionsStep
  <1>2. CASE Outer
    BY <1>2, OuterStep
  <1>3. CASE TestFails
    BY <1>3, TestFailsStep
  <1>4. CASE TestPasses
    BY <1>4, TestPassesStep
  <1>5. CASE Refine
    BY <1>5, RefineStep
  <1>6. CASE Finish
    BY <1>6, FinishStep
  <1>7. CASE NextBug
    <2>1. bug' \in 1..Len(Order) /\ pc' = "init"
      BY <1>7, ProgramsAssumption DEF NextBug, IInv, Types
    <2>2. Types'
      BY <1>7, <2>1 DEF NextBug, IInv, Types
    <2> QED BY <2>1, <2>2 DEF IInv, Failing, Tested
  <1>8. CASE Stopped \/ UNCHANGED vars
    <2>1. UNCHANGED vars
      BY <1>8 DEF Stopped
    <2>2. PICK l : l = inp
      OBVIOUS
    <2>3. inp' = l /\ bug' = bug /\ fails' = fails /\ minimized' = minimized /\ pc' = pc
          /\ UNCHANGED <<assumptions, n, start>>
      BY <2>1, <2>2 DEF vars
    <2>4. (\A k : Passed(k)' <=> Passed(k)) /\ (Fail(inp)' <=> Fail(inp))
          /\ addSpecificAssumptions(inp)' = addSpecificAssumptions(inp)
      BY <2>2, <2>3, FailNext DEF Passed
    <2>5. Types'
      BY <2>2, <2>3 DEF IInv, Types
    <2>6. Failing'
      BY <2>3, <2>4 DEF IInv, Failing
    <2>7. Tested'
      BY <2>2, <2>3, <2>4 DEF IInv, Tested
    <2> QED BY <2>5, <2>6, <2>7 DEF IInv
  <1> QED BY <1>1, <1>2, <1>3, <1>4, <1>5, <1>6, <1>7, <1>8 DEF Next

LEMMA Invariance == Spec => []IInv
  <1> QED BY InvInit, InvStep, PTL DEF Spec

-----------------------------------------------------------------------------
(* What the debugger promises.                                             *)

\* Whatever clam finds and whatever assumptions the class has gathered, the
\* file the debugger leaves in minimized.ll (delta_debugger.py, ddmin) shows
\* the same number of warnings as the whole program.
THEOREM MinimizedFails == Spec => []MinimizedStillFails
  <1>1. IInv => MinimizedStillFails
    BY DEF IInv, Failing, Fail, MinimizedStillFails
  <1> QED BY <1>1, Invariance, PTL

\* ddmin stops only at the finest granularity, with every single assumption
\* tried: none of those it reports can be left out alone.  clam need not be
\* monotone for this.
THEOREM ResultOneMinimal == Spec => []OneMinimal
  <1>1. IInv => OneMinimal
    BY DEF IInv, Tested, Passed, OneMinimal
  <1> QED BY <1>1, Invariance, PTL

\* The list of assumptions is shared by all the debuggers of minimize_all; an
\* assumption that is no line of this folder's file changes nothing of what is
\* written, so a 1-minimal result holds none.
THEOREM NoForeignAssumption == Spec => []NothingForeign
  <1>1. ASSUME IInv PROVE NothingForeign
    <2> SUFFICES ASSUME pc = "done", Len(inp) >= 2,
                        NEW k \in 1..Len(inp), inp[k] \notin Range(Texts)
                 PROVE  FALSE
      BY DEF NothingForeign, Range, IInv, Types
    <2> DEFINE less == RemoveAt(inp, k)
    <2>1. inp \in Seq(STRING) /\ Len(inp) \in Nat /\ Texts \in Seq(STRING)
      BY <1>1, ProgramType DEF IInv, Types
    <2>2. DOMAIN less = 1..(Len(inp) - 1)
          /\ \A i \in 1..(Len(inp) - 1) : less[i] = inp[IF i < k THEN i ELSE i + 1]
      BY <2>1, RemoveAtProperties
    <2> HIDE DEF less
    <2>3. \A x \in Range(less) : x \in Range(inp)
      BY <2>1, <2>2 DEF Range
    <2>4. ASSUME NEW x \in Range(inp), x # inp[k] PROVE x \in Range(less)
      <3>1. PICK j \in 1..Len(inp) : inp[j] = x
        BY <2>1 DEF Range
      <3>2. CASE j < k
        <4>1. j \in DOMAIN less /\ less[j] = x
          BY <2>1, <2>2, <3>1, <3>2
        <4> QED BY <4>1 DEF Range
      <3>3. CASE j > k
        <4>1. j - 1 \in DOMAIN less /\ less[j - 1] = x
          BY <2>1, <2>2, <3>1, <3>3
        <4> QED BY <4>1 DEF Range
      <3> QED BY <2>4, <3>1, <3>2, <3>3
    <2>5. \A m \in 1..Len(Texts) : Texts[m] \in Range(Texts)
      BY <2>1 DEF Range
    <2>6. Unwanted(less) = Unwanted(inp)
      BY <2>3, <2>4, <2>5 DEF Unwanted
    <2>7. Fail(less) <=> Fail(inp)
      BY <2>6 DEF Fail, addSpecificAssumptions
    <2> QED BY <1>1, <2>7 DEF less, IInv, Failing, Tested, Passed
  <1> QED BY <1>1, Invariance, PTL
=============================================================================
