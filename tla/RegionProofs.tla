----------------------------- MODULE RegionProofs -----------------------------
(***************************************************************************)
(* Proofs about CallTranslation and the heap abstraction below it.  Each   *)
(* node that is numbered owns an interval of numbers, below m_max_id and   *)
(* disjoint from the others, and a region inside its node has a number of  *)
(* that interval.  So the numbers of regions are unique, a region that was *)
(* handed out is never another one later, and one that is not unknown has  *)
(* its bytes for itself; in initialize, and when the regions of pointers   *)
(* are asked for while functions are declared and translated.              *)
(***************************************************************************)
EXTENDS CallTranslation, NatSets

Bytes(h, n) == IF h.node[n].size = 0 THEN 1 ELSE h.node[n].size

Intervals(I, h) ==
    /\ I.max \in Nat
    /\ \A n \in DOMAIN I.base : /\ n \in DOMAIN h.node
                                /\ I.base[n] \in Nat
                                /\ I.base[n] + Bytes(h, n) =< I.max

Apart(I, h) ==
    \A m, n \in DOMAIN I.base :
      m # n => \/ I.base[m] + Bytes(h, m) =< I.base[n]
               \/ I.base[n] + Bytes(h, n) =< I.base[m]

\* A number is only remembered as that of a global when it is one: it is the
\* first of the node's.
Singles(I) ==
    \A i \in DOMAIN I.rev : I.rev[i] \in DOMAIN I.base /\ I.base[I.rev[i]] = i

\* What is known of a region that was handed out: its node is numbered, and
\* getRegion gives the same region again.
InNode(h, c) == c[2] < h.node[c[1]].size \/ c[2] = 0
HandedOut(I, h, r) ==
    \/ r = NoRegion
    \/ /\ r.cell \in Cells(h)
       /\ r.cell[1] \in DOMAIN I.base
       /\ r.info = RegionInfoOf(h, r.cell)
       /\ InNode(h, r.cell) => r = Region(I, h, r.cell)

\* What holds of the numbers I given so far and the regions N handed out.
Naming(h, I, N) ==
    /\ Intervals(I, h) /\ Apart(I, h) /\ Singles(I)
    /\ \A r \in N : HandedOut(I, h, r)

IInv ==
    /\ heap \in Heaps
    /\ todo \in Seq(FieldTasks(heap))
    /\ undeclared \in Seq(ToSet(heap.fns))
    /\ Naming(heap, ids, named)

-----------------------------------------------------------------------------
\* Every node of a program has a number of bytes.
LEMMA BytesType ==
    ASSUME NEW h \in Heaps, NEW n \in DOMAIN h.node
    PROVE  /\ h.node[n].size \in Nat
           /\ Bytes(h, n) \in Nat
           /\ Bytes(h, n) > 0
           /\ Bytes(h, n) >= h.node[n].size
BY HeapsAssumption DEF Bytes

\* getId keeps the numbers that were given, and gives the node one interval
\* above them.
LEMMA NumberedBase ==
    ASSUME NEW h \in Heaps, NEW I, NEW c \in Cells(h)
    PROVE  /\ c[1] \in DOMAIN Numbered(I, h, c).base
           /\ \A n \in DOMAIN I.base : /\ n \in DOMAIN Numbered(I, h, c).base
                                       /\ Numbered(I, h, c).base[n] = I.base[n]
           /\ \A n \in DOMAIN Numbered(I, h, c).base : n \in DOMAIN I.base \/ n = c[1]
           /\ c[1] \notin DOMAIN I.base =>
                /\ Numbered(I, h, c).base[c[1]] = I.max
                /\ Numbered(I, h, c).max = I.max + Bytes(h, c[1])
           /\ c[1] \in DOMAIN I.base => Numbered(I, h, c) = I
BY DEF Numbered, Bytes, Cells

LEMMA NumberedIntervals ==
    ASSUME NEW h \in Heaps, NEW I, NEW c \in Cells(h), Intervals(I, h), Apart(I, h)
    PROVE  Intervals(Numbered(I, h, c), h) /\ Apart(Numbered(I, h, c), h)
<1> DEFINE J == Numbered(I, h, c)
<1>1. CASE c[1] \in DOMAIN I.base
  BY <1>1, NumberedBase
<1>2. CASE c[1] \notin DOMAIN I.base
  <2>1. c[1] \in DOMAIN h.node
    BY DEF Cells
  <2>2. /\ J.max = I.max + Bytes(h, c[1])
        /\ J.base[c[1]] = I.max
        /\ \A n \in DOMAIN I.base : J.base[n] = I.base[n]
        /\ \A n \in DOMAIN J.base : n \in DOMAIN I.base \/ n = c[1]
    BY <1>2, NumberedBase
  <2>3. Intervals(J, h)
    <3> HIDE DEF J
    <3> QED BY <2>1, <2>2, BytesType DEF Intervals
  <2>4. Apart(J, h)
    <3> SUFFICES ASSUME NEW m \in DOMAIN J.base, NEW n \in DOMAIN J.base, m # n
                 PROVE  \/ J.base[m] + Bytes(h, m) =< J.base[n]
                        \/ J.base[n] + Bytes(h, n) =< J.base[m]
      BY DEF Apart
    <3> HIDE DEF J
    <3> QED BY <2>1, <2>2, BytesType DEF Intervals, Apart
  <2> QED BY <2>3, <2>4
<1> QED BY <1>1, <1>2

\* A number of a node that is remembered as a global's is its first one.
LEMMA NumberedSingles ==
    ASSUME NEW h \in Heaps, NEW I, NEW c \in Cells(h), Intervals(I, h), Singles(I)
    PROVE  Singles(Numbered(I, h, c))
<1> DEFINE J == Numbered(I, h, c)
<1>1. CASE c[1] \in DOMAIN I.base
  BY <1>1, NumberedBase
<1>2. CASE c[1] \notin DOMAIN I.base
  <2>1. /\ J.base[c[1]] = I.max /\ c[1] \in DOMAIN J.base
        /\ \A n \in DOMAIN I.base : n \in DOMAIN J.base /\ J.base[n] = I.base[n]
    BY <1>2, NumberedBase
  <2>2. \A i \in DOMAIN J.rev : \/ i = I.max /\ J.rev[i] = c[1]
                                \/ i \in DOMAIN I.rev /\ J.rev[i] = I.rev[i]
    BY <1>2 DEF Numbered
  <2>3. Singles(J)
    <3> HIDE DEF J
    <3> QED BY <2>1, <2>2 DEF Singles
  <2> QED BY <2>3
<1> QED BY <1>1, <1>2

\* The numbers remembered as those of globals stay, and at most the first of
\* a new node is added.
LEMMA NumberedRev ==
    ASSUME NEW h \in Heaps, NEW I, NEW c \in Cells(h), NEW i, i # I.max
    PROVE  /\ i \in DOMAIN Numbered(I, h, c).rev <=> i \in DOMAIN I.rev
           /\ i \in DOMAIN I.rev => Numbered(I, h, c).rev[i] = I.rev[i]
BY DEF Numbered

\* getRegion of a field inside a node that is numbered says the same before
\* and after another field is numbered.
LEMMA RegionStays ==
    ASSUME NEW h \in Heaps, NEW I, NEW c \in Cells(h), NEW d \in Cells(h),
           Intervals(I, h), c[1] \in DOMAIN I.base, InNode(h, c)
    PROVE  Region(Numbered(I, h, d), h, c) = Region(I, h, c)
<1> DEFINE J == Numbered(I, h, d)
           id == I.base[c[1]] + c[2]
<1>1. c[1] \in DOMAIN J.base /\ J.base[c[1]] = I.base[c[1]]
  BY NumberedBase
<1>2. IdOf(I, h, c) = id /\ IdOf(J, h, c) = id
  BY <1>1 DEF IdOf
<1>3. Numbered(I, h, c) = I /\ Numbered(J, h, c) = J
  <2> HIDE DEF J
  <2> QED BY <1>1, NumberedBase
<1>4. id # I.max
  <2>1. c[1] \in DOMAIN h.node /\ c[2] \in Nat
    BY DEF Cells
  <2>2. I.base[c[1]] \in Nat /\ I.max \in Nat /\ I.base[c[1]] + Bytes(h, c[1]) =< I.max
    BY DEF Intervals
  <2>3. c[2] < Bytes(h, c[1]) /\ Bytes(h, c[1]) \in Nat
    BY <2>1, BytesType DEF InNode
  <2> QED BY <2>1, <2>2, <2>3
<1>5. Singleton(J, h, id) = Singleton(I, h, id)
  <2>1. /\ id \in DOMAIN J.rev <=> id \in DOMAIN I.rev
        /\ id \in DOMAIN I.rev => J.rev[id] = I.rev[id]
    BY <1>4, NumberedRev
  <2> HIDE DEF J, id
  <2> QED BY <2>1 DEF Singleton
<1>6. Region(J, h, c) = Region(I, h, c)
  <2> HIDE DEF J, id
  <2> QED BY <1>2, <1>3, <1>5 DEF Region
<1> QED BY <1>6

\* The region of a field inside its node is the same before and after the
\* field is numbered.
LEMMA RegionFirst ==
    ASSUME NEW h \in Heaps, NEW I, NEW c \in Cells(h), Intervals(I, h), InNode(h, c)
    PROVE  Region(Numbered(I, h, c), h, c) = Region(I, h, c)
<1> DEFINE J == Numbered(I, h, c)
<1>1. CASE c[1] \in DOMAIN I.base
  BY <1>1, NumberedBase
<1>2. CASE c[1] \notin DOMAIN I.base
  <2>1. c[1] \in DOMAIN J.base /\ J.base[c[1]] = I.max
    BY <1>2, NumberedBase
  <2>2. Numbered(J, h, c) = J
    <3> HIDE DEF J
    <3> QED BY <2>1, NumberedBase
  <2>3. IdOf(J, h, c) = IdOf(I, h, c)
    <3>1. c[2] \in Nat /\ h.node[c[1]].size \in Nat /\ I.max \in Nat
      BY HeapsAssumption DEF Cells, Intervals
    <3>2. IdOf(J, h, c) = I.max + c[2]
      BY <2>1 DEF IdOf
    <3>3. IdOf(I, h, c) = I.max + c[2]
      <4>1. CASE h.node[c[1]].size = 0
        <5>1. c[2] = 0
          BY <3>1, <4>1 DEF InNode
        <5> QED BY <1>2, <3>1, <4>1, <5>1 DEF IdOf
      <4>2. CASE h.node[c[1]].size # 0
        BY <1>2, <4>2 DEF IdOf
      <4> QED BY <4>1, <4>2
    <3> QED BY <3>2, <3>3
  <2> HIDE DEF J
  <2>4. Numbered(I, h, c) = J
    BY DEF J
  <2> QED BY <2>2, <2>3, <2>4 DEF Region
<1> QED BY <1>1, <1>2

\* A region inside a node that is numbered has the number of its byte.
HasItsNumber(I, h, r) ==
    /\ r.cell \in Cells(h)
    /\ r.cell[1] \in DOMAIN I.base
    /\ r.id = I.base[r.cell[1]] + r.cell[2]

\* Looking a region up, numbered or not, keeps what is known of all of them.
LEMMA NamingRegion ==
    ASSUME NEW h \in Heaps, NEW I, NEW N, NEW c \in Cells(h), Naming(h, I, N)
    PROVE  Naming(h, Numbered(I, h, c), N \cup {Region(I, h, c)})
<1> DEFINE J == Numbered(I, h, c)
           q == Region(I, h, c)
<1>1. Intervals(I, h) /\ Apart(I, h) /\ Singles(I) /\ \A r \in N : HandedOut(I, h, r)
  BY DEF Naming
<1>2. Intervals(J, h) /\ Apart(J, h) /\ Singles(J)
  BY <1>1, NumberedIntervals, NumberedSingles
<1>3. c[1] \in DOMAIN J.base /\ \A n \in DOMAIN I.base : n \in DOMAIN J.base
  BY NumberedBase
<1>4. ASSUME NEW r \in N PROVE HandedOut(J, h, r)
  <2>1. CASE r = NoRegion
    BY <2>1 DEF HandedOut
  <2>2. CASE r # NoRegion
    <3>1. /\ r.cell \in Cells(h) /\ r.cell[1] \in DOMAIN I.base
          /\ r.info = RegionInfoOf(h, r.cell)
          /\ InNode(h, r.cell) => r = Region(I, h, r.cell)
      BY <1>1, <2>2 DEF HandedOut
    <3>2. InNode(h, r.cell) => Region(J, h, r.cell) = Region(I, h, r.cell)
      BY <1>1, <3>1, RegionStays
    <3>3. r.cell[1] \in DOMAIN J.base
      BY <1>3, <3>1
    <3> HIDE DEF J
    <3> QED BY <3>1, <3>2, <3>3 DEF HandedOut
  <2> QED BY <2>1, <2>2
<1>5. HandedOut(J, h, q)
  <2>1. q.cell = c /\ q.info = RegionInfoOf(h, c)
    BY DEF Region
  <2>2. InNode(h, c) => q = Region(J, h, c)
    BY <1>1, RegionFirst
  <2> HIDE DEF J, q
  <2> QED BY <1>3, <2>1, <2>2 DEF HandedOut
<1>6. Naming(h, J, N \cup {q})
  <2> HIDE DEF J, q
  <2> QED BY <1>2, <1>4, <1>5 DEF Naming
<1> QED BY <1>6

\* A pointer without a cell gets NoRegion, and numbers nothing.
LEMMA NamingNone ==
    ASSUME NEW h, NEW I, NEW N, Naming(h, I, N)
    PROVE  Naming(h, I, N \cup {NoRegion})
<1>1. \A r \in N \cup {NoRegion} : HandedOut(I, h, r)
  BY DEF Naming, HandedOut
<1> QED BY <1>1 DEF Naming

\* What is known of a region with a cell inside its node.
LEMMA HandedOutInside ==
    ASSUME NEW h \in Heaps, NEW I, NEW r, HandedOut(I, h, r), r.cell # NoCell, InNode(h, r.cell)
    PROVE  HasItsNumber(I, h, r) /\ r = Region(I, h, r.cell)
<1>1. r # NoRegion
  BY DEF NoRegion
<1>2. /\ r.cell \in Cells(h) /\ r.cell[1] \in DOMAIN I.base
      /\ r = Region(I, h, r.cell)
  BY <1>1 DEF HandedOut
<1>3. Region(I, h, r.cell).id = I.base[r.cell[1]] + r.cell[2]
  BY <1>2 DEF Region, IdOf
<1>4. r.id = Region(I, h, r.cell).id
  BY <1>2
<1> QED BY <1>2, <1>3, <1>4 DEF HasItsNumber

\* Two different bytes of numbered nodes have different numbers.
LEMMA DifferentNumbers ==
    ASSUME NEW h \in Heaps, NEW I, Intervals(I, h), Apart(I, h),
           NEW r, NEW s, HasItsNumber(I, h, r), HasItsNumber(I, h, s), r.cell # s.cell,
           r.cell[2] < h.node[r.cell[1]].size \/ r.cell[2] = 0,
           s.cell[2] < h.node[s.cell[1]].size \/ s.cell[2] = 0
    PROVE  r.id # s.id
<1> DEFINE m == r.cell[1]
           n == s.cell[1]
           i == r.cell[2]
           j == s.cell[2]
<1>1. /\ m \in DOMAIN I.base /\ n \in DOMAIN I.base /\ i \in Nat /\ j \in Nat
      /\ r.id = I.base[m] + i /\ s.id = I.base[n] + j
  BY DEF HasItsNumber, Cells
<1>2. r.cell = <<m, i>> /\ s.cell = <<n, j>>
  BY DEF HasItsNumber, Cells
<1>3. /\ m \in DOMAIN h.node /\ n \in DOMAIN h.node
      /\ I.base[m] \in Nat /\ I.base[n] \in Nat
  BY <1>1 DEF Intervals
<1>4. i < Bytes(h, m) /\ j < Bytes(h, n) /\ Bytes(h, m) \in Nat /\ Bytes(h, n) \in Nat
  <2>1. /\ h.node[m].size \in Nat /\ Bytes(h, m) \in Nat
        /\ Bytes(h, m) > 0 /\ Bytes(h, m) >= h.node[m].size
    BY <1>3, BytesType
  <2>2. /\ h.node[n].size \in Nat /\ Bytes(h, n) \in Nat
        /\ Bytes(h, n) > 0 /\ Bytes(h, n) >= h.node[n].size
    BY <1>3, BytesType
  <2>3. (i < h.node[m].size \/ i = 0) /\ (j < h.node[n].size \/ j = 0)
    OBVIOUS
  <2> HIDE DEF m, n, i, j
  <2> QED BY <1>1, <2>1, <2>2, <2>3
<1>5. CASE m = n
  <2>1. i # j
    BY <1>2, <1>5
  <2> HIDE DEF m, n, i, j
  <2> QED BY <1>1, <1>3, <1>5, <2>1
<1>6. CASE m # n
  <2>1. I.base[m] + Bytes(h, m) =< I.base[n] \/ I.base[n] + Bytes(h, n) =< I.base[m]
    BY <1>1, <1>6 DEF Apart
  <2> HIDE DEF m, n, i, j
  <2> QED BY <1>1, <1>3, <1>4, <2>1
<1> QED BY <1>5, <1>6

-----------------------------------------------------------------------------
(* Regions that are looked up while functions are declared and translated. *)

Named(a) == Naming(heap, a.ids, a.named)

LEMMA LookedUpNamed ==
    ASSUME heap \in Heaps, NEW a, NEW c \in Pointed(heap), NEW w, Named(a)
    PROVE  Named(LookedUp(a, c, w))
<1>1. CASE c = NoCell
  <2>1. LookedUp(a, c, w).ids = a.ids /\ LookedUp(a, c, w).named = a.named \cup {NoRegion}
    BY <1>1 DEF LookedUp, RegionAt
  <2> QED BY <2>1, NamingNone DEF Named
<1>2. CASE c # NoCell
  <2>1. c \in Cells(heap)
    BY <1>2 DEF Pointed
  <2>2. /\ LookedUp(a, c, w).ids = Numbered(a.ids, heap, c)
        /\ LookedUp(a, c, w).named = a.named \cup {Region(a.ids, heap, c)}
    BY <1>2 DEF LookedUp, RegionAt
  <2> QED BY <2>1, <2>2, NamingRegion DEF Named
<1> QED BY <1>1, <1>2

LEMMA FormalReferenceNamed ==
    ASSUME heap \in Heaps, NEW a, NEW c \in Pointed(heap), NEW of, Named(a)
    PROVE  Named(FormalReference(a, c, of))
BY LookedUpNamed DEF FormalReference

LEMMA FormalParamNamed ==
    ASSUME heap \in Heaps, NEW a, NEW f, NEW i, heap.params[f][i] \in Pointed(heap), Named(a)
    PROVE  Named(FormalParam(a, f, i))
BY FormalReferenceNamed DEF FormalParam

LEMMA FormalGlobalNamed ==
    ASSUME heap \in Heaps, NEW a, NEW f, NEW g, heap.at[f][g] \in Pointed(heap), Named(a)
    PROVE  Named(FormalGlobal(a, f, g))
BY FormalReferenceNamed, LookedUpNamed DEF FormalGlobal

LEMMA ActualGlobalNamed ==
    ASSUME heap \in Heaps, NEW a, NEW f, NEW g, heap.at[f][g] \in Pointed(heap), Named(a)
    PROVE  Named(ActualGlobal(a, f, g))
<1>1. ASSUME NEW w PROVE Named([a EXCEPT !.w = w])
  <2>1. [a EXCEPT !.w = w].ids = a.ids /\ [a EXCEPT !.w = w].named = a.named
    OBVIOUS
  <2> QED BY <2>1 DEF Named
<1> QED BY <1>1, LookedUpNamed DEF ActualGlobal

-----------------------------------------------------------------------------
(* The loops.  A loop over a sequence folds a step; the four steps are     *)
(* cases of one, so that the induction is done once.                       *)

Step(k, f, a, x) ==
    CASE k = "param"  -> FormalParam(a, f, x)
      [] k = "formal" -> FormalGlobal(a, f, x)
      [] k = "actual" -> ActualGlobal(a, f, x)
      [] k = "body"   -> BodyStep(a, x)

\* it gives, for the first positions of s, what the loop has made of b.
Loop(it, k, f, b, s, n) ==
    it = [t \in SUBSET (1 .. n) |-> IF t = {} THEN b
                                    ELSE Step(k, f, it[t \ {Max(t)}], s[Max(t)])]

LEMMA LoopExists ==
    ASSUME NEW k, NEW f, NEW b, NEW s, NEW n \in Nat
    PROVE  \E it : Loop(it, k, f, b, s, n)
<1> DEFINE Good == {m \in Nat : \E it : Loop(it, k, f, b, s, m)}
<1>1. 0 \in Good
  <2> DEFINE v == [t \in SUBSET (1 .. 0) |-> b]
  <2>1. \A t \in SUBSET (1 .. 0) : t = {}
    OBVIOUS
  <2>2. v = [t \in SUBSET (1 .. 0) |-> IF t = {} THEN b
                                       ELSE Step(k, f, v[t \ {Max(t)}], s[Max(t)])]
    BY <2>1
  <2>3. Loop(v, k, f, b, s, 0)
    BY <2>2 DEF Loop
  <2> HIDE DEF v
  <2> QED BY <2>3
<1>2. ASSUME NEW m \in Nat, m \in Good PROVE m + 1 \in Good
  <2>1. PICK it : Loop(it, k, f, b, s, m)
    BY <1>2
  <2> DEFINE old(t) == it[t \ {m + 1}]
             v == [t \in SUBSET (1 .. (m + 1)) |->
                     IF m + 1 \in t THEN Step(k, f, it[t \ {m + 1}], s[m + 1]) ELSE it[t]]
             w == [t \in SUBSET (1 .. (m + 1)) |->
                     IF t = {} THEN b ELSE Step(k, f, v[t \ {Max(t)}], s[Max(t)])]
  <2>2. ASSUME NEW t \in SUBSET (1 .. (m + 1)) PROVE v[t] = w[t]
    <3>1. CASE t = {}
      <4>1. t \in SUBSET (1 .. m) /\ m + 1 \notin t
        BY <3>1
      <4>2. it[t] = b
        BY <2>1, <3>1, <4>1 DEF Loop
      <4> QED BY <3>1, <4>1, <4>2
    <3>2. CASE t # {} /\ m + 1 \in t
      <4>1. Max(t) = m + 1
        BY <3>2, MaxOfPrefix
      <4>2. t \ {m + 1} \in SUBSET (1 .. (m + 1)) /\ m + 1 \notin t \ {m + 1}
        OBVIOUS
      <4>3. v[t \ {m + 1}] = it[t \ {m + 1}]
        BY <4>2
      <4>4. w[t] = Step(k, f, v[t \ {m + 1}], s[m + 1])
        BY <3>2, <4>1
      <4>5. v[t] = Step(k, f, it[t \ {m + 1}], s[m + 1])
        BY <3>2
      <4> HIDE DEF v, w
      <4> QED BY <4>3, <4>4, <4>5
    <3>3. CASE t # {} /\ m + 1 \notin t
      <4>1. t \in SUBSET (1 .. m)
        BY <3>3
      <4>2. Max(t) \in t
        BY <3>3, MaxOfPrefix
      <4>3. t \ {Max(t)} \in SUBSET (1 .. (m + 1)) /\ m + 1 \notin t \ {Max(t)}
        BY <3>3
      <4>4. v[t \ {Max(t)}] = it[t \ {Max(t)}]
        BY <4>3
      <4>5. it[t] = Step(k, f, it[t \ {Max(t)}], s[Max(t)])
        BY <2>1, <3>3, <4>1 DEF Loop
      <4>6. v[t] = it[t]
        BY <3>3
      <4>7. w[t] = Step(k, f, v[t \ {Max(t)}], s[Max(t)])
        BY <3>3
      <4> HIDE DEF v, w
      <4> QED BY <4>4, <4>5, <4>6, <4>7
    <3> QED BY <3>1, <3>2, <3>3
  <2>3. v = w
    BY <2>2
  <2>4. Loop(v, k, f, b, s, m + 1)
    BY <2>3 DEF Loop
  <2> HIDE DEF v
  <2> QED BY <2>4
<1>3. \A m \in Nat : m \in Good
  <2> HIDE DEF Good
  <2> QED BY <1>1, <1>2, SetInduction
<1> QED BY <1>3

\* What every step of the loop keeps, the loop keeps.
Survives(k, a) == IF k = "body" THEN Named(a.a) ELSE Named(a)
LEMMA LoopKeeps ==
    ASSUME NEW k, NEW f, NEW b, NEW s, NEW n \in Nat, NEW it, Loop(it, k, f, b, s, n),
           Survives(k, b), \A i \in 1 .. n : \A a : Survives(k, a) => Survives(k, Step(k, f, a, s[i]))
    PROVE  Survives(k, it[1 .. n])
<1> DEFINE Good == {m \in Nat : m =< n => Survives(k, it[1 .. m])}
<1>1. 0 \in Good
  <2>1. 1 .. 0 = {}
    OBVIOUS
  <2>2. it[{}] = b
    BY DEF Loop
  <2> QED BY <2>1, <2>2
<1>2. ASSUME NEW m \in Nat, m \in Good PROVE m + 1 \in Good
  <2> SUFFICES ASSUME m + 1 =< n PROVE Survives(k, it[1 .. (m + 1)])
    OBVIOUS
  <2>1. Survives(k, it[1 .. m])
    BY <1>2
  <2> DEFINE t == 1 .. (m + 1)
  <2>2. t \in SUBSET (1 .. n) /\ t # {} /\ m + 1 \in t /\ m + 1 \in 1 .. n
    <3>1. m + 1 \in 1 .. (m + 1) /\ m + 1 \in 1 .. n /\ \A i \in 1 .. (m + 1) : i \in 1 .. n
      OBVIOUS
    <3> QED BY <3>1
  <2>3. Max(t) = m + 1
    <3>1. t \in SUBSET (1 .. (m + 1)) /\ m + 1 \in Nat
      OBVIOUS
    <3> HIDE DEF t
    <3> QED BY <2>2, <3>1, MaxOfPrefix
  <2>4. t \ {m + 1} = 1 .. m
    <3>1. \A i \in 1 .. (m + 1) : i # m + 1 => i \in 1 .. m
      OBVIOUS
    <3>2. \A i \in 1 .. m : i # m + 1 /\ i \in 1 .. (m + 1)
      OBVIOUS
    <3> QED BY <3>1, <3>2
  <2>5. it[t] = Step(k, f, it[t \ {Max(t)}], s[Max(t)])
    <3> HIDE DEF t
    <3> QED BY <2>2 DEF Loop
  <2>6. it[t] = Step(k, f, it[1 .. m], s[m + 1])
    BY <2>3, <2>4, <2>5
  <2> HIDE DEF t
  <2>7. Survives(k, it[t])
    BY <2>1, <2>2, <2>6
  <2> QED BY <2>7 DEF t
<1>3. \A m \in Nat : m \in Good
  <2> HIDE DEF Good
  <2> QED BY <1>1, <1>2, SetInduction
<1> QED BY <1>3

\* What every step of one of the loops keeps, the loop keeps.
LEMMA FormalParamsNamed ==
    ASSUME heap \in Heaps, NEW f \in ToSet(heap.fns), NEW b, Named(b)
    PROVE  Named(FormalParams(b, f))
<1> DEFINE s == [i \in DOMAIN heap.params[f] |-> i]
           Eq(it) == it = [t \in SUBSET DOMAIN s |-> IF t = {} THEN b
                             ELSE FormalParam(it[t \ {Max(t)}], f, s[Max(t)])]
           all == CHOOSE it : Eq(it)
<1>1. heap.params[f] \in Seq(Pointed(heap))
  BY PointersAssumption
<1>2. PICK n \in Nat : DOMAIN s = 1 .. n /\ \A i \in 1 .. n : heap.params[f][s[i]] \in Pointed(heap)
  BY <1>1
<1>3. FormalParams(b, f) = all[DOMAIN s]
  BY Zenon DEF FormalParams, FoldLeft, MapThenFoldSet
<1>4. \A i \in 1 .. n : \A a : Survives("param", a) => Survives("param", Step("param", f, a, s[i]))
  BY <1>2, FormalParamNamed DEF Survives, Step
<1> HIDE DEF s
<1>5. \A it : Loop(it, "param", f, b, s, n) <=> Eq(it)
  BY <1>2 DEF Loop, Step
<1>6. \E it : Eq(it)
  BY <1>5, LoopExists, Zenon
<1> HIDE DEF Eq
<1>7. Eq(all)
  BY <1>6, Zenon
<1>8. Loop(all, "param", f, b, s, n)
  BY <1>5, <1>7
<1> HIDE DEF all
<1>9. Survives("param", all[1 .. n])
  BY <1>4, <1>8, LoopKeeps DEF Survives
<1> QED BY <1>2, <1>3, <1>9 DEF Survives

LEMMA FormalGlobalsNamed ==
    ASSUME heap \in Heaps, NEW f \in ToSet(heap.fns), NEW b, Named(b)
    PROVE  Named(FormalGlobals(b, f))
<1> DEFINE s == heap.globals[f]
           Eq(it) == it = [t \in SUBSET DOMAIN s |-> IF t = {} THEN b
                             ELSE FormalGlobal(it[t \ {Max(t)}], f, s[Max(t)])]
           all == CHOOSE it : Eq(it)
<1>1. s \in Seq(DOMAIN heap.at[f]) /\ \A g \in DOMAIN heap.at[f] : heap.at[f][g] \in Pointed(heap)
  BY PointersAssumption
<1>2. PICK n \in Nat : DOMAIN s = 1 .. n /\ \A i \in 1 .. n : heap.at[f][s[i]] \in Pointed(heap)
  BY <1>1
<1>3. FormalGlobals(b, f) = all[DOMAIN s]
  BY Zenon DEF FormalGlobals, FoldLeft, MapThenFoldSet
<1>4. \A i \in 1 .. n : \A a : Survives("formal", a) => Survives("formal", Step("formal", f, a, s[i]))
  BY <1>2, FormalGlobalNamed DEF Survives, Step
<1> HIDE DEF s
<1>5. \A it : Loop(it, "formal", f, b, s, n) <=> Eq(it)
  BY <1>2 DEF Loop, Step
<1>6. \E it : Eq(it)
  BY <1>5, LoopExists, Zenon
<1> HIDE DEF Eq
<1>7. Eq(all)
  BY <1>6, Zenon
<1>8. Loop(all, "formal", f, b, s, n)
  BY <1>5, <1>7
<1> HIDE DEF all
<1>9. Survives("formal", all[1 .. n])
  BY <1>4, <1>8, LoopKeeps DEF Survives
<1> QED BY <1>2, <1>3, <1>9 DEF Survives

LEMMA ActualGlobalsNamed ==
    ASSUME heap \in Heaps, NEW c \in DOMAIN heap.calls, NEW b, Named(b)
    PROVE  Named(ActualGlobals(b, c))
<1> DEFINE f == heap.calls[c].in
           s == heap.globals[heap.calls[c].callee]
           Eq(it) == it = [t \in SUBSET DOMAIN s |-> IF t = {} THEN b
                             ELSE ActualGlobal(it[t \ {Max(t)}], f, s[Max(t)])]
           all == CHOOSE it : Eq(it)
<1>1. /\ s \in Seq(DOMAIN heap.at[f]) /\ f \in ToSet(heap.fns)
      /\ \A g \in DOMAIN heap.at[f] : heap.at[f][g] \in Pointed(heap)
  BY PointersAssumption
<1>2. PICK n \in Nat : DOMAIN s = 1 .. n /\ \A i \in 1 .. n : heap.at[f][s[i]] \in Pointed(heap)
  <2> HIDE DEF f, s
  <2> QED BY <1>1
<1>3. ActualGlobals(b, c) = all[DOMAIN s]
  BY Zenon DEF ActualGlobals, FoldLeft, MapThenFoldSet
<1> HIDE DEF f, s
<1>4. \A i \in 1 .. n : \A a : Survives("actual", a) => Survives("actual", Step("actual", f, a, s[i]))
  BY <1>2, ActualGlobalNamed DEF Survives, Step
<1>5. \A it : Loop(it, "actual", f, b, s, n) <=> Eq(it)
  BY <1>2 DEF Loop, Step
<1>6. \E it : Eq(it)
  BY <1>5, LoopExists, Zenon
<1> HIDE DEF Eq
<1>7. Eq(all)
  BY <1>6, Zenon
<1>8. Loop(all, "actual", f, b, s, n)
  BY <1>5, <1>7
<1> HIDE DEF all
<1>9. Survives("actual", all[1 .. n])
  BY <1>4, <1>8, LoopKeeps DEF Survives
<1> QED BY <1>2, <1>3, <1>9 DEF Survives

\* A step of a body: a use looks its cell up, a call the globals of its callee.
LEMMA BodyStepNamed ==
    ASSUME heap \in Heaps, NEW b, NEW item \in Items(heap), Named(b.a)
    PROVE  Named(BodyStep(b, item).a)
<1>1. CASE b.a.w.stop # ""
  BY <1>1 DEF BodyStep
<1>2. CASE b.a.w.stop = "" /\ item.k = "use"
  <2>1. item.cell \in Pointed(heap)
    BY <1>2 DEF Items
  <2>2. Named(Used(b.a, item.cell))
    BY <2>1, LookedUpNamed DEF Used
  <2>3. BodyStep(b, item) = [b EXCEPT !.a = Used(b.a, item.cell)]
    BY <1>2 DEF BodyStep
  <2>4. BodyStep(b, item).a = Used(b.a, item.cell) \/ BodyStep(b, item).a = b.a
    BY <2>3
  <2> QED BY <2>2, <2>4
<1>3. CASE b.a.w.stop = "" /\ item.k # "use"
  <2>1. item.c \in DOMAIN heap.calls
    BY <1>3 DEF Items
  <2> DEFINE c == item.c
             in == [b.a EXCEPT !.w = ActualParams([@ EXCEPT !.in = <<>>, !.out = <<>>], c)]
             a == ActualGlobals(in, c)
  <2>2. in.ids = b.a.ids /\ in.named = b.a.named
    OBVIOUS
  <2>3. Named(in)
    BY <2>2 DEF Named
  <2>4. Named(a)
    <3> HIDE DEF in
    <3> QED BY <2>1, <2>3, ActualGlobalsNamed
  <2>5. Call(b.a, c).ids = a.ids /\ Call(b.a, c).named = a.named
    BY DEF Call
  <2>6. BodyStep(b, item).a = Call(b.a, c)
    BY <1>3 DEF BodyStep
  <2> HIDE DEF a, c
  <2> QED BY <2>4, <2>5, <2>6 DEF Named
<1> QED BY <1>1, <1>2, <1>3

LEMMA BodyNamed ==
    ASSUME heap \in Heaps, NEW f \in ToSet(heap.fns), Naming(heap, ids, named)
    PROVE  Named(Body(f).a)
<1> DEFINE s == heap.body[f]
           b == [a |-> Regioned(Work), sites |-> sites]
           Eq(it) == it = [t \in SUBSET DOMAIN s |-> IF t = {} THEN b
                             ELSE BodyStep(it[t \ {Max(t)}], s[Max(t)])]
           all == CHOOSE it : Eq(it)
<1>1. s \in Seq(Items(heap))
  BY PointersAssumption
<1>2. PICK n \in Nat : DOMAIN s = 1 .. n /\ \A i \in 1 .. n : s[i] \in Items(heap)
  BY <1>1
<1>3. Body(f) = all[DOMAIN s]
  BY Zenon DEF Body, FoldLeft, MapThenFoldSet
<1>4. \A i \in 1 .. n : \A a : Survives("body", a) => Survives("body", Step("body", f, a, s[i]))
  BY <1>2, BodyStepNamed DEF Survives, Step
<1>5. Survives("body", b)
  BY DEF Survives, Named, Regioned
<1> HIDE DEF s, b
<1>6. \A it : Loop(it, "body", f, b, s, n) <=> Eq(it)
  BY <1>2 DEF Loop, Step
<1>7. \E it : Eq(it)
  BY <1>6, LoopExists, Zenon
<1> HIDE DEF Eq
<1>8. Eq(all)
  BY <1>7, Zenon
<1>9. Loop(all, "body", f, b, s, n)
  BY <1>6, <1>8
<1> HIDE DEF all
<1>10. Survives("body", all[1 .. n])
  BY <1>4, <1>5, <1>9, LoopKeeps
<1> QED BY <1>2, <1>3, <1>10 DEF Survives

LEMMA DeclarationNamed ==
    ASSUME heap \in Heaps, NEW f \in ToSet(heap.fns), Naming(heap, ids, named)
    PROVE  Named(Declaration(f))
<1> DEFINE b == Regioned(Result(Work, f))
           p == FormalParams(b, f)
           a == IF f = Main THEN p ELSE FormalGlobals(p, f)
<1>1. Named(b)
  BY DEF Named, Regioned
<1>2. Named(p)
  <2> HIDE DEF b
  <2> QED BY <1>1, FormalParamsNamed
<1>3. Named(a)
  <2> HIDE DEF p
  <2> QED BY <1>2, FormalGlobalsNamed
<1>4. Declaration(f).ids = a.ids /\ Declaration(f).named = a.named
  BY DEF Declaration
<1> HIDE DEF a
<1> QED BY <1>3, <1>4 DEF Named

-----------------------------------------------------------------------------
\* No field is numbered yet, and no function is declared.
LEMMA InitIInv == Init => IInv
<1> SUFFICES ASSUME Init PROVE IInv
  OBVIOUS
<1>1. heap \in Heaps /\ todo \in Seq(FieldTasks(heap))
  BY HeapsAssumption DEF Init, HeapInit
<1>2. undeclared \in Seq(ToSet(heap.fns))
  BY <1>1, PointersAssumption DEF Init
<1>3. ids.max \in Nat /\ DOMAIN ids.base = {} /\ DOMAIN ids.rev = {} /\ named = {}
  <2>1. ids = [base |-> <<>>, max |-> 0, rev |-> <<>>] /\ named = {}
    BY DEF Init, HeapInit
  <2>2. ids.base = <<>> /\ ids.max = 0 /\ ids.rev = <<>>
    BY <2>1
  <2>3. DOMAIN <<>> = {}
    OBVIOUS
  <2> QED BY <2>1, <2>2, <2>3
<1>4. Naming(heap, ids, named)
  BY <1>3 DEF Naming, Intervals, Apart, Singles
<1> QED BY <1>1, <1>2, <1>4 DEF IInv

LEMMA NumberFieldIInv == IInv /\ NumberField /\ UNCHANGED callVars => IInv'
<1> SUFFICES ASSUME IInv, NumberField, UNCHANGED callVars PROVE IInv'
  OBVIOUS
<1> DEFINE c == Head(todo).cell
<1>1. heap \in Heaps /\ heap' = heap /\ undeclared' = undeclared
  BY DEF IInv, NumberField, callVars
<1>2. /\ todo # <<>> /\ todo \in Seq(FieldTasks(heap))
      /\ todo' = Tail(todo)
      /\ ids' = Numbered(ids, heap, c)
      /\ named' = named \cup {Region(ids, heap, c)}
  BY DEF IInv, NumberField
<1>3. Head(todo) \in FieldTasks(heap) /\ todo' \in Seq(FieldTasks(heap))
  BY <1>2
<1>4. c \in Cells(heap)
  BY <1>3 DEF FieldTasks
<1>5. Naming(heap, ids, named)
  BY DEF IInv
<1> HIDE DEF c
<1>6. Naming(heap', ids', named')
  BY <1>1, <1>2, <1>4, <1>5, NamingRegion
<1>7. undeclared' \in Seq(ToSet(heap.fns)) /\ ToSet(heap'.fns) = ToSet(heap.fns)
  BY <1>1 DEF IInv
<1>8. FieldTasks(heap') = FieldTasks(heap)
  BY <1>1
<1> QED BY <1>1, <1>3, <1>6, <1>7, <1>8 DEF IInv

LEMMA CompareCallsIInv == IInv /\ CompareCalls /\ UNCHANGED callVars => IInv'
<1> SUFFICES ASSUME IInv, CompareCalls, UNCHANGED callVars PROVE IInv'
  OBVIOUS
<1>1. heap' = heap /\ ids' = ids /\ todo' = todo /\ named' = named /\ undeclared' = undeclared
  BY DEF CompareCalls, callVars
<1> QED BY <1>1 DEF IInv

\* addFunctionDeclaration asks for the regions of parameters and globals.
LEMMA DeclareIInv == IInv /\ Declare => IInv'
<1> SUFFICES ASSUME IInv, Declare PROVE IInv'
  OBVIOUS
<1> DEFINE f == Head(undeclared)
           a == Declaration(f)
<1>1. /\ heap \in Heaps /\ undeclared \in Seq(ToSet(heap.fns)) /\ Naming(heap, ids, named)
      /\ todo \in Seq(FieldTasks(heap))
  BY DEF IInv
<1>2. undeclared # <<>> /\ undeclared' = Tail(undeclared)
  BY DEF Declare
<1>3. f \in ToSet(heap.fns) /\ undeclared' \in Seq(ToSet(heap.fns))
  BY <1>1, <1>2
<1>4. After(a)
  BY DEF Declare
<1>5. Named(a)
  <2> HIDE DEF f
  <2> QED BY <1>1, <1>3, DeclarationNamed
<1> HIDE DEF a
<1>6. ids' = a.ids /\ named' = a.named /\ heap' = heap /\ todo' = todo
  BY <1>4 DEF After
<1>7. Naming(heap', ids', named')
  BY <1>5, <1>6 DEF Named
<1> QED BY <1>1, <1>3, <1>6, <1>7 DEF IInv

\* The body of a function asks for those of the pointers it uses.
LEMMA BuildIInv == ASSUME IInv, NEW f \in ToSet(heap.fns), Build(f) PROVE IInv'
<1> DEFINE a == Body(f).a
<1>1. /\ heap \in Heaps /\ undeclared \in Seq(ToSet(heap.fns)) /\ Naming(heap, ids, named)
      /\ todo \in Seq(FieldTasks(heap))
  BY DEF IInv
<1>2. undeclared' = undeclared /\ After(a)
  BY DEF Build
<1>3. Named(a)
  BY <1>1, BodyNamed
<1> HIDE DEF a
<1>4. ids' = a.ids /\ named' = a.named /\ heap' = heap /\ todo' = todo
  BY <1>2 DEF After
<1>5. Naming(heap', ids', named')
  BY <1>3, <1>4 DEF Named
<1> QED BY <1>1, <1>2, <1>4, <1>5 DEF IInv

LEMMA NextIInv == IInv /\ [Next]_vars => IInv'
<1> SUFFICES ASSUME IInv, [Next]_vars PROVE IInv'
  OBVIOUS
<1>1. CASE NumberField /\ UNCHANGED callVars
  BY <1>1, NumberFieldIInv
<1>2. CASE CompareCalls /\ UNCHANGED callVars
  BY <1>2, CompareCallsIInv
<1>3. CASE Declare
  BY <1>3, DeclareIInv
<1>4. CASE \E f \in ToSet(heap.fns) : Build(f)
  BY <1>4, BuildIInv
<1>5. CASE UNCHANGED vars
  <2>1. heap' = heap /\ ids' = ids /\ todo' = todo /\ named' = named /\ undeclared' = undeclared
    BY <1>5 DEF vars, heapVars, callVars
  <2> QED BY <2>1 DEF IInv
<1> QED BY <1>1, <1>2, <1>3, <1>4, <1>5 DEF Next, Abstract

THEOREM NumberingInvariant == Spec => []IInv
BY InitIInv, NextIInv, PTL DEF Spec

-----------------------------------------------------------------------------
LEMMA IInvUnique == IInv => IdsUnique
<1> SUFFICES ASSUME IInv, NEW r \in named, NEW s \in named, r.cell # s.cell,
                    Inside(r.cell), Inside(s.cell)
             PROVE  r.id # s.id
  BY DEF IdsUnique
<1>1. /\ heap \in Heaps /\ Intervals(ids, heap) /\ Apart(ids, heap)
      /\ HandedOut(ids, heap, r) /\ HandedOut(ids, heap, s)
  BY DEF IInv, Naming
<1>2. /\ r.cell # NoCell /\ InNode(heap, r.cell)
      /\ s.cell # NoCell /\ InNode(heap, s.cell)
  BY DEF Inside, InNode
<1>3. HasItsNumber(ids, heap, r) /\ HasItsNumber(ids, heap, s)
  BY <1>1, <1>2, HandedOutInside
<1> QED BY <1>1, <1>2, <1>3, DifferentNumbers DEF InNode

\* The numbers of regions are unique (Region::m_id, "Unique id"), for every
\* program and whatever its nodes, calls and bodies are: neither initialize,
\* nor a region asked for later, gives two fields the same one.
THEOREM RegionIdsUnique == Spec => []IdsUnique
BY NumberingInvariant, IInvUnique, PTL

LEMMA IInvStable == IInv => RegionsStable
<1> SUFFICES ASSUME IInv, NEW r \in named, Inside(r.cell) PROVE r = GetRegion(r.cell)
  BY DEF RegionsStable
<1>1. heap \in Heaps /\ HandedOut(ids, heap, r)
  BY DEF IInv, Naming
<1>2. r.cell # NoCell /\ InNode(heap, r.cell)
  BY DEF Inside, InNode
<1>3. r = Region(ids, heap, r.cell)
  BY <1>1, <1>2, HandedOutInside
<1> QED BY <1>2, <1>3 DEF GetRegion

\* getRegion always gives the region of a field that it, or initialize, gave
\* first: the copies kept in the lists of functions and calls and in the
\* declarations are what a body gets when it asks later, although the number,
\* and whether the region is a global's, depend on all that was numbered in
\* between.
THEOREM RegionsNeverChange == Spec => []RegionsStable
BY NumberingInvariant, IInvStable, PTL

-----------------------------------------------------------------------------
\* The size of a field is that of each access to it, unless they disagree.
LEMMA SizeOfAccess ==
    ASSUME NEW S, NEW t \in S, SizeOf(S) # Mixed
    PROVE  t.bytes = SizeOf(S)
<1>1. \A u, v \in S : u.bytes = v.bytes
  BY DEF SizeOf
<1>2. (CHOOSE u \in S : TRUE) \in S
  OBVIOUS
<1>3. SizeOf(S) = (CHOOSE u \in S : TRUE).bytes
  BY <1>1 DEF SizeOf
<1> QED BY <1>1, <1>2, <1>3

\* The field of a region that is not unknown has one size, and no field up to
\* the first of several sizes intersects it.
LEMMA TypedField ==
    ASSUME NEW n, NEW o, NEW d, InfoOf(n, o, d) # Untyped
    PROVE  /\ o \in DOMAIN n.types
           /\ SizeOf(n.types[o]) # Mixed
           /\ \A p \in DOMAIN n.types \ {o} :
                \/ SizeOf(n.types[p]) = Mixed
                \/ ~ Intersect(o, SizeOf(n.types[o]), p, SizeOf(n.types[p]))
                \/ \E q \in DOMAIN n.types : q < p /\ SizeOf(n.types[q]) = Mixed
<1>1. DisjointCell(n, o) /\ (Typed(n, o, "int") \/ Typed(n, o, "bool") \/ Typed(n, o, "ptr"))
  BY DEF InfoOf
<1>2. o \in DOMAIN n.types /\ ~ Overlapping(n, o)
  BY <1>1 DEF DisjointCell, Typed
<1> QED BY <1>2 DEF Overlapping

\* Two accesses whose intervals do not intersect share no byte.
LEMMA ApartBytes ==
    ASSUME NEW o \in Nat, NEW p \in Nat, NEW s \in Nat, NEW u \in Nat, o # p,
           ~ Intersect(o, s, p, u),
           NEW x \in o .. o + s - 1, NEW y \in p .. p + u - 1
    PROVE  x # y
BY DEF Intersect

LEMMA IInvDisjoint == IInv => TypedDisjoint
<1> SUFFICES ASSUME IInv, NEW r \in named, r.info # Untyped,
                    NEW o \in DOMAIN heap.node[r.cell[1]].types \ {r.cell[2]},
                    ~ \E p \in DOMAIN heap.node[r.cell[1]].types :
                        p =< o /\ SizeOf(heap.node[r.cell[1]].types[p]) = Mixed
             PROVE  BytesAt(r.cell[1], o) \cap BytesAt(r.cell[1], r.cell[2]) = {}
  BY DEF TypedDisjoint
<1> DEFINE n == r.cell[1]
           own == r.cell[2]
           ts == heap.node[n].types
<1>1. heap \in Heaps /\ r.cell \in Cells(heap) /\ r.info = RegionInfoOf(heap, r.cell)
  <2>1. heap \in Heaps /\ HandedOut(ids, heap, r)
    BY DEF IInv, Naming
  <2>2. r # NoRegion
    BY DEF NoRegion
  <2> QED BY <2>1, <2>2 DEF HandedOut
<1>2. n \in DOMAIN heap.node /\ own \in Nat
  BY <1>1 DEF Cells
<1>3. /\ own \in DOMAIN ts
      /\ SizeOf(ts[own]) # Mixed
      /\ \A p \in DOMAIN ts \ {own} :
           \/ SizeOf(ts[p]) = Mixed
           \/ ~ Intersect(own, SizeOf(ts[own]), p, SizeOf(ts[p]))
           \/ \E q \in DOMAIN ts : q < p /\ SizeOf(ts[q]) = Mixed
  <2>1. InfoOf(heap.node[n], own, heap.opt) # Untyped
    BY <1>1 DEF RegionInfoOf
  <2> QED BY <2>1, TypedField
<1>4. DOMAIN ts \subseteq Nat /\ \A p \in DOMAIN ts : \A t \in ts[p] : t.bytes \in Nat
  BY <1>1, <1>2, HeapsAssumption
<1>5. o \in Nat /\ o # own /\ SizeOf(ts[o]) # Mixed
  BY <1>4
<1>6. ~ Intersect(own, SizeOf(ts[own]), o, SizeOf(ts[o]))
  <2>1. \A q \in DOMAIN ts : q < o => SizeOf(ts[q]) # Mixed
    <3>1. \A q \in DOMAIN ts : q < o => q =< o
      BY <1>4, <1>5
    <3> QED BY <3>1
  <2> QED BY <1>3, <1>5, <2>1
<1> SUFFICES ASSUME NEW x \in BytesAt(n, o), x \in BytesAt(n, own) PROVE FALSE
  OBVIOUS
<1>7. PICK t \in ts[o] : x \in o .. o + t.bytes - 1
  BY DEF BytesAt
<1>8. PICK u \in ts[own] : x \in own .. own + u.bytes - 1
  BY DEF BytesAt
<1>9. t.bytes = SizeOf(ts[o]) /\ u.bytes = SizeOf(ts[own])
  BY <1>3, <1>5, SizeOfAccess
<1>10. t.bytes \in Nat /\ u.bytes \in Nat
  BY <1>3, <1>4
<1> HIDE DEF n, own, ts
<1> QED BY <1>2, <1>5, <1>6, <1>7, <1>8, <1>9, <1>10, ApartBytes

\* A region that is not unknown has one type because nothing else writes its
\* bytes: isOverlappingCell finds every other field of the node that touches
\* them, whatever the order and number of fields, up to the first one whose
\* accesses differ in size.
THEOREM RegionsTypedDisjoint == Spec => []TypedDisjoint
BY NumberingInvariant, IInvDisjoint, PTL
=============================================================================
