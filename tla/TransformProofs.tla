--------------------------- MODULE TransformProofs ---------------------------
(***************************************************************************)
(* ConstraintTransform is sound for every width of the type, of int and of *)
(* int64_t, every constant and every source of random numbers.             *)
(***************************************************************************)
EXTENDS ConstraintTransform, TLAPS

\* while a number is drawn, every number that would be accepted is a safe shift
Shiftable ==
  pc = "random_normal" =>
    /\ kind = "le" /\ mode \in {"stronger", "weaker"}
    /\ c \in TypeRange
    /\ \A n \in Int : 0 < n /\ n < max_a =>
         (IF mode = "stronger" THEN c - n ELSE c + n) \in TypeRange

IInv == TypeOK /\ Shiftable /\ Sound /\ ConstantFits

-----------------------------------------------------------------------------
(* The conversion to int.                                                  *)

LEMMA Modulo ==
  ASSUME NEW a \in Int, NEW m \in Nat \ {0}
  PROVE  a % m \in 0..(m - 1) /\ (0 <= a /\ a < m => a % m = a)
  OBVIOUS

\* the conversion gives an int, and the number itself if it is one
LEMMA ToIntLemma ==
  ASSUME NEW n \in Int
  PROVE  /\ ToInt(n) \in Int /\ ToInt(n) <= IntMax
         /\ -IntMax - 1 <= n /\ n <= IntMax => ToInt(n) = n
  <1> DEFINE m == 2 * IntMax + 2
             a == n + IntMax + 1
  <1>1. m \in Nat \ {0} /\ a \in Int /\ IntMax \in Nat
    BY WidthAssumption
  <1>2. a % m \in 0..(m - 1) /\ (0 <= a /\ a < m => a % m = a)
    BY <1>1, Modulo
  <1>3. ToInt(n) = (a % m) - IntMax - 1
    BY DEF ToInt
  <1>4. a < m <=> n <= IntMax
    BY <1>1
  <1>5. 0 <= a <=> -IntMax - 1 <= n
    BY <1>1
  <1>6. ASSUME NEW r \in 0..(m - 1) PROVE r - IntMax - 1 \in Int /\ r - IntMax - 1 <= IntMax
    BY <1>1, <1>6
  <1>7. a - IntMax - 1 = n
    BY <1>1
  <1> HIDE DEF m, a
  <1> QED BY <1>2, <1>3, <1>4, <1>5, <1>6, <1>7

LEMMA ClampLemma ==
  ASSUME NEW n \in Int
  PROVE  /\ ClampInt(n) \in Int /\ ClampInt(n) <= IntMax
         /\ -IntMax - 1 <= n => ClampInt(n) <= n
  BY ToIntLemma, WidthAssumption DEF ClampInt

\* the room that is computed leaves the constant in the range of its type,
\* although max - c may overflow
LEMMA RoomLemma ==
  ASSUME TypeOK, mode \in {"stronger", "weaker"}, ~ mayOverflow(c), NEW r \in Room
  PROVE  /\ r \in Int
         /\ c \in TypeRange
         /\ \A n \in Int : 0 < n /\ n < r =>
              (IF mode = "stronger" THEN c - n ELSE c + n) \in TypeRange
  <1>1. max \in Nat /\ max <= LongMax /\ IntMax \in Nat /\ LongMax \in Nat
        /\ IntMax <= LongMax /\ c \in Int
    BY WidthAssumption DEF TypeOK
  <1>2. c \in TypeRange
    BY <1>1 DEF mayOverflow, TypeRange, min
  <1>3. CASE mode = "stronger"
    <2> DEFINE room == IF c >= 0 THEN max ELSE max + c
    <2>1. r = ClampInt(room) /\ room \in Int /\ -IntMax - 1 <= room
      BY <1>1, <1>2, <1>3 DEF Room, TypeRange, min
    <2>2. r \in Int /\ r <= room
      BY <2>1, ClampLemma
    <2>3. \A n \in Int : 0 < n /\ n < room => c - n \in TypeRange
      BY <1>1, <1>2 DEF TypeRange, min
    <2> HIDE DEF room
    <2>4. \A n \in Int : 0 < n /\ n < r => c - n \in TypeRange
      BY <2>1, <2>2, <2>3
    <2> QED BY <1>2, <1>3, <2>2, <2>4
  <1>4. CASE mode = "weaker" /\ max - c <= LongMax
    <2>1. r = ClampInt(max - c) /\ max - c \in Int /\ -IntMax - 1 <= max - c
      BY <1>1, <1>2, <1>4 DEF Room, TypeRange, min
    <2>2. r \in Int /\ r <= max - c
      BY <2>1, ClampLemma
    <2>3. \A n \in Int : 0 < n /\ n < r => c + n \in TypeRange
      BY <1>1, <1>2, <2>2 DEF TypeRange, min
    <2> QED BY <1>2, <1>4, <2>2, <2>3
  <1>5. CASE mode = "weaker" /\ ~ (max - c <= LongMax)
    <2>1. r = IntMax \/ r = ClampInt(max - c - (2 * LongMax + 2))
      BY <1>1, <1>5 DEF Room
    <2>2. max - c - (2 * LongMax + 2) \in Int
      BY <1>1
    <2>3. r \in Int /\ r <= IntMax
      BY <1>1, <2>1, <2>2, ClampLemma
    <2>4. \A n \in Int : 0 < n /\ n < r => c + n \in TypeRange
      BY <1>1, <1>2, <1>5, <2>3 DEF TypeRange, min
    <2> QED BY <1>2, <1>5, <2>3, <2>4
  <1> QED BY <1>3, <1>4, <1>5

-----------------------------------------------------------------------------
(* The inductive invariant.                                                *)

LEMMA InvInit == Init => IInv
  BY ConstantsAssumption DEF Init, IInv, TypeOK, Shiftable, Sound, ConstantFits, Relations

LEMMA InvStep == IInv /\ [Next]_vars => IInv'
  <1> SUFFICES ASSUME IInv, [Next]_vars PROVE IInv'
    OBVIOUS
  <1>0. max \in Nat
    BY WidthAssumption DEF IInv, TypeOK
  <1>1. CASE Convert
    <2>1. PICK r \in Choices :
            rel' = IF r \notin {"true", "false"} /\ mayOverflow(c) THEN "none" ELSE r
      BY <1>1 DEF Convert
    <2>2. r \in Relations
      BY DEF Choices, Relations, IInv, TypeOK
    <2>3. rhs' = c /\ pc' = "done" /\ UNCHANGED <<max, kind, c, mode, max_a, number>>
      BY <1>1 DEF Convert
    <2>4. rel' \in Relations
      BY <2>1, <2>2 DEF Relations
    <2>5. TypeOK' /\ Shiftable'
      BY <2>3, <2>4 DEF IInv, TypeOK, Shiftable
    <2>6. ConstantFits'
      BY <1>0, <2>1, <2>3 DEF ConstantFits, mayOverflow, TypeRange, min, IInv, TypeOK
    <2>7. ASSUME NEW e \in Int
          PROVE  /\ mode # "weaker" /\ Holds(r, c, e) => Holds(kind, c, e)
                 /\ mode # "stronger" /\ Holds(kind, c, e) => Holds(r, c, e)
      BY DEF Choices, Holds, IInv, TypeOK
    <2>8. Sound'
      BY <1>0, <2>1, <2>3, <2>7 DEF Sound, TypeRange, min, Holds
    <2> QED BY <2>5, <2>6, <2>8 DEF IInv
  <1>2. CASE DismissShift
    BY <1>2 DEF DismissShift, IInv, TypeOK, Shiftable, Sound, ConstantFits, Relations
  <1>3. CASE StartShift
    <2>1. max_a' \in Room /\ number' \in Draws /\ ~ mayOverflow(c) /\ kind = "le"
          /\ mode \in {"stronger", "weaker"} /\ pc' = "random_normal"
          /\ UNCHANGED <<max, kind, c, mode, rel, rhs>>
      BY <1>3 DEF StartShift, IInv, TypeOK
    <2>2. /\ max_a' \in Int
          /\ c \in TypeRange
          /\ \A n \in Int : 0 < n /\ n < max_a' =>
               (IF mode = "stronger" THEN c - n ELSE c + n) \in TypeRange
      BY <2>1, RoomLemma DEF IInv
    <2>3. TypeOK'
      BY <2>1, <2>2, DrawsAssumption DEF IInv, TypeOK
    <2>4. TypeRange' = TypeRange
      BY <2>1 DEF TypeRange, min
    <2>5. Shiftable'
      BY <2>1, <2>2, <2>4 DEF Shiftable
    <2> QED BY <2>1, <2>3, <2>5 DEF IInv, Sound, ConstantFits
  <1>4. CASE Redraw
    <2>1. TypeRange' = TypeRange
      BY <1>4 DEF Redraw, TypeRange, min
    <2> QED BY <1>4, <2>1, DrawsAssumption
         DEF Redraw, IInv, TypeOK, Shiftable, Sound, ConstantFits
  <1>5. CASE Shift
    <2>1. /\ 0 < number /\ number < max_a /\ number \in Int /\ c \in Int
          /\ kind = "le" /\ mode \in {"stronger", "weaker"}
          /\ rel' = "le" /\ rhs' = Shifted /\ pc' = "done"
          /\ UNCHANGED <<max, kind, c, mode, max_a, number>>
      BY <1>5 DEF Shift, Accepted, IInv, TypeOK, Shiftable
    <2>2. rhs' = IF mode = "stronger" THEN c - number ELSE c + number
      BY <2>1 DEF Shifted
    <2>3. rhs' \in TypeRange /\ rhs' \in Int
      BY <1>0, <1>5, <2>1, <2>2 DEF IInv, Shiftable, Shift, TypeRange, min
    <2>4. TypeOK' /\ Shiftable'
      BY <2>1, <2>3 DEF IInv, TypeOK, Shiftable, Relations
    <2>5. ConstantFits'
      BY <2>1, <2>3 DEF ConstantFits, TypeRange, min
    <2>6. ASSUME NEW e \in Int
          PROVE  /\ mode # "weaker" /\ e <= rhs' => e <= c
                 /\ mode # "stronger" /\ e <= c => e <= rhs'
      BY <2>1, <2>2
    <2>7. Sound'
      BY <1>0, <2>1, <2>6 DEF Sound, TypeRange, min, Holds
    <2> QED BY <2>4, <2>5, <2>7 DEF IInv
  <1>6. CASE UNCHANGED vars
    BY <1>6 DEF vars, IInv, TypeOK, Shiftable, Sound, ConstantFits, TypeRange, min
  <1> QED BY <1>1, <1>2, <1>3, <1>4, <1>5, <1>6 DEF Next, Stopped

LEMMA Invariant == Spec => []IInv
  BY InvInit, InvStep, PTL DEF Spec

\* Every variable keeps its type, for every width, constant and draw: the room
\* for a shift is an integer even where its computation overflows.
THEOREM TransformTypes == Spec => []TypeOK
  BY Invariant, PTL DEF IInv

\* For every width and constant, a "stronger" condition implies the invariant
\* it was made from and is implied by it when it is "weaker": the metamorphic
\* relation genCode claims.
THEOREM TransformSound == Spec => []Sound
  BY Invariant, PTL DEF IInv

\* For every width, no constant that is written overflows the constraint's
\* type, even where the computation of max_a overflows.
THEOREM ConstantsFit == Spec => []ConstantFits
  BY Invariant, PTL DEF IInv
=============================================================================
