------------------------- MODULE ConstraintTransform -------------------------
(***************************************************************************)
(* CodeExpander (lib/Clam/Optimizer/Optimizer.cc): how one linear          *)
(* constraint  e <= c,  e = c  or  e /= c  over variables of one integer   *)
(* type becomes the condition of an assumption, and how the new constant   *)
(* of a shifted inequality is drawn.  Pipeline knows the outcome by its    *)
(* form only; here it is a relation and a constant, with their meaning     *)
(* over the values e may take in the type.  The constants keep the widths  *)
(* of the code symbolic: it has IntMax = 2^31 - 1 and LongMax = 2^63 - 1.  *)
(***************************************************************************)
EXTENDS Integers

CONSTANTS
  Maxima,    \* the largest values of the integer types
  IntMax,    \* largest int
  LongMax,   \* largest int64_t
  Draws,     \* what ceil of the normal distribution may give
  Constants  \* the right-hand sides the analysis may produce

ASSUME WidthAssumption ==
  /\ IntMax \in Nat /\ LongMax \in Nat
  /\ IntMax <= LongMax
  /\ Maxima \subseteq 0..LongMax
ASSUME DrawsAssumption == Draws \subseteq Int /\ Draws # {}
ASSUME ConstantsAssumption == Constants \subseteq Int

VARIABLES
  max,     \* largest value of the type of the constraint's variables
  kind,    \* the relation of the constraint: le, eq or ne
  c,       \* its right-hand side
  mode,    \* the global Mode, or "stronger" for an added assertion
  max_a,   \* random_normal's max_value
  number,  \* random_normal's last draw
  pc,
  rel,     \* the relation of the condition made, "none" if there is none
  rhs      \* its right-hand side

vars == <<max, kind, c, mode, max_a, number, pc, rel, rhs>>

min == -max - 1
TypeRange == min..max

Relations == {"le", "eq", "ne", "ge", "lt", "true", "false", "none"}

\* what the condition says of the value e
Holds(r, k, e) ==
  \/ r = "le" /\ e <= k
  \/ r = "eq" /\ e = k
  \/ r = "ne" /\ e # k
  \/ r = "ge" /\ e >= k
  \/ r = "lt" /\ e < k
  \/ r = "true"

Init ==
  /\ max \in Maxima
  /\ kind \in {"le", "eq", "ne"}
  /\ c \in Constants
  /\ mode \in {"asis", "stronger", "weaker"}
  /\ max_a = 0 /\ number = 0
  /\ pc = "genCode"
  /\ rel = "none" /\ rhs = 0

mayOverflow(n) == n < min \/ n > max

\* the relations the dice choose from without touching the constant
Choices ==
  IF mode = "stronger"
    THEN IF kind = "le" THEN {"false", "eq", "lt"} ELSE {"false"}
  ELSE IF mode = "weaker"
    THEN IF kind = "eq" THEN {"true", "le", "ge"} ELSE {"true"}
  ELSE {kind}

\* no transformation, or one that keeps the constant; a constraint whose
\* constant does not fit the type is dismissed, unless it need not be built
Convert ==
  /\ pc = "genCode"
  /\ \E r \in Choices :
       rel' = IF r \notin {"true", "false"} /\ mayOverflow(c) THEN "none" ELSE r
  /\ rhs' = c
  /\ pc' = "done"
  /\ UNCHANGED <<max, kind, c, mode, max_a, number>>

\* a shift that cannot be built
DismissShift ==
  /\ pc = "genCode" /\ kind = "le" /\ mode # "asis"
  /\ mayOverflow(c)
  /\ rel' = "none" /\ rhs' = c
  /\ pc' = "done"
  /\ UNCHANGED <<max, kind, c, mode, max_a, number>>

\* the conversion of an int64_t to int
ToInt(n) == ((n + IntMax + 1) % (2 * IntMax + 2)) - IntMax - 1
ClampInt(n) == IF n < IntMax THEN ToInt(n) ELSE IntMax

\* how far the constant may move; max - c overflows int64_t for a negative c
\* of the widest type, where the compiled comparison sees the wrapped value
\* or none
MutRoom == {IF mode = "stronger" THEN ClampInt(max) ELSE ClampInt(max - c)}
Room ==
  IF mode = "stronger"
    THEN {ClampInt(IF c >= 0 THEN max ELSE max + c)}
  ELSE IF max - c <= LongMax
    THEN {ClampInt(max - c)}
  ELSE {ClampInt(max - c - (2 * LongMax + 2)), IntMax}

StartShift ==
  /\ pc = "genCode" /\ kind = "le" /\ mode # "asis"
  /\ ~ mayOverflow(c)
  /\ max_a' \in Room
  /\ number' \in Draws
  /\ pc' = "random_normal"
  /\ UNCHANGED <<max, kind, c, mode, rel, rhs>>

Accepted == number < max_a /\ number > 0

\* the loop of random_normal; its last draw decides
MutRedraw ==
  /\ pc = "random_normal" /\ ~ Accepted
  /\ number' \in {n \in Draws : n < 0}
  /\ UNCHANGED <<max, kind, c, mode, max_a, pc, rel, rhs>>
Redraw ==
  /\ pc = "random_normal" /\ ~ Accepted
  /\ number' \in Draws
  /\ UNCHANGED <<max, kind, c, mode, max_a, pc, rel, rhs>>

MutShifted == IF mode = "weaker" THEN c - number ELSE c + number
Shifted == IF mode = "stronger" THEN c - number ELSE c + number

Shift ==
  /\ pc = "random_normal" /\ Accepted
  /\ rel' = kind /\ rhs' = Shifted
  /\ pc' = "done"
  /\ UNCHANGED <<max, kind, c, mode, max_a, number>>

Stopped == pc = "done" /\ UNCHANGED vars

Next == Convert \/ DismissShift \/ StartShift \/ Redraw \/ Shift \/ Stopped

\* a draw that random_normal would accept: the distribution gives every small
\* number again and again
LuckyRedraw == Redraw /\ Accepted'

Spec == Init /\ [][Next]_vars /\ WF_vars(Next) /\ SF_vars(LuckyRedraw)
-----------------------------------------------------------------------------
(* Correctness.                                                            *)

TypeOK ==
  /\ max \in Maxima
  /\ kind \in {"le", "eq", "ne"}
  /\ c \in Int /\ max_a \in Int /\ number \in Int /\ rhs \in Int
  /\ mode \in {"asis", "stronger", "weaker"}
  /\ pc \in {"genCode", "random_normal", "done"}
  /\ rel \in Relations

\* The metamorphic relation the testing rests on: a "stronger" condition
\* implies the invariant it replaces, an invariant implies its "weaker"
\* replacement, and an untransformed one is the invariant, for every value
\* the expression may take.
Sound ==
  pc = "done" /\ rel # "none" =>
    \A e \in TypeRange :
      /\ mode # "weaker" /\ Holds(rel, rhs, e) => Holds(kind, c, e)
      /\ mode # "stronger" /\ Holds(kind, c, e) => Holds(rel, rhs, e)

\* A constant that is written out fits the type, so that mkNum does not
\* truncate it: the shift never crosses the end of the range.
ConstantFits == pc = "done" /\ rel \notin {"none", "true", "false"} => rhs \in TypeRange

\* random_normal comes back whenever some number lies strictly between 0 and
\* max_a.
ShiftEnds == (pc = "random_normal" /\ max_a > 1) ~> (pc = "done")

=============================================================================
