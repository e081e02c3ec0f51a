------------------------------ MODULE RegionTypes ------------------------------
(***************************************************************************)
(* What the heap abstraction says of a field of a sea-dsa node             *)
(* (SeaDsaToRegion.cc).  sea-dsa is a library: a node is data,             *)
(*   size, types    its bytes, and the types accessed at each offset,      *)
(*   collapsed      whether its offsets were merged,                       *)
(*   read, mod      whether it is read or modified,                        *)
(*   cast, ext      whether it is cast to or from an integer, or external, *)
(* and a type is a record of its kind, its width in bits and its bytes.    *)
(***************************************************************************)
EXTENDS Integers, FiniteSets, FiniteSetsExt

IntType(w, bytes) == [k |-> "int", w |-> w, bytes |-> bytes]
BoolType          == [k |-> "bool", w |-> 1, bytes |-> 1]
PtrType           == [k |-> "ptr", w |-> 32, bytes |-> 4]

Info(k, w) == [k |-> k, w |-> w]
Untyped    == Info("unknown", 0)

\* hasCompatibleType: an unknown region fits every region.
Compatible(i, j) == i = Untyped \/ j = Untyped \/ i = j

ContainScalar(i) == i.k \in {"int", "bool"}

-----------------------------------------------------------------------------
\* isTypedCell; isTypedArrayCell asks the same of fewer cells.
Typed(n, o, k) == o \in DOMAIN n.types /\ \A t \in n.types[o] : t.k = k

\* sizeOf: the bytes of an access, or Mixed when the types disagree.
Mixed == -1
SizeOf(S) == IF S = {} THEN 0
             ELSE IF \A t, u \in S : t.bytes = u.bytes THEN (CHOOSE t \in S : TRUE).bytes
             ELSE Mixed

\* intersectInterval, of s bytes at o and r bytes at p.
Intersect(o, s, p, r) == (o =< p /\ p < o + s) \/ (p =< o /\ o < p + r)

\* isOverlappingCell: the other cells are tried from the lowest offset, and
\* one whose types disagree on their size ends the search.
MutOverlapping(n, o) == FALSE
Overlapping(n, o) ==
    LET size(p) == SizeOf(n.types[p])
        others  == DOMAIN n.types \ {o}
    IN /\ o \in DOMAIN n.types
       /\ \/ size(o) = Mixed
          \/ \E p \in others : /\ size(p) # Mixed
                               /\ Intersect(o, size(o), p, size(p))
                               /\ \A q \in others : q < p => size(q) # Mixed

\* isDisjointCell.
DisjointCell(n, o) == ~ Overlapping(n, o) /\ o < n.size

\* SeaDsaToRegion: d is what the heap abstraction was told to disambiguate.
Opaque(n, d) == \/ ~ n.read /\ ~ n.mod
                \/ n.collapsed
                \/ n.cast /\ ~ d.cast
                \/ n.ext /\ ~ d.ext
MinWidth(S) == IF S = {} THEN 0 ELSE Min({t.w : t \in S})
InfoOf(n, o, d) ==
    IF Opaque(n, d) \/ ~ DisjointCell(n, o) THEN Untyped
    ELSE IF Typed(n, o, "int")  THEN Info("int", MinWidth(n.types[o]))
    ELSE IF Typed(n, o, "bool") THEN Info("bool", 1)
    ELSE IF Typed(n, o, "ptr")  THEN Info("ptr", 32)
    ELSE Untyped
=============================================================================
