------------------------------ MODULE MCDelta ------------------------------
(***************************************************************************)
(* Two bug folders: one with four assumptions, two of them on consecutive  *)
(* lines and two with the same text, that fails if some of a set of causes *)
(* is kept whole; one with three assumptions on separate lines, that fails *)
(* for arbitrary sets of kept lines, so that no test implies another.      *)
(***************************************************************************)
EXTENDS DeltaDebug, TLC

MCOrder == <<"four", "three">>
MCLines == "four" :> <<"a", "true", "code", "b", "true">>
        @@ "three" :> <<"x", "code", "y", "code", "a">>

Assumptions(p) == {m \in 1..Len(MCLines[p]) : MCLines[p][m] # "code"}
Rest(p) == (1..Len(MCLines[p])) \ Assumptions(p)

\* fails if one of the causes is kept whole
Monotone(p) ==
  {{S \cup Rest(p) : S \in {S \in SUBSET Assumptions(p) : \E C \in causes : C \subseteq S}} :
     causes \in {cs \in SUBSET SUBSET Assumptions(p) : Cardinality(cs) \in 1..2}}
Arbitrary(p) ==
  {{S \cup Rest(p) : S \in family} :
     family \in {f \in SUBSET SUBSET Assumptions(p) : Assumptions(p) \in f}}

MCOracles ==
  {"four" :> f @@ "three" :> {{1, 2, 3, 4, 5}} : f \in Monotone("four")}
  \cup {"four" :> {{1, 2, 3, 4, 5}} @@ "three" :> f : f \in Arbitrary("three")}
=============================================================================
