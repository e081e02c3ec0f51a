-------------------------- MODULE MetamorphicSuite --------------------------
(***************************************************************************)
(* What a suite of metamorphic variants promises, whoever builds it: once  *)
(* the program under test is fixed it never changes again, every published *)
(* variant is that program plus assumptions, and the assumptions of a      *)
(* variant are comparable, constraint by constraint, with those of the     *)
(* first variant published (the reference, initial.bc): a "stronger"       *)
(* variant assumes at least as much, a "weaker" one at most as much.       *)
(*                                                                         *)
(* A variant is a record [mode, program, assumed], where assumed[c] is the *)
(* set of forms under which constraint c is assumed.                       *)
(***************************************************************************)
EXTENDS Naturals, Sequences

CONSTANTS Cst,        \* constraints the analysis inferred
          NoProgram   \* the program under test is not fixed yet

VARIABLES program,    \* the program under test
          suite       \* the variants published so far

\* what a variant may assume of a constraint the reference assumes as `ref`
Admissible(mode, ref) ==
  CASE ref = {"asis"} ->
         IF mode = "stronger"
           THEN {{"asis"}, {"false"}, {"eq"}, {"strict"}, {"shift"}}
           ELSE {{"asis"}, {"true"}, {"shift"}, {"le"}, {"ge"}}
    [] ref = {"false"} -> {{"false"}}
    [] ref = {} -> {{}, IF mode = "stronger" THEN {"false"} ELSE {"true"}}
    [] OTHER -> {}

Conforms(variant, reference) ==
  \A c \in Cst : variant.assumed[c] \in Admissible(variant.mode, reference.assumed[c])

Init == program = NoProgram /\ suite = <<>>

Fix == /\ program = NoProgram
       /\ program' # NoProgram
       /\ UNCHANGED suite

Publish ==
  /\ program # NoProgram
  /\ Len(suite') = Len(suite) + 1
  /\ \A n \in 1..Len(suite) : suite'[n] = suite[n]
  /\ LET new == suite'[Len(suite')]
     IN /\ new.program = program
        /\ Conforms(new, suite'[1])
  /\ UNCHANGED program

Next == Fix \/ Publish

Spec == Init /\ [][Next]_<<program, suite>>
=============================================================================
