-------------------------- MODULE AssertionCompare --------------------------
(***************************************************************************)
(* utils/process_clam.py, check_assertions: the assertions of the initial  *)
(* program and of one transformed program are compared file by file, one   *)
(* .crabir file per analysed function (or a single one), and the outcomes  *)
(* are folded into one return code.  A file is what compare_assertions     *)
(* reads from it: a dictionary from assertion ids to whether they hold.    *)
(***************************************************************************)
EXTENDS Integers, Sequences, FiniteSets

CONSTANTS Ids,      \* assertion ids
          MaxFiles  \* bound: .crabir files in a folder

ASSUME MaxFilesAssumption == MaxFiles \in Nat

VARIABLES
  mode,    \* tr_mode, read off the folder's name
  init,    \* the dictionaries of the initial program, in order of file name
  tran,    \* those of the transformed program
  i,       \* files compared so far
  result,
  pc

vars == <<mode, init, tran, i, result, pc>>

Dict == UNION {[S -> BOOLEAN] : S \in SUBSET Ids}
Listing == UNION {[1..n -> Dict] : n \in 0..MaxFiles}

Init ==
  /\ mode \in {"stronger", "weaker"}
  /\ init \in Listing /\ tran \in Listing
  /\ i = 0 /\ result = 0
  /\ pc = "start"

Failed(d, t) == {k \in DOMAIN d \cap DOMAIN t : d[k] /\ ~ t[k]}

MutCompare(d, t) ==
  IF Cardinality(DOMAIN d) # Cardinality(DOMAIN t) /\ mode = "weaker" THEN 2
  ELSE IF d = t THEN 0
  ELSE IF mode = "weaker" /\ DOMAIN d = DOMAIN t THEN IF Failed(d, t) # {} THEN 1 ELSE 0
  ELSE IF mode = "weaker" THEN 1
  ELSE IF Failed(d, t) = {} THEN 0 ELSE 1

\* compare_assertions: 0 passed, 1 failed, 2 an assertion is missing
compare_assertions(d, t) ==
  IF mode = "weaker"
    THEN IF Cardinality(DOMAIN d) # Cardinality(DOMAIN t) THEN 2
         ELSE IF d = t THEN 0 ELSE 1
    ELSE IF Failed(d, t) = {} THEN 0 ELSE 1

\* no files, or not as many on both sides
Reject ==
  /\ pc = "start"
  /\ Len(init) # Len(tran) \/ Len(init) = 0
  /\ result' = -1 /\ pc' = "done"
  /\ UNCHANGED <<mode, init, tran, i>>

\* filename.crabir
CompareOnly ==
  /\ pc = "start"
  /\ Len(init) = Len(tran) /\ Len(init) = 1
  /\ result' = compare_assertions(init[1], tran[1])
  /\ i' = 1 /\ pc' = "done"
  /\ UNCHANGED <<mode, init, tran>>

\* filename.functionName.crabir; the check of the function names compares two
\* results of list.sort(), which are None, and lets every pair through
StartLoop ==
  /\ pc = "start"
  /\ Len(init) = Len(tran) /\ Len(init) > 1
  /\ pc' = "loop"
  /\ UNCHANGED <<mode, init, tran, i, result>>

MutCombine(old, res) == old + res
Combine(old, res) == IF old # res THEN old + res ELSE old

CompareNext ==
  /\ pc = "loop" /\ i < Len(init)
  /\ result' = Combine(result, compare_assertions(init[i + 1], tran[i + 1]))
  /\ i' = i + 1
  /\ UNCHANGED <<mode, init, tran, pc>>

Return ==
  /\ pc = "loop" /\ i = Len(init)
  /\ pc' = "done"
  /\ UNCHANGED <<mode, init, tran, i, result>>

Stopped == pc = "done" /\ UNCHANGED vars

Next == Reject \/ CompareOnly \/ StartLoop \/ CompareNext \/ Return \/ Stopped

Spec == Init /\ [][Next]_vars /\ WF_vars(Next)
-----------------------------------------------------------------------------
(* Correctness.                                                            *)

\* some file among the first n was compared with this outcome
Seen(r, n) == \E k \in 1..n : compare_assertions(init[k], tran[k]) = r

\* However many files there are and in whatever order the outcomes come, the
\* code tells the four cases clam_caller.py distinguishes apart: all passed
\* (0), failures only (1), missing only (2), both (3 and above).
CodeTellsOutcomes ==
  pc = "done" /\ result # -1 =>
    /\ result = 0 <=> ~ Seen(1, Len(init)) /\ ~ Seen(2, Len(init))
    /\ result = 1 <=> Seen(1, Len(init)) /\ ~ Seen(2, Len(init))
    /\ result = 2 <=> ~ Seen(1, Len(init)) /\ Seen(2, Len(init))
    /\ result >= 3 <=> Seen(1, Len(init)) /\ Seen(2, Len(init))

\* what a weaker transformation, resp. a stronger one, must not do to the
\* assertions of one function
Regression(d, t) ==
  IF mode = "weaker" THEN d # t ELSE \E k \in DOMAIN d \cap DOMAIN t : d[k] /\ ~ t[k]

\* No regression hides behind the other files: code 0 is given only if no
\* function has one.  Not claimed is that code 0 is right: for a stronger
\* transformation the code does not look at an assertion that one side lacks.
NoRegressionPasses ==
  pc = "done" /\ Len(init) = Len(tran) /\ Len(init) > 0 /\ result = 0 =>
    \A k \in 1..Len(init) : ~ Regression(init[k], tran[k])

=============================================================================
