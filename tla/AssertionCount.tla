--------------------------- MODULE AssertionCount ---------------------------
(***************************************************************************)
(* scripts/read_results.py, processLog: counts the assertions of a .crabir *)
(* file function by function, and utils/process_clam.py, find_warnings,    *)
(* which takes the totals over.  clam_caller.py compares these totals for  *)
(* the initial and the transformed program when the analysis is            *)
(* inter-procedural.  A line is a declaration or the result of a check.    *)
(***************************************************************************)
EXTENDS Integers, Sequences, FiniteSets

CONSTANTS Functions,  \* names of functions
          MaxLines    \* bound: lines of the file

Lines == [kind: {"declare"}, func: Functions] \cup [kind: {"OK", "FAIL"}]
NoFunction == "None"

\* None is no name
LinesAssumption == MaxLines \in Nat /\ NoFunction \notin Functions

VARIABLES
  log,        \* the lines of the file
  row,        \* lines read
  curr_func,  \* the function last declared
  curr,       \* the counters of the current function
  funmap,     \* the counters stored, by function name
  todo,       \* functions of funmap not added up yet
  totals,     \* total_ok_asserts, total_fail_asserts
  warnings,   \* find_warnings: failed
  pc

vars == <<log, row, curr_func, curr, funmap, todo, totals, warnings, pc>>

Zero == [ok |-> 0, fail |-> 0]

\* a .crabir file opens with the declaration of its first function
Init ==
  /\ log \in {l \in UNION {[1..n -> Lines] : n \in 1..MaxLines} : l[1].kind = "declare"}
  /\ row = 0
  /\ curr_func = NoFunction
  /\ curr = Zero
  /\ funmap = <<>>
  /\ todo = {}
  /\ totals = Zero
  /\ warnings = -1
  /\ pc = "read"

Line == log[row + 1]
Reading == pc = "read" /\ row < Len(log)

\* the counters of the function that ends here are stored under its name,
\* over those of an earlier one of the same name
MutDeclare ==
  /\ Reading /\ Line.kind = "declare"
  /\ funmap' = IF curr_func = NoFunction THEN funmap
               ELSE [f \in DOMAIN funmap \cup {curr_func} |->
                       IF f = curr_func THEN curr ELSE funmap[f]]
  /\ curr_func' = Line.func
  /\ row' = row + 1
  /\ UNCHANGED <<log, curr, todo, totals, warnings, pc>>
Declare ==
  /\ Reading /\ Line.kind = "declare"
  /\ IF curr_func = NoFunction
       THEN UNCHANGED <<funmap, curr>>
       ELSE /\ funmap' = [f \in DOMAIN funmap \cup {curr_func} |->
                            IF f = curr_func THEN curr ELSE funmap[f]]
            /\ curr' = Zero
  /\ curr_func' = Line.func
  /\ row' = row + 1
  /\ UNCHANGED <<log, todo, totals, warnings, pc>>

CountResult ==
  /\ Reading /\ Line.kind # "declare"
  /\ curr' = IF Line.kind = "OK" THEN [curr EXCEPT !.ok = @ + 1]
                                 ELSE [curr EXCEPT !.fail = @ + 1]
  /\ row' = row + 1
  /\ UNCHANGED <<log, curr_func, funmap, todo, totals, warnings, pc>>

EndOfFile ==
  /\ pc = "read" /\ row = Len(log)
  /\ todo' = DOMAIN funmap
  /\ pc' = "total"
  /\ UNCHANGED <<log, row, curr_func, curr, funmap, totals, warnings>>

AddUp ==
  /\ pc = "total"
  /\ \E f \in todo :
       /\ totals' = [ok |-> totals.ok + funmap[f].ok, fail |-> totals.fail + funmap[f].fail]
       /\ todo' = todo \ {f}
  /\ UNCHANGED <<log, row, curr_func, curr, funmap, warnings, pc>>

\* "-- Failed assertions" is printed, and read by find_warnings
FindWarnings ==
  /\ pc = "total" /\ todo = {}
  /\ warnings' = totals.fail
  /\ pc' = "done"
  /\ UNCHANGED <<log, row, curr_func, curr, funmap, todo, totals>>

Stopped == pc = "done" /\ UNCHANGED vars

Next == Declare \/ CountResult \/ EndOfFile \/ AddUp \/ FindWarnings \/ Stopped

Spec == Init /\ [][Next]_vars /\ WF_vars(Next)
-----------------------------------------------------------------------------
(* Correctness.                                                            *)

Declarations == {n \in 1..Len(log) : log[n].kind = "declare"}

\* no two functions of the file have the same name
DistinctNames ==
  \A m, n \in Declarations : log[m].func = log[n].func => m = n

Results(kind, first, last) == Cardinality({n \in first..last : log[n].kind = kind})

\* No result is counted twice, and if the functions have different names, none
\* is lost of a function that a later declaration closes.  Nothing is claimed
\* of the results after the last declaration.
ClosedFunctionsCounted ==
  pc = "done" =>
    /\ warnings <= Results("FAIL", 1, Len(log))
    /\ totals.ok <= Results("OK", 1, Len(log))
    /\ DistinctNames => \A last \in Declarations :
         (\A n \in Declarations : n <= last) =>
           warnings >= Results("FAIL", 1, last) /\ totals.ok >= Results("OK", 1, last)

=============================================================================
