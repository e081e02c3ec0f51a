----------------------------- MODULE DeltaDebug -----------------------------
(***************************************************************************)
(* utils/delta_debugger.py: ddmin reduces the assumptions of a transformed *)
(* program whose analysis gives a wrong number of warnings.  Each test     *)
(* writes minimized.ll, the program without the assumption lines that are  *)
(* not wanted, and analyses it; clam is deterministic, so a test is a      *)
(* function of the lines that are left.  clam_debugger.py, minimize_all,   *)
(* runs one debugger after another; the list of assumptions is an          *)
(* attribute of the class, which all of them share.                        *)
(***************************************************************************)
EXTENDS Integers, Sequences, FiniteSets, SequencesExt

CONSTANTS
  Programs,    \* the transformed files of the bug folders
  Lines,       \* Lines[p]: the lines of p; a line is code or the text of an assumption
  Code,        \* the text of every line that is no assumption
  Oracles,     \* what clam may find: for each program, the sets of kept lines
               \* for which it gives self.warnings
  Order        \* the order in which minimize_all visits the bug folders

ASSUME ProgramsAssumption == /\ Order \in Seq(Programs) /\ Order # <<>>
                             /\ Lines \in [Programs -> Seq(STRING)]
\* self.warnings is computed on the whole file, which therefore fails
ASSUME OraclesAssumption ==
  \A o \in Oracles : \A p \in Programs :
    /\ o[p] \subseteq SUBSET (1..Len(Lines[p]))
    /\ (1..Len(Lines[p])) \in o[p]

VARIABLES
  fails,        \* the oracle
  bug,          \* index into Order of the debugger at work
  assumptions,  \* DeltaDebugger.assumptions
  inp,          \* the assumptions not ruled out yet
  n,            \* granularity
  start,        \* where the next complement is cut
  minimized,    \* the lines last written to minimized.ll
  pc

vars == <<fails, bug, assumptions, inp, n, start, minimized, pc>>

Program == Order[bug]
Texts == Lines[Program]
IsAssumption(m) == Texts[m] # Code

-----------------------------------------------------------------------------
(* find_assumptions and addSpecificAssumptions walk the lines of the file. *)

\* the list of the class, with the assumptions of the file behind
WithAssumptions ==
  LET list[k \in Nat] ==
        IF k = 0 THEN assumptions
        ELSE IF k <= Len(Texts) /\ IsAssumption(k) THEN Append(list[k - 1], Texts[k])
        ELSE list[k - 1]
  IN  list[Len(Texts)]

AllLines == [m \in 1..Len(Texts) |-> m]

Unwanted(list) ==
  {m \in 1..Len(Texts) : IsAssumption(m) /\ Texts[m] \notin Range(list)}

\* remove() takes the first line with the same text
FirstEqual(po, at) == CHOOSE q \in 1..Len(po) :
                        /\ Texts[po[q]] = Texts[po[at]]
                        /\ \A r \in 1..(q - 1) : Texts[po[r]] # Texts[po[at]]

Without(po, at, unwanted) ==
  IF po[at] \in unwanted THEN RemoveAt(po, FirstEqual(po, at)) ELSE po

\* what is left of the lines po if a for loop walks them from position at on:
\* they are shortened meanwhile, so the line after a removed one is not looked at
Walk(unwanted) ==
  LET walk[s \in Seq(1..Len(Texts)) \X Nat] ==
        IF s[2] > Len(s[1]) THEN s[1]
                            ELSE walk[<<Without(s[1], s[2], unwanted), s[2] + 1>>]
  IN  walk

addSpecificAssumptions(list) == Range(Walk(Unwanted(list))[<<AllLines, 1>>])

\* the test fails: the number of warnings is that of the whole program
Fail(list) == addSpecificAssumptions(list) \in fails[Program]
-----------------------------------------------------------------------------

Init ==
  /\ fails \in Oracles
  /\ bug = 1
  /\ assumptions = <<>> /\ inp = <<>>
  /\ n = 2 /\ start = 0
  /\ minimized = {}
  /\ pc = "init"

\* __init__ and the head of ddmin; find_assumptions appends to the list of the class
FindAssumptions ==
  /\ pc = "init"
  /\ assumptions' = WithAssumptions
  /\ inp' = assumptions'
  /\ n' = 2 /\ start' = 0
  /\ minimized' = addSpecificAssumptions(inp')
  /\ pc' = "outer"
  /\ UNCHANGED <<fails, bug>>

SubsetLength == Len(inp) \div n

Outer ==
  /\ pc = "outer" /\ Len(inp) >= 2
  /\ start' = 0
  /\ pc' = "inner"
  /\ UNCHANGED <<fails, bug, assumptions, inp, n, minimized>>

\* inp without the slice of SubsetLength elements after start
Complement == SubSeq(inp, 1, start) \o SubSeq(inp, start + SubsetLength + 1, Len(inp))

TestFails ==
  /\ pc = "inner" /\ start < Len(inp)
  /\ Fail(Complement)
  /\ minimized' = addSpecificAssumptions(Complement)
  /\ inp' = Complement
  /\ n' = IF n > 2 THEN n - 1 ELSE 2
  /\ pc' = "outer"
  /\ UNCHANGED <<fails, bug, assumptions, start>>

TestPasses ==
  /\ pc = "inner" /\ start < Len(inp)
  /\ ~ Fail(Complement)
  /\ minimized' = addSpecificAssumptions(Complement)
  /\ start' = start + SubsetLength
  /\ UNCHANGED <<fails, bug, assumptions, inp, n, pc>>

\* no complement fails at this granularity
MutRefine ==
  /\ pc = "inner" /\ start >= Len(inp)
  /\ IF n >= Len(inp) \div 2 THEN pc' = "finish" /\ UNCHANGED n
                             ELSE pc' = "outer" /\ n' = n * 2
  /\ UNCHANGED <<fails, bug, assumptions, inp, start, minimized>>
MutRefineForever ==
  /\ pc = "inner" /\ start >= Len(inp)
  /\ pc' = "outer" /\ n' = IF n * 2 < Len(inp) THEN n * 2 ELSE Len(inp)
  /\ UNCHANGED <<fails, bug, assumptions, inp, start, minimized>>
Refine ==
  /\ pc = "inner" /\ start >= Len(inp)
  /\ IF n = Len(inp)
       THEN pc' = "finish" /\ UNCHANGED n
       ELSE pc' = "outer" /\ n' = IF n * 2 < Len(inp) THEN n * 2 ELSE Len(inp)
  /\ UNCHANGED <<fails, bug, assumptions, inp, start, minimized>>

\* minimized.ll is written once more: the last complement tested need not
\* have been the one kept
MutFinish ==
  /\ \/ pc = "finish"
     \/ pc = "outer" /\ Len(inp) < 2
  /\ pc' = "done"
  /\ UNCHANGED <<fails, bug, assumptions, inp, n, start, minimized>>
Finish ==
  /\ \/ pc = "finish"
     \/ pc = "outer" /\ Len(inp) < 2
  /\ minimized' = addSpecificAssumptions(inp)
  /\ pc' = "done"
  /\ UNCHANGED <<fails, bug, assumptions, inp, n, start>>

\* minimize_all goes on to the next folder
NextBug ==
  /\ pc = "done" /\ bug < Len(Order)
  /\ bug' = bug + 1
  /\ pc' = "init"
  /\ UNCHANGED <<fails, assumptions, inp, n, start, minimized>>

Stopped == pc = "done" /\ bug = Len(Order) /\ UNCHANGED vars

Next == \/ FindAssumptions \/ Outer \/ TestFails \/ TestPasses \/ Refine
        \/ Finish \/ NextBug \/ Stopped

Spec == Init /\ [][Next]_vars /\ WF_vars(Next)
-----------------------------------------------------------------------------
(* Correctness.                                                            *)

\* The minimized file still shows the bug: whatever was skipped while lines
\* were removed, minimized.ll is a file that was analysed and failed.
MinimizedStillFails == pc = "done" => minimized \in fails[Program]

\* The result is 1-minimal: no single assumption can be left out any more.
OneMinimal ==
  pc = "done" /\ Len(inp) >= 2 =>
    \A k \in 1..Len(inp) : ~ Fail(RemoveAt(inp, k))

\* An assumption of another bug folder, still in the shared list, is not
\* reported next to one of this folder.
NothingForeign ==
  pc = "done" /\ Len(inp) >= 2 => Range(inp) \subseteq Range(Texts)

\* Every folder is minimized after finitely many tests, although granularity
\* and length move in both directions.
AllMinimized == <>(pc = "done" /\ bug = Len(Order))
=============================================================================
