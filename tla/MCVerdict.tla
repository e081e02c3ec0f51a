----------------------------- MODULE MCVerdict -----------------------------
(***************************************************************************)
(* The two scripts that judge a variant, each on all its inputs: two files *)
(* of two assertions give every pair of outcomes of check_assertions; five *)
(* lines over three names give two closed functions with results, a        *)
(* function declared twice and a last one that nothing closes.  They share *)
(* no data, so a behaviour runs one of them while the other rests.         *)
(***************************************************************************)
EXTENDS AssertionCompare

CONSTANTS Functions, MaxLines

VARIABLES log, row, curr_func, curr, funmap, todo, totals, warnings, counting

countVars == <<log, row, curr_func, curr, funmap, todo, totals, warnings, counting>>

Count == INSTANCE AssertionCount WITH pc <- counting

ASSUME LinesAssumption == Count!LinesAssumption

CountRests ==
  /\ log = <<[kind |-> "OK"]>> /\ row = 0
  /\ curr_func = Count!NoFunction /\ curr = Count!Zero /\ funmap = <<>> /\ todo = {}
  /\ totals = Count!Zero /\ warnings = 0 /\ counting = "done"

CompareRests ==
  /\ mode = "weaker" /\ init = <<>> /\ tran = <<>>
  /\ i = 0 /\ result = -1 /\ pc = "done"

VerdictInit == \/ Init /\ CountRests
               \/ Count!Init /\ CompareRests

VerdictNext == \/ Next /\ UNCHANGED countVars
               \/ Count!Next /\ UNCHANGED vars

VerdictSpec == VerdictInit /\ [][VerdictNext]_<<vars, countVars>>

ClosedFunctionsCounted == Count!ClosedFunctionsCounted
=============================================================================
