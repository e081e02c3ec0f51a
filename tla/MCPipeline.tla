----------------------------- MODULE MCPipeline -----------------------------
(***************************************************************************)
(* A small module for TLC: a function of six blocks,                       *)
(*                                                                         *)
(*       1        1 branches to the dead block 3, first, and to 2;         *)
(*      / \       2 heads a loop and loads a value;                        *)
(*     3   2      both edges of 4 are infeasible (it ends in an            *)
(*     |  / \     assumption that fails), so that 6 is dead;               *)
(*     | |   4    5 returns;                                               *)
(*     | |  / \                                                            *)
(*      \| |   6                                                           *)
(*       5-+--/                                                            *)
(*                                                                         *)
(* and block 7, the body of __VERIFIER_assert.  There is a constraint of   *)
(* each sort and of each fate.                                             *)
(***************************************************************************)
EXTENDS Pipeline, TLC

MCBlocks == 1..7
MCSuccessors == 1 :> <<3, 2>> @@ 2 :> <<4, 5>> @@ 3 :> <<5>> @@ 4 :> <<6, 5>>
             @@ 5 :> <<>> @@ 6 :> <<5>> @@ 7 :> <<>>
MCInfeasible == {<<1, 3>>, <<3, 5>>, <<4, 6>>, <<4, 5>>, <<6, 5>>}

MCCst == 1..8
MCHome == 1 :> 1 @@ 2 :> 2 @@ 3 :> 3 @@ 4 :> 4 @@ 5 :> 4 @@ 6 :> 5 @@ 7 :> 7 @@ 8 :> 4
MCAtLoad == {2, 5, 6, 8}
MCKind == 1 :> "inequality" @@ 2 :> "equality" @@ 3 :> "contradiction"
       @@ 4 :> "inequality" @@ 5 :> "tautology" @@ 6 :> "disequation" @@ 7 :> "inequality"
       @@ 8 :> "equality"
MCFate == 1 :> "ok" @@ 2 :> "ok" @@ 3 :> "untyped" @@ 4 :> "overflow"
       @@ 5 :> "untyped" @@ 6 :> "ok" @@ 7 :> "ok" @@ 8 :> "untyped"

MCOption(crabOpt, disableCrab, oneFile, asserts, loc, dce) ==
  [crabOpt |-> crabOpt, disableCrab |-> disableCrab, oneFile |-> oneFile,
   random |-> "random" \in asserts, stronger |-> "stronger" \in asserts,
   oracle |-> "oracle" \in asserts, invLoc |-> loc, dce |-> dce]

MCOptions == {MCOption(TRUE, FALSE, FALSE, {"random", "stronger", "oracle"}, "block", TRUE),
              MCOption(TRUE, FALSE, FALSE, {"oracle"}, "all", TRUE),
              MCOption(TRUE, FALSE, FALSE, {"random"}, "load_inst", FALSE),
              MCOption(TRUE, FALSE, TRUE, {"random", "oracle"}, "all", FALSE),
              MCOption(TRUE, FALSE, FALSE, {"oracle"}, "loop_header", TRUE),
              MCOption(TRUE, FALSE, FALSE, {"oracle"}, "none", TRUE),
              MCOption(TRUE, FALSE, FALSE, {"oracle"}, "none", FALSE),
              MCOption(TRUE, TRUE, FALSE, {"oracle"}, "block", TRUE),
              MCOption(FALSE, FALSE, FALSE, {"oracle"}, "block", TRUE)}
=============================================================================
