----------------------------- MODULE MCCampaign -----------------------------
(***************************************************************************)
(* Two programs to be tested and a third that is too large; one variant of *)
(* each is enough for a core to store two folders in one round, two        *)
(* sessions for a restart to read what the first one left.                 *)
(***************************************************************************)
EXTENDS Campaign, TLC
CoreSymmetry == Permutations(Cores)
=============================================================================
