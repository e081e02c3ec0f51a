---------------------------- MODULE MCTransform ----------------------------
(***************************************************************************)
(* A 4-bit int and a 6-bit int64_t; types of 1, 3, 5 and 6 bits, so that   *)
(* one fits an int, one passes its range on both sides, and one is as wide *)
(* as int64_t; constants past both ends of each.                           *)
(***************************************************************************)
EXTENDS ConstraintTransform

MCMaxima == {0, 3, 15, 31}
MCDraws == -2..9
MCConstants == -34..33
=============================================================================
