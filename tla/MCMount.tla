------------------------------ MODULE MCMount ------------------------------
(***************************************************************************)
(* A mount for two folders and programs with three variants: a batch       *)
(* passes the limit, and enough folders can be removed below a high one.   *)
(***************************************************************************)
EXTENDS MountPipe
=============================================================================
