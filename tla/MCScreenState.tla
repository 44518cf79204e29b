---------------------------- MODULE MCScreenState ----------------------------
(***************************************************************************)
(* Small instances of ScreenState for TLC.  No symmetry: the liveness      *)
(* properties are checked on the same runs.                                *)
(***************************************************************************)
EXTENDS ScreenState, TLC

=============================================================================
