----------------------------- MODULE MCEnrollment -----------------------------
(***************************************************************************)
(* Small instances of Enrollment for TLC.  No symmetry: a liveness         *)
(* property is checked on the same run.                                    *)
(***************************************************************************)
EXTENDS Enrollment, TLC

=============================================================================
