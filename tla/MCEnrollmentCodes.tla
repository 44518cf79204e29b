-------------------------- MODULE MCEnrollmentCodes --------------------------
(***************************************************************************)
(* A small instance of EnrollmentCodes for TLC: more issues than codes, so *)
(* that numbers are drawn again.                                           *)
(***************************************************************************)
EXTENDS EnrollmentCodes, TLC

Interchangeable == Permutations(Issues) \cup Permutations(Verifiers) \cup Permutations(Codes)
=============================================================================
