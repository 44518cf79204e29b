------------------------- MODULE MCAgentEnrollment -------------------------
(***************************************************************************)
(* A small instance of AgentEnrollment for TLC.                            *)
(***************************************************************************)
EXTENDS AgentEnrollment, TLC
=============================================================================
