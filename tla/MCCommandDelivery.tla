-------------------------- MODULE MCCommandDelivery --------------------------
(***************************************************************************)
(* Small instances of CommandDelivery for TLC.  Commands of create() are   *)
(* interchangeable.                                                        *)
(***************************************************************************)
EXTENDS CommandDelivery, TLC

Interchangeable == Permutations(Commands \ Refreshes)

EveryFault == AllFaults
\* The faults the protocol recovers from by itself.
MendedFaults == AllFaults \ {"sql error", "api subscribe", "device subscribe"}
DeviceDrop == {"device drop"}
=============================================================================
