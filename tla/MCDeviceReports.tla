--------------------------- MODULE MCDeviceReports ---------------------------
(***************************************************************************)
(* A small instance of DeviceReports for TLC: one device reports while two *)
(* are administered, of which the other never reported.                    *)
(***************************************************************************)
EXTENDS DeviceReports, TLC

Interchangeable == Permutations(Reports) \cup Permutations(Groups) \cup Permutations(Fields)

MCInit == Init /\ \A d \in Devices \ Talking : telemetry[d] = NoRow
MCSpec == MCInit /\ [][Next]_vars
=============================================================================
