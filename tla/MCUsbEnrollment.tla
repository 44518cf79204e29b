--------------------------- MODULE MCUsbEnrollment ---------------------------
(* A small instance of UsbEnrollment for TLC. *)
EXTENDS UsbEnrollment, TLC
=============================================================================
