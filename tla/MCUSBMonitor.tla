---------------------------- MODULE MCUSBMonitor ----------------------------
(***************************************************************************)
(* Small instances of USBMonitor for TLC.                                  *)
(***************************************************************************)
EXTENDS USBMonitor

CONSTANTS d1, d2

=============================================================================
