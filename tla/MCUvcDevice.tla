---------------------------- MODULE MCUvcDevice ----------------------------
(***************************************************************************)
(* Small instances of UvcDevice for TLC.                                   *)
(***************************************************************************)
EXTENDS UvcDevice

CONSTANTS t1, t2

=============================================================================
