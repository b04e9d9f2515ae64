-------------------------- MODULE MCBitmapRequests --------------------------
(***************************************************************************)
(* A small instance of BitmapRequests for TLC.                             *)
(***************************************************************************)
EXTENDS BitmapRequests

CONSTANTS r1, r2, r3

=============================================================================
