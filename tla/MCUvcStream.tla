---------------------------- MODULE MCUvcStream ----------------------------
(***************************************************************************)
(* A small instance of UvcStream for TLC.                                  *)
(***************************************************************************)
EXTENDS UvcStream, TLC

CONSTANTS t1, t2

(* No step prefers a transfer. *)
TransferSymmetry == Permutations(Transfers)

=============================================================================
