---------------------------- MODULE MCUVCPreview ----------------------------
(***************************************************************************)
(* Small instances of UVCPreview for TLC.  MAX_FRAME and FRAME_POOL_SZ are *)
(* smaller than in the code (4 and 6), so that a full queue and a full     *)
(* pool are reached with a few frames; so is the heap, so that an          *)
(* allocation that fails is reached too.                                   *)
(***************************************************************************)
EXTENDS UVCPreview, TLC

CONSTANTS f1, f2, f3, f4, f5, c1, c2, cb1, w1, w2

Yuyv == {[mode |-> "YUYV", bytes |-> 2]}
Mjpeg == {[mode |-> "MJPEG", bytes |-> 4]}
TwoSizes == Yuyv \cup {[mode |-> "YUYV", bytes |-> 4]}

(* Frames are interchangeable, and so are the ids of capture threads. *)
Symmetry == Permutations(Frames) \cup Permutations(CaptureThreads)

=============================================================================
