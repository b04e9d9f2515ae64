----------------------------- MODULE FramePool -----------------------------
(***************************************************************************)
(* The uvc_frame_t objects UVCPreview owns and the pool it recycles them   *)
(* through (UVCPreview.cpp, get_frame, recycle_frame, clear_pool).  A      *)
(* frame is an identity: heap is the set of frames that are allocated and  *)
(* pool the set of those that mFramePool keeps for reuse.  Every function  *)
(* of the pool runs under pool_mutex and touches nothing else, so each is  *)
(* an operator from one value of the memory to the next.                   *)
(***************************************************************************)
EXTENDS Integers, FiniteSets, Sequences

CONSTANTS
    Frames,         \* the frames malloc can hand out at one time
    NoFrame,        \* the null pointer
    FRAME_POOL_SZ   \* the most frames mFramePool keeps

ASSUME FramePoolAssumption ==
    /\ NoFrame \notin Frames
    /\ FRAME_POOL_SZ \in Nat

Memory == [heap : SUBSET Frames, pool : SUBSET Frames]

NoMemory == [heap |-> {}, pool |-> {}]

FramesOrNull == Frames \cup {NoFrame}

(* What get_frame may return: a frame of the pool, a new one when the pool *)
(* is empty, null when the allocation fails.                               *)
Obtainable(m) ==
    IF m.pool # {} THEN m.pool
    ELSE IF Frames \subseteq m.heap THEN {NoFrame} ELSE Frames \ m.heap

(* The memory after get_frame returned f. *)
GetFrame(m, f) ==
    IF f = NoFrame THEN m
    ELSE [heap |-> m.heap \cup {f}, pool |-> m.pool \ {f}]

(* recycle_frame: back to the pool, or freed when the pool is full. *)
RecycleFrame(m, f) ==
    IF f = NoFrame THEN m
    ELSE IF Cardinality(m.pool) < FRAME_POOL_SZ
         THEN [heap |-> m.heap, pool |-> m.pool \cup {f}]
         ELSE [heap |-> m.heap \ {f}, pool |-> m.pool]

(* recycle_frame on each frame of a queue, from the first to the last. *)
RecycleAll(m, queue) ==
    LET room == FRAME_POOL_SZ - Cardinality(m.pool)
        kept == {i \in DOMAIN queue : i <= room}
    IN  [heap |-> m.heap \ {queue[i] : i \in DOMAIN queue \ kept},
         pool |-> m.pool \cup {queue[i] : i \in kept}]

(* clear_pool: the destructor frees what the pool keeps. *)
ClearPool(m) == [heap |-> m.heap \ m.pool, pool |-> {}]

=============================================================================
