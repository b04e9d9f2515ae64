--------------------------- MODULE FramePipeline ---------------------------
(***************************************************************************)
(* The frames of UVCPreview (jni/UVCCamera/UVCPreview.cpp) on their way    *)
(* from libuvc to the surfaces and the callback:                           *)
(*                                                                         *)
(*    frame[Callback] -> previewFrames -> frame[Preview] -> captureQueu    *)
(*        -> frame[t], t a capture thread                                  *)
(*                                                                         *)
(* frame[h] is the local variable of a thread that owns a frame, and       *)
(* converted[t] the second local of do_capture_surface.  The operators     *)
(* below are the moves the functions of UVCPreview make; module UVCPreview *)
(* says which thread makes which move, when.  PipelineSpec is what that    *)
(* control has to guarantee: no thread takes a frame while it has one in   *)
(* hand, or passes on a frame it does not have.                            *)
(***************************************************************************)
EXTENDS FramePool

CONSTANTS
    CaptureThreads,     \* the capture threads the process can have at once
    MAX_FRAME           \* the most frames previewFrames holds

Callback == "callback"
Preview == "preview"
Holders == {Callback, Preview} \cup CaptureThreads

ASSUME FramePipelineAssumption ==
    /\ CaptureThreads \cap {Callback, Preview} = {}
    /\ MAX_FRAME \in Nat

VARIABLES
    previewFrames, captureQueu,     \* the queue and the one-frame mailbox
    mem,                            \* the frames allocated and pooled
    frame, converted,               \* the frames in a thread's locals
    sequence,                       \* frame->sequence, as arrival number
    arrivals                        \* frames the camera has sent

frameVars == <<previewFrames, captureQueu, mem, frame, converted, sequence,
               arrivals>>

(* The frame variables have their types. *)
FramesTyped ==
    /\ previewFrames \in Seq(Frames) /\ Len(previewFrames) <= MAX_FRAME
    /\ captureQueu \in FramesOrNull
    /\ mem \in Memory
    /\ frame \in [Holders -> FramesOrNull]
    /\ converted \in [CaptureThreads -> FramesOrNull]
    /\ sequence \in [Frames -> Nat]
    /\ arrivals \in Nat

PipelineInit ==
    /\ previewFrames = <<>> /\ captureQueu = NoFrame
    /\ mem = NoMemory
    /\ frame = [h \in Holders |-> NoFrame]
    /\ converted = [t \in CaptureThreads |-> NoFrame]
    /\ sequence = [f \in Frames |-> 0]
    /\ arrivals = 0

-----------------------------------------------------------------------------
(* The moves. *)

Hold(h, f) == frame' = [frame EXCEPT ![h] = f]

(* A frame arrives and is copied to f, *)
Receive(f) ==
    /\ mem' = GetFrame(mem, f)
    /\ Hold(Callback, f)
    /\ sequence' = [sequence EXCEPT ![f] = arrivals + 1]
    /\ arrivals' = arrivals + 1
    /\ UNCHANGED <<previewFrames, captureQueu, converted>>

(* or it is missed, and f, if a frame was obtained for it, is recycled.    *)
Miss(f) ==
    /\ mem' = RecycleFrame(GetFrame(mem, f), f)
    /\ arrivals' = arrivals + 1
    /\ UNCHANGED <<previewFrames, captureQueu, frame, converted, sequence>>

(* previewFrames.put *)
Enqueue ==
    /\ previewFrames' = Append(previewFrames, frame[Callback])
    /\ Hold(Callback, NoFrame)
    /\ UNCHANGED <<captureQueu, mem, converted, sequence, arrivals>>

(* A mutant of Dequeue: takes the newest frame of the queue. *)
DequeueNewest ==
    /\ Hold(Preview, previewFrames[Len(previewFrames)])
    /\ previewFrames' = SubSeq(previewFrames, 1, Len(previewFrames) - 1)
    /\ UNCHANGED <<captureQueu, mem, converted, sequence, arrivals>>

(* previewFrames.remove(0) *)
Dequeue ==
    /\ Hold(Preview, Head(previewFrames))
    /\ previewFrames' = Tail(previewFrames)
    /\ UNCHANGED <<captureQueu, mem, converted, sequence, arrivals>>

(* A mutant of Discard: the frame in hand is forgotten, not recycled. *)
DiscardWithoutRecycling(h) ==
    /\ Hold(h, NoFrame)
    /\ UNCHANGED <<previewFrames, captureQueu, mem, converted, sequence,
                   arrivals>>

(* recycle_frame on the frame in hand. *)
Discard(h) ==
    /\ mem' = RecycleFrame(mem, frame[h])
    /\ Hold(h, NoFrame)
    /\ UNCHANGED <<previewFrames, captureQueu, converted, sequence, arrivals>>

(* The frame in hand is converted into f, which replaces it; *)
Replace(h, f) ==
    /\ mem' = RecycleFrame(GetFrame(mem, f), frame[h])
    /\ Hold(h, f)
    /\ sequence' = [sequence EXCEPT ![f] = sequence[frame[h]]]
    /\ UNCHANGED <<previewFrames, captureQueu, converted, arrivals>>

(* and when that fails both are recycled. *)
FailToReplace(h, f) ==
    /\ mem' = RecycleFrame(RecycleFrame(GetFrame(mem, f), frame[h]), f)
    /\ Hold(h, NoFrame)
    /\ UNCHANGED <<previewFrames, captureQueu, converted, sequence, arrivals>>

(* A scratch frame used within one step. *)
UseScratch(f) ==
    /\ mem' = RecycleFrame(GetFrame(mem, f), f)
    /\ UNCHANGED <<previewFrames, captureQueu, frame, converted, sequence,
                   arrivals>>

(* A mutant of Post: the frame the mailbox had is forgotten. *)
PostWithoutRecycling ==
    /\ captureQueu' = frame[Preview]
    /\ Hold(Preview, NoFrame)
    /\ UNCHANGED <<previewFrames, mem, converted, sequence, arrivals>>

(* The mailbox: the frame it had is recycled. *)
Post ==
    /\ mem' = RecycleFrame(mem, captureQueu)
    /\ captureQueu' = frame[Preview]
    /\ Hold(Preview, NoFrame)
    /\ UNCHANGED <<previewFrames, converted, sequence, arrivals>>

Take(t) ==
    /\ Hold(t, captureQueu)
    /\ captureQueu' = NoFrame
    /\ UNCHANGED <<previewFrames, mem, converted, sequence, arrivals>>

(* The frame in hand is neither passed on nor recycled. *)
Lose(h) ==
    /\ Hold(h, NoFrame)
    /\ UNCHANGED <<previewFrames, captureQueu, mem, converted, sequence,
                   arrivals>>

(* The scratch frame that do_capture_surface keeps. *)
KeepScratch(t, f) ==
    /\ mem' = GetFrame(mem, f)
    /\ converted' = [converted EXCEPT ![t] = f]
    /\ UNCHANGED <<previewFrames, captureQueu, frame, sequence, arrivals>>

ReturnScratch(t) ==
    /\ mem' = RecycleFrame(mem, converted[t])
    /\ converted' = [converted EXCEPT ![t] = NoFrame]
    /\ UNCHANGED <<previewFrames, captureQueu, frame, sequence, arrivals>>

ClearPreviewFrame ==
    /\ previewFrames' = <<>>
    /\ mem' = RecycleAll(mem, previewFrames)
    /\ UNCHANGED <<captureQueu, frame, converted, sequence, arrivals>>

(* A mutant of ClearCaptureFrame: captureQueu keeps its pointer. *)
ClearCaptureFrameKeepsIt ==
    /\ mem' = RecycleFrame(mem, captureQueu)
    /\ UNCHANGED <<previewFrames, captureQueu, frame, converted, sequence,
                   arrivals>>

ClearCaptureFrame ==
    /\ captureQueu' = NoFrame
    /\ mem' = RecycleFrame(mem, captureQueu)
    /\ UNCHANGED <<previewFrames, frame, converted, sequence, arrivals>>

(* The destructor. *)
ClearAll ==
    /\ previewFrames' = <<>> /\ captureQueu' = NoFrame
    /\ mem' = ClearPool(RecycleFrame(RecycleAll(mem, previewFrames),
                                     captureQueu))
    /\ UNCHANGED <<frame, converted, sequence, arrivals>>

-----------------------------------------------------------------------------
HasFrame(h) == frame[h] # NoFrame

NewFrames == Obtainable(mem) \ {NoFrame}

CallbackMove ==
    \/ \E f \in NewFrames : ~HasFrame(Callback) /\ Receive(f)
    \/ Miss(NoFrame) \/ \E f \in NewFrames : Miss(f)
    \/ HasFrame(Callback) /\ Len(previewFrames) < MAX_FRAME /\ Enqueue
    \/ HasFrame(Callback) /\ Discard(Callback)

PreviewMove ==
    \/ ~HasFrame(Preview) /\ previewFrames # <<>> /\ Dequeue
    \/ \E f \in NewFrames :
          /\ HasFrame(Preview)
          /\ Replace(Preview, f) \/ FailToReplace(Preview, f)
    \/ \E f \in NewFrames : UseScratch(f)
    \/ HasFrame(Preview) /\ (Post \/ Lose(Preview))

CaptureMove(t) ==
    \/ ~HasFrame(t) /\ captureQueu # NoFrame /\ Take(t)
    \/ \E f \in NewFrames :
          HasFrame(t) /\ (Replace(t, f) \/ FailToReplace(t, f))
    \/ HasFrame(t) /\ Discard(t)
    \/ \E f \in NewFrames : converted[t] = NoFrame /\ KeepScratch(t, f)
    \/ converted[t] # NoFrame /\ ReturnScratch(t)

ClearMove == ClearPreviewFrame \/ ClearCaptureFrame \/ ClearAll

PipelineNext ==
    \/ CallbackMove \/ PreviewMove
    \/ \E t \in CaptureThreads : CaptureMove(t)
    \/ ClearMove

(* What UVCPreview's control guarantees about the frames, whatever its     *)
(* threads, flags and signals do.                                          *)
PipelineSpec == PipelineInit /\ [][PipelineNext]_frameVars

-----------------------------------------------------------------------------
Queued == {previewFrames[i] : i \in DOMAIN previewFrames}

InLocals ==
    {frame[h] : h \in Holders} \cup {converted[t] : t \in CaptureThreads}

(* The frames some part of the program can still reach. *)
Reachable == (mem.pool \cup Queued \cup {captureQueu} \cup InLocals) \ {NoFrame}

Leaked == mem.heap \ Reachable

(* A frame is in one place at a time: the pool, one position of the        *)
(* preview queue, the mailbox, or one local of one thread.  Two threads    *)
(* that hold the same frame write and read its pixels at the same time, a  *)
(* frame that is both pooled and held is handed out again while in use     *)
(* (get_frame, recycle_frame and every caller of them).                    *)
FrameOwnedOnce ==
    /\ Reachable \subseteq mem.heap
    /\ \A i, j \in DOMAIN previewFrames :
          previewFrames[i] = previewFrames[j] => i = j
    /\ mem.pool \cap (Queued \cup {captureQueu} \cup InLocals) = {}
    /\ Queued \cap ({captureQueu} \cup InLocals) = {}
    /\ captureQueu # NoFrame => captureQueu \notin InLocals
    /\ \A g, h \in Holders : frame[g] = frame[h] /\ frame[g] # NoFrame => g = h
    /\ \A t, u \in CaptureThreads :
          converted[t] = converted[u] /\ converted[t] # NoFrame => t = u
    /\ \A h \in Holders, t \in CaptureThreads :
          frame[h] = converted[t] => frame[h] = NoFrame

(* No frame is newer than the last arrival. *)
NoFutureFrame == \A f \in Frames : sequence[f] <= arrivals

(* Frames leave the pipeline in the order they entered it: whatever is     *)
(* further down is older, so that no callback sees time run backwards      *)
(* within a thread and the latest frame is never overwritten by an older   *)
(* one in addCaptureFrame ("keep only latest one").                        *)
Downstream(f, g) == f # NoFrame /\ g # NoFrame => sequence[g] < sequence[f]

PipelineOrder ==
    /\ \A i, j \in DOMAIN previewFrames :
          i < j => Downstream(previewFrames[j], previewFrames[i])
    /\ \A i \in DOMAIN previewFrames :
          /\ Downstream(frame[Callback], previewFrames[i])
          /\ Downstream(previewFrames[i], frame[Preview])
          /\ Downstream(previewFrames[i], captureQueu)
    /\ Downstream(frame[Callback], frame[Preview])
    /\ Downstream(frame[Callback], captureQueu)
    /\ Downstream(frame[Preview], captureQueu)
    /\ \A t \in CaptureThreads :
          /\ \A i \in DOMAIN previewFrames :
                Downstream(previewFrames[i], frame[t])
          /\ Downstream(frame[Callback], frame[t])
          /\ Downstream(frame[Preview], frame[t])
          /\ Downstream(captureQueu, frame[t])

(* What PipelineCorrect (FramePipeline_proofs) shows by induction. *)
PipelineInv ==
    /\ FramesTyped /\ FrameOwnedOnce
    /\ NoFutureFrame /\ PipelineOrder

=============================================================================
