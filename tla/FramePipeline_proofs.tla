------------------------ MODULE FramePipeline_proofs ------------------------
(***************************************************************************)
(* What the frames of UVCPreview do in every behaviour of PipelineSpec:    *)
(* each is owned once, and they stay in the order they arrived in, for any *)
(* number of frames and capture threads and any size of queue and pool.    *)
(***************************************************************************)
EXTENDS FramePipeline, TLAPS

(* The two single holders differ, and are no capture threads. *)
LEMMA HolderNames ==
    /\ Callback \in Holders /\ Preview \in Holders
    /\ CaptureThreads \subseteq Holders
    /\ Callback # Preview
    /\ Callback \notin CaptureThreads /\ Preview \notin CaptureThreads
BY FramePipelineAssumption DEF Callback, Preview, Holders

(* The pool's operations stay within the frames. *)
LEMMA MemoryType ==
    ASSUME NEW m \in Memory
    PROVE  /\ Obtainable(m) \subseteq FramesOrNull
           /\ \A f \in FramesOrNull : GetFrame(m, f) \in Memory
           /\ \A f \in FramesOrNull : RecycleFrame(m, f) \in Memory
           /\ \A s \in Seq(Frames) : RecycleAll(m, s) \in Memory
           /\ ClearPool(m) \in Memory
<1>1. Obtainable(m) \subseteq FramesOrNull
  BY DEF Obtainable, Memory, FramesOrNull
<1>2. \A f \in FramesOrNull : GetFrame(m, f) \in Memory
  BY DEF GetFrame, Memory, FramesOrNull
<1>3. \A f \in FramesOrNull : RecycleFrame(m, f) \in Memory
  BY DEF RecycleFrame, Memory, FramesOrNull
<1>4. \A s \in Seq(Frames) : RecycleAll(m, s) \in Memory
  BY DEF RecycleAll, Memory
<1>5. ClearPool(m) \in Memory
  BY DEF ClearPool, Memory
<1> QED BY <1>1, <1>2, <1>3, <1>4, <1>5

(* The frames a move can obtain. *)
LEMMA NewFramesType == FramesTyped => NewFrames \subseteq Frames
BY MemoryType DEF FramesTyped, NewFrames, FramesOrNull

(* The frame variables start with their types, *)
LEMMA PipelineInitTyped == PipelineInit => FramesTyped
BY FramePipelineAssumption
DEF PipelineInit, FramesTyped, Memory, NoMemory, FramesOrNull

(* and every move keeps them. *)
LEMMA PipelineNextTyped ==
    ASSUME FramesTyped, [PipelineNext]_frameVars
    PROVE  FramesTyped'
<1> USE DEF FramesTyped
<1> NewFrames \subseteq Frames
  BY NewFramesType
<1> NoFrame \in FramesOrNull /\ Frames \subseteq FramesOrNull
  BY DEF FramesOrNull
<1> \A h \in Holders : frame[h] \in FramesOrNull
  OBVIOUS
<1>1. ASSUME NEW f \in NewFrames, Receive(f) PROVE FramesTyped'
  <2>1. mem' \in Memory
    BY <1>1, MemoryType DEF Receive
  <2>2. arrivals' \in Nat /\ sequence' \in [Frames -> Nat]
    BY <1>1 DEF Receive
  <2>3. frame' \in [Holders -> FramesOrNull]
    BY <1>1 DEF Receive, Hold
  <2> QED BY <1>1, <2>1, <2>2, <2>3 DEF Receive
<1>2. ASSUME NEW f \in FramesOrNull, Miss(f) PROVE FramesTyped'
  <2>1. GetFrame(mem, f) \in Memory
    BY MemoryType
  <2>2. mem' \in Memory
    BY <1>2, <2>1, MemoryType DEF Miss
  <2> QED BY <1>2, <2>2 DEF Miss
<1>3. ASSUME HasFrame(Callback), Len(previewFrames) < MAX_FRAME, Enqueue
      PROVE  FramesTyped'
  <2>1. frame[Callback] \in Frames
    BY <1>3, HolderNames DEF HasFrame, FramesOrNull
  <2>2. previewFrames' \in Seq(Frames) /\ Len(previewFrames') <= MAX_FRAME
    BY <1>3, <2>1, FramePipelineAssumption DEF Enqueue
  <2>3. frame' \in [Holders -> FramesOrNull]
    BY <1>3 DEF Enqueue, Hold
  <2> QED BY <1>3, <2>2, <2>3 DEF Enqueue
<1>4. ASSUME NEW h \in Holders, Discard(h) PROVE FramesTyped'
  <2>1. mem' \in Memory
    BY <1>4, MemoryType DEF Discard
  <2>2. frame' \in [Holders -> FramesOrNull]
    BY <1>4 DEF Discard, Hold
  <2> QED BY <1>4, <2>1, <2>2 DEF Discard
<1>5. ASSUME previewFrames # <<>>, Dequeue PROVE FramesTyped'
  <2>1. /\ Head(previewFrames) \in Frames
        /\ Tail(previewFrames) \in Seq(Frames)
        /\ Len(Tail(previewFrames)) = Len(previewFrames) - 1
    BY <1>5
  <2>2. previewFrames' \in Seq(Frames) /\ Len(previewFrames') <= MAX_FRAME
    BY <1>5, <2>1, FramePipelineAssumption DEF Dequeue
  <2>3. frame' \in [Holders -> FramesOrNull]
    BY <1>5, <2>1 DEF Dequeue, Hold
  <2> QED BY <1>5, <2>2, <2>3 DEF Dequeue
<1>6. ASSUME NEW h \in Holders, NEW f \in NewFrames, HasFrame(h),
             Replace(h, f) \/ FailToReplace(h, f)
      PROVE  FramesTyped'
  <2>1. frame[h] \in Frames
    BY <1>6 DEF HasFrame, FramesOrNull
  <2>2. GetFrame(mem, f) \in Memory
    BY MemoryType
  <2>3. RecycleFrame(GetFrame(mem, f), frame[h]) \in Memory
    BY <2>2, MemoryType
  <2>4. RecycleFrame(RecycleFrame(GetFrame(mem, f), frame[h]), f) \in Memory
    BY <2>3, MemoryType
  <2>5. mem' \in Memory
    BY <1>6, <2>3, <2>4 DEF Replace, FailToReplace
  <2>6. frame' \in [Holders -> FramesOrNull]
    BY <1>6 DEF Replace, FailToReplace, Hold
  <2>7. sequence' \in [Frames -> Nat]
    BY <1>6, <2>1 DEF Replace, FailToReplace
  <2> QED BY <1>6, <2>5, <2>6, <2>7 DEF Replace, FailToReplace
<1>7. ASSUME NEW f \in NewFrames, UseScratch(f) PROVE FramesTyped'
  <2>1. GetFrame(mem, f) \in Memory
    BY MemoryType
  <2>2. mem' \in Memory
    BY <1>7, <2>1, MemoryType DEF UseScratch
  <2> QED BY <1>7, <2>2 DEF UseScratch
<1>8. ASSUME Post PROVE FramesTyped'
  <2>1. mem' \in Memory
    BY <1>8, MemoryType DEF Post
  <2>2. frame' \in [Holders -> FramesOrNull] /\ captureQueu' \in FramesOrNull
    BY <1>8, HolderNames DEF Post, Hold
  <2> QED BY <1>8, <2>1, <2>2 DEF Post
<1>9. ASSUME Lose(Preview) PROVE FramesTyped'
  <2>1. frame' \in [Holders -> FramesOrNull]
    BY <1>9 DEF Lose, Hold
  <2> QED BY <1>9, <2>1 DEF Lose
<1>10. ASSUME NEW t \in CaptureThreads, Take(t) PROVE FramesTyped'
  <2>1. frame' \in [Holders -> FramesOrNull]
    BY <1>10 DEF Take, Hold
  <2> QED BY <1>10, <2>1 DEF Take
<1>11. ASSUME NEW t \in CaptureThreads, NEW f \in NewFrames, KeepScratch(t, f)
       PROVE  FramesTyped'
  <2>1. mem' \in Memory
    BY <1>11, MemoryType DEF KeepScratch
  <2>2. converted' \in [CaptureThreads -> FramesOrNull]
    BY <1>11 DEF KeepScratch
  <2> QED BY <1>11, <2>1, <2>2 DEF KeepScratch
<1>12. ASSUME NEW t \in CaptureThreads, ReturnScratch(t) PROVE FramesTyped'
  <2>1. mem' \in Memory
    BY <1>12, MemoryType DEF ReturnScratch
  <2>2. converted' \in [CaptureThreads -> FramesOrNull]
    BY <1>12 DEF ReturnScratch
  <2> QED BY <1>12, <2>1, <2>2 DEF ReturnScratch
<1>13. ASSUME ClearMove PROVE FramesTyped'
  <2>1. /\ <<>> \in Seq(Frames) /\ Len(<<>>) <= MAX_FRAME
    BY FramePipelineAssumption
  <2>2. /\ RecycleAll(mem, previewFrames) \in Memory
        /\ RecycleFrame(mem, captureQueu) \in Memory
    BY MemoryType
  <2>3. RecycleFrame(RecycleAll(mem, previewFrames), captureQueu) \in Memory
    BY <2>2, MemoryType
  <2>4. /\ ClearPool(RecycleFrame(RecycleAll(mem, previewFrames), captureQueu))
              \in Memory
    BY <2>3, MemoryType
  <2> QED
    BY <1>13, <2>1, <2>2, <2>4
    DEF ClearMove, ClearPreviewFrame, ClearCaptureFrame, ClearAll
<1>14. ASSUME UNCHANGED frameVars PROVE FramesTyped'
  BY <1>14 DEF frameVars
<1> QED
  BY <1>1, <1>2, <1>3, <1>4, <1>5, <1>6, <1>7, <1>8, <1>9, <1>10, <1>11, <1>12,
     <1>13, <1>14, HolderNames, Zenon
  DEF PipelineNext, CallbackMove, PreviewMove, CaptureMove

-----------------------------------------------------------------------------
(* FrameOwnedOnce, said of each place in turn. *)

Out(m, f) == f \in m.heap /\ f \notin m.pool

PoolOK(m) == m.pool \subseteq m.heap

(* No frame outside the pool is also in it. *)
OwnersOut ==
    /\ PoolOK(mem)
    /\ \A i \in DOMAIN previewFrames : Out(mem, previewFrames[i])
    /\ captureQueu # NoFrame => Out(mem, captureQueu)
    /\ \A h \in Holders : frame[h] # NoFrame => Out(mem, frame[h])
    /\ \A t \in CaptureThreads : converted[t] # NoFrame => Out(mem, converted[t])

(* No frame outside the pool is in two places. *)
OwnersApart ==
    /\ \A i, j \in DOMAIN previewFrames :
          previewFrames[i] = previewFrames[j] => i = j
    /\ \A i \in DOMAIN previewFrames :
          /\ previewFrames[i] # captureQueu
          /\ \A h \in Holders : previewFrames[i] # frame[h]
          /\ \A t \in CaptureThreads : previewFrames[i] # converted[t]
    /\ captureQueu # NoFrame =>
          /\ \A h \in Holders : captureQueu # frame[h]
          /\ \A t \in CaptureThreads : captureQueu # converted[t]
    /\ \A g, h \in Holders : frame[g] = frame[h] /\ frame[g] # NoFrame => g = h
    /\ \A t, u \in CaptureThreads :
          converted[t] = converted[u] /\ converted[t] # NoFrame => t = u
    /\ \A h \in Holders, t \in CaptureThreads :
          frame[h] = converted[t] => frame[h] = NoFrame

(* FrameOwnedOnce, one place at a time. *)
LEMMA OwnedOnceByPlace ==
    ASSUME FramesTyped
    PROVE  FrameOwnedOnce <=> OwnersOut /\ OwnersApart
<1> NoFrame \notin Frames /\ mem \in Memory
  BY FramePoolAssumption DEF FramesTyped
<1> NoFrame \notin mem.pool
  BY DEF Memory
<1> previewFrames \in Seq(Frames)
  BY DEF FramesTyped
<1> \A i \in DOMAIN previewFrames : previewFrames[i] \in Frames
  OBVIOUS
<1>1. ASSUME FrameOwnedOnce PROVE OwnersOut
  BY <1>1 DEF FrameOwnedOnce, OwnersOut, Out, PoolOK, Reachable, Queued, InLocals
<1>2. ASSUME FrameOwnedOnce PROVE OwnersApart
  BY <1>2 DEF FrameOwnedOnce, OwnersApart, Queued, InLocals
<1>3. ASSUME OwnersOut, OwnersApart PROVE FrameOwnedOnce
  <2>1. Reachable \subseteq mem.heap
    BY <1>3 DEF OwnersOut, Out, PoolOK, Reachable, Queued, InLocals
  <2>2. mem.pool \cap (Queued \cup {captureQueu} \cup InLocals) = {}
    BY <1>3 DEF OwnersOut, Out, Queued, InLocals
  <2>3. Queued \cap ({captureQueu} \cup InLocals) = {}
    BY <1>3 DEF OwnersApart, Queued, InLocals
  <2>4. captureQueu # NoFrame => captureQueu \notin InLocals
    BY <1>3 DEF OwnersApart, InLocals
  <2> QED BY <1>3, <2>1, <2>2, <2>3, <2>4 DEF FrameOwnedOnce, OwnersApart
<1> QED BY <1>1, <1>2, <1>3

(* What the pool's operations do to the frames outside it. *)
LEMMA GetFrameOut ==
    ASSUME NEW m \in Memory, PoolOK(m), NEW f \in Obtainable(m) \ {NoFrame}
    PROVE  /\ ~Out(m, f)
           /\ PoolOK(GetFrame(m, f))
           /\ Out(GetFrame(m, f), f)
           /\ \A g : Out(m, g) => Out(GetFrame(m, f), g)
BY DEF Out, PoolOK, GetFrame, Obtainable, Memory

(* The same for recycle_frame, *)
LEMMA RecycleFrameOut ==
    ASSUME NEW m \in Memory, PoolOK(m),
           NEW f \in FramesOrNull, f # NoFrame => Out(m, f)
    PROVE  /\ PoolOK(RecycleFrame(m, f))
           /\ \A g : Out(m, g) /\ g # f => Out(RecycleFrame(m, f), g)
BY DEF Out, PoolOK, RecycleFrame, Memory

(* for recycle_frame on a whole queue, *)
LEMMA RecycleAllOut ==
    ASSUME NEW m \in Memory, PoolOK(m), NEW s \in Seq(Frames),
           \A i \in DOMAIN s : Out(m, s[i]),
           \A i, j \in DOMAIN s : s[i] = s[j] => i = j
    PROVE  /\ PoolOK(RecycleAll(m, s))
           /\ \A g : Out(m, g) /\ (\A i \in DOMAIN s : s[i] # g)
                 => Out(RecycleAll(m, s), g)
BY DEF Out, PoolOK, RecycleAll, Memory

(* and for clear_pool. *)
LEMMA ClearPoolOut ==
    ASSUME NEW m \in Memory, PoolOK(m)
    PROVE  /\ PoolOK(ClearPool(m))
           /\ \A g : Out(m, g) => Out(ClearPool(m), g)
BY DEF Out, PoolOK, ClearPool, Memory

(* A frame just obtained is nobody's. *)
LEMMA NewFrameIsFree ==
    ASSUME FramesTyped, OwnersOut, NEW f \in NewFrames
    PROVE  /\ f \in Obtainable(mem) \ {NoFrame} /\ mem \in Memory
           /\ f \in Frames
           /\ \A i \in DOMAIN previewFrames : previewFrames[i] # f
           /\ captureQueu # f
           /\ \A h \in Holders : frame[h] # f
           /\ \A t \in CaptureThreads : converted[t] # f
<1>1. f \in Obtainable(mem) \ {NoFrame} /\ mem \in Memory /\ f \in Frames
  BY NewFramesType DEF NewFrames, FramesTyped
<1>2. ~Out(mem, f)
  BY <1>1, GetFrameOut DEF OwnersOut
<1> QED BY <1>1, <1>2 DEF OwnersOut

(* Every move keeps one owner for each frame. *)
LEMMA PipelineNextOwners ==
    ASSUME FramesTyped, OwnersOut, OwnersApart, [PipelineNext]_frameVars
    PROVE  OwnersOut' /\ OwnersApart'
<1> USE FramePoolAssumption, HolderNames
<1>t. /\ mem \in Memory /\ PoolOK(mem)
      /\ previewFrames \in Seq(Frames)
      /\ captureQueu \in FramesOrNull
      /\ frame \in [Holders -> FramesOrNull]
      /\ converted \in [CaptureThreads -> FramesOrNull]
  BY DEF FramesTyped, OwnersOut
<1>n. \A i \in DOMAIN previewFrames : previewFrames[i] # NoFrame
  BY <1>t
<1>1. ASSUME NEW f \in NewFrames, ~HasFrame(Callback), Receive(f)
      PROVE  OwnersOut' /\ OwnersApart'
  <2>1. /\ PoolOK(mem') /\ Out(mem', f)
        /\ \A g : Out(mem, g) => Out(mem', g)
    BY <1>1, NewFrameIsFree, GetFrameOut, <1>t DEF Receive
  <2>2. \A h \in Holders : frame'[h] = IF h = Callback THEN f ELSE frame[h]
    BY <1>1, <1>t DEF Receive, Hold
  <2>3. OwnersOut'
    BY <1>1, <2>1, <2>2 DEF Receive, OwnersOut
  <2>4. OwnersApart'
    BY <1>1, <2>2, NewFrameIsFree DEF Receive, OwnersApart
  <2> QED BY <2>3, <2>4
<1>2. ASSUME NEW f \in NewFrames, Miss(f) \/ UseScratch(f)
      PROVE  OwnersOut' /\ OwnersApart'
  <2>1. /\ f \in FramesOrNull
        /\ GetFrame(mem, f) \in Memory /\ PoolOK(GetFrame(mem, f))
        /\ Out(GetFrame(mem, f), f)
        /\ \A g : Out(mem, g) => Out(GetFrame(mem, f), g)
    BY NewFrameIsFree, GetFrameOut, MemoryType, <1>t DEF FramesOrNull
  <2>2. mem' = RecycleFrame(GetFrame(mem, f), f)
    BY <1>2 DEF Miss, UseScratch
  <2>3. PoolOK(mem') /\ \A g : g # f /\ Out(mem, g) => Out(mem', g)
    BY <2>1, <2>2, RecycleFrameOut
  <2>4. UNCHANGED <<previewFrames, captureQueu, frame, converted>>
    BY <1>2 DEF Miss, UseScratch
  <2>5. OwnersOut'
    BY <2>3, <2>4, NewFrameIsFree DEF OwnersOut
  <2> QED BY <2>4, <2>5 DEF OwnersApart
<1>0. ASSUME Miss(NoFrame) PROVE OwnersOut' /\ OwnersApart'
  BY <1>0 DEF Miss, GetFrame, RecycleFrame, OwnersOut, OwnersApart
<1>3. ASSUME HasFrame(Callback), Enqueue
      PROVE  OwnersOut' /\ OwnersApart'
  <2>1. \A h \in Holders : frame'[h] = IF h = Callback THEN NoFrame ELSE frame[h]
    BY <1>3, <1>t DEF Enqueue, Hold
  <2>2. frame[Callback] \in Frames
    BY <1>3, <1>t DEF HasFrame, FramesOrNull
  <2>3. /\ DOMAIN previewFrames' = 1 .. (Len(previewFrames) + 1)
        /\ \A i \in DOMAIN previewFrames' :
              previewFrames'[i] = IF i = Len(previewFrames) + 1
                                  THEN frame[Callback] ELSE previewFrames[i]
        /\ DOMAIN previewFrames = 1 .. Len(previewFrames)
        /\ Len(previewFrames) \in Nat
    BY <1>3, <1>t, <2>2 DEF Enqueue
  <2>4. \A i \in DOMAIN previewFrames' :
           i \in DOMAIN previewFrames \/ i = Len(previewFrames) + 1
    BY <2>3
  <2>5. OwnersOut'
    BY <1>3, <2>1, <2>3, <2>4 DEF Enqueue, OwnersOut, HasFrame
  <2>6. OwnersApart'
    BY <1>3, <1>n, <2>1, <2>2, <2>3, <2>4 DEF Enqueue, OwnersApart, HasFrame
  <2> QED BY <2>5, <2>6
<1>4. ASSUME previewFrames # <<>>, ~HasFrame(Preview), Dequeue
      PROVE  OwnersOut' /\ OwnersApart'
  <2>1. \A h \in Holders :
           frame'[h] = IF h = Preview THEN previewFrames[1] ELSE frame[h]
    BY <1>4, <1>t DEF Dequeue, Hold
  <2>2. /\ 1 \in DOMAIN previewFrames
        /\ DOMAIN previewFrames \subseteq Nat
        /\ \A i \in DOMAIN previewFrames' :
              /\ i + 1 \in DOMAIN previewFrames /\ i + 1 # 1
              /\ i \in Nat
              /\ previewFrames'[i] = previewFrames[i + 1]
    BY <1>4, <1>t DEF Dequeue
  <2>3. OwnersOut'
    BY <1>4, <2>1, <2>2 DEF Dequeue, OwnersOut, HasFrame
  <2>4. OwnersApart'
    BY <1>4, <2>1, <2>2 DEF Dequeue, OwnersApart, HasFrame
  <2> QED BY <2>3, <2>4
<1>5. ASSUME NEW h \in Holders, HasFrame(h), Discard(h)
      PROVE  OwnersOut' /\ OwnersApart'
  <2>1. \A g \in Holders : frame'[g] = IF g = h THEN NoFrame ELSE frame[g]
    BY <1>5, <1>t DEF Discard, Hold
  <2>2. /\ PoolOK(mem')
        /\ \A g : Out(mem, g) /\ g # frame[h] => Out(mem', g)
    BY <1>5, <1>t, RecycleFrameOut DEF Discard, OwnersOut
  <2>3. OwnersOut'
    BY <1>5, <2>1, <2>2 DEF Discard, OwnersOut, OwnersApart, HasFrame
  <2>4. OwnersApart'
    BY <1>5, <1>n, <2>1 DEF Discard, OwnersApart
  <2> QED BY <2>3, <2>4
<1>6. ASSUME NEW h \in Holders, NEW f \in NewFrames, HasFrame(h),
             Replace(h, f) \/ FailToReplace(h, f)
      PROVE  OwnersOut' /\ OwnersApart'
  <2> DEFINE m == GetFrame(mem, f)
             n == RecycleFrame(m, frame[h])
  <2>1. /\ f \in FramesOrNull /\ f # NoFrame /\ f # frame[h]
        /\ frame[h] \in FramesOrNull
        /\ m \in Memory /\ PoolOK(m) /\ Out(m, f)
        /\ \A g : Out(mem, g) => Out(m, g)
    BY <1>t, NewFrameIsFree, GetFrameOut, MemoryType DEF FramesOrNull
  <2>2. Out(m, frame[h])
    BY <1>6, <2>1 DEF OwnersOut, HasFrame
  <2>3. /\ n \in Memory /\ PoolOK(n) /\ Out(n, f)
        /\ \A g : Out(mem, g) /\ g # frame[h] => Out(n, g)
    <3> HIDE DEF m
    <3> QED BY <2>1, <2>2, RecycleFrameOut, MemoryType
  <2>4. /\ PoolOK(RecycleFrame(n, f))
        /\ \A g : Out(mem, g) /\ g # frame[h] /\ g # f
              => Out(RecycleFrame(n, f), g)
    <3> HIDE DEF n
    <3> QED BY <2>1, <2>3, RecycleFrameOut
  <2> HIDE DEF m, n
  <2>5. CASE Replace(h, f)
    <3>1. /\ \A g \in Holders : frame'[g] = IF g = h THEN f ELSE frame[g]
          /\ mem' = n
      BY <2>5, <1>t DEF Replace, Hold, m, n
    <3>2. OwnersOut'
      BY <1>6, <2>1, <2>3, <2>5, <3>1
      DEF Replace, OwnersOut, OwnersApart, HasFrame
    <3>3. OwnersApart'
      BY <2>5, <3>1, NewFrameIsFree DEF Replace, OwnersApart
    <3> QED BY <3>2, <3>3
  <2>6. CASE FailToReplace(h, f)
    <3>1. /\ \A g \in Holders : frame'[g] = IF g = h THEN NoFrame ELSE frame[g]
          /\ mem' = RecycleFrame(n, f)
      BY <2>6, <1>t DEF FailToReplace, Hold, m, n
    <3>2. OwnersOut'
      BY <1>6, <2>1, <2>4, <2>6, <3>1, NewFrameIsFree
      DEF FailToReplace, OwnersOut, OwnersApart, HasFrame
    <3>3. OwnersApart'
      BY <2>6, <1>n, <3>1 DEF FailToReplace, OwnersApart
    <3> QED BY <3>2, <3>3
  <2> QED BY <1>6, <2>5, <2>6
<1>7. ASSUME HasFrame(Preview), Post
      PROVE  OwnersOut' /\ OwnersApart'
  <2>1. \A g \in Holders : frame'[g] = IF g = Preview THEN NoFrame ELSE frame[g]
    BY <1>7, <1>t DEF Post, Hold
  <2>2. /\ PoolOK(mem')
        /\ \A g : Out(mem, g) /\ g # captureQueu => Out(mem', g)
    BY <1>7, <1>t, RecycleFrameOut DEF Post, OwnersOut
  <2>3. OwnersOut'
    BY <1>7, <2>1, <2>2 DEF Post, OwnersOut, OwnersApart, HasFrame
  <2>4. OwnersApart'
    BY <1>7, <1>n, <2>1 DEF Post, OwnersApart, HasFrame
  <2> QED BY <2>3, <2>4
<1>8. ASSUME Lose(Preview)
      PROVE  OwnersOut' /\ OwnersApart'
  <2>1. \A g \in Holders : frame'[g] = IF g = Preview THEN NoFrame ELSE frame[g]
    BY <1>8, <1>t DEF Lose, Hold
  <2> QED BY <1>8, <1>n, <2>1 DEF Lose, OwnersOut, OwnersApart
<1>9. ASSUME NEW t \in CaptureThreads, captureQueu # NoFrame, ~HasFrame(t),
             Take(t)
      PROVE  OwnersOut' /\ OwnersApart'
  <2>1. \A g \in Holders : frame'[g] = IF g = t THEN captureQueu ELSE frame[g]
    BY <1>9, <1>t DEF Take, Hold
  <2>3. OwnersOut'
    BY <1>9, <2>1 DEF Take, OwnersOut
  <2>4. OwnersApart'
    BY <1>9, <1>n, <2>1 DEF Take, OwnersApart
  <2> QED BY <2>3, <2>4
<1>10. ASSUME NEW t \in CaptureThreads, NEW f \in NewFrames,
              converted[t] = NoFrame, KeepScratch(t, f)
       PROVE  OwnersOut' /\ OwnersApart'
  <2>1. \A u \in CaptureThreads :
           converted'[u] = IF u = t THEN f ELSE converted[u]
    BY <1>10, <1>t DEF KeepScratch
  <2>2. /\ PoolOK(mem') /\ Out(mem', f)
        /\ \A g : Out(mem, g) => Out(mem', g)
    BY <1>10, NewFrameIsFree, GetFrameOut, <1>t DEF KeepScratch
  <2>3. OwnersOut'
    BY <1>10, <2>1, <2>2 DEF KeepScratch, OwnersOut
  <2>4. OwnersApart'
    BY <1>10, <2>1, NewFrameIsFree DEF KeepScratch, OwnersApart
  <2> QED BY <2>3, <2>4
<1>11. ASSUME NEW t \in CaptureThreads, converted[t] # NoFrame, ReturnScratch(t)
       PROVE  OwnersOut' /\ OwnersApart'
  <2>1. \A u \in CaptureThreads :
           converted'[u] = IF u = t THEN NoFrame ELSE converted[u]
    BY <1>11, <1>t DEF ReturnScratch
  <2>2. /\ PoolOK(mem')
        /\ \A g : Out(mem, g) /\ g # converted[t] => Out(mem', g)
    BY <1>11, <1>t, RecycleFrameOut DEF ReturnScratch, OwnersOut
  <2>3. OwnersOut'
    BY <1>11, <2>1, <2>2 DEF ReturnScratch, OwnersOut, OwnersApart
  <2>4. OwnersApart'
    BY <1>11, <1>t, <2>1 DEF ReturnScratch, OwnersApart
  <2> QED BY <2>3, <2>4
<1>12. ASSUME ClearPreviewFrame
       PROVE  OwnersOut' /\ OwnersApart'
  <2>1. /\ PoolOK(mem')
        /\ \A g : Out(mem, g) /\ (\A i \in DOMAIN previewFrames : previewFrames[i] # g)
              => Out(mem', g)
    BY <1>12, <1>t, RecycleAllOut DEF ClearPreviewFrame, OwnersOut, OwnersApart
  <2>2. DOMAIN previewFrames' = {}
    BY <1>12 DEF ClearPreviewFrame
  <2> QED BY <1>12, <2>1, <2>2 DEF ClearPreviewFrame, OwnersOut, OwnersApart
<1>13. ASSUME ClearCaptureFrame
       PROVE  OwnersOut' /\ OwnersApart'
  <2>1. /\ PoolOK(mem')
        /\ \A g : Out(mem, g) /\ g # captureQueu => Out(mem', g)
    BY <1>13, <1>t, RecycleFrameOut DEF ClearCaptureFrame, OwnersOut
  <2> QED
    BY <1>13, <1>n, <2>1 DEF ClearCaptureFrame, OwnersOut, OwnersApart
<1>14. ASSUME ClearAll
       PROVE  OwnersOut' /\ OwnersApart'
  <2> DEFINE m == RecycleAll(mem, previewFrames)
             n == RecycleFrame(m, captureQueu)
  <2>1. /\ m \in Memory /\ PoolOK(m)
        /\ \A g : Out(mem, g) /\ (\A i \in DOMAIN previewFrames : previewFrames[i] # g)
              => Out(m, g)
    BY <1>t, RecycleAllOut, MemoryType DEF OwnersOut, OwnersApart
  <2>2. captureQueu # NoFrame => Out(m, captureQueu)
    BY <2>1 DEF OwnersOut, OwnersApart
  <2>3. /\ n \in Memory /\ PoolOK(n)
        /\ \A g : Out(m, g) /\ g # captureQueu => Out(n, g)
    <3> HIDE DEF m
    <3> QED BY <1>t, <2>1, <2>2, RecycleFrameOut, MemoryType
  <2>4. mem' = ClearPool(n)
    BY <1>14 DEF ClearAll
  <2> HIDE DEF m, n
  <2>5. PoolOK(mem') /\ \A g : Out(n, g) => Out(mem', g)
    BY <2>3, <2>4, ClearPoolOut
  <2>6. DOMAIN previewFrames' = {}
    BY <1>14 DEF ClearAll
  <2> QED
    BY <1>14, <2>1, <2>3, <2>5, <2>6 DEF ClearAll, OwnersOut, OwnersApart
<1>15. ASSUME UNCHANGED frameVars PROVE OwnersOut' /\ OwnersApart'
  BY <1>15 DEF frameVars, OwnersOut, OwnersApart
<1> QED
  BY <1>0, <1>1, <1>2, <1>3, <1>4, <1>5, <1>6, <1>7, <1>8, <1>9, <1>10, <1>11, <1>12,
     <1>13, <1>14, <1>15, Zenon
  DEF PipelineNext, CallbackMove, PreviewMove, CaptureMove, ClearMove

-----------------------------------------------------------------------------
(* The order of arrival. *)

(* No move makes a frame newer than the last arrival. *)
LEMMA PipelineNextNoFuture ==
    ASSUME FramesTyped, NoFutureFrame, [PipelineNext]_frameVars
    PROVE  NoFutureFrame'
<1> USE FramePoolAssumption, HolderNames
<1>t. /\ sequence \in [Frames -> Nat] /\ arrivals \in Nat
      /\ frame \in [Holders -> FramesOrNull]
      /\ NewFrames \subseteq Frames
  BY NewFramesType DEF FramesTyped
<1>1. ASSUME NEW f \in NewFrames, Receive(f) PROVE NoFutureFrame'
  BY <1>1, <1>t DEF Receive, NoFutureFrame
<1>2. ASSUME NEW f \in FramesOrNull, Miss(f) PROVE NoFutureFrame'
  BY <1>2, <1>t DEF Miss, NoFutureFrame
<1>3. ASSUME NEW h \in Holders, NEW f \in NewFrames, HasFrame(h), Replace(h, f)
      PROVE  NoFutureFrame'
  <2>1. frame[h] \in Frames
    BY <1>3, <1>t DEF HasFrame, FramesOrNull
  <2> QED BY <1>3, <2>1, <1>t DEF Replace, NoFutureFrame
<1>4. ASSUME UNCHANGED <<sequence, arrivals>> PROVE NoFutureFrame'
  BY <1>4 DEF NoFutureFrame
<1>5. NoFrame \in FramesOrNull /\ \A f \in NewFrames : f \in FramesOrNull
  BY <1>t DEF FramesOrNull
<1> QED
  BY <1>1, <1>2, <1>3, <1>4, <1>5
  DEF PipelineNext, CallbackMove, PreviewMove, CaptureMove, ClearMove, Enqueue,
      Discard, Dequeue, FailToReplace, UseScratch, Post, Lose, Take,
      KeepScratch, ReturnScratch, ClearPreviewFrame, ClearCaptureFrame, ClearAll,
      frameVars

(* Every move keeps what is downstream older. *)
LEMMA PipelineNextOrder ==
    ASSUME FramesTyped, OwnersOut, NoFutureFrame, PipelineOrder,
           [PipelineNext]_frameVars
    PROVE  PipelineOrder'
<1> USE FramePoolAssumption, HolderNames
<1>t. /\ previewFrames \in Seq(Frames)
      /\ captureQueu \in FramesOrNull
      /\ frame \in [Holders -> FramesOrNull]
      /\ sequence \in [Frames -> Nat]
      /\ arrivals \in Nat
  BY DEF FramesTyped
<1>n. \A i \in DOMAIN previewFrames : previewFrames[i] \in Frames
  BY <1>t
<1>1. ASSUME NEW f \in NewFrames, ~HasFrame(Callback), Receive(f)
      PROVE  PipelineOrder'
  <2>1. \A h \in Holders : frame'[h] = IF h = Callback THEN f ELSE frame[h]
    BY <1>1, <1>t DEF Receive, Hold
  <2>2. /\ sequence'[f] = arrivals + 1
        /\ \A g \in Frames : g # f =>
              sequence'[g] = sequence[g] /\ sequence'[g] < arrivals + 1
    BY <1>1, <1>t, NewFrameIsFree DEF Receive, NoFutureFrame
  <2> QED
    BY <1>1, <1>n, <1>t, <2>1, <2>2, NewFrameIsFree
    DEF Receive, PipelineOrder, Downstream, FramesOrNull
<1>2. ASSUME HasFrame(Callback), Enqueue
      PROVE  PipelineOrder'
  <2>1. \A h \in Holders : frame'[h] = IF h = Callback THEN NoFrame ELSE frame[h]
    BY <1>2, <1>t DEF Enqueue, Hold
  <2>2. frame[Callback] \in Frames
    BY <1>2, <1>t DEF HasFrame, FramesOrNull
  <2>3. /\ DOMAIN previewFrames' = 1 .. (Len(previewFrames) + 1)
        /\ \A i \in DOMAIN previewFrames' :
              previewFrames'[i] = IF i = Len(previewFrames) + 1
                                  THEN frame[Callback] ELSE previewFrames[i]
        /\ DOMAIN previewFrames = 1 .. Len(previewFrames)
        /\ Len(previewFrames) \in Nat
    BY <1>2, <1>t, <2>2 DEF Enqueue
  <2>4. /\ \A i \in DOMAIN previewFrames' :
              i \in DOMAIN previewFrames \/ i = Len(previewFrames) + 1
        /\ \A i, j \in DOMAIN previewFrames' : i < j => i \in DOMAIN previewFrames
    BY <2>3
  <2> QED
    BY <1>2, <2>1, <2>2, <2>3, <2>4 DEF Enqueue, PipelineOrder, Downstream
<1>3. ASSUME previewFrames # <<>>, ~HasFrame(Preview), Dequeue
      PROVE  PipelineOrder'
  <2>1. \A h \in Holders :
           frame'[h] = IF h = Preview THEN previewFrames[1] ELSE frame[h]
    BY <1>3, <1>t DEF Dequeue, Hold
  <2>2. /\ 1 \in DOMAIN previewFrames
        /\ \A i \in DOMAIN previewFrames' :
              /\ i + 1 \in DOMAIN previewFrames /\ 1 < i + 1
              /\ previewFrames'[i] = previewFrames[i + 1]
        /\ \A i, j \in DOMAIN previewFrames' : i < j => i + 1 < j + 1
    BY <1>3, <1>t DEF Dequeue
  <2> QED
    BY <1>3, <2>1, <2>2 DEF Dequeue, PipelineOrder, Downstream
<1>4. ASSUME NEW h \in Holders, Discard(h) \/ Lose(h)
             \/ \E f \in NewFrames : FailToReplace(h, f)
      PROVE  PipelineOrder'
  <2>1. \A g \in Holders : frame'[g] = IF g = h THEN NoFrame ELSE frame[g]
    BY <1>4, <1>t DEF Discard, Lose, FailToReplace, Hold
  <2>2. UNCHANGED <<previewFrames, captureQueu, sequence>>
    BY <1>4 DEF Discard, Lose, FailToReplace
  <2> QED BY <2>1, <2>2 DEF PipelineOrder, Downstream
<1>5. ASSUME NEW h \in Holders, NEW f \in NewFrames, HasFrame(h), Replace(h, f)
      PROVE  PipelineOrder'
  <2>1. \A g \in Holders : frame'[g] = IF g = h THEN f ELSE frame[g]
    BY <1>5, <1>t DEF Replace, Hold
  <2>2. /\ frame[h] \in Frames
        /\ sequence'[f] = sequence[frame[h]]
        /\ \A g \in Frames : g # f => sequence'[g] = sequence[g]
    BY <1>5, <1>t, NewFrameIsFree DEF Replace, HasFrame, FramesOrNull
  <2>3. /\ \A i \in DOMAIN previewFrames :
              sequence'[previewFrames[i]] = sequence[previewFrames[i]]
        /\ captureQueu # NoFrame => sequence'[captureQueu] = sequence[captureQueu]
        /\ \A g \in Holders :
              frame[g] # NoFrame => sequence'[frame[g]] = sequence[frame[g]]
    BY <1>n, <1>t, <2>2, NewFrameIsFree DEF FramesOrNull
  <2>4. UNCHANGED <<previewFrames, captureQueu>> /\ frame[h] # NoFrame
    BY <1>5 DEF Replace, HasFrame
  <2> QED
    BY <2>1, <2>2, <2>3, <2>4 DEF PipelineOrder, Downstream
<1>6. ASSUME HasFrame(Preview), Post
      PROVE  PipelineOrder'
  <2>1. \A g \in Holders : frame'[g] = IF g = Preview THEN NoFrame ELSE frame[g]
    BY <1>6, <1>t DEF Post, Hold
  <2> QED BY <1>6, <2>1 DEF Post, PipelineOrder, Downstream
<1>7. ASSUME NEW t \in CaptureThreads, captureQueu # NoFrame, Take(t)
      PROVE  PipelineOrder'
  <2>1. \A g \in Holders : frame'[g] = IF g = t THEN captureQueu ELSE frame[g]
    BY <1>7, <1>t DEF Take, Hold
  <2> QED BY <1>7, <2>1 DEF Take, PipelineOrder, Downstream
<1>8. ASSUME ClearMove
      PROVE  PipelineOrder'
  <2>1. /\ UNCHANGED <<frame, sequence>>
        /\ previewFrames' = previewFrames \/ DOMAIN previewFrames' = {}
        /\ captureQueu' = captureQueu \/ captureQueu' = NoFrame
    BY <1>8 DEF ClearMove, ClearPreviewFrame, ClearCaptureFrame, ClearAll
  <2> QED BY <2>1 DEF PipelineOrder, Downstream
<1>9. ASSUME UNCHANGED <<previewFrames, captureQueu, frame, sequence>>
      PROVE  PipelineOrder'
  BY <1>9 DEF PipelineOrder, Downstream
<1> QED
  BY <1>1, <1>2, <1>3, <1>4, <1>5, <1>6, <1>7, <1>8, <1>9
  DEF PipelineNext, CallbackMove, PreviewMove, CaptureMove, Miss, UseScratch,
      KeepScratch, ReturnScratch, frameVars

-----------------------------------------------------------------------------
(* Leaks. *)

(* No part of the program can reach frame g. *)
Gone(g) ==
    /\ Out(mem, g)
    /\ \A i \in DOMAIN previewFrames : previewFrames[i] # g
    /\ captureQueu # g
    /\ \A h \in Holders : frame[h] # g
    /\ \A t \in CaptureThreads : converted[t] # g

LEMMA LeakedByPlace == FramesTyped => Leaked = {g \in Frames : Gone(g)}
<1> SUFFICES ASSUME FramesTyped PROVE Leaked = {g \in Frames : Gone(g)}
  OBVIOUS
<1>1. mem.heap \subseteq Frames /\ NoFrame \notin Frames
  BY FramePoolAssumption DEF FramesTyped, Memory
<1>2. \A g \in mem.heap : g \notin Reachable <=> Gone(g)
  BY <1>1 DEF Reachable, Queued, InLocals, Gone, Out
<1>3. \A g : Gone(g) => g \in mem.heap
  BY DEF Gone, Out
<1> QED BY <1>1, <1>2, <1>3 DEF Leaked

(* The pool's operations bring nothing out of the pool but the frame       *)
(* get_frame returns, and what they recycle is not out any more.           *)
LEMMA GetFrameOnly ==
    ASSUME NEW m \in Memory, NEW f, NEW g, Out(GetFrame(m, f), g)
    PROVE  Out(m, g) \/ g = f
BY DEF Out, GetFrame, Memory

LEMMA RecycledIsIn ==
    ASSUME NEW m \in Memory, NEW f, NEW g \in Frames, Out(RecycleFrame(m, f), g)
    PROVE  Out(m, g) /\ g # f
BY FramePoolAssumption DEF Out, RecycleFrame, Memory

LEMMA AllRecycledAreIn ==
    ASSUME NEW m \in Memory, NEW s, NEW g, Out(RecycleAll(m, s), g)
    PROVE  Out(m, g) /\ \A i \in DOMAIN s : s[i] # g
BY DEF Out, RecycleAll, Memory

LEMMA ClearPoolOnly ==
    ASSUME NEW m \in Memory, NEW g, Out(ClearPool(m), g)
    PROVE  Out(m, g)
BY DEF Out, ClearPool, Memory

(* The moves but Lose. *)
KeepingMove ==
    \/ CallbackMove
    \/ ~HasFrame(Preview) /\ previewFrames # <<>> /\ Dequeue
    \/ \E f \in NewFrames :
          /\ HasFrame(Preview)
          /\ Replace(Preview, f) \/ FailToReplace(Preview, f)
    \/ \E f \in NewFrames : UseScratch(f)
    \/ HasFrame(Preview) /\ Post
    \/ \E t \in CaptureThreads : CaptureMove(t)
    \/ ClearMove

Losing == HasFrame(Preview) /\ Lose(Preview)

LEMMA MovesKeepOrLose == PipelineNext <=> KeepingMove \/ Losing
BY DEF PipelineNext, PreviewMove, KeepingMove, Losing

(* No move but Lose makes a frame unreachable, *)
LEMMA KeepingMovesLeakNothing ==
    ASSUME FramesTyped, KeepingMove \/ UNCHANGED frameVars
    PROVE  \A g \in Frames : Gone(g)' => Gone(g)
<1> USE HolderNames
<1> SUFFICES ASSUME NEW g \in Frames, Gone(g)' PROVE Gone(g)
  OBVIOUS
<1>t. /\ mem \in Memory /\ g # NoFrame
      /\ previewFrames \in Seq(Frames)
      /\ captureQueu \in FramesOrNull
      /\ frame \in [Holders -> FramesOrNull]
      /\ converted \in [CaptureThreads -> FramesOrNull]
      /\ NewFrames \subseteq FramesOrNull
  BY FramePoolAssumption, NewFramesType DEF FramesTyped, FramesOrNull
<1>1. ASSUME NEW f \in NewFrames, ~HasFrame(Callback), Receive(f) PROVE Gone(g)
  <2>1. \A h \in Holders : frame'[h] = IF h = Callback THEN f ELSE frame[h]
    BY <1>1, <1>t DEF Receive, Hold
  <2>2. Out(mem', g) => Out(mem, g) \/ g = f
    BY <1>1, <1>t, GetFrameOnly DEF Receive
  <2> QED BY <1>1, <1>t, <2>1, <2>2 DEF Receive, Gone, HasFrame
<1>2. ASSUME NEW f \in NewFrames \cup {NoFrame}, Miss(f) \/ UseScratch(f) PROVE Gone(g)
  <2>1. GetFrame(mem, f) \in Memory
    BY <1>t, MemoryType DEF FramesOrNull
  <2>2. mem' = RecycleFrame(GetFrame(mem, f), f)
    BY <1>2 DEF Miss, UseScratch
  <2>3. Out(mem', g) => Out(mem, g)
    BY <1>t, <2>1, <2>2, GetFrameOnly, RecycledIsIn
  <2>4. UNCHANGED <<previewFrames, captureQueu, frame, converted>>
    BY <1>2 DEF Miss, UseScratch
  <2> QED BY <2>3, <2>4 DEF Gone
<1>3. ASSUME HasFrame(Callback), Enqueue PROVE Gone(g)
  <2>1. \A h \in Holders : frame'[h] = IF h = Callback THEN NoFrame ELSE frame[h]
    BY <1>3, <1>t DEF Enqueue, Hold
  <2>2. frame[Callback] \in Frames
    BY <1>3, <1>t DEF HasFrame, FramesOrNull
  <2>3. /\ Len(previewFrames) + 1 \in DOMAIN previewFrames'
        /\ previewFrames'[Len(previewFrames) + 1] = frame[Callback]
        /\ \A i \in DOMAIN previewFrames :
              i \in DOMAIN previewFrames' /\ previewFrames'[i] = previewFrames[i]
    BY <1>3, <1>t, <2>2 DEF Enqueue
  <2> QED BY <1>3, <2>1, <2>3 DEF Enqueue, Gone
<1>4. ASSUME previewFrames # <<>>, ~HasFrame(Preview), Dequeue PROVE Gone(g)
  <2>1. \A h \in Holders :
           frame'[h] = IF h = Preview THEN previewFrames[1] ELSE frame[h]
    BY <1>4, <1>t DEF Dequeue, Hold
  <2>2. \A i \in DOMAIN previewFrames :
           i = 1 \/ (i - 1 \in DOMAIN previewFrames'
                     /\ previewFrames'[i - 1] = previewFrames[i])
    BY <1>4, <1>t DEF Dequeue
  <2> QED BY <1>4, <1>t, <2>1, <2>2 DEF Dequeue, Gone, HasFrame
<1>5. ASSUME NEW h \in Holders, Discard(h) PROVE Gone(g)
  <2>1. \A k \in Holders : frame'[k] = IF k = h THEN NoFrame ELSE frame[k]
    BY <1>5, <1>t DEF Discard, Hold
  <2>2. Out(mem', g) => Out(mem, g) /\ g # frame[h]
    BY <1>5, <1>t, RecycledIsIn DEF Discard
  <2> QED BY <1>5, <2>1, <2>2 DEF Discard, Gone
<1>6. ASSUME NEW h \in Holders, NEW f \in NewFrames,
             Replace(h, f) \/ FailToReplace(h, f)
      PROVE  Gone(g)
  <2> DEFINE m == GetFrame(mem, f)
             n == RecycleFrame(m, frame[h])
  <2>1. m \in Memory /\ n \in Memory
    BY <1>t, MemoryType
  <2>2. Out(m, g) => Out(mem, g) \/ g = f
    BY <1>t, GetFrameOnly
  <2>3. Out(n, g) => Out(m, g) /\ g # frame[h]
    BY <2>1, RecycledIsIn
  <2>4. Out(RecycleFrame(n, f), g) => Out(n, g) /\ g # f
    <3> HIDE DEF n
    <3> QED BY <2>1, RecycledIsIn
  <2>5. \/ mem' = n /\ \A k \in Holders : frame'[k] = IF k = h THEN f ELSE frame[k]
        \/ /\ mem' = RecycleFrame(n, f)
           /\ \A k \in Holders : frame'[k] = IF k = h THEN NoFrame ELSE frame[k]
    BY <1>6, <1>t DEF Replace, FailToReplace, Hold
  <2>6. UNCHANGED <<previewFrames, captureQueu, converted>>
    BY <1>6 DEF Replace, FailToReplace
  <2> HIDE DEF m, n
  <2> QED BY <2>2, <2>3, <2>4, <2>5, <2>6 DEF Gone
<1>7. ASSUME Post PROVE Gone(g)
  <2>1. \A k \in Holders : frame'[k] = IF k = Preview THEN NoFrame ELSE frame[k]
    BY <1>7, <1>t DEF Post, Hold
  <2>2. Out(mem', g) => Out(mem, g) /\ g # captureQueu
    BY <1>7, <1>t, RecycledIsIn DEF Post
  <2> QED BY <1>7, <2>1, <2>2 DEF Post, Gone
<1>8. ASSUME NEW t \in CaptureThreads, ~HasFrame(t), Take(t) PROVE Gone(g)
  <2>1. \A k \in Holders : frame'[k] = IF k = t THEN captureQueu ELSE frame[k]
    BY <1>8, <1>t DEF Take, Hold
  <2> QED BY <1>8, <1>t, <2>1 DEF Take, Gone, HasFrame
<1>9. ASSUME NEW t \in CaptureThreads, NEW f \in NewFrames, converted[t] = NoFrame,
             KeepScratch(t, f)
      PROVE  Gone(g)
  <2>1. \A u \in CaptureThreads : converted'[u] = IF u = t THEN f ELSE converted[u]
    BY <1>9, <1>t DEF KeepScratch
  <2>2. Out(mem', g) => Out(mem, g) \/ g = f
    BY <1>9, <1>t, GetFrameOnly DEF KeepScratch
  <2> QED BY <1>9, <1>t, <2>1, <2>2 DEF KeepScratch, Gone
<1>10. ASSUME NEW t \in CaptureThreads, ReturnScratch(t) PROVE Gone(g)
  <2>1. \A u \in CaptureThreads : converted'[u] = IF u = t THEN NoFrame ELSE converted[u]
    BY <1>10, <1>t DEF ReturnScratch
  <2>2. Out(mem', g) => Out(mem, g) /\ g # converted[t]
    BY <1>10, <1>t, RecycledIsIn DEF ReturnScratch
  <2> QED BY <1>10, <2>1, <2>2 DEF ReturnScratch, Gone
<1>11. ASSUME ClearPreviewFrame \/ ClearCaptureFrame PROVE Gone(g)
  <2>1. CASE ClearPreviewFrame
    BY <1>t, <2>1, AllRecycledAreIn DEF ClearPreviewFrame, Gone
  <2>2. CASE ClearCaptureFrame
    BY <1>t, <2>2, RecycledIsIn DEF ClearCaptureFrame, Gone
  <2> QED BY <1>11, <2>1, <2>2
<1>12. ASSUME ClearAll PROVE Gone(g)
  <2> DEFINE m == RecycleAll(mem, previewFrames)
             n == RecycleFrame(m, captureQueu)
  <2>1. m \in Memory /\ n \in Memory
    BY <1>t, MemoryType
  <2>2. Out(m, g) => Out(mem, g) /\ \A i \in DOMAIN previewFrames : previewFrames[i] # g
    BY <1>t, AllRecycledAreIn
  <2>3. Out(n, g) => Out(m, g) /\ g # captureQueu
    BY <2>1, RecycledIsIn
  <2>4. Out(ClearPool(n), g) => Out(n, g)
    BY <2>1, ClearPoolOnly
  <2>5. mem' = ClearPool(n)
    BY <1>12 DEF ClearAll
  <2> HIDE DEF m, n
  <2> QED BY <1>12, <2>2, <2>3, <2>4, <2>5 DEF ClearAll, Gone
<1>13. ASSUME UNCHANGED frameVars PROVE Gone(g)
  BY <1>13 DEF frameVars, Gone
<1> QED
  BY <1>1, <1>2, <1>3, <1>4, <1>5, <1>6, <1>7, <1>8, <1>9, <1>10, <1>11, <1>12, <1>13
  DEF KeepingMove, CallbackMove, CaptureMove, ClearMove

(* so that nothing is leaked by them; *)
LEMMA KeepingMovesKeep ==
    ASSUME FramesTyped, FramesTyped', KeepingMove \/ UNCHANGED frameVars
    PROVE  Leaked' \subseteq Leaked
<1>1. \A g \in Frames : Gone(g)' => Gone(g)
  BY KeepingMovesLeakNothing
<1>2. (FramesTyped => Leaked = {g \in Frames : Gone(g)})'
  BY LeakedByPlace, PTL
<1> QED BY <1>1, <1>2, LeakedByPlace

(* and Lose leaks one frame. *)
LEMMA LosingLeaksOne ==
    ASSUME FramesTyped, FramesTyped', Losing
    PROVE  Leaked' \subseteq Leaked \cup {frame[Preview]}
<1>1. \A h \in Holders : frame'[h] = IF h = Preview THEN NoFrame ELSE frame[h]
  BY HolderNames DEF Losing, Lose, Hold, FramesTyped
<1>2. \A g \in Frames : Gone(g)' => Gone(g) \/ g = frame[Preview]
  BY <1>1 DEF Losing, Lose, Gone
<1>3. (FramesTyped => Leaked = {g \in Frames : Gone(g)})'
  BY LeakedByPlace, PTL
<1> QED BY <1>2, <1>3, LeakedByPlace

-----------------------------------------------------------------------------
(* Along every behaviour of the pipeline a frame has one owner at a time,  *)
(* and frames stay in the order in which they arrived: with the moves of   *)
(* get_frame, recycle_frame and their callers nothing more is needed than  *)
(* that a thread takes a frame only with empty hands.                      *)
THEOREM PipelineCorrect == PipelineSpec => []PipelineInv
<1>1. PipelineInit => PipelineInv
  <2> SUFFICES ASSUME PipelineInit PROVE PipelineInv
    OBVIOUS
  <2>1. FramesTyped
    BY PipelineInitTyped
  <2>2. OwnersOut /\ OwnersApart
    BY FramePoolAssumption
    DEF PipelineInit, OwnersOut, OwnersApart, PoolOK, NoMemory
  <2>3. NoFutureFrame /\ PipelineOrder
    BY HolderNames DEF PipelineInit, NoFutureFrame, PipelineOrder, Downstream
  <2> QED BY <2>1, <2>2, <2>3, OwnedOnceByPlace DEF PipelineInv
<1>2. PipelineInv /\ [PipelineNext]_frameVars => PipelineInv'
  <2> SUFFICES ASSUME PipelineInv, [PipelineNext]_frameVars PROVE PipelineInv'
    OBVIOUS
  <2>1. FramesTyped /\ FramesTyped'
    BY PipelineNextTyped DEF PipelineInv
  <2>2. OwnersOut /\ OwnersApart
    BY <2>1, OwnedOnceByPlace DEF PipelineInv
  <2>3. OwnersOut' /\ OwnersApart'
    BY <2>1, <2>2, PipelineNextOwners
  <2>4. FrameOwnedOnce'
    BY <2>1, <2>3, OwnedOnceByPlace, PTL
  <2>5. NoFutureFrame' /\ PipelineOrder'
    BY <2>1, <2>2, PipelineNextNoFuture, PipelineNextOrder DEF PipelineInv
  <2> QED BY <2>1, <2>4, <2>5 DEF PipelineInv
<1> QED BY <1>1, <1>2, PTL DEF PipelineSpec

=============================================================================
