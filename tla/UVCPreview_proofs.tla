------------------------- MODULE UVCPreview_proofs --------------------------
(***************************************************************************)
(* What the preview session guarantees for any number of frames, capture   *)
(* threads, callbacks and windows, and any sizes of the queue and the      *)
(* pool.  ControlInv says what the program counters tell about the flags,  *)
(* the stream, the queues and the frames in hand; with it the threads make *)
(* only the moves of the pipeline, and FramePipeline_proofs does the rest. *)
(***************************************************************************)
EXTENDS UVCPreview, FramePipeline_proofs, FiniteSetTheorems

(* The three names of single threads differ, and are no capture threads. *)
LEMMA ThreadNames ==
    /\ Api \in Threads /\ Callback \in Threads /\ Preview \in Threads
    /\ CaptureThreads \subseteq Threads /\ Holders \subseteq Threads
    /\ Api # Callback /\ Api # Preview /\ Callback # Preview
    /\ Api \notin CaptureThreads /\ Callback \notin CaptureThreads
    /\ Preview \notin CaptureThreads
    /\ Api \notin Holders
BY UVCPreviewAssumption, FramePipelineAssumption
DEF Api, Callback, Preview, Threads, Holders

(* A thread that is woken stays within its own program. *)
LEMMA WakeType ==
    ASSUME NEW p, PcsOK(p), NEW S
    PROVE  PcsOK(Wake(p, S))
BY ThreadNames
DEF PcsOK, Wake, WokenPc, AllPcs, ApiPcs, CallbackPcs, PreviewPcs, CapturePcs

(* A signal leaves every thread within its own program. *)
LEMMA SignalType ==
    ASSUME NEW p, PcsOK(p), NEW q \in SignalCaptureSync(p)
    PROVE  PcsOK(q)
BY WakeType DEF SignalCaptureSync

(* Each thread moves within its own program. *)
LEMMA GotoType ==
    ASSUME NEW p, PcsOK(p)
    PROVE  /\ \A q \in ApiPcs : PcsOK([p EXCEPT ![Api] = q])
           /\ \A q \in CallbackPcs : PcsOK([p EXCEPT ![Callback] = q])
           /\ \A q \in PreviewPcs : PcsOK([p EXCEPT ![Preview] = q])
           /\ \A t \in CaptureThreads, q \in CapturePcs :
                 PcsOK([p EXCEPT ![t] = q])
BY ThreadNames DEF PcsOK, AllPcs

(* Every step leaves every thread within its own program. *)
LEMMA NextPcsOK == TypeOK /\ [Next]_vars => PcsOK(pc')
<1> SUFFICES ASSUME TypeOK, [Next]_vars PROVE PcsOK(pc')
  OBVIOUS
<1>0. PcsOK(pc)
  BY DEF TypeOK
<1>1. ASSUME NEW f \in Formats, SetPreviewSize(f) PROVE PcsOK(pc')
  BY <1>1, <1>0 DEF SetPreviewSize
<1>2. ASSUME NEW b \in BOOLEAN, SetPreviewDisplay(b) PROVE PcsOK(pc')
  BY <1>2, <1>0 DEF SetPreviewDisplay
<1>3. ASSUME NEW cb \in Callbacks \cup {NoCallback}, SetFrameCallback(cb)
   PROVE PcsOK(pc')
  BY <1>3, <1>0, GotoType DEF SetFrameCallback, ReplaceFrameCallback, Goto,
     ApiPcs
<1>4. ASSUME NEW w \in CaptureWindows \cup {NoWindow}, SetCaptureDisplay(w)
   PROVE PcsOK(pc')
  BY <1>4, <1>0, GotoType DEF SetCaptureDisplay, ReplaceCaptureWindow, Goto,
     ApiPcs
<1>5. ASSUME StartPreview PROVE PcsOK(pc')
  BY <1>5, <1>0, GotoType DEF StartPreview, Goto, ApiPcs
<1>6. ASSUME StopPreview PROVE PcsOK(pc')
  BY <1>6, <1>0, GotoType DEF StopPreview, Goto, ApiPcs
<1>7. ASSUME Destroy PROVE PcsOK(pc')
  BY <1>7, <1>0, GotoType DEF Destroy, Goto, ApiPcs
<1>8. ASSUME WaitFinishingCapturing PROVE PcsOK(pc')
  BY <1>8, <1>0, GotoType, SignalType DEF WaitFinishingCapturing, Goto, ApiPcs
<1>9. ASSUME FinishSetFrameCallback PROVE PcsOK(pc')
  BY <1>9, <1>0, GotoType DEF FinishSetFrameCallback, ReplaceFrameCallback,
     Goto, ApiPcs
<1>10. ASSUME FinishSetCaptureDisplay PROVE PcsOK(pc')
  BY <1>10, <1>0, GotoType DEF FinishSetCaptureDisplay, ReplaceCaptureWindow,
     Goto, ApiPcs
<1>11. ASSUME CreatePreviewThread PROVE PcsOK(pc')
  BY <1>11, <1>0, GotoType DEF CreatePreviewThread, Goto, ApiPcs, PreviewPcs
<1>12. ASSUME StartPreviewFailed PROVE PcsOK(pc')
  BY <1>12, <1>0, GotoType, WakeType DEF StartPreviewFailed, Goto, ApiPcs,
     SignalPreviewSync
<1>13. ASSUME SignalStop PROVE PcsOK(pc')
  BY <1>13, <1>0, GotoType, SignalType, WakeType DEF SignalStop, Goto, ApiPcs,
     SignalPreviewSync
<1>14. ASSUME JoinCaptureThread PROVE PcsOK(pc')
  BY <1>14, <1>0, GotoType DEF JoinCaptureThread, Goto, ApiPcs
<1>15. ASSUME JoinPreviewThread PROVE PcsOK(pc')
  BY <1>15, <1>0, GotoType DEF JoinPreviewThread, Goto, ApiPcs
<1>16. ASSUME StopClearsPreviewFrames PROVE PcsOK(pc')
  BY <1>16, <1>0, GotoType DEF StopClearsPreviewFrames, Goto, ApiPcs
<1>17. ASSUME StopClearsCaptureFrame PROVE PcsOK(pc')
  BY <1>17, <1>0, GotoType DEF StopClearsCaptureFrame, Goto, ApiPcs
<1>18. ASSUME StopReleasesWindows PROVE PcsOK(pc')
  BY <1>18, <1>0, GotoType DEF StopReleasesWindows, Goto, ApiPcs
<1>19. ASSUME FrameArrives \/ DeviceLost PROVE PcsOK(pc')
  BY <1>19, <1>0, GotoType DEF FrameArrives, DeviceLost, AbandonStream, Goto,
     CallbackPcs
<1>20. ASSUME AddPreviewFrame PROVE PcsOK(pc')
  <2>1. \/ pc' = Wake([pc EXCEPT ![Callback] = "ready"], {Preview})
        \/ pc' = [pc EXCEPT ![Callback] = "ready"]
    BY <1>20 DEF AddPreviewFrame, Goto, SignalPreviewSync
  <2>2. /\ PcsOK(Wake([pc EXCEPT ![Callback] = "ready"], {Preview}))
        /\ PcsOK([pc EXCEPT ![Callback] = "ready"])
    BY <1>0, GotoType, WakeType DEF CallbackPcs
  <2> QED BY <2>1, <2>2, Zenon
<1>21. ASSUME PreparePreview PROVE PcsOK(pc')
  BY <1>21, <1>0, GotoType DEF PreparePreview, Goto, PreviewPcs
<1>22. ASSUME StartStreaming PROVE PcsOK(pc')
  <2>1. \/ \E p \in {"spawn", "off"} : pc' = [pc EXCEPT ![Preview] = p]
        \/ pc' = [pc EXCEPT ![Preview] = "off", ![Callback] = "deliver"]
    BY <1>22 DEF StartStreaming, Goto
  <2>2. /\ \A p \in {"spawn", "off"} : PcsOK([pc EXCEPT ![Preview] = p])
        /\ PcsOK([pc EXCEPT ![Preview] = "off", ![Callback] = "deliver"])
    BY <1>0, GotoType DEF PreviewPcs, CallbackPcs
  <2> QED BY <2>1, <2>2, Zenon
<1>23. ASSUME SpawnCaptureThread PROVE PcsOK(pc')
  <2>1. \/ \E t \in CaptureThreads :
              pc' = [pc EXCEPT ![Preview] = "loop", ![t] = "clear"]
        \/ pc' = [pc EXCEPT ![Preview] = "loop"]
    BY <1>23 DEF SpawnCaptureThread, Goto
  <2>2. /\ PcsOK([pc EXCEPT ![Preview] = "loop"])
        /\ \A t \in CaptureThreads :
              PcsOK([pc EXCEPT ![Preview] = "loop", ![t] = "clear"])
    BY <1>0, GotoType DEF PreviewPcs, CapturePcs
  <2> QED BY <2>1, <2>2, Zenon
<1>24. ASSUME PreviewLoop PROVE PcsOK(pc')
  BY <1>24, <1>0, GotoType DEF PreviewLoop, Goto, PreviewPcs
<1>25. ASSUME WaitPreviewFrame PROVE PcsOK(pc')
  BY <1>25, <1>0, GotoType DEF WaitPreviewFrame, Goto, PreviewPcs
<1>26. ASSUME BlockOnPreviewSync PROVE PcsOK(pc')
  BY <1>26, <1>0, GotoType DEF BlockOnPreviewSync, Goto, PreviewPcs
<1>27. ASSUME DecodeMjpeg PROVE PcsOK(pc')
  <2>1. \/ pc' = [pc EXCEPT ![Preview] = "draw"]
        \/ pc' = [pc EXCEPT ![Preview] = "loop"]
    BY <1>27 DEF DecodeMjpeg, Goto
  <2>2. /\ PcsOK([pc EXCEPT ![Preview] = "draw"])
        /\ PcsOK([pc EXCEPT ![Preview] = "loop"])
    BY <1>0, GotoType DEF PreviewPcs
  <2> QED BY <2>1, <2>2, Zenon
<1>28. ASSUME DrawPreviewOne PROVE PcsOK(pc')
  BY <1>28, <1>0, GotoType DEF DrawPreviewOne, Goto, PreviewPcs
<1>29. ASSUME AddCaptureFrame PROVE PcsOK(pc')
  <2>1. \/ pc' = Wake([pc EXCEPT ![Preview] = "loop"],
                      CaptureSyncWaiters)
        \/ pc' = [pc EXCEPT ![Preview] = "loop"]
    BY <1>29 DEF AddCaptureFrame, Goto
  <2>2. /\ PcsOK(Wake([pc EXCEPT ![Preview] = "loop"], CaptureSyncWaiters))
        /\ PcsOK([pc EXCEPT ![Preview] = "loop"])
    BY <1>0, GotoType, WakeType DEF PreviewPcs
  <2> QED BY <2>1, <2>2, Zenon
<1>30. ASSUME SignalCaptureThread PROVE PcsOK(pc')
  BY <1>30, <1>0, GotoType, SignalType DEF SignalCaptureThread, Goto,
     PreviewPcs
<1>31. ASSUME StopStreaming PROVE PcsOK(pc')
  BY <1>31, <1>0, GotoType DEF StopStreaming, Goto, PreviewPcs
<1>32. ASSUME NEW t \in CaptureThreads,
              BeginCapture(t) \/ ReadRequestSize(t) \/ WriteCallbackBytes(t)
       PROVE  PcsOK(pc')
  <2>1. \/ pc' = [pc EXCEPT ![t] = "format"]
        \/ pc' = [pc EXCEPT ![t] = "write"]
        \/ pc' = [pc EXCEPT ![t] = "outer"]
    BY <1>32 DEF BeginCapture, ReadRequestSize, WriteCallbackBytes, Goto
  <2>2. /\ PcsOK([pc EXCEPT ![t] = "format"])
        /\ PcsOK([pc EXCEPT ![t] = "write"])
        /\ PcsOK([pc EXCEPT ![t] = "outer"])
    BY <1>0, GotoType DEF CapturePcs
  <2> QED BY <2>1, <2>2, Zenon
<1>33. ASSUME NEW t \in CaptureThreads, CaptureLoop(t) PROVE PcsOK(pc')
  <2>1. \/ pc' = [pc EXCEPT ![t] = "inner"]
        \/ pc' = [pc EXCEPT ![t] = "off"]
    BY <1>33 DEF CaptureLoop, Goto
  <2>2. /\ PcsOK([pc EXCEPT ![t] = "inner"])
        /\ PcsOK([pc EXCEPT ![t] = "off"])
    BY <1>0, GotoType DEF CapturePcs
  <2> QED BY <2>1, <2>2, Zenon
<1>34. ASSUME NEW t \in CaptureThreads, CapturingLoop(t) PROVE PcsOK(pc')
  BY <1>34, <1>0, GotoType DEF CapturingLoop, Goto, CapturePcs
<1>35. ASSUME NEW t \in CaptureThreads, WaitCaptureFrame(t) PROVE PcsOK(pc')
  <2>1. \/ pc' = [pc EXCEPT ![t] = "copy"]
        \/ pc' = [pc EXCEPT ![t] = "callback"]
        \/ pc' = [pc EXCEPT ![t] = "inner"]
    BY <1>35 DEF WaitCaptureFrame, Goto
  <2>2. /\ PcsOK([pc EXCEPT ![t] = "copy"])
        /\ PcsOK([pc EXCEPT ![t] = "callback"])
        /\ PcsOK([pc EXCEPT ![t] = "inner"])
    BY <1>0, GotoType DEF CapturePcs
  <2> QED BY <2>1, <2>2, Zenon
<1>36. ASSUME NEW t \in CaptureThreads, BlockOnCaptureSync(t) PROVE PcsOK(pc')
  BY <1>36, <1>0, GotoType DEF BlockOnCaptureSync, Goto, CapturePcs
<1>37. ASSUME NEW t \in CaptureThreads, CopyToSurface(t) PROVE PcsOK(pc')
  BY <1>37, <1>0, GotoType DEF CopyToSurface, Goto, CapturePcs
<1>38. ASSUME NEW t \in CaptureThreads, PrepareCallback(t) PROVE PcsOK(pc')
  <2>1. \/ pc' = [pc EXCEPT ![t] = "call"]
        \/ pc' = [pc EXCEPT ![t] = "inner"]
    BY <1>38 DEF PrepareCallback, Goto
  <2>2. /\ PcsOK([pc EXCEPT ![t] = "call"])
        /\ PcsOK([pc EXCEPT ![t] = "inner"])
    BY <1>0, GotoType DEF CapturePcs
  <2> QED BY <2>1, <2>2, Zenon
<1>39. ASSUME NEW t \in CaptureThreads, CallOnFrame(t) PROVE PcsOK(pc')
  BY <1>39, <1>0, GotoType DEF CallOnFrame, Goto, CapturePcs
<1>40. ASSUME NEW t \in CaptureThreads, OnFrameReturns(t) PROVE PcsOK(pc')
  BY <1>40, <1>0, GotoType DEF OnFrameReturns, Goto, CapturePcs
<1>41. ASSUME NEW t \in CaptureThreads, RecycleConverted(t) PROVE PcsOK(pc')
  BY <1>41, <1>0, GotoType DEF RecycleConverted, Goto, CapturePcs
<1>42. ASSUME NEW t \in CaptureThreads, ReleaseCaptureWindow(t) PROVE
   PcsOK(pc')
  BY <1>42, <1>0, GotoType DEF ReleaseCaptureWindow, Goto, CapturePcs
<1>43. ASSUME NEW t \in CaptureThreads, ForgetCaptureWindow(t) PROVE PcsOK(pc')
  BY <1>43, <1>0, GotoType DEF ForgetCaptureWindow, Goto, CapturePcs
<1>44. ASSUME NEW t \in CaptureThreads, BroadcastCaptureDone(t) PROVE
   PcsOK(pc')
  BY <1>44, <1>0, GotoType, WakeType DEF BroadcastCaptureDone, Goto, CapturePcs
<1>45. ASSUME SpuriousWakeup PROVE PcsOK(pc')
  <2>1. PICK t \in Threads : pc' = [pc EXCEPT ![t] = WokenPc(pc[t])]
    BY <1>45 DEF SpuriousWakeup, Goto
  <2>2. pc' = Wake(pc, {t})
    BY <2>1, <1>0 DEF Wake, PcsOK
  <2> QED BY <2>2, <1>0, WakeType
<1>46. CASE UNCHANGED vars
  BY <1>46, <1>0 DEF vars
<1> QED
  BY <1>1, <1>2, <1>3, <1>4, <1>5, <1>6, <1>7, <1>8, <1>9, <1>10, <1>11,
     <1>12, <1>13, <1>14, <1>15, <1>16, <1>17, <1>18, <1>19, <1>20, <1>21,
     <1>22, <1>23, <1>24, <1>25, <1>26, <1>27, <1>28, <1>29, <1>30, <1>31,
     <1>32, <1>33, <1>34, <1>35, <1>36, <1>37, <1>38, <1>39, <1>40,
     <1>41, <1>42, <1>43, <1>44, <1>45, <1>46
  DEF Next, ApiSetters, ApiStep, PreviewStep, CaptureStep

(* The constructor gives every variable its type. *)
LEMMA InitTypeOK == Init => TypeOK
<1> SUFFICES ASSUME Init PROVE TypeOK
  OBVIOUS
<1>1. PcsOK(pc)
  BY ThreadNames
  DEF Init, PcsOK, Threads, AllPcs, ApiPcs, CallbackPcs, PreviewPcs, CapturePcs
<1>2. FramesTyped
  BY PipelineInitTyped DEF Init
<1>3. {requestFormat, frameFormat, callbackFormat} \subseteq Formats
  BY DEF Init
<1>4. /\ windowRefs \in [CaptureWindows -> Int]
      /\ toSurface \in [CaptureThreads -> BOOLEAN]
      /\ callee \in [CaptureThreads -> Callbacks \cup {NoCallback}]
      /\ sz \in [CaptureThreads -> Formats \cup {NoFormat}]
  BY DEF Init
<1> QED
  BY <1>1, <1>2, <1>3, <1>4 DEF Init, TypeOK

(* Every step keeps the types, given those of the frame variables. *)
LEMMA NextTypeOK ==
    ASSUME TypeOK, FramesInHand, FramesTyped', [Next]_vars
    PROVE  TypeOK'
<1>0. PcsOK(pc') /\ FramesTyped'
  BY NextPcsOK
<1>1. ASSUME NEW f \in Formats, SetPreviewSize(f) PROVE TypeOK'
  BY <1>1, <1>0 DEF SetPreviewSize, MayCallSetter, TypeOK, controlVars,
       flagVars, windowVars, formatVars, callVars, sessionVars
<1>2. ASSUME NEW b \in BOOLEAN, SetPreviewDisplay(b) PROVE TypeOK'
  BY <1>2, <1>0 DEF SetPreviewDisplay, MayCallSetter, TypeOK, controlVars,
       flagVars, windowVars, formatVars, callVars, sessionVars
<1>3. ASSUME NEW cb \in Callbacks \cup {NoCallback}, SetFrameCallback(cb)
   PROVE TypeOK'
  BY <1>3, <1>0 DEF SetFrameCallback, ReplaceFrameCallback, TypeOK,
       controlVars, flagVars, windowVars, formatVars, callVars, sessionVars
<1>4. ASSUME NEW w \in CaptureWindows \cup {NoWindow}, SetCaptureDisplay(w)
   PROVE TypeOK'
  BY <1>4, <1>0 DEF SetCaptureDisplay, ReplaceCaptureWindow, Release, TypeOK,
       controlVars, flagVars, windowVars, formatVars, callVars, sessionVars
<1>5. ASSUME StartPreview PROVE TypeOK'
  BY <1>5, <1>0 DEF StartPreview, TypeOK, controlVars, flagVars, windowVars,
       formatVars, callVars, sessionVars
<1>6. ASSUME StopPreview PROVE TypeOK'
  BY <1>6, <1>0 DEF StopPreview, TypeOK, controlVars, flagVars, windowVars,
       formatVars, callVars, sessionVars
<1>7. ASSUME Destroy PROVE TypeOK'
  BY <1>7, <1>0 DEF Destroy, TypeOK, controlVars, flagVars, windowVars,
       formatVars, callVars, sessionVars
<1>8. ASSUME WaitFinishingCapturing PROVE TypeOK'
  BY <1>8, <1>0 DEF WaitFinishingCapturing, TypeOK, controlVars, flagVars,
       windowVars, formatVars, callVars, sessionVars
<1>9. ASSUME FinishSetFrameCallback PROVE TypeOK'
  BY <1>9, <1>0 DEF FinishSetFrameCallback, ReplaceFrameCallback, TypeOK,
       controlVars, flagVars, windowVars, formatVars, callVars, sessionVars
<1>10. ASSUME FinishSetCaptureDisplay PROVE TypeOK'
  BY <1>10, <1>0 DEF FinishSetCaptureDisplay, ReplaceCaptureWindow, Release,
       TypeOK, controlVars, flagVars, windowVars, formatVars, callVars,
       sessionVars
<1>11. ASSUME CreatePreviewThread PROVE TypeOK'
  BY <1>11, <1>0 DEF CreatePreviewThread, TypeOK, controlVars, flagVars,
       windowVars, formatVars, callVars, sessionVars
<1>12. ASSUME StartPreviewFailed PROVE TypeOK'
  BY <1>12, <1>0 DEF StartPreviewFailed, TypeOK, controlVars, flagVars,
       windowVars, formatVars, callVars, sessionVars
<1>13. ASSUME SignalStop PROVE TypeOK'
  BY <1>13, <1>0 DEF SignalStop, TypeOK, controlVars, flagVars, windowVars,
       formatVars, callVars, sessionVars
<1>14. ASSUME JoinCaptureThread PROVE TypeOK'
  BY <1>14, <1>0 DEF JoinCaptureThread, TypeOK, controlVars, flagVars,
       windowVars, formatVars, callVars, sessionVars
<1>15. ASSUME JoinPreviewThread PROVE TypeOK'
  BY <1>15, <1>0 DEF JoinPreviewThread, TypeOK, controlVars, flagVars,
       windowVars, formatVars, callVars, sessionVars
<1>16. ASSUME StopClearsPreviewFrames PROVE TypeOK'
  BY <1>16, <1>0 DEF StopClearsPreviewFrames, ClearPreviewFrame, TypeOK,
       controlVars, flagVars, windowVars, formatVars, callVars, sessionVars
<1>17. ASSUME StopClearsCaptureFrame PROVE TypeOK'
  BY <1>17, <1>0 DEF StopClearsCaptureFrame, ClearCaptureFrame, TypeOK,
       controlVars, flagVars, windowVars, formatVars, callVars, sessionVars
<1>18. ASSUME StopReleasesWindows PROVE TypeOK'
  <2>1. windowRefs' \in [CaptureWindows -> Int]
    BY <1>18 DEF StopReleasesWindows, Release, TypeOK
  <2> QED
    BY <1>18, <1>0, <2>1 DEF StopReleasesWindows, TypeOK, controlVars, flagVars,
       formatVars, callVars, sessionVars
<1>19. ASSUME FrameArrives \/ DeviceLost PROVE TypeOK'
  BY <1>19, <1>0 DEF FrameArrives, DeviceLost, AbandonStream, TypeOK,
       controlVars, flagVars, windowVars, formatVars, callVars, sessionVars
<1>20. ASSUME AddPreviewFrame PROVE TypeOK'
  BY <1>20, <1>0 DEF AddPreviewFrame, TypeOK, controlVars, flagVars,
       windowVars, formatVars, callVars, sessionVars
<1>21. ASSUME PreparePreview PROVE TypeOK'
  BY <1>21, <1>0 DEF PreparePreview, TypeOK, controlVars, flagVars,
       windowVars, formatVars, callVars, sessionVars
<1>22. ASSUME StartStreaming PROVE TypeOK'
  <2>1. streaming' \in BOOLEAN /\ abandoned' \in BOOLEAN
    BY <1>22 DEF StartStreaming, TypeOK
  <2>2. UNCHANGED <<flagVars, windowVars, formatVars, callVars,
                    capture_thread, overlap, toSurface, starts>>
    BY <1>22 DEF StartStreaming
  <2> QED
    BY <1>0, <2>1, <2>2
    DEF TypeOK, flagVars, windowVars, formatVars, callVars
<1>23. ASSUME SpawnCaptureThread PROVE TypeOK'
  BY <1>23, <1>0 DEF SpawnCaptureThread, ClearPreviewFrame, TypeOK,
       controlVars, flagVars, windowVars, formatVars, callVars, sessionVars
<1>24. ASSUME PreviewLoop PROVE TypeOK'
  BY <1>24, <1>0 DEF PreviewLoop, TypeOK, controlVars, flagVars, windowVars,
       formatVars, callVars, sessionVars
<1>25. ASSUME WaitPreviewFrame PROVE TypeOK'
  BY <1>25, <1>0 DEF WaitPreviewFrame, TypeOK, controlVars, flagVars,
       windowVars, formatVars, callVars, sessionVars
<1>26. ASSUME BlockOnPreviewSync PROVE TypeOK'
  BY <1>26, <1>0 DEF BlockOnPreviewSync, TypeOK, controlVars, flagVars,
       windowVars, formatVars, callVars, sessionVars
<1>27. ASSUME DecodeMjpeg PROVE TypeOK'
  BY <1>27, <1>0 DEF DecodeMjpeg, TypeOK, controlVars, flagVars, windowVars,
       formatVars, callVars, sessionVars
<1>28. ASSUME DrawPreviewOne PROVE TypeOK'
  BY <1>28, <1>0 DEF DrawPreviewOne, TypeOK, controlVars, flagVars,
       windowVars, formatVars, callVars, sessionVars
<1>29. ASSUME AddCaptureFrame PROVE TypeOK'
  BY <1>29, <1>0 DEF AddCaptureFrame, TypeOK, controlVars, flagVars,
       windowVars, formatVars, callVars, sessionVars
<1>30. ASSUME SignalCaptureThread PROVE TypeOK'
  BY <1>30, <1>0 DEF SignalCaptureThread, TypeOK, controlVars, flagVars,
       windowVars, formatVars, callVars, sessionVars
<1>31. ASSUME StopStreaming PROVE TypeOK'
  BY <1>31, <1>0 DEF StopStreaming, TypeOK, controlVars, flagVars, windowVars,
       formatVars, callVars, sessionVars
<1>32. ASSUME NEW t \in CaptureThreads,
              BeginCapture(t) \/ ReadRequestSize(t) \/ WriteCallbackBytes(t)
       PROVE  TypeOK'
  <2>1. /\ sz' \in [CaptureThreads -> Formats \cup {NoFormat}]
        /\ {requestFormat', frameFormat', callbackFormat'} \subseteq Formats
    <3>1. CASE BeginCapture(t)
      BY <3>1 DEF BeginCapture, TypeOK, controlVars, formatVars
    <3>2. CASE ReadRequestSize(t)
      BY <3>2 DEF ReadRequestSize, TypeOK
    <3>3. CASE WriteCallbackBytes(t)
      <4>1. sz[t] \in Formats
        BY <3>3 DEF WriteCallbackBytes, TypeOK, FramesInHand
      <4> QED BY <3>3, <4>1 DEF WriteCallbackBytes, TypeOK
    <3> QED BY <1>32, <3>1, <3>2, <3>3
  <2> QED
    BY <1>32, <1>0, <2>1 DEF BeginCapture, ReadRequestSize, WriteCallbackBytes,
       TypeOK, controlVars, flagVars, windowVars, callVars, sessionVars
<1>33. ASSUME NEW t \in CaptureThreads, CaptureLoop(t) PROVE TypeOK'
  BY <1>33, <1>0 DEF CaptureLoop, TypeOK, controlVars, flagVars, windowVars,
       formatVars, callVars, sessionVars
<1>34. ASSUME NEW t \in CaptureThreads, CapturingLoop(t) PROVE TypeOK'
  BY <1>34, <1>0 DEF CapturingLoop, TypeOK, controlVars, flagVars, windowVars,
       formatVars, callVars, sessionVars
<1>35. ASSUME NEW t \in CaptureThreads, WaitCaptureFrame(t) PROVE TypeOK'
  BY <1>35, <1>0 DEF WaitCaptureFrame, TypeOK, controlVars, flagVars,
       windowVars, formatVars, callVars, sessionVars
<1>36. ASSUME NEW t \in CaptureThreads, BlockOnCaptureSync(t) PROVE TypeOK'
  BY <1>36, <1>0 DEF BlockOnCaptureSync, TypeOK, controlVars, flagVars,
       windowVars, formatVars, callVars, sessionVars
<1>37. ASSUME NEW t \in CaptureThreads, CopyToSurface(t) PROVE TypeOK'
  BY <1>37, <1>0 DEF CopyToSurface, TypeOK, controlVars, flagVars, windowVars,
       formatVars, callVars, sessionVars
<1>38. ASSUME NEW t \in CaptureThreads, PrepareCallback(t) PROVE TypeOK'
  BY <1>38, <1>0 DEF PrepareCallback, TypeOK, controlVars, flagVars,
       windowVars, formatVars, callVars, sessionVars
<1>39. ASSUME NEW t \in CaptureThreads, CallOnFrame(t) PROVE TypeOK'
  BY <1>39, <1>0 DEF CallOnFrame, TypeOK, controlVars, flagVars, windowVars,
       formatVars, callVars, sessionVars
<1>40. ASSUME NEW t \in CaptureThreads, OnFrameReturns(t) PROVE TypeOK'
  BY <1>40, <1>0 DEF OnFrameReturns, TypeOK, controlVars, flagVars,
       windowVars, formatVars, callVars, sessionVars
<1>41. ASSUME NEW t \in CaptureThreads, RecycleConverted(t) PROVE TypeOK'
  BY <1>41, <1>0 DEF RecycleConverted, TypeOK, controlVars, flagVars,
       windowVars, formatVars, callVars, sessionVars
<1>42. ASSUME NEW t \in CaptureThreads, ReleaseCaptureWindow(t) PROVE TypeOK'
  BY <1>42, <1>0 DEF ReleaseCaptureWindow, Release, TypeOK, controlVars,
       flagVars, windowVars, formatVars, callVars, sessionVars
<1>43. ASSUME NEW t \in CaptureThreads, ForgetCaptureWindow(t) PROVE TypeOK'
  BY <1>43, <1>0 DEF ForgetCaptureWindow, TypeOK, controlVars, flagVars,
       windowVars, formatVars, callVars, sessionVars
<1>44. ASSUME NEW t \in CaptureThreads, BroadcastCaptureDone(t) PROVE TypeOK'
  BY <1>44, <1>0 DEF BroadcastCaptureDone, TypeOK, controlVars, flagVars,
       windowVars, formatVars, callVars, sessionVars
<1>45. ASSUME SpuriousWakeup PROVE TypeOK'
  BY <1>45, <1>0 DEF SpuriousWakeup, TypeOK, controlVars, flagVars,
       windowVars, formatVars, callVars, sessionVars
<1>46. CASE UNCHANGED vars
  BY <1>46, <1>0 DEF vars, TypeOK, controlVars, flagVars, windowVars,
       formatVars, callVars, sessionVars
<1> QED
  BY <1>1, <1>2, <1>3, <1>4, <1>5, <1>6, <1>7, <1>8, <1>9, <1>10, <1>11,
       <1>12, <1>13, <1>14, <1>15, <1>16, <1>17, <1>18, <1>19, <1>20, <1>21,
       <1>22, <1>23, <1>24, <1>25, <1>26, <1>27, <1>28, <1>29, <1>30, <1>31,
       <1>32, <1>33, <1>34, <1>35, <1>36, <1>37, <1>38, <1>39, <1>40, <1>41,
       <1>42, <1>43, <1>44, <1>45, <1>46, Zenon
  DEF Next, ApiSetters, ApiStep, PreviewStep, CaptureStep

-----------------------------------------------------------------------------
(* The threads make only the moves of the pipeline. *)

(* addCaptureFrame loses the frame in the preview thread's hand when the   *)
(* preview was stopped meanwhile.                                          *)
LosesFrame == AddCaptureFrame /\ ~mIsRunning /\ Losing

(* Every step is a move of the pipeline, made with the right hands, and    *)
(* nothing but addCaptureFrame loses a frame.                              *)
LEMMA NextKeepsOrLoses ==
    ASSUME TypeOK, FramesInHand, [Next]_vars
    PROVE  KeepingMove \/ UNCHANGED frameVars \/ LosesFrame
<1> USE ThreadNames
<1> DEFINE OK == KeepingMove \/ UNCHANGED frameVars \/ LosesFrame
<1>1. ASSUME UNCHANGED frameVars PROVE OK
  BY <1>1
<1>2. ASSUME ClearPreviewFrame \/ ClearCaptureFrame \/ ClearAll PROVE OK
  BY <1>2 DEF KeepingMove, ClearMove
<1>3. ASSUME FrameArrives PROVE OK
  <2>1. ~HasFrame(Callback)
    BY <1>3 DEF FrameArrives, FramesInHand, HasFrame
  <2> QED
    BY <1>3, <2>1 DEF FrameArrives, KeepingMove, CallbackMove
<1>4. ASSUME AddPreviewFrame PROVE OK
  <2>1. HasFrame(Callback)
    BY <1>4 DEF AddPreviewFrame, FramesInHand, HasFrame
  <2> QED
    BY <1>4, <2>1 DEF AddPreviewFrame, KeepingMove, CallbackMove
<1>5. ASSUME WaitPreviewFrame PROVE OK
  <2>1. ~HasFrame(Preview)
    BY <1>5 DEF WaitPreviewFrame, FramesInHand, HasFrame
  <2> QED
    BY <1>5, <2>1 DEF WaitPreviewFrame, KeepingMove
<1>6. ASSUME DecodeMjpeg PROVE OK
  <2>1. HasFrame(Preview)
    BY <1>6 DEF DecodeMjpeg, FramesInHand, HasFrame
  <2> QED
    BY <1>6, <2>1 DEF DecodeMjpeg, KeepingMove
<1>7. ASSUME DrawPreviewOne PROVE OK
  BY <1>7 DEF DrawPreviewOne, KeepingMove
<1>8. ASSUME AddCaptureFrame PROVE OK
  <2>1. HasFrame(Preview)
    BY <1>8 DEF AddCaptureFrame, FramesInHand, HasFrame
  <2> QED
    BY <1>8, <2>1 DEF AddCaptureFrame, KeepingMove, LosesFrame, Losing
<1>9. ASSUME NEW t \in CaptureThreads, WaitCaptureFrame(t) PROVE OK
  <2>1. ~HasFrame(t)
    BY <1>9 DEF WaitCaptureFrame, FramesInHand, HasFrame
  <2> QED
    BY <1>9, <2>1 DEF WaitCaptureFrame, KeepingMove, CaptureMove
<1>10. ASSUME NEW t \in CaptureThreads, CopyToSurface(t) PROVE OK
  BY <1>10 DEF CopyToSurface, KeepingMove, CaptureMove
<1>11. ASSUME NEW t \in CaptureThreads, PrepareCallback(t) PROVE OK
  <2>1. HasFrame(t)
    BY <1>11 DEF PrepareCallback, FramesInHand, HasFrame
  <2> QED
    BY <1>11, <2>1 DEF PrepareCallback, KeepingMove, CaptureMove
<1>12. ASSUME NEW t \in CaptureThreads, OnFrameReturns(t) PROVE OK
  <2>1. HasFrame(t)
    BY <1>12 DEF OnFrameReturns, FramesInHand, HasFrame
  <2> QED
    BY <1>12, <2>1 DEF OnFrameReturns, KeepingMove, CaptureMove
<1>13. ASSUME NEW t \in CaptureThreads, RecycleConverted(t) PROVE OK
  <2>1. CASE converted[t] # NoFrame
    BY <1>13, <2>1 DEF RecycleConverted, KeepingMove, CaptureMove
  <2>2. CASE converted[t] = NoFrame
    <3>1. converted' = converted
      BY <1>13, <2>2 DEF RecycleConverted, ReturnScratch, TypeOK, FramesTyped
    <3>2. mem' = mem
      BY <1>13, <2>2 DEF RecycleConverted, ReturnScratch, RecycleFrame
    <3> QED BY <1>13, <3>1, <3>2 DEF RecycleConverted, ReturnScratch, frameVars
  <2> QED BY <2>1, <2>2
<1> HIDE DEF OK
<1>14. ASSUME ApiSetters \/ StartPreview \/ StopPreview \/ Destroy \/ ApiStep
       PROVE  OK
  BY <1>14, <1>1, <1>2
  DEF ApiSetters, SetPreviewSize, SetPreviewDisplay, SetFrameCallback,
      SetCaptureDisplay, StartPreview, StopPreview, Destroy, ApiStep,
      WaitFinishingCapturing, FinishSetFrameCallback, FinishSetCaptureDisplay,
      CreatePreviewThread, StartPreviewFailed, SignalStop, JoinCaptureThread,
      JoinPreviewThread, StopClearsPreviewFrames, StopClearsCaptureFrame,
      StopReleasesWindows
<1>15. ASSUME PreviewStep PROVE OK
  BY <1>15, <1>1, <1>2, <1>5, <1>6, <1>7, <1>8
  DEF PreviewStep, PreparePreview, StartStreaming, SpawnCaptureThread,
      PreviewLoop, BlockOnPreviewSync, SignalCaptureThread, StopStreaming
<1>16. ASSUME NEW t \in CaptureThreads, CaptureStep(t) PROVE OK
  BY <1>16, <1>1, <1>2, <1>9, <1>10, <1>11, <1>12, <1>13
  DEF CaptureStep, BeginCapture, ReadRequestSize, WriteCallbackBytes,
      CaptureLoop, CapturingLoop, BlockOnCaptureSync, CallOnFrame,
      ReleaseCaptureWindow,
      ForgetCaptureWindow, BroadcastCaptureDone
<1>17. ASSUME DeviceLost \/ SpuriousWakeup \/ UNCHANGED vars PROVE OK
  BY <1>17, <1>1 DEF DeviceLost, SpuriousWakeup, vars
<1> QED
  <2> OK
    BY <1>3, <1>4, <1>14, <1>15, <1>16, <1>17 DEF Next
  <2> QED BY DEF OK

(* So every step is a move of the pipeline, *)
LEMMA NextMovesFrames ==
    ASSUME TypeOK, FramesInHand, [Next]_vars
    PROVE  [PipelineNext]_frameVars
BY NextKeepsOrLoses, MovesKeepOrLose DEF LosesFrame

(* and a frame is leaked by addCaptureFrame alone, which leaks one. *)
LEMMA NextLeaks ==
    ASSUME TypeOK, TypeOK', FramesInHand, [Next]_vars
    PROVE  \/ Leaked' \subseteq Leaked
           \/ LosesFrame /\ Leaked' \subseteq Leaked \cup {frame[Preview]}
<1>1. FramesTyped /\ FramesTyped'
  BY DEF TypeOK
<1> QED
  BY <1>1, NextKeepsOrLoses, KeepingMovesKeep, LosingLeaksOne DEF LosesFrame

-----------------------------------------------------------------------------
(* What a thread has in hand. *)

(* A step may wake a thread besides the one that takes it. *)
Same(a, b) == b = a \/ b = WokenPc(a)

(* Waking changes no program counter but that of a waiting thread. *)
LEMMA WakeSame ==
    ASSUME NEW p, NEW S
    PROVE  \A t \in Threads : Same(p[t], Wake(p, S)[t])
BY DEF Wake, Same

(* Nor does a signal. *)
LEMMA SignalSame ==
    ASSUME NEW p, NEW q \in SignalCaptureSync(p)
    PROVE  \A t \in Threads : Same(p[t], q[t])
BY WakeSame DEF SignalCaptureSync, Same

HandsMatch(h) ==
    /\ h = Callback => (frame[h] # NoFrame <=> pc[h] = "add")
    /\ h = Preview =>
          (frame[h] # NoFrame <=> pc[h] \in {"decode", "draw", "add"})
    /\ h \in CaptureThreads =>
          /\ frame[h] # NoFrame
                <=> pc[h] \in {"copy", "callback", "call", "onFrame"}
          /\ pc[h] = "copy" => toSurface[h]
          /\ converted[h] # NoFrame
                => /\ toSurface[h]
                   /\ pc[h] \notin {"off", "clear", "format", "write", "outer",
                                    "release", "forget", "broadcast"}
          /\ sz[h] # NoFormat <=> pc[h] = "write"

(* FramesInHand, one holder at a time. *)
LEMMA InHandByThread == FramesInHand <=> \A h \in Holders : HandsMatch(h)
BY ThreadNames, HolderNames DEF FramesInHand, HandsMatch, Holders

(* A step that leaves a holder and its program counter alone keeps its part. *)
LEMMA HandsStay ==
    ASSUME NEW h \in Holders, HandsMatch(h), Same(pc[h], pc'[h]),
           frame'[h] = frame[h],
           h \in CaptureThreads =>
              /\ converted'[h] = converted[h] /\ toSurface'[h] = toSurface[h]
              /\ sz'[h] = sz[h]
    PROVE  HandsMatch(h)'
BY DEF HandsMatch, Same, WokenPc

(* libuvc's thread has no frame when the stream is started. *)
LEMMA HandsOfCallback ==
    ASSUME FramesInHand, SessionShape, pc[Preview] = "startStreaming"
    PROVE  frame[Callback] = NoFrame /\ pc[Callback] = "ready"
BY DEF FramesInHand, SessionShape

(* Every step takes and passes on frames where its program says so. *)
LEMMA NextFramesInHand ==
    ASSUME TypeOK, FramesInHand, SessionShape, [Next]_vars
    PROVE  FramesInHand'
<1> USE ThreadNames, HolderNames
<1>a. \A h \in Holders : HandsMatch(h)
  BY InHandByThread
<1>t. /\ pc \in [Threads -> AllPcs]
      /\ frame \in [Holders -> FramesOrNull]
      /\ converted \in [CaptureThreads -> FramesOrNull]
      /\ toSurface \in [CaptureThreads -> BOOLEAN]
      /\ sz \in [CaptureThreads -> Formats \cup {NoFormat}]
      /\ previewFrames \in Seq(Frames)
  BY DEF TypeOK, PcsOK, FramesTyped
<1> DEFINE OK == \A h \in Holders : HandsMatch(h)'
           Rest(u) == \A h \in Holders \ {u} :
                         /\ Same(pc[h], pc'[h])
                         /\ frame'[h] = frame[h]
                         /\ h \in CaptureThreads =>
                               /\ converted'[h] = converted[h]
                               /\ toSurface'[h] = toSurface[h]
                               /\ sz'[h] = sz[h]
<1>r. ASSUME NEW u, Rest(u), u \in Holders => HandsMatch(u)' PROVE OK
  BY <1>r, <1>a, HandsStay
<1> HIDE DEF OK
<1>g. \A u \in Threads : \A q : [pc EXCEPT ![u] = q]
         = [h \in Threads |-> IF h = u THEN q ELSE pc[h]]
  BY <1>t
<1>1. ASSUME ApiSetters \/ StartPreview \/ StopPreview \/ ApiStep \/ Destroy
      PROVE  OK
  <2>1. UNCHANGED <<frame, converted, toSurface, sz>>
    BY <1>1
    DEF ApiSetters, SetPreviewSize, SetPreviewDisplay, SetFrameCallback,
        SetCaptureDisplay, StartPreview, StopPreview, Destroy, ApiStep,
        WaitFinishingCapturing, FinishSetFrameCallback, FinishSetCaptureDisplay,
        CreatePreviewThread, StartPreviewFailed, SignalStop, JoinCaptureThread,
        JoinPreviewThread, StopClearsPreviewFrames, StopClearsCaptureFrame,
        StopReleasesWindows, ClearPreviewFrame, ClearCaptureFrame, ClearAll,
        controlVars, sessionVars, formatVars, frameVars
  <2>2. CASE SignalStop
    <3> DEFINE p == [pc EXCEPT ![Api] = "joinCapture"]
               q == SignalPreviewSync(p)
    <3>1. \A h \in Holders : p[h] = pc[h]
      BY <1>t
    <3>2. \A h \in Threads : Same(p[h], q[h])
      BY WakeSame DEF SignalPreviewSync
    <3>3. pc' \in SignalCaptureSync(q)
      BY <2>2 DEF SignalStop
    <3>4. \A h \in Threads : Same(q[h], pc'[h])
      BY <3>3, SignalSame
    <3>5. \A h \in Holders : Same(pc[h], pc'[h])
      BY <3>1, <3>2, <3>4 DEF Same, WokenPc
    <3> QED BY <3>5, <2>1, <1>r
  <2>3. CASE WaitFinishingCapturing
    <3>1. PICK q \in {"callbackWait", "displayWait"} :
             pc' \in SignalCaptureSync([pc EXCEPT ![Api] = q])
      BY <2>3 DEF WaitFinishingCapturing
    <3>2. \A h \in Holders : [pc EXCEPT ![Api] = q][h] = pc[h]
      BY <1>t
    <3>3. \A h \in Threads : Same([pc EXCEPT ![Api] = q][h], pc'[h])
      BY <3>1, SignalSame
    <3> QED BY <3>2, <3>3, <2>1, <1>r
  <2>4. CASE StartPreviewFailed
    <3>1. \A h \in Holders : [pc EXCEPT ![Api] = "idle"][h] = pc[h]
      BY <1>t
    <3>2. \A h \in Threads : Same([pc EXCEPT ![Api] = "idle"][h], pc'[h])
      BY <2>4, WakeSame DEF StartPreviewFailed, SignalPreviewSync
    <3> QED BY <3>1, <3>2, <2>1, <1>r
  <2>5. CASE CreatePreviewThread
    <3>1. pc[Preview] = "off"
      BY <2>5 DEF CreatePreviewThread, SessionShape
    <3>2. /\ \A h \in Holders \ {Preview} : pc'[h] = pc[h]
          /\ pc'[Preview] \in {"off", "prepare"}
      BY <2>5, <3>1, <1>t DEF CreatePreviewThread, Goto
    <3>3. HandsMatch(Preview)'
      BY <1>a, <2>1, <3>1, <3>2 DEF HandsMatch
    <3> QED BY <3>2, <3>3, <2>1, <1>r DEF Same
  <2>6. ASSUME NEW q, pc' = [pc EXCEPT ![Api] = q] \/ pc' = pc PROVE OK
    <3>1. \A h \in Holders : Same(pc[h], pc'[h])
      BY <2>6, <1>t DEF Same
    <3> QED BY <3>1, <2>1, <1>r
  <2> HIDE DEF Rest
  <2> QED
    BY <1>1, <2>2, <2>3, <2>4, <2>5, <2>6
    DEF ApiSetters, SetPreviewSize, SetPreviewDisplay, SetFrameCallback,
        SetCaptureDisplay, StartPreview, StopPreview, Destroy, ApiStep,
        FinishSetFrameCallback, FinishSetCaptureDisplay, JoinCaptureThread,
        JoinPreviewThread, StopClearsPreviewFrames, StopClearsCaptureFrame,
        StopReleasesWindows, ReplaceFrameCallback, ReplaceCaptureWindow, Goto
<1>2. ASSUME FrameArrives \/ DeviceLost \/ AddPreviewFrame PROVE OK
  <2>1. UNCHANGED <<converted, toSurface, sz>>
    BY <1>2
    DEF FrameArrives, DeviceLost, AddPreviewFrame, Receive, Miss, Enqueue,
        Discard, frameVars, controlVars, sessionVars, formatVars
  <2>2. \A h \in Holders \ {Callback} : frame'[h] = frame[h]
    BY <1>2, <1>t
    DEF FrameArrives, DeviceLost, AddPreviewFrame, Receive, Miss, Enqueue,
        Discard, Hold, frameVars
  <2>3. \A h \in Holders \ {Callback} : Same(pc[h], pc'[h])
    BY <1>2, <1>t
    DEF FrameArrives, DeviceLost, AbandonStream, AddPreviewFrame,
        SignalPreviewSync, Wake, Goto, Same
  <2>4. HandsMatch(Callback)'
    <3>1. CASE FrameArrives
      BY <3>1, <1>a, <1>t
      DEF FrameArrives, Receive, Miss, Hold, Goto, HandsMatch, NewFrames
    <3>2. CASE AddPreviewFrame
      BY <3>2, <1>t
      DEF AddPreviewFrame, Enqueue, Discard, Hold, Goto, HandsMatch,
          SignalPreviewSync, Wake
    <3>3. CASE DeviceLost
      BY <3>3, <1>a, <1>t
      DEF DeviceLost, AbandonStream, Goto, HandsMatch, frameVars
    <3> QED BY <1>2, <3>1, <3>2, <3>3
  <2> QED BY <2>1, <2>2, <2>3, <2>4, <1>r
<1>3. ASSUME PreviewStep PROVE OK
  <2>1. UNCHANGED <<converted, toSurface, sz>>
    BY <1>3
    DEF PreviewStep, PreparePreview, StartStreaming, SpawnCaptureThread,
        PreviewLoop, WaitPreviewFrame, BlockOnPreviewSync, DecodeMjpeg,
        DrawPreviewOne, AddCaptureFrame, SignalCaptureThread, StopStreaming,
        ClearPreviewFrame, Dequeue, Replace, FailToReplace, UseScratch, Post,
        Lose, controlVars, sessionVars, formatVars, frameVars
  <2>2. \A h \in Holders \ {Preview} : frame'[h] = frame[h]
    BY <1>3, <1>t
    DEF PreviewStep, PreparePreview, StartStreaming, SpawnCaptureThread,
        PreviewLoop, WaitPreviewFrame, BlockOnPreviewSync, DecodeMjpeg,
        DrawPreviewOne, AddCaptureFrame, SignalCaptureThread, StopStreaming,
        ClearPreviewFrame, Dequeue, Replace, FailToReplace, UseScratch, Post,
        Lose, Hold, frameVars
  <2>3. CASE SpawnCaptureThread
    <3>1. UNCHANGED frame
      BY <2>3 DEF SpawnCaptureThread, ClearPreviewFrame
    <3>2. \A h \in Holders : HandsMatch(h)'
      <4> TAKE h \in Holders
      <4>1. \/ pc'[h] = pc[h]
            \/ h = Preview /\ pc[h] = "spawn" /\ pc'[h] = "loop"
            \/ h \in CaptureThreads /\ pc[h] = "off" /\ pc'[h] = "clear"
        BY <2>3, <1>t DEF SpawnCaptureThread, Goto
      <4> QED BY <4>1, <3>1, <2>1, <1>a DEF HandsMatch
    <3> QED BY <3>2 DEF OK
  <2>5. CASE StartStreaming
    <3>1. UNCHANGED frame /\ frame[Callback] = NoFrame
      BY <2>5, HandsOfCallback DEF StartStreaming, SessionShape, frameVars
    <3>2. \A h \in Holders : HandsMatch(h)'
      <4> TAKE h \in Holders
      <4>1. \/ pc'[h] = pc[h]
            \/ /\ h = Preview /\ pc[h] = "startStreaming"
               /\ pc'[h] \in {"spawn", "off"}
            \/ h = Callback /\ pc'[h] = "deliver"
        BY <2>5, <1>t DEF StartStreaming, Goto
      <4> QED BY <4>1, <3>1, <2>1, <1>a DEF HandsMatch
    <3> QED BY <3>2 DEF OK
  <2>4. ASSUME ~SpawnCaptureThread, ~StartStreaming PROVE OK
    <3>1. \A h \in Holders \ {Preview} : Same(pc[h], pc'[h])
      <4>1. ASSUME SignalCaptureThread
            PROVE  \A h \in Holders \ {Preview} : Same(pc[h], pc'[h])
        <5>1. pc' \in SignalCaptureSync([pc EXCEPT ![Preview] = "stopStreaming"])
          BY <4>1 DEF SignalCaptureThread
        <5>2. \A h \in Threads :
                 Same([pc EXCEPT ![Preview] = "stopStreaming"][h], pc'[h])
          BY <5>1, SignalSame
        <5> QED BY <5>2, <1>t
      <4>2. ASSUME AddCaptureFrame
            PROVE  \A h \in Holders \ {Preview} : Same(pc[h], pc'[h])
        <5> DEFINE p == [pc EXCEPT ![Preview] = "loop"]
        <5>1. pc' = p \/ pc' = Wake(p, CaptureSyncWaiters)
          BY <4>2 DEF AddCaptureFrame, Goto
        <5>2. \A h \in Threads : Same(p[h], Wake(p, CaptureSyncWaiters)[h])
          BY WakeSame
        <5>3. \A h \in Holders \ {Preview} : p[h] = pc[h]
          BY <1>t
        <5> QED BY <5>1, <5>2, <5>3 DEF Same
      <4>3. ASSUME NEW q, Goto(Preview, q)
            PROVE  \A h \in Holders \ {Preview} : Same(pc[h], pc'[h])
        BY <4>3, <1>t DEF Goto, Same
      <4> QED
        BY <1>3, <2>4, <4>1, <4>2, <4>3
        DEF PreviewStep, PreparePreview, PreviewLoop, WaitPreviewFrame,
            BlockOnPreviewSync, DecodeMjpeg, DrawPreviewOne, StopStreaming
    <3>2. HandsMatch(Preview)'
      <4>a. \A q \in PreviewPcs : [pc EXCEPT ![Preview] = q][Preview] = q
        BY <1>t
      <4>1. CASE SignalCaptureThread
        <5>1. pc' \in SignalCaptureSync([pc EXCEPT ![Preview] = "stopStreaming"])
          BY <4>1 DEF SignalCaptureThread
        <5>2. pc'[Preview] = "stopStreaming" /\ pc[Preview] = "signal"
          BY <4>1, <5>1, <4>a, SignalSame
          DEF SignalCaptureThread, Same, WokenPc, PreviewPcs
        <5>3. UNCHANGED frame
          BY <4>1 DEF SignalCaptureThread, frameVars
        <5> QED BY <5>2, <5>3, <1>a DEF HandsMatch
      <4>2. CASE AddCaptureFrame
        <5>1. \/ pc' = [pc EXCEPT ![Preview] = "loop"]
              \/ pc' = Wake([pc EXCEPT ![Preview] = "loop"], CaptureSyncWaiters)
          BY <4>2 DEF AddCaptureFrame, Goto
        <5>2. pc'[Preview] = "loop"
          BY <5>1, <1>t DEF Wake, WokenPc
        <5>3. frame'[Preview] = NoFrame
          BY <4>2, <1>t DEF AddCaptureFrame, Post, Lose, Hold
        <5> QED BY <5>2, <5>3 DEF HandsMatch
      <4>3. CASE WaitPreviewFrame
        <5>1. \A i \in DOMAIN previewFrames : previewFrames[i] # NoFrame
          BY <1>t, FramePoolAssumption
        <5>2. previewFrames # <<>> => Head(previewFrames) # NoFrame
          BY <1>t, <5>1
        <5>3. frame[Preview] = NoFrame
          BY <4>3, <1>a DEF WaitPreviewFrame, HandsMatch
        <5>4. \/ frame'[Preview] # NoFrame /\ pc'[Preview] \in {"decode", "draw"}
              \/ frame'[Preview] = NoFrame /\ pc'[Preview] = "loop"
          BY <4>3, <5>2, <5>3, <1>t DEF WaitPreviewFrame, Dequeue, Hold, Goto, frameVars
        <5> QED BY <5>4 DEF HandsMatch
      <4>4. CASE DecodeMjpeg
        BY <4>4, <1>t
        DEF DecodeMjpeg, Replace, FailToReplace, Hold, Goto, HandsMatch, NewFrames
      <4>5. CASE DrawPreviewOne
        <5>1. UNCHANGED frame /\ pc'[Preview] = "add" /\ pc[Preview] = "draw"
          BY <4>5, <1>t DEF DrawPreviewOne, UseScratch, Goto, frameVars
        <5> QED BY <5>1, <1>a DEF HandsMatch
      <4>6. CASE PreparePreview \/ PreviewLoop \/ BlockOnPreviewSync
                 \/ StopStreaming
        <5>1. /\ UNCHANGED frame
              /\ pc[Preview] \notin {"decode", "draw", "add"}
              /\ pc'[Preview] \notin {"decode", "draw", "add"}
          BY <4>6, <1>t
          DEF PreparePreview, PreviewLoop, BlockOnPreviewSync, StopStreaming,
              Goto, frameVars
        <5> QED BY <5>1, <1>a DEF HandsMatch
      <4> QED
        BY <1>3, <2>4, <4>1, <4>2, <4>3, <4>4, <4>5, <4>6 DEF PreviewStep
    <3> QED BY <2>1, <2>2, <3>1, <3>2, <1>r
  <2> QED BY <1>3, <2>3, <2>4, <2>5
<1>4. ASSUME NEW t \in CaptureThreads, CaptureStep(t) PROVE OK
  <2>1. \A h \in Holders \ {t} :
           /\ frame'[h] = frame[h]
           /\ h \in CaptureThreads =>
                 /\ converted'[h] = converted[h] /\ toSurface'[h] = toSurface[h]
                 /\ sz'[h] = sz[h]
    BY <1>4, <1>t
    DEF CaptureStep, BeginCapture, ReadRequestSize, WriteCallbackBytes,
        CaptureLoop, CapturingLoop, WaitCaptureFrame, BlockOnCaptureSync,
        CopyToSurface, PrepareCallback, CallOnFrame, OnFrameReturns,
        RecycleConverted, ReleaseCaptureWindow, ForgetCaptureWindow,
        BroadcastCaptureDone, ClearCaptureFrame, Take, KeepScratch,
        ReturnScratch, Replace, FailToReplace, Discard, Hold, controlVars,
        sessionVars, formatVars, frameVars
  <2>2. CASE BroadcastCaptureDone(t)
    <3> DEFINE p == [pc EXCEPT ![t] = "outer"]
    <3>1. pc' = Wake(p, CaptureSyncWaiters)
      BY <2>2 DEF BroadcastCaptureDone
    <3>2. \A h \in Holders \ {t} : p[h] = pc[h]
      BY <1>t
    <3>3. \A h \in Threads : Same(p[h], pc'[h])
      BY <3>1, WakeSame
    <3>4. pc'[t] = "outer" /\ pc[t] = "broadcast"
      BY <2>2, <3>1, <1>t DEF BroadcastCaptureDone, Wake, WokenPc
    <3>5. UNCHANGED <<frame, converted, toSurface, sz>>
      BY <2>2
      DEF BroadcastCaptureDone, frameVars, controlVars, sessionVars, formatVars
    <3>6. HandsMatch(t)'
      BY <3>4, <3>5, <1>a DEF HandsMatch
    <3> QED BY <2>1, <3>2, <3>3, <3>6, <1>r
  <2>3. ASSUME ~BroadcastCaptureDone(t) PROVE OK
    <3>1. \E q : Goto(t, q)
      BY <1>4, <2>3
      DEF CaptureStep, BeginCapture, ReadRequestSize, WriteCallbackBytes,
          CaptureLoop, CapturingLoop, WaitCaptureFrame, BlockOnCaptureSync,
          CopyToSurface, PrepareCallback, CallOnFrame, OnFrameReturns,
          RecycleConverted, ReleaseCaptureWindow, ForgetCaptureWindow
    <3>2. \A h \in Holders \ {t} : Same(pc[h], pc'[h])
      BY <3>1, <1>t DEF Goto, Same
    <3>3. HandsMatch(t)'
      <4>t. HandsMatch(t)
        BY <1>a
      <4>1. CASE BeginCapture(t)
        BY <4>1, <4>t, <1>t
        DEF BeginCapture, ClearCaptureFrame, Goto, HandsMatch, controlVars,
            sessionVars, formatVars
      <4>13. CASE ReadRequestSize(t)
        <5>1. requestFormat # NoFormat
          BY UVCPreviewAssumption DEF TypeOK
        <5>2. /\ pc[t] = "format" /\ pc'[t] = "write" /\ sz'[t] # NoFormat
              /\ UNCHANGED <<frame, converted, toSurface>>
          BY <4>13, <5>1, <1>t DEF ReadRequestSize, Goto, frameVars, sessionVars
        <5> QED BY <4>t, <5>2 DEF HandsMatch
      <4>14. CASE WriteCallbackBytes(t)
        <5>1. /\ pc[t] = "write" /\ pc'[t] = "outer" /\ sz'[t] = NoFormat
              /\ UNCHANGED <<frame, converted, toSurface>>
          BY <4>14, <1>t DEF WriteCallbackBytes, Goto, frameVars, sessionVars
        <5> QED BY <4>t, <5>1 DEF HandsMatch
      <4>2. CASE CaptureLoop(t)
        BY <4>2, <4>t, <1>t 
        DEF CaptureLoop, Goto, HandsMatch, frameVars, formatVars
      <4>3. CASE CapturingLoop(t)
        BY <4>3, <4>t, <1>t
        DEF CapturingLoop, Goto, HandsMatch, frameVars, controlVars, sessionVars, formatVars
      <4>4. CASE WaitCaptureFrame(t)
        BY <4>4, <4>t, <1>t
        DEF WaitCaptureFrame, Take, Hold, Goto, HandsMatch, frameVars,
            controlVars, sessionVars, formatVars
      <4>5. CASE BlockOnCaptureSync(t)
        BY <4>5, <4>t, <1>t
        DEF BlockOnCaptureSync, Goto, HandsMatch, frameVars, controlVars,
            sessionVars, formatVars
      <4>6. CASE CopyToSurface(t)
        BY <4>6, <4>t, <1>t
        DEF CopyToSurface, KeepScratch, Goto, HandsMatch, frameVars,
            controlVars, sessionVars, formatVars
      <4>7. CASE PrepareCallback(t)
        BY <4>7, <4>t, <1>t
        DEF PrepareCallback, Replace, FailToReplace, Discard, Hold, NewFrames,
            Goto, HandsMatch, frameVars, controlVars, sessionVars, formatVars
      <4>8. CASE CallOnFrame(t)
        BY <4>8, <4>t, <1>t DEF CallOnFrame, Goto, HandsMatch, frameVars, sessionVars, formatVars
      <4>9. CASE OnFrameReturns(t)
        BY <4>9, <4>t, <1>t
        DEF OnFrameReturns, Discard, Hold, Goto, HandsMatch, sessionVars, formatVars
      <4>10. CASE RecycleConverted(t)
        BY <4>10, <4>t, <1>t
        DEF RecycleConverted, ReturnScratch, Goto, HandsMatch, controlVars,
            sessionVars, formatVars
      <4>11. CASE ReleaseCaptureWindow(t)
        BY <4>11, <4>t, <1>t
        DEF ReleaseCaptureWindow, Goto, HandsMatch, frameVars, sessionVars, formatVars
      <4>12. CASE ForgetCaptureWindow(t)
        BY <4>12, <4>t, <1>t
        DEF ForgetCaptureWindow, Goto, HandsMatch, frameVars, sessionVars, formatVars
      <4> QED
        BY <1>4, <2>3, <4>1, <4>2, <4>3, <4>4, <4>5, <4>6, <4>7, <4>8, <4>9,
           <4>10, <4>11, <4>12, <4>13, <4>14
        DEF CaptureStep
    <3> QED BY <2>1, <3>2, <3>3, <1>r
  <2> QED BY <2>2, <2>3
<1>5. ASSUME SpuriousWakeup \/ UNCHANGED vars PROVE OK
  <2>1. UNCHANGED <<frame, converted, toSurface, sz>>
    BY <1>5
    DEF SpuriousWakeup, vars, frameVars, controlVars, sessionVars, formatVars
  <2>2. \A h \in Holders : Same(pc[h], pc'[h])
    BY <1>5, <1>t DEF SpuriousWakeup, vars, Goto, Same
  <2> QED BY <2>1, <2>2, <1>r
<1>6. OK
  BY <1>1, <1>2, <1>3, <1>4, <1>5 DEF Next
<1> QED
  <2> \A h \in Holders : HandsMatch(h)'
    BY <1>6 DEF OK
  <2> QED BY DEF FramesInHand, HandsMatch, Holders

-----------------------------------------------------------------------------
(* The shape of a session. *)

(* A step that changes nothing a session is made of keeps its shape. *)
LEMMA ShapeStays ==
    ASSUME SessionShape,
           Same(pc[Api], pc'[Api]), Same(pc[Preview], pc'[Preview]),
           Same(pc[Callback], pc'[Callback]),
           UNCHANGED <<mIsRunning, streaming, abandoned>>,
           previewFrames' = previewFrames \/ previewFrames' = <<>>,
           captureQueu' = captureQueu \/ captureQueu' = NoFrame
    PROVE  SessionShape'
BY DEF SessionShape, LastCallLeft, Stopping, Same, WokenPc

(* Every step keeps the shape of a session. *)
LEMMA NextSessionShape ==
    ASSUME TypeOK, SessionShape, [Next]_vars
    PROVE  SessionShape'
<1> USE ThreadNames
<1>t. pc \in [Threads -> AllPcs] /\ PcsOK(pc) /\ mIsRunning \in BOOLEAN
  BY DEF TypeOK, PcsOK
<1>1. ASSUME ApiSetters PROVE SessionShape'
  <2>1. /\ pc[Api] = "idle"
        /\ \/ pc'[Api] \in {"idle", "callbackSet", "displaySet"}
           \/ pc'[Api] = "stopCalled" /\ mIsRunning
    BY <1>1, <1>t
    DEF ApiSetters, SetPreviewSize, SetPreviewDisplay, SetFrameCallback,
        SetCaptureDisplay, ReplaceFrameCallback, ReplaceCaptureWindow, Goto,
        MayCallSetter, MaySetFrameCallback
  <2>2. /\ pc'[Preview] = pc[Preview] /\ pc'[Callback] = pc[Callback]
        /\ UNCHANGED <<mIsRunning, streaming, abandoned, previewFrames, captureQueu>>
    BY <1>1, <1>t
    DEF ApiSetters, SetPreviewSize, SetPreviewDisplay, SetFrameCallback,
        SetCaptureDisplay, ReplaceFrameCallback, ReplaceCaptureWindow, Goto,
        flagVars, sessionVars, frameVars
  <2> QED BY <2>1, <2>2 DEF SessionShape, LastCallLeft, Stopping
<1>2. ASSUME FinishSetFrameCallback \/ FinishSetCaptureDisplay
             \/ WaitFinishingCapturing
      PROVE SessionShape'
  <2>1. UNCHANGED <<mIsRunning, streaming, abandoned, previewFrames, captureQueu>>
    BY <1>2
    DEF FinishSetFrameCallback, FinishSetCaptureDisplay, WaitFinishingCapturing,
        flagVars, sessionVars, frameVars, controlVars
  <2>2. /\ pc[Api] \in {"callbackSet", "displaySet", "callbackWoken", "displayWoken"}
        /\ \/ pc'[Api] \in {"idle", "callbackWait", "displayWait",
                            "callbackWoken", "displayWoken"}
           \/ pc'[Api] = "stopCalled" /\ mIsRunning
        /\ Same(pc[Preview], pc'[Preview]) /\ Same(pc[Callback], pc'[Callback])
    <3>1. CASE WaitFinishingCapturing
      <4>1. PICK q \in {"callbackWait", "displayWait"} :
               pc' \in SignalCaptureSync([pc EXCEPT ![Api] = q])
        BY <3>1 DEF WaitFinishingCapturing
      <4>2. \A h \in Threads : Same([pc EXCEPT ![Api] = q][h], pc'[h])
        BY <4>1, SignalSame
      <4>3. pc[Api] \in {"callbackSet", "displaySet"}
        BY <3>1 DEF WaitFinishingCapturing
      <4>4. Same(q, pc'[Api])
        BY <4>2, <1>t
      <4>5. Same(pc[Preview], pc'[Preview]) /\ Same(pc[Callback], pc'[Callback])
        BY <4>2, <1>t
      <4> QED BY <4>1, <4>3, <4>4, <4>5 DEF Same, WokenPc
    <3>2. CASE FinishSetFrameCallback \/ FinishSetCaptureDisplay
      BY <3>2, <1>t
      DEF FinishSetFrameCallback, FinishSetCaptureDisplay, ReplaceFrameCallback,
          ReplaceCaptureWindow, Goto, Same
    <3> QED BY <1>2, <3>1, <3>2
  <2> QED BY <2>1, <2>2 DEF SessionShape, LastCallLeft, Stopping, Same, WokenPc
<1>3. ASSUME StartPreview \/ StopPreview \/ JoinCaptureThread
             \/ JoinPreviewThread \/ StopReleasesWindows \/ CreatePreviewThread
      PROVE  SessionShape'
  <2>1. UNCHANGED <<streaming, abandoned, previewFrames, captureQueu>>
    BY <1>3
    DEF StartPreview, StopPreview, JoinCaptureThread, JoinPreviewThread,
        StopReleasesWindows, CreatePreviewThread, sessionVars, frameVars,
        controlVars
  <2>2. pc'[Callback] = pc[Callback]
    BY <1>3, <1>t
    DEF StartPreview, StopPreview, JoinCaptureThread, JoinPreviewThread,
        StopReleasesWindows, CreatePreviewThread, Goto
  <2>3. CASE CreatePreviewThread
    <3>1. /\ pc[Api] = "starting" /\ UNCHANGED mIsRunning
          /\ \/ pc'[Api] = "idle" /\ pc'[Preview] = "prepare"
             \/ pc'[Api] = "startFailed" /\ pc'[Preview] = pc[Preview]
      BY <2>3, <1>t DEF CreatePreviewThread, Goto, controlVars, flagVars
    <3> QED BY <2>1, <2>2, <3>1 DEF SessionShape, LastCallLeft, Stopping
  <2>4. ASSUME ~CreatePreviewThread PROVE SessionShape'
    <3>1. pc'[Preview] = pc[Preview]
      BY <1>3, <2>4, <1>t
      DEF StartPreview, StopPreview, JoinCaptureThread, JoinPreviewThread,
          StopReleasesWindows, Goto
    <3>2. \/ pc[Api] = "idle" /\ pc'[Api] = "starting" /\ ~mIsRunning /\ mIsRunning'
          \/ /\ pc[Api] \in {"idle", "stopCalled"} /\ ~mIsRunning'
             /\ pc'[Api] = IF mIsRunning THEN "stopping" ELSE "clearPreview"
          \/ pc[Api] = "joinCapture" /\ pc'[Api] = "joinPreview" /\ mIsRunning' = mIsRunning
          \/ /\ pc[Api] = "joinPreview" /\ pc'[Api] = "clearPreview"
             /\ pc[Preview] = "off" /\ mIsRunning' = mIsRunning
          \/ pc[Api] = "releaseWindows" /\ pc'[Api] = "idle" /\ mIsRunning' = mIsRunning
      BY <1>3, <2>4, <1>t
      DEF StartPreview, StopPreview, JoinCaptureThread, JoinPreviewThread,
          StopReleasesWindows, Goto, controlVars, flagVars
    <3> QED BY <2>1, <2>2, <3>1, <3>2 DEF SessionShape, LastCallLeft, Stopping
  <2> QED BY <2>3, <2>4
<1>4. ASSUME StartPreviewFailed PROVE SessionShape'
  <2>1. /\ pc[Api] = "startFailed" /\ pc'[Api] = "idle" /\ ~mIsRunning'
        /\ Same(pc[Preview], pc'[Preview]) /\ pc'[Callback] = pc[Callback]
        /\ UNCHANGED <<streaming, abandoned, previewFrames, captureQueu>>
    BY <1>4, <1>t
    DEF StartPreviewFailed, SignalPreviewSync, Wake, Same, WokenPc, sessionVars,
        frameVars
  <2> QED BY <2>1 DEF SessionShape, LastCallLeft, Stopping, Same, WokenPc
<1>5. ASSUME SignalStop PROVE SessionShape'
  <2> DEFINE p == [pc EXCEPT ![Api] = "joinCapture"]
             q == SignalPreviewSync(p)
  <2>1. \A h \in Threads : Same(p[h], q[h])
    BY WakeSame DEF SignalPreviewSync
  <2>2. \A h \in Threads : Same(q[h], pc'[h])
    BY <1>5, SignalSame DEF SignalStop
  <2>3. /\ pc[Api] = "stopping" /\ p[Api] = "joinCapture"
        /\ p[Preview] = pc[Preview] /\ p[Callback] = pc[Callback]
        /\ UNCHANGED <<mIsRunning, streaming, abandoned, previewFrames, captureQueu>>
    BY <1>5, <1>t DEF SignalStop, controlVars, flagVars, sessionVars, frameVars
  <2> HIDE DEF p, q
  <2>4. /\ pc'[Api] = "joinCapture"
        /\ Same(pc[Preview], pc'[Preview]) /\ Same(pc[Callback], pc'[Callback])
    BY <2>1, <2>2, <2>3 DEF Same, WokenPc
  <2> QED BY <2>3, <2>4 DEF SessionShape, LastCallLeft, Stopping, Same, WokenPc
<1>6. ASSUME StopClearsPreviewFrames \/ StopClearsCaptureFrame \/ Destroy
      PROVE  SessionShape'
  <2>1. /\ pc'[Preview] = pc[Preview] /\ pc'[Callback] = pc[Callback]
        /\ UNCHANGED <<mIsRunning, streaming, abandoned>>
    BY <1>6, <1>t
    DEF StopClearsPreviewFrames, StopClearsCaptureFrame, Destroy, Goto,
        controlVars, flagVars, sessionVars
  <2>2. \/ /\ pc[Api] = "clearPreview" /\ pc'[Api] = "clearCapture"
           /\ previewFrames' = <<>> /\ captureQueu' = captureQueu
        \/ /\ pc[Api] = "clearCapture" /\ pc'[Api] = "releaseWindows"
           /\ previewFrames' = previewFrames /\ captureQueu' = NoFrame
        \/ /\ pc[Api] = "idle" /\ pc'[Api] = "destroyed" /\ ~mIsRunning
           /\ previewFrames' = <<>> /\ captureQueu' = NoFrame
    BY <1>6, <1>t
    DEF StopClearsPreviewFrames, StopClearsCaptureFrame, Destroy, Goto,
        ClearPreviewFrame, ClearCaptureFrame, ClearAll
  <2> QED BY <2>1, <2>2 DEF SessionShape, LastCallLeft, Stopping
<1>7. ASSUME FrameArrives PROVE SessionShape'
  <2>1. /\ pc'[Preview] = pc[Preview] /\ pc'[Api] = pc[Api]
        /\ UNCHANGED <<mIsRunning, streaming, abandoned, previewFrames, captureQueu>>
        /\ pc[Callback] \in {"ready", "deliver"}
        /\ \/ pc'[Callback] = "ready"
           \/ mIsRunning /\ pc'[Callback] = "add"
        /\ streaming \/ pc[Callback] = "deliver"
    BY <1>7, <1>t
    DEF FrameArrives, Receive, Miss, Goto, controlVars, flagVars, sessionVars
  <2>2. streaming \/ abandoned
    BY <2>1 DEF SessionShape
  <2>3. LastCallLeft => previewFrames = <<>> \/ Len(previewFrames) = 1
    BY DEF LastCallLeft
  <2> QED BY <2>1, <2>2 DEF SessionShape, LastCallLeft, Stopping
<1>12. ASSUME DeviceLost PROVE SessionShape'
  <2>1. /\ pc'[Preview] = pc[Preview] /\ pc'[Api] = pc[Api]
        /\ UNCHANGED <<mIsRunning, streaming, previewFrames, captureQueu>>
        /\ streaming /\ ~abandoned /\ abandoned'
        /\ \/ pc'[Callback] = pc[Callback]
           \/ pc'[Callback] = "deliver"
    BY <1>12, <1>t
    DEF DeviceLost, AbandonStream, Goto, flagVars, frameVars
  <2> QED BY <2>1 DEF SessionShape, LastCallLeft, Stopping
<1>8. ASSUME AddPreviewFrame PROVE SessionShape'
  <2>1. /\ pc[Callback] = "add" /\ pc'[Callback] = "ready"
        /\ Same(pc[Preview], pc'[Preview]) /\ pc'[Api] = pc[Api]
        /\ UNCHANGED <<mIsRunning, streaming, abandoned, captureQueu>>
        /\ \/ previewFrames' = previewFrames
           \/ mIsRunning /\ previewFrames' = Append(previewFrames, frame[Callback])
    BY <1>8, <1>t
    DEF AddPreviewFrame, Enqueue, Discard, SignalPreviewSync, Wake, WokenPc,
        Same, Goto, controlVars, flagVars, sessionVars
  <2>2. previewFrames \in Seq(Frames)
    BY DEF TypeOK, FramesTyped
  <2>3. previewFrames = <<>>
           => Len(Append(previewFrames, frame[Callback])) = 1
    OBVIOUS
  <2>4. streaming \/ abandoned
    BY <2>1 DEF SessionShape
  <2> QED
    BY <2>1, <2>3, <2>4 DEF SessionShape, LastCallLeft, Stopping, Same, WokenPc
<1>9. ASSUME PreviewStep PROVE SessionShape'
  <2>1. CASE AddCaptureFrame
    <3> DEFINE p == [pc EXCEPT ![Preview] = "loop"]
    <3>1. pc' = p \/ pc' = Wake(p, CaptureSyncWaiters)
      BY <2>1 DEF AddCaptureFrame, Goto
    <3>2. \A h \in Threads : Same(p[h], pc'[h])
      <4>1. \A h \in Threads : Same(p[h], Wake(p, CaptureSyncWaiters)[h])
        BY WakeSame
      <4> QED BY <3>1, <4>1 DEF Same
    <3>3. /\ p[Preview] = "loop" /\ p[Callback] = pc[Callback] /\ p[Api] = pc[Api]
      BY <1>t
    <3>4. /\ pc[Preview] = "add"
          /\ UNCHANGED <<mIsRunning, streaming, abandoned, previewFrames>>
          /\ captureQueu' = captureQueu \/ mIsRunning
      BY <2>1
      DEF AddCaptureFrame, Post, Lose, controlVars, flagVars, sessionVars
    <3> HIDE DEF p
    <3> QED BY <3>2, <3>3, <3>4 DEF SessionShape, LastCallLeft, Stopping, Same, WokenPc
  <2>2. CASE SignalCaptureThread
    <3> DEFINE p == [pc EXCEPT ![Preview] = "stopStreaming"]
    <3>1. \A h \in Threads : Same(p[h], pc'[h])
      BY <2>2, SignalSame DEF SignalCaptureThread
    <3>2. /\ p[Preview] = "stopStreaming" /\ pc[Preview] = "signal"
          /\ p[Callback] = pc[Callback] /\ p[Api] = pc[Api]
          /\ UNCHANGED <<mIsRunning, streaming, abandoned, previewFrames, captureQueu>>
      BY <2>2, <1>t
      DEF SignalCaptureThread, controlVars, flagVars, sessionVars, frameVars
    <3> HIDE DEF p
    <3> QED BY <3>1, <3>2 DEF SessionShape, LastCallLeft, Stopping, Same, WokenPc
  <2>4. CASE StartStreaming
    <3>1. /\ pc[Preview] = "startStreaming" /\ pc'[Api] = pc[Api]
          /\ \/ /\ pc'[Preview] = "spawn" /\ streaming' /\ UNCHANGED abandoned
                /\ UNCHANGED pc[Callback]
             \/ /\ pc'[Preview] = "off" /\ UNCHANGED <<streaming, abandoned>>
                /\ UNCHANGED pc[Callback]
             \/ /\ pc'[Preview] = "off" /\ UNCHANGED streaming /\ abandoned'
                /\ pc'[Callback] = "deliver"
          /\ UNCHANGED <<mIsRunning, previewFrames, captureQueu>>
      BY <2>4, <1>t DEF StartStreaming, Goto, flagVars, frameVars
    <3> QED BY <3>1 DEF SessionShape, LastCallLeft, Stopping
  <2>3. ASSUME ~AddCaptureFrame, ~SignalCaptureThread, ~StartStreaming
        PROVE  SessionShape'
    <3>1. /\ pc'[Callback] = pc[Callback] /\ pc'[Api] = pc[Api]
          /\ UNCHANGED <<mIsRunning, abandoned, captureQueu>>
      BY <1>9, <2>3, <1>t
      DEF PreviewStep, PreparePreview, SpawnCaptureThread,
          PreviewLoop, WaitPreviewFrame, BlockOnPreviewSync, DecodeMjpeg,
          DrawPreviewOne, StopStreaming, ClearPreviewFrame, Dequeue, Replace,
          FailToReplace, UseScratch, Goto, controlVars, flagVars, sessionVars,
          frameVars
    <3>2. \/ /\ pc[Preview] = "prepare"
             /\ \/ pc'[Preview] = "startStreaming" /\ ~abandoned
                \/ pc'[Preview] = "off"
             /\ UNCHANGED <<streaming, previewFrames>>
          \/ /\ pc[Preview] \notin {"off", "prepare", "startStreaming"}
             /\ pc'[Preview] \notin {"off", "prepare", "startStreaming"}
             /\ UNCHANGED streaming
             /\ \/ UNCHANGED previewFrames \/ previewFrames' = <<>>
                \/ mIsRunning
          \/ /\ pc[Preview] = "stopStreaming" /\ pc'[Preview] = "off"
             /\ pc[Callback] = "ready" \/ abandoned
             /\ ~streaming'
             /\ UNCHANGED previewFrames
      BY <1>9, <2>3, <1>t
      DEF PreviewStep, PreparePreview, SpawnCaptureThread,
          PreviewLoop, WaitPreviewFrame, BlockOnPreviewSync, DecodeMjpeg,
          DrawPreviewOne, StopStreaming, ClearPreviewFrame, Dequeue, Replace,
          FailToReplace, UseScratch, Goto, controlVars, sessionVars, frameVars
    <3> QED BY <3>1, <3>2 DEF SessionShape, LastCallLeft, Stopping
  <2> QED BY <2>1, <2>2, <2>3, <2>4
<1>10. ASSUME NEW t \in CaptureThreads, CaptureStep(t) PROVE SessionShape'
  <2>1. /\ UNCHANGED <<mIsRunning, streaming, abandoned, previewFrames>>
        /\ captureQueu' = captureQueu \/ captureQueu' = NoFrame
    BY <1>10
    DEF CaptureStep, BeginCapture, ReadRequestSize, WriteCallbackBytes,
        CaptureLoop, CapturingLoop, WaitCaptureFrame, BlockOnCaptureSync,
        CopyToSurface, PrepareCallback, CallOnFrame, OnFrameReturns,
        RecycleConverted, ReleaseCaptureWindow, ForgetCaptureWindow,
        BroadcastCaptureDone, ClearCaptureFrame, Take, KeepScratch,
        ReturnScratch, Replace, FailToReplace, Discard, controlVars,
        sessionVars, flagVars, frameVars
  <2>2. \A h \in {Api, Preview, Callback} : Same(pc[h], pc'[h])
    <3>1. CASE BroadcastCaptureDone(t)
      <4>1. \A h \in Threads : Same([pc EXCEPT ![t] = "outer"][h], pc'[h])
        BY <3>1, WakeSame DEF BroadcastCaptureDone
      <4> QED BY <4>1, <1>t
    <3>2. ASSUME NEW q, Goto(t, q)
          PROVE  \A h \in {Api, Preview, Callback} : Same(pc[h], pc'[h])
      BY <3>2, <1>t DEF Goto, Same
    <3> QED
      BY <1>10, <3>1, <3>2
      DEF CaptureStep, BeginCapture, ReadRequestSize, WriteCallbackBytes,
          CaptureLoop, CapturingLoop, WaitCaptureFrame, BlockOnCaptureSync,
          CopyToSurface, PrepareCallback, CallOnFrame, OnFrameReturns,
          RecycleConverted, ReleaseCaptureWindow, ForgetCaptureWindow
  <2> QED BY <2>1, <2>2, ShapeStays
<1>11. ASSUME SpuriousWakeup \/ UNCHANGED vars PROVE SessionShape'
  <2>1. UNCHANGED <<mIsRunning, streaming, abandoned, previewFrames, captureQueu>>
    BY <1>11
    DEF SpuriousWakeup, vars, controlVars, flagVars, sessionVars, frameVars
  <2>2. \A h \in Threads : Same(pc[h], pc'[h])
    BY <1>11, <1>t DEF SpuriousWakeup, vars, Goto, Same
  <2> QED BY <2>1, <2>2, ShapeStays
<1> QED
  BY <1>1, <1>2, <1>3, <1>4, <1>5, <1>6, <1>7, <1>8, <1>9, <1>10, <1>11,
     <1>12
  DEF Next, ApiStep

-----------------------------------------------------------------------------
(* What the steps of each thread do to the control of the others: they     *)
(* wake them at most, but for the two that create a thread.                *)

(* The caller. *)
LEMMA CallerControl ==
    ASSUME TypeOK,
           ApiSetters \/ StartPreview \/ StopPreview \/ Destroy \/ ApiStep
    PROVE  /\ \A h \in Threads \ {Api} :
                 \/ Same(pc[h], pc'[h])
                 \/ CreatePreviewThread /\ h = Preview /\ pc'[h] = "prepare"
           /\ UNCHANGED capture_thread
           /\ previewFrames' \in {previewFrames, <<>>}
           /\ captureQueu' \in {captureQueu, NoFrame}
<1> USE ThreadNames
<1>t. pc \in [Threads -> AllPcs]
  BY DEF TypeOK, PcsOK
<1>1. /\ UNCHANGED capture_thread
      /\ previewFrames' \in {previewFrames, <<>>}
      /\ captureQueu' \in {captureQueu, NoFrame}
  BY DEF ApiSetters, SetPreviewSize, SetPreviewDisplay, SetFrameCallback,
     SetCaptureDisplay, StartPreview, StopPreview, Destroy, ApiStep,
     WaitFinishingCapturing, FinishSetFrameCallback, FinishSetCaptureDisplay,
     CreatePreviewThread, StartPreviewFailed, SignalStop, JoinCaptureThread,
     JoinPreviewThread, StopClearsPreviewFrames, StopClearsCaptureFrame,
     StopReleasesWindows, ClearPreviewFrame, ClearCaptureFrame, ClearAll,
     frameVars, controlVars, sessionVars
<1> DEFINE OthersSame == \A h \in Threads \ {Api} : Same(pc[h], pc'[h])
<1>2. ASSUME NEW p, NEW q, p = [pc EXCEPT ![Api] = q],
             \A h \in Threads : Same(p[h], pc'[h])
      PROVE  OthersSame
  BY <1>2, <1>t
<1>3. CASE WaitFinishingCapturing
  <2>1. PICK q : pc' \in SignalCaptureSync([pc EXCEPT ![Api] = q])
    BY <1>3 DEF WaitFinishingCapturing
  <2> QED BY <1>1, <1>2, <2>1, SignalSame
<1>4. CASE StartPreviewFailed
  <2>1. \A h \in Threads : Same([pc EXCEPT ![Api] = "idle"][h], pc'[h])
    BY <1>4, WakeSame DEF StartPreviewFailed, SignalPreviewSync
  <2> QED BY <1>1, <1>2, <2>1
<1>5. CASE SignalStop
  <2> DEFINE p == [pc EXCEPT ![Api] = "joinCapture"]
             q == SignalPreviewSync(p)
  <2>1. \A h \in Threads : Same(p[h], q[h])
    BY WakeSame DEF SignalPreviewSync
  <2>2. \A h \in Threads : Same(q[h], pc'[h])
    BY <1>5, SignalSame DEF SignalStop
  <2> HIDE DEF q
  <2>3. \A h \in Threads : Same(p[h], pc'[h])
    BY <2>1, <2>2 DEF Same, WokenPc
  <2> QED BY <1>1, <1>2, <2>3
<1>6. CASE ~WaitFinishingCapturing /\ ~StartPreviewFailed /\ ~SignalStop
  <2>1. ASSUME NEW q, Goto(Api, q) PROVE OthersSame
    BY <2>1, <1>t DEF Goto, Same
  <2>2. CASE CreatePreviewThread
    BY <1>1, <2>2, <1>t DEF CreatePreviewThread, Goto, Same
  <2>3. CASE UNCHANGED pc
    BY <1>1, <2>3 DEF Same
  <2> QED
    BY <1>1, <1>6, <2>1, <2>2, <2>3
    DEF ApiSetters, SetPreviewSize, SetPreviewDisplay, SetFrameCallback,
        SetCaptureDisplay, ReplaceFrameCallback, ReplaceCaptureWindow,
        StartPreview, StopPreview, Destroy, ApiStep, FinishSetFrameCallback,
        FinishSetCaptureDisplay, JoinCaptureThread, JoinPreviewThread,
        StopClearsPreviewFrames, StopClearsCaptureFrame, StopReleasesWindows
<1> QED BY <1>3, <1>4, <1>5, <1>6

(* Only startPreview begins a start, and setCaptureDisplay waits only for  *)
(* callers that use the setters during a preview.                          *)
DisplayPcs == {"displaySet", "displayWait", "displayWoken"}

LEMMA CallerCourse ==
    ASSUME TypeOK,
           ApiSetters \/ StartPreview \/ StopPreview \/ Destroy \/ ApiStep
    PROVE  /\ pc'[Api] = "starting" => StartPreview
           /\ pc'[Api] \in DisplayPcs
                 => pc[Api] \in DisplayPcs \/ SettersWhileRunning
           /\ SignalStop => pc[Api] = "stopping" /\ pc'[Api] = "joinCapture"
<1> USE ThreadNames
<1>t. pc \in [Threads -> AllPcs]
  BY DEF TypeOK, PcsOK
<1>1. CASE SignalStop
  <2> DEFINE p == [pc EXCEPT ![Api] = "joinCapture"]
             q == SignalPreviewSync(p)
  <2>1. Same(p[Api], q[Api])
    BY WakeSame DEF SignalPreviewSync
  <2>2. Same(q[Api], pc'[Api])
    BY <1>1, SignalSame DEF SignalStop
  <2>3. p[Api] = "joinCapture"
    BY <1>t
  <2> HIDE DEF p, q
  <2> QED BY <1>1, <2>1, <2>2, <2>3 DEF SignalStop, Same, WokenPc, DisplayPcs
<1>2. CASE WaitFinishingCapturing
  <2>1. PICK q \in {"callbackWait", "displayWait"} :
           /\ pc' \in SignalCaptureSync([pc EXCEPT ![Api] = q])
           /\ q = "displayWait" => pc[Api] = "displaySet"
    BY <1>2 DEF WaitFinishingCapturing
  <2>2. Same([pc EXCEPT ![Api] = q][Api], pc'[Api])
    BY <2>1, SignalSame
  <2>3. q = "displayWait" => pc[Api] \in DisplayPcs
    BY <2>1 DEF DisplayPcs
  <2>4. pc[Api] # "stopping" /\ pc'[Api] \in {q, WokenPc(q)}
    BY <1>2, <2>2, <1>t DEF Same, WaitFinishingCapturing
  <2> QED
    BY <1>2, <2>1, <2>3, <2>4 DEF WokenPc, SignalStop, StartPreview, DisplayPcs
<1>3. CASE StartPreviewFailed
  <2>1. Same([pc EXCEPT ![Api] = "idle"][Api], pc'[Api])
    BY <1>3, WakeSame DEF StartPreviewFailed, SignalPreviewSync
  <2>2. pc'[Api] = "idle"
    BY <2>1, <1>t DEF Same, WokenPc
  <2> QED BY <1>3, <2>2 DEF StartPreviewFailed, SignalStop, DisplayPcs
<1>4. CASE ~SignalStop /\ ~WaitFinishingCapturing /\ ~StartPreviewFailed
  <2>1. CASE ApiSetters
    <3>1. pc[Api] = "idle"
      BY <2>1
      DEF ApiSetters, SetPreviewSize, SetPreviewDisplay, SetFrameCallback,
          SetCaptureDisplay, MayCallSetter, MaySetFrameCallback
    <3>2. \/ pc'[Api] \in {"idle", "callbackSet", "stopCalled"}
          \/ StopsCapturing /\ MayCallSetter /\ pc'[Api] = "displaySet"
      BY <2>1, <3>1, <1>t
      DEF ApiSetters, SetPreviewSize, SetPreviewDisplay, SetFrameCallback,
          SetCaptureDisplay, ReplaceFrameCallback, ReplaceCaptureWindow, Goto
    <3> QED
      BY <1>4, <3>1, <3>2 DEF DisplayPcs, StopsCapturing, MayCallSetter
  <2>2. CASE ~ApiSetters /\ ~StartPreview
    BY <1>4, <2>2, <1>t
    DEF StopPreview, Destroy, ApiStep, FinishSetFrameCallback,
        FinishSetCaptureDisplay, ReplaceFrameCallback, ReplaceCaptureWindow,
        CreatePreviewThread, JoinCaptureThread, JoinPreviewThread,
        StopClearsPreviewFrames, StopClearsCaptureFrame, StopReleasesWindows,
        Goto, DisplayPcs
  <2>3. CASE StartPreview
    BY <1>4, <2>3, <1>t DEF StartPreview, Goto, DisplayPcs
  <2> QED BY <2>1, <2>2, <2>3
<1> QED BY <1>1, <1>2, <1>3, <1>4

(* The preview thread, and the course it takes. *)
LEMMA PreviewStepControl ==
    ASSUME TypeOK, PreviewStep, ~SpawnCaptureThread
    PROVE  /\ \A h \in Threads \ {Preview, Callback} : Same(pc[h], pc'[h])
           /\ UNCHANGED <<mIsRunning, capture_thread, overlap, starts>>
           /\ \/ pc[Preview] = "prepare" /\ pc'[Preview] \in {"startStreaming", "off"}
              \/ pc[Preview] = "startStreaming" /\ pc'[Preview] \in {"spawn", "off"}
              \/ InPreviewLoop /\ InPreviewLoop'
              \/ pc[Preview] = "loop" /\ pc'[Preview] = "signal" /\ ~mIsRunning
              \/ pc[Preview] = "signal" /\ pc'[Preview] = "stopStreaming"
              \/ pc[Preview] = "stopStreaming" /\ pc'[Preview] = "off"
<1> USE ThreadNames
<1>t. pc \in [Threads -> AllPcs]
  BY DEF TypeOK, PcsOK
<1>1. UNCHANGED <<mIsRunning, capture_thread, overlap, starts>>
  BY DEF PreviewStep, PreparePreview, StartStreaming, PreviewLoop,
     WaitPreviewFrame, BlockOnPreviewSync, DecodeMjpeg, DrawPreviewOne,
     AddCaptureFrame, SignalCaptureThread, StopStreaming, controlVars,
     flagVars, sessionVars
<1>2. PICK q :
         /\ \/ pc[Preview] = "prepare" /\ q \in {"startStreaming", "off"}
            \/ pc[Preview] = "startStreaming" /\ q \in {"spawn", "off"}
            \/ InPreviewLoop /\ q \in {"loop", "take", "previewWait", "decode",
                                       "draw", "add"}
            \/ pc[Preview] = "loop" /\ q = "signal" /\ ~mIsRunning
            \/ pc[Preview] = "signal" /\ q = "stopStreaming"
            \/ pc[Preview] = "stopStreaming" /\ q = "off"
         /\ \/ pc' = [pc EXCEPT ![Preview] = q]
            \/ pc' = [pc EXCEPT ![Preview] = q, ![Callback] = "deliver"]
            \/ pc' = Wake([pc EXCEPT ![Preview] = q], CaptureSyncWaiters)
            \/ pc' \in SignalCaptureSync([pc EXCEPT ![Preview] = q])
  BY DEF PreviewStep, PreparePreview, StartStreaming, PreviewLoop,
     WaitPreviewFrame, BlockOnPreviewSync, DecodeMjpeg, DrawPreviewOne,
     AddCaptureFrame, SignalCaptureThread, StopStreaming, Goto, InPreviewLoop
<1> DEFINE p == [pc EXCEPT ![Preview] = q]
<1>3. \A t \in Threads \ {Callback} : Same(p[t], pc'[t])
  <2>1. CASE pc' = p \/ pc' = [p EXCEPT ![Callback] = "deliver"]
    BY <2>1, <1>t DEF Same
  <2>2. CASE pc' = Wake(p, CaptureSyncWaiters)
    BY <2>2, WakeSame
  <2>3. CASE pc' \in SignalCaptureSync(p)
    BY <2>3, SignalSame
  <2> QED BY <1>2, <2>1, <2>2, <2>3
<1>4. p[Preview] = q /\ \A t \in Threads \ {Preview} : p[t] = pc[t]
  BY <1>t
<1> HIDE DEF p
<1>5. /\ Same(q, pc'[Preview])
      /\ \A h \in Threads \ {Preview, Callback} : Same(pc[h], pc'[h])
  BY <1>3, <1>4
<1> QED BY <1>1, <1>2, <1>5 DEF Same, WokenPc, InPreviewLoop

(* A capture thread.  From its beginning it comes to its loop only while   *)
(* the preview runs.                                                       *)
Beginning == {"clear", "format", "write", "outer"}

LEMMA CaptureStepControl ==
    ASSUME TypeOK, NEW t \in CaptureThreads, CaptureStep(t)
    PROVE  /\ \A h \in Threads \ {t} : Same(pc[h], pc'[h])
           /\ UNCHANGED <<mIsRunning, capture_thread, overlap, starts,
                          previewFrames>>
           /\ captureQueu' \in {captureQueu, NoFrame}
           /\ pc[t] # "off"
           /\ pc[t] \in Beginning => pc'[t] \in Beginning \cup {"off"} \/ mIsRunning
           /\ pc'[t] = "captureWait" => captureQueu' = NoFrame
           /\ InDoCaptureCallback(t)'
                 => \/ InDoCaptureCallback(t)
                    \/ mIsRunning /\ captureQueu # NoFrame
<1> USE ThreadNames
<1>t. pc \in [Threads -> AllPcs]
  BY DEF TypeOK, PcsOK
<1>1. /\ UNCHANGED <<mIsRunning, capture_thread, overlap, starts, previewFrames>>
      /\ captureQueu' \in {captureQueu, NoFrame}
  BY DEF CaptureStep, BeginCapture, ReadRequestSize, WriteCallbackBytes,
         CaptureLoop, CapturingLoop, WaitCaptureFrame, BlockOnCaptureSync,
         CopyToSurface, PrepareCallback, CallOnFrame, OnFrameReturns,
         RecycleConverted, ReleaseCaptureWindow, ForgetCaptureWindow,
         BroadcastCaptureDone, ClearCaptureFrame, Take, KeepScratch,
         ReturnScratch, Replace, FailToReplace, Discard, frameVars,
         controlVars, flagVars, sessionVars
<1>2. CASE BroadcastCaptureDone(t)
  <2>1. \A h \in Threads : Same([pc EXCEPT ![t] = "outer"][h], pc'[h])
    BY <1>2, WakeSame DEF BroadcastCaptureDone
  <2>2. /\ \A h \in Threads \ {t} : Same(pc[h], pc'[h])
        /\ Same("outer", pc'[t])
    BY <2>1, <1>t
  <2>3. pc[t] = "broadcast" /\ pc'[t] = "outer"
    BY <1>2, <2>2 DEF BroadcastCaptureDone, Same, WokenPc
  <2> QED BY <1>1, <2>2, <2>3 DEF InDoCaptureCallback, Beginning
<1>3. CASE ~BroadcastCaptureDone(t)
  <2>1. pc[t] # "off"
    BY <1>3
    DEF CaptureStep, BeginCapture, ReadRequestSize, WriteCallbackBytes,
        CaptureLoop, CapturingLoop, WaitCaptureFrame, BlockOnCaptureSync,
        CopyToSurface, PrepareCallback, CallOnFrame, OnFrameReturns,
        RecycleConverted, ReleaseCaptureWindow, ForgetCaptureWindow
  <2>2. \E q : Goto(t, q)
    BY <1>3
    DEF CaptureStep, BeginCapture, ReadRequestSize, WriteCallbackBytes,
        CaptureLoop, CapturingLoop, WaitCaptureFrame, BlockOnCaptureSync,
        CopyToSurface, PrepareCallback, CallOnFrame, OnFrameReturns,
        RecycleConverted, ReleaseCaptureWindow, ForgetCaptureWindow
  <2>3. \A h \in Threads \ {t} : Same(pc[h], pc'[h])
    BY <2>2, <1>t DEF Goto, Same
  <2>4. pc[t] \in Beginning => pc'[t] \in Beginning \cup {"off"} \/ mIsRunning
    BY <1>3, <1>t
    DEF CaptureStep, BeginCapture, ReadRequestSize, WriteCallbackBytes,
        CaptureLoop, CapturingLoop, WaitCaptureFrame, BlockOnCaptureSync,
        CopyToSurface, PrepareCallback, CallOnFrame, OnFrameReturns,
        RecycleConverted, ReleaseCaptureWindow, ForgetCaptureWindow, Goto,
        Beginning
  <2>5. pc'[t] = "captureWait" => captureQueu' = NoFrame
    BY <1>3, <1>t
    DEF CaptureStep, BeginCapture, ReadRequestSize, WriteCallbackBytes,
        CaptureLoop, CapturingLoop, WaitCaptureFrame, BlockOnCaptureSync,
        CopyToSurface, PrepareCallback, CallOnFrame, OnFrameReturns,
        RecycleConverted, ReleaseCaptureWindow, ForgetCaptureWindow, Goto,
        frameVars
  <2>6. InDoCaptureCallback(t)'
           => InDoCaptureCallback(t) \/ (mIsRunning /\ captureQueu # NoFrame)
    BY <1>3, <1>t
    DEF CaptureStep, BeginCapture, ReadRequestSize, WriteCallbackBytes,
        CaptureLoop, CapturingLoop, WaitCaptureFrame, BlockOnCaptureSync,
        CopyToSurface, PrepareCallback, CallOnFrame, OnFrameReturns,
        RecycleConverted, ReleaseCaptureWindow, ForgetCaptureWindow, Goto,
        InDoCaptureCallback
  <2> QED BY <1>1, <2>1, <2>3, <2>4, <2>5, <2>6
<1> QED BY <1>2, <1>3

-----------------------------------------------------------------------------
(* The wake-ups of the two queues, and the mailbox of a session. *)

(* A step that puts no frame in a queue and makes no thread wait. *)
LEMMA AwaitedStays ==
    ASSUME FramesAwaited,
           \A t \in Threads \ {Api} : Same(pc[t], pc'[t]) \/ pc'[t] = "prepare",
           previewFrames' \in {previewFrames, <<>>},
           captureQueu' \in {captureQueu, NoFrame}
    PROVE  FramesAwaited'
BY ThreadNames DEF FramesAwaited, Same, WokenPc

(* Every step that puts a frame in a queue wakes the thread that waits     *)
(* for it.                                                                 *)
LEMMA NextFramesAwaited ==
    ASSUME TypeOK, FramesAwaited, [Next]_vars
    PROVE  FramesAwaited'
<1> USE ThreadNames
<1>t. pc \in [Threads -> AllPcs] /\ PcsOK(pc) /\ PcsOK(pc')
  BY NextPcsOK DEF TypeOK, PcsOK
<1>1. ASSUME ApiSetters \/ StartPreview \/ StopPreview \/ Destroy \/ ApiStep
      PROVE  FramesAwaited'
  <2>1. /\ \A h \in Threads \ {Api} : Same(pc[h], pc'[h]) \/ pc'[h] = "prepare"
        /\ previewFrames' \in {previewFrames, <<>>}
        /\ captureQueu' \in {captureQueu, NoFrame}
    BY <1>1, CallerControl
  <2> QED BY <2>1, AwaitedStays
<1>2. ASSUME FrameArrives \/ DeviceLost PROVE FramesAwaited'
  <2>1. UNCHANGED <<previewFrames, captureQueu>>
    BY <1>2 DEF FrameArrives, DeviceLost, Receive, Miss, frameVars
  <2>2. \A h \in Threads \ {Callback} : pc'[h] = pc[h]
    BY <1>2, <1>t DEF FrameArrives, DeviceLost, AbandonStream, Goto
  <2> QED BY <2>1, <2>2 DEF FramesAwaited
<1>3. ASSUME AddPreviewFrame PROVE FramesAwaited'
  <2>1. UNCHANGED captureQueu
    BY <1>3 DEF AddPreviewFrame, Enqueue, Discard
  <2>2. CASE pc' = SignalPreviewSync([pc EXCEPT ![Callback] = "ready"])
    <3>1. /\ pc'[Preview] # "previewWait"
          /\ \A t \in CaptureThreads : pc'[t] = pc[t]
      BY <2>2, <1>t DEF SignalPreviewSync, Wake, WokenPc
    <3> QED BY <2>1, <3>1 DEF FramesAwaited
  <2>3. CASE Discard(Callback) /\ Goto(Callback, "ready")
    BY <2>1, <2>3, <1>t DEF Discard, Goto, FramesAwaited
  <2> QED BY <1>3, <2>2, <2>3 DEF AddPreviewFrame
<1>4. ASSUME PreviewStep PROVE FramesAwaited'
  <2>1. CASE AddCaptureFrame
    <3>1. previewFrames' = previewFrames /\ pc'[Preview] # "previewWait"
      BY <2>1, <1>t
      DEF AddCaptureFrame, Post, Lose, Goto, Wake, WokenPc
    <3>2. CASE UNCHANGED captureQueu
      <4>1. \A t \in CaptureThreads : Same(pc[t], pc'[t])
        BY <2>1, <1>t DEF AddCaptureFrame, Goto, Wake, Same
      <4> QED BY <3>1, <3>2, <4>1 DEF FramesAwaited, Same, WokenPc
    <3>3. CASE pc' = Wake([pc EXCEPT ![Preview] = "loop"], CaptureSyncWaiters)
      <4>1. \A t \in CaptureThreads : pc'[t] # "captureWait"
        BY <3>3, <1>t DEF Wake, WokenPc, CaptureSyncWaiters
      <4> QED BY <3>1, <4>1 DEF FramesAwaited
    <3> QED BY <2>1, <3>2, <3>3 DEF AddCaptureFrame, Lose
  <2>2. CASE SpawnCaptureThread
    <3>1. previewFrames' = <<>> /\ UNCHANGED captureQueu
      BY <2>2 DEF SpawnCaptureThread, ClearPreviewFrame
    <3>2. \A t \in CaptureThreads : pc'[t] \in {pc[t], "clear"}
      BY <2>2, <1>t DEF SpawnCaptureThread, Goto
    <3> QED BY <3>1, <3>2 DEF FramesAwaited
  <2>3. CASE ~AddCaptureFrame /\ ~SpawnCaptureThread
    <3>1. UNCHANGED captureQueu
      BY <1>4, <2>3
      DEF PreviewStep, PreparePreview, StartStreaming, PreviewLoop,
          WaitPreviewFrame, BlockOnPreviewSync, DecodeMjpeg, DrawPreviewOne,
          SignalCaptureThread, StopStreaming, Dequeue, Replace, FailToReplace,
          UseScratch, frameVars
    <3>2. \A t \in CaptureThreads : Same(pc[t], pc'[t])
      BY <1>4, <2>3, <1>t, PreviewStepControl
    <3>3. pc'[Preview] = "previewWait" => previewFrames' = <<>>
      <4>1. CASE SignalCaptureThread
        BY <4>1, <1>t, PreviewStepControl, <1>4, <2>3
        DEF SignalCaptureThread, InPreviewLoop
      <4>2. CASE ~SignalCaptureThread
        BY <1>4, <2>3, <4>2, <1>t
        DEF PreviewStep, PreparePreview, StartStreaming, PreviewLoop,
            WaitPreviewFrame, BlockOnPreviewSync, DecodeMjpeg, DrawPreviewOne,
            StopStreaming, Goto, frameVars
      <4> QED BY <4>1, <4>2
    <3> QED BY <3>1, <3>2, <3>3 DEF FramesAwaited, Same, WokenPc
  <2> QED BY <2>1, <2>2, <2>3
<1>5. ASSUME NEW t \in CaptureThreads, CaptureStep(t) PROVE FramesAwaited'
  <2>1. /\ \A h \in Threads \ {t} : Same(pc[h], pc'[h])
        /\ UNCHANGED previewFrames
        /\ captureQueu' \in {captureQueu, NoFrame}
        /\ pc'[t] = "captureWait" => captureQueu' = NoFrame
    BY <1>5, CaptureStepControl
  <2> QED BY <2>1 DEF FramesAwaited, Same, WokenPc
<1>6. ASSUME SpuriousWakeup \/ UNCHANGED vars PROVE FramesAwaited'
  <2>1. \A t \in Threads : Same(pc[t], pc'[t])
    BY <1>6, <1>t DEF SpuriousWakeup, vars, Goto, Same
  <2>2. UNCHANGED <<previewFrames, captureQueu>>
    BY <1>6 DEF SpuriousWakeup, vars, frameVars
  <2> QED BY <2>1, <2>2, AwaitedStays
<1> QED BY <1>1, <1>2, <1>3, <1>4, <1>5, <1>6 DEF Next

(* A step that neither sets the flag nor fills the mailbox, and that wakes *)
(* threads at most or moves the caller within or outside of its wait.      *)
LEMMA CaptureShapeStays ==
    ASSUME CaptureShape, UNCHANGED <<mIsRunning, capture_thread>>,
           captureQueu' \in {captureQueu, NoFrame},
           \A t \in Threads \ {Api} : Same(pc[t], pc'[t]),
           pc[Api] \in {"stopping", "joinCapture"}
              => pc'[Api] \in {"stopping", "joinCapture"}
    PROVE  CaptureShape'
BY ThreadNames
DEF CaptureShape, InPreviewLoop, InDoCaptureCallback, Same, WokenPc

(* Every step keeps the mailbox to its session. *)
LEMMA NextCaptureShape ==
    ASSUME TypeOK, SessionShape, CaptureShape, [Next]_vars
    PROVE  CaptureShape'
<1> USE ThreadNames
<1>t. pc \in [Threads -> AllPcs]
  BY DEF TypeOK, PcsOK
<1> DEFINE NoneCalls ==
              \A t \in CaptureThreads :
                 t = capture_thread => ~InDoCaptureCallback(t)
<1>1. ASSUME pc[Api] = "idle", ~mIsRunning \/ pc[Preview] = "off"
      PROVE  NoneCalls
  BY <1>1 DEF CaptureShape, InPreviewLoop
<1>2. ASSUME ApiSetters \/ WaitFinishingCapturing \/ FinishSetFrameCallback
             \/ FinishSetCaptureDisplay \/ SignalStop \/ JoinPreviewThread
             \/ StopClearsPreviewFrames \/ StopClearsCaptureFrame
             \/ StopReleasesWindows \/ Destroy
      PROVE  CaptureShape'
  <2>1. /\ \A h \in Threads \ {Api} :
              \/ Same(pc[h], pc'[h])
              \/ CreatePreviewThread /\ h = Preview /\ pc'[h] = "prepare"
        /\ UNCHANGED capture_thread
        /\ captureQueu' \in {captureQueu, NoFrame}
    BY <1>2, CallerControl DEF ApiStep
  <2>2. UNCHANGED mIsRunning
    BY <1>2
    DEF ApiSetters, SetPreviewSize, SetPreviewDisplay, SetFrameCallback,
        SetCaptureDisplay, WaitFinishingCapturing, FinishSetFrameCallback,
        FinishSetCaptureDisplay, SignalStop, JoinPreviewThread,
        StopClearsPreviewFrames, StopClearsCaptureFrame, StopReleasesWindows,
        Destroy, controlVars, flagVars
  <2>3. ~SignalStop => pc[Api] \notin {"stopping", "joinCapture"}
    BY <1>2
    DEF ApiSetters, SetPreviewSize, SetPreviewDisplay, SetFrameCallback,
        SetCaptureDisplay, MayCallSetter, MaySetFrameCallback,
        WaitFinishingCapturing, FinishSetFrameCallback,
        FinishSetCaptureDisplay, JoinPreviewThread, StopClearsPreviewFrames,
        StopClearsCaptureFrame, StopReleasesWindows, Destroy
  <2>4. SignalStop => pc'[Api] = "joinCapture" /\ pc[Api] = "stopping"
    BY CallerCourse DEF ApiStep
  <2>5. ~CreatePreviewThread
    <3>1. CASE SignalStop
      BY <3>1 DEF SignalStop, CreatePreviewThread
    <3>2. CASE ~SignalStop
      BY <1>2, <3>2
      DEF ApiSetters, SetPreviewSize, SetPreviewDisplay, SetFrameCallback,
          SetCaptureDisplay, MayCallSetter, MaySetFrameCallback,
          WaitFinishingCapturing, FinishSetFrameCallback,
          FinishSetCaptureDisplay, JoinPreviewThread,
          StopClearsPreviewFrames, StopClearsCaptureFrame,
          StopReleasesWindows, Destroy, CreatePreviewThread
    <3> QED BY <3>1, <3>2
  <2> QED BY <2>1, <2>2, <2>3, <2>4, <2>5, CaptureShapeStays
<1>3. ASSUME StartPreview \/ CreatePreviewThread \/ StartPreviewFailed
      PROVE  CaptureShape'
  <2>1. pc[Preview] = "off" /\ captureQueu = NoFrame /\ NoneCalls
    <3>1. CASE StartPreview
      BY <3>1, <1>1 DEF StartPreview, SessionShape, Stopping
    <3>2. CASE CreatePreviewThread \/ StartPreviewFailed
      <4>1. mIsRunning /\ pc[Preview] = "off"
        BY <3>2 DEF CreatePreviewThread, StartPreviewFailed, SessionShape
      <4> QED BY <4>1 DEF CaptureShape, InPreviewLoop
    <3> QED BY <1>3, <3>1, <3>2
  <2>2. /\ \A h \in CaptureThreads : Same(pc[h], pc'[h])
        /\ Same(pc[Preview], pc'[Preview]) \/ pc'[Preview] = "prepare"
        /\ UNCHANGED capture_thread
        /\ captureQueu' \in {captureQueu, NoFrame}
    BY <1>3, CallerControl DEF ApiStep
  <2> QED
    BY <2>1, <2>2
    DEF CaptureShape, InPreviewLoop, InDoCaptureCallback, Same, WokenPc
<1>4. ASSUME StopPreview PROVE CaptureShape'
  <2>1. /\ \A h \in Threads \ {Api} : pc'[h] = pc[h]
        /\ UNCHANGED capture_thread
        /\ ~mIsRunning'
        /\ pc[Api] \in {"idle", "stopCalled"}
        /\ mIsRunning => pc'[Api] = "stopping"
    BY <1>4, <1>t DEF StopPreview, Goto, sessionVars
  <2>2. ~mIsRunning => NoneCalls
    BY <2>1, <1>1 DEF SessionShape
  <2> QED
    BY <2>1, <2>2 DEF CaptureShape, InPreviewLoop, InDoCaptureCallback
<1>5. ASSUME JoinCaptureThread PROVE CaptureShape'
  <2>1. /\ \A h \in Threads \ {Api} : pc'[h] = pc[h]
        /\ UNCHANGED <<mIsRunning, capture_thread, captureQueu>>
        /\ capture_thread # NoThread => pc[capture_thread] = "off"
    BY <1>5, <1>t
    DEF JoinCaptureThread, Goto, controlVars, flagVars, sessionVars, frameVars
  <2>2. NoneCalls
    BY <2>1, UVCPreviewAssumption DEF InDoCaptureCallback
  <2> QED
    BY <2>1, <2>2 DEF CaptureShape, InPreviewLoop, InDoCaptureCallback
<1>6. ASSUME FrameArrives \/ DeviceLost \/ AddPreviewFrame PROVE CaptureShape'
  <2>1. UNCHANGED <<mIsRunning, capture_thread, captureQueu>>
    BY <1>6
    DEF FrameArrives, DeviceLost, AddPreviewFrame, Receive, Miss, Enqueue,
        Discard, frameVars, controlVars, flagVars, sessionVars
  <2>2. \/ \A t \in Threads \ {Callback} : pc'[t] = pc[t]
        \/ pc' = SignalPreviewSync([pc EXCEPT ![Callback] = "ready"])
    BY <1>6, <1>t
    DEF FrameArrives, DeviceLost, AbandonStream, AddPreviewFrame, Goto
  <2>3. /\ \A t \in Threads \ {Callback} : Same(pc[t], pc'[t])
        /\ pc'[Api] = pc[Api]
    BY <2>2, <1>t DEF SignalPreviewSync, Wake, Same
  <2> QED
    BY <2>1, <2>3
    DEF CaptureShape, InPreviewLoop, InDoCaptureCallback, Same, WokenPc
<1>7. ASSUME SpawnCaptureThread PROVE CaptureShape'
  <2>1. /\ pc[Preview] = "spawn" /\ pc'[Preview] = "loop"
        /\ pc'[Api] = pc[Api]
        /\ UNCHANGED <<mIsRunning, captureQueu>>
    BY <1>7, <1>t DEF SpawnCaptureThread, ClearPreviewFrame, Goto, flagVars
  <2>2. NoneCalls
    BY <2>1 DEF CaptureShape, InPreviewLoop
  <2>3. \A t \in CaptureThreads :
           t = capture_thread' => \/ pc'[t] = "clear"
                                  \/ pc'[t] = pc[t] /\ t = capture_thread
    BY <1>7, <1>t DEF SpawnCaptureThread, Goto
  <2> QED
    BY <2>1, <2>2, <2>3 DEF CaptureShape, InPreviewLoop, InDoCaptureCallback
<1>8. ASSUME PreviewStep, ~SpawnCaptureThread PROVE CaptureShape'
  <2>1. /\ \A h \in Threads \ {Preview, Callback} : Same(pc[h], pc'[h])
        /\ UNCHANGED <<mIsRunning, capture_thread>>
    BY <1>8, PreviewStepControl
  <2>2. \/ pc[Preview] = "prepare" /\ pc'[Preview] \in {"startStreaming", "off"}
        \/ pc[Preview] = "startStreaming" /\ pc'[Preview] \in {"spawn", "off"}
        \/ InPreviewLoop /\ InPreviewLoop'
        \/ pc[Preview] = "loop" /\ pc'[Preview] = "signal" /\ ~mIsRunning
        \/ pc[Preview] = "signal" /\ pc'[Preview] = "stopStreaming"
        \/ pc[Preview] = "stopStreaming" /\ pc'[Preview] = "off"
    BY <1>8, PreviewStepControl
  <2>3. captureQueu' = captureQueu \/ (InPreviewLoop /\ InPreviewLoop')
    <3>1. CASE AddCaptureFrame
      BY <3>1, <2>2 DEF AddCaptureFrame, InPreviewLoop
    <3>2. CASE ~AddCaptureFrame
      BY <1>8, <3>2
      DEF PreviewStep, PreparePreview, StartStreaming, PreviewLoop,
          WaitPreviewFrame, BlockOnPreviewSync, DecodeMjpeg, DrawPreviewOne,
          SignalCaptureThread, StopStreaming, Dequeue, Replace, FailToReplace,
          UseScratch, frameVars
    <3> QED BY <3>1, <3>2
  <2>4. /\ mIsRunning => pc'[Preview] \notin {"signal", "stopStreaming"}
        /\ mIsRunning /\ InPreviewLoop => InPreviewLoop'
        /\ pc'[Preview] \in {"prepare", "startStreaming", "spawn"}
              => pc[Preview] \in {"prepare", "startStreaming", "spawn"}
    BY <2>2 DEF CaptureShape, InPreviewLoop
  <2> QED
    BY <2>1, <2>3, <2>4
    DEF CaptureShape, InDoCaptureCallback, Same, WokenPc
<1>9. ASSUME NEW t \in CaptureThreads, CaptureStep(t) PROVE CaptureShape'
  <2>1. /\ \A h \in Threads \ {t} : Same(pc[h], pc'[h])
        /\ UNCHANGED <<mIsRunning, capture_thread>>
        /\ captureQueu' \in {captureQueu, NoFrame}
        /\ InDoCaptureCallback(t)'
              => InDoCaptureCallback(t) \/ (mIsRunning /\ captureQueu # NoFrame)
    BY <1>9, CaptureStepControl
  <2> QED
    BY <2>1
    DEF CaptureShape, InPreviewLoop, InDoCaptureCallback, Same, WokenPc
<1>10. ASSUME SpuriousWakeup \/ UNCHANGED vars PROVE CaptureShape'
  <2>1. \A t \in Threads : Same(pc[t], pc'[t])
    BY <1>10, <1>t DEF SpuriousWakeup, vars, Goto, Same
  <2>2. UNCHANGED <<mIsRunning, capture_thread, captureQueu>>
    BY <1>10
    DEF SpuriousWakeup, vars, controlVars, flagVars, sessionVars, frameVars
  <2> QED BY <2>1, <2>2, CaptureShapeStays DEF Same, WokenPc
<1> QED
  BY <1>2, <1>3, <1>4, <1>5, <1>6, <1>7, <1>8, <1>9, <1>10
  DEF Next, ApiStep, PreviewStep

-----------------------------------------------------------------------------
(* The invariant of the control, by induction: types, then the hands the   *)
(* moves need, then the shape of a session, its wake-ups and its mailbox.  *)
THEOREM ControlInvHolds == Spec => []ControlInv
<1>1. Init => ControlInv
  <2> SUFFICES ASSUME Init PROVE ControlInv
    OBVIOUS
  <2>1. TypeOK
    BY InitTypeOK
  <2>2. FramesInHand
    BY ThreadNames, HolderNames DEF Init, PipelineInit, FramesInHand, Threads
  <2>3. SessionShape
    BY ThreadNames DEF Init, PipelineInit, SessionShape, LastCallLeft, Stopping
  <2>4. FramesAwaited /\ CaptureShape
    BY ThreadNames
    DEF Init, PipelineInit, FramesAwaited, CaptureShape, InDoCaptureCallback
  <2> QED BY <2>1, <2>2, <2>3, <2>4 DEF ControlInv
<1>2. ControlInv /\ [Next]_vars => ControlInv'
  <2> SUFFICES ASSUME ControlInv, [Next]_vars PROVE ControlInv'
    OBVIOUS
  <2>1. [PipelineNext]_frameVars
    BY NextMovesFrames DEF ControlInv
  <2>2. FramesTyped'
    BY <2>1, PipelineNextTyped DEF ControlInv, TypeOK
  <2>3. TypeOK'
    BY <2>2, NextTypeOK DEF ControlInv
  <2>4. FramesInHand' /\ SessionShape'
    BY NextFramesInHand, NextSessionShape DEF ControlInv
  <2>5. FramesAwaited' /\ CaptureShape'
    BY NextFramesAwaited, NextCaptureShape DEF ControlInv
  <2> QED BY <2>3, <2>4, <2>5 DEF ControlInv
<1> QED BY <1>1, <1>2, PTL DEF Spec

(* Every variable keeps its type. *)
THEOREM TypeCorrect == Spec => []TypeOK
<1>1. ControlInv => TypeOK
  BY DEF ControlInv
<1> QED BY <1>1, ControlInvHolds, PTL

(* The threads of UVCPreview, in any interleaving, with signals that are   *)
(* lost or spurious and with capture threads that outlive their session,   *)
(* make only the moves of the pipeline, each with the hands it needs.      *)
THEOREM ImplementsPipeline == Spec => PipelineSpec
<1>1. Init => PipelineInit
  BY DEF Init
<1>2. ControlInv /\ [Next]_vars => [PipelineNext]_frameVars
  BY NextMovesFrames DEF ControlInv
<1> QED BY <1>1, <1>2, ControlInvHolds, PTL DEF Spec, PipelineSpec

(* So a frame is never in two places: no two threads work on the same      *)
(* pixels, and no frame in use is handed out by the pool.                  *)
THEOREM FramesOwned == Spec => []FrameOwnedOnce
<1>1. PipelineInv => FrameOwnedOnce
  BY DEF PipelineInv
<1> QED BY <1>1, ImplementsPipeline, PipelineCorrect, PTL

(* And frames never overtake each other on the way to the callback.        *)
THEOREM FramesInOrder == Spec => []PipelineOrder
<1>1. PipelineInv => PipelineOrder
  BY DEF PipelineInv
<1> QED BY <1>1, ImplementsPipeline, PipelineCorrect, PTL

(* When no preview runs and no call is under way nothing of the preview is *)
(* left but, at worst, a capture thread that stopPreview did not join and, *)
(* if libuvc abandoned the stream, one call of the frame callback.         *)
THEOREM StopIsQuiet == Spec => []StoppedMeansQuiet
<1>1. ControlInv => StoppedMeansQuiet
  BY DEF ControlInv, SessionShape, Stopping, StoppedMeansQuiet, NothingLeft,
     LastCallLeft
<1> QED BY <1>1, ControlInvHolds, PTL

(* No wake-up of the two queues is lost: the preview thread waits only     *)
(* while the preview queue is empty, and every capture thread, left over   *)
(* or not, only while the mailbox is (the safety half of                   *)
(* PreviewQueueDrains and MailboxDrains, with setters and all).            *)
THEOREM FramesAreAwaited == Spec => []FramesAwaited
<1>1. ControlInv => FramesAwaited
  BY DEF ControlInv
<1> QED BY <1>1, ControlInvHolds, PTL

(* When stopPreview has joined capture_thread, that thread has no frame in *)
(* its hand and no onFrame under way, until another startPreview: also if  *)
(* the preview thread creates it after the join, because it finds          *)
(* mIsRunning reset before it takes a frame.                               *)
CallbackEnded ==
    ~mIsRunning /\ pc[Api] \notin {"stopping", "joinCapture"} =>
        \A t \in CaptureThreads :
           t = capture_thread => frame[t] = NoFrame /\ ~InDoCaptureCallback(t)

THEOREM StopEndsCallback == Spec => []CallbackEnded
<1>1. ControlInv => CallbackEnded
  BY DEF ControlInv, FramesInHand, CaptureShape, InDoCaptureCallback,
     CallbackEnded
<1> QED BY <1>1, ControlInvHolds, PTL

(* A frame is lost to the program only when the preview is being stopped. *)
THEOREM LeaksAreOfStops == Spec => LeaksOnlyWhenStopping
<1>1. ControlInv /\ ControlInv' /\ [Next]_vars
         => [Leaked' \subseteq Leaked \/ ~mIsRunning]_vars
  BY NextLeaks DEF ControlInv, LosesFrame
<1> QED BY <1>1, ControlInvHolds, PTL DEF Spec, LeaksOnlyWhenStopping

-----------------------------------------------------------------------------
(* A preview loses one frame at most: what can still be lost is paid for   *)
(* by the call of startPreview that set mIsRunning.                        *)
MayLose == mIsRunning \/ pc[Preview] \in {"decode", "draw", "add"}

LeakInv ==
    /\ IsFiniteSet(Leaked)
    /\ Cardinality(Leaked) + (IF MayLose THEN 1 ELSE 0) <= starts

(* No frame is in the preview thread's hand after it lost one. *)
LEMMA LosesTheLast ==
    ASSUME TypeOK, LosesFrame
    PROVE  MayLose /\ ~MayLose' /\ starts' = starts
BY ThreadNames
DEF LosesFrame, AddCaptureFrame, MayLose, TypeOK, PcsOK, Goto, controlVars,
    flagVars

(* A preview that lost its frame loses another only after startPreview. *)
LEMMA MayLoseAfterStart ==
    ASSUME ControlInv, [Next]_vars
    PROVE  \/ starts' = starts /\ (MayLose' => MayLose)
           \/ starts' = starts + 1 /\ ~MayLose
<1> USE ThreadNames
<1>t. pc \in [Threads -> AllPcs]
  BY DEF ControlInv, TypeOK, PcsOK
<1> DEFINE OK == \/ starts' = starts /\ (MayLose' => MayLose)
                 \/ starts' = starts + 1 /\ ~MayLose
           InHand(p) == p[Preview] \in {"decode", "draw", "add"}
<1>1. ASSUME starts' = starts, mIsRunning' => mIsRunning,
             Same(pc[Preview], pc'[Preview]) \/ ~InHand(pc') \/ MayLose
      PROVE  OK
  BY <1>1 DEF MayLose, Same, WokenPc
<1>2. ASSUME StartPreview PROVE OK
  BY <1>2 DEF StartPreview, MayLose, ControlInv, SessionShape, Stopping
<1> HIDE DEF OK
<1>3. ASSUME ApiSetters \/ StopPreview \/ Destroy \/ ApiStep PROVE OK
  <2>1. starts' = starts /\ (mIsRunning' => mIsRunning)
    <3>1. starts' = starts
      BY <1>3
      DEF ApiSetters, SetPreviewSize, SetPreviewDisplay, SetFrameCallback,
          SetCaptureDisplay, StopPreview, Destroy, ApiStep,
          WaitFinishingCapturing, FinishSetFrameCallback,
          FinishSetCaptureDisplay, CreatePreviewThread, StartPreviewFailed,
          SignalStop, JoinCaptureThread, JoinPreviewThread,
          StopClearsPreviewFrames, StopClearsCaptureFrame,
          StopReleasesWindows, controlVars
    <3>2. StopPreview \/ StartPreviewFailed => ~mIsRunning'
      BY DEF StopPreview, StartPreviewFailed
    <3>3. ~(StopPreview \/ StartPreviewFailed) => mIsRunning' = mIsRunning
      BY <1>3
      DEF ApiSetters, SetPreviewSize, SetPreviewDisplay, SetFrameCallback,
          SetCaptureDisplay, Destroy, ApiStep, WaitFinishingCapturing,
          FinishSetFrameCallback, FinishSetCaptureDisplay,
          CreatePreviewThread, SignalStop, JoinCaptureThread,
          JoinPreviewThread, StopClearsPreviewFrames,
          StopClearsCaptureFrame, StopReleasesWindows, controlVars, flagVars
    <3> QED BY <3>1, <3>2, <3>3
  <2>2. Same(pc[Preview], pc'[Preview]) \/ ~InHand(pc')
    <3>1. ASSUME NEW p \in ApiPcs, Goto(Api, p)
          PROVE  pc'[Preview] = pc[Preview]
      BY <3>1, <1>t DEF Goto
    <3>2. CASE SetPreviewSize(requestFormat') \/ UNCHANGED pc
      BY <3>2 DEF SetPreviewSize, Same
    <3>3. ASSUME NEW p \in ApiPcs,
                 NEW q \in SignalCaptureSync([pc EXCEPT ![Api] = p])
          PROVE  Same(pc[Preview], q[Preview])
      <4>1. Same([pc EXCEPT ![Api] = p][Preview], q[Preview])
        BY <3>3, SignalSame
      <4> QED BY <4>1, <1>t
    <3>4. CASE CreatePreviewThread
      BY <3>4, <1>t DEF CreatePreviewThread, Goto, Same
    <3>5. CASE StartPreviewFailed
      <4>1. Same([pc EXCEPT ![Api] = "idle"][Preview], pc'[Preview])
        BY <3>5, WakeSame DEF StartPreviewFailed, SignalPreviewSync
      <4> QED BY <4>1, <1>t
    <3>6. CASE SignalStop
      <4> DEFINE p == SignalPreviewSync([pc EXCEPT ![Api] = "joinCapture"])
      <4>1. Same(pc[Preview], p[Preview])
        BY WakeSame, <1>t DEF SignalPreviewSync, Wake, Same
      <4>2. Same(p[Preview], pc'[Preview])
        BY <3>6, SignalSame DEF SignalStop
      <4> HIDE DEF p
      <4> QED BY <4>1, <4>2 DEF Same, WokenPc
    <3>7. CASE WaitFinishingCapturing
      BY <3>7, <3>3 DEF WaitFinishingCapturing, ApiPcs
    <3> QED
      BY <1>3, <3>1, <3>2, <3>4, <3>5, <3>6, <3>7
      DEF ApiSetters, SetPreviewSize, SetPreviewDisplay, SetFrameCallback,
          SetCaptureDisplay, ReplaceFrameCallback, ReplaceCaptureWindow,
          StopPreview, Destroy, ApiStep, FinishSetFrameCallback,
          FinishSetCaptureDisplay, JoinCaptureThread, JoinPreviewThread,
          StopClearsPreviewFrames, StopClearsCaptureFrame,
          StopReleasesWindows, ApiPcs, Same
  <2> QED BY <2>1, <2>2, <1>1
<1>4. ASSUME FrameArrives \/ DeviceLost \/ AddPreviewFrame PROVE OK
  <2>1. starts' = starts /\ mIsRunning' = mIsRunning
    BY <1>4 DEF FrameArrives, DeviceLost, AddPreviewFrame, controlVars, flagVars
  <2>2. \/ pc'[Preview] = pc[Preview]
        \/ pc' = SignalPreviewSync([pc EXCEPT ![Callback] = "ready"])
    BY <1>4, <1>t
    DEF FrameArrives, DeviceLost, AbandonStream, AddPreviewFrame, Goto
  <2>3. Same(pc[Preview], pc'[Preview])
    BY <2>2, WakeSame, <1>t DEF SignalPreviewSync, Wake, Same
  <2> QED BY <2>1, <2>3, <1>1
<1>5. ASSUME PreviewStep PROVE OK
  <2>1. starts' = starts /\ mIsRunning' = mIsRunning
    BY <1>5
    DEF PreviewStep, PreparePreview, StartStreaming, SpawnCaptureThread,
        PreviewLoop, WaitPreviewFrame, BlockOnPreviewSync, DecodeMjpeg,
        DrawPreviewOne, AddCaptureFrame, SignalCaptureThread, StopStreaming,
        controlVars, flagVars
  <2>2. CASE MayLose
    BY <2>1, <2>2, <1>1
  <2>3. CASE ~MayLose
    <3>1. CASE SignalCaptureThread
      <4>1. Same([pc EXCEPT ![Preview] = "stopStreaming"][Preview], pc'[Preview])
        BY <3>1, SignalSame DEF SignalCaptureThread
      <4>2. ~InHand(pc')
        BY <4>1, <1>t DEF Same, WokenPc
      <4> QED BY <2>1, <4>2, <1>1
    <3>2. ~SignalCaptureThread => ~InHand(pc')
      BY <1>5, <2>3, <1>t
      DEF PreviewStep, PreparePreview, StartStreaming, SpawnCaptureThread,
          PreviewLoop, WaitPreviewFrame, BlockOnPreviewSync, DecodeMjpeg,
          DrawPreviewOne, AddCaptureFrame, StopStreaming, Goto, MayLose
    <3> QED BY <3>1, <3>2, <2>1, <1>1
  <2> QED BY <2>2, <2>3
<1>6. ASSUME NEW t \in CaptureThreads, CaptureStep(t) PROVE OK
  <2>1. starts' = starts /\ mIsRunning' = mIsRunning
    BY <1>6
    DEF CaptureStep, BeginCapture, ReadRequestSize, WriteCallbackBytes,
        CaptureLoop, CapturingLoop, WaitCaptureFrame, BlockOnCaptureSync,
        CopyToSurface, PrepareCallback, CallOnFrame, OnFrameReturns,
        RecycleConverted, ReleaseCaptureWindow, ForgetCaptureWindow,
        BroadcastCaptureDone, controlVars, flagVars
  <2>2. Same(pc[Preview], pc'[Preview])
    <3>1. CASE BroadcastCaptureDone(t)
      <4>1. Same([pc EXCEPT ![t] = "outer"][Preview], pc'[Preview])
        BY <3>1, WakeSame DEF BroadcastCaptureDone
      <4> QED BY <4>1, <1>t
    <3>2. ASSUME NEW q, Goto(t, q) PROVE pc'[Preview] = pc[Preview]
      BY <3>2, <1>t DEF Goto
    <3> QED
      BY <1>6, <3>1, <3>2
      DEF CaptureStep, BeginCapture, ReadRequestSize, WriteCallbackBytes,
          CaptureLoop, CapturingLoop, WaitCaptureFrame, BlockOnCaptureSync,
          CopyToSurface, PrepareCallback, CallOnFrame, OnFrameReturns,
          RecycleConverted, ReleaseCaptureWindow, ForgetCaptureWindow, Same
  <2> QED BY <2>1, <2>2, <1>1
<1>7. ASSUME SpuriousWakeup \/ UNCHANGED vars PROVE OK
  <2>1. Same(pc[Preview], pc'[Preview])
    BY <1>7, <1>t DEF SpuriousWakeup, vars, Goto, Same
  <2> QED
    BY <1>7, <2>1, <1>1 DEF SpuriousWakeup, vars, controlVars, flagVars
<1> QED
  <2> OK
    BY <1>2, <1>3, <1>4, <1>5, <1>6, <1>7 DEF Next
  <2> QED BY DEF OK

(* At most one frame is leaked for each preview that was started. *)
THEOREM LeaksAreFew == Spec => []LeakBound
<1>1. Init => LeakInv
  <2> SUFFICES ASSUME Init PROVE LeakInv
    OBVIOUS
  <2>1. Leaked = {}
    BY DEF Init, PipelineInit, NoMemory, Leaked
  <2>2. ~MayLose /\ starts = 0
    BY ThreadNames DEF Init, MayLose
  <2> QED BY <2>1, <2>2, FS_EmptySet DEF LeakInv
<1>2. ControlInv /\ ControlInv' /\ LeakInv /\ [Next]_vars => LeakInv'
  <2> SUFFICES ASSUME ControlInv, ControlInv', LeakInv, [Next]_vars
               PROVE  LeakInv'
    OBVIOUS
  <2>t. starts \in Nat /\ Cardinality(Leaked) \in Nat
    BY FS_CardinalityType DEF ControlInv, TypeOK, LeakInv
  <2>1. CASE Leaked' \subseteq Leaked
    <3>1. IsFiniteSet(Leaked') /\ Cardinality(Leaked') <= Cardinality(Leaked)
      BY <2>1, FS_Subset DEF LeakInv
    <3>2. Cardinality(Leaked') \in Nat
      BY <3>1, FS_CardinalityType
    <3> QED BY <2>t, <3>1, <3>2, MayLoseAfterStart DEF LeakInv
  <2>2. CASE LosesFrame /\ Leaked' \subseteq Leaked \cup {frame[Preview]}
    <3> DEFINE S == Leaked \cup {frame[Preview]}
    <3>1. IsFiniteSet(S) /\ Cardinality(S) <= Cardinality(Leaked) + 1
      BY <2>t, FS_AddElement DEF LeakInv
    <3>2. IsFiniteSet(Leaked') /\ Cardinality(Leaked') <= Cardinality(S)
      BY <2>2, <3>1, FS_Subset
    <3>3. Cardinality(Leaked') \in Nat /\ Cardinality(S) \in Nat
      BY <3>1, <3>2, FS_CardinalityType
    <3>4. MayLose /\ ~MayLose' /\ starts' = starts
      BY <2>2, LosesTheLast DEF ControlInv
    <3> HIDE DEF S
    <3> QED BY <2>t, <3>1, <3>2, <3>3, <3>4 DEF LeakInv
  <2> QED BY <2>1, <2>2, NextLeaks DEF ControlInv
<1>3. ControlInv /\ LeakInv => LeakBound
  <2> SUFFICES ASSUME ControlInv, LeakInv PROVE LeakBound
    OBVIOUS
  <2>1. starts \in Nat /\ Cardinality(Leaked) \in Nat
    BY FS_CardinalityType DEF ControlInv, TypeOK, LeakInv
  <2> QED BY <2>1 DEF LeakInv, LeakBound
<1> QED BY <1>1, <1>2, <1>3, ControlInvHolds, PTL DEF Spec

-----------------------------------------------------------------------------
(* The capture thread of a session is alone as long as no preview was      *)
(* started beside a capture thread of another: in any number of sessions,  *)
(* whatever setters are called, it leaves its beginning only while the     *)
(* preview runs or stopPreview waits for it.                               *)
NoCapture == \A t \in CaptureThreads : pc[t] = "off"

OneCapture ==
    /\ \A t \in CaptureThreads :
          /\ pc[t] # "off" => t = capture_thread
          /\ pc[t] \notin Beginning \cup {"off"}
                => mIsRunning \/ pc[Api] \in {"stopping", "joinCapture"}
    /\ \/ pc[Preview] \in {"prepare", "startStreaming", "spawn"}
       \/ pc[Api] \in {"starting", "startFailed"}
       => NoCapture

(* Only startPreview can make sessions overlap: when a thread is left.     *)
LEMMA NextOverlap ==
    ASSUME [Next]_vars
    PROVE  \/ overlap' = overlap /\ ~StartPreview
           \/ StartPreview /\ (overlap' \/ (~overlap /\ NoCapture))
<1>1. CASE StartPreview
  BY <1>1 DEF StartPreview, NoCapture
<1>2. CASE ~StartPreview
  <2>1. ASSUME ApiSetters \/ StopPreview \/ Destroy \/ ApiStep
        PROVE  overlap' = overlap
    BY <2>1
    DEF ApiSetters, SetPreviewSize, SetPreviewDisplay, SetFrameCallback,
        SetCaptureDisplay, StopPreview, Destroy, ApiStep,
        WaitFinishingCapturing, FinishSetFrameCallback,
        FinishSetCaptureDisplay, CreatePreviewThread, StartPreviewFailed,
        SignalStop, JoinCaptureThread, JoinPreviewThread,
        StopClearsPreviewFrames, StopClearsCaptureFrame, StopReleasesWindows,
        controlVars, sessionVars
  <2>2. ASSUME FrameArrives \/ DeviceLost \/ AddPreviewFrame
               \/ SpuriousWakeup \/ UNCHANGED vars
        PROVE  overlap' = overlap
    BY <2>2
    DEF FrameArrives, DeviceLost, AddPreviewFrame, SpuriousWakeup, vars,
        controlVars, sessionVars
  <2>3. ASSUME PreviewStep PROVE overlap' = overlap
    BY <2>3
    DEF PreviewStep, PreparePreview, StartStreaming, SpawnCaptureThread,
        PreviewLoop, WaitPreviewFrame, BlockOnPreviewSync, DecodeMjpeg,
        DrawPreviewOne, AddCaptureFrame, SignalCaptureThread, StopStreaming,
        controlVars, sessionVars
  <2>4. ASSUME NEW t \in CaptureThreads, CaptureStep(t) PROVE overlap' = overlap
    BY <2>4
    DEF CaptureStep, BeginCapture, ReadRequestSize, WriteCallbackBytes,
        CaptureLoop, CapturingLoop, WaitCaptureFrame, BlockOnCaptureSync,
        CopyToSurface, PrepareCallback, CallOnFrame, OnFrameReturns,
        RecycleConverted, ReleaseCaptureWindow, ForgetCaptureWindow,
        BroadcastCaptureDone, controlVars, sessionVars
  <2> QED BY <1>2, <2>1, <2>2, <2>3, <2>4 DEF Next
<1> QED BY <1>1, <1>2

(* Threads that are woken at most, and flags that stay, change nothing. *)
LEMMA OneCaptureStays ==
    ASSUME OneCapture, \A t \in Threads \ {Callback} : Same(pc[t], pc'[t]),
           UNCHANGED <<mIsRunning, capture_thread>>
    PROVE  OneCapture'
BY ThreadNames DEF OneCapture, NoCapture, Beginning, Same, WokenPc

(* Every step keeps one capture thread at most, but for a startPreview     *)
(* beside one that is left.                                                *)
LEMMA NextOneCapture ==
    ASSUME ControlInv, OneCapture, [Next]_vars, StartPreview => NoCapture
    PROVE  OneCapture'
<1> USE ThreadNames
<1>t. pc \in [Threads -> AllPcs] /\ TypeOK
  BY DEF ControlInv, TypeOK, PcsOK
<1>1. ASSUME ApiSetters \/ FinishSetFrameCallback \/ FinishSetCaptureDisplay
             \/ WaitFinishingCapturing
      PROVE OneCapture'
  <2>1. UNCHANGED <<mIsRunning, capture_thread>>
    BY <1>1
    DEF ApiSetters, SetPreviewSize, SetPreviewDisplay, SetFrameCallback,
        SetCaptureDisplay, FinishSetFrameCallback, FinishSetCaptureDisplay,
        WaitFinishingCapturing, controlVars, sessionVars, flagVars
  <2>2. ~CreatePreviewThread /\ pc[Api] \notin {"stopping", "joinCapture"}
    BY <1>1
    DEF ApiSetters, SetPreviewSize, SetPreviewDisplay, SetFrameCallback,
        SetCaptureDisplay, MayCallSetter, MaySetFrameCallback,
        FinishSetFrameCallback, FinishSetCaptureDisplay,
        WaitFinishingCapturing, CreatePreviewThread
  <2>3. \A t \in Threads \ {Api} : Same(pc[t], pc'[t])
    BY <1>1, <1>t, <2>2, CallerControl DEF ApiStep
  <2>4. pc'[Api] \notin {"starting", "startFailed"}
    <3>1. CASE WaitFinishingCapturing
      <4>1. PICK q \in {"callbackWait", "displayWait"} :
               pc' \in SignalCaptureSync([pc EXCEPT ![Api] = q])
        BY <3>1 DEF WaitFinishingCapturing
      <4>2. Same([pc EXCEPT ![Api] = q][Api], pc'[Api])
        BY <4>1, SignalSame
      <4> QED BY <4>1, <4>2, <1>t DEF Same, WokenPc
    <3>2. CASE ~WaitFinishingCapturing
      <4>1. PICK q \in {"idle", "callbackSet", "displaySet", "stopCalled"} :
               \/ pc' = [pc EXCEPT ![Api] = q]
               \/ pc' = pc /\ pc[Api] = "idle"
        BY <1>1, <3>2
        DEF ApiSetters, SetPreviewSize, SetPreviewDisplay, SetFrameCallback,
            SetCaptureDisplay, FinishSetFrameCallback,
            FinishSetCaptureDisplay, ReplaceFrameCallback,
            ReplaceCaptureWindow, Goto, MayCallSetter
      <4> QED BY <4>1, <1>t
    <3> QED BY <3>1, <3>2
  <2> QED
    BY <2>1, <2>2, <2>3, <2>4
    DEF OneCapture, NoCapture, Beginning, Same, WokenPc
<1>2. ASSUME StartPreview PROVE OneCapture'
  <2>1. /\ \A t \in Threads \ {Api} : pc'[t] = pc[t]
        /\ NoCapture
    BY <1>2, <1>t DEF StartPreview, Goto
  <2> QED BY <2>1 DEF OneCapture, NoCapture, Beginning
<1>3. ASSUME CreatePreviewThread PROVE OneCapture'
  <2>1. /\ \A t \in CaptureThreads : pc'[t] = pc[t]
        /\ pc[Api] = "starting" /\ pc'[Api] \in {"idle", "startFailed"}
        /\ UNCHANGED <<mIsRunning, capture_thread>>
        /\ pc'[Preview] = pc[Preview] \/ pc'[Preview] = "prepare"
    BY <1>3, <1>t
    DEF CreatePreviewThread, Goto, controlVars, flagVars, sessionVars
  <2> QED BY <2>1 DEF OneCapture, NoCapture
<1>4. ASSUME StartPreviewFailed PROVE OneCapture'
  <2>1. \A t \in Threads \ {Api} : Same(pc[t], pc'[t])
    <3>1. \A t \in Threads : Same([pc EXCEPT ![Api] = "idle"][t], pc'[t])
      BY <1>4, WakeSame DEF StartPreviewFailed, SignalPreviewSync
    <3> QED BY <3>1, <1>t
  <2>2. pc[Api] = "startFailed"
    BY <1>4 DEF StartPreviewFailed
  <2> QED BY <2>1, <2>2 DEF OneCapture, NoCapture, Beginning, Same, WokenPc
<1>5. ASSUME StopPreview \/ JoinCaptureThread \/ JoinPreviewThread
             \/ StopClearsPreviewFrames \/ StopClearsCaptureFrame
             \/ StopReleasesWindows \/ Destroy
      PROVE  OneCapture'
  <2>1. /\ \A t \in Threads \ {Api} : pc'[t] = pc[t]
        /\ UNCHANGED capture_thread
    BY <1>5, <1>t
    DEF StopPreview, JoinCaptureThread, JoinPreviewThread,
        StopClearsPreviewFrames, StopClearsCaptureFrame, StopReleasesWindows,
        Destroy, Goto, sessionVars, controlVars
  <2>2. \/ /\ pc[Api] \in {"idle", "stopCalled"} /\ ~mIsRunning'
           /\ pc'[Api] = IF mIsRunning THEN "stopping" ELSE "clearPreview"
        \/ /\ pc[Api] = "joinCapture" /\ pc'[Api] = "joinPreview"
           /\ mIsRunning' = mIsRunning
           /\ capture_thread # NoThread => pc[capture_thread] = "off"
        \/ /\ pc[Api] \notin {"stopping", "joinCapture"}
           /\ pc'[Api] \in {"clearPreview", "clearCapture", "releaseWindows",
                            "idle", "destroyed"}
           /\ mIsRunning' = mIsRunning
    BY <1>5, <1>t
    DEF StopPreview, JoinCaptureThread, JoinPreviewThread,
        StopClearsPreviewFrames, StopClearsCaptureFrame, StopReleasesWindows,
        Destroy, Goto, flagVars, controlVars
  <2>3. capture_thread \in CaptureThreads \cup {NoThread}
    BY <1>t DEF TypeOK
  <2> QED
    BY <2>1, <2>2, <2>3, UVCPreviewAssumption
    DEF OneCapture, NoCapture, Beginning
<1>6. ASSUME SignalStop PROVE OneCapture'
  <2> DEFINE p == [pc EXCEPT ![Api] = "joinCapture"]
             q == SignalPreviewSync(p)
  <2>1. \A h \in Threads : Same(p[h], q[h])
    BY WakeSame DEF SignalPreviewSync
  <2>2. \A h \in Threads : Same(q[h], pc'[h])
    BY <1>6, SignalSame DEF SignalStop
  <2>3. /\ pc[Api] = "stopping" /\ p[Api] = "joinCapture"
        /\ \A h \in Threads \ {Api} : p[h] = pc[h]
        /\ UNCHANGED <<mIsRunning, capture_thread>>
    BY <1>6, <1>t DEF SignalStop, controlVars, flagVars, sessionVars
  <2> HIDE DEF p, q
  <2>4. /\ pc'[Api] = "joinCapture"
        /\ \A h \in Threads \ {Api} : Same(pc[h], pc'[h])
    BY <2>1, <2>2, <2>3 DEF Same, WokenPc
  <2> QED BY <2>3, <2>4 DEF OneCapture, NoCapture, Beginning, Same, WokenPc
<1>8. ASSUME FrameArrives \/ DeviceLost \/ AddPreviewFrame PROVE OneCapture'
  <2>1. UNCHANGED <<mIsRunning, capture_thread>>
    BY <1>8
    DEF FrameArrives, DeviceLost, AddPreviewFrame, controlVars, flagVars,
        sessionVars
  <2>2. \/ \A t \in Threads \ {Callback} : pc'[t] = pc[t]
        \/ pc' = SignalPreviewSync([pc EXCEPT ![Callback] = "ready"])
    BY <1>8, <1>t
    DEF FrameArrives, DeviceLost, AbandonStream, AddPreviewFrame, Goto
  <2>3. \A t \in Threads \ {Callback} : Same(pc[t], pc'[t])
    BY <2>2, <1>t DEF SignalPreviewSync, Wake, Same
  <2> QED BY <2>1, <2>3, OneCaptureStays
<1>9. ASSUME PreviewStep PROVE OneCapture'
  <2>1. CASE SpawnCaptureThread
    <3>1. /\ pc[Preview] = "spawn" /\ pc'[Preview] = "loop"
          /\ pc'[Api] = pc[Api] /\ UNCHANGED mIsRunning
      BY <2>1, <1>t DEF SpawnCaptureThread, Goto, flagVars
    <3>2. \/ \E t \in CaptureThreads :
                /\ capture_thread' = t
                /\ pc'[t] = "clear"
                /\ \A u \in CaptureThreads \ {t} : pc'[u] = pc[u]
          \/ \A t \in CaptureThreads : pc'[t] = pc[t]
      BY <2>1, <1>t DEF SpawnCaptureThread, Goto
    <3>3. NoCapture /\ pc[Api] \notin {"starting", "startFailed"}
      BY <3>1 DEF OneCapture, ControlInv, SessionShape
    <3> QED BY <3>1, <3>2, <3>3 DEF OneCapture, NoCapture, Beginning
  <2>2. ASSUME ~SpawnCaptureThread PROVE OneCapture'
    BY <1>9, <2>2, <1>t, PreviewStepControl
    DEF OneCapture, NoCapture, Beginning, InPreviewLoop, Same, WokenPc
  <2> QED BY <2>1, <2>2
<1>10. ASSUME NEW t \in CaptureThreads, CaptureStep(t) PROVE OneCapture'
  <2>1. /\ \A h \in Threads \ {t} : Same(pc[h], pc'[h])
        /\ UNCHANGED <<mIsRunning, capture_thread>>
        /\ pc[t] # "off"
        /\ pc[t] \in Beginning => pc'[t] \in Beginning \cup {"off"} \/ mIsRunning
    BY <1>10, <1>t, CaptureStepControl
  <2>2. ~NoCapture
    BY <2>1 DEF NoCapture
  <2> QED BY <2>1, <2>2 DEF OneCapture, Beginning, Same, WokenPc
<1>11. ASSUME SpuriousWakeup \/ UNCHANGED vars PROVE OneCapture'
  <2>1. \A t \in Threads : Same(pc[t], pc'[t])
    BY <1>11, <1>t DEF SpuriousWakeup, vars, Goto, Same
  <2> QED
    BY <1>11, <2>1, OneCaptureStays
    DEF SpuriousWakeup, vars, controlVars, flagVars, sessionVars
<1> QED
  BY <1>1, <1>2, <1>3, <1>4, <1>5, <1>6, <1>8, <1>9, <1>10, <1>11
  DEF Next, ApiStep

-----------------------------------------------------------------------------
(* The capture window, for callers that use no setter during a preview but *)
(* the setFrameCallback(null) of stopPreview.  They never wait in          *)
(* setCaptureDisplay.                                                      *)
NoDisplayWaits == pc[Api] \notin DisplayPcs

LEMMA NextNoDisplayWaits ==
    ASSUME ~SettersWhileRunning, TypeOK, NoDisplayWaits, [Next]_vars
    PROVE  NoDisplayWaits'
<1> USE ThreadNames
<1>t. pc \in [Threads -> AllPcs]
  BY DEF TypeOK, PcsOK
<1>1. CASE ApiSetters \/ StartPreview \/ StopPreview \/ Destroy \/ ApiStep
  BY <1>1, CallerCourse DEF NoDisplayWaits
<1>2. CASE FrameArrives \/ DeviceLost \/ AddPreviewFrame
  <2>1. \/ \A t \in Threads \ {Callback} : pc'[t] = pc[t]
        \/ pc' = SignalPreviewSync([pc EXCEPT ![Callback] = "ready"])
    BY <1>2, <1>t
    DEF FrameArrives, DeviceLost, AbandonStream, AddPreviewFrame, Goto
  <2> QED
    BY <2>1, <1>t DEF SignalPreviewSync, Wake, NoDisplayWaits
<1>3. ASSUME Same(pc[Api], pc'[Api]) PROVE NoDisplayWaits'
  BY <1>3 DEF Same, WokenPc, NoDisplayWaits, DisplayPcs
<1>4. CASE SpawnCaptureThread
  BY <1>4, <1>t DEF SpawnCaptureThread, Goto, NoDisplayWaits
<1>5. CASE PreviewStep /\ ~SpawnCaptureThread
  BY <1>3, <1>5, PreviewStepControl
<1>6. ASSUME NEW t \in CaptureThreads, CaptureStep(t) PROVE NoDisplayWaits'
  BY <1>3, <1>6, CaptureStepControl
<1>7. CASE SpuriousWakeup \/ UNCHANGED vars
  BY <1>3, <1>7, <1>t DEF SpuriousWakeup, vars, Goto, Same
<1> QED BY <1>1, <1>2, <1>4, <1>5, <1>6, <1>7 DEF Next

(* No reference is released too often, and the window in use is held, or   *)
(* the capture thread has just released it and is about to forget it.      *)
WindowHeld ==
    /\ \A w \in CaptureWindows : windowRefs[w] >= 0
    /\ mCaptureWindow # NoWindow =>
          \/ windowRefs[mCaptureWindow] > 0
          \/ \E t \in CaptureThreads : pc[t] = "forget"

(* Every step keeps the window held. *)
LEMMA NextWindowHeld ==
    ASSUME ~SettersWhileRunning, ControlInv, OneCapture, NoDisplayWaits,
           WindowHeld, [Next]_vars
    PROVE  WindowHeld'
<1> USE ThreadNames, UVCPreviewAssumption
<1>t. /\ pc \in [Threads -> AllPcs] /\ TypeOK
      /\ windowRefs \in [CaptureWindows -> Int]
      /\ mCaptureWindow \in CaptureWindows \cup {NoWindow}
  BY DEF ControlInv, TypeOK, PcsOK
<1>r. /\ \A w \in CaptureWindows : windowRefs[w] >= 0
      /\ mCaptureWindow # NoWindow =>
            \/ windowRefs[mCaptureWindow] > 0
            \/ \E t \in CaptureThreads : pc[t] = "forget"
  BY DEF WindowHeld
<1>f. ASSUME NEW t \in CaptureThreads, pc[t] = "forget"
      PROVE  mIsRunning \/ pc[Api] \in {"stopping", "joinCapture"}
  BY <1>f DEF OneCapture, Beginning
<1>1. ASSUME UNCHANGED <<mCaptureWindow, windowRefs>>,
             \A t \in CaptureThreads : pc[t] = "forget" => pc'[t] = "forget"
      PROVE  WindowHeld'
  BY <1>1, <1>r DEF WindowHeld
<1>2. ASSUME NEW w \in CaptureWindows \cup {NoWindow}, SetCaptureDisplay(w)
      PROVE  WindowHeld'
  <2>1. pc[Api] = "idle" /\ ~mIsRunning
    BY <1>2 DEF SetCaptureDisplay, MayCallSetter
  <2>2. mCaptureWindow # NoWindow => windowRefs[mCaptureWindow] > 0
    BY <2>1, <1>r, <1>f
  <2> DEFINE refs == IF w = NoWindow THEN windowRefs
                     ELSE [windowRefs EXCEPT ![w] = @ + 1]
  <2>3. ReplaceCaptureWindow(refs, w)
    BY <1>2, <2>1 DEF SetCaptureDisplay, StopsCapturing
  <2>4. /\ refs \in [CaptureWindows -> Int]
        /\ \A v \in CaptureWindows : refs[v] >= 0
        /\ mCaptureWindow # NoWindow => refs[mCaptureWindow] > 0
        /\ w # NoWindow => refs[w] > 0
    BY <1>t, <1>r, <2>2
  <2> HIDE DEF refs
  <2>5. /\ mCaptureWindow' = w
        /\ windowRefs' = IF mCaptureWindow = w THEN refs
                         ELSE Release(refs, mCaptureWindow)
    BY <2>3 DEF ReplaceCaptureWindow
  <2>6. \A v \in CaptureWindows :
           windowRefs'[v] = IF v = mCaptureWindow /\ v # w THEN refs[v] - 1
                            ELSE refs[v]
    BY <2>4, <2>5, <1>t DEF Release
  <2> QED BY <2>4, <2>5, <2>6, <1>t DEF WindowHeld
<1>3. ASSUME StopReleasesWindows PROVE WindowHeld'
  <2>1. ~mIsRunning /\ pc[Api] = "releaseWindows"
    BY <1>3 DEF StopReleasesWindows, ControlInv, SessionShape
  <2>2. mCaptureWindow # NoWindow => windowRefs[mCaptureWindow] > 0
    BY <2>1, <1>r, <1>f
  <2>3. mCaptureWindow' = NoWindow /\ windowRefs' = Release(windowRefs, mCaptureWindow)
    BY <1>3 DEF StopReleasesWindows
  <2> QED BY <1>t, <1>r, <2>2, <2>3 DEF WindowHeld, Release
<1>4. ASSUME NEW t \in CaptureThreads, ReleaseCaptureWindow(t)
      PROVE  WindowHeld'
  <2>1. pc[t] = "release" /\ windowRefs' = Release(windowRefs, mCaptureWindow)
        /\ mCaptureWindow' = mCaptureWindow
    BY <1>4 DEF ReleaseCaptureWindow
  <2>2. \A u \in CaptureThreads : pc[u] # "forget"
    BY <2>1 DEF OneCapture
  <2>3. mCaptureWindow # NoWindow => windowRefs[mCaptureWindow] > 0
    BY <2>2, <1>r
  <2>4. mCaptureWindow # NoWindow => pc'[t] = "forget"
    BY <1>4, <1>t DEF ReleaseCaptureWindow, Goto
  <2> QED BY <1>t, <1>r, <2>1, <2>3, <2>4 DEF WindowHeld, Release
<1>5. ASSUME NEW t \in CaptureThreads, ForgetCaptureWindow(t)
      PROVE  WindowHeld'
  BY <1>5, <1>r DEF ForgetCaptureWindow, WindowHeld
<1>6. ASSUME NEW t \in CaptureThreads, CaptureStep(t),
             ~ReleaseCaptureWindow(t), ~ForgetCaptureWindow(t)
      PROVE  WindowHeld'
  <2>1. UNCHANGED <<mCaptureWindow, windowRefs>>
    BY <1>6
    DEF CaptureStep, BeginCapture, ReadRequestSize, WriteCallbackBytes,
        CaptureLoop, CapturingLoop, WaitCaptureFrame, BlockOnCaptureSync,
        CopyToSurface, PrepareCallback, CallOnFrame, OnFrameReturns,
        RecycleConverted, BroadcastCaptureDone,
        controlVars, windowVars
  <2>2. pc[t] # "forget"
    BY <1>6
    DEF CaptureStep, BeginCapture, ReadRequestSize, WriteCallbackBytes,
        CaptureLoop, CapturingLoop, WaitCaptureFrame, BlockOnCaptureSync,
        CopyToSurface, PrepareCallback, CallOnFrame, OnFrameReturns,
        RecycleConverted, BroadcastCaptureDone
  <2>3. \A h \in Threads \ {t} : Same(pc[h], pc'[h])
    BY <1>6, <1>t, CaptureStepControl
  <2> QED BY <2>1, <2>2, <2>3, <1>1 DEF Same, WokenPc
<1> DEFINE ForgetStays ==
               \A t \in CaptureThreads : pc[t] = "forget" => pc'[t] = "forget"
<1>g. ASSUME NEW u \in {Api, Callback, Preview}, NEW q, Goto(u, q)
      PROVE  ForgetStays
  BY <1>g, <1>t DEF Goto
<1>s. ASSUME NEW u \in {Api, Callback, Preview}, NEW q,
             \/ pc' = Wake([pc EXCEPT ![u] = q], CaptureSyncWaiters)
             \/ pc' \in SignalCaptureSync([pc EXCEPT ![u] = q])
             \/ pc' = SignalPreviewSync([pc EXCEPT ![u] = q])
      PROVE  ForgetStays
  <2>1. \A t \in Threads : Same([pc EXCEPT ![u] = q][t], pc'[t])
    BY <1>s, WakeSame, SignalSame DEF SignalPreviewSync
  <2> QED BY <2>1, <1>t DEF Same, WokenPc
<1> HIDE DEF ForgetStays
<1>7. ASSUME \/ \E f \in Formats : SetPreviewSize(f)
             \/ \E b \in BOOLEAN : SetPreviewDisplay(b)
             \/ \E cb \in Callbacks \cup {NoCallback} : SetFrameCallback(cb)
             \/ StartPreview \/ StopPreview \/ Destroy
      PROVE  WindowHeld'
  <2>1. UNCHANGED <<mCaptureWindow, windowRefs>>
    BY <1>7
    DEF SetPreviewSize, SetPreviewDisplay, SetFrameCallback, StartPreview,
        StopPreview, Destroy, windowVars, controlVars
  <2>2. UNCHANGED pc \/ \E q : Goto(Api, q)
    BY <1>7
    DEF SetPreviewSize, SetPreviewDisplay, SetFrameCallback,
        ReplaceFrameCallback, StartPreview, StopPreview, Destroy
  <2> QED BY <2>1, <2>2, <1>1, <1>g DEF ForgetStays
<1>8. ASSUME ApiStep, ~StopReleasesWindows PROVE WindowHeld'
  <2>1. ~FinishSetCaptureDisplay
    BY DEF FinishSetCaptureDisplay, NoDisplayWaits, DisplayPcs
  <2>2. UNCHANGED <<mCaptureWindow, windowRefs>>
    BY <1>8, <2>1
    DEF ApiStep, WaitFinishingCapturing, FinishSetFrameCallback,
        CreatePreviewThread, StartPreviewFailed, StopPreview, SignalStop,
        JoinCaptureThread, JoinPreviewThread, StopClearsPreviewFrames,
        StopClearsCaptureFrame, windowVars, controlVars
  <2>3. CASE SignalStop
    <3> DEFINE p == [pc EXCEPT ![Api] = "joinCapture"]
               q == SignalPreviewSync(p)
    <3>1. \A h \in Threads : Same(p[h], q[h])
      BY WakeSame DEF SignalPreviewSync
    <3>2. \A h \in Threads : Same(q[h], pc'[h])
      BY <2>3, SignalSame DEF SignalStop
    <3>3. \A h \in Threads \ {Api} : p[h] = pc[h]
      BY <1>t
    <3> HIDE DEF p, q
    <3> QED BY <3>1, <3>2, <3>3, <2>2, <1>1 DEF Same, WokenPc
  <2>4. CASE CreatePreviewThread
    <3>1. \A t \in CaptureThreads : pc'[t] = pc[t]
      BY <2>4, <1>t DEF CreatePreviewThread, Goto
    <3> QED BY <3>1, <2>2, <1>1
  <2>5. ASSUME ~SignalStop, ~CreatePreviewThread PROVE WindowHeld'
    <3>1. \/ \E q : Goto(Api, q)
          \/ pc' = SignalPreviewSync([pc EXCEPT ![Api] = "idle"])
          \/ \E q : pc' \in SignalCaptureSync([pc EXCEPT ![Api] = q])
      BY <1>8, <2>1, <2>5
      DEF ApiStep, WaitFinishingCapturing, FinishSetFrameCallback,
          ReplaceFrameCallback, StartPreviewFailed, StopPreview,
          JoinCaptureThread, JoinPreviewThread, StopClearsPreviewFrames,
          StopClearsCaptureFrame
    <3> QED BY <3>1, <2>2, <1>1, <1>g, <1>s DEF ForgetStays
  <2> QED BY <2>3, <2>4, <2>5
<1>9. ASSUME FrameArrives \/ DeviceLost \/ AddPreviewFrame PROVE WindowHeld'
  <2>1. UNCHANGED <<mCaptureWindow, windowRefs>>
    BY <1>9
    DEF FrameArrives, DeviceLost, AddPreviewFrame, windowVars, controlVars
  <2>2. \/ UNCHANGED pc \/ \E q : Goto(Callback, q)
        \/ pc' = SignalPreviewSync([pc EXCEPT ![Callback] = "ready"])
    BY <1>9 DEF FrameArrives, DeviceLost, AbandonStream, AddPreviewFrame
  <2> QED BY <2>1, <2>2, <1>1, <1>g, <1>s DEF ForgetStays
<1>10. ASSUME PreviewStep PROVE WindowHeld'
  <2>1. UNCHANGED <<mCaptureWindow, windowRefs>>
    BY <1>10
    DEF PreviewStep, PreparePreview, StartStreaming, SpawnCaptureThread,
        PreviewLoop, WaitPreviewFrame, BlockOnPreviewSync, DecodeMjpeg,
        DrawPreviewOne, AddCaptureFrame, SignalCaptureThread, StopStreaming,
        windowVars, controlVars
  <2>2. CASE SpawnCaptureThread
    <3>1. ForgetStays
      BY <2>2, <1>t DEF SpawnCaptureThread, Goto, ForgetStays
    <3> QED BY <3>1, <2>1, <1>1 DEF ForgetStays
  <2>3. CASE ~SpawnCaptureThread
    <3>0. CASE StartStreaming
      BY <3>0, <1>t, <2>1, <1>1 DEF StartStreaming, Goto
    <3>a. ASSUME ~StartStreaming PROVE WindowHeld'
      <4>1. \E q : \/ Goto(Preview, q)
                   \/ pc' = Wake([pc EXCEPT ![Preview] = q], CaptureSyncWaiters)
                   \/ pc' \in SignalCaptureSync([pc EXCEPT ![Preview] = q])
        BY <1>10, <2>3, <3>a
        DEF PreviewStep, PreparePreview, PreviewLoop, WaitPreviewFrame,
            BlockOnPreviewSync, DecodeMjpeg, DrawPreviewOne, AddCaptureFrame,
            SignalCaptureThread, StopStreaming
      <4> QED BY <4>1, <2>1, <1>1, <1>g, <1>s DEF ForgetStays
    <3> QED BY <3>0, <3>a
  <2> QED BY <2>2, <2>3
<1>11. ASSUME SpuriousWakeup \/ UNCHANGED vars PROVE WindowHeld'
  <2>1. \A t \in Threads : Same(pc[t], pc'[t])
    BY <1>11, <1>t DEF SpuriousWakeup, vars, Goto, Same
  <2>2. UNCHANGED <<mCaptureWindow, windowRefs>>
    BY <1>11 DEF SpuriousWakeup, vars, windowVars, controlVars
  <2> QED BY <2>1, <2>2, <1>1 DEF Same, WokenPc
<1> QED
  BY <1>2, <1>3, <1>4, <1>5, <1>6, <1>7, <1>8, <1>9, <1>10, <1>11
  DEF Next, ApiSetters

(* The capture window the session draws on is one it holds: for any number *)
(* of sessions, windows, frames and threads, when callers use no setter    *)
(* during a preview but the setFrameCallback(null) of stopPreview, and no  *)
(* preview was started beside a capture thread of another.                 *)
THEOREM WindowIsHeld == ~SettersWhileRunning => (Spec => []CaptureWindowHeld)
<1> SUFFICES ASSUME ~SettersWhileRunning PROVE Spec => []CaptureWindowHeld
  OBVIOUS
<1> DEFINE Inv == NoDisplayWaits /\ (overlap \/ (OneCapture /\ WindowHeld))
<1>1. Init => Inv
  BY ThreadNames
  DEF Init, NoDisplayWaits, DisplayPcs, OneCapture, NoCapture, Beginning,
      WindowHeld
<1>2. ControlInv /\ Inv /\ [Next]_vars => Inv'
  <2> SUFFICES ASSUME ControlInv, Inv, [Next]_vars PROVE Inv'
    OBVIOUS
  <2>1. NoDisplayWaits'
    BY NextNoDisplayWaits DEF ControlInv
  <2>2. CASE overlap'
    BY <2>1, <2>2
  <2>3. CASE ~overlap'
    <3>1. ~overlap /\ (StartPreview => NoCapture)
      BY <2>3, NextOverlap
    <3>2. OneCapture' /\ WindowHeld'
      BY <3>1, NextOneCapture, NextWindowHeld
    <3> QED BY <2>1, <3>2
  <2> QED BY <2>2, <2>3
<1>3. Inv => CaptureWindowHeld
  BY DEF WindowHeld, CaptureWindowHeld
<1> QED BY <1>1, <1>2, <1>3, ControlInvHolds, PTL DEF Spec

-----------------------------------------------------------------------------
(* The buffer for onFrame, for the same callers, who start as many         *)
(* previews as they like.  The size a session was negotiated with is the   *)
(* one its frames have, and its capture thread computed callbackPixelBytes *)
(* from.                                                                   *)
SessionFormats ==
    /\ pc[Preview] \notin {"off", "prepare"} => frameFormat = requestFormat
    /\ \A t \in CaptureThreads : t = capture_thread =>
          /\ InPreviewLoop /\ pc[t] = "write" => sz[t] = requestFormat
          /\ \/ InDoCaptureCallback(t)
             \/ InPreviewLoop /\ pc[t] \notin {"off", "clear", "format", "write"}
             => frameFormat = requestFormat /\ callbackFormat = requestFormat

(* Steps that ask for no other size and start nothing. *)
LEMMA FormatsStay ==
    ASSUME SessionFormats,
           UNCHANGED <<requestFormat, frameFormat, sz, capture_thread>>,
           callbackFormat' \in {callbackFormat, requestFormat},
           pc[Preview] \in {"off", "prepare"}
              => pc'[Preview] \in {"off", "prepare"},
           InPreviewLoop' => InPreviewLoop,
           \A t \in CaptureThreads : Same(pc[t], pc'[t]) \/ pc'[t] = "off"
    PROVE  SessionFormats'
BY DEF SessionFormats, InDoCaptureCallback, Same, WokenPc

(* Every step keeps the formats of the session. *)
LEMMA NextSessionFormats ==
    ASSUME ~SettersWhileRunning, ControlInv, OneCapture, SessionFormats,
           [Next]_vars
    PROVE  SessionFormats'
<1> USE ThreadNames
<1>t. pc \in [Threads -> AllPcs] /\ TypeOK
  BY DEF ControlInv, TypeOK, PcsOK
<1>1. ASSUME ApiSetters, ~mIsRunning PROVE SessionFormats'
  <2>1. pc[Api] = "idle"
    BY <1>1
    DEF ApiSetters, SetPreviewSize, SetPreviewDisplay, SetFrameCallback,
        SetCaptureDisplay, MayCallSetter, MaySetFrameCallback
  <2>2. /\ pc[Preview] = "off"
        /\ \A t \in CaptureThreads :
              t = capture_thread => ~InDoCaptureCallback(t)
    BY <1>1, <2>1 DEF ControlInv, SessionShape, Stopping, CaptureShape
  <2>3. ~CreatePreviewThread
    BY <2>1 DEF CreatePreviewThread
  <2>4. /\ \A h \in Threads \ {Api} : Same(pc[h], pc'[h])
        /\ UNCHANGED capture_thread
    BY <1>1, <1>t, <2>3, CallerControl
  <2> QED
    BY <2>2, <2>4
    DEF SessionFormats, InPreviewLoop, InDoCaptureCallback, Same, WokenPc
<1>2. ASSUME \/ ApiSetters /\ mIsRunning
             \/ StartPreview \/ StopPreview \/ Destroy \/ ApiStep
      PROVE  SessionFormats'
  <2>1. /\ UNCHANGED <<requestFormat, frameFormat, sz>>
        /\ callbackFormat' \in {callbackFormat, requestFormat}
    BY <1>2
    DEF ApiSetters, SetPreviewSize, MayCallSetter, SetPreviewDisplay,
        SetFrameCallback, ReplaceFrameCallback, SetCaptureDisplay,
        StartPreview, StopPreview, Destroy, ApiStep, WaitFinishingCapturing,
        FinishSetFrameCallback, FinishSetCaptureDisplay, CreatePreviewThread,
        StartPreviewFailed, SignalStop, JoinCaptureThread, JoinPreviewThread,
        StopClearsPreviewFrames, StopClearsCaptureFrame, StopReleasesWindows,
        formatVars, controlVars
  <2>2. /\ \A h \in Threads \ {Api} :
              \/ Same(pc[h], pc'[h])
              \/ CreatePreviewThread /\ h = Preview /\ pc'[h] = "prepare"
        /\ UNCHANGED capture_thread
    BY <1>2, <1>t, CallerControl
  <2>3. /\ Same(pc[Preview], pc'[Preview]) \/ pc'[Preview] = "prepare"
        /\ \A t \in CaptureThreads : Same(pc[t], pc'[t])
    BY <2>2
  <2> QED
    BY <2>1, <2>2, <2>3, FormatsStay DEF InPreviewLoop, Same, WokenPc
<1>3. ASSUME FrameArrives \/ DeviceLost \/ AddPreviewFrame PROVE SessionFormats'
  <2>1. UNCHANGED <<formatVars, capture_thread>>
    BY <1>3
    DEF FrameArrives, DeviceLost, AddPreviewFrame, controlVars, sessionVars
  <2>2. \/ \A t \in Threads \ {Callback} : pc'[t] = pc[t]
        \/ pc' = SignalPreviewSync([pc EXCEPT ![Callback] = "ready"])
    BY <1>3, <1>t
    DEF FrameArrives, DeviceLost, AbandonStream, AddPreviewFrame, Goto
  <2>3. \A t \in Threads \ {Callback} : Same(pc[t], pc'[t])
    BY <2>2, <1>t DEF SignalPreviewSync, Wake, Same
  <2> QED
    BY <2>1, <2>3, FormatsStay DEF formatVars, InPreviewLoop, Same, WokenPc
<1>4. ASSUME SpawnCaptureThread PROVE SessionFormats'
  <2>1. pc[Preview] = "spawn" /\ UNCHANGED formatVars
    BY <1>4 DEF SpawnCaptureThread
  <2>2. NoCapture
    BY <2>1 DEF OneCapture
  <2>3. CASE CaptureThreads = {}
    BY <2>1, <2>3 DEF SessionFormats, formatVars
  <2>4. CASE CaptureThreads # {}
    <3>1. PICK t \in CaptureThreads :
             /\ capture_thread' = t
             /\ pc' = [pc EXCEPT ![Preview] = "loop", ![t] = "clear"]
      BY <1>4, <2>2, <2>4 DEF SpawnCaptureThread, NoCapture
    <3>2. pc'[t] = "clear"
      BY <3>1, <1>t
    <3> QED
      BY <2>1, <3>1, <3>2 DEF SessionFormats, InDoCaptureCallback, formatVars
  <2> QED BY <2>3, <2>4
<1>5. ASSUME PreviewStep, ~SpawnCaptureThread PROVE SessionFormats'
  <2>1. /\ \A h \in Threads \ {Preview, Callback} : Same(pc[h], pc'[h])
        /\ UNCHANGED <<mIsRunning, capture_thread>>
        /\ \/ pc[Preview] = "prepare" /\ pc'[Preview] \in {"startStreaming", "off"}
           \/ pc[Preview] = "startStreaming" /\ pc'[Preview] \in {"spawn", "off"}
           \/ InPreviewLoop /\ InPreviewLoop'
           \/ pc[Preview] = "loop" /\ pc'[Preview] = "signal" /\ ~mIsRunning
           \/ pc[Preview] = "signal" /\ pc'[Preview] = "stopStreaming"
           \/ pc[Preview] = "stopStreaming" /\ pc'[Preview] = "off"
    BY <1>5, <1>t, PreviewStepControl
  <2>2. CASE PreparePreview
    <3>1. /\ pc[Preview] = "prepare"
          /\ pc'[Preview] = "startStreaming" => frameFormat' = requestFormat
          /\ UNCHANGED requestFormat
      BY <2>2, <1>t DEF PreparePreview, Goto
    <3>2. \A t \in CaptureThreads :
             t = capture_thread => ~InDoCaptureCallback(t)
      BY <3>1 DEF ControlInv, CaptureShape, InPreviewLoop
    <3>3. pc'[Preview] \in {"startStreaming", "off"}
      BY <2>1, <3>1 DEF InPreviewLoop
    <3> QED
      BY <2>1, <3>1, <3>2, <3>3
      DEF SessionFormats, InPreviewLoop, InDoCaptureCallback, Same, WokenPc
  <2>3. CASE ~PreparePreview
    <3>1. UNCHANGED formatVars /\ pc[Preview] # "prepare"
      BY <1>5, <2>3
      DEF PreviewStep, StartStreaming, PreviewLoop, WaitPreviewFrame,
          BlockOnPreviewSync, DecodeMjpeg, DrawPreviewOne, AddCaptureFrame,
          SignalCaptureThread, StopStreaming, controlVars
    <3>2. /\ pc[Preview] \notin {"off", "prepare"}
          /\ InPreviewLoop' => InPreviewLoop
      BY <2>1, <3>1 DEF InPreviewLoop
    <3> QED BY <2>1, <3>1, <3>2, FormatsStay DEF formatVars
  <2> QED BY <2>2, <2>3
<1>6. ASSUME NEW t \in CaptureThreads, CaptureStep(t) PROVE SessionFormats'
  <2>1. /\ \A h \in Threads \ {t} : Same(pc[h], pc'[h])
        /\ UNCHANGED <<mIsRunning, capture_thread>>
        /\ pc[t] # "off"
        /\ InDoCaptureCallback(t)'
              => InDoCaptureCallback(t) \/ (mIsRunning /\ captureQueu # NoFrame)
    BY <1>6, <1>t, CaptureStepControl
  <2>2. /\ Same(pc[Preview], pc'[Preview])
        /\ InPreviewLoop' = InPreviewLoop
    BY <2>1 DEF InPreviewLoop, Same, WokenPc
  <2>3. t = capture_thread
    BY <2>1 DEF OneCapture
  <2>f. /\ InPreviewLoop => frameFormat = requestFormat
        /\ InDoCaptureCallback(t)
              => frameFormat = requestFormat /\ callbackFormat = requestFormat
        /\ mIsRunning /\ captureQueu # NoFrame => InPreviewLoop
    BY <2>3 DEF SessionFormats, InPreviewLoop, ControlInv, CaptureShape
  <2>4. CASE BeginCapture(t)
    <3>1. pc'[t] = "format" /\ UNCHANGED formatVars
      BY <2>4, <1>t DEF BeginCapture, Goto, controlVars
    <3> QED
      BY <2>1, <2>2, <2>3, <3>1
      DEF SessionFormats, InDoCaptureCallback, Same, WokenPc, formatVars
  <2>5. CASE ReadRequestSize(t)
    <3>1. /\ pc'[t] = "write" /\ sz'[t] = requestFormat
          /\ UNCHANGED <<requestFormat, frameFormat>>
      BY <2>5, <1>t DEF ReadRequestSize, Goto, TypeOK
    <3> QED
      BY <2>1, <2>2, <2>3, <3>1
      DEF SessionFormats, InDoCaptureCallback, Same, WokenPc
  <2>6. CASE WriteCallbackBytes(t)
    <3>1. /\ pc[t] = "write" /\ pc'[t] = "outer" /\ callbackFormat' = sz[t]
          /\ UNCHANGED <<requestFormat, frameFormat>>
      BY <2>6, <1>t DEF WriteCallbackBytes, Goto
    <3>2. InPreviewLoop => sz[t] = requestFormat
      BY <2>3, <3>1 DEF SessionFormats
    <3> QED
      BY <2>1, <2>2, <2>3, <2>f, <3>1, <3>2
      DEF SessionFormats, InDoCaptureCallback, Same, WokenPc
  <2>7. CASE ~BeginCapture(t) /\ ~ReadRequestSize(t) /\ ~WriteCallbackBytes(t)
    <3>1. /\ UNCHANGED formatVars
          /\ pc[t] \notin {"off", "clear", "format", "write"}
          /\ pc'[t] # "write"
      <4>1. CASE BroadcastCaptureDone(t)
        BY <4>1, <1>t DEF BroadcastCaptureDone, Wake, WokenPc, controlVars
      <4>2. CASE ~BroadcastCaptureDone(t)
        BY <1>6, <2>7, <4>2, <1>t
        DEF CaptureStep, CaptureLoop, CapturingLoop, WaitCaptureFrame,
            BlockOnCaptureSync, CopyToSurface, PrepareCallback, CallOnFrame,
            OnFrameReturns, RecycleConverted, ReleaseCaptureWindow,
            ForgetCaptureWindow, Goto, controlVars
      <4> QED BY <4>1, <4>2
    <3> QED
      BY <2>1, <2>2, <2>3, <2>f, <3>1
      DEF SessionFormats, InDoCaptureCallback, Same, WokenPc, formatVars
  <2> QED BY <2>4, <2>5, <2>6, <2>7
<1>7. ASSUME SpuriousWakeup \/ UNCHANGED vars PROVE SessionFormats'
  <2>1. \A t \in Threads : Same(pc[t], pc'[t])
    BY <1>7, <1>t DEF SpuriousWakeup, vars, Goto, Same
  <2>2. UNCHANGED <<formatVars, capture_thread>>
    BY <1>7 DEF SpuriousWakeup, vars, controlVars, sessionVars
  <2> QED
    BY <2>1, <2>2, FormatsStay DEF formatVars, InPreviewLoop, Same, WokenPc
<1> QED
  BY <1>1, <1>2, <1>3, <1>4, <1>5, <1>6, <1>7 DEF Next, PreviewStep

(* The buffer handed to onFrame has the size of the frames the session     *)
(* streams, whichever size the caller asked for before it, in every        *)
(* session of the object, until a preview is started beside a capture      *)
(* thread of another.                                                      *)
THEOREM BufferFitsFrame ==
    ~SettersWhileRunning => (Spec => []BufferMatchesFrame)
<1> SUFFICES ASSUME ~SettersWhileRunning PROVE Spec => []BufferMatchesFrame
  OBVIOUS
<1> DEFINE Inv == overlap \/ (OneCapture /\ SessionFormats)
<1>1. Init => Inv
  BY ThreadNames
  DEF Init, OneCapture, NoCapture, Beginning, SessionFormats,
      InDoCaptureCallback, InPreviewLoop
<1>2. ControlInv /\ Inv /\ [Next]_vars => Inv'
  <2> SUFFICES ASSUME ControlInv, Inv, [Next]_vars PROVE Inv'
    OBVIOUS
  <2>1. CASE overlap'
    BY <2>1
  <2>2. CASE ~overlap'
    <3>1. ~overlap /\ (StartPreview => NoCapture)
      BY <2>2, NextOverlap
    <3>2. OneCapture' /\ SessionFormats'
      BY <3>1, NextOneCapture, NextSessionFormats
    <3> QED BY <3>2
  <2> QED BY <2>1, <2>2
<1>3. Inv => BufferMatchesFrame
  BY DEF SessionFormats, InDoCaptureCallback, BufferMatchesFrame
<1> QED BY <1>1, <1>2, <1>3, ControlInvHolds, PTL DEF Spec

=============================================================================
