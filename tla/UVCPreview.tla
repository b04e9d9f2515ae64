----------------------------- MODULE UVCPreview -----------------------------
(***************************************************************************)
(* The native preview session (jni/UVCCamera/UVCPreview.cpp).              *)
(*                                                                         *)
(* Four kinds of thread share one UVCPreview object:                       *)
(*   Api            the thread that calls the setters, startPreview and    *)
(*                  stopPreview (UVCCamera.java serialises those calls),   *)
(*   Callback       libuvc's thread, in uvc_preview_frame_callback,        *)
(*   Preview        preview_thread_func,                                   *)
(*   CaptureThreads capture_thread_func; more than one of them can be      *)
(*                  alive, because stopPreview joins only the thread whose *)
(*                  handle is in capture_thread at that moment.            *)
(*                                                                         *)
(* Grain.  A critical section is one step: what it reads and writes is     *)
(* either protected by its mutex or one of the two unlocked flags, read    *)
(* once.  The exceptions are the setters that wait on capture_sync: they   *)
(* hold capture_mutex over several steps.  A wait releases the mutex and   *)
(* starts to wait in one step, a signal wakes one waiting thread, and the  *)
(* thread woken goes on in a later step, when the mutex is free.  Signals  *)
(* sent without the mutex are steps of their own.                          *)
(***************************************************************************)
EXTENDS FramePipeline

CONSTANTS
    NoThread,           \* capture_thread before the first pthread_create
    Callbacks,          \* IFrameCallback objects
    NoCallback,         \* the null callback
    CaptureWindows,     \* the surfaces startCapture can be given
    NoWindow,           \* the null ANativeWindow
    Formats,            \* what setPreviewSize asks for: [mode, bytes]
    NoFormat,           \* no size read
    SettersWhileRunning,\* do callers use the setters during a preview?
    SpuriousWakeups,    \* can a wait return without a signal?
    MaxArrivals,        \* bound: frames the camera sends
    MaxStarts,          \* bound: calls of startPreview that set mIsRunning
    MaxRefs             \* bound: references held to one capture window

Api == "api"
Threads == {Api, Callback, Preview} \cup CaptureThreads

ASSUME UVCPreviewAssumption ==
    /\ Api \notin CaptureThreads
    /\ NoThread \notin CaptureThreads
    /\ NoCallback \notin Callbacks
    /\ NoWindow \notin CaptureWindows
    /\ Formats # {} /\ NoFormat \notin Formats
    /\ \A f \in Formats : f.mode \in {"YUYV", "MJPEG"}
    /\ SettersWhileRunning \in BOOLEAN /\ SpuriousWakeups \in BOOLEAN
    /\ MaxArrivals \in Nat /\ MaxStarts \in Nat /\ MaxRefs \in Nat

VARIABLES
    mIsRunning, mIsCapturing,       \* the volatile flags
    mPreviewWindow,                 \* is there a preview window?
    mCaptureWindow, windowRefs,     \* capture window, references to each
    mFrameCallbackObj,              \* the callback object
    requestFormat, frameFormat,     \* request*, frame* and frameMode
    callbackFormat,                 \* what callbackPixelBytes is made from
    sz,                             \* the size a capture thread has read for it
    capture_thread,                 \* the handle stopPreview joins
    overlap,                        \* history: was a preview started while a
                                    \*   capture thread of another lived?
    streaming,                      \* there is a stream
    abandoned,                      \* libuvc does not join the thread of a stream
    pc,                             \* where each thread is
    toSurface,                      \* is the thread in do_capture_surface?
    callee,                         \* the object whose onFrame is running
    newCallback, newWindow,         \* the argument of the setter that waits
    starts                          \* calls of startPreview, for its bound

flagVars == <<mIsRunning, mIsCapturing>>
windowVars == <<mPreviewWindow, mCaptureWindow, windowRefs>>
formatVars == <<requestFormat, frameFormat, callbackFormat, sz>>
callVars == <<mFrameCallbackObj, callee, newCallback, newWindow>>
sessionVars == <<capture_thread, overlap, streaming, abandoned, toSurface>>
controlVars == <<flagVars, windowVars, formatVars, callVars, sessionVars, starts>>
vars == <<frameVars, controlVars, pc>>

ApiPcs == {"idle", "starting", "startFailed", "stopCalled", "stopping", "joinCapture",
           "joinPreview", "clearPreview", "clearCapture", "releaseWindows",
           "callbackSet", "callbackWait", "callbackWoken",
           "displaySet", "displayWait", "displayWoken", "destroyed"}
CallbackPcs == {"ready", "deliver", "add"}
PreviewPcs == {"off", "prepare", "startStreaming", "spawn", "loop", "take",
               "previewWait", "previewWoken", "decode", "draw", "add",
               "signal", "stopStreaming"}
CapturePcs == {"off", "clear", "format", "write", "outer", "inner", "take", "captureWait",
               "captureWoken", "copy", "callback", "call", "onFrame",
               "recycleConverted", "release", "forget", "broadcast"}
AllPcs == ApiPcs \cup CallbackPcs \cup PreviewPcs \cup CapturePcs

PcsOK(p) ==
    /\ p \in [Threads -> AllPcs]
    /\ p[Api] \in ApiPcs
    /\ p[Callback] \in CallbackPcs
    /\ p[Preview] \in PreviewPcs
    /\ \A t \in CaptureThreads : p[t] \in CapturePcs

(* Every variable has its type. *)
TypeOK ==
    /\ mIsRunning \in BOOLEAN /\ mIsCapturing \in BOOLEAN
    /\ mPreviewWindow \in BOOLEAN
    /\ mCaptureWindow \in CaptureWindows \cup {NoWindow}
    /\ windowRefs \in [CaptureWindows -> Int]
    /\ mFrameCallbackObj \in Callbacks \cup {NoCallback}
    /\ {requestFormat, frameFormat, callbackFormat} \subseteq Formats
    /\ FramesTyped
    /\ sz \in [CaptureThreads -> Formats \cup {NoFormat}]
    /\ capture_thread \in CaptureThreads \cup {NoThread}
    /\ overlap \in BOOLEAN /\ streaming \in BOOLEAN /\ abandoned \in BOOLEAN
    /\ toSurface \in [CaptureThreads -> BOOLEAN]
    /\ PcsOK(pc)
    /\ callee \in [CaptureThreads -> Callbacks \cup {NoCallback}]
    /\ newCallback \in Callbacks \cup {NoCallback}
    /\ newWindow \in CaptureWindows \cup {NoWindow}
    /\ starts \in Nat

(* The constructor. *)
Init ==
    /\ mIsRunning = FALSE /\ mIsCapturing = FALSE
    /\ mPreviewWindow = FALSE
    /\ mCaptureWindow = NoWindow
    /\ windowRefs = [w \in CaptureWindows |-> 0]
    /\ mFrameCallbackObj = NoCallback
    /\ requestFormat \in Formats
    /\ frameFormat = requestFormat /\ callbackFormat = requestFormat
    /\ PipelineInit
    /\ sz = [t \in CaptureThreads |-> NoFormat]
    /\ capture_thread = NoThread
    /\ overlap = FALSE /\ streaming = FALSE /\ abandoned = FALSE
    /\ toSurface = [t \in CaptureThreads |-> FALSE]
    /\ pc = [t \in Threads |-> IF t = Api THEN "idle"
                               ELSE IF t = Callback THEN "ready" ELSE "off"]
    /\ callee = [t \in CaptureThreads |-> NoCallback]
    /\ newCallback = NoCallback /\ newWindow = NoWindow
    /\ starts = 0

-----------------------------------------------------------------------------
(* Threads, mutexes and condition variables. *)

Goto(t, p) == pc' = [pc EXCEPT ![t] = p]

(* capture_mutex is held between steps only by a setter. *)
CaptureMutexFree ==
    pc[Api] \notin {"callbackSet", "displaySet"}

CaptureSyncWaiters ==
    {t \in Threads : pc[t] \in {"captureWait", "callbackWait", "displayWait"}}

WokenPc(p) == IF p = "captureWait" THEN "captureWoken"
              ELSE IF p = "callbackWait" THEN "callbackWoken"
              ELSE IF p = "displayWait" THEN "displayWoken"
              ELSE IF p = "previewWait" THEN "previewWoken"
              ELSE p

Wake(p, S) == [t \in Threads |-> IF t \in S THEN WokenPc(p[t]) ELSE p[t]]

(* The program counters p after pthread_cond_signal(&capture_sync). *)
SignalCaptureSync(p) ==
    IF CaptureSyncWaiters = {} THEN {p}
    ELSE {Wake(p, {t}) : t \in CaptureSyncWaiters}

(* The program counters p after pthread_cond_signal(&preview_sync), on     *)
(* which only the preview thread waits.                                    *)
SignalPreviewSync(p) == Wake(p, {Preview})

(* POSIX lets a wait return without a signal. *)
SpuriousWakeup ==
    /\ SpuriousWakeups
    /\ \E t \in Threads :
          /\ WokenPc(pc[t]) # pc[t]
          /\ Goto(t, WokenPc(pc[t]))
    /\ UNCHANGED <<frameVars, controlVars>>

-----------------------------------------------------------------------------
(* The caller: setters. *)

(* UVCCamera.stopPreview calls setFrameCallback(null, 0) before the native *)
(* stopPreview: callers that use no setter during a preview make that call.*)
MayCallSetter == pc[Api] = "idle" /\ (SettersWhileRunning \/ ~mIsRunning)

MaySetFrameCallback(cb) ==
    pc[Api] = "idle" /\ (SettersWhileRunning \/ ~mIsRunning \/ cb = NoCallback)

SetPreviewSize(f) ==
    /\ MayCallSetter
    /\ requestFormat' = f
    /\ UNCHANGED <<flagVars, windowVars, frameFormat, callbackFormat, sz, frameVars,
                   callVars, sessionVars, starts, pc>>

SetPreviewDisplay(window) ==
    /\ MayCallSetter
    /\ mPreviewWindow' = window
    /\ UNCHANGED <<flagVars, mCaptureWindow, windowRefs, formatVars, frameVars,
                   callVars, sessionVars, starts, pc>>

(* Both capture setters tell the capture thread to leave its loop.  If     *)
(* there is something to replace they wait for it before they replace it,  *)
(* otherwise the call ends here; it holds capture_mutex throughout.        *)
StopsCapturing == mIsRunning /\ mIsCapturing

(* The caller is the one who writes requestFormat, so that its own call of *)
(* callbackPixelFormatChanged reads and writes in one step.                *)
ReplaceFrameCallback(cb) ==
    /\ mFrameCallbackObj' = cb
    /\ callbackFormat' = IF cb = NoCallback THEN callbackFormat ELSE requestFormat
    /\ Goto(Api, IF mIsRunning /\ ~SettersWhileRunning THEN "stopCalled" ELSE "idle")

SetFrameCallback(cb) ==
    /\ MaySetFrameCallback(cb)
    /\ mIsCapturing' = (mIsCapturing /\ ~mIsRunning)
    /\ IF StopsCapturing /\ mFrameCallbackObj # NoCallback
       THEN /\ newCallback' = cb
            /\ Goto(Api, "callbackSet")
            /\ UNCHANGED <<mFrameCallbackObj, callbackFormat>>
       ELSE UNCHANGED newCallback /\ ReplaceFrameCallback(cb)
    /\ UNCHANGED <<mIsRunning, windowVars, requestFormat, frameFormat, sz, frameVars,
                   callee, newWindow, sessionVars, starts>>

(* ANativeWindow_release; -1 is a reference released once too often. *)
Release(refs, w) ==
    IF w = NoWindow \/ refs[w] < 0 THEN refs ELSE [refs EXCEPT ![w] = @ - 1]

(* A mutant of ReplaceCaptureWindow: releases the new window, not the old. *)
ReplaceReleasesNewWindow(refs, w) ==
    /\ mCaptureWindow' = w
    /\ windowRefs' = IF mCaptureWindow = w THEN refs ELSE Release(refs, w)
    /\ Goto(Api, "idle")

ReplaceCaptureWindow(refs, w) ==
    /\ mCaptureWindow' = w
    /\ windowRefs' = IF mCaptureWindow = w THEN refs
                     ELSE Release(refs, mCaptureWindow)
    /\ Goto(Api, "idle")

(* Java's Surface becomes an ANativeWindow with a reference of its own. *)
SetCaptureDisplay(w) ==
    /\ MayCallSetter
    /\ w # NoWindow => windowRefs[w] < MaxRefs
    /\ mIsCapturing' = (mIsCapturing /\ ~mIsRunning)
    /\ LET refs == IF w = NoWindow THEN windowRefs
                   ELSE [windowRefs EXCEPT ![w] = @ + 1]
       IN  IF StopsCapturing /\ mCaptureWindow # NoWindow
           THEN /\ newWindow' = w
                /\ windowRefs' = refs
                /\ Goto(Api, "displaySet")
                /\ UNCHANGED mCaptureWindow
           ELSE UNCHANGED newWindow /\ ReplaceCaptureWindow(refs, w)
    /\ UNCHANGED <<mIsRunning, mPreviewWindow, formatVars, frameVars,
                   mFrameCallbackObj, callee, newCallback, sessionVars,
                   starts>>

(* "wait finishing capturing": one signal, one wait. *)
WaitFinishingCapturing ==
    /\ \/ /\ pc[Api] = "callbackSet"
          /\ pc' \in SignalCaptureSync([pc EXCEPT ![Api] = "callbackWait"])
       \/ /\ pc[Api] = "displaySet"
          /\ pc' \in SignalCaptureSync([pc EXCEPT ![Api] = "displayWait"])
    /\ UNCHANGED <<frameVars, controlVars>>

FinishSetFrameCallback ==
    /\ pc[Api] = "callbackWoken"
    /\ ReplaceFrameCallback(newCallback)
    /\ newCallback' = NoCallback
    /\ UNCHANGED <<flagVars, windowVars, requestFormat, frameFormat, sz, frameVars,
                   callee, newWindow, sessionVars, starts>>

FinishSetCaptureDisplay ==
    /\ pc[Api] = "displayWoken"
    /\ ReplaceCaptureWindow(windowRefs, newWindow)
    /\ newWindow' = NoWindow
    /\ UNCHANGED <<flagVars, mPreviewWindow, formatVars, frameVars,
                   mFrameCallbackObj, callee, newCallback, sessionVars, starts>>

-----------------------------------------------------------------------------
(* The caller: startPreview, stopPreview, the destructor. *)

StartPreview ==
    /\ pc[Api] = "idle" /\ ~mIsRunning
    /\ starts < MaxStarts
    /\ starts' = starts + 1
    /\ overlap' = (overlap \/ \E t \in CaptureThreads : pc[t] # "off")
    /\ mIsRunning' = TRUE
    /\ Goto(Api, "starting")
    /\ UNCHANGED <<mIsCapturing, windowVars, formatVars, frameVars, callVars,
                   capture_thread, streaming, abandoned, toSurface>>

(* The preview thread is created only if there is a window to draw on; the *)
(* creation can fail.                                                      *)
CreatePreviewThread ==
    /\ pc[Api] = "starting"
    /\ \/ /\ mPreviewWindow
          /\ pc' = [pc EXCEPT ![Api] = "idle", ![Preview] = "prepare"]
       \/ Goto(Api, "startFailed")
    /\ UNCHANGED <<frameVars, controlVars>>

StartPreviewFailed ==
    /\ pc[Api] = "startFailed"
    /\ mIsRunning' = FALSE
    /\ pc' = SignalPreviewSync([pc EXCEPT ![Api] = "idle"])
    /\ UNCHANGED <<mIsCapturing, windowVars, formatVars, frameVars, callVars,
                   sessionVars, starts>>

StopPreview ==
    /\ pc[Api] \in {"idle", "stopCalled"}
    /\ mIsRunning' = FALSE
    /\ Goto(Api, IF mIsRunning THEN "stopping" ELSE "clearPreview")
    /\ UNCHANGED <<mIsCapturing, windowVars, formatVars, frameVars, callVars,
                   sessionVars, starts>>

(* Both signals are sent without the mutexes. *)
SignalStop ==
    /\ pc[Api] = "stopping"
    /\ pc' \in SignalCaptureSync(
                   SignalPreviewSync([pc EXCEPT ![Api] = "joinCapture"]))
    /\ UNCHANGED <<frameVars, controlVars>>

(* pthread_join on a handle that names no live thread returns an error,    *)
(* which stopPreview logs.                                                 *)
JoinCaptureThread ==
    /\ pc[Api] = "joinCapture"
    /\ capture_thread # NoThread => pc[capture_thread] = "off"
    /\ Goto(Api, "joinPreview")
    /\ UNCHANGED <<frameVars, controlVars>>

(* A mutant of JoinPreviewThread: does not wait for the thread's end. *)
DetachPreviewThread ==
    /\ pc[Api] = "joinPreview"
    /\ Goto(Api, "clearPreview")
    /\ UNCHANGED <<frameVars, controlVars>>

JoinPreviewThread ==
    /\ pc[Api] = "joinPreview"
    /\ pc[Preview] = "off"
    /\ Goto(Api, "clearPreview")
    /\ UNCHANGED <<frameVars, controlVars>>

StopClearsPreviewFrames ==
    /\ pc[Api] = "clearPreview"
    /\ ClearPreviewFrame
    /\ Goto(Api, "clearCapture")
    /\ UNCHANGED controlVars

StopClearsCaptureFrame ==
    /\ pc[Api] = "clearCapture"
    /\ ClearCaptureFrame
    /\ Goto(Api, "releaseWindows")
    /\ UNCHANGED controlVars

StopReleasesWindows ==
    /\ pc[Api] = "releaseWindows"
    /\ mPreviewWindow' = FALSE
    /\ mCaptureWindow' = NoWindow
    /\ windowRefs' = Release(windowRefs, mCaptureWindow)
    /\ Goto(Api, "idle")
    /\ UNCHANGED <<flagVars, formatVars, frameVars, callVars, sessionVars,
                   starts>>

(* UVCCamera::release deletes the object after a stopPreview. *)
Destroy ==
    /\ pc[Api] = "idle"
    /\ ~mIsRunning /\ ~mPreviewWindow /\ mCaptureWindow = NoWindow
    /\ ClearAll
    /\ Goto(Api, "destroyed")
    /\ UNCHANGED controlVars

-----------------------------------------------------------------------------
(* libuvc's callback thread: uvc_preview_frame_callback. *)

(* The frame is copied, or missed: it is broken, the preview stopped, no   *)
(* memory is left for a copy or for its data.                              *)
FrameArrives ==
    /\ \/ pc[Callback] = "ready" /\ streaming /\ ~abandoned
       \/ pc[Callback] = "deliver" /\ pc[Api] # "destroyed"
    /\ arrivals < MaxArrivals
    /\ \/ \E f \in NewFrames :
             /\ mIsRunning
             /\ \/ Receive(f) /\ Goto(Callback, "add")
                \/ Miss(f) /\ Goto(Callback, "ready")
       \/ Miss(NoFrame) /\ Goto(Callback, "ready")
    /\ UNCHANGED controlVars

(* libuvc gives the stream up: running is reset, so that uvc_stream_close  *)
(* does not join its thread.  The thread ends at its next test of running, *)
(* but it may be past that test and make one call more, at any time, also  *)
(* when the stream is closed or the preview deleted.                       *)
AbandonStream ==
    /\ abandoned' = TRUE
    /\ \/ UNCHANGED pc
       \/ pc[Callback] = "ready" /\ Goto(Callback, "deliver")

(* LIBUSB_TRANSFER_NO_DEVICE *)
DeviceLost ==
    /\ streaming /\ ~abandoned
    /\ AbandonStream
    /\ UNCHANGED <<flagVars, windowVars, formatVars, frameVars, callVars,
                   capture_thread, overlap, streaming, toSurface, starts>>

(* Mutants of AddPreviewFrame: a frame that is not queued is not recycled; *)
(* one frame more than MAX_FRAME; no signal.                               *)
AddPreviewFrameForgets ==
    /\ pc[Callback] = "add"
    /\ IF mIsRunning /\ Len(previewFrames) < MAX_FRAME
       THEN /\ Enqueue
            /\ pc' = SignalPreviewSync([pc EXCEPT ![Callback] = "ready"])
       ELSE UNCHANGED frameVars /\ Goto(Callback, "ready")
    /\ UNCHANGED controlVars

AddPreviewFrameOffByOne ==
    /\ pc[Callback] = "add"
    /\ IF mIsRunning /\ Len(previewFrames) <= MAX_FRAME
       THEN /\ Enqueue
            /\ pc' = SignalPreviewSync([pc EXCEPT ![Callback] = "ready"])
       ELSE Discard(Callback) /\ Goto(Callback, "ready")
    /\ UNCHANGED controlVars

AddPreviewFrameNoSignal ==
    /\ pc[Callback] = "add"
    /\ IF mIsRunning /\ Len(previewFrames) < MAX_FRAME
       THEN Enqueue ELSE Discard(Callback)
    /\ Goto(Callback, "ready")
    /\ UNCHANGED controlVars

(* addPreviewFrame *)
AddPreviewFrame ==
    /\ pc[Callback] = "add" /\ pc[Api] # "destroyed"
    /\ IF mIsRunning /\ Len(previewFrames) < MAX_FRAME
       THEN /\ Enqueue
            /\ pc' = SignalPreviewSync([pc EXCEPT ![Callback] = "ready"])
       ELSE Discard(Callback) /\ Goto(Callback, "ready")
    /\ UNCHANGED controlVars

-----------------------------------------------------------------------------
(* The preview thread: preview_thread_func, do_preview. *)

(* When the negotiation fails the thread ends and mIsRunning stays set.    *)
(* With a lost device it does fail.  What a new stream would do beside one *)
(* that was abandoned by a failed start is not modelled.                   *)
PreparePreview ==
    /\ pc[Preview] = "prepare"
    /\ \/ ~abandoned /\ frameFormat' = requestFormat /\ Goto(Preview, "startStreaming")
       \/ UNCHANGED frameFormat /\ Goto(Preview, "off")
    /\ UNCHANGED <<flagVars, windowVars, requestFormat, callbackFormat, sz, frameVars,
                   callVars, sessionVars, starts>>

(* A start can fail, also after libuvc's thread was created and called. *)
StartStreaming ==
    /\ pc[Preview] = "startStreaming"
    /\ \/ streaming' = TRUE /\ Goto(Preview, "spawn") /\ UNCHANGED abandoned
       \/ Goto(Preview, "off") /\ UNCHANGED <<streaming, abandoned>>
       \/ /\ pc' = [pc EXCEPT ![Preview] = "off", ![Callback] = "deliver"]
          /\ abandoned' = TRUE
          /\ UNCHANGED streaming
    /\ UNCHANGED <<flagVars, windowVars, formatVars, frameVars, callVars,
                   capture_thread, overlap, toSurface, starts>>

(* The result of pthread_create is not tested: it fails when the process   *)
(* can have no more threads.                                               *)
SpawnCaptureThread ==
    /\ pc[Preview] = "spawn"
    /\ ClearPreviewFrame
    /\ \/ \E t \in CaptureThreads :
             /\ pc[t] = "off"
             /\ capture_thread' = t
             /\ pc' = [pc EXCEPT ![Preview] = "loop", ![t] = "clear"]
       \/ /\ \A t \in CaptureThreads : pc[t] # "off"
          /\ UNCHANGED capture_thread
          /\ Goto(Preview, "loop")
    /\ UNCHANGED <<flagVars, windowVars, formatVars, callVars, overlap, streaming,
                   abandoned, toSurface, starts>>

PreviewLoop ==
    /\ pc[Preview] = "loop"
    /\ Goto(Preview, IF mIsRunning THEN "take" ELSE "signal")
    /\ UNCHANGED <<frameVars, controlVars>>

(* waitPreviewFrame: one wait at most, then take the oldest frame. *)
WaitPreviewFrame ==
    /\ \/ pc[Preview] = "take" /\ previewFrames # <<>>
       \/ pc[Preview] = "previewWoken"
    /\ IF mIsRunning /\ previewFrames # <<>>
       THEN /\ Dequeue
            /\ Goto(Preview, IF frameFormat.mode = "MJPEG" THEN "decode" ELSE "draw")
       ELSE UNCHANGED frameVars /\ Goto(Preview, "loop")
    /\ UNCHANGED controlVars

BlockOnPreviewSync ==
    /\ pc[Preview] = "take" /\ previewFrames = <<>>
    /\ Goto(Preview, "previewWait")
    /\ UNCHANGED <<frameVars, controlVars>>

(* uvc_mjpeg2yuyv into another frame, which replaces the compressed one;   *)
(* when the decoder fails both are recycled.                               *)
DecodeMjpeg ==
    /\ pc[Preview] = "decode"
    /\ \E f \in NewFrames :
          \/ Replace(Preview, f) /\ Goto(Preview, "draw")
          \/ FailToReplace(Preview, f) /\ Goto(Preview, "loop")
    /\ UNCHANGED controlVars

(* draw_preview_one: a scratch frame for the conversion, recycled at once. *)
DrawPreviewOne ==
    /\ pc[Preview] = "draw"
    /\ \/ mPreviewWindow /\ \E f \in NewFrames : UseScratch(f)
       \/ (mPreviewWindow => NewFrames = {}) /\ UNCHANGED frameVars
    /\ Goto(Preview, "add")
    /\ UNCHANGED controlVars

(* A mutant of AddCaptureFrame: no broadcast. *)
AddCaptureFrameNoBroadcast ==
    /\ pc[Preview] = "add"
    /\ CaptureMutexFree
    /\ IF mIsRunning THEN Post ELSE Lose(Preview)
    /\ Goto(Preview, "loop")
    /\ UNCHANGED controlVars

(* addCaptureFrame keeps the latest frame only.  When the preview stopped  *)
(* meanwhile the frame is neither queued nor recycled.                     *)
AddCaptureFrame ==
    /\ pc[Preview] = "add"
    /\ CaptureMutexFree
    /\ IF mIsRunning
       THEN /\ Post
            /\ pc' = Wake([pc EXCEPT ![Preview] = "loop"], CaptureSyncWaiters)
       ELSE Lose(Preview) /\ Goto(Preview, "loop")
    /\ UNCHANGED controlVars

(* After the loop: one signal, without the mutex. *)
SignalCaptureThread ==
    /\ pc[Preview] = "signal"
    /\ pc' \in SignalCaptureSync([pc EXCEPT ![Preview] = "stopStreaming"])
    /\ UNCHANGED <<frameVars, controlVars>>

(* A mutant of StopStreaming: does not wait for libuvc's thread. *)
StopStreamingEarly ==
    /\ pc[Preview] = "stopStreaming"
    /\ streaming' = FALSE
    /\ Goto(Preview, "off")
    /\ UNCHANGED <<flagVars, windowVars, formatVars, frameVars, callVars,
                   capture_thread, overlap, abandoned, toSurface, starts>>

(* uvc_stop_streaming returns when libuvc's thread has ended, or at once   *)
(* when the stream is no longer running.                                   *)
StopStreaming ==
    /\ pc[Preview] = "stopStreaming"
    /\ pc[Callback] = "ready" \/ abandoned
    /\ streaming' = FALSE
    /\ Goto(Preview, "off")
    /\ UNCHANGED <<flagVars, windowVars, formatVars, frameVars, callVars,
                   capture_thread, overlap, abandoned, toSurface, starts>>

-----------------------------------------------------------------------------
(* A capture thread: capture_thread_func, do_capture. *)

(* clearCaptureFrame, *)
BeginCapture(t) ==
    /\ pc[t] = "clear"
    /\ CaptureMutexFree
    /\ ClearCaptureFrame
    /\ Goto(t, "format")
    /\ UNCHANGED controlVars

(* and callbackPixelFormatChanged, without the mutex: the size of the      *)
(* buffer for onFrame is written from the size read before.                *)
ReadRequestSize(t) ==
    /\ pc[t] = "format"
    /\ sz' = [sz EXCEPT ![t] = requestFormat]
    /\ Goto(t, "write")
    /\ UNCHANGED <<flagVars, windowVars, requestFormat, frameFormat, callbackFormat,
                   frameVars, callVars, sessionVars, starts>>

(* A mutant of WriteCallbackBytes: the size is not written. *)
KeepCallbackBytes(t) ==
    /\ pc[t] = "write"
    /\ sz' = [sz EXCEPT ![t] = NoFormat]
    /\ Goto(t, "outer")
    /\ UNCHANGED <<flagVars, windowVars, requestFormat, frameFormat, callbackFormat,
                   frameVars, callVars, sessionVars, starts>>

WriteCallbackBytes(t) ==
    /\ pc[t] = "write"
    /\ callbackFormat' = sz[t]
    /\ sz' = [sz EXCEPT ![t] = NoFormat]
    /\ Goto(t, "outer")
    /\ UNCHANGED <<flagVars, windowVars, requestFormat, frameFormat, frameVars,
                   callVars, sessionVars, starts>>

(* The head of the loop in do_capture: with a capture window the frames    *)
(* are copied to it, without one they only go to the callback.             *)
CaptureLoop(t) ==
    /\ pc[t] = "outer"
    /\ IF mIsRunning
       THEN /\ mIsCapturing' = TRUE
            /\ toSurface' = [toSurface EXCEPT ![t] = mCaptureWindow # NoWindow]
            /\ Goto(t, "inner")
       ELSE UNCHANGED <<mIsCapturing, toSurface>> /\ Goto(t, "off")
    /\ UNCHANGED <<mIsRunning, windowVars, formatVars, frameVars, callVars,
                   capture_thread, overlap, streaming, abandoned, starts>>

(* The head of both inner loops. *)
CapturingLoop(t) ==
    /\ pc[t] = "inner"
    /\ Goto(t, IF mIsRunning /\ mIsCapturing THEN "take"
               ELSE IF toSurface[t] THEN "recycleConverted" ELSE "broadcast")
    /\ UNCHANGED <<frameVars, controlVars>>

(* waitCaptureFrame: one wait at most, then take the frame of the mailbox. *)
WaitCaptureFrame(t) ==
    /\ \/ pc[t] = "take" /\ captureQueu # NoFrame
       \/ pc[t] = "captureWoken"
    /\ CaptureMutexFree
    /\ IF mIsRunning /\ captureQueu # NoFrame
       THEN /\ Take(t)
            /\ Goto(t, IF toSurface[t] THEN "copy" ELSE "callback")
       ELSE UNCHANGED frameVars /\ Goto(t, "inner")
    /\ UNCHANGED controlVars

BlockOnCaptureSync(t) ==
    /\ pc[t] = "take" /\ captureQueu = NoFrame
    /\ CaptureMutexFree
    /\ Goto(t, "captureWait")
    /\ UNCHANGED <<frameVars, controlVars>>

(* A mutant of CopyToSurface: a new scratch frame for every frame. *)
CopyToSurfaceGetsAnother(t) ==
    /\ pc[t] = "copy"
    /\ IF mIsCapturing /\ NewFrames # {}
       THEN \E f \in NewFrames : KeepScratch(t, f)
       ELSE UNCHANGED frameVars
    /\ Goto(t, "callback")
    /\ UNCHANGED controlVars

(* do_capture_surface gets its scratch frame with the first frame it       *)
(* converts and keeps it until its loop ends.                              *)
CopyToSurface(t) ==
    /\ pc[t] = "copy"
    /\ IF mIsCapturing /\ converted[t] = NoFrame /\ NewFrames # {}
       THEN \E f \in NewFrames : KeepScratch(t, f)
       ELSE UNCHANGED frameVars
    /\ Goto(t, "callback")
    /\ UNCHANGED controlVars

(* do_capture_callback up to the call.  A pixel format that needs a        *)
(* conversion replaces the frame by a converted copy; a conversion that    *)
(* fails, or a missing callback, ends the matter.                          *)
PrepareCallback(t) ==
    /\ pc[t] = "callback"
    /\ \/ /\ mFrameCallbackObj # NoCallback
          /\ Goto(t, "call")
          /\ \/ UNCHANGED frameVars
             \/ \E f \in NewFrames : Replace(t, f)
       \/ /\ mFrameCallbackObj # NoCallback
          /\ Goto(t, "inner")
          /\ \E f \in NewFrames : FailToReplace(t, f)
       \/ /\ mFrameCallbackObj = NoCallback \/ NewFrames = {}
          /\ Goto(t, "inner")
          /\ Discard(t)
    /\ UNCHANGED controlVars

(* CallVoidMethod(mFrameCallbackObj, onFrame): the object is read again. *)
CallOnFrame(t) ==
    /\ pc[t] = "call"
    /\ callee' = [callee EXCEPT ![t] = mFrameCallbackObj]
    /\ Goto(t, "onFrame")
    /\ UNCHANGED <<flagVars, windowVars, formatVars, frameVars,
                   mFrameCallbackObj, newCallback, newWindow, sessionVars, starts>>

OnFrameReturns(t) ==
    /\ pc[t] = "onFrame"
    /\ callee' = [callee EXCEPT ![t] = NoCallback]
    /\ Discard(t)
    /\ Goto(t, "inner")
    /\ UNCHANGED <<flagVars, windowVars, formatVars, mFrameCallbackObj, newCallback,
                   newWindow, sessionVars, starts>>

RecycleConverted(t) ==
    /\ pc[t] = "recycleConverted"
    /\ ReturnScratch(t)
    /\ Goto(t, "release")
    /\ UNCHANGED controlVars

(* The end of do_capture_surface, without the mutex: release the window,   *)
(* then forget it.                                                         *)
ReleaseCaptureWindow(t) ==
    /\ pc[t] = "release"
    /\ windowRefs' = Release(windowRefs, mCaptureWindow)
    /\ Goto(t, IF mCaptureWindow = NoWindow THEN "broadcast" ELSE "forget")
    /\ UNCHANGED <<flagVars, mPreviewWindow, mCaptureWindow, formatVars,
                   frameVars, callVars, sessionVars, starts>>

ForgetCaptureWindow(t) ==
    /\ pc[t] = "forget"
    /\ mCaptureWindow' = NoWindow
    /\ Goto(t, "broadcast")
    /\ UNCHANGED <<flagVars, mPreviewWindow, windowRefs, formatVars, frameVars,
                   callVars, sessionVars, starts>>

(* The end of the loop in do_capture, without the mutex. *)
BroadcastCaptureDone(t) ==
    /\ pc[t] = "broadcast"
    /\ pc' = Wake([pc EXCEPT ![t] = "outer"], CaptureSyncWaiters)
    /\ UNCHANGED <<frameVars, controlVars>>

-----------------------------------------------------------------------------
ApiSetters ==
    \/ \E f \in Formats : SetPreviewSize(f)
    \/ \E b \in BOOLEAN : SetPreviewDisplay(b)
    \/ \E cb \in Callbacks \cup {NoCallback} : SetFrameCallback(cb)
    \/ \E w \in CaptureWindows \cup {NoWindow} : SetCaptureDisplay(w)

(* The steps of a call under way. *)
ApiStep ==
    \/ WaitFinishingCapturing
    \/ FinishSetFrameCallback \/ FinishSetCaptureDisplay
    \/ CreatePreviewThread \/ StartPreviewFailed
    \/ pc[Api] = "stopCalled" /\ StopPreview
    \/ SignalStop \/ JoinCaptureThread \/ JoinPreviewThread
    \/ StopClearsPreviewFrames \/ StopClearsCaptureFrame \/ StopReleasesWindows

PreviewStep ==
    \/ PreparePreview \/ StartStreaming \/ SpawnCaptureThread
    \/ PreviewLoop \/ WaitPreviewFrame \/ BlockOnPreviewSync
    \/ DecodeMjpeg \/ DrawPreviewOne \/ AddCaptureFrame
    \/ SignalCaptureThread \/ StopStreaming

CaptureStep(t) ==
    /\ pc[Api] # "destroyed"
    /\ \/ BeginCapture(t) \/ ReadRequestSize(t) \/ WriteCallbackBytes(t)
       \/ CaptureLoop(t) \/ CapturingLoop(t)
       \/ WaitCaptureFrame(t) \/ BlockOnCaptureSync(t)
       \/ CopyToSurface(t) \/ PrepareCallback(t) \/ CallOnFrame(t)
       \/ OnFrameReturns(t) \/ RecycleConverted(t) \/ ReleaseCaptureWindow(t)
       \/ ForgetCaptureWindow(t) \/ BroadcastCaptureDone(t)

(* A thread that outlives the object uses deleted memory: it takes no step *)
(* more.                                                                   *)
Next ==
    \/ ApiSetters \/ StartPreview \/ StopPreview \/ Destroy
    \/ ApiStep
    \/ FrameArrives \/ DeviceLost \/ AddPreviewFrame
    \/ PreviewStep
    \/ \E t \in CaptureThreads : CaptureStep(t)
    \/ SpuriousWakeup

Spec == Init /\ [][Next]_vars

-----------------------------------------------------------------------------
(* Fairness.  Every thread that can run does run: the calls under way, the *)
(* preview thread, the capture threads, libuvc's thread once it has a      *)
(* frame.  Nothing obliges the caller to call, the camera to send a frame, *)
(* or a wait to return without a signal.                                   *)
ThreadFairness ==
    /\ WF_vars(ApiStep)
    /\ WF_vars(PreviewStep)
    /\ WF_vars(AddPreviewFrame)
    /\ \A t \in CaptureThreads : WF_vars(CaptureStep(t))

FairSpec == Spec /\ ThreadFairness

-----------------------------------------------------------------------------
(* Frames. *)

(* A frame is lost to the program only when the preview is being stopped   *)
(* (the branch addCaptureFrame has no else for).                           *)
LeaksOnlyWhenStopping == [][Leaked' \subseteq Leaked \/ ~mIsRunning]_vars

(* And at most one for each preview that was started. *)
LeakBound == Cardinality(Leaked) <= starts

-----------------------------------------------------------------------------
(* Sessions. *)

(* When stopPreview has returned nothing of the preview is left: no        *)
(* preview thread, no stream, no frame posted, no callback under way and   *)
(* no frame queued.  If libuvc abandoned the stream (the device was lost,  *)
(* or a start failed late) one call of the callback may be left, and queue *)
(* one frame when the preview is started again, which will not stream.     *)
NothingLeft == pc[Callback] = "ready" /\ previewFrames = <<>>

LastCallLeft ==
    \/ previewFrames = <<>>
    \/ pc[Callback] = "ready" /\ Len(previewFrames) = 1

StoppedMeansQuiet ==
    pc[Api] \in {"idle", "destroyed"} /\ ~mIsRunning =>
        /\ pc[Preview] = "off" /\ ~streaming
        /\ captureQueu = NoFrame
        /\ IF abandoned THEN LastCallLeft ELSE NothingLeft

(* The buffer that the session's capture thread hands to onFrame covers    *)
(* the frame: callbackPixelBytes was computed from the size the session    *)
(* streams with.  (A capture thread that is still alive when the next      *)
(* session makes its own can write the old size after it, or hand over a   *)
(* frame of the next session: callbackPixelFormatChanged has no mutex.)    *)
BufferMatchesFrame ==
    \A t \in CaptureThreads :
        pc[t] = "call" /\ t = capture_thread /\ ~overlap =>
            callbackFormat.bytes = frameFormat.bytes

(* The capture window in use is one UVCPreview holds a reference to. *)
CaptureWindowHeld ==
    mCaptureWindow # NoWindow /\ ~overlap =>
        \/ windowRefs[mCaptureWindow] > 0
        \/ \E t \in CaptureThreads : pc[t] = "forget"

-----------------------------------------------------------------------------
(* What makes these invariants inductive. *)

(* A thread has a frame in its hand exactly between the step that takes it *)
(* and the step that passes it on, so that no step overwrites one.         *)
FramesInHand ==
    /\ frame[Callback] # NoFrame <=> pc[Callback] = "add"
    /\ frame[Preview] # NoFrame <=> pc[Preview] \in {"decode", "draw", "add"}
    /\ \A t \in CaptureThreads :
          /\ frame[t] # NoFrame
                <=> pc[t] \in {"copy", "callback", "call", "onFrame"}
          /\ pc[t] = "copy" => toSurface[t]
          /\ converted[t] # NoFrame
                => /\ toSurface[t]
                   /\ pc[t] \notin {"off", "clear", "format", "write", "outer",
                                    "release", "forget", "broadcast"}
          /\ sz[t] # NoFormat <=> pc[t] = "write"

Stopping == pc[Api] \in {"stopping", "joinCapture", "joinPreview"}

(* The life of the preview thread, of the stream and of the queues follows *)
(* mIsRunning and the call under way.                                      *)
SessionShape ==
    /\ Stopping \/ pc[Api] \in {"clearPreview", "clearCapture",
                                "releaseWindows", "destroyed"} => ~mIsRunning
    /\ pc[Api] \in {"starting", "startFailed", "stopCalled"} => mIsRunning
    /\ ~mIsRunning /\ ~Stopping => pc[Preview] = "off"
    /\ pc[Api] \in {"starting", "startFailed"} => pc[Preview] = "off"
    /\ streaming <=> pc[Preview] \notin {"off", "prepare", "startStreaming"}
    /\ pc[Callback] = "deliver" => abandoned
    /\ ~streaming /\ ~abandoned => pc[Callback] = "ready"
    /\ abandoned => pc[Preview] # "startStreaming"
    /\ \/ ~mIsRunning /\ ~Stopping /\ pc[Api] # "clearPreview"
       \/ pc[Api] \in {"starting", "startFailed"}
       => IF abandoned THEN LastCallLeft ELSE previewFrames = <<>>
    /\ \/ ~mIsRunning /\ ~Stopping
          /\ pc[Api] \notin {"clearPreview", "clearCapture"}
       \/ pc[Api] \in {"starting", "startFailed"}
       => captureQueu = NoFrame

(* No wake-up is lost between a queue and its consumer: who waits for a    *)
(* frame waits because there is none.                                      *)
FramesAwaited ==
    /\ pc[Preview] = "previewWait" => previewFrames = <<>>
    /\ \A t \in CaptureThreads : pc[t] = "captureWait" => captureQueu = NoFrame

InPreviewLoop ==
    pc[Preview] \in {"loop", "take", "previewWait", "previewWoken", "decode",
                    "draw", "add"}

InDoCaptureCallback(t) == pc[t] \in {"copy", "callback", "call", "onFrame"}

(* The mailbox is filled and emptied by the preview loop's own session: a  *)
(* frame reaches capture_thread only while that loop runs, and stopPreview *)
(* waits until it is dealt with.                                           *)
CaptureShape ==
    /\ mIsRunning => pc[Preview] \notin {"signal", "stopStreaming"}
    /\ mIsRunning /\ captureQueu # NoFrame => InPreviewLoop
    /\ \A t \in CaptureThreads :
          t = capture_thread /\ InDoCaptureCallback(t) =>
             IF mIsRunning THEN InPreviewLoop
             ELSE /\ pc[Api] \in {"stopping", "joinCapture"}
                  /\ pc[Preview] \notin {"prepare", "startStreaming", "spawn"}

(* What ControlInvHolds (UVCPreview_proofs) shows by induction. *)
ControlInv ==
    TypeOK /\ FramesInHand /\ SessionShape /\ FramesAwaited /\ CaptureShape

-----------------------------------------------------------------------------
(* Liveness. *)

(* While the preview thread runs no frame is stuck in the preview queue or *)
(* in the mailbox: addPreviewFrame and addCaptureFrame signal under the    *)
(* mutex the consumer tests the queue with, so these two wake-ups are not  *)
(* lost.  (A start that fails late leaves a frame to no thread.)           *)
PreviewQueueDrains ==
    previewFrames # <<>>
        ~> (previewFrames = <<>> \/ ~mIsRunning \/ pc[Preview] = "off")

MailboxDrains ==
    captureQueu # NoFrame ~> (captureQueu = NoFrame \/ ~mIsRunning)

(* stopPreview returns ("wait for actually preview stopped ... this method *)
(* will take a time to execute", AbstractUVCCameraHandler.stopPreview).    *)
StopReturns == pc[Api] = "stopping" ~> pc[Api] = "idle"

(* setFrameCallback and setCaptureDisplay return. *)
SetterReturns ==
    pc[Api] \in {"callbackSet", "displaySet"} ~> pc[Api] = "idle"

(* "wait finishing capturing": once the setter has waited, no capture      *)
(* thread is between its test of the callback object and the end of the    *)
(* call.                                                                   *)
WaitFinishesCapturing ==
    [][pc[Api] = "callbackWoken" /\ pc'[Api] = "idle"
         => \A t \in CaptureThreads : pc[t] \notin {"call", "onFrame"}]_vars

=============================================================================
