--------------------------- MODULE CameraHandler ---------------------------
(***************************************************************************)
(* The camera handler (AbstractUVCCameraHandler.java): callers that post   *)
(* messages, and the CameraThread that owns the UVCCamera and handles      *)
(* them one after another.                                                 *)
(*                                                                         *)
(* In this repository the callers are USBMonitor's handler thread (open    *)
(* when a device is connected, close when one is detached), the main       *)
(* thread (startPreview, half a second after an open) and the thread of    *)
(* the surface texture (stopPreview and release, in stopCapture).          *)
(*                                                                         *)
(* Grain.  A block synchronized on mSync is one step: stopPreview holds it *)
(* from its send to its wait, the others only for a few assignments.  The  *)
(* fields mUVCCamera and mIsPreviewing are written by the camera thread    *)
(* alone, so that what it reads of them without mSync is what it wrote.    *)
(* A call of a native method of the camera is a step of its own.           *)
(***************************************************************************)
EXTENDS Naturals, Sequences, SequencesExt

CONSTANTS
    Callers,            \* the threads that call the handler
    Calls,              \* which methods each of them calls
    SpuriousWakeups,    \* can a wait return without a notify?
    StartsFail,         \* can the native side fail to start a preview?
    MaxCalls            \* bound: calls made in all

Methods == {"open", "startPreview", "stopPreview", "close", "release"}

ASSUME CameraHandlerAssumption ==
    /\ Calls \in [Callers -> SUBSET Methods]
    /\ SpuriousWakeups \in BOOLEAN /\ StartsFail \in BOOLEAN
    /\ MaxCalls \in Nat

NoCamera == 0
(* "removed" stands where removeMessages took a message out. *)
Messages == {"open", "close", "start", "stop", "release", "removed"}

VARIABLES
    queue,          \* the message queue of the camera thread
    mHandler,       \* has the camera thread made its handler?
    mReleased,      \* has the handler been released?
    mUVCCamera,     \* the open camera, a number
    mIsPreviewing,  \* the flag of the camera thread
    thread,         \* where the camera thread is
    message,        \* the message it handles
    camera,         \* the local variable of handleOpen and handleClose
    created,        \* number of UVCCamera objects made so far
    connected,      \* cameras whose native side has the device open
    streams,        \* cameras whose native preview runs
    creator,        \* where the thread is that creates the handler
    mCameraHandler, \* has the helper a handler?
    pc, call,       \* where each caller is, in which method
    calls,          \* calls made so far, for their bound
    overtaken       \* history: callers that were about to send their stop and
                    \*   wait for its notify when mSync was notified

cameraVars == <<mUVCCamera, camera, created, connected, streams>>
threadVars == <<thread, message>>
callVars == <<pc, call, calls, overtaken>>
handlerVars == <<mHandler, mReleased, mCameraHandler, creator>>
vars == <<queue, mIsPreviewing, cameraVars, threadVars, callVars, handlerVars>>

ThreadPcs == {"boot", "loop", "closeTake", "closeStop", "closeDestroy",
              "connect", "publish", "configure", "startNative", "flag",
              "stopNative", "unflag", "quit", "end", "dead"}
CallerPcs == {"idle", "postOpen", "postStart", "isOpened", "removeStarts",
              "isPreviewing", "sendStop", "waiting", "woken", "sendClose",
              "sendRelease"}
CreatorPcs == {"getHandler", "waiting", "woken", "early", "done", "without"}

(* Every variable has its type. *)
TypeOK ==
    /\ queue \in Seq(Messages)
    /\ mHandler \in BOOLEAN /\ mReleased \in BOOLEAN
    /\ mCameraHandler \in BOOLEAN /\ mIsPreviewing \in BOOLEAN
    /\ thread \in ThreadPcs /\ message \in Messages \cup {"none"}
    /\ created \in Nat
    /\ mUVCCamera \in 0..created /\ camera \in 0..created
    /\ connected \subseteq 1..created
    /\ streams \subseteq connected
    /\ creator \in CreatorPcs
    /\ pc \in [Callers -> CallerPcs]
    /\ call \in [Callers -> Methods \cup {"none"}]
    /\ calls \in Nat
    /\ overtaken \subseteq Callers

(* UVCCameraHandler.createHandler: the thread is started, and getHandler is *)
(* about to wait for its handler.                                           *)
Init ==
    /\ queue = <<>>
    /\ mHandler = FALSE /\ mReleased = FALSE /\ mCameraHandler = FALSE
    /\ mUVCCamera = NoCamera /\ camera = NoCamera
    /\ mIsPreviewing = FALSE
    /\ thread = "boot" /\ message = "none"
    /\ created = 0
    /\ connected = {} /\ streams = {}
    /\ creator = "getHandler"
    /\ pc = [c \in Callers |-> "idle"]
    /\ call = [c \in Callers |-> "none"]
    /\ calls = 0
    /\ overtaken = {}

-----------------------------------------------------------------------------
(* Handler and mSync. *)

(* A message sent after Looper.quit is dropped. *)
Post(m) == queue' = IF thread \in {"end", "dead"} THEN queue ELSE Append(queue, m)

(* mSync.notifyAll *)
NotifyAll ==
    /\ pc' = [c \in Callers |-> IF pc[c] = "waiting" THEN "woken" ELSE pc[c]]
    /\ creator' = IF creator = "waiting" THEN "woken" ELSE creator
    /\ overtaken' = overtaken \cup {c \in Callers : pc[c] = "sendStop"}

-----------------------------------------------------------------------------
(* The camera thread. *)

(* run: make the handler, publish it, start to loop. *)
Run ==
    /\ thread = "boot"
    /\ thread' = "loop"
    /\ mHandler' = TRUE
    /\ NotifyAll
    /\ UNCHANGED <<queue, mIsPreviewing, cameraVars, message, call, calls,
                   mReleased, mCameraHandler>>

(* Mutants of StartStep: a start without a camera, a start during a preview. *)
StartStepNoCamera == IF mIsPreviewing THEN "loop" ELSE "configure"
StartStepTwice == IF mUVCCamera = NoCamera THEN "loop" ELSE "configure"

(* The early returns of handleStartPreview and handleStopPreview. *)
StartStep ==
    IF mUVCCamera = NoCamera \/ mIsPreviewing THEN "loop" ELSE "configure"
StopStep == IF mIsPreviewing THEN "stopNative" ELSE "loop"

(* Mutants of FirstStep: handleOpen, handleRelease do not close. *)
OpenWithoutClose(m) ==
    CASE m = "start" -> StartStep
      [] m = "stop" -> StopStep
      [] m = "removed" -> "loop"
      [] m = "open" -> "connect"
      [] OTHER -> "closeTake"

ReleaseWithoutClose(m) ==
    CASE m = "start" -> StartStep
      [] m = "stop" -> StopStep
      [] m = "removed" -> "loop"
      [] m = "release" -> "quit"
      [] OTHER -> "closeTake"

(* handleMessage: what the handler of a message does first. *)
FirstStep(m) ==
    CASE m = "start" -> StartStep
      [] m = "stop" -> StopStep
      [] m = "removed" -> "loop"
      [] OTHER -> "closeTake"

NextMessage ==
    /\ thread = "loop"
    /\ queue # <<>>
    /\ queue' = Tail(queue)
    /\ thread' = FirstStep(Head(queue))
    /\ message' = IF thread' = "loop" THEN "none" ELSE Head(queue)
    /\ UNCHANGED <<mIsPreviewing, cameraVars, callVars, handlerVars>>

(* The handler of a message returns to the looper. *)
Done == thread' = "loop" /\ message' = "none"

(* handleClose is a message of its own, and the beginning of handleOpen *)
(* and handleRelease.                                                   *)
AfterClose ==
    CASE message = "open" -> thread' = "connect" /\ message' = message
      [] message = "release" -> thread' = "quit" /\ message' = message
      [] OTHER -> Done

(* Mutant of HandleClose: it resets mIsPreviewing. *)
HandleCloseResetsFlag ==
    /\ thread = "closeTake"
    /\ mUVCCamera' = NoCamera
    /\ camera' = mUVCCamera
    /\ mIsPreviewing' = FALSE
    /\ IF mUVCCamera # NoCamera
         THEN thread' = "closeStop" /\ UNCHANGED message
         ELSE AfterClose
    /\ UNCHANGED <<queue, created, connected, streams, callVars,
                   handlerVars>>

HandleClose ==
    /\ thread = "closeTake"
    /\ mUVCCamera' = NoCamera
    /\ camera' = mUVCCamera
    /\ IF mUVCCamera # NoCamera
         THEN thread' = "closeStop" /\ UNCHANGED message
         ELSE AfterClose
    /\ UNCHANGED <<queue, mIsPreviewing, created, connected, streams,
                   callVars, handlerVars>>

(* camera.stopPreview in handleClose *)
StopClosedCamera ==
    /\ thread = "closeStop"
    /\ thread' = "closeDestroy"
    /\ streams' = streams \ {camera}
    /\ UNCHANGED <<queue, mIsPreviewing, mUVCCamera, camera, created, connected,
                   message, callVars, handlerVars>>

(* UVCCamera.destroy releases the native camera and the control block. *)
DestroyCamera ==
    /\ thread = "closeDestroy"
    /\ connected' = connected \ {camera}
    /\ streams' = streams \ {camera}
    /\ camera' = NoCamera
    /\ AfterClose
    /\ UNCHANGED <<queue, mIsPreviewing, mUVCCamera, created, callVars,
                   handlerVars>>

(* UVCCamera.open: clone the control block, connect with its descriptor.   *)
(* When either fails, handleOpen drops the object.                         *)
HandleOpen ==
    /\ thread = "connect"
    /\ created' = created + 1
    /\ \/ Done /\ UNCHANGED <<camera, connected>>
       \/ /\ thread' = "publish"
          /\ camera' = created'
          /\ connected' = connected \cup {created'}
          /\ UNCHANGED message
    /\ UNCHANGED <<queue, mIsPreviewing, mUVCCamera, streams, callVars,
                   handlerVars>>

(* The end of handleOpen: mUVCCamera = camera. *)
PublishCamera ==
    /\ thread = "publish"
    /\ mUVCCamera' = camera
    /\ camera' = NoCamera
    /\ Done
    /\ UNCHANGED <<queue, mIsPreviewing, created, connected, streams,
                   callVars, handlerVars>>

(* handleStartPreview up to startPreview: the camera may refuse both the   *)
(* size asked for and the fallback.                                        *)
HandleStartPreview ==
    /\ thread = "configure"
    /\ \/ Done
       \/ thread' = "startNative" /\ UNCHANGED message
    /\ UNCHANGED <<queue, mIsPreviewing, cameraVars, callVars, handlerVars>>

(* UVCCamera.startPreview; a failure of the native side is not reported. *)
StartNativePreview ==
    /\ thread = "startNative"
    /\ thread' = "flag"
    /\ \/ streams' = streams \cup {mUVCCamera}
       \/ StartsFail /\ UNCHANGED streams
    /\ UNCHANGED <<queue, mIsPreviewing, mUVCCamera, camera, created, connected,
                   message, callVars, handlerVars>>

SetPreviewing ==
    /\ thread = "flag"
    /\ mIsPreviewing' = TRUE
    /\ Done
    /\ UNCHANGED <<queue, cameraVars, callVars, handlerVars>>

(* Mutant of HandleStopPreview: the native preview is not stopped. *)
HandleStopOnlyFlag ==
    /\ thread = "stopNative"
    /\ thread' = "unflag"
    /\ UNCHANGED <<queue, mIsPreviewing, cameraVars, message, callVars,
                   handlerVars>>

HandleStopPreview ==
    /\ thread = "stopNative"
    /\ thread' = "unflag"
    /\ streams' = streams \ {mUVCCamera}
    /\ UNCHANGED <<queue, mIsPreviewing, mUVCCamera, camera, created, connected,
                   message, callVars, handlerVars>>

(* Mutant of ClearPreviewing: nobody is notified. *)
ClearPreviewingQuietly ==
    /\ thread = "unflag"
    /\ mIsPreviewing' = FALSE
    /\ Done
    /\ UNCHANGED <<queue, cameraVars, callVars, handlerVars>>

(* handleStopPreview, which a stop that finds no preview does not reach:   *)
(* nobody is notified then.                                                *)
ClearPreviewing ==
    /\ thread = "unflag"
    /\ mIsPreviewing' = FALSE
    /\ NotifyAll
    /\ Done
    /\ UNCHANGED <<queue, cameraVars, call, calls, mHandler, mReleased,
                   mCameraHandler>>

(* Mutant of HandleRelease: the looper goes on. *)
HandleReleaseKeepsLooping ==
    /\ thread = "quit"
    /\ Done
    /\ mReleased' = TRUE
    /\ UNCHANGED <<queue, mIsPreviewing, cameraVars, callVars, mHandler,
                   mCameraHandler, creator>>

(* The end of handleRelease: Looper.quit drops the messages still queued. *)
HandleRelease ==
    /\ thread = "quit"
    /\ thread' = "end" /\ message' = "none"
    /\ mReleased' = TRUE
    /\ queue' = <<>>
    /\ UNCHANGED <<mIsPreviewing, cameraVars, callVars, mHandler,
                   mCameraHandler, creator>>

(* The end of run. *)
EndOfRun ==
    /\ thread = "end"
    /\ thread' = "dead"
    /\ mHandler' = FALSE
    /\ NotifyAll
    /\ UNCHANGED <<queue, mIsPreviewing, cameraVars, message, call, calls,
                   mReleased, mCameraHandler>>

CameraThread ==
    \/ Run \/ NextMessage
    \/ HandleClose \/ StopClosedCamera \/ DestroyCamera
    \/ HandleOpen \/ PublishCamera
    \/ HandleStartPreview \/ StartNativePreview \/ SetPreviewing
    \/ HandleStopPreview \/ ClearPreviewing
    \/ HandleRelease \/ EndOfRun

-----------------------------------------------------------------------------
(* The thread that creates the handler. *)

(* Mutant of GetHandler: it waits although the handler is there. *)
GetHandlerWaits ==
    /\ creator = "getHandler"
    /\ creator' = "waiting"
    /\ UNCHANGED <<queue, mIsPreviewing, cameraVars, threadVars, callVars,
                   mHandler, mReleased, mCameraHandler>>

(* CameraThread.getHandler *)
GetHandler ==
    /\ creator = "getHandler"
    /\ creator' = IF mHandler THEN "woken" ELSE "waiting"
    /\ UNCHANGED <<queue, mIsPreviewing, cameraVars, threadVars, callVars,
                   mHandler, mReleased, mCameraHandler>>

(* The wait of getHandler is not in a loop. *)
SpuriousGetHandler ==
    /\ SpuriousWakeups
    /\ creator = "waiting"
    /\ creator' = "early"
    /\ UNCHANGED <<queue, mIsPreviewing, cameraVars, threadVars, callVars,
                   mHandler, mReleased, mCameraHandler>>

(* The helper stores the handler getHandler returns: null, if the wait     *)
(* ended early and the thread has not made it yet.                         *)
CreateHandler ==
    /\ \/ creator = "woken" /\ creator' = "done"
       \/ creator = "early" /\ creator' = IF mHandler THEN "done" ELSE "without"
    /\ mCameraHandler' = mHandler
    /\ UNCHANGED <<queue, mIsPreviewing, cameraVars, threadVars, callVars,
                   mHandler, mReleased>>

-----------------------------------------------------------------------------
(* The callers. *)

(* Caller c calls method m of the helper, which has a handler. *)
Begin(c, m, first) ==
    /\ mCameraHandler
    /\ pc[c] = "idle"
    /\ m \in Calls[c]
    /\ calls < MaxCalls
    /\ calls' = calls + 1
    /\ pc' = [pc EXCEPT ![c] = first]
    /\ call' = [call EXCEPT ![c] = m]
    /\ UNCHANGED overtaken

Goto(c, from, to) ==
    /\ pc[c] = from
    /\ pc' = [pc EXCEPT ![c] = to]
    /\ call' = IF to = "idle" THEN [call EXCEPT ![c] = "none"] ELSE call
    /\ overtaken' = IF from = "woken" THEN overtaken \ {c} ELSE overtaken
    /\ UNCHANGED calls

(* open and startPreview throw when the handler is released; that call has *)
(* no effect and is not modelled.                                          *)
Open(c) ==
    /\ ~mReleased
    /\ Begin(c, "open", "postOpen")
    /\ UNCHANGED <<queue, mIsPreviewing, cameraVars, threadVars, handlerVars>>

PostOpen(c) ==
    /\ Goto(c, "postOpen", "idle")
    /\ Post("open")
    /\ UNCHANGED <<mIsPreviewing, cameraVars, threadVars, handlerVars>>

StartPreview(c) ==
    /\ ~mReleased
    /\ Begin(c, "startPreview", "postStart")
    /\ UNCHANGED <<queue, mIsPreviewing, cameraVars, threadVars, handlerVars>>

PostStart(c) ==
    /\ Goto(c, "postStart", "idle")
    /\ Post("start")
    /\ UNCHANGED <<mIsPreviewing, cameraVars, threadVars, handlerVars>>

StopPreview(c) ==
    /\ Begin(c, "stopPreview", "removeStarts")
    /\ UNCHANGED <<queue, mIsPreviewing, cameraVars, threadVars, handlerVars>>

Close(c) ==
    /\ Begin(c, "close", "isOpened")
    /\ UNCHANGED <<queue, mIsPreviewing, cameraVars, threadVars, handlerVars>>

Release(c) ==
    /\ Begin(c, "release", "isOpened")
    /\ mReleased' = TRUE
    /\ UNCHANGED <<queue, mIsPreviewing, cameraVars, threadVars, mHandler,
                   mCameraHandler, creator>>

(* What follows the stopPreview and the close inside of another method. *)
AfterStopPreview(c) == IF call[c] = "stopPreview" THEN "idle" ELSE "sendClose"
AfterCloseCall(c) == IF call[c] = "close" THEN "idle" ELSE "sendRelease"

IsOpened(c) ==
    /\ Goto(c, "isOpened", IF mUVCCamera # NoCamera THEN "removeStarts"
                                                    ELSE AfterCloseCall(c))
    /\ UNCHANGED <<queue, mIsPreviewing, cameraVars, threadVars, handlerVars>>

(* removeMessages(MSG_PREVIEW_START) *)
RemoveStarts(c) ==
    /\ Goto(c, "removeStarts", "isPreviewing")
    /\ queue' = [i \in DOMAIN queue |->
                   IF queue[i] = "start" THEN "removed" ELSE queue[i]]
    /\ UNCHANGED <<mIsPreviewing, cameraVars, threadVars, handlerVars>>

(* Mutant of IsPreviewing: an open camera counts as a preview. *)
IsPreviewingIfOpen(c) ==
    /\ Goto(c, "isPreviewing", IF mUVCCamera # NoCamera
                                 THEN "sendStop" ELSE AfterStopPreview(c))
    /\ UNCHANGED <<queue, mIsPreviewing, cameraVars, threadVars, handlerVars>>

IsPreviewing(c) ==
    /\ Goto(c, "isPreviewing", IF mUVCCamera # NoCamera /\ mIsPreviewing
                                 THEN "sendStop" ELSE AfterStopPreview(c))
    /\ UNCHANGED <<queue, mIsPreviewing, cameraVars, threadVars, handlerVars>>

SendStop(c) ==
    /\ Goto(c, "sendStop", "waiting")
    /\ Post("stop")
    /\ UNCHANGED <<mIsPreviewing, cameraVars, threadVars, handlerVars>>

SpuriousWakeup(c) ==
    /\ SpuriousWakeups
    /\ Goto(c, "waiting", "woken")
    /\ UNCHANGED <<queue, mIsPreviewing, cameraVars, threadVars, handlerVars>>

StopPreviewReturns(c) ==
    /\ Goto(c, "woken", AfterStopPreview(c))
    /\ UNCHANGED <<queue, mIsPreviewing, cameraVars, threadVars, handlerVars>>

SendClose(c) ==
    /\ Goto(c, "sendClose", AfterCloseCall(c))
    /\ Post("close")
    /\ UNCHANGED <<mIsPreviewing, cameraVars, threadVars, handlerVars>>

(* The end of release; the helper then forgets the handler. *)
SendRelease(c) ==
    /\ Goto(c, "sendRelease", "idle")
    /\ Post("release")
    /\ mCameraHandler' = FALSE
    /\ UNCHANGED <<mIsPreviewing, cameraVars, threadVars, mHandler, mReleased,
                   creator>>

BeginCall(c) == Open(c) \/ StartPreview(c) \/ StopPreview(c) \/ Close(c) \/ Release(c)

ContinueCall(c) ==
    \/ PostOpen(c) \/ PostStart(c)
    \/ IsOpened(c) \/ RemoveStarts(c) \/ IsPreviewing(c) \/ SendStop(c)
    \/ StopPreviewReturns(c) \/ SendClose(c) \/ SendRelease(c)

Next ==
    \/ CameraThread
    \/ GetHandler \/ SpuriousGetHandler \/ CreateHandler
    \/ \E c \in Callers : BeginCall(c) \/ ContinueCall(c) \/ SpuriousWakeup(c)

Spec == Init /\ [][Next]_vars

(* The native stopPreview, called by handleStopPreview and handleClose. *)
InNativeStop == thread \in {"stopNative", "closeStop"}

(* A thread that can go on eventually does, except that the native         *)
(* stopPreview need not return (UVCPreview!StopReturns); no caller need    *)
(* call, and no spurious wake-up need happen.                              *)
ThreadFairness ==
    /\ WF_vars(~InNativeStop /\ CameraThread)
    /\ WF_vars(GetHandler \/ CreateHandler)
    /\ \A c \in Callers : WF_vars(ContinueCall(c))

FairSpec == Spec /\ ThreadFairness

-----------------------------------------------------------------------------
(* Properties. *)

CameraInUse == {mUVCCamera, camera} \ {NoCamera}

(* The camera thread implements CameraSession: it opens, starts, stops and *)
(* closes its cameras in order, whatever messages the callers interleave,  *)
(* and ends with none, released.                                           *)
Session == INSTANCE CameraSession
    WITH opened <- connected, previewing <- streams, made <- created,
         released <- mReleased, ended <- thread \in {"end", "dead"}

ImplementsSession == Session!Spec

(* handleOpen, handleClose: at most one camera is connected, and it is the *)
(* one in mUVCCamera or the one being opened or closed, so that a later    *)
(* close or release finds it.                                              *)
OneCamera ==
    /\ connected = CameraInUse
    /\ mUVCCamera = NoCamera \/ camera = NoCamera

(* What holds at each point of the camera thread: which camera is in use,  *)
(* when its preview can run, what mIsPreviewing then says, and that nothing*)
(* is left once Looper.quit was called. It is the invariant of the proofs. *)
ThreadInv ==
    /\ OneCamera
    /\ camera # NoCamera <=> thread \in {"closeStop", "closeDestroy", "publish"}
    /\ thread \in {"connect", "quit", "end", "dead"} => mUVCCamera = NoCamera
    /\ thread \in {"configure", "startNative", "flag"} =>
         mUVCCamera # NoCamera /\ ~mIsPreviewing
    /\ thread \in {"configure", "startNative", "unflag", "closeDestroy", "publish"} =>
         streams = {}
    /\ streams # {} => mIsPreviewing \/ thread = "flag"
    /\ thread \in {"end", "dead"} => mReleased /\ queue = <<>>

(* handleStartPreview, handleStopPreview, handleClose: when the thread is  *)
(* between two messages a camera that streams is the open one, and         *)
(* mIsPreviewing says so: the next stop stops it.                          *)
StreamIsFlagged ==
    thread = "loop" /\ streams # {} => mIsPreviewing /\ streams = {mUVCCamera}

(* handleRelease: once the thread has ended no camera is connected and no  *)
(* preview runs, whatever was queued, and the handler says it is released. *)
ReleasedMeansClosed ==
    thread = "dead" =>
        /\ mReleased
        /\ connected = {} /\ streams = {} /\ mUVCCamera = NoCamera
        /\ queue = <<>>

(* stopPreview, whoever else calls it: a caller that waits has a stop on   *)
(* its way, and handleStopPreview will find mIsPreviewing set, so that it  *)
(* notifies; or the thread is ending, and notifies at its end.  It has     *)
(* neither if it was overtaken: another caller's stop was handled, or the  *)
(* thread ended, between its test of isPreviewing() and its own message.   *)
StopHandled == thread \in {"stopNative", "unflag"}
StopOnItsWay == mIsPreviewing /\ (StopHandled \/ Contains(queue, "stop"))

WaiterIsServed ==
    \A c \in Callers \ overtaken :
        pc[c] = "waiting" => StopOnItsWay \/ thread = "end"

(* handleStartPreview, when the native side never fails: the start of an   *)
(* open camera that does not stream is not skipped. UVCCameraHelper relies *)
(* on it: onConnect opens the camera and starts its preview.               *)
StartIsHonoured ==
    [][/\ NextMessage /\ Head(queue) = "start"
       /\ mUVCCamera # NoCamera /\ streams = {}
       => thread' = "configure"]_vars

(* stopPreview, when one thread makes all the calls and no wait is woken   *)
(* spuriously: one that waited returns with no preview running, not even   *)
(* one that a start queued before it would begin.                          *)
StopThatWaited ==
    \A c \in Callers : pc[c] = "woken" => ~mIsPreviewing /\ streams = {}

(* stopPreview waits until the preview has stopped: when it returns no     *)
(* camera streams.                                                         *)
StopMeansStopped ==
    [][\A c \in Callers :
         call[c] = "stopPreview" /\ call'[c] = "none" => streams = {}]_vars

(* stopPreview: a caller that waits is woken, unless it was overtaken (two *)
(* threads in stopPreview: the second waits for ever) or the native        *)
(* stopPreview does not return.                                            *)
WaitEnds ==
    \A c \in Callers :
        pc[c] = "waiting" ~> pc[c] # "waiting" \/ c \in overtaken \/ InNativeStop

(* release: the camera thread ends, and so closes the camera, unless the   *)
(* stopPreview in release, or the native one, waits for ever.              *)
ReleaseWaits ==
    \E c \in overtaken : call[c] = "release" /\ pc[c] = "waiting"

ReleaseEnds == mReleased ~> thread = "dead" \/ ReleaseWaits \/ InNativeStop

(* getHandler: the creator gets the handler, unless its wait ends early.   *)
HandlerCreated == <>(creator = "without" \/ (creator = "done" /\ mCameraHandler))

=============================================================================
