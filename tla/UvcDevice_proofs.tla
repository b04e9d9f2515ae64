-------------------------- MODULE UvcDevice_proofs --------------------------
(***************************************************************************)
(* Proofs about UvcDevice: that a camera's stream is a stream of UvcStream *)
(* and what is true of streams is true of it, that references and          *)
(* descriptors are balanced, and that a release leaves nothing behind.     *)
(***************************************************************************)
EXTENDS UvcDevice, UvcFrames_proofs

WithHandle == {"opening", "spawning", "opened", "open", "stopping", "deleting", "closing",
               "joining"}
AfterOpen == {"open", "stopping", "deleting", "closing", "joining", "unref"}

(* What connect and release hold at each of their steps. *)
CountsInv ==
    /\ cam \in CamPcs
    /\ ref = (IF cam = "released" THEN 0 ELSE 1) + (IF cam \in WithHandle THEN 1 ELSE 0)
    /\ fds = IF cam = "released" THEN 0 ELSE 1
    /\ mDevice <=> cam # "released"
    /\ mDevice => mUsbFs
    /\ mFd <=> cam \in AfterOpen

(* Who is there at each of them. *)
QuietInv ==
    /\ kill_handler_thread \in BOOLEAN
    /\ handler \in {"none", "running", "dead"}
    /\ status_xfer \in {"null", "flight", "callback", "ended"}
    /\ callbacks \in {"none", "live", "deleted"}
    /\ cam \notin {"open", "stopping"} => api \in {"closed", "abandoned"}
    /\ cam \in {"released", "found", "opening", "failed", "spawning", "unref"} =>
          handler # "running" /\ callbacks = "none"
    /\ cam \in {"released", "found", "opening", "failed", "unref"} => status_xfer = "null"
    /\ status_xfer = "callback" => handler = "running"

-----------------------------------------------------------------------------
(* The stream of a camera. *)

LEMMA DeviceStep ==
    ASSUME [DeviceNext]_deviceVars
    PROVE  [Next]_vars
  <1>1. ASSUME NEW t \in Transfers, StreamCallback(t) PROVE Next
    BY <1>1 DEF StreamCallback, Next
  <1>2. CASE StreamEvent
    BY <1>2 DEF StreamEvent, Next
  <1>3. CASE OpenCameraStream \/ StartStream \/ StopStream \/ StreamUser \/ StreamWorld
    BY <1>3
       DEF OpenCameraStream, StartStream, StopStream, StreamUser, StreamWorld, Next, Start
  <1>4. CASE Connect
    BY <1>4
       DEF Connect, InitFails, FindDevice, OpenDevice, SetUpHandle, StartHandlerThread,
           CreateCallbacks, GiveUp, streamVars
  <1>5. CASE ReleaseGoesOn
    BY <1>5
       DEF ReleaseGoesOn, StopPreviewReturns, DeleteCallbacks, KillHandlerThread,
           JoinHandlerThread, UnrefDevice, streamVars
  <1>6. CASE Release \/ ReleaseClosed \/ Destroy
    BY <1>6 DEF Release, ReleaseClosed, Destroy, streamVars
  <1>7. CASE HandlerExits \/ StatusArrives \/ StatusReturns
    BY <1>7 DEF HandlerExits, StatusArrives, StatusReturns, streamVars
  <1>8. CASE UNCHANGED deviceVars
    BY <1>8 DEF deviceVars, streamVars
  <1> QED
    BY <1>1, <1>2, <1>3, <1>4, <1>5, <1>6, <1>7, <1>8 DEF DeviceNext

(* UVCCamera, UVCPreview and libuvc's event thread use a stream as         *)
(* UvcStream allows: all that is proved of a stream is true of a camera's. *)
THEOREM DeviceIsStream == DeviceSpec => Spec
  <1>1. DeviceInit => Init
    BY DEF DeviceInit
  <1> QED BY <1>1, DeviceStep, PTL DEF DeviceSpec, Spec

(* _uvc_process_payload, in a camera: as long as no packet is lost its     *)
(* frames are whole.                                                       *)
COROLLARY DeviceWholeFrames == DeviceSpec => []WholeFrames
  BY DeviceIsStream, StreamWholeFrames, PTL

(* Also with losses: frames are joined only across a whole frame lost.     *)
COROLLARY DeviceJoinedOnlyAcrossLoss == DeviceSpec => []JoinedOnlyAcrossLoss
  BY DeviceIsStream, StreamJoinedOnlyAcrossLoss, PTL

(* The preview, the user of a camera's stream, is called between start and *)
(* stop only and with frames in order, whatever connect, release and the   *)
(* event thread do meanwhile.                                              *)
COROLLARY DeviceIsFrameSource == DeviceSpec => ImplementsSource
  BY DeviceIsStream, StreamIsFrameSource, PTL

(* No wake-up on cb_cond is lost in a camera.                              *)
COROLLARY DeviceLosesNoWakeup == DeviceSpec => []NoWakeupLost
  BY DeviceIsStream, StreamLosesNoWakeup, PTL

-----------------------------------------------------------------------------
(* References and descriptors. *)

LEMMA NextCounts ==
    ASSUME CountsInv, [DeviceNext]_deviceVars
    PROVE  CountsInv'
  <1> USE DEF CountsInv, CamPcs, WithHandle, AfterOpen
  <1>1. CASE InitFails
    BY <1>1 DEF InitFails
  <1>2. CASE FindDevice
    BY <1>2 DEF FindDevice
  <1>3. CASE OpenDevice
    BY <1>3 DEF OpenDevice
  <1>4. CASE SetUpHandle
    BY <1>4 DEF SetUpHandle
  <1>5. CASE StartHandlerThread
    BY <1>5 DEF StartHandlerThread
  <1>6. CASE CreateCallbacks
    BY <1>6 DEF CreateCallbacks
  <1>7. CASE GiveUp
    BY <1>7 DEF GiveUp
  <1>8. CASE Release
    BY <1>8 DEF Release
  <1>9. CASE StopPreviewReturns
    BY <1>9 DEF StopPreviewReturns
  <1>10. CASE DeleteCallbacks
    BY <1>10 DEF DeleteCallbacks
  <1>11. CASE KillHandlerThread
    BY <1>11 DEF KillHandlerThread
  <1>12. CASE JoinHandlerThread
    BY <1>12 DEF JoinHandlerThread
  <1>13. CASE UnrefDevice
    <2>1. mFd /\ mUsbFs
      BY <1>13 DEF UnrefDevice
    <2>2. ~mFd'
      BY <1>13, <2>1, Zenon DEF UnrefDevice, CloseFd
    <2>3. fds' = fds - 1
      BY <1>13, <2>1 DEF UnrefDevice, CloseFd
    <2> QED BY <1>13, <2>1, <2>2, <2>3 DEF UnrefDevice
  <1>14. CASE ReleaseClosed
    BY <1>14 DEF ReleaseClosed, CloseFd
  <1>15. CASE Destroy
    BY <1>15 DEF Destroy
  <1>16. CASE UNCHANGED camVars
    BY <1>16 DEF camVars
  <1> QED
    BY <1>1, <1>2, <1>3, <1>4, <1>5, <1>6, <1>7, <1>8, <1>9, <1>10, <1>11, <1>12, <1>13,
       <1>14, <1>15, <1>16
       DEF DeviceNext, Connect, ReleaseGoesOn, HandlerExits, StreamCallback, StreamEvent,
           StatusArrives, StatusReturns, OpenCameraStream, StartStream, StopStream,
           StreamUser, StreamWorld, deviceVars

LEMMA CountsSafe == DeviceSpec => []CountsInv
  <1>1. DeviceInit => CountsInv
    BY DEF DeviceInit, CountsInv, CamPcs, WithHandle, AfterOpen
  <1> QED BY <1>1, NextCounts, PTL DEF DeviceSpec

(* uvc_ref_device, uvc_unref_device, dup, close: on every way through      *)
(* connect and release references and descriptors are balanced.            *)
THEOREM DeviceRefsCounted == DeviceSpec => []RefsCounted
  <1>1. CountsInv => RefsCounted
    BY DEF CountsInv, RefsCounted, Holders, CamPcs, WithHandle, AfterOpen
  <1> QED BY <1>1, CountsSafe, PTL

-----------------------------------------------------------------------------
(* The release. *)

(* A stream is opened with an open camera, and closed or abandoned when    *)
(* stopPreview has returned.                                               *)
LEMMA StreamOpenedOnly ==
    ASSUME StreamInv, api \in {"closed", "abandoned"},
           \/ \E t \in Transfers : Callback(t)
           \/ EventThread \/ UserThread \/ (Start /\ ~OpenStream) \/ CloseStream \/ Stop
           \/ LosePacket \/ Unplug \/ SpuriousWakeup
    PROVE  api' = api
  <1>a. CASE api = "abandoned"
    <2>1. \A t \in Transfers : ~Callback(t)
      BY <1>a DEF Callback
    <2>2. UserThread => api' = api
      BY <1>a DEF UserThread, TakeFrame, CallUser
    <2>3. LosePacket \/ Unplug => api' = api
      BY DEF LosePacket, Unplug
    <2>4. ~EventThread /\ ~SpuriousWakeup
      BY <1>a DEF EventThread, SpuriousWakeup
    <2>5. ~(Start /\ ~OpenStream) /\ ~CloseStream /\ ~Stop
      BY <1>a
         DEF Start, SetupFails, CreateCallbackThread, SubmitTransfer, SubmitFails,
             StartFails, StartReturns, CloseStream, Stop, CancelTransfers, WaitAgain,
             JoinCallbackThread, FreeStream
    <2> QED BY <2>1, <2>2, <2>3, <2>4, <2>5
  <1> SUFFICES ASSUME api = "closed" PROVE api' = "closed"
    BY <1>a
  <1>1. event = "idle" /\ caller = "none" /\ AllNull(transfers)
    BY DEF StreamInv, Handling, ClosedIsClean, AllNull
  <1>2. ASSUME NEW t \in Transfers PROVE ~Callback(t)
    BY <1>1 DEF Callback, TransferCompleted, TransferRetried, TransferEnded, NoDevice,
                Complete, AllNull
  <1>3. ~EventThread
    BY <1>1
       DEF EventThread, ReceiveHeader, ReceiveBadPacket, ReceiveErrorBit, ReceiveBogusPacket,
           AppendData, EndOfPayload, TestRunning, Resubmit, DeleteTransfer
  <1>4. ~UserThread
    BY <1>1 DEF UserThread, TakeFrame, CallUser
  <1>5. ~(Start /\ ~OpenStream) /\ ~CloseStream /\ ~Stop
    BY DEF Start, SetupFails, CreateCallbackThread, SubmitTransfer, SubmitFails, StartFails,
           StartReturns, CloseStream, Stop, CancelTransfers, WaitAgain, JoinCallbackThread,
           FreeStream
  <1>6. CASE LosePacket \/ Unplug
    BY <1>6 DEF LosePacket, Unplug
  <1>7. ~SpuriousWakeup
    BY <1>1 DEF SpuriousWakeup
  <1> QED BY <1>2, <1>3, <1>4, <1>5, <1>6, <1>7

LEMMA NextQuiet ==
    ASSUME StreamInv, CountsInv, QuietInv, [DeviceNext]_deviceVars
    PROVE  QuietInv'
  <1> USE DEF QuietInv
  <1>b. UNCHANGED streamVars => api' = api
    BY DEF streamVars, vars
  <1>1. CASE Connect
    BY <1>1, <1>b
       DEF Connect, InitFails, FindDevice, OpenDevice, SetUpHandle, StartHandlerThread,
           CreateCallbacks, GiveUp, threadVars
  <1>2. CASE Release \/ ReleaseClosed
    BY <1>2, <1>b DEF Release, ReleaseClosed, threadVars
  <1>3. CASE ReleaseGoesOn
    BY <1>3, <1>b
       DEF ReleaseGoesOn, StopPreviewReturns, DeleteCallbacks, KillHandlerThread,
           JoinHandlerThread, UnrefDevice, threadVars
  <1>4. CASE Destroy
    BY <1>4, <1>b DEF Destroy
  <1>5. CASE HandlerExits \/ StatusArrives \/ StatusReturns
    BY <1>5, <1>b DEF HandlerExits, BetweenEvents, StatusArrives, StatusReturns, camVars
  <1>6. CASE OpenCameraStream
    BY <1>6 DEF OpenCameraStream, camVars, threadVars
  <1>7. CASE \/ \E t \in Transfers : StreamCallback(t)
             \/ StreamEvent \/ StartStream \/ StopStream \/ StreamUser \/ StreamWorld
    <2>1. UNCHANGED <<camVars, threadVars>>
      BY <1>7
         DEF StreamCallback, StreamEvent, StartStream, StopStream, StreamUser, StreamWorld
    <2>2. api \in {"closed", "abandoned"} => api' = api
      BY <1>7, StreamOpenedOnly
         DEF StreamCallback, StreamEvent, StartStream, StopStream, StreamUser, StreamWorld
    <2> QED BY <2>1, <2>2 DEF camVars, threadVars
  <1>8. CASE UNCHANGED deviceVars
    BY <1>8, <1>b DEF deviceVars, camVars, threadVars
  <1> QED
    BY <1>1, <1>2, <1>3, <1>4, <1>5, <1>6, <1>7, <1>8 DEF DeviceNext

LEMMA QuietSafe == DeviceSpec => []QuietInv
  <1>1. DeviceInit => QuietInv
    BY DEF DeviceInit, Init, QuietInv
  <1>2. DeviceSpec => []StreamInv
    BY DeviceIsStream, StreamSafe, PTL
  <1> QED BY <1>1, <1>2, NextQuiet, CountsSafe, PTL DEF DeviceSpec

(* uvc_free_devh: when release has freed the handle there is no event      *)
(* thread, no status callback under way and no callback object that libuvc *)
(* knows, whatever the stream was doing when release was called; and if    *)
(* neither the device was lost nor a start failed, no callback thread, no  *)
(* callback and no transfer of the stream.                                 *)
THEOREM DeviceReleaseIsQuiet == DeviceSpec => []ReleaseIsQuiet
  <1>1. StreamInv /\ QuietInv /\ AbandonedOnlyAfterFault => ReleaseIsQuiet
    <2> SUFFICES ASSUME StreamInv, QuietInv, AbandonedOnlyAfterFault,
                        cam \in {"unref", "released"}
                 PROVE  /\ handler # "running" /\ status_xfer = "null" /\ callbacks = "none"
                        /\ ~fault => api = "closed" /\ event = "idle" /\ Quiet
      BY DEF ReleaseIsQuiet
    <2>1. /\ handler # "running" /\ status_xfer = "null" /\ callbacks = "none"
          /\ ~fault => api = "closed"
      BY DEF QuietInv, AbandonedOnlyAfterFault
    <2>2. api = "closed" => event = "idle" /\ Quiet
      BY DEF StreamInv, Handling, ClosedIsClean, AllNull, Quiet
    <2> QED BY <2>1, <2>2
  <1>2. DeviceSpec => []StreamInv
    BY DeviceIsStream, StreamSafe, PTL
  <1>3. DeviceSpec => []AbandonedOnlyAfterFault
    BY DeviceIsStream, StreamClosedClean, PTL
  <1> QED BY <1>1, <1>2, <1>3, QuietSafe, PTL

-----------------------------------------------------------------------------
(* The event thread. *)

(* uvc_open, uvc_close: a camera that is open or being closed has the event*)
(* thread it was opened with until uvc_close tells the thread to end, if   *)
(* the object was not connected before; the thread that is joined has been *)
(* told; and there is a stream only where there is a thread to end it,     *)
(* unless libuvc has abandoned it.                                         *)
EventThreadServes ==
    /\ cam \in {"opened", "open", "stopping", "deleting", "closing"} =>
          handler = "running" \/ (handler = "dead" /\ kill_handler_thread)
    /\ cam = "joining" => kill_handler_thread /\ handler \in {"running", "dead"}
    /\ api \notin {"closed", "abandoned"} => cam \in {"open", "stopping"}

LEMMA NextServes ==
    ASSUME QuietInv, QuietInv', EventThreadServes, [DeviceNext]_deviceVars
    PROVE  EventThreadServes'
  <1>q. api' \notin {"closed", "abandoned"} => cam' \in {"open", "stopping"}
    BY DEF QuietInv
  <1> USE DEF EventThreadServes
  <1>1. CASE Connect
    BY <1>1, <1>q
       DEF Connect, InitFails, FindDevice, OpenDevice, SetUpHandle, StartHandlerThread,
           CreateCallbacks, GiveUp, threadVars
  <1>2. CASE Release \/ ReleaseClosed
    BY <1>2, <1>q DEF Release, ReleaseClosed, threadVars
  <1>3. CASE ReleaseGoesOn
    BY <1>3, <1>q
       DEF ReleaseGoesOn, StopPreviewReturns, DeleteCallbacks, KillHandlerThread,
           JoinHandlerThread, UnrefDevice, threadVars
  <1>4. CASE Destroy
    BY <1>4, <1>q DEF Destroy
  <1>5. CASE HandlerExits \/ StatusArrives \/ StatusReturns
    BY <1>5, <1>q DEF HandlerExits, StatusArrives, StatusReturns, camVars
  <1>6. CASE UNCHANGED <<camVars, threadVars>>
    BY <1>6, <1>q DEF camVars, threadVars
  <1> QED
    BY <1>1, <1>2, <1>3, <1>4, <1>5, <1>6
       DEF DeviceNext, deviceVars, OpenCameraStream, StreamCallback, StreamEvent,
           StartStream, StopStream, StreamUser, StreamWorld

(* The event thread that uvc_open starts is there as long as a release may *)
(* have to wait for one of its callbacks, and ends when it is joined: what *)
(* StreamStops and ReleaseReturns need but the scheduling of the threads.  *)
THEOREM DeviceThreadServes == DeviceSpec => []EventThreadServes
  <1>1. DeviceInit => EventThreadServes
    BY DEF DeviceInit, Init, EventThreadServes
  <1> QED BY <1>1, NextServes, QuietSafe, PTL DEF DeviceSpec

-----------------------------------------------------------------------------
(* The types. *)

Booleans ==
    /\ mContext \in BOOLEAN /\ mUsbFs \in BOOLEAN /\ mDevice \in BOOLEAN
    /\ mFd \in BOOLEAN

LEMMA NextBooleans ==
    ASSUME Booleans, [DeviceNext]_deviceVars
    PROVE  Booleans'
  <1> USE DEF Booleans
  <1>1. CASE InitFails
    BY <1>1, Zenon DEF InitFails
  <1>2. CASE FindDevice
    BY <1>2, Zenon DEF FindDevice
  <1>3. CASE OpenDevice
    BY <1>3, Zenon DEF OpenDevice
  <1>4. CASE SetUpHandle
    BY <1>4, Zenon DEF SetUpHandle
  <1>5. CASE StartHandlerThread
    BY <1>5, Zenon DEF StartHandlerThread
  <1>6. CASE CreateCallbacks
    BY <1>6, Zenon DEF CreateCallbacks
  <1>7. CASE GiveUp
    BY <1>7, Zenon DEF GiveUp
  <1>8. CASE Release
    BY <1>8, Zenon DEF Release
  <1>9. CASE StopPreviewReturns
    BY <1>9, Zenon DEF StopPreviewReturns
  <1>10. CASE DeleteCallbacks
    BY <1>10, Zenon DEF DeleteCallbacks
  <1>11. CASE KillHandlerThread
    BY <1>11, Zenon DEF KillHandlerThread
  <1>12. CASE JoinHandlerThread
    BY <1>12, Zenon DEF JoinHandlerThread
  <1>13. CASE UnrefDevice
    BY <1>13, Zenon DEF UnrefDevice, CloseFd
  <1>14. CASE ReleaseClosed
    BY <1>14, Zenon DEF ReleaseClosed, CloseFd
  <1>15. CASE Destroy
    BY <1>15, Zenon DEF Destroy
  <1>16. CASE UNCHANGED camVars
    BY <1>16, Zenon DEF camVars
  <1> QED
    BY <1>1, <1>2, <1>3, <1>4, <1>5, <1>6, <1>7, <1>8, <1>9, <1>10, <1>11, <1>12, <1>13,
       <1>14, <1>15, <1>16
       DEF DeviceNext, Connect, ReleaseGoesOn, HandlerExits, StreamCallback, StreamEvent,
           StatusArrives, StatusReturns, OpenCameraStream, StartStream, StopStream,
           StreamUser, StreamWorld, deviceVars

(* The types of the camera, its handle and its stream. *)
THEOREM DeviceTypeCorrect == DeviceSpec => []DeviceTypeOK
  <1>1. DeviceInit => Booleans
    BY Zenon DEF DeviceInit, Booleans
  <1>2. StreamInv /\ CountsInv /\ QuietInv /\ Booleans => DeviceTypeOK
    <2> SUFFICES ASSUME StreamInv, CountsInv, QuietInv, Booleans PROVE DeviceTypeOK
      OBVIOUS
    <2>1. ref \in Nat /\ fds \in Nat /\ cam \in CamPcs
      BY DEF CountsInv
    <2>2. {mContext, mUsbFs, mDevice, mFd, kill_handler_thread} \subseteq BOOLEAN
      BY Zenon DEF Booleans, QuietInv
    <2>3. TypeOK
      BY DEF StreamInv
    <2> QED BY <2>1, <2>2, <2>3 DEF QuietInv, DeviceTypeOK
  <1>3. DeviceSpec => []StreamInv
    BY DeviceIsStream, StreamSafe, PTL
  <1> QED BY <1>1, <1>2, <1>3, NextBooleans, CountsSafe, QuietSafe, PTL DEF DeviceSpec

=============================================================================
