----------------------------- MODULE UvcDevice -----------------------------
(***************************************************************************)
(* A camera from connect to release (UVCCamera.cpp), on libuvc's context   *)
(* and device handle (init.c, device.c), with the stream of UvcStream: its *)
(* callbacks run on the event thread that uvc_open starts and uvc_close    *)
(* ends, as do those of the status transfer.                               *)
(*                                                                         *)
(* Every UVCCamera object has a context of its own, with one device.  A    *)
(* context outlives a release, and serves the next connect of the object.  *)
(*                                                                         *)
(* Grain.  connect runs alone: before uvc_open has started the event       *)
(* thread nobody else is there.  Its steps are the calls it makes, and so  *)
(* are those of release.  The preview is the stream's user: it may start   *)
(* and stop the stream while the camera is open, and has stopped it when   *)
(* stopPreview, the first step of release, returns.  libuvc may have       *)
(* abandoned the stream by then (UvcStream!FreeStream): release goes on    *)
(* all the same, with what is left of the stream.                          *)
(***************************************************************************)
EXTENDS UvcStream

VARIABLES
    cam,                    \* where connect and release are
    mContext, mUsbFs,       \* is there a context, a copy of the path?
    mDevice,                \* does the camera hold a device?
    mFd,                    \* does it hold a descriptor?
    fds,                    \* descriptors made by dup and not closed
    ref,                    \* the reference count of the device
    kill_handler_thread,
    handler,                \* the event thread: "none", "running", "dead"
    status_xfer,            \* "null", "flight", "callback", "ended"
    callbacks               \* the status and button callback objects

streamVars == vars
camVars == <<cam, mContext, mUsbFs, mDevice, mFd, fds, ref>>
threadVars == <<kill_handler_thread, handler, status_xfer, callbacks>>
deviceVars == <<camVars, threadVars, streamVars>>

CamPcs == {"released", "found", "opening", "failed", "spawning", "opened",
           "open", "stopping", "deleting", "closing", "joining", "unref"}

(* Every variable has its type. *)
DeviceTypeOK ==
    /\ TypeOK
    /\ cam \in CamPcs
    /\ {mContext, mUsbFs, mDevice, mFd, kill_handler_thread} \subseteq BOOLEAN
    /\ fds \in Nat /\ ref \in Nat
    /\ handler \in {"none", "running", "dead"}
    /\ status_xfer \in {"null", "flight", "callback", "ended"}
    /\ callbacks \in {"none", "live", "deleted"}

(* UVCCamera::UVCCamera *)
DeviceInit ==
    /\ Init
    /\ cam = "released"
    /\ mContext = FALSE /\ mUsbFs = FALSE /\ mDevice = FALSE /\ mFd = FALSE
    /\ fds = 0 /\ ref = 0
    /\ kill_handler_thread = FALSE /\ handler = "none"
    /\ status_xfer = "null" /\ callbacks = "none"

-----------------------------------------------------------------------------
(* UVCCamera::connect *)

InitFails ==
    /\ cam = "released" /\ ~mContext
    /\ mUsbFs' = TRUE
    /\ UNCHANGED <<cam, mContext, mDevice, mFd, fds, ref, threadVars, streamVars>>

(* uvc_init2, dup, uvc_get_device_with_fd *)
FindDevice ==
    /\ cam = "released"
    /\ mUsbFs' = TRUE /\ mContext' = TRUE
    /\ \/ /\ attached
          /\ cam' = "found"
          /\ mDevice' = TRUE /\ ref' = 1 /\ fds' = fds + 1
       \/ UNCHANGED <<cam, mDevice, ref, fds>>
    /\ UNCHANGED <<mFd, threadVars, streamVars>>

(* uvc_open: libusb_open. *)
OpenDevice ==
    /\ cam = "found"
    /\ \/ cam' = "opening" /\ attached /\ ref' = ref + 1
       \/ cam' = "failed" /\ UNCHANGED ref
    /\ UNCHANGED <<mContext, mUsbFs, mDevice, mFd, fds, threadVars, streamVars>>

(* Mutant of SetUpHandle: the failure path keeps the reference. *)
SetUpHandleKeepsRef ==
    /\ cam = "opening"
    /\ \/ cam' = "failed" /\ UNCHANGED <<ref, status_xfer>>
       \/ cam' = "spawning" /\ status_xfer' \in {"null", "flight"} /\ UNCHANGED ref
    /\ UNCHANGED <<mContext, mUsbFs, mDevice, mFd, fds, kill_handler_thread, handler,
                   callbacks, streamVars>>

(* The descriptors, the claim and the status transfer, if the device has   *)
(* the endpoint for it; any of them may fail.                              *)
SetUpHandle ==
    /\ cam = "opening"
    /\ \/ cam' = "failed" /\ ref' = ref - 1 /\ UNCHANGED status_xfer
       \/ cam' = "spawning" /\ status_xfer' \in {"null", "flight"} /\ UNCHANGED ref
    /\ UNCHANGED <<mContext, mUsbFs, mDevice, mFd, fds, kill_handler_thread, handler,
                   callbacks, streamVars>>

(* uvc_start_handler_thread *)
StartHandlerThread ==
    /\ cam = "spawning"
    /\ cam' = "opened"
    /\ handler' = "running"
    /\ UNCHANGED <<mContext, mUsbFs, mDevice, mFd, fds, ref, kill_handler_thread,
                   status_xfer, callbacks, streamVars>>

(* The callback objects register with libuvc as they are made. *)
CreateCallbacks ==
    /\ cam = "opened"
    /\ cam' = "open"
    /\ mFd' = TRUE
    /\ callbacks' = "live"
    /\ UNCHANGED <<mContext, mUsbFs, mDevice, fds, ref, kill_handler_thread, handler,
                   status_xfer, streamVars>>

(* uvc_open has failed. *)
GiveUp ==
    /\ cam = "failed"
    /\ cam' = "released"
    /\ mDevice' = FALSE /\ ref' = ref - 1 /\ fds' = fds - 1
    /\ UNCHANGED <<mContext, mUsbFs, mFd, threadVars, streamVars>>

-----------------------------------------------------------------------------
(* UVCCamera::release, and the destructor. *)

Release ==
    /\ cam = "open"
    /\ cam' = "stopping"
    /\ UNCHANGED <<mContext, mUsbFs, mDevice, mFd, fds, ref, threadVars, streamVars>>

(* Mutant of StopPreviewReturns: the stream may still be streaming.        *)
StopPreviewSkipped ==
    /\ cam = "stopping"
    /\ cam' = "deleting"
    /\ UNCHANGED <<mContext, mUsbFs, mDevice, mFd, fds, ref, threadVars, streamVars>>

StopPreviewReturns ==
    /\ cam = "stopping" /\ api \in {"closed", "abandoned"}
    /\ cam' = "deleting"
    /\ UNCHANGED <<mContext, mUsbFs, mDevice, mFd, fds, ref, threadVars, streamVars>>

(* Libuvc is not told, and keeps the pointers. *)
DeleteCallbacks ==
    /\ cam = "deleting"
    /\ cam' = "closing"
    /\ callbacks' = "deleted"
    /\ UNCHANGED <<mContext, mUsbFs, mDevice, mFd, fds, ref, kill_handler_thread, handler,
                   status_xfer, streamVars>>

(* Mutant of KillHandlerThread: the thread is not told to end.             *)
KeepHandlerThread ==
    /\ cam = "closing"
    /\ cam' = "joining"
    /\ UNCHANGED <<mContext, mUsbFs, mDevice, mFd, fds, ref, threadVars, streamVars>>

(* uvc_close: it knows no stream any more; it is the last device.          *)
KillHandlerThread ==
    /\ cam = "closing"
    /\ cam' = "joining"
    /\ kill_handler_thread' = TRUE
    /\ UNCHANGED <<mContext, mUsbFs, mDevice, mFd, fds, ref, handler, status_xfer, callbacks,
                   streamVars>>

(* Mutant of JoinHandlerThread: it is not waited for. *)
DetachHandlerThread ==
    /\ cam = "joining"
    /\ cam' = "unref"
    /\ ref' = ref - 1
    /\ status_xfer' = "null" /\ callbacks' = "none"
    /\ UNCHANGED <<mContext, mUsbFs, mDevice, mFd, fds, kill_handler_thread, handler,
                   streamVars>>

(* The handle is freed, and with it the transfer and the pointers.         *)
JoinHandlerThread ==
    /\ cam = "joining" /\ handler = "dead"
    /\ cam' = "unref"
    /\ ref' = ref - 1
    /\ status_xfer' = "null" /\ callbacks' = "none"
    /\ UNCHANGED <<mContext, mUsbFs, mDevice, mFd, fds, kill_handler_thread, handler,
                   streamVars>>

CloseFd ==
    /\ fds' = IF mUsbFs /\ mFd THEN fds - 1 ELSE fds
    /\ mFd' = (mFd /\ ~mUsbFs)
    /\ mUsbFs' = FALSE

UnrefDevice ==
    /\ cam = "unref"
    /\ cam' = "released"
    /\ mDevice' = FALSE /\ ref' = ref - 1
    /\ CloseFd
    /\ UNCHANGED <<mContext, threadVars, streamVars>>

(* The release of a camera that is not open.  After a connect that failed  *)
(* it closes descriptor 0, which is not the camera's.                      *)
ReleaseClosed ==
    /\ cam = "released" /\ mUsbFs
    /\ CloseFd
    /\ UNCHANGED <<cam, mContext, mDevice, ref, threadVars, streamVars>>

(* ~UVCCamera, after its release; then a new object is made. *)
Destroy ==
    /\ cam = "released" /\ ~mUsbFs /\ mContext
    /\ mContext' = FALSE
    /\ kill_handler_thread' = FALSE /\ handler' = "none"
    /\ UNCHANGED <<cam, mUsbFs, mDevice, mFd, fds, ref, status_xfer, callbacks, streamVars>>

-----------------------------------------------------------------------------
(* The event thread: _uvc_handle_events. *)

(* It handles one thing after the other.  A callback that was under way    *)
(* when its stream was abandoned may end; what it does to memory that was  *)
(* freed is not modelled, nor are the later ones of that stream.           *)
BetweenEvents ==
    /\ handler = "running"
    /\ event = "idle" \/ api = "abandoned"
    /\ status_xfer # "callback"

(* The flag is tested whenever libusb_handle_events returns. *)
HandlerExits ==
    /\ BetweenEvents /\ kill_handler_thread
    /\ handler' = "dead"
    /\ UNCHANGED <<camVars, kill_handler_thread, status_xfer, callbacks, streamVars>>

StreamCallback(t) ==
    /\ BetweenEvents
    /\ Callback(t)
    /\ UNCHANGED <<camVars, threadVars>>

StreamEvent ==
    /\ handler = "running"
    /\ EventThread
    /\ UNCHANGED <<camVars, threadVars>>

(* _uvc_status_callback: the status or button callback is called with the  *)
(* registered object, or the transfer has ended.                           *)
StatusArrives ==
    /\ BetweenEvents
    /\ status_xfer = "flight"
    /\ status_xfer' \in {"callback", "ended"}
    /\ UNCHANGED <<camVars, kill_handler_thread, handler, callbacks, streamVars>>

StatusReturns ==
    /\ status_xfer = "callback"
    /\ status_xfer' \in {"flight", "ended"}
    /\ UNCHANGED <<camVars, kill_handler_thread, handler, callbacks, streamVars>>

-----------------------------------------------------------------------------
(* The stream. *)

(* The preview may open a stream while the camera is open. *)
OpenCameraStream == cam = "open" /\ OpenStream /\ UNCHANGED <<camVars, threadVars>>

StartStream == (Start /\ ~OpenStream) /\ UNCHANGED <<camVars, threadVars>>

StopStream == (CloseStream \/ Stop) /\ UNCHANGED <<camVars, threadVars>>

StreamUser == UserThread /\ UNCHANGED <<camVars, threadVars>>

StreamWorld == (LosePacket \/ Unplug \/ SpuriousWakeup) /\ UNCHANGED <<camVars, threadVars>>

Connect ==
    \/ InitFails \/ FindDevice \/ OpenDevice \/ SetUpHandle \/ StartHandlerThread
    \/ CreateCallbacks \/ GiveUp

ReleaseGoesOn ==
    \/ StopPreviewReturns \/ DeleteCallbacks \/ KillHandlerThread
    \/ JoinHandlerThread \/ UnrefDevice

DeviceNext ==
    \/ Connect \/ Release \/ ReleaseGoesOn \/ ReleaseClosed \/ Destroy
    \/ HandlerExits \/ (\E t \in Transfers : StreamCallback(t)) \/ StreamEvent
    \/ StatusArrives \/ StatusReturns
    \/ OpenCameraStream \/ StartStream \/ StopStream \/ StreamUser \/ StreamWorld

DeviceSpec == DeviceInit /\ [][DeviceNext]_deviceVars

(* A release goes on once its stopPreview has returned: whether it returns *)
(* is not promised (UVCPreview!StopReturns).  A stop of the stream, once   *)
(* begun, and the callback thread go on too.  The event thread handles     *)
(* what it is given: its steps are interrupted by those of other           *)
(* transfers, hence the strong fairness.  The camera need not send         *)
(* anything, and the user's callback returns.                              *)
DeviceFairness ==
    /\ WF_deviceVars(cam # "stopping" /\ ReleaseGoesOn)
    /\ WF_deviceVars(api # "streaming" /\ StopStream)
    /\ WF_deviceVars(StreamUser)
    /\ WF_deviceVars(StreamEvent)
    /\ WF_deviceVars(StatusReturns)
    /\ SF_deviceVars(HandlerExits)
    /\ \A t \in Transfers : SF_deviceVars(StreamCallback(t))

DeviceFairSpec == DeviceSpec /\ DeviceFairness

-----------------------------------------------------------------------------
(* Properties. *)

Holders == {h \in {"camera", "handle"} :
              \/ h = "camera" /\ mDevice
              \/ h = "handle" /\ cam \in {"opening", "spawning", "opened", "open", "stopping",
                                         "deleting", "closing", "joining"}}

(* uvc_ref_device, uvc_unref_device, dup, close: on every way through      *)
(* connect and release, those that fail included, the device has as many   *)
(* references as holders, and a descriptor that was duplicated is open as  *)
(* long as the camera holds the device, and no longer.                     *)
RefsCounted ==
    /\ ref = (IF "camera" \in Holders THEN 1 ELSE 0) + (IF "handle" \in Holders THEN 1 ELSE 0)
    /\ fds = IF mDevice THEN 1 ELSE 0
    /\ mFd => mDevice /\ mUsbFs

(* uvc_free_devh: "Streaming must be stopped, and threads must have died": *)
(* when release has freed the handle there is no event thread, no status   *)
(* callback under way and no callback object libuvc knows.  As long as     *)
(* nothing went wrong with the stream nothing is left of it either; after  *)
(* a lost device or a failed start it may have been abandoned, and its     *)
(* callback thread and transfers outlive the handle.                       *)
ReleaseIsQuiet ==
    cam \in {"unref", "released"} =>
        /\ handler # "running"
        /\ status_xfer = "null" /\ callbacks = "none"
        /\ ~fault => api = "closed" /\ event = "idle" /\ Quiet

Stranded == \E t \in Transfers : transfers[t] = "stranded"

(* uvc_stream_stop returns, whatever the event thread and the camera were  *)
(* doing when it was called, and the stream is closed, not abandoned.  It  *)
(* does not return if a transfer could not be resubmitted: it waits for it *)
(* for ever.  Nor does it where there is no event thread because the       *)
(* object was connected before (see HandlerServes).                        *)
StreamStops ==
    api = "cancelling" /\ ~kill_handler_thread ~> api = "closed" \/ Stranded

(* release returns once its stopPreview has returned, whatever the status  *)
(* transfer and the event thread are doing, also with an abandoned stream. *)
ReleaseReturns == cam = "deleting" ~> cam = "released"

(* _uvc_swap_buffers, _uvc_user_caller: the callback thread never sleeps   *)
(* on a finished frame; it takes one, unless the stream is stopped.        *)
FinishedFrameTaken == hold.seq # last_seq ~> hold.seq = last_seq \/ ~running

(* uvc_open: while a camera is open, an event thread serves it.            *)
HandlerServes == cam = "open" => handler = "running"

=============================================================================
