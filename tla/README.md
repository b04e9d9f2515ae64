# A TLA+ model of the external USB camera library

This directory holds TLA+ modules that model parts of this repository, the TLC
configurations that check them on small instances, and proofs that TLAPS checks
for every value of the constants. Source paths below are relative to
`src/uxkit-external-usb-camera/src/main/`; `jni/` and `java/` are its two halves.
`PROJECT.json` maps every definition to the lines it models.

## 1. The system

The library lets an Android application use a USB (UVC) camera as a WebRTC
video source. From the cable to the application:

| component | state it keeps | operations | threads |
|---|---|---|---|
| vendored libusb, libjpeg-turbo, rapidjson | - | - | - |
| libuvc devices (`jni/libuvc/src/init.c`, `device.c`) | context, list of open devices, reference counts, the event thread and `kill_handler_thread` | `uvc_init/exit`, `uvc_open/close`, `uvc_ref/unref_device` | event thread |
| libuvc streams (`jni/libuvc/src/stream.c`) | transfers, `outbuf`/`holdbuf`, `seq`, `fid`, `running`, `hold_seq` under `cb_mutex` | open, start, stop, close, `_uvc_stream_callback`, `_uvc_user_caller` | event thread, user callback thread |
| libuvc controls, diagnostics, conversions (`ctrl.c`, `diag.c`, `frame*.c`) | none | synchronous transfers, pixel conversions | caller's |
| native preview (`jni/UVCCamera/UVCPreview.cpp`) | flags, windows, preview queue, capture mailbox, frame pool, callback object | setters, start, stop, destructor | caller, libuvc's callback thread, preview thread, capture thread |
| native camera (`UVCCamera.cpp`, callbacks) | device handle, preview, status and button callbacks, file descriptor | connect, release, wrappers, camera controls | caller, event thread |
| JNI glue (`serenegiant_usb_UVCCamera.cpp`, `Parameters.cpp`) | none | wrappers | caller's |
| Java camera (`java/com/serenegiant/usb/UVCCamera.java`) | native pointer, cloned control block, sizes | open, close, preview, capture, controls | caller's, some methods synchronized |
| camera thread (`.../common/AbstractUVCCameraHandler.java`) | message queue, `mUVCCamera`, `mIsPreviewing`, callbacks | open, close, startPreview, stopPreview, captureStill, release | callers, the looper thread |
| USB monitor (`.../usb/USBMonitor.java`) | control blocks, permissions, `mDeviceCounts`, registration | register, unregister, destroy, requestPermission, device polling, broadcasts | main thread, handler thread |
| helper (`java/com/jiangdg/usbcamera/UVCCameraHelper.java`) | the handler, the monitor, the last control block | init, onConnect (open, preview after 500 ms), release | main thread, handler thread |
| WebRTC capturer (`java/com/voxeet/.../camera/`) | disposed flag, the request for a bitmap | startCapture, stopCapture, toBitmap, onFrame | main thread, texture thread |

How they interact. The monitor reports a device to the helper, which opens it
through the camera thread; 500 ms later the helper asks the camera thread to
start the preview. The camera thread calls `UVCCamera`, that is
`UVCPreview::startPreview`. The preview thread starts libuvc's stream; libuvc
assembles payloads into frames on the event thread and hands them to
`uvc_preview_frame_callback` on its own callback thread; the preview thread draws
them and posts the latest to the capture thread, which draws it on a second
surface and calls back into Java.

What is hard about it is where these threads meet: condition variables that
have two meanings and are signalled without their mutex; a hand-written pool
that passes frames between four threads; sessions that start and stop while the
threads of the previous one are still around; messages that are queued before
the state they were meant for has changed; polling against broadcasts; timers
that outlive their request. `PROJECT.json` lists each under `hazards`, with its
line.

What makes each component correct:

- **preview**: a frame has one owner, frames keep their order, none is lost while
  the preview runs, none is stuck, a stop leaves nothing behind and returns, a
  setter returns and has waited for what it replaces, the window and the buffer
  in use are valid.
- **streams**: a frame handed to the user is one whole frame of the camera, no
  transfer or thread survives close, stop returns, every finished frame but the
  overwritten ones reaches the callback.
- **devices**: while a device is open an event thread runs, reference counts are
  the references there are, nothing is used after free.
- **camera thread**: a call that waits returns; the preview flag and the camera
  agree; after release nothing is open.
- **monitor**: an attached device is announced; control blocks that are open are
  those in the map; nothing is opened after destroy.
- **capturer**: a request for a bitmap is settled once, within its own time.

## 2. Modules

```
FramePool <- FramePipeline <- UVCPreview                  native preview
CameraSession <- CameraHandler                            camera thread
FrameSource <- UvcStream <- UvcDevice                     libuvc, native camera
USBMonitor                                                monitor, helper
BitmapRequests                                            capturer
```

`X <- Y`: Y uses X. `UVCPreview` extends `FramePipeline` and is shown to implement
its `PipelineSpec`; `UvcStream` is shown to implement `FrameSource` through an
INSTANCE with a refinement mapping, `CameraHandler` to implement `CameraSession` in
the same way; `UvcDevice` composes the stream with the
device, the context and the camera object that use it. `MC<module>` instantiates a
module for TLC, `<module>_proofs` proves about it (`UvcFrames_proofs` is a second
one about `UvcStream`). Mutants of an action, each the action as a plausible mistake
would have it, stand before it; no specification uses them, they show that the
properties notice.

**FramePool** is the memory of frames: which are allocated, which are pooled.
`get_frame`, `recycle_frame` and `clear_pool` run under `pool_mutex` and touch
nothing else, so they are operators on the memory. The array is a set: `last()`
takes one end of it, the model any frame. A frame's contents are not modelled.

**FramePipeline** is the abstract specification of what the preview does with
frames. Its variables are the places a frame can be (queue, mailbox, the
local variable of a thread, pool) and its actions the moves between them. It
knows no flag, no lock and no signal: `PipelineSpec` allows any move by any
thread at any time, if the thread has its hands free for a frame it takes and has
the frame it passes on. That is enough for the two properties of frames,
`FrameOwnedOnce` and `PipelineOrder`. `sequence[f]` is the number of the arrival
whose data `f` holds, a ghost of `frame->sequence`.

**UVCPreview** is `UVCPreview.cpp`, written with those moves. Every variable is a
field of the class or a local of a thread; `pc` says where each thread is. The
threads are the caller (`Api`), libuvc's callback thread, the preview thread, and
`CaptureThreads`.

| code | actions |
|---|---|
| `setPreviewSize`, `setPreviewDisplay` | `SetPreviewSize`, `SetPreviewDisplay` |
| `setFrameCallback` | `SetFrameCallback`, then, if it waits, `WaitFinishingCapturing`, `FinishSetFrameCallback` |
| `setCaptureDisplay` | `SetCaptureDisplay`, `WaitFinishingCapturing`, `FinishSetCaptureDisplay` |
| `startPreview` | `StartPreview`, `CreatePreviewThread`, `StartPreviewFailed` |
| `stopPreview` | `StopPreview`, `SignalStop`, `JoinCaptureThread`, `JoinPreviewThread`, `StopClears...`, `StopReleasesWindows` |
| destructor, `UVCCamera::release` | `Destroy` |
| `uvc_preview_frame_callback`, `addPreviewFrame` | `FrameArrives`, `AddPreviewFrame` |
| libuvc when the device is lost, `uvc_stream_close` then | `DeviceLost`, `AbandonStream` |
| `prepare_preview`, `do_preview` | `PreparePreview`, `StartStreaming`, `SpawnCaptureThread`, `PreviewLoop`, `WaitPreviewFrame`, `BlockOnPreviewSync`, `DecodeMjpeg`, `DrawPreviewOne`, `SignalCaptureThread`, `StopStreaming` |
| `addCaptureFrame` | `AddCaptureFrame` |
| `do_capture`, `callbackPixelFormatChanged` | `BeginCapture`, `ReadRequestSize`, `WriteCallbackBytes`, `CaptureLoop`, `BroadcastCaptureDone` |
| `waitCaptureFrame` | `WaitCaptureFrame`, `BlockOnCaptureSync` |
| `do_capture_surface`, `do_capture_idle_loop` | `CapturingLoop`, `CopyToSurface`, `RecycleConverted`, `ReleaseCaptureWindow`, `ForgetCaptureWindow` |
| `do_capture_callback` | `PrepareCallback`, `CallOnFrame`, `OnFrameReturns` |

Grain. One critical section is one step. Where the code reads or writes without
the mutex, that access has a step of its own: the flags in loop heads, both reads
of `mFrameCallbackObj`, the release and the clearing of `mCaptureWindow`, the
capture thread's read of the requested size and its write of `callbackPixelBytes` (the
caller's own call of `callbackPixelFormatChanged` is one step with its setter, since the
caller is who writes the size), the signals of `stopPreview`, the signal after the preview loop, the broadcast of
`do_capture`. `pthread_cond_wait` is two steps (release and wait; go on when woken
and the mutex is free), and the setters hold `capture_mutex` across theirs.

What is abstracted, and why it does not matter to the properties:

- A format is its mode (YUYV or MJPEG) and a number of bytes; width, height, rate
  and bandwidth do not appear. A `setPreviewSize` that changes only the rate is
  ignored by the code's own test.
- Whether a conversion is needed (`mFrameCallbackFunc`) is a free choice at each
  frame, so the unsynchronised writes of that pointer are covered.
- An allocation fails when `Frames` is used up. When it fails in MJPEG mode the
  code passes a null frame to the decoder; the model stops the preview thread
  there, and nothing is claimed of it.
- `StopReleasesWindows` is two critical sections of `stopPreview`, for two
  windows; no other thread uses both.
- `capture_thread` is uninitialised before the first `pthread_create`; `NoThread`
  stands for that, and for a join that fails at once. The join of a thread that
  has ended, or was joined before, returns too.
- The native window's reference count is what `ANativeWindow_acquire/release` see
  from this class; -1 is a window released once too often.
- The caller's calls follow one another: `UVCCamera.java` synchronizes the
  preview methods, and its `setFrameCallback`, which is not synchronized, is called
  by the camera thread, as they are. `SettersWhileRunning` says whether callers use the
  setters during a preview. If not, there is still one such call: `UVCCamera.stopPreview`
  begins with `setFrameCallback(null, 0)` (427), which may wait, and the native stop comes
  after it (`stopCalled`). If so, setters and stops come in any order, which includes that.
- libuvc gives a stream up when the device is lost (`stream.c:985`) or when a start
  fails after its threads were created (1606). `running` is 0 then, so `uvc_stream_close`
  (1867) neither stops nor joins. Its callback thread ends at its next test of
  `running`; it may be past that test, and then makes one call more of
  `uvc_preview_frame_callback`, at any time (`abandoned`, `pc[Callback] = "deliver"`), also
  after `stopPreview` has returned or the next preview was started. A lost device fails
  the negotiation of the next start. After a late failure of a start with the device still
  there a new stream could be opened beside the old one; that is not modelled (a late failure
  needs `libusb_submit_transfer` to fail), nor is what a call does once the object is deleted.
- `overlap` and `sz` are a history and a local variable: whether a preview was started
  while a capture thread of another was alive, and the size a capture thread has read.

**CameraSession** is what the rest of the program may rely on of the camera thread,
whatever it is sent: one camera at a time is open, each one a new one; a preview is that
of the open camera and is over before the camera is closed; the thread ends with nothing
open, once it has been released. It knows no message, no flag and no caller. It is also
what the caller of `UVCPreview` looks like: starts and stops of one camera's preview
follow one another.

**CameraHandler** is `AbstractUVCCameraHandler.java`: the callers, the message
queue and the camera thread that handles one message after another. `pc[c]` and
`call[c]` say where a caller is and in which method, `thread` where the camera
thread is, `message` what it handles. `connected` and `streams` are what
`UVCCamera.java` and the native side keep of each camera: the device open, the
preview running. Cameras are numbered in the order they are made.

| code | actions |
|---|---|
| `createHandler`, `getHandler` (388) | `GetHandler`, `SpuriousGetHandler`, `CreateHandler` |
| `run` (610) | `Run`, `EndOfRun` |
| the looper, `handleMessage` (302) | `NextMessage`, with `FirstStep` for the early returns |
| `handleOpen` (424), `UVCCamera.open` | `HandleClose`..., `HandleOpen`, `PublishCamera` |
| `handleClose` (441), `UVCCamera.destroy` | `HandleClose`, `StopClosedCamera`, `DestroyCamera` |
| `handleStartPreview` (457) | `HandleStartPreview`, `StartNativePreview`, `SetPreviewing` |
| `handleStopPreview` (489) | `HandleStopPreview`, `ClearPreviewing` |
| `handleRelease` (586) | `HandleClose`..., `HandleRelease` |
| `open`, `startPreview` | `Open`, `PostOpen`; `StartPreview`, `PostStart` |
| `stopPreview` (172) | `StopPreview`, `RemoveStarts`, `IsPreviewing`, `SendStop`, `StopPreviewReturns` |
| `close`, `release` | `Close`, `Release`, `IsOpened`, the steps of `stopPreview`, `SendClose`, `SendRelease` |

Grain: a block synchronized on `mSync` is one step, a native call is a step of its
own. `removeMessages` leaves a "removed" message in its place, which the looper
skips; so the queue's other messages keep their positions. A message sent
after `Looper.quit` is dropped. The clone of the control block that
`UVCCamera.open` makes is a matter of `USBMonitor`; that nobody closes it when the
connect fails is not modelled. A call that throws because the handler is
released has no effect and is left out. `UVCCamera.open` can fail before and after the
clone; the native start can fail, which nobody learns of. The helper's delay of
500 ms is not a number: `startPreview` is called at any time, by another thread.
`getHandler` waits without a loop: if that wait ends
early it returns null, and the helper has no handler (`without`). `overtaken` is a history:
the callers that were between `isPreviewing()` and sending their stop when another's stop
was handled or the thread ended. The native `stopPreview` may never return
(`InNativeStop`, see Fairness). Nobody calls `stopPreview` on the camera thread itself, since nothing in the repository
registers a callback there. Not modelled: `captureStill`, focus and value
requests, `MSG_MEDIA_UPDATE` (never sent).

**FrameSource** is what the user of a libuvc stream may rely on: the callback is
called between start and the return of stop only, with ever newer frames; only a
stream that has met a fault may be abandoned with its callback still alive.

**UvcStream** is `libuvc/src/stream.c` from `uvc_stream_open_ctrl` to
`uvc_stream_close`. Three threads: the caller of start and stop (`api`), the event
thread, which is in a transfer's callback (`event`, `current`), and the thread that
calls the user (`caller`). `outbuf`, `fid`, `bfh_err` and `seq` are the frame under
construction, `hold` is `holdbuf` with `hold_seq` and `hold_bfh_err`.

| code | actions |
|---|---|
| `uvc_stream_open_ctrl`, `uvc_stream_start_bandwidth` | `OpenStream`, `SetupFails`, `CreateCallbackThread`, `SubmitTransfer`, `SubmitFails`, `StartFails`, `StartReturns` |
| `_uvc_stream_callback` | `TransferCompleted`, `TransferRetried`, `TransferEnded`, `NoDevice`, `TestRunning`, `Resubmit`, `DeleteTransfer` |
| `_uvc_process_payload`, `_uvc_process_payload_iso` | `ReceiveHeader`, `ReceiveBadPacket`, `ReceiveErrorBit`, `ReceiveBogusPacket`, `AppendData`, `EndOfPayload` |
| `_uvc_swap_buffers` | `Swap` |
| `_uvc_user_caller`, `_uvc_populate_frame` | `TakeFrame`, `CallUser` |
| `uvc_stream_stop` | `CancelTransfers`, `WaitAgain`, `JoinCallbackThread` |
| `uvc_stream_close` | `CloseStream`, `FreeStream` |

Grain: a critical section of `cb_mutex` is one step; `running` and the second read
of `hold_bfh_err`, which have no mutex, have steps of their own. Abstractions:

- The camera sends numbered frames of `PARTS` packets with data; a packet's frame id
  is the parity of the number; the end-of-frame bit comes with the last packet,
  in one after it, or not at all. A packet can be lost before any transfer has it,
  arrive damaged, with the error bit, or with a header that is dropped. Both kinds of
  endpoint are modelled (`isochronous`); the loop over the packets of a transfer is
  as many turns as the environment likes. iSight headers are not modelled.
- `outbuf` holds `SIZE_BUF` packets; what would overrun it ends the frame as in the
  code. That an isochronous packet is no larger than the buffer is an `assert` there.
- A frame may be delivered twice with one number, or skipped, because the callback
  thread re-reads `hold_bfh_err`; the frame with sequence 0 is never delivered, since
  that is the number `last_seq` begins with. Both are the code's.
- `lost`, `fault` and `delivered` are ghosts: packets lost, a lost device or failed
  start, the number handed over last.
- After `CloseStream` on a stream that is not running (the device was lost), the handle
  is freed with its thread and transfers alive. The model calls that "abandoned"
  and takes no further step with that stream there: what its thread and transfers
  do is done to freed memory. (`UVCPreview` follows the thread to its last call, which
  is made on the preview object, `UvcDevice` the caller to the end of its release.)

**UvcDevice** is a camera from `UVCCamera::connect` to `UVCCamera::release`
(`jni/UVCCamera/UVCCamera.cpp`), the context and device it uses (`libuvc/src/init.c`,
`device.c`), the event thread, the status transfer and the status and button callback
objects, over the stream of `UvcStream`.

| code | actions |
|---|---|
| `UVCCamera::connect` | `InitFails`, `FindDevice`, `OpenDevice`, `SetUpHandle`, `StartHandlerThread`, `CreateCallbacks`, `GiveUp` |
| `UVCCamera::release` | `Release`, `StopPreviewReturns`, `DeleteCallbacks`, `KillHandlerThread`, `JoinHandlerThread`, `CloseFd`, `UnrefDevice`; `ReleaseClosed` when nothing is open |
| destructor | `Destroy` |
| `_uvc_handle_events` | `StreamCallback`, `StreamEvent`, `StatusArrives`, `StatusReturns`, `HandlerExits` |
| the preview as user of the stream | `OpenCameraStream`, `StartStream`, `StopStream`, `StreamUser` |

`kill_handler_thread` is what the code makes of it: set by the last `uvc_close`, reset
by nobody. The preview is represented by its use of the stream alone: when its
`stopPreview` has returned the stream is closed, or abandoned, as `StoppedMeansQuiet` of
`UVCPreview` has it. A release after an unplug therefore goes on to `uvc_close` with the
callback thread and transfers of the abandoned stream left; the event thread can still end
(`BetweenEvents`). A second transfer that libusb completes on the thread of a
synchronous call is handled by the event thread in the model. After a failed
connect the code's `release` closes descriptor 0; the model has the test, not the number.

**USBMonitor** is `USBMonitor.java` from its constructor to `destroy`, with the
capturer's listener behind `UVCCameraHelper`. Three threads: the caller of
register, unregister and destroy; the main thread with the receiver; the handler
thread with the poll and every call of the listener. The camera thread appears
with what it does to control blocks.

| code | actions |
|---|---|
| `register`, `unregister` | `Register`, `Unregister` |
| `destroy` | `Destroy`, `DestroyBegins`, `DestroyCloses`, `DestroyEnds` |
| `mUsbReceiver.onReceive` | `ReceiveNothing`, `ReceivePermission`, `ReceiveDetached`, `CloseDetached` |
| `mDeviceCheckRunnable.run` | `PollLists`, `PollCompares`, `PollThrows` |
| the listener's `onAttachDev`, `requestPermission` | `IgnoreTask`, `OnAttach` |
| `processConnect`, `UsbControlBlock` | `FindBlock`, `CreateBlock`, `PutBlock` |
| the listener's `onDettachDev` | `OnDettach` |
| `UsbControlBlock.clone`, `close` | `OpenClone`, `CloseClone` |
| the system, the user | `Plug`, `Unplug`, `UserAnswers` |

Grain: the monitor's lock is held for single steps only. What another thread can come
between is a step: the list a poll has read and the count it compares it with, the
look into `mCtrlBlocks`, the connection and the entry, the steps of `destroy`, the two
removes of a detach (`USBMonitor.java` 498, and 1313 in the `close` that follows, which takes
out whatever has been entered under that name meanwhile). The close of a block in `destroy`
is one step with its two removes: a block entered in between is a stray in any case. A
device is its name; `announced`, `strays` and `stale` are ghosts. `PollThrows` is the
exception of `hasPermission` after `destroy` on the handler thread, where nobody
catches it: the application ends there, and so does the thread of the model.
The `ATTACHED` branch of the receiver (the filter registers no such action),
`openDevice` and the getters are not modelled.

**BitmapRequests** is `toBitmap`, its timer and `onFrame` of
`ExternalCameraCapturer.java`. Nothing is locked there, so each access to
`waitForFrameSolver` and `waitForFrameSolverSize` is a step.

| code | actions |
|---|---|
| `toBitmap`, its executor | `Ask`, `Arm`, `RegisterSolver` |
| the `Runnable` posted with 5000 ms | `TimerFires` |
| `onFrame` | `TestSolver`, `ReadSolver`, `ClearSolver`, `Answer` |
| `stopCapture` | `StopCapture` |

The time is not a number: the timer fires at any time after the executor has
returned, since both need less than five seconds for it. A size is known by the
request that asked for it.

## 3. What is checked

Every run is one `.cfg` of the `MC` module it names. Runs that are expected to fail
are disagreements between the code and something the repository says of it; they
stand under `findings` in `PROJECT.json`.

### The preview session

| run | question | instance | result |
|---|---|---|---|
| `sessions` | what does a stop leave behind? which frames are lost? do they keep their order? | two starts, MJPEG, queue of 2, two capture threads, no window and no callback object, failing starts, a lost device | holds |
| `setters` | is every frame owned once when setters interfere? is the invariant of the proof right? | setters during the preview, one capture window and no callback object, queue of 1, a lost device | holds |
| `liveness` | is a frame ever stuck? is the window in use held, does the buffer fit? | one session with a window, a callback object and two sizes, no setter during it but that of the stop, spurious wake-ups possible | holds |
| `stop_hangs` | does `stopPreview` return? | one session | **violated** |

- `StoppedMeansQuiet`: when `stopPreview` has returned, no preview thread, no
  stream, no callback under way, no frame posted or queued; if libuvc abandoned the
  stream (the device was lost, a start failed late) at most one call of the frame
  callback is left, or the one frame it queued when a next start had set `mIsRunning`. It
  does not say that no capture thread is left, because one can be: a stop that comes before
  `do_preview` has created the capture thread joins an older handle.
- `LeaksOnlyWhenStopping`, `LeakBound`: `addCaptureFrame` drops the frame it is
  given when the preview has stopped; that is the only leak, at most once per
  session.
- `FrameOwnedOnce`, `PipelineOrder`, `PipelineSpec`: see FramePipeline.
- `BufferMatchesFrame`: the length of the buffer that the session's capture thread
  gives to `onFrame` was computed from the size the session streams with, provided
  callers change the size between previews only (as those in this repository do).
  Excepted is what follows a preview that was started beside a capture thread of another
  (`overlap`): the old thread can write `callbackPixelBytes` after the new one, from the
  size it had read before, or hand over a frame of the new session.
- `CaptureWindowHeld`: the capture window in use is referenced. Checked with the
  `setFrameCallback(null)` of every stop, up to the first `overlap`; with a second capture
  thread, or a `setCaptureDisplay` during the preview, the unlocked release in
  `do_capture_surface` breaks it.
- `ControlInv`: the inductive invariant of the proofs.
- `PreviewQueueDrains`, `MailboxDrains`: the two wake-ups that are sent under the
  mutex are not lost.
- **`stop_hangs`** (`UVCPreview.cpp:359`). `stopPreview` clears `mIsRunning` and
  signals without holding the mutexes, and `waitPreviewFrame`/`waitCaptureFrame`
  wait without testing the flag. A thread between its test and its wait misses
  the signal. A frame that arrives after the stop wakes nobody either: it is
  dropped without a signal.

The last two are checked for one session, where the window or the size asked for may be
another before each; the theorems `WindowIsHeld` and `BufferFitsFrame` have any number.

Bounds. `MAX_FRAME` is 1 or 2 (4 in the code) and `FRAME_POOL_SZ` 2 (`MAX_FRAME + 2`
in the code): a full pool and a failed allocation are reached
with three frames, a full queue in `setters`, where it has one place. `MaxArrivals` (2) lets one frame be in the hands of a
capture thread while another is in the mailbox or the queue. `MaxStarts` (1 or 2):
a session and one that follows it, for what is left over. `MaxRefs` (1) bounds
how often `startCapture` is called with the same surface. Symmetry is over frames,
in runs without liveness. `sessions` and `setters` have no callback object
(with one they have several times the states): the wait of `setFrameCallback` and the calls
of `onFrame` are in `liveness`, and `onFrame` beside setters is left to the theorems, which have any
set of callbacks and windows.

Fairness (`ThreadFairness`): each thread that can take a step eventually does, as
the kernel schedules threads: the caller within a call, the preview thread,
each capture thread, libuvc's thread once it has a frame. Nothing is assumed of
the application (it need never call), of the camera (it need never send), or of
spurious wake-ups (they may happen, they need not).

### The camera handler

| run | question | instance | result |
|---|---|---|---|
| `handler_threads` | does the thread open, start, stop and close in order? what does the flag say, what does a release leave? who waits for ever? | the repository's three threads, five calls, failing opens and starts, spurious wake-ups, native stops that need not return | holds |
| `handler_caller` | has the preview stopped when a stop that waited returns? | one thread, every method, seven calls | holds |

The three threads and their calls are those of the repository: USBMonitor's
handler thread opens (`onConnect`) and closes (`onDettach`), the main thread
starts the preview, the surface texture's thread stops it and releases
(`stopCapture`).

- `ImplementsSession`: the refinement. The mapping sends the set of connected cameras to
  `opened`, of those that stream to `previewing`; queue, flag and callers disappear. A
  handler of `MSG_OPEN` that did not close first would open a second camera.
- `StreamIsFlagged`, `ReleasedMeansClosed`: between two messages a running preview is
  flagged, so a stop stops it; whatever was queued when the release came, nothing
  is connected afterwards. `ThreadInv` is the inductive invariant behind them; with
  `OneCamera`, a part of it, a close finds the camera that is connected.
- `WaiterIsServed`, `WaitEnds`: whoever waits in `stopPreview` has a stop on its way that
  will find `mIsPreviewing` set, or the end of the thread, and is woken, unless it was
  `overtaken`. That exception is the code's: two threads find the preview running, the
  first one's stop is handled and notifies before the second sends its own, whose
  handling then finds nothing to stop and does not notify (185). The properties say that this is
  the only way. It happens with the repository's callers: the monitor's thread is in the
  `stopPreview` of `close` while the texture's thread calls it or `release`. That `handleClose` leaves
  the flag set is needed: the mutant that resets it there loses the notify of a stop queued
  behind a close. `WaitEnds` further excepts a native `stopPreview` that does not return, which
  is `stop_hangs`.
- `StopThatWaited`: where one thread makes all calls and no wait ends by itself, a
  `stopPreview` that waited returns with the preview stopped, and no start that was queued
  before it begins one. (One that did not wait promises nothing: see `StopMeansStopped` below;
  and another thread may send a start at any time.)
- `ReleaseEnds`: a release ends the thread, with the same two exceptions: `release` begins with
  a `stopPreview`, which waits for ever if it was overtaken (`ReleaseWaits`), and
  `handleClose` calls the native one.
- `HandlerCreated`: the creator gets its handler whichever of the two threads is first, unless
  its wait ends early, for which `getHandler` has no loop.

Bounds: `MaxCalls` calls in all; five leave room for two threads that stop one
preview, or an open over a running one, before the release, and seven for a second session
with a stop and a close in it. The queue needs no bound of its own.

Fairness (`ThreadFairness`): the camera thread, the creating thread, and a caller within a
call go on when they can, but a native `stopPreview` need not return. Nobody need call, and no
wait need be woken spuriously.

### The stream and the device

| run | question | instance | result |
|---|---|---|---|
| `stream` | what are frames made of? does the stream implement `FrameSource`? | two transfers, frames of two packets, three frames, two losses, failing submits | holds |
| `device` | are references counted, what does a release leave, does it return, does the stream stop, is a finished frame taken? | one transfer, two frames of one packet, any step of connect failing, unplugging | holds |
| `reopen` | is there an event thread while a camera is open? | as `device` | **violated** |

- `WholeFrames`: as long as no packet was lost, every frame on hold that the callback
  thread may take is one whole frame of the camera, wherever in a frame the stream
  began and whatever end-of-frame bits there are.
- `JoinedOnlyAcrossLoss`: with losses, data are in order, and two frames' data are
  joined only if a whole frame between them was lost: then the frame id has
  the parity it had.
- `ImplementsSource`: the refinement. The mapping sends `api` to the phase and
  `delivered` to `last`; `AbandonedOnlyAfterFault` is what it says of `close`.
- `RefsCounted`: on every way through connect and release, those that fail included,
  the device has as many references as holders and a duplicated descriptor is
  open as long as the camera holds the device.
- `ReleaseIsQuiet`: when release has freed the handle there is no event thread, no status
  callback under way and no callback object known to libuvc, whatever the stream was doing; and
  no callback thread, no callback and no transfer of the stream, unless the device was
  lost or a start failed. Then the stream may have been abandoned and they outlive the
  handle, which the code does not prevent.
- `StreamStops`: `uvc_stream_stop` ends, with the stream closed, unless the resubmission of a
  transfer failed (`Stranded`: `stream.c:1003` ignores the result, and the stop waits
  for it for ever) or there is no event thread because the object was connected before
  (`reopen`).
- `ReleaseReturns`: once its `stopPreview` has returned, release returns, whatever the status
  transfer and the event thread are doing. That `stopPreview` itself returns is not
  assumed, nor claimed: see `stop_hangs`.
- `FinishedFrameTaken`: the callback thread does not sleep on a finished frame.
- **`reopen`** (`libuvc/src/device.c:1575`): `kill_handler_thread` is set by the last
  close and never reset, so a camera object that is connected again after a
  release spawns an event thread that ends at once. The Java side makes a new native
  object for every open, which hides it.

Bounds: two transfers are needed for one to be in flight while the other is
processed; three frames for two of the same parity with a whole one lost between
them; `SIZE_BUF` 4 for a frame and half of another, joined, to fit and more to
overrun. The composition is checked with one transfer and without losses, whose
effect `stream` shows and the proofs give for every size.

Fairness (`DeviceFairness`): calls under way, the user's thread, the event thread
in a callback go on (weak fairness); what the event thread has to choose
between (a transfer that completed, the end of its loop) gets its turn (strong
fairness), since libusb handles completed transfers in turn. `uvc_stream_stop`
cancels the transfers, and a cancelled transfer completes. The camera need not
send. Whether and when
the preview stops its stream, also in a release, is left open.

### The monitor

| run | question | instance | result |
|---|---|---|---|
| `monitor` | which connections stay open? when is there a poll? what does destroy leave? which attaches are announced? | one device, plugged in once more, two registers | holds |
| `attach_missed` | is every attached device announced? | one device, one register | **violated** |

- `ConnectionsAccounted`: every open connection is one the monitor can still close, or
  is being entered or closed, or is a stray. Strays come about in three ways, all the code's:
  a clone was closed, which removes the entry of its original (`USBMonitor.java:1313`), the
  block was entered after destroy had begun (559), or it was entered while the receiver was
  closing the block before it, whose `close` then removes the new entry. The property is that
  there is no fourth way.
- `RegisteredMeansPolled`, `QuietAfterDestroy`: as long as the receiver is
  registered there is a poll, waiting or under way; after destroy nothing is posted.
- `AnnouncedUnlessStale`: a device that is plugged in and stays is announced, unless
  `mDeviceCounts` is of a list whose device was unplugged before the poll wrote the number.
- **`attach_missed`** (`USBMonitor.java:532`): that exception happens. A detach that
  comes while a poll compares is overwritten with the old number.

Bounds: with one device the interleavings of one poll, one broadcast and one connect
are reached, and a second plug makes the old block meet the new device, also between
the two removes of its detach. The proofs hold for every finite set of devices.

Fairness: the main thread and the handler thread take what they are given; a task
does not keep a poll from its time nor a poll a task, hence strong fairness for
both. Nobody need plug, register or answer the dialog.

### Bitmaps

| run | question | instance | result |
|---|---|---|---|
| `bitmap` | who is answered, with which size, is the slot free again? | three requests, three frames | holds |

- `AnsweredOnce`: no request is answered twice, none that was rejected.
- `OtherSizeOnlyOverlapped`: a bitmap has the size of another request only if the two
  were under way at the same time.
- `SlotFreed`: a registered request blocks the others for a while only.

Three requests are needed for one to time out, one to be registered and one to come
between the steps of `onFrame`. Fairness: calls of `toBitmap` return and timers fire;
frames need not come.

### What the code does not have

These are stated in the modules as TLA+ properties, TLC refutes them, and no run keeps
them; the hazards in `PROJECT.json` name the lines.

| property | what happens |
|---|---|
| `UVCPreview!SetterReturns` | the broadcast that ends a setter's wait (`UVCPreview.cpp:787`) is sent without `capture_mutex` and can precede the wait: the setter waits for ever |
| `UVCPreview!WaitFinishesCapturing` | the broadcast for a new frame ends the wait as well (709): the setter deletes the callback object while the capture thread is inside `onFrame` |
| `CameraHandler!WaitEnds` without its exception for `overtaken` | two threads find the preview running; the second sends its stop after the first was handled and is not notified (185) |
| `CameraHandler!StopMeansStopped` | `mIsPreviewing` is set after the native start: a `stopPreview` before that does nothing (175) |
| `CameraHandler!StartIsHonoured` | the flag of the old camera suppresses the start of the new one (459) |
| `BitmapRequests!TimesOut` | a request whose timer fires is never settled (`ExternalCameraCapturer.java:221`) |

Deadlock is checked in no run: each of these models may stop when its bounds are used
up or the object is destroyed, some in the states the violations show.

## 4. What is proved

Every safety property that a run checks but one is a theorem, for every value of the
constants: any number of frames, threads, transfers, packets, devices, requests, any
queue, pool and buffer size. Assumptions are those named in the modules (constants
are distinct where the code's objects are, sizes are naturals, a frame fits its buffer).

| module | theorems |
|---|---|
| `FramePipeline_proofs` | `PipelineCorrect` |
| `UVCPreview_proofs` | `ControlInvHolds`, `TypeCorrect`, `ImplementsPipeline`, `FramesOwned`, `FramesInOrder`, `StopIsQuiet`, `LeaksAreOfStops`, `LeaksAreFew`, `FramesAreAwaited`, `StopEndsCallback`, `WindowIsHeld`, `BufferFitsFrame` |
| `CameraHandler_proofs` | `ThreadInvHolds`, `HandlerTypeCorrect`, `AtMostOneCamera`, `StreamsAreFlagged`, `ReleaseCloses`, `WaitersAreServed`, `ReleaseIsOnItsWay`, `HandlerIsOnItsWay`, `HandlerIsSession` |
| `UvcStream_proofs` | `StreamTypeCorrect`, `StreamClosedClean`, `StreamIsFrameSource`, `StreamLosesNoWakeup` |
| `UvcFrames_proofs` | `StreamWholeFrames`, `StreamJoinedOnlyAcrossLoss` |
| `UvcDevice_proofs` | `DeviceIsStream`, `DeviceWholeFrames`, `DeviceRefsCounted`, `DeviceReleaseIsQuiet`, `DeviceTypeCorrect`, `DeviceThreadServes`, and of the stream inside: `DeviceJoinedOnlyAcrossLoss`, `DeviceIsFrameSource`, `DeviceLosesNoWakeup` |
| `USBMonitor_proofs` | `MonitorTypeCorrect`, `MonitorPolls`, `MonitorPollsAreFew`, `MonitorQuietAfterDestroy`, `MonitorConnectionsAccounted` |
| `BitmapRequests_proofs` | `RequestsTypeCorrect`, `RequestsAnsweredOnce`, `RequestsKeepTheirSize`, `SlotIsTimed` |

The one left to TLC is `StopThatWaited`, which is about one calling thread (and
`HandlerServes`, which is refuted). Two theorems have a
hypothesis: `WindowIsHeld` and `BufferFitsFrame` are about callers that use no setter during a
preview (`~SettersWhileRunning`), but the one every stop makes; and their properties except what
follows an `overlap`, where the code does not have them.

**Frames of the preview.** `FrameOwnedOnce` is not inductive for `UVCPreview`: a
thread that took a frame with another in hand would lose one, a thread that recycled
an empty hand would put null in the pool. What is needed is `FramesInHand`: a thread
has a frame exactly at those program points where its code says so. It is inductive
together with the types. So the proof has two halves. In `FramePipeline_proofs`
the moves, guarded by hands only, preserve one owner and the order
(`OwnedOnceByPlace` splits ownership by place). In `UVCPreview_proofs` the control
makes only those moves (`NextKeepsOrLoses`), so `Spec` implements `PipelineSpec` and
the frame properties come for free. `SessionShape` ties the lives of the preview
thread, of the stream and of the two queues to `mIsRunning` and the call under way,
from which `StoppedMeansQuiet` follows. `FramesAwaited` says that who waits for a frame
waits because there is none: an arrival signals under the mutex under which the
wait was entered. For an abandoned stream `SessionShape` keeps the count of what its thread
can still do: one call, and one frame queued by it. `CaptureShape` says that the capture thread has a frame only while the
preview loop of its session runs or `stopPreview` waits for it; so no `onFrame` survives
the join (`StopEndsCallback`), although the thread itself may be created after it. All
four are parts of `ControlInv`.

**Leaks.** Every move but `Lose` keeps a frame reachable or gives it back
(`KeepingMovesLeakNothing`), and `addCaptureFrame` alone makes that one, after
a stop. `LeakInv` counts: the frame that may still be lost (`MayLose`) and those that
were are paid for by the calls of `startPreview`.

**Window and buffer.** Until a preview is started beside a capture thread of another, at most
one capture thread runs, it is `capture_thread`, and it is inside its loop only while the
preview runs or `stopPreview` waits for it (`OneCapture`). So nobody else touches the window
between its release and its being forgotten (`WindowHeld`), and the
`setFrameCallback(null)` of the stop touches neither window nor size. For the
buffer: what that thread has read (`sz`) and written is the size asked for, since it read it
in the same preview (`SessionFormats`), and the size asked for is the one streamed with,
because only a stop lets the caller change it.

**The camera handler.** A camera's life is a matter of the camera thread's program
counter alone: `ThreadInv` says at each point which camera is in use, whether it may
stream and what the flag says. The callers touch only the queue, so one lemma
(`OthersKeepInv`) covers all their steps. `WaitersAreServed` is a matter of each caller
(`WaitInvOf`): while it is about to send its stop and not overtaken `mIsPreviewing` is still
set, and while it waits a stop is queued or being handled that finds the flag set; what
clears the flag notifies in the same step, and so wakes it or marks it as overtaken. No step
takes a stop out of the queue but its handling and the end of the thread, which notifies too.

`CallInv` ties `mReleased` to the release message: somebody is
in `release`, or the message is queued, handled or has ended the thread, and nothing
(no `removeMessages`, no `quit`) takes it out; and nobody calls before the helper has its
handler, or ever, if its wait for it ended early. `HandlerIsSession` maps every step: the camera thread's native calls to the actions
of `CameraSession`, all else to no step at all. What it adds to the invariants is the
order between two steps: no camera is opened over another, closed while it streams, or left
when the thread ends.

**The stream.** `StreamInv` has the types, the control (a closed stream has no
transfers; it runs, unless there was a fault; it is freed when all is quiet) and
`NumbersOrdered`: delivered, copied, held and built frames are numbered in this
order. With it each step of the stream maps to a step of `FrameSource` or to none
(`SourceStep`). What frames are made of needs `FramesInv`: the data under construction
are the packets the camera sent last, in order, with nothing missing unless something was
lost, and the frame id is the parity of the frame they are of; a new parity ends the
frame, so only an even number of missing frames goes unnoticed (`ParityGap`).
`WakeupInv` is about `cb_cond`, which has both the stop and the callback thread waiting
on it: the callback thread sleeps on no frame it has not taken, the stop waits only while
a transfer is still to complete or is stranded by a failed resubmission, and joins a
thread that has been woken and will find `running` reset.

**The device.** `DeviceIsStream` shows that the composition does to its stream what
`UvcStream` allows, so that the stream's theorems hold of it. `CountsInv` gives
references and descriptors for each point of connect and release. `QuietInv` adds that
the event thread is dead after its join and that a stream is neither closed nor abandoned
only while the camera is open or its preview is being stopped; with `AbandonedOnlyAfterFault`
of the stream, `ReleaseIsQuiet` holds at the end of release. `EventThreadServes` says when there is
a thread to complete transfers: as long as a camera is open, unless `kill_handler_thread`
is set, which is the case of `reopen`.

**The monitor.** `PollInv` (a poll under way posts itself again, unless destroyed),
`BlocksInv` (open blocks are accounted for, a block being made is fresh, `destroy` has
still to visit every key whose block is open), `TypesInv` for the types, and
`PollsAreFew`: `unregister` cannot remove the poll that is running, so a quick
`register` adds a second one, but never a third. **Requests.** `OnceInv` (a solver is in
one place, and only an unanswered one is there), `SizeInv` (two solvers under way overlap,
the size is that of the last), `SlotHasTimer`.

Left to TLC: liveness, since the prover handles neither fairness nor ENABLED. What can be
proved of it is that what is awaited is on its way, so that only the scheduling that
fairness stands for is left to the run:

| checked by TLC | what is proved of it |
|---|---|
| `PreviewQueueDrains`, `MailboxDrains` | `FramesAreAwaited`: no consumer sleeps on a frame |
| `WaitEnds` | `WaitersAreServed`: for who was not overtaken a stop that will notify is queued or being handled, or the thread is ending |
| `ReleaseEnds` | `ReleaseIsOnItsWay`: the message that ends the thread is never lost |
| `HandlerCreated` | `HandlerIsOnItsWay`: who waits, waits for a thread that has still to publish it |
| `StreamStops`, `ReleaseReturns` | `DeviceLosesNoWakeup`, `DeviceThreadServes`: what a stop and a release wait for has a thread that brings it |
| `FinishedFrameTaken` | `DeviceLosesNoWakeup`: the callback thread does not sleep on a frame |
| `AnnouncedUnlessStale` | `MonitorPolls`, `MonitorPollsAreFew`: a registered monitor has one or two polls, waiting or under way |
| `SlotFreed` | `SlotIsTimed`: who holds the slot has a timer that has still to fire |

## 5. Not modelled, and what is left

By lines most of this repository is vendored: libusb, libjpeg-turbo and rapidjson,
with their platform back ends, tests and tables, and libuvc's own descriptor parsing,
printing and pixel conversion. It is used here through a few calls, whose effect the
modules state (a submitted transfer completes once, a cancelled one too; a decoder
succeeds or fails); it is not this project's code to specify. Of the rest:

- camera controls (`ctrl.c`, the getters and setters of `UVCCamera.cpp`): each is one
  synchronous control transfer, without state; so is reading their ranges.
- descriptors and the negotiation of formats: parsing, before any thread is there.
- `uvc_stream_get_frame`, the polling interface of a stream: nobody calls it.
- `captureStill` and the requests that pass through the camera thread; MSG_MEDIA_UPDATE,
  which nobody sends; callbacks of the handler, which nobody registers.
- `updateResolution` of the helper, which releases one handler and opens the next
  while the first still closes: two instances of `CameraHandler` on one device.
- a clone of a control block that is left open when a connect fails.
- `jni/UVCCamera/pipeline`, which `Android.mk` does not compile; the JNI wrappers, which
  are one call deep; the sample application.

What would add most next: two camera handlers on one device, for `updateResolution`;
`CameraHandler` over `UvcDevice` in place of its two native flags, so that an unplug
during `handleStartPreview` is seen from Java to libuvc; a step-by-step
`captureStill`, whose path and flag are set in different threads.
