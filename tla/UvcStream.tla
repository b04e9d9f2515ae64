----------------------------- MODULE UvcStream -----------------------------
(***************************************************************************)
(* A libuvc stream (stream.c): the transfers, the event thread that        *)
(* assembles their packets into frames, the thread that calls the user's   *)
(* callback, and the caller that starts, stops and closes the stream.      *)
(*                                                                         *)
(* Grain.  A critical section of cb_mutex is one step, so that the mutex   *)
(* itself needs no variable.  What is read or written without it has a     *)
(* step of its own: running, and hold_bfh_err in _uvc_user_caller.  The    *)
(* frame under construction belongs to the event thread alone.             *)
(*                                                                         *)
(* Frames and packets.  The camera numbers its frames; a frame consists of *)
(* PARTS packets with data, the frame id of its packets is the parity of   *)
(* its number.  The end-of-frame bit may come with the last of them, in a  *)
(* packet without data after it, or never.                                 *)
(***************************************************************************)
EXTENDS Naturals, Sequences

CONSTANTS
    Transfers,      \* the transfers of a stream
    PARTS,          \* packets with data in a frame
    SIZE_BUF,       \* size of outbuf, in packets
    SubmitsFail,    \* can a submit fail although the device is there?
    MaxFrames,      \* bound: frames the camera sends to a stream
    MaxLost         \* bound: packets lost in a stream

ASSUME UvcStreamAssumption ==
    /\ PARTS \in Nat \ {0}
    /\ SIZE_BUF \in Nat /\ PARTS < SIZE_BUF
    /\ SubmitsFail \in BOOLEAN
    /\ MaxFrames \in Nat /\ MaxLost \in Nat

VARIABLES
    api,            \* where the caller of start and stop is
    attached,       \* is the device there?
    running,
    transfers,      \* "null", "new", "flight", "cancelled", "callback" or "stranded"
    event, current, \* where the event thread is, the transfer it handles
    packet,         \* the packet it handles
    outbuf, fid, bfh_err, seq,      \* the frame under construction
    hold,           \* holdbuf, hold_seq and hold_bfh_err
    caller,         \* where the user callback thread is
    last_seq, frame,                \* frame: the number of the one copied last
    isochronous,    \* or bulk
    camera,         \* the frame and the packet of it that comes next
    lost,           \* ghost: number of packets of this stream that were lost
    fault,          \* ghost: device lost while streaming, or start failed
    delivered       \* ghost: the frame user_cb was called with last

buildVars == <<outbuf, fid, bfh_err, seq>>
eventVars == <<event, current, packet>>
callerVars == <<caller, last_seq, frame, delivered>>
worldVars == <<attached, isochronous, camera>>
vars == <<api, running, transfers, eventVars, buildVars, hold, callerVars,
          worldVars, lost, fault>>

NoTransfer == "none"
NoPacket == [frame |-> 0, part |-> 0, eof |-> FALSE]
Nothing == [seq |-> 0, data |-> <<>>, err |-> FALSE]

ApiPcs == {"closed", "setup", "submitting", "startFails", "streaming",
           "cancelling", "waiting", "woken", "joining", "freeing", "abandoned"}
EventPcs == {"idle", "payload", "data", "resubmit", "submit", "delete"}
CallerPcs == {"none", "loop", "waiting", "call", "dead"}
TransferStates == {"null", "new", "flight", "cancelled", "callback", "stranded"}

Data == Seq([frame : Nat, part : 1..PARTS])

(* Every variable has its type. *)
TypeOK ==
    /\ api \in ApiPcs /\ event \in EventPcs /\ caller \in CallerPcs
    /\ attached \in BOOLEAN /\ running \in BOOLEAN /\ isochronous \in BOOLEAN
    /\ transfers \in [Transfers -> TransferStates]
    /\ current \in Transfers \cup {NoTransfer}
    /\ packet \in [frame : Nat, part : 0..PARTS, eof : BOOLEAN]
    /\ outbuf \in Data
    /\ fid \in 0..1 /\ bfh_err \in BOOLEAN /\ seq \in Nat
    /\ hold \in [seq : Nat, data : Data, err : BOOLEAN]
    /\ last_seq \in Nat /\ delivered \in Nat
    /\ frame \in Nat
    /\ camera \in [frame : Nat, part : 1..PARTS + 1]
    /\ lost \in Nat /\ fault \in BOOLEAN

Init ==
    /\ api = "closed" /\ attached = TRUE
    /\ running = FALSE
    /\ transfers = [t \in Transfers |-> "null"]
    /\ event = "idle" /\ current = NoTransfer /\ packet = NoPacket
    /\ outbuf = <<>> /\ fid = 0 /\ bfh_err = FALSE /\ seq = 0
    /\ hold = Nothing
    /\ caller = "none" /\ last_seq = 0 /\ frame = 0
    /\ isochronous = FALSE /\ camera = [frame |-> 1, part |-> 1]
    /\ lost = 0 /\ fault = FALSE /\ delivered = 0

-----------------------------------------------------------------------------
(* The camera. *)

Packet(part, eof) == [frame |-> camera.frame, part |-> part, eof |-> eof]
ThenPart(k) == camera' = [camera EXCEPT !.part = k]
ThenFrame == camera' = [frame |-> camera.frame + 1, part |-> 1]

(* The camera sends packet p. *)
CameraSends(p) ==
    /\ camera.frame <= MaxFrames
    /\ \/ camera.part < PARTS /\ p = Packet(camera.part, FALSE) /\ ThenPart(camera.part + 1)
       \/ camera.part = PARTS /\ p = Packet(PARTS, TRUE) /\ ThenFrame
       \/ camera.part = PARTS /\ p = Packet(PARTS, FALSE) /\ (ThenFrame \/ ThenPart(PARTS + 1))
       \/ camera.part > PARTS /\ p = Packet(0, TRUE) /\ ThenFrame

Packets == [frame : {camera.frame}, part : 0..PARTS, eof : BOOLEAN]

Lost == lost < MaxLost /\ lost' = lost + 1

(* A packet that no transfer receives. *)
LosePacket ==
    /\ attached /\ api = "streaming"
    /\ \E p \in Packets : CameraSends(p)
    /\ Lost
    /\ UNCHANGED <<api, running, transfers, eventVars, buildVars, hold, callerVars,
                   attached, isochronous, fault>>

Unplug ==
    /\ attached
    /\ attached' = FALSE
    /\ UNCHANGED <<api, running, transfers, eventVars, buildVars, hold, callerVars,
                   isochronous, camera, lost, fault>>

-----------------------------------------------------------------------------
(* The condition variable cb_cond. *)

Awake(pc) == IF pc = "waiting" THEN "woken" ELSE pc
AwakeCaller(pc) == IF pc = "waiting" THEN "loop" ELSE pc

Broadcast == api' = Awake(api) /\ caller' = AwakeCaller(caller)

SpuriousWakeup ==
    /\ api = "waiting" \/ (caller = "waiting" /\ api # "abandoned")
    /\ \/ api' = Awake(api) /\ UNCHANGED caller
       \/ caller' = AwakeCaller(caller) /\ UNCHANGED api
    /\ UNCHANGED <<running, transfers, eventVars, buildVars, hold, last_seq, frame,
                   delivered, worldVars, lost, fault>>

-----------------------------------------------------------------------------
(* The event thread: _uvc_stream_callback. *)

(* A transfer in flight has completed, one way or another. With a lost     *)
(* device it may have data that came before, or time out.                  *)
Complete(t, next) ==
    /\ event = "idle"
    /\ transfers[t] \in {"flight", "cancelled"}
    /\ transfers' = [transfers EXCEPT ![t] = "callback"]
    /\ current' = t /\ event' = next
    /\ UNCHANGED <<api, packet, buildVars, hold, callerVars, worldVars, lost>>

(* COMPLETED: with packets; TIMED_OUT, STALL, OVERFLOW: without. *)
TransferCompleted(t) ==
    /\ Complete(t, "payload")
    /\ UNCHANGED <<running, fault>>

TransferRetried(t) ==
    /\ Complete(t, "resubmit")
    /\ UNCHANGED <<running, fault>>

(* CANCELLED, ERROR *)
TransferEnded(t) ==
    /\ Complete(t, "delete")
    /\ UNCHANGED <<running, fault>>

NoDevice(t) ==
    /\ ~attached
    /\ Complete(t, "delete")
    /\ running' = FALSE /\ fault' = TRUE

-----------------------------------------------------------------------------
(* _uvc_process_payload, _uvc_process_payload_iso. *)

(* Mutant of Swap: got_bytes is not reset. *)
SwapKeepsData(data, err) ==
    /\ hold' = [seq |-> seq, data |-> data, err |-> err]
    /\ Broadcast
    /\ seq' = seq + 1
    /\ outbuf' = data /\ bfh_err' = FALSE

(* Mutant of Swap: nobody is told. *)
SwapQuietly(data, err) ==
    /\ hold' = [seq |-> seq, data |-> data, err |-> err]
    /\ UNCHANGED <<api, caller>>
    /\ seq' = seq + 1
    /\ outbuf' = <<>> /\ bfh_err' = FALSE

(* _uvc_swap_buffers. What follows the critical section touches only what  *)
(* belongs to the event thread.                                            *)
Swap(data, err) ==
    /\ hold' = [seq |-> seq, data |-> data, err |-> err]
    /\ Broadcast
    /\ seq' = seq + 1
    /\ outbuf' = <<>> /\ bfh_err' = FALSE

KeepBuilding(data, err) ==
    /\ outbuf' = data /\ bfh_err' = err
    /\ UNCHANGED <<seq, hold, api, caller>>

(* An isochronous transfer has several packets, a bulk transfer has one. *)
AfterPacket == IF isochronous THEN {"payload", "resubmit"} ELSE {"resubmit"}

(* Mutant of FrameId: it is not masked. *)
FrameIdUnmasked(p) == p.frame

FrameId(p) == p.frame % 2

(* Mutant of EndsFrame: a toggled frame id does not end the frame. *)
NeverEnds(id) == FALSE

EndsFrame(id) == id # fid /\ outbuf # <<>>

(* The header of a packet: its frame id ends the frame before, if the      *)
(* camera did not.                                                         *)
ReceiveHeader ==
    /\ event = "payload"
    /\ \E p \in Packets : CameraSends(p) /\ packet' = p /\ fid' = FrameId(p)
    /\ event' = "data"
    /\ IF EndsFrame(fid')
       THEN Swap(outbuf, bfh_err)
       ELSE KeepBuilding(outbuf, bfh_err)
    /\ UNCHANGED <<running, transfers, current, last_seq, frame, delivered,
                   attached, isochronous, lost, fault>>

(* The packet did not arrive (its status is not 0, it has no buffer), or   *)
(* it is a bulk payload shorter than its header.                           *)
ReceiveBadPacket ==
    /\ event = "payload"
    /\ \E p \in Packets : CameraSends(p)
    /\ event' \in AfterPacket
    /\ bfh_err' = TRUE /\ Lost
    /\ UNCHANGED <<api, running, transfers, current, packet, outbuf, fid, seq, hold,
                   callerVars, attached, isochronous, fault>>

(* A packet with the error bit: isochronous ones are skipped, the bit of   *)
(* bulk ones is ignored.                                                   *)
ReceiveErrorBit ==
    /\ event = "payload" /\ isochronous
    /\ \E p \in Packets : CameraSends(p)
    /\ event' \in AfterPacket
    /\ Lost
    /\ UNCHANGED <<api, running, transfers, current, packet, buildVars, hold,
                   callerVars, attached, isochronous, fault>>

(* An isochronous packet shorter than its header: noticed after the frame  *)
(* id.                                                                     *)
ReceiveBogusPacket ==
    /\ event = "data" /\ isochronous
    /\ event' \in AfterPacket
    /\ packet' = NoPacket
    /\ bfh_err' = TRUE /\ Lost
    /\ UNCHANGED <<api, running, transfers, current, outbuf, fid, seq, hold, callerVars,
                   worldVars, fault>>

(* The data of the packet, and its end-of-frame bit. A bulk packet without *)
(* data cannot end a frame, and one that does not fit is dropped. The      *)
(* isochronous code asserts that it fits.                                  *)
AppendData ==
    LET fits == isochronous \/ Len(outbuf) + 1 < SIZE_BUF
        data == IF packet.part # 0 /\ fits
                THEN Append(outbuf, [frame |-> packet.frame, part |-> packet.part])
                ELSE outbuf
        err == bfh_err \/ (packet.part # 0 /\ ~fits)
        ends == packet.eof /\ (IF isochronous THEN data # <<>> ELSE packet.part # 0)
    IN  /\ event = "data"
        /\ event' \in AfterPacket
        /\ packet' = NoPacket
        /\ IF ends THEN Swap(data, err) ELSE KeepBuilding(data, err)
        /\ UNCHANGED <<running, transfers, current, fid, last_seq, frame, delivered,
                       worldVars, lost, fault>>

EndOfPayload ==
    /\ event = "payload"
    /\ event' = "resubmit"
    /\ UNCHANGED <<api, running, transfers, current, packet, buildVars, hold,
                   callerVars, worldVars, lost, fault>>

-----------------------------------------------------------------------------
(* The end of _uvc_stream_callback. *)

(* running is read here, the transfer is submitted afterwards. *)
TestRunning ==
    /\ event = "resubmit"
    /\ event' = IF running THEN "submit" ELSE "delete"
    /\ UNCHANGED <<api, running, transfers, current, packet, buildVars, hold,
                   callerVars, worldVars, lost, fault>>

(* The result of libusb_submit_transfer is ignored. *)
Resubmit ==
    /\ event = "submit"
    /\ \E result \in {"flight", "stranded"} :
          /\ result = "flight" => attached
          /\ result = "stranded" => ~attached \/ SubmitsFail
          /\ transfers' = [transfers EXCEPT ![current] = result]
    /\ event' = "idle" /\ current' = NoTransfer
    /\ UNCHANGED <<api, running, packet, buildVars, hold, callerVars, worldVars,
                   lost, fault>>

(* Mutant of DeleteTransfer: the stop that waits is not told. *)
DeleteTransferQuietly ==
    /\ event = "delete"
    /\ transfers' = [transfers EXCEPT ![current] = "null"]
    /\ UNCHANGED <<api, caller>>
    /\ event' = "idle" /\ current' = NoTransfer
    /\ UNCHANGED <<running, packet, buildVars, hold, last_seq, frame, delivered,
                   worldVars, lost, fault>>

(* _uvc_delete_transfer *)
DeleteTransfer ==
    /\ event = "delete"
    /\ transfers' = [transfers EXCEPT ![current] = "null"]
    /\ Broadcast
    /\ event' = "idle" /\ current' = NoTransfer
    /\ UNCHANGED <<running, packet, buildVars, hold, last_seq, frame, delivered,
                   worldVars, lost, fault>>

-----------------------------------------------------------------------------
(* The user callback thread: _uvc_user_caller. *)

(* Wait for a frame, then copy it, unless it is damaged. The first frame   *)
(* of a stream has the number 0, as last_seq has: it is never taken.       *)
TakeFrame ==
    /\ caller = "loop" /\ api # "abandoned"
    /\ IF ~running
       THEN caller' = "dead" /\ UNCHANGED <<last_seq, frame>>
       ELSE IF last_seq = hold.seq
       THEN caller' = "waiting" /\ UNCHANGED <<last_seq, frame>>
       ELSE /\ caller' = "call"
            /\ last_seq' = hold.seq
            /\ frame' = IF hold.err THEN frame ELSE hold.seq
    /\ UNCHANGED <<api, running, transfers, eventVars, buildVars, hold, delivered,
                   worldVars, lost, fault>>

(* hold_bfh_err is read again, now without the mutex: it may be that of a  *)
(* later frame. A frame never filled in has no data and number 0. The      *)
(* handle of an abandoned stream is freed memory, which may say anything.  *)
CallUser ==
    /\ caller = "call"
    /\ caller' = "loop"
    /\ \/ (~hold.err \/ api = "abandoned") /\ delivered' = frame
       \/ (hold.err \/ api = "abandoned") /\ UNCHANGED delivered
    /\ UNCHANGED <<api, running, transfers, eventVars, buildVars, hold, last_seq, frame,
                   worldVars, lost, fault>>

-----------------------------------------------------------------------------
(* The caller: uvc_start_streaming_bandwidth, uvc_stop_streaming. *)

(* uvc_stream_open_ctrl, and the beginning of uvc_stream_start_bandwidth.  *)
(* The camera may be in the middle of a frame.                             *)
OpenStream ==
    /\ api = "closed" /\ attached
    /\ api' = "setup"
    /\ running' = TRUE
    /\ isochronous' \in BOOLEAN
    /\ camera' \in [frame : {1}, part : {1, PARTS}]
    /\ UNCHANGED <<transfers, eventVars, buildVars, hold, callerVars, attached, lost,
                   fault>>

(* No format, no bandwidth: nothing has been created. *)
SetupFails ==
    /\ api = "setup"
    /\ api' = "freeing"
    /\ running' = FALSE
    /\ UNCHANGED <<transfers, eventVars, buildVars, hold, callerVars, worldVars, lost,
                   fault>>

CreateCallbackThread ==
    /\ api = "setup"
    /\ api' = "submitting"
    /\ transfers' = [t \in Transfers |-> "new"]
    /\ caller' = "loop"
    /\ UNCHANGED <<running, eventVars, buildVars, hold, last_seq, frame, delivered,
                   worldVars, lost, fault>>

SubmitTransfer(t) ==
    /\ api = "submitting" /\ attached
    /\ transfers[t] = "new"
    /\ transfers' = [transfers EXCEPT ![t] = "flight"]
    /\ UNCHANGED <<api, running, eventVars, buildVars, hold, callerVars, worldVars,
                   lost, fault>>

SubmitFails(t) ==
    /\ api = "submitting" /\ (SubmitsFail \/ ~attached)
    /\ transfers[t] = "new"
    /\ api' = "startFails"
    /\ UNCHANGED <<running, transfers, eventVars, buildVars, hold, callerVars,
                   worldVars, lost, fault>>

(* running is reset, nobody is told; the close that follows finds it reset.*)
StartFails ==
    /\ api = "startFails"
    /\ api' = "freeing"
    /\ running' = FALSE /\ fault' = TRUE
    /\ UNCHANGED <<transfers, eventVars, buildVars, hold, callerVars, worldVars, lost>>

StartReturns ==
    /\ api = "submitting"
    /\ \A t \in Transfers : transfers[t] # "new"
    /\ api' = "streaming"
    /\ UNCHANGED <<running, transfers, eventVars, buildVars, hold, callerVars,
                   worldVars, lost, fault>>

(* uvc_stream_close stops a stream only if it is running. *)
CloseStream ==
    /\ api = "streaming"
    /\ api' = IF running THEN "cancelling" ELSE "freeing"
    /\ running' = FALSE
    /\ UNCHANGED <<transfers, eventVars, buildVars, hold, callerVars, worldVars, lost,
                   fault>>

AllNull(ts) == \A t \in Transfers : ts[t] = "null"

(* Mutant of WaitForTransfers: the stop does not wait. *)
GoOn(ts) == api' = "joining" /\ caller' = AwakeCaller(caller)

(* The loop of uvc_stream_stop, and the broadcast at its end. *)
WaitForTransfers(ts) ==
    IF AllNull(ts)
    THEN api' = "joining" /\ caller' = AwakeCaller(caller)
    ELSE api' = "waiting" /\ UNCHANGED caller

CancelTransfers ==
    /\ api = "cancelling"
    /\ transfers' = [t \in Transfers |->
                        IF transfers[t] = "flight" THEN "cancelled" ELSE transfers[t]]
    /\ WaitForTransfers(transfers')
    /\ UNCHANGED <<running, eventVars, buildVars, hold, last_seq, frame, delivered,
                   worldVars, lost, fault>>

WaitAgain ==
    /\ api = "woken"
    /\ WaitForTransfers(transfers)
    /\ UNCHANGED <<running, transfers, eventVars, buildVars, hold, last_seq, frame,
                   delivered, worldVars, lost, fault>>

(* Mutant of JoinCallbackThread: the thread is not waited for. *)
DetachCallbackThread ==
    /\ api = "joining"
    /\ api' = "freeing"
    /\ UNCHANGED <<running, transfers, eventVars, buildVars, hold, callerVars,
                   worldVars, lost, fault>>

JoinCallbackThread ==
    /\ api = "joining" /\ caller = "dead"
    /\ api' = "freeing"
    /\ UNCHANGED <<running, transfers, eventVars, buildVars, hold, callerVars,
                   worldVars, lost, fault>>

(* Nothing uses the handle any more. *)
Quiet == AllNull(transfers) /\ caller \in {"none", "dead"}

(* The handle is freed. A new stream has a new one, all of it zero. If the *)
(* old one is still in use, what follows is undefined.                     *)
FreeStream ==
    /\ api = "freeing"
    /\ IF Quiet
       THEN /\ api' = "closed"
            /\ packet' = NoPacket
            /\ outbuf' = <<>> /\ fid' = 0 /\ bfh_err' = FALSE /\ seq' = 0
            /\ hold' = Nothing
            /\ caller' = "none" /\ last_seq' = 0 /\ frame' = 0
            /\ lost' = 0 /\ fault' = FALSE /\ delivered' = 0
       ELSE /\ api' = "abandoned"
            /\ UNCHANGED <<packet, buildVars, hold, callerVars, lost, fault>>
    /\ UNCHANGED <<running, transfers, event, current, worldVars>>

-----------------------------------------------------------------------------
Callback(t) ==
    api # "abandoned" /\
        (TransferCompleted(t) \/ TransferRetried(t) \/ TransferEnded(t) \/ NoDevice(t))

(* One step of a callback under way. *)
EventThread ==
    api # "abandoned" /\
        (\/ ReceiveHeader \/ ReceiveBadPacket \/ ReceiveErrorBit \/ ReceiveBogusPacket
         \/ AppendData \/ EndOfPayload \/ TestRunning \/ Resubmit \/ DeleteTransfer)

UserThread == TakeFrame \/ CallUser

Start ==
    \/ OpenStream \/ SetupFails \/ CreateCallbackThread
    \/ \E t \in Transfers : SubmitTransfer(t) \/ SubmitFails(t)
    \/ StartFails \/ StartReturns

Stop == CancelTransfers \/ WaitAgain \/ JoinCallbackThread \/ FreeStream

Next ==
    \/ \E t \in Transfers : Callback(t)
    \/ EventThread \/ UserThread \/ Start \/ CloseStream \/ Stop
    \/ LosePacket \/ Unplug \/ SpuriousWakeup

Spec == Init /\ [][Next]_vars

-----------------------------------------------------------------------------
(* Properties. *)

(* _uvc_process_payload: as long as no packet is lost, what the callback   *)
(* thread takes (any frame on hold but the first) is one whole frame of    *)
(* the camera, wherever in a frame the stream began and whatever           *)
(* end-of-frame bits there are.                                            *)
WholeFrames ==
    hold.seq # 0 /\ ~hold.err /\ lost = 0 =>
        \E n \in 1..MaxFrames :
            hold.data = [k \in 1..PARTS |-> [frame |-> n, part |-> k]]

(* Also with losses: the data are in order, and data of two frames are     *)
(* joined only if at least one whole frame between them was lost.          *)
JoinedOnlyAcrossLoss ==
    \A i \in 1..Len(hold.data) - 1 :
        LET a == hold.data[i]
            b == hold.data[i + 1]
        IN  \/ a.frame = b.frame /\ a.part < b.part
            \/ lost > 0 /\ a.frame + 2 <= b.frame

(* uvc_stream_close: when nothing went wrong no transfer and no thread is  *)
(* left that could use the freed handle.                                   *)
AbandonedOnlyAfterFault == api = "abandoned" => fault

(* What the user of a stream relies on. *)
Source == INSTANCE FrameSource WITH
    phase <- CASE api = "closed" -> "off"
               [] api = "abandoned" -> "abandoned"
               [] OTHER -> "on",
    last <- delivered

ImplementsSource == Source!Spec

=============================================================================
