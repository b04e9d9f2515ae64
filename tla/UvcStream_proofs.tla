-------------------------- MODULE UvcStream_proofs --------------------------
(***************************************************************************)
(* Proofs about UvcStream, for any transfers, sizes of frames and bounds:  *)
(* the types, and that a stream implements FrameSource.                    *)
(***************************************************************************)
EXTENDS UvcStream, TLAPS

(* The event thread handles one transfer, which is then "callback". *)
Handling == event # "idle" => current \in Transfers /\ transfers[current] = "callback"

(* Without a stream nothing is left of the one before. *)
ClosedIsClean ==
    /\ api \in {"closed", "setup"} => AllNull(transfers) /\ caller = "none"
    /\ api = "closed" => ~fault /\ delivered = 0

(* running is reset by the caller, or by a fault. *)
RunningUnlessFault ==
    api \in {"setup", "submitting", "startFails", "streaming"} =>
        running \/ (fault /\ api # "setup")

(* What the caller relies on when it frees the handle. *)
FreedQuietly ==
    /\ api = "joining" => AllNull(transfers)
    /\ api = "freeing" => fault \/ Quiet

(* Frames are numbered as they are finished, held, copied and delivered.   *)
NumbersOrdered == delivered <= frame /\ frame <= hold.seq /\ hold.seq <= seq

StreamInv ==
    /\ TypeOK
    /\ Handling /\ ClosedIsClean /\ RunningUnlessFault /\ FreedQuietly
    /\ AbandonedOnlyAfterFault /\ NumbersOrdered

ControlParts ==
    Handling /\ ClosedIsClean /\ RunningUnlessFault /\ FreedQuietly /\ AbandonedOnlyAfterFault

(* The data of a frame are a sequence, empty or longer by one packet.      *)
LEMMA DataTyped ==
    /\ <<>> \in Data
    /\ \A data \in Data, n \in Nat, k \in 1..PARTS :
          Append(data, [frame |-> n, part |-> k]) \in Data
  <1> DEFINE S == [frame : Nat, part : 1..PARTS]
  <1>1. <<>> \in Seq(S)
    OBVIOUS
  <1>2. ASSUME NEW data \in Seq(S), NEW e \in S
        PROVE  Append(data, e) \in Seq(S)
    OBVIOUS
  <1>3. ASSUME NEW n \in Nat, NEW k \in 1..PARTS
        PROVE  [frame |-> n, part |-> k] \in S
    OBVIOUS
  <1> HIDE DEF S
  <1>4. Data = Seq(S)
    BY DEF Data, S
  <1> QED BY <1>1, <1>2, <1>3, <1>4

LEMMA FrameIdTyped ==
    ASSUME NEW p \in [frame : Nat, part : 0..PARTS, eof : BOOLEAN]
    PROVE  FrameId(p) \in 0..1
  BY DEF FrameId

(* The camera sends one of its packets and goes on. *)
LEMMA CameraTyped ==
    ASSUME TypeOK, NEW p \in Packets, CameraSends(p)
    PROVE  /\ p \in [frame : Nat, part : 0..PARTS, eof : BOOLEAN]
           /\ camera' \in [frame : Nat, part : 1..PARTS + 1]
  BY UvcStreamAssumption
     DEF TypeOK, Packets, CameraSends, Packet, ThenPart, ThenFrame

LEMMA AwakeTyped ==
    /\ \A pc \in ApiPcs : Awake(pc) \in ApiPcs
    /\ \A pc \in CallerPcs : AwakeCaller(pc) \in CallerPcs
  BY DEF Awake, AwakeCaller, ApiPcs, CallerPcs

(* A frame is finished, or built on. *)
LEMMA SwapTyped ==
    ASSUME TypeOK, NEW data \in Data, NEW err \in BOOLEAN,
           Swap(data, err) \/ KeepBuilding(data, err)
    PROVE  /\ api' \in ApiPcs /\ caller' \in CallerPcs
           /\ outbuf' \in Data /\ bfh_err' \in BOOLEAN /\ seq' \in Nat
           /\ hold' \in [seq : Nat, data : Data, err : BOOLEAN]
  <1>1. CASE Swap(data, err)
    <2>1. api' \in ApiPcs /\ caller' \in CallerPcs
      BY <1>1, AwakeTyped DEF TypeOK, Swap, Broadcast
    <2>2. outbuf' \in Data
      <3>1. outbuf' = <<>>
        BY <1>1 DEF Swap
      <3>2. <<>> \in Data
        BY DataTyped
      <3> QED BY <3>1, <3>2
    <2>4. bfh_err' \in BOOLEAN
      BY <1>1, Zenon DEF Swap
    <2>5. seq' \in Nat
      BY <1>1 DEF TypeOK, Swap
    <2>3. hold' \in [seq : Nat, data : Data, err : BOOLEAN]
      BY <1>1 DEF TypeOK, Swap
    <2> QED BY <2>1, <2>2, <2>3, <2>4, <2>5
  <1>2. CASE KeepBuilding(data, err)
    <2>1. api' = api /\ caller' = caller /\ seq' = seq /\ hold' = hold
      BY <1>2 DEF KeepBuilding
    <2>2. outbuf' = data /\ bfh_err' = err
      BY <1>2 DEF KeepBuilding
    <2> QED BY <2>1, <2>2 DEF TypeOK
  <1> QED BY <1>1, <1>2

LEMMA InitStream == Init => StreamInv
  <1> SUFFICES ASSUME Init PROVE StreamInv
    OBVIOUS
  <1>0. <<>> \in Data
    BY DataTyped
  <1>1. outbuf \in Data /\ hold.seq = 0
    BY <1>0 DEF Init, Nothing
  <1>2. transfers \in [Transfers -> TransferStates]
    BY DEF Init, TransferStates
  <1>3. camera \in [frame : Nat, part : 1..PARTS + 1]
    BY UvcStreamAssumption DEF Init
  <1>4. packet \in [frame : Nat, part : 0..PARTS, eof : BOOLEAN]
    BY UvcStreamAssumption DEF Init, NoPacket
  <1>5. hold \in [seq : Nat, data : Data, err : BOOLEAN]
    BY <1>0 DEF Init, Nothing
  <1>b. /\ attached \in BOOLEAN /\ running \in BOOLEAN /\ isochronous \in BOOLEAN
        /\ bfh_err \in BOOLEAN /\ fault \in BOOLEAN
    BY Zenon DEF Init
  <1>n. /\ fid \in 0..1 /\ seq \in Nat /\ last_seq \in Nat /\ delivered \in Nat
        /\ frame \in Nat /\ lost \in Nat
    BY DEF Init
  <1>p. /\ api \in ApiPcs /\ event \in EventPcs /\ caller \in CallerPcs
        /\ current \in Transfers \cup {NoTransfer}
    BY DEF Init, ApiPcs, EventPcs, CallerPcs
  <1>6. TypeOK
    BY <1>1, <1>2, <1>3, <1>4, <1>5, <1>b, <1>n, <1>p DEF TypeOK
  <1>7. ControlParts
    BY DEF Init, ControlParts, Handling, ClosedIsClean, RunningUnlessFault, FreedQuietly,
           AbandonedOnlyAfterFault, AllNull
  <1>8. NumbersOrdered
    BY <1>1 DEF Init, NumbersOrdered
  <1> QED BY <1>6, <1>7, <1>8 DEF StreamInv, ControlParts

(* Every step keeps the types. *)
LEMMA NextType ==
    ASSUME StreamInv, Next
    PROVE  TypeOK'
  <1>1. ASSUME NEW t \in Transfers, TransferCompleted(t) PROVE TypeOK'
    BY <1>1
       DEF StreamInv, TypeOK, EventPcs, TransferStates, TransferCompleted,
           buildVars, callerVars, worldVars, Complete
  <1>2. ASSUME NEW t \in Transfers, TransferRetried(t) PROVE TypeOK'
    BY <1>2
       DEF StreamInv, TypeOK, EventPcs, TransferStates, TransferRetried,
           buildVars, callerVars, worldVars, Complete
  <1>3. ASSUME NEW t \in Transfers, TransferEnded(t) PROVE TypeOK'
    BY <1>3
       DEF StreamInv, TypeOK, EventPcs, TransferStates, TransferEnded,
           buildVars, callerVars, worldVars, Complete
  <1>4. ASSUME NEW t \in Transfers, NoDevice(t) PROVE TypeOK'
    BY <1>4
       DEF StreamInv, TypeOK, EventPcs, TransferStates, NoDevice, buildVars,
           callerVars, worldVars, Complete
  <1>5. CASE ReceiveHeader
    <2>1. PICK p \in Packets : CameraSends(p) /\ packet' = p /\ fid' = FrameId(p)
      BY <1>5 DEF ReceiveHeader
    <2>2. /\ packet' \in [frame : Nat, part : 0..PARTS, eof : BOOLEAN]
          /\ camera' \in [frame : Nat, part : 1..PARTS + 1]
      BY <2>1, CameraTyped DEF StreamInv
    <2>3. fid' \in 0..1
      BY <2>1, <2>2, FrameIdTyped
    <2>4. Swap(outbuf, bfh_err) \/ KeepBuilding(outbuf, bfh_err)
      BY <1>5 DEF ReceiveHeader
    <2>5. outbuf \in Data /\ bfh_err \in BOOLEAN
      BY DEF StreamInv, TypeOK
    <2>6. /\ api' \in ApiPcs /\ caller' \in CallerPcs
          /\ outbuf' \in Data /\ bfh_err' \in BOOLEAN /\ seq' \in Nat
          /\ hold' \in [seq : Nat, data : Data, err : BOOLEAN]
      BY <2>4, <2>5, SwapTyped DEF StreamInv
    <2>7. event' \in EventPcs
      BY <1>5 DEF ReceiveHeader, EventPcs
    <2> QED
      BY <1>5, <2>2, <2>3, <2>6, <2>7
         DEF StreamInv, TypeOK, ReceiveHeader
  <1>6. CASE ReceiveBadPacket
    <2>1. camera' \in [frame : Nat, part : 1..PARTS + 1]
      BY <1>6, CameraTyped DEF StreamInv, ReceiveBadPacket
    <2>2. event' \in EventPcs
      BY <1>6 DEF ReceiveBadPacket, AfterPacket, EventPcs
    <2>3. lost' \in Nat
      BY <1>6 DEF StreamInv, TypeOK, ReceiveBadPacket, Lost
    <2>4. bfh_err' \in BOOLEAN
      BY <1>6, Zenon DEF ReceiveBadPacket
    <2> QED
      BY <1>6, <2>1, <2>2, <2>3, <2>4
         DEF StreamInv, TypeOK, ReceiveBadPacket, callerVars
  <1>7. CASE ReceiveErrorBit
    <2>1. camera' \in [frame : Nat, part : 1..PARTS + 1]
      BY <1>7, CameraTyped DEF StreamInv, ReceiveErrorBit
    <2>2. event' \in EventPcs
      BY <1>7 DEF ReceiveErrorBit, AfterPacket, EventPcs
    <2>3. lost' \in Nat
      BY <1>7 DEF StreamInv, TypeOK, ReceiveErrorBit, Lost
    <2> QED
      BY <1>7, <2>1, <2>2, <2>3
         DEF StreamInv, TypeOK, ReceiveErrorBit, callerVars, buildVars
  <1>8. CASE ReceiveBogusPacket
    <2>1. packet' \in [frame : Nat, part : 0..PARTS, eof : BOOLEAN]
      BY <1>8, UvcStreamAssumption DEF ReceiveBogusPacket, NoPacket
    <2>2. event' \in EventPcs
      BY <1>8 DEF ReceiveBogusPacket, AfterPacket, EventPcs
    <2>3. lost' \in Nat
      BY <1>8 DEF StreamInv, TypeOK, ReceiveBogusPacket, Lost
    <2>4. bfh_err' \in BOOLEAN
      BY <1>8, Zenon DEF ReceiveBogusPacket
    <2> QED
      BY <1>8, <2>1, <2>2, <2>3, <2>4
         DEF StreamInv, TypeOK, ReceiveBogusPacket, callerVars, worldVars
  <1>9. CASE AppendData
    <2>1. \E data \in Data, err \in BOOLEAN :
              Swap(data, err) \/ KeepBuilding(data, err)
      <3> DEFINE fits == isochronous \/ Len(outbuf) + 1 < SIZE_BUF
                 more == packet.part # 0 /\ fits
                 grown == Append(outbuf, [frame |-> packet.frame, part |-> packet.part])
                 data == IF more THEN grown ELSE outbuf
                 err == bfh_err \/ (packet.part # 0 /\ ~fits)
      <3>1. packet.frame \in Nat /\ packet.part \in 0..PARTS /\ outbuf \in Data
        BY DEF StreamInv, TypeOK
      <3>2. packet.part # 0 => packet.part \in 1..PARTS
        BY <3>1, UvcStreamAssumption
      <3>3. more => grown \in Data
        BY <3>1, <3>2, DataTyped
      <3>4. data \in Data
        BY <3>1, <3>3
      <3>5. err \in BOOLEAN
        BY Zenon DEF StreamInv, TypeOK
      <3>6. Swap(data, err) \/ KeepBuilding(data, err)
        BY <1>9 DEF AppendData
      <3> QED BY <3>4, <3>5, <3>6
    <2>2. /\ api' \in ApiPcs /\ caller' \in CallerPcs
          /\ outbuf' \in Data /\ bfh_err' \in BOOLEAN /\ seq' \in Nat
          /\ hold' \in [seq : Nat, data : Data, err : BOOLEAN]
      BY <2>1, SwapTyped DEF StreamInv
    <2>3. packet' \in [frame : Nat, part : 0..PARTS, eof : BOOLEAN]
      BY <1>9, UvcStreamAssumption DEF AppendData, NoPacket
    <2>4. event' \in EventPcs
      BY <1>9 DEF AppendData, AfterPacket, EventPcs
    <2>5. UNCHANGED <<running, transfers, current, fid, last_seq, frame, delivered,
                      worldVars, lost, fault>>
      BY <1>9 DEF AppendData
    <2> QED
      BY <2>2, <2>3, <2>4, <2>5 DEF StreamInv, TypeOK, worldVars
  <1>10. CASE EndOfPayload
    BY <1>10
       DEF StreamInv, TypeOK, EventPcs, EndOfPayload, buildVars, callerVars,
           worldVars
  <1>11. CASE TestRunning
    BY <1>11
       DEF StreamInv, TypeOK, EventPcs, TestRunning, buildVars, callerVars,
           worldVars
  <1>12. CASE Resubmit
    <2>1. PICK result \in {"flight", "stranded"} :
              transfers' = [transfers EXCEPT ![current] = result]
      BY <1>12 DEF Resubmit
    <2>2. transfers' \in [Transfers -> TransferStates]
      BY <2>1 DEF StreamInv, TypeOK, TransferStates
    <2>3. event' \in EventPcs /\ current' \in Transfers \cup {NoTransfer}
      BY <1>12 DEF Resubmit, EventPcs
    <2> QED
      BY <1>12, <2>2, <2>3
         DEF StreamInv, TypeOK, Resubmit, buildVars, callerVars, worldVars
  <1>13. CASE DeleteTransfer
    BY <1>13
       DEF StreamInv, TypeOK, ApiPcs, EventPcs, CallerPcs, TransferStates,
           DeleteTransfer, buildVars, worldVars, Broadcast, Awake, AwakeCaller
  <1>14. CASE TakeFrame
    BY <1>14
       DEF StreamInv, TypeOK, CallerPcs, TakeFrame, eventVars, buildVars,
           worldVars
  <1>15. CASE CallUser
    BY <1>15
       DEF StreamInv, TypeOK, CallerPcs, CallUser, eventVars, buildVars,
           worldVars
  <1>16. CASE OpenStream
    <2>1. camera' \in [frame : Nat, part : 1..PARTS + 1]
      BY <1>16, UvcStreamAssumption DEF OpenStream
    <2>2. running' \in BOOLEAN /\ isochronous' \in BOOLEAN
      BY <1>16, Zenon DEF OpenStream
    <2>3. api' \in ApiPcs
      BY <1>16 DEF OpenStream, ApiPcs
    <2> QED
      BY <1>16, <2>1, <2>2, <2>3
         DEF StreamInv, TypeOK, OpenStream, eventVars, buildVars, callerVars
  <1>17. CASE SetupFails
    <2>1. running' \in BOOLEAN
      BY <1>17, Zenon DEF SetupFails
    <2>2. api' \in ApiPcs
      BY <1>17 DEF SetupFails, ApiPcs
    <2> QED
      BY <1>17, <2>1, <2>2
         DEF StreamInv, TypeOK, SetupFails, eventVars, buildVars, callerVars, worldVars
  <1>18. CASE CreateCallbackThread
    BY <1>18
       DEF StreamInv, TypeOK, ApiPcs, CallerPcs, TransferStates,
           CreateCallbackThread, eventVars, buildVars, worldVars
  <1>19. ASSUME NEW t \in Transfers, SubmitTransfer(t) PROVE TypeOK'
    BY <1>19
       DEF StreamInv, TypeOK, TransferStates, SubmitTransfer, eventVars,
           buildVars, callerVars, worldVars
  <1>20. ASSUME NEW t \in Transfers, SubmitFails(t) PROVE TypeOK'
    BY <1>20
       DEF StreamInv, TypeOK, ApiPcs, SubmitFails, eventVars, buildVars,
           callerVars, worldVars
  <1>21. CASE StartFails
    BY <1>21
       DEF StreamInv, TypeOK, ApiPcs, StartFails, eventVars, buildVars,
           callerVars, worldVars
  <1>22. CASE StartReturns
    BY <1>22
       DEF StreamInv, TypeOK, ApiPcs, StartReturns, eventVars, buildVars,
           callerVars, worldVars
  <1>23. CASE CloseStream
    <2>1. running' \in BOOLEAN
      BY <1>23, Zenon DEF CloseStream
    <2>2. api' \in ApiPcs
      BY <1>23 DEF CloseStream, ApiPcs
    <2> QED
      BY <1>23, <2>1, <2>2
         DEF StreamInv, TypeOK, CloseStream, eventVars, buildVars, callerVars, worldVars
  <1>24. CASE CancelTransfers
    BY <1>24
       DEF StreamInv, TypeOK, ApiPcs, CallerPcs, TransferStates,
           CancelTransfers, eventVars, buildVars, worldVars, WaitForTransfers,
           AwakeCaller
  <1>25. CASE WaitAgain
    BY <1>25
       DEF StreamInv, TypeOK, ApiPcs, CallerPcs, WaitAgain, eventVars,
           buildVars, worldVars, WaitForTransfers, AwakeCaller
  <1>26. CASE JoinCallbackThread
    BY <1>26
       DEF StreamInv, TypeOK, ApiPcs, JoinCallbackThread, eventVars, buildVars,
           callerVars, worldVars
  <1>27. CASE FreeStream
    <2>1. CASE Quiet
      <3>1. packet' \in [frame : Nat, part : 0..PARTS, eof : BOOLEAN]
        <4>1. packet' = NoPacket
          BY <1>27, <2>1 DEF FreeStream
        <4>2. NoPacket \in [frame : Nat, part : 0..PARTS, eof : BOOLEAN]
          BY UvcStreamAssumption DEF NoPacket
        <4> QED BY <4>1, <4>2
      <3>2. outbuf' = <<>> /\ hold' = Nothing
        BY <1>27, <2>1 DEF FreeStream
      <3>5. outbuf' \in Data
        BY <3>2, DataTyped
      <3>6. hold' \in [seq : Nat, data : Data, err : BOOLEAN]
        <4>1. <<>> \in Data
          BY DataTyped
        <4>2. Nothing \in [seq : Nat, data : Data, err : BOOLEAN]
          BY <4>1 DEF Nothing
        <4> QED BY <3>2, <4>2
      <3>3. bfh_err' \in BOOLEAN /\ fault' \in BOOLEAN
        BY <1>27, <2>1, Zenon DEF FreeStream
      <3>4. /\ api' \in ApiPcs /\ caller' \in CallerPcs
            /\ fid' \in 0..1 /\ seq' \in Nat /\ last_seq' \in Nat
            /\ delivered' \in Nat /\ frame' \in Nat /\ lost' \in Nat
        BY <1>27, <2>1 DEF FreeStream, ApiPcs, CallerPcs
      <3> QED
        BY <1>27, <3>1, <3>5, <3>6, <3>3, <3>4 DEF StreamInv, TypeOK, FreeStream, worldVars
    <2>2. CASE ~Quiet
      BY <1>27, <2>2
         DEF StreamInv, TypeOK, FreeStream, ApiPcs, buildVars, callerVars, worldVars
    <2> QED BY <2>1, <2>2
  <1>28. CASE LosePacket
    <2>1. camera' \in [frame : Nat, part : 1..PARTS + 1]
      BY <1>28, CameraTyped DEF StreamInv, LosePacket
    <2>3. lost' \in Nat
      BY <1>28 DEF StreamInv, TypeOK, LosePacket, Lost
    <2> QED
      BY <1>28, <2>1, <2>3
         DEF StreamInv, TypeOK, LosePacket, eventVars, buildVars, callerVars
  <1>29. CASE Unplug
    <2>1. attached' \in BOOLEAN
      BY <1>29, Zenon DEF Unplug
    <2> QED
      BY <1>29, <2>1
         DEF StreamInv, TypeOK, Unplug, eventVars, buildVars, callerVars
  <1>30. CASE SpuriousWakeup
    BY <1>30
       DEF StreamInv, TypeOK, ApiPcs, CallerPcs, SpuriousWakeup, eventVars,
           buildVars, worldVars, Awake, AwakeCaller
  <1> QED
    BY <1>1, <1>2, <1>3, <1>4, <1>5, <1>6, <1>7, <1>8, <1>9, <1>10, <1>11,
       <1>12, <1>13, <1>14, <1>15, <1>16, <1>17, <1>18, <1>19, <1>20, <1>21,
       <1>22, <1>23, <1>24, <1>25, <1>26, <1>27, <1>28, <1>29, <1>30
       DEF Next, Callback, EventThread, UserThread, Start, Stop

(* Every step keeps what the threads rely on: a transfer is handled once, and
a stream is closed with nothing left of it unless a fault was met. *)
LEMMA NextControl ==
    ASSUME StreamInv, Next
    PROVE  ControlParts'
  <1> USE DEF StreamInv, ControlParts, Handling, ClosedIsClean, RunningUnlessFault,
              FreedQuietly, AbandonedOnlyAfterFault, AllNull, Quiet
  <1>1. ASSUME NEW t \in Transfers, TransferCompleted(t) PROVE ControlParts'
    BY <1>1
       DEF TypeOK, TransferCompleted, buildVars, callerVars, worldVars, Complete
  <1>2. ASSUME NEW t \in Transfers, TransferRetried(t) PROVE ControlParts'
    BY <1>2
       DEF TypeOK, TransferRetried, buildVars, callerVars, worldVars, Complete
  <1>3. ASSUME NEW t \in Transfers, TransferEnded(t) PROVE ControlParts'
    BY <1>3
       DEF TypeOK, TransferEnded, buildVars, callerVars, worldVars, Complete
  <1>4. ASSUME NEW t \in Transfers, NoDevice(t) PROVE ControlParts'
    BY <1>4 DEF TypeOK, NoDevice, buildVars, callerVars, worldVars, Complete
  <1>5. CASE ReceiveHeader
    BY <1>5 DEF ReceiveHeader, Swap, KeepBuilding, Broadcast, Awake, AwakeCaller
  <1>6. CASE ReceiveBadPacket
    BY <1>6 DEF ReceiveBadPacket, callerVars, Lost
  <1>7. CASE ReceiveErrorBit
    BY <1>7 DEF ReceiveErrorBit, buildVars, callerVars, Lost
  <1>8. CASE ReceiveBogusPacket
    BY <1>8 DEF ReceiveBogusPacket, callerVars, worldVars, Lost
  <1>9. CASE AppendData
    BY <1>9
       DEF AppendData, worldVars, Swap, KeepBuilding, Broadcast, Awake,
           AwakeCaller
  <1>10. CASE EndOfPayload
    BY <1>10 DEF EndOfPayload, buildVars, callerVars, worldVars
  <1>11. CASE TestRunning
    BY <1>11 DEF TestRunning, buildVars, callerVars, worldVars
  <1>12. CASE Resubmit
    BY <1>12 DEF TypeOK, Resubmit, buildVars, callerVars, worldVars
  <1>13. CASE DeleteTransfer
    BY <1>13
       DEF TypeOK, DeleteTransfer, buildVars, worldVars, Broadcast, Awake,
           AwakeCaller
  <1>14. CASE TakeFrame
    BY <1>14 DEF TakeFrame, eventVars, buildVars, worldVars
  <1>15. CASE CallUser
    BY <1>15 DEF CallUser, eventVars, buildVars, worldVars
  <1>16. CASE OpenStream
    BY <1>16 DEF OpenStream, eventVars, buildVars, callerVars
  <1>17. CASE SetupFails
    BY <1>17 DEF SetupFails, eventVars, buildVars, callerVars, worldVars
  <1>18. CASE CreateCallbackThread
    BY <1>18 DEF TypeOK, CreateCallbackThread, eventVars, buildVars, worldVars
  <1>19. ASSUME NEW t \in Transfers, SubmitTransfer(t) PROVE ControlParts'
    BY <1>19
       DEF TypeOK, SubmitTransfer, eventVars, buildVars, callerVars, worldVars
  <1>20. ASSUME NEW t \in Transfers, SubmitFails(t) PROVE ControlParts'
    BY <1>20 DEF SubmitFails, eventVars, buildVars, callerVars, worldVars
  <1>21. CASE StartFails
    BY <1>21 DEF StartFails, eventVars, buildVars, callerVars, worldVars
  <1>22. CASE StartReturns
    BY <1>22 DEF StartReturns, eventVars, buildVars, callerVars, worldVars
  <1>23. CASE CloseStream
    BY <1>23 DEF CloseStream, eventVars, buildVars, callerVars, worldVars
  <1>24. CASE CancelTransfers
    BY <1>24
       DEF TypeOK, CancelTransfers, eventVars, buildVars, worldVars,
           WaitForTransfers, AwakeCaller
  <1>25. CASE WaitAgain
    BY <1>25
       DEF WaitAgain, eventVars, buildVars, worldVars, WaitForTransfers,
           AwakeCaller
  <1>26. CASE JoinCallbackThread
    BY <1>26 DEF JoinCallbackThread, eventVars, buildVars, callerVars, worldVars
  <1>27. CASE FreeStream
    BY <1>27 DEF FreeStream, buildVars, callerVars, worldVars
  <1>28. CASE LosePacket
    BY <1>28 DEF LosePacket, eventVars, buildVars, callerVars, Lost
  <1>29. CASE Unplug
    BY <1>29 DEF Unplug, eventVars, buildVars, callerVars
  <1>30. CASE SpuriousWakeup
    BY <1>30
       DEF SpuriousWakeup, eventVars, buildVars, worldVars, Awake, AwakeCaller
  <1> QED
    BY <1>1, <1>2, <1>3, <1>4, <1>5, <1>6, <1>7, <1>8, <1>9, <1>10, <1>11,
       <1>12, <1>13, <1>14, <1>15, <1>16, <1>17, <1>18, <1>19, <1>20, <1>21,
       <1>22, <1>23, <1>24, <1>25, <1>26, <1>27, <1>28, <1>29, <1>30
       DEF Next, Callback, EventThread, UserThread, Start, Stop

(* Every step keeps the numbers of the frames in order. *)
LEMMA NextNumbers ==
    ASSUME StreamInv, Next
    PROVE  NumbersOrdered'
  <1>1. ASSUME NEW t \in Transfers, TransferCompleted(t) PROVE NumbersOrdered'
    BY <1>1
       DEF StreamInv, TypeOK, NumbersOrdered, TransferCompleted, buildVars,
           callerVars, Complete
  <1>2. ASSUME NEW t \in Transfers, TransferRetried(t) PROVE NumbersOrdered'
    BY <1>2
       DEF StreamInv, TypeOK, NumbersOrdered, TransferRetried, buildVars,
           callerVars, Complete
  <1>3. ASSUME NEW t \in Transfers, TransferEnded(t) PROVE NumbersOrdered'
    BY <1>3
       DEF StreamInv, TypeOK, NumbersOrdered, TransferEnded, buildVars,
           callerVars, Complete
  <1>4. ASSUME NEW t \in Transfers, NoDevice(t) PROVE NumbersOrdered'
    BY <1>4
       DEF StreamInv, TypeOK, NumbersOrdered, NoDevice, buildVars, callerVars,
           Complete
  <1>5. CASE ReceiveHeader
    BY <1>5
       DEF StreamInv, TypeOK, NumbersOrdered, ReceiveHeader, Swap, KeepBuilding,
           Broadcast, Awake, AwakeCaller
  <1>6. CASE ReceiveBadPacket
    BY <1>6
       DEF StreamInv, TypeOK, NumbersOrdered, ReceiveBadPacket, callerVars, Lost
  <1>7. CASE ReceiveErrorBit
    BY <1>7
       DEF StreamInv, TypeOK, NumbersOrdered, ReceiveErrorBit, buildVars,
           callerVars, Lost
  <1>8. CASE ReceiveBogusPacket
    BY <1>8
       DEF StreamInv, TypeOK, NumbersOrdered, ReceiveBogusPacket, callerVars,
           Lost
  <1>9. CASE AppendData
    BY <1>9
       DEF StreamInv, TypeOK, NumbersOrdered, AppendData, Swap, KeepBuilding,
           Broadcast, Awake, AwakeCaller
  <1>10. CASE EndOfPayload
    BY <1>10
       DEF StreamInv, TypeOK, NumbersOrdered, EndOfPayload, buildVars,
           callerVars
  <1>11. CASE TestRunning
    BY <1>11
       DEF StreamInv, TypeOK, NumbersOrdered, TestRunning, buildVars, callerVars
  <1>12. CASE Resubmit
    BY <1>12
       DEF StreamInv, TypeOK, NumbersOrdered, Resubmit, buildVars, callerVars
  <1>13. CASE DeleteTransfer
    BY <1>13
       DEF StreamInv, TypeOK, NumbersOrdered, DeleteTransfer, buildVars,
           Broadcast, Awake, AwakeCaller
  <1>14. CASE TakeFrame
    BY <1>14
       DEF StreamInv, TypeOK, NumbersOrdered, TakeFrame, buildVars
  <1>15. CASE CallUser
    BY <1>15
       DEF StreamInv, TypeOK, NumbersOrdered, CallUser, buildVars
  <1>16. CASE OpenStream
    BY <1>16
       DEF StreamInv, TypeOK, NumbersOrdered, OpenStream, buildVars, callerVars
  <1>17. CASE SetupFails
    BY <1>17
       DEF StreamInv, TypeOK, NumbersOrdered, SetupFails, buildVars, callerVars
  <1>18. CASE CreateCallbackThread
    BY <1>18
       DEF StreamInv, TypeOK, NumbersOrdered, CreateCallbackThread, buildVars
  <1>19. ASSUME NEW t \in Transfers, SubmitTransfer(t) PROVE NumbersOrdered'
    BY <1>19
       DEF StreamInv, TypeOK, NumbersOrdered, SubmitTransfer, buildVars,
           callerVars
  <1>20. ASSUME NEW t \in Transfers, SubmitFails(t) PROVE NumbersOrdered'
    BY <1>20
       DEF StreamInv, TypeOK, NumbersOrdered, SubmitFails, buildVars, callerVars
  <1>21. CASE StartFails
    BY <1>21
       DEF StreamInv, TypeOK, NumbersOrdered, StartFails, buildVars, callerVars
  <1>22. CASE StartReturns
    BY <1>22
       DEF StreamInv, TypeOK, NumbersOrdered, StartReturns, buildVars,
           callerVars
  <1>23. CASE CloseStream
    BY <1>23
       DEF StreamInv, TypeOK, NumbersOrdered, CloseStream, buildVars, callerVars
  <1>24. CASE CancelTransfers
    BY <1>24
       DEF StreamInv, TypeOK, NumbersOrdered, CancelTransfers, buildVars,
           WaitForTransfers, AwakeCaller
  <1>25. CASE WaitAgain
    BY <1>25
       DEF StreamInv, TypeOK, NumbersOrdered, WaitAgain, buildVars,
           WaitForTransfers, AwakeCaller
  <1>26. CASE JoinCallbackThread
    BY <1>26
       DEF StreamInv, TypeOK, NumbersOrdered, JoinCallbackThread, buildVars,
           callerVars
  <1>27. CASE FreeStream
    BY <1>27
       DEF StreamInv, TypeOK, NumbersOrdered, FreeStream, buildVars, callerVars,
           Nothing
  <1>28. CASE LosePacket
    BY <1>28
       DEF StreamInv, TypeOK, NumbersOrdered, LosePacket, buildVars, callerVars,
           Lost
  <1>29. CASE Unplug
    BY <1>29
       DEF StreamInv, TypeOK, NumbersOrdered, Unplug, buildVars, callerVars
  <1>30. CASE SpuriousWakeup
    BY <1>30
       DEF StreamInv, TypeOK, NumbersOrdered, SpuriousWakeup, buildVars, Awake,
           AwakeCaller
  <1> QED
    BY <1>1, <1>2, <1>3, <1>4, <1>5, <1>6, <1>7, <1>8, <1>9, <1>10, <1>11,
       <1>12, <1>13, <1>14, <1>15, <1>16, <1>17, <1>18, <1>19, <1>20, <1>21,
       <1>22, <1>23, <1>24, <1>25, <1>26, <1>27, <1>28, <1>29, <1>30
       DEF Next, Callback, EventThread, UserThread, Start, Stop

LEMMA StutterStream == StreamInv /\ UNCHANGED vars => StreamInv'
  BY DEF StreamInv, TypeOK, Handling, ClosedIsClean, RunningUnlessFault, FreedQuietly,
         AbandonedOnlyAfterFault, NumbersOrdered, AllNull, Quiet, vars, eventVars,
         buildVars, callerVars, worldVars

THEOREM StreamSafe == Spec => []StreamInv
  <1>1. StreamInv /\ [Next]_vars => StreamInv'
    <2> SUFFICES ASSUME StreamInv, [Next]_vars PROVE StreamInv'
      OBVIOUS
    <2>1. CASE Next
      BY <2>1, NextType, NextControl, NextNumbers DEF StreamInv, ControlParts
    <2>2. CASE UNCHANGED vars
      BY <2>2, StutterStream
    <2> QED BY <2>1, <2>2
  <1> QED BY <1>1, InitStream, PTL DEF Spec

(* The types of the stream, its transfers and its frames. *)
THEOREM StreamTypeCorrect == Spec => []TypeOK
  <1>1. StreamInv => TypeOK
    BY DEF StreamInv
  <1> QED BY <1>1, StreamSafe, PTL

(* uvc_stream_close: unless the device was lost or the start failed, the   *)
(* handle is freed when no transfer and no thread is left that could use   *)
(* it.                                                                     *)
THEOREM StreamClosedClean == Spec => []AbandonedOnlyAfterFault
  <1>1. StreamInv => AbandonedOnlyAfterFault
    BY DEF StreamInv
  <1> QED BY <1>1, StreamSafe, PTL

-----------------------------------------------------------------------------
(* The waits on cb_cond. *)

InStop == {"cancelling", "waiting", "woken"}

(* uvc_stream_stop: a stop that waits waits for a transfer that is not     *)
(* free: the library has it, or its callback is under way and will free it *)
(* or submit it again. Only one that could not be submitted again stays.   *)
StopIsNotified ==
    api = "waiting" => \E t \in Transfers :
        \/ transfers[t] \in {"flight", "cancelled"}
        \/ transfers[t] = "callback" /\ event # "idle" /\ current = t
        \/ transfers[t] = "stranded" /\ (SubmitsFail \/ ~attached)

(* _uvc_user_caller: it does not wait while there is a frame it has not    *)
(* taken.                                                                  *)
FrameIsNoticed == caller = "waiting" => last_seq = hold.seq

(* The stop joins a thread that has been woken and will find running reset.*)
JoinedThreadEnds == api = "joining" => ~running /\ caller \in {"loop", "call", "dead"}

NoWakeupLost == StopIsNotified /\ FrameIsNoticed /\ JoinedThreadEnds

(* Why that is so: running is reset before the stop waits, with every      *)
(* transfer submitted; and the event thread handles the one in "callback". *)
StopShape ==
    /\ api \in InStop \cup {"joining"} => ~running
    /\ api \in InStop \cup {"submitting", "startFails", "streaming"} => caller # "none"
    /\ api \in InStop \cup {"streaming"} => \A t \in Transfers : transfers[t] # "new"

OneCallback ==
    \A t \in Transfers :
        /\ transfers[t] = "callback" => event # "idle" /\ current = t
        /\ transfers[t] = "stranded" => SubmitsFail \/ ~attached

WakeupInv == NoWakeupLost /\ StopShape /\ OneCallback

(* The event thread handles a packet, and may tell the others of a frame.  *)
LEMMA PacketKeepsWakeups ==
    ASSUME WakeupInv, UNCHANGED <<running, transfers, current, last_seq, attached>>,
           event # "idle", event' # "idle",
           Broadcast \/ UNCHANGED <<api, caller, hold>>
    PROVE  WakeupInv'
  <1> USE DEF WakeupInv, NoWakeupLost, StopIsNotified, FrameIsNoticed, JoinedThreadEnds,
              StopShape, OneCallback, InStop
  <1>1. CASE Broadcast
    BY <1>1 DEF Broadcast, Awake, AwakeCaller
  <1>2. CASE UNCHANGED <<api, caller, hold>>
    BY <1>2
  <1> QED BY <1>1, <1>2

(* The stop looks at the transfers, and waits only if one is not free.     *)
LEMMA WaitKeepsWakeups ==
    ASSUME TypeOK, WakeupInv, api \in {"cancelling", "woken"},
           \A t \in Transfers :
               transfers'[t] = IF transfers[t] = "flight" /\ api = "cancelling"
                               THEN "cancelled" ELSE transfers[t],
           WaitForTransfers(transfers'),
           UNCHANGED <<running, event, current, hold, last_seq, attached>>
    PROVE  WakeupInv'
  <1> USE DEF WakeupInv, NoWakeupLost, StopIsNotified, FrameIsNoticed, JoinedThreadEnds,
              StopShape, OneCallback, InStop
  <1>1. OneCallback' /\ ~running'
    OBVIOUS
  <1>2. CASE AllNull(transfers')
    <2>1. api' = "joining" /\ caller' = AwakeCaller(caller)
      BY <1>2 DEF WaitForTransfers
    <2>2. caller' \in {"loop", "call", "dead"}
      BY <2>1 DEF AwakeCaller, TypeOK, CallerPcs
    <2> QED BY <1>1, <2>1, <2>2
  <1>3. CASE ~AllNull(transfers')
    <2>1. api' = "waiting" /\ caller' = caller
      BY <1>3 DEF WaitForTransfers
    <2>2. PICK t \in Transfers : transfers'[t] # "null"
      BY <1>3 DEF AllNull
    <2>3. transfers'[t] \in {"flight", "cancelled", "callback", "stranded"}
      BY <2>2 DEF TypeOK, TransferStates
    <2>4. StopIsNotified'
      BY <1>1, <2>3
    <2> QED BY <1>1, <2>1, <2>4
  <1> QED BY <1>2, <1>3

LEMMA NextWakeups ==
    ASSUME StreamInv, WakeupInv, Next
    PROVE  WakeupInv'
  <1> USE DEF WakeupInv, NoWakeupLost, StopIsNotified, FrameIsNoticed, JoinedThreadEnds,
              StopShape, OneCallback, InStop
  <1>i. TypeOK /\ Handling
    BY DEF StreamInv
  <1>1. ASSUME NEW t \in Transfers, Callback(t) PROVE WakeupInv'
    <2>1. /\ event = "idle" /\ event' # "idle" /\ current' = t
          /\ transfers[t] \in {"flight", "cancelled"}
          /\ transfers' = [transfers EXCEPT ![t] = "callback"]
          /\ UNCHANGED <<api, caller, hold, last_seq, attached>>
          /\ running' = running \/ running' = FALSE
      BY <1>1 DEF Callback, TransferCompleted, TransferRetried, TransferEnded, NoDevice,
                  Complete, callerVars, worldVars
    <2>2. /\ transfers'[t] = "callback"
          /\ \A u \in Transfers \ {t} : transfers'[u] = transfers[u]
      BY <1>i, <2>1 DEF TypeOK
    <2>3. StopIsNotified' /\ OneCallback'
      BY <2>1, <2>2
    <2> QED BY <2>1, <2>2, <2>3
  <1>2. CASE ReceiveHeader \/ ReceiveBadPacket \/ ReceiveErrorBit \/ ReceiveBogusPacket
             \/ AppendData \/ EndOfPayload \/ TestRunning
    <2>1. /\ UNCHANGED <<running, transfers, current, last_seq, attached>>
          /\ event # "idle" /\ event' # "idle"
          /\ Broadcast \/ UNCHANGED <<api, caller, hold>>
      BY <1>2 DEF ReceiveHeader, ReceiveBadPacket, ReceiveErrorBit, ReceiveBogusPacket,
                  AppendData, EndOfPayload, TestRunning, AfterPacket, Swap, KeepBuilding,
                  callerVars, worldVars
    <2> QED BY <2>1, PacketKeepsWakeups
  <1>3. CASE Resubmit
    <2>1. PICK result \in {"flight", "stranded"} :
            /\ result = "stranded" => ~attached \/ SubmitsFail
            /\ transfers' = [transfers EXCEPT ![current] = result]
      BY <1>3 DEF Resubmit
    <2>2. /\ event # "idle" /\ event' = "idle"
          /\ UNCHANGED <<api, running, hold, caller, last_seq, attached>>
      BY <1>3 DEF Resubmit, callerVars, worldVars
    <2>3. /\ current \in Transfers /\ transfers'[current] = result
          /\ \A u \in Transfers \ {current} : transfers'[u] = transfers[u]
      BY <1>i, <2>1, <2>2 DEF TypeOK, Handling
    <2>4. StopIsNotified' /\ OneCallback'
      BY <2>1, <2>2, <2>3
    <2> QED BY <2>1, <2>2, <2>3, <2>4
  <1>4. CASE DeleteTransfer
    <2>1. /\ event # "idle" /\ event' = "idle" /\ Broadcast
          /\ transfers' = [transfers EXCEPT ![current] = "null"]
          /\ UNCHANGED <<running, hold, last_seq, attached>>
      BY <1>4 DEF DeleteTransfer, worldVars
    <2>2. /\ current \in Transfers /\ transfers'[current] = "null"
          /\ \A u \in Transfers \ {current} : transfers'[u] = transfers[u]
      BY <1>i, <2>1 DEF TypeOK, Handling
    <2>3. /\ api' = IF api = "waiting" THEN "woken" ELSE api
          /\ caller' = IF caller = "waiting" THEN "loop" ELSE caller
      BY <2>1 DEF Broadcast, Awake, AwakeCaller
    <2>4. OneCallback'
      BY <2>1, <2>2
    <2>5. StopShape'
      BY <2>1, <2>2, <2>3
    <2> QED BY <2>1, <2>3, <2>4, <2>5
  <1>5. CASE UserThread
    <2>1. /\ UNCHANGED <<api, running, transfers, event, current, hold, attached>>
          /\ caller \in {"loop", "call"} /\ caller' \in {"loop", "call", "dead", "waiting"}
          /\ caller' = "waiting" => running /\ last_seq' = last_seq /\ last_seq = hold.seq
      BY <1>5 DEF UserThread, TakeFrame, CallUser, eventVars, worldVars
    <2> QED BY <2>1
  <1>6. CASE OpenStream \/ SetupFails
    BY <1>6 DEF OpenStream, SetupFails, eventVars, callerVars, worldVars, StreamInv,
                ClosedIsClean
  <1>7. CASE CreateCallbackThread
    BY <1>7 DEF CreateCallbackThread, eventVars, worldVars
  <1>8. ASSUME NEW t \in Transfers, SubmitTransfer(t) PROVE WakeupInv'
    BY <1>8, <1>i DEF SubmitTransfer, TypeOK, eventVars, callerVars, worldVars
  <1>9. ASSUME NEW t \in Transfers, SubmitFails(t) PROVE WakeupInv'
    BY <1>9 DEF SubmitFails, eventVars, callerVars, worldVars
  <1>10. CASE StartFails \/ StartReturns \/ CloseStream
    BY <1>10 DEF StartFails, StartReturns, CloseStream, eventVars, callerVars, worldVars
  <1>11. CASE CancelTransfers \/ WaitAgain
    BY <1>11, <1>i, WaitKeepsWakeups
       DEF CancelTransfers, WaitAgain, eventVars, worldVars
  <1>12. CASE JoinCallbackThread
    BY <1>12 DEF JoinCallbackThread, eventVars, callerVars, worldVars
  <1>13. CASE FreeStream
    BY <1>13 DEF FreeStream, callerVars, worldVars
  <1>14. CASE LosePacket \/ Unplug
    BY <1>14 DEF LosePacket, Unplug, eventVars, callerVars
  <1>15. CASE SpuriousWakeup
    BY <1>15 DEF SpuriousWakeup, Awake, AwakeCaller, eventVars, worldVars
  <1> QED
    BY <1>1, <1>2, <1>3, <1>4, <1>5, <1>6, <1>7, <1>8, <1>9, <1>10, <1>11, <1>12, <1>13,
       <1>14, <1>15
       DEF Next, EventThread, Start, Stop

LEMMA WakeupsSafe == Spec => []WakeupInv
  <1>1. Init => WakeupInv
    BY DEF Init, WakeupInv, NoWakeupLost, StopIsNotified, FrameIsNoticed, JoinedThreadEnds,
           StopShape, OneCallback, InStop
  <1>2. StreamInv /\ WakeupInv /\ [Next]_vars => WakeupInv'
    <2> SUFFICES ASSUME StreamInv, WakeupInv, [Next]_vars PROVE WakeupInv'
      OBVIOUS
    <2>1. CASE Next
      BY <2>1, NextWakeups
    <2>2. CASE UNCHANGED vars
      BY <2>2 DEF vars, eventVars, callerVars, worldVars, WakeupInv, NoWakeupLost,
         StopIsNotified, FrameIsNoticed, JoinedThreadEnds, StopShape, OneCallback
    <2> QED BY <2>1, <2>2
  <1> QED BY <1>1, <1>2, StreamSafe, PTL DEF Spec

(* No wake-up on cb_cond is lost: a stop waits only for a transfer that is *)
(* under way, the callback thread only for a frame that is not there, and  *)
(* the thread a stop joins will end.                                       *)
THEOREM StreamLosesNoWakeup == Spec => []NoWakeupLost
  <1>1. WakeupInv => NoWakeupLost
    BY DEF WakeupInv
  <1> QED BY <1>1, WakeupsSafe, PTL

-----------------------------------------------------------------------------
(* The refinement. *)

LEMMA SourceInit == Init => Source!Init
  BY DEF Init, Source!Init

(* Only a few steps show: the stream is opened, meets a fault, delivers a  *)
(* newer frame, is closed or is abandoned.                                 *)
LEMMA SourceStep ==
    ASSUME StreamInv, Next
    PROVE  [Source!Next]_(Source!vars)
  <1>1. ASSUME NEW t \in Transfers, TransferCompleted(t)
        PROVE  [Source!Next]_(Source!vars)
    BY <1>1
       DEF TransferCompleted, callerVars, Complete, Source!vars
  <1>2. ASSUME NEW t \in Transfers, TransferRetried(t)
        PROVE  [Source!Next]_(Source!vars)
    BY <1>2
       DEF TransferRetried, callerVars, Complete, Source!vars
  <1>3. ASSUME NEW t \in Transfers, TransferEnded(t)
        PROVE  [Source!Next]_(Source!vars)
    BY <1>3
       DEF TransferEnded, callerVars, Complete, Source!vars
  <1>4. ASSUME NEW t \in Transfers, NoDevice(t), api # "abandoned"
        PROVE  [Source!Next]_(Source!vars)
    BY <1>4
       DEF StreamInv, TypeOK, NoDevice, Complete, callerVars, Source!Next,
           Source!Fail, ClosedIsClean, AllNull, Source!vars
  <1>5. CASE ReceiveHeader
    BY <1>5
       DEF ReceiveHeader, Swap, KeepBuilding, Broadcast, Awake, Source!vars
  <1>6. CASE ReceiveBadPacket
    BY <1>6
       DEF ReceiveBadPacket, callerVars, Lost, Source!vars
  <1>7. CASE ReceiveErrorBit
    BY <1>7
       DEF ReceiveErrorBit, callerVars, Lost, Source!vars
  <1>8. CASE ReceiveBogusPacket
    BY <1>8
       DEF ReceiveBogusPacket, callerVars, Lost, Source!vars
  <1>9. CASE AppendData
    BY <1>9
       DEF AppendData, Swap, KeepBuilding, Broadcast, Awake, Source!vars
  <1>10. CASE EndOfPayload
    BY <1>10
       DEF EndOfPayload, callerVars, Source!vars
  <1>11. CASE TestRunning
    BY <1>11
       DEF TestRunning, callerVars, Source!vars
  <1>12. CASE Resubmit
    BY <1>12
       DEF Resubmit, callerVars, Source!vars
  <1>13. CASE DeleteTransfer
    BY <1>13
       DEF DeleteTransfer, Broadcast, Awake, Source!vars
  <1>14. CASE TakeFrame
    BY <1>14
       DEF TakeFrame, Source!vars
  <1>15. CASE CallUser
    <2>1. api' = api /\ fault' = fault /\ (delivered' = frame \/ delivered' = delivered)
      BY <1>15 DEF CallUser
    <2>2. api # "closed"
      BY <1>15 DEF StreamInv, ClosedIsClean, CallUser
    <2>3. frame \in Nat /\ delivered \in Nat /\ delivered <= frame
      BY DEF StreamInv, TypeOK, NumbersOrdered
    <2>4. CASE delivered' = delivered
      BY <2>1, <2>4 DEF Source!vars
    <2>5. CASE delivered' # delivered
      <3>1. Source!Deliver
        BY <2>1, <2>2, <2>3, <2>5 DEF Source!Deliver
      <3> QED BY <3>1 DEF Source!Next
    <2> QED BY <2>4, <2>5
  <1>16. CASE OpenStream
    BY <1>16
       DEF StreamInv, TypeOK, OpenStream, callerVars, Source!Next, Source!Start,
           ClosedIsClean, Source!vars
  <1>17. CASE SetupFails
    BY <1>17
       DEF SetupFails, callerVars, Source!vars
  <1>18. CASE CreateCallbackThread
    BY <1>18
       DEF CreateCallbackThread, Source!vars
  <1>19. ASSUME NEW t \in Transfers, SubmitTransfer(t)
        PROVE  [Source!Next]_(Source!vars)
    BY <1>19
       DEF SubmitTransfer, callerVars, Source!vars
  <1>20. ASSUME NEW t \in Transfers, SubmitFails(t)
        PROVE  [Source!Next]_(Source!vars)
    BY <1>20
       DEF SubmitFails, callerVars, Source!vars
  <1>21. CASE StartFails
    BY <1>21
       DEF StreamInv, TypeOK, StartFails, callerVars, Source!Next, Source!Fail,
           Source!vars
  <1>22. CASE StartReturns
    BY <1>22
       DEF StartReturns, callerVars, Source!vars
  <1>23. CASE CloseStream
    BY <1>23
       DEF CloseStream, callerVars, Source!vars
  <1>24. CASE CancelTransfers
    BY <1>24
       DEF CancelTransfers, WaitForTransfers, Source!vars
  <1>25. CASE WaitAgain
    BY <1>25
       DEF WaitAgain, WaitForTransfers, Source!vars
  <1>26. CASE JoinCallbackThread
    BY <1>26
       DEF JoinCallbackThread, callerVars, Source!vars
  <1>27. CASE FreeStream
    <2>1. CASE Quiet
      <3>1. Source!Stop
        BY <1>27, <2>1 DEF FreeStream, Source!Stop
      <3> QED BY <3>1 DEF Source!Next
    <2>2. CASE ~Quiet
      <3>1. fault
        BY <1>27, <2>2 DEF StreamInv, FreedQuietly, FreeStream
      <3>2. Source!Abandon
        BY <1>27, <2>2, <3>1 DEF FreeStream, callerVars, Source!Abandon
      <3> QED BY <3>2 DEF Source!Next
    <2> QED BY <2>1, <2>2
  <1>28. CASE LosePacket
    BY <1>28
       DEF LosePacket, callerVars, Lost, Source!vars
  <1>29. CASE Unplug
    BY <1>29
       DEF Unplug, callerVars, Source!vars
  <1>30. CASE SpuriousWakeup
    BY <1>30
       DEF SpuriousWakeup, Awake, Source!vars
  <1> QED
    BY <1>1, <1>2, <1>3, <1>4, <1>5, <1>6, <1>7, <1>8, <1>9, <1>10, <1>11,
       <1>12, <1>13, <1>14, <1>15, <1>16, <1>17, <1>18, <1>19, <1>20, <1>21,
       <1>22, <1>23, <1>24, <1>25, <1>26, <1>27, <1>28, <1>29, <1>30
       DEF Next, Callback, EventThread, UserThread, Start, Stop

(* What the user of a stream relies on (FrameSource): his callback is      *)
(* called between start and the return of stop only, never with a frame    *)
(* older than the one before, and after a stop only if a fault was met.    *)
THEOREM StreamIsFrameSource == Spec => ImplementsSource
  <1>1. StreamInv /\ [Next]_vars => [Source!Next]_(Source!vars)
    <2> SUFFICES ASSUME StreamInv, [Next]_vars PROVE [Source!Next]_(Source!vars)
      OBVIOUS
    <2>1. CASE Next
      BY <2>1, SourceStep
    <2>2. CASE UNCHANGED vars
      BY <2>2 DEF vars, callerVars, Source!vars
    <2> QED BY <2>1, <2>2
  <1> QED BY <1>1, SourceInit, StreamSafe, PTL DEF Spec, ImplementsSource, Source!Spec

=============================================================================
