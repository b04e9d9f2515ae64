-------------------------- MODULE UvcFrames_proofs --------------------------
(***************************************************************************)
(* Proofs about the frames UvcStream assembles, for any size of a frame    *)
(* and any number of frames and losses.                                    *)
(***************************************************************************)
EXTENDS UvcStream_proofs

(* A frame of the camera, all of it. *)
WholeFrame(data) ==
    /\ Len(data) = PARTS
    /\ \E n \in 1..MaxFrames :
          \A i \in 1..PARTS : data[i].frame = n /\ data[i].part = i

(* The frame under construction has come as far as packet j of frame n.    *)
(* The first frame of a stream (seq = 0) may lack its beginning.           *)
ComeTo(data, n, j) ==
    /\ Len(data) <= j
    /\ \A i \in 1..Len(data) : data[i].frame = n
    /\ seq # 0 => Len(data) = j /\ \A i \in 1..j : data[i].part = i

(* The camera has sent the packet that the event thread handles. *)
Sent ==
    /\ packet.frame \in 1..MaxFrames /\ fid = packet.frame % 2
    /\ \/ packet.frame < camera.frame
       \/ packet.frame = camera.frame /\ packet.part # 0 /\ packet.part < camera.part

(* It has sent no other since. *)
SentLast ==
    \/ packet.part # 0 /\ ~packet.eof
       /\ camera.frame = packet.frame /\ camera.part = packet.part + 1
    \/ packet.part \in {0, PARTS}
       /\ camera.frame = packet.frame + 1 /\ camera.part = 1

PartsBefore == IF packet.part = 0 THEN PARTS ELSE packet.part - 1

(* As long as no packet is lost, the frame under construction is the one   *)
(* the camera is sending, up to where it is.                               *)
NothingMissing ==
    api # "closed" /\ lost = 0 =>
        /\ ~bfh_err
        /\ event = "data" => SentLast /\ ComeTo(outbuf, packet.frame, PartsBefore)
        /\ event # "data" /\ camera.part > 1 =>
              ComeTo(outbuf, camera.frame, camera.part - 1)
        /\ event # "data" /\ camera.part = 1 =>
              outbuf = <<>> \/ ComeTo(outbuf, camera.frame - 1, PARTS)

HeldWhole == hold.seq # 0 /\ lost = 0 => WholeFrame(hold.data)

(* Packet b may come after packet a in a frame. *)
Follows(a, b) ==
    \/ a.frame = b.frame /\ a.part < b.part
    \/ lost > 0 /\ a.frame + 2 <= b.frame

InOrder(data) == \A i \in 1..Len(data) - 1 : Follows(data[i], data[i + 1])

(* The last packet of the frame under construction was sent before any     *)
(* that comes after it, and it is fid that tells whether they are one      *)
(* frame.                                                                  *)
LastCameBefore ==
    outbuf # <<>> =>
        LET e == outbuf[Len(outbuf)]
        IN  /\ fid = e.frame % 2
            /\ e.frame \in 1..MaxFrames
            /\ event = "data" =>
                  \/ e.frame < packet.frame
                  \/ e.frame = packet.frame /\ (packet.part = 0 \/ e.part < packet.part)
            /\ event # "data" =>
                  \/ e.frame < camera.frame
                  \/ e.frame = camera.frame /\ e.part < camera.part

ClosedIsEmpty ==
    /\ api = "closed" => outbuf = <<>> /\ seq = 0 /\ ~bfh_err /\ lost = 0
    /\ api = "closed" => hold.data = <<>> /\ hold.seq = 0

FramesInv ==
    /\ camera.frame > 0
    /\ ClosedIsEmpty
    /\ event = "data" => Sent
    /\ NothingMissing /\ HeldWhole
    /\ InOrder(outbuf) /\ InOrder(hold.data) /\ LastCameBefore

-----------------------------------------------------------------------------
(* Sequences of packets. *)

LEMMA DataFacts ==
    ASSUME NEW data \in Data
    PROVE  /\ Len(data) \in Nat
           /\ data = <<>> <=> Len(data) = 0
           /\ data # <<>> =>
                 data[Len(data)].frame \in Nat /\ data[Len(data)].part \in 1..PARTS
           /\ \A i \in 1..Len(data) : data[i].frame \in Nat /\ data[i].part \in 1..PARTS
           /\ data = [i \in 1..Len(data) |-> [frame |-> data[i].frame, part |-> data[i].part]]
  <1> DEFINE S == [frame : Nat, part : 1..PARTS]
  <1>1. data \in Seq(S)
    BY DEF Data
  <1>2. \A e \in S : e.frame \in Nat /\ e.part \in 1..PARTS
                     /\ e = [frame |-> e.frame, part |-> e.part]
    OBVIOUS
  <1> HIDE DEF S
  <1>3. Len(data) \in Nat /\ (data = <<>> <=> Len(data) = 0)
    BY <1>1
  <1>4. \A i \in 1..Len(data) : data[i] \in S
    BY <1>1
  <1>5. data = [i \in 1..Len(data) |-> data[i]]
    BY <1>1
  <1> QED BY <1>2, <1>3, <1>4, <1>5

LEMMA AppendFacts ==
    ASSUME NEW data \in Data, NEW n \in Nat, NEW k \in 1..PARTS
    PROVE  LET grown == Append(data, [frame |-> n, part |-> k])
           IN  /\ grown \in Data
               /\ Len(grown) = Len(data) + 1
               /\ \A i \in 1..Len(data) : grown[i] = data[i]
               /\ grown[Len(data) + 1] = [frame |-> n, part |-> k]
  <1> DEFINE S == [frame : Nat, part : 1..PARTS]
             e == [frame |-> n, part |-> k]
  <1>1. data \in Seq(S) /\ e \in S
    BY DEF Data
  <1> HIDE DEF S, e
  <1>2. LET grown == Append(data, e)
        IN  /\ grown \in Seq(S)
            /\ Len(grown) = Len(data) + 1
            /\ \A i \in 1..Len(data) : grown[i] = data[i]
            /\ grown[Len(data) + 1] = e
    BY <1>1
  <1> QED BY <1>2 DEF S, e, Data

(* Frames that share their id are at least two apart. *)
LEMMA ParityGap ==
    ASSUME NEW a \in Nat, NEW b \in Nat, a % 2 = b % 2, a < b
    PROVE  a + 2 <= b
  OBVIOUS

LEMMA ParityDiffers ==
    ASSUME NEW a \in Nat
    PROVE  a % 2 # (a + 1) % 2
  OBVIOUS

(* What the proof promises is what the property says. *)
LEMMA WholeFramesHold == TypeOK /\ HeldWhole => WholeFrames
  <1> SUFFICES ASSUME TypeOK, HeldWhole, hold.seq # 0, lost = 0
               PROVE  \E n \in 1..MaxFrames :
                         hold.data = [k \in 1..PARTS |-> [frame |-> n, part |-> k]]
    BY DEF WholeFrames
  <1>1. Len(hold.data) = PARTS
    BY DEF HeldWhole, WholeFrame
  <1>2. PICK n \in 1..MaxFrames :
            \A i \in 1..PARTS : hold.data[i].frame = n /\ hold.data[i].part = i
    BY DEF HeldWhole, WholeFrame
  <1>3. hold.data \in Data
    BY DEF TypeOK
  <1>4. hold.data = [i \in 1..PARTS |->
                        [frame |-> hold.data[i].frame, part |-> hold.data[i].part]]
    BY <1>1, <1>3, DataFacts
  <1>5. hold.data = [i \in 1..PARTS |-> [frame |-> n, part |-> i]]
    BY <1>2, <1>4
  <1> QED BY <1>5

LEMMA JoinedHold == InOrder(hold.data) => JoinedOnlyAcrossLoss
  BY DEF InOrder, Follows, JoinedOnlyAcrossLoss

-----------------------------------------------------------------------------
(* The steps. *)

LEMMA InitFrames == Init => FramesInv
  BY DEF Init, FramesInv, ClosedIsEmpty, NothingMissing, HeldWhole, InOrder,
         LastCameBefore, Nothing

LEMMA UndisturbedFrames ==
    ASSUME FramesInv,
           UNCHANGED <<packet, outbuf, fid, bfh_err, seq, hold, camera, lost>>,
           event' = "data" <=> event = "data",
           api' = "closed" <=> api = "closed"
    PROVE  FramesInv'
  <1>1. /\ camera.frame' > 0 /\ ClosedIsEmpty' /\ (event' = "data" => Sent')
        /\ HeldWhole' /\ InOrder(outbuf)' /\ InOrder(hold.data)' /\ LastCameBefore'
    BY DEF FramesInv, ClosedIsEmpty, Sent, HeldWhole, WholeFrame, InOrder, Follows,
           LastCameBefore
  <1>2. NothingMissing'
    BY DEF FramesInv, NothingMissing, SentLast, PartsBefore, ComeTo
  <1> QED BY <1>1, <1>2 DEF FramesInv

(* The event thread handles packets of an open stream only. *)
LEMMA BusyIsOpen ==
    ASSUME StreamInv, event # "idle"
    PROVE  api \notin {"closed", "setup"}
  BY DEF StreamInv, Handling, ClosedIsClean, AllNull

LEMMA CameraAdvances ==
    ASSUME TypeOK, NEW p \in Packets, CameraSends(p)
    PROVE  /\ p.frame = camera.frame /\ p.frame <= MaxFrames
           /\ \/ /\ p.part # 0 /\ p.part = camera.part /\ ~p.eof
                 /\ camera'.frame = camera.frame /\ camera'.part = camera.part + 1
              \/ /\ p.part \in {0, PARTS}
                 /\ p.part = PARTS => camera.part = PARTS
                 /\ p.part = 0 => camera.part = PARTS + 1
                 /\ camera'.frame = camera.frame + 1 /\ camera'.part = 1
  BY UvcStreamAssumption
     DEF TypeOK, Packets, CameraSends, Packet, ThenPart, ThenFrame

(* Once a packet is lost only the order remains. *)
LEMMA LossyFrames ==
    ASSUME StreamInv, FramesInv, api # "closed",
           lost' = lost + 1, UNCHANGED <<api, outbuf, fid, seq, hold>>,
           event' = "data" => event = "data" /\ packet' = packet,
           \/ camera' = camera
           \/ \E p \in Packets : CameraSends(p)
    PROVE  FramesInv'
  <1>1. camera.frame \in Nat /\ camera.part \in Nat /\ lost \in Nat
    BY DEF StreamInv, TypeOK
  <1>2. \/ camera'.frame = camera.frame /\ camera'.part \in {camera.part, camera.part + 1}
        \/ camera'.frame = camera.frame + 1
    BY CameraAdvances DEF StreamInv
  <1>3. camera'.frame > 0 /\ ClosedIsEmpty' /\ NothingMissing' /\ HeldWhole'
    BY <1>1, <1>2 DEF FramesInv, ClosedIsEmpty, NothingMissing, HeldWhole
  <1>4. event' = "data" => Sent'
    BY <1>1, <1>2 DEF FramesInv, Sent, StreamInv, TypeOK
  <1>5. InOrder(outbuf)' /\ InOrder(hold.data)'
    BY <1>1 DEF FramesInv, InOrder, Follows
  <1>6. LastCameBefore'
    <2> SUFFICES ASSUME outbuf # <<>> PROVE LastCameBefore'
      BY DEF LastCameBefore
    <2> DEFINE e == outbuf[Len(outbuf)]
    <2>1. e.frame \in Nat /\ e.part \in 1..PARTS
      <3>1. outbuf \in Data
        BY DEF StreamInv, TypeOK
      <3> QED BY <3>1, DataFacts
    <2>2. packet.frame \in Nat /\ packet.part \in 0..PARTS
      BY DEF StreamInv, TypeOK
    <2>3. CASE event' = "data"
      BY <2>3, <1>1, <1>2, <2>1, <2>2 DEF FramesInv, LastCameBefore
    <2>4. CASE event' # "data"
      <3>1. /\ fid = e.frame % 2 /\ e.frame \in 1..MaxFrames
            /\ e.frame < camera.frame \/ (e.frame = camera.frame /\ e.part < camera.part)
        <4>1. CASE event = "data"
          BY <4>1, <1>1, <2>1, <2>2 DEF FramesInv, LastCameBefore, Sent
        <4>2. CASE event # "data"
          BY <4>2 DEF FramesInv, LastCameBefore
        <4> QED BY <4>1, <4>2
      <3>2. e.frame < camera'.frame \/ (e.frame = camera'.frame /\ e.part < camera'.part)
        BY <1>1, <1>2, <2>1, <3>1
      <3> QED BY <2>4, <3>1, <3>2 DEF LastCameBefore
    <2> QED BY <2>3, <2>4
  <1> QED BY <1>3, <1>4, <1>5, <1>6 DEF FramesInv

(* The header of a packet ends the frame before it, or belongs to the one  *)
(* under construction.                                                     *)
LEMMA HeaderFrames ==
    ASSUME StreamInv, FramesInv, ReceiveHeader
    PROVE  FramesInv'
  <1>1. PICK p \in Packets : CameraSends(p) /\ packet' = p /\ fid' = FrameId(p)
    BY DEF ReceiveHeader
  <1>2. /\ event = "payload" /\ event' = "data" /\ lost' = lost
    BY DEF ReceiveHeader
  <1>3. api # "closed" /\ api' # "closed"
    BY <1>2, BusyIsOpen
       DEF ReceiveHeader, Swap, KeepBuilding, Broadcast, Awake
  <1>4. /\ camera.frame \in Nat /\ camera.frame > 0 /\ camera.part \in 1..PARTS + 1
        /\ seq \in Nat /\ fid \in 0..1 /\ outbuf \in Data /\ lost \in Nat
        /\ bfh_err \in BOOLEAN
    BY DEF StreamInv, TypeOK, FramesInv
  <1>5. packet'.frame = camera.frame /\ packet'.frame <= MaxFrames
        /\ fid' = camera.frame % 2 /\ packet'.part \in 0..PARTS
    BY <1>1, CameraAdvances, CameraTyped DEF StreamInv, FrameId
  <1>6. \/ /\ packet'.part # 0 /\ packet'.part = camera.part
           /\ ~packet'.eof
           /\ camera'.frame = camera.frame /\ camera'.part = camera.part + 1
        \/ /\ packet'.part \in {0, PARTS}
           /\ packet'.part = PARTS => camera.part = PARTS
           /\ packet'.part = 0 => camera.part = PARTS + 1
           /\ camera'.frame = camera.frame + 1 /\ camera'.part = 1
    BY <1>1, CameraAdvances DEF StreamInv
  <1>7. camera'.frame > 0 /\ ClosedIsEmpty' /\ Sent' /\ (lost = 0 => SentLast')
    BY <1>3, <1>4, <1>5, <1>6, UvcStreamAssumption DEF ClosedIsEmpty, Sent, SentLast
  <1>8. PartsBefore' = camera.part - 1
    BY <1>4, <1>5, <1>6, UvcStreamAssumption DEF PartsBefore
  <1>9. CASE EndsFrame(fid')
    <2>1. /\ outbuf' = <<>> /\ bfh_err' = FALSE /\ seq' = seq + 1
          /\ hold' = [seq |-> seq, data |-> outbuf, err |-> bfh_err]
          /\ outbuf # <<>> /\ fid' # fid
      BY <1>9 DEF ReceiveHeader, Swap, EndsFrame
    <2>2. ASSUME lost = 0
          PROVE  camera.part = 1 /\ ComeTo(outbuf, camera.frame - 1, PARTS)
      <3>1. CASE camera.part > 1
        <4>1. ComeTo(outbuf, camera.frame, camera.part - 1)
          BY <1>2, <1>3, <2>2, <3>1 DEF FramesInv, NothingMissing
        <4>2. outbuf[Len(outbuf)].frame = camera.frame
          BY <1>4, <2>1, <4>1, DataFacts DEF ComeTo
        <4>3. fid = camera.frame % 2
          BY <2>1, <4>2 DEF FramesInv, LastCameBefore
        <4> QED BY <1>5, <2>1, <4>3
      <3> QED BY <1>2, <1>3, <1>4, <2>1, <2>2, <3>1 DEF FramesInv, NothingMissing
    <2>3. HeldWhole'
      <3> SUFFICES ASSUME seq # 0, lost = 0 PROVE WholeFrame(outbuf)
        BY <1>2, <2>1 DEF HeldWhole, WholeFrame
      <3>1. ComeTo(outbuf, camera.frame - 1, PARTS)
        BY <2>2
      <3>2. outbuf[Len(outbuf)].frame = camera.frame - 1 /\ Len(outbuf) \in Nat \ {0}
        BY <1>4, <2>1, <3>1, DataFacts DEF ComeTo
      <3>3. camera.frame - 1 \in 1..MaxFrames
        BY <2>1, <3>2 DEF FramesInv, LastCameBefore
      <3> QED BY <3>1, <3>3 DEF ComeTo, WholeFrame
    <2>4. NothingMissing'
      <3> SUFFICES ASSUME lost = 0
                   PROVE  SentLast' /\ ComeTo(outbuf, packet.frame, PartsBefore)'
        BY <1>2, <2>1 DEF NothingMissing
      <3>1. PartsBefore' = 0 /\ outbuf' = <<>>
        BY <1>8, <2>1, <2>2
      <3>2. ComeTo(outbuf, packet.frame, PartsBefore)'
        BY <3>1 DEF ComeTo
      <3> QED BY <1>2, <1>7, <3>2
    <2>5. InOrder(outbuf)' /\ InOrder(hold.data)' /\ LastCameBefore'
      BY <1>2, <2>1 DEF FramesInv, InOrder, Follows, LastCameBefore
    <2> QED BY <1>7, <2>3, <2>4, <2>5 DEF FramesInv
  <1>10. CASE ~EndsFrame(fid')
    <2>1. UNCHANGED <<outbuf, bfh_err, seq, hold>> /\ (outbuf = <<>> \/ fid' = fid)
      BY <1>10 DEF ReceiveHeader, KeepBuilding, EndsFrame
    <2>2. NothingMissing'
      <3> SUFFICES ASSUME lost = 0
                   PROVE  ~bfh_err /\ SentLast' /\ ComeTo(outbuf, camera.frame, camera.part - 1)
        BY <1>2, <1>5, <1>8, <2>1 DEF NothingMissing, ComeTo
      <3>1. ~bfh_err /\ SentLast'
        BY <1>3, <1>7 DEF FramesInv, NothingMissing
      <3>2. CASE camera.part > 1
        BY <1>2, <1>3, <3>1, <3>2 DEF FramesInv, NothingMissing
      <3>3. CASE camera.part = 1
        <4>1. CASE outbuf = <<>>
          <5>1. ComeTo(outbuf, camera.frame, camera.part - 1)
            BY <3>3, <4>1 DEF ComeTo
          <5> QED BY <3>1, <5>1
        <4>2. CASE outbuf # <<>>
          <5>1. ComeTo(outbuf, camera.frame - 1, PARTS)
            BY <1>2, <1>3, <3>3, <4>2 DEF FramesInv, NothingMissing
          <5>2. outbuf[Len(outbuf)].frame = camera.frame - 1
            BY <1>4, <4>2, <5>1, DataFacts DEF ComeTo
          <5>3. fid = (camera.frame - 1) % 2
            BY <4>2, <5>2 DEF FramesInv, LastCameBefore
          <5>4. fid' = ((camera.frame - 1) + 1) % 2
            BY <1>4, <1>5
          <5> QED BY <1>4, <2>1, <4>2, <5>3, <5>4, ParityDiffers
        <4> QED BY <4>1, <4>2
      <3> QED BY <1>4, <3>1, <3>2, <3>3
    <2>3. HeldWhole' /\ InOrder(outbuf)' /\ InOrder(hold.data)'
      BY <1>2, <2>1 DEF FramesInv, HeldWhole, WholeFrame, InOrder, Follows
    <2>4. LastCameBefore'
      <3> SUFFICES ASSUME outbuf # <<>> PROVE LastCameBefore'
        BY <2>1 DEF LastCameBefore
      <3> DEFINE e == outbuf[Len(outbuf)]
      <3>1. e.frame \in Nat /\ e.part \in 1..PARTS
        BY <1>4, DataFacts
      <3>2. \/ e.frame < camera.frame
            \/ e.frame = camera.frame /\ e.part < camera.part
        BY <1>2 DEF FramesInv, LastCameBefore
      <3>3. \/ e.frame < packet'.frame
            \/ e.frame = packet'.frame /\ (packet'.part = 0 \/ e.part < packet'.part)
        BY <1>4, <1>5, <1>6, <3>1, <3>2, UvcStreamAssumption
      <3>4. fid' = e.frame % 2 /\ e.frame \in 1..MaxFrames
        BY <2>1 DEF FramesInv, LastCameBefore
      <3> QED BY <1>2, <2>1, <3>3, <3>4 DEF LastCameBefore
    <2> QED BY <1>7, <2>2, <2>3, <2>4 DEF FramesInv
  <1> QED BY <1>9, <1>10

(* The data of a packet continue the frame under construction; its         *)
(* end-of-frame bit ends it, if that is seen.                              *)
LEMMA AppendFrames ==
    ASSUME StreamInv, FramesInv, AppendData
    PROVE  FramesInv'
  <1> DEFINE fits == isochronous \/ Len(outbuf) + 1 < SIZE_BUF
             grows == packet.part # 0 /\ fits
             grown == Append(outbuf, [frame |-> packet.frame, part |-> packet.part])
             data == IF packet.part # 0 /\ fits THEN grown ELSE outbuf
             err == bfh_err \/ (packet.part # 0 /\ ~fits)
             ends == packet.eof /\ (IF isochronous THEN data # <<>> ELSE packet.part # 0)
             upto == IF packet.part = 0 THEN PARTS ELSE packet.part
  <1>1. /\ event = "data" /\ event' # "data" /\ event' # "idle"
        /\ IF ends THEN Swap(data, err) ELSE KeepBuilding(data, err)
        /\ fid' = fid /\ camera' = camera /\ lost' = lost
    BY DEF AppendData, AfterPacket, worldVars
  <1>2. /\ packet.frame \in Nat /\ packet.part \in 0..PARTS /\ outbuf \in Data
        /\ camera.frame \in Nat /\ camera.part \in Nat /\ seq \in Nat /\ lost \in Nat
        /\ PARTS \in Nat \ {0} /\ SIZE_BUF \in Nat /\ PARTS < SIZE_BUF
        /\ MaxFrames \in Nat
    BY UvcStreamAssumption DEF StreamInv, TypeOK
  <1>3. Sent
    BY <1>1 DEF FramesInv
  <1>4. api # "closed" /\ api' # "closed"
    BY <1>1, BusyIsOpen DEF Swap, KeepBuilding, Broadcast, Awake
  <1>5. /\ grows => /\ grown \in Data /\ Len(grown) = Len(outbuf) + 1
                    /\ \A i \in 1..Len(outbuf) : grown[i] = outbuf[i]
                    /\ grown[Len(outbuf) + 1].frame = packet.frame
                    /\ grown[Len(outbuf) + 1].part = packet.part
        /\ Len(outbuf) \in Nat
    <2>1. grows => packet.part \in 1..PARTS
      BY <1>2
    <2> QED BY <1>2, <2>1, AppendFacts, DataFacts
  <1> HIDE DEF grown
  <1>6. ASSUME lost = 0
        PROVE  /\ ~bfh_err /\ SentLast /\ ComeTo(outbuf, packet.frame, PartsBefore)
               /\ Len(outbuf) <= PartsBefore
    BY <1>1, <1>4, <1>6 DEF FramesInv, NothingMissing, ComeTo
  <1>7. ASSUME lost = 0
        PROVE  (packet.part # 0 => fits) /\ ~err
    BY <1>2, <1>5, <1>6, <1>7 DEF PartsBefore
  <1>8. lost = 0 => ComeTo(data, packet.frame, upto)
    <2> SUFFICES ASSUME lost = 0 PROVE ComeTo(data, packet.frame, upto)
      OBVIOUS
    <2>1. CASE packet.part = 0
      BY <1>6, <2>1 DEF PartsBefore
    <2>2. CASE packet.part # 0
      <3>1. grows /\ data = grown /\ upto = packet.part /\ PartsBefore = packet.part - 1
        BY <1>7, <2>2 DEF PartsBefore
      <3>2. Len(grown) <= packet.part
        BY <1>2, <1>5, <1>6, <3>1
      <3>3. \A i \in 1..Len(grown) : grown[i].frame = packet.frame
        BY <1>5, <1>6, <3>1 DEF ComeTo
      <3>4. ASSUME seq # 0
            PROVE  Len(grown) = packet.part /\ \A i \in 1..packet.part : grown[i].part = i
        <4>1. /\ Len(outbuf) = packet.part - 1
              /\ \A i \in 1..packet.part - 1 : outbuf[i].part = i
          BY <1>6, <3>1, <3>4 DEF ComeTo
        <4>2. Len(grown) = packet.part
          BY <1>2, <1>5, <3>1, <4>1
        <4>3. ASSUME NEW i \in 1..packet.part - 1 PROVE grown[i].part = i
          BY <1>5, <3>1, <4>1, <4>3
        <4>4. grown[packet.part].part = packet.part
          BY <1>2, <1>5, <3>1, <4>1
        <4> QED BY <1>2, <4>2, <4>3, <4>4
      <3> QED BY <3>1, <3>2, <3>3, <3>4 DEF ComeTo
    <2> QED BY <2>1, <2>2
  <1>9. InOrder(data)
    <2>1. CASE ~grows
      BY <2>1 DEF FramesInv
    <2>2. CASE grows
      <3> SUFFICES ASSUME NEW i \in 1..Len(grown) - 1
                   PROVE  Follows(grown[i], grown[i + 1])
        BY <2>2 DEF InOrder
      <3>1. CASE i < Len(outbuf)
        <4>1. i \in 1..Len(outbuf) - 1 /\ i \in 1..Len(outbuf) /\ i + 1 \in 1..Len(outbuf)
          BY <1>5, <2>2, <3>1
        <4> QED BY <1>5, <2>2, <4>1 DEF FramesInv, InOrder
      <3>2. CASE i = Len(outbuf)
        <4> DEFINE e == outbuf[Len(outbuf)]
        <4>1. outbuf # <<>> /\ e.frame \in Nat /\ e.part \in 1..PARTS
          BY <1>2, <3>2, DataFacts
        <4>2. /\ fid = e.frame % 2
              /\ \/ e.frame < packet.frame
                 \/ e.frame = packet.frame /\ e.part < packet.part
          BY <1>1, <2>2, <4>1 DEF FramesInv, LastCameBefore
        <4>3. e.frame < packet.frame => e.frame + 2 <= packet.frame
          BY <1>2, <1>3, <4>1, <4>2, ParityGap DEF Sent
        <4>4. lost = 0 => e.frame = packet.frame
          BY <1>5, <1>6, <3>2 DEF ComeTo
        <4>5. grown[i] = e /\ grown[i + 1].frame = packet.frame /\ grown[i + 1].part = packet.part
          BY <1>5, <2>2, <3>2
        <4>6. lost = 0 \/ lost > 0
          BY <1>2
        <4> QED BY <1>2, <4>1, <4>2, <4>3, <4>4, <4>5, <4>6 DEF Follows
      <3> QED BY <1>5, <2>2, <3>1, <3>2
    <2> QED BY <2>1, <2>2
  <1>10. lost = 0 /\ seq # 0 /\ ends => WholeFrame(data)
    <2> SUFFICES ASSUME lost = 0, seq # 0, ends PROVE WholeFrame(data)
      OBVIOUS
    <2>1. upto = PARTS
      BY <1>2, <1>6 DEF SentLast
    <2>2. packet.frame \in 1..MaxFrames
      BY <1>3 DEF Sent
    <2>3. ComeTo(data, packet.frame, PARTS)
      BY <1>8, <2>1
    <2> QED BY <2>2, <2>3 DEF ComeTo, WholeFrame
  <1>11. /\ camera'.frame > 0 /\ ClosedIsEmpty' /\ (event' = "data" => Sent')
    BY <1>1, <1>4 DEF FramesInv, ClosedIsEmpty
  <1>12. CASE ends
    <2>1. /\ outbuf' = <<>> /\ bfh_err' = FALSE
          /\ hold' = [seq |-> seq, data |-> data, err |-> err]
      BY <1>1, <1>12 DEF Swap
    <2>2. NothingMissing'
      <3> SUFFICES ASSUME lost = 0, camera.part > 1 PROVE FALSE
        BY <1>1, <2>1 DEF NothingMissing
      <3> QED BY <1>2, <1>6, <1>12 DEF SentLast
    <2>3. HeldWhole'
      BY <1>1, <1>10, <1>12, <2>1 DEF HeldWhole, WholeFrame
    <2>4. InOrder(outbuf)' /\ InOrder(hold.data)' /\ LastCameBefore'
      BY <1>1, <1>9, <2>1 DEF InOrder, Follows, LastCameBefore
    <2> QED BY <1>11, <2>2, <2>3, <2>4 DEF FramesInv
  <1>13. CASE ~ends
    <2>1. outbuf' = data /\ bfh_err' = err /\ seq' = seq /\ hold' = hold
      BY <1>1, <1>13 DEF KeepBuilding
    <2>2. NothingMissing'
      <3> SUFFICES ASSUME lost = 0
                   PROVE  /\ camera.part > 1 => ComeTo(data, camera.frame, camera.part - 1)
                          /\ camera.part = 1 => ComeTo(data, camera.frame - 1, PARTS)
        BY <1>1, <1>7, <2>1 DEF NothingMissing, ComeTo
      <3>1. ComeTo(data, packet.frame, upto) /\ SentLast
        BY <1>6, <1>8
      <3>2. CASE camera.part > 1
        BY <1>2, <3>1, <3>2 DEF SentLast
      <3>3. CASE camera.part = 1
        <4>1. camera.frame - 1 = packet.frame /\ upto = PARTS
          BY <1>2, <3>1, <3>3 DEF SentLast
        <4> QED BY <3>1, <3>3, <4>1
      <3> QED BY <3>2, <3>3
    <2>3. HeldWhole' /\ InOrder(outbuf)' /\ InOrder(hold.data)'
      BY <1>1, <1>9, <2>1 DEF FramesInv, HeldWhole, WholeFrame, InOrder, Follows
    <2>4. LastCameBefore'
      <3> SUFFICES ASSUME data # <<>>
                   PROVE  LET e == data[Len(data)]
                          IN  /\ fid = e.frame % 2 /\ e.frame \in 1..MaxFrames
                              /\ \/ e.frame < camera.frame
                                 \/ e.frame = camera.frame /\ e.part < camera.part
        BY <1>1, <2>1 DEF LastCameBefore
      <3>1. CASE grows
        <4>1. data[Len(data)].frame = packet.frame /\ data[Len(data)].part = packet.part
          BY <1>5, <3>1
        <4> QED BY <1>3, <3>1, <4>1 DEF Sent
      <3>2. CASE ~grows
        <4> DEFINE e == outbuf[Len(outbuf)]
        <4>1. e.frame \in Nat /\ e.part \in 1..PARTS
          BY <1>2, <3>2, DataFacts
        <4>2. /\ fid = e.frame % 2 /\ e.frame \in 1..MaxFrames
              /\ \/ e.frame < packet.frame
                 \/ e.frame = packet.frame /\ (packet.part = 0 \/ e.part < packet.part)
          BY <1>1, <3>2 DEF FramesInv, LastCameBefore
        <4>3. /\ packet.frame <= camera.frame
              /\ packet.frame = camera.frame =>
                    packet.part # 0 /\ packet.part < camera.part
          BY <1>2, <1>3 DEF Sent
        <4>4. e.frame < camera.frame \/ (e.frame = camera.frame /\ e.part < camera.part)
          <5> HIDE DEF e
          <5>1. CASE e.frame < packet.frame
            BY <1>2, <4>1, <4>3, <5>1
          <5>2. CASE e.frame = packet.frame
            BY <1>2, <4>1, <4>2, <4>3, <5>2
          <5> QED BY <4>2, <5>1, <5>2
        <4> QED BY <3>2, <4>2, <4>4
      <3> QED BY <3>1, <3>2
    <2> QED BY <1>11, <2>2, <2>3, <2>4 DEF FramesInv
  <1> QED BY <1>12, <1>13

LEMMA OpenFrames ==
    ASSUME StreamInv, FramesInv, OpenStream
    PROVE  FramesInv'
  <1>1. event # "data"
    BY DEF StreamInv, Handling, ClosedIsClean, AllNull, OpenStream
  <1>2. /\ outbuf = <<>> /\ seq = 0 /\ ~bfh_err /\ hold.data = <<>> /\ hold.seq = 0
    BY DEF FramesInv, ClosedIsEmpty, OpenStream
  <1>3. camera'.frame = 1 /\ camera'.part \in Nat
    BY UvcStreamAssumption DEF OpenStream
  <1>4. /\ UNCHANGED <<event, outbuf, seq, bfh_err, hold, lost>> /\ api' = "setup"
    BY DEF OpenStream, eventVars, buildVars
  <1>5. NothingMissing'
    BY <1>1, <1>2, <1>3, <1>4 DEF NothingMissing, ComeTo
  <1> QED
    BY <1>1, <1>2, <1>3, <1>4, <1>5
       DEF FramesInv, ClosedIsEmpty, HeldWhole, InOrder, LastCameBefore

LEMMA FreeFrames ==
    ASSUME StreamInv, FramesInv, FreeStream
    PROVE  FramesInv'
  <1>1. CASE Quiet
    <2>1. event # "data"
      BY <1>1 DEF StreamInv, Handling, Quiet, AllNull
    <2>2. /\ outbuf' = <<>> /\ seq' = 0 /\ bfh_err' = FALSE /\ hold' = Nothing
          /\ lost' = 0 /\ api' = "closed" /\ event' = event /\ camera' = camera
      BY <1>1 DEF FreeStream, worldVars
    <2>3. hold'.data = <<>> /\ hold'.seq = 0
      BY <2>2 DEF Nothing
    <2> QED
      BY <2>1, <2>2, <2>3
         DEF FramesInv, ClosedIsEmpty, NothingMissing, HeldWhole, InOrder, LastCameBefore
  <1>2. CASE ~Quiet
    BY <1>2, UndisturbedFrames DEF FreeStream, buildVars, worldVars
  <1> QED BY <1>1, <1>2

(* Every step keeps what is known of the frames. *)
LEMMA NextFrames ==
    ASSUME StreamInv, FramesInv, Next
    PROVE  FramesInv'
  <1>1. ASSUME NEW t \in Transfers, TransferCompleted(t) PROVE FramesInv'
    BY <1>1, UndisturbedFrames
       DEF TransferCompleted, Complete, eventVars, buildVars, worldVars
  <1>2. ASSUME NEW t \in Transfers, TransferRetried(t) PROVE FramesInv'
    BY <1>2, UndisturbedFrames
       DEF TransferRetried, Complete, eventVars, buildVars, worldVars
  <1>3. ASSUME NEW t \in Transfers, TransferEnded(t) PROVE FramesInv'
    BY <1>3, UndisturbedFrames
       DEF TransferEnded, Complete, eventVars, buildVars, worldVars
  <1>4. ASSUME NEW t \in Transfers, NoDevice(t) PROVE FramesInv'
    BY <1>4, UndisturbedFrames
       DEF NoDevice, Complete, eventVars, buildVars, worldVars
  <1>5. CASE ReceiveHeader
    BY <1>5, HeaderFrames
  <1>6. CASE ReceiveBadPacket
    <2>1. event # "idle" /\ event' # "data"
      BY <1>6 DEF ReceiveBadPacket, AfterPacket
    <2> QED BY <1>6, <2>1, BusyIsOpen, LossyFrames DEF ReceiveBadPacket, Lost
  <1>7. CASE ReceiveErrorBit
    <2>1. event # "idle" /\ event' # "data"
      BY <1>7 DEF ReceiveErrorBit, AfterPacket
    <2> QED BY <1>7, <2>1, BusyIsOpen, LossyFrames DEF ReceiveErrorBit, Lost, buildVars
  <1>8. CASE ReceiveBogusPacket
    <2>1. event # "idle" /\ event' # "data"
      BY <1>8 DEF ReceiveBogusPacket, AfterPacket
    <2> QED BY <1>8, <2>1, BusyIsOpen, LossyFrames DEF ReceiveBogusPacket, Lost, worldVars
  <1>9. CASE AppendData
    BY <1>9, AppendFrames
  <1>10. CASE EndOfPayload
    BY <1>10, UndisturbedFrames
       DEF EndOfPayload, eventVars, buildVars, worldVars
  <1>11. CASE TestRunning
    BY <1>11, UndisturbedFrames
       DEF TestRunning, eventVars, buildVars, worldVars
  <1>12. CASE Resubmit
    BY <1>12, UndisturbedFrames
       DEF Resubmit, eventVars, buildVars, worldVars
  <1>13. CASE DeleteTransfer
    BY <1>13, UndisturbedFrames
       DEF DeleteTransfer, Broadcast, Awake, AwakeCaller, eventVars, buildVars,
           worldVars
  <1>14. CASE TakeFrame
    BY <1>14, UndisturbedFrames
       DEF TakeFrame, eventVars, buildVars, worldVars
  <1>15. CASE CallUser
    BY <1>15, UndisturbedFrames
       DEF CallUser, eventVars, buildVars, worldVars
  <1>16. CASE OpenStream
    BY <1>16, OpenFrames
  <1>17. CASE SetupFails
    BY <1>17, UndisturbedFrames
       DEF SetupFails, eventVars, buildVars, worldVars
  <1>18. CASE CreateCallbackThread
    BY <1>18, UndisturbedFrames
       DEF CreateCallbackThread, eventVars, buildVars, worldVars
  <1>19. ASSUME NEW t \in Transfers, SubmitTransfer(t) PROVE FramesInv'
    BY <1>19, UndisturbedFrames
       DEF SubmitTransfer, eventVars, buildVars, worldVars
  <1>20. ASSUME NEW t \in Transfers, SubmitFails(t) PROVE FramesInv'
    BY <1>20, UndisturbedFrames
       DEF SubmitFails, eventVars, buildVars, worldVars
  <1>21. CASE StartFails
    BY <1>21, UndisturbedFrames
       DEF StartFails, eventVars, buildVars, worldVars
  <1>22. CASE StartReturns
    BY <1>22, UndisturbedFrames
       DEF StartReturns, eventVars, buildVars, worldVars
  <1>23. CASE CloseStream
    BY <1>23, UndisturbedFrames
       DEF CloseStream, eventVars, buildVars, worldVars
  <1>24. CASE CancelTransfers
    BY <1>24, UndisturbedFrames
       DEF CancelTransfers, WaitForTransfers, AwakeCaller, eventVars, buildVars,
           worldVars
  <1>25. CASE WaitAgain
    BY <1>25, UndisturbedFrames
       DEF WaitAgain, WaitForTransfers, AwakeCaller, eventVars, buildVars,
           worldVars
  <1>26. CASE JoinCallbackThread
    BY <1>26, UndisturbedFrames
       DEF JoinCallbackThread, eventVars, buildVars, worldVars
  <1>27. CASE FreeStream
    BY <1>27, FreeFrames
  <1>28. CASE LosePacket
    BY <1>28, LossyFrames DEF LosePacket, Lost, eventVars, buildVars
  <1>29. CASE Unplug
    BY <1>29, UndisturbedFrames
       DEF Unplug, eventVars, buildVars, worldVars
  <1>30. CASE SpuriousWakeup
    BY <1>30, UndisturbedFrames
       DEF SpuriousWakeup, Awake, AwakeCaller, eventVars, buildVars, worldVars
  <1> QED
    BY <1>1, <1>2, <1>3, <1>4, <1>5, <1>6, <1>7, <1>8, <1>9, <1>10, <1>11,
       <1>12, <1>13, <1>14, <1>15, <1>16, <1>17, <1>18, <1>19, <1>20, <1>21,
       <1>22, <1>23, <1>24, <1>25, <1>26, <1>27, <1>28, <1>29, <1>30
       DEF Next, Callback, EventThread, UserThread, Start, Stop

THEOREM FramesSafe == Spec => []FramesInv
  <1>1. StreamInv /\ FramesInv /\ [Next]_vars => FramesInv'
    <2> SUFFICES ASSUME StreamInv, FramesInv, [Next]_vars PROVE FramesInv'
      OBVIOUS
    <2>1. CASE Next
      BY <2>1, NextFrames
    <2>2. CASE UNCHANGED vars
      BY <2>2, UndisturbedFrames DEF vars, eventVars, buildVars, worldVars
    <2> QED BY <2>1, <2>2
  <1> QED BY <1>1, InitFrames, StreamSafe, PTL DEF Spec

(* _uvc_process_payload: as long as no packet is lost, every frame but the *)
(* first that the callback thread can take is one whole frame of the       *)
(* camera, of whatever size, for every use of the end-of-frame bit and     *)
(* wherever in a frame the stream began.                                   *)
THEOREM StreamWholeFrames == Spec => []WholeFrames
  <1>1. StreamInv /\ FramesInv => WholeFrames
    BY WholeFramesHold DEF StreamInv, FramesInv
  <1> QED BY <1>1, StreamSafe, FramesSafe, PTL

(* Whatever packets are lost, the packets of a frame are in order, and two *)
(* frames are joined only if a whole one between them was lost.            *)
THEOREM StreamJoinedOnlyAcrossLoss == Spec => []JoinedOnlyAcrossLoss
  <1>1. FramesInv => JoinedOnlyAcrossLoss
    BY JoinedHold DEF FramesInv
  <1> QED BY <1>1, FramesSafe, PTL

=============================================================================
