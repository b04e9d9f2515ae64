------------------------ MODULE CameraHandler_proofs ------------------------
(***************************************************************************)
(* Proofs about CameraHandler, for any threads and any calls of theirs.    *)
(***************************************************************************)
EXTENDS CameraHandler, TLAPS

IInv == TypeOK /\ ThreadInv

(* A message added to the queue, or taken out of it by removeMessages,     *)
(* leaves a queue of messages; after Looper.quit it stays empty.           *)
LEMMA PostTyped ==
    ASSUME TypeOK, NEW m \in Messages, Post(m)
    PROVE  /\ queue' \in Seq(Messages)
           /\ thread \in {"end", "dead"} /\ queue = <<>> => queue' = <<>>
  BY DEF TypeOK, Post

LEMMA RemoveTyped ==
    ASSUME TypeOK, NEW c \in Callers, RemoveStarts(c)
    PROVE  /\ queue' \in Seq(Messages)
           /\ queue = <<>> => queue' = <<>>
  <1>1. /\ queue \in Seq(Messages)
        /\ queue' = [i \in DOMAIN queue |->
                       IF queue[i] = "start" THEN "removed" ELSE queue[i]]
    BY DEF TypeOK, RemoveStarts
  <1>2. /\ Len(queue) \in Nat /\ DOMAIN queue = 1..Len(queue)
        /\ \A i \in 1..Len(queue) : queue[i] \in Messages
    BY <1>1
  <1>3. queue' \in [1..Len(queue) -> Messages]
    BY <1>1, <1>2 DEF Messages
  <1>4. queue' \in Seq(Messages)
    BY <1>2, <1>3
  <1>5. queue = <<>> => queue' = <<>>
    <2>1. SUFFICES ASSUME queue = <<>> PROVE queue' = <<>>
      OBVIOUS
    <2>2. DOMAIN queue' = 1..0
      BY <1>2, <1>3, <2>1
    <2>3. Len(queue') = 0
      BY <1>4, <2>2
    <2> QED BY <1>4, <2>3
  <1> QED BY <1>4, <1>5

(* The pcs of the callers and of the creator after a notifyAll. *)
LEMMA NotifyTyped ==
    ASSUME TypeOK, NotifyAll
    PROVE  /\ pc' \in [Callers -> CallerPcs] /\ creator' \in CreatorPcs
           /\ overtaken' \subseteq Callers
  BY DEF TypeOK, NotifyAll, CallerPcs, CreatorPcs

(* One step of a caller inside of a method. *)
LEMMA GotoTyped ==
    ASSUME TypeOK, NEW c \in Callers, NEW from, NEW to \in CallerPcs,
           Goto(c, from, to)
    PROVE  /\ pc' \in [Callers -> CallerPcs]
           /\ call' \in [Callers -> Methods \cup {"none"}]
           /\ calls' \in Nat /\ overtaken' \subseteq Callers
  BY DEF TypeOK, Goto

LEMMA BeginTyped ==
    ASSUME TypeOK, NEW c \in Callers, NEW m \in Methods, NEW first \in CallerPcs,
           Begin(c, m, first)
    PROVE  /\ pc' \in [Callers -> CallerPcs]
           /\ call' \in [Callers -> Methods \cup {"none"}]
           /\ calls' \in Nat /\ overtaken' \subseteq Callers
  BY DEF TypeOK, Begin

(* The steps of the callers and of the creator leave the camera thread and *)
(* its camera alone.                                                       *)
LEMMA OthersKeepInv ==
    ASSUME IInv,
           UNCHANGED <<mIsPreviewing, cameraVars, threadVars>>,
           queue' \in Seq(Messages), queue = <<>> /\ thread \in {"end", "dead"} => queue' = <<>>,
           pc' \in [Callers -> CallerPcs],
           call' \in [Callers -> Methods \cup {"none"}],
           calls' \in Nat, overtaken' \subseteq Callers,
           mHandler' \in BOOLEAN, mReleased' \in BOOLEAN, mReleased => mReleased',
           mCameraHandler' \in BOOLEAN, creator' \in CreatorPcs
    PROVE  IInv'
  <1>1. TypeOK'
    BY DEF IInv, TypeOK, cameraVars, threadVars
  <1>2. ThreadInv'
    BY DEF IInv, ThreadInv, OneCamera, CameraInUse, NoCamera, cameraVars, threadVars
  <1> QED BY <1>1, <1>2 DEF IInv

LEMMA CallerKeepsInv ==
    ASSUME IInv, NEW c \in Callers,
           BeginCall(c) \/ ContinueCall(c) \/ SpuriousWakeup(c)
    PROVE  IInv'
  <1> USE DEF IInv
  <1>t. TypeOK
    OBVIOUS
  <1>h. CASE handlerVars' = handlerVars /\ queue' = queue
              /\ UNCHANGED <<mIsPreviewing, cameraVars, threadVars>>
              /\ \/ \E m \in Methods, first \in CallerPcs : Begin(c, m, first)
                 \/ \E from \in CallerPcs, to \in CallerPcs : Goto(c, from, to)
    <2>1. /\ pc' \in [Callers -> CallerPcs]
          /\ call' \in [Callers -> Methods \cup {"none"}]
          /\ calls' \in Nat /\ overtaken' \subseteq Callers
      BY <1>h, <1>t, BeginTyped, GotoTyped
    <2> QED BY <1>h, <1>t, <2>1, OthersKeepInv DEF handlerVars, TypeOK
  <1>1. CASE Open(c) \/ StartPreview(c) \/ StopPreview(c) \/ Close(c)
    BY <1>1, <1>h DEF Open, StartPreview, StopPreview, Close, CallerPcs, Methods
  <1>2. CASE Release(c)
    <2>1. Begin(c, "release", "isOpened")
      BY <1>2 DEF Release
    <2>2. /\ pc' \in [Callers -> CallerPcs]
          /\ call' \in [Callers -> Methods \cup {"none"}]
          /\ calls' \in Nat /\ overtaken' \subseteq Callers
      BY <2>1, <1>t, BeginTyped DEF Methods, CallerPcs
    <2> QED BY <1>2, <1>t, <2>2, OthersKeepInv DEF Release, TypeOK
  <1>3. CASE IsOpened(c) \/ IsPreviewing(c) \/ SpuriousWakeup(c) \/ StopPreviewReturns(c)
    BY <1>3, <1>h DEF IsOpened, IsPreviewing, SpuriousWakeup, StopPreviewReturns,
                      AfterStopPreview, AfterCloseCall, CallerPcs
  <1>4. CASE RemoveStarts(c)
    <2>1. Goto(c, "removeStarts", "isPreviewing")
      BY <1>4 DEF RemoveStarts
    <2>2. /\ pc' \in [Callers -> CallerPcs]
          /\ call' \in [Callers -> Methods \cup {"none"}]
          /\ calls' \in Nat /\ overtaken' \subseteq Callers
      BY <2>1, <1>t, GotoTyped DEF CallerPcs
    <2>3. queue' \in Seq(Messages) /\ (queue = <<>> => queue' = <<>>)
      BY <1>4, <1>t, RemoveTyped
    <2> QED BY <1>4, <1>t, <2>2, <2>3, OthersKeepInv
            DEF RemoveStarts, TypeOK, handlerVars
  <1>5. CASE PostOpen(c) \/ PostStart(c) \/ SendStop(c) \/ SendClose(c) \/ SendRelease(c)
    <2>1. \E from \in CallerPcs, to \in CallerPcs : Goto(c, from, to)
      BY <1>5 DEF PostOpen, PostStart, SendStop, SendClose, SendRelease,
                  AfterCloseCall, CallerPcs
    <2>2. /\ pc' \in [Callers -> CallerPcs]
          /\ call' \in [Callers -> Methods \cup {"none"}]
          /\ calls' \in Nat /\ overtaken' \subseteq Callers
      BY <2>1, <1>t, GotoTyped
    <2>3. \E m \in Messages : Post(m)
      BY <1>5 DEF PostOpen, PostStart, SendStop, SendClose, SendRelease, Messages
    <2>4. /\ queue' \in Seq(Messages)
          /\ thread \in {"end", "dead"} /\ queue = <<>> => queue' = <<>>
      BY <2>3, <1>t, PostTyped
    <2>5. /\ UNCHANGED <<mIsPreviewing, cameraVars, threadVars, mHandler,
                         mReleased, creator>>
          /\ mCameraHandler' \in {mCameraHandler, FALSE}
      BY <1>5 DEF PostOpen, PostStart, SendStop, SendClose, SendRelease, handlerVars
    <2> QED BY <1>t, <2>2, <2>4, <2>5, OthersKeepInv DEF TypeOK
  <1> QED BY <1>1, <1>2, <1>3, <1>4, <1>5 DEF BeginCall, ContinueCall

LEMMA CreatorKeepsInv ==
    ASSUME IInv, GetHandler \/ SpuriousGetHandler \/ CreateHandler
    PROVE  IInv'
  <1>1. /\ UNCHANGED <<queue, mIsPreviewing, cameraVars, threadVars, callVars,
                       mHandler, mReleased>>
        /\ mCameraHandler' \in {mCameraHandler, mHandler}
        /\ creator' \in CreatorPcs
    BY DEF GetHandler, SpuriousGetHandler, CreateHandler, CreatorPcs
  <1> QED BY <1>1, OthersKeepInv DEF IInv, TypeOK, callVars

(* The steps of the camera thread. *)
LEMMA CameraThreadKeepsInv ==
    ASSUME IInv, CameraThread
    PROVE  IInv'
  <1> USE DEF IInv
  <1>n. NotifyAll => /\ pc' \in [Callers -> CallerPcs] /\ creator' \in CreatorPcs
                     /\ overtaken' \subseteq Callers
    BY NotifyTyped
  <1>1. CASE Run
    <2>1. TypeOK'
      BY <1>1, <1>n DEF Run, TypeOK, ThreadInv, OneCamera, CameraInUse, NoCamera,
         ThreadPcs, Messages, callVars, handlerVars, cameraVars
    <2>2. ThreadInv'
      BY <1>1 DEF Run, TypeOK, ThreadInv, OneCamera, CameraInUse, NoCamera, Messages,
         callVars, handlerVars, cameraVars
    <2> QED BY <2>1, <2>2
  <1>2. CASE NextMessage
    <2>1. TypeOK'
      BY <1>2, <1>n DEF NextMessage, TypeOK, ThreadInv, OneCamera, CameraInUse, NoCamera,
         ThreadPcs, Messages, callVars, handlerVars, cameraVars, FirstStep, StartStep, StopStep
    <2>2. ThreadInv'
      BY <1>2 DEF NextMessage, TypeOK, ThreadInv, OneCamera, CameraInUse, NoCamera, Messages,
         callVars, handlerVars, cameraVars, FirstStep, StartStep, StopStep
    <2> QED BY <2>1, <2>2
  <1>3. CASE HandleClose
    <2>1. TypeOK'
      BY <1>3, <1>n DEF HandleClose, TypeOK, ThreadInv, OneCamera, CameraInUse, NoCamera,
         ThreadPcs, Messages, callVars, handlerVars, cameraVars, AfterClose, Done
    <2>2. ThreadInv'
      BY <1>3 DEF HandleClose, TypeOK, ThreadInv, OneCamera, CameraInUse, NoCamera, Messages,
         callVars, handlerVars, cameraVars, AfterClose, Done
    <2> QED BY <2>1, <2>2
  <1>4. CASE StopClosedCamera
    <2>1. TypeOK'
      BY <1>4, <1>n DEF StopClosedCamera, TypeOK, ThreadInv, OneCamera, CameraInUse, NoCamera,
         ThreadPcs, Messages, callVars, handlerVars, cameraVars
    <2>2. ThreadInv'
      BY <1>4 DEF StopClosedCamera, TypeOK, ThreadInv, OneCamera, CameraInUse, NoCamera, Messages,
         callVars, handlerVars, cameraVars
    <2> QED BY <2>1, <2>2
  <1>5. CASE DestroyCamera
    <2>1. TypeOK'
      BY <1>5, <1>n DEF DestroyCamera, TypeOK, ThreadInv, OneCamera, CameraInUse, NoCamera,
         ThreadPcs, Messages, callVars, handlerVars, cameraVars, AfterClose, Done
    <2>2. ThreadInv'
      BY <1>5 DEF DestroyCamera, TypeOK, ThreadInv, OneCamera, CameraInUse, NoCamera, Messages,
         callVars, handlerVars, cameraVars, AfterClose, Done
    <2> QED BY <2>1, <2>2
  <1>6. CASE HandleOpen
    <2>1. TypeOK'
      <3>1. /\ created \in Nat /\ created' = created + 1
            /\ mUVCCamera' = mUVCCamera /\ streams' = streams
            /\ camera' \in {camera, created'}
            /\ connected' \in {connected, connected \cup {created'}}
            /\ thread' \in {"loop", "publish"} /\ message' \in {message, "none"}
            /\ UNCHANGED <<queue, mIsPreviewing, callVars, handlerVars>>
        BY <1>6 DEF HandleOpen, TypeOK, Done
      <3>2. /\ \A x \in 0..created : x \in 0..created'
            /\ \A x \in 1..created : x \in 1..created'
            /\ created' \in 1..created' /\ created' \in 0..created' /\ created' \in Nat
        BY <3>1
      <3>3. /\ mUVCCamera' \in 0..created' /\ camera' \in 0..created'
            /\ connected' \subseteq 1..created' /\ streams' \subseteq connected'
        BY <3>1, <3>2, Zenon DEF TypeOK
      <3> QED BY <3>1, <3>2, <3>3 DEF TypeOK, ThreadPcs, callVars, handlerVars
    <2>2. ThreadInv'
      BY <1>6 DEF HandleOpen, TypeOK, ThreadInv, OneCamera, CameraInUse, NoCamera, Messages,
         callVars, handlerVars, cameraVars, Done
    <2> QED BY <2>1, <2>2
  <1>7. CASE PublishCamera
    <2>1. TypeOK'
      BY <1>7, <1>n DEF PublishCamera, TypeOK, ThreadInv, OneCamera, CameraInUse, NoCamera,
         ThreadPcs, Messages, callVars, handlerVars, cameraVars, Done
    <2>2. ThreadInv'
      BY <1>7 DEF PublishCamera, TypeOK, ThreadInv, OneCamera, CameraInUse, NoCamera, Messages,
         callVars, handlerVars, cameraVars, Done
    <2> QED BY <2>1, <2>2
  <1>8. CASE HandleStartPreview
    <2>1. TypeOK'
      BY <1>8, <1>n DEF HandleStartPreview, TypeOK, ThreadInv, OneCamera, CameraInUse, NoCamera,
         ThreadPcs, Messages, callVars, handlerVars, cameraVars, Done
    <2>2. ThreadInv'
      BY <1>8 DEF HandleStartPreview, TypeOK, ThreadInv, OneCamera, CameraInUse, NoCamera, Messages,
         callVars, handlerVars, cameraVars, Done
    <2> QED BY <2>1, <2>2
  <1>9. CASE StartNativePreview
    <2>1. TypeOK'
      BY <1>9, <1>n DEF StartNativePreview, TypeOK, ThreadInv, OneCamera, CameraInUse, NoCamera,
         ThreadPcs, Messages, callVars, handlerVars, cameraVars
    <2>2. ThreadInv'
      BY <1>9 DEF StartNativePreview, TypeOK, ThreadInv, OneCamera, CameraInUse, NoCamera, Messages,
         callVars, handlerVars, cameraVars
    <2> QED BY <2>1, <2>2
  <1>10. CASE SetPreviewing
    <2>1. TypeOK'
      BY <1>10, <1>n DEF SetPreviewing, TypeOK, ThreadInv, OneCamera, CameraInUse, NoCamera,
         ThreadPcs, Messages, callVars, handlerVars, cameraVars, Done
    <2>2. ThreadInv'
      BY <1>10 DEF SetPreviewing, TypeOK, ThreadInv, OneCamera, CameraInUse, NoCamera, Messages,
         callVars, handlerVars, cameraVars, Done
    <2> QED BY <2>1, <2>2
  <1>11. CASE HandleStopPreview
    <2>1. TypeOK'
      BY <1>11, <1>n DEF HandleStopPreview, TypeOK, ThreadInv, OneCamera, CameraInUse, NoCamera,
         ThreadPcs, Messages, callVars, handlerVars, cameraVars
    <2>2. ThreadInv'
      BY <1>11 DEF HandleStopPreview, TypeOK, ThreadInv, OneCamera, CameraInUse, NoCamera, Messages,
         callVars, handlerVars, cameraVars
    <2> QED BY <2>1, <2>2
  <1>12. CASE ClearPreviewing
    <2>1. TypeOK'
      BY <1>12, <1>n DEF ClearPreviewing, TypeOK, ThreadInv, OneCamera, CameraInUse, NoCamera,
         ThreadPcs, Messages, callVars, handlerVars, cameraVars, Done
    <2>2. ThreadInv'
      BY <1>12 DEF ClearPreviewing, TypeOK, ThreadInv, OneCamera, CameraInUse, NoCamera, Messages,
         callVars, handlerVars, cameraVars, Done
    <2> QED BY <2>1, <2>2
  <1>13. CASE HandleRelease
    <2>1. TypeOK'
      BY <1>13, <1>n DEF HandleRelease, TypeOK, ThreadInv, OneCamera, CameraInUse, NoCamera,
         ThreadPcs, Messages, callVars, handlerVars, cameraVars
    <2>2. ThreadInv'
      BY <1>13 DEF HandleRelease, TypeOK, ThreadInv, OneCamera, CameraInUse, NoCamera, Messages,
         callVars, handlerVars, cameraVars
    <2> QED BY <2>1, <2>2
  <1>14. CASE EndOfRun
    <2>1. TypeOK'
      BY <1>14, <1>n DEF EndOfRun, TypeOK, ThreadInv, OneCamera, CameraInUse, NoCamera,
         ThreadPcs, Messages, callVars, handlerVars, cameraVars
    <2>2. ThreadInv'
      BY <1>14 DEF EndOfRun, TypeOK, ThreadInv, OneCamera, CameraInUse, NoCamera, Messages,
         callVars, handlerVars, cameraVars
    <2> QED BY <2>1, <2>2
  <1> QED BY <1>1, <1>2, <1>3, <1>4, <1>5, <1>6, <1>7, <1>8, <1>9, <1>10, <1>11, <1>12, <1>13, <1>14 DEF CameraThread

LEMMA InitInv == ASSUME Init PROVE IInv
  <1>1. TypeOK
    <2>1. /\ mUVCCamera \in 0..created /\ camera \in 0..created /\ created \in Nat
          /\ connected = {} /\ streams = {}
      BY DEF Init, NoCamera
    <2>2. /\ pc \in [Callers -> CallerPcs]
          /\ call \in [Callers -> Methods \cup {"none"}]
      BY DEF Init, CallerPcs
    <2>3. queue \in Seq(Messages)
      BY DEF Init
    <2>4. /\ thread \in ThreadPcs /\ creator \in CreatorPcs /\ calls \in Nat
          /\ {mHandler, mReleased, mCameraHandler, mIsPreviewing} \subseteq BOOLEAN
          /\ message = "none" /\ overtaken = {}
      BY DEF Init, ThreadPcs, CreatorPcs
    <2> QED BY <2>1, <2>2, <2>3, <2>4 DEF TypeOK
  <1>2. ThreadInv
    BY DEF Init, ThreadInv, OneCamera, CameraInUse, NoCamera
  <1> QED BY <1>1, <1>2 DEF IInv

LEMMA StepInv == ASSUME IInv, [Next]_vars PROVE IInv'
  <1>1. CASE Next
    BY <1>1, CameraThreadKeepsInv, CreatorKeepsInv, CallerKeepsInv DEF Next
  <1>2. CASE UNCHANGED vars
    BY <1>2 DEF vars, cameraVars, threadVars, callVars, handlerVars, IInv, TypeOK,
         ThreadInv, OneCamera, CameraInUse
  <1> QED BY <1>1, <1>2

LEMMA InvHolds == Spec => []IInv
  BY InitInv, StepInv, PTL DEF Spec

(* The camera thread's fields, its message and the camera it has agree at  *)
(* every step of every message (ThreadInv).                                *)
THEOREM ThreadInvHolds == Spec => []ThreadInv
  <1>1. IInv => ThreadInv
    BY DEF IInv
  <1> QED BY <1>1, InvHolds, PTL

(* Every variable of the camera handler keeps its type. *)
THEOREM HandlerTypeCorrect == Spec => []TypeOK
  <1>1. IInv => TypeOK
    BY DEF IInv
  <1> QED BY <1>1, InvHolds, PTL

(* At most one camera is connected, and it is the one a later close finds. *)
THEOREM AtMostOneCamera == Spec => []OneCamera
  <1>1. IInv => OneCamera
    BY DEF IInv, ThreadInv
  <1> QED BY <1>1, InvHolds, PTL

(* Between two messages a camera that streams is the open one, and the flag *)
(* says so.                                                                 *)
THEOREM StreamsAreFlagged == Spec => []StreamIsFlagged
  <1>1. IInv => StreamIsFlagged
    BY DEF IInv, TypeOK, ThreadInv, OneCamera, CameraInUse, StreamIsFlagged
  <1> QED BY <1>1, InvHolds, PTL

(* Once the camera thread has ended nothing is connected. *)
THEOREM ReleaseCloses == Spec => []ReleasedMeansClosed
  <1>1. IInv => ReleasedMeansClosed
    BY DEF IInv, TypeOK, ThreadInv, OneCamera, CameraInUse, ReleasedMeansClosed
  <1> QED BY <1>1, InvHolds, PTL

-----------------------------------------------------------------------------
(* The messages in the queue. *)

(* What a message added to the queue, taken from its head or taken out by  *)
(* removeMessages does to the others.                                      *)
LEMMA PostedMessages ==
    ASSUME TypeOK, NEW m \in Messages, Post(m)
    PROVE  /\ \A k \in Messages : Contains(queue, k) => Contains(queue', k)
           /\ \A k \in Messages : Contains(queue', k) => Contains(queue, k) \/ k = m
           /\ thread \notin {"end", "dead"} => Contains(queue', m)
  <1>1. queue \in Seq(Messages) /\ Len(queue) \in Nat
    BY DEF TypeOK
  <1>2. CASE thread \in {"end", "dead"}
    BY <1>2 DEF Post
  <1>3. CASE thread \notin {"end", "dead"}
    <2>1. /\ Len(queue') = Len(queue) + 1
          /\ queue'[Len(queue) + 1] = m
          /\ \A i \in 1..Len(queue) : queue'[i] = queue[i]
      BY <1>1, <1>3 DEF Post
    <2>2. \A i : i \in 1..Len(queue') <=> i \in 1..Len(queue) \/ i = Len(queue) + 1
      BY <1>1, <2>1
    <2> QED BY <1>1, <1>3, <2>1, <2>2 DEF Contains
  <1> QED BY <1>2, <1>3

LEMMA RemovedMessages ==
    ASSUME TypeOK, NEW c \in Callers, RemoveStarts(c),
           NEW k \in Messages \ {"start", "removed"}
    PROVE  Contains(queue', k) <=> Contains(queue, k)
  <1>1. /\ queue \in Seq(Messages) /\ queue' \in Seq(Messages)
        /\ queue' = [i \in DOMAIN queue |->
                       IF queue[i] = "start" THEN "removed" ELSE queue[i]]
    BY RemoveTyped DEF TypeOK, RemoveStarts
  <1>2. DOMAIN queue' = DOMAIN queue
    BY <1>1
  <1>3. 1..Len(queue') = 1..Len(queue)
    BY <1>1, <1>2
  <1>4. \A i \in 1..Len(queue) : queue'[i] = k <=> queue[i] = k
    BY <1>1
  <1> QED BY <1>3, <1>4 DEF Contains

LEMMA NextMessages ==
    ASSUME TypeOK, queue # <<>>, queue' = Tail(queue)
    PROVE  /\ Head(queue) \in Messages
           /\ \A k \in Messages :
                Contains(queue', k) \/ Head(queue) = k <=> Contains(queue, k)
  <1>1. /\ queue \in Seq(Messages) /\ Len(queue) \in Nat /\ Len(queue) # 0
        /\ Len(queue') = Len(queue) - 1
        /\ Head(queue) = queue[1]
        /\ \A i \in 1..Len(queue') : queue'[i] = queue[i + 1]
    BY DEF TypeOK
  <1>2. /\ \A i \in 1..Len(queue') : i + 1 \in 1..Len(queue) /\ i + 1 # 1
        /\ \A i \in 1..Len(queue) : i = 1 \/ i - 1 \in 1..Len(queue')
        /\ 1 \in 1..Len(queue)
    BY <1>1
  <1>3. ASSUME NEW k \in Messages, NEW i \in 1..Len(queue), queue[i] = k, i # 1
        PROVE  Contains(queue', k)
    <2>1. i - 1 \in 1..Len(queue')
      BY <1>2, <1>3
    <2>2. queue'[i - 1] = queue[(i - 1) + 1]
      BY <1>1, <2>1
    <2>3. queue'[i - 1] = k
      BY <1>1, <1>3, <2>2
    <2> HIDE <1>3
    <2> QED BY <2>1, <2>3 DEF Contains
  <1>4. ASSUME NEW k \in Messages
        PROVE  Contains(queue', k) \/ Head(queue) = k <=> Contains(queue, k)
    <2>1. Contains(queue, k) => Contains(queue', k) \/ Head(queue) = k
      BY <1>1, <1>3 DEF Contains
    <2>2. Contains(queue', k) \/ Head(queue) = k => Contains(queue, k)
      BY <1>1, <1>2 DEF Contains
    <2> QED BY <2>1, <2>2
  <1>5. Head(queue) \in Messages
    BY <1>1, <1>2
  <1> QED BY <1>4, <1>5

-----------------------------------------------------------------------------
(* Who waits in stopPreview, whoever else calls. *)

(* A caller that is about to send its stop has seen the preview run, and   *)
(* nothing but a notify, which overtakes it, ends that: mIsPreviewing is   *)
(* cleared where mSync is notified, and the thread notifies when it ends.  *)
WaitInvOf(c) ==
    c \notin overtaken =>
        /\ pc[c] = "waiting" => StopOnItsWay \/ thread = "end"
        /\ pc[c] = "sendStop" => mIsPreviewing /\ thread # "dead"

WaitInv == \A c \in Callers : WaitInvOf(c)

(* A notifyAll leaves nobody waiting, and overtakes who is about to wait.  *)
LEMMA NotifyKeepsWaitInv ==
    ASSUME TypeOK, NotifyAll
    PROVE  WaitInv'
  BY DEF TypeOK, NotifyAll, WaitInv, WaitInvOf

(* Most steps of the camera thread neither touch the queue nor wake anyone.*)
LEMMA QuietStep ==
    ASSUME WaitInv, UNCHANGED <<queue, pc, overtaken>>,
           mIsPreviewing => mIsPreviewing', StopHandled => StopHandled',
           thread = "end" => thread' = "end", thread' = "dead" => thread = "dead"
    PROVE  WaitInv'
  BY DEF WaitInv, WaitInvOf, StopOnItsWay

LEMMA ThreadKeepsWaitInv ==
    ASSUME TypeOK, WaitInv, CameraThread
    PROVE  WaitInv'
  <1>1. CASE Run \/ ClearPreviewing \/ EndOfRun
    BY <1>1, NotifyKeepsWaitInv DEF Run, ClearPreviewing, EndOfRun
  <1>2. CASE NextMessage
    <2>1. /\ queue # <<>> /\ queue' = Tail(queue) /\ thread = "loop"
          /\ UNCHANGED <<mIsPreviewing, pc, overtaken>>
          /\ thread' = FirstStep(Head(queue))
      BY <1>2 DEF NextMessage, callVars
    <2>2. /\ thread' # "dead"
          /\ Head(queue) = "stop" /\ mIsPreviewing => StopHandled'
      BY <2>1 DEF FirstStep, StartStep, StopStep, StopHandled
    <2>3. StopOnItsWay => StopOnItsWay'
      BY <2>1, <2>2, NextMessages DEF StopOnItsWay, StopHandled, Messages
    <2> QED BY <2>1, <2>2, <2>3 DEF WaitInv, WaitInvOf
  <1>3. CASE HandleClose \/ DestroyCamera
    <2>1. /\ thread \in {"closeTake", "closeDestroy"}
          /\ thread' \in {"closeStop", "connect", "quit", "loop"}
          /\ UNCHANGED <<queue, mIsPreviewing, callVars>>
      BY <1>3 DEF HandleClose, DestroyCamera, AfterClose, Done
    <2> QED BY <2>1, QuietStep DEF StopHandled, callVars
  <1>4. CASE StopClosedCamera \/ HandleOpen \/ PublishCamera \/ HandleStartPreview
             \/ StartNativePreview \/ SetPreviewing
    <2>1. /\ thread \in {"closeStop", "connect", "publish", "configure",
                         "startNative", "flag"}
          /\ thread' \in {"closeDestroy", "loop", "publish", "startNative", "flag"}
          /\ mIsPreviewing => mIsPreviewing'
          /\ UNCHANGED <<queue, callVars>>
      BY <1>4 DEF StopClosedCamera, HandleOpen, PublishCamera, HandleStartPreview,
                  StartNativePreview, SetPreviewing, Done
    <2> QED BY <2>1, QuietStep DEF StopHandled, callVars
  <1>5. CASE HandleStopPreview
    <2>1. /\ thread = "stopNative" /\ thread' = "unflag"
          /\ UNCHANGED <<queue, mIsPreviewing, callVars>>
      BY <1>5 DEF HandleStopPreview
    <2> QED BY <2>1, QuietStep DEF StopHandled, callVars
  <1>6. CASE HandleRelease
    <2>1. thread' = "end" /\ UNCHANGED <<mIsPreviewing, callVars>>
      BY <1>6 DEF HandleRelease
    <2> QED BY <2>1 DEF WaitInv, WaitInvOf, callVars
  <1> QED BY <1>1, <1>2, <1>3, <1>4, <1>5, <1>6 DEF CameraThread

LEMMA CreatorKeepsWaitInv ==
    ASSUME WaitInv, GetHandler \/ SpuriousGetHandler \/ CreateHandler
    PROVE  WaitInv'
  BY QuietStep
     DEF GetHandler, SpuriousGetHandler, CreateHandler, threadVars, callVars, StopHandled

LEMMA CallerKeepsWaitInv ==
    ASSUME TypeOK, ThreadInv, WaitInv, NEW c \in Callers,
           BeginCall(c) \/ ContinueCall(c) \/ SpuriousWakeup(c)
    PROVE  WaitInv'
  <1>p. pc \in [Callers -> CallerPcs]
    BY DEF TypeOK
  <1>u. UNCHANGED <<mIsPreviewing, thread>> /\ (StopHandled' <=> StopHandled)
    BY DEF BeginCall, ContinueCall, Open, StartPreview, StopPreview, Close, Release,
           PostOpen, PostStart, IsOpened, RemoveStarts, IsPreviewing, SendStop,
           SpuriousWakeup, StopPreviewReturns, SendClose, SendRelease,
           threadVars, StopHandled
  <1>q. Contains(queue, "stop") => Contains(queue', "stop")
    <2>1. \/ queue' = queue
          \/ \E m \in Messages : Post(m)
          \/ RemoveStarts(c)
      BY DEF BeginCall, ContinueCall, Open, StartPreview, StopPreview, Close, Release,
             PostOpen, PostStart, IsOpened, IsPreviewing, SendStop, SpuriousWakeup,
             StopPreviewReturns, SendClose, SendRelease, Messages
    <2> QED BY <2>1, PostedMessages, RemovedMessages DEF Messages
  <1>o. \A d \in Callers \ {c} :
          pc'[d] = pc[d] /\ (d \in overtaken' <=> d \in overtaken)
    BY <1>p DEF BeginCall, ContinueCall, Open, StartPreview, StopPreview, Close, Release,
           PostOpen, PostStart, IsOpened, RemoveStarts, IsPreviewing, SendStop,
           SpuriousWakeup, StopPreviewReturns, SendClose, SendRelease, Begin, Goto
  <1>1. \A d \in Callers \ {c} : WaitInvOf(d)'
    BY <1>u, <1>q, <1>o DEF WaitInv, WaitInvOf, StopOnItsWay
  <1>2. WaitInvOf(c)'
    <2>1. CASE SendStop(c)
      <3>1. /\ pc[c] = "sendStop" /\ pc'[c] = "waiting" /\ Post("stop")
            /\ overtaken' = overtaken
        BY <1>p, <2>1 DEF SendStop, Goto
      <3>2. thread \notin {"end", "dead"} => Contains(queue', "stop")
        BY <3>1, PostedMessages DEF Messages
      <3>3. c \notin overtaken => mIsPreviewing /\ thread # "dead"
        BY <3>1 DEF WaitInv, WaitInvOf
      <3> QED BY <1>u, <3>1, <3>2, <3>3 DEF WaitInvOf, StopOnItsWay
    <2>2. CASE IsPreviewing(c)
      <3>1. /\ pc'[c] # "waiting"
            /\ pc'[c] = "sendStop" => mUVCCamera # NoCamera /\ mIsPreviewing
        BY <1>p, <2>2 DEF IsPreviewing, Goto, AfterStopPreview
      <3>2. thread = "dead" => mUVCCamera = NoCamera
        BY DEF ThreadInv
      <3> QED BY <1>u, <3>1, <3>2 DEF WaitInvOf
    <2>3. CASE BeginCall(c)
      <3>1. pc'[c] \in {"postOpen", "postStart", "removeStarts", "isOpened"}
        BY <1>p, <2>3 DEF BeginCall, Open, StartPreview, StopPreview, Close, Release, Begin
      <3> QED BY <3>1 DEF WaitInvOf
    <2>4. CASE \/ PostOpen(c) \/ PostStart(c) \/ IsOpened(c) \/ RemoveStarts(c)
               \/ StopPreviewReturns(c) \/ SendClose(c) \/ SendRelease(c)
               \/ SpuriousWakeup(c)
      <3>1. pc'[c] \in {"idle", "removeStarts", "isPreviewing", "woken", "sendClose",
                        "sendRelease"}
        BY <1>p, <2>4
           DEF PostOpen, PostStart, IsOpened, RemoveStarts, StopPreviewReturns, SendClose,
               SendRelease, SpuriousWakeup, Goto, AfterStopPreview, AfterCloseCall
      <3> QED BY <3>1 DEF WaitInvOf
    <2> QED BY <2>1, <2>2, <2>3, <2>4 DEF ContinueCall
  <1> QED BY <1>1, <1>2 DEF WaitInv

(* Whatever threads call, in any order and with any wake-ups: a caller     *)
(* that waits in stopPreview and was not overtaken is going to be notified,*)
(* by the stop it sent, by an earlier one, or by the end of the thread.    *)
THEOREM WaitersAreServed == Spec => []WaiterIsServed
  <1>1. Init => WaitInv
    BY DEF Init, WaitInv, WaitInvOf
  <1>2. IInv /\ WaitInv /\ [Next]_vars => WaitInv'
    <2> SUFFICES ASSUME IInv, WaitInv, [Next]_vars PROVE WaitInv'
      OBVIOUS
    <2>1. CASE Next
      BY <2>1, ThreadKeepsWaitInv, CreatorKeepsWaitInv, CallerKeepsWaitInv DEF Next, IInv
    <2>2. CASE UNCHANGED vars
      BY <2>2, QuietStep DEF vars, threadVars, callVars, StopHandled
    <2> QED BY <2>1, <2>2
  <1>3. WaitInv => WaiterIsServed
    BY DEF WaitInv, WaitInvOf, WaiterIsServed
  <1> QED BY <1>1, <1>2, <1>3, InvHolds, PTL DEF Spec

-----------------------------------------------------------------------------
(* A release and the handler of the helper, whoever calls. *)

(* Where a caller is inside of each method, and the camera thread in the   *)
(* handler of each message.                                                *)
StopPcs == {"removeStarts", "isPreviewing", "sendStop", "waiting", "woken"}

PcsOf(m) ==
    CASE m = "none" -> {"idle"}
      [] m = "open" -> {"postOpen"}
      [] m = "startPreview" -> {"postStart"}
      [] m = "stopPreview" -> StopPcs
      [] m = "close" -> StopPcs \cup {"isOpened", "sendClose"}
      [] OTHER -> StopPcs \cup {"isOpened", "sendClose", "sendRelease"}

ClosePcs == {"closeTake", "closeStop", "closeDestroy"}

ThreadPcsOf(m) ==
    CASE m = "none" -> {"boot", "loop", "end", "dead"}
      [] m = "open" -> ClosePcs \cup {"connect", "publish"}
      [] m = "close" -> ClosePcs
      [] m = "release" -> ClosePcs \cup {"quit"}
      [] m = "start" -> {"configure", "startNative", "flag"}
      [] m = "stop" -> {"stopNative", "unflag"}
      [] OTHER -> {}

ReleaseSent ==
    \/ Contains(queue, "release") \/ message = "release"
    \/ thread \in {"quit", "end", "dead"}

CallsInStep ==
    /\ \A c \in Callers : pc[c] \in PcsOf(call[c])
    /\ thread \in ThreadPcsOf(message)

(* release: from the moment the handler says it is released a caller is in *)
(* release, or the message that ends the camera thread is queued, handled  *)
(* or has ended it; no close, open or removeMessages takes it out.         *)
ReleaseOnItsWay ==
    mReleased <=> ReleaseSent \/ \E c \in Callers : call[c] = "release"

(* getHandler: who waits for the handler waits for a thread that has not   *)
(* made it yet; who was notified finds it; and the helper that got it keeps*)
(* it until the message of a release has been sent.  A wait that ended     *)
(* early may have returned null: the helper then has no handler, and       *)
(* nobody calls or releases the thread.                                    *)
HandlerOnItsWay ==
    /\ creator = "waiting" => thread = "boot"
    /\ creator = "woken" => mHandler
    /\ creator = "without" => ~mCameraHandler /\ ~ReleaseSent
    /\ creator = "done" => mCameraHandler \/ ReleaseSent

(* Why that is so: nobody calls before the helper has the handler. *)
HandlerFirst ==
    /\ thread = "boot" => ~mHandler /\ creator # "done"
    /\ thread \notin {"boot", "dead"} => mHandler
    /\ mCameraHandler \/ ReleaseSent => creator = "done"
    /\ \A c \in Callers : pc[c] # "idle" => creator = "done"

CallInv == CallsInStep /\ ReleaseOnItsWay /\ HandlerOnItsWay /\ HandlerFirst

LEMMA InitCallInv == ASSUME Init PROVE CallInv
  <1>1. /\ queue = <<>> /\ thread = "boot" /\ message = "none" /\ creator = "getHandler"
        /\ ~mReleased /\ ~mHandler /\ ~mCameraHandler
        /\ \A c \in Callers : pc[c] = "idle" /\ call[c] = "none"
    BY DEF Init
  <1>2. ~ReleaseSent
    BY <1>1 DEF ReleaseSent, Contains
  <1> QED BY <1>1, <1>2 DEF CallInv, CallsInStep, ReleaseOnItsWay, HandlerOnItsWay,
             HandlerFirst, PcsOf, ThreadPcsOf

(* A notifyAll moves nobody to another method. *)
LEMMA NotifyKeepsCalls ==
    ASSUME TypeOK, NotifyAll, CallsInStep, call' = call
    PROVE  \A c \in Callers : /\ pc'[c] \in PcsOf(call'[c])
                              /\ pc'[c] = "idle" <=> pc[c] = "idle"
  BY DEF TypeOK, NotifyAll, CallsInStep, PcsOf, StopPcs, CallerPcs

(* Most steps of the camera thread only move it on in the handler of its   *)
(* message.                                                                *)
LEMMA QuietKeepsCallInv ==
    ASSUME CallInv, UNCHANGED <<queue, callVars, handlerVars>>,
           thread \notin {"boot", "dead"}, thread' \notin {"boot", "dead"},
           thread' \in ThreadPcsOf(message'), ReleaseSent' <=> ReleaseSent
    PROVE  CallInv'
  BY DEF CallInv, CallsInStep, ReleaseOnItsWay, HandlerOnItsWay, HandlerFirst,
         callVars, handlerVars

LEMMA ThreadKeepsCallInv ==
    ASSUME TypeOK, ThreadInv, CallInv, CameraThread
    PROVE  CallInv'
  <1>m. thread \in ThreadPcsOf(message) /\ CallsInStep
    BY DEF CallInv, CallsInStep
  <1>1. CASE Run
    <2>1. /\ thread = "boot" /\ thread' = "loop" /\ message' = message /\ queue' = queue
          /\ mHandler' /\ mReleased' = mReleased /\ mCameraHandler' = mCameraHandler
          /\ call' = call /\ NotifyAll
          /\ creator' = IF creator = "waiting" THEN "woken" ELSE creator
      BY <1>1 DEF Run, NotifyAll
    <2>2. message' = "none"
      BY <1>m, <2>1 DEF ThreadPcsOf, ClosePcs
    <2>3. ReleaseSent' <=> ReleaseSent
      BY <2>1 DEF ReleaseSent
    <2> QED BY <1>m, <2>1, <2>2, <2>3, NotifyKeepsCalls
            DEF CallInv, CallsInStep, ReleaseOnItsWay, HandlerOnItsWay, HandlerFirst,
                ThreadPcsOf
  <1>2. CASE NextMessage
    <2>1. /\ thread = "loop" /\ queue # <<>> /\ queue' = Tail(queue)
          /\ thread' = FirstStep(Head(queue))
          /\ message' = IF thread' = "loop" THEN "none" ELSE Head(queue)
          /\ UNCHANGED <<callVars, handlerVars>>
      BY <1>2 DEF NextMessage
    <2>2. Head(queue) \in Messages
      BY <2>1, NextMessages
    <2>3. /\ thread' \in ThreadPcsOf(message')
          /\ thread' \notin {"boot", "quit", "end", "dead"}
          /\ message' = "release" <=> Head(queue) = "release"
      BY <2>1, <2>2 DEF FirstStep, StartStep, StopStep, ThreadPcsOf, ClosePcs, Messages
    <2>4. ~(message = "release")
      BY <1>m, <2>1 DEF ThreadPcsOf, ClosePcs
    <2>5. Contains(queue', "release") \/ Head(queue) = "release"
            <=> Contains(queue, "release")
      <3>1. "release" \in Messages
        BY DEF Messages
      <3> QED BY <2>1, <3>1, NextMessages
    <2>6. ReleaseSent' <=> ReleaseSent
      BY <2>1, <2>3, <2>4, <2>5 DEF ReleaseSent
    <2> QED BY <1>m, <2>1, <2>3, <2>6
            DEF CallInv, CallsInStep, ReleaseOnItsWay, HandlerOnItsWay, HandlerFirst,
                callVars, handlerVars
  <1>3. CASE HandleClose \/ DestroyCamera
    <2>1. /\ thread \in {"closeTake", "closeDestroy"}
          /\ (thread' = "closeStop" /\ message' = message) \/ AfterClose
          /\ UNCHANGED <<queue, callVars, handlerVars>>
      BY <1>3 DEF HandleClose, DestroyCamera
    <2>2. message \in {"open", "close", "release"}
      BY <1>m, <2>1, TypeOK DEF ThreadPcsOf, TypeOK, Messages
    <2>3. /\ thread' \in ThreadPcsOf(message')
          /\ thread' \notin {"boot", "end", "dead"}
          /\ thread' = "quit" => message = "release"
          /\ message' = "release" <=> message = "release"
      BY <2>1, <2>2 DEF AfterClose, Done, ThreadPcsOf, ClosePcs
    <2>4. ReleaseSent' <=> ReleaseSent
      BY <2>1, <2>3 DEF ReleaseSent
    <2> QED BY <2>1, <2>3, <2>4, QuietKeepsCallInv
  <1>4. CASE StopClosedCamera \/ HandleOpen \/ PublishCamera \/ HandleStartPreview
             \/ StartNativePreview \/ SetPreviewing \/ HandleStopPreview
    <2>1. /\ \/ thread = "closeStop" /\ thread' = "closeDestroy" /\ message' = message
             \/ /\ thread \in {"connect", "publish", "configure", "flag"}
                /\ Done
             \/ thread = "connect" /\ thread' = "publish" /\ message' = message
             \/ thread = "configure" /\ thread' = "startNative" /\ message' = message
             \/ thread = "startNative" /\ thread' = "flag" /\ message' = message
             \/ thread = "stopNative" /\ thread' = "unflag" /\ message' = message
          /\ UNCHANGED <<queue, callVars, handlerVars>>
      BY <1>4 DEF StopClosedCamera, HandleOpen, PublishCamera, HandleStartPreview,
                  StartNativePreview, SetPreviewing, HandleStopPreview
    <2>2. message \in Messages \cup {"none"}
      BY DEF TypeOK
    <2>3. /\ thread' \in ThreadPcsOf(message')
          /\ message' = "release" <=> message = "release"
          /\ thread \notin {"boot", "quit", "end", "dead"}
          /\ thread' \notin {"boot", "quit", "end", "dead"}
      BY <1>m, <2>1, <2>2 DEF Done, ThreadPcsOf, ClosePcs, Messages
    <2>4. ReleaseSent' <=> ReleaseSent
      BY <2>1, <2>3 DEF ReleaseSent
    <2> QED BY <2>1, <2>3, <2>4, QuietKeepsCallInv
  <1>5. CASE ClearPreviewing
    <2>1. /\ thread = "unflag" /\ thread' = "loop" /\ message' = "none" /\ queue' = queue
          /\ UNCHANGED <<mHandler, mReleased, mCameraHandler, call>> /\ NotifyAll
          /\ creator' = IF creator = "waiting" THEN "woken" ELSE creator
      BY <1>5 DEF ClearPreviewing, NotifyAll, Done
    <2>2. ~(message = "release")
      BY <1>m, <2>1 DEF ThreadPcsOf, ClosePcs
    <2>3. ReleaseSent' <=> ReleaseSent
      BY <2>1, <2>2 DEF ReleaseSent
    <2> QED BY <1>m, <2>1, <2>3, NotifyKeepsCalls
            DEF CallInv, CallsInStep, ReleaseOnItsWay, HandlerOnItsWay, HandlerFirst,
                ThreadPcsOf
  <1>6. CASE HandleRelease
    <2>1. /\ thread = "quit" /\ thread' = "end" /\ message' = "none" /\ mReleased'
          /\ UNCHANGED <<callVars, mHandler, mCameraHandler, creator>>
      BY <1>6 DEF HandleRelease
    <2>2. ReleaseSent /\ ReleaseSent'
      BY <2>1 DEF ReleaseSent
    <2> QED BY <1>m, <2>1, <2>2
            DEF CallInv, CallsInStep, ReleaseOnItsWay, HandlerOnItsWay, HandlerFirst,
                ThreadPcsOf, callVars
  <1>7. CASE EndOfRun
    <2>1. /\ thread = "end" /\ thread' = "dead" /\ message' = message
          /\ UNCHANGED <<mReleased, mCameraHandler, call>> /\ NotifyAll
          /\ creator' = IF creator = "waiting" THEN "woken" ELSE creator
      BY <1>7 DEF EndOfRun, NotifyAll
    <2>2. ReleaseSent /\ ReleaseSent'
      BY <2>1 DEF ReleaseSent
    <2>3. message' = "none"
      BY <1>m, <2>1 DEF ThreadPcsOf, ClosePcs
    <2> QED BY <1>m, <2>1, <2>2, <2>3, NotifyKeepsCalls
            DEF CallInv, CallsInStep, ReleaseOnItsWay, HandlerOnItsWay, HandlerFirst,
                ThreadPcsOf
  <1> QED BY <1>1, <1>2, <1>3, <1>4, <1>5, <1>6, <1>7 DEF CameraThread

LEMMA CreatorKeepsCallInv ==
    ASSUME CallInv, GetHandler \/ SpuriousGetHandler \/ CreateHandler
    PROVE  CallInv'
  <1>1. /\ UNCHANGED <<queue, thread, message, mReleased, mHandler, pc, call>>
        /\ \/ /\ creator = "getHandler" /\ mCameraHandler' = mCameraHandler
              /\ creator' = IF mHandler THEN "woken" ELSE "waiting"
           \/ /\ creator = "waiting" /\ creator' = "early"
              /\ mCameraHandler' = mCameraHandler
           \/ /\ mCameraHandler' = mHandler
              /\ \/ creator = "woken" /\ creator' = "done"
                 \/ creator = "early"
                    /\ creator' = IF mHandler THEN "done" ELSE "without"
    BY DEF GetHandler, SpuriousGetHandler, CreateHandler, threadVars, callVars
  <1>2. ReleaseSent' <=> ReleaseSent
    BY <1>1 DEF ReleaseSent
  <1>3. thread \in {"boot", "dead"} \/ mHandler
    BY DEF CallInv, HandlerFirst
  <1>4. thread = "dead" => creator = "done"
    BY DEF CallInv, HandlerFirst, ReleaseSent
  <1> QED BY <1>1, <1>2, <1>3, <1>4
          DEF CallInv, CallsInStep, ReleaseOnItsWay, HandlerOnItsWay, HandlerFirst

(* A step of a caller leaves the other callers and the camera thread where *)
(* they are, and the message of a release is sent by a release.            *)
LEMMA CallerCourse ==
    ASSUME TypeOK, CallInv, NEW c \in Callers,
           BeginCall(c) \/ ContinueCall(c) \/ SpuriousWakeup(c)
    PROVE  /\ UNCHANGED <<thread, message, mHandler, creator>>
           /\ \A d \in Callers \ {c} : pc'[d] = pc[d] /\ call'[d] = call[d]
           /\ pc'[c] \in PcsOf(call'[c])
           /\ mCameraHandler \/ pc[c] # "idle"
           /\ \/ mCameraHandler' = mCameraHandler
              \/ SendRelease(c) /\ mCameraHandler' = FALSE
           /\ \/ /\ call[c] = "release" <=> call'[c] = "release"
                 /\ mReleased' = mReleased
              \/ call'[c] = "release" /\ mReleased'
              \/ SendRelease(c) /\ call[c] = "release" /\ mReleased' = mReleased
           /\ \/ ReleaseSent' <=> ReleaseSent
              \/ SendRelease(c) /\ ReleaseSent'
           /\ SendRelease(c) => ReleaseSent' /\ call[c] = "release"
  <1>p. /\ pc \in [Callers -> CallerPcs] /\ call \in [Callers -> Methods \cup {"none"}]
        /\ pc[c] \in PcsOf(call[c])
    BY DEF TypeOK, CallInv, CallsInStep
  <1>u. UNCHANGED <<thread, message, mHandler, creator>>
    BY DEF BeginCall, ContinueCall, Open, StartPreview, StopPreview, Close, Release,
           PostOpen, PostStart, IsOpened, RemoveStarts, IsPreviewing, SendStop,
           SpuriousWakeup, StopPreviewReturns, SendClose, SendRelease,
           threadVars, handlerVars
  <1>s. queue' = queue => (ReleaseSent' <=> ReleaseSent)
    BY <1>u DEF ReleaseSent
  <1>1. CASE Open(c) \/ StartPreview(c) \/ StopPreview(c) \/ Close(c)
    <2>1. /\ queue' = queue /\ UNCHANGED handlerVars /\ mCameraHandler
          /\ \E m \in Methods \ {"release"} : \E first \in PcsOf(m) :
               pc' = [pc EXCEPT ![c] = first] /\ call' = [call EXCEPT ![c] = m]
          /\ pc[c] = "idle"
      BY <1>1 DEF Open, StartPreview, StopPreview, Close, Begin, Methods, PcsOf, StopPcs
    <2>2. call[c] # "release"
      BY <1>p, <2>1 DEF PcsOf, StopPcs
    <2>3. ~SendRelease(c)
      BY <2>1 DEF SendRelease, Goto
    <2> QED BY <1>p, <1>u, <1>s, <2>1, <2>2, <2>3 DEF handlerVars
  <1>2. CASE Release(c)
    <2>1. /\ queue' = queue /\ mCameraHandler' = mCameraHandler /\ mReleased'
          /\ mCameraHandler
          /\ pc' = [pc EXCEPT ![c] = "isOpened"] /\ call' = [call EXCEPT ![c] = "release"]
          /\ pc[c] = "idle"
      BY <1>2 DEF Release, Begin
    <2>2. ~SendRelease(c)
      BY <2>1 DEF SendRelease, Goto
    <2> QED BY <1>p, <1>u, <1>s, <2>1, <2>2 DEF PcsOf
  <1>3. CASE IsOpened(c) \/ RemoveStarts(c) \/ IsPreviewing(c) \/ StopPreviewReturns(c)
             \/ SpuriousWakeup(c)
    <2>1. /\ UNCHANGED handlerVars
          /\ pc[c] \in {"isOpened", "removeStarts", "isPreviewing", "waiting", "woken"}
          /\ \E to \in CallerPcs :
               /\ pc' = [pc EXCEPT ![c] = to]
               /\ call' = IF to = "idle" THEN [call EXCEPT ![c] = "none"] ELSE call
               /\ \/ to \in StopPcs
                  \/ to = AfterCloseCall(c) /\ pc[c] = "isOpened"
                  \/ to = AfterStopPreview(c) /\ pc[c] # "isOpened"
      BY <1>3 DEF IsOpened, RemoveStarts, IsPreviewing, StopPreviewReturns, SpuriousWakeup,
                  Goto, AfterCloseCall, AfterStopPreview, CallerPcs, StopPcs
    <2>2. /\ pc'[c] \in PcsOf(call'[c])
          /\ call[c] = "release" <=> call'[c] = "release"
      BY <1>p, <2>1 DEF PcsOf, StopPcs, AfterCloseCall, AfterStopPreview, Methods
    <2>3. ReleaseSent' <=> ReleaseSent
      <3>1. "release" \in Messages \ {"start", "removed"}
        BY DEF Messages
      <3> QED BY <1>3, <1>u, <1>s, <3>1, RemovedMessages
              DEF ReleaseSent, IsOpened, IsPreviewing, StopPreviewReturns, SpuriousWakeup
    <2>4. ~SendRelease(c)
      BY <2>1 DEF SendRelease, Goto
    <2> QED BY <1>p, <1>u, <2>1, <2>2, <2>3, <2>4 DEF handlerVars
  <1>4. CASE PostOpen(c) \/ PostStart(c) \/ SendStop(c) \/ SendClose(c)
    <2>1. /\ UNCHANGED handlerVars
          /\ pc[c] \in {"postOpen", "postStart", "sendStop", "sendClose"}
          /\ Post("open") \/ Post("start") \/ Post("stop") \/ Post("close")
          /\ \E to \in CallerPcs :
               /\ pc' = [pc EXCEPT ![c] = to]
               /\ call' = IF to = "idle" THEN [call EXCEPT ![c] = "none"] ELSE call
               /\ \/ to = "idle" /\ pc[c] \in {"postOpen", "postStart"}
                  \/ to = "waiting" /\ pc[c] = "sendStop"
                  \/ to = AfterCloseCall(c) /\ pc[c] = "sendClose"
      BY <1>4 DEF PostOpen, PostStart, SendStop, SendClose, Goto, AfterCloseCall, CallerPcs
    <2>2. /\ pc'[c] \in PcsOf(call'[c])
          /\ call[c] = "release" <=> call'[c] = "release"
      BY <1>p, <2>1 DEF PcsOf, StopPcs, AfterCloseCall, Methods
    <2>3. ReleaseSent' <=> ReleaseSent
      BY <1>u, <2>1, PostedMessages DEF ReleaseSent, Messages
    <2>4. ~SendRelease(c)
      BY <2>1 DEF SendRelease, Goto
    <2> QED BY <1>p, <1>u, <2>1, <2>2, <2>3, <2>4 DEF handlerVars
  <1>5. CASE SendRelease(c)
    <2>1. /\ pc[c] = "sendRelease" /\ Post("release") /\ mCameraHandler' = FALSE
          /\ mReleased' = mReleased
          /\ pc' = [pc EXCEPT ![c] = "idle"] /\ call' = [call EXCEPT ![c] = "none"]
      BY <1>5 DEF SendRelease, Goto
    <2>2. call[c] = "release" /\ pc'[c] \in PcsOf(call'[c])
      BY <1>p, <2>1 DEF PcsOf, StopPcs, Methods
    <2>3. ReleaseSent'
      BY <1>u, <2>1, PostedMessages DEF ReleaseSent, Messages
    <2> QED BY <1>5, <1>p, <1>u, <2>1, <2>2, <2>3
  <1> QED BY <1>1, <1>2, <1>3, <1>4, <1>5 DEF BeginCall, ContinueCall

LEMMA CallerKeepsCallInv ==
    ASSUME TypeOK, CallInv, NEW c \in Callers,
           BeginCall(c) \/ ContinueCall(c) \/ SpuriousWakeup(c)
    PROVE  CallInv'
  <1>1. CallsInStep' /\ HandlerFirst'
    BY CallerCourse DEF CallInv, CallsInStep, HandlerFirst
  <1>2. HandlerOnItsWay'
    BY CallerCourse DEF CallInv, HandlerOnItsWay, HandlerFirst
  <1>3. ReleaseOnItsWay'
    <2>1. mReleased <=> ReleaseSent \/ \E d \in Callers : call[d] = "release"
      BY DEF CallInv, ReleaseOnItsWay
    <2>2. (\E d \in Callers : call'[d] = "release")
            <=> \/ call'[c] = "release"
                \/ \E d \in Callers \ {c} : call[d] = "release"
      BY CallerCourse
    <2>3. CASE SendRelease(c)
      BY <2>1, <2>3, CallerCourse DEF ReleaseOnItsWay
    <2>4. CASE ~SendRelease(c)
      BY <2>1, <2>2, <2>4, CallerCourse DEF ReleaseOnItsWay
    <2> QED BY <2>3, <2>4
  <1> QED BY <1>1, <1>2, <1>3 DEF CallInv

LEMMA CallInvHolds == Spec => []CallInv
  <1>1. IInv /\ CallInv /\ [Next]_vars => CallInv'
    <2> SUFFICES ASSUME IInv, CallInv, [Next]_vars PROVE CallInv'
      OBVIOUS
    <2>1. CASE Next
      BY <2>1, ThreadKeepsCallInv, CreatorKeepsCallInv, CallerKeepsCallInv DEF Next, IInv
    <2>2. CASE UNCHANGED vars
      BY <2>2 DEF vars, threadVars, callVars, handlerVars, ReleaseSent, CallInv,
         CallsInStep, ReleaseOnItsWay, HandlerOnItsWay, HandlerFirst
    <2> QED BY <2>1, <2>2
  <1> QED BY InitCallInv, <1>1, InvHolds, PTL DEF Spec

(* A handler that says it is released is being released, or its camera     *)
(* thread has the message that ends it, is ending or has ended: what       *)
(* ReleaseEnds needs but the scheduling of the threads.                    *)
THEOREM ReleaseIsOnItsWay == Spec => []ReleaseOnItsWay
  <1>1. CallInv => ReleaseOnItsWay
    BY DEF CallInv
  <1> QED BY <1>1, CallInvHolds, PTL

(* The thread that waits in getHandler waits for a camera thread that will *)
(* notify it, and the handler it finds then is the helper's until a        *)
(* release has been sent: what HandlerCreated needs but the scheduling.    *)
THEOREM HandlerIsOnItsWay == Spec => []HandlerOnItsWay
  <1>1. CallInv => HandlerOnItsWay
    BY DEF CallInv
  <1> QED BY <1>1, CallInvHolds, PTL

-----------------------------------------------------------------------------
(* The camera thread implements CameraSession. *)

SessionVars == Session!vars
SessionStep == [Session!Next]_SessionVars

(* The callers, and the thread that creates the handler, do nothing but     *)
(* release.                                                                 *)
LEMMA OthersSessionStep ==
    ASSUME \/ GetHandler \/ SpuriousGetHandler \/ CreateHandler
           \/ \E c \in Callers : BeginCall(c) \/ ContinueCall(c) \/ SpuriousWakeup(c)
    PROVE  SessionStep
  <1>1. /\ UNCHANGED <<connected, streams, created, thread>>
        /\ mReleased' = mReleased \/ mReleased'
    BY DEF GetHandler, SpuriousGetHandler, CreateHandler, BeginCall, ContinueCall, Open, StartPreview,
           StopPreview, Close, Release, PostOpen, PostStart, IsOpened, RemoveStarts,
           IsPreviewing, SendStop, SpuriousWakeup, StopPreviewReturns, SendClose,
           SendRelease, cameraVars, threadVars, handlerVars
  <1>2. CASE mReleased' = mReleased
    BY <1>1, <1>2 DEF SessionStep, SessionVars, Session!vars
  <1>3. CASE mReleased' = TRUE
    BY <1>1, <1>3 DEF SessionStep, Session!Next, Session!Release
  <1> QED BY <1>1, <1>2, <1>3

LEMMA ThreadSessionStep ==
    ASSUME TypeOK, ThreadInv, CallInv, CameraThread
    PROVE  SessionStep
  <1>i. /\ connected = CameraInUse
        /\ mUVCCamera = NoCamera \/ camera = NoCamera
        /\ streams \subseteq connected
    BY DEF ThreadInv, OneCamera, TypeOK
  <1>1. CASE Run \/ NextMessage \/ HandleClose \/ PublishCamera \/ HandleStartPreview
             \/ SetPreviewing \/ ClearPreviewing \/ EndOfRun
    <2>1. /\ UNCHANGED <<connected, streams, created, mReleased>>
          /\ thread' \in {"end", "dead"} <=> thread \in {"end", "dead"}
      BY <1>1 DEF Run, NextMessage, FirstStep, StartStep, StopStep, HandleClose, AfterClose,
                  PublishCamera, HandleStartPreview, SetPreviewing, ClearPreviewing,
                  EndOfRun, Done, cameraVars, handlerVars
    <2> QED BY <2>1 DEF SessionStep, SessionVars, Session!vars
  <1>2. CASE StopClosedCamera \/ HandleStopPreview
    <2>1. /\ UNCHANGED <<connected, created, mReleased>>
          /\ streams' \in {streams \ {camera}, streams \ {mUVCCamera}}
          /\ streams' = {}
          /\ thread \notin {"end", "dead"} /\ thread' \notin {"end", "dead"}
      BY <1>2, <1>i DEF StopClosedCamera, HandleStopPreview, ThreadInv, CameraInUse, handlerVars
    <2> QED BY <2>1 DEF SessionStep, Session!Next, Session!Stop
  <1>3. CASE DestroyCamera
    <2>1. /\ UNCHANGED <<created, mReleased>>
          /\ streams = {} /\ streams' = {} /\ connected' = {}
          /\ thread \notin {"end", "dead"} /\ thread' \notin {"end", "dead"}
      BY <1>3, <1>i DEF DestroyCamera, AfterClose, Done, ThreadInv, CameraInUse, handlerVars
    <2> QED BY <2>1 DEF SessionStep, Session!Next, Session!Close
  <1>4. CASE HandleOpen
    <2>1. /\ UNCHANGED <<streams, mReleased>>
          /\ connected = {} /\ created' = created + 1
          /\ connected' \in {{}, {created'}}
          /\ thread \notin {"end", "dead"} /\ thread' \notin {"end", "dead"}
      BY <1>4, <1>i DEF HandleOpen, Done, ThreadInv, CameraInUse, handlerVars
    <2> QED BY <2>1 DEF SessionStep, Session!Next, Session!Open
  <1>5. CASE StartNativePreview
    <2>1. /\ UNCHANGED <<created, connected, mReleased>>
          /\ connected = {mUVCCamera} /\ streams = {}
          /\ streams' \in {{}, connected}
          /\ thread \notin {"end", "dead"} /\ thread' \notin {"end", "dead"}
      BY <1>5, <1>i DEF StartNativePreview, ThreadInv, CameraInUse, handlerVars
    <2>2. CASE streams' = {}
      BY <2>1, <2>2 DEF SessionStep, SessionVars, Session!vars
    <2>3. CASE streams' = connected
      BY <2>1, <2>3 DEF SessionStep, Session!Next, Session!Start
    <2> QED BY <2>1, <2>2, <2>3
  <1>6. CASE HandleRelease
    <2>1. /\ UNCHANGED <<created, connected, streams>>
          /\ mReleased' /\ thread = "quit" /\ thread' = "end"
      BY <1>6 DEF HandleRelease, cameraVars
    <2>2. mReleased = TRUE
      BY <2>1, TypeOK DEF CallInv, ReleaseOnItsWay, ReleaseSent, TypeOK
    <2>3. connected = {} /\ streams = {}
      BY <1>i, <2>1 DEF ThreadInv, CameraInUse
    <2>4. mReleased' = mReleased
      BY <1>6, <2>2 DEF HandleRelease
    <2> QED BY <2>1, <2>2, <2>3, <2>4 DEF SessionStep, Session!Next, Session!End
  <1> QED BY <1>1, <1>2, <1>3, <1>4, <1>5, <1>6 DEF CameraThread

(* Whatever its callers send, and in whatever order, the camera thread     *)
(* opens one camera at a time, stops its preview before it closes it,      *)
(* closes it before it opens the next, and ends released and with none.    *)
THEOREM HandlerIsSession == Spec => ImplementsSession
  <1>1. Init => Session!Init
    BY DEF Init, Session!Init
  <1>2. IInv /\ CallInv /\ [Next]_vars => [Session!Next]_(Session!vars)
    <2> SUFFICES ASSUME IInv, CallInv, [Next]_vars PROVE SessionStep
      BY DEF SessionStep, SessionVars
    <2>1. CASE Next
      BY <2>1, ThreadSessionStep, OthersSessionStep DEF Next, IInv
    <2>2. CASE UNCHANGED vars
      BY <2>2 DEF SessionStep, SessionVars, Session!vars, vars, cameraVars, threadVars,
         handlerVars
    <2> QED BY <2>1, <2>2
  <1> QED BY <1>1, <1>2, InvHolds, CallInvHolds, PTL DEF Spec, ImplementsSession, Session!Spec

=============================================================================
