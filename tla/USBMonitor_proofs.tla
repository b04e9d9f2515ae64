------------------------- MODULE USBMonitor_proofs -------------------------
(***************************************************************************)
(* Proofs about USBMonitor, for any devices and any number of plugs and    *)
(* registrations.  What is posted to the handler thread matters only in so *)
(* far as a looper that has quit takes nothing; that the sequence Post     *)
(* makes of a set of devices is one of tasks needs the set to be finite.   *)
(***************************************************************************)
EXTENDS USBMonitor, FiniteSetTheorems, TLAPS

(* The receiver is registered by a caller that has not begun to destroy.   *)
PollInv ==
    /\ polls \in Nat
    /\ registered => caller = "free"
    /\ RegisteredMeansPolled /\ QuietAfterDestroy

(* What the monitor knows of its blocks. *)
BlockTypes ==
    /\ attached \subseteq Devices
    /\ open \subseteq Nat \ {0} /\ lastBlock \in Nat
    /\ mCtrlBlocks \in [Devices -> Nat]
    /\ async \in [at : {"idle", "listed", "creating", "putting", "dead"},
                  devices : SUBSET Devices, block : Nat]

(* A block is made for a device that has none, and only the handler thread *)
(* makes blocks.                                                           *)
BlockBeingMade ==
    /\ async.at \in {"creating", "putting"} =>
          async.devices # {} /\ \A d \in async.devices : mCtrlBlocks[d] = 0
    /\ async.at # "putting" => async.block = 0

(* destroy will visit what was entered before it began. *)
ClosingVisits ==
    caller = "closing" =>
        \A d \in Devices : mCtrlBlocks[d] # 0 => d \in keys \/ mCtrlBlocks[d] \in strays

BlocksInv == BlockTypes /\ BlockBeingMade /\ ClosingVisits /\ ConnectionsAccounted

-----------------------------------------------------------------------------
(* The poll and the looper. *)

LEMMA NextPoll ==
    ASSUME PollInv, [Next]_vars
    PROVE  PollInv'
  <1> USE DEF PollInv, RegisteredMeansPolled, QuietAfterDestroy
  <1>1. ASSUME NEW d \in Devices, Plug(d) \/ Unplug(d) \/ UserAnswers(d) PROVE PollInv'
    BY <1>1 DEF Plug, Unplug, UserAnswers, callerVars
  <1>2. CASE ReceiveNothing
    BY <1>2 DEF ReceiveNothing, callerVars
  <1>3. CASE ReceivePermission
    BY <1>3 DEF ReceivePermission, Destroyed, callerVars
  <1>4. CASE ReceiveDetached
    BY <1>4 DEF ReceiveDetached, Post, Destroyed, callerVars
  <1>19. CASE CloseDetached
    BY <1>19 DEF CloseDetached, Post, callerVars
  <1>5. CASE Register
    BY <1>5 DEF Register, PostPoll
  <1>6. CASE Unregister
    BY <1>6 DEF Unregister, UnregisterThen
  <1>7. CASE Destroy
    BY <1>7 DEF Destroy, UnregisterThen
  <1>8. CASE DestroyBegins
    BY <1>8 DEF DestroyBegins
  <1>9. ASSUME NEW d \in Devices, DestroyCloses(d) PROVE PollInv'
    BY <1>9 DEF DestroyCloses
  <1>10. CASE DestroyEnds
    BY <1>10 DEF DestroyEnds, QuitLooper
  <1>11. CASE PollLists
    BY <1>11 DEF PollLists, Destroyed, Idle, callerVars
  <1>12. CASE PollCompares
    BY <1>12 DEF PollCompares, PollAgain, PostPoll, CountDevices, Post, Idle, callerVars
  <1>13. CASE PollThrows
    BY <1>13 DEF PollThrows, Destroyed, callerVars
  <1>14. ASSUME NEW d \in Devices,
                IgnoreTask(d) \/ OnAttach(d) \/ OnDettach(d) \/ FindBlock(d)
         PROVE  PollInv'
    <2>1. async = Idle /\ tasks # <<>> /\ UNCHANGED <<callerVars, polls>>
      BY <1>14 DEF IgnoreTask, OnAttach, OnDettach, FindBlock, Runs
    <2> QED BY <2>1 DEF Idle, callerVars
  <1>15. CASE CreateBlock \/ PutBlock
    BY <1>15 DEF CreateBlock, PutBlock, callerVars
  <1>16. ASSUME NEW d \in Devices, OpenClone(d) PROVE PollInv'
    BY <1>16 DEF OpenClone, callerVars
  <1>17. CASE CloseClone
    BY <1>17 DEF CloseClone, callerVars
  <1>18. CASE UNCHANGED vars
    BY <1>18 DEF vars, callerVars
  <1> QED
    BY <1>1, <1>2, <1>3, <1>4, <1>5, <1>6, <1>7, <1>8, <1>9, <1>10, <1>11, <1>12, <1>13,
       <1>14, <1>15, <1>16, <1>17, <1>18, <1>19
       DEF Next, System, Main, Caller, Poll, Listener, Camera

THEOREM PollSafe == Spec => []PollInv
  <1>1. Init => PollInv
    BY DEF Init, PollInv, RegisteredMeansPolled, QuietAfterDestroy
  <1> QED BY <1>1, NextPoll, PTL DEF Spec

(* register, unregister, mDeviceCheckRunnable: a registered monitor always *)
(* polls, however registrations and polls are interleaved.                 *)
THEOREM MonitorPolls == Spec => []RegisteredMeansPolled
  <1>1. PollInv => RegisteredMeansPolled
    BY DEF PollInv
  <1> QED BY <1>1, PollSafe, PTL

(* destroy: nothing is left on the handler thread when it has returned,    *)
(* and nothing comes after it.                                             *)
THEOREM MonitorQuietAfterDestroy == Spec => []QuietAfterDestroy
  <1>1. PollInv => QuietAfterDestroy
    BY DEF PollInv
  <1> QED BY <1>1, PollSafe, PTL

-----------------------------------------------------------------------------
(* The connections. *)

(* The handler thread, when it starts to make a block. *)
LEMMA CreatingTyped ==
    ASSUME NEW d \in Devices
    PROVE  [at |-> "creating", devices |-> {d}, block |-> 0] \in
             [at : {"idle", "listed", "creating", "putting", "dead"},
              devices : SUBSET Devices, block : Nat]
  OBVIOUS

LEMMA NextBlocks ==
    ASSUME BlocksInv, [Next]_vars
    PROVE  BlocksInv'
  <1> USE DEF BlocksInv, BlockTypes, BlockBeingMade, ClosingVisits, ConnectionsAccounted
  <1>1. ASSUME NEW d \in Devices, Plug(d) \/ Unplug(d) \/ UserAnswers(d) PROVE BlocksInv'
    BY <1>1 DEF Plug, Unplug, UserAnswers, callerVars, blockVars
  <1>2. CASE ReceiveNothing
    BY <1>2 DEF ReceiveNothing, callerVars, blockVars
  <1>3. CASE ReceivePermission
    BY <1>3 DEF ReceivePermission, callerVars, blockVars
  <1>4. CASE ReceiveDetached
    <2> DEFINE d == Head(broadcasts).device
    <2>1. /\ caller # "closing" /\ caller # "destroyed" /\ detached.block = 0
          /\ mCtrlBlocks' = [mCtrlBlocks EXCEPT ![d] = 0]
          /\ detached' = IF mCtrlBlocks[d] # 0
                         THEN [device |-> d, block |-> mCtrlBlocks[d]] ELSE detached
          /\ UNCHANGED <<attached, caller, keys, async, open, strays, lastBlock>>
      BY <1>4 DEF ReceiveDetached, Detaching, Destroyed, callerVars
    <2>2. /\ detached'.block = 0 \/ detached'.block = mCtrlBlocks[d]
          /\ d \in Devices /\ mCtrlBlocks[d] # 0 => detached'.block = mCtrlBlocks[d]
      BY <2>1
    <2>3. \A c \in Devices : mCtrlBlocks'[c] = IF c = d THEN 0 ELSE mCtrlBlocks[c]
      BY <2>1
    <2>4. mCtrlBlocks' \in [Devices -> Nat]
      BY <2>1
    <2> HIDE DEF d
    <2> QED BY <2>1, <2>2, <2>3, <2>4
  <1>21. CASE CloseDetached
    <2> DEFINE d == detached.device
    <2>1. /\ open' = open \ {detached.block}
          /\ \/ /\ mCtrlBlocks' = [mCtrlBlocks EXCEPT ![d] = 0]
                /\ strays' = strays \cup ({mCtrlBlocks[d]} \ {0})
             \/ UNCHANGED <<mCtrlBlocks, strays>>
          /\ UNCHANGED <<attached, caller, keys, async, lastBlock>>
      BY <1>21 DEF CloseDetached, callerVars, systemVars
    <2>2. \/ /\ \A c \in Devices : mCtrlBlocks'[c] = IF c = d THEN 0 ELSE mCtrlBlocks[c]
             /\ strays' = strays \cup ({mCtrlBlocks[d]} \ {0})
          \/ UNCHANGED <<mCtrlBlocks, strays>>
      BY <2>1
    <2>3. mCtrlBlocks' \in [Devices -> Nat]
      BY <2>1
    <2> HIDE DEF d
    <2>4. BlockTypes' /\ BlockBeingMade'
      BY <2>1, <2>2, <2>3
    <2>5. ClosingVisits'
      BY <2>1, <2>2
    <2>6. ASSUME NEW e \in open \ {detached.block}, e # async.block, e \notin strays'
          PROVE  caller # "destroyed" /\ \E c \in Devices : mCtrlBlocks'[c] = e
      <3>1. strays \subseteq strays' /\ e # 0
        BY <2>2, <2>6
      <3>2. caller # "destroyed"
        BY <2>6, <3>1
      <3>3. PICK c \in Devices : mCtrlBlocks[c] = e
        BY <2>6, <3>1
      <3>4. mCtrlBlocks'[c] = e
        BY <2>2, <2>6, <3>1, <3>3
      <3> QED BY <3>2, <3>4
    <2>7. ConnectionsAccounted'
      BY <2>1, <2>6
    <2> QED BY <2>4, <2>5, <2>7
  <1>5. CASE Register
    BY <1>5 DEF Register, blockVars, systemVars
  <1>6. CASE Unregister \/ Destroy
    BY <1>6 DEF Unregister, Destroy, UnregisterThen, blockVars, systemVars
  <1>8. CASE DestroyBegins
    BY <1>8 DEF DestroyBegins, blockVars, systemVars
  <1>9. ASSUME NEW d \in Devices, DestroyCloses(d) PROVE BlocksInv'
    BY <1>9 DEF DestroyCloses, CloseBlock, systemVars
  <1>10. CASE DestroyEnds
    BY <1>10 DEF DestroyEnds, systemVars
  <1>11. CASE PollLists
    BY <1>11 DEF PollLists, Idle, callerVars, blockVars, systemVars
  <1>12. CASE PollCompares
    BY <1>12 DEF PollCompares, Idle, callerVars, blockVars, systemVars
  <1>13. CASE PollThrows
    BY <1>13 DEF PollThrows, Idle, callerVars, blockVars, systemVars
  <1>14. ASSUME NEW d \in Devices, IgnoreTask(d) \/ OnAttach(d) \/ OnDettach(d)
         PROVE  BlocksInv'
    BY <1>14 DEF IgnoreTask, OnAttach, OnDettach, callerVars, blockVars, systemVars
  <1>15. ASSUME NEW d \in Devices, FindBlock(d) PROVE BlocksInv'
    <2>1. UNCHANGED <<attached, caller, keys, mCtrlBlocks, open, strays, detached, lastBlock>>
      BY <1>15 DEF FindBlock, callerVars, blockVars, systemVars
    <2>2. /\ async = Idle
          /\ \/ async' = async
             \/ /\ async' = [at |-> "creating", devices |-> {d}, block |-> 0]
                /\ mCtrlBlocks[d] = 0
      BY <1>15 DEF FindBlock, Runs
    <2>3. BlockTypes'
      <3>1. async' \in [at : {"idle", "listed", "creating", "putting", "dead"},
                        devices : SUBSET Devices, block : Nat]
        BY <2>2, CreatingTyped
      <3> QED BY <2>1, <3>1
    <2>4. BlockBeingMade'
      BY <2>1, <2>2 DEF Idle
    <2>5. ClosingVisits'
      BY <2>1
    <2>6. ConnectionsAccounted'
      BY <2>1, <2>2 DEF Idle
    <2> QED BY <2>3, <2>4, <2>5, <2>6
  <1>16. CASE CreateBlock
    <2>1. /\ async.at = "creating" /\ async.block = 0
          /\ async' = [async EXCEPT !.at = "putting", !.block = lastBlock + 1]
          /\ lastBlock' = lastBlock + 1
          /\ open' = open \/ open' = open \cup {lastBlock + 1}
          /\ UNCHANGED <<attached, caller, keys, mCtrlBlocks, strays, detached>>
      BY <1>16 DEF CreateBlock, callerVars, systemVars
    <2>2. async'.at = "putting" /\ async'.block = lastBlock + 1 /\ async'.devices = async.devices
      BY <2>1
    <2>3. BlockTypes'
      <3>1. async' \in [at : {"idle", "listed", "creating", "putting", "dead"},
                        devices : SUBSET Devices, block : Nat]
        <4>1. async' = [[async EXCEPT !.at = "putting"] EXCEPT !.block = lastBlock + 1]
          BY <2>1
        <4>2. lastBlock + 1 \in Nat
          OBVIOUS
        <4> QED BY <4>1, <4>2
      <3>2. open' \subseteq Nat \ {0} /\ lastBlock' \in Nat
        BY <2>1
      <3> QED BY <2>1, <3>1, <3>2
    <2>4. BlockBeingMade'
      BY <2>1, <2>2
    <2>5. ClosingVisits'
      BY <2>1
    <2>6. 0 \notin open
      OBVIOUS
    <2>7. ConnectionsAccounted'
      BY <2>1, <2>2, <2>6
    <2> QED BY <2>3, <2>4, <2>5, <2>7
  <1>17. CASE PutBlock
    BY <1>17 DEF PutBlock, Idle, Destroyed, callerVars, systemVars
  <1>18. ASSUME NEW d \in Devices, OpenClone(d) PROVE BlocksInv'
    BY <1>18 DEF OpenClone, callerVars, blockVars, systemVars
  <1>19. CASE CloseClone
    BY <1>19 DEF CloseClone, callerVars, systemVars
  <1>20. CASE UNCHANGED vars
    BY <1>20 DEF vars, callerVars, blockVars, systemVars
  <1> QED
    BY <1>1, <1>2, <1>3, <1>4, <1>5, <1>6, <1>8, <1>9, <1>10, <1>11, <1>12, <1>13,
       <1>14, <1>15, <1>16, <1>17, <1>18, <1>19, <1>20, <1>21
       DEF Next, System, Main, Caller, Poll, Listener, Camera

(* The connections' inductive invariant holds of every state.              *)
THEOREM BlocksSafe == Spec => []BlocksInv
  <1>1. Init => BlocksInv
    BY DEF Init, Idle, NoBlock, BlocksInv, BlockTypes, BlockBeingMade, ClosingVisits,
           ConnectionsAccounted
  <1> QED BY <1>1, NextBlocks, PTL DEF Spec

(* mCtrlBlocks, UsbControlBlock.close, destroy: a connection the monitor   *)
(* opened is one it can still close until destroy has closed them all,     *)
(* with the ways out of it that ConnectionsAccounted names.                *)
THEOREM MonitorConnectionsAccounted == Spec => []ConnectionsAccounted
  <1>1. BlocksInv => ConnectionsAccounted
    BY DEF BlocksInv
  <1> QED BY <1>1, BlocksSafe, PTL

-----------------------------------------------------------------------------
(* The number of polls. *)

(* register, unregister, mDeviceCheckRunnable: removeCallbacks leaves the  *)
(* poll that is running, and this one posts itself again, so that the next *)
(* registration adds a second one. There are never more, however often the *)
(* monitor is registered and unregistered.                                 *)
PollsAreFew ==
    polls + (IF async.at = "listed" THEN 1 ELSE 0) <= (IF registered THEN 2 ELSE 1)

LEMMA NextPollsAreFew ==
    ASSUME PollInv, BlockTypes, PollsAreFew, [Next]_vars
    PROVE  PollsAreFew'
  <1> USE DEF PollInv, PollsAreFew
  <1>1. CASE System \/ Main \/ Camera
    <2>1. UNCHANGED <<polls, async, registered>>
      BY <1>1 DEF System, Plug, Unplug, UserAnswers, Main, ReceiveNothing, ReceivePermission,
                  ReceiveDetached, CloseDetached, Camera, OpenClone, CloseClone, callerVars
    <2> QED BY <2>1
  <1>2. CASE Register \/ Unregister \/ Destroy
    BY <1>2 DEF Register, PostPoll, Unregister, Destroy, UnregisterThen
  <1>3. CASE DestroyBegins \/ (\E d \in Devices : DestroyCloses(d)) \/ DestroyEnds
    <2>1. UNCHANGED <<async, registered>> /\ (polls' = polls \/ polls' = 0)
      BY <1>3 DEF DestroyBegins, DestroyCloses, DestroyEnds, QuitLooper
    <2> QED BY <2>1
  <1>4. CASE PollLists
    BY <1>4 DEF PollLists, Idle, callerVars
  <1>5. CASE PollCompares
    BY <1>5 DEF PollCompares, PollAgain, PostPoll, Idle, callerVars
  <1>6. CASE PollThrows
    BY <1>6 DEF PollThrows, callerVars
  <1>7. CASE Listener
    <2>1. /\ UNCHANGED <<polls, registered>>
          /\ async.at # "listed" /\ (async' = async \/ async'.at # "listed")
      <3>1. ASSUME NEW d \in Devices,
                   IgnoreTask(d) \/ OnAttach(d) \/ OnDettach(d) \/ FindBlock(d)
            PROVE  /\ UNCHANGED <<polls, registered>> /\ async = Idle
                   /\ async' = async \/ async' = [at |-> "creating", devices |-> {d}, block |-> 0]
        BY <3>1 DEF IgnoreTask, OnAttach, OnDettach, FindBlock, Runs, callerVars
      <3>2. ASSUME CreateBlock
            PROVE  /\ UNCHANGED <<polls, registered>> /\ async.at = "creating"
                   /\ async'.at = "putting"
        BY <3>2 DEF CreateBlock, BlockTypes, callerVars
      <3>3. ASSUME PutBlock
            PROVE  /\ UNCHANGED <<polls, registered>> /\ async.at = "putting"
                   /\ async' = Idle
        BY <3>3 DEF PutBlock, callerVars
      <3> QED BY <1>7, <3>1, <3>2, <3>3 DEF Listener, Idle
    <2> QED BY <2>1
  <1>8. CASE UNCHANGED vars
    BY <1>8 DEF vars, callerVars
  <1> QED
    BY <1>1, <1>2, <1>3, <1>4, <1>5, <1>6, <1>7, <1>8 DEF Next, Caller, Poll

(* At most two polls are waiting or running, and at most one while the     *)
(* monitor is not registered.                                              *)
THEOREM MonitorPollsAreFew == Spec => []PollsAreFew
  <1>1. Init => PollsAreFew
    BY DEF Init, PollsAreFew, Idle
  <1>2. BlocksInv => BlockTypes
    BY DEF BlocksInv
  <1> QED BY <1>1, <1>2, NextPollsAreFew, PollSafe, BlocksSafe, PTL DEF Spec

-----------------------------------------------------------------------------
(* Types. *)

BlockNumbers ==
    /\ async.block <= lastBlock
    /\ async.at = "putting" => async.block > 0
    /\ Detaching => detached.device \in Devices
    /\ \A d \in Devices : mCtrlBlocks[d] <= lastBlock

TypesInv == TypeOK /\ BlockNumbers

Tasks == [kind : {"attach", "detach", "connect", "cancel"}, device : Devices]
Broadcasts == [kind : {"granted", "denied", "detached"}, device : Devices]

(* Queues. *)
LEMMA HeadTail ==
    ASSUME NEW S, NEW q \in Seq(S), q # <<>>
    PROVE  Head(q) \in S /\ Tail(q) \in Seq(S)
  OBVIOUS

LEMMA Appended ==
    ASSUME NEW S, NEW q \in Seq(S), NEW e \in S
    PROVE  Append(q, e) \in Seq(S)
  OBVIOUS

LEMMA Concatenated ==
    ASSUME NEW S, NEW p \in Seq(S), NEW q \in Seq(S)
    PROVE  p \o q \in Seq(S)
  OBVIOUS

(* The entry of a device is removed. *)
LEMMA EntryRemoved ==
    ASSUME TypesInv, NEW d, UNCHANGED <<async, lastBlock, detached>>,
           mCtrlBlocks' = [mCtrlBlocks EXCEPT ![d] = 0]
    PROVE  mCtrlBlocks' \in [Devices -> Nat] /\ BlockNumbers'
  <1>1. mCtrlBlocks \in [Devices -> Nat] /\ lastBlock \in Nat /\ BlockNumbers
    BY DEF TypesInv, TypeOK
  <1>2. \A c \in Devices : mCtrlBlocks'[c] = IF c = d THEN 0 ELSE mCtrlBlocks[c]
    BY <1>1
  <1>3. mCtrlBlocks' \in [Devices -> Nat]
    BY <1>1
  <1>4. BlockNumbers'
    BY <1>1, <1>2 DEF BlockNumbers, Detaching
  <1> QED BY <1>3, <1>4

(* A finite set can be listed. *)
LEMMA SetListed ==
    ASSUME NEW S, IsFiniteSet(S)
    PROVE  Cardinality(S) \in Nat /\ SetToSeq(S) \in [1..Cardinality(S) -> S]
  <1>1. Cardinality(S) \in Nat /\ ExistsBijection(1..Cardinality(S), S)
    BY FS_CardinalityType
  <1>2. PICK f \in Bijection(1..Cardinality(S), S) : TRUE
    BY <1>1 DEF ExistsBijection
  <1>3. f \in [1..Cardinality(S) -> S] /\ IsInjective(f)
    BY <1>2 DEF Bijection, Injection, IsInjective
  <1> QED BY <1>1, <1>3 DEF SetToSeq

(* Sets of devices are finite and no larger than Devices. *)
LEMMA DevicesCounted ==
    ASSUME NEW S, S \subseteq Devices
    PROVE  IsFiniteSet(S) /\ Cardinality(S) \in 0..Cardinality(Devices)
  <1>1. IsFiniteSet(Devices)
    BY USBMonitorAssumption
  <1>2. IsFiniteSet(S) /\ Cardinality(S) <= Cardinality(Devices)
    BY <1>1, FS_Subset
  <1>3. Cardinality(S) \in Nat /\ Cardinality(Devices) \in Nat
    BY <1>1, <1>2, FS_CardinalityType
  <1> QED BY <1>2, <1>3

(* What is posted are tasks. *)
LEMMA PostedTasks ==
    ASSUME NEW kind \in {"attach", "detach", "connect", "cancel"},
           NEW ds, ds \subseteq Devices, tasks \in Seq(Tasks), Post(kind, ds)
    PROVE  tasks' \in Seq(Tasks)
  <1> DEFINE posted == [k \in 1..Cardinality(ds) |-> Task(kind, SetToSeq(ds)[k])]
  <1>1. Cardinality(ds) \in Nat /\ SetToSeq(ds) \in [1..Cardinality(ds) -> ds]
    BY DevicesCounted, SetListed
  <1>2. \A k \in 1..Cardinality(ds) : Task(kind, SetToSeq(ds)[k]) \in Tasks
    BY <1>1 DEF Task, Tasks
  <1>3. posted \in Seq(Tasks)
    <2>1. posted \in [1..Cardinality(ds) -> Tasks]
      BY <1>2
    <2> QED BY <1>1, <2>1
  <1>4. tasks' = tasks \/ tasks' = tasks \o posted
    BY DEF Post
  <1> HIDE DEF posted
  <1> QED BY <1>3, <1>4, Concatenated

LEMMA SystemTyped ==
    ASSUME TypesInv, System
    PROVE  TypesInv'
  <1> USE DEF TypesInv, TypeOK, BlockNumbers, Detaching, countVars
  <1>1. PICK d \in Devices : Plug(d) \/ Unplug(d) \/ UserAnswers(d)
    BY DEF System
  <1>2. CASE Plug(d)
    BY <1>2 DEF Plug, callerVars, blockVars, listenerVars
  <1>3. ASSUME NEW kind \in {"granted", "denied", "detached"},
               broadcasts' = Append(broadcasts, Task(kind, d))
        PROVE  broadcasts' \in Seq([kind : {"granted", "denied", "detached"}, device : Devices])
    BY <1>3 DEF Task
  <1>4. CASE Unplug(d)
    BY <1>3, <1>4 DEF Unplug, callerVars, blockVars, listenerVars
  <1>5. CASE UserAnswers(d)
    BY <1>3, <1>5 DEF UserAnswers, callerVars, blockVars, listenerVars
  <1> QED BY <1>1, <1>2, <1>4, <1>5

LEMMA MainTyped ==
    ASSUME TypesInv, Main
    PROVE  TypesInv'
  <1> USE DEF TypesInv, TypeOK, BlockNumbers, Detaching, countVars
  <1>0. tasks \in Seq(Tasks)
    BY DEF Tasks
  <1> DEFINE b == Head(broadcasts)
  <1>2. broadcasts # <<>> => b.device \in Devices /\ Tail(broadcasts) \in Seq(Broadcasts)
    <2>1. broadcasts \in Seq(Broadcasts)
      BY DEF Broadcasts
    <2>2. broadcasts # <<>> => b \in Broadcasts /\ Tail(broadcasts) \in Seq(Broadcasts)
      BY <2>1, HeadTail
    <2> QED BY <2>2 DEF Broadcasts
  <1>1. CASE ReceiveNothing
    BY <1>1, <1>2 DEF ReceiveNothing, Broadcasts, callerVars, blockVars, listenerVars
  <1>3. CASE ReceivePermission
    <2>1. /\ broadcasts # <<>> /\ broadcasts' = Tail(broadcasts)
          /\ ProcessConnect(b.device) \/ ProcessCancel(b.device)
          /\ UNCHANGED <<attached, permission, plugs, asking, callerVars, polls, async,
                         countVars, blockVars, lastBlock, listenerVars, clone, announced>>
      BY <1>3 DEF ReceivePermission
    <2>2. b.device \in Devices /\ {b.device} \subseteq Devices
      BY <1>2, <2>1
    <2> HIDE DEF b
    <2>3. tasks' \in Seq(Tasks) /\ mHasPermissions' \subseteq Devices
      BY <1>0, <2>1, <2>2, PostedTasks DEF ProcessConnect, ProcessCancel, UpdatePermission
    <2>4. broadcasts' \in Seq(Broadcasts)
      BY <1>2, <2>1
    <2> QED BY <2>1, <2>3, <2>4 DEF Tasks, Broadcasts, callerVars, blockVars, listenerVars
  <1>f. ForgetCount => /\ mDeviceCounts' \in 0..Cardinality(Devices)
                       /\ stale' \subseteq {"list", "count"}
    BY DevicesCounted DEF ForgetCount
  <1>4. CASE ReceiveDetached
    <2>1. /\ broadcasts # <<>> /\ broadcasts' = Tail(broadcasts)
          /\ mCtrlBlocks' = [mCtrlBlocks EXCEPT ![b.device] = 0]
          /\ \/ /\ detached' = [device |-> b.device, block |-> mCtrlBlocks[b.device]]
                /\ UNCHANGED <<countVars, tasks>>
             \/ ForgetCount /\ Post("detach", {b.device}) /\ UNCHANGED detached
          /\ UNCHANGED <<attached, permission, plugs, asking, callerVars, polls, async,
                         mHasPermissions, open, strays, lastBlock, listenerVars, clone,
                         announced>>
      BY <1>4 DEF ReceiveDetached
    <2>2. b.device \in Devices /\ {b.device} \subseteq Devices
      BY <1>2, <2>1
    <2> HIDE DEF b
    <2>3. tasks' \in Seq(Tasks)
      BY <1>0, <2>1, <2>2, PostedTasks
    <2>4. /\ mDeviceCounts' \in 0..Cardinality(Devices)
          /\ stale' \subseteq {"list", "count"}
      BY <1>f, <2>1
    <2>5. broadcasts' \in Seq(Broadcasts)
      BY <1>2, <2>1
    <2>6. mCtrlBlocks' \in [Devices -> Nat]
      BY <2>1, <2>2
    <2>7. /\ detached' \in [device : Devices \cup {NoDevice}, block : Nat]
          /\ Detaching' => detached'.device \in Devices
      BY <2>1, <2>2
    <2>8. BlockNumbers'
      BY <2>1, <2>2, <2>6, <2>7
    <2> HIDE DEF BlockNumbers, Detaching
    <2> QED BY <2>1, <2>3, <2>4, <2>5, <2>6, <2>7, <2>8
            DEF Tasks, Broadcasts, callerVars, listenerVars
  <1>5. CASE CloseDetached
    <2> DEFINE d == detached.device
    <2>1. /\ d \in Devices /\ {d} \subseteq Devices
          /\ detached' = NoBlock /\ open' \subseteq open
          /\ \/ /\ mCtrlBlocks' = [mCtrlBlocks EXCEPT ![d] = 0]
                /\ strays' = strays \cup ({mCtrlBlocks[d]} \ {0})
             \/ UNCHANGED <<mCtrlBlocks, strays>>
          /\ ForgetCount /\ Post("detach", {d})
          /\ UNCHANGED <<systemVars, asking, callerVars, polls, async, mHasPermissions,
                         lastBlock, listenerVars, clone, announced>>
      BY <1>5 DEF CloseDetached
    <2> HIDE DEF d
    <2>2. tasks' \in Seq(Tasks)
      BY <1>0, <2>1, PostedTasks
    <2>3. mCtrlBlocks' \in [Devices -> Nat] /\ strays' \subseteq 1..lastBlock
      <3>1. mCtrlBlocks[d] \in Nat /\ mCtrlBlocks[d] <= lastBlock
        BY <2>1
      <3>2. {mCtrlBlocks[d]} \ {0} \subseteq 1..lastBlock
        BY <3>1
      <3>3. mCtrlBlocks' \in [Devices -> Nat]
        <4>1. mCtrlBlocks \in [Devices -> Nat]
          OBVIOUS
        <4> HIDE DEF TypesInv, TypeOK, BlockNumbers
        <4>2. CASE mCtrlBlocks' = [mCtrlBlocks EXCEPT ![d] = 0]
          BY <4>1, <4>2
        <4>3. CASE mCtrlBlocks' = mCtrlBlocks
          BY <4>1, <4>3
        <4> QED BY <2>1, <4>2, <4>3
      <3>4. strays' \subseteq 1..lastBlock
        BY <2>1, <3>2
      <3> QED BY <3>3, <3>4
    <2>4. /\ detached' \in [device : Devices \cup {NoDevice}, block : Nat]
          /\ ~Detaching'
      BY <2>1 DEF NoBlock
    <2>5. BlockNumbers'
      <3>1. mCtrlBlocks \in [Devices -> Nat] /\ lastBlock \in Nat
        OBVIOUS
      <3>2. \A c \in Devices : mCtrlBlocks'[c] = 0 \/ mCtrlBlocks'[c] = mCtrlBlocks[c]
        <4>1. CASE mCtrlBlocks' = [mCtrlBlocks EXCEPT ![d] = 0]
          BY <3>1, <4>1
        <4>2. CASE mCtrlBlocks' = mCtrlBlocks
          BY <4>2
        <4> QED BY <2>1, <4>1, <4>2
      <3> QED BY <2>1, <2>4, <3>1, <3>2
    <2> HIDE DEF BlockNumbers, Detaching
    <2> QED BY <1>f, <2>1, <2>2, <2>3, <2>4, <2>5
            DEF Tasks, systemVars, callerVars, listenerVars
  <1> QED BY <1>1, <1>3, <1>4, <1>5 DEF Main

LEMMA CallerTyped ==
    ASSUME TypesInv, Caller
    PROVE  TypesInv'
  <1> USE DEF TypesInv, TypeOK, BlockNumbers, Detaching, countVars
  <1>0. 0 \in 0..Cardinality(Devices)
    BY DevicesCounted
  <1>1. CASE Register
    BY <1>0, <1>1 DEF Register, PostPoll, systemVars, blockVars, listenerVars
  <1>2. CASE Unregister \/ Destroy
    <2>1. /\ caller' \in {"free", "destroying"} /\ registered' = FALSE
          /\ mDeviceCounts' = 0 /\ polls' = 0 /\ stale' \subseteq stale
          /\ UNCHANGED <<systemVars, asking, keys, registers, tasks, async, mHasPermissions,
                         blockVars, lastBlock, listenerVars, clone, announced>>
      BY <1>2 DEF Unregister, Destroy, UnregisterThen
    <2> QED BY <1>0, <2>1 DEF systemVars, blockVars, listenerVars
  <1>3. CASE DestroyBegins
    BY <1>3 DEF DestroyBegins, systemVars, blockVars, listenerVars
  <1>4. ASSUME NEW d \in Devices, DestroyCloses(d) PROVE TypesInv'
    <2>1. /\ keys' \subseteq Devices /\ open' \subseteq open
          /\ mCtrlBlocks' = [mCtrlBlocks EXCEPT ![d] = 0]
          /\ UNCHANGED <<systemVars, asking, caller, registered, registers, polls, tasks,
                         async, countVars, mHasPermissions, strays, detached, lastBlock,
                         listenerVars, clone, announced>>
      BY <1>4 DEF DestroyCloses, CloseBlock
    <2>2. mCtrlBlocks' \in [Devices -> Nat] /\ BlockNumbers'
      BY <2>1, EntryRemoved
    <2> HIDE DEF BlockNumbers
    <2> QED BY <2>1, <2>2 DEF systemVars, listenerVars
  <1>5. CASE DestroyEnds
    BY <1>5 DEF DestroyEnds, QuitLooper, systemVars, listenerVars
  <1> QED BY <1>1, <1>2, <1>3, <1>4, <1>5 DEF Caller

LEMMA PollTyped ==
    ASSUME TypesInv, Poll
    PROVE  TypesInv'
  <1> USE DEF TypesInv, TypeOK, BlockNumbers, Detaching, countVars
  <1>0. tasks \in Seq(Tasks) /\ lastBlock >= 0
    BY DEF Tasks
  <1>1. CASE PollLists
    <2>1. async' = Idle \/ async' = [at |-> "listed", devices |-> attached, block |-> 0]
      BY <1>1 DEF PollLists, Idle
    <2>2. /\ async' \in [at : {"idle", "listed", "creating", "putting", "dead"},
                          devices : SUBSET Devices, block : Nat]
          /\ async'.at # "putting" /\ async'.block = 0
      BY <2>1 DEF Idle
    <2>3. /\ polls' \in Nat /\ stale' \subseteq {"list", "count"}
          /\ UNCHANGED <<systemVars, asking, callerVars, tasks, mDeviceCounts, mHasPermissions,
                         blockVars, lastBlock, listenerVars, clone, announced>>
      BY <1>1 DEF PollLists
    <2> QED BY <1>0, <2>2, <2>3 DEF systemVars, callerVars, blockVars, listenerVars
  <1>2. CASE PollCompares
    <2> DEFINE list == async.devices
    <2>1. list \subseteq Devices
      OBVIOUS
    <2>2. Cardinality(list) \in 0..Cardinality(Devices)
      BY <2>1, DevicesCounted
    <2>3. /\ async' = Idle /\ mHasPermissions' = list \cap permission
          /\ \/ /\ mDeviceCounts' = Cardinality(list) /\ Post("attach", list)
                /\ stale' \subseteq {"list", "count"}
             \/ UNCHANGED <<countVars, tasks>>
          /\ polls' = polls \/ polls' = polls + 1
          /\ UNCHANGED <<systemVars, asking, callerVars, blockVars, lastBlock, listenerVars,
                         clone, announced>>
      BY <1>2 DEF PollCompares, CountDevices, PollAgain, PostPoll
    <2> HIDE DEF list
    <2>4. tasks' \in Seq(Tasks)
      BY <1>0, <2>1, <2>3, PostedTasks
    <2>5. /\ mDeviceCounts' \in 0..Cardinality(Devices)
          /\ stale' \subseteq {"list", "count"}
      BY <2>2, <2>3
    <2>6. polls' \in Nat /\ mHasPermissions' \subseteq Devices
      BY <2>1, <2>3
    <2> QED BY <1>0, <2>3, <2>4, <2>5, <2>6
            DEF Idle, Tasks, systemVars, callerVars, blockVars, listenerVars
  <1>3. CASE PollThrows
    BY <1>0, <1>3 DEF PollThrows, Idle, systemVars, callerVars, blockVars, listenerVars
  <1> QED BY <1>1, <1>2, <1>3 DEF Poll

LEMMA ListenerTyped ==
    ASSUME TypesInv, Listener
    PROVE  TypesInv'
  <1> USE DEF TypesInv, TypeOK, BlockNumbers, Detaching, countVars
  <1>0. tasks \in Seq(Tasks) /\ lastBlock >= 0
    BY DEF Tasks
  <1>t. tasks # <<>> => Tail(tasks) \in Seq(Tasks)
    BY <1>0, HeadTail
  <1>1. ASSUME NEW d \in Devices, IgnoreTask(d) PROVE TypesInv'
    <2>1. tasks' \in Seq(Tasks)
      BY <1>1, <1>t DEF IgnoreTask, Runs
    <2> QED
      BY <1>1, <2>1
         DEF IgnoreTask, Tasks, Announce, systemVars, callerVars, blockVars, listenerVars
  <1>2. ASSUME NEW d \in Devices, OnAttach(d) PROVE TypesInv'
    <2>1. /\ tasks # <<>> /\ Announce(d) /\ isRequest' = TRUE
          /\ asking' = asking \/ asking' = asking \cup {d}
          /\ \/ mHasPermissions' = mHasPermissions
             \/ mHasPermissions' = mHasPermissions \cup {d}
             \/ mHasPermissions' = mHasPermissions \ {d}
          /\ \/ tasks' = Tail(tasks)
             \/ tasks' = Append(Tail(tasks), Task("connect", d))
             \/ tasks' = Append(Tail(tasks), Task("cancel", d))
          /\ UNCHANGED <<systemVars, callerVars, polls, async, countVars, blockVars,
                         lastBlock, told, clone>>
      BY <1>2 DEF OnAttach, Runs, UpdatePermission
    <2>2. Task("connect", d) \in Tasks /\ Task("cancel", d) \in Tasks
      BY DEF Task, Tasks
    <2>3. tasks' \in Seq(Tasks)
      <3>1. Tail(tasks) \in Seq(Tasks)
        BY <1>t, <2>1
      <3>2. \A e \in Tasks : Append(Tail(tasks), e) \in Seq(Tasks)
        BY <3>1, Appended
      <3> QED BY <2>1, <2>2, <3>1, <3>2
    <2> QED BY <2>1, <2>3 DEF Announce, Tasks, systemVars, callerVars, blockVars
  <1>3. ASSUME NEW d \in Devices, OnDettach(d) PROVE TypesInv'
    <2>1. tasks' \in Seq(Tasks)
      BY <1>3, <1>t DEF OnDettach, Runs
    <2> QED
      BY <1>3, <2>1 DEF OnDettach, Tasks, systemVars, callerVars, blockVars, listenerVars
  <1>4. ASSUME NEW d \in Devices, FindBlock(d) PROVE TypesInv'
    <2>1. tasks' \in Seq(Tasks)
      BY <1>4, <1>t DEF FindBlock, Runs
    <2> QED
      BY <1>0, <1>4, <2>1
         DEF FindBlock, Tasks, systemVars, callerVars, blockVars, listenerVars
  <1>5. CASE CreateBlock
    <2>1. /\ lastBlock' = lastBlock + 1
          /\ async' = [async EXCEPT !.at = "putting", !.block = lastBlock + 1]
          /\ open' = open \/ open' = open \cup {lastBlock + 1}
          /\ UNCHANGED <<systemVars, asking, callerVars, polls, tasks, countVars,
                 mHasPermissions, mCtrlBlocks, strays, detached, listenerVars, clone,
                 announced>>
      BY <1>5 DEF CreateBlock
    <2>2. async' = [at |-> "putting", devices |-> async.devices, block |-> lastBlock + 1]
      BY <2>1
    <2>3. open' \subseteq 1..lastBlock' /\ strays' \subseteq 1..lastBlock'
      <3>1. lastBlock \in Nat /\ open \subseteq 1..lastBlock /\ strays \subseteq 1..lastBlock
        OBVIOUS
      <3>2. 1..lastBlock \subseteq 1..lastBlock' /\ lastBlock + 1 \in 1..lastBlock'
        BY <2>1, <3>1
      <3> QED BY <2>1, <3>1, <3>2, Zenon
    <2>4. BlockNumbers'
      <3>1. lastBlock \in Nat /\ \A d \in Devices : mCtrlBlocks[d] \in Nat
        OBVIOUS
      <3>2. \A d \in Devices : mCtrlBlocks'[d] <= lastBlock'
        BY <2>1, <3>1
      <3>3. async'.block <= lastBlock' /\ async'.block > 0
        BY <2>1, <2>2, <3>1
      <3>4. Detaching' => detached'.device \in Devices
        BY <2>1
      <3> QED BY <3>2, <3>3, <3>4
    <2>5. async' \in [at : {"idle", "listed", "creating", "putting", "dead"},
                      devices : SUBSET Devices, block : Nat]
      BY <2>2
    <2> HIDE DEF BlockNumbers
    <2> QED BY <2>1, <2>3, <2>4, <2>5 DEF systemVars, callerVars, listenerVars
  <1>6. CASE PutBlock
    <2>1. /\ async' = Idle /\ async.at = "putting"
          /\ mCtrlBlocks' = [d \in Devices |-> IF d \in async.devices THEN async.block
                                               ELSE mCtrlBlocks[d]]
          /\ told' = told \cup async.devices
          /\ strays' = strays \/ strays' = strays \cup {async.block}
          /\ UNCHANGED <<systemVars, asking, callerVars, polls, tasks, countVars,
                         mHasPermissions, open, detached, lastBlock, isRequest, clone, announced>>
      BY <1>6 DEF PutBlock
    <2>2. async.block \in 1..lastBlock /\ async.devices \subseteq Devices
      BY <2>1
    <2>3. strays' \subseteq 1..lastBlock /\ told' \subseteq Devices
      BY <2>1, <2>2
    <2>4. mCtrlBlocks' \in [Devices -> Nat] /\ BlockNumbers'
      BY <1>0, <2>1, <2>2 DEF Idle
    <2> HIDE DEF BlockNumbers
    <2> QED BY <2>1, <2>3, <2>4 DEF Idle, systemVars, callerVars
  <1> QED BY <1>1, <1>2, <1>3, <1>4, <1>5, <1>6 DEF Listener

LEMMA CameraTyped ==
    ASSUME TypesInv, Camera
    PROVE  TypesInv'
  <1> USE DEF TypesInv, TypeOK, BlockNumbers, Detaching, countVars
  <1>1. ASSUME NEW d \in Devices, OpenClone(d) PROVE TypesInv'
    BY <1>1 DEF OpenClone, systemVars, callerVars, blockVars, listenerVars
  <1>2. CASE CloseClone
    <2>1. /\ clone \in Devices /\ clone' = NoDevice
          /\ mCtrlBlocks' = [mCtrlBlocks EXCEPT ![clone] = 0]
          /\ strays' = strays \cup ({mCtrlBlocks[clone]} \ {0})
          /\ UNCHANGED <<systemVars, asking, callerVars, polls, tasks, async, countVars,
                         mHasPermissions, open, detached, lastBlock, listenerVars, announced>>
      BY <1>2 DEF CloseClone
    <2>2. mCtrlBlocks' \in [Devices -> Nat] /\ BlockNumbers'
      BY <2>1, EntryRemoved
    <2>3. strays' \subseteq 1..lastBlock
      <3>1. mCtrlBlocks[clone] \in Nat /\ mCtrlBlocks[clone] <= lastBlock
        BY <2>1
      <3>2. {mCtrlBlocks[clone]} \ {0} \subseteq 1..lastBlock
        BY <3>1
      <3> QED BY <2>1, <3>2
    <2> HIDE DEF BlockNumbers
    <2> QED BY <2>1, <2>2, <2>3 DEF systemVars, callerVars, listenerVars
  <1> QED BY <1>1, <1>2 DEF Camera

(* Every variable of the monitor keeps its type: the queues of the two     *)
(* threads hold broadcasts and tasks about devices, mDeviceCounts is never *)
(* more than there can be, and no block is known that was not made.        *)
THEOREM MonitorTypeCorrect == Spec => []TypeOK
  <1>1. Init => TypesInv
    <2> SUFFICES ASSUME Init PROVE TypesInv
      OBVIOUS
    <2> USE DEF Init
    <2>1. 0 \in 0..Cardinality(Devices)
      BY DevicesCounted
    <2>2. mCtrlBlocks \in [Devices -> Nat] /\ BlockNumbers
      BY DEF Idle, NoBlock, Detaching, BlockNumbers
    <2>3. /\ open \subseteq 1..lastBlock /\ strays \subseteq 1..lastBlock
          /\ async \in [at : {"idle", "listed", "creating", "putting", "dead"},
                        devices : SUBSET Devices, block : Nat]
      BY DEF Idle
    <2>4. broadcasts \in Seq(Broadcasts) /\ tasks \in Seq(Tasks)
      OBVIOUS
    <2>5. attached \subseteq Devices
      OBVIOUS
    <2>6. TypeOK
      BY <2>1, <2>2, <2>3, <2>4, <2>5 DEF TypeOK, Broadcasts, Tasks, NoBlock
    <2> QED BY <2>2, <2>6 DEF TypesInv
  <1>2. TypesInv /\ [Next]_vars => TypesInv'
    <2>1. CASE UNCHANGED vars
      BY <2>1 DEF vars, systemVars, callerVars, blockVars, listenerVars, TypesInv, TypeOK,
                  countVars, Detaching, BlockNumbers
    <2> QED BY <2>1, SystemTyped, MainTyped, CallerTyped, PollTyped, ListenerTyped,
               CameraTyped DEF Next
  <1>3. TypesInv => TypeOK
    BY DEF TypesInv
  <1> QED BY <1>1, <1>2, <1>3, PTL DEF Spec

=============================================================================
