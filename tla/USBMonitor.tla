----------------------------- MODULE USBMonitor -----------------------------
(***************************************************************************)
(* One USBMonitor from its construction to its destroy (USBMonitor.java),  *)
(* with the listener of ExternalCameraCapturer behind UVCCameraHelper.     *)
(*                                                                         *)
(* Three threads meet here: the caller of register, unregister and         *)
(* destroy; the main thread, which receives the broadcasts of the system;  *)
(* and the monitor's own handler thread, which polls the devices and makes *)
(* every call of the listener.                                             *)
(*                                                                         *)
(* Grain.  The monitor's lock is held for single steps only, so it has no  *)
(* variable.  A step of its own is what another thread can come between:   *)
(* the list a poll has read and the count it compares it with, the look    *)
(* into mCtrlBlocks, the connection made then and the entry put then, the  *)
(* steps of destroy.                                                       *)
(*                                                                         *)
(* A device is known by its name; it may be unplugged and plugged in       *)
(* again.  A control block is a number; `open' has those of the blocks     *)
(* made for mCtrlBlocks whose connection is open.                          *)
(***************************************************************************)
EXTENDS Naturals, Sequences, FiniteSets, SequencesExt

CONSTANTS
    Devices,        \* devices that pass the device filter
    MaxPlugs,       \* bound: number of times a device is plugged in
    MaxRegisters    \* bound: calls of register

ASSUME USBMonitorAssumption ==
    /\ IsFiniteSet(Devices)
    /\ MaxPlugs \in Nat /\ MaxRegisters \in Nat

VARIABLES
    attached,           \* the devices that are there
    permission,         \* those the application may use
    asking,             \* those the user is being asked about
    broadcasts,         \* what the system has sent to the receiver
    detached,           \* the block the receiver has taken out and not closed yet
    caller,             \* "free", "destroying", "closing" or "destroyed"
    keys,               \* the keys destroy still has to visit
    registered,         \* mPermissionIntent # null
    polls,              \* the mDeviceCheckRunnable that wait for their time
    tasks,              \* what else was posted to the handler thread
    async,              \* what the handler thread is doing
    mDeviceCounts, mHasPermissions,
    mCtrlBlocks,        \* the number of the block of a device, or 0
    open, lastBlock,
    isRequest,          \* of the capturer's listener
    told,               \* the devices onConnect was called for
    clone,              \* the device whose clone the camera has open
    announced,          \* ghost: attached devices onAttach was called for since
    strays,             \* ghost: blocks the monitor cannot close any more
    stale,              \* ghost: whether a device was unplugged between the
                        \*   list of a poll and its end ("list"), and whether
                        \*   mDeviceCounts is of such a list ("count")
    plugs, registers    \* counters for the bounds

systemVars == <<attached, permission, broadcasts, plugs>>
callerVars == <<caller, keys, registered, registers>>
blockVars == <<mCtrlBlocks, open, strays, detached>>
listenerVars == <<isRequest, told>>
countVars == <<mDeviceCounts, stale>>
vars == <<systemVars, asking, callerVars, polls, tasks, async, countVars,
          mHasPermissions, blockVars, lastBlock, listenerVars, clone, announced>>

NoDevice == "none"
Idle == [at |-> "idle", devices |-> {}, block |-> 0]
NoBlock == [device |-> NoDevice, block |-> 0]
Task(kind, d) == [kind |-> kind, device |-> d]

(* Every variable has its type. *)
TypeOK ==
    /\ attached \subseteq Devices /\ permission \subseteq attached
    /\ asking \subseteq Devices /\ announced \subseteq attached
    /\ broadcasts \in Seq([kind : {"granted", "denied", "detached"}, device : Devices])
    /\ detached \in [device : Devices \cup {NoDevice}, block : Nat]
    /\ caller \in {"free", "destroying", "closing", "destroyed"}
    /\ keys \subseteq Devices /\ registered \in BOOLEAN
    /\ polls \in Nat
    /\ tasks \in Seq([kind : {"attach", "detach", "connect", "cancel"}, device : Devices])
    /\ async \in [at : {"idle", "listed", "creating", "putting", "dead"},
                  devices : SUBSET Devices, block : Nat]
    /\ mDeviceCounts \in 0..Cardinality(Devices)
    /\ mHasPermissions \subseteq Devices
    /\ mCtrlBlocks \in [Devices -> Nat]
    /\ lastBlock \in Nat /\ open \subseteq 1..lastBlock /\ strays \subseteq 1..lastBlock
    /\ stale \subseteq {"list", "count"}
    /\ isRequest \in BOOLEAN /\ told \subseteq Devices
    /\ clone \in Devices \cup {NoDevice}
    /\ plugs \in Nat /\ registers \in Nat

(* USBMonitor.USBMonitor *)
Init ==
    /\ attached \in SUBSET Devices /\ permission = {} /\ asking = {} /\ broadcasts = <<>>
    /\ detached = NoBlock
    /\ caller = "free" /\ keys = {} /\ registered = FALSE
    /\ polls = 0 /\ tasks = <<>> /\ async = Idle
    /\ mDeviceCounts = 0 /\ mHasPermissions = {}
    /\ mCtrlBlocks = [d \in Devices |-> 0] /\ open = {} /\ lastBlock = 0
    /\ isRequest = FALSE /\ told = {} /\ clone = NoDevice
    /\ announced = {} /\ strays = {} /\ stale = {} /\ plugs = 0 /\ registers = 0

-----------------------------------------------------------------------------
(* The system: UsbManager, the permission dialog. *)

Plug(d) ==
    /\ d \notin attached /\ plugs < MaxPlugs
    /\ attached' = attached \cup {d} /\ plugs' = plugs + 1
    /\ UNCHANGED <<permission, broadcasts, asking, callerVars, polls, tasks, async,
                   countVars, mHasPermissions, blockVars, lastBlock, listenerVars, clone,
                   announced>>

Unplug(d) ==
    /\ d \in attached
    /\ attached' = attached \ {d} /\ permission' = permission \ {d}
    /\ announced' = announced \ {d}
    /\ broadcasts' = Append(broadcasts, Task("detached", d))
    /\ stale' = IF async.at = "listed" /\ d \in async.devices
                THEN stale \cup {"list"} ELSE stale
    /\ UNCHANGED <<plugs, asking, callerVars, polls, tasks, async, mDeviceCounts,
                   mHasPermissions, blockVars, lastBlock, listenerVars, clone>>

UserAnswers(d) ==
    /\ d \in asking
    /\ asking' = asking \ {d}
    /\ \/ /\ d \in attached
          /\ permission' = permission \cup {d}
          /\ broadcasts' = Append(broadcasts, Task("granted", d))
       \/ broadcasts' = Append(broadcasts, Task("denied", d)) /\ UNCHANGED permission
    /\ UNCHANGED <<attached, plugs, callerVars, polls, tasks, async, countVars,
                   mHasPermissions, blockVars, lastBlock, listenerVars, clone, announced>>

-----------------------------------------------------------------------------
(* A looper that has quit takes nothing any more. *)
Destroyed == caller \in {"closing", "destroyed"}
Post(kind, ds) ==
    tasks' = IF caller = "destroyed" THEN tasks
             ELSE tasks \o [k \in 1..Cardinality(ds) |-> Task(kind, SetToSeq(ds)[k])]
PostPoll == polls' = IF caller = "destroyed" THEN polls ELSE polls + 1

UpdatePermission(d, granted) ==
    mHasPermissions' = IF granted THEN mHasPermissions \cup {d} ELSE mHasPermissions \ {d}

ProcessConnect(d) ==
    IF Destroyed THEN UNCHANGED <<tasks, mHasPermissions>>
    ELSE UpdatePermission(d, TRUE) /\ Post("connect", {d})

ProcessCancel(d) ==
    IF Destroyed THEN UNCHANGED <<tasks, mHasPermissions>>
    ELSE UpdatePermission(d, FALSE) /\ Post("cancel", {d})

(* Mutant of ForgetCount: the devices that were counted stay counted. *)
KeepCount == UNCHANGED countVars

ForgetCount == mDeviceCounts' = 0 /\ stale' = stale \ {"count"}

(* Mutant of CloseBlock: the entry is removed, the block not closed. *)
ForgetBlock(d) ==
    /\ mCtrlBlocks' = [mCtrlBlocks EXCEPT ![d] = 0]
    /\ UNCHANGED open

(* UsbControlBlock.close, of a block that mCtrlBlocks has. *)
CloseBlock(d) ==
    /\ open' = open \ {mCtrlBlocks[d]}
    /\ mCtrlBlocks' = [mCtrlBlocks EXCEPT ![d] = 0]

-----------------------------------------------------------------------------
(* The main thread: mUsbReceiver.onReceive. *)

(* It is closing the block of a device that was detached. *)
Detaching == detached.block # 0

(* Once unregistered, the receiver gets nothing of what was sent to it. *)
ReceiveNothing ==
    /\ broadcasts # <<>> /\ (~registered \/ Destroyed) /\ ~Detaching
    /\ broadcasts' = Tail(broadcasts)
    /\ UNCHANGED <<attached, permission, plugs, asking, callerVars, polls, tasks, async,
                   countVars, mHasPermissions, blockVars, lastBlock, listenerVars, clone,
                   announced>>

ReceivePermission ==
    /\ broadcasts # <<>> /\ registered /\ ~Destroyed /\ ~Detaching
    /\ broadcasts' = Tail(broadcasts)
    /\ LET b == Head(broadcasts)
       IN  \/ b.kind = "granted" /\ ProcessConnect(b.device)
           \/ b.kind = "denied" /\ ProcessCancel(b.device)
    /\ UNCHANGED <<attached, permission, plugs, asking, callerVars, polls, async,
                   countVars, blockVars, lastBlock, listenerVars, clone, announced>>

(* The block of the device is taken out; its close takes out what it finds *)
(* under the name of the device then.                                      *)
ReceiveDetached ==
    LET d == Head(broadcasts).device
    IN  /\ broadcasts # <<>> /\ registered /\ ~Destroyed /\ ~Detaching
        /\ Head(broadcasts).kind = "detached"
        /\ broadcasts' = Tail(broadcasts)
        /\ mCtrlBlocks' = [mCtrlBlocks EXCEPT ![d] = 0]
        /\ IF mCtrlBlocks[d] # 0
           THEN /\ detached' = [device |-> d, block |-> mCtrlBlocks[d]]
                /\ UNCHANGED <<countVars, tasks>>
           ELSE ForgetCount /\ Post("detach", {d}) /\ UNCHANGED detached
        /\ UNCHANGED <<attached, permission, plugs, asking, callerVars, polls, async,
                       mHasPermissions, open, strays, lastBlock, listenerVars, clone,
                       announced>>

CloseDetached ==
    LET d == detached.device
        now == mCtrlBlocks[d]
    IN  /\ Detaching
        /\ detached' = NoBlock
        /\ open' = open \ {detached.block}
        /\ IF detached.block \in open
           THEN /\ mCtrlBlocks' = [mCtrlBlocks EXCEPT ![d] = 0]
                /\ strays' = strays \cup ({now} \ {0})
           ELSE UNCHANGED <<mCtrlBlocks, strays>>
        /\ ForgetCount /\ Post("detach", {d})
        /\ UNCHANGED <<systemVars, asking, callerVars, polls, async, mHasPermissions,
                       lastBlock, listenerVars, clone, announced>>

-----------------------------------------------------------------------------
(* The caller. *)

Register ==
    /\ caller = "free" /\ ~registered /\ registers < MaxRegisters
    /\ registered' = TRUE /\ registers' = registers + 1
    /\ mDeviceCounts' = 0 /\ stale' = stale \ {"count"}
    /\ PostPoll
    /\ UNCHANGED <<systemVars, asking, caller, keys, tasks, async, mHasPermissions,
                   blockVars, lastBlock, listenerVars, clone, announced>>

(* removeCallbacks does not reach a poll that is running. *)
UnregisterThen(next) ==
    /\ caller = "free"
    /\ caller' = next
    /\ registered' = FALSE
    /\ mDeviceCounts' = 0 /\ stale' = stale \ {"count"}
    /\ polls' = 0
    /\ UNCHANGED <<systemVars, asking, keys, registers, tasks, async, mHasPermissions,
                   blockVars, lastBlock, listenerVars, clone, announced>>

Unregister == registered /\ UnregisterThen("free")

Destroy == UnregisterThen("destroying")

DestroyBegins ==
    /\ caller = "destroying"
    /\ caller' = "closing"
    /\ keys' = {d \in Devices : mCtrlBlocks[d] # 0}
    /\ UNCHANGED <<systemVars, asking, registered, registers, polls, tasks, async,
                   countVars, mHasPermissions, blockVars, lastBlock, listenerVars, clone,
                   announced>>

(* The key set is weakly consistent: a key put meanwhile may be visited.   *)
DestroyCloses(d) ==
    /\ caller = "closing" /\ (d \in keys \/ mCtrlBlocks[d] # 0)
    /\ keys' = keys \ {d}
    /\ CloseBlock(d)
    /\ UNCHANGED <<systemVars, asking, caller, registered, registers, polls, tasks, async,
                   countVars, mHasPermissions, strays, detached, lastBlock, listenerVars,
                   clone, announced>>

(* Mutant of QuitLooper: the looper goes on. *)
KeepLooper == UNCHANGED <<tasks, polls>>

QuitLooper == tasks' = <<>> /\ polls' = 0

DestroyEnds ==
    /\ caller = "closing" /\ keys = {}
    /\ caller' = "destroyed"
    /\ mCtrlBlocks' = [d \in Devices |-> 0]
    /\ QuitLooper
    /\ UNCHANGED <<systemVars, asking, keys, registered, registers, async, countVars,
                   mHasPermissions, open, strays, detached, lastBlock, listenerVars,
                   clone, announced>>

-----------------------------------------------------------------------------
(* The handler thread: mDeviceCheckRunnable. *)

PollLists ==
    /\ async = Idle /\ polls > 0
    /\ polls' = polls - 1
    /\ async' = IF Destroyed THEN Idle ELSE [Idle EXCEPT !.at = "listed", !.devices = attached]
    /\ stale' = stale \ {"list"}
    /\ UNCHANGED <<systemVars, asking, callerVars, tasks, mDeviceCounts, mHasPermissions,
                   blockVars, lastBlock, listenerVars, clone, announced>>

(* Mutant of CountDevices: the devices are added to those counted before.  *)
CountDevicesAgain(n) == mDeviceCounts' = mDeviceCounts + n /\ UNCHANGED stale

CountDevices(n) ==
    /\ mDeviceCounts' = n
    /\ stale' = IF "list" \in stale THEN {"list", "count"} ELSE {}

(* Mutant of PollAgain: a poll that finds nothing new is the last one.     *)
PollWhileNew(changed) == IF changed THEN PostPoll ELSE UNCHANGED polls

PollAgain(changed) == PostPoll

(* More devices, or more permissions, than the last time. *)
PollCompares ==
    LET list == async.devices
        n == Cardinality(list)
        m == Cardinality(list \cap permission)
        changed == n > mDeviceCounts \/ m > Cardinality(mHasPermissions)
    IN  /\ async.at = "listed" /\ (~Destroyed \/ list = {})
        /\ async' = Idle
        /\ mHasPermissions' = list \cap permission
        /\ IF changed
           THEN CountDevices(n) /\ Post("attach", list)
           ELSE UNCHANGED <<countVars, tasks>>
        /\ PollAgain(changed)
        /\ UNCHANGED <<systemVars, asking, callerVars, blockVars, lastBlock, listenerVars,
                       clone, announced>>

(* destroy came meanwhile: getDeviceList or hasPermission throws, and      *)
(* nobody catches it.                                                      *)
PollThrows ==
    /\ async.at = "listed" /\ Destroyed
    /\ async' = [Idle EXCEPT !.at = "dead"]
    /\ mHasPermissions' \in {mHasPermissions, {}}
    /\ UNCHANGED <<systemVars, asking, callerVars, polls, tasks, countVars, blockVars,
                   lastBlock, listenerVars, clone, announced>>

-----------------------------------------------------------------------------
(* The handler thread: the tasks that were posted, the listener. *)

Runs(kind, d) ==
    /\ async = Idle
    /\ tasks # <<>> /\ Head(tasks) = Task(kind, d)

(* onAttach is called. *)
Announce(d) == announced' = announced \cup ({d} \cap attached)

IgnoreTask(d) ==
    /\ \/ Runs("cancel", d) /\ UNCHANGED announced
       \/ Runs("attach", d) /\ isRequest /\ Announce(d)
    /\ tasks' = Tail(tasks)
    /\ UNCHANGED <<systemVars, asking, callerVars, polls, async, countVars,
                   mHasPermissions, blockVars, lastBlock, listenerVars, clone>>

(* onAttachDev, requestPermission. *)
OnAttach(d) ==
    LET After(kind) == tasks' = IF Destroyed THEN Tail(tasks)
                                ELSE Append(Tail(tasks), Task(kind, d))
        Permitted(b) == IF Destroyed THEN UNCHANGED mHasPermissions
                        ELSE UpdatePermission(d, b)
    IN  /\ Runs("attach", d) /\ ~isRequest
        /\ Announce(d)
        /\ isRequest' = TRUE
        /\ \/ registered /\ d \in permission
              /\ After("connect") /\ Permitted(TRUE) /\ UNCHANGED asking
           \/ registered /\ d \notin permission
              /\ asking' = asking \cup {d}
              /\ tasks' = Tail(tasks) /\ UNCHANGED mHasPermissions
           \/ (~registered \/ d \notin permission)      \* or the request throws
              /\ After("cancel") /\ Permitted(FALSE) /\ UNCHANGED asking
        /\ UNCHANGED <<systemVars, callerVars, polls, async, countVars, blockVars,
                       lastBlock, told, clone>>

(* onDettachDev; the camera thread is told to close the camera. *)
OnDettach(d) ==
    /\ Runs("detach", d)
    /\ tasks' = Tail(tasks)
    /\ isRequest' = FALSE
    /\ UNCHANGED <<systemVars, asking, callerVars, polls, async, countVars,
                   mHasPermissions, blockVars, lastBlock, told, clone, announced>>

(* The task of processConnect looks for a block; onConnect is called with  *)
(* the one there is.                                                       *)
FindBlock(d) ==
    /\ Runs("connect", d)
    /\ tasks' = Tail(tasks)
    /\ IF mCtrlBlocks[d] # 0
       THEN told' = told \cup {d} /\ UNCHANGED async
       ELSE /\ async' = [at |-> "creating", devices |-> {d}, block |-> 0]
            /\ UNCHANGED told
    /\ UNCHANGED <<systemVars, asking, callerVars, polls, countVars, mHasPermissions,
                   blockVars, lastBlock, isRequest, clone, announced>>

(* A device that is gone gives a block without a connection. *)
CreateBlock ==
    /\ async.at = "creating"
    /\ lastBlock' = lastBlock + 1
    /\ async' = [async EXCEPT !.at = "putting", !.block = lastBlock']
    /\ open' = IF async.devices \subseteq permission THEN open \cup {lastBlock'} ELSE open
    /\ UNCHANGED <<systemVars, asking, callerVars, polls, tasks, countVars,
                   mHasPermissions, mCtrlBlocks, strays, detached, listenerVars, clone,
                   announced>>

(* destroyed is not tested again. *)
PutBlock ==
    /\ async.at = "putting"
    /\ async' = Idle
    /\ mCtrlBlocks' = [d \in Devices |-> IF d \in async.devices THEN async.block
                                         ELSE mCtrlBlocks[d]]
    /\ told' = told \cup async.devices
    /\ strays' = IF Destroyed THEN strays \cup {async.block} ELSE strays
    /\ UNCHANGED <<systemVars, asking, callerVars, polls, tasks, countVars,
                   mHasPermissions, open, detached, lastBlock, isRequest, clone, announced>>

-----------------------------------------------------------------------------
(* The camera thread (CameraHandler): it clones the block onConnect gave   *)
(* it, and closes the clone when it closes the camera.                     *)

OpenClone(d) ==
    /\ clone = NoDevice
    /\ d \in told /\ d \in permission
    /\ clone' = d
    /\ UNCHANGED <<systemVars, asking, callerVars, polls, tasks, async, countVars,
                   mHasPermissions, blockVars, lastBlock, listenerVars, announced>>

(* The close of a clone removes the entry of the block it was made from,   *)
(* which stays open.                                                       *)
CloseClone ==
    /\ clone # NoDevice
    /\ clone' = NoDevice
    /\ mCtrlBlocks' = [mCtrlBlocks EXCEPT ![clone] = 0]
    /\ strays' = strays \cup ({mCtrlBlocks[clone]} \ {0})
    /\ UNCHANGED <<systemVars, asking, callerVars, polls, tasks, async, countVars,
                   mHasPermissions, open, detached, lastBlock, listenerVars, announced>>

-----------------------------------------------------------------------------
System == \E d \in Devices : Plug(d) \/ Unplug(d) \/ UserAnswers(d)
Main == ReceiveNothing \/ ReceivePermission \/ ReceiveDetached \/ CloseDetached
Caller ==
    \/ Register \/ Unregister \/ Destroy \/ DestroyBegins
    \/ \E d \in Devices : DestroyCloses(d)
    \/ DestroyEnds
Poll == PollLists \/ PollCompares \/ PollThrows
Listener ==
    \/ \E d \in Devices : IgnoreTask(d) \/ OnAttach(d) \/ OnDettach(d) \/ FindBlock(d)
    \/ CreateBlock \/ PutBlock
Camera == CloseClone \/ \E d \in Devices : OpenClone(d)

Next == System \/ Main \/ Caller \/ Poll \/ Listener \/ Camera

Spec == Init /\ [][Next]_vars

(* The main and the handler thread take what they are given; a task does   *)
(* not keep a poll from its time nor a poll a task.                        *)
FairSpec == Spec /\ WF_vars(Main) /\ SF_vars(Poll) /\ SF_vars(Listener)

-----------------------------------------------------------------------------
(* Properties. *)

(* mCtrlBlocks, UsbControlBlock.close, destroy: a connection that the      *)
(* monitor opened is one it can still close, or is being entered or closed,*)
(* until destroy has closed them all.  There are three ways out of it, the *)
(* `strays': a clone was closed, which removes the entry of its original,  *)
(* the block was entered after destroy had begun, or it was entered while  *)
(* the receiver was closing the one before it.                             *)
ConnectionsAccounted ==
    /\ open \subseteq {mCtrlBlocks[d] : d \in Devices}
                         \cup {async.block, detached.block} \cup strays
    /\ caller = "destroyed" => open \subseteq {async.block, detached.block} \cup strays

(* register, unregister, mDeviceCheckRunnable: as long as the receiver is  *)
(* registered there is a poll, waiting or under way, also if the monitor   *)
(* was unregistered and registered again while one was under way.          *)
RegisteredMeansPolled == registered => polls > 0 \/ async.at = "listed"

(* destroy, "never reuse again": when it has returned nothing is left on   *)
(* the handler thread, but the call it is just making.                     *)
QuietAfterDestroy == caller = "destroyed" => tasks = <<>> /\ polls = 0

(* mDeviceCheckRunnable, the detach: a device that is plugged in, and      *)
(* stays, is announced, unless mDeviceCounts stays at the count of a list  *)
(* whose poll went on after one of its devices was unplugged.              *)
AnnouncedUnlessStale ==
    \A d \in Devices :
        d \in attached /\ registered
            ~> \/ d \in announced \/ d \notin attached \/ ~registered
               \/ "count" \in stale

(* "periodically check connected devices and if it changed, call onAttach" *)
AttachAnnounced ==
    \A d \in Devices :
        d \in attached /\ registered ~> d \in announced \/ d \notin attached \/ ~registered

=============================================================================
