---------------------------- MODULE FrameSource ----------------------------
(***************************************************************************)
(* What the user of a libuvc stream may rely on: his callback is called    *)
(* between start and the return of stop only, and never with a frame older *)
(* than the one before.  It promises nothing of that kind once a fault has *)
(* occurred (the device is lost, the start failed): a stream that is       *)
(* closed then may be abandoned, its callback may still be called.         *)
(***************************************************************************)
EXTENDS Naturals

VARIABLES
    phase,      \* "off", "on" or "abandoned"
    fault,      \* has this stream met a fault?
    last        \* the number of the frame delivered last, 0 before the first

vars == <<phase, fault, last>>

Init == phase = "off" /\ fault = FALSE /\ last = 0

Start ==
    /\ phase = "off"
    /\ phase' = "on" /\ fault' = FALSE /\ last' = 0

Fail ==
    /\ phase = "on"
    /\ fault' = TRUE
    /\ UNCHANGED <<phase, last>>

Deliver ==
    /\ phase # "off"
    /\ last' \in Nat /\ last' > last
    /\ UNCHANGED <<phase, fault>>

Stop ==
    /\ phase = "on"
    /\ phase' = "off" /\ fault' = FALSE /\ last' = 0

Abandon ==
    /\ phase = "on" /\ fault
    /\ phase' = "abandoned"
    /\ UNCHANGED <<fault, last>>

Next == Start \/ Fail \/ Deliver \/ Stop \/ Abandon

Spec == Init /\ [][Next]_vars

=============================================================================
