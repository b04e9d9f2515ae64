--------------------------- MODULE CameraSession ---------------------------
(***************************************************************************)
(* What the rest of the program may rely on of the camera thread, whatever *)
(* it is sent and in whatever order: one camera at a time is open, each    *)
(* one a new one; a preview is that of the open camera, and is over before *)
(* the camera is closed, and the camera is closed before another is opened *)
(* or the thread ends; and the thread ends only once it has been released. *)
(***************************************************************************)
EXTENDS Naturals

VARIABLES
    opened,         \* the open camera, in a set of at most one
    previewing,     \* the camera whose preview runs, likewise
    made,           \* number of cameras made so far
    released,       \* has the thread been released?
    ended           \* has it ended?

vars == <<opened, previewing, made, released, ended>>

Init ==
    /\ opened = {} /\ previewing = {}
    /\ made = 0
    /\ released = FALSE /\ ended = FALSE

(* A camera is made; to open it may fail. *)
Open ==
    /\ ~ended
    /\ opened = {}
    /\ made' = made + 1
    /\ opened' \in {{}, {made'}}
    /\ UNCHANGED <<previewing, released, ended>>

Start ==
    /\ opened # {} /\ previewing = {}
    /\ previewing' = opened
    /\ UNCHANGED <<opened, made, released, ended>>

Stop ==
    /\ previewing' = {}
    /\ UNCHANGED <<opened, made, released, ended>>

Close ==
    /\ previewing = {}
    /\ opened' = {}
    /\ UNCHANGED <<previewing, made, released, ended>>

Release ==
    /\ released' = TRUE
    /\ UNCHANGED <<opened, previewing, made, ended>>

End ==
    /\ released
    /\ opened = {} /\ previewing = {}
    /\ ended' = TRUE
    /\ UNCHANGED <<opened, previewing, made, released>>

Next == Open \/ Start \/ Stop \/ Close \/ Release \/ End

Spec == Init /\ [][Next]_vars

=============================================================================
