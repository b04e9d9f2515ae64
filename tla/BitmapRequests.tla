--------------------------- MODULE BitmapRequests ---------------------------
(***************************************************************************)
(* The bitmaps that are asked of a capturer (ExternalCameraCapturer.java,  *)
(* toBitmap and onFrame): at most one request is registered, the next      *)
(* frame answers it, a timer takes it away after five seconds.             *)
(*                                                                         *)
(* Requests are made by any thread, timers fire on the main thread, frames *)
(* come on the texture thread; nothing is locked.  So every access to      *)
(* waitForFrameSolver and waitForFrameSolverSize is a step of its own.     *)
(* Every request asks for a size of its own, known by the request.         *)
(***************************************************************************)
EXTENDS Naturals

CONSTANTS
    Requests,
    MaxFrames       \* bound: frames that come while a request is registered

None == "none"

ASSUME BitmapRequestsAssumption == MaxFrames \in Nat /\ None \notin Requests

VARIABLES
    request,        \* where the call of toBitmap for a request is
    timer,          \* "none", "set" or "fired"
    waitForFrameSolver, waitForFrameSolverSize,
    texture, temp,  \* where onFrame is, the solver it has read
    listening,      \* stopListening has not been called
    answers,        \* the number of answers a solver has had
    size,           \* the request whose size its bitmap has
    overlapped,     \* ghost: another request was made before its answer
    frames          \* counter for the bound

vars == <<request, timer, waitForFrameSolver, waitForFrameSolverSize, texture, temp,
          listening, answers, size, overlapped, frames>>

Solver == Requests \cup {None}

(* Every variable has its type, and a request its timer from when its      *)
(* executor runs.                                                          *)
TypeOK ==
    /\ request \in [Requests -> {"none", "tested", "armed", "registered", "busy"}]
    /\ timer \in [Requests -> {"none", "set", "fired"}]
    /\ \A r \in Requests : request[r] \in {"armed", "registered"} => timer[r] # "none"
    /\ waitForFrameSolver \in Solver /\ waitForFrameSolverSize \in Solver
    /\ texture \in {"idle", "tested", "read", "cleared", "dead"} /\ temp \in Solver
    /\ listening \in BOOLEAN
    /\ answers \in [Requests -> Nat] /\ size \in [Requests -> Solver]
    /\ overlapped \subseteq Requests
    /\ frames \in Nat

Init ==
    /\ request = [r \in Requests |-> "none"] /\ timer = [r \in Requests |-> "none"]
    /\ waitForFrameSolver = None /\ waitForFrameSolverSize = None
    /\ texture = "idle" /\ temp = None /\ listening = TRUE
    /\ answers = [r \in Requests |-> 0] /\ size = [r \in Requests |-> None]
    /\ overlapped = {} /\ frames = 0

UnderWay(r) ==
    request[r] \in {"tested", "armed"} \/ waitForFrameSolver = r \/ temp = r

-----------------------------------------------------------------------------
(* toBitmap. *)

(* The request is rejected if another one is registered. *)
Ask(r) ==
    /\ request[r] = "none"
    /\ request' = [request EXCEPT ![r] = IF waitForFrameSolver # None THEN "busy" ELSE "tested"]
    /\ overlapped' = overlapped \cup
           LET others == {s \in Requests \ {r} : UnderWay(s)}
           IN  IF others = {} THEN {} ELSE others \cup {r}
    /\ UNCHANGED <<timer, waitForFrameSolver, waitForFrameSolverSize, texture, temp,
                   listening, answers, size, frames>>

(* Mutants of SetTimer, SetSize: no timer; the size set by nobody but the  *)
(* first request.                                                          *)
NoTimer(r) == UNCHANGED timer

SetTimer(r) == timer' = [timer EXCEPT ![r] = "set"]

SetSizeOnce(r) ==
    waitForFrameSolverSize' = IF waitForFrameSolverSize = None THEN r
                              ELSE waitForFrameSolverSize

SetSize(r) == waitForFrameSolverSize' = r

(* The executor of the promise: handler.postDelayed, then the size ... *)
Arm(r) ==
    /\ request[r] = "tested"
    /\ request' = [request EXCEPT ![r] = "armed"]
    /\ SetTimer(r) /\ SetSize(r)
    /\ UNCHANGED <<waitForFrameSolver, texture, temp, listening, answers, size,
                   overlapped, frames>>

(* ... and the solver, which may replace another one. *)
RegisterSolver(r) ==
    /\ request[r] = "armed"
    /\ request' = [request EXCEPT ![r] = "registered"]
    /\ waitForFrameSolver' = r
    /\ UNCHANGED <<timer, waitForFrameSolverSize, texture, temp, listening, answers, size,
                   overlapped, frames>>

(* After five seconds: whichever solver is there is forgotten, none is     *)
(* rejected.                                                               *)
TimerFires(r) ==
    /\ timer[r] = "set" /\ request[r] = "registered"
    /\ timer' = [timer EXCEPT ![r] = "fired"]
    /\ waitForFrameSolver' = None
    /\ UNCHANGED <<request, waitForFrameSolverSize, texture, temp, listening, answers, size,
                   overlapped, frames>>

-----------------------------------------------------------------------------
(* onFrame. *)

(* A frame that comes while no solver is there changes nothing. *)
TestSolver ==
    /\ texture = "idle" /\ listening
    /\ waitForFrameSolver # None /\ frames < MaxFrames
    /\ texture' = "tested" /\ frames' = frames + 1
    /\ UNCHANGED <<request, timer, waitForFrameSolver, waitForFrameSolverSize, temp,
                   listening, answers, size, overlapped>>

ReadSolver ==
    /\ texture = "tested"
    /\ texture' = "read" /\ temp' = waitForFrameSolver
    /\ UNCHANGED <<request, timer, waitForFrameSolver, waitForFrameSolverSize, listening,
                   answers, size, overlapped, frames>>

(* Mutant of ClearSolver: the solver stays. *)
KeepSolver ==
    /\ texture = "read"
    /\ texture' = "cleared"
    /\ UNCHANGED <<request, timer, waitForFrameSolver, waitForFrameSolverSize, temp,
                   listening, answers, size, overlapped, frames>>

ClearSolver ==
    /\ texture = "read"
    /\ texture' = "cleared" /\ waitForFrameSolver' = None
    /\ UNCHANGED <<request, timer, waitForFrameSolverSize, temp, listening, answers, size,
                   overlapped, frames>>

(* The size is read now. The bitmap is made, or cannot be made, at once;   *)
(* without a solver there is an exception nobody catches.                  *)
Answer ==
    /\ texture = "cleared"
    /\ IF temp = None
       THEN texture' = "dead" /\ UNCHANGED <<answers, size>>
       ELSE /\ texture' = "idle"
            /\ answers' = [answers EXCEPT ![temp] = @ + 1]
            /\ size' \in {size, [size EXCEPT ![temp] = waitForFrameSolverSize]}
    /\ temp' = None
    /\ UNCHANGED <<request, timer, waitForFrameSolver, waitForFrameSolverSize, listening,
                   overlapped, frames>>

(* stopCapture runs on the texture thread. toBitmap does not notice.       *)
StopCapture ==
    /\ listening /\ texture = "idle"
    /\ listening' = FALSE
    /\ UNCHANGED <<request, timer, waitForFrameSolver, waitForFrameSolverSize, texture, temp,
                   answers, size, overlapped, frames>>

-----------------------------------------------------------------------------
ToBitmap == \E r \in Requests : Ask(r) \/ Arm(r) \/ RegisterSolver(r)
Timers == \E r \in Requests : TimerFires(r)
OnFrame == TestSolver \/ ReadSolver \/ ClearSolver \/ Answer

Next == ToBitmap \/ Timers \/ OnFrame \/ StopCapture

Spec == Init /\ [][Next]_vars

(* Calls return and timers fire; frames need not come. *)
FairSpec ==
    /\ Spec
    /\ WF_vars(\E r \in Requests : Arm(r) \/ RegisterSolver(r))
    /\ \A r \in Requests : WF_vars(TimerFires(r))

-----------------------------------------------------------------------------
(* Properties. *)

(* onFrame: no request is answered twice, and none that was rejected,      *)
(* whatever timers, frames and other requests come between its steps.      *)
AnsweredOnce == \A r \in Requests : answers[r] <= (IF request[r] = "registered" THEN 1 ELSE 0)

(* onFrame reads waitForFrameSolverSize after it has given up the solver:  *)
(* a bitmap can have the size of another request, but only if the two were *)
(* under way at the same time.                                             *)
OtherSizeOnlyOverlapped ==
    \A r \in Requests : size[r] \in {None, r} \/ r \in overlapped

(* toBitmap: a registered request blocks the others ("already waiting for  *)
(* frame") for a while only, with or without frames.                       *)
SlotFreed == waitForFrameSolver # None ~> waitForFrameSolver = None

(* "The promise will timeout after 5s": a request gets an answer. *)
TimesOut == \A r \in Requests : request[r] = "registered" ~> answers[r] > 0

=============================================================================
