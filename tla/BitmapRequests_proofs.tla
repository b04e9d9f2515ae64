----------------------- MODULE BitmapRequests_proofs -----------------------
(***************************************************************************)
(* Proofs about BitmapRequests, for any requests and frames.               *)
(***************************************************************************)
EXTENDS BitmapRequests, TLAPS

(* A solver that onFrame has, or may still read, was registered and has    *)
(* had no answer; when onFrame answers it, nobody else can read it.        *)
SolverOnce ==
    /\ \A r \in Requests : answers[r] > 0 => request[r] = "registered"
    /\ \A r \in Requests : waitForFrameSolver = r \/ temp = r =>
           request[r] = "registered" /\ answers[r] = 0
    /\ texture \in {"idle", "tested"} => temp = None
    /\ texture = "cleared" => temp = None \/ waitForFrameSolver # temp

OnceInv == TypeOK /\ SolverOnce /\ AnsweredOnce

(* Requests that are under way together are known to be. *)
TogetherOverlapped ==
    \A r, s \in Requests : r # s /\ UnderWay(r) /\ UnderWay(s) => r \in overlapped

(* The size that is set is that of any request that was alone. *)
SizeOfTheOnly ==
    \A r \in Requests :
        request[r] = "armed" \/ waitForFrameSolver = r \/ temp = r =>
            waitForFrameSolverSize = r \/ r \in overlapped

SizeInv == TogetherOverlapped /\ SizeOfTheOnly /\ OtherSizeOnlyOverlapped

LEMMA NextOnce ==
    ASSUME OnceInv, [Next]_vars
    PROVE  OnceInv'
  <1> USE BitmapRequestsAssumption DEF OnceInv, TypeOK, SolverOnce, AnsweredOnce, Solver
  <1>1. ASSUME NEW r \in Requests, Ask(r) PROVE OnceInv'
    BY <1>1 DEF Ask
  <1>2. ASSUME NEW r \in Requests, Arm(r) PROVE OnceInv'
    BY <1>2 DEF Arm, SetTimer, SetSize
  <1>3. ASSUME NEW r \in Requests, RegisterSolver(r) PROVE OnceInv'
    BY <1>3 DEF RegisterSolver
  <1>4. ASSUME NEW r \in Requests, TimerFires(r) PROVE OnceInv'
    BY <1>4 DEF TimerFires
  <1>5. CASE TestSolver
    BY <1>5 DEF TestSolver
  <1>6. CASE ReadSolver
    BY <1>6 DEF ReadSolver
  <1>7. CASE ClearSolver
    BY <1>7 DEF ClearSolver
  <1>8. CASE Answer
    BY <1>8 DEF Answer
  <1>9. CASE StopCapture
    BY <1>9 DEF StopCapture
  <1>10. CASE UNCHANGED vars
    BY <1>10 DEF vars
  <1> QED
    BY <1>1, <1>2, <1>3, <1>4, <1>5, <1>6, <1>7, <1>8, <1>9, <1>10
       DEF Next, ToBitmap, Timers, OnFrame

LEMMA NextSize ==
    ASSUME OnceInv, SizeInv, [Next]_vars
    PROVE  SizeInv'
  <1> USE BitmapRequestsAssumption
      DEF OnceInv, TypeOK, SolverOnce, Solver, SizeInv, TogetherOverlapped, SizeOfTheOnly,
          OtherSizeOnlyOverlapped, UnderWay
  <1>1. ASSUME NEW r \in Requests, Ask(r) PROVE SizeInv'
    BY <1>1 DEF Ask
  <1>2. ASSUME NEW r \in Requests, Arm(r) PROVE SizeInv'
    BY <1>2 DEF Arm, SetTimer, SetSize
  <1>3. ASSUME NEW r \in Requests, RegisterSolver(r) PROVE SizeInv'
    BY <1>3 DEF RegisterSolver
  <1>4. ASSUME NEW r \in Requests, TimerFires(r) PROVE SizeInv'
    BY <1>4 DEF TimerFires
  <1>5. CASE TestSolver
    BY <1>5 DEF TestSolver
  <1>6. CASE ReadSolver
    BY <1>6 DEF ReadSolver
  <1>7. CASE ClearSolver
    BY <1>7 DEF ClearSolver
  <1>8. CASE Answer
    BY <1>8 DEF Answer
  <1>9. CASE StopCapture
    BY <1>9 DEF StopCapture
  <1>10. CASE UNCHANGED vars
    BY <1>10 DEF vars
  <1> QED
    BY <1>1, <1>2, <1>3, <1>4, <1>5, <1>6, <1>7, <1>8, <1>9, <1>10
       DEF Next, ToBitmap, Timers, OnFrame

THEOREM OnceSafe == Spec => []OnceInv
  <1>1. Init => OnceInv
    BY BitmapRequestsAssumption DEF Init, OnceInv, TypeOK, SolverOnce, AnsweredOnce, Solver
  <1> QED BY <1>1, NextOnce, PTL DEF Spec

(* The types of the requests, their timers and the solver fields. *)
THEOREM RequestsTypeCorrect == Spec => []TypeOK
  <1>1. OnceInv => TypeOK
    BY DEF OnceInv
  <1> QED BY <1>1, OnceSafe, PTL

(* onFrame: no request is answered twice, and none that was rejected, for  *)
(* any number of requests and in any order of the unlocked accesses.       *)
THEOREM RequestsAnsweredOnce == Spec => []AnsweredOnce
  <1>1. OnceInv => AnsweredOnce
    BY DEF OnceInv
  <1> QED BY <1>1, OnceSafe, PTL

(* onFrame: a bitmap has the size of another request only if the two were  *)
(* under way at the same time.                                             *)
THEOREM RequestsKeepTheirSize == Spec => []OtherSizeOnlyOverlapped
  <1>1. Init => SizeInv
    BY BitmapRequestsAssumption
       DEF Init, SizeInv, TogetherOverlapped, SizeOfTheOnly, OtherSizeOnlyOverlapped, UnderWay
  <1>2. OnceInv /\ SizeInv /\ [Next]_vars => SizeInv'
    BY NextSize
  <1>3. SizeInv => OtherSizeOnlyOverlapped
    BY DEF SizeInv
  <1> QED BY <1>1, <1>2, <1>3, OnceSafe, PTL DEF Spec

(* toBitmap, its timer: whichever solver blocks other requests, the timer  *)
(* that takes it away has not fired yet.                                   *)
SlotHasTimer ==
    \A r \in Requests : waitForFrameSolver = r => request[r] = "registered" /\ timer[r] = "set"

ArmedHasTimer == \A r \in Requests : request[r] = "armed" => timer[r] = "set"

LEMMA NextTimer ==
    ASSUME OnceInv, ArmedHasTimer, SlotHasTimer, [Next]_vars
    PROVE  ArmedHasTimer' /\ SlotHasTimer'
  <1> USE BitmapRequestsAssumption DEF OnceInv, TypeOK, ArmedHasTimer, SlotHasTimer
  <1>1. ASSUME NEW r \in Requests, Ask(r) PROVE ArmedHasTimer' /\ SlotHasTimer'
    BY <1>1 DEF Ask
  <1>2. ASSUME NEW r \in Requests, Arm(r) PROVE ArmedHasTimer' /\ SlotHasTimer'
    BY <1>2 DEF Arm, SetTimer
  <1>3. ASSUME NEW r \in Requests, RegisterSolver(r) PROVE ArmedHasTimer' /\ SlotHasTimer'
    BY <1>3 DEF RegisterSolver
  <1>4. ASSUME NEW r \in Requests, TimerFires(r) PROVE ArmedHasTimer' /\ SlotHasTimer'
    BY <1>4 DEF TimerFires
  <1>5. CASE OnFrame
    <2>1. /\ UNCHANGED <<request, timer>>
          /\ waitForFrameSolver' \in {waitForFrameSolver, None}
      BY <1>5 DEF OnFrame, TestSolver, ReadSolver, ClearSolver, Answer
    <2> QED BY <2>1
  <1>6. CASE StopCapture \/ UNCHANGED vars
    BY <1>6 DEF StopCapture, vars
  <1> QED BY <1>1, <1>2, <1>3, <1>4, <1>5, <1>6 DEF Next, ToBitmap, Timers

(* A request that blocks the others has its timer pending, also after its  *)
(* solver has replaced another one or onFrame has answered: what SlotFreed *)
(* needs but the main thread's looper.                                     *)
THEOREM SlotIsTimed == Spec => []SlotHasTimer
  <1>1. Init => ArmedHasTimer /\ SlotHasTimer
    BY BitmapRequestsAssumption DEF Init, ArmedHasTimer, SlotHasTimer
  <1> QED BY <1>1, NextTimer, OnceSafe, PTL DEF Spec

=============================================================================
