-------------------------- MODULE MCCameraHandler --------------------------
(***************************************************************************)
(* Small instances of CameraHandler for TLC.                               *)
(***************************************************************************)
EXTENDS CameraHandler, TLC

CONSTANTS app, monitor, main, texture

(* One thread makes all the calls. *)
OneCaller == {app}
AllCalls == [c \in OneCaller |-> Methods]

(* The threads of this repository and what each of them calls. *)
AppThreads == {monitor, main, texture}
AppCalls == monitor :> {"open", "close"} @@ main :> {"startPreview"}
            @@ texture :> {"stopPreview", "release"}

=============================================================================
