--------------------------- MODULE DeviceSessions ---------------------------
(***************************************************************************)
(* What lidar_device_callback() of src/host_sdk_sample.cpp promises to the *)
(* rest of the driver, without saying how it attaches: a session begins    *)
(* when a device streams, is announced by deviceConnected, and ends with a *)
(* detach that tells through both flags.  An attach that fails leaves no   *)
(* trace, but a detach may be reported after it.                           *)
(***************************************************************************)
VARIABLES
    stage,              \* "detached"; "start", "reset", the steps of an attach
                        \* from the stream on; "attached"; or "detach"
    deviceConnected,
    deviceDisconnected

vars == <<stage, deviceConnected, deviceDisconnected>>

Init ==
    /\ stage = "detached"
    /\ deviceConnected = FALSE /\ deviceDisconnected = FALSE

\* The device streams before anything says so.
Attach ==
    /\ stage = "detached"
    /\ stage' = "start"
    /\ UNCHANGED <<deviceConnected, deviceDisconnected>>

SetConnected ==
    /\ stage = "start"
    /\ stage' = "reset"
    /\ deviceConnected' = TRUE
    /\ UNCHANGED deviceDisconnected

ResetDisconnected ==
    /\ stage = "reset"
    /\ stage' = "attached"
    /\ deviceDisconnected' = FALSE
    /\ UNCHANGED deviceConnected

\* Of the session, or of an attach that failed.
BeginDetach ==
    /\ stage \in {"attached", "detached"}
    /\ stage' = "detach"
    /\ deviceConnected' = FALSE
    /\ UNCHANGED deviceDisconnected

EndDetach ==
    /\ stage = "detach"
    /\ stage' = "detached"
    /\ deviceDisconnected' = TRUE
    /\ UNCHANGED deviceConnected

Next == Attach \/ SetConnected \/ ResetDisconnected \/ BeginDetach \/ EndDetach

Spec == Init /\ [][Next]_vars
=============================================================================
