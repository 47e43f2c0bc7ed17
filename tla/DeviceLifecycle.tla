-------------------------- MODULE DeviceLifecycle --------------------------
(***************************************************************************)
(* How the driver follows the sensor as it is plugged and unplugged:       *)
(* src/host_sdk_sample.cpp, with main() in one thread, the SDK's device    *)
(* events (lidar_device_callback) in another and its data                  *)
(* (lidar_data_callback) in a third.  They share odinDevice and the flags  *)
(* deviceConnected and deviceDisconnected, and the publisher g_ros_object, *)
(* which the end of the process destroys.                                  *)
(*                                                                         *)
(* Of the closed SDK only what the driver relies on is modelled: the       *)
(* status of each handle, one event at a time, attach and detach in turn,  *)
(* data for a streaming handle while the sensor is plugged.  Each SDK call *)
(* is one step and may fail.                                               *)
(*                                                                         *)
(* A definition whose comment starts with "Variant" is not part of the     *)
(* model: it is the definition after it with a likely mistake.             *)
(***************************************************************************)
EXTENDS Naturals, FiniteSets

CONSTANT MaxHandles     \* bound on the handles created, for model checking

ASSUME HandlesAssumption == MaxHandles \in Nat

VARIABLES
    plugged,            \* the sensor is on the bus
    reported,           \* the last event the SDK reported was an attach
    handle,             \* status of each handle in the SDK
    odinDevice,         \* the driver's handle, 0 for nullptr
    deviceConnected,
    deviceDisconnected,
    g_connection_timeout,
    ev,                 \* the event thread: "idle" or the step it is at
    cb,                 \* the data thread: "idle", "gate" or "publish"
    main,               \* the main thread
    ok,                 \* ros::ok(), rclcpp::ok(): no interrupt so far
    process             \* "up", "exiting" (globals destroyed) or "gone"

usb == <<plugged, reported>>
flags == <<deviceConnected, deviceDisconnected, g_connection_timeout>>
vars == <<usb, handle, odinDevice, flags, ev, cb, main, ok, process>>

Handles == 1 .. MaxHandles
Live == {h \in Handles : handle[h] \notin {"none", "destroyed"}}

\* What follows each SDK call of an attach that can fail after the open; a
\* failure closes and destroys the handle and gives up.
NextStep == [calib |-> "render", mode |-> "register", register |-> "start", start |-> "connect"]

EventSteps ==
    {"idle", "usb", "create", "open", "elapsed", "calib", "render", "mode", "register",
     "start", "connect", "reset", "close", "destroy", "closeLate", "destroyLate",
     "detach", "exit"}

Init ==
    /\ plugged = FALSE /\ reported = FALSE
    /\ handle = [h \in Handles |-> "none"]
    /\ odinDevice = 0
    /\ deviceConnected = FALSE /\ deviceDisconnected = FALSE
    /\ g_connection_timeout = FALSE
    /\ ev = "idle" /\ cb = "idle" /\ main = "init"
    /\ ok = TRUE
    /\ process = "up"

-----------------------------------------------------------------------------
(* The world *)

Running == process # "gone"

Plug ==
    /\ ~plugged
    /\ \E h \in Handles : handle[h] = "none"
    /\ plugged' = TRUE
    /\ UNCHANGED <<reported, handle, odinDevice, flags, ev, cb, main, ok, process>>

Unplug ==
    /\ plugged
    /\ plugged' = FALSE
    /\ UNCHANGED <<reported, handle, odinDevice, flags, ev, cb, main, ok, process>>

\* Ctrl-C: ROS takes the signal, the program learns of it from ok() only.
Interrupt ==
    /\ ok
    /\ ok' = FALSE
    /\ UNCHANGED <<usb, handle, odinDevice, flags, ev, cb, main, process>>

-----------------------------------------------------------------------------
(* lidar_device_callback(), attach *)

\* The SDK reports devices only once lidar_system_init() has succeeded.
BeginAttach ==
    /\ ev = "idle" /\ plugged /\ ~reported
    /\ main \notin {"init", "failed"}
    /\ reported' = TRUE
    /\ ev' = "usb"
    /\ UNCHANGED <<plugged, handle, odinDevice, flags, cb, main, ok, process>>

\* The port is fast enough: forget the old handle, if any.
UsbFast ==
    /\ ev = "usb"
    /\ odinDevice' = 0
    /\ ev' = "create"
    /\ UNCHANGED <<usb, handle, flags, cb, main, ok, process>>

\* It is not: exit(1), which destroys the globals in this thread.
UsbSlow ==
    /\ ev = "usb"
    /\ process = "up"
    /\ process' = "exiting"
    /\ ev' = "exit"
    /\ UNCHANGED <<usb, handle, odinDevice, flags, cb, main, ok>>

\* isUsb3OrHigher() (popen, stof), get_package_share_directory() after the open
\* and the renderer's init can throw into the SDK's thread, which ends the
\* process with the device as it is.
CallbackThrows ==
    /\ ev \in {"usb", "elapsed", "render"}
    /\ process' = "gone"
    /\ UNCHANGED <<usb, handle, odinDevice, flags, ev, cb, main, ok>>

CreateDevice ==
    /\ ev = "create"
    /\ \E h \in Handles :
          /\ handle[h] = "none"
          /\ \A g \in Handles : handle[g] = "none" => h <= g
          /\ handle' = [handle EXCEPT ![h] = "created"]
          /\ odinDevice' = h
    /\ ev' = "open"
    /\ UNCHANGED <<usb, flags, cb, main, ok, process>>

CreateFails ==
    /\ ev = "create"
    /\ ev' = "idle"
    /\ UNCHANGED <<usb, handle, odinDevice, flags, cb, main, ok, process>>

OpenDevice ==
    /\ ev = "open"
    /\ handle' = [handle EXCEPT ![odinDevice] = "open"]
    /\ ev' = "elapsed"
    /\ UNCHANGED <<usb, odinDevice, flags, cb, main, ok, process>>

OpenFails ==
    /\ ev = "open"
    /\ ev' = "destroy"
    /\ UNCHANGED <<usb, handle, odinDevice, flags, cb, main, ok, process>>

\* Less than 60 seconds since the attach began, or not.
CheckElapsed ==
    /\ ev = "elapsed"
    /\ ev' \in {"calib", "closeLate"}
    /\ UNCHANGED <<usb, handle, odinDevice, flags, cb, main, ok, process>>

\* lidar_get_calib_file, lidar_set_mode, lidar_register_stream_callback and
\* lidar_start_stream with lidar_activate_stream_type.
StepSucceeds ==
    /\ ev \in DOMAIN NextStep
    /\ handle' = CASE ev = "register" -> [handle EXCEPT ![odinDevice] = "registered"]
                   [] ev = "start" -> [handle EXCEPT ![odinDevice] = "streaming"]
                   [] OTHER -> handle
    /\ ev' = NextStep[ev]
    /\ UNCHANGED <<usb, odinDevice, flags, cb, main, ok, process>>

\* Variant: one error path without lidar_close_device().
StepFailsUnclosed ==
    /\ ev \in DOMAIN NextStep
    /\ ev' = IF ev = "register" THEN "destroy" ELSE "close"
    /\ UNCHANGED <<usb, handle, odinDevice, flags, cb, main, ok, process>>

\* Variant: one error path that only returns.
StepFailsBare ==
    /\ ev \in DOMAIN NextStep
    /\ ev' = IF ev = "mode" THEN "idle" ELSE "close"
    /\ UNCHANGED <<usb, handle, odinDevice, flags, cb, main, ok, process>>

StepFails ==
    /\ ev \in DOMAIN NextStep
    /\ ev' = "close"
    /\ UNCHANGED <<usb, handle, odinDevice, flags, cb, main, ok, process>>

\* A new g_renderer, initialised from calib.yaml (RenderCalibration says more); a
\* failure is logged.
InitRenderer ==
    /\ ev = "render"
    /\ ev' = "mode"
    /\ UNCHANGED <<usb, handle, odinDevice, flags, cb, main, ok, process>>

CloseDevice ==
    /\ ev \in {"close", "closeLate"}
    /\ handle' = [handle EXCEPT ![odinDevice] = "closed"]
    /\ ev' = IF ev = "close" THEN "destroy" ELSE "destroyLate"
    /\ UNCHANGED <<usb, odinDevice, flags, cb, main, ok, process>>

\* lidar_destory_device(), odinDevice = nullptr, and in the timeout branch
\* g_connection_timeout = true.
DestroyDevice ==
    /\ ev \in {"destroy", "destroyLate"}
    /\ handle' = [handle EXCEPT ![odinDevice] = "destroyed"]
    /\ odinDevice' = 0
    /\ g_connection_timeout' = (g_connection_timeout \/ ev = "destroyLate")
    /\ ev' = "idle"
    /\ UNCHANGED <<usb, deviceConnected, deviceDisconnected, cb, main, ok, process>>

SetConnected ==
    /\ ev = "connect"
    /\ deviceConnected' = TRUE
    /\ ev' = "reset"
    /\ UNCHANGED <<usb, handle, odinDevice, deviceDisconnected, g_connection_timeout, cb, main,
                   ok, process>>

\* Variant: deviceDisconnected left as the detach set it.
ResetForgotten ==
    /\ ev = "reset"
    /\ ev' = "idle"
    /\ UNCHANGED <<usb, handle, odinDevice, flags, cb, main, ok, process>>

ResetDisconnected ==
    /\ ev = "reset"
    /\ deviceDisconnected' = FALSE
    /\ ev' = "idle"
    /\ UNCHANGED <<usb, handle, odinDevice, deviceConnected, g_connection_timeout, cb, main,
                   ok, process>>

-----------------------------------------------------------------------------
(* lidar_device_callback(), detach: the handle is neither closed nor destroyed *)

\* Variant: deviceConnected left as the attach set it.
DetachStaysConnected ==
    /\ ev = "idle" /\ ~plugged /\ reported
    /\ reported' = FALSE
    /\ ev' = "detach"
    /\ UNCHANGED <<plugged, handle, odinDevice, flags, cb, main, ok, process>>

BeginDetach ==
    /\ ev = "idle" /\ ~plugged /\ reported
    /\ reported' = FALSE
    /\ deviceConnected' = FALSE
    /\ ev' = "detach"
    /\ UNCHANGED <<plugged, handle, odinDevice, deviceDisconnected, g_connection_timeout, cb,
                   main, ok, process>>

\* Variant: only deviceConnected tells of the detach.
EndDetachUntold ==
    /\ ev = "detach"
    /\ ev' = "idle"
    /\ UNCHANGED <<usb, handle, odinDevice, flags, cb, main, ok, process>>

EndDetach ==
    /\ ev = "detach"
    /\ deviceDisconnected' = TRUE
    /\ ev' = "idle"
    /\ UNCHANGED <<usb, handle, odinDevice, deviceConnected, g_connection_timeout, cb, main,
                   ok, process>>

DeviceCallback ==
    /\ Running
    /\ \/ BeginAttach
       \/ UsbFast
       \/ UsbSlow
       \/ CallbackThrows
       \/ CreateDevice
       \/ CreateFails
       \/ OpenDevice
       \/ OpenFails
       \/ CheckElapsed
       \/ StepSucceeds
       \/ StepFails
       \/ InitRenderer
       \/ CloseDevice
       \/ DestroyDevice
       \/ SetConnected
       \/ ResetDisconnected
       \/ BeginDetach
       \/ EndDetach

-----------------------------------------------------------------------------
(* lidar_data_callback() *)

Deliver ==
    /\ cb = "idle" /\ plugged
    /\ \E h \in Handles : handle[h] = "streaming"
    /\ cb' = "gate"
    /\ UNCHANGED <<usb, handle, odinDevice, flags, ev, main, ok, process>>

Gate ==
    /\ cb = "gate"
    /\ cb' = IF deviceConnected THEN "publish" ELSE "idle"
    /\ UNCHANGED <<usb, handle, odinDevice, flags, ev, main, ok, process>>

Publish ==
    /\ cb = "publish"
    /\ cb' = "idle"
    /\ UNCHANGED <<usb, handle, odinDevice, flags, ev, main, ok, process>>

DataCallback == Running /\ (Gate \/ Publish)

-----------------------------------------------------------------------------
(* main() *)

StartSystem ==
    /\ main = "init"
    /\ main' = "waiting"
    /\ UNCHANGED <<usb, handle, odinDevice, flags, ev, cb, ok, process>>

\* The configuration cannot be read or lidar_system_init() fails: return -1, with
\* an SDK that never runs.
StartFails ==
    /\ main = "init"
    /\ main' = "failed"
    /\ process' = "exiting"
    /\ UNCHANGED <<usb, handle, odinDevice, flags, ev, cb, ok>>

\* Variant: main() waits for the handle, not for the connection.
DeviceFoundEarly ==
    /\ main = "waiting"
    /\ odinDevice # 0
    /\ main' = "loop"
    /\ UNCHANGED <<usb, handle, odinDevice, flags, ev, cb, ok, process>>

\* while (!deviceConnected): nothing else ends this loop.
DeviceFound ==
    /\ main = "waiting"
    /\ deviceConnected
    /\ main' = "loop"
    /\ UNCHANGED <<usb, handle, odinDevice, flags, ev, cb, ok, process>>

\* Both loops sleep and look again.
Sleep ==
    /\ \/ main = "waiting" /\ ~deviceConnected
       \/ main = "loop" /\ ok /\ deviceDisconnected
    /\ UNCHANGED vars

\* Variant: an interrupt ends the loop only if it is asleep.
StartProcessingAnyway ==
    /\ main = "loop"
    /\ ~deviceDisconnected
    /\ main' = "processing"
    /\ UNCHANGED <<usb, handle, odinDevice, flags, ev, cb, ok, process>>

\* try_process_pair()
StartProcessing ==
    /\ main = "loop"
    /\ ok
    /\ ~deviceDisconnected
    /\ main' = "processing"
    /\ UNCHANGED <<usb, handle, odinDevice, flags, ev, cb, ok, process>>

EndProcessing ==
    /\ main = "processing"
    /\ main' = "loop"
    /\ UNCHANGED <<usb, handle, odinDevice, flags, ev, cb, ok, process>>

LeaveLoop ==
    /\ main = "loop"
    /\ ~ok
    /\ main' = "cleanup"
    /\ UNCHANGED <<usb, handle, odinDevice, flags, ev, cb, ok, process>>

\* cam_in_ex.txt is written, then the calls that would stop the stream, close
\* the handle and deinitialise the SDK are commented out.
CleanUp ==
    /\ main = "cleanup"
    /\ main' = "return"
    /\ UNCHANGED <<usb, handle, odinDevice, flags, ev, cb, ok, process>>

ReturnFromMain ==
    /\ main = "return"
    /\ main' = "returned"
    /\ process' = "exiting"
    /\ UNCHANGED <<usb, handle, odinDevice, flags, ev, cb, ok>>

Main ==
    /\ Running
    /\ \/ StartSystem
       \/ StartFails
       \/ DeviceFound
       \/ StartProcessing
       \/ EndProcessing
       \/ LeaveLoop
       \/ CleanUp
       \/ ReturnFromMain

\* The globals are destroyed while the SDK's threads still run; then all ends.
Exit ==
    /\ process = "exiting"
    /\ process' = "gone"
    /\ UNCHANGED <<usb, handle, odinDevice, flags, ev, cb, main, ok>>

Ended == process = "gone" /\ UNCHANGED vars

Next ==
    \/ DeviceCallback
    \/ DataCallback
    \/ Main
    \/ Exit
    \/ Ended
    \/ Running /\ (Plug \/ Unplug \/ Interrupt \/ Deliver \/ Sleep)

SafeSpec == Init /\ [][Next]_vars

(***************************************************************************)
(* The three threads run and the SDK's calls return; nobody has to plug,   *)
(* unplug or interrupt, and the sensor owes no data.                       *)
(***************************************************************************)
Fairness ==
    /\ WF_vars(DeviceCallback)
    /\ WF_vars(DataCallback)
    /\ WF_vars(Main)
    /\ WF_vars(Exit)

Spec == SafeSpec /\ Fairness

-----------------------------------------------------------------------------
(* Properties *)

TypeOK ==
    /\ plugged \in BOOLEAN /\ reported \in BOOLEAN /\ ok \in BOOLEAN
    /\ handle \in [Handles -> {"none", "created", "open", "registered", "streaming",
                               "closed", "destroyed"}]
    /\ odinDevice \in Handles \cup {0}
    /\ deviceConnected \in BOOLEAN /\ deviceDisconnected \in BOOLEAN
    /\ g_connection_timeout \in BOOLEAN
    /\ ev \in EventSteps
    /\ cb \in {"idle", "gate", "publish"}
    /\ main \in {"init", "failed", "waiting", "loop", "processing", "cleanup", "return",
                "returned"}
    /\ process \in {"up", "exiting", "gone"}

\* The status a handle must have for the SDK call the event thread is about
\* to make.
Fit == [open |-> {"created"}, elapsed |-> {"open"}, calib |-> {"open"}, render |-> {"open"},
        mode |-> {"open"}, register |-> {"open"}, start |-> {"registered"},
        connect |-> {"streaming"}, reset |-> {"streaming"},
        close |-> {"open", "registered"}, closeLate |-> {"open"},
        destroy |-> {"created", "closed"}, destroyLate |-> {"closed"}]

\* Along every path of lidar_device_callback(), its error paths included, each
\* SDK call is made for a handle in the status the call needs: nothing is
\* configured before it is open, streamed before it is registered, or
\* destroyed while it is open.
CallsFitTheHandle ==
    ev \in DOMAIN Fit => odinDevice # 0 /\ handle[odinDevice] \in Fit[ev]

\* However an attach ends, and whatever was attached and detached before, the
\* only handles it leaves alive are streaming: a failed attach has released
\* its own and does not leave odinDevice pointing at it.
FailedAttachReleased ==
    ev = "idle" =>
        /\ \A h \in Live : handle[h] = "streaming"
        /\ odinDevice \in Live \cup {0}

\* While the data callback lets data through, odinDevice, which it is given
\* the address of, is a streaming handle.
ConnectedMeansStreaming ==
    deviceConnected => odinDevice # 0 /\ handle[odinDevice] = "streaming"

\* The main loop looks at deviceDisconnected and the data callback at
\* deviceConnected.  Between events, once main() is in its loop, one is the
\* negation of the other, after any number of replugs.
FlagsAgree ==
    ev = "idle" /\ main \in {"loop", "processing"} => deviceDisconnected = ~deviceConnected

\* An event is being handled, or the device is connected, only after an attach
\* was reported; deviceDisconnected follows deviceConnected but for the one
\* step between the two assignments.
FlagSteps ==
    /\ ev \notin {"idle", "detach"} => reported
    /\ deviceConnected => reported /\ ev \in {"idle", "reset"}
    /\ ev = "reset" => deviceConnected
    /\ deviceConnected /\ ev # "reset" => ~deviceDisconnected
    /\ main \in {"loop", "processing"} /\ ~deviceConnected /\ ev # "detach" => deviceDisconnected

\* Other handles than the one in use were left by a detach and still stream;
\* odinDevice is the one in use, or nullptr.
Ownership ==
    /\ \A h \in Live : h # odinDevice => handle[h] = "streaming"
    /\ ev = "create" => odinDevice = 0
    /\ ev \in {"idle", "usb", "detach", "exit"} =>
          odinDevice = 0 \/ handle[odinDevice] = "streaming"

\* The inductive invariant: the event thread's place in the protocol, the
\* status of every handle and the two flags determine each other.
Inv ==
    /\ TypeOK
    /\ CallsFitTheHandle
    /\ FailedAttachReleased
    /\ ConnectedMeansStreaming
    /\ FlagsAgree
    /\ FlagSteps
    /\ Ownership

\* What an attach and a detach are to those who only know the flags: a session
\* begins with the stream, the steps before it may fail and do not show.
Stage ==
    CASE ev = "connect" -> "start"
      [] ev \in {"reset", "detach"} -> ev
      [] OTHER -> IF deviceConnected THEN "attached" ELSE "detached"

Sessions == INSTANCE DeviceSessions WITH stage <- Stage

\* The device callback keeps the promises of DeviceSessions, on which the pairing
\* over replugs relies (lidar_device_callback).
RefinesDeviceSessions == Sessions!Spec

\* A connected device is served: main() gets to try_process_pair(), also after
\* a replug, unless the device goes away or the program ends.
ConnectedIsServed ==
    main \in {"waiting", "loop"} /\ deviceConnected
        ~> main = "processing" \/ ~deviceConnected \/ ~ok \/ process # "up"

\* Once main() is in its loop an interrupt ends the program, with the device
\* connected or not.
ShutdownEnds ==
    ~ok /\ main \in {"loop", "processing"} ~> process = "gone"

-----------------------------------------------------------------------------
(* What the documentation says and the code does not do *)

\* "Software connection timed out after 60 seconds. Exiting program.", the log
\* says when g_connection_timeout is set: then the program exits.
TimeoutExits == g_connection_timeout ~> process = "gone"

\* The SDK "should be" deinitialised "when application is shutting down"
\* (lidar_system_deinit), so that main() does not return and destroy the
\* globals with a data callback still in the publisher.
PublisherAlive == main = "returned" /\ process = "exiting" => cb # "publish"
=============================================================================
