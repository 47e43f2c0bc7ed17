----------------------------- MODULE DepthNode -----------------------------
(***************************************************************************)
(* The file calib.yaml between three programs that do not wait for each    *)
(* other: the SDK in the driver writes it during each attach, the driver's *)
(* main() reads it again when it ends, to export cam_in_ex.txt             *)
(* (src/host_sdk_sample.cpp), and the depth node, a process of its own,    *)
(* waits until it exists and reads it once (src/pcd2depth_ros2.cpp,        *)
(* src/pcd2depth_ros.cpp).  A copy of the file is part of the repository,  *)
(* and earlier runs leave theirs.                                          *)
(*                                                                         *)
(* A value is known by the calibration it comes from.  The values are in   *)
(* three sections, in the order of the file: Tcl (extrinsics), k           *)
(* (distortion), A (intrinsics).  Half a Tcl is a list without its end,    *)
(* which YAML refuses; other sections are there or missing, and an A with  *)
(* a line missing is missing: the SDK is taken to write whole lines.  k    *)
(* and A are the camera node cam_0.  The SDK may stop anywhere and still   *)
(* report success: README 5.6 knows files without cam_0.                   *)
(*                                                                         *)
(* Of the driver only what touches the file is here; DeviceLifecycle has   *)
(* the rest.                                                               *)
(*                                                                         *)
(* A definition whose comment starts with "Variant" is not part of the     *)
(* model: it is the definition after it with a likely mistake.             *)
(***************************************************************************)
EXTENDS Naturals

CONSTANTS
    Calibs,             \* the calibrations of devices, and that of the repository
    Unusable            \* those with intrinsics that the depth node refuses

Marks == {"absent", "missing", "half", "unset", "default", "none"}

ASSUME CalibrationsAssumption == Unusable \subseteq Calibs /\ Marks \cap Calibs = {}

VARIABLES
    build,              \* "ros1" or "ros2"
    shared,             \* the driver writes the file that the depth node reads
    senddepth,          \* of control_command.yaml: "on", "off", "missing", "bad"
    calib_yaml,         \* the driver's file
    installed,          \* the depth node's file, if it is another
    drv,                \* the driver: "off", between devices "idle", or the
                        \* step of the attach that comes next
    looping,            \* main() has found a device and is in its loop
    odinDevice,         \* it is not nullptr
    calib_file_,        \* it is set
    source,             \* the calibration of the device that is attached
    cam_in_ex,          \* what was exported last, "none" before
    node,               \* the depth node: "off", "wait", "load" or "spin"
    server,             \* its parameters on the ROS 1 parameter server
    params,             \* the CameraParams of its converter
    kept,               \* history: the server had parameters that the file lacked
    current,            \* history: the node loaded the file the driver has now
    interrupted         \* history: the node was stopped

setup == <<build, shared, senddepth, installed>>
driver == <<drv, looping, odinDevice, calib_file_, source>>
depth == <<node, server, params, kept, interrupted>>
vars == <<setup, calib_yaml, driver, cam_in_ex, depth, current>>

Sections == {"Tcl", "k", "A"}

All(v) == [s \in Sections |-> v]

NodeFile == IF shared THEN calib_yaml ELSE installed

Has(f, s) == f[s] \in Calibs

Init ==
    /\ build \in {"ros1", "ros2"}
    /\ shared \in BOOLEAN /\ (build = "ros1" => shared)
    /\ senddepth \in {"on", "off", "missing", "bad"}
    /\ \E v \in Calibs \cup {"absent"} : calib_yaml = All(v)
    /\ \E v \in Calibs \cup {"absent"} : installed = All(v) /\ (shared => v = "absent")
    /\ drv = "off" /\ looping = FALSE /\ odinDevice = FALSE /\ calib_file_ = FALSE
    /\ source = "none"
    /\ cam_in_ex = All("none")
    /\ node = "off"
    /\ server = All("unset")
    /\ params = All("default")
    /\ kept = FALSE /\ current = FALSE /\ interrupted = FALSE

-----------------------------------------------------------------------------
(* The driver *)

\* loadConfig() fails on a value that is no number, and main() returns.
StartDriver ==
    /\ drv = "off"
    /\ senddepth # "bad"
    /\ drv' = "idle"
    /\ UNCHANGED <<setup, calib_yaml, looping, odinDevice, calib_file_, source, cam_in_ex,
                   depth, current>>

\* A new handle; the one of the last device is forgotten.
BeginAttach ==
    /\ drv = "idle"
    /\ drv' = "fetch"
    /\ odinDevice' = TRUE
    /\ source' \in Calibs
    /\ UNCHANGED <<setup, calib_yaml, looping, calib_file_, cam_in_ex, depth, current>>

\* lidar_get_calib_file(): the file is emptied, then written section by section.
TruncateFile ==
    /\ drv = "fetch"
    /\ drv' = "write"
    /\ calib_yaml' = All("missing")
    /\ current' = FALSE
    /\ UNCHANGED <<setup, looping, odinDevice, calib_file_, source, cam_in_ex, depth>>

WriteFile ==
    /\ drv = "write"
    /\ \/ /\ calib_yaml["Tcl"] = "missing"
          /\ calib_yaml' = [calib_yaml EXCEPT !["Tcl"] = "half"]
       \/ /\ calib_yaml["Tcl"] = "half"
          /\ calib_yaml' = [calib_yaml EXCEPT !["Tcl"] = source]
       \/ /\ calib_yaml["Tcl"] = source /\ calib_yaml["k"] = "missing"
          /\ calib_yaml' = [calib_yaml EXCEPT !["k"] = source]
       \/ /\ calib_yaml["k"] = source /\ calib_yaml["A"] = "missing"
          /\ calib_yaml' = [calib_yaml EXCEPT !["A"] = source]
    /\ UNCHANGED <<setup, driver, cam_in_ex, depth, current>>

\* lidar_get_calib_file() succeeds, whatever it left in the file.
FetchDone ==
    /\ drv = "write"
    /\ drv' = "fetched"
    /\ calib_file_' = TRUE
    /\ UNCHANGED <<setup, calib_yaml, looping, odinDevice, source, cam_in_ex, depth, current>>

\* rawCloudRender::init() refuses a file that is no YAML or has no cam_0, which
\* does not stop the attach.  With a cam_0 without A11 it throws, which does, and
\* ends the process (KillDriver).
InitThrows == Has(calib_yaml, "k") /\ ~Has(calib_yaml, "A")

Connect ==
    /\ drv = "fetched"
    /\ ~InitThrows
    /\ drv' = "attached"
    /\ looping' = TRUE
    /\ UNCHANGED <<setup, calib_yaml, odinDevice, calib_file_, source, cam_in_ex, depth, current>>

\* Variant: the pointer is kept.
AttachFailsDangling ==
    /\ drv \in {"fetch", "write", "fetched"}
    /\ drv = "fetched" => ~InitThrows
    /\ drv' = "idle"
    /\ UNCHANGED <<setup, calib_yaml, looping, odinDevice, calib_file_, source, cam_in_ex, depth,
                   current>>

\* Any SDK call of the attach fails, in lidar_get_calib_file() with the file as
\* it is by then.
AttachFails ==
    /\ drv \in {"fetch", "write", "fetched"}
    /\ drv = "fetched" => ~InitThrows
    /\ drv' = "idle"
    /\ odinDevice' = FALSE
    /\ UNCHANGED <<setup, calib_yaml, looping, calib_file_, source, cam_in_ex, depth, current>>

Detach ==
    /\ drv = "attached"
    /\ drv' = "idle"
    /\ UNCHANGED <<setup, calib_yaml, looping, odinDevice, calib_file_, source, cam_in_ex, depth,
                   current>>

DriverGone ==
    /\ drv' = "off"
    /\ looping' = FALSE /\ odinDevice' = FALSE /\ calib_file_' = FALSE
    /\ source' = "none"
    /\ UNCHANGED <<setup, calib_yaml, depth, current>>

\* convert_calib_to_cam_in_ex(): a missing value is written as its default.
Exported == [s \in Sections |-> IF calib_yaml[s] = "missing" THEN "default" ELSE calib_yaml[s]]

Exports == odinDevice /\ calib_file_ /\ calib_yaml["Tcl"] # "half"

\* The main loop was interrupted and main() returns, whatever the event thread
\* does; cam_in_ex.txt is rewritten if it can be.
ExitDriver ==
    /\ drv # "off" /\ looping
    /\ cam_in_ex' = IF Exports THEN Exported ELSE cam_in_ex
    /\ DriverGone

\* exit(), an exception in the SDK's thread, or a signal.
KillDriver ==
    /\ drv # "off"
    /\ UNCHANGED cam_in_ex
    /\ DriverGone

Driver ==
    \/ StartDriver
    \/ BeginAttach
    \/ TruncateFile
    \/ WriteFile
    \/ FetchDone
    \/ Connect
    \/ AttachFails
    \/ Detach
    \/ ExitDriver
    \/ KillDriver

-----------------------------------------------------------------------------
(* The depth node *)

\* The node ends at once if senddepth is 0; in ROS 2 it throws without the key or
\* with another value, in ROS 1 that counts as 0.  The ROS 1 parameter server may
\* be that of an earlier run.
StartNode ==
    /\ node = "off"
    /\ senddepth = "on"
    /\ node' = "wait"
    /\ server' \in {server, All("unset")}
    /\ interrupted' = FALSE
    /\ current' = FALSE
    /\ UNCHANGED <<setup, calib_yaml, driver, cam_in_ex, params, kept>>

\* Variant: only a file that was not there before.
FileFoundNew ==
    /\ node = "wait"
    /\ NodeFile # All("absent")
    /\ drv # "attached"
    /\ node' = "load"
    /\ UNCHANGED <<setup, calib_yaml, driver, cam_in_ex, server, params, kept, interrupted, current>>

\* fileExists(): whatever is in it.
FileFound ==
    /\ node = "wait"
    /\ NodeFile # All("absent")
    /\ node' = "load"
    /\ UNCHANGED <<setup, calib_yaml, driver, cam_in_ex, server, params, kept, interrupted, current>>

\* loadCameraParams() does not end in a shutdown.
Accepted(f) == Has(f, "Tcl") /\ Has(f, "A") /\ f["A"] \notin Unusable

\* Variant: a parameter that was never declared has its default.
LoadDefaults ==
    /\ build = "ros2" /\ node = "load"
    /\ NodeFile["Tcl"] # "half"
    /\ params' = [s \in Sections |-> IF Has(NodeFile, s) THEN NodeFile[s] ELSE "default"]
    /\ node' = "spin"
    /\ kept' = FALSE
    /\ current' = (shared /\ drv \in {"fetched", "attached"})
    /\ UNCHANGED <<setup, calib_yaml, driver, cam_in_ex, server, interrupted>>

\* ROS 2: loadCalibParameters() declares what the file has, and main() needs all
\* of it to start the node.
LoadRos2 ==
    /\ build = "ros2" /\ node = "load"
    /\ \A s \in Sections : Has(NodeFile, s)
    /\ Accepted(NodeFile)
    /\ params' = NodeFile
    /\ node' = "spin"
    /\ kept' = FALSE
    /\ current' = (shared /\ drv \in {"fetched", "attached"})
    /\ UNCHANGED <<setup, calib_yaml, driver, cam_in_ex, server, interrupted>>

\* Variant: what the server has is not overwritten.
LoadedUnder == [s \in Sections |-> IF server[s] = "unset" /\ Has(NodeFile, s)
                                     THEN NodeFile[s] ELSE server[s]]

\* rosparam load: what the file has goes over what the server has.
Loaded == [s \in Sections |-> IF Has(NodeFile, s) THEN NodeFile[s] ELSE server[s]]

\* ROS 1: the parameters are those of the server, old and new; distortion has a
\* default.
LoadRos1 ==
    /\ build = "ros1" /\ node = "load"
    /\ NodeFile["Tcl"] # "half"
    /\ server' = Loaded
    /\ kept' = \E s \in Sections : ~Has(NodeFile, s) /\ server[s] # "unset"
    /\ IF Accepted(server')
         THEN /\ node' = "spin"
              /\ params' = [s \in Sections |-> IF Has(server', s) THEN server'[s] ELSE "default"]
         ELSE /\ node' = "off"
              /\ UNCHANGED params
    /\ current' = (drv \in {"fetched", "attached"})
    /\ UNCHANGED <<setup, calib_yaml, driver, cam_in_ex, interrupted>>

\* The file is no YAML, in ROS 2 lacks a section, or has bad intrinsics.
LoadFails ==
    /\ node = "load"
    /\ \/ NodeFile["Tcl"] = "half"
       \/ build = "ros2" /\ ~((\A s \in Sections : Has(NodeFile, s)) /\ Accepted(NodeFile))
    /\ node' = "off"
    /\ UNCHANGED <<setup, calib_yaml, driver, cam_in_ex, server, params, kept, interrupted, current>>

StopNode ==
    /\ node \in {"wait", "spin"}
    /\ node' = "off"
    /\ interrupted' = TRUE
    /\ UNCHANGED <<setup, calib_yaml, driver, cam_in_ex, server, params, kept, current>>

NodeStep == FileFound \/ LoadRos2 \/ LoadRos1 \/ LoadFails

\* A configuration that starts neither program.
Nothing == senddepth = "bad" /\ UNCHANGED vars

Next == Driver \/ StartNode \/ NodeStep \/ StopNode \/ Nothing

SafeSpec == Init /\ [][Next]_vars

\* The depth node looks for the file twice a second; nobody has to start, plug,
\* stop or unplug anything.
Spec == SafeSpec /\ WF_vars(NodeStep)

-----------------------------------------------------------------------------
(* Properties *)

Values == Calibs \cup {"absent", "missing", "half"}

TypeOK ==
    /\ build \in {"ros1", "ros2"}
    /\ shared \in BOOLEAN
    /\ senddepth \in {"on", "off", "missing", "bad"}
    /\ calib_yaml \in [Sections -> Values]
    /\ installed \in [Sections -> Values]
    /\ drv \in {"off", "idle", "fetch", "write", "fetched", "attached"}
    /\ looping \in BOOLEAN /\ odinDevice \in BOOLEAN /\ calib_file_ \in BOOLEAN
    /\ source \in Calibs \cup {"none"}
    /\ cam_in_ex \in [Sections -> Calibs \cup {"none", "default"}]
    /\ node \in {"off", "wait", "load", "spin"}
    /\ server \in [Sections -> Calibs \cup {"unset"}]
    /\ params \in [Sections -> Calibs \cup {"default"}]
    /\ kept \in BOOLEAN /\ current \in BOOLEAN /\ interrupted \in BOOLEAN

\* The depth node never starts with a mixture of calibrations or with defaults,
\* although it may read the file while it is written, or what a failed attach or
\* the SDK left.  In ROS 1 this rests on a parameter server that adds nothing to
\* the file, and on the distortion, which has a default, not being last in it.
SpinsWithOneCalibration ==
    node = "spin" /\ ~kept => \E c \in Calibs \ Unusable : params = All(c)

\* If it read the file when the driver had fetched it, and nothing was fetched
\* since, it works with the calibration of the device that is attached: on either
\* build, and whatever was on the parameter server if the file has intrinsics.
AgreesWithDriver ==
    node = "spin" /\ current /\ (build = "ros2" \/ calib_yaml["A"] # "missing") =>
        params = calib_yaml /\ \E c \in Calibs : params = All(c)

\* cam_in_ex.txt is of one device, with defaults for what the file lacks and no
\* intrinsics without the rest, even if main() ends in the middle of an attach or
\* while the file is written.  The device is the one whose attach began last,
\* unless its file was not yet begun.  What a failed attach or an earlier run
\* left is not exported.
ExportsOneCalibration ==
    [][ ExitDriver =>
          \/ cam_in_ex' = cam_in_ex
          \/ \E c \in Calibs :
                /\ \A s \in Sections : cam_in_ex'[s] \in {c, "default"}
                /\ cam_in_ex'["A"] = c => cam_in_ex' = All(c)
                /\ drv # "fetch" => c = source ]_vars

\* With a device attached and its file whole, a depth node that waits comes to
\* spin, unless the device goes away or the node is stopped.
DepthStarts ==
    /\ node \in {"wait", "load"}
    /\ shared
    /\ drv = "attached" /\ calib_yaml["A"] = source /\ source \notin Unusable
    ~> node = "spin" \/ drv # "attached" \/ interrupted
=============================================================================
