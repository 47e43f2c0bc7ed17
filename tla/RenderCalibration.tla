------------------------- MODULE RenderCalibration -------------------------
(***************************************************************************)
(* The calibration of the renderer, src/rawCloudRender.cpp, across replugs *)
(* of the sensor.  Each attach fetches calib.yaml from the device and      *)
(* rawCloudRender::init() writes it, value by value, into globals of       *)
(* GlobalCameraParams, in the SDK's event thread.  process_pair(), in the  *)
(* main thread, reads those globals in rawCloudRender::render(), which     *)
(* also keeps a table that it fills the first time only.  No lock is taken.*)
(*                                                                         *)
(* The module is DeviceLifecycle with this state added: its actions go on  *)
(* as they are, except that the attach waits for init() and the main loop  *)
(* for render().                                                           *)
(*                                                                         *)
(* A value is known by the calibration it comes from.  The values are in   *)
(* three groups: k (distortion), f (intrinsics) and T (extrinsics).  The   *)
(* two threads are not synchronised, so the groups are written, and read,  *)
(* in any order.                                                           *)
(*                                                                         *)
(* A definition whose comment starts with "Variant" is not part of the     *)
(* model: it is the definition after it with a likely mistake.             *)
(***************************************************************************)
EXTENDS DeviceLifecycle

CONSTANTS
    Calibs,             \* the calibrations a device may hand out
    default             \* what the globals hold before the first init()

ASSUME CalibsAssumption ==
    /\ default \notin Calibs
    /\ {"unset", "unusable"} \cap (Calibs \cup {default}) = {}

VARIABLES
    calib_yaml,         \* what the file holds: a calibration or "unusable"
    params,             \* GlobalCameraParams
    writing,            \* the groups that init() has still to write
    reading,            \* the groups that render() has still to read
    local,              \* render()'s copies of the parameters
    render,             \* process_pair() is in render()
    dist_table,         \* the static table, "unset" until the first render()
    drawn,              \* history: what the last cloud was drawn with
    accepted,           \* history: the calibration of the last file that init()
                        \* did not refuse
    refused,            \* history: some init() returned false
    outdated            \* history: the main loop looked at deviceDisconnected
                        \* for the last time before the last detach set it

renderer == <<calib_yaml, params, writing>>
rendering == <<reading, local, render, dist_table, drawn>>
history == <<accepted, refused, outdated>>
calibVars == <<vars, renderer, rendering, history>>

Groups == {"k", "f", "T"}

CalibInit ==
    /\ Init
    /\ calib_yaml = "unusable"
    /\ params = [g \in Groups |-> default]
    /\ writing = {}
    /\ reading = {}
    /\ local = [g \in Groups |-> default]
    /\ render = FALSE
    /\ dist_table = "unset"
    /\ drawn = [g \in Groups |-> default]
    /\ accepted = default
    /\ refused = FALSE
    /\ outdated = FALSE

-----------------------------------------------------------------------------
(* The event thread *)

\* Variant: init() writes the distortion before it looks whether all is there.
FetchUnchecked ==
    \E c \in Calibs \cup {"unusable"} :
        /\ calib_yaml' = c
        /\ writing' = IF c \in Calibs THEN Groups ELSE {}
        /\ \/ params' = params
           \/ c \notin Calibs /\ \E d \in Calibs : params' = [params EXCEPT !["k"] = d]
        /\ accepted' = IF c \in Calibs THEN c ELSE accepted
        /\ refused' = (refused \/ c \notin Calibs)

\* lidar_get_calib_file() has replaced the file, and init() reads it: it either
\* returns false ("Missing camera node 'cam_0'" and the like) before it has
\* written anything, or has all values.
Fetch ==
    \E c \in Calibs \cup {"unusable"} :
        /\ calib_yaml' = c
        /\ writing' = IF c \in Calibs THEN Groups ELSE {}
        /\ params' = params
        /\ accepted' = IF c \in Calibs THEN c ELSE accepted
        /\ refused' = (refused \/ c \notin Calibs)

\* One group of GlobalCameraParams is overwritten.
WriteGroup ==
    /\ Running /\ ev = "render"
    /\ \E g \in writing :
          /\ params' = [params EXCEPT ![g] = calib_yaml]
          /\ writing' = writing \ {g}
    /\ UNCHANGED <<vars, calib_yaml, rendering, history>>

-----------------------------------------------------------------------------
(* The main thread: process_pair() *)

BeginRender ==
    /\ Running /\ main = "processing"
    /\ ~render
    /\ render' = TRUE
    /\ reading' = Groups
    /\ UNCHANGED <<vars, renderer, local, dist_table, drawn, history>>

ReadGroup ==
    /\ Running /\ render
    /\ \E g \in reading :
          /\ local' = [local EXCEPT ![g] = params[g]]
          /\ reading' = reading \ {g}
    /\ UNCHANGED <<vars, renderer, render, dist_table, drawn, history>>

\* The distortion comes from the table, the rest from the copies.
Draw ==
    /\ Running /\ render /\ reading = {}
    /\ dist_table' = IF dist_table = "unset" THEN local["k"] ELSE dist_table
    /\ drawn' = [local EXCEPT !["k"] = dist_table']
    /\ render' = FALSE
    /\ UNCHANGED <<vars, renderer, reading, local, history>>

-----------------------------------------------------------------------------
(* The steps of DeviceLifecycle *)

\* The attach goes on when init() returned; an exception in the middle of it
\* ends the process and leaves the rest unwritten.
InitReturns == ev = "render" /\ ev' = "mode" => writing = {}

RenderReturns == main = "processing" /\ main' = "loop" => ~render

Lifecycle ==
    /\ Next
    /\ InitReturns
    /\ RenderReturns
    /\ IF ev = "calib" /\ ev' = "render"
         THEN Fetch
         ELSE UNCHANGED <<renderer, accepted, refused>>
    /\ outdated' = IF main = "loop" /\ main' = "processing" THEN FALSE
                   ELSE outdated \/ (ev = "detach" /\ ev' = "idle")
    /\ UNCHANGED rendering

CalibNext ==
    \/ Lifecycle
    \/ WriteGroup
    \/ BeginRender
    \/ ReadGroup
    \/ Draw

CalibSpec == CalibInit /\ [][CalibNext]_calibVars

(***************************************************************************)
(* The threads run, as in DeviceLifecycle.  Of the main thread more is     *)
(* needed: a call of try_process_pair() renders any number of clouds, and  *)
(* ends although it may always go on; PairQueue has why (CallReturns).     *)
(***************************************************************************)
CalibFairness ==
    /\ WF_calibVars(DeviceCallback /\ Lifecycle)
    /\ WF_calibVars(WriteGroup)
    /\ WF_calibVars(DataCallback /\ Lifecycle)
    /\ WF_calibVars((Main /\ Lifecycle) \/ BeginRender \/ ReadGroup \/ Draw)
    /\ SF_calibVars(EndProcessing /\ Lifecycle)
    /\ WF_calibVars(Exit /\ Lifecycle)

CalibFairSpec == CalibSpec /\ CalibFairness

-----------------------------------------------------------------------------
(* Properties *)

CalibTypeOK ==
    /\ TypeOK
    /\ calib_yaml \in Calibs \cup {"unusable"}
    /\ params \in [Groups -> Calibs \cup {default}]
    /\ writing \subseteq Groups
    /\ reading \subseteq Groups
    /\ local \in [Groups -> Calibs \cup {default}]
    /\ render \in BOOLEAN
    /\ dist_table \in Calibs \cup {default, "unset"}
    /\ drawn \in [Groups -> Calibs \cup {default}]
    /\ accepted \in Calibs \cup {default}
    /\ refused \in BOOLEAN
    /\ outdated \in BOOLEAN

\* Nothing is drawn with the globals' initial zeros, although render() does not
\* look whether init() ever ran: main() does not process anything before the
\* first attach has connected, and init() comes before that.  Unless init()
\* refused a file, which does not keep the attach from connecting.
CalibratedBeforeDrawing ==
    ~refused => /\ render /\ reading = {} => \A g \in Groups : local[g] # default
                /\ dist_table # default

\* init() writes the globals while render() may read them only if the call of
\* try_process_pair() began before the last detach: from the detach until the
\* next connection deviceDisconnected keeps the main loop from a new call.
RacesOnlyWithOldCall ==
    ev = "render" /\ writing # {} /\ render => outdated

\* So a call that began after the last detach reads one calibration only, that
\* of the last file that init() did not refuse: after a replug whose file it did
\* refuse, the one before, and before any, the zeros.
CurrentCallReadsOneCalibration ==
    render /\ reading = {} /\ ~outdated => \A g \in Groups : local[g] = accepted

-----------------------------------------------------------------------------
(* What the documentation says and the code does not do *)

\* README 5.6, for "Missing camera node 'cam_0'": "Please plug and unplug the
\* USB again".  Once a replug has brought a usable file, the clouds of a call
\* that began after it are drawn with its calibration.
ReplugRepairs ==
    [][ Draw /\ ~outdated /\ calib_yaml \in Calibs =>
          \A g \in Groups : drawn'[g] = calib_yaml ]_calibVars
=============================================================================
