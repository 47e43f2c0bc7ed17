----------------------- MODULE DeviceLifecycleProofs -----------------------
(***************************************************************************)
(* Proofs about DeviceLifecycle for any number of replugs (MaxHandles is   *)
(* any natural number).  Inv is inductive: it says where each handle is in *)
(* the SDK's protocol at each step of lidar_device_callback(), and how     *)
(* deviceConnected and deviceDisconnected follow those steps.  The named   *)
(* properties are its conjuncts, and the device callback implements        *)
(* DeviceSessions.                                                         *)
(***************************************************************************)
EXTENDS DeviceLifecycle, TLAPS

\* The steps of an attach that lead from one SDK call to the next.
LEMMA NextStepValues ==
  /\ DOMAIN NextStep = {"calib", "mode", "register", "start"}
  /\ NextStep["calib"] = "render"
  /\ NextStep["mode"] = "register"
  /\ NextStep["register"] = "start"
  /\ NextStep["start"] = "connect"
  BY DEF NextStep

\* main() has not found a device and no event was reported at the start.
LEMMA InitInv == Init => Inv
  BY DEF Init, Inv, TypeOK, CallsFitTheHandle, FailedAttachReleased, ConnectedMeansStreaming, FlagsAgree,
      FlagSteps, Ownership, Live, Handles, Fit, EventSteps, usb, flags

\* Every step of lidar_device_callback() preserves the invariant.
LEMMA DeviceCallbackInv == Inv /\ DeviceCallback => Inv'
<1> SUFFICES ASSUME Inv, DeviceCallback
             PROVE  Inv'
  OBVIOUS
<1> USE DEF Inv, TypeOK, CallsFitTheHandle, FailedAttachReleased, ConnectedMeansStreaming, FlagsAgree,
      FlagSteps, Ownership, Live, Handles, Fit, EventSteps, usb, flags
<1>1. CASE UsbFast
  BY <1>1 DEF UsbFast
<1>2. CASE UsbSlow
  BY <1>2 DEF UsbSlow
<1>3. CASE CallbackThrows
  BY <1>3 DEF CallbackThrows
<1>4. CASE CreateDevice
  BY <1>4 DEF CreateDevice
<1>5. CASE CreateFails
  BY <1>5 DEF CreateFails
<1>6. CASE OpenDevice
  BY <1>6 DEF OpenDevice
<1>7. CASE OpenFails
  BY <1>7 DEF OpenFails
<1>8. CASE CheckElapsed
  BY <1>8 DEF CheckElapsed
<1>9. CASE StepSucceeds
  BY <1>9, NextStepValues DEF StepSucceeds
<1>10. CASE StepFails
  BY <1>10, NextStepValues DEF StepFails
<1>11. CASE InitRenderer
  BY <1>11 DEF InitRenderer
<1>12. CASE CloseDevice
  BY <1>12 DEF CloseDevice
<1>13. CASE DestroyDevice
  BY <1>13 DEF DestroyDevice
<1>14. CASE SetConnected
  BY <1>14 DEF SetConnected
<1>15. CASE ResetDisconnected
  BY <1>15 DEF ResetDisconnected
<1>16. CASE BeginAttach
  BY <1>16 DEF BeginAttach
<1>17. CASE BeginDetach
  BY <1>17 DEF BeginDetach
<1>18. CASE EndDetach
  <2>1. ~deviceConnected /\ ~deviceConnected'
    BY <1>18 DEF EndDetach
  <2>2. FlagsAgree' /\ FlagSteps' /\ ConnectedMeansStreaming'
    BY <2>1, <1>18, Zenon DEF EndDetach
  <2>3. TypeOK'
    BY <1>18 DEF EndDetach
  <2>4. FailedAttachReleased' /\ Ownership' /\ CallsFitTheHandle'
    BY <1>18 DEF EndDetach
  <2>q. QED
    BY <2>2, <2>3, <2>4
<1>q. QED
  BY <1>1, <1>2, <1>3, <1>4, <1>5, <1>6, <1>7, <1>8, <1>9,
     <1>10, <1>11, <1>12, <1>13, <1>14, <1>15, <1>16, <1>17, <1>18
     DEF DeviceCallback

\* Every step of main() preserves the invariant: it writes neither the handles
\* nor the flags, but it enters its loop on deviceConnected.
LEMMA MainInv == Inv /\ Main => Inv'
<1> SUFFICES ASSUME Inv, Main
             PROVE  Inv'
  OBVIOUS
<1> USE DEF Inv, TypeOK, CallsFitTheHandle, FailedAttachReleased, ConnectedMeansStreaming, FlagsAgree,
      FlagSteps, Ownership, Live, Handles, Fit, EventSteps, usb, flags
<1>1. CASE StartSystem
  BY <1>1 DEF StartSystem
<1>2. CASE StartFails
  BY <1>2 DEF StartFails
<1>3. CASE DeviceFound
  BY <1>3 DEF DeviceFound
<1>4. CASE StartProcessing
  BY <1>4 DEF StartProcessing
<1>5. CASE EndProcessing
  BY <1>5 DEF EndProcessing
<1>6. CASE LeaveLoop
  BY <1>6 DEF LeaveLoop
<1>7. CASE CleanUp
  BY <1>7 DEF CleanUp
<1>8. CASE ReturnFromMain
  BY <1>8 DEF ReturnFromMain
<1>q. QED
  BY <1>1, <1>2, <1>3, <1>4, <1>5, <1>6, <1>7, <1>8 DEF Main

\* Unplugging, an interrupt and the end of the process write one variable each.
LEMMA EndType == TypeOK /\ (Unplug \/ Interrupt \/ Exit) => TypeOK'
<1> SUFFICES ASSUME TypeOK
             PROVE  Unplug \/ Interrupt \/ Exit => TypeOK'
  OBVIOUS
<1> USE DEF TypeOK, usb, flags
<1>1. Interrupt => TypeOK'
  BY DEF Interrupt
<1>2. Exit => TypeOK'
  BY DEF Exit
<1>3. Unplug => TypeOK'
  BY DEF Unplug
<1>q. QED
  BY <1>1, <1>2, <1>3

\* So do the data callback, the world and the end of the process.
LEMMA RestInv ==
  Inv /\ (Gate \/ Publish \/ Deliver \/ Plug \/ Unplug \/ Interrupt \/ Exit) => Inv'
<1> SUFFICES ASSUME Inv
             PROVE  Gate \/ Publish \/ Deliver \/ Plug \/ Unplug \/ Interrupt \/ Exit => Inv'
  OBVIOUS
<1> USE DEF Inv, TypeOK, CallsFitTheHandle, FailedAttachReleased, ConnectedMeansStreaming, FlagsAgree,
      FlagSteps, Ownership, Live, Handles, Fit, EventSteps, usb, flags
<1>1. Gate => Inv'
  BY DEF Gate
<1>2. Publish => Inv'
  BY DEF Publish
<1>3. Deliver => Inv'
  BY DEF Deliver
<1>4. Plug => Inv'
  BY DEF Plug
<1>5. ASSUME Unplug \/ Interrupt \/ Exit
      PROVE  Inv'
  <2>1. TypeOK'
    BY <1>5, EndType
  <2>2. UNCHANGED <<handle, odinDevice, deviceConnected, deviceDisconnected, reported, ev, main>>
    BY <1>5 DEF Unplug, Interrupt, Exit
  <2>3. (CallsFitTheHandle /\ FailedAttachReleased /\ ConnectedMeansStreaming)'
    BY <2>2
  <2>4. (FlagsAgree /\ FlagSteps /\ Ownership)'
    BY <2>2
  <2>q. QED
    BY <2>1, <2>3, <2>4
<1>q. QED
  BY <1>1, <1>2, <1>3, <1>4, <1>5

\* A step that changes nothing keeps the invariant.
LEMMA StutterInv == Inv /\ UNCHANGED vars => Inv'
  BY DEF vars, Inv, TypeOK, CallsFitTheHandle, FailedAttachReleased, ConnectedMeansStreaming, FlagsAgree,
      FlagSteps, Ownership, Live, Handles, Fit, EventSteps, usb, flags

\* Every step preserves Inv.
LEMMA InvStep == Inv /\ [Next]_vars => Inv'
<1> SUFFICES ASSUME Inv, [Next]_vars
             PROVE  Inv'
  OBVIOUS
<1>1. CASE DeviceCallback
  BY <1>1, DeviceCallbackInv
<1>2. CASE DataCallback
  BY <1>2, RestInv DEF DataCallback
<1>3. CASE Main
  BY <1>3, MainInv
<1>4. CASE Exit
  BY <1>4, RestInv
<1>5. CASE Running /\ (Plug \/ Unplug \/ Interrupt \/ Deliver)
  BY <1>5, RestInv
<1>6. CASE Ended \/ Sleep \/ UNCHANGED vars
  BY <1>6, StutterInv DEF Ended, Sleep
<1>q. QED
  BY <1>1, <1>2, <1>3, <1>4, <1>5, <1>6 DEF Next

\* Inv holds in every state, however often the sensor is plugged and unplugged
\* and whichever call fails.
THEOREM InvAlways == SafeSpec => []Inv
  BY InitInv, InvStep, PTL DEF SafeSpec

\* Every variable keeps its type.
THEOREM TypeCorrect == SafeSpec => []TypeOK
<1>1. Inv => TypeOK
  BY DEF Inv
<1>q. QED
  BY <1>1, InvAlways, PTL

\* Every call of the SDK is made for a handle in the status it needs.
THEOREM CallsAlwaysFit == SafeSpec => []CallsFitTheHandle
<1>1. Inv => CallsFitTheHandle
  BY DEF Inv
<1>q. QED
  BY <1>1, InvAlways, PTL

\* An attach that fails, at any call, leaves no handle behind but those that
\* stream.
THEOREM FailuresRelease == SafeSpec => []FailedAttachReleased
<1>1. Inv => FailedAttachReleased
  BY DEF Inv
<1>q. QED
  BY <1>1, InvAlways, PTL

\* While deviceConnected holds, odinDevice is a streaming handle.
THEOREM ConnectedStreams == SafeSpec => []ConnectedMeansStreaming
<1>1. Inv => ConnectedMeansStreaming
  BY DEF Inv
<1>q. QED
  BY <1>1, InvAlways, PTL

\* Between events the flags the main loop and the data callback look at are
\* each other's negation.
THEOREM FlagsStayOpposite == SafeSpec => []FlagsAgree
<1>1. Inv => FlagsAgree
  BY DEF Inv
<1>q. QED
  BY <1>1, InvAlways, PTL

-----------------------------------------------------------------------------
(* The device callback implements DeviceSessions *)

\* Before a stream, and between events of a device that is away, nothing shows.
LEMMA StageBefore ==
    ASSUME Inv, ev \notin {"idle", "connect", "reset", "detach"}
    PROVE  Stage = "detached" /\ deviceConnected = FALSE
<1>1. deviceConnected = FALSE
  BY DEF Inv, FlagSteps, TypeOK
<1>q. QED
  BY <1>1 DEF Stage

\* An SDK call of an attach shows if it starts the stream, else not.
LEMMA StageOfAttach ==
    ASSUME ev \notin {"connect", "reset", "detach"}, ~deviceConnected,
           UNCHANGED <<deviceConnected, deviceDisconnected>>, ev' \notin {"reset", "detach"}
    PROVE  [Sessions!Next]_Sessions!vars
<1>1. Stage = "detached"
  BY DEF Stage
<1>2. CASE ev' = "connect"
  <2>1. Stage' = "start"
    BY <1>2 DEF Stage
  <2>q. QED
    BY <1>1, <2>1 DEF Sessions!Next, Sessions!Attach
<1>3. CASE ev' # "connect"
  <2>1. Stage' = "detached"
    BY <1>3 DEF Stage
  <2>q. QED
    BY <1>1, <2>1 DEF Sessions!vars
<1>q. QED
  BY <1>2, <1>3

\* Every step of the program is one of DeviceSessions or does not show.
LEMMA StepOfSessions == Inv /\ [Next]_vars => [Sessions!Next]_Sessions!vars
<1> SUFFICES ASSUME Inv, [Next]_vars
             PROVE  [Sessions!Next]_Sessions!vars
  OBVIOUS
<1>1. ASSUME UNCHANGED <<ev, deviceConnected, deviceDisconnected>>
      PROVE  [Sessions!Next]_Sessions!vars
  BY <1>1 DEF Stage, Sessions!vars
<1>2. ASSUME ev = "idle", ~deviceConnected, ev' \notin {"reset", "detach"},
             UNCHANGED <<deviceConnected, deviceDisconnected>>
      PROVE  [Sessions!Next]_Sessions!vars
  BY <1>2, StageOfAttach
<1>3. ASSUME ev \notin {"idle", "connect", "reset", "detach"}, ev' \notin {"reset", "detach"},
             UNCHANGED <<deviceConnected, deviceDisconnected>>
      PROVE  [Sessions!Next]_Sessions!vars
  BY <1>3, StageBefore, StageOfAttach
<1>4. CASE DeviceCallback
  <2>1. CASE BeginAttach
    <3>1. ~deviceConnected
      BY <2>1 DEF BeginAttach, Inv, FlagSteps
    <3>q. QED
      BY <1>2, <2>1, <3>1 DEF BeginAttach, flags
  <2>2. CASE UsbFast \/ UsbSlow \/ CreateDevice \/ CreateFails \/ OpenDevice \/ OpenFails
             \/ CheckElapsed \/ StepFails \/ InitRenderer \/ CloseDevice \/ DestroyDevice
    BY <1>3, <2>2
       DEF UsbFast, UsbSlow, CreateDevice, CreateFails, OpenDevice, OpenFails, CheckElapsed,
           StepFails, InitRenderer, CloseDevice, DestroyDevice, NextStep, flags
  <2>3. CASE StepSucceeds
    BY <1>3, <2>3 DEF StepSucceeds, NextStep, flags
  <2>4. CASE CallbackThrows
    BY <1>1, <2>4 DEF CallbackThrows, flags
  <2>5. CASE SetConnected
    <3>1. Stage = "start" /\ Stage' = "reset"
      BY <2>5 DEF SetConnected, Stage
    <3>q. QED
      BY <2>5, <3>1 DEF SetConnected, Sessions!Next, Sessions!SetConnected
  <2>6. CASE ResetDisconnected
    <3>1. deviceConnected /\ deviceConnected' = deviceConnected
      BY <2>6 DEF ResetDisconnected, Inv, FlagSteps
    <3>2. Stage = "reset" /\ Stage' = "attached"
      BY <2>6, <3>1 DEF ResetDisconnected, Stage
    <3>q. QED
      BY <2>6, <3>1, <3>2 DEF ResetDisconnected, Sessions!Next, Sessions!ResetDisconnected
  <2>7. CASE BeginDetach
    <3>1. Stage \in {"attached", "detached"} /\ Stage' = "detach"
      BY <2>7 DEF BeginDetach, Stage
    <3>q. QED
      BY <2>7, <3>1 DEF BeginDetach, Sessions!Next, Sessions!BeginDetach
  <2>8. CASE EndDetach
    <3>1. ~deviceConnected /\ deviceConnected' = deviceConnected
      BY <2>8 DEF EndDetach, Inv, FlagSteps
    <3>2. Stage = "detach" /\ Stage' = "detached"
      BY <2>8, <3>1 DEF EndDetach, Stage
    <3>q. QED
      BY <2>8, <3>1, <3>2 DEF EndDetach, Sessions!Next, Sessions!EndDetach
  <2>q. QED
    BY <1>4, <2>1, <2>2, <2>3, <2>4, <2>5, <2>6, <2>7, <2>8 DEF DeviceCallback
<1>5. CASE DataCallback
  BY <1>1, <1>5 DEF DataCallback, Gate, Publish, flags
<1>6. CASE Main
  BY <1>1, <1>6 DEF Main, StartSystem, StartFails, DeviceFound, StartProcessing, EndProcessing,
                    LeaveLoop, CleanUp, ReturnFromMain, flags
<1>7. CASE Exit \/ Ended \/ UNCHANGED vars
  BY <1>1, <1>7 DEF Exit, Ended, vars, flags
<1>8. CASE Plug \/ Unplug \/ Interrupt \/ Deliver \/ Sleep
  BY <1>1, <1>8 DEF Plug, Unplug, Interrupt, Deliver, Sleep, vars, flags
<1>q. QED
  BY <1>4, <1>5, <1>6, <1>7, <1>8 DEF Next

\* Whatever fails on the way, and however often the device is replugged,
\* lidar_device_callback() keeps the promises of DeviceSessions: it is what the
\* model of the pairing over replugs is told of the device.
THEOREM ImplementsDeviceSessions == SafeSpec => RefinesDeviceSessions
<1>1. Init => Sessions!Init
  BY DEF Init, Sessions!Init, Stage
<1>q. QED
  BY <1>1, StepOfSessions, InvAlways, PTL DEF SafeSpec, Sessions!Spec, RefinesDeviceSessions
=============================================================================
