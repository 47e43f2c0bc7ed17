---------------------- MODULE RenderCalibrationProofs ----------------------
(***************************************************************************)
(* Proofs about RenderCalibration for any calibrations and any number of   *)
(* replugs.  CalibSpec implements DeviceLifecycle, so the invariant Inv of *)
(* that module holds here as well; Sync adds to it how the renderer's      *)
(* state follows the event thread and the main loop.                       *)
(***************************************************************************)
EXTENDS RenderCalibration, DeviceLifecycleProofs

\* The steps of an attach after the renderer's, up to the two flags.
AfterInit == {"mode", "register", "start", "connect", "reset"}

\* A call of process_pair() that is not outdated runs before the detach is told.
CallIsCurrent ==
    /\ render => main = "processing"
    /\ main = "processing" /\ ~outdated => deviceConnected \/ ev = "detach"

\* init() writes in its step of the attach only, and only from a file it did not
\* refuse.  But for what it has still to write the globals are of that file.
Written ==
    /\ writing # {} => ev = "render" /\ calib_yaml \in Calibs /\ calib_yaml = accepted
    /\ \A g \in Groups \ writing : params[g] = accepted
    /\ ~refused /\ ev = "render" => accepted # default

\* Once an attach is past init() the globals are set.
Initialised ==
    ~refused /\ (main \in {"loop", "processing"} \/ deviceConnected \/ ev \in AfterInit) =>
        \A g \in Groups : params[g] # default

\* What render() has read so far.
Read ==
    /\ render /\ ~refused => \A g \in Groups \ reading : local[g] # default
    /\ render /\ ~outdated => \A g \in Groups \ reading : local[g] = accepted
    /\ ~refused => dist_table # default

Sync ==
    /\ CallIsCurrent
    /\ Written
    /\ Initialised
    /\ Read

\* The steps of DeviceLifecycle that matter here.
Moves ==
    /\ main' # main => ev' = ev /\ deviceConnected' = deviceConnected
    /\ main' = "processing" => main = "processing" \/ (main = "loop" /\ ~deviceDisconnected)
    /\ main = "processing" => main' \in {"processing", "loop"}
    /\ main' = "loop" => main \in {"loop", "processing"} \/ deviceConnected
    /\ deviceConnected' => deviceConnected \/ ev = "connect"
    /\ deviceConnected /\ ~deviceConnected' => ev' = "detach"
    /\ ev = "detach" => ev' \in {"detach", "idle"}
    /\ ev = "render" => ev' \in {"render", "mode"}
    /\ ev' = "render" => ev \in {"calib", "render"}
    /\ ev' \in AfterInit => ev \in AfterInit \cup {"render"}

\* Who takes which step: main changes in main() only, the rest in the event
\* thread only.
LEMMA NextMoves == Inv /\ Next => Moves
<1> SUFFICES ASSUME Inv, Next
             PROVE  Moves
  OBVIOUS
<1> USE DEF Moves, AfterInit, flags, usb
<1>t. ConnectedMeansStreaming /\ FlagSteps
  BY DEF Inv
<1>1. CASE DeviceCallback
  <2>1. UsbFast \/ UsbSlow \/ CallbackThrows \/ CreateDevice \/ CreateFails \/ OpenDevice \/ OpenFails
          \/ CheckElapsed => Moves
    BY DEF UsbFast, UsbSlow, CallbackThrows, CreateDevice, CreateFails, OpenDevice, OpenFails,
        CheckElapsed
  <2>2. StepSucceeds => Moves
    BY NextStepValues DEF StepSucceeds
  <2>3. StepFails => Moves
    BY NextStepValues DEF StepFails
  <2>4. BeginAttach \/ InitRenderer \/ CloseDevice \/ DestroyDevice \/ SetConnected
          \/ ResetDisconnected => Moves
    BY DEF BeginAttach, InitRenderer, CloseDevice, DestroyDevice, SetConnected, ResetDisconnected
  <2>5. BeginDetach \/ EndDetach => Moves
    BY DEF BeginDetach, EndDetach
  <2>q. QED
    BY <1>1, <2>1, <2>2, <2>3, <2>4, <2>5 DEF DeviceCallback
<1>2. CASE Main
  BY <1>2 DEF Main, StartSystem, StartFails, DeviceFound, StartProcessing, EndProcessing, LeaveLoop,
      CleanUp, ReturnFromMain
<1>3. CASE DataCallback \/ Exit \/ Ended
  BY <1>3 DEF DataCallback, Gate, Publish, Exit, Ended, vars
<1>4. CASE Plug \/ Unplug \/ Interrupt \/ Deliver \/ Sleep
  BY <1>4 DEF Plug, Unplug, Interrupt, Deliver, Sleep, vars
<1>q. QED
  BY <1>1, <1>2, <1>3, <1>4 DEF Next

\* The renderer's state added, the device lifecycle goes on as it does alone.
THEOREM ImplementsDeviceLifecycle == CalibSpec => SafeSpec
<1>1. CalibInit => Init
  BY DEF CalibInit
<1>2. [CalibNext]_calibVars => [Next]_vars
  BY DEF CalibNext, Lifecycle, WriteGroup, BeginRender, ReadGroup, Draw, calibVars
<1>q. QED
  BY <1>1, <1>2, PTL DEF CalibSpec, SafeSpec

\* At the start nothing has been read or written.
LEMMA InitCalib == CalibInit => CalibTypeOK /\ Sync
<1> SUFFICES ASSUME CalibInit
             PROVE  CalibTypeOK /\ Sync
  OBVIOUS
<1>1. TypeOK
  BY InitInv DEF CalibInit, Inv
<1>2. CalibTypeOK
  BY <1>1 DEF CalibInit, CalibTypeOK, Groups
<1>3. Sync
  BY CalibsAssumption DEF CalibInit, Init, Sync, CallIsCurrent, Written, Initialised, Read, AfterInit, Groups
<1>q. QED
  BY <1>2, <1>3

\* TypeOK is the business of DeviceLifecycle: no step here disturbs it.
LEMMA CalibTypeStep == CalibTypeOK /\ Written /\ TypeOK' /\ [CalibNext]_calibVars => CalibTypeOK'
<1> SUFFICES ASSUME CalibTypeOK, Written, TypeOK', [CalibNext]_calibVars
             PROVE  CalibTypeOK'
  OBVIOUS
<1> USE DEF CalibTypeOK, renderer, rendering, history
<1>1. CASE Lifecycle
  BY <1>1 DEF Lifecycle, Fetch
<1>2. CASE WriteGroup
  <2>1. calib_yaml \in Calibs
    BY <1>2 DEF WriteGroup, Written
  <2>2. params' \in [Groups -> Calibs \cup {default}]
    BY <1>2, <2>1 DEF WriteGroup
  <2>q. QED
    BY <1>2, <2>2 DEF WriteGroup
<1>3. CASE BeginRender
  BY <1>3 DEF BeginRender
<1>4. CASE ReadGroup
  BY <1>4 DEF ReadGroup
<1>5. CASE Draw
  BY <1>5 DEF Draw, Groups
<1>6. CASE UNCHANGED calibVars
  BY <1>6 DEF calibVars
<1>q. QED
  BY <1>1, <1>2, <1>3, <1>4, <1>5, <1>6 DEF CalibNext

\* Sync and the steps of DeviceLifecycle: only there do the event thread and
\* the main loop move.
LEMMA LifecycleSync == Inv /\ CalibTypeOK /\ Sync /\ Lifecycle => Sync'
<1> SUFFICES ASSUME Inv, CalibTypeOK, Sync, Lifecycle
             PROVE  Sync'
  OBVIOUS
<1>m. Moves
  BY NextMoves DEF Lifecycle
<1>f. FlagSteps
  BY DEF Inv
<1>u. UNCHANGED <<reading, local, render, dist_table, drawn>>
  BY DEF Lifecycle, rendering
<1>r. render => main = "processing" /\ main' = "processing"
  BY <1>m DEF Sync, CallIsCurrent, Moves, Lifecycle, RenderReturns
<1>o. /\ main = "loop" /\ main' = "processing" => ~outdated'
      /\ ~(main = "loop" /\ main' = "processing") /\ ~outdated' => ~outdated
      /\ ev = "detach" /\ ev' = "idle" /\ main = "processing" => outdated'
  BY DEF Lifecycle
<1>1. CallIsCurrent'
  BY <1>m, <1>f, <1>u, <1>r, <1>o DEF Sync, CallIsCurrent, Moves, FlagSteps
<1>2. CASE ev = "calib" /\ ev' = "render"
  <2>1. Fetch
    BY <1>2 DEF Lifecycle
  <2>2. ~deviceConnected /\ ~deviceConnected' /\ (main = "processing" => outdated)
    BY <1>2, <1>f, <1>m DEF FlagSteps, Moves, Sync, CallIsCurrent
  <2>3. Written'
    <3>1. writing = {} /\ \A g \in Groups : params[g] = accepted
      BY <1>2 DEF Sync, Written
    <3>2. /\ params' = params
          /\ \/ calib_yaml' \in Calibs /\ writing' = Groups /\ accepted' = calib_yaml'
             \/ writing' = {} /\ accepted' = accepted /\ refused'
      BY <2>1 DEF Fetch
    <3>q. QED
      BY <1>2, <3>1, <3>2, CalibsAssumption DEF Written
  <2>4. main' \in {"loop", "processing"} => main \in {"loop", "processing"}
    BY <1>m, <2>2 DEF Moves
  <2>5. (~refused' => ~refused) /\ params' = params
    BY <2>1 DEF Fetch
  <2>6. Initialised'
    BY <1>2, <2>2, <2>4, <2>5 DEF Sync, Initialised, AfterInit
  <2>7. Read'
    BY <1>u, <1>r, <1>o, <2>2, <2>5 DEF Sync, Read
  <2>q. QED
    BY <1>1, <2>3, <2>6, <2>7 DEF Sync
<1>3. CASE ~(ev = "calib" /\ ev' = "render")
  <2>1. UNCHANGED <<calib_yaml, params, writing, accepted, refused>>
    BY <1>3 DEF Lifecycle, renderer
  <2>2. ev' = "render" => ev = "render"
    BY <1>3, <1>m DEF Moves
  <2>3. ev = "render" /\ writing # {} => ev' = "render"
    BY <1>m DEF Moves, Lifecycle, InitReturns
  <2>4. main' \in {"loop", "processing"} => main \in {"loop", "processing"} \/ deviceConnected
    BY <1>m DEF Moves
  <2>5. deviceConnected' => deviceConnected \/ ev = "connect"
    BY <1>m DEF Moves
  <2>6. ev' \in AfterInit => ev \in AfterInit \/ (ev = "render" /\ ev' = "mode" /\ writing = {})
    BY <1>m DEF Moves, Lifecycle, InitReturns, AfterInit
  <2>7. Written'
    BY <2>1, <2>2, <2>3 DEF Sync, Written
  <2>8. Initialised'
    <3>1. ev = "render" /\ writing = {} /\ ~refused => \A g \in Groups : params[g] # default
      BY DEF Sync, Written
    <3>q. QED
      BY <2>1, <2>4, <2>5, <2>6, <3>1 DEF Sync, Initialised, AfterInit
  <2>9. Read'
    BY <1>u, <1>r, <1>o, <2>1 DEF Sync, Read
  <2>q. QED
    BY <1>1, <2>7, <2>8, <2>9 DEF Sync
<1>q. QED
  BY <1>2, <1>3

\* Sync and the renderer's own steps.
LEMMA RenderSync == Inv /\ CalibTypeOK /\ Sync /\ (WriteGroup \/ BeginRender \/ ReadGroup \/ Draw) => Sync'
<1> SUFFICES ASSUME Inv, CalibTypeOK, Sync
             PROVE  WriteGroup \/ BeginRender \/ ReadGroup \/ Draw => Sync'
  OBVIOUS
<1>f. FlagSteps
  BY DEF Inv
<1> USE DEF Sync, vars, flags, renderer, rendering, history
<1>1. WriteGroup => Sync'
  <2> SUFFICES ASSUME WriteGroup
               PROVE  Sync'
    OBVIOUS
  <2>1. PICK g \in writing : /\ params' = [params EXCEPT ![g] = calib_yaml]
                             /\ writing' = writing \ {g}
    BY DEF WriteGroup
  <2>2. UNCHANGED <<vars, calib_yaml, rendering, history>> /\ ev = "render"
    BY DEF WriteGroup
  <2>3. calib_yaml # default /\ calib_yaml = accepted
    BY <2>1, CalibsAssumption DEF Written
  <2>4. \A h \in Groups : params'[h] = (IF h = g THEN calib_yaml ELSE params[h])
    BY <2>1 DEF CalibTypeOK
  <2>5. Written'
    BY <2>1, <2>2, <2>3, <2>4 DEF Written
  <2>6. Initialised'
    BY <2>2, <2>3, <2>4 DEF Initialised
  <2>7. CallIsCurrent' /\ Read'
    BY <2>2 DEF CallIsCurrent, Read
  <2>q. QED
    BY <2>5, <2>6, <2>7
<1>2. BeginRender => Sync'
  <2> SUFFICES ASSUME BeginRender
               PROVE  Sync'
    OBVIOUS
  <2>1. UNCHANGED <<vars, renderer, history>>
    BY DEF BeginRender
  <2>2. CallIsCurrent' /\ Written' /\ Initialised'
    BY <2>1 DEF BeginRender, CallIsCurrent, Written, Initialised
  <2>3. Read'
    BY <2>1 DEF BeginRender, Read
  <2>q. QED
    BY <2>2, <2>3
<1>3. ReadGroup => Sync'
  <2> SUFFICES ASSUME ReadGroup
               PROVE  Sync'
    OBVIOUS
  <2>1. PICK g \in reading : /\ local' = [local EXCEPT ![g] = params[g]]
                             /\ reading' = reading \ {g}
    BY DEF ReadGroup
  <2>2. UNCHANGED <<vars, renderer, render, dist_table, drawn, history>> /\ render
    BY DEF ReadGroup
  <2>3. \A h \in Groups : local'[h] = (IF h = g THEN params[h] ELSE local[h])
    BY <2>1 DEF CalibTypeOK
  <2>4. ~refused => params[g] # default
    BY <2>1, <2>2 DEF CallIsCurrent, Initialised, CalibTypeOK
  <2>5. ~outdated => params[g] = accepted
    <3>1. ~outdated => deviceConnected \/ ev = "detach"
      BY <2>2 DEF CallIsCurrent
    <3>2. ~outdated => ev # "render"
      BY <3>1, <1>f DEF FlagSteps
    <3>q. QED
      BY <2>1, <2>2, <3>2 DEF CallIsCurrent, Written, CalibTypeOK
  <2>6. Read'
    BY <2>1, <2>2, <2>3, <2>4, <2>5 DEF Read
  <2>7. CallIsCurrent' /\ Written' /\ Initialised'
    BY <2>2 DEF CallIsCurrent, Written, Initialised
  <2>q. QED
    BY <2>6, <2>7
<1>4. Draw => Sync'
  <2> SUFFICES ASSUME Draw
               PROVE  Sync'
    OBVIOUS
  <2>1. UNCHANGED <<vars, renderer, reading, local, history>> /\ ~render' /\ render /\ reading = {}
    BY DEF Draw
  <2>2. ~refused => dist_table' # default
    BY <2>1 DEF Draw, Read, Groups
  <2>3. Read'
    BY <2>1, <2>2 DEF Read
  <2>4. CallIsCurrent' /\ Written' /\ Initialised'
    BY <2>1 DEF CallIsCurrent, Written, Initialised
  <2>q. QED
    BY <2>3, <2>4
<1>q. QED
  BY <1>1, <1>2, <1>3, <1>4

\* What is not in vars does not disturb Inv.
LEMMA DeviceStep == Inv /\ [CalibNext]_calibVars => Inv'
<1>1. [CalibNext]_calibVars => [Next]_vars
  BY DEF CalibNext, Lifecycle, WriteGroup, BeginRender, ReadGroup, Draw, calibVars
<1>q. QED
  BY <1>1, InvStep

\* The inductive invariant: the device lifecycle's, and Sync.
CalibInv ==
    /\ Inv
    /\ CalibTypeOK
    /\ Sync

\* CalibInv holds in every state.
THEOREM CalibInvAlways == CalibSpec => []CalibInv
<1>1. CalibInit => CalibInv
  BY InitCalib, InitInv DEF CalibInv, CalibInit
<1>2. CalibInv /\ [CalibNext]_calibVars => CalibInv'
  <2> SUFFICES ASSUME CalibInv, [CalibNext]_calibVars
               PROVE  CalibInv'
    OBVIOUS
  <2>1. Inv'
    BY DeviceStep DEF CalibInv
  <2>2. CalibTypeOK'
    BY <2>1, CalibTypeStep DEF CalibInv, Inv, Sync
  <2>3. Lifecycle => Sync'
    BY LifecycleSync DEF CalibInv
  <2>4. (WriteGroup \/ BeginRender \/ ReadGroup \/ Draw) => Sync'
    BY RenderSync DEF CalibInv
  <2>5. UNCHANGED calibVars => Sync'
    BY DEF CalibInv, calibVars, vars, flags, renderer, rendering, history, Sync, CallIsCurrent, Written,
        Initialised, Read
  <2>q. QED
    BY <2>1, <2>2, <2>3, <2>4, <2>5 DEF CalibInv, CalibNext
<1>q. QED
  BY <1>1, <1>2, PTL DEF CalibSpec

\* The renderer's variables keep their types.
THEOREM CalibTypeCorrect == CalibSpec => []CalibTypeOK
<1>1. CalibInv => CalibTypeOK
  BY DEF CalibInv
<1>q. QED
  BY <1>1, CalibInvAlways, PTL

\* Nothing is drawn with parameters that init() never wrote, unless it refused
\* a file.
THEOREM DrawsCalibrated == CalibSpec => []CalibratedBeforeDrawing
<1>1. CalibInv => CalibratedBeforeDrawing
  BY DEF CalibInv, Sync, Read, CalibratedBeforeDrawing
<1>q. QED
  BY <1>1, CalibInvAlways, PTL

\* init() and render() meet only in a call that began before a detach.
THEOREM OnlyOldCallsRace == CalibSpec => []RacesOnlyWithOldCall
<1>1. CalibInv => RacesOnlyWithOldCall
  BY DEF CalibInv, Inv, FlagSteps, Sync, CallIsCurrent, RacesOnlyWithOldCall
<1>q. QED
  BY <1>1, CalibInvAlways, PTL

\* Any other call reads one calibration, that of the last file init() accepted,
\* also after files that it refused.
THEOREM OneCalibration == CalibSpec => []CurrentCallReadsOneCalibration
<1>1. CalibInv => CurrentCallReadsOneCalibration
  BY DEF CalibInv, Sync, Read, CurrentCallReadsOneCalibration
<1>q. QED
  BY <1>1, CalibInvAlways, PTL
=============================================================================
