-------------------------- MODULE DepthNodeProofs --------------------------
(***************************************************************************)
(* Proofs about DepthNode for any calibrations: what the depth node works  *)
(* with and what the driver exports, whenever either program starts, fails *)
(* or ends.                                                                *)
(***************************************************************************)
EXTENDS DepthNode, TLAPS

\* The file is what the SDK writes for a device with calibration c, up to where
\* it came, or stopped.
PartOf(c) ==
    /\ calib_yaml["Tcl"] \in {"missing", "half", c}
    /\ calib_yaml["k"] = "missing" \/ (calib_yaml["k"] = c /\ calib_yaml["Tcl"] = c)
    /\ calib_yaml["A"] = "missing" \/ (calib_yaml["A"] = c /\ calib_yaml["k"] = c)

\* The intrinsics, last in the file, are there only if all of it is, of one
\* device.  Once the driver has had a file, it is part of one device's: of the
\* present device's from its first byte until the next attach.
FileInv ==
    /\ calib_yaml["A"] \in Calibs => calib_yaml = All(calib_yaml["A"])
    /\ calib_file_ => \E c \in Calibs : PartOf(c)
    /\ drv \in {"write", "fetched", "attached"} \/ (drv = "idle" /\ odinDevice) =>
          PartOf(source) /\ source \in Calibs
    /\ drv = "fetch" => source \in Calibs
    /\ drv = "off" => ~odinDevice

\* What the depth node has loaded.
NodeInv ==
    /\ SpinsWithOneCalibration
    /\ AgreesWithDriver
    /\ current => drv # "write"
    /\ build = "ros1" => shared
    /\ installed["A"] \in Calibs => installed = All(installed["A"])

Inv == TypeOK /\ FileInv /\ NodeInv

\* The marks for no calibration are none; the unusable ones are calibrations.
LEMMA MarksAreNoCalibration ==
    /\ \A m \in {"absent", "missing", "half", "unset", "default", "none"} : m \notin Calibs
    /\ Unusable \subseteq Calibs
  BY CalibrationsAssumption DEF Marks

\* The invariant holds before either program has started.
LEMMA InitInv == Init => Inv
<1> SUFFICES ASSUME Init
             PROVE  Inv
  OBVIOUS
<1> USE DEF Init, All, Sections
<1>1. TypeOK
  BY DEF TypeOK, Values
<1>2. FileInv
  BY MarksAreNoCalibration DEF FileInv
<1>3. NodeInv
  BY DEF NodeInv, SpinsWithOneCalibration, AgreesWithDriver
<1>q. QED
  BY <1>1, <1>2, <1>3 DEF Inv

-----------------------------------------------------------------------------
(* The driver *)

\* The steps of the driver that leave the file and the export alone.
Bookkeeping == StartDriver \/ BeginAttach \/ FetchDone \/ Connect \/ AttachFails \/ Detach \/ KillDriver

\* The steps that leave calib.yaml alone keep the types.
LEMMA BookkeepingType == Inv /\ Bookkeeping => TypeOK'
<1> SUFFICES ASSUME Inv, Bookkeeping
             PROVE  TypeOK'
  OBVIOUS
<1>1. UNCHANGED <<setup, calib_yaml, cam_in_ex, depth>> /\ current' \in BOOLEAN
  BY DEF Bookkeeping, StartDriver, BeginAttach, FetchDone, Connect, AttachFails, Detach, KillDriver,
      DriverGone, Inv, TypeOK
<1>2. /\ drv' \in {"off", "idle", "fetch", "write", "fetched", "attached"}
      /\ source' \in Calibs \cup {"none"}
  BY DEF Bookkeeping, StartDriver, BeginAttach, FetchDone, Connect, AttachFails, Detach, KillDriver,
      DriverGone, Inv, TypeOK
<1>3. looping' \in BOOLEAN /\ odinDevice' \in BOOLEAN /\ calib_file_' \in BOOLEAN
  BY DEF Bookkeeping, StartDriver, BeginAttach, FetchDone, Connect, AttachFails, Detach, KillDriver,
      DriverGone, Inv, TypeOK
<1>q. QED
  BY <1>1, <1>2, <1>3 DEF Inv, TypeOK, setup, depth

\* They keep what is known of the sections of calib.yaml.
LEMMA BookkeepingFile == Inv /\ Bookkeeping => FileInv'
<1> SUFFICES ASSUME Inv, Bookkeeping
             PROVE  FileInv'
  OBVIOUS
<1> USE DEF Inv, FileInv, PartOf, All, Sections, setup, driver, depth
<1>1. CASE StartDriver \/ Connect \/ AttachFails \/ Detach
  BY <1>1 DEF StartDriver, Connect, AttachFails, Detach
<1>2. CASE BeginAttach
  BY <1>2 DEF BeginAttach
<1>3. CASE FetchDone
  BY <1>3, MarksAreNoCalibration DEF FetchDone
<1>4. CASE KillDriver
  BY <1>4 DEF KillDriver, DriverGone
<1>q. QED
  BY <1>1, <1>2, <1>3, <1>4 DEF Bookkeeping

\* main() exports a file that is not absent, and without its half list.
LEMMA ExitKeeps == Inv /\ ExitDriver => TypeOK' /\ FileInv'
<1> SUFFICES ASSUME Inv, ExitDriver
             PROVE  TypeOK' /\ FileInv'
  OBVIOUS
<1> USE DEF ExitDriver, DriverGone, Inv, setup, depth
<1>1. Exports => Exported \in [Sections -> Calibs \cup {"none", "default"}]
  BY DEF Exports, Exported, TypeOK, FileInv, PartOf, Values, Sections
<1>2. cam_in_ex' \in [Sections -> Calibs \cup {"none", "default"}]
  BY <1>1 DEF TypeOK
<1>3. TypeOK'
  BY <1>2 DEF TypeOK
<1>4. FileInv'
  BY DEF FileInv, All, Sections
<1>q. QED
  BY <1>3, <1>4

\* Opening calib.yaml for writing leaves it without sections.
LEMMA TruncateKeeps == Inv /\ TruncateFile => TypeOK' /\ FileInv'
<1> SUFFICES ASSUME Inv, TruncateFile
             PROVE  TypeOK' /\ FileInv'
  OBVIOUS
<1> USE DEF TruncateFile, Inv, All, Sections, setup, depth
<1>1. TypeOK'
  <2>1. calib_yaml' \in [Sections -> Values] /\ drv' = "write" /\ current' = FALSE
    BY DEF Values
  <2>2. UNCHANGED <<build, shared, senddepth, installed, looping, odinDevice,
                    calib_file_, source, cam_in_ex, node, server, params, kept,
                    interrupted>>
    OBVIOUS
  <2> QED BY <2>1, <2>2 DEF TypeOK
<1>2. FileInv'
  BY MarksAreNoCalibration DEF FileInv, PartOf
<1>q. QED
  BY <1>1, <1>2

\* The SDK writes the sections one after the other, in its order.
LEMMA WriteKeeps == Inv /\ WriteFile => TypeOK' /\ FileInv'
<1> SUFFICES ASSUME Inv, WriteFile
             PROVE  TypeOK' /\ FileInv'
  OBVIOUS
<1> USE DEF WriteFile, Inv, setup, driver, depth
<1>1. PartOf(source) /\ source \in Calibs /\ calib_yaml \in [Sections -> Values] /\ drv = "write"
  BY DEF FileInv, TypeOK
<1>2. calib_yaml' \in [Sections -> Values]
  BY <1>1 DEF Sections, Values
<1>3. TypeOK'
  BY <1>2 DEF TypeOK
<1>4. PartOf(source)'
  BY <1>1, MarksAreNoCalibration DEF PartOf, Sections
<1>5. calib_yaml'["A"] \in Calibs => calib_yaml' = All(calib_yaml'["A"])
  BY <1>2, <1>4, <1>1, MarksAreNoCalibration DEF PartOf, All, Sections
<1>6. source' = source /\ drv' = drv
  OBVIOUS
<1>7. FileInv'
  BY <1>1, <1>4, <1>5, <1>6 DEF FileInv, PartOf
<1>q. QED
  BY <1>3, <1>7

\* The driver tells the depth node nothing; what it has loaded counts as that of
\* the driver until the file is emptied.
LEMMA DriverNode == Inv /\ Driver => NodeInv'
<1> SUFFICES ASSUME Inv, Driver
             PROVE  NodeInv'
  OBVIOUS
<1>1. UNCHANGED <<setup, depth>>
  BY DEF Driver, StartDriver, BeginAttach, TruncateFile, WriteFile, FetchDone, Connect, AttachFails,
      Detach, ExitDriver, KillDriver, DriverGone, driver
<1>2. \/ drv = "write" /\ ~current' /\ calib_yaml' # calib_yaml
      \/ ~current'
      \/ UNCHANGED <<calib_yaml, current>> /\ drv' # "write"
      \/ UNCHANGED <<calib_yaml, current>> /\ drv = "write"
  BY DEF Driver, StartDriver, BeginAttach, TruncateFile, WriteFile, FetchDone, Connect, AttachFails,
      Detach, ExitDriver, KillDriver, DriverGone, driver, Inv, NodeInv
<1>q. QED
  BY <1>1, <1>2 DEF Inv, NodeInv, SpinsWithOneCalibration, AgreesWithDriver, All, Sections, setup, depth

-----------------------------------------------------------------------------
(* The depth node *)

\* A file that has intrinsics and extrinsics is all of one calibration.
LEMMA AcceptedWhole ==
    Inv /\ Has(NodeFile, "A") => NodeFile = All(NodeFile["A"]) /\ NodeFile["A"] \in Calibs
  BY DEF Inv, FileInv, NodeInv, NodeFile, Has

\* If the driver has fetched a file with intrinsics it is the device's, whole.
LEMMA CurrentFile ==
    Inv /\ shared /\ drv \in {"fetched", "attached"} /\ calib_yaml["A"] # "missing" =>
        NodeFile = calib_yaml /\ calib_yaml = All(source) /\ source \in Calibs
  BY DEF Inv, FileInv, PartOf, NodeFile

\* What the node finds in the file is a value for every section.
LEMMA NodeFileTyped == Inv => NodeFile \in [Sections -> Values]
  BY DEF Inv, TypeOK, NodeFile

\* ROS 2: nothing is loaded but all of a file.
LEMMA Ros2Keeps == Inv /\ LoadRos2 => TypeOK' /\ NodeInv'
<1> SUFFICES ASSUME Inv, LoadRos2
             PROVE  TypeOK' /\ NodeInv'
  OBVIOUS
<1> USE DEF LoadRos2, setup, driver
<1>1. NodeFile = All(NodeFile["A"]) /\ NodeFile["A"] \in Calibs \ Unusable
  BY AcceptedWhole DEF Accepted, Has
<1>2. params' = NodeFile /\ params' \in [Sections -> Calibs \cup {"default"}]
  BY <1>1 DEF All
<1>3. TypeOK'
  BY <1>2 DEF Inv, TypeOK
<1>4. SpinsWithOneCalibration'
  BY <1>1, <1>2 DEF SpinsWithOneCalibration, All
<1>5. AgreesWithDriver'
  BY <1>1, <1>2 DEF AgreesWithDriver, NodeFile, All
<1>6. NodeInv'
  BY <1>4, <1>5 DEF Inv, NodeInv, All
<1>q. QED
  BY <1>3, <1>6

\* ROS 1: of a server that adds nothing to the file, what is accepted is all of the
\* file; a file with intrinsics replaces whatever was there.
LEMMA Ros1Keeps == Inv /\ LoadRos1 => TypeOK' /\ NodeInv'
<1> SUFFICES ASSUME Inv, LoadRos1
             PROVE  TypeOK' /\ NodeInv'
  OBVIOUS
<1>a. UNCHANGED <<setup, calib_yaml, driver, cam_in_ex, interrupted>>
  BY DEF LoadRos1
<1>b. /\ server' = Loaded /\ current' = (drv \in {"fetched", "attached"})
      /\ kept' = \E s \in Sections : ~Has(NodeFile, s) /\ server[s] # "unset"
  BY DEF LoadRos1
<1>c. \/ /\ Accepted(server') /\ node' = "spin"
         /\ params' = [s \in Sections |-> IF Has(server', s) THEN server'[s] ELSE "default"]
      \/ node' = "off" /\ params' = params
  BY DEF LoadRos1
<1>d. shared
  BY DEF LoadRos1, Inv, NodeInv
<1>1. server' \in [Sections -> Calibs \cup {"unset"}]
  BY <1>b DEF Loaded, Has, Inv, TypeOK
<1>2. params' \in [Sections -> Calibs \cup {"default"}]
  BY <1>c DEF Has, Inv, TypeOK
<1>3. TypeOK'
  BY <1>1, <1>2, <1>a, <1>b, <1>c DEF Inv, TypeOK, setup, driver
<1>4. SpinsWithOneCalibration'
  <2> SUFFICES ASSUME node' = "spin", ~kept'
               PROVE  \E c \in Calibs \ Unusable : params' = All(c)
    BY DEF SpinsWithOneCalibration, All
  <2>1. \A s \in Sections : Has(NodeFile, s) \/ server[s] = "unset"
    BY <1>b
  <2>2. Has(NodeFile, "A") /\ server'["A"] = NodeFile["A"] /\ NodeFile["A"] \notin Unusable
    BY <2>1, <1>b, <1>c, MarksAreNoCalibration DEF Loaded, Accepted, Has, Sections
  <2>3. NodeFile = All(NodeFile["A"]) /\ NodeFile["A"] \in Calibs
    BY <2>2, AcceptedWhole
  <2>4. server' = All(NodeFile["A"])
    BY <2>3, <1>b DEF Loaded, Has, All
  <2>5. params' = All(NodeFile["A"])
    BY <2>3, <2>4, <1>c DEF Has, All
  <2>q. QED
    BY <2>2, <2>3, <2>5
<1>5. AgreesWithDriver'
  <2> SUFFICES ASSUME node' = "spin", current', build' = "ros2" \/ calib_yaml'["A"] # "missing"
               PROVE  params' = calib_yaml' /\ \E c \in Calibs : params' = All(c)
    BY DEF AgreesWithDriver, All
  <2>0. calib_yaml["A"] # "missing"
    BY <1>a DEF LoadRos1, setup
  <2>1. NodeFile = calib_yaml /\ calib_yaml = All(source) /\ source \in Calibs
    BY <1>b, <1>d, <2>0, CurrentFile
  <2>2. server' = All(source)
    BY <2>1, <1>b DEF Loaded, Has, All
  <2>3. params' = All(source)
    BY <2>1, <2>2, <1>c DEF Has, All
  <2>q. QED
    BY <2>1, <2>3, <1>a
<1>6. NodeInv'
  BY <1>4, <1>5, <1>a, <1>b DEF Inv, NodeInv, All, setup, driver
<1>q. QED
  BY <1>3, <1>6

\* The other steps of the node load nothing.
LEMMA OthersKeep ==
    Inv /\ (StartNode \/ FileFound \/ LoadFails \/ StopNode \/ UNCHANGED vars) => TypeOK' /\ NodeInv'
<1> SUFFICES ASSUME Inv, StartNode \/ FileFound \/ LoadFails \/ StopNode \/ UNCHANGED vars
             PROVE  TypeOK' /\ NodeInv'
  OBVIOUS
<1>1. UNCHANGED <<setup, calib_yaml, driver, cam_in_ex, params, kept>>
  BY DEF StartNode, FileFound, LoadFails, StopNode, vars, setup, driver, depth
<1>2. (node' # "spin" \/ node' = node) /\ (current' = current \/ ~current')
        /\ interrupted' \in BOOLEAN /\ node' \in {"off", "wait", "load", "spin"}
  BY DEF StartNode, FileFound, LoadFails, StopNode, vars, setup, driver, depth, Inv, TypeOK
<1>3. server' \in [Sections -> Calibs \cup {"unset"}]
  BY DEF StartNode, FileFound, LoadFails, StopNode, vars, depth, Inv, TypeOK, All
<1>4. TypeOK'
  <2>1. (build \in {"ros1", "ros2"} /\ shared \in BOOLEAN
          /\ senddepth \in {"on", "off", "missing", "bad"} /\ installed \in [Sections -> Values])'
    BY <1>1 DEF Inv, TypeOK, setup
  <2>2. (drv \in {"off", "idle", "fetch", "write", "fetched", "attached"} /\ looping \in BOOLEAN
          /\ odinDevice \in BOOLEAN /\ calib_file_ \in BOOLEAN /\ source \in Calibs \cup {"none"})'
    BY <1>1 DEF Inv, TypeOK, driver
  <2>3. (calib_yaml \in [Sections -> Values])'
    BY <1>1 DEF Inv, TypeOK
  <2>4. (cam_in_ex \in [Sections -> Calibs \cup {"none", "default"}]
          /\ params \in [Sections -> Calibs \cup {"default"}] /\ kept \in BOOLEAN)'
    BY <1>1 DEF Inv, TypeOK
  <2>5. current' \in BOOLEAN
    <3>1. current' = current \/ current' = FALSE
      BY DEF StartNode, FileFound, LoadFails, StopNode, vars, depth
    <3>q. QED
      BY <3>1 DEF Inv, TypeOK
  <2>q. QED
    BY <1>2, <1>3, <2>1, <2>2, <2>3, <2>4, <2>5 DEF TypeOK
<1>5. NodeInv'
  BY <1>1, <1>2 DEF Inv, NodeInv, SpinsWithOneCalibration, AgreesWithDriver, All, Sections, setup, driver
<1>q. QED
  BY <1>4, <1>5

-----------------------------------------------------------------------------

\* Every step of the driver, the SDK and the node keeps the invariant.
LEMMA Inductive == Inv /\ [Next]_vars => Inv'
<1> SUFFICES ASSUME Inv, [Next]_vars
             PROVE  Inv'
  OBVIOUS
<1>1. CASE Driver
  <2>1. TypeOK' /\ FileInv'
    BY <1>1, BookkeepingType, BookkeepingFile, ExitKeeps, TruncateKeeps, WriteKeeps DEF Driver, Bookkeeping
  <2>q. QED
    BY <1>1, <2>1, DriverNode DEF Inv
<1>2. CASE LoadRos2 \/ LoadRos1 \/ StartNode \/ FileFound \/ LoadFails \/ StopNode \/ UNCHANGED vars
  <2>1. TypeOK' /\ NodeInv'
    BY <1>2, Ros2Keeps, Ros1Keeps, OthersKeep
  <2>2. UNCHANGED <<calib_yaml, driver>>
    BY <1>2 DEF LoadRos2, LoadRos1, StartNode, FileFound, LoadFails, StopNode, vars
  <2>3. FileInv'
    BY <2>2 DEF Inv, FileInv, PartOf, All, driver
  <2>q. QED
    BY <2>1, <2>3 DEF Inv
<1>q. QED
  BY <1>1, <1>2 DEF Next, NodeStep, Nothing

\* The inductive invariant holds in every behaviour.
THEOREM InvAlways == SafeSpec => []Inv
  BY InitInv, Inductive, PTL DEF SafeSpec

\* Type correctness of the file, the driver and the depth node.
THEOREM TypeCorrect == SafeSpec => []TypeOK
  BY InvAlways, PTL DEF Inv

\* Whenever the depth node looks at the file and whatever failed before, it
\* never starts with a mixture or with defaults, unless the server added to it.
THEOREM OneCalibration == SafeSpec => []SpinsWithOneCalibration
  BY InvAlways, PTL DEF Inv, NodeInv

\* What it read while the driver had it fetched is what the driver has: in ROS 2
\* always, in ROS 1 over any parameter server if the file has intrinsics.
THEOREM FollowsTheDriver == SafeSpec => []AgreesWithDriver
  BY InvAlways, PTL DEF Inv, NodeInv

\* What main() exports is of one device, the last whose file was begun.
LEMMA ExportStep ==
    Inv /\ ExitDriver =>
        \/ cam_in_ex' = cam_in_ex
        \/ \E c \in Calibs :
              /\ \A s \in Sections : cam_in_ex'[s] \in {c, "default"}
              /\ cam_in_ex'["A"] = c => cam_in_ex' = All(c)
              /\ drv # "fetch" => c = source
<1> SUFFICES ASSUME Inv, ExitDriver, Exports
             PROVE  \E c \in Calibs :
                      /\ \A s \in Sections : cam_in_ex'[s] \in {c, "default"}
                      /\ cam_in_ex'["A"] = c => cam_in_ex' = All(c)
                      /\ drv # "fetch" => c = source
  BY DEF ExitDriver
<1>1. drv \in {"idle", "fetch", "write", "fetched", "attached"} /\ odinDevice /\ calib_file_
        /\ calib_yaml["Tcl"] # "half"
  BY DEF ExitDriver, Exports, Inv, TypeOK
<1>2. PICK c \in Calibs : PartOf(c) /\ (drv # "fetch" => c = source)
  BY <1>1 DEF Inv, FileInv
<1>3. cam_in_ex' = Exported
  BY DEF ExitDriver
<1>4. \A s \in Sections : cam_in_ex'[s] \in {c, "default"}
  BY <1>1, <1>2, <1>3 DEF Exported, PartOf, Sections
<1>5. cam_in_ex'["A"] = c => cam_in_ex' = All(c)
  <2> SUFFICES ASSUME cam_in_ex'["A"] = c
               PROVE  cam_in_ex' = All(c)
    OBVIOUS
  <2>1. calib_yaml["A"] = c /\ calib_yaml["k"] = c /\ calib_yaml["Tcl"] = c
    BY <1>2, <1>3, MarksAreNoCalibration DEF Exported, PartOf, Sections
  <2>q. QED
    BY <2>1, <1>3, MarksAreNoCalibration DEF Exported, All, Sections
<1>q. QED
  BY <1>2, <1>4, <1>5

\* Whenever main() ends, also in the middle of an attach, what it exports is of
\* one device.
THEOREM ExportIsOfOneDevice == SafeSpec => ExportsOneCalibration
<1>1. Inv /\ [Next]_vars =>
        [ ExitDriver =>
            \/ cam_in_ex' = cam_in_ex
            \/ \E c \in Calibs :
                  /\ \A s \in Sections : cam_in_ex'[s] \in {c, "default"}
                  /\ cam_in_ex'["A"] = c => cam_in_ex' = All(c)
                  /\ drv # "fetch" => c = source ]_vars
  BY ExportStep
<1>q. QED
  BY <1>1, InvAlways, PTL DEF SafeSpec, ExportsOneCalibration
=============================================================================
