# odin_ros_driver: TLA+ models and proofs

The repository is the ROS 1 / ROS 2 driver of the Odin1 sensor. A closed SDK
(`liblydHostApi`) talks to the device over USB and calls back into the driver,
which publishes ROS topics, records frames in binary files and renders camera
images onto point clouds. A second program makes dense depth images from the
published topics. This directory models the driver's own concurrent logic in
TLA+, checks it with TLC on small instances, and proves the main safety
properties with TLAPS for every value of the constants.

## 1. Inventory

| Part | State | Operations | Who runs it |
|---|---|---|---|
| Device lifecycle, `src/host_sdk_sample.cpp` | `odinDevice`, `deviceConnected`, `deviceDisconnected`, `g_connection_timeout`, `g_renderer`, `g_ros_object` | `lidar_device_callback` (attach, detach), `lidar_data_callback`, `main` | SDK event thread, SDK data thread(s), main thread |
| Publisher, `include/host_sdk_sample.h` | `rgb_image_queue_`, `pcd_queue_`, frame indices, `data_logger_` | `publishImu`, `publishRgb`, `publishIntensityCloud`, `publishPC2XYZRGBA`, `publishOdometry`, `try_process_pair`, `process_pair` | SDK data thread(s); `try_process_pair` in the main thread |
| Recording, `include/data_logger.h` | per writer: `pending`, `write_queue`, `stop`, the file | `enqueue`, `shutdown`, `run`, `~Writer` | SDK data thread(s), one worker per writer, the owner |
| Renderer, `src/rawCloudRender.cpp` | camera parameters, a static distortion table | `init`, `render` | event thread, main thread |
| Depth node, `src/pcd2depth_ros*.cpp`, `src/depth_image_ros*_node.cpp` | calibration, ROS 1 parameter server | wait for `calib.yaml`, load it, `syncCallback` | a process of its own |
| Depth converter, `src/pointcloud_depth_converter.cpp` | remap tables; depth image of one frame | `processCloudAndImage` and its helpers | the depth node |
| Calibration export, `convert_calib_to_cam_in_ex` | `cam_in_ex.txt` | read `calib.yaml`, write intrinsics and extrinsics | main thread, after an interrupt |
| `YamlParser`, `src/yaml_parser.cpp` | `register_keys` | `loadConfig` | main thread, once |
| `CommandLineControl`, `validate_render_parameters` | - | - | never instantiated or called |
| `src/slam_mapper_node.cpp` | - | - | the file is empty |
| SDK (`lib/*.a`, `include/lidar_api*.h`) | handles | create, open, configure, start, close, destroy | closed, external |

How the parts interact: the SDK's event thread attaches a device and sets the
two flags; the data thread looks at `deviceConnected` and calls the publisher;
the publisher pushes into the two queues and into the recording; the main loop
looks at `deviceDisconnected` and calls `try_process_pair()`, which takes from
the queues and renders with the camera parameters that the event thread wrote
into globals when the device was attached. The end of `main()`
(or `exit(1)` in the event thread) destroys the globals that all of them use.
The depth node meets the driver in two places only, the ROS topics and the file
`calib.yaml`.

What is hard, and what would make it correct:

- *Recording.* Frames must get to the file in order and at most once, whatever
  the interleaving of producers, worker and shutdown; a shutdown must return and
  leave what was enqueued before it in the file; no wakeup may be lost.
- *Pairing.* `try_process_pair()` decides with copies after releasing the locks.
  It must not pop an empty deque, not render out of order, and not discard what
  could have been rendered.
- *Lifecycle.* Nine SDK calls, each of which can fail, and replugs in between:
  every path must leave the handles, `odinDevice` and the flags consistent. A
  connected device must be served, an interrupt must end the program.
- *Publisher.* Handlers overlap and may throw between their steps: the numbers
  of a recording must not have gaps, and what is recorded must be what is
  published.
- *Sessions.* A replug does not clear the queues, and a callback may push after
  the detach: messages of two sessions must not be rendered together or in
  another order than they came.
- *Renderer, depth node, export.* `calib.yaml` is written during each attach and
  read by three parties that do not wait for the writer: a calibration may be
  replaced while it is used, be half of one, or that of an earlier run.
- *Depth image.* The result depends on the order of the points, and stages with
  different grids (the small image, its enlargement, the sampling) must fit.

`PROJECT.json` lists each hazard at its line, with the properties that cover it.

## 2. Modules

| Module | Models | Extends | Proofs |
|---|---|---|---|
| `LogFile` | what a recording file promises (abstract) | | |
| `LogWriter` | `BinaryDataLogger::Writer` | | `LogWriterProofs` |
| `PairQueue` | the two queues, `try_process_pair()` | | `PairQueueProofs` |
| `DeviceSessions` | what an attach and a detach are to the rest of the driver (abstract) | | |
| `PairSessions` | the same queues over replugs | `PairQueue` | `PairSessionsProofs` |
| `Publisher`, `MCPublisher` | the handlers of the data callbacks | | `PublisherProofs` |
| `DeviceLifecycle` | attach, detach, the data gate, `main` | | `DeviceLifecycleProofs` |
| `RenderCalibration` | the renderer's parameters over replugs | `DeviceLifecycle` | `RenderCalibrationProofs` |
| `DepthNode` | `calib.yaml` between driver, export and depth node | | `DepthNodeProofs` |
| `DepthImage`, `MCDepthImage` | a frame's points, from the device to the coloured cloud | | `DepthImageProofs` |

A definition whose comment starts with "Variant" is a likely mistake in the
definition after it. It is not part of the model: putting it in the place of that
definition must violate a property, which shows that the property depends on
the code.

### LogWriter, LogFile (recording)

`LogWriter.tla` is `BinaryDataLogger::Writer`. Variables carry the source's
names (`pending`, `write_queue`, `stop`, `batch`, `out`); `worker`, `producer`
and `owner` say where the three kinds of threads are; `flushed` is the part of
`out` known to be in the file. Each section under `mtx` is one action, each
`notify_one()`, which the code calls after releasing the lock, another:
`Enqueue` and `ProducerNotify`, `ShutdownBegin`, `OwnerNotify` and `Join`, and
for `run()` `OpenFile`/`OpenFails`, `Sleep`, `SpuriousWakeup`, `TakeBatch`,
`WriteFrame`/`WriteFails`, `Flush`/`FlushFails`, `Finish`. A frame is its number
in the order of acceptance; blobs are never empty (each has a header). The
stream has the one property of `std::ofstream` that matters: once `badbit` is
set it stays set, so later writes do nothing.

`LogFile.tla` is the abstract specification: an append-only file that always
holds a prefix of what was accepted and, once shut down, everything accepted
before the shutdown unless the medium broke. `LogWriter` implements it under the
mapping of `Log == INSTANCE LogFile WITH ...`: the disk is the flushed prefix,
the phase comes from `owner`, the medium is broken when the stream is bad or the
file could not be opened.

### PairQueue (pairing)

`PairQueue.tla` has the two bounded queues and `try_process_pair()`, cut at its
locked sections: `Look` copies both fronts, `DropOlder` and `TakePair` pop after
the locks were released and taken again, `ProcessPair` uses the copies.
`PublishRgb` and `PublishCloud` push at any moment and make room at the front of
a full queue. A message is its time stamp; stamps of one stream increase, the
streams are otherwise unrelated. `rgb_seen`, `pcd_seen`, `rendered` and `evicted`
are history. The data session is one plug of the device.

### PairSessions, DeviceSessions (pairing over replugs)

`DeviceSessions.tla` is the abstract specification of `lidar_device_callback` for
those who only know its flags: a session begins when a device streams, is
announced (`SetConnected`, `ResetDisconnected`) and ends with a detach
(`BeginDetach`, `EndDetach`), which is the two flags in the order of the code. An
attach that fails is no step of it, but a detach may follow one. `DeviceLifecycle`
implements it, `PairSessions` uses it.

`PairSessions.tla` extends PairQueue and keeps all its steps of
`try_process_pair()`; with each message goes, as history, the session it came
from. The event thread takes the steps of DeviceSessions; `clear_all_queues()` is part of `EndDetach` and leaves the queues as
they are, which is what the code does: it resets three variables that nobody
reads. A data callback is cut at `Deliver`, `Gate` and the push, so it can pass
the gate before a detach and push after it. The clock of the device goes on over
a replug, or starts again; the driver does not know which and both are modelled.
The main loop begins no call while `deviceDisconnected` is set but finishes the
one it is in.

### Publisher

`Publisher.tla` is what the handlers do with one datum, reduced to the steps that
others can see: a push into a queue, the encoder (which may throw), the number
taken from `image_index_`, `cloud_index_` or `pose_index_`, the frame enqueued, a
topic. `publishRgb_nv12`, `publishIntensityCloud` and so on are those steps in
the order of the code, one list per form of the data, the early returns being
shorter lists. `pos` is where a handler is; `Skip` passes what
`g_sendcloudrender` or a missing logger leave out. Each step is an action, so
handlers in several of the SDK's threads interleave freely. Whether the SDK
overlaps the callbacks of one stream is not known, so `serialStreams` is chosen
at the start. `EncodeThrows` is an exception that `publishRgb()` catches, `Escapes`
one of `imdecode()` or `toImageMsg()` in the branch for JPEG images, which has no
`try`: it leaves the callback and ends the process. `thrown` is history: the data whose
compression threw. `recorded`, `published` and `pushed` only grow: what becomes
of a frame is LogWriter's business, of a message in a queue PairQueue's.
`MCPublisher.tla` adds the symmetry of the threads.

### DeviceLifecycle

`DeviceLifecycle.tla` is `lidar_device_callback`, `lidar_data_callback` and
`main` with the status of every SDK handle. Each SDK call is a step that succeeds
or fails; the error paths are `close`, `destroy` as in the code, and the timeout
path is `closeLate`, `destroyLate`. `deviceConnected = true` and
`deviceDisconnected = false` are two steps, as are the two assignments of a
detach. `CallbackThrows` is an exception that leaves the callback
(`isUsb3OrHigher`, `get_package_share_directory` after the device was opened, the
renderer's init), which ends the process. `StartFails` ends in "failed", where the
SDK was never initialised and no device callback comes. `Interrupt`
makes `rclcpp::ok()` false; only the main loop looks at it: main waits for the first
device whether or not it was interrupted, which no document forbids and
`ShutdownEnds` leaves out. `process` goes
from "up" through "exiting", when the globals are destroyed and the other threads
still run, to "gone". `sendcloudrender` is taken as 1, its default. The USB
check in main's waiting loop is not modelled: `isUsbDevicePresent` opens a
directory as a file and always returns false, so the branch is dead.

Assumed of the SDK, which is closed: one event at a time, attach and detach in
turn, data for a streaming handle while the sensor is plugged.

`Stage` maps the state to DeviceSessions: the steps up to the stream do not show,
`connect` is "start", and between events `deviceConnected` tells "attached" from
"detached".

### RenderCalibration

`RenderCalibration.tla` extends DeviceLifecycle with the camera parameters: the
globals of `GlobalCameraParams`, written by `rawCloudRender::init()` in the event
thread during an attach, and their reading by `rawCloudRender::render()`, called
from `process_pair()` in the main thread. Its step `Lifecycle` is any step of
DeviceLifecycle, with two more guards: the attach waits for `init()`, the main
loop for `render()`. The parameters are in three groups that are written and read
one by one, in any order, since nothing synchronises the two threads. `Fetch`
may bring a file that `init()` refuses (no `cam_0`); the attach then goes on with
the globals as they were, and `accepted`, as history, stays the calibration of the
last file that was not refused. What the static `dist_table` was filled with is
kept. (`process_pair()` uses the member
`render_`, the event thread makes a new `g_renderer`: the two objects share the
globals and nothing else.)

### DepthNode (calib.yaml)

`DepthNode.tla` has three programs round one file. The driver truncates
`calib.yaml` at each attach and writes it section by section (`TruncateFile`,
`WriteFile`); the fetch may end, as a success (`FetchDone`) or a failure, with
whatever is in the file by then. The driver does not look: with a file without
`cam_0`, which `rawCloudRender::init()` refuses, the attach goes on, and only a
`cam_0` without `A11` stops it, by an exception (`InitThrows`). The driver may fail
or be killed between any two steps, and after an interrupt exports the file (`ExitDriver` is the end of `main()` with
`convert_calib_to_cam_in_ex()`). The depth node waits until the file exists,
whatever is in it, and loads it once: `LoadRos2` with the node's own parameters,
of which it needs all, `LoadRos1` with `rosparam load` over whatever the server
knows from before. `loadCameraParams()` refuses some calibrations (`Unusable`).
`senddepth` may be missing or no number, which each build takes differently.
`shared` is a choice at the start, because in ROS 2 the driver's directory and
the `calib_file_path` of the node need not be the same. The SDK, which writes the
file, is taken to write whole lines.

### DepthImage (points to depth image)

`DepthImage.tla` follows one frame after another: `ConvertPoint` is the loop of
`publishIntensityCloud()` with its filter, its compaction and the conversion of
intensities, `ProjectPoint` the loop of `projectCloudToDepth()`, and
`GenerateColoredCloud` the enlargement (`customResize`), the Sobel edges and the
sampling. A point is the pixel it falls on and its depth in tenths of a metre, so
the arithmetic after the projection is exact in integers; the rounding of
floating-point numbers, the distortion tables and the colours are left out. Where
the extrinsics put the point at zero is chosen among `Origins`: with the
calibration the repository ships (`t_z = -0.01396`) it is behind the camera, and
`ZerosLeaveNoTrace` is about such extrinsics. `MCDepthImage.tla` gives the points.

## 3. Runs

| Run | Question | Bounds |
|---|---|---|
| `log` | order, durability, wakeups, loss at an exit; `LogWriter` implements `LogFile`; full batches reach the file | 2 producers, batches of 2, 5 frames |
| `pair` | pops, order, discards; as many pairs as any matching; calls return | capacity 2, tolerance 1, stamps to 5 |
| `sessions` | what of a session is seen in the next | capacity 2, tolerance 1, stamps to 3, 2 sessions (11 million states) |
| `publisher` | numbers, recordings and topics with any overlap; order when the SDK serialises each stream | 2 threads, 3 data of 10 forms, logger and renderer on or off |
| `render` | protocol, release, flags, service and shutdown; which calibration is drawn with | 2 handles, 2 calibrations |
| `depth` | with which calibration the depth node and the export work; that the node starts | 2 calibrations, 1 of them unusable |
| `image` | compaction, intensities, depths, sampling | 3 points on an image of 22 x 15, scale 7, rate 5 |
| `pair_evicted` (violation) | is the removed message the older one | capacity 2, stamps to 4 |
| `sessions_mixed` (violation) | are the queues cleared by a detach | 2 sessions, stamps to 2 |
| `device_timeout`, `device_exit` (violations) | timeout, exit | 2 handles |
| `render_replug` (violation) | does a replug repair a refused calibration | 2 handles, 1 calibration |

The run `render` checks the properties of DeviceLifecycle as well as its own:
RenderCalibration only adds to that module, which is proved.

Why the bounds are enough to be interesting. Two producers and five frames fill
two batches and leave a leftover, so that swaps, pops and the shutdown meet in
every order. Two threads and three data let a handler overlap two others of its
stream, or of another, and throw between them. Two handles and two calibrations
let an attach replace the calibration under a call that has not returned; that
only two are needed for the safety properties is shown by the proofs, which are
for any number. A capacity of two with five stamps lets a queue overflow twice
between two locked sections. Two sessions and three stamps fill a queue of
capacity two with messages of the first and push them out by those of the second,
with a late message between. An image of 22 x 15 enlarges cells of a 3 x 2 image to
blocks of seven or eight pixels, the sizes the real image has too (1600 x 1296 by 7), of
which the Sobel filter takes the two pixels at each edge and the rate of five has
to hit the rest; three points can be
on one pixel, next to it and across an edge. `depth` has no bound but the number of
calibrations: attaches, failures, kills and restarts are unlimited.

Deep points the passing runs show:

- `NoLostWakeup`, `IdleLoss`: notifying after the unlock is safe, and an exit
  without the destructor loses fewer than `batch_size` frames of an idle writer.
- `NoGap`: a failed write never leaves a gap, although `run()` does not look at
  the stream, because `badbit` sticks.
- `NeverPopsEmpty`: popping without looking again is safe, because whoever else
  removes a front also adds a message.
- `RendersAllItCan`: comparing the two fronts only is as good as the best
  matching of all messages, as long as no queue overflows.
- `MixesOnlyAfterRestart`, `RendersInSessionOrder`, `StaleGoneAfterCap`,
  `LateAtMostOne`: the queues are not cleared, and yet two sessions are never
  paired unless the clock started again; sessions are never rendered out of
  order; what is stale is gone after as many pushes as the queue holds; and the
  gate lets one message of each stream through after a detach, no more.
- `CallsFitTheHandle`, `FailedAttachReleased`: all error paths of an attach undo
  what was done.
- `FlagsAgree`, `ConnectedIsServed`: the two flags stay each other's negation
  over replugs, and the device is served again.
- `IndicesAccountedFor`, `RecordedIffPublished`, `PublishedWhenReturned`: no
  exception and no overlap leaves a gap in a recording's numbers, and no handler
  that returned leaves a frame that was not published, or a datum that was not,
  except a compressed image whose compression threw.
- `OvertakenOnlyByOverlap`, `StreamsInOrder`: a number is taken before the frame
  is enqueued, so overlapping handlers of one stream can swap; if the SDK
  serialises a stream nothing swaps, and PairQueue's assumption that the stamps
  in a queue increase holds.
- `RacesOnlyWithOldCall`, `CurrentCallReadsOneCalibration`: `deviceDisconnected`
  protects the unlocked camera parameters from every call but one that began
  before the detach. Any other draws with the calibration of the last file that
  `init()` accepted, complete, also when files were refused since; that one can mix
  two.
- `SpinsWithOneCalibration`, `AgreesWithDriver`: a depth node that reads the file
  while it is written, or that of a device without `cam_0`, ends rather than start
  with a part of it, and one that read what the driver fetched works with the
  calibration of the device. The first holds in ROS 1 if the server adds
  nothing to the file, the second if the file has intrinsics (see
  below). Both hold only because the distortion, which alone has a
  default, does not come last in the file.
- `ExportsOneCalibration`: main may export while an attach writes the file, or after
  a fetch that failed or left `cam_0` out, and the export may have defaults for what
  the file lacks; but it is never of two devices, it never has intrinsics without
  extrinsics, and it is of the last device once its file was begun.
- `DepthIsReference`: the depth of a pixel is that of the last point on it, else
  of the first next to it, and not of the nearest.
- `EveryPixelInCloud`: the grids fit: every cell of the depth image with a depth in
  range keeps a sample after edges are removed.

### Fairness

`Publisher`, `PairSessions` and `DepthImage` have safety properties only.
`LogWriter`: a thread that can run does: the worker, a producer or the owner
between its unlock and its `notify_one()`, and the join. Nobody has to enqueue,
shut down or wake spuriously. `PairQueue`: the main loop keeps running.
`DeviceLifecycle` and `RenderCalibration`: the event thread, the data thread and
main run, SDK calls return; nobody has to plug, unplug, interrupt or send data.
`DepthNode`: the node's own steps (its loop looks for the file twice a second);
nobody has to start, stop, plug or fail.

All of these are weak, as each thread is scheduled by the operating system and
has no rival that could disable its step for ever, with one exception:
RenderCalibration takes the end of a call of `try_process_pair()` as strongly
fair, because there a call may render any number of clouds. That it ends is
`CallReturns` of PairQueue: every turn of its loop removes a message, so it returns
when messages stop coming, or come slower than they are paired.

### Findings

1. `pair_evicted`: "Remove older timestamped message" (`host_sdk_sample.h:292`)
   removes the newer one when a full queue lost its front between the two locked
   sections.
2. `sessions_mixed`: "Clear all queues" (`host_sdk_sample.cpp:335`), of the
   function a detach calls, clears neither queue; after a clock that started again an image is
   rendered onto a cloud of another session.
3. `device_timeout`: "timed out after 60 seconds. Exiting program."
   (`host_sdk_sample.cpp:475`): nothing reads `g_connection_timeout`, and main
   waits for ever.
4. `device_exit`: with the clean-up commented out, main returns while a data
   callback may be in the publisher (`host_sdk_sample.cpp:825`, against
   `lidar_api.h:46`).
5. `render_replug`: for a calibration file without a camera node the README of
   the driver (5.6) says to replug. A replug does bring new parameters, but
   `render()` filled its static distortion table the first time it ran
   (`rawCloudRender.cpp:140`), from zeros, and keeps it.
Four more facts the models contain, for which no run is kept and of which
`PROJECT.json` says at the hazard why no property covers them. Frames for a file that
could not be opened stay in memory, though `data_logger.h:133` says they are dropped:
after `OpenFails` nothing bounds `pending` and `write_queue`. Frames enqueued after
`shutdown()` took the leftovers may never be written, though `data_logger.h:72` says all are
flushed on destruction. The handle of a detached device is forgotten by the next
attach without being closed (`host_sdk_sample.cpp:421`, against `lidar_api.h:66`). A
ROS 1 node that loads a file without `cam_0` onto a server that an earlier run
filled works with the extrinsics of one device and the intrinsics of another, after
the log said "Successfully loaded parameters" (`pcd2depth_ros.cpp:50`): the case that
`AgreesWithDriver` leaves out, and the only one.

## 4. Proofs

Each of the eight proof modules proves an inductive invariant for every value of
the constants, then the named properties from it. They assume the named
assumptions on the constants only: `BatchSize`, `Cap`, `scale` and the like are
positive, bounds and tolerances are natural numbers, a calibration is none of
the marks that stand for no calibration, points have 16-bit values. The bounds
stand for any number, so a proof covers every length of run.

- *LogWriter.* The properties are not inductive alone: that the file has no gap
  depends on where the next frame comes from. `Inv` says that file, batch, queue
  and `pending` are one line of consecutive frames, that the stages of worker and
  owner fit, and that nothing sealed is pending. It is stated with first frames
  and lengths, batch by batch. `NothingIsLost` puts the batches together: the
  library's `FlattenSeq` is a function defined by recursion, so `FlattenChain` needs
  an induction over the batches. The induction theorems take an operator, which
  the provers cannot instantiate; `Places` does it for a set of places
  instead, whose complement has no smallest element (`SmallestNumber`, from the
  well-foundedness of `<`). `ImplementsLogFile` proves that every step maps to a
  step of `LogFile` or a stutter.
- *PairQueue.* `Inv` adds to the properties that the queues are sorted and that
  what was copied or rendered is older than what they still hold. `RenderedAll`
  (as many pairs as any matching) is an exchange argument. `GreedyInv` says: while
  nothing overflowed, any matching of all messages, past and to come, can be
  narrowed to one of the messages that are left and to come, and loses no more
  pairs than were decided so far. A removed older front can be in no pair
  (`EnoughWithoutLonely`); a taken pair of fronts costs a matching one pair, since
  two partners of the two oldest messages can be swapped (`Exchange`,
  `EnoughAfterPair`); a new message was among those to come
  (`EnoughAfterArrival`). When a queue is empty nothing is left to match.
- *PairSessions.* With a clock that may start again the stamps of a queue are no
  longer sorted, so PairQueue's invariant does not carry over. `SessionsInv` sorts
  queues, copies and pairs by session first and stamp second, keeps the sessions
  farther apart than the tolerance while the clock goes on (`GapInv`), and counts
  what of the present session is in a queue. If the clock goes on for good, PairQueue
  does carry over: `ImplementsPairing` shows that every step is then one of PairQueue
  or a stutter, by the invariant `SeenBefore` (what a callback brings is newer than
  all its stream has pushed, also over a replug). With `RenderedAll` and
  `DiscardsAreSafe` it follows that replugs cost no pair (`ReplugsCostNoPair`,
  `ReplugsDiscardSafely`).
- *DeviceLifecycle.* `Inv` ties each step of the event thread to the status of
  `odinDevice`, says that any other live handle still streams, and how the flags
  follow the steps. `ImplementsDeviceSessions` maps every step to one of
  DeviceSessions or a stutter; `UsesDeviceSessions` of PairSessionsProofs is the other
  half: the pairing is told nothing else of the device. A
  detach after a failed attach, which sets `deviceDisconnected` too, is among its
  steps.
- *RenderCalibration.* `ImplementsDeviceLifecycle` shows that the module only
  adds to DeviceLifecycle, which gives its `Inv`. `Sync` then says that a call
  that is not outdated has a connected device (or a detach under way), that what
  `init()` has written is the calibration it accepted last, and what `render()` has
  read of it.
  `NextMoves` extracts from the steps of DeviceLifecycle the few facts this needs.
- *Publisher.* `Shape` states what all handlers have in common, and is proved for
  each of them: no step comes twice, a frame is recorded right after its number
  is taken and on a topic after that, and nothing but the compressed image
  and its record comes after the encoder. `HandleDoes` reduces every action to one
  relation `Does(t, s)`. `PubInv` then has four parts: the numbers
  handed out are in the log or with one thread each (`IndexInv`); what a handler
  saw when it began has lower numbers (`OvertakeInv`); of every datum exactly
  what its handler did before the step it came to is out (`Progress`); and with one
  datum of a stream at a time everything is in the order of delivery (`SerialInv`).
- *DepthNode.* The invariant says in which order the sections of the file can be
  missing (`PartOf`: what is there is of one device, and the intrinsics are there
  only with all the rest), and what `source`, `odinDevice` and `calib_file_` say of
  it. Nothing is assumed of what a successful fetch leaves.
- *DepthImage.* The invariant describes each pixel by the points projected so
  far, and the message by the points converted so far; `IntensityMonotone` is about
  the integer conversion alone. `Compacted` and `NeverDarker` rest on `RankInv`: a
  point stands in the message at the number of confident points up to it, which
  grows by one with each of them (`RankAfterPoint`); `NeverDarker` adds
  `IntensityMonotone`. `PixelsInCloud` is arithmetic: the block of a cell has at least
  `scale` pixels to a side (`Block`), a multiple of `point_sampling_rate` is
  among those that are not its first or last (`SampleInside`), and no edge is there
  (`NoEdgeInside`). It has the hypothesis `scale >= point_sampling_rate + 2`, which
  the defaults of the code, 7 and 5, meet with nothing to spare.

The type invariants and inductive invariants are not repeated in the runs: they
are proved.

Every invariant of every passing run is proved, and so are the action properties.
Only model-checked is liveness, that is `RefinesLogFile` in its fair form (its safety
part is `ImplementsLogFile`), `BatchReachesFile`, `CallReturns`, `ConnectedIsServed`,
`ShutdownEnds` and `DepthStarts`: it rests on fairness, and ENABLED is out of the
prover's reach. The counterexamples of the five runs that expect a
violation are TLC's as well.

## 5. Plan

Done: all modules of section 2 with their proofs. What would come next:

1. What CalibSpec's strongly fair end of a call assumes, as a theorem about
   PairQueue: a bound on the turns of one call between two messages.
2. The configuration: the defaults `main` takes for missing keys, as choices of
   DeviceLifecycle's `Init`.

Not modelled, and why:

- Floating-point projection, undistortion and colour conversion: arithmetic on
  real numbers without state; the models have what comes after the rounding.
- `ns_to_ros_time`, `ros_time_to_ns`: a division and its inverse while the
  seconds fit 32 bits (until 2038); no state and no order.
- The approximate-time synchroniser of the depth node: a ROS library; both builds pass
  what it gives them straight to the converter.
- The closed SDK beyond what the driver relies on, build and launch files.
- `CommandLineControl` and `validate_render_parameters` (never used),
  `slam_mapper_node.cpp` (empty).
