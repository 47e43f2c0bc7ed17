----------------------------- MODULE Publisher -----------------------------
(***************************************************************************)
(* What MultiSensorPublisher (include/host_sdk_sample.h) does with the     *)
(* data of the sensor, between the gate of lidar_data_callback() and the   *)
(* queues of PairQueue, the writers of LogWriter and the ROS topics.       *)
(*                                                                         *)
(* A handler is the list of the steps in which it touches what others can  *)
(* see: a push Into a queue of the pairing, encode, which may throw, a     *)
(* number, taken from the atomic counter of a log, a record, which         *)
(* enqueues the frame for the log, and the topic it publishes On.  What it *)
(* computes in between is its own.  Handlers run in the SDK's threads, and *)
(* whether the SDK calls for one stream at a time is not known: that is    *)
(* chosen at the start.                                                    *)
(*                                                                         *)
(* A datum is its number in the order of delivery.  A kind of data that is *)
(* switched off (g_sendrgb and the like) is dropped at the gate and not    *)
(* counted.                                                                *)
(*                                                                         *)
(* A definition whose comment starts with "Variant" is not part of the     *)
(* model: it is the definition after it with a likely mistake.             *)
(***************************************************************************)
EXTENDS Integers, Sequences, FiniteSets, SequencesExt

CONSTANTS
    Threads,            \* the SDK's callback threads
    MaxData             \* bound on the data delivered, for model checking

ASSUME PublisherAssumption == MaxData \in Nat

VARIABLES
    serialStreams,      \* the SDK delivers one datum of a stream at a time
    g_sendcloudrender,  \* render camera images onto clouds
    data_logger_,       \* data is recorded
    process,            \* "up", or "gone" with an exception nobody caught
    delivered,          \* history: the forms of the data delivered
    thrown,             \* history: the data whose compression threw
    call,               \* per thread: the handler it runs
    index,              \* image_index_, cloud_index_, pose_index_
    recorded,           \* the frames each writer accepted, in order
    published,          \* the data published on each topic, in order
    pushed              \* the data pushed into each queue, in order

config == <<serialStreams, g_sendcloudrender, data_logger_>>
out == <<recorded, published, pushed>>
vars == <<process, config, delivered, thrown, call, index, out>>

Logs == {"image", "cloud", "pose"}
Queues == {"rgb", "pcd"}
Topics == {"image", "image/compressed", "cloud_raw", "cloud_slam", "odometry", "imu"}

-----------------------------------------------------------------------------
(* The handlers *)

Into(q) == <<"push", q>>
On(p) == <<"publish", p>>
number(l) == <<"number", l>>
record(l) == <<"record", l>>
encode == <<"encode", "image">>

\* Variant: the number taken before the image is compressed.
publishRgb_nv12_early ==
    <<Into("rgb"), On("image"), number("image"), encode, record("image"),
      On("image/compressed")>>

\* Variant: the frame recorded before the image is compressed.
publishRgb_nv12_first ==
    <<Into("rgb"), On("image"), number("image"), record("image"), encode,
      On("image/compressed")>>

\* The old format: the number is taken once the compression did not throw.
publishRgb_nv12 ==
    <<Into("rgb"), On("image"), encode, number("image"), record("image"),
      On("image/compressed")>>

\* The new format: the JPEG of the device is recorded and published as it is.
publishRgb_jpeg ==
    <<Into("rgb"), number("image"), record("image"), On("image"), On("image/compressed")>>

\* The image cannot be converted: an early return, or an exception before the
\* first step.
publishRgb_invalid == <<>>

\* The cloud is pushed whether or not clouds are rendered.
publishIntensityCloud == <<Into("pcd"), On("cloud_raw")>>

\* No address or an empty size: an early return.
publishIntensityCloud_invalid == <<>>

publishPC2XYZRGBA == <<number("cloud"), record("cloud"), On("cloud_slam")>>

\* No points: published, not recorded.
publishPC2XYZRGBA_empty == <<On("cloud_slam")>>

publishOdometry_complete == <<number("pose"), record("pose"), On("odometry")>>

\* The format without velocities is not recorded, and a length that is neither
\* format is published as an empty message.
publishOdometry == <<On("odometry")>>

publishImu == <<On("imu")>>

Handler ==
    [nv12 |-> publishRgb_nv12, jpeg |-> publishRgb_jpeg, rgb_invalid |-> publishRgb_invalid,
     dtof |-> publishIntensityCloud, dtof_invalid |-> publishIntensityCloud_invalid,
     slam |-> publishPC2XYZRGBA, slam_empty |-> publishPC2XYZRGBA_empty,
     odom |-> publishOdometry_complete, odom_short |-> publishOdometry,
     imu |-> publishImu]

Forms == DOMAIN Handler

\* lidar_data_callback(): the stream a form belongs to.
Stream(form) ==
    CASE form \in {"nv12", "jpeg", "rgb_invalid"} -> "rgb"
      [] form \in {"dtof", "dtof_invalid"} -> "dtof"
      [] form \in {"slam", "slam_empty"} -> "slam"
      [] form \in {"odom", "odom_short"} -> "odom"
      [] form = "imu" -> "imu"

\* if (g_sendcloudrender), if (data_logger_)
Runs(step) ==
    /\ step = Into("rgb") => g_sendcloudrender
    /\ step[1] \in {"number", "record"} => data_logger_

-----------------------------------------------------------------------------
(* The steps *)

\* A call: the form of its datum, the step that comes next, the number it has
\* taken; seen, as history, is the length of the logs when it began.
Idle == [form |-> "rgb_invalid", datum |-> 0, pos |-> 1, idx |-> -1, seen |-> [l \in Logs |-> 0]]

\* recorddata is off, or initialize_data_logger() failed and was swallowed, or
\* there is a logger from before the first device on.
Init ==
    /\ serialStreams \in BOOLEAN
    /\ g_sendcloudrender \in BOOLEAN
    /\ data_logger_ \in BOOLEAN
    /\ process = "up"
    /\ delivered = <<>>
    /\ thrown = {}
    /\ call = [t \in Threads |-> Idle]
    /\ index = [l \in Logs |-> 0]
    /\ recorded = [l \in Logs |-> <<>>]
    /\ published = [p \in Topics |-> <<>>]
    /\ pushed = [q \in Queues |-> <<>>]

Busy(t) == call[t].pos <= Len(Handler[call[t].form])

\* Thread t comes to the step; its handler goes on after it.
Reaches(t, step) == Busy(t) /\ Handler[call[t].form][call[t].pos] = step
At(t, step) == Reaches(t, step) /\ Runs(step)
Advanced(t) == [call[t] EXCEPT !.pos = @ + 1]
Left(t) == [call[t] EXCEPT !.pos = Len(Handler[call[t].form]) + 1]

Deliver(t) ==
    /\ ~Busy(t)
    /\ Len(delivered) < MaxData
    /\ \E form \in Forms :
          /\ serialStreams =>
                \A u \in Threads : Busy(u) => Stream(call[u].form) # Stream(form)
          /\ delivered' = Append(delivered, form)
          /\ call' = [call EXCEPT ![t] =
                        [form |-> form, datum |-> Len(delivered) + 1, pos |-> 1, idx |-> -1,
                         seen |-> [l \in Logs |-> Len(recorded[l])]]]
    /\ UNCHANGED <<process, config, thrown, index, out>>

\* Variant: without a logger, the handler returns.
SkipReturns(t) ==
    \E step \in ToSet(Handler[call[t].form]) :
        /\ Reaches(t, step) /\ ~Runs(step)
        /\ call' = [call EXCEPT ![t] = IF step[1] = "number" THEN Left(t) ELSE Advanced(t)]
        /\ UNCHANGED <<process, config, delivered, thrown, index, out>>

\* The condition of a step does not hold.
Skip(t) ==
    \E step \in ToSet(Handler[call[t].form]) :
        /\ Reaches(t, step) /\ ~Runs(step)
        /\ call' = [call EXCEPT ![t] = Advanced(t)]
        /\ UNCHANGED <<process, config, delivered, thrown, index, out>>

Push(t) ==
    \E q \in Queues :
        /\ At(t, Into(q))
        /\ pushed' = [pushed EXCEPT ![q] = Append(@, call[t].datum)]
        /\ call' = [call EXCEPT ![t] = Advanced(t)]
        /\ UNCHANGED <<process, config, delivered, thrown, index, recorded, published>>

Publish(t) ==
    \E p \in Topics :
        /\ At(t, On(p))
        /\ published' = [published EXCEPT ![p] = Append(@, call[t].datum)]
        /\ call' = [call EXCEPT ![t] = Advanced(t)]
        /\ UNCHANGED <<process, config, delivered, thrown, index, recorded, pushed>>

Encode(t) ==
    /\ At(t, encode)
    /\ call' = [call EXCEPT ![t] = Advanced(t)]
    /\ UNCHANGED <<process, config, delivered, thrown, index, out>>

\* cv::Exception or another one, caught at the end of the handler.
EncodeThrows(t) ==
    /\ At(t, encode)
    /\ thrown' = thrown \cup {call[t].datum}
    /\ call' = [call EXCEPT ![t] = Left(t)]
    /\ UNCHANGED <<process, config, delivered, index, out>>

\* Variant: the counter of the images used for all.
TakeIndexShared(t) ==
    \E l \in Logs :
        /\ At(t, number(l))
        /\ index' = [index EXCEPT !["image"] = @ + 1]
        /\ call' = [call EXCEPT ![t] = [Advanced(t) EXCEPT !.idx = index["image"]]]
        /\ UNCHANGED <<process, config, delivered, thrown, out>>

\* fetch_add(1)
TakeIndex(t) ==
    \E l \in Logs :
        /\ At(t, number(l))
        /\ index' = [index EXCEPT ![l] = @ + 1]
        /\ call' = [call EXCEPT ![t] = [Advanced(t) EXCEPT !.idx = index[l]]]
        /\ UNCHANGED <<process, config, delivered, thrown, out>>

\* The frame as log l has it; seen is history.
Frame(t, l) == [idx |-> call[t].idx, datum |-> call[t].datum, seen |-> call[t].seen[l]]

\* Variant: the frame put before the last one.
RecordBefore(t) ==
    \E l \in Logs :
        /\ At(t, record(l))
        /\ recorded' = [recorded EXCEPT ![l] =
                          IF @ = <<>> THEN <<Frame(t, l)>> ELSE Front(@) \o <<Frame(t, l), Last(@)>>]
        /\ call' = [call EXCEPT ![t] = Advanced(t)]
        /\ UNCHANGED <<process, config, delivered, thrown, index, published, pushed>>

\* enqueueImageFrame(), enqueuePointCloudFrame(), enqueuePoseFrame()
Record(t) ==
    \E l \in Logs :
        /\ At(t, record(l))
        /\ recorded' = [recorded EXCEPT ![l] = Append(@, Frame(t, l))]
        /\ call' = [call EXCEPT ![t] = Advanced(t)]
        /\ UNCHANGED <<process, config, delivered, thrown, index, published, pushed>>

\* imdecode() and toImageMsg() of the new format are not in the try: what they
\* throw, before the first step, for the queue or for the topic, leaves the
\* callback and ends the process.
Escapes(t) ==
    /\ call[t].form = "jpeg"
    /\ Reaches(t, Into("rgb")) \/ Reaches(t, On("image"))
    /\ process' = "gone"
    /\ UNCHANGED <<config, delivered, thrown, call, index, out>>

Handle(t) ==
    \/ Skip(t)
    \/ Push(t)
    \/ Publish(t)
    \/ Encode(t)
    \/ EncodeThrows(t)
    \/ TakeIndex(t)
    \/ Record(t)

\* The process is gone, or the bound on the data is reached.
Ended ==
    /\ process = "gone" \/ (Len(delivered) = MaxData /\ \A t \in Threads : ~Busy(t))
    /\ UNCHANGED vars

Next ==
    \/ process = "up" /\ \E t \in Threads : Deliver(t) \/ Handle(t) \/ Escapes(t)
    \/ Ended

Spec == Init /\ [][Next]_vars

-----------------------------------------------------------------------------
(* Properties *)

Data == 1 .. Len(delivered)

TypeOK ==
    /\ serialStreams \in BOOLEAN /\ g_sendcloudrender \in BOOLEAN /\ data_logger_ \in BOOLEAN
    /\ process \in {"up", "gone"} /\ thrown \subseteq Nat
    /\ delivered \in Seq(Forms) /\ Len(delivered) <= MaxData
    /\ index \in [Logs -> Nat]
    /\ call \in [Threads -> [form : Forms, datum : Nat, pos : Nat \ {0}, idx : Int,
                             seen : [Logs -> Nat]]]
    /\ recorded \in [Logs -> Seq([idx : Int, datum : Nat, seen : Nat])]
    /\ published \in [Topics -> Seq(Nat)]
    /\ pushed \in [Queues -> Seq(Nat)]

\* The threads that have a number for log l and not yet recorded their frame.
Holding(l) == {t \in Threads : At(t, record(l))}

Indices(l) == {recorded[l][i].idx : i \in 1 .. Len(recorded[l])}

\* However the handlers overlap and whichever of them throw, the numbers in a
\* recording are all different and none is missing: those that were handed out
\* are in the recording or on their way into it.
IndicesAccountedFor ==
    \A l \in Logs :
        /\ Cardinality(Indices(l)) = Len(recorded[l])
        /\ \A t, u \in Holding(l) : call[t].idx = call[u].idx => t = u
        /\ {call[t].idx : t \in Holding(l)} = (0 .. index[l] - 1) \ Indices(l)

\* Two frames of a recording may be in another order than their numbers only if
\* their handlers ran at the same time: all that was in the recording when a
\* handler began has lower numbers than its frame.
OvertakenOnlyByOverlap ==
    \A l \in Logs : \A i \in DOMAIN recorded[l] :
        \A j \in 1 .. recorded[l][i].seen : recorded[l][j].idx < recorded[l][i].idx

\* The topic that carries what a log records.
Twin == [image |-> "image/compressed", cloud |-> "cloud_slam", pose |-> "odometry"]

Returned(d) == \A t \in Threads : Busy(t) => call[t].datum # d

\* When its handler has returned, a datum that this build records is in the
\* recording if and only if it was published: neither has one more.
RecordedIffPublished ==
    data_logger_ =>
        \A d \in Data : \A l \in Logs :
            Returned(d) /\ record(l) \in ToSet(Handler[delivered[d]]) =>
                ((\E i \in DOMAIN recorded[l] : recorded[l][i].datum = d)
                    <=> d \in ToSet(published[Twin[l]]))

\* With or without a logger and a renderer, a handler that has returned has
\* published its datum on each of its topics, once.  Only a compressed image
\* whose compression threw is missing.
PublishedWhenReturned ==
    \A d \in Data : \A p \in Topics :
        Returned(d) /\ On(p) \in ToSet(Handler[delivered[d]]) =>
            \/ Cardinality({i \in DOMAIN published[p] : published[p][i] = d}) = 1
            \/ d \in thrown /\ p = "image/compressed"

Increasing(s) == \A i, j \in DOMAIN s : i < j => s[i] < s[j]

\* If the SDK delivers one datum of a stream at a time, though the streams run
\* at the same time, then every recording is in the order of delivery and its
\* numbers are the positions in it, and the topics and the queues are in order,
\* which is what PairQueue takes for granted.
StreamsInOrder ==
    serialStreams =>
        /\ \A l \in Logs :
              /\ Increasing([i \in DOMAIN recorded[l] |-> recorded[l][i].datum])
              /\ \A i \in DOMAIN recorded[l] : recorded[l][i].idx = i - 1
        /\ \A p \in Topics : Increasing(published[p])
        /\ \A q \in Queues : Increasing(pushed[q])
=============================================================================
