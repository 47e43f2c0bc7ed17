---------------------------- MODULE DepthImage ----------------------------
(***************************************************************************)
(* What becomes of the points of a frame: publishIntensityCloud() of       *)
(* include/host_sdk_sample.h drops those of low confidence and moves the   *)
(* others to the front of a message that is as large as the frame, so that *)
(* its tail is points at zero.  PointCloudToDepthConverter of              *)
(* src/pointcloud_depth_converter.cpp, in the depth node, projects all of  *)
(* the message onto a depth image of few pixels, one point after another,  *)
(* enlarges it, removes its edges, and samples the rest as a coloured      *)
(* cloud.                                                                  *)
(*                                                                         *)
(* A point is the pixel its rounded projection falls on, inside the image  *)
(* or not, and its depth in the camera in tenths of a metre; the point at  *)
(* zero is where the extrinsics put it.  Rounding of floating-point        *)
(* numbers, the distortion of the published image and the colours are left *)
(* out.                                                                    *)
(*                                                                         *)
(* A definition whose comment starts with "Variant" is not part of the     *)
(* model: it is the definition after it with a likely mistake.             *)
(***************************************************************************)
EXTENDS Integers, Sequences, FiniteSets

CONSTANTS
    image_width,            \* 1600 in the code; it enlarges to the same size
    image_height,           \* 1296
    scale,                  \* 7
    point_sampling_rate,    \* 5
    TotalPoints,            \* points of a frame
    Points,                 \* what they may be, with confidences (four images)
    PlainPoints,            \* and without
    Origins                 \* what the point at zero may be

uint16 == {i \in Nat : i < 65536}

RawPoint == [at : Int \X Int, z : Int, intensity : uint16, confidence : uint16]

ASSUME SizeAssumption ==
    /\ image_width \in Nat /\ image_height \in Nat
    /\ scale \in Nat \ {0} /\ point_sampling_rate \in Nat \ {0}
    /\ TotalPoints \in Nat \ {0}
ASSUME PointsAssumption ==
    /\ Points \subseteq RawPoint /\ \A p \in Points : p.intensity <= 255
    /\ PlainPoints \subseteq RawPoint
    /\ Origins \subseteq [at : Int \X Int, z : Int]

VARIABLES
    step,               \* the loop that runs: "convert", "project" or "sample"
    imageCount,         \* 4 if the frame has confidences
    origin,             \* the point at zero, in the camera
    raw,                \* history: the points of the frame so far
    valid_points,
    msg,                \* the message, as the converter sees its points
    projected,          \* how many of them are projected
    depth_img,
    colored_cloud       \* pixels of the enlarged image, with their depth

vars == <<step, imageCount, origin, raw, valid_points, msg, projected, depth_img, colored_cloud>>

scaled_width == image_width \div scale
scaled_height == image_height \div scale

Cells == (0 .. scaled_width - 1) \X (0 .. scaled_height - 1)

Zeros(o) == [i \in 1 .. TotalPoints |-> [at |-> o.at, z |-> o.z, intensity |-> 0]]

Init ==
    /\ step = "convert"
    /\ imageCount \in {3, 4}
    /\ origin \in Origins
    /\ raw = <<>>
    /\ valid_points = 0
    /\ msg = Zeros(origin)
    /\ projected = 0
    /\ depth_img = [c \in Cells |-> 0]
    /\ colored_cloud = {}

-----------------------------------------------------------------------------
(* publishIntensityCloud() *)

Confident(p) == imageCount = 4 => p.confidence >= 35

\* Variant: narrowed before it is clamped.
IntensityWrapped(i) == ((i - 10) * 255) \div (12500 - 10) % 256

\* Sixteen bits to eight: from 10 to 12500, truncated, clamped.
Intensity(i) ==
    LET intensity == ((i - 10) * 255) \div (12500 - 10)
    IN  IF intensity > 255 THEN 255 ELSE IF intensity < 0 THEN 0 ELSE intensity

\* Variant: at the place it had in the frame.
PutInPlace(p) ==
    msg' = [msg EXCEPT ![Len(raw) + 1] =
              [at |-> p.at, z |-> p.z,
               intensity |-> IF imageCount = 4 THEN p.intensity ELSE Intensity(p.intensity)]]

Put(p) ==
    msg' = [msg EXCEPT ![valid_points + 1] =
              [at |-> p.at, z |-> p.z,
               intensity |-> IF imageCount = 4 THEN p.intensity ELSE Intensity(p.intensity)]]

ConvertPoint ==
    /\ step = "convert" /\ Len(raw) < TotalPoints
    /\ \E p \in IF imageCount = 4 THEN Points ELSE PlainPoints :
          /\ raw' = Append(raw, p)
          /\ IF Confident(p)
               THEN Put(p) /\ valid_points' = valid_points + 1
               ELSE UNCHANGED <<msg, valid_points>>
    /\ UNCHANGED <<step, imageCount, origin, projected, depth_img, colored_cloud>>

PublishCloud ==
    /\ step = "convert" /\ Len(raw) = TotalPoints
    /\ step' = "project"
    /\ UNCHANGED <<imageCount, origin, raw, valid_points, msg, projected, depth_img, colored_cloud>>

-----------------------------------------------------------------------------
(* processCloudAndImage() *)

\* Variant: only a depth of zero is skipped.
VisibleNonzero(p) == p.z # 0 /\ p.at \in Cells

\* In front of the camera, and in the image.
Visible(p) == p.z > 0 /\ p.at \in Cells

Neighbours(c) == {d \in Cells : d[1] - c[1] \in -1 .. 1 /\ d[2] - c[2] \in -1 .. 1}

\* Variant: neighbours are overwritten too.
FilledOver(p) == [c \in Cells |-> IF c \in Neighbours(p.at) THEN p.z ELSE depth_img[c]]

\* The point's own pixel is overwritten, its neighbours only filled.
Filled(p) ==
    [c \in Cells |-> IF c = p.at \/ (c \in Neighbours(p.at) /\ depth_img[c] = 0)
                       THEN p.z ELSE depth_img[c]]

\* projectCloudToDepth()
ProjectPoint ==
    /\ step = "project" /\ projected < TotalPoints
    /\ projected' = projected + 1
    /\ LET p == msg[projected + 1]
       IN  depth_img' = IF Visible(p) THEN Filled(p) ELSE depth_img
    /\ UNCHANGED <<step, imageCount, origin, raw, valid_points, msg, colored_cloud>>

\* customResize(): the cell that a pixel of the enlarged image is a copy of.
Source(x, to, from) ==
    LET s == (x * from) \div to IN IF s < from - 1 THEN s ELSE from - 1

CellOf(x, y) == <<Source(x, image_width, scaled_width), Source(y, image_height, scaled_height)>>

\* cv::Sobel() and its border: the image is reflected at its first and last pixel.
Reflect(x, n) == IF x < 0 THEN -x ELSE IF x >= n THEN 2 * n - 2 - x ELSE x

Pixel(x, y) == depth_img[CellOf(Reflect(x, image_width), Reflect(y, image_height))]

grad_x(x, y) ==
    Pixel(x + 1, y - 1) - Pixel(x - 1, y - 1) + 2 * (Pixel(x + 1, y) - Pixel(x - 1, y))
      + Pixel(x + 1, y + 1) - Pixel(x - 1, y + 1)
grad_y(x, y) ==
    Pixel(x - 1, y + 1) - Pixel(x - 1, y - 1) + 2 * (Pixel(x, y + 1) - Pixel(x, y - 1))
      + Pixel(x + 1, y + 1) - Pixel(x + 1, y - 1)

\* A gradient above 0.75: 7.5 tenths, squared, is 225 / 4.
Edge(x, y) == 4 * (grad_x(x, y) * grad_x(x, y) + grad_y(x, y) * grad_y(x, y)) > 225

\* Variant: the rate counts pixels of the small image.
SampledCells(n) == {x \in 0 .. n - 1 : x % (scale * point_sampling_rate) = 0}

Sampled(n) == {x \in 0 .. n - 1 : x % point_sampling_rate = 0}

\* Strictly between 0.1 and 100 metres.
InCloud(depth) == depth > 1 /\ depth < 1000

\* postProcessDepthImage() and generateColoredCloud()
GenerateColoredCloud ==
    /\ step = "project" /\ projected = TotalPoints
    /\ step' = "sample"
    /\ colored_cloud' =
          {<<p[1], p[2], Pixel(p[1], p[2])>> : p \in
             {q \in Sampled(image_width) \X Sampled(image_height) :
                ~Edge(q[1], q[2]) /\ InCloud(Pixel(q[1], q[2]))}}
    /\ UNCHANGED <<imageCount, origin, raw, valid_points, msg, projected, depth_img>>

\* The next frame begins with a new message and a new image.
NextFrame ==
    /\ step = "sample"
    /\ step' = "convert"
    /\ imageCount' \in {3, 4}
    /\ raw' = <<>>
    /\ valid_points' = 0
    /\ msg' = Zeros(origin)
    /\ projected' = 0
    /\ depth_img' = [c \in Cells |-> 0]
    /\ colored_cloud' = {}
    /\ UNCHANGED origin

Next == ConvertPoint \/ PublishCloud \/ ProjectPoint \/ GenerateColoredCloud \/ NextFrame

Spec == Init /\ [][Next]_vars

-----------------------------------------------------------------------------
(* Properties *)

MsgPoint == [at : Int \X Int, z : Int, intensity : 0 .. 255]

TypeOK ==
    /\ step \in {"convert", "project", "sample"}
    /\ imageCount \in {3, 4}
    /\ origin \in Origins
    /\ raw \in Seq(RawPoint) /\ Len(raw) <= TotalPoints
    /\ valid_points \in 0 .. Len(raw)
    /\ msg \in [1 .. TotalPoints -> MsgPoint]
    /\ projected \in 0 .. TotalPoints
    /\ depth_img \in [Cells -> Nat]

\* The depth of a pixel, whatever the order of the points does to it on the way,
\* is that of the last point that falls on it, else that of the first that falls
\* next to it, else zero: not the nearest one's.
Own(c) == {i \in 1 .. projected : Visible(msg[i]) /\ msg[i].at = c}
Near(c) == {i \in 1 .. projected : Visible(msg[i]) /\ c \in Neighbours(msg[i].at)}

DepthIsReference ==
    \A c \in Cells :
        /\ Own(c) # {} =>
              \E i \in Own(c) : depth_img[c] = msg[i].z /\ \A j \in Own(c) : j <= i
        /\ Own(c) = {} /\ Near(c) # {} =>
              \E i \in Near(c) : depth_img[c] = msg[i].z /\ \A j \in Near(c) : i <= j
        /\ Near(c) = {} => depth_img[c] = 0

\* The zeros that stand for points of low confidence leave no trace in the depth
\* image, if the extrinsics put them behind the camera: every depth is that of a
\* point of the frame that is confident.
ZerosLeaveNoTrace ==
    origin.z <= 0 =>
        \A c \in Cells : depth_img[c] # 0 =>
            \E i \in 1 .. Len(raw) :
                Confident(raw[i]) /\ raw[i].z = depth_img[c] /\ c \in Neighbours(raw[i].at)

\* The message has the confident points of the frame in their order, then zeros:
\* its points and the confident ones correspond one to one (the iterators of
\* publishIntensityCloud move on for a confident point only).
Rank(i) == Cardinality({j \in 1 .. i : Confident(raw[j])})

CompactsInOrder ==
    /\ \A i \in 1 .. Len(raw) : Confident(raw[i]) =>
          msg[Rank(i)].at = raw[i].at /\ msg[Rank(i)].z = raw[i].z
    /\ \A i \in 1 .. TotalPoints : i > Rank(Len(raw)) => msg[i] = Zeros(origin)[i]

\* A brighter point is never published darker, up to the ends of the range of
\* sixteen bits and in either format of the frame (publishIntensityCloud).
BrighterNotDarker ==
    \A i, j \in 1 .. Len(raw) :
        Confident(raw[i]) /\ Confident(raw[j]) /\ raw[i].intensity <= raw[j].intensity =>
            msg[Rank(i)].intensity <= msg[Rank(j)].intensity

\* However small what is seen is, the removal of edges and the sampling leave some
\* of it in the coloured cloud: every pixel of the depth image with a depth in
\* range has a sample there.
EveryPixelInCloud ==
    step = "sample" =>
        \A c \in Cells : InCloud(depth_img[c]) =>
            \E p \in colored_cloud : CellOf(p[1], p[2]) = c /\ p[3] = depth_img[c]
=============================================================================
