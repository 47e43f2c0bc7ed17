-------------------------- MODULE DepthImageProofs --------------------------
(***************************************************************************)
(* Proofs about DepthImage for images of any size, any number of points    *)
(* and any extrinsics: what a pixel's depth is, although the points write  *)
(* over each other, that the zeros of the message are not among it, that   *)
(* the points keep their order, and that the grids of the stages fit.      *)
(***************************************************************************)
EXTENDS DepthImage, FiniteSetTheorems, TLAPS

\* The message behind the confident points is zeros, each point before is one of
\* the frame's; the image is empty until the message is complete.
MsgInv ==
    /\ \A i \in 1 .. TotalPoints :
          IF i > valid_points
            THEN msg[i] = Zeros(origin)[i]
            ELSE \E j \in 1 .. Len(raw) :
                    Confident(raw[j]) /\ raw[j].at = msg[i].at /\ raw[j].z = msg[i].z
    /\ step = "convert" => projected = 0

\* Truncated and clamped, a sixteen bit intensity fits into eight bits.
LEMMA IntensityFits == ASSUME NEW i \in uint16 PROVE i \in Nat /\ Intensity(i) \in 0 .. 255
<1>1. i \in Nat
  BY DEF uint16
<1>2. Intensity(i) \in 0 .. 255
  BY <1>1 DEF Intensity
<1>q. QED
  BY <1>1, <1>2

\* A brighter point is not published darker, at either end of the clamp.
THEOREM IntensityMonotone ==
    ASSUME NEW i \in uint16, NEW j \in uint16, i <= j
    PROVE  Intensity(i) <= Intensity(j)
<1> DEFINE d(n) == ((n - 10) * 255) \div (12500 - 10)
<1>1. d(i) <= d(j) /\ d(i) \in Int /\ d(j) \in Int
  BY DEF uint16
<1> HIDE DEF d
<1>2. Intensity(i) = IF d(i) > 255 THEN 255 ELSE IF d(i) < 0 THEN 0 ELSE d(i)
  BY DEF Intensity, d
<1>3. Intensity(j) = IF d(j) > 255 THEN 255 ELSE IF d(j) < 0 THEN 0 ELSE d(j)
  BY DEF Intensity, d
<1>q. QED
  BY <1>1, <1>2, <1>3

\* What the converter does to the message: one confident point at its end.
LEMMA ConvertKeeps == TypeOK /\ MsgInv /\ ConvertPoint => TypeOK' /\ MsgInv'
<1> SUFFICES ASSUME TypeOK, MsgInv, ConvertPoint
             PROVE  TypeOK' /\ MsgInv'
  OBVIOUS
<1>1. PICK p \in IF imageCount = 4 THEN Points ELSE PlainPoints :
         /\ raw' = Append(raw, p)
         /\ IF Confident(p) THEN Put(p) /\ valid_points' = valid_points + 1
                            ELSE UNCHANGED <<msg, valid_points>>
  BY DEF ConvertPoint
<1>2. p \in RawPoint /\ (imageCount = 4 => p.intensity <= 255)
  BY PointsAssumption
<1>3. Len(raw) < TotalPoints /\ TotalPoints \in Nat /\ step = "convert" /\ raw \in Seq(RawPoint)
        /\ valid_points \in 0 .. Len(raw) /\ Len(raw) \in Nat /\ projected = 0
  BY SizeAssumption DEF ConvertPoint, TypeOK, MsgInv
<1> HIDE DEF RawPoint
<1>a. raw' = Append(raw, p)
  BY <1>1
<1>4. raw' \in Seq(RawPoint) /\ Len(raw') = Len(raw) + 1 /\ raw'[Len(raw) + 1] = p
        /\ \A j \in 1 .. Len(raw) : raw'[j] = raw[j]
  BY <1>a, <1>2, <1>3
<1>5. UNCHANGED <<step, imageCount, origin, projected, depth_img>>
  BY DEF ConvertPoint
<1>b. \A j \in 1 .. Len(raw) : Confident(raw[j]) => Confident(raw[j])'
  BY <1>4, <1>5 DEF Confident
<1>c. \A k : k = Len(raw) + 1 /\ Confident(p) => Confident(raw[k])'
  BY <1>4, <1>5, <1>3 DEF Confident
<1> DEFINE m == [at |-> p.at, z |-> p.z,
                 intensity |-> IF imageCount = 4 THEN p.intensity ELSE Intensity(p.intensity)]
<1>6. m \in MsgPoint
  <2>1. p.at \in Int \X Int /\ p.z \in Int /\ p.intensity \in uint16
    BY <1>2 DEF RawPoint
  <2>2. p.intensity \in Nat /\ Intensity(p.intensity) \in 0 .. 255
    BY <2>1, IntensityFits
  <2> DEFINE n == IF imageCount = 4 THEN p.intensity ELSE Intensity(p.intensity)
  <2>3. n \in 0 .. 255
    BY <2>2, <1>2
  <2> HIDE DEF n
  <2>4. [at |-> p.at, z |-> p.z, intensity |-> n] \in MsgPoint
    BY <2>1, <2>3 DEF MsgPoint
  <2>q. QED
    BY <2>4 DEF n
<1>d. m.at = p.at /\ m.z = p.z
  OBVIOUS
<1>e. msg \in [1 .. TotalPoints -> MsgPoint]
  BY DEF TypeOK
<1>f. /\ msg' \in [1 .. TotalPoints -> MsgPoint]
      /\ valid_points' \in 0 .. Len(raw')
      => TypeOK'
  BY <1>4, <1>5, <1>3 DEF TypeOK
<1>7. CASE Confident(p)
  <2>1. msg' = [msg EXCEPT ![valid_points + 1] = m] /\ valid_points' = valid_points + 1
    BY <1>1, <1>7 DEF Put
  <2> HIDE DEF m
  <2>2. valid_points + 1 \in 1 .. TotalPoints
    BY <1>3
  <2>3. TypeOK'
    BY <2>1, <2>2, <1>3, <1>4, <1>6, <1>e, <1>f
  <2>4. ASSUME NEW i \in 1 .. TotalPoints, i > valid_points'
        PROVE  msg'[i] = Zeros(origin')[i]
    BY <2>1, <2>2, <2>4, <1>3, <1>5, <1>e DEF MsgInv
  <2>5. ASSUME NEW i \in 1 .. TotalPoints, i <= valid_points'
        PROVE  \E j \in 1 .. Len(raw') :
                 Confident(raw[j])' /\ raw'[j].at = msg'[i].at /\ raw'[j].z = msg'[i].z
    <3>1. CASE i = valid_points + 1
      <4>1. msg'[i] = m
        BY <2>1, <2>2, <3>1, <1>e
      <4>q. QED
        BY <4>1, <1>7, <1>c, <1>d, <1>3, <1>4
    <3>2. CASE i # valid_points + 1
      <4>1. msg'[i] = msg[i] /\ i <= valid_points
        BY <2>1, <2>5, <3>2, <1>3, <1>e
      <4>2. PICK j \in 1 .. Len(raw) :
               Confident(raw[j]) /\ raw[j].at = msg[i].at /\ raw[j].z = msg[i].z
        BY <4>1, <1>3 DEF MsgInv
      <4>q. QED
        BY <4>1, <4>2, <1>b, <1>3, <1>4
    <3>q. QED
      BY <3>1, <3>2
  <2>q. QED
    BY <2>1, <2>3, <2>4, <2>5, <1>3, <1>5 DEF MsgInv
<1>8. CASE ~Confident(p)
  <2>1. msg' = msg /\ valid_points' = valid_points
    BY <1>1, <1>8
  <2>2. TypeOK'
    BY <2>1, <1>3, <1>4, <1>e, <1>f
  <2>3. ASSUME NEW i \in 1 .. TotalPoints, i <= valid_points'
        PROVE  \E j \in 1 .. Len(raw') :
                 Confident(raw[j])' /\ raw'[j].at = msg'[i].at /\ raw'[j].z = msg'[i].z
    <3>1. PICK j \in 1 .. Len(raw) :
             Confident(raw[j]) /\ raw[j].at = msg[i].at /\ raw[j].z = msg[i].z
      BY <2>1, <2>3, <1>3 DEF MsgInv
    <3>q. QED
      BY <3>1, <2>1, <1>b, <1>3, <1>4
  <2>4. ASSUME NEW i \in 1 .. TotalPoints, i > valid_points'
        PROVE  msg'[i] = Zeros(origin')[i]
    BY <2>1, <2>4, <1>3, <1>5 DEF MsgInv
  <2>5. valid_points' \in Nat /\ projected' = 0
    BY <2>1, <1>3, <1>5
  <2>q. QED
    BY <2>2, <2>3, <2>4, <2>5 DEF MsgInv
<1>q. QED
  BY <1>7, <1>8

\* The zeros of a new message are points.
LEMMA StartTyped ==
    ASSUME NEW o \in Origins
    PROVE  Zeros(o) \in [1 .. TotalPoints -> MsgPoint]
  BY PointsAssumption DEF Zeros, MsgPoint

\* A depth image stays one.
LEMMA FilledTyped ==
    ASSUME TypeOK, NEW p, p.z \in Nat
    PROVE  Filled(p) \in [Cells -> Nat]
  BY DEF TypeOK, Filled

\* Every step keeps the types and what the message is.
LEMMA MsgStep == TypeOK /\ MsgInv /\ [Next]_vars => TypeOK' /\ MsgInv'
<1> SUFFICES ASSUME TypeOK, MsgInv, [Next]_vars
             PROVE  TypeOK' /\ MsgInv'
  OBVIOUS
<1>1. CASE ConvertPoint
  BY <1>1, ConvertKeeps
<1>2. CASE PublishCloud
  BY <1>2 DEF PublishCloud, TypeOK, MsgInv, Confident
<1>3. CASE ProjectPoint
  <2>a. projected \in 0 .. TotalPoints /\ projected < TotalPoints /\ projected' = projected + 1
    BY <1>3 DEF ProjectPoint, TypeOK
  <2>b. projected' \in 0 .. TotalPoints /\ projected + 1 \in 1 .. TotalPoints
    BY <2>a, SizeAssumption
  <2>1. msg[projected + 1] \in MsgPoint
    BY <2>b DEF TypeOK
  <2>2. Visible(msg[projected + 1]) => msg[projected + 1].z \in Nat
    BY <2>1 DEF Visible, MsgPoint
  <2>3. depth_img' \in [Cells -> Nat]
    BY <1>3, <2>2, FilledTyped DEF ProjectPoint, TypeOK
  <2>4. TypeOK'
    BY <1>3, <2>3, <2>b DEF ProjectPoint, TypeOK
  <2>5. MsgInv'
    BY <1>3 DEF ProjectPoint, MsgInv, Confident
  <2>q. QED
    BY <2>4, <2>5
<1>4. CASE GenerateColoredCloud
  BY <1>4 DEF GenerateColoredCloud, TypeOK, MsgInv, Confident
<1>5. CASE NextFrame
  <2>1. Zeros(origin) \in [1 .. TotalPoints -> MsgPoint]
    BY StartTyped DEF TypeOK
  <2>2. TypeOK'
    BY <1>5, <2>1, SizeAssumption DEF NextFrame, TypeOK
  <2>3. MsgInv'
    BY <1>5 DEF NextFrame, MsgInv
  <2>q. QED
    BY <2>2, <2>3
<1>6. CASE UNCHANGED vars
  BY <1>6 DEF vars, TypeOK, MsgInv, Confident
<1>q. QED
  BY <1>1, <1>2, <1>3, <1>4, <1>5, <1>6 DEF Next

-----------------------------------------------------------------------------

\* A pixel's depth is that of the last point on it or the first next to it: what
\* one more point does to that.
LEMMA ProjectKeepsReference ==
    TypeOK /\ DepthIsReference /\ ProjectPoint => DepthIsReference'
<1> SUFFICES ASSUME TypeOK, DepthIsReference, ProjectPoint, NEW c \in Cells
             PROVE  (/\ Own(c) # {} =>
                          \E i \in Own(c) : depth_img[c] = msg[i].z /\ \A j \in Own(c) : j <= i
                     /\ Own(c) = {} /\ Near(c) # {} =>
                          \E i \in Near(c) : depth_img[c] = msg[i].z /\ \A j \in Near(c) : i <= j
                     /\ Near(c) = {} => depth_img[c] = 0)'
  BY DEF DepthIsReference, Cells, scaled_width, scaled_height
<1> DEFINE n == projected + 1
           p == msg[n]
<1>1. /\ projected' = n /\ projected \in Nat /\ msg' = msg
      /\ depth_img' = IF Visible(p) THEN Filled(p) ELSE depth_img
      /\ depth_img \in [Cells -> Nat]
  BY DEF ProjectPoint, TypeOK
<1>2. Own(c)' = IF Visible(p) /\ p.at = c THEN Own(c) \cup {n} ELSE Own(c)
  BY <1>1 DEF Own, Visible, Cells, scaled_width, scaled_height
<1>3. Near(c)' = IF Visible(p) /\ c \in Neighbours(p.at) THEN Near(c) \cup {n} ELSE Near(c)
  BY <1>1 DEF Near, Visible, Neighbours, Cells, scaled_width, scaled_height
<1>4. /\ \A i \in Own(c) : i < n /\ i \in Nat
      /\ \A i \in Near(c) : i < n /\ i \in Nat /\ msg[i].z > 0
  BY <1>1 DEF Own, Near, Visible
<1>5. Own(c) \subseteq Near(c) /\ (Visible(p) /\ p.at = c => c \in Neighbours(p.at))
  BY DEF Own, Near, Neighbours, Cells
<1>6. /\ Own(c) # {} => \E i \in Own(c) : depth_img[c] = msg[i].z /\ \A j \in Own(c) : j <= i
      /\ Own(c) = {} /\ Near(c) # {} =>
           \E i \in Near(c) : depth_img[c] = msg[i].z /\ \A j \in Near(c) : i <= j
      /\ Near(c) = {} => depth_img[c] = 0
  BY DEF DepthIsReference
<1>7. Visible(p) => depth_img'[c] = IF c = p.at \/ (c \in Neighbours(p.at) /\ depth_img[c] = 0)
                                      THEN p.z ELSE depth_img[c]
  BY <1>1 DEF Filled
<1>a. p = msg[n] /\ n \in Nat
  BY <1>1
<1> HIDE DEF n, p
<1>8. CASE ~Visible(p)
  BY <1>1, <1>2, <1>3, <1>6, <1>8
<1>9. CASE Visible(p) /\ p.at = c
  <2>1. Own(c)' = Own(c) \cup {n} /\ Near(c)' = Near(c) \cup {n} /\ depth_img'[c] = p.z
    BY <1>2, <1>3, <1>5, <1>7, <1>9
  <2>2. depth_img'[c] = msg'[n].z /\ n \in Own(c)' /\ \A j \in Own(c)' : j <= n
    BY <2>1, <1>1, <1>4, <1>a
  <2>q. QED
    BY <2>1, <2>2
<1>10. CASE Visible(p) /\ p.at # c /\ c \in Neighbours(p.at)
  <2>1. Own(c)' = Own(c) /\ Near(c)' = Near(c) \cup {n}
    BY <1>2, <1>3, <1>10
  <2>2. CASE Near(c) = {}
    <3>1. depth_img'[c] = p.z /\ Own(c) = {}
      BY <1>5, <1>6, <1>7, <1>10, <2>2
    <3>2. depth_img'[c] = msg'[n].z /\ n \in Near(c)' /\ \A j \in Near(c)' : n <= j
      BY <3>1, <2>1, <2>2, <1>1, <1>a
    <3>q. QED
      BY <3>1, <3>2, <2>1
  <2>3. CASE Near(c) # {}
    <3>1. depth_img[c] # 0
      BY <1>4, <1>5, <1>6, <2>3
    <3>2. depth_img'[c] = depth_img[c]
      BY <3>1, <1>7, <1>10
    <3>3. Own(c) = {} => \E i \in Near(c)' : depth_img'[c] = msg'[i].z /\ \A j \in Near(c)' : i <= j
      <4> SUFFICES ASSUME Own(c) = {}
                   PROVE  \E i \in Near(c)' : depth_img'[c] = msg'[i].z /\ \A j \in Near(c)' : i <= j
        OBVIOUS
      <4>1. PICK i \in Near(c) : depth_img[c] = msg[i].z /\ \A j \in Near(c) : i <= j
        BY <1>6, <2>3
      <4>2. \A j \in Near(c)' : i <= j
        BY <4>1, <2>1, <1>4, <1>a
      <4>q. QED
        BY <4>1, <4>2, <3>2, <2>1, <1>1
    <3>q. QED
      BY <3>2, <3>3, <2>1, <2>3, <1>1, <1>6
  <2>q. QED
    BY <2>2, <2>3
<1>11. CASE Visible(p) /\ c \notin Neighbours(p.at)
  <2>1. Own(c)' = Own(c) /\ Near(c)' = Near(c) /\ depth_img'[c] = depth_img[c]
    BY <1>2, <1>3, <1>5, <1>7, <1>11
  <2>q. QED
    BY <2>1, <1>1, <1>6
<1>q. QED
  BY <1>8, <1>9, <1>10, <1>11

\* The other steps leave the image and what was projected alone, or there is none.
LEMMA ReferenceStep ==
    TypeOK /\ MsgInv /\ DepthIsReference /\ [Next]_vars => DepthIsReference'
<1> SUFFICES ASSUME TypeOK, MsgInv, DepthIsReference, [Next]_vars
             PROVE  DepthIsReference'
  OBVIOUS
<1>1. CASE ConvertPoint
  <2>1. projected = 0 /\ projected' = 0 /\ depth_img' = depth_img
    BY <1>1 DEF ConvertPoint, MsgInv
  <2>2. \A c : Own(c) = {} /\ Near(c) = {} /\ Own(c)' = {} /\ Near(c)' = {}
    BY <2>1 DEF Own, Near
  <2>q. QED
    BY <2>1, <2>2 DEF DepthIsReference, Cells, scaled_width, scaled_height
<1>2. CASE PublishCloud \/ GenerateColoredCloud \/ UNCHANGED vars
  <2>1. UNCHANGED <<msg, projected, depth_img>>
    BY <1>2 DEF PublishCloud, GenerateColoredCloud, vars
  <2>2. \A c : Own(c)' = Own(c) /\ Near(c)' = Near(c)
    BY <2>1 DEF Own, Near, Visible, Neighbours, Cells, scaled_width, scaled_height
  <2>q. QED
    BY <2>1, <2>2 DEF DepthIsReference, Cells, scaled_width, scaled_height
<1>3. CASE ProjectPoint
  BY <1>3, ProjectKeepsReference
<1>4. CASE NextFrame
  <2>1. projected' = 0 /\ depth_img' = [c \in Cells |-> 0]
    BY <1>4 DEF NextFrame
  <2>2. \A c : Own(c)' = {} /\ Near(c)' = {}
    BY <2>1 DEF Own, Near
  <2>q. QED
    BY <2>1, <2>2 DEF DepthIsReference, Cells, scaled_width, scaled_height
<1>q. QED
  BY <1>1, <1>2, <1>3, <1>4 DEF Next

\* So it is at the start.
LEMMA InitImage == Init => TypeOK /\ MsgInv /\ DepthIsReference
<1> SUFFICES ASSUME Init
             PROVE  TypeOK /\ MsgInv /\ DepthIsReference
  OBVIOUS
<1> USE DEF Init
<1>1. msg \in [1 .. TotalPoints -> MsgPoint]
  BY StartTyped
<1>2. TypeOK
  BY <1>1, SizeAssumption DEF TypeOK
<1>3. MsgInv
  BY DEF MsgInv
<1>4. \A c : Own(c) = {} /\ Near(c) = {}
  BY DEF Own, Near
<1>5. DepthIsReference
  BY <1>4 DEF DepthIsReference
<1>q. QED
  BY <1>2, <1>3, <1>5

\* A depth comes from a point of the message in front of the camera, and the
\* zeros behind the camera are not.
LEMMA NoTrace == TypeOK /\ MsgInv /\ DepthIsReference => ZerosLeaveNoTrace
<1> SUFFICES ASSUME TypeOK, MsgInv, DepthIsReference, origin.z <= 0,
                    NEW c \in Cells, depth_img[c] # 0
             PROVE  \E i \in 1 .. Len(raw) :
                Confident(raw[i]) /\ raw[i].z = depth_img[c] /\ c \in Neighbours(raw[i].at)
  BY DEF ZerosLeaveNoTrace
<1>1. Own(c) \subseteq Near(c)
  BY DEF Own, Near, Neighbours, Cells
<1>2. PICK k \in Near(c) : depth_img[c] = msg[k].z
  BY <1>1 DEF DepthIsReference
<1>3. k \in 1 .. TotalPoints /\ msg[k].z > 0 /\ c \in Neighbours(msg[k].at)
  BY <1>2, SizeAssumption DEF Near, Visible, TypeOK
<1>4. ~(k > valid_points)
  <2>1. Zeros(origin)[k].z = origin.z /\ origin.z \in Int
    BY <1>3, PointsAssumption DEF Zeros, TypeOK
  <2>q. QED
    BY <2>1, <1>3 DEF MsgInv
<1>q. QED
  BY <1>2, <1>3, <1>4 DEF MsgInv

-----------------------------------------------------------------------------

\* The inductive invariant: it holds in every behaviour.
LEMMA ImageInv == Spec => [](TypeOK /\ MsgInv /\ DepthIsReference)
<1>1. TypeOK /\ MsgInv /\ DepthIsReference /\ [Next]_vars => (TypeOK /\ MsgInv /\ DepthIsReference)'
  BY MsgStep, ReferenceStep
<1>q. QED
  BY <1>1, InitImage, PTL DEF Spec

\* Type correctness: no index leaves the message, no depth is negative, and an
\* intensity fits into its byte.
THEOREM TypeCorrect == Spec => []TypeOK
  BY ImageInv, PTL

\* The order of the points and their neighbourhoods come to what DepthIsReference
\* says, for any frame.
THEOREM DepthsAreReference == Spec => []DepthIsReference
  BY ImageInv, PTL

\* With extrinsics that put the point at zero behind the camera, the points that
\* publishIntensityCloud() dropped leave no depth.
THEOREM ZerosUnseen == Spec => []ZerosLeaveNoTrace
  BY ImageInv, NoTrace, PTL

-----------------------------------------------------------------------------
(* The message has the confident points in their order *)

\* A point as publishIntensityCloud() writes it.
Published(p) ==
    [at |-> p.at, z |-> p.z,
     intensity |-> IF imageCount = 4 THEN p.intensity ELSE Intensity(p.intensity)]

ConfidentUpTo(i) == {j \in 1 .. i : Confident(raw[j])}

\* Each confident point is at the place of its rank, and the last rank is how far
\* the iterators got.
RankInv ==
    /\ valid_points = Rank(Len(raw))
    /\ \A i \in 1 .. Len(raw) : Confident(raw[i]) => msg[Rank(i)] = Published(raw[i])

\* What a rank is: a number, no more than a later one, and positive for a point
\* that counts.
LEMMA RankBounds ==
    ASSUME NEW i \in Nat
    PROVE  /\ Rank(i) \in Nat /\ IsFiniteSet(ConfidentUpTo(i))
           /\ Rank(i) = Cardinality(ConfidentUpTo(i))
           /\ \A n \in Nat : i <= n => Rank(i) <= Rank(n)
           /\ i > 0 /\ Confident(raw[i]) => Rank(i) > 0
<1>1. \A k \in Nat : Rank(k) = Cardinality(ConfidentUpTo(k))
  BY DEF Rank, ConfidentUpTo
<1>2. \A k \in Nat : ConfidentUpTo(k) \in SUBSET (1 .. k) /\ IsFiniteSet(1 .. k)
  BY FS_Interval DEF ConfidentUpTo
<1>3. \A k \in Nat : IsFiniteSet(ConfidentUpTo(k))
  BY <1>2, FS_Subset
<1>4. Cardinality(ConfidentUpTo(i)) \in Nat
  BY <1>3, FS_CardinalityType
<1>5. ASSUME NEW n \in Nat, i <= n PROVE Cardinality(ConfidentUpTo(i)) <= Cardinality(ConfidentUpTo(n))
  <2>1. ConfidentUpTo(i) \in SUBSET ConfidentUpTo(n)
    BY <1>5 DEF ConfidentUpTo
  <2> QED BY <2>1, <1>3, FS_Subset
<1>6. i > 0 /\ Confident(raw[i]) => Cardinality(ConfidentUpTo(i)) > 0
  <2> SUFFICES ASSUME i > 0, Confident(raw[i]) PROVE Cardinality(ConfidentUpTo(i)) # 0
    BY <1>4
  <2>1. i \in ConfidentUpTo(i)
    BY DEF ConfidentUpTo
  <2> QED BY <2>1, <1>3, FS_EmptySet
<1> QED BY <1>1, <1>3, <1>4, <1>5, <1>6

\* One more point: the ranks before it stay, and its own is the next one if it
\* is confident.
LEMMA RankAfterPoint ==
    ASSUME TypeOK, NEW p, raw' = Append(raw, p), imageCount' = imageCount,
           NEW n, n = Len(raw) + 1
    PROVE  /\ \A i \in 0 .. n - 1 : Rank(i)' = Rank(i)
           /\ Rank(n)' = IF Confident(p) THEN Rank(n - 1) + 1 ELSE Rank(n - 1)
<1>1. raw \in Seq(RawPoint) /\ Len(raw) \in Nat /\ n - 1 = Len(raw) /\ n \in Nat
  BY DEF TypeOK
<1>2. Append(raw, p)[n] = p /\ \A j \in 1 .. n - 1 : Append(raw, p)[j] = raw[j]
  BY <1>1
<1>3. raw'[n] = p /\ \A j \in 1 .. n - 1 : raw'[j] = raw[j]
  BY <1>2
<1>4. \A j \in 1 .. n - 1 : Confident(raw[j])' <=> Confident(raw[j])
  BY <1>3 DEF Confident
<1>5. Confident(raw[n])' <=> Confident(p)
  BY <1>3 DEF Confident
<1>6. ASSUME NEW i \in 0 .. n - 1 PROVE Rank(i)' = Rank(i)
  <2>1. \A j \in 1 .. i : j \in 1 .. n - 1
    BY <1>1
  <2>2. {j \in 1 .. i : Confident(raw[j])'} = {j \in 1 .. i : Confident(raw[j])}
    BY <2>1, <1>4
  <2> QED BY <2>2 DEF Rank
<1>7. ConfidentUpTo(n)' =
        IF Confident(p) THEN ConfidentUpTo(n - 1) \cup {n} ELSE ConfidentUpTo(n - 1)
  <2>1. \A j : j \in 1 .. n <=> j \in 1 .. n - 1 \/ j = n
    BY <1>1
  <2> QED BY <2>1, <1>4, <1>5 DEF ConfidentUpTo
<1>8. n \notin ConfidentUpTo(n - 1)
  BY <1>1 DEF ConfidentUpTo
<1>9. IsFiniteSet(ConfidentUpTo(n - 1)) /\ Rank(n - 1) = Cardinality(ConfidentUpTo(n - 1))
  BY <1>1, RankBounds
<1>10. Rank(n)' = Cardinality(ConfidentUpTo(n)')
  BY DEF Rank, ConfidentUpTo
<1>11. Rank(n)' = IF Confident(p) THEN Rank(n - 1) + 1 ELSE Rank(n - 1)
  <2>1. CASE Confident(p)
    BY <2>1, <1>7, <1>8, <1>9, <1>10, FS_AddElement
  <2>2. CASE ~Confident(p)
    BY <2>2, <1>7, <1>9, <1>10
  <2> QED BY <2>1, <2>2
<1> QED BY <1>6, <1>11

\* What a confident point adds to the message, and another one does not.
LEMMA ConvertRanks == TypeOK /\ RankInv /\ ConvertPoint => RankInv'
<1> SUFFICES ASSUME TypeOK, RankInv, ConvertPoint PROVE RankInv'
  OBVIOUS
<1>1. PICK p \in IF imageCount = 4 THEN Points ELSE PlainPoints :
         /\ raw' = Append(raw, p)
         /\ IF Confident(p) THEN Put(p) /\ valid_points' = valid_points + 1
                            ELSE UNCHANGED <<msg, valid_points>>
  BY DEF ConvertPoint
<1>2. PICK n \in Nat : n = Len(raw) + 1
  BY DEF TypeOK
<1>3. /\ raw \in Seq(RawPoint) /\ Len(raw) = n - 1 /\ n - 1 \in Nat /\ n <= TotalPoints
      /\ TotalPoints \in Nat /\ imageCount' = imageCount
      /\ valid_points = Rank(n - 1) /\ valid_points \in 0 .. n - 1
      /\ msg \in [1 .. TotalPoints -> MsgPoint]
      /\ \A i \in 1 .. n - 1 : Confident(raw[i]) => msg[Rank(i)] = Published(raw[i])
  BY <1>2, SizeAssumption DEF ConvertPoint, TypeOK, RankInv
<1>4. raw' = Append(raw, p)
  BY <1>1
<1>5. /\ \A i \in 0 .. n - 1 : Rank(i)' = Rank(i)
      /\ Rank(n)' = IF Confident(p) THEN Rank(n - 1) + 1 ELSE Rank(n - 1)
  BY <1>2, <1>3, <1>4, RankAfterPoint
<1>6. /\ Len(Append(raw, p)) = n /\ Append(raw, p)[n] = p
      /\ \A i \in 1 .. n - 1 : Append(raw, p)[i] = raw[i]
  BY <1>3
<1>7. Len(raw') = n /\ raw'[n] = p /\ \A i \in 1 .. n - 1 : raw'[i] = raw[i]
  BY <1>4, <1>6
<1>8. \A i \in 1 .. n - 1 : /\ Confident(raw[i])' <=> Confident(raw[i])
                            /\ Published(raw[i])' = Published(raw[i])
  BY <1>3, <1>7 DEF Confident, Published
<1>9. /\ Confident(raw[n])' <=> Confident(p)
      /\ Published(raw[n])' = Published(p)
  BY <1>3, <1>7 DEF Confident, Published
<1>10. \A i \in 1 .. n - 1 : Confident(raw[i]) => Rank(i) \in 1 .. valid_points
  <2> SUFFICES ASSUME NEW i \in 1 .. n - 1, Confident(raw[i])
               PROVE  Rank(i) \in Nat /\ Rank(i) > 0 /\ Rank(i) <= Rank(n - 1)
    BY <1>3
  <2> QED BY <1>3, RankBounds
<1>11. CASE Confident(p)
  <2>1. /\ msg' = [msg EXCEPT ![valid_points + 1] = Published(p)]
        /\ valid_points' = valid_points + 1
    BY <1>1, <1>11 DEF Put, Published
  <2>2. valid_points + 1 \in 1 .. TotalPoints
    BY <1>3
  <2>3. msg'[valid_points + 1] = Published(p)
    BY <2>1, <2>2, <1>3
  <2>4. \A k \in 1 .. valid_points : msg'[k] = msg[k]
    BY <2>1, <2>2, <1>3
  <2>5. Rank(n)' = valid_points + 1
    BY <1>3, <1>5, <1>11
  <2>6. ASSUME NEW i \in 1 .. n, Confident(raw[i])'
        PROVE  msg'[Rank(i)'] = Published(raw[i])'
    <3>1. CASE i = n
      BY <3>1, <2>3, <2>5, <1>9
    <3>2. CASE i # n
      <4>1. i \in 1 .. n - 1 /\ i \in 0 .. n - 1
        BY <3>2, <1>3
      <4>2. Confident(raw[i]) /\ Rank(i)' = Rank(i) /\ Rank(i) \in 1 .. valid_points
        BY <4>1, <2>6, <1>5, <1>8, <1>10
      <4> QED BY <4>1, <4>2, <2>4, <1>3, <1>8
    <3> QED BY <3>1, <3>2
  <2>7. valid_points' = Rank(Len(raw))'
    BY <2>1, <2>5, <1>7
  <2> QED BY <2>6, <2>7, <1>7 DEF RankInv
<1>12. CASE ~Confident(p)
  <2>1. msg' = msg /\ valid_points' = valid_points
    BY <1>1, <1>12
  <2>2. ASSUME NEW i \in 1 .. n, Confident(raw[i])'
        PROVE  msg'[Rank(i)'] = Published(raw[i])'
    <3>1. i \in 1 .. n - 1 /\ i \in 0 .. n - 1
      BY <2>2, <1>3, <1>9, <1>12
    <3>2. Confident(raw[i]) /\ Rank(i)' = Rank(i)
      BY <3>1, <2>2, <1>5, <1>8
    <3> QED BY <3>1, <3>2, <2>1, <1>3, <1>8
  <2>3. valid_points' = Rank(Len(raw))'
    BY <2>1, <1>3, <1>5, <1>7, <1>12
  <2> QED BY <2>2, <2>3, <1>7 DEF RankInv
<1> QED BY <1>11, <1>12

\* Before the first point, the rank is zero.
LEMMA NoRanks == ASSUME raw = <<>>, valid_points = 0 PROVE RankInv
<1>1. Len(raw) = 0 /\ {j \in 1 .. 0 : Confident(raw[j])} = {}
  OBVIOUS
<1>2. Rank(Len(raw)) = 0
  BY <1>1, FS_EmptySet DEF Rank
<1> QED BY <1>1, <1>2 DEF RankInv

\* Every step keeps the ranks: a point of the message is the one its rank says.
LEMMA RankStep == TypeOK /\ RankInv /\ [Next]_vars => RankInv'
<1> SUFFICES ASSUME TypeOK, RankInv, [Next]_vars PROVE RankInv'
  OBVIOUS
<1>1. CASE ConvertPoint
  BY <1>1, ConvertRanks
<1>2. CASE PublishCloud \/ ProjectPoint \/ GenerateColoredCloud \/ UNCHANGED vars
  <2>1. UNCHANGED <<raw, imageCount, msg, valid_points>>
    BY <1>2 DEF PublishCloud, ProjectPoint, GenerateColoredCloud, vars
  <2> QED BY <2>1 DEF RankInv, Rank, Confident, Published
<1>3. CASE NextFrame
  <2>1. raw' = <<>> /\ valid_points' = 0
    BY <1>3 DEF NextFrame
  <2>2. Len(raw)' = 0 /\ {j \in 1 .. 0 : Confident(raw[j])'} = {}
    BY <2>1
  <2>3. Rank(Len(raw))' = 0
    BY <2>2, FS_EmptySet DEF Rank
  <2> QED BY <2>1, <2>2, <2>3 DEF RankInv
<1> QED BY <1>1, <1>2, <1>3 DEF Next

\* So the ranks hold at every moment of a conversion.
LEMMA RanksAlways == Spec => []RankInv
<1>1. Init => RankInv
  BY NoRanks DEF Init
<1> QED BY <1>1, RankStep, TypeCorrect, PTL DEF Spec

\* The confident points are in the message in their order and without a gap, and
\* zeros follow.
THEOREM Compacted == Spec => []CompactsInOrder
<1>1. TypeOK /\ MsgInv /\ RankInv => CompactsInOrder
  <2> SUFFICES ASSUME TypeOK, MsgInv, RankInv PROVE CompactsInOrder
    OBVIOUS
  <2>1. ASSUME NEW i \in 1 .. Len(raw), Confident(raw[i])
        PROVE  msg[Rank(i)].at = raw[i].at /\ msg[Rank(i)].z = raw[i].z
    <3>1. msg[Rank(i)] = Published(raw[i])
      BY <2>1 DEF RankInv
    <3>2. Published(raw[i]).at = raw[i].at /\ Published(raw[i]).z = raw[i].z
      BY DEF Published
    <3> QED BY <3>1, <3>2
  <2>2. ASSUME NEW i \in 1 .. TotalPoints, i > Rank(Len(raw))
        PROVE  msg[i] = Zeros(origin)[i]
    BY <2>2 DEF RankInv, MsgInv
  <2> QED BY <2>1, <2>2 DEF CompactsInOrder
<1> QED BY <1>1, ImageInv, RanksAlways, PTL

\* In the message a brighter point is never darker, in either format of the frame.
THEOREM NeverDarker == Spec => []BrighterNotDarker
<1>1. TypeOK /\ RankInv => BrighterNotDarker
  <2> SUFFICES ASSUME TypeOK, RankInv, NEW i \in 1 .. Len(raw), NEW j \in 1 .. Len(raw),
                      Confident(raw[i]), Confident(raw[j]), raw[i].intensity <= raw[j].intensity
               PROVE  msg[Rank(i)].intensity <= msg[Rank(j)].intensity
    BY DEF BrighterNotDarker
  <2>1. raw[i] \in RawPoint /\ raw[j] \in RawPoint
    BY DEF TypeOK
  <2>2. raw[i].intensity \in uint16 /\ raw[j].intensity \in uint16
    BY <2>1 DEF RawPoint
  <2>3. Intensity(raw[i].intensity) <= Intensity(raw[j].intensity)
    BY <2>2, IntensityMonotone
  <2>4. msg[Rank(i)] = Published(raw[i]) /\ msg[Rank(j)] = Published(raw[j])
    BY DEF RankInv
  <2> QED BY <2>3, <2>4 DEF Published
<1> QED BY <1>1, TypeCorrect, RanksAlways, PTL

-----------------------------------------------------------------------------
(* Every pixel of the depth image has a sample in the coloured cloud *)

\* What a quotient is.
LEMMA Quotient ==
    ASSUME NEW a \in Nat, NEW b \in Nat \ {0}
    PROVE  a \div b \in Nat /\ (a \div b) * b <= a /\ a < (a \div b) * b + b
  OBVIOUS

\* What only the quotient is.
LEMMA QuotientIs ==
    ASSUME NEW a \in Nat, NEW b \in Nat \ {0}, NEW q \in Nat, q * b <= a, a < q * b + b
    PROVE  a \div b = q
<1> DEFINE d == a \div b
<1>1. d \in Nat /\ d * b <= a /\ a < d * b + b
  BY Quotient
<1> HIDE DEF d
<1>2. CASE d < q
  <2>1. d + 1 <= q
    BY <1>1, <1>2
  <2>2. (d + 1) * b <= q * b
    BY <2>1, <1>1
  <2> QED BY <2>2, <1>1
<1>3. CASE q < d
  <2>1. q + 1 <= d
    BY <1>1, <1>3
  <2>2. (q + 1) * b <= d * b
    BY <2>1, <1>1
  <2> QED BY <2>2, <1>1
<1> QED BY <1>1, <1>2, <1>3 DEF d

\* A cell's pixels of the enlarged image, in one direction: scale of them from lo
\* on, and maybe more.
LEMMA Block ==
    ASSUME NEW size \in Nat, NEW k \in 0 .. (size \div scale) - 1
    PROVE  \E lo \in Nat : \A x \in lo .. lo + scale - 1 :
              x \in 0 .. size - 1 /\ Source(x, size, size \div scale) = k
<1> DEFINE n == size \div scale
<1>1. scale \in Nat \ {0}
  BY SizeAssumption
<1>2. n \in Nat \ {0} /\ n * scale <= size /\ k \in Nat /\ k <= n - 1
  BY <1>1, Quotient
<1> HIDE DEF n
<1>3. size \in Nat \ {0} /\ k * size \in Nat /\ k * size + n - 1 \in Nat
  <2>1. n * scale >= 1
    BY <1>1, <1>2
  <2>2. k * size \in Nat
    BY <1>2
  <2>3. n * scale \in Nat
    BY <1>1, <1>2
  <2>4. size \in Nat \ {0}
    BY <2>1, <2>3, <1>2
  <2>5. k * size + n - 1 \in Nat
    BY <2>2, <1>2
  <2> QED BY <2>2, <2>4, <2>5
<1> DEFINE lo == (k * size + n - 1) \div n
<1>4. lo \in Nat /\ lo * n <= k * size + n - 1 /\ k * size + n - 1 < lo * n + n
  BY <1>2, <1>3, Quotient
<1> HIDE DEF lo
<1>5. ASSUME NEW x \in lo .. lo + scale - 1
      PROVE  x \in 0 .. size - 1 /\ Source(x, size, n) = k
  <2>1. x \in Nat /\ lo <= x /\ x <= lo + (scale - 1)
    BY <1>1, <1>4
  <2>2. lo * n <= x * n
    BY <2>1, <1>2, <1>4
  <2>3. x * n <= (lo + (scale - 1)) * n
    BY <2>1, <1>1, <1>2, <1>4
  <2>4. (lo + (scale - 1)) * n = lo * n + n * scale - n
    BY <1>1, <1>2, <1>4
  <2>5. lo * n \in Nat /\ n * scale \in Nat /\ x * n \in Nat
    BY <2>1, <1>1, <1>2, <1>4
  <2>6. k * size <= x * n /\ x * n < k * size + size
    BY <2>2, <2>3, <2>4, <2>5, <1>2, <1>3, <1>4
  <2>7. (x * n) \div size = k
    BY <2>5, <2>6, <1>2, <1>3, QuotientIs
  <2>8. Source(x, size, n) = k
    BY <2>7, <1>2 DEF Source
  <2>9. x < size
    <3>1. k * size + size <= n * size
      <4>1. k + 1 <= n
        BY <1>2
      <4>2. (k + 1) * size <= n * size
        BY <4>1, <1>2, <1>3
      <4> QED BY <4>2, <1>2, <1>3
    <3>2. x * n < size * n
      BY <3>1, <2>5, <2>6, <1>2, <1>3
    <3> QED BY <3>2, <2>1, <1>2, <1>3
  <2> QED BY <2>1, <2>8, <2>9
<1> QED BY <1>4, <1>5 DEF n

\* A sample whose neighbours on both sides are of the same cell.
Inside(x, size, k) ==
    /\ x \in Sampled(size)
    /\ \A y \in x - 1 .. x + 1 :
          y \in 0 .. size - 1 /\ Source(y, size, size \div scale) = k

\* Among that many pixels there is a sample that is neither the first nor the
\* last, if the rate leaves room for the two.
LEMMA SampleInside ==
    ASSUME scale >= point_sampling_rate + 2,
           NEW size \in Nat, NEW k \in 0 .. (size \div scale) - 1
    PROVE  \E x : Inside(x, size, k)
<1> DEFINE rate == point_sampling_rate
<1>1. scale \in Nat /\ rate \in Nat \ {0} /\ scale >= rate + 2
  BY SizeAssumption
<1>2. PICK lo \in Nat : \A x \in lo .. lo + scale - 1 :
              x \in 0 .. size - 1 /\ Source(x, size, size \div scale) = k
  BY Block
<1> DEFINE q == (lo + rate) \div rate
<1> HIDE DEF rate
<1>3. q \in Nat /\ q * rate <= lo + rate /\ lo + rate < q * rate + rate
  BY <1>1, <1>2, Quotient
<1> HIDE DEF q
<1> DEFINE x == q * rate
<1>4. x \in Nat /\ lo + 1 <= x /\ x <= lo + rate /\ lo + rate <= lo + scale - 2
  BY <1>1, <1>2, <1>3
<1>5. x % rate = 0
  BY <1>1, <1>3
<1> HIDE DEF x
<1>6. \A y \in x - 1 .. x + 1 : y \in lo .. lo + scale - 1
  BY <1>1, <1>2, <1>4
<1>7. x \in x - 1 .. x + 1
  BY <1>4
<1>8. x \in 0 .. size - 1
  BY <1>2, <1>6, <1>7
<1>9. x \in Sampled(size)
  BY <1>5, <1>8 DEF Sampled, rate
<1> QED BY <1>2, <1>6, <1>9 DEF Inside

\* Around a pixel inside a cell there is no edge, for all pixels have its depth.
LEMMA NoEdgeInside ==
    ASSUME TypeOK, NEW c \in Cells, NEW x, NEW y,
           Inside(x, image_width, c[1]), Inside(y, image_height, c[2])
    PROVE  Pixel(x, y) = depth_img[c] /\ CellOf(x, y) = c /\ ~Edge(x, y)
<1>1. x \in Nat /\ y \in Nat
  BY SizeAssumption DEF Inside, Sampled
<1>2. image_width \in Nat /\ image_height \in Nat /\ c = <<c[1], c[2]>>
  BY SizeAssumption DEF Cells
<1>3. ASSUME NEW u \in {x - 1, x, x + 1}, NEW v \in {y - 1, y, y + 1}
      PROVE  CellOf(u, v) = c /\ Pixel(u, v) = depth_img[c]
  <2>1. u \in x - 1 .. x + 1 /\ v \in y - 1 .. y + 1
    BY <1>1
  <2>2. /\ u \in 0 .. image_width - 1 /\ Source(u, image_width, scaled_width) = c[1]
        /\ v \in 0 .. image_height - 1 /\ Source(v, image_height, scaled_height) = c[2]
    BY <2>1 DEF Inside, scaled_width, scaled_height
  <2>3. CellOf(u, v) = c
    BY <2>2, <1>2 DEF CellOf
  <2>4. Reflect(u, image_width) = u /\ Reflect(v, image_height) = v
    BY <2>2, <1>2 DEF Reflect
  <2> QED BY <2>3, <2>4 DEF Pixel
<1>4. depth_img[c] \in Nat
  BY DEF TypeOK
<1>5. grad_x(x, y) = 0
  BY <1>3, <1>4 DEF grad_x
<1>6. grad_y(x, y) = 0
  BY <1>3, <1>4 DEF grad_y
<1>7. ~Edge(x, y)
  BY <1>5, <1>6 DEF Edge
<1> QED BY <1>3, <1>7

\* A rate of at most scale - 2, as 5 is to 7 in the code, samples every pixel of
\* the depth image at a place that no edge removes, whatever the size of the image.
THEOREM PixelsInCloud ==
    ASSUME scale >= point_sampling_rate + 2
    PROVE  Spec => []EveryPixelInCloud
<1>1. TypeOK /\ GenerateColoredCloud => EveryPixelInCloud'
  <2> SUFFICES ASSUME TypeOK, GenerateColoredCloud, NEW c \in Cells, InCloud(depth_img[c])
               PROVE  \E p \in colored_cloud' : CellOf(p[1], p[2]) = c /\ p[3] = depth_img[c]
    BY DEF EveryPixelInCloud, GenerateColoredCloud, InCloud, Cells, CellOf, scaled_width,
       scaled_height
  <2>1. /\ c[1] \in 0 .. (image_width \div scale) - 1
        /\ c[2] \in 0 .. (image_height \div scale) - 1
    BY DEF Cells, scaled_width, scaled_height
  <2>2. PICK x : Inside(x, image_width, c[1])
    BY <2>1, SampleInside, SizeAssumption
  <2>3. PICK y : Inside(y, image_height, c[2])
    BY <2>1, SampleInside, SizeAssumption
  <2>4. Pixel(x, y) = depth_img[c] /\ CellOf(x, y) = c /\ ~Edge(x, y)
    BY <2>2, <2>3, NoEdgeInside
  <2>5. <<x, y>> \in Sampled(image_width) \X Sampled(image_height)
    BY <2>2, <2>3 DEF Inside
  <2>6. <<x, y, Pixel(x, y)>> \in colored_cloud'
    BY <2>4, <2>5 DEF GenerateColoredCloud
  <2> QED BY <2>4, <2>6
<1>2. TypeOK /\ EveryPixelInCloud /\ [Next]_vars => EveryPixelInCloud'
  <2> SUFFICES ASSUME EveryPixelInCloud, TypeOK, [Next]_vars PROVE EveryPixelInCloud'
    OBVIOUS
  <2>1. CASE GenerateColoredCloud
    BY <2>1, <1>1
  <2>2. CASE ConvertPoint \/ PublishCloud \/ ProjectPoint \/ NextFrame
    <3>1. step' # "sample"
      BY <2>2 DEF ConvertPoint, PublishCloud, ProjectPoint, NextFrame
    <3> QED BY <3>1 DEF EveryPixelInCloud
  <2>3. CASE UNCHANGED vars
    BY <2>3 DEF vars, EveryPixelInCloud, InCloud, Cells, CellOf, scaled_width, scaled_height
  <2> QED BY <2>1, <2>2, <2>3 DEF Next
<1>3. Init => EveryPixelInCloud
  BY DEF Init, EveryPixelInCloud
<1> QED BY <1>2, <1>3, TypeCorrect, PTL DEF Spec
=============================================================================
