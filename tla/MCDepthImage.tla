---------------------------- MODULE MCDepthImage ----------------------------
(* Points on every pixel of a small image and next to it, behind the camera, *)
(* too close for the cloud, and at depths that differ by an edge.            *)
EXTENDS DepthImage

MCPoints ==
    {[at |-> <<u, v>>, z |-> z, intensity |-> 7, confidence |-> 35] :
        u \in {-1, 0, 1, 2}, v \in {0, 1}, z \in {-20, 1, 20, 40}}
    \cup {[at |-> <<1, 0>>, z |-> 20, intensity |-> 7, confidence |-> 34]}

MCPlainPoints ==
    {[at |-> <<1, 1>>, z |-> 20, intensity |-> i, confidence |-> 0] :
        i \in {0, 9, 10, 58, 59, 12499, 12500, 12549, 12600, 65535}}

MCOrigins == {[at |-> <<1, 0>>, z |-> -1], [at |-> <<1, 0>>, z |-> 1]}
=============================================================================
