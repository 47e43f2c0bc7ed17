------------------------------ MODULE LogFile ------------------------------
(***************************************************************************)
(* What one log of the recording promises to its users, without saying     *)
(* how: an append-only file that always holds a prefix of the accepted     *)
(* frames and that, once it was shut down, holds all frames accepted       *)
(* before the shutdown, unless the medium broke.                           *)
(*                                                                         *)
(* The k-th accepted frame is called k, so the log is known by its length. *)
(* Frames may still be accepted after the shutdown began; the log then     *)
(* promises nothing about them.                                            *)
(***************************************************************************)
EXTENDS Naturals, Sequences

VARIABLES
    accepted,   \* number of frames the log accepted
    disk,       \* the frames on disk
    sealed,     \* number of frames accepted when the shutdown began
    phase,      \* "open", "sealed" (shutdown began) or "closed" (it returned)
    medium      \* "ok" or "broken"

vars == <<accepted, disk, sealed, phase, medium>>

Init ==
    /\ accepted = 0
    /\ disk = <<>>
    /\ sealed = 0
    /\ phase = "open"
    /\ medium = "ok"

Accept ==
    /\ accepted' = accepted + 1
    /\ UNCHANGED <<disk, sealed, phase, medium>>

\* Any number of frames may reach the disk at once, but never out of order.
Persist ==
    /\ phase # "closed"
    /\ \E n \in Len(disk) + 1 .. accepted : disk' = [i \in 1 .. n |-> i]
    /\ UNCHANGED <<accepted, sealed, phase, medium>>

Seal ==
    /\ phase = "open"
    /\ sealed' = accepted
    /\ phase' = "sealed"
    /\ UNCHANGED <<accepted, disk, medium>>

Close ==
    /\ phase = "sealed"
    /\ medium = "ok" => Len(disk) >= sealed
    /\ phase' = "closed"
    /\ UNCHANGED <<accepted, disk, sealed, medium>>

\* The medium breaks, possibly in the middle of bringing frames to the disk.
Break ==
    /\ phase # "closed"
    /\ medium' = "broken"
    /\ \/ UNCHANGED disk
       \/ \E n \in Len(disk) + 1 .. accepted : disk' = [i \in 1 .. n |-> i]
    /\ UNCHANGED <<accepted, sealed, phase>>

Next == Accept \/ Persist \/ Seal \/ Close \/ Break

SafeSpec == Init /\ [][Next]_vars

\* A shutdown that began returns.
Spec ==
    /\ SafeSpec
    /\ WF_vars(phase = "sealed" /\ Persist)
    /\ WF_vars(Close)
=============================================================================
