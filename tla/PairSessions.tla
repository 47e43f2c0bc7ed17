--------------------------- MODULE PairSessions ---------------------------
(***************************************************************************)
(* The queues of PairQueue over the sessions of a device that is unplugged *)
(* and plugged again: clear_all_queues(), which a detach calls, does not   *)
(* clear them (src/host_sdk_sample.cpp), and a data callback that passed   *)
(* the gate of lidar_data_callback() pushes its message after the detach.  *)
(*                                                                         *)
(* try_process_pair() is that of PairQueue.  The callbacks are cut at      *)
(* their delivery, their gate and their push, one at a time for a stream.  *)
(* The clock of the device goes on over a replug, which takes longer than  *)
(* the tolerance, or starts again; the driver does not know which.         *)
(*                                                                         *)
(* Next to each message goes, as history, the session it was delivered in. *)
(*                                                                         *)
(* A definition whose comment starts with "Variant" is not part of the     *)
(* model: it is the definition after it with a likely mistake.             *)
(***************************************************************************)
EXTENDS PairQueue

CONSTANT MaxSessions    \* bound on the attaches, for model checking

ASSUME SessionsAssumption == MaxSessions \in Nat

VARIABLES
    ev,                 \* the device: "detached", or the step of an attach or
                        \* a detach that comes next, or "attached"
    deviceConnected,
    deviceDisconnected,
    looping,            \* main() has found a device and is in its loop
    clock,              \* the last stamp of each stream, when it began for none
    call,               \* per stream: the data callback that runs
    session,            \* history: the attaches so far
    restarted,          \* history: the clock has started again
    rgb_from,           \* history: the sessions of what is in the queues
    pcd_from,
    msg_from,           \* history: the sessions of rgb_msg and pcd_msg
    pairs,              \* history: what was rendered, with the sessions
    fresh,              \* history: pushes of the present session, up to Cap
    late                \* history: pushes while the device is away

device == <<ev, deviceConnected, deviceDisconnected, clock, session, restarted>>
froms == <<rgb_from, pcd_from>>
counts == <<fresh, late>>
sessionVars == <<vars, device, looping, call, froms, msg_from, pairs, counts>>

Streams == {"rgb", "pcd"}

NoCall == [at |-> "none", stamp |-> 0, from |-> 0]

SessionsInit ==
    /\ Init
    /\ ev = "detached"
    /\ deviceConnected = FALSE /\ deviceDisconnected = FALSE
    /\ looping = FALSE
    /\ clock = [s \in Streams |-> 0]
    /\ call = [s \in Streams |-> NoCall]
    /\ session = 0
    /\ restarted = FALSE
    /\ rgb_from = <<>> /\ pcd_from = <<>>
    /\ msg_from = [s \in Streams |-> 0]
    /\ pairs = {}
    /\ fresh = [s \in Streams |-> 0]
    /\ late = [s \in Streams |-> 0]

-----------------------------------------------------------------------------
(* lidar_device_callback() *)

Newest == IF clock["rgb"] > clock["pcd"] THEN clock["rgb"] ELSE clock["pcd"]

\* Who attaches and detaches, and the flags: DeviceLifecycle says how.
Device == INSTANCE DeviceSessions WITH stage <- ev

\* The device streams to a new handle.
Attach ==
    /\ session < MaxSessions
    /\ Device!Attach
    /\ session' = session + 1
    /\ fresh' = [s \in Streams |-> 0]
    /\ \/ /\ clock' = [s \in Streams |-> IF session = 0 THEN 0 ELSE Newest + MaxTimeDiff]
          /\ UNCHANGED restarted
       \/ /\ session > 0
          /\ clock' = [s \in Streams |-> 0]
          /\ restarted' = TRUE
    /\ UNCHANGED <<vars, looping, call, froms, msg_from, pairs, late>>

SetConnected ==
    /\ Device!SetConnected
    /\ late' = [s \in Streams |-> 0]
    /\ UNCHANGED <<vars, clock, session, restarted, looping, call, froms, msg_from, pairs, fresh>>

ResetDisconnected ==
    /\ Device!ResetDisconnected
    /\ UNCHANGED <<vars, clock, session, restarted, looping, call, froms, msg_from, pairs, counts>>

BeginDetach ==
    /\ Device!BeginDetach
    /\ UNCHANGED <<vars, clock, session, restarted, looping, call, froms, msg_from, pairs, counts>>

\* clear_all_queues() resets three variables that nobody reads.
EndDetach ==
    /\ Device!EndDetach
    /\ UNCHANGED <<vars, clock, session, restarted, looping, call, froms, msg_from, pairs, counts>>

DeviceCallback ==
    Attach \/ SetConnected \/ ResetDisconnected \/ BeginDetach \/ EndDetach

-----------------------------------------------------------------------------
(* lidar_data_callback() *)

\* The SDK calls for a session it has begun, also when it has reported its end:
\* nothing stops the stream, and it may have more to hand out.
Deliver(s) ==
    /\ session > 0
    /\ call[s].at = "none"
    /\ \E m \in clock[s] + 1 .. MaxStamp :
          /\ clock' = [clock EXCEPT ![s] = m]
          /\ call' = [call EXCEPT ![s] = [at |-> "gate", stamp |-> m, from |-> session]]
    /\ UNCHANGED <<vars, ev, deviceConnected, deviceDisconnected, session, restarted, looping,
                   froms, msg_from, pairs, counts>>

\* Variant: no gate.
GateOpen(s) ==
    /\ call[s].at = "gate"
    /\ call' = [call EXCEPT ![s] = [@ EXCEPT !.at = "push"]]
    /\ UNCHANGED <<vars, device, looping, froms, msg_from, pairs, counts>>

\* if (!deviceConnected) return
Gate(s) ==
    /\ call[s].at = "gate"
    /\ call' = [call EXCEPT ![s] = IF deviceConnected THEN [@ EXCEPT !.at = "push"] ELSE NoCall]
    /\ UNCHANGED <<vars, device, looping, froms, msg_from, pairs, counts>>

\* A push of stream s, as history has it.
CountPush(s) ==
    /\ fresh' = [fresh EXCEPT ![s] = IF call[s].from = session /\ @ < Cap THEN @ + 1 ELSE @]
    /\ late' = [late EXCEPT ![s] = IF deviceConnected THEN @ ELSE @ + 1]
    /\ call' = [call EXCEPT ![s] = NoCall]
    /\ UNCHANGED <<device, looping, msg_from, pairs>>

PushRgb ==
    /\ call["rgb"].at = "push"
    /\ rgb_image_queue_' = Push(rgb_image_queue_, call["rgb"].stamp)
    /\ rgb_from' = Push(rgb_from, call["rgb"].from)
    /\ rgb_seen' = rgb_seen \cup {call["rgb"].stamp}
    /\ CountPush("rgb")
    /\ evicted' = (evicted \/ Len(rgb_image_queue_) >= Cap)
    /\ UNCHANGED <<pcd_queue_, pcd_from, pc, rgb_msg, pcd_msg, pcd_seen, rendered>>

PushCloud ==
    /\ call["pcd"].at = "push"
    /\ pcd_queue_' = Push(pcd_queue_, call["pcd"].stamp)
    /\ pcd_from' = Push(pcd_from, call["pcd"].from)
    /\ pcd_seen' = pcd_seen \cup {call["pcd"].stamp}
    /\ CountPush("pcd")
    /\ evicted' = (evicted \/ Len(pcd_queue_) >= Cap)
    /\ UNCHANGED <<rgb_image_queue_, rgb_from, pc, rgb_msg, pcd_msg, rgb_seen, rendered>>

DataCallback == (\E s \in Streams : Deliver(s) \/ Gate(s)) \/ PushRgb \/ PushCloud

-----------------------------------------------------------------------------
(* main() *)

\* while (!deviceConnected)
DeviceFound ==
    /\ ~looping
    /\ deviceConnected
    /\ looping' = TRUE
    /\ UNCHANGED <<vars, device, call, froms, msg_from, pairs, counts>>

\* Both loops sleep and look again.
Sleep ==
    /\ pc = "idle"
    /\ looping => deviceDisconnected
    /\ UNCHANGED sessionVars

\* Nothing is processed while deviceDisconnected is set, but a call that has
\* begun goes on.
BeginCall ==
    /\ looping
    /\ ~deviceDisconnected
    /\ Call
    /\ UNCHANGED <<device, looping, call, froms, msg_from, pairs, counts>>

CopyFronts ==
    /\ Look
    /\ msg_from' = [rgb |-> Head(rgb_from), pcd |-> Head(pcd_from)]
    /\ UNCHANGED <<device, looping, call, froms, pairs, counts>>

\* The fronts that PairQueue removes.
RemoveFronts ==
    /\ DropOlder \/ TakePair
    /\ rgb_from' = IF rgb_image_queue_' = rgb_image_queue_ THEN rgb_from ELSE Tail(rgb_from)
    /\ pcd_from' = IF pcd_queue_' = pcd_queue_ THEN pcd_from ELSE Tail(pcd_from)
    /\ UNCHANGED <<device, looping, call, msg_from, pairs, counts>>

RenderPair ==
    /\ ProcessPair
    /\ pairs' = pairs \cup {[rgb |-> <<msg_from["rgb"], rgb_msg>>,
                             pcd |-> <<msg_from["pcd"], pcd_msg>>]}
    /\ UNCHANGED <<device, looping, call, froms, msg_from, counts>>

ReturnFromCall ==
    /\ Return
    /\ UNCHANGED <<device, looping, call, froms, msg_from, pairs, counts>>

Main == DeviceFound \/ BeginCall \/ CopyFronts \/ RemoveFronts \/ RenderPair \/ ReturnFromCall

SessionsNext == DeviceCallback \/ DataCallback \/ Main \/ Sleep

SessionsSpec == SessionsInit /\ [][SessionsNext]_sessionVars

-----------------------------------------------------------------------------
(* Properties *)

SessionsTypeOK ==
    /\ TypeOK
    /\ ev \in {"detached", "start", "reset", "attached", "detach"}
    /\ deviceConnected \in BOOLEAN /\ deviceDisconnected \in BOOLEAN
    /\ looping \in BOOLEAN /\ restarted \in BOOLEAN
    /\ session \in Nat
    /\ clock \in [Streams -> Nat]
    /\ call \in [Streams -> [at : {"none", "gate", "push"}, stamp : Nat, from : Nat]]
    /\ rgb_from \in Seq(Nat) /\ Len(rgb_from) = Len(rgb_image_queue_)
    /\ pcd_from \in Seq(Nat) /\ Len(pcd_from) = Len(pcd_queue_)
    /\ msg_from \in [Streams -> Nat]
    /\ pairs \subseteq [rgb : Nat \X Nat, pcd : Nat \X Nat]
    /\ fresh \in [Streams -> 0 .. Cap]
    /\ late \in [Streams -> Nat]

\* If the clock of the device never started again, a pair that is rendered is of
\* one session, although nothing clears the queues on a detach: the stamps keep
\* try_process_pair() from it.
MixesOnlyAfterRestart ==
    ~restarted => \A p \in pairs : p.rgb[1] = p.pcd[1]

Before(a, b) == a[1] < b[1] \/ (a[1] = b[1] /\ a[2] < b[2])

\* Over any replugs, and whatever the clock does, images and clouds are rendered
\* in the order of their delivery: what is left of a session comes before the
\* next, and no message is rendered with two others.
RendersInSessionOrder ==
    \A p, q \in pairs : Before(p.rgb, q.rgb) <=> Before(p.pcd, q.pcd)

\* What a session left behind is gone from a queue once the next has pushed Cap
\* messages into it: only the bound on the queue clears it for sure.
StaleGoneAfterCap ==
    /\ fresh["rgb"] = Cap => \A i \in 1 .. Len(rgb_from) : rgb_from[i] = session
    /\ fresh["pcd"] = Cap => \A i \in 1 .. Len(pcd_from) : pcd_from[i] = session

\* While the device is away at most one message of each stream is pushed: that of
\* a callback which had passed the gate before the detach.
LateAtMostOne ==
    ~deviceConnected => \A s \in Streams : late[s] <= 1

-----------------------------------------------------------------------------
(* What a comment of the code says, and the code does not do *)

\* "Clear all queues", of the function a detach calls: an image is never rendered
\* onto a cloud of another session.
RendersOneSession == \A p \in pairs : p.rgb[1] = p.pcd[1]
=============================================================================
