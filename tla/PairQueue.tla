----------------------------- MODULE PairQueue -----------------------------
(***************************************************************************)
(* The queues between the SDK's data callbacks and the main loop, in       *)
(* MultiSensorPublisher of include/host_sdk_sample.h: publishRgb() and     *)
(* publishIntensityCloud() push messages, try_process_pair() looks at both *)
(* fronts, releases the locks, and then removes the older one or takes     *)
(* both to render the image onto the cloud.                                *)
(*                                                                         *)
(* A message is its time stamp: the device stamps each stream in strictly  *)
(* increasing order.  Nothing relates the two streams.  Every section      *)
(* under the queue mutexes is one step.                                    *)
(*                                                                         *)
(* A definition whose comment starts with "Variant" is not part of the     *)
(* model: it is the definition after it with a likely mistake.             *)
(***************************************************************************)
EXTENDS Integers, Sequences, FiniteSets, SequencesExt

CONSTANTS
    Cap,            \* messages a queue holds: 10 in the code
    MaxTimeDiff,    \* MAX_TIME_DIFF: 50 ms in the code
    MaxStamp        \* bound on the stamps, for model checking

ASSUME CapAssumption == Cap \in Nat \ {0}
ASSUME TimeAssumption == MaxTimeDiff \in Nat /\ MaxStamp \in Nat

VARIABLES
    rgb_image_queue_,
    pcd_queue_,
    pc,             \* where try_process_pair() is: "idle" (not called), "look",
                    \* "decide" (fronts copied, locks released), "render"
    rgb_msg,        \* the fronts it copied
    pcd_msg,
    rgb_seen,       \* history: all stamps of a stream so far
    pcd_seen,
    rendered,       \* history: the pairs handed to process_pair()
    evicted         \* history: whether a full queue ever dropped its front

queues == <<rgb_image_queue_, pcd_queue_>>
seen == <<rgb_seen, pcd_seen>>
vars == <<queues, pc, rgb_msg, pcd_msg, seen, rendered, evicted>>

TypeOK ==
    /\ rgb_image_queue_ \in Seq(Nat)
    /\ pcd_queue_ \in Seq(Nat)
    /\ Len(rgb_image_queue_) <= Cap
    /\ Len(pcd_queue_) <= Cap
    /\ pc \in {"idle", "look", "decide", "render"}
    /\ rgb_msg \in Nat
    /\ pcd_msg \in Nat
    /\ rgb_seen \subseteq Nat
    /\ pcd_seen \subseteq Nat
    /\ rendered \subseteq rgb_seen \X pcd_seen
    /\ evicted \in BOOLEAN

Init ==
    /\ rgb_image_queue_ = <<>>
    /\ pcd_queue_ = <<>>
    /\ pc = "idle"
    /\ rgb_msg = 0
    /\ pcd_msg = 0
    /\ rgb_seen = {}
    /\ pcd_seen = {}
    /\ rendered = {}
    /\ evicted = FALSE

-----------------------------------------------------------------------------
(* The data callbacks *)

\* Variants: one message too many, one too few.
PushLate(queue, m) == Append(IF Len(queue) > Cap THEN Tail(queue) ELSE queue, m)
PushEarly(queue, m) == Append(IF Len(queue) + 1 >= Cap THEN SubSeq(queue, 2, Len(queue)) ELSE queue, m)

\* A full queue makes room at its front.
Push(queue, m) == Append(IF Len(queue) >= Cap THEN Tail(queue) ELSE queue, m)

Newer(stamps) == {m \in 1 .. MaxStamp : \A s \in stamps : s < m}

PublishRgb ==
    /\ \E m \in Newer(rgb_seen) :
          /\ rgb_image_queue_' = Push(rgb_image_queue_, m)
          /\ rgb_seen' = rgb_seen \cup {m}
    /\ evicted' = (evicted \/ Len(rgb_image_queue_) >= Cap)
    /\ UNCHANGED <<pcd_queue_, pc, rgb_msg, pcd_msg, pcd_seen, rendered>>

PublishCloud ==
    /\ \E m \in Newer(pcd_seen) :
          /\ pcd_queue_' = Push(pcd_queue_, m)
          /\ pcd_seen' = pcd_seen \cup {m}
    /\ evicted' = (evicted \/ Len(pcd_queue_) >= Cap)
    /\ UNCHANGED <<rgb_image_queue_, pc, rgb_msg, pcd_msg, rgb_seen, rendered>>

-----------------------------------------------------------------------------
(* try_process_pair(), called by the main loop ten times a second *)

Call ==
    /\ pc = "idle"
    /\ pc' = "look"
    /\ UNCHANGED <<queues, rgb_msg, pcd_msg, seen, rendered, evicted>>

\* Variant: "||" for "&&", and the message of the last round for a missing one.
LookAtEither ==
    /\ pc = "look"
    /\ rgb_image_queue_ # <<>> \/ pcd_queue_ # <<>>
    /\ rgb_msg' = IF rgb_image_queue_ = <<>> THEN rgb_msg ELSE Head(rgb_image_queue_)
    /\ pcd_msg' = IF pcd_queue_ = <<>> THEN pcd_msg ELSE Head(pcd_queue_)
    /\ pc' = "decide"
    /\ UNCHANGED <<queues, seen, rendered, evicted>>

\* Both fronts are copied, and nothing is held any more.
Look ==
    /\ pc = "look"
    /\ rgb_image_queue_ # <<>>
    /\ pcd_queue_ # <<>>
    /\ rgb_msg' = Head(rgb_image_queue_)
    /\ pcd_msg' = Head(pcd_queue_)
    /\ pc' = "decide"
    /\ UNCHANGED <<queues, seen, rendered, evicted>>

Return ==
    /\ pc = "look"
    /\ rgb_image_queue_ = <<>> \/ pcd_queue_ = <<>>
    /\ pc' = "idle"
    /\ UNCHANGED <<queues, rgb_msg, pcd_msg, seen, rendered, evicted>>

time_diff == rgb_msg - pcd_msg

\* Variant: a tolerance on one side only.
OneSidedInRange == time_diff <= MaxTimeDiff

InRange == time_diff <= MaxTimeDiff /\ -time_diff <= MaxTimeDiff

\* Variant: the newer message removed.
DropNewer ==
    /\ pc = "decide"
    /\ ~InRange
    /\ IF time_diff < 0
         THEN pcd_queue_' = Tail(pcd_queue_) /\ UNCHANGED rgb_image_queue_
         ELSE rgb_image_queue_' = Tail(rgb_image_queue_) /\ UNCHANGED pcd_queue_
    /\ pc' = "look"
    /\ UNCHANGED <<rgb_msg, pcd_msg, seen, rendered, evicted>>

\* Variant: both messages removed.
DropBoth ==
    /\ pc = "decide"
    /\ ~InRange
    /\ pcd_queue_' = Tail(pcd_queue_)
    /\ rgb_image_queue_' = Tail(rgb_image_queue_)
    /\ pc' = "look"
    /\ UNCHANGED <<rgb_msg, pcd_msg, seen, rendered, evicted>>

\* The front that is there now goes, whichever was compared.
DropOlder ==
    /\ pc = "decide"
    /\ ~InRange
    /\ IF time_diff > 0
         THEN pcd_queue_' = Tail(pcd_queue_) /\ UNCHANGED rgb_image_queue_
         ELSE rgb_image_queue_' = Tail(rgb_image_queue_) /\ UNCHANGED pcd_queue_
    /\ pc' = "look"
    /\ UNCHANGED <<rgb_msg, pcd_msg, seen, rendered, evicted>>

\* Variant: the messages stay in the queues.
TakeCopy ==
    /\ pc = "decide"
    /\ InRange
    /\ pc' = "render"
    /\ UNCHANGED <<queues, rgb_msg, pcd_msg, seen, rendered, evicted>>

\* Variant: the cloud stays in its queue.
TakeImage ==
    /\ pc = "decide"
    /\ InRange
    /\ rgb_image_queue_' = Tail(rgb_image_queue_)
    /\ pc' = "render"
    /\ UNCHANGED <<pcd_queue_, rgb_msg, pcd_msg, seen, rendered, evicted>>

TakePair ==
    /\ pc = "decide"
    /\ InRange
    /\ rgb_image_queue_' = Tail(rgb_image_queue_)
    /\ pcd_queue_' = Tail(pcd_queue_)
    /\ pc' = "render"
    /\ UNCHANGED <<rgb_msg, pcd_msg, seen, rendered, evicted>>

\* process_pair() with the copies, whatever was removed from the queues.
ProcessPair ==
    /\ pc = "render"
    /\ rendered' = rendered \cup {<<rgb_msg, pcd_msg>>}
    /\ pc' = "look"
    /\ UNCHANGED <<queues, rgb_msg, pcd_msg, seen, evicted>>

TryProcessPair == Call \/ Look \/ Return \/ DropOlder \/ TakePair \/ ProcessPair

Next == PublishRgb \/ PublishCloud \/ TryProcessPair

SafeSpec == Init /\ [][Next]_vars

\* The main loop keeps running; the device owes nobody a message.
Spec == SafeSpec /\ WF_vars(TryProcessPair)

-----------------------------------------------------------------------------
(* Properties *)

\* pop_front() never meets an empty deque, though both locks were released since
\* the fronts were looked at: a producer that removes a front adds a message
\* (DropOlder and TakePair of try_process_pair).
NeverPopsEmpty ==
    pc = "decide" => rgb_image_queue_ # <<>> /\ pcd_queue_ # <<>>

\* What is removed is what was compared, unless its queue was full: only a full
\* queue can lose its front behind the back of try_process_pair().
PopsWhatItCompared ==
    pc = "decide" =>
        /\ Head(rgb_image_queue_) = rgb_msg \/ Len(rgb_image_queue_) = Cap
        /\ Head(pcd_queue_) = pcd_msg \/ Len(pcd_queue_) = Cap

\* Images and clouds are rendered in the order of their stamps, each at most
\* once, and only within the tolerance (try_process_pair as a whole).
RendersInOrder ==
    \A a, b \in rendered :
        /\ a[1] - a[2] \in -MaxTimeDiff .. MaxTimeDiff
        /\ a[1] < b[1] <=> a[2] < b[2]

\* If the fronts did not change, the message that is removed has no partner in
\* the other queue, nor among the messages to come: nothing renderable is lost
\* by looking at the fronts only (the removal of try_process_pair).
NoPartner(m, queue, stamps) ==
    /\ \A i \in 1 .. Len(queue) : queue[i] - m > MaxTimeDiff
    /\ \A n \in Newer(stamps) : n - m > MaxTimeDiff

DiscardIsSafe ==
    [][ pc = "decide" /\ pc' = "look"
        /\ Head(rgb_image_queue_) = rgb_msg /\ Head(pcd_queue_) = pcd_msg =>
          /\ pcd_queue_' = pcd_queue_ => NoPartner(rgb_msg, pcd_queue_, pcd_seen)
          /\ rgb_image_queue_' = rgb_image_queue_ => NoPartner(pcd_msg, rgb_image_queue_, rgb_seen)
      ]_vars

\* As long as no queue overflowed, try_process_pair() returns with as many pairs
\* rendered as any way to pair the messages could give, although it only ever
\* looks at the two fronts.
Partners == {p \in rgb_seen \X pcd_seen : p[1] - p[2] \in -MaxTimeDiff .. MaxTimeDiff}

IsMatching(M) == \A a, b \in M : a # b => a[1] # b[1] /\ a[2] # b[2]

RendersAllItCan ==
    pc = "look" /\ (rgb_image_queue_ = <<>> \/ pcd_queue_ = <<>>) /\ ~evicted =>
        \A M \in kSubset(Cardinality(rendered) + 1, Partners) : ~IsMatching(M)

\* A call of try_process_pair() returns, unless messages keep coming for ever:
\* every turn of its loop removes something.
CallReturns == pc # "idle" ~> pc = "idle"

-----------------------------------------------------------------------------
(* Why the safety properties hold: an inductive invariant *)

Increasing(queue) == \A i, j \in 1 .. Len(queue) : i < j => queue[i] < queue[j]

From(queue, stamps) == \A i \in 1 .. Len(queue) : queue[i] \in stamps

\* m is not newer than what the queue holds; m is older.
NotNewer(m, queue) == \A i \in 1 .. Len(queue) : m <= queue[i]
Older(m, queue) == \A i \in 1 .. Len(queue) : m < queue[i]

QueueInv ==
    /\ Increasing(rgb_image_queue_) /\ From(rgb_image_queue_, rgb_seen)
    /\ Increasing(pcd_queue_) /\ From(pcd_queue_, pcd_seen)

CopyInv ==
    /\ pc = "decide" =>
          NotNewer(rgb_msg, rgb_image_queue_) /\ NotNewer(pcd_msg, pcd_queue_)
    /\ pc = "render" =>
          Older(rgb_msg, rgb_image_queue_) /\ Older(pcd_msg, pcd_queue_) /\ InRange
    /\ pc \in {"decide", "render"} =>
          /\ rgb_msg \in rgb_seen /\ pcd_msg \in pcd_seen
          /\ \A p \in rendered : p[1] < rgb_msg /\ p[2] < pcd_msg

RenderedInv ==
    \A p \in rendered : Older(p[1], rgb_image_queue_) /\ Older(p[2], pcd_queue_)

\* The queues are sorted, and what was rendered or copied is older than what
\* they still hold: what the safety properties follow from.
Inv ==
    /\ TypeOK
    /\ QueueInv
    /\ CopyInv
    /\ RenderedInv
    /\ NeverPopsEmpty
    /\ PopsWhatItCompared
    /\ RendersInOrder

-----------------------------------------------------------------------------
(* What a comment of the code says, and the code does not do *)

\* "Remove older timestamped message": what the branch removes is older than the
\* message it was compared with.
RemovesTheOlder ==
    [][ pc = "decide" /\ pc' = "look" =>
          IF time_diff > 0 THEN Head(pcd_queue_) < rgb_msg
                           ELSE Head(rgb_image_queue_) < pcd_msg ]_vars
=============================================================================
