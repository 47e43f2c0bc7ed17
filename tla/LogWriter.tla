----------------------------- MODULE LogWriter -----------------------------
(***************************************************************************)
(* BinaryDataLogger::Writer of include/data_logger.h: the SDK's callback   *)
(* threads enqueue frames, a worker thread writes them to one file in      *)
(* batches, and the owner (the destructor of BinaryDataLogger) shuts the   *)
(* writer down while callbacks may still be running.                       *)
(*                                                                         *)
(* Every section under mtx is one step; the notify_one() that follows it,  *)
(* outside the lock, is another.  The k-th frame that enters pending is    *)
(* called k, whoever brings it.                                            *)
(*                                                                         *)
(* A definition whose comment starts with "Variant" is not part of the     *)
(* model: it is the definition after it with a likely mistake, kept to see *)
(* the properties catch it.                                                *)
(***************************************************************************)
EXTENDS Integers, Sequences, SequencesExt

CONSTANTS
    Producers,      \* the threads that call enqueue()
    BatchSize,      \* Options::batch_size
    MaxFrames       \* bound on the number of frames, for model checking

ASSUME BatchAssumption == BatchSize \in Nat \ {0}
ASSUME FramesAssumption == MaxFrames \in Nat

VARIABLES
    accepted,       \* number of frames enqueued so far
    pending,        \* Writer::pending
    write_queue,    \* Writer::write_queue, a queue of batches
    stop,           \* Writer::stop
    batch,          \* what is left of the batch the worker is writing
    out,            \* the frames the worker's ofstream took
    flushed,        \* how many of them are known to be in the file
    stream,         \* state of the ofstream: "good", or "bad" for ever after
    worker,         \* where the worker thread is
    producer,       \* per producer: "idle", or "notify" before notify_one()
    owner,          \* where the owner is in shutdown() and ~Writer()
    sealed          \* history: number of frames accepted before the shutdown

file == <<out, flushed, stream>>
queues == <<pending, write_queue>>
vars == <<accepted, queues, stop, batch, file, worker, producer, owner, sealed>>

WorkerStates == {"start", "check", "waiting", "write", "flush", "exited", "failed"}
OwnerStates == {"using", "notify", "join", "closed", "destroyed"}

Ended == worker \in {"exited", "failed"}

TypeOK ==
    /\ accepted \in Nat
    /\ pending \in Seq(Nat)
    /\ write_queue \in Seq(Seq(Nat))
    /\ stop \in BOOLEAN
    /\ batch \in Seq(Nat)
    /\ out \in Seq(Nat)
    /\ flushed \in 0 .. Len(out)
    /\ stream \in {"good", "bad"}
    /\ worker \in WorkerStates
    /\ producer \in [Producers -> {"idle", "notify"}]
    /\ owner \in OwnerStates
    /\ sealed \in 0 .. accepted

Init ==
    /\ accepted = 0
    /\ pending = <<>>
    /\ write_queue = <<>>
    /\ stop = FALSE
    /\ batch = <<>>
    /\ out = <<>>
    /\ flushed = 0
    /\ stream = "good"
    /\ worker = "start"
    /\ producer = [p \in Producers |-> "idle"]
    /\ owner = "using"
    /\ sealed = 0

-----------------------------------------------------------------------------
(* Enqueueing *)

\* Variant: the batch put at the wrong end of the queue.
SwapToFront(frames) ==
    /\ write_queue' = IF frames = <<>> THEN write_queue ELSE <<frames>> \o write_queue
    /\ pending' = <<>>

\* swap_pending_unlocked(), with pending = frames.
SwapPending(frames) ==
    /\ write_queue' = IF frames = <<>> THEN write_queue ELSE Append(write_queue, frames)
    /\ pending' = <<>>

Full(frames) == Len(frames) >= BatchSize

Enqueue(p) ==
    /\ owner # "destroyed"
    /\ producer[p] = "idle"
    /\ accepted < MaxFrames
    /\ accepted' = accepted + 1
    /\ LET frames == Append(pending, accepted + 1)
       IN  IF Full(frames)
             THEN SwapPending(frames)
             ELSE pending' = frames /\ UNCHANGED write_queue
    /\ producer' = [producer EXCEPT ![p] = "notify"]
    /\ UNCHANGED <<stop, batch, file, worker, owner, sealed>>

\* Variant: the notify_one() left out.
NobodyWoken == UNCHANGED worker

\* notify_one(): wakes the worker if it waits on cv, else does nothing.
NotifyOne == worker' = IF worker = "waiting" THEN "check" ELSE worker

ProducerNotify(p) ==
    /\ producer[p] = "notify"
    /\ producer' = [producer EXCEPT ![p] = "idle"]
    /\ NotifyOne
    /\ UNCHANGED <<accepted, queues, stop, batch, file, owner, sealed>>

-----------------------------------------------------------------------------
(* The worker thread: run() *)

OpenFile ==
    /\ worker = "start"
    /\ worker' = "check"
    /\ UNCHANGED <<accepted, queues, stop, batch, file, producer, owner, sealed>>

OpenFails ==
    /\ worker = "start"
    /\ worker' = "failed"
    /\ UNCHANGED <<accepted, queues, stop, batch, file, producer, owner, sealed>>

\* cv.wait with a false predicate: release mtx and wait, in one step.
Sleep ==
    /\ worker = "check"
    /\ ~stop
    /\ write_queue = <<>>
    /\ worker' = "waiting"
    /\ UNCHANGED <<accepted, queues, stop, batch, file, producer, owner, sealed>>

\* A condition variable may wake a waiter nobody notified.
SpuriousWakeup ==
    /\ worker = "waiting"
    /\ worker' = "check"
    /\ UNCHANGED <<accepted, queues, stop, batch, file, producer, owner, sealed>>

TakeBatch ==
    /\ worker = "check"
    /\ write_queue # <<>>
    /\ batch' = Head(write_queue)
    /\ write_queue' = Tail(write_queue)
    /\ worker' = "write"
    /\ UNCHANGED <<accepted, pending, stop, file, producer, owner, sealed>>

\* Variant: stop looked at before the queue.
FinishEarly ==
    /\ worker = "check"
    /\ stop
    /\ worker' = "exited"
    /\ flushed' \in flushed .. Len(out)
    /\ UNCHANGED <<accepted, queues, stop, batch, out, stream, producer, owner, sealed>>

\* The break; leaving run() closes the stream, which may still bring to the
\* file what an earlier failure left in its buffer.
Finish ==
    /\ worker = "check"
    /\ write_queue = <<>>
    /\ stop
    /\ worker' = "exited"
    /\ flushed' \in flushed .. Len(out)
    /\ UNCHANGED <<accepted, queues, stop, batch, out, stream, producer, owner, sealed>>

NextFrame ==
    /\ worker = "write"
    /\ batch' = Tail(batch)
    /\ worker' = IF Len(batch) = 1 THEN "flush" ELSE "write"

WriteFrame ==
    /\ NextFrame
    /\ stream = "good"
    /\ out' = Append(out, Head(batch))
    /\ UNCHANGED <<accepted, queues, stop, flushed, stream, producer, owner, sealed>>

\* Variant: a stream that is cleared after a failed write.
FrameSkipped ==
    /\ NextFrame
    /\ UNCHANGED <<accepted, queues, stop, file, producer, owner, sealed>>

\* out.write sets badbit, or finds it set: run() does not look, and goes on.
WriteFails ==
    /\ NextFrame
    /\ stream' = "bad"
    /\ UNCHANGED <<accepted, queues, stop, out, flushed, producer, owner, sealed>>

\* Variant: no flush after the batch.
FlushForgotten ==
    /\ worker = "flush"
    /\ stream = "good"
    /\ worker' = "check"
    /\ UNCHANGED <<accepted, queues, stop, batch, file, producer, owner, sealed>>

Flush ==
    /\ worker = "flush"
    /\ stream = "good"
    /\ flushed' = Len(out)
    /\ worker' = "check"
    /\ UNCHANGED <<accepted, queues, stop, batch, out, stream, producer, owner, sealed>>

FlushFails ==
    /\ worker = "flush"
    /\ stream' = "bad"
    /\ flushed' \in flushed .. Len(out)
    /\ worker' = "check"
    /\ UNCHANGED <<accepted, queues, stop, batch, out, producer, owner, sealed>>

Worker ==
    \/ OpenFile
    \/ OpenFails
    \/ Sleep
    \/ TakeBatch
    \/ Finish
    \/ WriteFrame
    \/ WriteFails
    \/ Flush
    \/ FlushFails

-----------------------------------------------------------------------------
(* The owner: shutdown(), and ~Writer() with its second shutdown() *)

\* Variant: stop set without a notify_one().
ShutdownSilently ==
    /\ owner = "using"
    /\ SwapPending(pending)
    /\ stop' = TRUE
    /\ sealed' = accepted
    /\ owner' = "join"
    /\ UNCHANGED <<accepted, batch, file, worker, producer>>

ShutdownBegin ==
    /\ owner = "using"
    /\ ~stop
    /\ SwapPending(pending)
    /\ stop' = TRUE
    /\ sealed' = accepted
    /\ owner' = "notify"
    /\ UNCHANGED <<accepted, batch, file, worker, producer>>

OwnerNotify ==
    /\ owner = "notify"
    /\ owner' = "join"
    /\ NotifyOne
    /\ UNCHANGED <<accepted, queues, stop, batch, file, producer, sealed>>

\* Variant: shutdown() without the join.
JoinSkipped ==
    /\ owner = "join"
    /\ owner' = "closed"
    /\ UNCHANGED <<accepted, queues, stop, batch, file, worker, producer, sealed>>

Join ==
    /\ owner = "join"
    /\ Ended
    /\ owner' = "closed"
    /\ UNCHANGED <<accepted, queues, stop, batch, file, worker, producer, sealed>>

\* ~Writer() calls shutdown() again, which returns at once because stop is
\* set.  Nobody may be inside enqueue() any more.
Destroy ==
    /\ owner = "closed"
    /\ stop
    /\ \A p \in Producers : producer[p] = "idle"
    /\ owner' = "destroyed"
    /\ UNCHANGED <<accepted, queues, stop, batch, file, worker, producer, sealed>>

\* The writer is gone.
Gone == owner = "destroyed" /\ UNCHANGED vars

Next ==
    \/ \E p \in Producers : Enqueue(p) \/ ProducerNotify(p)
    \/ Worker
    \/ SpuriousWakeup
    \/ ShutdownBegin
    \/ OwnerNotify
    \/ Join
    \/ Destroy
    \/ Gone

SafeSpec == Init /\ [][Next]_vars

(***************************************************************************)
(* Threads that can run do run: the worker, and whoever is between its     *)
(* critical section and its notify_one().  Nobody has to enqueue, to shut  *)
(* down or to wake spuriously, and the stream does not have to fail.       *)
(***************************************************************************)
Fairness ==
    /\ WF_vars(Worker)
    /\ \A p \in Producers : WF_vars(ProducerNotify(p))
    /\ WF_vars(OwnerNotify)
    /\ WF_vars(Join)

Spec == SafeSpec /\ Fairness

-----------------------------------------------------------------------------
(* Properties *)

Log == INSTANCE LogFile WITH
    disk <- SubSeq(out, 1, flushed),
    phase <- IF owner = "using" THEN "open"
             ELSE IF owner \in {"notify", "join"} THEN "sealed" ELSE "closed",
    medium <- IF stream = "bad" \/ worker = "failed" THEN "broken" ELSE "ok"

\* The writer keeps the promises of LogFile: the file is a prefix of what was
\* enqueued at every moment, shutdown() returns only with everything enqueued
\* before it in the file, and it does return (Writer::enqueue, run, shutdown).
RefinesLogFile == Log!Spec

\* No frame is lost, duplicated or overtaken between enqueue() and the stream,
\* as long as the stream takes frames (enqueue, swap_pending_unlocked, run).
NothingLost ==
    stream = "good" =>
        out \o batch \o FlattenSeq(write_queue) \o pending = [i \in 1 .. accepted |-> i]

\* After a failed write the file may be short, but it never has a gap: badbit
\* sticks, so nothing that comes after the failure is written (run).
NoGap == \A i \in 1 .. Len(out) : out[i] = i

\* When shutdown() has returned, the worker has ended and every frame enqueued
\* before the call is in the file, if the file could be opened and written
\* (shutdown).
ShutdownDurable ==
    owner \in {"closed", "destroyed"} =>
        /\ Ended
        /\ stream = "good" /\ worker = "exited" => flushed >= sealed

\* A worker that waits although it has something to do is about to be notified
\* (the notify_one() calls come after the lock is released).
NoLostWakeup ==
    worker = "waiting" /\ (stop \/ write_queue # <<>>) =>
        owner = "notify" \/ \E p \in Producers : producer[p] = "notify"

\* What a crash, or an exit without the destructor, can cost: while the worker
\* waits with nobody about to notify it, fewer than batch_size frames are not
\* in the file (enqueue moves a batch at batch_size, run flushes each batch).
IdleLoss ==
    /\ worker = "waiting"
    /\ owner = "using"
    /\ \A p \in Producers : producer[p] = "idle"
    /\ stream = "good"
    => accepted - flushed < BatchSize

\* Batches are full, except the one that shutdown() makes of the leftovers
\* (enqueue, shutdown).
BatchesFull ==
    /\ Len(pending) < BatchSize
    /\ \A i \in 1 .. Len(write_queue) :
          \/ Len(write_queue[i]) = BatchSize
          \/ stop /\ Last(write_queue[i]) = sealed

\* A full batch gets to the file although nobody shuts the writer down, unless
\* the file cannot be opened or written (run).
BatchReachesFile ==
    \A n \in 1 .. MaxFrames :
        accepted - Len(pending) >= n ~>
            flushed >= n \/ stream = "bad" \/ Ended

-----------------------------------------------------------------------------
(* Why the safety properties hold: an inductive invariant *)

\* s holds the frames that follow the first k.
Follow(s, k) == \A i \in 1 .. Len(s) : s[i] = k + i

\* The batches of q follow one another, and end with frame e.
InLine(q, e) ==
    /\ \A i \in 1 .. Len(q) :
          Len(q[i]) > 0 /\ q[i][1] > 0 /\ Follow(q[i], q[i][1] - 1)
    /\ \A i \in 1 .. Len(q) : q[i][1] + Len(q[i]) <= e + 1
    /\ \A i \in 1 .. Len(q) - 1 : q[i + 1][1] = q[i][1] + Len(q[i])
    /\ q # <<>> => q[Len(q)][1] + Len(q[Len(q)]) = e + 1

\* The number of frames before the batches of q.
Before(q, e) == IF q = <<>> THEN e ELSE q[1][1] - 1

\* How many frames left pending, and how many of them left write_queue.
Swapped == accepted - Len(pending)
Taken == Before(write_queue, Swapped)

OrderInv ==
    /\ Len(pending) <= accepted
    /\ Follow(pending, Swapped)
    /\ InLine(write_queue, Swapped)
    /\ Len(out) + Len(batch) <= Taken
    /\ Taken \in 0 .. Swapped
    /\ stream = "good" => Len(out) + Len(batch) = Taken
    /\ Follow(batch, Taken - Len(batch))
    /\ NoGap

StageInv ==
    /\ worker = "write" <=> batch # <<>>
    /\ stream = "good" /\ worker \notin {"write", "flush"} => flushed = Len(out)
    /\ owner = "using" <=> ~stop
    /\ owner \in {"closed", "destroyed"} => Ended
    /\ worker = "exited" => stop

SealInv ==
    stop => /\ Swapped >= sealed
            /\ worker = "exited" /\ stream = "good" => Len(out) >= sealed

\* The frames form one line from the file to pending, the stages of the worker
\* and of the owner fit, and nothing sealed is still pending: what the other
\* safety properties follow from (all of Writer).
Inv == TypeOK /\ OrderInv /\ StageInv /\ SealInv /\ NoLostWakeup
=============================================================================
