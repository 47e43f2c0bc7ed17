-------------------------- MODULE LogWriterProofs --------------------------
(***************************************************************************)
(* Proofs about LogWriter for every set of producers and every batch size: *)
(* Inv is an inductive invariant, the safety properties follow from it,    *)
(* and every step of the writer is a step of LogFile or a stutter.  That   *)
(* no frame is lost, the queue put together, needs induction over its      *)
(* batches, which is done over sets of places.                             *)
(***************************************************************************)
EXTENDS LogWriter, WellFoundedInduction, TLAPS

-----------------------------------------------------------------------------
(* What the sequence operators do, in the form the invariant needs *)

\* A sequence is empty if it has no elements.
LEMMA EmptyLen ==
    ASSUME NEW S, NEW s \in Seq(S)
    PROVE  Len(s) \in Nat /\ (s = <<>> <=> Len(s) = 0)
OBVIOUS

\* Appending the next frame keeps a sequence in line (enqueue, out.write).
LEMMA FollowAppend ==
    ASSUME NEW s \in Seq(Nat), NEW k \in Nat, Follow(s, k),
           NEW f \in Nat, f = k + Len(s) + 1
    PROVE  /\ Append(s, f) \in Seq(Nat)
           /\ Len(Append(s, f)) = Len(s) + 1
           /\ Follow(Append(s, f), k)
BY DEF Follow

\* Dropping the first frame keeps the rest in line (the loop over a batch).
LEMMA FollowTail ==
    ASSUME NEW s \in Seq(Nat), NEW k \in Nat, Follow(s, k), s # <<>>
    PROVE  /\ Tail(s) \in Seq(Nat)
           /\ Len(s) > 0
           /\ Len(Tail(s)) = Len(s) - 1
           /\ Head(s) = k + 1
           /\ Follow(Tail(s), k + 1)
BY DEF Follow

\* A batch that continues the queue keeps it in line (swap_pending_unlocked).
LEMMA QueueAppend ==
    ASSUME NEW q \in Seq(Seq(Nat)), NEW e \in Nat, InLine(q, e),
           NEW f \in Seq(Nat), f # <<>>, Follow(f, e)
    PROVE  /\ Append(q, f) \in Seq(Seq(Nat))
           /\ InLine(Append(q, f), e + Len(f))
           /\ Before(Append(q, f), e + Len(f)) = Before(q, e)
<1> DEFINE n == Len(q)
           r == Append(q, f)
<1>1. /\ n \in Nat
      /\ r \in Seq(Seq(Nat))
      /\ Len(r) = n + 1
      /\ r # <<>>
      /\ r[n + 1] = f
      /\ \A i \in 1 .. n : r[i] = q[i]
  <2>1. n \in Nat /\ r \in Seq(Seq(Nat)) /\ Len(r) = n + 1 /\ Len(r) # 0
    OBVIOUS
  <2>2. r[n + 1] = f /\ \A i \in 1 .. n : r[i] = q[i]
    OBVIOUS
  <2> HIDE DEF r
  <2> QED BY <2>1, <2>2, EmptyLen
<1> HIDE DEF r
<1>2. Len(f) \in Nat /\ Len(f) > 0 /\ f[1] = e + 1
  BY DEF Follow
<1>3. \A i \in 1 .. n + 1 :
        Len(r[i]) > 0 /\ r[i][1] > 0 /\ Follow(r[i], r[i][1] - 1)
  <2>1. ASSUME NEW i \in 1 .. n
        PROVE  Len(r[i]) > 0 /\ r[i][1] > 0 /\ Follow(r[i], r[i][1] - 1)
    BY <1>1 DEF InLine
  <2>2. Len(f) > 0 /\ f[1] > 0 /\ f[1] - 1 = e
    BY <1>2
  <2>3. Len(r[n + 1]) > 0 /\ r[n + 1][1] > 0 /\ Follow(r[n + 1], r[n + 1][1] - 1)
    BY <1>1, <2>2
  <2>4. \A i \in 1 .. n + 1 : i \in 1 .. n \/ i = n + 1
    BY <1>1
  <2> QED BY <2>1, <2>3, <2>4
<1>4. \A i \in 1 .. n : r[i + 1][1] = r[i][1] + Len(r[i])
  <2> SUFFICES ASSUME NEW i \in 1 .. n
               PROVE  r[i + 1][1] = r[i][1] + Len(r[i])
    OBVIOUS
  <2>1. CASE i = n
    <3>1. q # <<>> /\ q[n] \in Seq(Nat) /\ Len(q[n]) > 0
      BY <2>1, <1>1 DEF InLine
    <3>2. q[n][1] \in Nat /\ Len(q[n]) \in Nat
      BY <3>1
    <3>3. q[n][1] + Len(q[n]) = e + 1
      BY <3>1 DEF InLine
    <3> QED BY <2>1, <3>2, <3>3, <1>1, <1>2
  <2>2. CASE i # n
    <3>1. i \in 1 .. n - 1 /\ i + 1 \in 1 .. n
      BY <2>2, <1>1
    <3>2. q[i + 1][1] = q[i][1] + Len(q[i])
      BY <3>1 DEF InLine
    <3> QED BY <3>1, <3>2, <1>1
  <2> QED BY <2>1, <2>2
<1>5. r[n + 1][1] + Len(r[n + 1]) = (e + Len(f)) + 1
  BY <1>1, <1>2
<1>6. InLine(r, e + Len(f))
  <2>1. (n + 1) - 1 = n
    BY <1>1
  <2>2. \A i \in 1 .. n + 1 : r[i][1] + Len(r[i]) <= (e + Len(f)) + 1
    <3>1. ASSUME NEW i \in 1 .. n
          PROVE  r[i][1] + Len(r[i]) <= (e + Len(f)) + 1
      <4>0. q[i] \in Seq(Nat) /\ q # <<>>
        OBVIOUS
      <4>1. Len(q[i]) > 0 /\ q[i][1] + Len(q[i]) <= e + 1
        BY <4>0 DEF InLine
      <4>2. q[i][1] \in Nat /\ Len(q[i]) \in Nat
        BY <4>0, <4>1
      <4>3. \A a \in Nat : a <= e + 1 => a <= (e + Len(f)) + 1
        BY <1>2
      <4>4. q[i][1] + Len(q[i]) \in Nat
        BY <4>2
      <4> QED BY <4>1, <4>3, <4>4, <1>1
    <3>2. \A i \in 1 .. n + 1 : i \in 1 .. n \/ i = n + 1
      BY <1>1
    <3>3. \A a : a = (e + Len(f)) + 1 => a <= (e + Len(f)) + 1
      BY <1>2
    <3> QED BY <3>1, <3>2, <3>3, <1>5
  <2> QED BY <1>1, <1>3, <1>4, <1>5, <2>1, <2>2 DEF InLine
<1>7. Before(r, e + Len(f)) = Before(q, e)
  <2>1. CASE q = <<>>
    <3>1. n = 0
      BY <2>1, EmptyLen
    <3>2. r[1][1] = e + 1
      BY <3>1, <1>1, <1>2
    <3> QED BY <2>1, <3>2, <1>1 DEF Before
  <2>2. CASE q # <<>>
    <3>1. 1 \in 1 .. n
      BY <2>2, EmptyLen
    <3> QED BY <2>2, <3>1, <1>1 DEF Before
  <2> QED BY <2>1, <2>2
<1> QED BY <1>1, <1>6, <1>7 DEF r

\* Taking the first batch leaves the rest in line, right behind it (run).
LEMMA QueueTail ==
    ASSUME NEW q \in Seq(Seq(Nat)), NEW e \in Nat, InLine(q, e), q # <<>>
    PROVE  /\ Head(q) \in Seq(Nat)
           /\ Len(Head(q)) > 0
           /\ Tail(q) \in Seq(Seq(Nat))
           /\ InLine(Tail(q), e)
           /\ Before(q, e) \in Nat
           /\ Follow(Head(q), Before(q, e))
           /\ Before(Tail(q), e) = Before(q, e) + Len(Head(q))
           /\ Before(Tail(q), e) <= e
<1> DEFINE n == Len(q)
           r == Tail(q)
<1>1. /\ n \in Nat /\ n > 0
      /\ Head(q) = q[1]
      /\ q[1] \in Seq(Nat)
      /\ r \in Seq(Seq(Nat))
      /\ Len(r) = n - 1
      /\ \A i \in 1 .. n - 1 : r[i] = q[i + 1]
  OBVIOUS
<1> HIDE DEF r
<1>2. Len(q[1]) > 0 /\ q[1][1] > 0 /\ Follow(q[1], q[1][1] - 1)
  BY <1>1 DEF InLine
<1>3. Len(q[1]) \in Nat /\ q[1][1] \in Nat
  BY <1>1, <1>2
<1>4. \A i \in 1 .. n - 1 :
        Len(r[i]) > 0 /\ r[i][1] > 0 /\ Follow(r[i], r[i][1] - 1)
  <2> SUFFICES ASSUME NEW i \in 1 .. n - 1
               PROVE  Len(r[i]) > 0 /\ r[i][1] > 0 /\ Follow(r[i], r[i][1] - 1)
    OBVIOUS
  <2>1. i + 1 \in 1 .. n
    BY <1>1
  <2> QED BY <2>1, <1>1 DEF InLine
<1>5. \A i \in 1 .. (n - 1) - 1 : r[i + 1][1] = r[i][1] + Len(r[i])
  <2> SUFFICES ASSUME NEW i \in 1 .. (n - 1) - 1
               PROVE  r[i + 1][1] = r[i][1] + Len(r[i])
    OBVIOUS
  <2>1. i + 1 \in 1 .. n - 1 /\ i \in 1 .. n - 1
    BY <1>1
  <2>2. q[(i + 1) + 1][1] = q[i + 1][1] + Len(q[i + 1])
    BY <2>1 DEF InLine
  <2> QED BY <2>1, <2>2, <1>1
<1>6. r # <<>> => r[n - 1][1] + Len(r[n - 1]) = e + 1
  <2> SUFFICES ASSUME r # <<>>
               PROVE  r[n - 1][1] + Len(r[n - 1]) = e + 1
    OBVIOUS
  <2>1. n - 1 \in 1 .. n - 1
    BY <1>1
  <2>2. r[n - 1] = q[n]
    <3>1. (n - 1) + 1 = n
      BY <1>1
    <3> QED BY <2>1, <1>1, <3>1
  <2> QED BY <2>2 DEF InLine
<1>7. InLine(r, e)
  <2>1. \A i \in 1 .. n - 1 : r[i][1] + Len(r[i]) <= e + 1
    <3> SUFFICES ASSUME NEW i \in 1 .. n - 1
                 PROVE  r[i][1] + Len(r[i]) <= e + 1
      OBVIOUS
    <3>1. i + 1 \in 1 .. n
      BY <1>1
    <3> QED BY <3>1, <1>1 DEF InLine
  <2> QED BY <1>1, <1>4, <1>5, <1>6, <2>1 DEF InLine
<1>8. Before(q, e) = q[1][1] - 1
  BY DEF Before
<1>9. Before(r, e) = Before(q, e) + Len(q[1])
  <2>1. CASE r = <<>>
    <3>1. Len(r) = 0 /\ n = 1
      BY <2>1, <1>1, EmptyLen
    <3>2. q[n][1] + Len(q[n]) = e + 1
      BY DEF InLine
    <3>3. q[1][1] + Len(q[1]) = e + 1
      BY <3>1, <3>2
    <3>4. Before(r, e) = e
      BY <2>1 DEF Before
    <3>5. \A a, l \in Nat : a + l = e + 1 => e = (a - 1) + l
      OBVIOUS
    <3> QED BY <3>3, <3>4, <3>5, <1>3, <1>8
  <2>2. CASE r # <<>>
    <3>1. Len(r) # 0
      BY <2>2, <1>1, EmptyLen
    <3>6. n - 1 > 0 /\ 1 \in 1 .. n - 1
      BY <3>1, <1>1
    <3>2. q[1 + 1][1] = q[1][1] + Len(q[1])
      BY <3>6 DEF InLine
    <3>3. r[1] = q[1 + 1]
      BY <3>6, <1>1
    <3>4. Before(r, e) = (q[1][1] + Len(q[1])) - 1
      BY <2>2, <3>2, <3>3 DEF Before
    <3>5. (q[1][1] + Len(q[1])) - 1 = (q[1][1] - 1) + Len(q[1])
      BY <1>3
    <3> QED BY <3>4, <3>5, <1>8
  <2> QED BY <2>1, <2>2
<1>10. (q[1][1] - 1) + Len(q[1]) <= e
  <2>1. 1 \in 1 .. n
    BY <1>1
  <2>2. q[1][1] + Len(q[1]) <= e + 1
    BY <2>1 DEF InLine
  <2>3. \A a, l \in Nat : a + l <= e + 1 => (a - 1) + l <= e
    OBVIOUS
  <2> QED BY <2>2, <2>3, <1>3
<1>11. Before(q, e) \in Nat
  BY <1>2, <1>3, <1>8
<1> QED BY <1>1, <1>2, <1>7, <1>8, <1>9, <1>10, <1>11 DEF r

-----------------------------------------------------------------------------
(* The inductive invariant *)

\* The invariant holds for a new writer.
LEMMA InitInv == Init => Inv
<1> SUFFICES ASSUME Init PROVE Inv
  OBVIOUS
<1> USE DEF Init
<1>1. TypeOK
  <2>1. /\ pending \in Seq(Nat) /\ batch \in Seq(Nat) /\ out \in Seq(Nat)
        /\ write_queue \in Seq(Seq(Nat))
    OBVIOUS
  <2>2. producer \in [Producers -> {"idle", "notify"}]
    OBVIOUS
  <2>3. flushed \in 0 .. Len(out) /\ sealed \in 0 .. accepted
    OBVIOUS
  <2> QED BY <2>1, <2>2, <2>3 DEF TypeOK, WorkerStates, OwnerStates
<1>2. OrderInv
  <2>1. Swapped = 0 /\ Taken = 0
    <3>1. Swapped = 0 - 0
      BY DEF Swapped
    <3>2. Swapped = 0
      BY <3>1
    <3> QED BY <3>2 DEF Taken, Before
  <2>2. Len(pending) = 0 /\ Len(batch) = 0 /\ Len(out) = 0 /\ Len(write_queue) = 0
    OBVIOUS
  <2>3. InLine(write_queue, 0)
    BY <2>2 DEF InLine
  <2>4. Follow(pending, 0) /\ Follow(batch, 0) /\ NoGap
    BY <2>2 DEF Follow, NoGap
  <2> QED BY <2>1, <2>2, <2>3, <2>4 DEF OrderInv
<1>3. StageInv /\ SealInv /\ NoLostWakeup
  BY DEF Init, StageInv, SealInv, NoLostWakeup, Ended
<1> QED BY <1>1, <1>2, <1>3 DEF Inv

\* Most steps leave the frames where they are.
LEMMA OrderFrame ==
    ASSUME OrderInv, UNCHANGED <<accepted, queues, batch, out, stream>>
    PROVE  OrderInv' /\ Swapped' = Swapped /\ Taken' = Taken
BY DEF OrderInv, Taken, Swapped, NoGap, queues

\* A thread that notifies leaves no wakeup behind: it woke the worker.
LEMMA NotifyInv ==
    ASSUME TypeOK, NotifyOne
    PROVE  /\ worker' # "waiting"
           /\ worker' \in WorkerStates
           /\ worker # "waiting" => worker' = worker
           /\ worker = "waiting" => worker' = "check"
BY DEF TypeOK, NotifyOne, WorkerStates

\* What enqueue() does to the frames.
LEMMA EnqueueOrder ==
    ASSUME Inv, NEW p \in Producers, Enqueue(p)
    PROVE  /\ pending' \in Seq(Nat) /\ write_queue' \in Seq(Seq(Nat))
           /\ OrderInv'
           /\ Swapped' >= Swapped
<1> DEFINE f == accepted + 1
           frames == Append(pending, f)
<1> USE DEF Inv
<1>1. /\ accepted \in Nat /\ pending \in Seq(Nat) /\ Len(pending) \in Nat
      /\ write_queue \in Seq(Seq(Nat))
      /\ Len(pending) <= accepted
      /\ Swapped = accepted - Len(pending)
      /\ Swapped \in Nat
      /\ f \in Nat /\ f = Swapped + Len(pending) + 1
      /\ Follow(pending, Swapped)
      /\ InLine(write_queue, Swapped)
  BY DEF TypeOK, OrderInv, Swapped
<1>2. /\ frames \in Seq(Nat)
      /\ Len(frames) = Len(pending) + 1
      /\ Len(frames) # 0
      /\ Follow(frames, Swapped)
  BY <1>1, FollowAppend
<1>3. accepted' = f /\ UNCHANGED <<batch, out, stream>>
  BY DEF Enqueue, file
<1>4. CASE Full(frames)
  <2>1. SwapPending(frames)
    BY <1>4 DEF Enqueue
  <2> HIDE DEF frames
  <2>2. frames # <<>>
    BY <1>2, EmptyLen
  <2>3. pending' = <<>> /\ write_queue' = Append(write_queue, frames)
    BY <2>1, <2>2 DEF SwapPending
  <2>4. f = Swapped + Len(frames)
    BY <1>1, <1>2
  <2>5. /\ Append(write_queue, frames) \in Seq(Seq(Nat))
        /\ InLine(Append(write_queue, frames), f)
        /\ Before(Append(write_queue, frames), f) = Before(write_queue, Swapped)
    BY <1>1, <1>2, <2>2, <2>4, QueueAppend
  <2>6. Len(pending') = 0 /\ Swapped' = f
    BY <1>1, <1>3, <2>3 DEF Swapped
  <2>7. Taken' = Taken
    BY <2>3, <2>5, <2>6 DEF Taken
  <2>8. Taken' \in 0 .. Swapped'
    BY <1>1, <2>6, <2>7 DEF OrderInv
  <2>9. Follow(pending', Swapped') /\ Len(pending') <= accepted'
    BY <1>1, <1>3, <2>3, <2>6 DEF Follow
  <2>10. OrderInv'
    BY <1>3, <2>3, <2>5, <2>6, <2>7, <2>8, <2>9 DEF OrderInv, NoGap
  <2> QED BY <1>1, <2>3, <2>5, <2>6, <2>10
<1>5. CASE ~Full(frames)
  <2>1. pending' = frames /\ write_queue' = write_queue
    BY <1>5 DEF Enqueue
  <2> HIDE DEF frames
  <2>2. Swapped' = Swapped
    <3>1. Swapped' = (accepted + 1) - (Len(pending) + 1)
      BY <1>2, <1>3, <2>1 DEF Swapped
    <3>2. (accepted + 1) - (Len(pending) + 1) = accepted - Len(pending)
      BY <1>1
    <3> QED BY <3>1, <3>2, <1>1
  <2>3. Taken' = Taken
    BY <2>1, <2>2 DEF Taken
  <2>4. Len(pending') <= accepted'
    BY <1>1, <1>2, <1>3, <2>1
  <2>5. OrderInv'
    BY <1>2, <1>3, <2>1, <2>2, <2>3, <2>4 DEF OrderInv, NoGap
  <2> QED BY <1>1, <1>2, <2>1, <2>2, <2>5
<1> QED BY <1>4, <1>5

\* What shutdown() does to the frames: its leftovers become the last batch.
LEMMA ShutdownOrder ==
    ASSUME Inv, ShutdownBegin
    PROVE  /\ pending' \in Seq(Nat) /\ write_queue' \in Seq(Seq(Nat))
           /\ OrderInv'
           /\ Swapped' = accepted
<1> USE DEF Inv
<1>1. /\ accepted \in Nat /\ pending \in Seq(Nat) /\ Len(pending) \in Nat
      /\ write_queue \in Seq(Seq(Nat))
      /\ Len(pending) <= accepted
      /\ Swapped = accepted - Len(pending)
      /\ Swapped \in Nat
      /\ Follow(pending, Swapped)
      /\ InLine(write_queue, Swapped)
  BY DEF TypeOK, OrderInv, Swapped
<1>2. SwapPending(pending) /\ UNCHANGED <<accepted, batch, out, stream>>
  BY DEF ShutdownBegin, file
<1>3. pending' = <<>> /\ Len(pending') = 0 /\ Swapped' = accepted
  BY <1>1, <1>2 DEF SwapPending, Swapped
<1>4. Follow(pending', Swapped') /\ Len(pending') <= accepted'
  BY <1>1, <1>2, <1>3 DEF Follow
<1>5. /\ write_queue' \in Seq(Seq(Nat))
      /\ InLine(write_queue', accepted)
      /\ Before(write_queue', accepted) = Before(write_queue, Swapped)
  <2>1. CASE pending = <<>>
    <3>1. Len(pending) = 0
      BY <2>1
    <3>2. Swapped = accepted /\ write_queue' = write_queue
      BY <1>1, <1>2, <2>1, <3>1 DEF SwapPending
    <3> QED BY <1>1, <3>2
  <2>2. CASE pending # <<>>
    <3>1. write_queue' = Append(write_queue, pending)
      BY <1>2, <2>2 DEF SwapPending
    <3>2. Swapped + Len(pending) = accepted
      BY <1>1
    <3> QED BY <1>1, <2>2, <3>1, <3>2, QueueAppend
  <2> QED BY <2>1, <2>2
<1>6. Taken' = Taken
  BY <1>3, <1>5 DEF Taken
<1>7. Taken' \in 0 .. Swapped'
  BY <1>1, <1>3, <1>6 DEF OrderInv
<1>8. OrderInv'
  BY <1>2, <1>3, <1>4, <1>5, <1>6, <1>7 DEF OrderInv, NoGap
<1> QED BY <1>1, <1>3, <1>5, <1>8

\* What the worker does to the frames when it takes a batch.
LEMMA TakeOrder ==
    ASSUME Inv, TakeBatch
    PROVE  /\ batch' \in Seq(Nat) /\ batch' # <<>>
           /\ write_queue' \in Seq(Seq(Nat))
           /\ OrderInv'
           /\ Swapped' = Swapped
<1> USE DEF Inv
<1>1. /\ write_queue \in Seq(Seq(Nat)) /\ write_queue # <<>>
      /\ Swapped \in Nat /\ InLine(write_queue, Swapped)
      /\ batch' = Head(write_queue) /\ write_queue' = Tail(write_queue)
      /\ UNCHANGED <<accepted, pending, out, stream>>
      /\ Swapped' = Swapped
  BY DEF TypeOK, OrderInv, Swapped, TakeBatch, file
<1>2. batch = <<>> /\ Len(batch) = 0
  BY DEF TakeBatch, StageInv
<1>3. /\ batch' \in Seq(Nat) /\ Len(batch') > 0 /\ Len(batch') \in Nat
      /\ write_queue' \in Seq(Seq(Nat))
      /\ InLine(write_queue', Swapped)
      /\ Taken \in Nat
      /\ Follow(batch', Taken)
      /\ Taken' = Taken + Len(batch')
      /\ Taken' <= Swapped
  BY <1>1, QueueTail DEF Taken
<1> HIDE DEF Inv
<1>4. batch' # <<>>
  BY <1>3
<1>5. Taken' - Len(batch') = Taken
  BY <1>3
<1>6. Taken' \in 0 .. Swapped'
  BY <1>1, <1>3 DEF OrderInv
<1>7. OrderInv'
  BY <1>1, <1>2, <1>3, <1>5, <1>6 DEF OrderInv, NoGap, Inv, TypeOK
<1> QED BY <1>1, <1>3, <1>4, <1>7

\* What the worker does to the frames when it hands one to the stream.
LEMMA WriteOrder ==
    ASSUME Inv, WriteFrame \/ WriteFails
    PROVE  /\ batch' \in Seq(Nat) /\ out' \in Seq(Nat)
           /\ (batch' = <<>> <=> worker' = "flush")
           /\ flushed \in 0 .. Len(out')
           /\ OrderInv'
           /\ Swapped' = Swapped
<1>1. /\ batch \in Seq(Nat) /\ batch # <<>> /\ out \in Seq(Nat)
      /\ Taken \in Nat
      /\ Len(out) \in Nat /\ Len(batch) \in Nat
      /\ Len(out) + Len(batch) <= Taken
      /\ stream = "good" => Len(out) + Len(batch) = Taken
      /\ Taken - Len(batch) \in Nat
      /\ Follow(batch, Taken - Len(batch))
      /\ Follow(out, 0)
      /\ flushed \in 0 .. Len(out)
  <2>1. /\ batch \in Seq(Nat) /\ batch # <<>> /\ out \in Seq(Nat)
        /\ Taken \in Nat /\ Len(out) \in Nat /\ Len(batch) \in Nat
        /\ flushed \in 0 .. Len(out)
    BY DEF Inv, TypeOK, OrderInv, StageInv, WriteFrame, WriteFails, NextFrame, Swapped
  <2>2. /\ Len(out) + Len(batch) <= Taken
        /\ stream = "good" => Len(out) + Len(batch) = Taken
        /\ Follow(batch, Taken - Len(batch))
        /\ NoGap
    BY DEF Inv, OrderInv
  <2>3. Taken - Len(batch) \in Nat
    BY <2>1, <2>2
  <2>4. Follow(out, 0)
    BY <2>1, <2>2 DEF Follow, NoGap
  <2> QED BY <2>1, <2>2, <2>3, <2>4
<1>2. /\ batch' = Tail(batch)
      /\ worker' = IF Len(batch) = 1 THEN "flush" ELSE "write"
      /\ UNCHANGED <<accepted, pending, write_queue, flushed>>
  BY DEF WriteFrame, WriteFails, NextFrame, queues
<1>3. /\ batch' \in Seq(Nat)
      /\ Len(batch') = Len(batch) - 1
      /\ Head(batch) = (Taken - Len(batch)) + 1
      /\ Follow(batch', (Taken - Len(batch)) + 1)
  BY <1>1, <1>2, FollowTail
<1>4. Swapped' = Swapped /\ Taken' = Taken
  BY <1>2 DEF Swapped, Taken
<1>5. Taken' - Len(batch') = (Taken - Len(batch)) + 1
  BY <1>1, <1>3, <1>4
<1>6. batch' = <<>> <=> worker' = "flush"
  <2>1. batch' = <<>> <=> Len(batch') = 0
    BY <1>3, EmptyLen
  <2>2. Len(batch') = 0 <=> Len(batch) = 1
    BY <1>1, <1>3
  <2> QED BY <1>2, <2>1, <2>2
<1>7. /\ Len(pending') <= accepted'
      /\ Follow(pending', Swapped')
      /\ InLine(write_queue', Swapped')
      /\ Taken' \in 0 .. Swapped'
      /\ Follow(batch', Taken' - Len(batch'))
  BY <1>2, <1>3, <1>4, <1>5 DEF Inv, OrderInv
<1>8. CASE WriteFrame
  <2>1. stream = "good" /\ stream' = stream /\ out' = Append(out, Head(batch))
    BY <1>8 DEF WriteFrame
  <2>2. Head(batch) \in Nat /\ Head(batch) = 0 + Len(out) + 1
    BY <1>1, <1>3, <2>1
  <2>3. /\ out' \in Seq(Nat) /\ Len(out') = Len(out) + 1 /\ Follow(out', 0)
    BY <1>1, <2>1, <2>2, FollowAppend
  <2>4. NoGap'
    BY <2>3 DEF Follow, NoGap
  <2>5. Len(out') + Len(batch') = Taken'
    <3>1. (Len(out) + 1) + (Len(batch) - 1) = Taken
      BY <1>1, <2>1
    <3> QED BY <3>1, <1>3, <1>4, <2>3
  <2>6. Len(out') + Len(batch') <= Taken'
    BY <1>1, <1>4, <2>5
  <2>7. OrderInv'
    BY <1>7, <2>4, <2>5, <2>6 DEF OrderInv
  <2>8. flushed \in 0 .. Len(out')
    BY <1>1, <2>3
  <2> QED BY <1>3, <1>4, <1>6, <2>3, <2>7, <2>8
<1>9. CASE WriteFails
  <2>1. stream' = "bad" /\ out' = out
    BY <1>9 DEF WriteFails
  <2>2. NoGap'
    BY <2>1 DEF Inv, OrderInv, NoGap
  <2>3. Len(out') + Len(batch') <= Taken'
    BY <1>1, <1>3, <1>4, <2>1
  <2>4. OrderInv'
    BY <1>7, <2>1, <2>2, <2>3 DEF OrderInv
  <2> QED BY <1>1, <1>3, <1>4, <1>6, <2>1, <2>4
<1> QED BY <1>8, <1>9

\* No step falsifies the invariant.
LEMMA NextInv == Inv /\ [Next]_vars => Inv'
<1> SUFFICES ASSUME Inv, [Next]_vars PROVE Inv'
  OBVIOUS
<1>t. TypeOK /\ OrderInv /\ StageInv /\ SealInv /\ NoLostWakeup
  BY DEF Inv
<1> USE DEF queues, file
<1>1. ASSUME NEW p \in Producers, Enqueue(p) PROVE Inv'
  <2>1. /\ pending' \in Seq(Nat) /\ write_queue' \in Seq(Seq(Nat))
        /\ OrderInv' /\ Swapped' >= Swapped
    BY <1>1, EnqueueOrder
  <2>2. /\ accepted' = accepted + 1
        /\ producer' = [producer EXCEPT ![p] = "notify"]
        /\ UNCHANGED <<stop, batch, out, flushed, stream, worker, owner, sealed>>
    BY <1>1 DEF Enqueue
  <2>3. TypeOK'
    BY <1>t, <2>1, <2>2 DEF TypeOK
  <2>4. StageInv'
    BY <1>t, <2>2 DEF StageInv, Ended
  <2>5. Swapped \in Int /\ Swapped' \in Int /\ sealed \in Int
    BY <1>t, <2>1, <2>2 DEF TypeOK, Swapped
  <2>6. SealInv'
    BY <1>t, <2>1, <2>2, <2>5 DEF SealInv
  <2>7. NoLostWakeup'
    <3>1. producer'[p] = "notify"
      BY <1>t, <2>2 DEF TypeOK
    <3> QED BY <3>1, <1>1 DEF NoLostWakeup
  <2> QED BY <2>1, <2>3, <2>4, <2>6, <2>7 DEF Inv
<1>2. ASSUME NEW p \in Producers, ProducerNotify(p) PROVE Inv'
  <2>1. /\ NotifyOne
        /\ producer' = [producer EXCEPT ![p] = "idle"]
        /\ UNCHANGED <<accepted, pending, write_queue, stop, batch, out, flushed,
                        stream, owner, sealed>>
    BY <1>2 DEF ProducerNotify
  <2>2. /\ worker' # "waiting" /\ worker' \in WorkerStates
        /\ worker # "waiting" => worker' = worker
        /\ worker = "waiting" => worker' = "check"
    BY <1>t, <2>1, NotifyInv
  <2>3. TypeOK'
    BY <1>t, <2>1, <2>2 DEF TypeOK
  <2>4. OrderInv' /\ Swapped' = Swapped
    BY <1>t, <2>1, OrderFrame
  <2>5. StageInv'
    BY <1>t, <2>1, <2>2 DEF StageInv, Ended
  <2>6. SealInv'
    BY <1>t, <2>1, <2>2, <2>4 DEF SealInv
  <2>7. NoLostWakeup'
    BY <2>2 DEF NoLostWakeup
  <2> QED BY <2>3, <2>4, <2>5, <2>6, <2>7 DEF Inv
<1>3. ASSUME OpenFile \/ OpenFails \/ Sleep \/ SpuriousWakeup PROVE Inv'
  <2>1. /\ UNCHANGED <<accepted, pending, write_queue, stop, batch, out, flushed,
                        stream, producer, owner, sealed>>
        /\ worker \in {"start", "check", "waiting"}
        /\ worker' \in {"check", "failed", "waiting"}
        /\ worker' = "waiting" => ~stop /\ write_queue = <<>>
    BY <1>3 DEF OpenFile, OpenFails, Sleep, SpuriousWakeup
  <2>2. TypeOK'
    BY <1>t, <2>1 DEF TypeOK, WorkerStates
  <2>3. OrderInv' /\ Swapped' = Swapped
    BY <1>t, <2>1, OrderFrame
  <2>4. StageInv'
    BY <1>t, <2>1 DEF StageInv, Ended
  <2>5. SealInv'
    BY <1>t, <2>1, <2>3 DEF SealInv
  <2>6. NoLostWakeup'
    BY <2>1 DEF NoLostWakeup
  <2> QED BY <2>2, <2>3, <2>4, <2>5, <2>6 DEF Inv
<1>4. ASSUME TakeBatch PROVE Inv'
  <2>1. /\ batch' \in Seq(Nat) /\ batch' # <<>>
        /\ write_queue' \in Seq(Seq(Nat)) /\ OrderInv' /\ Swapped' = Swapped
    BY <1>4, TakeOrder
  <2>2. /\ worker = "check" /\ worker' = "write"
        /\ UNCHANGED <<accepted, pending, stop, out, flushed, stream, producer,
                        owner, sealed>>
    BY <1>4 DEF TakeBatch
  <2>3. TypeOK'
    BY <1>t, <2>1, <2>2 DEF TypeOK, WorkerStates
  <2>4. StageInv'
    BY <1>t, <2>1, <2>2 DEF StageInv, Ended
  <2>5. SealInv'
    BY <1>t, <2>1, <2>2 DEF SealInv
  <2>6. NoLostWakeup'
    BY <2>2 DEF NoLostWakeup
  <2> QED BY <2>1, <2>3, <2>4, <2>5, <2>6 DEF Inv
<1>5. ASSUME Finish PROVE Inv'
  <2>1. /\ worker = "check" /\ worker' = "exited" /\ stop /\ write_queue = <<>>
        /\ flushed' \in flushed .. Len(out)
        /\ UNCHANGED <<accepted, pending, write_queue, stop, batch, out, stream,
                        producer, owner, sealed>>
    BY <1>5 DEF Finish
  <2>2. TypeOK'
    BY <1>t, <2>1 DEF TypeOK, WorkerStates
  <2>3. OrderInv' /\ Swapped' = Swapped
    BY <1>t, <2>1, OrderFrame
  <2>4. stream = "good" => flushed' = Len(out)
    BY <1>t, <2>1 DEF StageInv, TypeOK
  <2>5. StageInv'
    BY <1>t, <2>1, <2>4 DEF StageInv, Ended
  <2>6. SealInv'
    <3>1. Len(batch) = 0 /\ Taken = Swapped /\ Len(out) \in Nat
      BY <1>t, <2>1 DEF StageInv, Taken, Before, TypeOK
    <3>2. stream = "good" => Len(out) = Swapped
      BY <1>t, <3>1 DEF OrderInv
    <3> QED BY <1>t, <2>1, <2>3, <3>2 DEF SealInv
  <2>7. NoLostWakeup'
    BY <2>1 DEF NoLostWakeup
  <2> QED BY <2>2, <2>3, <2>5, <2>6, <2>7 DEF Inv
<1>6. ASSUME WriteFrame \/ WriteFails PROVE Inv'
  <2>1. /\ batch' \in Seq(Nat) /\ out' \in Seq(Nat)
        /\ (batch' = <<>> <=> worker' = "flush")
        /\ flushed \in 0 .. Len(out') /\ OrderInv' /\ Swapped' = Swapped
    BY <1>6, WriteOrder
  <2>2. /\ worker = "write" /\ worker' \in {"write", "flush"}
        /\ stream' \in {"good", "bad"}
        /\ UNCHANGED <<accepted, pending, write_queue, stop, flushed, producer,
                        owner, sealed>>
    BY <1>6 DEF WriteFrame, WriteFails, NextFrame
  <2>3. TypeOK'
    BY <1>t, <2>1, <2>2 DEF TypeOK, WorkerStates
  <2>4. StageInv'
    BY <1>t, <2>1, <2>2 DEF StageInv, Ended
  <2>5. SealInv'
    BY <1>t, <2>1, <2>2 DEF SealInv
  <2>6. NoLostWakeup'
    BY <2>2 DEF NoLostWakeup
  <2> QED BY <2>1, <2>3, <2>4, <2>5, <2>6 DEF Inv
<1>7. ASSUME Flush \/ FlushFails PROVE Inv'
  <2>1. /\ worker = "flush" /\ worker' = "check"
        /\ UNCHANGED <<accepted, pending, write_queue, stop, batch, out, producer,
                        owner, sealed>>
        /\ \/ stream' = stream /\ stream = "good" /\ flushed' = Len(out)
           \/ stream' = "bad" /\ flushed' \in flushed .. Len(out)
    BY <1>7 DEF Flush, FlushFails
  <2>2. TypeOK'
    BY <1>t, <2>1 DEF TypeOK, WorkerStates
  <2>3. Swapped' = Swapped /\ Taken' = Taken /\ OrderInv'
    <3>1. Swapped' = Swapped
      BY <2>1 DEF Swapped
    <3>2. Taken' = Taken
      BY <2>1, <3>1 DEF Taken
    <3> QED BY <1>t, <2>1, <3>1, <3>2 DEF OrderInv, NoGap
  <2>4. StageInv'
    BY <1>t, <2>1 DEF StageInv, Ended
  <2>5. SealInv'
    BY <1>t, <2>1, <2>3 DEF SealInv
  <2>6. NoLostWakeup'
    BY <2>1 DEF NoLostWakeup
  <2> QED BY <2>2, <2>3, <2>4, <2>5, <2>6 DEF Inv
<1>8. ASSUME ShutdownBegin PROVE Inv'
  <2>1. /\ pending' \in Seq(Nat) /\ write_queue' \in Seq(Seq(Nat))
        /\ OrderInv' /\ Swapped' = accepted
    BY <1>8, ShutdownOrder
  <2>2. /\ owner = "using" /\ owner' = "notify" /\ ~stop /\ stop' = TRUE
        /\ sealed' = accepted
        /\ UNCHANGED <<accepted, batch, out, flushed, stream, worker, producer>>
    BY <1>8 DEF ShutdownBegin
  <2>3. TypeOK'
    BY <1>t, <2>1, <2>2 DEF TypeOK, OwnerStates
  <2>4. StageInv'
    BY <1>t, <2>2 DEF StageInv, Ended
  <2>5. SealInv'
    BY <1>t, <2>1, <2>2 DEF SealInv, StageInv, TypeOK
  <2>6. NoLostWakeup'
    BY <2>2 DEF NoLostWakeup
  <2> QED BY <2>1, <2>3, <2>4, <2>5, <2>6 DEF Inv
<1>9. ASSUME OwnerNotify PROVE Inv'
  <2>1. /\ NotifyOne /\ owner = "notify" /\ owner' = "join"
        /\ UNCHANGED <<accepted, pending, write_queue, stop, batch, out, flushed,
                        stream, producer, sealed>>
    BY <1>9 DEF OwnerNotify
  <2>2. /\ worker' # "waiting" /\ worker' \in WorkerStates
        /\ worker # "waiting" => worker' = worker
        /\ worker = "waiting" => worker' = "check"
    BY <1>t, <2>1, NotifyInv
  <2>3. TypeOK'
    BY <1>t, <2>1, <2>2 DEF TypeOK, OwnerStates
  <2>4. OrderInv' /\ Swapped' = Swapped
    BY <1>t, <2>1, OrderFrame
  <2>5. StageInv'
    BY <1>t, <2>1, <2>2 DEF StageInv, Ended
  <2>6. SealInv'
    BY <1>t, <2>1, <2>2, <2>4 DEF SealInv
  <2>7. NoLostWakeup'
    BY <2>2 DEF NoLostWakeup
  <2> QED BY <2>3, <2>4, <2>5, <2>6, <2>7 DEF Inv
<1>10. ASSUME Join \/ Destroy PROVE Inv'
  <2>1. /\ owner \in {"join", "closed"} /\ owner' \in {"closed", "destroyed"}
        /\ owner = "join" => Ended
        /\ UNCHANGED <<accepted, pending, write_queue, stop, batch, out, flushed,
                        stream, worker, producer, sealed>>
    BY <1>10 DEF Join, Destroy
  <2>2. TypeOK'
    BY <1>t, <2>1 DEF TypeOK, OwnerStates
  <2>3. OrderInv' /\ Swapped' = Swapped
    BY <1>t, <2>1, OrderFrame
  <2>4. StageInv'
    BY <1>t, <2>1 DEF StageInv, Ended
  <2>5. SealInv'
    BY <1>t, <2>1, <2>3 DEF SealInv
  <2>6. NoLostWakeup'
    BY <1>t, <2>1 DEF NoLostWakeup
  <2> QED BY <2>2, <2>3, <2>4, <2>5, <2>6 DEF Inv
<1>11. ASSUME UNCHANGED vars PROVE Inv'
  <2>1. OrderInv' /\ Swapped' = Swapped
    BY <1>t, <1>11, OrderFrame DEF vars
  <2>2. TypeOK' /\ StageInv' /\ SealInv' /\ NoLostWakeup'
    BY <1>t, <1>11, <2>1 DEF vars, TypeOK, StageInv, SealInv, NoLostWakeup, Ended
  <2> QED BY <2>1, <2>2 DEF Inv
<1> QED
  BY <1>1, <1>2, <1>3, <1>4, <1>5, <1>6, <1>7, <1>8, <1>9, <1>10, <1>11
     DEF Next, Worker, Gone

\* A step preserves the shape of the batches (enqueue, shutdown).
LEMMA NextBatches == Inv /\ BatchesFull /\ [Next]_vars => BatchesFull'
<1> SUFFICES ASSUME Inv, BatchesFull, [Next]_vars PROVE BatchesFull'
  OBVIOUS
<1> DEFINE Shaped(b, s, e) == Len(b) = BatchSize \/ (s /\ Last(b) = e)
<1>t. /\ pending \in Seq(Nat) /\ write_queue \in Seq(Seq(Nat)) /\ accepted \in Nat
      /\ Len(pending) \in Nat /\ Len(pending) < BatchSize
      /\ BatchSize \in Nat \ {0}
      /\ \A i \in 1 .. Len(write_queue) : Shaped(write_queue[i], stop, sealed)
  BY BatchAssumption DEF Inv, TypeOK, BatchesFull
<1>1. ASSUME NEW p \in Producers, Enqueue(p) PROVE BatchesFull'
  <2> DEFINE frames == Append(pending, accepted + 1)
  <2>0. frames \in Seq(Nat) /\ Len(frames) = Len(pending) + 1 /\ Len(frames) # 0
    BY <1>t
  <2>1. frames # <<>>
    <3> HIDE DEF frames
    <3> QED BY <2>0, EmptyLen
  <2>2. UNCHANGED <<stop, sealed>>
    BY <1>1 DEF Enqueue
  <2>3. CASE Full(frames)
    <3>1. Len(frames) = BatchSize
      BY <1>t, <2>0, <2>3 DEF Full
    <3>2. SwapPending(frames)
      BY <1>1, <2>3 DEF Enqueue
    <3> HIDE DEF frames
    <3>3. pending' = <<>> /\ write_queue' = Append(write_queue, frames)
      BY <2>1, <3>2 DEF SwapPending
    <3>4. \A i \in 1 .. Len(write_queue') :
            \/ i \in 1 .. Len(write_queue) /\ write_queue'[i] = write_queue[i]
            \/ write_queue'[i] = frames
      BY <1>t, <2>0, <3>3
    <3>5. Len(pending') < BatchSize
      BY <1>t, <3>3
    <3> QED BY <1>t, <2>2, <3>1, <3>4, <3>5 DEF BatchesFull
  <2>4. CASE ~Full(frames)
    <3>1. pending' = frames /\ write_queue' = write_queue
      BY <1>1, <2>4 DEF Enqueue
    <3>2. Len(pending') < BatchSize
      BY <1>t, <2>0, <2>4, <3>1 DEF Full
    <3> QED BY <1>t, <2>2, <3>1, <3>2 DEF BatchesFull
  <2> QED BY <2>3, <2>4
<1>2. ASSUME ShutdownBegin PROVE BatchesFull'
  <2>1. /\ ~stop /\ stop' = TRUE /\ sealed' = accepted /\ SwapPending(pending)
    BY <1>2 DEF ShutdownBegin
  <2>2. pending' = <<>> /\ Len(pending') < BatchSize
    BY <1>t, <2>1 DEF SwapPending
  <2>3. \A i \in 1 .. Len(write_queue) : Len(write_queue[i]) = BatchSize
    BY <1>t, <2>1
  <2>4. CASE pending = <<>>
    <3>1. write_queue' = write_queue
      BY <2>1, <2>4 DEF SwapPending
    <3> QED BY <2>2, <2>3, <3>1 DEF BatchesFull
  <2>5. CASE pending # <<>>
    <3>1. write_queue' = Append(write_queue, pending)
      BY <2>1, <2>5 DEF SwapPending
    <3>2. Len(pending) \in 1 .. Len(pending)
      BY <1>t, <2>5, EmptyLen
    <3>3. Last(pending) = Swapped + Len(pending)
      BY <3>2 DEF Inv, OrderInv, Follow, Last
    <3>4. Swapped + Len(pending) = accepted
      BY <1>t DEF Swapped
    <3>5. \A i \in 1 .. Len(write_queue') :
            \/ i \in 1 .. Len(write_queue) /\ write_queue'[i] = write_queue[i]
            \/ write_queue'[i] = pending
      BY <1>t, <3>1
    <3> QED BY <2>1, <2>2, <2>3, <3>3, <3>4, <3>5 DEF BatchesFull
  <2> QED BY <2>4, <2>5
<1>3. ASSUME TakeBatch PROVE BatchesFull'
  <2>1. /\ write_queue # <<>> /\ write_queue' = Tail(write_queue)
        /\ UNCHANGED <<pending, stop, sealed>>
    BY <1>3 DEF TakeBatch
  <2>2. \A i \in 1 .. Len(write_queue') :
          i + 1 \in 1 .. Len(write_queue) /\ write_queue'[i] = write_queue[i + 1]
    BY <1>t, <2>1
  <2> QED BY <1>t, <2>1, <2>2 DEF BatchesFull
<1>4. ASSUME UNCHANGED <<queues, stop, sealed>> PROVE BatchesFull'
  BY <1>4 DEF BatchesFull, queues
<1>5. ASSUME \/ \E p \in Producers : ProducerNotify(p)
             \/ OpenFile \/ OpenFails \/ Sleep \/ SpuriousWakeup \/ Finish
             \/ WriteFrame \/ WriteFails \/ Flush \/ FlushFails
             \/ OwnerNotify \/ Join \/ Destroy \/ UNCHANGED vars
      PROVE  UNCHANGED <<queues, stop, sealed>>
  BY <1>5 DEF ProducerNotify, OpenFile, OpenFails, Sleep, SpuriousWakeup, Finish,
     WriteFrame, WriteFails, Flush, FlushFails, OwnerNotify, Join, Destroy, vars, queues
<1> QED BY <1>1, <1>2, <1>3, <1>4, <1>5 DEF Next, Worker, Gone

-----------------------------------------------------------------------------
(* The theorems *)

\* The invariant holds in every state of the writer.
THEOREM InvAlways == SafeSpec => []Inv
BY InitInv, NextInv, PTL DEF SafeSpec

\* Every variable keeps its type, in particular flushed never runs ahead of out
\* (all of Writer).
THEOREM TypeCorrect == SafeSpec => []TypeOK
<1>1. Inv => TypeOK
  BY DEF Inv
<1> QED BY <1>1, InvAlways, PTL

\* The file never has a gap, not even after a failed write (run).
THEOREM FileHasNoGap == SafeSpec => []NoGap
<1>1. Inv => NoGap
  BY DEF Inv, OrderInv
<1> QED BY <1>1, InvAlways, PTL

\* The worker never sleeps on work without a notification under way (enqueue,
\* shutdown, run).
THEOREM WakeupsNotLost == SafeSpec => []NoLostWakeup
<1>1. Inv => NoLostWakeup
  BY DEF Inv
<1> QED BY <1>1, InvAlways, PTL

\* When shutdown() has returned, what was enqueued before it is in the file.
THEOREM ShutdownIsDurable == SafeSpec => []ShutdownDurable
<1>1. Inv => ShutdownDurable
  <2> SUFFICES ASSUME Inv, owner \in {"closed", "destroyed"}
               PROVE  Ended /\ (stream = "good" /\ worker = "exited" => flushed >= sealed)
    BY DEF ShutdownDurable
  <2>1. Ended /\ stop
    BY DEF Inv, StageInv
  <2>2. ASSUME stream = "good", worker = "exited" PROVE flushed >= sealed
    BY <2>1, <2>2 DEF Inv, StageInv, SealInv
  <2> QED BY <2>1, <2>2
<1> QED BY <1>1, InvAlways, PTL

\* Batches have batch_size frames, but for the leftovers of shutdown().
THEOREM BatchesAreFull == SafeSpec => []BatchesFull
<1>1. Init => BatchesFull
  BY BatchAssumption DEF Init, BatchesFull
<1> QED BY <1>1, NextBatches, InvAlways, PTL DEF SafeSpec

\* A writer at rest keeps fewer than batch_size frames from the file.
THEOREM IdleLossBounded == SafeSpec => []IdleLoss
<1>1. Inv /\ BatchesFull => IdleLoss
  <2> SUFFICES ASSUME Inv, BatchesFull, worker = "waiting", owner = "using",
                      \A p \in Producers : producer[p] = "idle", stream = "good"
               PROVE  accepted - flushed < BatchSize
    BY DEF IdleLoss
  <2>1. write_queue = <<>> /\ batch = <<>> /\ flushed = Len(out)
    BY DEF Inv, NoLostWakeup, StageInv
  <2>2. Taken = Swapped /\ Len(batch) = 0
    BY <2>1 DEF Taken, Before
  <2>3. Len(out) + 0 = Swapped
    BY <2>2 DEF Inv, OrderInv
  <2>4. /\ accepted \in Nat /\ Len(pending) \in Nat /\ Len(out) \in Nat
        /\ Len(pending) < BatchSize /\ BatchSize \in Nat
    BY BatchAssumption DEF Inv, TypeOK, BatchesFull
  <2>5. accepted - (accepted - Len(pending)) = Len(pending)
    BY <2>4
  <2> QED BY <2>1, <2>3, <2>4, <2>5 DEF Swapped
<1> QED BY <1>1, InvAlways, BatchesAreFull, PTL

-----------------------------------------------------------------------------
(* The writer implements LogFile *)

Disk == SubSeq(out, 1, flushed)
Phase == IF owner = "using" THEN "open"
         ELSE IF owner \in {"notify", "join"} THEN "sealed" ELSE "closed"
Medium == IF stream = "bad" \/ worker = "failed" THEN "broken" ELSE "ok"

\* A prefix of a stream without gaps is the first frames, in order.
LEMMA Prefix ==
    ASSUME NEW s \in Seq(Nat), NEW n \in 0 .. Len(s), \A i \in 1 .. Len(s) : s[i] = i
    PROVE  SubSeq(s, 1, n) = [i \in 1 .. n |-> i] /\ Len(SubSeq(s, 1, n)) = n
OBVIOUS

\* More written to the stream leaves the flushed part as it is.
LEMMA PrefixStable ==
    ASSUME NEW s \in Seq(Nat), NEW f \in Nat, NEW n \in 0 .. Len(s)
    PROVE  SubSeq(Append(s, f), 1, n) = SubSeq(s, 1, n)
OBVIOUS

\* A new writer is an empty, open log file.
LEMMA InitRefines == Init => Log!Init
<1> SUFFICES ASSUME Init PROVE Log!Init
  OBVIOUS
<1>1. SubSeq(out, 1, flushed) = <<>>
  BY DEF Init
<1> QED BY <1>1 DEF Init, Log!Init

\* What flushed' says of the disk: it grows by the next frames, or stays.
LEMMA DiskGrows ==
    ASSUME Inv, flushed' \in flushed .. Len(out), out' = out
    PROVE  \/ Disk' = Disk
           \/ \E n \in Len(Disk) + 1 .. accepted : Disk' = [i \in 1 .. n |-> i]
<1>1. /\ out \in Seq(Nat) /\ flushed \in 0 .. Len(out) /\ accepted \in Nat
      /\ Len(out) \in Nat /\ Len(batch) \in Nat /\ Len(pending) \in Nat
      /\ \A i \in 1 .. Len(out) : out[i] = i
  BY DEF Inv, TypeOK, OrderInv, NoGap
<1>2. Len(out) <= accepted
  <2>1. Len(out) + Len(batch) <= Taken /\ Taken \in 0 .. accepted - Len(pending)
    BY DEF Inv, OrderInv, Swapped
  <2> QED BY <1>1, <2>1
<1>3. PICK m \in flushed .. Len(out) : flushed' = m
  OBVIOUS
<1>4. m \in 0 .. Len(out) /\ Disk' = SubSeq(out, 1, m)
  BY <1>1, <1>3 DEF Disk
<1>5. Disk' = [i \in 1 .. m |-> i]
  BY <1>1, <1>4, Prefix
<1>6. Len(Disk) = flushed
  BY <1>1, Prefix DEF Disk
<1>7. CASE m = flushed
  BY <1>4, <1>7 DEF Disk
<1>8. CASE m # flushed
  <2>1. m \in Len(Disk) + 1 .. accepted
    BY <1>1, <1>2, <1>3, <1>6, <1>8
  <2> QED BY <1>5, <2>1
<1> QED BY <1>7, <1>8

\* Every step of the writer is a step of the abstract log or a stutter.
LEMMA NextRefines == Inv /\ [Next]_vars => [Log!Next]_Log!vars
<1> SUFFICES ASSUME Inv, [Next]_vars PROVE [Log!Next]_Log!vars
  OBVIOUS
<1> DEFINE Still == UNCHANGED <<accepted, Disk, sealed, Phase, Medium>>
<1>s. Still => [Log!Next]_Log!vars
  BY DEF Log!vars, Disk, Phase, Medium
<1>t. TypeOK /\ StageInv /\ NoGap
  BY DEF Inv, OrderInv
<1> USE DEF queues, file
<1>1. ASSUME NEW p \in Producers, Enqueue(p) PROVE Log!Accept
  BY <1>1 DEF Enqueue, Log!Accept
<1>2. ASSUME NEW p \in Producers, ProducerNotify(p) PROVE Still
  BY <1>2 DEF ProducerNotify, NotifyOne, Disk, Phase, Medium
<1>3. ASSUME OpenFile \/ Sleep \/ SpuriousWakeup \/ TakeBatch PROVE Still
  BY <1>3 DEF OpenFile, Sleep, SpuriousWakeup, TakeBatch, Disk, Phase, Medium
<1>4. ASSUME OpenFails \/ WriteFails PROVE Log!Break
  <2>1. owner \notin {"closed", "destroyed"}
    BY <1>t, <1>4 DEF OpenFails, WriteFails, NextFrame, StageInv, Ended
  <2>2. owner \in {"using", "notify", "join"}
    BY <1>t, <2>1 DEF TypeOK, OwnerStates
  <2> QED BY <1>4, <2>2 DEF OpenFails, WriteFails, NextFrame, Log!Break
<1>5. ASSUME Finish \/ Flush \/ FlushFails PROVE [Log!Next]_Log!vars
  <2>1. /\ worker \in {"check", "flush"} /\ worker' \in {"check", "exited"}
        /\ flushed' \in flushed .. Len(out) /\ out' = out
        /\ stream' = stream \/ stream' = "bad"
        /\ UNCHANGED <<accepted, owner, sealed>>
    BY <1>t, <1>5 DEF TypeOK, Finish, Flush, FlushFails
  <2>2. owner \in {"using", "notify", "join"}
    BY <1>t, <2>1 DEF TypeOK, StageInv, Ended, OwnerStates
  <2>3. \/ Disk' = Disk
        \/ \E n \in Len(Disk) + 1 .. accepted : Disk' = [i \in 1 .. n |-> i]
    BY <2>1, DiskGrows
  <2>4. CASE stream' = "bad"
    <3>1. Log!Break
      BY <2>1, <2>2, <2>3, <2>4 DEF Log!Break, Disk
    <3> QED BY <3>1 DEF Log!Next
  <2>5. CASE stream' # "bad"
    <3>1. Medium' = "ok" /\ Medium = "ok" /\ Phase' = Phase /\ Phase # "closed"
      BY <2>1, <2>2, <2>5 DEF Medium, Phase
    <3>2. CASE Disk' = Disk
      BY <1>s, <2>1, <3>1, <3>2
    <3>3. CASE \E n \in Len(Disk) + 1 .. accepted : Disk' = [i \in 1 .. n |-> i]
      <4>1. Log!Persist
        BY <2>1, <3>1, <3>3 DEF Log!Persist, Disk, Phase, Medium
      <4> QED BY <4>1 DEF Log!Next
    <3> QED BY <2>3, <3>2, <3>3
  <2> QED BY <2>4, <2>5
<1>6. ASSUME WriteFrame PROVE Still
  <2>1. /\ out \in Seq(Nat) /\ batch \in Seq(Nat) /\ batch # <<>>
        /\ flushed \in 0 .. Len(out)
    BY <1>t, <1>6 DEF TypeOK, StageInv, WriteFrame, NextFrame
  <2>2. Head(batch) \in Nat
    BY <2>1
  <2>3. Disk' = Disk
    BY <1>6, <2>1, <2>2, PrefixStable DEF WriteFrame, Disk
  <2> QED BY <1>6, <2>3 DEF WriteFrame, NextFrame, Phase, Medium
<1>7. ASSUME ShutdownBegin PROVE Log!Seal
  BY <1>7 DEF ShutdownBegin, Log!Seal
<1>8. ASSUME OwnerNotify PROVE Still
  BY <1>8 DEF OwnerNotify, NotifyOne, Disk, Phase, Medium
<1>9. ASSUME Join PROVE Log!Close
  <2>1. /\ owner = "join" /\ owner' = "closed" /\ Ended /\ stop
        /\ UNCHANGED <<accepted, out, flushed, stream, worker, sealed>>
    BY <1>t, <1>9 DEF Join, StageInv
  <2>2. out \in Seq(Nat) /\ flushed \in 0 .. Len(out) /\ \A i \in 1 .. Len(out) : out[i] = i
    BY <1>t DEF TypeOK, NoGap
  <2>3. Len(SubSeq(out, 1, flushed)) = flushed
    BY <2>2, Prefix
  <2>4. stream = "good" /\ worker = "exited" => flushed >= sealed
    BY <2>1 DEF Inv, StageInv, SealInv
  <2>5. Medium = "ok" => flushed >= sealed
    BY <1>t, <2>1, <2>4 DEF Medium, Ended, TypeOK
  <2> QED BY <2>1, <2>3, <2>5 DEF Log!Close, Medium
<1>10. ASSUME Destroy PROVE Still
  BY <1>10 DEF Destroy, Disk, Phase, Medium
<1>11. ASSUME UNCHANGED vars PROVE Still
  BY <1>11 DEF vars, Disk, Phase, Medium
<1> QED
  BY <1>s, <1>1, <1>2, <1>3, <1>4, <1>5, <1>6, <1>7, <1>8, <1>9, <1>10, <1>11
     DEF Next, Worker, Gone, Log!Next

\* The writer keeps the safety part of what LogFile promises.
THEOREM ImplementsLogFile == SafeSpec => Log!SafeSpec
BY InitRefines, NextRefines, InvAlways, PTL DEF SafeSpec, Log!SafeSpec

-----------------------------------------------------------------------------
(* No frame is lost on the way to the stream *)

\* Induction over the natural numbers, for a set: every set of numbers has a
\* smallest one.
LEMMA SmallestNumber ==
    ASSUME NEW T \in SUBSET Nat, T # {}
    PROVE  \E n \in T : \A m \in T : n <= m
<1>1. \A x, y \in Nat : <<x, y>> \in OpToRel(<, Nat) <=> x < y
  BY DEF OpToRel
<1>2. PICK R : IsWellFoundedOn(R, Nat) /\ \A x, y \in Nat : <<x, y>> \in R <=> x < y
  BY <1>1, NatLessThanWellFounded
<1>3. IsWellFoundedOn(R, Nat) /\ T \subseteq Nat
  BY <1>2
<1>4. PICK n \in T : \A m \in T : ~(<<m, n>> \in R)
  BY <1>3, WFMin, Zenon
<1>5. \A m \in T : m \in Nat /\ n \in Nat /\ ~(m < n)
  BY <1>2, <1>4
<1> QED BY <1>5

\* Induction over the places of a sequence.
LEMMA Places ==
    ASSUME NEW n \in Nat, NEW T, n > 0 => 1 \in T, \A i \in 1 .. n - 1 : i \in T => i + 1 \in T
    PROVE  \A i \in 1 .. n : i \in T
<1> DEFINE Bad == {i \in 1 .. n : i \notin T}
<1> SUFFICES ASSUME Bad # {} PROVE FALSE
  OBVIOUS
<1>1. PICK i \in Bad : \A m \in Bad : i <= m
  <2>1. Bad \in SUBSET Nat
    OBVIOUS
  <2> HIDE DEF Bad
  <2> QED BY <2>1, SmallestNumber
<1>2. i \in 1 .. n /\ i \notin T /\ i # 1
  BY <1>1
<1>3. i - 1 \in 1 .. n - 1 /\ i - 1 \in 1 .. n /\ (i - 1) + 1 = i /\ ~(i <= i - 1)
  BY <1>2
<1>4. i - 1 \in T
  BY <1>1, <1>3
<1> QED BY <1>2, <1>3, <1>4

\* The n frames after frame k.
Frames(k, n) == [j \in 1 .. n |-> k + j]

\* A sequence of frames that follow k is the frames after k.
LEMMA FramesFollow ==
    ASSUME NEW s \in Seq(Nat), NEW k, Follow(s, k)
    PROVE  s = Frames(k, Len(s))
  BY DEF Follow, Frames

\* The frames after k, and those after them, are the frames after k.
LEMMA FramesConcat ==
    ASSUME NEW k \in Nat, NEW n \in Nat, NEW m \in Nat
    PROVE  Frames(k, n) \o Frames(k + n, m) = Frames(k, n + m)
<1> DEFINE s == Frames(k, n)
           r == Frames(k + n, m)
           u == s \o r
<1>1. s \in Seq(Nat) /\ r \in Seq(Nat) /\ Len(s) = n /\ Len(r) = m
  BY DEF Frames
<1>2. /\ \A j \in 1 .. n : s[j] = k + j
      /\ \A j \in 1 .. m : r[j] = k + n + j
  BY DEF Frames
<1> HIDE DEF s, r
<1>3. /\ u \in Seq(Nat) /\ Len(u) = n + m
      /\ \A j \in 1 .. n + m : u[j] = IF j <= n THEN s[j] ELSE r[j - n]
  BY <1>1
<1> HIDE DEF u
<1>4. ASSUME NEW j \in 1 .. n + m PROVE u[j] = k + j
  <2>1. CASE j <= n
    BY <2>1, <1>2, <1>3
  <2>2. CASE ~(j <= n)
    <3>1. j - n \in 1 .. m
      BY <2>2
    <3> QED BY <2>2, <3>1, <1>2, <1>3
  <2> QED BY <2>1, <2>2
<1>5. u = Frames(k, Len(u))
  BY <1>3, <1>4, FramesFollow DEF Follow
<1> QED BY <1>3, <1>5 DEF u, s, r

\* What the recursion of FlattenSeq comes to, if some function satisfies it.
LEMMA FlattenUnfolds ==
    ASSUME NEW q, NEW n \in Nat \ {0}, Len(q) = n, NEW g,
           g = [i \in 1 .. n |-> IF i = 1 THEN q[i] ELSE g[i - 1] \o q[i]]
    PROVE  \E f : /\ f = [i \in 1 .. n |-> IF i = 1 THEN q[i] ELSE f[i - 1] \o q[i]]
                  /\ FlattenSeq(q) = f[n]
  BY DEF FlattenSeq

\* A chain of batches, each of the frames after the ones before it.
Chain(q, n, t, size, len) ==
    /\ q[1] = Frames(t, size[1])
    /\ \A i \in 1 .. n - 1 :
          q[i + 1] = Frames(t + size[i], len[i + 1]) /\ size[i + 1] = size[i] + len[i + 1]

\* Such a chain, put together, is its frames from the first to the last.
LEMMA FlattenChain ==
    ASSUME NEW q, NEW n \in Nat \ {0}, Len(q) = n, NEW t \in Nat,
           NEW size \in [1 .. n -> Nat], NEW len \in [1 .. n -> Nat], Chain(q, n, t, size, len)
    PROVE  FlattenSeq(q) = Frames(t, size[n])
<1> DEFINE F(i) == Frames(t, size[i])
<1>1. ASSUME NEW i \in 1 .. n - 1
      PROVE  i \in 1 .. n /\ i + 1 \in 1 .. n /\ F(i) \o q[i + 1] = F(i + 1)
  <2>1. i \in 1 .. n /\ i + 1 \in 1 .. n
    OBVIOUS
  <2>2. size[i] \in Nat /\ len[i + 1] \in Nat
    BY <2>1
  <2>3. q[i + 1] = Frames(t + size[i], len[i + 1]) /\ size[i + 1] = size[i] + len[i + 1]
    BY DEF Chain
  <2>4. Frames(t, size[i]) \o Frames(t + size[i], len[i + 1]) = Frames(t, size[i] + len[i + 1])
    BY <2>2, FramesConcat
  <2>5. F(i) \o q[i + 1] = Frames(t, size[i] + len[i + 1])
    BY <2>3, <2>4
  <2>6. F(i + 1) = Frames(t, size[i] + len[i + 1])
    BY <2>3
  <2> QED BY <2>1, <2>5, <2>6
<1>2. q[1] = F(1)
  BY DEF Chain
<1> HIDE DEF F
<1> DEFINE g == [i \in 1 .. n |-> F(i)]
<1>3. \A i \in 1 .. n : F(i) = IF i = 1 THEN q[i] ELSE F(i - 1) \o q[i]
  <2> SUFFICES ASSUME NEW i \in 1 .. n, i # 1 PROVE F(i) = F(i - 1) \o q[i]
    BY <1>2
  <2>1. i - 1 \in 1 .. n - 1 /\ (i - 1) + 1 = i
    OBVIOUS
  <2> QED BY <2>1, <1>1
<1>4. \A i \in 1 .. n : i # 1 => i - 1 \in 1 .. n
  OBVIOUS
<1>5. g = [i \in 1 .. n |-> IF i = 1 THEN q[i] ELSE g[i - 1] \o q[i]]
  BY <1>3, <1>4
<1> HIDE DEF g
<1>6. PICK f : /\ f = [i \in 1 .. n |-> IF i = 1 THEN q[i] ELSE f[i - 1] \o q[i]]
               /\ FlattenSeq(q) = f[n]
  BY <1>5, FlattenUnfolds
<1>7. \A i \in 1 .. n : f[i] = IF i = 1 THEN q[i] ELSE f[i - 1] \o q[i]
  BY <1>6
<1> DEFINE T == {j \in 1 .. n : f[j] = F(j)}
<1>8. 1 \in T
  BY <1>2, <1>7
<1>9. ASSUME NEW i \in 1 .. n - 1, i \in T PROVE i + 1 \in T
  <2>1. i + 1 \in 1 .. n /\ i + 1 # 1 /\ (i + 1) - 1 = i
    OBVIOUS
  <2>2. f[i + 1] = f[i] \o q[i + 1]
    BY <2>1, <1>7
  <2> QED BY <1>9, <2>1, <2>2, <1>1
<1>10. n \in T
  <2> HIDE DEF T
  <2>1. \A i \in 1 .. n : i \in T
    BY <1>8, <1>9, Places
  <2> QED BY <2>1
<1> QED BY <1>6, <1>10 DEF F

\* How many frames there are up to each of the batches in line.
LEMMA Sizes ==
    ASSUME NEW n \in Nat \ {0}, NEW first \in [1 .. n -> Nat], NEW len \in [1 .. n -> Nat],
           \A i \in 1 .. n - 1 : first[i + 1] = first[i] + len[i]
    PROVE  \E size \in [1 .. n -> Nat] :
              /\ size[1] = len[1]
              /\ \A i \in 1 .. n - 1 : size[i + 1] = size[i] + len[i + 1]
              /\ \A i \in 1 .. n : first[i] + len[i] = first[1] + size[i]
<1>1. \A i \in 1 .. n : first[i] \in Nat /\ len[i] \in Nat
  OBVIOUS
<1> DEFINE T == {j \in 1 .. n : first[1] <= first[j]}
<1>2. 1 \in T
  BY <1>1
<1>3. ASSUME NEW i \in 1 .. n - 1, i \in T PROVE i + 1 \in T
  <2>1. i \in 1 .. n /\ i + 1 \in 1 .. n /\ 1 \in 1 .. n /\ first[1] <= first[i]
    BY <1>3
  <2>2. first[i + 1] = first[i] + len[i]
    OBVIOUS
  <2> QED BY <1>1, <2>1, <2>2
<1>4. \A i \in 1 .. n : i \in T
  <2> HIDE DEF T
  <2> QED BY <1>2, <1>3, Places
<1> DEFINE size == [i \in 1 .. n |-> first[i] + len[i] - first[1]]
<1>5. 1 \in 1 .. n /\ \A i \in 1 .. n - 1 : i \in 1 .. n /\ i + 1 \in 1 .. n
  OBVIOUS
<1>6. \A i \in 1 .. n : size[i] \in Nat /\ first[i] + len[i] = first[1] + size[i]
  BY <1>1, <1>4, <1>5
<1>7. size \in [1 .. n -> Nat]
  BY <1>6
<1>8. size[1] = len[1]
  BY <1>1, <1>5
<1>9. ASSUME NEW i \in 1 .. n - 1 PROVE size[i + 1] = size[i] + len[i + 1]
  <2>1. first[i + 1] = first[i] + len[i]
    OBVIOUS
  <2> QED BY <1>1, <1>5, <2>1
<1> HIDE DEF size
<1> QED BY <1>6, <1>7, <1>8, <1>9

\* Batches in line are, one after another, the frames from the first to the last.
LEMMA FlattenInLine ==
    ASSUME NEW q \in Seq(Seq(Nat)), NEW e \in Nat, InLine(q, e), q # <<>>
    PROVE  /\ Before(q, e) \in 0 .. e
           /\ FlattenSeq(q) = Frames(Before(q, e), e - Before(q, e))
<1>1. PICK n \in Nat \ {0} : n = Len(q)
  BY EmptyLen
<1> DEFINE first == [i \in 1 .. n |-> q[i][1]]
           len == [i \in 1 .. n |-> Len(q[i])]
<1>2. 1 \in 1 .. n /\ n \in 1 .. n /\ \A i \in 1 .. n - 1 : i \in 1 .. n /\ i + 1 \in 1 .. n
  OBVIOUS
<1>3. \A i \in 1 .. n : q[i] \in Seq(Nat) /\ Len(q[i]) \in Nat
  BY <1>1
<1>4. \A i \in 1 .. n : Len(q[i]) > 0 /\ q[i][1] > 0 /\ Follow(q[i], q[i][1] - 1)
  BY <1>1 DEF InLine
<1>5. \A i \in 1 .. n : q[i][1] \in Nat
  <2> SUFFICES ASSUME NEW i \in 1 .. n PROVE q[i][1] \in Nat
    OBVIOUS
  <2>1. 1 \in 1 .. Len(q[i]) /\ q[i] \in Seq(Nat)
    BY <1>3, <1>4
  <2> QED BY <2>1
<1>6. /\ \A i \in 1 .. n - 1 : q[i + 1][1] = q[i][1] + Len(q[i])
      /\ q[n][1] + Len(q[n]) = e + 1
  BY <1>1 DEF InLine
<1>7. \A i \in 1 .. n : /\ first[i] = q[i][1] /\ len[i] = Len(q[i])
                        /\ first[i] \in Nat /\ first[i] > 0 /\ len[i] \in Nat
  BY <1>3, <1>4, <1>5
<1>8. first \in [1 .. n -> Nat] /\ len \in [1 .. n -> Nat]
  BY <1>7
<1>9. \A i \in 1 .. n : q[i] = Frames(first[i] - 1, len[i])
  BY <1>3, <1>4, <1>7, FramesFollow
<1>10. /\ \A i \in 1 .. n - 1 : first[i + 1] = first[i] + len[i]
       /\ first[n] + len[n] = e + 1
  BY <1>2, <1>6, <1>7
<1>11. Before(q, e) = first[1] - 1
  BY <1>2, <1>7 DEF Before
<1> HIDE DEF first, len
<1>12. PICK size \in [1 .. n -> Nat] :
          /\ size[1] = len[1]
          /\ \A i \in 1 .. n - 1 : size[i + 1] = size[i] + len[i + 1]
          /\ \A i \in 1 .. n : first[i] + len[i] = first[1] + size[i]
  BY <1>8, <1>10, Sizes
<1> DEFINE t == first[1] - 1
<1>13. t \in Nat /\ first[1] = t + 1
  BY <1>2, <1>7
<1> HIDE DEF t
<1>14. Chain(q, n, t, size, len)
  <2>1. q[1] = Frames(t, size[1])
    <3>1. 1 \in 1 .. n
      BY <1>2
    <3>2. q[1] = Frames(first[1] - 1, len[1])
      BY <1>9, <3>1
    <3>3. first[1] - 1 = t
      BY DEF t
    <3>4. size[1] = len[1]
      BY <1>12
    <3> QED BY <3>2, <3>3, <3>4
  <2>2. ASSUME NEW i \in 1 .. n - 1
        PROVE  q[i + 1] = Frames(t + size[i], len[i + 1])
    <3>1. i \in 1 .. n /\ i + 1 \in 1 .. n
      BY <1>2
    <3>2. size[i] \in Nat /\ first[i + 1] = first[i] + len[i]
          /\ first[i] + len[i] = first[1] + size[i]
      BY <1>10, <1>12, <3>1
    <3>3. first[i + 1] - 1 = t + size[i]
      BY <1>7, <1>13, <3>1, <3>2
    <3>4. q[i + 1] = Frames(first[i + 1] - 1, len[i + 1])
      BY <1>9, <3>1
    <3> QED BY <3>3, <3>4
  <2> QED BY <1>12, <2>1, <2>2 DEF Chain
<1>15. FlattenSeq(q) = Frames(t, size[n])
  BY <1>1, <1>8, <1>12, <1>13, <1>14, FlattenChain
<1>16. t + size[n] = e /\ size[n] \in Nat
  <2>1. /\ first[n] \in Nat /\ len[n] \in Nat /\ size[n] \in Nat
        /\ first[1] = t + 1 /\ t \in Nat
    BY <1>2, <1>7, <1>12, <1>13
  <2>2. first[n] + len[n] = first[1] + size[n] /\ first[n] + len[n] = e + 1
    BY <1>2, <1>10, <1>12
  <2> DEFINE a == first[n]
             c == len[n]
             z == size[n]
  <2>3. /\ a \in Nat /\ c \in Nat /\ z \in Nat /\ t \in Nat
        /\ a + c = t + 1 + z /\ a + c = e + 1
    BY <2>1, <2>2
  <2> HIDE DEF a, c, z
  <2>4. t + z = e
    BY <2>3
  <2> QED BY <2>1, <2>4 DEF z
<1>17. Before(q, e) = t /\ t \in 0 .. e /\ size[n] = e - t
  BY <1>11, <1>13, <1>16 DEF t
<1> QED BY <1>15, <1>17

\* What is in the stream, in the worker's hands, in the queue and in pending,
\* one after another, is every frame that was enqueued.
LEMMA NothingLostFollows == Inv => NothingLost
<1> SUFFICES ASSUME Inv, stream = "good"
             PROVE  out \o batch \o FlattenSeq(write_queue) \o pending
                        = [i \in 1 .. accepted |-> i]
  BY DEF NothingLost
<1> DEFINE o == Len(out)
           b == Len(batch)
           p == Len(pending)
           s == Swapped
           t == Taken
<1>1. /\ accepted \in Nat /\ pending \in Seq(Nat) /\ batch \in Seq(Nat) /\ out \in Seq(Nat)
      /\ write_queue \in Seq(Seq(Nat))
      /\ o \in Nat /\ b \in Nat /\ p \in Nat /\ p <= accepted
  BY DEF Inv, TypeOK, OrderInv
<1>2. s \in Nat /\ s + p = accepted
  BY <1>1 DEF Swapped
<1>3. /\ Follow(pending, s) /\ InLine(write_queue, s) /\ t \in 0 .. s
      /\ o + b = t /\ Follow(batch, t - b) /\ NoGap
  BY DEF Inv, OrderInv
<1>taken. t = Before(write_queue, s)
  BY DEF Taken
<1> HIDE DEF o, b, p, s, t
<1>4. t \in Nat /\ s - t \in Nat /\ t - b = o /\ t + (s - t) = s
  BY <1>1, <1>2, <1>3
<1>5. out = Frames(0, o)
  <2>1. Follow(out, 0)
    BY <1>1, <1>3 DEF NoGap, Follow
  <2> QED BY <2>1, <1>1, FramesFollow DEF o
<1>6. batch = Frames(o, b)
  <2>1. Follow(batch, o)
    BY <1>3, <1>4
  <2> QED BY <2>1, <1>1, FramesFollow DEF b
<1>7. pending = Frames(s, p)
  BY <1>1, <1>3, FramesFollow DEF p
<1>8. FlattenSeq(write_queue) = Frames(t, s - t)
  <2>1. CASE write_queue = <<>>
    <3>1. t = s /\ FlattenSeq(write_queue) = <<>>
      BY <2>1, <1>taken DEF Before, FlattenSeq
    <3>2. s - t = 0
      BY <1>2, <3>1
    <3>3. Frames(t, 0) = <<>>
      BY DEF Frames
    <3> QED BY <3>1, <3>2, <3>3
  <2>2. CASE write_queue # <<>>
    BY <2>2, <1>1, <1>2, <1>3, <1>taken, FlattenInLine
  <2> QED BY <2>1, <2>2
<1>9. out \o batch = Frames(0, t)
  <2>1. Frames(0, o) \o Frames(0 + o, b) = Frames(0, o + b)
    BY <1>1, FramesConcat
  <2>2. 0 + o = o
    BY <1>1
  <2> QED BY <2>1, <2>2, <1>3, <1>5, <1>6
<1>10. out \o batch \o FlattenSeq(write_queue) = Frames(0, s)
  <2>1. Frames(0, t) \o Frames(0 + t, s - t) = Frames(0, t + (s - t))
    BY <1>4, FramesConcat
  <2>2. 0 + t = t
    BY <1>4
  <2> QED BY <2>1, <2>2, <1>4, <1>8, <1>9
<1>11. out \o batch \o FlattenSeq(write_queue) \o pending = Frames(0, accepted)
  <2>1. Frames(0, s) \o Frames(0 + s, p) = Frames(0, s + p)
    BY <1>1, <1>2, FramesConcat
  <2>2. 0 + s = s
    BY <1>2
  <2> QED BY <2>1, <2>2, <1>2, <1>7, <1>10
<1>12. Frames(0, accepted) = [i \in 1 .. accepted |-> i]
  <2>1. \A i \in 1 .. accepted : 0 + i = i
    BY <1>1
  <2> QED BY <2>1 DEF Frames
<1> QED BY <1>11, <1>12

\* While the stream takes frames, none is lost, written twice or overtaken on
\* the way from enqueue() to the stream, whatever the batches and the threads
\* (enqueue, swap_pending_unlocked, run).
THEOREM NothingIsLost == SafeSpec => []NothingLost
BY InvAlways, NothingLostFollows, PTL
=============================================================================
