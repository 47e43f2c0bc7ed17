-------------------------- MODULE PairQueueProofs --------------------------
(***************************************************************************)
(* Proofs about PairQueue for every capacity and every tolerance: Inv is   *)
(* an inductive invariant, nothing with a partner is removed as long as    *)
(* the fronts are those that were compared, and without an overflow as     *)
(* many pairs are rendered as any matching of the messages has.            *)
(***************************************************************************)
EXTENDS PairQueue, FiniteSetTheorems, TLAPS

-----------------------------------------------------------------------------
(* What Push and Tail do to a queue *)

\* A full queue stays as long as it is, with a newer front; another one grows
\* at its end and keeps its front (publishRgb, publishIntensityCloud).
LEMMA PushQueue ==
    ASSUME NEW q \in Seq(Nat), Len(q) <= Cap, Increasing(q),
           NEW m \in Nat, \A i \in 1 .. Len(q) : q[i] < m
    PROVE  /\ Push(q, m) \in Seq(Nat)
           /\ Len(Push(q, m)) \in 1 .. Cap
           /\ Increasing(Push(q, m))
           /\ \A i \in 1 .. Len(Push(q, m)) :
                 \/ Push(q, m)[i] = m
                 \/ \E j \in 1 .. Len(q) : Push(q, m)[i] = q[j]
           /\ Len(q) < Cap /\ Len(q) > 0 => Push(q, m)[1] = q[1]
           /\ Len(q) = Cap => Len(Push(q, m)) = Cap
<1> USE CapAssumption
<1>1. CASE Len(q) >= Cap
  <2> DEFINE t == Tail(q)
             r == Append(t, m)
  <2>1. /\ Len(q) = Cap /\ Len(q) > 0
        /\ t \in Seq(Nat) /\ Len(t) = Cap - 1
        /\ \A i \in 1 .. Cap - 1 : t[i] = q[i + 1]
    BY <1>1
  <2> HIDE DEF t
  <2>2. /\ r \in Seq(Nat) /\ Len(r) = Cap /\ r[Cap] = m
        /\ \A i \in 1 .. Cap - 1 : r[i] = t[i]
    BY <2>1
  <2> HIDE DEF r
  <2>3. \A i \in 1 .. Cap - 1 : r[i] = q[i + 1] /\ i + 1 \in 1 .. Len(q)
    BY <2>1, <2>2
  <2>4. \A i \in 1 .. Cap : i \in 1 .. Cap - 1 \/ i = Cap
    OBVIOUS
  <2>5. \A i \in 1 .. Cap : r[i] = m \/ \E j \in 1 .. Len(q) : r[i] = q[j]
    BY <2>2, <2>3, <2>4
  <2>6. Increasing(r)
    <3> SUFFICES ASSUME NEW i \in 1 .. Cap, NEW j \in 1 .. Cap, i < j
                 PROVE  r[i] < r[j]
      BY <2>2 DEF Increasing
    <3>1. i \in 1 .. Cap - 1 /\ r[i] = q[i + 1] /\ i + 1 \in 1 .. Len(q)
      BY <2>3
    <3>2. CASE j = Cap
      BY <3>1, <3>2, <2>2
    <3>3. CASE j # Cap
      <4>1. j \in 1 .. Cap - 1 /\ r[j] = q[j + 1] /\ j + 1 \in 1 .. Len(q) /\ i + 1 < j + 1
        BY <3>3, <2>3
      <4> QED BY <3>1, <4>1 DEF Increasing
    <3> QED BY <3>2, <3>3
  <2>7. Push(q, m) = r
    BY <1>1 DEF Push, r, t
  <2> QED BY <2>1, <2>2, <2>5, <2>6, <2>7
<1>2. CASE ~(Len(q) >= Cap)
  <2> DEFINE n == Len(q)
             r == Append(q, m)
  <2>1. /\ n \in Nat /\ n < Cap
        /\ r \in Seq(Nat) /\ Len(r) = n + 1 /\ r[n + 1] = m
        /\ \A i \in 1 .. n : r[i] = q[i]
    BY <1>2
  <2> HIDE DEF r
  <2>2. \A i \in 1 .. n + 1 : i \in 1 .. n \/ i = n + 1
    BY <2>1
  <2>3. \A i \in 1 .. n + 1 : r[i] = m \/ \E j \in 1 .. n : r[i] = q[j]
    BY <2>1, <2>2
  <2>4. Increasing(r)
    <3> SUFFICES ASSUME NEW i \in 1 .. n + 1, NEW j \in 1 .. n + 1, i < j
                 PROVE  r[i] < r[j]
      BY <2>1 DEF Increasing
    <3>1. i \in 1 .. n
      BY <2>1
    <3>2. CASE j = n + 1
      BY <3>1, <3>2, <2>1
    <3>3. CASE j # n + 1
      BY <3>1, <3>3, <2>1, <2>2 DEF Increasing
    <3> QED BY <3>2, <3>3
  <2>5. n > 0 => r[1] = q[1]
    BY <2>1
  <2>6. Push(q, m) = r
    BY <1>2 DEF Push, r
  <2> QED BY <2>1, <2>3, <2>4, <2>5, <2>6
<1> QED BY <1>1, <1>2

\* Removing the front of a sorted queue: what is left is newer (try_process_pair).
LEMMA TailQueue ==
    ASSUME NEW q \in Seq(Nat), Increasing(q), q # <<>>
    PROVE  /\ Tail(q) \in Seq(Nat)
           /\ Len(Tail(q)) = Len(q) - 1
           /\ Len(q) > 0
           /\ Head(q) = q[1]
           /\ Increasing(Tail(q))
           /\ \A i \in 1 .. Len(Tail(q)) :
                 /\ i + 1 \in 1 .. Len(q)
                 /\ Tail(q)[i] = q[i + 1]
                 /\ q[1] < Tail(q)[i]
<1> DEFINE t == Tail(q)
<1>1. /\ t \in Seq(Nat) /\ Len(t) = Len(q) - 1 /\ Len(q) > 0 /\ Head(q) = q[1]
      /\ \A i \in 1 .. Len(q) - 1 : t[i] = q[i + 1]
  OBVIOUS
<1> HIDE DEF t
<1>2. \A i \in 1 .. Len(t) : i + 1 \in 1 .. Len(q) /\ t[i] = q[i + 1] /\ 1 < i + 1
  BY <1>1
<1>3. \A i \in 1 .. Len(t) : q[1] < t[i]
  <2> SUFFICES ASSUME NEW i \in 1 .. Len(t) PROVE q[1] < t[i]
    OBVIOUS
  <2>1. 1 \in 1 .. Len(q)
    BY <1>1
  <2> QED BY <2>1, <1>2 DEF Increasing
<1>4. Increasing(t)
  <2> SUFFICES ASSUME NEW i \in 1 .. Len(t), NEW j \in 1 .. Len(t), i < j
               PROVE  t[i] < t[j]
    BY DEF Increasing
  <2>1. i + 1 < j + 1 /\ i + 1 \in 1 .. Len(q) /\ j + 1 \in 1 .. Len(q)
    BY <1>2
  <2> QED BY <2>1, <1>2 DEF Increasing
<1> QED BY <1>1, <1>2, <1>3, <1>4 DEF t

\* A new message keeps the queue sorted and newer than everything that was older
\* than the queue before (publishRgb, publishIntensityCloud).
LEMMA PushKeeps ==
    ASSUME NEW stamps \in SUBSET Nat,
           NEW q \in Seq(Nat), Len(q) <= Cap, Increasing(q), From(q, stamps),
           NEW m \in Nat, \A s \in stamps : s < m
    PROVE  /\ Push(q, m) \in Seq(Nat)
           /\ Len(Push(q, m)) \in 1 .. Cap
           /\ Push(q, m) # <<>>
           /\ Increasing(Push(q, m))
           /\ From(Push(q, m), stamps \cup {m})
           /\ \A x \in stamps : NotNewer(x, q) => NotNewer(x, Push(q, m))
           /\ \A x \in stamps : Older(x, q) => Older(x, Push(q, m))
           /\ \A x : q # <<>> /\ (Head(q) = x \/ Len(q) = Cap) =>
                     Head(Push(q, m)) = x \/ Len(Push(q, m)) = Cap
<1>1. \A i \in 1 .. Len(q) : q[i] < m
  BY DEF From
<1> DEFINE r == Push(q, m)
<1>2. /\ r \in Seq(Nat)
      /\ Len(r) \in 1 .. Cap
      /\ Increasing(r)
      /\ \A i \in 1 .. Len(r) : r[i] = m \/ \E j \in 1 .. Len(q) : r[i] = q[j]
      /\ Len(q) < Cap /\ Len(q) > 0 => r[1] = q[1]
      /\ Len(q) = Cap => Len(r) = Cap
  BY <1>1, PushQueue
<1> HIDE DEF r
<1>3. r # <<>> /\ Head(r) = r[1]
  <2>1. Len(r) # 0
    BY <1>2
  <2>2. r # <<>>
    BY <1>2, <2>1
  <2> QED BY <1>2, <2>2
<1>4. From(r, stamps \cup {m})
  BY <1>2 DEF From
<1>5. ASSUME NEW x \in stamps, NotNewer(x, q) PROVE NotNewer(x, r)
  <2>1. x < m /\ x <= m
    OBVIOUS
  <2> QED BY <1>2, <1>5, <2>1 DEF NotNewer
<1>6. ASSUME NEW x \in stamps, Older(x, q) PROVE Older(x, r)
  <2>1. x < m
    OBVIOUS
  <2> QED BY <1>2, <1>6, <2>1 DEF Older
<1>7. ASSUME NEW x, q # <<>>, Head(q) = x \/ Len(q) = Cap
      PROVE  Head(r) = x \/ Len(r) = Cap
  <2>1. Len(q) > 0 /\ Head(q) = q[1]
    BY <1>7
  <2>2. CASE Len(q) = Cap
    BY <1>2, <2>2
  <2>3. CASE Len(q) # Cap
    <3>1. Len(q) < Cap
      BY <2>3, CapAssumption
    <3> QED BY <1>2, <1>3, <1>7, <2>1, <2>3, <3>1
  <2> QED BY <2>2, <2>3
<1> QED BY <1>2, <1>3, <1>4, <1>5, <1>6, <1>7 DEF r

-----------------------------------------------------------------------------
(* The inductive invariant *)

\* The invariant holds for empty queues.
LEMMA InitInv == Init => Inv
<1> SUFFICES ASSUME Init PROVE Inv
  OBVIOUS
<1> USE DEF Init
<1>2. Len(rgb_image_queue_) = 0 /\ Len(pcd_queue_) = 0
  OBVIOUS
<1>1. TypeOK
  <2>1. rgb_image_queue_ \in Seq(Nat) /\ pcd_queue_ \in Seq(Nat) /\ 0 <= Cap
    BY CapAssumption
  <2> QED BY <1>2, <2>1 DEF TypeOK
<1>3. QueueInv
  BY <1>2 DEF QueueInv, Increasing, From
<1> QED
  BY <1>1, <1>3 DEF Inv, CopyInv, RenderedInv, NeverPopsEmpty, PopsWhatItCompared,
     RendersInOrder

\* An image that is pushed keeps the invariant, also if it removes the front.
LEMMA PublishRgbInv == Inv /\ PublishRgb => Inv'
<1> SUFFICES ASSUME Inv, PublishRgb PROVE Inv'
  OBVIOUS
<1>1. PICK m \in Newer(rgb_seen) :
        /\ rgb_image_queue_' = Push(rgb_image_queue_, m)
        /\ rgb_seen' = rgb_seen \cup {m}
  BY DEF PublishRgb
<1>2. /\ UNCHANGED <<pcd_queue_, pc, rgb_msg, pcd_msg, pcd_seen, rendered>>
      /\ evicted' \in BOOLEAN
  BY DEF PublishRgb
<1>3. m \in Nat /\ \A s \in rgb_seen : s < m
  BY TimeAssumption DEF Newer
<1>t. /\ TypeOK /\ QueueInv /\ CopyInv /\ RenderedInv
      /\ NeverPopsEmpty /\ PopsWhatItCompared /\ RendersInOrder
  BY DEF Inv
<1> DEFINE q == rgb_image_queue_
           r == Push(q, m)
<1>4. /\ rgb_seen \in SUBSET Nat /\ q \in Seq(Nat) /\ Len(q) <= Cap
      /\ Increasing(q) /\ From(q, rgb_seen)
  BY <1>t DEF TypeOK, QueueInv
<1>5. /\ r \in Seq(Nat)
      /\ Len(r) \in 1 .. Cap
      /\ r # <<>>
      /\ Increasing(r)
      /\ From(r, rgb_seen \cup {m})
      /\ \A x \in rgb_seen : NotNewer(x, q) => NotNewer(x, r)
      /\ \A x \in rgb_seen : Older(x, q) => Older(x, r)
      /\ \A x : q # <<>> /\ (Head(q) = x \/ Len(q) = Cap) => Head(r) = x \/ Len(r) = Cap
  BY <1>3, <1>4, PushKeeps
<1> HIDE DEF r
<1>6. rgb_image_queue_' = r
  BY <1>1 DEF r
<1>7. TypeOK'
  <2>1. rgb_seen' \subseteq Nat /\ rendered' \subseteq rgb_seen' \X pcd_seen'
    BY <1>t, <1>1, <1>2, <1>3 DEF TypeOK
  <2>2. Len(r) <= Cap
    BY <1>5, CapAssumption
  <2> QED BY <1>t, <1>2, <1>5, <1>6, <2>1, <2>2 DEF TypeOK
<1>8. QueueInv'
  BY <1>t, <1>1, <1>2, <1>5, <1>6 DEF QueueInv
<1>9. CopyInv'
  <2>1. pc \in {"decide", "render"} => rgb_msg \in rgb_seen
    BY <1>t DEF CopyInv
  <2> QED BY <1>t, <1>1, <1>2, <1>5, <1>6, <2>1 DEF CopyInv, InRange, time_diff
<1>10. RenderedInv'
  <2>1. \A p \in rendered : p[1] \in rgb_seen
    BY <1>t DEF TypeOK
  <2> QED BY <1>t, <1>2, <1>5, <1>6, <2>1 DEF RenderedInv
<1>11. NeverPopsEmpty' /\ PopsWhatItCompared'
  BY <1>t, <1>2, <1>5, <1>6 DEF NeverPopsEmpty, PopsWhatItCompared
<1>12. RendersInOrder'
  BY <1>t, <1>2 DEF RendersInOrder
<1> QED BY <1>7, <1>8, <1>9, <1>10, <1>11, <1>12 DEF Inv

\* So does a cloud.
LEMMA PublishCloudInv == Inv /\ PublishCloud => Inv'
<1> SUFFICES ASSUME Inv, PublishCloud PROVE Inv'
  OBVIOUS
<1>1. PICK m \in Newer(pcd_seen) :
        /\ pcd_queue_' = Push(pcd_queue_, m)
        /\ pcd_seen' = pcd_seen \cup {m}
  BY DEF PublishCloud
<1>2. /\ UNCHANGED <<rgb_image_queue_, pc, rgb_msg, pcd_msg, rgb_seen, rendered>>
      /\ evicted' \in BOOLEAN
  BY DEF PublishCloud
<1>3. m \in Nat /\ \A s \in pcd_seen : s < m
  BY TimeAssumption DEF Newer
<1>t. /\ TypeOK /\ QueueInv /\ CopyInv /\ RenderedInv
      /\ NeverPopsEmpty /\ PopsWhatItCompared /\ RendersInOrder
  BY DEF Inv
<1> DEFINE q == pcd_queue_
           r == Push(q, m)
<1>4. /\ pcd_seen \in SUBSET Nat /\ q \in Seq(Nat) /\ Len(q) <= Cap
      /\ Increasing(q) /\ From(q, pcd_seen)
  BY <1>t DEF TypeOK, QueueInv
<1>5. /\ r \in Seq(Nat)
      /\ Len(r) \in 1 .. Cap
      /\ r # <<>>
      /\ Increasing(r)
      /\ From(r, pcd_seen \cup {m})
      /\ \A x \in pcd_seen : NotNewer(x, q) => NotNewer(x, r)
      /\ \A x \in pcd_seen : Older(x, q) => Older(x, r)
      /\ \A x : q # <<>> /\ (Head(q) = x \/ Len(q) = Cap) => Head(r) = x \/ Len(r) = Cap
  BY <1>3, <1>4, PushKeeps
<1> HIDE DEF r
<1>6. pcd_queue_' = r
  BY <1>1 DEF r
<1>7. TypeOK'
  <2>1. pcd_seen' \subseteq Nat /\ rendered' \subseteq rgb_seen' \X pcd_seen'
    BY <1>t, <1>1, <1>2, <1>3 DEF TypeOK
  <2>2. Len(r) <= Cap
    BY <1>5, CapAssumption
  <2> QED BY <1>t, <1>2, <1>5, <1>6, <2>1, <2>2 DEF TypeOK
<1>8. QueueInv'
  BY <1>t, <1>1, <1>2, <1>5, <1>6 DEF QueueInv
<1>9. CopyInv'
  <2>1. pc \in {"decide", "render"} => pcd_msg \in pcd_seen
    BY <1>t DEF CopyInv
  <2> QED BY <1>t, <1>1, <1>2, <1>5, <1>6, <2>1 DEF CopyInv, InRange, time_diff
<1>10. RenderedInv'
  <2>1. \A p \in rendered : p[2] \in pcd_seen
    BY <1>t DEF TypeOK
  <2> QED BY <1>t, <1>2, <1>5, <1>6, <2>1 DEF RenderedInv
<1>11. NeverPopsEmpty' /\ PopsWhatItCompared'
  BY <1>t, <1>2, <1>5, <1>6 DEF NeverPopsEmpty, PopsWhatItCompared
<1>12. RendersInOrder'
  BY <1>t, <1>2 DEF RendersInOrder
<1> QED BY <1>7, <1>8, <1>9, <1>10, <1>11, <1>12 DEF Inv

\* Without its front a queue is still sorted, and newer than that front.
LEMMA TailKeeps ==
    ASSUME NEW stamps \in SUBSET Nat,
           NEW q \in Seq(Nat), Len(q) <= Cap, Increasing(q), From(q, stamps), q # <<>>
    PROVE  /\ Tail(q) \in Seq(Nat)
           /\ Len(Tail(q)) <= Cap
           /\ Increasing(Tail(q))
           /\ From(Tail(q), stamps)
           /\ \A x \in Nat : Older(x, q) => Older(x, Tail(q))
           /\ \A x \in Nat : NotNewer(x, q) => Older(x, Tail(q))
<1> DEFINE t == Tail(q)
<1>1. /\ t \in Seq(Nat) /\ Len(t) = Len(q) - 1 /\ Len(q) > 0
      /\ Increasing(t)
      /\ \A i \in 1 .. Len(t) : i + 1 \in 1 .. Len(q) /\ t[i] = q[i + 1] /\ q[1] < t[i]
  BY TailQueue
<1> HIDE DEF t
<1>2. Len(t) <= Cap
  BY <1>1, CapAssumption
<1>3. From(t, stamps)
  BY <1>1 DEF From
<1>4. \A x \in Nat : Older(x, q) => Older(x, t)
  BY <1>1 DEF Older
<1>5. ASSUME NEW x \in Nat, NotNewer(x, q) PROVE Older(x, t)
  <2>1. x <= q[1] /\ q[1] \in Nat
    BY <1>1, <1>5 DEF NotNewer
  <2> QED BY <1>1, <2>1 DEF Older
<1> QED BY <1>1, <1>2, <1>3, <1>4, <1>5 DEF t

\* Every step of try_process_pair() keeps the invariant.
LEMMA TryProcessPairInv == Inv /\ TryProcessPair => Inv'
<1> SUFFICES ASSUME Inv, TryProcessPair PROVE Inv'
  OBVIOUS
<1>t. /\ TypeOK /\ QueueInv /\ CopyInv /\ RenderedInv
      /\ NeverPopsEmpty /\ PopsWhatItCompared /\ RendersInOrder
  BY DEF Inv
<1> DEFINE rq == rgb_image_queue_
           pq == pcd_queue_
<1>q. /\ rgb_seen \in SUBSET Nat /\ pcd_seen \in SUBSET Nat
      /\ rq \in Seq(Nat) /\ Len(rq) <= Cap /\ Increasing(rq) /\ From(rq, rgb_seen)
      /\ pq \in Seq(Nat) /\ Len(pq) <= Cap /\ Increasing(pq) /\ From(pq, pcd_seen)
      /\ \A p \in rendered : p[1] \in Nat /\ p[2] \in Nat
  BY <1>t DEF TypeOK, QueueInv
<1>1. ASSUME Call \/ Return PROVE Inv'
  <2>1. pc' \in {"idle", "look"} /\ UNCHANGED <<queues, rgb_msg, pcd_msg, seen, rendered, evicted>>
    BY <1>1 DEF Call, Return
  <2> QED
    BY <1>t, <2>1 DEF Inv, TypeOK, QueueInv, CopyInv, RenderedInv, NeverPopsEmpty,
       PopsWhatItCompared, RendersInOrder, queues, seen
<1>2. ASSUME Look PROVE Inv'
  <2>1. /\ rq # <<>> /\ pq # <<>> /\ rgb_msg' = rq[1] /\ pcd_msg' = pq[1]
        /\ rgb_msg' = Head(rq) /\ pcd_msg' = Head(pq)
        /\ pc' = "decide"
        /\ UNCHANGED <<rgb_image_queue_, pcd_queue_, rgb_seen, pcd_seen, rendered, evicted>>
    BY <1>2, <1>q DEF Look, queues, seen
  <2>2. 1 \in 1 .. Len(rq) /\ 1 \in 1 .. Len(pq)
    BY <1>q, <2>1
  <2>3. rq[1] \in rgb_seen /\ pq[1] \in pcd_seen /\ rq[1] \in Nat /\ pq[1] \in Nat
    BY <1>q, <2>2 DEF From
  <2>4. NotNewer(rq[1], rq) /\ NotNewer(pq[1], pq)
    <3>1. \A i \in 1 .. Len(rq) : i = 1 \/ rq[1] < rq[i]
      BY <1>q, <2>2 DEF Increasing
    <3>2. \A i \in 1 .. Len(pq) : i = 1 \/ pq[1] < pq[i]
      BY <1>q, <2>2 DEF Increasing
    <3> QED BY <1>q, <3>1, <3>2 DEF NotNewer
  <2>5. \A p \in rendered : p[1] < rq[1] /\ p[2] < pq[1]
    BY <1>t, <2>2 DEF RenderedInv, Older
  <2>6. TypeOK'
    BY <1>t, <2>1, <2>3 DEF TypeOK
  <2>7. CopyInv'
    BY <2>1, <2>3, <2>4, <2>5 DEF CopyInv
  <2>8. QueueInv' /\ RenderedInv' /\ RendersInOrder'
    BY <1>t, <2>1 DEF QueueInv, RenderedInv, RendersInOrder
  <2>9. NeverPopsEmpty' /\ PopsWhatItCompared'
    BY <2>1 DEF NeverPopsEmpty, PopsWhatItCompared
  <2> QED BY <2>6, <2>7, <2>8, <2>9 DEF Inv
<1>3. ASSUME DropOlder PROVE Inv'
  <2>1. /\ pc = "decide" /\ pc' = "look"
        /\ \/ pcd_queue_' = Tail(pq) /\ rgb_image_queue_' = rq
           \/ rgb_image_queue_' = Tail(rq) /\ pcd_queue_' = pq
        /\ UNCHANGED <<rgb_msg, pcd_msg, rgb_seen, pcd_seen, rendered, evicted>>
    BY <1>3 DEF DropOlder, seen
  <2>2. rq # <<>> /\ pq # <<>>
    BY <1>t, <2>1 DEF NeverPopsEmpty
  <2>3. /\ Tail(rq) \in Seq(Nat) /\ Len(Tail(rq)) <= Cap /\ Increasing(Tail(rq))
        /\ From(Tail(rq), rgb_seen)
        /\ \A x \in Nat : Older(x, rq) => Older(x, Tail(rq))
    BY <1>q, <2>2, TailKeeps
  <2>4. /\ Tail(pq) \in Seq(Nat) /\ Len(Tail(pq)) <= Cap /\ Increasing(Tail(pq))
        /\ From(Tail(pq), pcd_seen)
        /\ \A x \in Nat : Older(x, pq) => Older(x, Tail(pq))
    BY <1>q, <2>2, TailKeeps
  <2>5. TypeOK'
    BY <1>t, <2>1, <2>3, <2>4 DEF TypeOK
  <2>6. QueueInv'
    BY <1>t, <2>1, <2>3, <2>4 DEF QueueInv
  <2>7. RenderedInv'
    BY <1>t, <1>q, <2>1, <2>3, <2>4 DEF RenderedInv
  <2>8. CopyInv' /\ NeverPopsEmpty' /\ PopsWhatItCompared' /\ RendersInOrder'
    BY <1>t, <2>1 DEF CopyInv, NeverPopsEmpty, PopsWhatItCompared, RendersInOrder
  <2> QED BY <2>5, <2>6, <2>7, <2>8 DEF Inv
<1>4. ASSUME TakePair PROVE Inv'
  <2>1. /\ pc = "decide" /\ pc' = "render" /\ InRange
        /\ rgb_image_queue_' = Tail(rq) /\ pcd_queue_' = Tail(pq)
        /\ UNCHANGED <<rgb_msg, pcd_msg, rgb_seen, pcd_seen, rendered, evicted>>
    BY <1>4 DEF TakePair, seen
  <2>2. rq # <<>> /\ pq # <<>>
    BY <1>t, <2>1 DEF NeverPopsEmpty
  <2>3. /\ Tail(rq) \in Seq(Nat) /\ Len(Tail(rq)) <= Cap /\ Increasing(Tail(rq))
        /\ From(Tail(rq), rgb_seen)
        /\ \A x \in Nat : Older(x, rq) => Older(x, Tail(rq))
        /\ \A x \in Nat : NotNewer(x, rq) => Older(x, Tail(rq))
    BY <1>q, <2>2, TailKeeps
  <2>4. /\ Tail(pq) \in Seq(Nat) /\ Len(Tail(pq)) <= Cap /\ Increasing(Tail(pq))
        /\ From(Tail(pq), pcd_seen)
        /\ \A x \in Nat : Older(x, pq) => Older(x, Tail(pq))
        /\ \A x \in Nat : NotNewer(x, pq) => Older(x, Tail(pq))
    BY <1>q, <2>2, TailKeeps
  <2>5. TypeOK'
    BY <1>t, <2>1, <2>3, <2>4 DEF TypeOK
  <2>6. QueueInv'
    BY <1>t, <2>1, <2>3, <2>4 DEF QueueInv
  <2>7. RenderedInv'
    BY <1>t, <1>q, <2>1, <2>3, <2>4 DEF RenderedInv
  <2>8. rgb_msg \in Nat /\ pcd_msg \in Nat /\ InRange'
    BY <1>t, <2>1 DEF TypeOK, InRange, time_diff
  <2>9. CopyInv'
    BY <1>t, <2>1, <2>3, <2>4, <2>8 DEF CopyInv
  <2>10. NeverPopsEmpty' /\ PopsWhatItCompared' /\ RendersInOrder'
    BY <1>t, <2>1 DEF NeverPopsEmpty, PopsWhatItCompared, RendersInOrder
  <2> QED BY <2>5, <2>6, <2>7, <2>9, <2>10 DEF Inv
<1>5. ASSUME ProcessPair PROVE Inv'
  <2> DEFINE new == <<rgb_msg, pcd_msg>>
  <2>1. /\ pc = "render" /\ pc' = "look" /\ rendered' = rendered \cup {new}
        /\ UNCHANGED <<rgb_image_queue_, pcd_queue_, rgb_msg, pcd_msg, rgb_seen, pcd_seen, evicted>>
    BY <1>5 DEF ProcessPair, queues, seen
  <2>2. /\ rgb_msg \in rgb_seen /\ pcd_msg \in pcd_seen /\ InRange
        /\ Older(rgb_msg, rq) /\ Older(pcd_msg, pq)
        /\ \A p \in rendered : p[1] < rgb_msg /\ p[2] < pcd_msg
    BY <1>t, <2>1 DEF CopyInv
  <2>3. rgb_msg \in Nat /\ pcd_msg \in Nat
    BY <1>t DEF TypeOK
  <2>4. TypeOK'
    BY <1>t, <2>1, <2>2 DEF TypeOK
  <2>5. QueueInv' /\ CopyInv' /\ NeverPopsEmpty' /\ PopsWhatItCompared'
    BY <1>t, <2>1 DEF QueueInv, CopyInv, NeverPopsEmpty, PopsWhatItCompared
  <2>6. RenderedInv'
    BY <1>t, <2>1, <2>2 DEF RenderedInv
  <2>7. RendersInOrder'
    <3>1. rgb_msg - pcd_msg \in -MaxTimeDiff .. MaxTimeDiff
      BY <2>2, <2>3, TimeAssumption DEF InRange, time_diff
    <3>2. \A p \in rendered : ~(rgb_msg < p[1]) /\ ~(pcd_msg < p[2])
      BY <1>q, <2>2, <2>3
    <3>3. ~(rgb_msg < rgb_msg) /\ ~(pcd_msg < pcd_msg)
      BY <2>3
    <3>4. new[1] = rgb_msg /\ new[2] = pcd_msg
      OBVIOUS
    <3> SUFFICES ASSUME NEW a \in rendered \cup {new}, NEW b \in rendered \cup {new}
                 PROVE  /\ a[1] - a[2] \in -MaxTimeDiff .. MaxTimeDiff
                        /\ a[1] < b[1] <=> a[2] < b[2]
      BY <2>1 DEF RendersInOrder
    <3> HIDE DEF new
    <3>5. a[1] - a[2] \in -MaxTimeDiff .. MaxTimeDiff
      BY <1>t, <3>1, <3>4 DEF RendersInOrder
    <3>6. CASE a \in rendered /\ b \in rendered
      BY <1>t, <3>5, <3>6 DEF RendersInOrder
    <3>7. CASE a \in rendered /\ b = new
      BY <2>2, <3>4, <3>5, <3>7
    <3>8. CASE a = new /\ b \in rendered
      BY <3>2, <3>4, <3>5, <3>8
    <3>9. CASE a = new /\ b = new
      BY <3>3, <3>4, <3>5, <3>9
    <3> QED BY <3>6, <3>7, <3>8, <3>9
  <2> QED BY <2>4, <2>5, <2>6, <2>7 DEF Inv
<1> QED BY <1>1, <1>2, <1>3, <1>4, <1>5 DEF TryProcessPair

\* The invariant is inductive.
LEMMA NextInv == Inv /\ [Next]_vars => Inv'
<1>1. Inv /\ UNCHANGED vars => Inv'
  BY DEF vars, queues, seen, Inv, TypeOK, QueueInv, CopyInv, RenderedInv, NeverPopsEmpty,
     PopsWhatItCompared, RendersInOrder, InRange, time_diff
<1> QED BY <1>1, PublishRgbInv, PublishCloudInv, TryProcessPairInv DEF Next

-----------------------------------------------------------------------------
(* The theorems *)

\* The invariant holds in every state.
THEOREM InvAlways == SafeSpec => []Inv
BY InitInv, NextInv, PTL DEF SafeSpec

\* The variables keep their types and the queues their capacity (publishRgb,
\* publishIntensityCloud, try_process_pair).
THEOREM TypeCorrect == SafeSpec => []TypeOK
<1>1. Inv => TypeOK
  BY DEF Inv
<1> QED BY <1>1, InvAlways, PTL

\* No pop_front() meets an empty deque (try_process_pair).
THEOREM NoEmptyPop == SafeSpec => []NeverPopsEmpty
<1>1. Inv => NeverPopsEmpty
  BY DEF Inv
<1> QED BY <1>1, InvAlways, PTL

\* Only the overflow of a queue separates what was compared from what is removed
\* (try_process_pair against publishRgb and publishIntensityCloud).
THEOREM PopsCompared == SafeSpec => []PopsWhatItCompared
<1>1. Inv => PopsWhatItCompared
  BY DEF Inv
<1> QED BY <1>1, InvAlways, PTL

\* Pairs are rendered in order, at most once and within the tolerance.
THEOREM RenderedInOrder == SafeSpec => []RendersInOrder
<1>1. Inv => RendersInOrder
  BY DEF Inv
<1> QED BY <1>1, InvAlways, PTL

\* A message that lies more than the tolerance before the front of the other
\* queue has no partner there, nor among newer messages.
LEMMA FrontDecides ==
    ASSUME NEW q \in Seq(Nat), Increasing(q), q # <<>>, NEW stamps \in SUBSET Nat,
           Head(q) \in stamps, NEW m \in Nat, Head(q) - m > MaxTimeDiff
    PROVE  NoPartner(m, q, stamps)
<1>1. Head(q) = q[1] /\ 1 \in 1 .. Len(q) /\ q[1] \in Nat
  OBVIOUS
<1>2. ASSUME NEW i \in 1 .. Len(q) PROVE q[i] - m > MaxTimeDiff
  <2>1. q[i] \in Nat /\ (i = 1 \/ q[1] < q[i])
    BY <1>1 DEF Increasing
  <2> QED BY <1>1, <2>1, TimeAssumption
<1>3. ASSUME NEW n \in Newer(stamps) PROVE n - m > MaxTimeDiff
  <2>1. n \in Nat /\ q[1] < n
    BY <1>1, TimeAssumption DEF Newer
  <2> QED BY <1>1, <2>1, TimeAssumption
<1> QED BY <1>2, <1>3 DEF NoPartner

\* What is removed without being rendered has no partner, if the fronts are still
\* those that were compared.
THEOREM DiscardsAreSafe == SafeSpec => DiscardIsSafe
<1> DEFINE Discard ==
      pc = "decide" /\ pc' = "look"
      /\ Head(rgb_image_queue_) = rgb_msg /\ Head(pcd_queue_) = pcd_msg =>
        /\ pcd_queue_' = pcd_queue_ => NoPartner(rgb_msg, pcd_queue_, pcd_seen)
        /\ rgb_image_queue_' = rgb_image_queue_ => NoPartner(pcd_msg, rgb_image_queue_, rgb_seen)
<1>1. Inv /\ [Next]_vars => Discard
  <2> SUFFICES ASSUME Inv, [Next]_vars, pc = "decide", pc' = "look",
                      Head(rgb_image_queue_) = rgb_msg, Head(pcd_queue_) = pcd_msg
               PROVE  /\ pcd_queue_' = pcd_queue_ =>
                             NoPartner(rgb_msg, pcd_queue_, pcd_seen)
                      /\ rgb_image_queue_' = rgb_image_queue_ =>
                             NoPartner(pcd_msg, rgb_image_queue_, rgb_seen)
    OBVIOUS
  <2>1. DropOlder
    BY DEF Next, vars, PublishRgb, PublishCloud, TryProcessPair, Call, Look, Return, TakePair,
       ProcessPair
  <2>2. /\ rgb_image_queue_ \in Seq(Nat) /\ Increasing(rgb_image_queue_)
        /\ pcd_queue_ \in Seq(Nat) /\ Increasing(pcd_queue_)
        /\ rgb_image_queue_ # <<>> /\ pcd_queue_ # <<>>
        /\ rgb_msg \in Nat /\ pcd_msg \in Nat
        /\ rgb_seen \in SUBSET Nat /\ pcd_seen \in SUBSET Nat
        /\ rgb_msg \in rgb_seen /\ pcd_msg \in pcd_seen
    BY DEF Inv, TypeOK, QueueInv, CopyInv, NeverPopsEmpty
  <2>3. Tail(rgb_image_queue_) # rgb_image_queue_ /\ Tail(pcd_queue_) # pcd_queue_
    <3>1. /\ Len(Tail(rgb_image_queue_)) = Len(rgb_image_queue_) - 1
          /\ Len(Tail(pcd_queue_)) = Len(pcd_queue_) - 1
          /\ Len(rgb_image_queue_) \in Nat /\ Len(pcd_queue_) \in Nat
      BY <2>2, TailQueue
    <3>2. /\ Len(Tail(rgb_image_queue_)) # Len(rgb_image_queue_)
          /\ Len(Tail(pcd_queue_)) # Len(pcd_queue_)
      BY <3>1
    <3> QED BY <3>2
  <2>4. ASSUME pcd_queue_' = pcd_queue_ PROVE NoPartner(rgb_msg, pcd_queue_, pcd_seen)
    <3>1. ~(time_diff > 0) /\ ~InRange
      BY <2>1, <2>3, <2>4 DEF DropOlder
    <3>2. pcd_msg - rgb_msg > MaxTimeDiff
      BY <2>2, <3>1, TimeAssumption DEF time_diff, InRange
    <3> QED BY <2>2, <3>2, FrontDecides
  <2>5. ASSUME rgb_image_queue_' = rgb_image_queue_
        PROVE  NoPartner(pcd_msg, rgb_image_queue_, rgb_seen)
    <3>1. time_diff > 0 /\ ~InRange
      BY <2>1, <2>3, <2>5 DEF DropOlder
    <3>2. rgb_msg - pcd_msg > MaxTimeDiff
      BY <2>2, <3>1, TimeAssumption DEF time_diff, InRange
    <3> QED BY <2>2, <3>2, FrontDecides
  <2> QED BY <2>4, <2>5
<1>2. Discard => [Discard]_vars
  OBVIOUS
<1> HIDE DEF Discard
<1>3. SafeSpec => [][Discard]_vars
  BY <1>1, InvAlways, PTL DEF SafeSpec
<1> QED BY <1>3 DEF DiscardIsSafe, Discard

-----------------------------------------------------------------------------
(* Looking at the fronts renders as many pairs as possible *)

\* The ways to pair messages of A with messages of B.
Pairings(A, B) ==
    {M \in SUBSET (A \X B) : /\ IsFiniteSet(M) /\ IsMatching(M)
                             /\ \A p \in M : p[1] - p[2] \in -MaxTimeDiff .. MaxTimeDiff}

\* N pairs no message that M does not pair.
Within(N, M) == \A p \in N : \E a, b \in M : p[1] = a[1] /\ p[2] = b[2]

\* The messages there are or may be, and those of them that can still be paired.
Possible(stamps) == stamps \cup Newer(stamps)
Left(queue, stamps) == {queue[i] : i \in 1 .. Len(queue)} \cup Newer(stamps)

\* The pairs that are decided on.
Done == Cardinality(rendered) + IF pc = "render" THEN 1 ELSE 0

\* However messages of K are paired with messages of L, the pairs among A and B
\* that need no other messages make up for it, with n more.
Enough(K, L, A, B, n) ==
    \A M \in Pairings(K, L) :
        \E N \in Pairings(A, B) : Within(N, M) /\ Cardinality(M) <= n + Cardinality(N)

\* Whatever way there is to pair the messages, old and to come: what is decided
\* on and what is left make up for it.
GreedyInv ==
    ~evicted =>
        /\ pc = "decide" => Head(rgb_image_queue_) = rgb_msg /\ Head(pcd_queue_) = pcd_msg
        /\ Enough(Possible(rgb_seen), Possible(pcd_seen),
                  Left(rgb_image_queue_, rgb_seen), Left(pcd_queue_, pcd_seen), Done)

FiniteInv == IsFiniteSet(rgb_seen) /\ IsFiniteSet(pcd_seen) /\ IsFiniteSet(rendered)

\* Of a way to pair messages, the pairs without the two oldest messages are as
\* many but one, or can be made so: if both oldest are paired with others, these
\* are within the tolerance of each other.
LEMMA Exchange ==
    ASSUME NEW A \in SUBSET Nat, NEW B \in SUBSET Nat, NEW a \in Nat, NEW b \in Nat,
           \A x \in A : a <= x, \A y \in B : b <= y,
           NEW M \in Pairings(A, B)
    PROVE  \E N \in Pairings(A \ {a}, B \ {b}) :
              Within(N, M) /\ Cardinality(M) <= 1 + Cardinality(N)
<1>1. /\ M \subseteq A \X B /\ IsFiniteSet(M)
      /\ \A p \in M : p[1] \in A /\ p[2] \in B /\ p = <<p[1], p[2]>>
      /\ \A p, q \in M : p # q => p[1] # q[1] /\ p[2] # q[2]
      /\ \A p \in M : p[1] - p[2] \in -MaxTimeDiff .. MaxTimeDiff
  BY DEF Pairings, IsMatching
<1>2. CASE \A p \in M : p[1] # a /\ p[2] # b
  <2>1. M \subseteq (A \ {a}) \X (B \ {b})
    BY <1>1, <1>2
  <2>2. M \in Pairings(A \ {a}, B \ {b})
    BY <1>1, <2>1 DEF Pairings, IsMatching
  <2>3. Within(M, M)
    BY DEF Within
  <2>4. Cardinality(M) \in Nat
    BY <1>1, FS_CardinalityType
  <2> QED BY <2>2, <2>3, <2>4
<1>3. ASSUME NEW e \in M, \A p \in M : p # e => p[1] # a /\ p[2] # b
      PROVE  \E N \in Pairings(A \ {a}, B \ {b}) :
                Within(N, M) /\ Cardinality(M) <= 1 + Cardinality(N)
  <2> DEFINE N == M \ {e}
  <2>1. IsFiniteSet(N) /\ Cardinality(N) = Cardinality(M) - 1
    BY <1>1, FS_RemoveElement
  <2>2. N \subseteq (A \ {a}) \X (B \ {b})
    BY <1>1, <1>3
  <2>3. N \in Pairings(A \ {a}, B \ {b})
    BY <1>1, <2>1, <2>2 DEF Pairings, IsMatching
  <2>4. Within(N, M)
    BY DEF Within
  <2>5. Cardinality(M) \in Nat
    BY <1>1, FS_CardinalityType
  <2> QED BY <2>1, <2>3, <2>4, <2>5
<1>4. ASSUME NEW e \in M, NEW f \in M, e # f, e[1] = a, f[2] = b
      PROVE  \E N \in Pairings(A \ {a}, B \ {b}) :
                Within(N, M) /\ Cardinality(M) <= 1 + Cardinality(N)
  <2> DEFINE g == <<f[1], e[2]>>
             R == (M \ {e}) \ {f}
             N == R \cup {g}
  <2>1. /\ f[1] \in A /\ f[1] # a /\ e[2] \in B /\ e[2] # b
        /\ f[1] \in Nat /\ e[2] \in Nat /\ a <= f[1] /\ b <= e[2]
    BY <1>1, <1>4
  <2>2. f[1] - e[2] \in -MaxTimeDiff .. MaxTimeDiff
    <3>1. a - e[2] \in -MaxTimeDiff .. MaxTimeDiff /\ f[1] - b \in -MaxTimeDiff .. MaxTimeDiff
      BY <1>1, <1>4
    <3> QED BY <2>1, <3>1, TimeAssumption
  <2>3. \A p \in R : p \in M /\ p[1] # a /\ p[2] # b /\ p[1] # f[1] /\ p[2] # e[2]
    BY <1>1, <1>4
  <2>4. g[1] = f[1] /\ g[2] = e[2]
    OBVIOUS
  <2>5. g \notin R
    BY <2>3, <2>4
  <2>6. IsFiniteSet(R) /\ Cardinality(R) = Cardinality(M) - 2 /\ Cardinality(M) \in Nat
    <3>1. IsFiniteSet(M \ {e}) /\ Cardinality(M \ {e}) = Cardinality(M) - 1
      BY <1>1, FS_RemoveElement
    <3>2. f \in M \ {e}
      BY <1>4
    <3>3. IsFiniteSet(R) /\ Cardinality(R) = Cardinality(M \ {e}) - 1
      BY <3>1, <3>2, FS_RemoveElement
    <3>4. Cardinality(M) \in Nat
      BY <1>1, FS_CardinalityType
    <3> QED BY <3>1, <3>3, <3>4
  <2>7. IsFiniteSet(N) /\ Cardinality(N) = Cardinality(R) + 1
    <3> HIDE DEF R, g
    <3> QED BY <2>5, <2>6, FS_AddElement
  <2>8. N \subseteq (A \ {a}) \X (B \ {b})
    <3>1. g \in (A \ {a}) \X (B \ {b})
      BY <2>1
    <3>2. R \subseteq (A \ {a}) \X (B \ {b})
      BY <1>1, <2>3
    <3> QED BY <3>1, <3>2
  <2>9. Within(N, M)
    <3> SUFFICES ASSUME NEW p \in N
                 PROVE  \E x, y \in M : p[1] = x[1] /\ p[2] = y[2]
      BY DEF Within
    <3>1. CASE p = g
      BY <3>1, <2>4, <1>4
    <3>2. CASE p \in R
      BY <3>2, <2>3
    <3> QED BY <3>1, <3>2
  <2>10. IsMatching(N)
    <3> HIDE DEF R, g
    <3> SUFFICES ASSUME NEW p \in R \cup {g}, NEW q \in R \cup {g}, p # q
                 PROVE  p[1] # q[1] /\ p[2] # q[2]
      BY DEF IsMatching
    <3> QED BY <1>1, <2>3, <2>4
  <2>11. \A p \in N : p[1] - p[2] \in -MaxTimeDiff .. MaxTimeDiff
    <3> HIDE DEF R, g
    <3> QED BY <1>1, <2>2, <2>3, <2>4
  <2>12. N \in Pairings(A \ {a}, B \ {b})
    BY <2>7, <2>8, <2>10, <2>11 DEF Pairings
  <2> HIDE DEF N, R
  <2> QED BY <2>6, <2>7, <2>9, <2>12
<1>5. \A e, f \in M : e[1] = a /\ f[1] = a => e = f
  BY <1>1
<1>6. \A e, f \in M : e[2] = b /\ f[2] = b => e = f
  BY <1>1
<1>7. CASE \E e \in M : e[1] = a
  <2>1. PICK e \in M : e[1] = a
    BY <1>7
  <2>2. CASE \E f \in M : f[2] = b /\ f # e
    BY <2>1, <2>2, <1>4
  <2>3. CASE ~\E f \in M : f[2] = b /\ f # e
    <3>1. \A p \in M : p # e => p[1] # a /\ p[2] # b
      BY <2>1, <2>3, <1>5
    <3> QED BY <3>1, <1>3
  <2> QED BY <2>2, <2>3
<1>8. CASE ~\E e \in M : e[1] = a
  <2>1. CASE \E f \in M : f[2] = b
    <3>1. PICK f \in M : f[2] = b
      BY <2>1
    <3>2. \A p \in M : p # f => p[1] # a /\ p[2] # b
      BY <3>1, <1>8, <1>6
    <3> QED BY <3>2, <1>3
  <2>2. CASE ~\E f \in M : f[2] = b
    BY <2>2, <1>8, <1>2
  <2> QED BY <2>1, <2>2
<1> QED BY <1>7, <1>8

\* More messages to choose from leave more ways to pair them.
LEMMA PairingsGrow ==
    ASSUME NEW A, NEW B, NEW C, NEW D, A \subseteq C, B \subseteq D
    PROVE  Pairings(A, B) \subseteq Pairings(C, D)
  BY DEF Pairings

\* A message that arrives was to come before, others that were to come no longer
\* are: nothing else becomes possible, and nothing else is lost.
LEMMA EnoughAfterArrival ==
    ASSUME NEW K, NEW L, NEW A, NEW B, NEW n, Enough(K, L, A, B, n),
           NEW K1 \in SUBSET K, NEW L1 \in SUBSET L, NEW A1, NEW B1,
           A \cap K1 \subseteq A1, B \cap L1 \subseteq B1
    PROVE  Enough(K1, L1, A1, B1, n)
<1> SUFFICES ASSUME NEW M \in Pairings(K1, L1)
             PROVE  \E N \in Pairings(A1, B1) :
                       Within(N, M) /\ Cardinality(M) <= n + Cardinality(N)
  BY DEF Enough
<1>1. M \in Pairings(K, L)
  BY PairingsGrow
<1>2. PICK N \in Pairings(A, B) : Within(N, M) /\ Cardinality(M) <= n + Cardinality(N)
  BY <1>1 DEF Enough
<1>3. M \subseteq K1 \X L1 /\ N \subseteq A \X B
  BY DEF Pairings
<1>4. \A p \in N : p[1] \in A \cap K1 /\ p[2] \in B \cap L1 /\ p = <<p[1], p[2]>>
  BY <1>2, <1>3 DEF Within
<1>5. N \subseteq A1 \X B1
  BY <1>4
<1>6. N \in Pairings(A1, B1)
  BY <1>5 DEF Pairings
<1> QED BY <1>2, <1>6

\* A message without a partner is not missed.
LEMMA EnoughWithoutLonely ==
    ASSUME NEW K, NEW L, NEW A, NEW B, NEW n, Enough(K, L, A, B, n), NEW A1, NEW B1,
           \A p \in A \X B : p[1] - p[2] \in -MaxTimeDiff .. MaxTimeDiff => p \in A1 \X B1
    PROVE  Enough(K, L, A1, B1, n)
<1>1. Pairings(A, B) \subseteq Pairings(A1, B1)
  <2> SUFFICES ASSUME NEW N \in Pairings(A, B) PROVE N \in Pairings(A1, B1)
    OBVIOUS
  <2>1. N \subseteq A \X B /\ \A p \in N : p[1] - p[2] \in -MaxTimeDiff .. MaxTimeDiff
    BY DEF Pairings
  <2>2. N \subseteq A1 \X B1
    BY <2>1
  <2> QED BY <2>2 DEF Pairings
<1> QED BY <1>1 DEF Enough

\* No message of A is older than a.
Oldest(a, A) == A \in SUBSET Nat /\ a \in Nat /\ \A x \in A : a <= x

\* The pair of both oldest messages is as good as any.
LEMMA EnoughAfterPair ==
    ASSUME NEW K, NEW L, NEW A, NEW B, NEW n \in Nat, Enough(K, L, A, B, n),
           NEW a, Oldest(a, A), NEW b, Oldest(b, B),
           NEW A1, NEW B1, A \ {a} \subseteq A1, B \ {b} \subseteq B1, NEW n1, n1 = n + 1
    PROVE  Enough(K, L, A1, B1, n1)
<1> SUFFICES ASSUME NEW M \in Pairings(K, L)
             PROVE  \E N \in Pairings(A1, B1) :
                       Within(N, M) /\ Cardinality(M) <= n1 + Cardinality(N)
  BY DEF Enough
<1>1. PICK N \in Pairings(A, B) : Within(N, M) /\ Cardinality(M) <= n + Cardinality(N)
  BY DEF Enough
<1>2. PICK N1 \in Pairings(A \ {a}, B \ {b}) :
         Within(N1, N) /\ Cardinality(N) <= 1 + Cardinality(N1)
  BY Exchange DEF Oldest
<1>3. N1 \in Pairings(A1, B1)
  BY <1>2, PairingsGrow
<1>4. Within(N1, M)
  BY <1>1, <1>2 DEF Within
<1>5. Cardinality(M) \in Nat /\ Cardinality(N) \in Nat /\ Cardinality(N1) \in Nat
  BY <1>3, FS_CardinalityType DEF Pairings
<1>6. Cardinality(M) <= n1 + Cardinality(N1)
  BY <1>1, <1>2, <1>5
<1> QED BY <1>3, <1>4, <1>6

\* Without its front, a queue and the messages to come lack only that front, and
\* it was the oldest of them.
LEMMA LeftTail ==
    ASSUME NEW stamps \in SUBSET Nat,
           NEW q \in Seq(Nat), Increasing(q), From(q, stamps), q # <<>>
    PROVE  /\ Oldest(Head(q), Left(q, stamps))
           /\ Left(q, stamps) \ {Head(q)} \subseteq Left(Tail(q), stamps)
<1>1. Head(q) = q[1] /\ 1 \in 1 .. Len(q) /\ Len(q) \in Nat /\ \A i \in 1 .. Len(q) : q[i] \in Nat
  OBVIOUS
<1>2. \A x \in Newer(stamps) : x \in Nat /\ q[1] < x
  BY <1>1, TimeAssumption DEF Newer, From
<1>3. \A i \in 1 .. Len(q) : q[1] <= q[i]
  <2> SUFFICES ASSUME NEW i \in 1 .. Len(q) PROVE q[1] <= q[i]
    OBVIOUS
  <2>1. i = 1 \/ q[1] < q[i]
    BY <1>1 DEF Increasing
  <2> QED BY <1>1, <2>1
<1>4. \A i \in 1 .. Len(q) : q[i] # q[1] =>
         i - 1 \in 1 .. Len(Tail(q)) /\ Tail(q)[i - 1] = q[i]
  <2>1. /\ Len(Tail(q)) = Len(q) - 1
        /\ \A i \in 1 .. Len(Tail(q)) : Tail(q)[i] = q[i + 1]
    BY TailQueue
  <2> SUFFICES ASSUME NEW i \in 1 .. Len(q), q[i] # q[1]
               PROVE  i - 1 \in 1 .. Len(Tail(q)) /\ Tail(q)[i - 1] = q[i]
    OBVIOUS
  <2>2. i # 1
    OBVIOUS
  <2>3. i - 1 \in 1 .. Len(Tail(q)) /\ (i - 1) + 1 = i
    BY <1>1, <2>1, <2>2
  <2> QED BY <2>1, <2>3
<1>5. Left(q, stamps) \in SUBSET Nat
  BY <1>1, <1>2 DEF Left
<1>6. \A x \in Left(q, stamps) : q[1] <= x
  BY <1>1, <1>2, <1>3 DEF Left
<1>7. Left(q, stamps) \ {q[1]} \subseteq Left(Tail(q), stamps)
  <2> SUFFICES ASSUME NEW x \in Left(q, stamps), x # q[1] PROVE x \in Left(Tail(q), stamps)
    OBVIOUS
  <2>1. CASE x \in Newer(stamps)
    BY <2>1 DEF Left
  <2>2. CASE x \notin Newer(stamps)
    <3>1. PICK i \in 1 .. Len(q) : x = q[i]
      BY <2>2 DEF Left
    <3>2. i - 1 \in 1 .. Len(Tail(q)) /\ Tail(q)[i - 1] = x
      BY <3>1, <1>4
    <3> QED BY <3>2 DEF Left
  <2> QED BY <2>1, <2>2
<1> QED BY <1>1, <1>5, <1>6, <1>7 DEF Oldest

\* A queue with room takes a message that was to come, and keeps its front.
LEMMA PushLeft ==
    ASSUME NEW stamps \in SUBSET Nat, NEW q \in Seq(Nat), Len(q) < Cap,
           NEW m \in Newer(stamps)
    PROVE  /\ Possible(stamps \cup {m}) \subseteq Possible(stamps)
           /\ Left(q, stamps) \cap Possible(stamps \cup {m})
                \subseteq Left(Push(q, m), stamps \cup {m})
           /\ q # <<>> => Head(Push(q, m)) = Head(q)
<1> USE CapAssumption
<1>1. m \in Nat /\ \A s \in stamps : s < m /\ s \in Nat
  BY TimeAssumption DEF Newer
<1>2. Possible(stamps \cup {m}) \subseteq Possible(stamps)
  BY DEF Possible, Newer
<1>3. Push(q, m) = Append(q, m)
  BY DEF Push
<1>4. /\ Append(q, m) \in Seq(Nat) /\ Len(Append(q, m)) = Len(q) + 1
      /\ Append(q, m)[Len(q) + 1] = m
      /\ \A i \in 1 .. Len(q) : Append(q, m)[i] = q[i]
      /\ Len(q) \in Nat
  BY <1>1
<1>5. q # <<>> => Head(Push(q, m)) = Head(q)
  <2> SUFFICES ASSUME q # <<>> PROVE Head(Append(q, m)) = Head(q)
    BY <1>3
  <2>1. Head(q) = q[1] /\ 1 \in 1 .. Len(q) /\ Head(Append(q, m)) = Append(q, m)[1]
    BY <1>1
  <2> QED BY <2>1, <1>4
<1>6. ASSUME NEW x \in Left(q, stamps), x \in Possible(stamps \cup {m})
      PROVE  x \in Left(Push(q, m), stamps \cup {m})
  <2> DEFINE r == Push(q, m)
  <2>1. /\ Len(r) = Len(q) + 1 /\ r[Len(q) + 1] = m /\ Len(q) \in Nat
        /\ \A i \in 1 .. Len(q) : r[i] = q[i]
    BY <1>3, <1>4
  <2> HIDE DEF r
  <2>2. CASE \E i \in 1 .. Len(q) : x = q[i]
    <3>1. PICK i \in 1 .. Len(q) : x = q[i]
      BY <2>2
    <3>2. i \in 1 .. Len(r) /\ r[i] = x
      BY <2>1, <3>1
    <3>3. x \in Left(r, stamps \cup {m})
      BY <3>2 DEF Left
    <3> QED BY <3>3 DEF r
  <2>3. CASE ~\E i \in 1 .. Len(q) : x = q[i]
    <3>1. x \in Newer(stamps)
      BY <2>3, <1>6 DEF Left
    <3>2. x \notin stamps
      BY <3>1, <1>1 DEF Newer
    <3>3. x = m \/ x \in Newer(stamps \cup {m})
      BY <3>2, <1>6 DEF Possible
    <3>4. Len(q) + 1 \in 1 .. Len(r)
      BY <2>1
    <3>5. x \in Left(r, stamps \cup {m})
      BY <3>3, <3>4, <2>1 DEF Left
    <3> QED BY <3>5 DEF r
  <2> QED BY <2>2, <2>3
<1> QED BY <1>2, <1>5, <1>6

\* What GreedyInv says stays so when an image arrives.
LEMMA PublishRgbGreedy == Inv /\ FiniteInv /\ GreedyInv /\ PublishRgb => GreedyInv'
<1> SUFFICES ASSUME Inv, FiniteInv, GreedyInv, PublishRgb, ~evicted' PROVE
        /\ pc' = "decide" => Head(rgb_image_queue_') = rgb_msg' /\ Head(pcd_queue_') = pcd_msg'
        /\ Enough(Possible(rgb_seen'), Possible(pcd_seen'),
                  Left(rgb_image_queue_', rgb_seen'), Left(pcd_queue_', pcd_seen'), Done')
  BY DEF GreedyInv
<1>1. PICK m \in Newer(rgb_seen) :
        /\ rgb_image_queue_' = Push(rgb_image_queue_, m)
        /\ rgb_seen' = rgb_seen \cup {m}
  BY DEF PublishRgb
<1>2. /\ ~evicted /\ ~(Len(rgb_image_queue_) >= Cap)
      /\ UNCHANGED <<pcd_queue_, pc, rgb_msg, pcd_msg, pcd_seen, rendered>>
  BY DEF PublishRgb
<1>3. /\ rgb_seen \in SUBSET Nat /\ rgb_image_queue_ \in Seq(Nat)
      /\ pc = "decide" => rgb_image_queue_ # <<>>
  BY DEF Inv, TypeOK, NeverPopsEmpty
<1>4. Len(rgb_image_queue_) < Cap
  BY <1>2, <1>3, CapAssumption
<1>5. /\ Possible(rgb_seen \cup {m}) \subseteq Possible(rgb_seen)
      /\ Left(rgb_image_queue_, rgb_seen) \cap Possible(rgb_seen \cup {m})
           \subseteq Left(Push(rgb_image_queue_, m), rgb_seen \cup {m})
      /\ rgb_image_queue_ # <<>> => Head(Push(rgb_image_queue_, m)) = Head(rgb_image_queue_)
  BY <1>3, <1>4, PushLeft
<1>6. Done' = Done
  BY <1>2 DEF Done
<1>7. Enough(Possible(rgb_seen), Possible(pcd_seen),
             Left(rgb_image_queue_, rgb_seen), Left(pcd_queue_, pcd_seen), Done)
  BY <1>2 DEF GreedyInv
<1>8. Enough(Possible(rgb_seen \cup {m}), Possible(pcd_seen),
             Left(Push(rgb_image_queue_, m), rgb_seen \cup {m}), Left(pcd_queue_, pcd_seen), Done)
  BY <1>5, <1>7, EnoughAfterArrival
<1>9. pc' = "decide" => Head(rgb_image_queue_') = rgb_msg' /\ Head(pcd_queue_') = pcd_msg'
  BY <1>1, <1>2, <1>3, <1>5 DEF GreedyInv
<1> QED BY <1>1, <1>2, <1>6, <1>8, <1>9

\* And when a cloud arrives.
LEMMA PublishCloudGreedy == Inv /\ FiniteInv /\ GreedyInv /\ PublishCloud => GreedyInv'
<1> SUFFICES ASSUME Inv, FiniteInv, GreedyInv, PublishCloud, ~evicted' PROVE
        /\ pc' = "decide" => Head(rgb_image_queue_') = rgb_msg' /\ Head(pcd_queue_') = pcd_msg'
        /\ Enough(Possible(rgb_seen'), Possible(pcd_seen'),
                  Left(rgb_image_queue_', rgb_seen'), Left(pcd_queue_', pcd_seen'), Done')
  BY DEF GreedyInv
<1>1. PICK m \in Newer(pcd_seen) :
        /\ pcd_queue_' = Push(pcd_queue_, m)
        /\ pcd_seen' = pcd_seen \cup {m}
  BY DEF PublishCloud
<1>2. /\ ~evicted /\ ~(Len(pcd_queue_) >= Cap)
      /\ UNCHANGED <<rgb_image_queue_, pc, rgb_msg, pcd_msg, rgb_seen, rendered>>
  BY DEF PublishCloud
<1>3. /\ pcd_seen \in SUBSET Nat /\ pcd_queue_ \in Seq(Nat)
      /\ pc = "decide" => pcd_queue_ # <<>>
  BY DEF Inv, TypeOK, NeverPopsEmpty
<1>4. Len(pcd_queue_) < Cap
  BY <1>2, <1>3, CapAssumption
<1>5. /\ Possible(pcd_seen \cup {m}) \subseteq Possible(pcd_seen)
      /\ Left(pcd_queue_, pcd_seen) \cap Possible(pcd_seen \cup {m})
           \subseteq Left(Push(pcd_queue_, m), pcd_seen \cup {m})
      /\ pcd_queue_ # <<>> => Head(Push(pcd_queue_, m)) = Head(pcd_queue_)
  BY <1>3, <1>4, PushLeft
<1>6. Done' = Done
  BY <1>2 DEF Done
<1>7. Enough(Possible(rgb_seen), Possible(pcd_seen),
             Left(rgb_image_queue_, rgb_seen), Left(pcd_queue_, pcd_seen), Done)
  BY <1>2 DEF GreedyInv
<1>8. Enough(Possible(rgb_seen), Possible(pcd_seen \cup {m}),
             Left(rgb_image_queue_, rgb_seen), Left(Push(pcd_queue_, m), pcd_seen \cup {m}), Done)
  BY <1>5, <1>7, EnoughAfterArrival
<1>9. pc' = "decide" => Head(rgb_image_queue_') = rgb_msg' /\ Head(pcd_queue_') = pcd_msg'
  BY <1>1, <1>2, <1>3, <1>5 DEF GreedyInv
<1> QED BY <1>1, <1>2, <1>6, <1>8, <1>9

\* No step makes a set infinite.
LEMMA FiniteStep == Inv /\ FiniteInv /\ [Next]_vars => FiniteInv'
<1> SUFFICES ASSUME FiniteInv, [Next]_vars PROVE FiniteInv'
  OBVIOUS
<1>1. rgb_seen' = rgb_seen \/ \E m : rgb_seen' = rgb_seen \cup {m}
  BY DEF Next, vars, seen, queues, PublishRgb, PublishCloud, TryProcessPair, Call, Look, Return,
     DropOlder, TakePair, ProcessPair
<1>2. pcd_seen' = pcd_seen \/ \E m : pcd_seen' = pcd_seen \cup {m}
  BY DEF Next, vars, seen, queues, PublishRgb, PublishCloud, TryProcessPair, Call, Look, Return,
     DropOlder, TakePair, ProcessPair
<1>3. rendered' = rendered \/ \E p : rendered' = rendered \cup {p}
  BY DEF Next, vars, seen, queues, PublishRgb, PublishCloud, TryProcessPair, Call, Look, Return,
     DropOlder, TakePair, ProcessPair
<1>4. IsFiniteSet(rgb_seen')
  BY <1>1, FS_AddElement DEF FiniteInv
<1>5. IsFiniteSet(pcd_seen')
  BY <1>2, FS_AddElement DEF FiniteInv
<1>6. IsFiniteSet(rendered')
  BY <1>3, FS_AddElement DEF FiniteInv
<1> QED BY <1>4, <1>5, <1>6 DEF FiniteInv

\* What try_process_pair() removes has no partner left, or is the pair of both
\* oldest messages.
LEMMA TryProcessPairGreedy == Inv /\ FiniteInv /\ GreedyInv /\ TryProcessPair => GreedyInv'
<1> SUFFICES ASSUME Inv, FiniteInv, GreedyInv, TryProcessPair, ~evicted' PROVE
        /\ pc' = "decide" => Head(rgb_image_queue_') = rgb_msg' /\ Head(pcd_queue_') = pcd_msg'
        /\ Enough(Possible(rgb_seen'), Possible(pcd_seen'),
                  Left(rgb_image_queue_', rgb_seen'), Left(pcd_queue_', pcd_seen'), Done')
  BY DEF GreedyInv
<1>1. ~evicted /\ UNCHANGED <<rgb_seen, pcd_seen>>
  BY DEF TryProcessPair, Call, Look, Return, DropOlder, TakePair, ProcessPair, seen
<1> DEFINE K == Possible(rgb_seen)
           L == Possible(pcd_seen)
           rq == rgb_image_queue_
           pq == pcd_queue_
           A == Left(rq, rgb_seen)
           B == Left(pq, pcd_seen)
<1>2. Enough(K, L, A, B, Done)
  BY <1>1 DEF GreedyInv
<1>3. /\ rgb_seen \in SUBSET Nat /\ rq \in Seq(Nat) /\ Increasing(rq) /\ From(rq, rgb_seen)
      /\ pcd_seen \in SUBSET Nat /\ pq \in Seq(Nat) /\ Increasing(pq) /\ From(pq, pcd_seen)
      /\ pc = "decide" => rq # <<>> /\ pq # <<>>
  BY DEF Inv, TypeOK, QueueInv, NeverPopsEmpty
<1>4. Cardinality(rendered) \in Nat
  BY FS_CardinalityType DEF FiniteInv
<1>5. pc = "decide" => /\ Head(rq) = rgb_msg /\ Head(pq) = pcd_msg
                       /\ Oldest(rgb_msg, A)
                       /\ A \ {rgb_msg} \subseteq Left(Tail(rq), rgb_seen)
                       /\ Oldest(pcd_msg, B)
                       /\ B \ {pcd_msg} \subseteq Left(Tail(pq), pcd_seen)
  <2> SUFFICES ASSUME pc = "decide"
               PROVE  /\ Head(rq) = rgb_msg /\ Head(pq) = pcd_msg
                      /\ Oldest(rgb_msg, A)
                      /\ A \ {rgb_msg} \subseteq Left(Tail(rq), rgb_seen)
                      /\ Oldest(pcd_msg, B)
                      /\ B \ {pcd_msg} \subseteq Left(Tail(pq), pcd_seen)
    OBVIOUS
  <2>1. Head(rq) = rgb_msg /\ Head(pq) = pcd_msg
    BY <1>1 DEF GreedyInv
  <2>2. /\ Oldest(Head(rq), A)
        /\ A \ {Head(rq)} \subseteq Left(Tail(rq), rgb_seen)
    BY <1>3, LeftTail
  <2>3. /\ Oldest(Head(pq), B)
        /\ B \ {Head(pq)} \subseteq Left(Tail(pq), pcd_seen)
    BY <1>3, LeftTail
  <2> QED BY <2>1, <2>2, <2>3
<1> HIDE DEF K, L, A, B
<1>6. CASE Call \/ Look \/ Return
  <2>1. /\ UNCHANGED <<rgb_image_queue_, pcd_queue_, rendered>>
        /\ pc # "render" /\ pc' # "render"
        /\ pc' = "decide" => Head(rq') = rgb_msg' /\ Head(pq') = pcd_msg'
    BY <1>6 DEF Call, Look, Return, queues
  <2>2. Done' = Done
    BY <2>1 DEF Done
  <2> QED BY <1>1, <1>2, <2>1, <2>2 DEF K, L, A, B
<1>7. CASE DropOlder
  <2>1. /\ pc = "decide" /\ pc' = "look" /\ ~InRange /\ rendered' = rendered
        /\ time_diff > 0 => pq' = Tail(pq) /\ rq' = rq
        /\ ~(time_diff > 0) => rq' = Tail(rq) /\ pq' = pq
    BY <1>7 DEF DropOlder
  <2>2. Done' = Done
    BY <2>1 DEF Done
  <2>3. CASE time_diff > 0
    <3>1. \A p \in A \X B : p[1] - p[2] \in -MaxTimeDiff .. MaxTimeDiff =>
             p \in A \X Left(Tail(pq), pcd_seen)
      <4> SUFFICES ASSUME NEW x \in A, NEW y \in B, x - y \in -MaxTimeDiff .. MaxTimeDiff
                   PROVE  y \in Left(Tail(pq), pcd_seen)
        OBVIOUS
      <4>1. rgb_msg - pcd_msg > MaxTimeDiff
        BY <1>5, <2>1, <2>3, TimeAssumption DEF Oldest, InRange, time_diff
      <4>2. y # pcd_msg
        BY <1>5, <2>1, <4>1, TimeAssumption DEF Oldest
      <4> QED BY <1>5, <2>1, <4>2
    <3>2. Enough(K, L, A, Left(Tail(pq), pcd_seen), Done)
      BY <1>2, <3>1, EnoughWithoutLonely
    <3> QED BY <1>1, <2>1, <2>2, <2>3, <3>2 DEF K, L, A
  <2>4. CASE ~(time_diff > 0)
    <3>1. \A p \in A \X B : p[1] - p[2] \in -MaxTimeDiff .. MaxTimeDiff =>
             p \in Left(Tail(rq), rgb_seen) \X B
      <4> SUFFICES ASSUME NEW x \in A, NEW y \in B, x - y \in -MaxTimeDiff .. MaxTimeDiff
                   PROVE  x \in Left(Tail(rq), rgb_seen)
        OBVIOUS
      <4>1. pcd_msg - rgb_msg > MaxTimeDiff
        BY <1>5, <2>1, <2>4, TimeAssumption DEF Oldest, InRange, time_diff
      <4>2. x # rgb_msg
        BY <1>5, <2>1, <4>1, TimeAssumption DEF Oldest
      <4> QED BY <1>5, <2>1, <4>2
    <3>2. Enough(K, L, Left(Tail(rq), rgb_seen), B, Done)
      BY <1>2, <3>1, EnoughWithoutLonely
    <3> QED BY <1>1, <2>1, <2>2, <2>4, <3>2 DEF K, L, B
  <2> QED BY <2>3, <2>4
<1>8. CASE TakePair
  <2>1. /\ pc = "decide" /\ pc' = "render" /\ rendered' = rendered
        /\ rq' = Tail(rq) /\ pq' = Tail(pq)
    BY <1>8 DEF TakePair
  <2>2. Done' = Done + 1 /\ Done \in Nat
    BY <2>1, <1>4 DEF Done
  <2> HIDE DEF rq, pq
  <2>3. Enough(K, L, Left(Tail(rq), rgb_seen), Left(Tail(pq), pcd_seen), Done')
    <3> DEFINE A1 == Left(Tail(rq), rgb_seen)
               B1 == Left(Tail(pq), pcd_seen)
    <3>1. Oldest(rgb_msg, A) /\ Oldest(pcd_msg, B)
      BY <1>5, <2>1
    <3>2. A \ {rgb_msg} \subseteq A1 /\ B \ {pcd_msg} \subseteq B1
      BY <1>5, <2>1
    <3> HIDE DEF A1, B1
    <3>3. Enough(K, L, A1, B1, Done')
      BY <3>1, <3>2, <1>2, <2>2, EnoughAfterPair
    <3> QED BY <3>3 DEF A1, B1
  <2> QED BY <1>1, <2>1, <2>2, <2>3 DEF K, L, rq, pq
<1>9. CASE ProcessPair
  <2>1. /\ pc = "render" /\ pc' = "look" /\ rendered' = rendered \cup {<<rgb_msg, pcd_msg>>}
        /\ UNCHANGED <<rgb_image_queue_, pcd_queue_>>
    BY <1>9 DEF ProcessPair, queues
  <2>2. <<rgb_msg, pcd_msg>> \notin rendered
    <3>1. \A p \in rendered : p[1] < rgb_msg
      BY <2>1 DEF Inv, CopyInv
    <3>2. rgb_msg \in Nat
      BY DEF Inv, TypeOK
    <3> QED BY <3>1, <3>2
  <2>3. Cardinality(rendered') = Cardinality(rendered) + 1
    BY <2>1, <2>2, FS_AddElement DEF FiniteInv
  <2>4. Done' = Done
    BY <2>1, <2>3, <1>4 DEF Done
  <2> QED BY <1>1, <1>2, <2>1, <2>4 DEF K, L, A, B
<1> QED BY <1>6, <1>7, <1>8, <1>9 DEF TryProcessPair

\* Every step keeps what is known of the matchings (publishRgb,
\* publishIntensityCloud, try_process_pair).
LEMMA GreedyStep == Inv /\ FiniteInv /\ GreedyInv /\ [Next]_vars => FiniteInv' /\ GreedyInv'
<1>1. GreedyInv /\ UNCHANGED vars => GreedyInv'
  BY DEF vars, queues, seen, GreedyInv, Done
<1> QED
  BY <1>1, FiniteStep, PublishRgbGreedy, PublishCloudGreedy, TryProcessPairGreedy DEF Next

\* Nothing has come, so nothing is missed.
LEMMA GreedyInit == Init => FiniteInv /\ GreedyInv
<1> SUFFICES ASSUME Init PROVE FiniteInv /\ GreedyInv
  OBVIOUS
<1> USE DEF Init
<1>1. FiniteInv
  BY FS_EmptySet DEF FiniteInv
<1>2. Possible(rgb_seen) \subseteq Left(rgb_image_queue_, rgb_seen)
  BY DEF Possible, Left
<1>3. Possible(pcd_seen) \subseteq Left(pcd_queue_, pcd_seen)
  BY DEF Possible, Left
<1>4. Done = 0
  BY FS_EmptySet DEF Done
<1>5. Enough(Possible(rgb_seen), Possible(pcd_seen),
             Left(rgb_image_queue_, rgb_seen), Left(pcd_queue_, pcd_seen), Done)
  <2> SUFFICES ASSUME NEW M \in Pairings(Possible(rgb_seen), Possible(pcd_seen))
               PROVE  \E N \in Pairings(Left(rgb_image_queue_, rgb_seen), Left(pcd_queue_, pcd_seen)) :
                         Within(N, M) /\ Cardinality(M) <= Done + Cardinality(N)
    BY DEF Enough
  <2>1. M \in Pairings(Left(rgb_image_queue_, rgb_seen), Left(pcd_queue_, pcd_seen))
    BY <1>2, <1>3, PairingsGrow
  <2>2. Within(M, M)
    BY DEF Within
  <2>3. Cardinality(M) \in Nat
    BY FS_CardinalityType DEF Pairings
  <2> QED BY <1>4, <2>1, <2>2, <2>3
<1>6. GreedyInv
  BY <1>5 DEF GreedyInv
<1> QED BY <1>1, <1>6

\* With a queue empty, no pair is left among the messages there are.
LEMMA NoneMissed == Inv /\ FiniteInv /\ GreedyInv => RendersAllItCan
<1> SUFFICES ASSUME Inv, FiniteInv, GreedyInv,
                    pc = "look", rgb_image_queue_ = <<>> \/ pcd_queue_ = <<>>, ~evicted,
                    NEW M \in SUBSET Partners, Cardinality(M) = Cardinality(rendered) + 1,
                    IsMatching(M)
             PROVE  FALSE
  BY DEF RendersAllItCan, kSubset
<1>1. M \subseteq rgb_seen \X pcd_seen /\ \A p \in M : p[1] - p[2] \in -MaxTimeDiff .. MaxTimeDiff
  BY DEF Partners
<1>2. IsFiniteSet(M)
  BY <1>1, FS_Product, FS_Subset DEF FiniteInv
<1>3. M \in Pairings(Possible(rgb_seen), Possible(pcd_seen))
  BY <1>1, <1>2 DEF Pairings, Possible
<1>4. PICK N \in Pairings(Left(rgb_image_queue_, rgb_seen), Left(pcd_queue_, pcd_seen)) :
         Within(N, M) /\ Cardinality(M) <= Done + Cardinality(N)
  BY <1>3 DEF GreedyInv, Enough
<1>5. N = {}
  <2> SUFFICES ASSUME NEW p \in N PROVE FALSE
    OBVIOUS
  <2>1. p[1] \in Left(rgb_image_queue_, rgb_seen) /\ p[2] \in Left(pcd_queue_, pcd_seen)
    BY DEF Pairings
  <2>2. p[1] \in rgb_seen /\ p[2] \in pcd_seen
    BY <1>1, <1>4 DEF Within
  <2>3. p[1] \notin Newer(rgb_seen) /\ p[2] \notin Newer(pcd_seen)
    BY <2>2 DEF Newer
  <2> QED BY <2>1, <2>3 DEF Left
<1>6. Done = Cardinality(rendered) /\ Done \in Nat
  BY FS_CardinalityType DEF Done, FiniteInv
<1> QED BY <1>4, <1>5, <1>6, FS_EmptySet

\* try_process_pair() returns with as many pairs rendered as there are in any way
\* to pair the messages, if no queue overflowed: the fronts are enough to look at.
THEOREM RenderedAll == SafeSpec => []RendersAllItCan
<1>1. SafeSpec => [](Inv /\ FiniteInv /\ GreedyInv)
  <2>1. Inv /\ FiniteInv /\ GreedyInv /\ [Next]_vars => FiniteInv' /\ GreedyInv'
    BY GreedyStep
  <2> QED BY <2>1, GreedyInit, InvAlways, PTL DEF SafeSpec
<1> QED BY <1>1, NoneMissed, PTL
=============================================================================
