------------------------ MODULE PairSessionsProofs ------------------------
(***************************************************************************)
(* Proofs about PairSessions for every capacity, tolerance and number of   *)
(* replugs, and any behaviour of the sensor's clock: SessionsInv is an     *)
(* inductive invariant, and the safety properties follow from it.          *)
(* While the clock goes on, PairSessions implements PairQueue.             *)
(*                                                                         *)
(* A message is known by the session it was delivered in and its stamp;    *)
(* Prec orders messages by both.                                           *)
(***************************************************************************)
EXTENDS PairSessions, PairQueueProofs

Prec(a, m, b, n) == a < b \/ (a = b /\ m < n)

-----------------------------------------------------------------------------
(* The inductive invariant *)

\* The message has been delivered, and before the one whose callback runs.
Settled(s, a, m) ==
    /\ 1 <= a
    /\ a < session \/ (a = session /\ m <= clock[s])
    /\ call[s].at # "none" => Prec(a, m, call[s].from, call[s].stamp)

CallInv(s) ==
    call[s].at # "none" =>
        /\ 1 <= call[s].from
        /\ call[s].from < session \/ (call[s].from = session /\ call[s].stamp <= clock[s])
        /\ fresh[s] > 0 => call[s].from = session

\* Late pushes are counted while the device is away, and a callback that can
\* still push has passed the gate before.
LateInv(s) ==
    /\ deviceConnected => late[s] = 0
    /\ late[s] <= 1
    /\ call[s].at = "push" /\ ~deviceConnected => late[s] = 0

\* A queue q of stream s, with the sessions f of its messages: it is in order, its
\* last messages are of the present session, and what was copied or rendered
\* comes before what it holds.
QueueOrder(s, f, q) ==
    /\ \A i, j \in 1 .. Len(q) : i < j => Prec(f[i], q[i], f[j], q[j])
    /\ \A i \in 1 .. Len(q) : Settled(s, f[i], q[i])
    /\ \A i \in 1 .. Len(q) : i > Len(q) - fresh[s] => f[i] = session

CopyOrder(s, f, q, m) ==
    /\ pc \in {"decide", "render"} => Settled(s, msg_from[s], m)
    /\ pc = "decide" => q # <<>> /\ \A i \in 1 .. Len(q) : ~Prec(f[i], q[i], msg_from[s], m)
    /\ pc = "render" => \A i \in 1 .. Len(q) : Prec(msg_from[s], m, f[i], q[i])

PairOrder(s, f, q, m) ==
    \A p \in pairs :
        /\ Settled(s, p[s][1], p[s][2])
        /\ \A i \in 1 .. Len(q) : Prec(p[s][1], p[s][2], f[i], q[i])
        /\ pc \in {"decide", "render"} => Prec(p[s][1], p[s][2], msg_from[s], m)

StreamInv(s, f, q, m) ==
    QueueOrder(s, f, q) /\ CopyOrder(s, f, q, m) /\ PairOrder(s, f, q, m)

\* All messages that can still be rendered.
Items ==
    {<<rgb_from[i], rgb_image_queue_[i]>> : i \in 1 .. Len(rgb_image_queue_)}
    \cup {<<pcd_from[i], pcd_queue_[i]>> : i \in 1 .. Len(pcd_queue_)}
    \cup {<<call[s].from, call[s].stamp>> : s \in {t \in Streams : call[t].at # "none"}}
    \cup IF pc \in {"decide", "render"}
           THEN {<<msg_from["rgb"], rgb_msg>>, <<msg_from["pcd"], pcd_msg>>} ELSE {}

\* Unless the clock started again, messages of different sessions are farther
\* apart than the tolerance.
GapInv ==
    ~restarted =>
        /\ \A x, y \in Items : x[1] < y[1] => x[2] + MaxTimeDiff < y[2]
        /\ \A x \in Items : /\ x[1] = session => x[2] <= Newest
                            /\ x[1] < session => \A s \in Streams : x[2] + MaxTimeDiff <= clock[s]

\* TypeOK of PairQueue, for which what is copied has to be something seen.
SeenInv ==
    /\ \A i \in 1 .. Len(rgb_image_queue_) : rgb_image_queue_[i] \in rgb_seen
    /\ \A i \in 1 .. Len(pcd_queue_) : pcd_queue_[i] \in pcd_seen
    /\ pc \in {"decide", "render"} => rgb_msg \in rgb_seen /\ pcd_msg \in pcd_seen
    /\ pc = "render" => InRange

SessionsInv ==
    /\ SessionsTypeOK
    /\ SeenInv
    /\ \A s \in Streams : CallInv(s) /\ LateInv(s)
    /\ StreamInv("rgb", rgb_from, rgb_image_queue_, rgb_msg)
    /\ StreamInv("pcd", pcd_from, pcd_queue_, pcd_msg)
    /\ GapInv
    /\ MixesOnlyAfterRestart
    /\ RendersInSessionOrder

-----------------------------------------------------------------------------
(* Push and Tail move a queue and the sessions of its messages alike *)

\* r and g are q and f without their first k elements, and m and a at the end.
Shifted(q, f, m, a, r, g, k) ==
    /\ k \in Nat /\ k <= Len(q)
    /\ r \in Seq(Nat) /\ g \in Seq(Nat)
    /\ Len(r) = Len(q) + 1 - k /\ Len(g) = Len(q) + 1 - k
    /\ Len(q) + 1 - k <= Cap
    /\ \A i \in 1 .. Len(q) - k : r[i] = q[i + k] /\ g[i] = f[i + k]
    /\ r[Len(q) + 1 - k] = m /\ g[Len(q) + 1 - k] = a

\* Push moves the messages of a queue and their sessions alike.
LEMMA PushShift ==
    ASSUME NEW q \in Seq(Nat), NEW f \in Seq(Nat), Len(f) = Len(q), Len(q) <= Cap,
           NEW m \in Nat, NEW a \in Nat, NEW r, r = Push(q, m), NEW g, g = Push(f, a)
    PROVE  \E k : Shifted(q, f, m, a, r, g, k)
<1> USE CapAssumption
<1>1. CASE Len(q) >= Cap
  <2> DEFINE t == Tail(q)
             u == Tail(f)
  <2>1. /\ t \in Seq(Nat) /\ Len(t) = Len(q) - 1 /\ \A i \in 1 .. Len(q) - 1 : t[i] = q[i + 1]
        /\ u \in Seq(Nat) /\ Len(u) = Len(q) - 1 /\ \A i \in 1 .. Len(q) - 1 : u[i] = f[i + 1]
        /\ Len(q) = Cap
    BY <1>1
  <2>2. r = Append(t, m) /\ g = Append(u, a)
    BY <1>1 DEF Push
  <2> HIDE DEF t, u
  <2>3. /\ r \in Seq(Nat) /\ Len(r) = Len(q) /\ r[Len(q)] = m
        /\ \A i \in 1 .. Len(q) - 1 : r[i] = t[i]
    BY <2>1, <2>2
  <2>4. /\ g \in Seq(Nat) /\ Len(g) = Len(q) /\ g[Len(q)] = a
        /\ \A i \in 1 .. Len(q) - 1 : g[i] = u[i]
    BY <2>1, <2>2
  <2>5. Len(q) + 1 - 1 = Len(q) /\ 1 <= Len(q)
    BY <1>1
  <2>6. Shifted(q, f, m, a, r, g, 1)
    BY <2>1, <2>3, <2>4, <2>5 DEF Shifted
  <2>q. QED
    BY <2>6
<1>2. CASE ~(Len(q) >= Cap)
  <2>1. r = Append(q, m) /\ g = Append(f, a)
    BY <1>2 DEF Push
  <2>3. Len(q) + 1 - 0 = Len(q) + 1 /\ Len(q) - 0 = Len(q)
    OBVIOUS
  <2>4. \A i \in 1 .. Len(q) : Append(q, m)[i] = q[i + 0] /\ Append(f, a)[i] = f[i + 0]
    OBVIOUS
  <2>5. Append(q, m)[Len(q) + 1] = m /\ Append(f, a)[Len(q) + 1] = a
    OBVIOUS
  <2>6. Shifted(q, f, m, a, r, g, 0)
    BY <1>2, <2>1, <2>3, <2>4, <2>5 DEF Shifted
  <2>q. QED
    BY <2>6
<1>q. QED
  BY <1>1, <1>2

\* Removing the front moves both alike, and changes the queue.
LEMMA TailShift ==
    ASSUME NEW q \in Seq(Nat), NEW f \in Seq(Nat), Len(f) = Len(q), q # <<>>,
           NEW r, r = Tail(q), NEW g, g = Tail(f)
    PROVE  /\ Len(q) > 0 /\ 1 \in 1 .. Len(q)
           /\ r \in Seq(Nat) /\ g \in Seq(Nat)
           /\ Len(r) = Len(q) - 1 /\ Len(g) = Len(q) - 1
           /\ \A i \in 1 .. Len(r) : /\ i + 1 \in 1 .. Len(q) /\ 1 < i + 1
                                     /\ r[i] = q[i + 1] /\ g[i] = f[i + 1]
           /\ r # q
<1>1. Len(q) > 0 /\ f # <<>>
  OBVIOUS
<1>2. r \in Seq(Nat) /\ g \in Seq(Nat) /\ Len(r) = Len(q) - 1 /\ Len(g) = Len(q) - 1
  BY <1>1
<1>3. \A i \in 1 .. Len(r) : i + 1 \in 1 .. Len(q) /\ 1 < i + 1
  BY <1>1, <1>2
<1>4. \A i \in 1 .. Len(r) : r[i] = q[i + 1] /\ g[i] = f[i + 1]
  BY <1>1, <1>2
<1>q. QED
  BY <1>1, <1>2, <1>3, <1>4

Pushed(q, f, m, a, r, g, n, c) ==
    /\ r \in Seq(Nat) /\ g \in Seq(Nat)
    /\ Len(g) = Len(r) /\ Len(r) \in 1 .. Cap
    /\ r # <<>>
    /\ \A i, j \in 1 .. Len(r) : i < j => Prec(g[i], r[i], g[j], r[j])
    /\ \A i \in 1 .. Len(r) :
          \/ g[i] = a /\ r[i] = m
          \/ \E j \in 1 .. Len(q) : g[i] = f[j] /\ r[i] = q[j]
    /\ a = c => \A i \in 1 .. Len(r) : i > Len(r) - (n + 1) => g[i] = c

\* A message that comes after all of a queue goes to its end, and the queue stays
\* in order (publishRgb, publishIntensityCloud).
LEMMA PushOrder ==
    ASSUME NEW q \in Seq(Nat), NEW f \in Seq(Nat), Len(f) = Len(q), Len(q) <= Cap,
           NEW m \in Nat, NEW a \in Nat, NEW r, r = Push(q, m), NEW g, g = Push(f, a),
           \A i, j \in 1 .. Len(q) : i < j => Prec(f[i], q[i], f[j], q[j]),
           \A i \in 1 .. Len(q) : Prec(f[i], q[i], a, m),
           NEW n \in Nat, NEW c,
           \A i \in 1 .. Len(q) : i > Len(q) - n => f[i] = c
    PROVE  Pushed(q, f, m, a, r, g, n, c)
<1>0. PICK k : Shifted(q, f, m, a, r, g, k)
  BY PushShift
<1>1. /\ k \in Nat /\ k <= Len(q)
      /\ r \in Seq(Nat) /\ g \in Seq(Nat)
      /\ Len(r) = Len(q) + 1 - k /\ Len(g) = Len(q) + 1 - k
      /\ Len(q) + 1 - k <= Cap
      /\ \A i \in 1 .. Len(q) - k : r[i] = q[i + k] /\ g[i] = f[i + k]
      /\ r[Len(q) + 1 - k] = m /\ g[Len(q) + 1 - k] = a
  BY <1>0 DEF Shifted
<1>2. k \in Nat /\ Len(q) \in Nat /\ Len(r) \in Nat \ {0} /\ Len(r) \in 1 .. Cap
  BY <1>1, CapAssumption
<1>3. r # <<>>
  <2>1. Len(<<>>) = 0
    OBVIOUS
  <2>q. QED
    BY <1>2, <2>1
<1>4. ASSUME NEW i \in 1 .. Len(r), i # Len(r)
      PROVE  i + k \in 1 .. Len(q) /\ r[i] = q[i + k] /\ g[i] = f[i + k]
  <2>0. Len(r) = Len(q) + 1 - k /\ i \in Nat /\ 1 <= i /\ i <= Len(r)
    BY <1>1
  <2>1. i \in 1 .. Len(q) - k
    BY <1>2, <1>4, <2>0
  <2>2. i + k \in 1 .. Len(q)
    BY <1>2, <2>1
  <2>q. QED
    BY <1>1, <2>1, <2>2
<1>5. r[Len(r)] = m /\ g[Len(r)] = a
  BY <1>1
<1>6. ASSUME NEW i \in 1 .. Len(r), NEW j \in 1 .. Len(r), i < j
      PROVE  Prec(g[i], r[i], g[j], r[j])
  <2>1. i + k \in 1 .. Len(q) /\ r[i] = q[i + k] /\ g[i] = f[i + k]
    BY <1>4, <1>6, <1>2
  <2>2. CASE j = Len(r)
    BY <2>1, <2>2, <1>5
  <2>3. CASE j # Len(r)
    <3>1. j + k \in 1 .. Len(q) /\ r[j] = q[j + k] /\ g[j] = f[j + k]
      BY <1>4, <2>3
    <3>2. i + k < j + k
      BY <1>6, <1>2
    <3>q. QED
      BY <2>1, <3>1, <3>2
  <2>q. QED
    BY <2>2, <2>3
<1>7. \A i \in 1 .. Len(r) : (g[i] = a /\ r[i] = m) \/ \E j \in 1 .. Len(q) : g[i] = f[j] /\ r[i] = q[j]
  BY <1>4, <1>5
<1>8. ASSUME a = c, NEW i \in 1 .. Len(r), i > Len(r) - (n + 1)
      PROVE  g[i] = c
  <2>1. CASE i = Len(r)
    BY <2>1, <1>5, <1>8
  <2>2. CASE i # Len(r)
    <3>1. i + k \in 1 .. Len(q) /\ g[i] = f[i + k]
      BY <1>4, <2>2
    <3>2. i + k > Len(q) - n
      BY <1>1, <1>2, <1>8
    <3>q. QED
      BY <3>1, <3>2
  <2>q. QED
    BY <2>1, <2>2
<1>q. QED
  BY <1>1, <1>2, <1>3, <1>6, <1>7, <1>8 DEF Pushed

-----------------------------------------------------------------------------
(* What a step does to one stream: f and q are its queue, m the message of *)
(* it that was copied, g, r and n those after the step.                    *)

StreamOK(s, f, q, m) ==
    /\ f \in Seq(Nat) /\ q \in Seq(Nat) /\ Len(f) = Len(q) /\ Len(q) <= Cap
    /\ m \in Nat /\ msg_from[s] \in Nat
    /\ \A p \in pairs : p[s][1] \in Nat /\ p[s][2] \in Nat
    /\ session \in Nat /\ clock[s] \in Nat /\ fresh[s] \in 0 .. Cap
    /\ call[s].from \in Nat /\ call[s].stamp \in Nat

\* A message that is settled stays so, and what was counted stays counted.
Still(s) ==
    /\ \A a, m \in Nat : Settled(s, a, m) => Settled(s, a, m)'
    /\ fresh'[s] = 0 \/ (fresh'[s] = fresh[s] /\ session' = session)

NoCopy == pc' = pc \/ pc' \in {"idle", "look"}

\* The messages of a queue are natural numbers.
LEMMA StreamElements ==
    ASSUME NEW s, NEW f, NEW q, NEW m, StreamOK(s, f, q, m)
    PROVE  \A i \in 1 .. Len(q) : f[i] \in Nat /\ q[i] \in Nat
  BY DEF StreamOK

\* A step that leaves a stream alone keeps its part of the invariant.
LEMMA StillStream ==
    ASSUME NEW s, NEW f, NEW q, NEW m, StreamOK(s, f, q, m),
           StreamInv(s, f, q, m), Still(s), NoCopy, msg_from' = msg_from, pairs' = pairs
    PROVE  StreamInv(s, f, q, m)'
<1>1. \A i \in 1 .. Len(q) : f[i] \in Nat /\ q[i] \in Nat
  BY StreamElements
<1>2. QueueOrder(s, f, q)'
  <2>1. \A i \in 1 .. Len(q) : Settled(s, f[i], q[i])'
    BY <1>1 DEF Still, StreamInv, QueueOrder
  <2>2. \A i \in 1 .. Len(q) : i > Len(q) - fresh'[s] => f[i] = session'
    BY DEF Still, StreamInv, QueueOrder, StreamOK
  <2>q. QED
    BY <2>1, <2>2 DEF StreamInv, QueueOrder, Prec, Settled
<1>3. CopyOrder(s, f, q, m)'
  <2>1. pc \in {"decide", "render"} => Settled(s, msg_from[s], m)'
    BY DEF Still, StreamInv, CopyOrder, StreamOK
  <2>q. QED
    BY <2>1 DEF NoCopy, StreamInv, CopyOrder, Prec, Settled
<1>4. PairOrder(s, f, q, m)'
  <2>1. \A p \in pairs : Settled(s, p[s][1], p[s][2])'
    BY DEF Still, StreamInv, PairOrder, StreamOK
  <2>q. QED
    BY <2>1 DEF NoCopy, StreamInv, PairOrder, Prec, Settled
<1>q. QED
  BY <1>2, <1>3, <1>4 DEF StreamInv

\* A push of stream s keeps its part: what is pushed was delivered last.
LEMMA PushStream ==
    ASSUME NEW s \in Streams, NEW f, NEW q, NEW m, StreamOK(s, f, q, m),
           StreamInv(s, f, q, m), CallInv(s), call[s].at = "push",
           call \in [Streams -> [at : {"none", "gate", "push"}, stamp : Nat, from : Nat]],
           fresh \in [Streams -> 0 .. Cap],
           CountPush(s), pc' = pc, msg_from' = msg_from, pairs' = pairs,
           NEW g, g = Push(f, call[s].from), NEW r, r = Push(q, call[s].stamp)
    PROVE  /\ StreamInv(s, g, r, m)'
           /\ g \in Seq(Nat) /\ r \in Seq(Nat) /\ Len(g) = Len(r) /\ Len(r) <= Cap
           /\ \A i \in 1 .. Len(r) :
                 \/ g[i] = call[s].from /\ r[i] = call[s].stamp
                 \/ \E j \in 1 .. Len(q) : g[i] = f[j] /\ r[i] = q[j]
<1> DEFINE a == call[s].from
           b == call[s].stamp
<1>1. \A i \in 1 .. Len(q) : f[i] \in Nat /\ q[i] \in Nat
  BY StreamElements
<1>2. /\ a \in Nat /\ b \in Nat /\ call'[s].at = "none" /\ session' = session /\ clock' = clock
      /\ fresh[s] \in 0 .. Cap
      /\ fresh'[s] = IF a = session /\ fresh[s] < Cap THEN fresh[s] + 1 ELSE fresh[s]
  BY DEF StreamOK, CountPush, device, NoCall
<1>3. /\ \A i, j \in 1 .. Len(q) : i < j => Prec(f[i], q[i], f[j], q[j])
      /\ \A i \in 1 .. Len(q) : Prec(f[i], q[i], a, b)
      /\ \A i \in 1 .. Len(q) : i > Len(q) - fresh[s] => f[i] = session
  BY DEF StreamInv, QueueOrder, Settled
<1>4. /\ 1 <= a /\ (a < session \/ (a = session /\ b <= clock[s]))
      /\ fresh[s] > 0 => a = session
  BY DEF CallInv
<1>5. /\ g \in Seq(Nat) /\ r \in Seq(Nat) /\ Len(g) = Len(r) /\ Len(r) \in 1 .. Cap
      /\ r # <<>>
      /\ \A i, j \in 1 .. Len(r) : i < j => Prec(g[i], r[i], g[j], r[j])
      /\ \A i \in 1 .. Len(r) :
            \/ g[i] = a /\ r[i] = b
            \/ \E j \in 1 .. Len(q) : g[i] = f[j] /\ r[i] = q[j]
      /\ a = session => \A i \in 1 .. Len(r) : i > Len(r) - (fresh[s] + 1) => g[i] = session
  <2>1. f \in Seq(Nat) /\ q \in Seq(Nat) /\ Len(f) = Len(q) /\ Len(q) <= Cap /\ fresh[s] \in Nat
    BY <1>2, CapAssumption DEF StreamOK
  <2> HIDE DEF a, b
  <2>2. g = Push(f, a) /\ r = Push(q, b)
    BY DEF a, b
  <2>3. Pushed(q, f, b, a, r, g, fresh[s], session)
    BY <1>2, <1>3, <2>1, <2>2, PushOrder
  <2>q. QED
    BY <2>3 DEF Pushed
<1>6. QueueOrder(s, g, r)'
  <2>1. \A i \in 1 .. Len(r) : Settled(s, g[i], r[i])'
    BY <1>2, <1>4, <1>5 DEF StreamInv, QueueOrder, Settled
  <2>2. ASSUME NEW i \in 1 .. Len(r), i > Len(r) - fresh'[s]
        PROVE  g[i] = session'
    BY <1>2, <1>4, <1>5, <2>2, CapAssumption
  <2>3. \A i, j \in 1 .. Len(r) : i < j => Prec(g[i], r[i], g[j], r[j])'
    BY <1>5 DEF Prec
  <2>q. QED
    BY <2>1, <2>2, <2>3 DEF QueueOrder
<1>7. CopyOrder(s, g, r, m)'
  <2>1. ASSUME pc \in {"decide", "render"}
        PROVE  /\ Settled(s, msg_from[s], m)' /\ Prec(msg_from[s], m, a, b)
               /\ ~Prec(a, b, msg_from[s], m)
    <3>1. Settled(s, msg_from[s], m) /\ msg_from[s] \in Nat /\ m \in Nat
      BY <2>1 DEF StreamInv, CopyOrder, StreamOK
    <3>2. Prec(msg_from[s], m, a, b)
      BY <3>1 DEF Settled
    <3>q. QED
      BY <3>1, <3>2, <1>2 DEF Settled, Prec
  <2>2. /\ pc = "decide" => \A i \in 1 .. Len(q) : ~Prec(f[i], q[i], msg_from[s], m)
        /\ pc = "render" => \A i \in 1 .. Len(q) : Prec(msg_from[s], m, f[i], q[i])
    BY DEF StreamInv, CopyOrder
  <2>3. /\ pc = "decide" => \A i \in 1 .. Len(r) : ~Prec(g[i], r[i], msg_from[s], m)
        /\ pc = "render" => \A i \in 1 .. Len(r) : Prec(msg_from[s], m, g[i], r[i])
    BY <1>5, <2>1, <2>2
  <2>q. QED
    BY <1>5, <2>1, <2>3 DEF CopyOrder, Prec
<1>8. PairOrder(s, g, r, m)'
  <2> SUFFICES ASSUME NEW p \in pairs
               PROVE  /\ Settled(s, p[s][1], p[s][2])'
                      /\ \A i \in 1 .. Len(r) : Prec(p[s][1], p[s][2], g[i], r[i])
                      /\ pc \in {"decide", "render"} => Prec(p[s][1], p[s][2], msg_from[s], m)
    BY DEF PairOrder, Prec
  <2>1. /\ Settled(s, p[s][1], p[s][2])
        /\ \A i \in 1 .. Len(q) : Prec(p[s][1], p[s][2], f[i], q[i])
        /\ pc \in {"decide", "render"} => Prec(p[s][1], p[s][2], msg_from[s], m)
    BY DEF StreamInv, PairOrder
  <2>2. Prec(p[s][1], p[s][2], a, b) /\ Settled(s, p[s][1], p[s][2])'
    BY <2>1, <1>2 DEF Settled
  <2>q. QED
    BY <2>1, <2>2, <1>5
<1>q. QED
  BY <1>5, <1>6, <1>7, <1>8 DEF StreamInv

\* try_process_pair() copies a front.
LEMMA CopyStream ==
    ASSUME NEW s \in Streams, NEW f, NEW q, NEW m, StreamOK(s, f, q, m),
           StreamInv(s, f, q, m), q # <<>>, pc' = "decide",
           NEW n, n = Head(q), msg_from'[s] = Head(f), pairs' = pairs,
           session' = session, clock' = clock, call' = call, fresh' = fresh
    PROVE  StreamInv(s, f, q, n)'
<1>1. \A i \in 1 .. Len(q) : f[i] \in Nat /\ q[i] \in Nat
  BY StreamElements
<1>2. 1 \in 1 .. Len(q) /\ n = q[1] /\ msg_from'[s] = f[1]
  BY DEF StreamOK
<1>3. \A a, b \in Nat : Settled(s, a, b)' <=> Settled(s, a, b)
  BY DEF Settled, Prec
<1>4. QueueOrder(s, f, q)
  BY DEF StreamInv
<1>5. QueueOrder(s, f, q)'
  <2>1. \A i \in 1 .. Len(q) : Settled(s, f[i], q[i])'
    BY <1>1, <1>3, <1>4 DEF QueueOrder
  <2>q. QED
    BY <1>4, <2>1 DEF QueueOrder, Prec
<1>6. CopyOrder(s, f, q, n)'
  <2>1. Settled(s, f[1], q[1])'
    BY <1>1, <1>2, <1>3, <1>4 DEF QueueOrder
  <2>2. ASSUME NEW i \in 1 .. Len(q)
        PROVE  ~Prec(f[i], q[i], f[1], q[1])
    <3>1. i = 1 \/ 1 < i
      OBVIOUS
    <3>2. 1 < i => Prec(f[1], q[1], f[i], q[i])
      BY <1>2, <1>4 DEF QueueOrder
    <3>3. f[1] \in Nat /\ q[1] \in Nat /\ f[i] \in Nat /\ q[i] \in Nat
      BY <1>1, <1>2
    <3>q. QED
      BY <3>1, <3>2, <3>3 DEF Prec
  <2>q. QED
    BY <1>2, <2>1, <2>2 DEF CopyOrder, Prec, Settled
<1>7. PairOrder(s, f, q, n)'
  <2>1. \A p \in pairs : Settled(s, p[s][1], p[s][2])'
    BY <1>3 DEF StreamInv, PairOrder, StreamOK
  <2>q. QED
    BY <1>2, <2>1 DEF StreamInv, PairOrder, Prec, Settled
<1>q. QED
  BY <1>5, <1>6, <1>7 DEF StreamInv

Tailed(f, q, g, r) ==
    /\ g \in Seq(Nat) /\ r \in Seq(Nat) /\ Len(g) = Len(r) /\ Len(r) <= Cap
    /\ \A i \in 1 .. Len(r) : \E j \in 1 .. Len(q) : g[i] = f[j] /\ r[i] = q[j]

\* A queue loses its front, which may be another one than was copied, and the
\* copy is dropped or handed to process_pair().
LEMMA TailStream ==
    ASSUME NEW s \in Streams, NEW f, NEW q, NEW m, StreamOK(s, f, q, m),
           StreamInv(s, f, q, m), pc = "decide", pc' \in {"look", "render"},
           NEW g, g = Tail(f), NEW r, r = Tail(q), msg_from' = msg_from, pairs' = pairs,
           session' = session, clock' = clock, call' = call, fresh' = fresh
    PROVE  StreamInv(s, g, r, m)' /\ Tailed(f, q, g, r)
<1>1. \A i \in 1 .. Len(q) : f[i] \in Nat /\ q[i] \in Nat
  BY StreamElements
<1>2. CopyOrder(s, f, q, m) /\ QueueOrder(s, f, q) /\ PairOrder(s, f, q, m)
  BY DEF StreamInv
<1>3. /\ Len(q) > 0 /\ 1 \in 1 .. Len(q)
      /\ r \in Seq(Nat) /\ g \in Seq(Nat)
      /\ Len(r) = Len(q) - 1 /\ Len(g) = Len(q) - 1
      /\ \A i \in 1 .. Len(r) : /\ i + 1 \in 1 .. Len(q) /\ 1 < i + 1
                                /\ r[i] = q[i + 1] /\ g[i] = f[i + 1]
      /\ r # q
  <2>1. q \in Seq(Nat) /\ f \in Seq(Nat) /\ Len(f) = Len(q) /\ q # <<>>
    BY <1>2 DEF StreamOK, CopyOrder
  <2>q. QED
    BY <2>1, TailShift
<1>4. \A a, b \in Nat : Settled(s, a, b)' <=> Settled(s, a, b)
  BY DEF Settled, Prec
<1>5. QueueOrder(s, g, r)'
  <2>1. \A i \in 1 .. Len(r) : Settled(s, g[i], r[i])'
    BY <1>1, <1>2, <1>3, <1>4 DEF QueueOrder
  <2>2. ASSUME NEW i \in 1 .. Len(r), NEW j \in 1 .. Len(r), i < j
        PROVE  Prec(g[i], r[i], g[j], r[j])
    <3>0. i + 1 \in 1 .. Len(q) /\ j + 1 \in 1 .. Len(q)
      BY <1>3
    <3>1. i + 1 < j + 1
      BY <2>2
    <3>2. Prec(f[i + 1], q[i + 1], f[j + 1], q[j + 1])
      BY <1>2, <3>0, <3>1 DEF QueueOrder
    <3>q. QED
      BY <1>3, <3>2
  <2>3. ASSUME NEW i \in 1 .. Len(r), i > Len(r) - fresh[s]
        PROVE  g[i] = session
    <3>0. i + 1 \in 1 .. Len(q)
      BY <1>3
    <3>n. Len(q) \in Nat /\ Len(r) = Len(q) - 1
      <4>1. q \in Seq(Nat)
        BY DEF StreamOK
      <4>2. Len(q) \in Nat
        BY <4>1
      <4>q. QED
        BY <1>3, <4>2
    <3>f. fresh[s] \in Nat
      <4>1. fresh[s] \in 0 .. Cap
        BY DEF StreamOK
      <4>q. QED
        BY <4>1, CapAssumption
    <3>1. i + 1 \in 1 .. Len(q) /\ i + 1 > Len(q) - fresh[s]
      BY <2>3, <3>0, <3>n, <3>f
    <3>q. QED
      BY <1>2, <1>3, <3>1 DEF QueueOrder
  <2>q. QED
    BY <2>1, <2>2, <2>3 DEF QueueOrder, Prec
<1>6. CopyOrder(s, g, r, m)'
  <2>1. Settled(s, msg_from[s], m) /\ Settled(s, msg_from[s], m)'
    BY <1>2, <1>4 DEF CopyOrder, StreamOK
  <2>2. ASSUME NEW i \in 1 .. Len(r)
        PROVE  Prec(msg_from[s], m, g[i], r[i])
    <3>1. ~Prec(f[1], q[1], msg_from[s], m) /\ Prec(f[1], q[1], f[i + 1], q[i + 1])
      BY <1>2, <1>3 DEF CopyOrder, QueueOrder
    <3>2. /\ f[1] \in Nat /\ q[1] \in Nat /\ f[i + 1] \in Nat /\ q[i + 1] \in Nat
          /\ msg_from[s] \in Nat /\ m \in Nat
      BY <1>1, <1>3 DEF StreamOK
    <3>3. Prec(msg_from[s], m, f[i + 1], q[i + 1])
      BY <3>1, <3>2 DEF Prec
    <3>q. QED
      BY <1>3, <3>3
  <2>q. QED
    BY <2>1, <2>2 DEF CopyOrder, Prec
<1>7. PairOrder(s, g, r, m)'
  <2> SUFFICES ASSUME NEW p \in pairs
               PROVE  /\ Settled(s, p[s][1], p[s][2])'
                      /\ \A i \in 1 .. Len(r) : Prec(p[s][1], p[s][2], g[i], r[i])
                      /\ Prec(p[s][1], p[s][2], msg_from[s], m)
    BY DEF PairOrder, Prec
  <2>q. QED
    BY <1>2, <1>3, <1>4 DEF PairOrder, StreamOK
<1>8. \A i \in 1 .. Len(r) : \E j \in 1 .. Len(q) : g[i] = f[j] /\ r[i] = q[j]
  BY <1>3
<1>9. Len(r) <= Cap
  BY <1>3, CapAssumption DEF StreamOK
<1>q. QED
  BY <1>3, <1>5, <1>6, <1>7, <1>8, <1>9 DEF StreamInv, Tailed

\* process_pair() renders what was copied.
LEMMA RenderStream ==
    ASSUME NEW s \in Streams, NEW f, NEW q, NEW m, StreamOK(s, f, q, m),
           StreamInv(s, f, q, m), pc = "render", pc' = "look", msg_from' = msg_from,
           NEW x, x[s] = <<msg_from[s], m>>, pairs' = pairs \cup {x},
           session' = session, clock' = clock, call' = call, fresh' = fresh
    PROVE  StreamInv(s, f, q, m)'
<1>1. \A i \in 1 .. Len(q) : f[i] \in Nat /\ q[i] \in Nat
  BY StreamElements
<1>2. CopyOrder(s, f, q, m) /\ QueueOrder(s, f, q) /\ PairOrder(s, f, q, m)
  BY DEF StreamInv
<1>3. \A a, b \in Nat : Settled(s, a, b)' <=> Settled(s, a, b)
  BY DEF Settled, Prec
<1>4. QueueOrder(s, f, q)'
  <2>1. \A i \in 1 .. Len(q) : Settled(s, f[i], q[i])'
    BY <1>1, <1>2, <1>3 DEF QueueOrder
  <2>q. QED
    BY <1>2, <2>1 DEF QueueOrder, Prec
<1>5. CopyOrder(s, f, q, m)'
  BY DEF CopyOrder
<1>6. PairOrder(s, f, q, m)'
  <2> SUFFICES ASSUME NEW p \in pairs'
               PROVE  /\ Settled(s, p[s][1], p[s][2])'
                      /\ \A i \in 1 .. Len(q) : Prec(p[s][1], p[s][2], f[i], q[i])
    BY DEF PairOrder, Prec
  <2>1. CASE p \in pairs
    BY <1>2, <1>3, <2>1 DEF PairOrder, StreamOK
  <2>2. CASE p = x
    <3>1. p[s][1] = msg_from[s] /\ p[s][2] = m
      BY <2>2
    <3>q. QED
      BY <1>2, <1>3, <3>1 DEF CopyOrder, StreamOK
  <2>q. QED
    BY <2>1, <2>2
<1>q. QED
  BY <1>4, <1>5, <1>6 DEF StreamInv

-----------------------------------------------------------------------------
(* The invariant as a whole *)

\* The types of what belongs to one stream.
LEMMA CallTypes ==
    ASSUME SessionsInv, NEW s \in Streams
    PROVE  /\ call[s].at \in {"none", "gate", "push"} /\ call[s].from \in Nat
           /\ call[s].stamp \in Nat /\ clock[s] \in Nat /\ session \in Nat
           /\ fresh[s] \in Nat /\ fresh[s] <= Cap /\ late[s] \in Nat /\ msg_from[s] \in Nat
<1>1. fresh[s] \in 0 .. Cap /\ Cap \in Nat
  BY CapAssumption DEF SessionsInv, SessionsTypeOK
<1>2. fresh[s] \in Nat /\ fresh[s] <= Cap
  BY <1>1
<1>q. QED
  BY <1>2 DEF SessionsInv, SessionsTypeOK

\* The types of the queues of both streams, by their names.
LEMMA BothStreams ==
    SessionsInv => /\ StreamOK("rgb", rgb_from, rgb_image_queue_, rgb_msg)
                   /\ StreamOK("pcd", pcd_from, pcd_queue_, pcd_msg)
<1> SUFFICES ASSUME SessionsInv
             PROVE  /\ StreamOK("rgb", rgb_from, rgb_image_queue_, rgb_msg)
                    /\ StreamOK("pcd", pcd_from, pcd_queue_, pcd_msg)
  OBVIOUS
<1>1. SessionsTypeOK /\ TypeOK
  BY DEF SessionsInv, SessionsTypeOK
<1>2. \A s \in Streams :
        /\ clock[s] \in Nat /\ fresh[s] \in 0 .. Cap /\ msg_from[s] \in Nat
        /\ call[s].from \in Nat /\ call[s].stamp \in Nat
  BY <1>1 DEF SessionsTypeOK
<1>3. \A p \in pairs : /\ p["rgb"][1] \in Nat /\ p["rgb"][2] \in Nat
                       /\ p["pcd"][1] \in Nat /\ p["pcd"][2] \in Nat
  BY <1>1 DEF SessionsTypeOK
<1>4. "rgb" \in Streams /\ "pcd" \in Streams
  BY DEF Streams
<1>q. QED
  BY <1>1, <1>2, <1>3, <1>4 DEF SessionsTypeOK, TypeOK, StreamOK

\* What can still be rendered has been delivered, in a session that has begun.
LEMMA ItemRange ==
    ASSUME SessionsInv
    PROVE  \A x \in Items : x \in Nat \X Nat /\ 1 <= x[1] /\ x[1] <= session
<1>1. /\ StreamOK("rgb", rgb_from, rgb_image_queue_, rgb_msg)
      /\ StreamOK("pcd", pcd_from, pcd_queue_, pcd_msg)
  BY BothStreams
<1>2. ASSUME NEW i \in 1 .. Len(rgb_image_queue_)
      PROVE  /\ rgb_from[i] \in Nat /\ rgb_image_queue_[i] \in Nat
             /\ 1 <= rgb_from[i] /\ rgb_from[i] <= session
  <2>1. rgb_from[i] \in Nat /\ rgb_image_queue_[i] \in Nat /\ session \in Nat
    BY <1>1, StreamElements DEF StreamOK
  <2>2. Settled("rgb", rgb_from[i], rgb_image_queue_[i])
    BY DEF SessionsInv, StreamInv, QueueOrder
  <2>q. QED
    BY <2>1, <2>2 DEF Settled
<1>3. ASSUME NEW i \in 1 .. Len(pcd_queue_)
      PROVE  /\ pcd_from[i] \in Nat /\ pcd_queue_[i] \in Nat
             /\ 1 <= pcd_from[i] /\ pcd_from[i] <= session
  <2>1. pcd_from[i] \in Nat /\ pcd_queue_[i] \in Nat /\ session \in Nat
    BY <1>1, StreamElements DEF StreamOK
  <2>2. Settled("pcd", pcd_from[i], pcd_queue_[i])
    BY DEF SessionsInv, StreamInv, QueueOrder
  <2>q. QED
    BY <2>1, <2>2 DEF Settled
<1>4. \A s \in Streams : call[s].at # "none" =>
        /\ call[s].from \in Nat /\ call[s].stamp \in Nat
        /\ 1 <= call[s].from /\ call[s].from <= session
  BY <1>1 DEF SessionsInv, CallInv, StreamOK, Streams
<1>5. pc \in {"decide", "render"} =>
        /\ msg_from["rgb"] \in Nat /\ rgb_msg \in Nat
        /\ 1 <= msg_from["rgb"] /\ msg_from["rgb"] <= session
        /\ msg_from["pcd"] \in Nat /\ pcd_msg \in Nat
        /\ 1 <= msg_from["pcd"] /\ msg_from["pcd"] <= session
  <2>1. /\ msg_from["rgb"] \in Nat /\ rgb_msg \in Nat /\ session \in Nat
        /\ msg_from["pcd"] \in Nat /\ pcd_msg \in Nat
    BY <1>1 DEF StreamOK
  <2>2. pc \in {"decide", "render"} =>
          Settled("rgb", msg_from["rgb"], rgb_msg) /\ Settled("pcd", msg_from["pcd"], pcd_msg)
    BY DEF SessionsInv, StreamInv, CopyOrder
  <2>q. QED
    BY <2>1, <2>2 DEF Settled
<1> DEFINE Good(x) == x \in Nat \X Nat /\ 1 <= x[1] /\ x[1] <= session
<1>6. \A i \in 1 .. Len(rgb_image_queue_) : Good(<<rgb_from[i], rgb_image_queue_[i]>>)
  BY <1>2
<1>7. \A i \in 1 .. Len(pcd_queue_) : Good(<<pcd_from[i], pcd_queue_[i]>>)
  BY <1>3
<1>8. \A s \in Streams : call[s].at # "none" => Good(<<call[s].from, call[s].stamp>>)
  BY <1>4
<1>9. pc \in {"decide", "render"} =>
        Good(<<msg_from["rgb"], rgb_msg>>) /\ Good(<<msg_from["pcd"], pcd_msg>>)
  BY <1>5
<1> HIDE DEF Good
<1>10. ASSUME NEW x \in Items
       PROVE  Good(x)
  <2>1. CASE x \in {<<rgb_from[i], rgb_image_queue_[i]>> : i \in 1 .. Len(rgb_image_queue_)}
    BY <1>6, <2>1
  <2>2. CASE x \in {<<pcd_from[i], pcd_queue_[i]>> : i \in 1 .. Len(pcd_queue_)}
    BY <1>7, <2>2
  <2>3. CASE x \in {<<call[s].from, call[s].stamp>> : s \in {t \in Streams : call[t].at # "none"}}
    BY <1>8, <2>3
  <2>4. CASE x \in IF pc \in {"decide", "render"}
                     THEN {<<msg_from["rgb"], rgb_msg>>, <<msg_from["pcd"], pcd_msg>>} ELSE {}
    BY <1>9, <2>4
  <2>q. QED
    BY <2>1, <2>2, <2>3, <2>4 DEF Items
<1>q. QED
  BY <1>10 DEF Good

\* Nothing new can be rendered, and the clock stays.
LEMMA GapSubset ==
    ASSUME GapInv, Items' \subseteq Items,
           session' = session, clock' = clock, restarted' = restarted
    PROVE  GapInv'
  BY DEF GapInv, Newest

\* The queues and what is rendered stay, and no front is copied.
Quiet ==
    /\ UNCHANGED <<rgb_image_queue_, pcd_queue_, rgb_msg, pcd_msg, rgb_seen, pcd_seen, rendered,
                   evicted, rgb_from, pcd_from, msg_from, pairs>>
    /\ NoCopy

\* The steps that copy and render nothing keep the types.
LEMMA QuietTypes ==
    ASSUME SessionsTypeOK, Quiet
    PROVE  /\ TypeOK'
           /\ rgb_from' \in Seq(Nat) /\ Len(rgb_from') = Len(rgb_image_queue_')
           /\ pcd_from' \in Seq(Nat) /\ Len(pcd_from') = Len(pcd_queue_')
           /\ msg_from' \in [Streams -> Nat]
           /\ pairs' \subseteq [rgb : Nat \X Nat, pcd : Nat \X Nat]
<1>1. TypeOK /\ pc' \in {"idle", "look", "decide", "render"}
  BY DEF SessionsTypeOK, TypeOK, Quiet, NoCopy
<1>2. TypeOK'
  BY <1>1 DEF TypeOK, Quiet
<1>q. QED
  BY <1>2 DEF SessionsTypeOK, Quiet

\* A step that leaves both streams alone keeps the invariant if it keeps the
\* parts on the callbacks and on the distance of the sessions.
LEMMA QuietStep ==
    ASSUME SessionsInv, SessionsTypeOK', Quiet, Still("rgb"), Still("pcd"),
           restarted => restarted', \A s \in Streams : CallInv(s)' /\ LateInv(s)', GapInv'
    PROVE  SessionsInv'
<1>1. StreamInv("rgb", rgb_from, rgb_image_queue_, rgb_msg)'
  <2>1. /\ StreamOK("rgb", rgb_from, rgb_image_queue_, rgb_msg)
        /\ StreamInv("rgb", rgb_from, rgb_image_queue_, rgb_msg)
        /\ NoCopy /\ msg_from' = msg_from /\ pairs' = pairs
        /\ rgb_from' = rgb_from /\ rgb_image_queue_' = rgb_image_queue_ /\ rgb_msg' = rgb_msg
    BY BothStreams DEF SessionsInv, Quiet
  <2>q. QED
    BY <2>1, StillStream
<1>2. StreamInv("pcd", pcd_from, pcd_queue_, pcd_msg)'
  <2>1. /\ StreamOK("pcd", pcd_from, pcd_queue_, pcd_msg)
        /\ StreamInv("pcd", pcd_from, pcd_queue_, pcd_msg)
        /\ NoCopy /\ msg_from' = msg_from /\ pairs' = pairs
        /\ pcd_from' = pcd_from /\ pcd_queue_' = pcd_queue_ /\ pcd_msg' = pcd_msg
    BY BothStreams DEF SessionsInv, Quiet
  <2>q. QED
    BY <2>1, StillStream
<1>3. SeenInv'
  BY DEF SessionsInv, SeenInv, Quiet, NoCopy, InRange, time_diff
<1>4. MixesOnlyAfterRestart' /\ RendersInSessionOrder'
  BY DEF SessionsInv, MixesOnlyAfterRestart, RendersInSessionOrder, Quiet, Before
<1>q. QED
  BY <1>1, <1>2, <1>3, <1>4 DEF SessionsInv

-----------------------------------------------------------------------------
(* lidar_device_callback() *)

\* An attach begins a session later than all that was delivered, in sessions if
\* not in stamps.
LEMMA AttachStep == SessionsInv /\ Attach => SessionsInv'
<1> SUFFICES ASSUME SessionsInv, Attach PROVE SessionsInv'
  OBVIOUS
<1>1. /\ SessionsTypeOK /\ session \in Nat /\ clock \in [Streams -> Nat]
      /\ "rgb" \in Streams /\ "pcd" \in Streams /\ MaxTimeDiff \in Nat
  BY TimeAssumption DEF SessionsInv, SessionsTypeOK, Streams
<1>2. /\ session' = session + 1 /\ fresh' = [s \in Streams |-> 0] /\ call' = call /\ late' = late
      /\ deviceConnected' = deviceConnected /\ restarted \in BOOLEAN
      /\ \/ /\ clock' = [s \in Streams |-> IF session = 0 THEN 0 ELSE Newest + MaxTimeDiff]
            /\ restarted' = restarted
         \/ restarted' = TRUE /\ clock' = [s \in Streams |-> 0]
  BY <1>1 DEF Attach, Device!Attach, SessionsTypeOK
<1>3. Newest \in Nat /\ clock["rgb"] <= Newest /\ clock["pcd"] <= Newest
  BY <1>1 DEF Newest
<1>4. Quiet /\ Items' = Items
  BY <1>2 DEF Attach, Device!Attach, Quiet, NoCopy, vars, queues, seen, froms, Items
<1>5. SessionsTypeOK'
  <2>1. clock' \in [Streams -> Nat] /\ fresh' \in [Streams -> 0 .. Cap]
    BY <1>1, <1>2, <1>3, CapAssumption
  <2>2. ev' = "start" /\ UNCHANGED <<deviceConnected, deviceDisconnected, looping, call, late>>
    BY DEF Attach, Device!Attach
  <2>3. restarted' = restarted \/ restarted' = TRUE
    BY <1>2
  <2>4. restarted \in BOOLEAN
    BY <1>2
  <2>5. restarted' \in BOOLEAN
    BY <2>3, <2>4
  <2>6. session' \in Nat
    BY <1>1, <1>2
  <2>q. QED
    BY <1>1, <1>4, <2>1, <2>2, <2>5, <2>6, QuietTypes DEF SessionsTypeOK
<1>6. Still("rgb") /\ Still("pcd")
  <2>1. ASSUME NEW s \in Streams, NEW a \in Nat, NEW m \in Nat, Settled(s, a, m)
        PROVE  Settled(s, a, m)'
    <3>1. a < session + 1
      BY <1>1, <2>1 DEF Settled
    <3>q. QED
      BY <1>2, <2>1, <3>1 DEF Settled, Prec
  <2>q. QED
    BY <1>1, <1>2, <2>1 DEF Still
<1>7. ASSUME NEW s \in Streams
      PROVE  CallInv(s)' /\ LateInv(s)'
  <2>1. CallInv(s) /\ LateInv(s) /\ call[s].from \in Nat /\ session \in Nat
    BY CallTypes DEF SessionsInv
  <2>q. QED
    BY <1>2, <2>1 DEF CallInv, LateInv
<1>8. GapInv'
  <2> SUFFICES ASSUME ~restarted'
               PROVE  /\ \A x, y \in Items : x[1] < y[1] => x[2] + MaxTimeDiff < y[2]
                      /\ \A x \in Items :
                            /\ x[1] = session' => x[2] <= Newest'
                            /\ x[1] < session' => \A s \in Streams : x[2] + MaxTimeDiff <= clock'[s]
    BY <1>4 DEF GapInv
  <2>1. GapInv /\ ~restarted
    BY <1>2 DEF SessionsInv
  <2>2. ASSUME NEW x \in Items
        PROVE  /\ x[1] # session'
               /\ \A s \in Streams : x[2] + MaxTimeDiff <= clock'[s]
    <3>1. x \in Nat \X Nat /\ 1 <= x[1] /\ x[1] <= session
      BY ItemRange
    <3>2. x[2] <= Newest
      <4>1. CASE x[1] = session
        BY <2>1, <4>1 DEF GapInv
      <4>2. CASE x[1] # session
        <5>1. x[2] + MaxTimeDiff <= clock["rgb"]
          BY <1>1, <2>1, <3>1, <4>2 DEF GapInv
        <5>q. QED
          BY <1>1, <1>3, <3>1, <5>1
      <4>q. QED
        BY <4>1, <4>2
    <3>3. \A s \in Streams : clock'[s] = Newest + MaxTimeDiff
      BY <1>1, <1>2, <3>1
    <3>q. QED
      BY <1>1, <1>2, <1>3, <3>1, <3>2, <3>3
  <2>q. QED
    BY <2>1, <2>2 DEF GapInv
<1>q. QED
  BY <1>2, <1>4, <1>5, <1>6, <1>7, <1>8, QuietStep

\* A step that moves a thread or the device, and no message.
ControlStep ==
    /\ Quiet
    /\ UNCHANGED <<clock, session, restarted, call, fresh>>

\* The other steps of the device callback, and of main(), touch no message.
LEMMA ControlStill ==
    ASSUME SessionsInv, ControlStep
    PROVE  /\ Still("rgb") /\ Still("pcd") /\ GapInv' /\ (restarted => restarted')
           /\ \A s \in Streams : CallInv(s)'
<1>1. Still("rgb") /\ Still("pcd")
  BY DEF ControlStep, Still, Settled, Prec
<1>2. Items' \subseteq Items
  BY DEF ControlStep, Quiet, NoCopy, Items
<1>3. GapInv'
  BY <1>2, GapSubset DEF SessionsInv, ControlStep
<1>4. \A s \in Streams : CallInv(s)'
  BY DEF SessionsInv, ControlStep, CallInv
<1>5. restarted => restarted'
  BY DEF ControlStep
<1>q. QED
  BY <1>1, <1>3, <1>4, <1>5

\* The gate opens: late messages are counted anew.
LEMMA SetConnectedStep == SessionsInv /\ SetConnected => SessionsInv'
<1> SUFFICES ASSUME SessionsInv, SetConnected PROVE SessionsInv'
  OBVIOUS
<1>1. SessionsTypeOK
  BY DEF SessionsInv
<1>2. ControlStep
  BY DEF SetConnected, Device!SetConnected, ControlStep, Quiet, NoCopy, vars, queues, seen, froms
<1>3. SessionsTypeOK'
  <2>1. ev' = "reset" /\ deviceConnected' = TRUE /\ late' = [s \in Streams |-> 0]
    BY DEF SetConnected, Device!SetConnected
  <2>2. UNCHANGED <<deviceDisconnected, looping, call, clock, session, restarted, fresh>>
    BY DEF SetConnected, Device!SetConnected
  <2>q. QED
    BY <1>1, <1>2, <2>1, <2>2, QuietTypes DEF ControlStep, SessionsTypeOK
<1>4. \A s \in Streams : LateInv(s)'
  BY DEF SetConnected, Device!SetConnected, LateInv
<1>q. QED
  BY <1>2, <1>3, <1>4, ControlStill, QuietStep DEF ControlStep

\* The flag of the main loop has no part in the invariant.
LEMMA ResetDisconnectedStep == SessionsInv /\ ResetDisconnected => SessionsInv'
<1> SUFFICES ASSUME SessionsInv, ResetDisconnected PROVE SessionsInv'
  OBVIOUS
<1>1. SessionsTypeOK
  BY DEF SessionsInv
<1>2. ControlStep
  BY DEF ResetDisconnected, Device!ResetDisconnected, ControlStep, Quiet, NoCopy, vars, queues, seen, froms, counts
<1>3. SessionsTypeOK'
  <2>1. ev' = "attached" /\ deviceDisconnected' = FALSE
    BY DEF ResetDisconnected, Device!ResetDisconnected
  <2>2. UNCHANGED <<deviceConnected, looping, call, clock, session, restarted, fresh, late>>
    BY DEF ResetDisconnected, Device!ResetDisconnected, counts
  <2>q. QED
    BY <1>1, <1>2, <2>1, <2>2, QuietTypes DEF ControlStep, SessionsTypeOK
<1>4. \A s \in Streams : LateInv(s)'
  BY DEF SessionsInv, ResetDisconnected, Device!ResetDisconnected, counts, LateInv
<1>q. QED
  BY <1>2, <1>3, <1>4, ControlStill, QuietStep DEF ControlStep

\* The gate closes: no callback is late yet that has not passed it.
LEMMA BeginDetachStep == SessionsInv /\ BeginDetach => SessionsInv'
<1> SUFFICES ASSUME SessionsInv, BeginDetach PROVE SessionsInv'
  OBVIOUS
<1>1. SessionsTypeOK
  BY DEF SessionsInv
<1>2. ControlStep
  BY DEF BeginDetach, Device!BeginDetach, ControlStep, Quiet, NoCopy, vars, queues, seen, froms, counts
<1>3. SessionsTypeOK'
  <2>1. ev' = "detach" /\ deviceConnected' = FALSE
    BY DEF BeginDetach, Device!BeginDetach
  <2>2. UNCHANGED <<deviceDisconnected, looping, call, clock, session, restarted, fresh, late>>
    BY DEF BeginDetach, Device!BeginDetach, counts
  <2>q. QED
    BY <1>1, <1>2, <2>1, <2>2, QuietTypes DEF ControlStep, SessionsTypeOK
<1>4. \A s \in Streams : LateInv(s)'
  BY DEF SessionsInv, BeginDetach, Device!BeginDetach, counts, LateInv
<1>q. QED
  BY <1>2, <1>3, <1>4, ControlStill, QuietStep DEF ControlStep

\* clear_all_queues() clears nothing.
LEMMA EndDetachStep == SessionsInv /\ EndDetach => SessionsInv'
<1> SUFFICES ASSUME SessionsInv, EndDetach PROVE SessionsInv'
  OBVIOUS
<1>1. SessionsTypeOK
  BY DEF SessionsInv
<1>2. ControlStep
  BY DEF EndDetach, Device!EndDetach, ControlStep, Quiet, NoCopy, vars, queues, seen, froms, counts
<1>3. SessionsTypeOK'
  <2>1. ev' = "detached" /\ deviceDisconnected' = TRUE
    BY DEF EndDetach, Device!EndDetach
  <2>2. UNCHANGED <<deviceConnected, looping, call, clock, session, restarted, fresh, late>>
    BY DEF EndDetach, Device!EndDetach, counts
  <2>q. QED
    BY <1>1, <1>2, <2>1, <2>2, QuietTypes DEF ControlStep, SessionsTypeOK
<1>4. \A s \in Streams : LateInv(s)'
  BY DEF SessionsInv, EndDetach, Device!EndDetach, counts, LateInv
<1>q. QED
  BY <1>2, <1>3, <1>4, ControlStill, QuietStep DEF ControlStep

-----------------------------------------------------------------------------
(* main(), where it moves no message *)

\* main() enters its loop.
LEMMA DeviceFoundStep == SessionsInv /\ DeviceFound => SessionsInv'
<1> SUFFICES ASSUME SessionsInv, DeviceFound PROVE SessionsInv'
  OBVIOUS
<1>1. SessionsTypeOK
  BY DEF SessionsInv
<1>2. ControlStep
  BY DEF DeviceFound, ControlStep, Quiet, NoCopy, vars, queues, seen, froms, device, counts
<1>3. SessionsTypeOK'
  <2>1. looping' = TRUE
    BY DEF DeviceFound
  <2>2. UNCHANGED <<ev, deviceConnected, deviceDisconnected, call, clock, session, restarted,
                    fresh, late>>
    BY DEF DeviceFound, device, counts
  <2>q. QED
    BY <1>1, <1>2, <2>1, <2>2, QuietTypes DEF ControlStep, SessionsTypeOK
<1>4. \A s \in Streams : LateInv(s)'
  BY DEF SessionsInv, DeviceFound, device, counts, LateInv
<1>q. QED
  BY <1>2, <1>3, <1>4, ControlStill, QuietStep DEF ControlStep

\* try_process_pair() begins and returns.
LEMMA CallStep == SessionsInv /\ (BeginCall \/ ReturnFromCall) => SessionsInv'
<1> SUFFICES ASSUME SessionsInv, BeginCall \/ ReturnFromCall PROVE SessionsInv'
  OBVIOUS
<1>1. SessionsTypeOK
  BY DEF SessionsInv
<1>2. UNCHANGED <<ev, deviceConnected, deviceDisconnected, looping, call, clock, session, restarted,
                  fresh, late, froms, msg_from, pairs>>
  BY DEF BeginCall, ReturnFromCall, device, counts
<1>3. ControlStep
  <2>1. UNCHANGED <<queues, rgb_msg, pcd_msg, seen, rendered, evicted>> /\ pc' \in {"idle", "look"}
    BY DEF BeginCall, ReturnFromCall, Call, Return
  <2>q. QED
    BY <1>2, <2>1 DEF ControlStep, Quiet, NoCopy, queues, seen, froms
<1>4. SessionsTypeOK'
  BY <1>1, <1>2, <1>3, QuietTypes DEF ControlStep, SessionsTypeOK
<1>5. \A s \in Streams : LateInv(s)'
  BY <1>2 DEF SessionsInv, LateInv
<1>q. QED
  BY <1>3, <1>4, <1>5, ControlStill, QuietStep DEF ControlStep

-----------------------------------------------------------------------------
(* lidar_data_callback() *)

\* A callback passes the gate, or ends there.
LEMMA GateStep == ASSUME NEW t \in Streams PROVE SessionsInv /\ Gate(t) => SessionsInv'
<1> SUFFICES ASSUME SessionsInv, Gate(t) PROVE SessionsInv'
  OBVIOUS
<1>1. SessionsTypeOK
  BY DEF SessionsInv
<1>2. /\ Quiet
      /\ UNCHANGED <<ev, deviceConnected, deviceDisconnected, looping, clock, session, restarted,
                     fresh, late, pc>>
  BY DEF Gate, Quiet, NoCopy, vars, queues, seen, froms, device, counts
<1>3. /\ call[t].at = "gate"
      /\ call' = [call EXCEPT ![t] = IF deviceConnected THEN [call[t] EXCEPT !.at = "push"]
                                                        ELSE NoCall]
      /\ call \in [Streams -> [at : {"none", "gate", "push"}, stamp : Nat, from : Nat]]
  BY <1>1 DEF Gate, SessionsTypeOK
<1>4. \A s \in Streams :
        \/ call'[s] = call[s]
        \/ call'[s].at = "none"
        \/ /\ call[s].at = "gate" /\ call'[s].at = "push" /\ deviceConnected
           /\ call'[s].from = call[s].from /\ call'[s].stamp = call[s].stamp
  BY <1>3 DEF NoCall
<1>5. SessionsTypeOK'
  <2>1. call' \in [Streams -> [at : {"none", "gate", "push"}, stamp : Nat, from : Nat]]
    BY <1>3 DEF NoCall
  <2>q. QED
    BY <1>1, <1>2, <2>1, QuietTypes DEF SessionsTypeOK
<1>6. Still("rgb") /\ Still("pcd")
  <2>1. ASSUME NEW s \in Streams, NEW a \in Nat, NEW m \in Nat, Settled(s, a, m)
        PROVE  Settled(s, a, m)'
    BY <1>2, <1>4, <2>1 DEF Settled, Prec
  <2>q. QED
    BY <1>2, <2>1 DEF Still, Streams
<1>7. \A s \in Streams : CallInv(s)' /\ LateInv(s)'
  BY <1>2, <1>4 DEF SessionsInv, CallInv, LateInv
<1>8. GapInv'
  <2>1. ASSUME NEW s \in Streams, call'[s].at # "none"
        PROVE  /\ call[s].at # "none"
               /\ <<call'[s].from, call'[s].stamp>> = <<call[s].from, call[s].stamp>>
    BY <1>4, <2>1
  <2>2. Items' \subseteq Items
    BY <1>2, <2>1 DEF Items, Quiet
  <2>q. QED
    BY <1>2, <2>2, GapSubset DEF SessionsInv
<1>q. QED
  BY <1>2, <1>5, <1>6, <1>7, <1>8, QuietStep

\* A message is delivered with a newer stamp than the session's last.
LEMMA DeliverStep == ASSUME NEW t \in Streams PROVE SessionsInv /\ Deliver(t) => SessionsInv'
<1> SUFFICES ASSUME SessionsInv, Deliver(t) PROVE SessionsInv'
  OBVIOUS
<1>1. SessionsTypeOK
  BY DEF SessionsInv
<1>2. /\ Quiet
      /\ UNCHANGED <<ev, deviceConnected, deviceDisconnected, looping, session, restarted,
                     fresh, late, pc>>
      /\ session > 0 /\ session \in Nat /\ call[t].at = "none"
  BY <1>1 DEF Deliver, Quiet, NoCopy, vars, queues, seen, froms, counts, SessionsTypeOK
<1>3. PICK m \in clock[t] + 1 .. MaxStamp :
        /\ clock' = [clock EXCEPT ![t] = m]
        /\ call' = [call EXCEPT ![t] = [at |-> "gate", stamp |-> m, from |-> session]]
  BY DEF Deliver
<1>4. m \in Nat /\ clock[t] < m /\ clock[t] \in Nat
  BY <1>1, TimeAssumption DEF SessionsTypeOK
<1>5. SessionsTypeOK'
  <2>1. clock' \in [Streams -> Nat]
    BY <1>1, <1>3, <1>4 DEF SessionsTypeOK
  <2>2. call' \in [Streams -> [at : {"none", "gate", "push"}, stamp : Nat, from : Nat]]
    BY <1>1, <1>2, <1>3, <1>4 DEF SessionsTypeOK
  <2>q. QED
    BY <1>1, <1>2, <2>1, <2>2, QuietTypes DEF SessionsTypeOK
<1>6. /\ clock \in [Streams -> Nat]
      /\ call \in [Streams -> [at : {"none", "gate", "push"}, stamp : Nat, from : Nat]]
  BY <1>1 DEF SessionsTypeOK
<1>7. \A s \in Streams :
        \/ /\ s # t /\ call'[s] = call[s] /\ clock'[s] = clock[s]
        \/ /\ s = t /\ clock'[s] = m
           /\ call'[s].at = "gate" /\ call'[s].from = session /\ call'[s].stamp = m
  BY <1>3, <1>6
<1>8. Still("rgb") /\ Still("pcd")
  <2>1. ASSUME NEW s \in Streams, NEW a \in Nat, NEW n \in Nat, Settled(s, a, n)
        PROVE  Settled(s, a, n)'
    <3>1. CASE s # t
      BY <1>2, <1>7, <2>1, <3>1 DEF Settled, Prec
    <3>2. CASE s = t
      <4>1. /\ 1 <= a /\ (a < session \/ (a = session /\ n <= clock[t]))
        BY <2>1, <3>2 DEF Settled
      <4>2. Prec(a, n, session, m) /\ (a = session => n <= m)
        BY <1>4, <4>1 DEF Prec
      <4>q. QED
        BY <1>2, <1>7, <3>2, <4>1, <4>2 DEF Settled, Prec
    <3>q. QED
      BY <3>1, <3>2
  <2>q. QED
    BY <1>2, <2>1 DEF Still, Streams
<1>9. ASSUME NEW s \in Streams
      PROVE  CallInv(s)' /\ LateInv(s)'
  <2>1. CASE s # t
    BY <1>2, <1>7, <2>1 DEF SessionsInv, CallInv, LateInv
  <2>2. CASE s = t
    <3>1. CallInv(s)'
      BY <1>2, <1>4, <1>7, <2>2 DEF CallInv
    <3>2. LateInv(s)'
      BY <1>2, <1>7, <2>2 DEF SessionsInv, LateInv
    <3>q. QED
      BY <3>1, <3>2
  <2>q. QED
    BY <2>1, <2>2
<1>10. GapInv'
  <2> SUFFICES ASSUME ~restarted'
               PROVE  /\ \A x, y \in Items' : x[1] < y[1] => x[2] + MaxTimeDiff < y[2]
                      /\ \A x \in Items' :
                            /\ x[1] = session => x[2] <= Newest'
                            /\ x[1] < session =>
                                  \A s \in Streams : x[2] + MaxTimeDiff <= clock'[s]
    BY <1>2 DEF GapInv
  <2>1. GapInv /\ ~restarted
    BY <1>2 DEF SessionsInv
  <2>2. \A x \in Items' : x \in Items \/ x = <<session, m>>
    BY <1>2, <1>7 DEF Items, Quiet
  <2>3. \A x \in Items : x \in Nat \X Nat /\ x[1] <= session
    BY ItemRange
  <2>4. /\ Newest <= Newest' /\ m <= Newest' /\ Newest \in Nat /\ Newest' \in Nat
        /\ \A s \in Streams : clock[s] <= clock'[s] /\ clock[s] \in Nat /\ clock'[s] \in Nat
    BY <1>4, <1>6, <1>7 DEF Newest, Streams
  <2>5. ASSUME NEW x \in Items
        PROVE  /\ x[1] = session => x[2] <= Newest'
               /\ x[1] < session => \A s \in Streams : x[2] + MaxTimeDiff <= clock'[s]
               /\ x[1] < session => x[2] + MaxTimeDiff < m
    <3>1. /\ x[2] \in Nat /\ MaxTimeDiff \in Nat
          /\ x[1] = session => x[2] <= Newest
          /\ x[1] < session => \A s \in Streams : x[2] + MaxTimeDiff <= clock[s]
      BY <2>1, <2>3, TimeAssumption DEF GapInv
    <3>q. QED
      BY <1>4, <2>4, <3>1
  <2>6. ASSUME NEW x \in Items', NEW y \in Items', x[1] < y[1]
        PROVE  x[2] + MaxTimeDiff < y[2]
    <3>1. CASE x \in Items /\ y \in Items
      BY <2>1, <2>6, <3>1 DEF GapInv
    <3>2. CASE x \in Items /\ y = <<session, m>>
      BY <2>5, <2>6, <3>2
    <3>3. CASE x = <<session, m>>
      BY <1>2, <2>2, <2>3, <2>6, <3>3
    <3>q. QED
      BY <2>2, <3>1, <3>2, <3>3
  <2>7. ASSUME NEW x \in Items'
        PROVE  /\ x[1] = session => x[2] <= Newest'
               /\ x[1] < session => \A s \in Streams : x[2] + MaxTimeDiff <= clock'[s]
    <3>1. CASE x \in Items
      BY <2>5, <3>1
    <3>2. CASE x = <<session, m>>
      BY <1>2, <2>4, <3>2
    <3>q. QED
      BY <2>2, <3>1, <3>2
  <2>q. QED
    BY <2>6, <2>7
<1>q. QED
  BY <1>2, <1>5, <1>8, <1>9, <1>10, QuietStep

\* What a push counts, and that it leaves the other stream alone.
LEMMA CountPushStep ==
    ASSUME SessionsInv, NEW t \in Streams, call[t].at = "push", CountPush(t)
    PROVE  /\ call' \in [Streams -> [at : {"none", "gate", "push"}, stamp : Nat, from : Nat]]
           /\ fresh' \in [Streams -> 0 .. Cap] /\ late' \in [Streams -> Nat]
           /\ \A u \in Streams : u # t => Still(u)
           /\ \A s \in Streams : CallInv(s)' /\ LateInv(s)'
           /\ \A s \in Streams : call'[s].at = "none" \/ call'[s] = call[s]
<1>1. /\ call \in [Streams -> [at : {"none", "gate", "push"}, stamp : Nat, from : Nat]]
      /\ fresh \in [Streams -> 0 .. Cap] /\ late \in [Streams -> Nat] /\ Cap \in Nat
  BY CapAssumption DEF SessionsInv, SessionsTypeOK
<1>2. /\ fresh' = [fresh EXCEPT ![t] =
                     IF call[t].from = session /\ fresh[t] < Cap THEN fresh[t] + 1 ELSE fresh[t]]
      /\ late' = [late EXCEPT ![t] = IF deviceConnected THEN late[t] ELSE late[t] + 1]
      /\ call' = [call EXCEPT ![t] = NoCall]
      /\ UNCHANGED <<session, clock, deviceConnected>>
  BY DEF CountPush, device
<1>3. call' \in [Streams -> [at : {"none", "gate", "push"}, stamp : Nat, from : Nat]]
  BY <1>1, <1>2 DEF NoCall
<1>4. fresh' \in [Streams -> 0 .. Cap] /\ late' \in [Streams -> Nat]
  BY <1>1, <1>2
<1>5. \A s \in Streams : s # t =>
        call'[s] = call[s] /\ fresh'[s] = fresh[s] /\ late'[s] = late[s]
  BY <1>1, <1>2
<1>6. /\ call'[t].at = "none"
      /\ late'[t] = IF deviceConnected THEN late[t] ELSE late[t] + 1
  BY <1>1, <1>2 DEF NoCall
<1>7. \A u \in Streams : u # t => Still(u)
  BY <1>2, <1>5 DEF Still, Settled, Prec
<1>8. ASSUME NEW s \in Streams
      PROVE  CallInv(s)' /\ LateInv(s)'
  <2>1. CASE s # t
    BY <1>2, <1>5, <2>1 DEF SessionsInv, CallInv, LateInv
  <2>2. CASE s = t
    <3>1. CallInv(s)'
      BY <1>6, <2>2 DEF CallInv
    <3>2. LateInv(s)'
      BY <1>2, <1>6, <2>2 DEF SessionsInv, LateInv
    <3>q. QED
      BY <3>1, <3>2
  <2>q. QED
    BY <2>1, <2>2
<1>9. \A s \in Streams : call'[s].at = "none" \/ call'[s] = call[s]
  BY <1>5, <1>6
<1>q. QED
  BY <1>3, <1>4, <1>7, <1>8, <1>9

\* publishRgb() pushes.
LEMMA PushRgbStep == SessionsInv /\ PushRgb => SessionsInv'
<1> SUFFICES ASSUME SessionsInv, PushRgb PROVE SessionsInv'
  OBVIOUS
<1>1. SessionsTypeOK /\ TypeOK
  BY DEF SessionsInv, SessionsTypeOK
<1>2. /\ call["rgb"].at = "push" /\ CountPush("rgb") /\ pc' = pc
      /\ rgb_image_queue_' = Push(rgb_image_queue_, call["rgb"].stamp)
      /\ rgb_from' = Push(rgb_from, call["rgb"].from)
      /\ rgb_seen' = rgb_seen \cup {call["rgb"].stamp}
      /\ UNCHANGED <<pcd_queue_, pcd_from, pcd_seen, rgb_msg, pcd_msg, rendered>>
      /\ UNCHANGED <<ev, deviceConnected, deviceDisconnected, clock, session, restarted, looping,
                     msg_from, pairs>>
  BY DEF PushRgb, CountPush, device
<1>e. evicted' \in BOOLEAN
  BY <1>1 DEF PushRgb, TypeOK
<1>3. /\ call' \in [Streams -> [at : {"none", "gate", "push"}, stamp : Nat, from : Nat]]
      /\ fresh' \in [Streams -> 0 .. Cap] /\ late' \in [Streams -> Nat]
      /\ Still("pcd") /\ \A s \in Streams : CallInv(s)' /\ LateInv(s)'
      /\ \A s \in Streams : call'[s].at = "none" \/ call'[s] = call[s]
  BY <1>2, CountPushStep DEF Streams
<1>4. /\ StreamInv("rgb", rgb_from, rgb_image_queue_, rgb_msg)'
      /\ rgb_from' \in Seq(Nat) /\ rgb_image_queue_' \in Seq(Nat)
      /\ Len(rgb_from') = Len(rgb_image_queue_') /\ Len(rgb_image_queue_') <= Cap
      /\ \A i \in 1 .. Len(rgb_image_queue_') :
            \/ rgb_from'[i] = call["rgb"].from /\ rgb_image_queue_'[i] = call["rgb"].stamp
            \/ \E j \in 1 .. Len(rgb_image_queue_) :
                  rgb_from'[i] = rgb_from[j] /\ rgb_image_queue_'[i] = rgb_image_queue_[j]
  <2>1. /\ StreamOK("rgb", rgb_from, rgb_image_queue_, rgb_msg)
        /\ StreamInv("rgb", rgb_from, rgb_image_queue_, rgb_msg)
        /\ "rgb" \in Streams /\ CallInv("rgb")
        /\ call \in [Streams -> [at : {"none", "gate", "push"}, stamp : Nat, from : Nat]]
        /\ fresh \in [Streams -> 0 .. Cap]
    BY <1>1, BothStreams DEF SessionsInv, SessionsTypeOK, Streams
  <2>2. /\ rgb_msg' = rgb_msg /\ pc' = pc /\ msg_from' = msg_from /\ pairs' = pairs
        /\ call["rgb"].at = "push" /\ CountPush("rgb")
        /\ rgb_image_queue_' = Push(rgb_image_queue_, call["rgb"].stamp)
        /\ rgb_from' = Push(rgb_from, call["rgb"].from)
    BY <1>2
  <2>q. QED
    BY <2>1, <2>2, PushStream, SMTT(60)
<1>5. StreamInv("pcd", pcd_from, pcd_queue_, pcd_msg)'
  <2>1. /\ StreamOK("pcd", pcd_from, pcd_queue_, pcd_msg)
        /\ StreamInv("pcd", pcd_from, pcd_queue_, pcd_msg)
    BY BothStreams DEF SessionsInv
  <2>2. /\ pcd_from' = pcd_from /\ pcd_queue_' = pcd_queue_ /\ pcd_msg' = pcd_msg
        /\ NoCopy /\ msg_from' = msg_from /\ pairs' = pairs
    BY <1>2 DEF NoCopy
  <2>q. QED
    BY <1>3, <2>1, <2>2, StillStream
<1>6. SessionsTypeOK'
  <2>1. TypeOK'
    <3>1. rgb_seen' \subseteq Nat /\ rgb_seen \subseteq rgb_seen'
      BY <1>1, <1>2 DEF SessionsTypeOK, TypeOK, Streams
    <3>2. rendered' \subseteq rgb_seen' \X pcd_seen'
      BY <1>1, <1>2, <3>1 DEF TypeOK
    <3>q. QED
      BY <1>1, <1>2, <1>e, <1>4, <3>1, <3>2 DEF TypeOK
  <2>q. QED
    BY <1>1, <1>2, <1>3, <1>4, <2>1 DEF SessionsTypeOK
<1>7. SeenInv'
  <2>1. \A i \in 1 .. Len(rgb_image_queue_') : rgb_image_queue_'[i] \in rgb_seen'
    BY <1>2, <1>4 DEF SessionsInv, SeenInv
  <2>q. QED
    BY <1>2, <2>1 DEF SessionsInv, SeenInv, InRange, time_diff
<1>8. GapInv'
  <2>1. ASSUME NEW i \in 1 .. Len(rgb_image_queue_')
        PROVE  <<rgb_from'[i], rgb_image_queue_'[i]>> \in Items
    <3>1. CASE rgb_from'[i] = call["rgb"].from /\ rgb_image_queue_'[i] = call["rgb"].stamp
      BY <1>2, <3>1 DEF Items, Streams
    <3>2. CASE \E j \in 1 .. Len(rgb_image_queue_) : rgb_from'[i] = rgb_from[j] /\ rgb_image_queue_'[i] = rgb_image_queue_[j]
      BY <3>2 DEF Items
    <3>q. QED
      BY <1>4, <3>1, <3>2
  <2>2. \A s \in Streams : call'[s].at # "none" =>
          /\ call[s].at # "none"
          /\ <<call'[s].from, call'[s].stamp>> = <<call[s].from, call[s].stamp>>
    BY <1>3
  <2>3. Items' \subseteq Items
    <3> SUFFICES ASSUME NEW x \in Items' PROVE x \in Items
      OBVIOUS
    <3>1. CASE x \in {<<rgb_from'[i], rgb_image_queue_'[i]>> : i \in 1 .. Len(rgb_image_queue_')}
      BY <2>1, <3>1
    <3>2. CASE x \in {<<pcd_from'[i], pcd_queue_'[i]>> : i \in 1 .. Len(pcd_queue_')}
      BY <1>2, <3>2 DEF Items
    <3>3. CASE x \in {<<call'[s].from, call'[s].stamp>> : s \in {t \in Streams : call'[t].at # "none"}}
      BY <2>2, <3>3 DEF Items
    <3>4. CASE x \in IF pc' \in {"decide", "render"}
                       THEN {<<msg_from'["rgb"], rgb_msg'>>, <<msg_from'["pcd"], pcd_msg'>>} ELSE {}
      BY <1>2, <3>4 DEF Items
    <3>q. QED
      BY <3>1, <3>2, <3>3, <3>4 DEF Items
  <2>q. QED
    BY <1>2, <2>3, GapSubset DEF SessionsInv
<1>9. MixesOnlyAfterRestart' /\ RendersInSessionOrder'
  BY <1>2 DEF SessionsInv, MixesOnlyAfterRestart, RendersInSessionOrder, Before
<1>q. QED
  BY <1>3, <1>4, <1>5, <1>6, <1>7, <1>8, <1>9 DEF SessionsInv

\* publishIntensityCloud() pushes.
LEMMA PushCloudStep == SessionsInv /\ PushCloud => SessionsInv'
<1> SUFFICES ASSUME SessionsInv, PushCloud PROVE SessionsInv'
  OBVIOUS
<1>1. SessionsTypeOK /\ TypeOK
  BY DEF SessionsInv, SessionsTypeOK
<1>2. /\ call["pcd"].at = "push" /\ CountPush("pcd") /\ pc' = pc
      /\ pcd_queue_' = Push(pcd_queue_, call["pcd"].stamp)
      /\ pcd_from' = Push(pcd_from, call["pcd"].from)
      /\ pcd_seen' = pcd_seen \cup {call["pcd"].stamp}
      /\ UNCHANGED <<rgb_image_queue_, rgb_from, rgb_seen, rgb_msg, pcd_msg, rendered>>
      /\ UNCHANGED <<ev, deviceConnected, deviceDisconnected, clock, session, restarted, looping,
                     msg_from, pairs>>
  BY DEF PushCloud, CountPush, device
<1>e. evicted' \in BOOLEAN
  BY <1>1 DEF PushCloud, TypeOK
<1>3. /\ call' \in [Streams -> [at : {"none", "gate", "push"}, stamp : Nat, from : Nat]]
      /\ fresh' \in [Streams -> 0 .. Cap] /\ late' \in [Streams -> Nat]
      /\ Still("rgb") /\ \A s \in Streams : CallInv(s)' /\ LateInv(s)'
      /\ \A s \in Streams : call'[s].at = "none" \/ call'[s] = call[s]
  BY <1>2, CountPushStep DEF Streams
<1>4. /\ StreamInv("pcd", pcd_from, pcd_queue_, pcd_msg)'
      /\ pcd_from' \in Seq(Nat) /\ pcd_queue_' \in Seq(Nat)
      /\ Len(pcd_from') = Len(pcd_queue_') /\ Len(pcd_queue_') <= Cap
      /\ \A i \in 1 .. Len(pcd_queue_') :
            \/ pcd_from'[i] = call["pcd"].from /\ pcd_queue_'[i] = call["pcd"].stamp
            \/ \E j \in 1 .. Len(pcd_queue_) :
                  pcd_from'[i] = pcd_from[j] /\ pcd_queue_'[i] = pcd_queue_[j]
  <2>1. /\ StreamOK("pcd", pcd_from, pcd_queue_, pcd_msg)
        /\ StreamInv("pcd", pcd_from, pcd_queue_, pcd_msg)
        /\ "pcd" \in Streams /\ CallInv("pcd")
        /\ call \in [Streams -> [at : {"none", "gate", "push"}, stamp : Nat, from : Nat]]
        /\ fresh \in [Streams -> 0 .. Cap]
    BY <1>1, BothStreams DEF SessionsInv, SessionsTypeOK, Streams
  <2>2. /\ pcd_msg' = pcd_msg /\ pc' = pc /\ msg_from' = msg_from /\ pairs' = pairs
        /\ call["pcd"].at = "push" /\ CountPush("pcd")
        /\ pcd_queue_' = Push(pcd_queue_, call["pcd"].stamp)
        /\ pcd_from' = Push(pcd_from, call["pcd"].from)
    BY <1>2
  <2>q. QED
    BY <2>1, <2>2, PushStream, SMTT(60)
<1>5. StreamInv("rgb", rgb_from, rgb_image_queue_, rgb_msg)'
  <2>1. /\ StreamOK("rgb", rgb_from, rgb_image_queue_, rgb_msg)
        /\ StreamInv("rgb", rgb_from, rgb_image_queue_, rgb_msg)
    BY BothStreams DEF SessionsInv
  <2>2. /\ rgb_from' = rgb_from /\ rgb_image_queue_' = rgb_image_queue_ /\ rgb_msg' = rgb_msg
        /\ NoCopy /\ msg_from' = msg_from /\ pairs' = pairs
    BY <1>2 DEF NoCopy
  <2>q. QED
    BY <1>3, <2>1, <2>2, StillStream
<1>6. SessionsTypeOK'
  <2>1. TypeOK'
    <3>1. pcd_seen' \subseteq Nat /\ pcd_seen \subseteq pcd_seen'
      BY <1>1, <1>2 DEF SessionsTypeOK, TypeOK, Streams
    <3>2. rendered' \subseteq rgb_seen' \X pcd_seen'
      BY <1>1, <1>2, <3>1 DEF TypeOK
    <3>q. QED
      BY <1>1, <1>2, <1>e, <1>4, <3>1, <3>2 DEF TypeOK
  <2>q. QED
    BY <1>1, <1>2, <1>3, <1>4, <2>1 DEF SessionsTypeOK
<1>7. SeenInv'
  <2>1. \A i \in 1 .. Len(pcd_queue_') : pcd_queue_'[i] \in pcd_seen'
    BY <1>2, <1>4 DEF SessionsInv, SeenInv
  <2>q. QED
    BY <1>2, <2>1 DEF SessionsInv, SeenInv, InRange, time_diff
<1>8. GapInv'
  <2>1. ASSUME NEW i \in 1 .. Len(pcd_queue_')
        PROVE  <<pcd_from'[i], pcd_queue_'[i]>> \in Items
    <3>1. CASE pcd_from'[i] = call["pcd"].from /\ pcd_queue_'[i] = call["pcd"].stamp
      BY <1>2, <3>1 DEF Items, Streams
    <3>2. CASE \E j \in 1 .. Len(pcd_queue_) : pcd_from'[i] = pcd_from[j] /\ pcd_queue_'[i] = pcd_queue_[j]
      BY <3>2 DEF Items
    <3>q. QED
      BY <1>4, <3>1, <3>2
  <2>2. \A s \in Streams : call'[s].at # "none" =>
          /\ call[s].at # "none"
          /\ <<call'[s].from, call'[s].stamp>> = <<call[s].from, call[s].stamp>>
    BY <1>3
  <2>3. Items' \subseteq Items
    <3> SUFFICES ASSUME NEW x \in Items' PROVE x \in Items
      OBVIOUS
    <3>1. CASE x \in {<<pcd_from'[i], pcd_queue_'[i]>> : i \in 1 .. Len(pcd_queue_')}
      BY <2>1, <3>1
    <3>2. CASE x \in {<<rgb_from'[i], rgb_image_queue_'[i]>> : i \in 1 .. Len(rgb_image_queue_')}
      BY <1>2, <3>2 DEF Items
    <3>3. CASE x \in {<<call'[s].from, call'[s].stamp>> : s \in {t \in Streams : call'[t].at # "none"}}
      BY <2>2, <3>3 DEF Items
    <3>4. CASE x \in IF pc' \in {"decide", "render"}
                       THEN {<<msg_from'["rgb"], rgb_msg'>>, <<msg_from'["pcd"], pcd_msg'>>} ELSE {}
      BY <1>2, <3>4 DEF Items
    <3>q. QED
      BY <3>1, <3>2, <3>3, <3>4 DEF Items
  <2>q. QED
    BY <1>2, <2>3, GapSubset DEF SessionsInv
<1>9. MixesOnlyAfterRestart' /\ RendersInSessionOrder'
  BY <1>2 DEF SessionsInv, MixesOnlyAfterRestart, RendersInSessionOrder, Before
<1>q. QED
  BY <1>3, <1>4, <1>5, <1>6, <1>7, <1>8, <1>9 DEF SessionsInv

-----------------------------------------------------------------------------
(* main(), in try_process_pair() *)

\* A step of the main loop leaves the callbacks alone.
LEMMA LoopStill ==
    ASSUME SessionsInv,
           UNCHANGED <<deviceConnected, session, clock, call, fresh, late>>
    PROVE  /\ Still("rgb") /\ Still("pcd")
           /\ \A s \in Streams : CallInv(s)' /\ LateInv(s)'
<1>1. Still("rgb") /\ Still("pcd")
  BY DEF Still, Settled, Prec
<1>2. \A s \in Streams : CallInv(s)' /\ LateInv(s)'
  BY DEF SessionsInv, CallInv, LateInv
<1>q. QED
  BY <1>1, <1>2

\* try_process_pair() copies the fronts.
LEMMA CopyFrontsStep == SessionsInv /\ CopyFronts => SessionsInv'
<1> SUFFICES ASSUME SessionsInv, CopyFronts PROVE SessionsInv'
  OBVIOUS
<1>1. SessionsTypeOK /\ TypeOK
  BY DEF SessionsInv, SessionsTypeOK
<1>2. /\ UNCHANGED <<rgb_image_queue_, pcd_queue_, rgb_from, pcd_from, rgb_seen, pcd_seen,
                     rendered, evicted, ev, deviceConnected, deviceDisconnected, clock, session,
                     restarted, looping, call, pairs, fresh, late>>
      /\ rgb_image_queue_ # <<>> /\ pcd_queue_ # <<>> /\ pc' = "decide"
      /\ rgb_msg' = Head(rgb_image_queue_) /\ pcd_msg' = Head(pcd_queue_)
      /\ msg_from' = [rgb |-> Head(rgb_from), pcd |-> Head(pcd_from)]
  BY DEF CopyFronts, Look, queues, seen, device, froms, counts
<1>3. /\ Still("rgb") /\ Still("pcd") /\ \A s \in Streams : CallInv(s)' /\ LateInv(s)'
  BY <1>2, LoopStill
<1>4. StreamInv("rgb", rgb_from, rgb_image_queue_, rgb_msg)'
  <2>1. /\ StreamOK("rgb", rgb_from, rgb_image_queue_, rgb_msg)
        /\ StreamInv("rgb", rgb_from, rgb_image_queue_, rgb_msg)
        /\ "rgb" \in Streams /\ msg_from'["rgb"] = Head(rgb_from)
    BY <1>2, BothStreams DEF SessionsInv, Streams
  <2>q. QED
    BY <1>2, <2>1, CopyStream
<1>5. StreamInv("pcd", pcd_from, pcd_queue_, pcd_msg)'
  <2>1. /\ StreamOK("pcd", pcd_from, pcd_queue_, pcd_msg)
        /\ StreamInv("pcd", pcd_from, pcd_queue_, pcd_msg)
        /\ "pcd" \in Streams /\ msg_from'["pcd"] = Head(pcd_from)
    BY <1>2, BothStreams DEF SessionsInv, Streams
  <2>q. QED
    BY <1>2, <2>1, CopyStream
<1>6. /\ 1 \in 1 .. Len(rgb_image_queue_) /\ 1 \in 1 .. Len(pcd_queue_)
      /\ rgb_msg' = rgb_image_queue_[1] /\ pcd_msg' = pcd_queue_[1]
      /\ msg_from'["rgb"] = rgb_from[1] /\ msg_from'["pcd"] = pcd_from[1]
      /\ rgb_from[1] \in Nat /\ pcd_from[1] \in Nat
      /\ rgb_image_queue_[1] \in Nat /\ pcd_queue_[1] \in Nat
  BY <1>1, <1>2 DEF SessionsTypeOK, TypeOK
<1>7. SessionsTypeOK'
  <2>1. TypeOK'
    BY <1>1, <1>2, <1>6 DEF TypeOK
  <2>2. msg_from' \in [Streams -> Nat]
    BY <1>2, <1>6 DEF Streams
  <2>q. QED
    BY <1>1, <1>2, <2>1, <2>2 DEF SessionsTypeOK
<1>8. SeenInv'
  BY <1>2, <1>6 DEF SessionsInv, SeenInv
<1>9. GapInv'
  <2>1. /\ <<msg_from'["rgb"], rgb_msg'>> \in Items
        /\ <<msg_from'["pcd"], pcd_msg'>> \in Items
    BY <1>6 DEF Items
  <2>2. Items' \subseteq Items
    BY <1>2, <2>1 DEF Items
  <2>q. QED
    BY <1>2, <2>2, GapSubset DEF SessionsInv
<1>10. MixesOnlyAfterRestart' /\ RendersInSessionOrder'
  BY <1>2 DEF SessionsInv, MixesOnlyAfterRestart, RendersInSessionOrder, Before
<1>q. QED
  BY <1>3, <1>4, <1>5, <1>7, <1>8, <1>9, <1>10 DEF SessionsInv

\* One stream, or both, lose their front.
Loses(f, q, g, r) == g = Tail(f) /\ r = Tail(q)
Keeps(f, q, g, r) == g = f /\ r = q

\* It removes the fronts that are there now.
LEMMA RemoveFrontsStep == SessionsInv /\ RemoveFronts => SessionsInv'
<1> SUFFICES ASSUME SessionsInv, RemoveFronts PROVE SessionsInv'
  OBVIOUS
<1>1. SessionsTypeOK /\ TypeOK
  BY DEF SessionsInv, SessionsTypeOK
<1>2. /\ UNCHANGED <<rgb_msg, pcd_msg, msg_from, rgb_seen, pcd_seen,
                     rendered, evicted, ev, deviceConnected, deviceDisconnected, clock, session,
                     restarted, looping, call, pairs, fresh, late>>
      /\ pc = "decide" /\ pc' \in {"look", "render"}
  BY DEF RemoveFronts, DropOlder, TakePair, seen, device, counts
<1>3. /\ Still("rgb") /\ Still("pcd") /\ \A s \in Streams : CallInv(s)' /\ LateInv(s)'
  BY <1>2, LoopStill
<1>4. /\ StreamOK("rgb", rgb_from, rgb_image_queue_, rgb_msg)
      /\ StreamInv("rgb", rgb_from, rgb_image_queue_, rgb_msg)
      /\ StreamOK("pcd", pcd_from, pcd_queue_, pcd_msg)
      /\ StreamInv("pcd", pcd_from, pcd_queue_, pcd_msg)
      /\ "rgb" \in Streams /\ "pcd" \in Streams
  BY BothStreams DEF SessionsInv, Streams
<1>5. /\ Len(rgb_image_queue_) > 0 /\ Tail(rgb_image_queue_) # rgb_image_queue_
      /\ Len(pcd_queue_) > 0 /\ Tail(pcd_queue_) # pcd_queue_
  <2>1. /\ rgb_image_queue_ # <<>> /\ rgb_image_queue_ \in Seq(Nat)
        /\ pcd_queue_ # <<>> /\ pcd_queue_ \in Seq(Nat)
        /\ rgb_from \in Seq(Nat) /\ Len(rgb_from) = Len(rgb_image_queue_)
        /\ pcd_from \in Seq(Nat) /\ Len(pcd_from) = Len(pcd_queue_)
    BY <1>2, <1>4 DEF StreamInv, CopyOrder, StreamOK
  <2>q. QED
    BY <2>1, TailShift
<1>6. /\ \/ Loses(rgb_from, rgb_image_queue_, rgb_from', rgb_image_queue_')
         \/ /\ Keeps(rgb_from, rgb_image_queue_, rgb_from', rgb_image_queue_')
            /\ pc' = "look"
      /\ \/ Loses(pcd_from, pcd_queue_, pcd_from', pcd_queue_')
         \/ /\ Keeps(pcd_from, pcd_queue_, pcd_from', pcd_queue_')
            /\ pc' = "look"
      /\ pc' = "render" => InRange
  BY <1>5 DEF RemoveFronts, DropOlder, TakePair, Loses, Keeps
<1>7. /\ StreamInv("rgb", rgb_from, rgb_image_queue_, rgb_msg)'
      /\ rgb_from' \in Seq(Nat) /\ rgb_image_queue_' \in Seq(Nat)
      /\ Len(rgb_from') = Len(rgb_image_queue_') /\ Len(rgb_image_queue_') <= Cap
      /\ \A i \in 1 .. Len(rgb_image_queue_') : \E j \in 1 .. Len(rgb_image_queue_) :
            rgb_from'[i] = rgb_from[j] /\ rgb_image_queue_'[i] = rgb_image_queue_[j]
  <2>1. CASE Loses(rgb_from, rgb_image_queue_, rgb_from', rgb_image_queue_')
    <3>1. rgb_from' = Tail(rgb_from) /\ rgb_image_queue_' = Tail(rgb_image_queue_)
      BY <2>1 DEF Loses
    <3>2. /\ pc = "decide" /\ pc' \in {"look", "render"} /\ rgb_msg' = rgb_msg
          /\ msg_from' = msg_from /\ pairs' = pairs /\ session' = session
          /\ clock' = clock /\ call' = call /\ fresh' = fresh
      BY <1>2
    <3>3. /\ StreamInv("rgb", rgb_from, rgb_image_queue_, rgb_msg)'
          /\ Tailed(rgb_from, rgb_image_queue_, rgb_from', rgb_image_queue_')
      BY <1>4, <3>1, <3>2, TailStream
    <3>q. QED
      BY <1>2, <3>3 DEF Tailed
  <2>2. CASE /\ Keeps(rgb_from, rgb_image_queue_, rgb_from', rgb_image_queue_')
             /\ pc' = "look"
    <3>1. NoCopy /\ rgb_from' = rgb_from /\ rgb_image_queue_' = rgb_image_queue_
      BY <2>2 DEF NoCopy, Keeps
    <3>2. StreamInv("rgb", rgb_from, rgb_image_queue_, rgb_msg)'
      BY <1>2, <1>3, <1>4, <3>1, StillStream
    <3>q. QED
      BY <1>4, <3>1, <3>2 DEF StreamOK
  <2>q. QED
    BY <1>6, <2>1, <2>2
<1>8. /\ StreamInv("pcd", pcd_from, pcd_queue_, pcd_msg)'
      /\ pcd_from' \in Seq(Nat) /\ pcd_queue_' \in Seq(Nat)
      /\ Len(pcd_from') = Len(pcd_queue_') /\ Len(pcd_queue_') <= Cap
      /\ \A i \in 1 .. Len(pcd_queue_') : \E j \in 1 .. Len(pcd_queue_) :
            pcd_from'[i] = pcd_from[j] /\ pcd_queue_'[i] = pcd_queue_[j]
  <2>1. CASE Loses(pcd_from, pcd_queue_, pcd_from', pcd_queue_')
    <3>1. pcd_from' = Tail(pcd_from) /\ pcd_queue_' = Tail(pcd_queue_)
      BY <2>1 DEF Loses
    <3>2. /\ pc = "decide" /\ pc' \in {"look", "render"} /\ pcd_msg' = pcd_msg
          /\ msg_from' = msg_from /\ pairs' = pairs /\ session' = session
          /\ clock' = clock /\ call' = call /\ fresh' = fresh
      BY <1>2
    <3>3. /\ StreamInv("pcd", pcd_from, pcd_queue_, pcd_msg)'
          /\ Tailed(pcd_from, pcd_queue_, pcd_from', pcd_queue_')
      BY <1>4, <3>1, <3>2, TailStream
    <3>q. QED
      BY <1>2, <3>3 DEF Tailed
  <2>2. CASE /\ Keeps(pcd_from, pcd_queue_, pcd_from', pcd_queue_')
             /\ pc' = "look"
    <3>1. NoCopy /\ pcd_from' = pcd_from /\ pcd_queue_' = pcd_queue_
      BY <2>2 DEF NoCopy, Keeps
    <3>2. StreamInv("pcd", pcd_from, pcd_queue_, pcd_msg)'
      BY <1>2, <1>3, <1>4, <3>1, StillStream
    <3>q. QED
      BY <1>4, <3>1, <3>2 DEF StreamOK
  <2>q. QED
    BY <1>6, <2>1, <2>2
<1>9. SessionsTypeOK'
  <2>1. TypeOK'
    BY <1>1, <1>2, <1>7, <1>8 DEF TypeOK
  <2>q. QED
    BY <1>1, <1>2, <1>7, <1>8, <2>1 DEF SessionsTypeOK
<1>10. SeenInv'
  <2>1. /\ \A i \in 1 .. Len(rgb_image_queue_') : rgb_image_queue_'[i] \in rgb_seen
        /\ \A i \in 1 .. Len(pcd_queue_') : pcd_queue_'[i] \in pcd_seen
    BY <1>7, <1>8 DEF SessionsInv, SeenInv
  <2>2. rgb_msg \in rgb_seen /\ pcd_msg \in pcd_seen
    BY <1>2 DEF SessionsInv, SeenInv
  <2>3. pc' = "render" => InRange'
    BY <1>2, <1>6 DEF InRange, time_diff
  <2>q. QED
    BY <1>2, <2>1, <2>2, <2>3 DEF SeenInv
<1>11. GapInv'
  <2>1. Items' \subseteq Items
    <3> SUFFICES ASSUME NEW x \in Items' PROVE x \in Items
      OBVIOUS
    <3>1. CASE x \in {<<rgb_from'[i], rgb_image_queue_'[i]>> : i \in 1 .. Len(rgb_image_queue_')}
      <4>1. PICK i \in 1 .. Len(rgb_image_queue_') : x = <<rgb_from'[i], rgb_image_queue_'[i]>>
        BY <3>1
      <4>2. PICK j \in 1 .. Len(rgb_image_queue_) :
               rgb_from'[i] = rgb_from[j] /\ rgb_image_queue_'[i] = rgb_image_queue_[j]
        BY <1>7
      <4>3. x = <<rgb_from[j], rgb_image_queue_[j]>>
        BY <4>1, <4>2
      <4>q. QED
        BY <4>3 DEF Items
    <3>2. CASE x \in {<<pcd_from'[i], pcd_queue_'[i]>> : i \in 1 .. Len(pcd_queue_')}
      <4>1. PICK i \in 1 .. Len(pcd_queue_') : x = <<pcd_from'[i], pcd_queue_'[i]>>
        BY <3>2
      <4>2. PICK j \in 1 .. Len(pcd_queue_) :
               pcd_from'[i] = pcd_from[j] /\ pcd_queue_'[i] = pcd_queue_[j]
        BY <1>8
      <4>3. x = <<pcd_from[j], pcd_queue_[j]>>
        BY <4>1, <4>2
      <4>q. QED
        BY <4>3 DEF Items
    <3>3. CASE x \in {<<call'[s].from, call'[s].stamp>> : s \in {t \in Streams : call'[t].at # "none"}}
      BY <1>2, <3>3 DEF Items
    <3>4. CASE x \in IF pc' \in {"decide", "render"}
                       THEN {<<msg_from'["rgb"], rgb_msg'>>, <<msg_from'["pcd"], pcd_msg'>>} ELSE {}
      BY <1>2, <3>4 DEF Items
    <3>q. QED
      BY <3>1, <3>2, <3>3, <3>4 DEF Items
  <2>q. QED
    BY <1>2, <2>1, GapSubset DEF SessionsInv
<1>12. MixesOnlyAfterRestart' /\ RendersInSessionOrder'
  BY <1>2 DEF SessionsInv, MixesOnlyAfterRestart, RendersInSessionOrder, Before
<1>q. QED
  BY <1>3, <1>7, <1>8, <1>9, <1>10, <1>11, <1>12 DEF SessionsInv

\* It renders the copies.
LEMMA RenderPairStep == SessionsInv /\ RenderPair => SessionsInv'
<1> SUFFICES ASSUME SessionsInv, RenderPair PROVE SessionsInv'
  OBVIOUS
<1> DEFINE x == [rgb |-> <<msg_from["rgb"], rgb_msg>>, pcd |-> <<msg_from["pcd"], pcd_msg>>]
<1>1. SessionsTypeOK /\ TypeOK
  BY DEF SessionsInv, SessionsTypeOK
<1>2. /\ UNCHANGED <<rgb_image_queue_, pcd_queue_, rgb_from, pcd_from, rgb_msg, pcd_msg, msg_from,
                     rgb_seen, pcd_seen, evicted, ev, deviceConnected, deviceDisconnected, clock,
                     session, restarted, looping, call, fresh, late>>
      /\ pc = "render" /\ pc' = "look" /\ pairs' = pairs \cup {x}
      /\ rendered' = rendered \cup {<<rgb_msg, pcd_msg>>}
  BY DEF RenderPair, ProcessPair, queues, seen, device, froms, counts
<1>3. /\ Still("rgb") /\ Still("pcd") /\ \A s \in Streams : CallInv(s)' /\ LateInv(s)'
  BY <1>2, LoopStill
<1>4. /\ StreamOK("rgb", rgb_from, rgb_image_queue_, rgb_msg)
      /\ StreamInv("rgb", rgb_from, rgb_image_queue_, rgb_msg)
      /\ StreamOK("pcd", pcd_from, pcd_queue_, pcd_msg)
      /\ StreamInv("pcd", pcd_from, pcd_queue_, pcd_msg)
      /\ "rgb" \in Streams /\ "pcd" \in Streams
  BY BothStreams DEF SessionsInv, Streams
<1>5. /\ x["rgb"] = <<msg_from["rgb"], rgb_msg>> /\ x["pcd"] = <<msg_from["pcd"], pcd_msg>>
      /\ x \in [rgb : Nat \X Nat, pcd : Nat \X Nat]
  BY <1>1, <1>4 DEF StreamOK
<1> HIDE DEF x
<1>6. StreamInv("rgb", rgb_from, rgb_image_queue_, rgb_msg)'
  BY <1>2, <1>4, <1>5, RenderStream
<1>7. StreamInv("pcd", pcd_from, pcd_queue_, pcd_msg)'
  BY <1>2, <1>4, <1>5, RenderStream
<1>8. SessionsTypeOK'
  <2>1. rendered' \subseteq rgb_seen \X pcd_seen
    BY <1>1, <1>2 DEF SessionsInv, SeenInv, TypeOK
  <2>2. TypeOK'
    BY <1>1, <1>2, <2>1 DEF TypeOK
  <2>3. pairs' \subseteq [rgb : Nat \X Nat, pcd : Nat \X Nat]
    BY <1>1, <1>2, <1>5 DEF SessionsTypeOK
  <2>q. QED
    BY <1>1, <1>2, <2>2, <2>3 DEF SessionsTypeOK
<1>9. SeenInv'
  BY <1>2 DEF SessionsInv, SeenInv
<1>10. GapInv'
  <2>1. Items' \subseteq Items
    BY <1>2 DEF Items
  <2>q. QED
    BY <1>2, <2>1, GapSubset DEF SessionsInv
<1>11. MixesOnlyAfterRestart'
  <2> SUFFICES ASSUME ~restarted, NEW p \in pairs' PROVE p.rgb[1] = p.pcd[1]
    BY <1>2 DEF MixesOnlyAfterRestart
  <2>1. CASE p \in pairs
    BY <2>1 DEF SessionsInv, MixesOnlyAfterRestart
  <2>2. CASE p = x
    <3>1. /\ <<msg_from["rgb"], rgb_msg>> \in Items /\ <<msg_from["pcd"], pcd_msg>> \in Items
      BY <1>2 DEF Items
    <3>2. /\ msg_from["rgb"] < msg_from["pcd"] => rgb_msg + MaxTimeDiff < pcd_msg
          /\ msg_from["pcd"] < msg_from["rgb"] => pcd_msg + MaxTimeDiff < rgb_msg
      BY <3>1 DEF SessionsInv, GapInv
    <3>3. rgb_msg - pcd_msg <= MaxTimeDiff /\ -(rgb_msg - pcd_msg) <= MaxTimeDiff
      BY <1>2 DEF SessionsInv, SeenInv, InRange, time_diff
    <3>4. /\ msg_from["rgb"] \in Nat /\ msg_from["pcd"] \in Nat /\ rgb_msg \in Nat /\ pcd_msg \in Nat
          /\ MaxTimeDiff \in Nat
      BY <1>4, TimeAssumption DEF StreamOK
    <3>5. msg_from["rgb"] = msg_from["pcd"]
      BY <3>2, <3>3, <3>4
    <3>q. QED
      BY <1>5, <2>2, <3>5
  <2>q. QED
    BY <1>2, <2>1, <2>2
<1>12. RendersInSessionOrder'
  <2>1. ASSUME NEW p \in pairs
        PROVE  /\ Before(p.rgb, x.rgb) /\ Before(p.pcd, x.pcd)
               /\ ~Before(x.rgb, p.rgb) /\ ~Before(x.pcd, p.pcd)
    <3>1. /\ Prec(p["rgb"][1], p["rgb"][2], msg_from["rgb"], rgb_msg)
          /\ Prec(p["pcd"][1], p["pcd"][2], msg_from["pcd"], pcd_msg)
      BY <1>2, <1>4 DEF StreamInv, PairOrder
    <3>2. /\ p["rgb"][1] \in Nat /\ p["rgb"][2] \in Nat /\ p["pcd"][1] \in Nat /\ p["pcd"][2] \in Nat
          /\ msg_from["rgb"] \in Nat /\ msg_from["pcd"] \in Nat /\ rgb_msg \in Nat /\ pcd_msg \in Nat
      BY <1>4 DEF StreamOK
    <3>q. QED
      BY <1>5, <3>1, <3>2 DEF Prec, Before
  <2>2. ~Before(x.rgb, x.rgb) /\ ~Before(x.pcd, x.pcd)
    BY <1>5 DEF Before
  <2>3. \A p, q \in pairs : Before(p.rgb, q.rgb) <=> Before(p.pcd, q.pcd)
    BY DEF SessionsInv, RendersInSessionOrder
  <2>4. \A p, q \in pairs \cup {x} : Before(p.rgb, q.rgb) <=> Before(p.pcd, q.pcd)
    BY <2>1, <2>2, <2>3
  <2>q. QED
    BY <1>2, <2>4 DEF RendersInSessionOrder, Before
<1>q. QED
  BY <1>3, <1>6, <1>7, <1>8, <1>9, <1>10, <1>11, <1>12 DEF SessionsInv

-----------------------------------------------------------------------------
(* The theorems *)

\* The invariant holds before the first attach.
LEMMA SessionsStart == SessionsInit => SessionsInv
<1> SUFFICES ASSUME SessionsInit PROVE SessionsInv
  OBVIOUS
<1> USE DEF SessionsInit, Init, Streams, NoCall
<1>1. SessionsTypeOK
  <2>1. TypeOK
    <3>1. rgb_image_queue_ \in Seq(Nat) /\ Len(rgb_image_queue_) = 0
      OBVIOUS
    <3>2. pcd_queue_ \in Seq(Nat) /\ Len(pcd_queue_) = 0
      OBVIOUS
    <3>3. Len(rgb_image_queue_) <= Cap /\ Len(pcd_queue_) <= Cap
      BY <3>1, <3>2, CapAssumption
    <3>q. QED
      BY <3>1, <3>2, <3>3 DEF TypeOK
  <2>2. 0 \in 0 .. Cap
    BY CapAssumption
  <2>3. fresh \in [Streams -> 0 .. Cap]
    BY <2>2
  <2>4. call \in [Streams -> [at : {"none", "gate", "push"}, stamp : Nat, from : Nat]]
    OBVIOUS
  <2>5. clock \in [Streams -> Nat] /\ msg_from \in [Streams -> Nat] /\ late \in [Streams -> Nat]
    OBVIOUS
  <2>6. /\ rgb_from \in Seq(Nat) /\ Len(rgb_from) = Len(rgb_image_queue_)
        /\ pcd_from \in Seq(Nat) /\ Len(pcd_from) = Len(pcd_queue_)
    OBVIOUS
  <2>q. QED
    BY <2>1, <2>3, <2>4, <2>5, <2>6 DEF SessionsTypeOK
<1>2. SeenInv
  BY DEF SeenInv
<1>3. \A s \in Streams : CallInv(s) /\ LateInv(s)
  BY DEF CallInv, LateInv
<1>4. StreamInv("rgb", rgb_from, rgb_image_queue_, rgb_msg)
  BY DEF StreamInv, QueueOrder, CopyOrder, PairOrder
<1>5. StreamInv("pcd", pcd_from, pcd_queue_, pcd_msg)
  BY DEF StreamInv, QueueOrder, CopyOrder, PairOrder
<1>6. GapInv
  <2>1. Items = {}
    BY DEF Items
  <2>q. QED
    BY <2>1 DEF GapInv
<1>7. MixesOnlyAfterRestart /\ RendersInSessionOrder
  BY DEF MixesOnlyAfterRestart, RendersInSessionOrder
<1>q. QED
  BY <1>1, <1>2, <1>3, <1>4, <1>5, <1>6, <1>7 DEF SessionsInv

\* A step that changes nothing keeps it.
LEMMA SessionsStutter == SessionsInv /\ UNCHANGED sessionVars => SessionsInv'
<1> SUFFICES ASSUME SessionsInv, UNCHANGED sessionVars PROVE SessionsInv'
  OBVIOUS
<1>1. UNCHANGED <<ev, deviceConnected, deviceDisconnected, looping, call, clock, session, restarted,
                  fresh, late, msg_from, pairs, rgb_from, pcd_from, rgb_image_queue_, pcd_queue_, pc,
                  rgb_msg, pcd_msg, rgb_seen, pcd_seen, rendered, evicted>>
  BY DEF sessionVars, vars, queues, seen, device, froms, counts
<1>2. ControlStep
  BY <1>1 DEF ControlStep, Quiet, NoCopy
<1>3. SessionsTypeOK'
  BY <1>1, <1>2, QuietTypes DEF SessionsInv, ControlStep, SessionsTypeOK
<1>4. \A s \in Streams : LateInv(s)'
  BY <1>1 DEF SessionsInv, LateInv
<1>q. QED
  BY <1>2, <1>3, <1>4, ControlStill, QuietStep DEF ControlStep

\* The invariant is inductive.
LEMMA SessionsStep == SessionsInv /\ [SessionsNext]_sessionVars => SessionsInv'
<1> SUFFICES ASSUME SessionsInv, [SessionsNext]_sessionVars PROVE SessionsInv'
  OBVIOUS
<1>1. CASE DeviceCallback
  BY <1>1, AttachStep, SetConnectedStep, ResetDisconnectedStep, BeginDetachStep, EndDetachStep
     DEF DeviceCallback
<1>2. CASE DataCallback
  BY <1>2, DeliverStep, GateStep, PushRgbStep, PushCloudStep DEF DataCallback
<1>3. CASE Main
  BY <1>3, DeviceFoundStep, CallStep, CopyFrontsStep, RemoveFrontsStep, RenderPairStep DEF Main
<1>4. CASE Sleep \/ UNCHANGED sessionVars
  BY <1>4, SessionsStutter DEF Sleep
<1>q. QED
  BY <1>1, <1>2, <1>3, <1>4 DEF SessionsNext

\* SessionsInv holds in every state, for every capacity, tolerance, number of
\* replugs and behaviour of the sensor's clock.
THEOREM SessionsInvAlways == SessionsSpec => []SessionsInv
<1>1. SessionsInit => SessionsInv
  BY SessionsStart
<1>2. SessionsInv /\ [SessionsNext]_sessionVars => SessionsInv'
  BY SessionsStep
<1>q. QED
  BY <1>1, <1>2, PTL DEF SessionsSpec

\* Every variable keeps its type, and both queues their bound, over any replugs.
THEOREM SessionsTypeCorrect == SessionsSpec => []SessionsTypeOK
<1>1. SessionsInv => SessionsTypeOK
  BY DEF SessionsInv
<1>q. QED
  BY <1>1, SessionsInvAlways, PTL

\* As long as the sensor's clock goes on over a replug, try_process_pair() renders
\* no image onto a cloud of another session, although nobody clears the queues.
THEOREM NoMixBeforeRestart == SessionsSpec => []MixesOnlyAfterRestart
<1>1. SessionsInv => MixesOnlyAfterRestart
  BY DEF SessionsInv
<1>q. QED
  BY <1>1, SessionsInvAlways, PTL

\* try_process_pair() renders both streams in the order of their delivery,
\* whatever was left in the queues and whatever the clock did.
THEOREM SessionsInOrder == SessionsSpec => []RendersInSessionOrder
<1>1. SessionsInv => RendersInSessionOrder
  BY DEF SessionsInv
<1>q. QED
  BY <1>1, SessionsInvAlways, PTL

\* Cap pushes of a session leave nothing of earlier sessions in a queue.
THEOREM StaleGone == SessionsSpec => []StaleGoneAfterCap
<1>1. SessionsInv => StaleGoneAfterCap
  <2> SUFFICES ASSUME SessionsInv PROVE StaleGoneAfterCap
    OBVIOUS
  <2>1. /\ Len(rgb_from) = Len(rgb_image_queue_) /\ Len(rgb_from) <= Cap
        /\ Len(pcd_from) = Len(pcd_queue_) /\ Len(pcd_from) <= Cap
        /\ rgb_from \in Seq(Nat) /\ pcd_from \in Seq(Nat) /\ Cap \in Nat
    BY BothStreams, CapAssumption DEF StreamOK
  <2>2. /\ \A i \in 1 .. Len(rgb_from) : i > Len(rgb_from) - fresh["rgb"] => rgb_from[i] = session
        /\ \A i \in 1 .. Len(pcd_from) : i > Len(pcd_from) - fresh["pcd"] => pcd_from[i] = session
    BY <2>1 DEF SessionsInv, StreamInv, QueueOrder
  <2>q. QED
    BY <2>1, <2>2 DEF StaleGoneAfterCap
<1>q. QED
  BY <1>1, SessionsInvAlways, PTL

\* At most one message of each stream is pushed while the device is away: the
\* gate of lidar_data_callback() stops every later one.
THEOREM LateOnce == SessionsSpec => []LateAtMostOne
<1>1. SessionsInv => LateAtMostOne
  BY DEF SessionsInv, LateInv, LateAtMostOne
<1>q. QED
  BY <1>1, SessionsInvAlways, PTL

-----------------------------------------------------------------------------
(* While the clock goes on, replugs add nothing to PairQueue *)

SeenOf(s) == IF s = "rgb" THEN rgb_seen ELSE pcd_seen

\* Unless the clock started again, what a stream pushed is older than what its
\* callback brings, also if that was delivered before a replug.
SeenBefore ==
    /\ session = 0 => \A s \in Streams : SeenOf(s) = {} /\ call[s].at = "none"
    /\ \A s \in Streams : call[s].at # "none" => call[s].stamp \in 1 .. MaxStamp
    /\ ~restarted =>
          \A s \in Streams :
              /\ \A m \in SeenOf(s) : m <= clock[s]
              /\ call[s].at # "none" =>
                    call[s].stamp <= clock[s] /\ \A m \in SeenOf(s) : m < call[s].stamp

\* No stream has a name but these.
LEMMA TwoStreams ==
    /\ Streams = {"rgb", "pcd"} /\ "rgb" # "pcd"
    /\ SeenOf("rgb") = rgb_seen /\ SeenOf("pcd") = pcd_seen
    /\ SeenOf("rgb")' = rgb_seen' /\ SeenOf("pcd")' = pcd_seen'
  BY DEF Streams, SeenOf

\* A step that neither delivers nor pushes keeps it.
LEMMA SeenQuiet ==
    ASSUME SeenBefore, rgb_seen' = rgb_seen, pcd_seen' = pcd_seen,
           session' = session, restarted' = restarted, clock' = clock,
           \A s \in Streams : call'[s] = call[s] \/ call'[s].at = "none"
                              \/ (call[s].at = "gate" /\ call'[s].stamp = call[s].stamp)
    PROVE  SeenBefore'
<1>1. \A s \in Streams : SeenOf(s)' = SeenOf(s)
  BY TwoStreams
<1>2. \A s \in Streams : call'[s].at # "none" => call[s].at # "none" /\ call'[s].stamp = call[s].stamp
  OBVIOUS
<1>q. QED
  BY <1>1, <1>2 DEF SeenBefore

\* An attach with a clock that goes on starts after all that was delivered.
LEMMA SeenAttach == SessionsInv /\ SeenBefore /\ Attach => SeenBefore'
<1> SUFFICES ASSUME SessionsInv, SeenBefore, Attach PROVE SeenBefore'
  OBVIOUS
<1>1. /\ session' = session + 1 /\ session \in Nat /\ call' = call
      /\ \A s \in Streams : SeenOf(s)' = SeenOf(s)
      /\ MaxTimeDiff \in Nat
  BY TwoStreams, TimeAssumption DEF Attach, vars, seen, SessionsInv, SessionsTypeOK
<1>2. SessionsTypeOK /\ \A s \in Streams : SeenOf(s) \subseteq Nat
  BY TwoStreams DEF SessionsInv, SessionsTypeOK, TypeOK
<1>3. \A s \in Streams : clock[s] \in Nat /\ clock[s] <= Newest /\ Newest \in Nat
  BY <1>2 DEF SessionsTypeOK, Newest, Streams
<1>4. ASSUME ~restarted', NEW s \in Streams
      PROVE  /\ \A m \in SeenOf(s) : m <= clock'[s]
             /\ call[s].at # "none" => call[s].stamp <= clock'[s]
  <2>1. ~restarted /\ clock' = [r \in Streams |-> IF session = 0 THEN 0 ELSE Newest + MaxTimeDiff]
    BY <1>4 DEF Attach
  <2>2. CASE session = 0
    BY <2>2 DEF SeenBefore
  <2>3. CASE session # 0
    <3>1. clock'[s] = Newest + MaxTimeDiff
      BY <2>1, <2>3
    <3>2. clock[s] <= clock'[s] /\ clock'[s] \in Nat
      BY <1>1, <1>3, <3>1
    <3>3. \A m \in SeenOf(s) : m <= clock'[s]
      BY <1>2, <1>3, <2>1, <3>2 DEF SeenBefore
    <3>4. call[s].at # "none" => call[s].stamp <= clock'[s]
      <4>1. call[s].stamp \in Nat
        BY <1>2 DEF SessionsTypeOK
      <4>q. QED
        BY <1>3, <2>1, <3>2, <4>1 DEF SeenBefore
    <3>q. QED
      BY <3>3, <3>4
  <2>q. QED
    BY <2>2, <2>3
<1>5. restarted => restarted'
  BY DEF Attach
<1>6. session' # 0
  BY <1>1
<1>q. QED
  BY <1>1, <1>4, <1>5, <1>6 DEF SeenBefore

\* A message is delivered with a stamp after all that its stream has pushed.
LEMMA SeenDeliver ==
    ASSUME NEW t \in Streams, SessionsInv, SeenBefore, Deliver(t)
    PROVE  SeenBefore'
<1>1. PICK m \in clock[t] + 1 .. MaxStamp :
        /\ clock' = [clock EXCEPT ![t] = m]
        /\ call' = [call EXCEPT ![t] = [at |-> "gate", stamp |-> m, from |-> session]]
  BY DEF Deliver
<1>2. /\ session > 0 /\ session \in Nat /\ session' = session /\ restarted' = restarted
      /\ \A s \in Streams : SeenOf(s)' = SeenOf(s)
      /\ SessionsTypeOK /\ MaxStamp \in Nat
  BY TwoStreams, TimeAssumption DEF Deliver, vars, seen, SessionsInv, SessionsTypeOK
<1>3. \A s \in Streams : SeenOf(s) \subseteq Nat /\ clock[s] \in Nat
  BY <1>2, TwoStreams DEF SessionsTypeOK, TypeOK
<1>4. m \in 1 .. MaxStamp /\ m \in Nat /\ clock[t] < m
  BY <1>2, <1>3
<1>5. \A s \in Streams : s # t => call'[s] = call[s] /\ clock'[s] = clock[s]
  BY <1>1, <1>2 DEF SessionsTypeOK
<1>6. call'[t].at = "gate" /\ call'[t].stamp = m /\ clock'[t] = m
  BY <1>1, <1>2 DEF SessionsTypeOK
<1>7. ~restarted => \A n \in SeenOf(t) : n < m
  BY <1>3, <1>4 DEF SeenBefore
<1>8. ASSUME NEW s \in Streams
      PROVE  /\ call'[s].at # "none" => call'[s].stamp \in 1 .. MaxStamp
             /\ ~restarted' =>
                   /\ \A n \in SeenOf(s)' : n <= clock'[s]
                   /\ call'[s].at # "none" =>
                        call'[s].stamp <= clock'[s] /\ \A n \in SeenOf(s)' : n < call'[s].stamp
  <2>1. CASE s = t
    <3>1. ~restarted => \A n \in SeenOf(t) : n <= m
      BY <1>3, <1>4, <1>7
    <3>q. QED
      BY <1>2, <1>4, <1>6, <1>7, <2>1, <3>1
  <2>2. CASE s # t
    BY <1>2, <1>5, <2>2 DEF SeenBefore
  <2>q. QED
    BY <2>1, <2>2
<1>9. session' # 0
  BY <1>2
<1>q. QED
  BY <1>8, <1>9 DEF SeenBefore

\* What is pushed is no longer brought by a callback.
LEMMA SeenPush ==
    ASSUME NEW t \in Streams, SessionsInv, SeenBefore, call[t].at = "push", CountPush(t),
           \A s \in Streams : SeenOf(s)' = IF s = t THEN SeenOf(s) \cup {call[s].stamp} ELSE SeenOf(s)
    PROVE  SeenBefore'
<1>1. /\ call' = [call EXCEPT ![t] = NoCall]
      /\ session' = session /\ restarted' = restarted /\ clock' = clock
      /\ call \in [Streams -> [at : {"none", "gate", "push"}, stamp : Nat, from : Nat]]
  BY DEF CountPush, device, SessionsInv, SessionsTypeOK
<1>2. \A s \in Streams : s # t => call'[s] = call[s]
  BY <1>1
<1>3. call'[t].at = "none"
  BY <1>1 DEF NoCall
<1>4. session # 0
  BY DEF SeenBefore
<1>5. ASSUME NEW s \in Streams
      PROVE  /\ call'[s].at # "none" => call'[s].stamp \in 1 .. MaxStamp
             /\ ~restarted' =>
                   /\ \A n \in SeenOf(s)' : n <= clock'[s]
                   /\ call'[s].at # "none" =>
                        call'[s].stamp <= clock'[s] /\ \A n \in SeenOf(s)' : n < call'[s].stamp
  <2>1. CASE s = t
    BY <1>1, <1>3, <2>1 DEF SeenBefore
  <2>2. CASE s # t
    BY <1>1, <1>2, <2>2 DEF SeenBefore
  <2>q. QED
    BY <2>1, <2>2
<1>q. QED
  BY <1>1, <1>4, <1>5 DEF SeenBefore

\* It holds before the first attach.
LEMMA SeenStart == SessionsInit => SeenBefore
<1> SUFFICES ASSUME SessionsInit PROVE SeenBefore
  OBVIOUS
<1>1. \A s \in Streams : SeenOf(s) = {} /\ call[s].at = "none"
  BY TwoStreams DEF SessionsInit, Init, NoCall
<1>q. QED
  BY <1>1 DEF SeenBefore

\* Every step keeps it.
LEMMA SeenStep == SessionsInv /\ SeenBefore /\ [SessionsNext]_sessionVars => SeenBefore'
<1> SUFFICES ASSUME SessionsInv, SeenBefore, [SessionsNext]_sessionVars PROVE SeenBefore'
  OBVIOUS
<1>1. CASE DeviceCallback
  <2>1. CASE Attach
    BY <2>1, SeenAttach
  <2>2. CASE SetConnected \/ ResetDisconnected \/ BeginDetach \/ EndDetach
    BY <2>2, SeenQuiet
       DEF SetConnected, ResetDisconnected, BeginDetach, EndDetach, vars, seen
  <2>q. QED
    BY <1>1, <2>1, <2>2 DEF DeviceCallback
<1>2. ASSUME NEW t \in Streams, Gate(t)
      PROVE  SeenBefore'
  <2>1. /\ rgb_seen' = rgb_seen /\ pcd_seen' = pcd_seen
        /\ session' = session /\ restarted' = restarted /\ clock' = clock
    BY <1>2 DEF Gate, vars, seen, device
  <2>2. call \in [Streams -> [at : {"none", "gate", "push"}, stamp : Nat, from : Nat]]
    BY DEF SessionsInv, SessionsTypeOK
  <2>3. /\ \A s \in Streams : s # t => call'[s] = call[s]
        /\ call[t].at = "gate" /\ (call'[t].at = "none" \/ call'[t].stamp = call[t].stamp)
    BY <1>2, <2>2 DEF Gate, NoCall
  <2>q. QED
    BY <2>1, <2>3, SeenQuiet
<1>3. CASE PushRgb
  BY <1>3, SeenPush, TwoStreams DEF PushRgb
<1>4. CASE PushCloud
  BY <1>4, SeenPush, TwoStreams DEF PushCloud
<1>5. CASE Main \/ Sleep \/ UNCHANGED sessionVars
  <2>1. /\ rgb_seen' = rgb_seen /\ pcd_seen' = pcd_seen
        /\ session' = session /\ restarted' = restarted /\ clock' = clock /\ call' = call
    BY <1>5 DEF Main, Sleep, sessionVars, vars, seen, device, DeviceFound, BeginCall, Call,
                CopyFronts, Look, RemoveFronts, DropOlder, TakePair, RenderPair, ProcessPair,
                ReturnFromCall, Return
  <2>q. QED
    BY <2>1, SeenQuiet
<1>q. QED
  BY <1>1, <1>2, <1>3, <1>4, <1>5, SeenDeliver DEF SessionsNext, DataCallback

\* Every step that leaves the clock going is a step of PairQueue, or none.
LEMMA StepOfPairing ==
    SessionsInv /\ SeenBefore /\ ~restarted /\ [SessionsNext]_sessionVars => [Next]_vars
<1> SUFFICES ASSUME SessionsInv, SeenBefore, ~restarted, [SessionsNext]_sessionVars
             PROVE  [Next]_vars
  OBVIOUS
<1>1. CASE DeviceCallback
  BY <1>1 DEF DeviceCallback, Attach, SetConnected, ResetDisconnected, BeginDetach, EndDetach
<1>2. CASE \E s \in Streams : Deliver(s) \/ Gate(s)
  BY <1>2 DEF Deliver, Gate
<1>3. CASE PushRgb
  <2>1. call["rgb"].stamp \in Newer(rgb_seen)
    BY <1>3, TwoStreams DEF PushRgb, SeenBefore, Newer
  <2>q. QED
    BY <1>3, <2>1 DEF PushRgb, PublishRgb, Next
<1>4. CASE PushCloud
  <2>1. call["pcd"].stamp \in Newer(pcd_seen)
    BY <1>4, TwoStreams DEF PushCloud, SeenBefore, Newer
  <2>q. QED
    BY <1>4, <2>1 DEF PushCloud, PublishCloud, Next
<1>5. CASE Main
  BY <1>5 DEF Main, DeviceFound, BeginCall, CopyFronts, RemoveFronts, RenderPair, ReturnFromCall,
              Next, TryProcessPair
<1>6. CASE Sleep \/ UNCHANGED sessionVars
  BY <1>6 DEF Sleep, sessionVars
<1>q. QED
  BY <1>1, <1>2, <1>3, <1>4, <1>5, <1>6 DEF SessionsNext, DataCallback

\* Over any number of replugs, with callbacks that push after a detach and queues
\* nobody clears, the driver pairs as PairQueue does for one endless session, as
\* long as the clock of the device goes on.
THEOREM ImplementsPairing == SessionsSpec /\ []~restarted => SafeSpec
<1>1. SessionsInit => Init
  BY DEF SessionsInit
<1>q. QED
  BY <1>1, SeenStart, SeenStep, StepOfPairing, SessionsInvAlways, PTL DEF SessionsSpec, SafeSpec

\* So a replug costs no pair: as long as no queue overflowed, try_process_pair()
\* returns with as many pairs rendered as any way to pair all messages of all
\* sessions could give.
THEOREM ReplugsCostNoPair == SessionsSpec /\ []~restarted => []RendersAllItCan
BY ImplementsPairing, RenderedAll, PTL

\* And what is removed although the fronts are those that were compared has no
\* partner in any session.
THEOREM ReplugsDiscardSafely == SessionsSpec /\ []~restarted => DiscardIsSafe
BY ImplementsPairing, DiscardsAreSafe, PTL

-----------------------------------------------------------------------------
(* The device of this module is DeviceSessions *)

\* PairSessions assumes nothing of the device but DeviceSessions, which
\* DeviceLifecycle implements: its results hold for every attach and detach that
\* lidar_device_callback() can make.
THEOREM UsesDeviceSessions == SessionsSpec => Device!Spec
<1>1. SessionsInit => Device!Init
  BY DEF SessionsInit, Device!Init
<1>2. [SessionsNext]_sessionVars => [Device!Next]_Device!vars
  <2> SUFFICES ASSUME [SessionsNext]_sessionVars PROVE [Device!Next]_Device!vars
    OBVIOUS
  <2>1. CASE DeviceCallback
    BY <2>1 DEF DeviceCallback, Attach, SetConnected, ResetDisconnected, BeginDetach, EndDetach,
                Device!Next
  <2>2. CASE DataCallback
    BY <2>2 DEF DataCallback, Deliver, Gate, PushRgb, PushCloud, CountPush, device, Device!vars
  <2>3. CASE Main
    BY <2>3 DEF Main, DeviceFound, BeginCall, CopyFronts, RemoveFronts, RenderPair,
                ReturnFromCall, device, Device!vars
  <2>4. CASE Sleep \/ UNCHANGED sessionVars
    BY <2>4 DEF Sleep, sessionVars, device, Device!vars
  <2>q. QED
    BY <2>1, <2>2, <2>3, <2>4 DEF SessionsNext
<1>q. QED
  BY <1>1, <1>2, PTL DEF SessionsSpec, Device!Spec
=============================================================================
