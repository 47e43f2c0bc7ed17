-------------------------- MODULE PublisherProofs --------------------------
(***************************************************************************)
(* Proofs about Publisher for every number of callback threads and data.   *)
(***************************************************************************)
EXTENDS Publisher, FiniteSetTheorems, TLAPS

-----------------------------------------------------------------------------
(* What all handlers have in common *)

LogStream == [image |-> "rgb", cloud |-> "slam", pose |-> "odom"]
QueueStream == [rgb |-> "rgb", pcd |-> "dtof"]
TopicStream ==
    [p \in Topics |->
        CASE p \in {"image", "image/compressed"} -> "rgb" [] p = "cloud_raw" -> "dtof"
          [] p = "cloud_slam" -> "slam" [] p = "odometry" -> "odom" [] p = "imu" -> "imu"]

\* A step is one of those the module has an action for.
Known(step) ==
    \/ step = encode
    \/ \E l \in Logs : step = number(l) \/ step = record(l)
    \/ \E q \in Queues : step = Into(q)
    \/ \E p \in Topics : step = On(p)

\* No step comes twice, a frame is recorded right after its number is taken and
\* before it is published, and what is not done when the encoder throws is the
\* record and the compressed image.
Shape(h, form) ==
    LET pos == 1 .. Len(h) IN
    /\ Len(h) \in Nat
    /\ \A i \in pos : Known(h[i])
    /\ \A i, j \in pos : h[i] = h[j] => i = j
    /\ \A i \in pos : \A l \in Logs :
          /\ h[i] = record(l) =>
                /\ i - 1 \in pos /\ h[i - 1] = number(l)
                /\ \E j \in pos : h[j] = On(Twin[l])
                /\ Stream(form) = LogStream[l]
          /\ h[i] = number(l) =>
                /\ i + 1 \in pos /\ h[i + 1] = record(l)
                /\ Stream(form) = LogStream[l]
    /\ \A i \in pos : \A p \in Topics : h[i] = On(p) => Stream(form) = TopicStream[p]
    /\ \A i \in pos : \A q \in Queues : h[i] = Into(q) => Stream(form) = QueueStream[q]
    /\ \A i, j \in pos : h[i] = encode =>
          /\ form = "nv12"
          /\ j < i => h[j] # On("image/compressed") /\ \A l \in Logs : h[j] # record(l) /\ h[j] # number(l)
          /\ \A p \in Topics : h[j] = On(p) => p = "image/compressed" \/ j < i

\* publishRgb() with an image to compress has the shape.
LEMMA ShapeNv12 == Shape(publishRgb_nv12, "nv12")
<1> DEFINE h == publishRgb_nv12
<1>1. /\ Len(h) = 6 /\ h[1] = Into("rgb") /\ h[2] = On("image") /\ h[3] = encode
      /\ h[4] = number("image") /\ h[5] = record("image") /\ h[6] = On("image/compressed")
  BY DEF publishRgb_nv12
<1>2. Stream("nv12") = "rgb"
  BY DEF Stream
<1> HIDE DEF h
<1>3. \A i \in 1 .. 6 : i = 1 \/ i = 2 \/ i = 3 \/ i = 4 \/ i = 5 \/ i = 6
  OBVIOUS
<1>4. \A i \in 1 .. 6 : Known(h[i])
  BY <1>1, <1>3 DEF Known, Logs, Topics, Queues
<1>5. \A i, j \in 1 .. 6 : h[i] = h[j] => i = j
  BY <1>1, <1>3 DEF Into, On, encode, number, record
<1>6. \A i \in 1 .. 6 : \A l \in Logs :
          /\ h[i] = record(l) =>
                /\ i - 1 \in 1 .. 6 /\ h[i - 1] = number(l)
                /\ \E j \in 1 .. 6 : h[j] = On(Twin[l])
                /\ Stream("nv12") = LogStream[l]
          /\ h[i] = number(l) =>
                /\ i + 1 \in 1 .. 6 /\ h[i + 1] = record(l)
                /\ Stream("nv12") = LogStream[l]
  BY <1>1, <1>2, <1>3 DEF Into, On, encode, number, record, Logs, Twin, LogStream
<1>7. \A i \in 1 .. 6 : \A p \in Topics : h[i] = On(p) => Stream("nv12") = TopicStream[p]
  BY <1>1, <1>2, <1>3 DEF Into, On, encode, number, record, TopicStream
<1>8. \A i \in 1 .. 6 : \A q \in Queues : h[i] = Into(q) => Stream("nv12") = QueueStream[q]
  BY <1>1, <1>2, <1>3 DEF Into, On, encode, number, record, QueueStream
<1>9. \A i, j \in 1 .. 6 : h[i] = encode =>
          /\ "nv12" = "nv12"
          /\ j < i => h[j] # On("image/compressed") /\ \A l \in Logs : h[j] # record(l) /\ h[j] # number(l)
          /\ \A p \in Topics : h[j] = On(p) => p = "image/compressed" \/ j < i
  BY <1>1, <1>3 DEF Into, On, encode, number, record
<1>q. QED
  BY <1>1, <1>4, <1>5, <1>6, <1>7, <1>8, <1>9 DEF Shape, h

\* So have the other handlers.
LEMMA ShapeRest ==
    /\ Shape(publishRgb_jpeg, "jpeg")
    /\ Shape(publishRgb_invalid, "rgb_invalid")
    /\ Shape(publishIntensityCloud, "dtof")
    /\ Shape(publishIntensityCloud_invalid, "dtof_invalid")
    /\ Shape(publishPC2XYZRGBA, "slam")
    /\ Shape(publishPC2XYZRGBA_empty, "slam_empty")
    /\ Shape(publishOdometry_complete, "odom")
    /\ Shape(publishOdometry, "odom_short")
    /\ Shape(publishImu, "imu")
<1> USE DEF Known, Logs, Topics, Queues, Into, On, encode, number, record, Twin, LogStream,
            QueueStream, TopicStream, Stream
<1>1. Shape(publishRgb_jpeg, "jpeg")
  BY DEF Shape, publishRgb_jpeg
<1>2. Shape(publishRgb_invalid, "rgb_invalid")
  BY DEF Shape, publishRgb_invalid
<1>3. Shape(publishIntensityCloud, "dtof")
  BY DEF Shape, publishIntensityCloud
<1>4. Shape(publishIntensityCloud_invalid, "dtof_invalid")
  BY DEF Shape, publishIntensityCloud_invalid
<1>5. Shape(publishPC2XYZRGBA, "slam")
  BY DEF Shape, publishPC2XYZRGBA
<1>6. Shape(publishPC2XYZRGBA_empty, "slam_empty")
  BY DEF Shape, publishPC2XYZRGBA_empty
<1>7. Shape(publishOdometry_complete, "odom")
  BY DEF Shape, publishOdometry_complete
<1>8. Shape(publishOdometry, "odom_short")
  BY DEF Shape, publishOdometry
<1>9. Shape(publishImu, "imu")
  BY DEF Shape, publishImu
<1>q. QED
  BY <1>1, <1>2, <1>3, <1>4, <1>5, <1>6, <1>7, <1>8, <1>9

\* Every handler has the shape.
LEMMA Shapes == \A form \in Forms : Shape(Handler[form], form)
  BY ShapeNv12, ShapeRest DEF Forms, Handler

-----------------------------------------------------------------------------
(* The inductive invariant *)

\* Who is busy has a datum of its own, and has seen a part of each log.
Calls ==
    /\ \A t \in Threads : Busy(t) =>
          /\ call[t].datum \in Data /\ delivered[call[t].datum] = call[t].form
          /\ \A l \in Logs : call[t].seen[l] <= Len(recorded[l])
    /\ \A t, u \in Threads : Busy(t) /\ Busy(u) /\ call[t].datum = call[u].datum => t = u

\* Only what was delivered is recorded, published and pushed.
OnlyDelivered ==
    /\ \A l \in Logs : \A i \in 1 .. Len(recorded[l]) : recorded[l][i].datum \in Data
    /\ \A p \in Topics : \A i \in 1 .. Len(published[p]) : published[p][i] \in Data
    /\ \A q \in Queues : \A i \in 1 .. Len(pushed[q]) : pushed[q][i] \in Data

\* The numbers handed out are in the log or with one thread each.
IndexInv(l) ==
    /\ IsFiniteSet(Indices(l)) /\ Cardinality(Indices(l)) = Len(recorded[l])
    /\ Indices(l) \subseteq 0 .. index[l] - 1
    /\ \A t, u \in Holding(l) : call[t].idx = call[u].idx => t = u
    /\ {call[t].idx : t \in Holding(l)} = (0 .. index[l] - 1) \ Indices(l)

\* What was in the log when a handler began has lower numbers than its frame.
OvertakeInv(l) ==
    /\ \A i \in 1 .. Len(recorded[l]) :
          /\ recorded[l][i].seen <= Len(recorded[l])
          /\ \A j \in 1 .. recorded[l][i].seen : recorded[l][j].idx < recorded[l][i].idx
    /\ \A t \in Holding(l) :
          \A j \in 1 .. call[t].seen[l] : recorded[l][j].idx < call[t].idx

\* The handler of datum d has done the step before it came to its n-th.
Did(d, n, step) == \E i \in 1 .. n - 1 : Handler[delivered[d]][i] = step

Never(s, d) == \A j \in 1 .. Len(s) : s[j] # d
Once(s, d) == \E i \in 1 .. Len(s) : \A j \in 1 .. Len(s) : s[j] = d <=> j = i
Has(s, d) == \E i \in 1 .. Len(s) : s[i].datum = d
InLog(l, d) == Has(recorded[l], d)

\* The handler of datum d came to its n-th step: what it did before, and only
\* that, can be seen.
Came(d, n) ==
    /\ n \in 1 .. Len(Handler[delivered[d]]) + 1
    /\ \A t \in Threads : Busy(t) /\ call[t].datum = d => n = call[t].pos
    /\ Returned(d) =>
          \/ n = Len(Handler[delivered[d]]) + 1
          \/ Handler[delivered[d]][n] = encode /\ d \in thrown
    /\ \A p \in Topics : IF Did(d, n, On(p)) THEN Once(published[p], d) ELSE Never(published[p], d)
    /\ \A q \in Queues : Did(d, n, Into(q)) \/ Never(pushed[q], d)
    /\ \A l \in Logs : IF Did(d, n, record(l)) THEN data_logger_ => InLog(l, d) ELSE ~InLog(l, d)

Progress == \A d \in Data : \E n \in Nat : Came(d, n)

\* A topic or a queue carries the data of one stream, in order.
InOrder(s, stream) ==
    /\ \A i \in 1 .. Len(s) : Stream(delivered[s[i]]) = stream
    /\ \A i, j \in 1 .. Len(s) : i < j => s[i] < s[j]

LogOrder(l) ==
    /\ \A i \in 1 .. Len(recorded[l]) :
          /\ Stream(delivered[recorded[l][i].datum]) = LogStream[l]
          /\ recorded[l][i].idx = i - 1
    /\ \A i, j \in 1 .. Len(recorded[l]) : i < j => recorded[l][i].datum < recorded[l][j].datum
    /\ Holding(l) = {} => index[l] = Len(recorded[l])
    /\ \A t \in Holding(l) : call[t].idx = Len(recorded[l]) /\ index[l] = Len(recorded[l]) + 1

SerialInv ==
    /\ \A t, u \in Threads :
          Busy(t) /\ Busy(u) /\ Stream(call[t].form) = Stream(call[u].form) => t = u
    /\ \A t \in Threads : Busy(t) =>
          \A d \in Data : Stream(delivered[d]) = Stream(call[t].form) => d <= call[t].datum
    /\ \A l \in Logs : LogOrder(l)
    /\ \A p \in Topics : InOrder(published[p], TopicStream[p])
    /\ \A q \in Queues : InOrder(pushed[q], QueueStream[q])

PubInv ==
    /\ TypeOK
    /\ Calls
    /\ OnlyDelivered
    /\ \A l \in Logs : IndexInv(l) /\ OvertakeInv(l)
    /\ Progress
    /\ serialStreams => SerialInv

-----------------------------------------------------------------------------
(* Every action of a handler does one step s of thread t *)

Does(t, s) ==
    /\ Reaches(t, s)
    /\ UNCHANGED <<serialStreams, g_sendcloudrender, data_logger_, delivered>>
    /\ \A u \in Threads : u # t => call'[u] = call[u]
    /\ call'[t].form = call[t].form /\ call'[t].datum = call[t].datum
    /\ call'[t].seen = call[t].seen
    /\ \/ call'[t].pos = call[t].pos + 1 /\ thrown' = thrown
       \/ /\ s = encode /\ call'[t].pos = Len(Handler[call[t].form]) + 1
          /\ thrown' = thrown \cup {call[t].datum}
    /\ \A l \in Logs :
          /\ recorded'[l] = IF s = record(l) /\ data_logger_ THEN Append(recorded[l], Frame(t, l))
                                                             ELSE recorded[l]
          /\ index'[l] = IF s = number(l) /\ data_logger_ THEN index[l] + 1 ELSE index[l]
          /\ s = number(l) /\ data_logger_ => call'[t].idx = index[l]
    /\ \A p \in Topics :
          published'[p] = IF s = On(p) THEN Append(published[p], call[t].datum) ELSE published[p]
    /\ \A q \in Queues :
          \/ pushed'[q] = pushed[q]
          \/ s = Into(q) /\ pushed'[q] = Append(pushed[q], call[t].datum)

\* The steps are told apart by what they do and where.
LEMMA StepsDiffer ==
    /\ \A p \in Topics : On(p) # encode /\ \A r \in Topics : On(p) = On(r) => p = r
    /\ \A q \in Queues : Into(q) # encode /\ \A r \in Queues : Into(q) = Into(r) => q = r
    /\ \A l \in Logs : number(l) # encode /\ record(l) # encode
    /\ \A l, k \in Logs : /\ number(l) # record(k)
                          /\ number(l) = number(k) => l = k
                          /\ record(l) = record(k) => l = k
    /\ \A l \in Logs : \A p \in Topics : number(l) # On(p) /\ record(l) # On(p)
    /\ \A l \in Logs : \A q \in Queues : number(l) # Into(q) /\ record(l) # Into(q)
    /\ \A p \in Topics : \A q \in Queues : On(p) # Into(q)
  BY DEF On, Into, number, record, encode

\* What the conditions of the handlers skip.
LEMMA WhatRuns ==
    /\ \A l \in Logs : (Runs(record(l)) <=> data_logger_) /\ (Runs(number(l)) <=> data_logger_)
    /\ \A p \in Topics : Runs(On(p))
    /\ Runs(encode)
  BY DEF Runs, On, Into, number, record, encode

\* A step of a handler is one of the relation Does.
LEMMA HandleDoes ==
    ASSUME TypeOK, NEW t \in Threads, Handle(t)
    PROVE  TypeOK' /\ \E s : Does(t, s)
<1>1. /\ call \in [Threads -> [form : Forms, datum : Nat, pos : Nat \ {0}, idx : Int,
                               seen : [Logs -> Nat]]]
      /\ call[t].form \in Forms /\ call[t].pos \in Nat \ {0} /\ call[t].datum \in Nat
      /\ Len(Handler[call[t].form]) \in Nat
  BY Shapes DEF TypeOK, Shape
<1>2. /\ Advanced(t) = [form |-> call[t].form, datum |-> call[t].datum, pos |-> call[t].pos + 1,
                        idx |-> call[t].idx, seen |-> call[t].seen]
      /\ Left(t) = [form |-> call[t].form, datum |-> call[t].datum,
                    pos |-> Len(Handler[call[t].form]) + 1,
                    idx |-> call[t].idx, seen |-> call[t].seen]
  BY <1>1 DEF Advanced, Left
<1>3. CASE Skip(t)
  <2>1. PICK s : /\ Reaches(t, s) /\ ~Runs(s)
                 /\ call' = [call EXCEPT ![t] = Advanced(t)]
                 /\ UNCHANGED <<process, config, delivered, thrown, index, out>>
    BY <1>3 DEF Skip
  <2>2. /\ s # encode /\ \A p \in Topics : s # On(p)
        /\ \A l \in Logs : s = record(l) \/ s = number(l) => ~data_logger_
    BY <2>1, WhatRuns
  <2>3. Does(t, s)
    BY <1>1, <1>2, <2>1, <2>2 DEF Does, config, out
  <2>4. TypeOK'
    BY <1>1, <1>2, <2>1 DEF TypeOK, config, out
  <2>q. QED
    BY <2>3, <2>4
<1>4. CASE Push(t)
  <2>1. PICK q \in Queues :
          /\ At(t, Into(q))
          /\ pushed' = [pushed EXCEPT ![q] = Append(pushed[q], call[t].datum)]
          /\ call' = [call EXCEPT ![t] = Advanced(t)]
          /\ UNCHANGED <<process, config, delivered, thrown, index, recorded, published>>
    BY <1>4 DEF Push
  <2>2. /\ \A l \in Logs : Into(q) # record(l) /\ Into(q) # number(l)
        /\ \A p \in Topics : Into(q) # On(p)
    BY StepsDiffer
  <2>3. Does(t, Into(q))
    BY <1>1, <1>2, <2>1, <2>2 DEF Does, At, config, TypeOK
  <2>4. TypeOK'
    BY <1>1, <1>2, <2>1 DEF TypeOK, config
  <2>q. QED
    BY <2>3, <2>4
<1>5. CASE Publish(t)
  <2>1. PICK p \in Topics :
          /\ At(t, On(p))
          /\ published' = [published EXCEPT ![p] = Append(published[p], call[t].datum)]
          /\ call' = [call EXCEPT ![t] = Advanced(t)]
          /\ UNCHANGED <<process, config, delivered, thrown, index, recorded, pushed>>
    BY <1>5 DEF Publish
  <2>2. /\ \A l \in Logs : On(p) # record(l) /\ On(p) # number(l)
        /\ \A r \in Topics : On(p) = On(r) => p = r
    BY StepsDiffer
  <2>3. Does(t, On(p))
    BY <1>1, <1>2, <2>1, <2>2 DEF Does, At, config, TypeOK
  <2>4. TypeOK'
    BY <1>1, <1>2, <2>1 DEF TypeOK, config
  <2>q. QED
    BY <2>3, <2>4
<1>6. CASE Encode(t) \/ EncodeThrows(t)
  <2>1. /\ Reaches(t, encode)
        /\ \/ call' = [call EXCEPT ![t] = Advanced(t)] /\ thrown' = thrown
           \/ call' = [call EXCEPT ![t] = Left(t)] /\ thrown' = thrown \cup {call[t].datum}
        /\ UNCHANGED <<process, config, delivered, index, out>>
    BY <1>6 DEF Encode, EncodeThrows, At
  <2>2. /\ \A l \in Logs : encode # record(l) /\ encode # number(l)
        /\ \A p \in Topics : encode # On(p)
    BY StepsDiffer
  <2>3. Does(t, encode)
    BY <1>1, <1>2, <2>1, <2>2 DEF Does, config, out
  <2>4. TypeOK'
    <3>1. call' \in [Threads -> [form : Forms, datum : Nat, pos : Nat \ {0}, idx : Int,
                                 seen : [Logs -> Nat]]]
      <4>1. /\ call[t].idx \in Int /\ call[t].seen \in [Logs -> Nat]
            /\ call[t].pos + 1 \in Nat \ {0} /\ Len(Handler[call[t].form]) + 1 \in Nat \ {0}
        BY <1>1
      <4>2. CASE call' = [call EXCEPT ![t] = Advanced(t)]
        BY <1>1, <1>2, <4>1, <4>2
      <4>3. CASE call' = [call EXCEPT ![t] = Left(t)]
        BY <1>1, <1>2, <4>1, <4>3
      <4>q. QED
        BY <2>1, <4>2, <4>3
    <3>q. QED
      BY <2>1, <3>1 DEF TypeOK, config, out
  <2>q. QED
    BY <2>3, <2>4
<1>7. CASE TakeIndex(t)
  <2>1. PICK l \in Logs :
          /\ At(t, number(l))
          /\ index' = [index EXCEPT ![l] = index[l] + 1]
          /\ call' = [call EXCEPT ![t] = [Advanced(t) EXCEPT !.idx = index[l]]]
          /\ UNCHANGED <<process, config, delivered, thrown, out>>
    BY <1>7 DEF TakeIndex
  <2>2. /\ \A k \in Logs : number(l) # record(k) /\ (number(l) = number(k) => l = k)
        /\ \A p \in Topics : number(l) # On(p)
        /\ data_logger_ /\ index[l] \in Nat
    BY <2>1, StepsDiffer, WhatRuns DEF At, TypeOK
  <2>3. Does(t, number(l))
    BY <1>1, <1>2, <2>1, <2>2 DEF Does, At, config, out, TypeOK
  <2>4. TypeOK'
    <3>1. call' \in [Threads -> [form : Forms, datum : Nat, pos : Nat \ {0}, idx : Int,
                                 seen : [Logs -> Nat]]]
      <4>1. [Advanced(t) EXCEPT !.idx = index[l]] =
              [form |-> call[t].form, datum |-> call[t].datum, pos |-> call[t].pos + 1,
               idx |-> index[l], seen |-> call[t].seen]
        BY <1>2
      <4>2. call[t].seen \in [Logs -> Nat] /\ call[t].pos + 1 \in Nat \ {0} /\ index[l] \in Int
        BY <1>1, <2>2
      <4>q. QED
        BY <1>1, <2>1, <4>1, <4>2
    <3>2. index' \in [Logs -> Nat]
      BY <2>1, <2>2 DEF TypeOK
    <3>q. QED
      BY <2>1, <3>1, <3>2 DEF TypeOK, config, out
  <2>q. QED
    BY <2>3, <2>4
<1>8. CASE Record(t)
  <2>1. PICK l \in Logs :
          /\ At(t, record(l))
          /\ recorded' = [recorded EXCEPT ![l] = Append(recorded[l], Frame(t, l))]
          /\ call' = [call EXCEPT ![t] = Advanced(t)]
          /\ UNCHANGED <<process, config, delivered, thrown, index, published, pushed>>
    BY <1>8 DEF Record
  <2>2. /\ \A k \in Logs : record(l) # number(k) /\ (record(l) = record(k) => l = k)
        /\ \A p \in Topics : record(l) # On(p)
        /\ data_logger_
        /\ Frame(t, l) \in [idx : Int, datum : Nat, seen : Nat]
    BY <1>1, <2>1, StepsDiffer, WhatRuns DEF At, Frame
  <2>3. Does(t, record(l))
    BY <1>1, <1>2, <2>1, <2>2 DEF Does, At, config, TypeOK
  <2>4. TypeOK'
    <3>1. recorded' \in [Logs -> Seq([idx : Int, datum : Nat, seen : Nat])]
      BY <2>1, <2>2 DEF TypeOK
    <3>q. QED
      BY <1>1, <1>2, <2>1, <3>1 DEF TypeOK, config
  <2>q. QED
    BY <2>3, <2>4
<1>q. QED
  BY <1>3, <1>4, <1>5, <1>6, <1>7, <1>8 DEF Handle

\* Only a thread that has just taken a number can be about to record.
LEMMA HoldingAfter ==
    ASSUME TypeOK, NEW t \in Threads, NEW s, Does(t, s), NEW l \in Logs
    PROVE  /\ t \in Holding(l) <=> (s = record(l) /\ data_logger_)
           /\ t \in Holding(l)' <=> (s = number(l) /\ data_logger_)
           /\ \A u \in Threads : u # t => (u \in Holding(l)' <=> u \in Holding(l)) /\ call'[u] = call[u]
<1> DEFINE h == Handler[call[t].form]
<1>1. /\ Shape(h, call[t].form) /\ call[t].pos \in Nat \ {0} /\ call[t].pos <= Len(h)
      /\ h[call[t].pos] = s /\ Len(h) \in Nat /\ call[t].pos \in 1 .. Len(h)
  <2>1. /\ call[t].form \in Forms /\ call[t].pos \in Nat \ {0}
        /\ call[t].pos <= Len(h) /\ h[call[t].pos] = s
    BY DEF TypeOK, Does, Reaches, Busy
  <2>2. Shape(h, call[t].form)
    BY <2>1, Shapes
  <2>3. Len(h) \in Nat
    BY <2>2 DEF Shape
  <2>q. QED
    BY <2>1, <2>2, <2>3
<1>2. /\ Runs(record(l)) <=> data_logger_
      /\ Runs(record(l))' <=> data_logger_
  BY WhatRuns DEF Does, Runs, record, Into
<1>3. t \in Holding(l) <=> (s = record(l) /\ data_logger_)
  BY <1>1, <1>2 DEF Holding, At, Reaches, Busy
<1>4. ASSUME NEW u \in Threads, u # t
      PROVE  (u \in Holding(l)' <=> u \in Holding(l)) /\ call'[u] = call[u]
  <2>1. call'[u] = call[u] /\ data_logger_' = data_logger_
    BY <1>4 DEF Does
  <2>q. QED
    BY <1>2, <2>1 DEF Holding, At, Reaches, Busy
<1>5. t \in Holding(l)' <=> (s = number(l) /\ data_logger_)
  <2>1. call'[t].form = call[t].form /\ data_logger_' = data_logger_
    BY DEF Does
  <2>2. t \in Holding(l)' <=>
          /\ call'[t].pos <= Len(h) /\ h[call'[t].pos] = record(l) /\ data_logger_
    BY <1>2, <2>1 DEF Holding, At, Reaches, Busy
  <2>3. CASE call'[t].pos = call[t].pos + 1
    <3>1. s = number(l) => call[t].pos + 1 \in 1 .. Len(h) /\ h[call[t].pos + 1] = record(l)
      BY <1>1 DEF Shape
    <3>2. ASSUME call[t].pos + 1 <= Len(h), h[call[t].pos + 1] = record(l)
          PROVE  s = number(l)
      <4>1. call[t].pos + 1 \in 1 .. Len(h)
        BY <1>1, <3>2
      <4>2. h[call[t].pos + 1 - 1] = number(l)
        BY <1>1, <3>2, <4>1 DEF Shape
      <4>q. QED
        BY <1>1, <4>2
    <3>q. QED
      BY <1>1, <2>2, <2>3, <3>1, <3>2
  <2>4. CASE s = encode /\ call'[t].pos = Len(h) + 1
    BY <1>1, <2>2, <2>4, StepsDiffer
  <2>q. QED
    BY <2>3, <2>4 DEF Does
<1>q. QED
  BY <1>3, <1>4, <1>5

\* A step of one thread leaves the calls of the others alone.
LEMMA DoesCalls ==
    ASSUME TypeOK, Calls, OnlyDelivered, NEW t \in Threads, NEW s, Does(t, s)
    PROVE  /\ Calls' /\ OnlyDelivered'
           /\ \A u \in Threads : Busy(u)' => Busy(u)
           /\ \A u \in Threads : u # t => (Busy(u)' <=> Busy(u)) /\ call'[u] = call[u]
<1>1. /\ Busy(t) /\ call[t].datum \in Data /\ call[t].datum \in Nat
      /\ delivered' = delivered /\ Data' = Data
  BY DEF Does, Reaches, Calls, TypeOK, Data
<1>2. \A u \in Threads : u # t => (Busy(u)' <=> Busy(u)) /\ call'[u] = call[u]
  BY DEF Does, Busy
<1>3. \A u \in Threads : Busy(u)' => Busy(u)
  BY <1>1, <1>2
<1>4. \A u \in Threads : call'[u].form = call[u].form /\ call'[u].datum = call[u].datum
                         /\ call'[u].seen = call[u].seen
  BY <1>2 DEF Does
<1>5. \A l \in Logs :
        /\ recorded'[l] = recorded[l] \/ recorded'[l] = Append(recorded[l], Frame(t, l))
        /\ recorded[l] \in Seq([idx : Int, datum : Nat, seen : Nat])
        /\ Frame(t, l).datum = call[t].datum
        /\ Len(recorded[l]) \in Nat
  <2> SUFFICES ASSUME NEW l \in Logs
               PROVE  /\ recorded'[l] = recorded[l] \/ recorded'[l] = Append(recorded[l], Frame(t, l))
                      /\ recorded[l] \in Seq([idx : Int, datum : Nat, seen : Nat])
                      /\ Frame(t, l).datum = call[t].datum
                      /\ Len(recorded[l]) \in Nat
    OBVIOUS
  <2>1. recorded'[l] = recorded[l] \/ recorded'[l] = Append(recorded[l], Frame(t, l))
    BY DEF Does
  <2>2. recorded[l] \in Seq([idx : Int, datum : Nat, seen : Nat])
    BY DEF TypeOK
  <2>3. Frame(t, l).datum = call[t].datum
    BY DEF Frame
  <2>4. Len(recorded[l]) \in Nat
    BY <2>2
  <2>q. QED
    BY <2>1, <2>2, <2>3, <2>4
<1>6. \A l \in Logs : Len(recorded[l]) <= Len(recorded'[l])
  BY <1>5
<1>7. Calls'
  <2>1. ASSUME NEW u \in Threads, Busy(u)', NEW l \in Logs
        PROVE  call'[u].seen[l] <= Len(recorded'[l])
    <3>1. call[u].seen[l] <= Len(recorded[l]) /\ call[u].seen[l] \in Nat
      BY <1>3, <2>1 DEF Calls, TypeOK
    <3>2. Len(recorded[l]) \in Nat /\ Len(recorded'[l]) \in Nat /\ Len(recorded[l]) <= Len(recorded'[l])
      BY <1>5, <1>6
    <3>q. QED
      BY <1>4, <3>1, <3>2
  <2>2. \A u \in Threads : Busy(u)' =>
          call'[u].datum \in Data' /\ delivered'[call'[u].datum] = call'[u].form
    BY <1>1, <1>3, <1>4 DEF Calls
  <2>3. \A u, v \in Threads : Busy(u)' /\ Busy(v)' /\ call'[u].datum = call'[v].datum => u = v
    BY <1>3, <1>4 DEF Calls
  <2>q. QED
    BY <2>1, <2>2, <2>3 DEF Calls
<1>8. OnlyDelivered'
  <2>1. ASSUME NEW l \in Logs, NEW i \in 1 .. Len(recorded'[l])
        PROVE  recorded'[l][i].datum \in Data
    <3>1. CASE recorded'[l] = recorded[l]
      BY <3>1 DEF OnlyDelivered
    <3>2. CASE recorded'[l] = Append(recorded[l], Frame(t, l))
      <4>1. \/ i \in 1 .. Len(recorded[l]) /\ recorded'[l][i] = recorded[l][i]
            \/ recorded'[l][i] = Frame(t, l)
        BY <1>5, <3>2
      <4>q. QED
        BY <1>1, <1>5, <4>1 DEF OnlyDelivered
    <3>q. QED
      BY <1>5, <3>1, <3>2
  <2>2. ASSUME NEW p \in Topics, NEW i \in 1 .. Len(published'[p])
        PROVE  published'[p][i] \in Data
    <3>1. published[p] \in Seq(Nat)
      BY DEF TypeOK
    <3>2. \/ i \in 1 .. Len(published[p]) /\ published'[p][i] = published[p][i]
          \/ published'[p][i] = call[t].datum
      <4>1. \/ published'[p] = published[p]
            \/ published'[p] = Append(published[p], call[t].datum)
        BY DEF Does
      <4>q. QED
        BY <1>1, <3>1, <4>1
    <3>q. QED
      BY <1>1, <3>2 DEF OnlyDelivered
  <2>3. ASSUME NEW q \in Queues, NEW i \in 1 .. Len(pushed'[q])
        PROVE  pushed'[q][i] \in Data
    <3>1. pushed[q] \in Seq(Nat)
      BY DEF TypeOK
    <3>2. \/ i \in 1 .. Len(pushed[q]) /\ pushed'[q][i] = pushed[q][i]
          \/ pushed'[q][i] = call[t].datum
      <4>1. \/ pushed'[q] = pushed[q]
            \/ pushed'[q] = Append(pushed[q], call[t].datum)
        BY DEF Does
      <4>q. QED
        BY <1>1, <3>1, <4>1
    <3>q. QED
      BY <1>1, <3>2 DEF OnlyDelivered
  <2>q. QED
    BY <1>1, <2>1, <2>2, <2>3 DEF OnlyDelivered
<1>q. QED
  BY <1>2, <1>3, <1>7, <1>8

\* The elements of a sequence over S are in S.
LEMMA Element ==
    ASSUME NEW S, NEW s \in Seq(S)
    PROVE  \A i \in 1 .. Len(s) : s[i] \in S
  OBVIOUS

\* A step keeps the account of the numbers handed out.
LEMMA DoesIndex ==
    ASSUME TypeOK, NEW t \in Threads, NEW s, Does(t, s), NEW l \in Logs, IndexInv(l)
    PROVE  IndexInv(l)'
<1>1. /\ t \in Holding(l) <=> (s = record(l) /\ data_logger_)
      /\ t \in Holding(l)' <=> (s = number(l) /\ data_logger_)
      /\ \A u \in Threads : u # t => (u \in Holding(l)' <=> u \in Holding(l)) /\ call'[u] = call[u]
  BY HoldingAfter
<1>2. /\ index[l] \in Nat /\ recorded[l] \in Seq([idx : Int, datum : Nat, seen : Nat])
      /\ Len(recorded[l]) \in Nat /\ Holding(l) \subseteq Threads /\ Holding(l)' \subseteq Threads
  BY DEF TypeOK, Holding
<1>3. /\ IsFiniteSet(Indices(l)) /\ Cardinality(Indices(l)) = Len(recorded[l])
      /\ Indices(l) \subseteq 0 .. index[l] - 1
      /\ \A u, v \in Holding(l) : call[u].idx = call[v].idx => u = v
      /\ {call[u].idx : u \in Holding(l)} = (0 .. index[l] - 1) \ Indices(l)
  BY DEF IndexInv
<1>4. \A u \in Holding(l) : call[u].idx \in (0 .. index[l] - 1) \ Indices(l)
  BY <1>3
<1>5. CASE s = number(l) /\ data_logger_
  <2>1. recorded'[l] = recorded[l] /\ index'[l] = index[l] + 1 /\ call'[t].idx = index[l]
    BY <1>5, StepsDiffer DEF Does
  <2>2. Indices(l)' = Indices(l)
    BY <2>1 DEF Indices
  <2>3. Holding(l)' = Holding(l) \cup {t} /\ t \notin Holding(l)
    BY <1>1, <1>2, <1>5, StepsDiffer
  <2>4. ASSUME NEW u \in Holding(l)', NEW v \in Holding(l)', call'[u].idx = call'[v].idx
        PROVE  u = v
    <3>1. ASSUME NEW w \in Holding(l) PROVE call'[w].idx = call[w].idx /\ call[w].idx # index[l]
      <4>1. w \in Threads /\ w # t
        BY <1>2, <2>3
      <4>2. call[w].idx \in 0 .. index[l] - 1
        BY <1>4
      <4>q. QED
        BY <1>1, <1>2, <4>1, <4>2
    <3>q. QED
      BY <1>3, <2>1, <2>3, <2>4, <3>1
  <2>5. {call'[u].idx : u \in Holding(l)'} = {call[u].idx : u \in Holding(l)} \cup {index[l]}
    BY <1>1, <1>2, <2>1, <2>3
  <2>6. (0 .. index[l]) \ Indices(l) = ((0 .. index[l] - 1) \ Indices(l)) \cup {index[l]}
    BY <1>2, <1>3
  <2>7. index'[l] - 1 = index[l] /\ Indices(l) \subseteq 0 .. index[l]
    BY <1>2, <1>3, <2>1
  <2>q. QED
    BY <1>3, <2>1, <2>2, <2>4, <2>5, <2>6, <2>7 DEF IndexInv
<1>6. CASE s = record(l) /\ data_logger_
  <2>1. recorded'[l] = Append(recorded[l], Frame(t, l)) /\ index'[l] = index[l]
    BY <1>6, StepsDiffer DEF Does
  <2>2. Frame(t, l).idx = call[t].idx
    BY DEF Frame
  <2>3. /\ Len(recorded'[l]) = Len(recorded[l]) + 1
        /\ \A i \in 1 .. Len(recorded[l]) : recorded'[l][i] = recorded[l][i]
        /\ recorded'[l][Len(recorded[l]) + 1] = Frame(t, l)
    BY <1>2, <2>1
  <2>4. Indices(l)' = Indices(l) \cup {call[t].idx}
    <3>1. \A i \in 1 .. Len(recorded[l]) + 1 : i \in 1 .. Len(recorded[l]) \/ i = Len(recorded[l]) + 1
      BY <1>2
    <3>2. \A i \in 1 .. Len(recorded[l]) : i \in 1 .. Len(recorded[l]) + 1
      BY <1>2
    <3>3. Len(recorded[l]) + 1 \in 1 .. Len(recorded[l]) + 1
      BY <1>2
    <3>q. QED
      BY <2>2, <2>3, <3>1, <3>2, <3>3 DEF Indices
  <2>5. t \in Holding(l) /\ Holding(l)' = Holding(l) \ {t}
    BY <1>1, <1>2, <1>6, StepsDiffer
  <2>6. call[t].idx \in (0 .. index[l] - 1) \ Indices(l)
    BY <1>4, <2>5
  <2>7. IsFiniteSet(Indices(l)') /\ Cardinality(Indices(l)') = Len(recorded[l]) + 1
    BY <1>3, <2>4, <2>6, FS_AddElement
  <2>8. \A u \in Holding(l)' : call'[u].idx = call[u].idx /\ call[u].idx # call[t].idx
    BY <1>1, <1>2, <1>3, <2>5
  <2>9. {call'[u].idx : u \in Holding(l)'} = {call[u].idx : u \in Holding(l)} \ {call[t].idx}
    BY <2>5, <2>8
  <2>10. \A u, v \in Holding(l)' : call'[u].idx = call'[v].idx => u = v
    BY <1>3, <2>5, <2>8
  <2>11. (0 .. index[l] - 1) \ (Indices(l) \cup {call[t].idx})
            = ((0 .. index[l] - 1) \ Indices(l)) \ {call[t].idx}
    OBVIOUS
  <2>12. {call'[u].idx : u \in Holding(l)'} = (0 .. index'[l] - 1) \ Indices(l)'
    BY <1>3, <2>1, <2>4, <2>9, <2>11
  <2>13. Indices(l)' \subseteq 0 .. index'[l] - 1
    BY <1>3, <2>1, <2>4, <2>6
  <2>14. Cardinality(Indices(l)') = Len(recorded'[l])
    BY <2>3, <2>7
  <2>q. QED
    BY <2>7, <2>10, <2>12, <2>13, <2>14 DEF IndexInv
<1>7. CASE ~(s = number(l) /\ data_logger_) /\ ~(s = record(l) /\ data_logger_)
  <2>1. recorded'[l] = recorded[l] /\ index'[l] = index[l]
    BY <1>7 DEF Does
  <2>2. Indices(l)' = Indices(l)
    BY <2>1 DEF Indices
  <2>3. /\ Holding(l)' = Holding(l)
        /\ \A u \in Holding(l) : call'[u].idx = call[u].idx
    <3>1. t \notin Holding(l) /\ t \notin Holding(l)'
      BY <1>1, <1>7
    <3>2. \A u \in Threads : u \in Holding(l)' <=> u \in Holding(l)
      BY <1>1, <3>1
    <3>3. Holding(l)' = Holding(l)
      BY <1>2, <3>2
    <3>4. \A u \in Holding(l) : call'[u] = call[u]
      BY <1>1, <1>2, <3>1
    <3>q. QED
      BY <3>3, <3>4
  <2>q. QED
    BY <1>3, <2>1, <2>2, <2>3 DEF IndexInv
<1>q. QED
  BY <1>5, <1>6, <1>7

\* A step keeps that a handler has higher numbers than what it saw at its start.
LEMMA DoesOvertake ==
    ASSUME TypeOK, Calls, NEW t \in Threads, NEW s, Does(t, s), NEW l \in Logs,
           IndexInv(l), OvertakeInv(l)
    PROVE  OvertakeInv(l)'
<1>1. /\ t \in Holding(l) <=> (s = record(l) /\ data_logger_)
      /\ t \in Holding(l)' <=> (s = number(l) /\ data_logger_)
      /\ \A u \in Threads : u # t => (u \in Holding(l)' <=> u \in Holding(l)) /\ call'[u] = call[u]
  BY HoldingAfter
<1>2. /\ index[l] \in Nat /\ recorded[l] \in Seq([idx : Int, datum : Nat, seen : Nat])
      /\ Len(recorded[l]) \in Nat /\ Holding(l) \subseteq Threads /\ Holding(l)' \subseteq Threads
      /\ \A u \in Threads : call[u].seen[l] \in Nat /\ call[u].idx \in Int
  BY DEF TypeOK, Holding
<1>3. /\ \A i \in 1 .. Len(recorded[l]) :
            /\ recorded[l][i].seen <= Len(recorded[l]) /\ recorded[l][i].seen \in Nat
            /\ \A j \in 1 .. recorded[l][i].seen : recorded[l][j].idx < recorded[l][i].idx
      /\ \A u \in Holding(l) : \A j \in 1 .. call[u].seen[l] : recorded[l][j].idx < call[u].idx
  <2>1. recorded[l] \in Seq([idx : Int, datum : Nat, seen : Nat])
    BY <1>2
  <2>2. \A i \in 1 .. Len(recorded[l]) : recorded[l][i] \in [idx : Int, datum : Nat, seen : Nat]
    BY <2>1, Element
  <2>3. \A i \in 1 .. Len(recorded[l]) : recorded[l][i].seen \in Nat
    BY <2>2
  <2>q. QED
    BY <2>3 DEF OvertakeInv
<1>4. \A u \in Holding(l) \cup {t} : call[u].seen[l] <= Len(recorded[l])
  <2>1. \A u \in Holding(l) \cup {t} : u \in Threads /\ Busy(u)
    BY DEF Does, Reaches, Holding, At
  <2>q. QED
    BY <2>1 DEF Calls
<1>5. call'[t].seen = call[t].seen
  BY DEF Does
<1>6. CASE ~(s = record(l) /\ data_logger_)
  <2>1. recorded'[l] = recorded[l]
    BY <1>6 DEF Does
  <2>2. ASSUME NEW u \in Holding(l)', NEW j \in 1 .. call'[u].seen[l]
        PROVE  recorded[l][j].idx < call'[u].idx
    <3>1. CASE u = t
      <4>1. call'[t].idx = index[l]
        BY <1>1, <2>2, <3>1 DEF Does
      <4>2. j \in 1 .. Len(recorded[l])
        BY <1>2, <1>4, <1>5, <3>1
      <4>3. recorded[l][j].idx \in 0 .. index[l] - 1
        BY <4>2 DEF IndexInv, Indices
      <4>q. QED
        BY <1>2, <3>1, <4>1, <4>3
    <3>2. CASE u # t
      BY <1>1, <1>2, <1>3, <3>2
    <3>q. QED
      BY <3>1, <3>2
  <2>q. QED
    BY <1>3, <2>1, <2>2 DEF OvertakeInv
<1>7. CASE s = record(l) /\ data_logger_
  <2>1. recorded'[l] = Append(recorded[l], Frame(t, l))
    BY <1>7 DEF Does
  <2>2. Frame(t, l).idx = call[t].idx /\ Frame(t, l).seen = call[t].seen[l]
    BY DEF Frame
  <2>3. /\ Len(recorded'[l]) = Len(recorded[l]) + 1
        /\ \A i \in 1 .. Len(recorded[l]) : recorded'[l][i] = recorded[l][i]
        /\ recorded'[l][Len(recorded[l]) + 1] = Frame(t, l)
        /\ \A i \in 1 .. Len(recorded'[l]) : i \in 1 .. Len(recorded[l]) \/ i = Len(recorded[l]) + 1
    BY <1>2, <2>1
  <2>4. t \in Holding(l) /\ \A u \in Holding(l)' : u \in Holding(l) /\ call'[u] = call[u]
    BY <1>1, <1>2, <1>7, StepsDiffer
  <2>5. \A n \in Nat : n <= Len(recorded[l]) =>
          n <= Len(recorded'[l]) /\ \A j \in 1 .. n : recorded'[l][j] = recorded[l][j]
    BY <1>2, <2>3
  <2>6. ASSUME NEW i \in 1 .. Len(recorded'[l])
        PROVE  /\ recorded'[l][i].seen <= Len(recorded'[l])
               /\ \A j \in 1 .. recorded'[l][i].seen : recorded'[l][j].idx < recorded'[l][i].idx
    <3>1. CASE i \in 1 .. Len(recorded[l])
      <4>1. /\ recorded'[l][i] = recorded[l][i]
            /\ recorded[l][i].seen <= Len(recorded[l]) /\ recorded[l][i].seen \in Nat
            /\ \A j \in 1 .. recorded[l][i].seen : recorded[l][j].idx < recorded[l][i].idx
        BY <1>3, <2>3, <3>1
      <4>q. QED
        BY <2>5, <4>1
    <3>2. CASE i = Len(recorded[l]) + 1
      <4>1. /\ recorded'[l][i].seen = call[t].seen[l] /\ recorded'[l][i].idx = call[t].idx
            /\ call[t].seen[l] \in Nat /\ call[t].seen[l] <= Len(recorded[l])
        BY <1>2, <1>4, <2>2, <2>3, <2>4, <3>2
      <4>2. \A j \in 1 .. call[t].seen[l] : recorded[l][j].idx < call[t].idx
        BY <1>3, <2>4
      <4>q. QED
        BY <2>5, <4>1, <4>2
    <3>q. QED
      BY <2>3, <3>1, <3>2
  <2>7. ASSUME NEW u \in Holding(l)', NEW j \in 1 .. call'[u].seen[l]
        PROVE  recorded'[l][j].idx < call'[u].idx
    <3>1. /\ call[u].seen[l] \in Nat /\ call[u].seen[l] <= Len(recorded[l])
          /\ call'[u] = call[u] /\ u \in Holding(l)
      BY <1>2, <1>4, <2>4
    <3>q. QED
      BY <1>3, <2>5, <2>7, <3>1
  <2>q. QED
    BY <2>6, <2>7 DEF OvertakeInv
<1>q. QED
  BY <1>6, <1>7

\* Appending a datum makes it occur once more, and leaves the others alone.
LEMMA AppendOnce ==
    ASSUME NEW s \in Seq(Nat), NEW d, NEW e \in Nat
    PROVE  /\ e = d /\ Never(s, d) => Once(Append(s, e), d)
           /\ e # d /\ Never(s, d) => Never(Append(s, e), d)
           /\ e # d /\ Once(s, d) => Once(Append(s, e), d)
<1>1. /\ Len(Append(s, e)) = Len(s) + 1 /\ Len(s) \in Nat
      /\ \A i \in 1 .. Len(s) : Append(s, e)[i] = s[i] /\ i \in 1 .. Len(s) + 1
      /\ Append(s, e)[Len(s) + 1] = e /\ Len(s) + 1 \in 1 .. Len(s) + 1
      /\ \A i \in 1 .. Len(s) + 1 : i \in 1 .. Len(s) \/ i = Len(s) + 1
  OBVIOUS
<1>2. Len(s) + 1 \notin 1 .. Len(s)
  BY <1>1
<1> DEFINE r == Append(s, e)
<1> HIDE DEF r
<1>a. /\ Len(r) = Len(s) + 1
      /\ \A i \in 1 .. Len(s) : r[i] = s[i] /\ i \in 1 .. Len(r)
      /\ r[Len(s) + 1] = e /\ Len(s) + 1 \in 1 .. Len(r)
      /\ \A i \in 1 .. Len(r) : i \in 1 .. Len(s) \/ i = Len(s) + 1
  BY <1>1 DEF r
<1>3. ASSUME e = d, Never(s, d)
      PROVE  Once(r, d)
  <2>1. ASSUME NEW j \in 1 .. Len(r)
        PROVE  (r[j] = d) <=> (j = Len(s) + 1)
    BY <1>2, <1>3, <1>a DEF Never
  <2>q. QED
    BY <1>a, <2>1 DEF Once
<1>4. e # d /\ Never(s, d) => Never(r, d)
  BY <1>a DEF Never
<1>5. ASSUME e # d, Once(s, d)
      PROVE  Once(r, d)
  <2>1. PICK i \in 1 .. Len(s) : \A j \in 1 .. Len(s) : s[j] = d <=> j = i
    BY <1>5 DEF Once
  <2>2. ASSUME NEW j \in 1 .. Len(r)
        PROVE  (r[j] = d) <=> (j = i)
    BY <1>2, <1>5, <1>a, <2>1
  <2>q. QED
    BY <1>a, <2>1, <2>2 DEF Once
<1>q. QED
  BY <1>3, <1>4, <1>5 DEF r

\* A log and a frame that may be added to it.
LEMMA AppendInLog ==
    ASSUME NEW s \in Seq([idx : Int, datum : Nat, seen : Nat]), NEW f, NEW d
    PROVE  Has(Append(s, f), d) <=> Has(s, d) \/ f.datum = d
<1>1. /\ Len(Append(s, f)) = Len(s) + 1 /\ Len(s) \in Nat
      /\ \A i \in 1 .. Len(s) : Append(s, f)[i] = s[i] /\ i \in 1 .. Len(s) + 1
      /\ Append(s, f)[Len(s) + 1] = f /\ Len(s) + 1 \in 1 .. Len(s) + 1
      /\ \A i \in 1 .. Len(s) + 1 : i \in 1 .. Len(s) \/ i = Len(s) + 1
  OBVIOUS
<1>q. QED
  BY <1>1 DEF Has

\* Where thread t is in its handler, and what of its datum can be seen.
LEMMA AtStep ==
    ASSUME TypeOK, Calls, Progress, NEW t \in Threads, NEW s, Does(t, s)
    PROVE  LET d == call[t].datum
               h == Handler[call[t].form]
               k == call[t].pos IN
           /\ d \in Data /\ d \in Nat /\ delivered[d] = call[t].form
           /\ Shape(h, call[t].form) /\ Len(h) \in Nat /\ k \in 1 .. Len(h) /\ h[k] = s
           /\ Came(d, k) /\ ~Did(d, k, s)
<1> DEFINE d == call[t].datum
           h == Handler[call[t].form]
           k == call[t].pos
<1>1. /\ call[t].form \in Forms /\ k \in Nat \ {0} /\ d \in Nat
  BY DEF TypeOK
<1>2. Shape(h, call[t].form)
  BY <1>1, Shapes
<1>3. Len(h) \in Nat
  BY <1>2 DEF Shape
<1>4. Busy(t) /\ k <= Len(h) /\ h[k] = s
  BY DEF Does, Reaches, Busy
<1>5. d \in Data /\ delivered[d] = call[t].form
  BY <1>4 DEF Calls
<1>6. PICK n \in Nat : Came(d, n)
  BY <1>5 DEF Progress
<1>7. n = k
  BY <1>4, <1>6 DEF Came
<1>8. k \in 1 .. Len(h)
  BY <1>1, <1>3, <1>4
<1>9. ~Did(d, k, s)
  <2> SUFFICES ASSUME NEW i \in 1 .. k - 1, h[i] = s
               PROVE  FALSE
    BY <1>5 DEF Did
  <2>1. i \in 1 .. Len(h) /\ i # k
    BY <1>1, <1>3, <1>8
  <2>q. QED
    BY <1>2, <1>4, <1>8, <2>1 DEF Shape
<1>q. QED
  BY <1>1, <1>2, <1>3, <1>4, <1>5, <1>6, <1>7, <1>8, <1>9

\* The other data: nothing changes.
LEMMA DoesOther ==
    ASSUME TypeOK, Calls, OnlyDelivered, NEW t \in Threads, NEW s, Does(t, s),
           NEW d \in Data, d # call[t].datum, NEW n \in Nat, Came(d, n)
    PROVE  Came(d, n)'
<1>1. /\ \A u \in Threads : Busy(u)' => Busy(u)
      /\ \A u \in Threads : u # t => (Busy(u)' <=> Busy(u)) /\ call'[u] = call[u]
  BY DoesCalls
<1>2. call'[t].datum = call[t].datum /\ delivered' = delivered /\ data_logger_' = data_logger_
  BY DEF Does
<1>3. \A step : Did(d, n, step)' <=> Did(d, n, step)
  BY <1>2 DEF Did
<1>4. (n \in 1 .. Len(Handler[delivered[d]]) + 1)'
  BY <1>2 DEF Came
<1>5. (\A u \in Threads : Busy(u) /\ call[u].datum = d => n = call[u].pos)'
  BY <1>1, <1>2 DEF Came
<1>6. Returned(d)' => Returned(d)
  BY <1>1, <1>2 DEF Returned
<1>7. ASSUME NEW p \in Topics
      PROVE  IF Did(d, n, On(p))' THEN Once(published'[p], d) ELSE Never(published'[p], d)
  <2>1. published[p] \in Seq(Nat) /\ call[t].datum \in Nat
    BY DEF TypeOK
  <2>2. published'[p] = published[p] \/ published'[p] = Append(published[p], call[t].datum)
    BY DEF Does
  <2>3. IF Did(d, n, On(p)) THEN Once(published[p], d) ELSE Never(published[p], d)
    BY DEF Came
  <2>4. /\ Once(published[p], d) => Once(published'[p], d)
        /\ Never(published[p], d) => Never(published'[p], d)
    BY <2>1, <2>2, AppendOnce
  <2>q. QED
    BY <1>3, <2>3, <2>4
<1>8. ASSUME NEW q \in Queues
      PROVE  Did(d, n, Into(q))' \/ Never(pushed'[q], d)
  <2>1. pushed[q] \in Seq(Nat) /\ call[t].datum \in Nat
    BY DEF TypeOK
  <2>2. pushed'[q] = pushed[q] \/ pushed'[q] = Append(pushed[q], call[t].datum)
    BY DEF Does
  <2>3. Did(d, n, Into(q)) \/ Never(pushed[q], d)
    BY DEF Came
  <2>4. Never(pushed[q], d) => Never(pushed'[q], d)
    BY <2>1, <2>2, AppendOnce
  <2>q. QED
    BY <1>3, <2>3, <2>4
<1>9. ASSUME NEW l \in Logs
      PROVE  IF Did(d, n, record(l))' THEN data_logger_' => InLog(l, d)' ELSE ~InLog(l, d)'
  <2>1. recorded[l] \in Seq([idx : Int, datum : Nat, seen : Nat])
    BY DEF TypeOK
  <2>2. recorded'[l] = recorded[l] \/ recorded'[l] = Append(recorded[l], Frame(t, l))
    BY DEF Does
  <2>3. IF Did(d, n, record(l)) THEN data_logger_ => InLog(l, d) ELSE ~InLog(l, d)
    BY DEF Came
  <2>4. Frame(t, l).datum # d
    BY DEF Frame
  <2>5. InLog(l, d)' <=> InLog(l, d)
    <3>1. CASE recorded'[l] = recorded[l]
      BY <3>1 DEF InLog
    <3>2. CASE recorded'[l] = Append(recorded[l], Frame(t, l))
      <4>1. Has(Append(recorded[l], Frame(t, l)), d) <=> Has(recorded[l], d)
        BY <2>1, <2>4, AppendInLog
      <4>q. QED
        BY <3>2, <4>1 DEF InLog
    <3>q. QED
      BY <2>2, <3>1, <3>2
  <2>q. QED
    BY <1>2, <1>3, <2>3, <2>5
<1>10. Returned(d)' => (\/ n = Len(Handler[delivered[d]]) + 1
                        \/ Handler[delivered[d]][n] = encode /\ d \in thrown)'
  <2>1. thrown \subseteq thrown'
    BY DEF Does
  <2>q. QED
    BY <1>2, <1>6, <2>1 DEF Came
<1>q. QED
  BY <1>4, <1>5, <1>7, <1>8, <1>9, <1>10 DEF Came

\* The datum of the thread: its handler comes to the next step, or stays at the
\* encoder that threw.
LEMMA DoesOwn ==
    ASSUME TypeOK, Calls, Progress, OnlyDelivered, NEW t \in Threads, NEW s, Does(t, s),
           NEW d, d = call[t].datum, NEW k, k = call[t].pos
    PROVE  \E n \in Nat : Came(d, n)'
<1> DEFINE h == Handler[call[t].form]
<1>1. /\ d \in Data /\ d \in Nat /\ delivered[d] = call[t].form
      /\ Shape(h, call[t].form) /\ Len(h) \in Nat /\ k \in 1 .. Len(h) /\ h[k] = s
      /\ Came(d, k) /\ ~Did(d, k, s)
  BY AtStep
<1>2. \A u \in Threads : Busy(u)' => Busy(u)
  BY DoesCalls
<1>3. /\ call'[t].datum = d /\ call'[t].form = call[t].form
      /\ delivered' = delivered /\ data_logger_' = data_logger_
      /\ \A u \in Threads : u # t => call'[u] = call[u]
  BY DEF Does
<1>4. \A u \in Threads : Busy(u)' /\ call'[u].datum = d => u = t
  <2>1. Busy(t)
    BY DEF Does, Reaches
  <2>2. \A u \in Threads : call'[u].datum = call[u].datum
    BY <1>3
  <2>q. QED
    BY <1>2, <2>1, <2>2 DEF Calls
<1>5. Busy(t)' <=> call'[t].pos <= Len(h)
  BY <1>3 DEF Busy
<1>6. /\ \A p \in Topics : IF Did(d, k, On(p)) THEN Once(published[p], d) ELSE Never(published[p], d)
      /\ \A q \in Queues : Did(d, k, Into(q)) \/ Never(pushed[q], d)
      /\ \A l \in Logs :
            IF Did(d, k, record(l)) THEN data_logger_ => InLog(l, d) ELSE ~InLog(l, d)
  BY <1>1 DEF Came
<1>7. CASE call'[t].pos = k + 1
  <2>1. k + 1 \in Nat /\ k + 1 \in 1 .. Len(h) + 1
    BY <1>1
  <2>2. \A step : Did(d, k + 1, step)' <=> Did(d, k, step) \/ s = step
    <3>1. 1 .. k + 1 - 1 = 1 .. k - 1 \cup {k}
      BY <1>1
    <3>q. QED
      BY <1>1, <1>3, <3>1 DEF Did
  <2>3. \A u \in Threads : Busy(u)' /\ call'[u].datum = d => k + 1 = call'[u].pos
    BY <1>4, <1>7
  <2>4. Returned(d)' => k + 1 = Len(h) + 1
    BY <1>1, <1>3, <1>5, <1>7, <2>1 DEF Returned
  <2>5. ASSUME NEW p \in Topics
        PROVE  IF Did(d, k + 1, On(p))' THEN Once(published'[p], d) ELSE Never(published'[p], d)
    <3>1. published[p] \in Seq(Nat)
      BY DEF TypeOK
    <3>2. CASE s = On(p)
      <4>1. published'[p] = Append(published[p], d)
        BY <3>2 DEF Does
      <4>2. Never(published[p], d)
        BY <1>1, <1>6, <3>2
      <4>q. QED
        BY <1>1, <2>2, <3>1, <3>2, <4>1, <4>2, AppendOnce
    <3>3. CASE s # On(p)
      <4>1. published'[p] = published[p]
        BY <3>3 DEF Does
      <4>q. QED
        BY <1>6, <2>2, <3>3, <4>1
    <3>q. QED
      BY <3>2, <3>3
  <2>6. ASSUME NEW q \in Queues
        PROVE  Did(d, k + 1, Into(q))' \/ Never(pushed'[q], d)
    <3>1. s = Into(q) \/ pushed'[q] = pushed[q]
      BY DEF Does
    <3>q. QED
      BY <1>6, <2>2, <3>1
  <2>7. ASSUME NEW l \in Logs
        PROVE  IF Did(d, k + 1, record(l))' THEN data_logger_' => InLog(l, d)' ELSE ~InLog(l, d)'
    <3>1. CASE s = record(l) /\ data_logger_
      <4>1. recorded[l] \in Seq([idx : Int, datum : Nat, seen : Nat])
        BY DEF TypeOK
      <4>2. Frame(t, l).datum = d
        BY DEF Frame
      <4>3. Has(Append(recorded[l], Frame(t, l)), d)
        BY <4>1, <4>2, AppendInLog
      <4>4. InLog(l, d)'
        BY <3>1, <4>3 DEF Does, InLog
      <4>q. QED
        BY <2>2, <3>1, <4>4
    <3>2. CASE ~(s = record(l) /\ data_logger_)
      <4>1. recorded'[l] = recorded[l]
        BY <3>2 DEF Does
      <4>2. InLog(l, d)' <=> InLog(l, d)
        BY <4>1 DEF InLog
      <4>q. QED
        BY <1>3, <1>6, <2>2, <3>2, <4>2
    <3>q. QED
      BY <3>1, <3>2
  <2>8. Came(d, k + 1)'
    BY <1>1, <1>3, <2>1, <2>3, <2>4, <2>5, <2>6, <2>7 DEF Came
  <2>q. QED
    BY <2>1, <2>8
<1>8. CASE s = encode /\ call'[t].pos = Len(h) + 1 /\ thrown' = thrown \cup {d}
  <2>1. ~Busy(t)'
    BY <1>1, <1>5, <1>8
  <2>2. \A step : Did(d, k, step)' <=> Did(d, k, step)
    BY <1>3 DEF Did
  <2>3. /\ \A p \in Topics : published'[p] = published[p]
        /\ \A q \in Queues : pushed'[q] = pushed[q]
        /\ \A l \in Logs : recorded'[l] = recorded[l]
    BY <1>8, StepsDiffer DEF Does
  <2>4. \A l \in Logs : InLog(l, d)' <=> InLog(l, d)
    BY <2>3 DEF InLog
  <2>5. /\ k \in 1 .. Len(Handler[delivered'[d]]) + 1
        /\ Handler[delivered'[d]][k] = encode /\ d \in thrown'
    BY <1>1, <1>3, <1>8
  <2>6. \A u \in Threads : Busy(u)' /\ call'[u].datum = d => k = call'[u].pos
    BY <1>4, <2>1
  <2>7. Came(d, k)'
    BY <1>3, <1>6, <2>2, <2>3, <2>4, <2>5, <2>6 DEF Came
  <2>q. QED
    BY <1>1, <2>7
<1>q. QED
  BY <1>7, <1>8 DEF Does

\* After a step, what is out of a datum is what its handler did so far.
LEMMA DoesProgress ==
    ASSUME TypeOK, Calls, Progress, OnlyDelivered, NEW t \in Threads, NEW s, Does(t, s)
    PROVE  Progress'
<1>1. Data' = Data
  BY DEF Does, Data
<1>2. ASSUME NEW d \in Data
      PROVE  \E n \in Nat : Came(d, n)'
  <2>1. CASE d = call[t].datum
    BY <2>1, DoesOwn
  <2>2. CASE d # call[t].datum
    <3>1. PICK n \in Nat : Came(d, n)
      BY DEF Progress
    <3>q. QED
      BY <2>2, <3>1, DoesOther
  <2>q. QED
    BY <2>1, <2>2
<1>q. QED
  BY <1>1, <1>2 DEF Progress

\* With one datum of a stream at a time, a thread that comes to a step of its
\* stream is the only one, and its datum is later than all that are out.
LEMMA DoesOrder ==
    ASSUME TypeOK, OnlyDelivered, NEW t \in Threads, NEW s, Does(t, s),
           NEW d \in Nat, d = call[t].datum, delivered[d] = call[t].form, SerialInv,
           NEW q \in Seq(Nat), NEW stream, InOrder(q, stream), Stream(call[t].form) = stream,
           \A i \in 1 .. Len(q) : q[i] \in Data, Never(q, d)
    PROVE  InOrder(Append(q, d), stream)
<1>1. \A i \in 1 .. Len(q) : q[i] < d
  <2> SUFFICES ASSUME NEW i \in 1 .. Len(q)
               PROVE  q[i] < d
    OBVIOUS
  <2>1. Busy(t)
    BY DEF Does, Reaches
  <2>2. q[i] \in Data /\ Stream(delivered[q[i]]) = stream
    BY DEF InOrder
  <2>3. q[i] <= d
    BY <2>1, <2>2 DEF SerialInv
  <2>4. q[i] # d
    BY DEF Never
  <2>5. q[i] \in Nat
    BY <2>2 DEF Data
  <2>q. QED
    BY <2>3, <2>4, <2>5
<1> DEFINE r == Append(q, d)
<1>2. /\ Len(r) = Len(q) + 1 /\ Len(q) \in Nat /\ r[Len(q) + 1] = d
      /\ \A i \in 1 .. Len(q) : r[i] = q[i]
      /\ \A i \in 1 .. Len(r) : i \in 1 .. Len(q) \/ i = Len(q) + 1
  OBVIOUS
<1> HIDE DEF r
<1>3. ASSUME NEW i \in 1 .. Len(r) PROVE Stream(delivered[r[i]]) = stream
  BY <1>2 DEF InOrder
<1>4. ASSUME NEW i \in 1 .. Len(r), NEW j \in 1 .. Len(r), i < j PROVE r[i] < r[j]
  <2>1. i \in 1 .. Len(q)
    BY <1>2, <1>4
  <2>2. CASE j \in 1 .. Len(q)
    BY <1>2, <1>4, <2>1, <2>2 DEF InOrder
  <2>3. CASE j = Len(q) + 1
    BY <1>1, <1>2, <2>1, <2>3
  <2>q. QED
    BY <1>2, <2>2, <2>3
<1>q. QED
  BY <1>3, <1>4 DEF InOrder, r

\* With one datum of a stream at a time a log grows in the order of delivery.
LEMMA DoesLogOrder ==
    ASSUME TypeOK, Calls, OnlyDelivered, Progress, SerialInv,
           NEW t \in Threads, NEW s, Does(t, s), NEW l \in Logs
    PROVE  LogOrder(l)'
<1>1. /\ t \in Holding(l) <=> (s = record(l) /\ data_logger_)
      /\ t \in Holding(l)' <=> (s = number(l) /\ data_logger_)
      /\ \A u \in Threads : u # t => (u \in Holding(l)' <=> u \in Holding(l)) /\ call'[u] = call[u]
  BY HoldingAfter
<1>2. /\ index[l] \in Nat /\ recorded[l] \in Seq([idx : Int, datum : Nat, seen : Nat])
      /\ Len(recorded[l]) \in Nat /\ Holding(l) \subseteq Threads /\ Holding(l)' \subseteq Threads
  BY DEF TypeOK, Holding
<1>3. LogOrder(l)
  BY DEF SerialInv
<1>4. delivered' = delivered
  BY DEF Does
<1>5. \A u \in Holding(l) : Busy(u) /\ Stream(call[u].form) = LogStream[l]
  <2> SUFFICES ASSUME NEW u \in Holding(l)
               PROVE  Busy(u) /\ Stream(call[u].form) = LogStream[l]
    OBVIOUS
  <2>1. /\ Busy(u) /\ Handler[call[u].form][call[u].pos] = record(l) /\ u \in Threads
        /\ call[u].pos <= Len(Handler[call[u].form])
    BY DEF Holding, At, Reaches, Busy
  <2>2. call[u].form \in Forms /\ call[u].pos \in Nat \ {0}
    BY <2>1 DEF TypeOK
  <2>3. Shape(Handler[call[u].form], call[u].form)
    BY <2>2, Shapes
  <2>4. Len(Handler[call[u].form]) \in Nat
    BY <2>3 DEF Shape
  <2>5. call[u].pos \in 1 .. Len(Handler[call[u].form])
    BY <2>1, <2>2, <2>4
  <2>q. QED
    BY <2>1, <2>3, <2>5 DEF Shape
<1>6. /\ call[t].datum \in Data /\ call[t].datum \in Nat
      /\ delivered[call[t].datum] = call[t].form
      /\ Shape(Handler[call[t].form], call[t].form)
      /\ call[t].pos \in 1 .. Len(Handler[call[t].form])
      /\ Handler[call[t].form][call[t].pos] = s
      /\ Came(call[t].datum, call[t].pos) /\ ~Did(call[t].datum, call[t].pos, s)
  BY AtStep
<1>7. s = record(l) \/ s = number(l) => Stream(call[t].form) = LogStream[l]
  BY <1>6 DEF Shape
<1>8. s = record(l) \/ s = number(l) => \A u \in Holding(l) : u = t
  <2>1. Busy(t)
    BY DEF Does, Reaches
  <2>q. QED
    BY <1>2, <1>5, <1>7, <2>1 DEF SerialInv
<1>9. CASE s = number(l) /\ data_logger_
  <2>1. recorded'[l] = recorded[l] /\ index'[l] = index[l] + 1 /\ call'[t].idx = index[l]
    BY <1>9, StepsDiffer DEF Does
  <2>2. Holding(l) = {} /\ Holding(l)' = {t}
    BY <1>1, <1>2, <1>8, <1>9, StepsDiffer
  <2>3. index[l] = Len(recorded[l])
    BY <1>3, <2>2 DEF LogOrder
  <2>q. QED
    BY <1>2, <1>3, <1>4, <2>1, <2>2, <2>3 DEF LogOrder
<1>10. CASE s = record(l) /\ data_logger_
  <2> DEFINE r == Append(recorded[l], Frame(t, l))
             m == Len(recorded[l]) + 1
  <2>1. recorded'[l] = r /\ index'[l] = index[l]
    BY <1>10, StepsDiffer DEF Does
  <2>2. t \in Holding(l) /\ Holding(l)' = {}
    BY <1>1, <1>2, <1>8, <1>10, StepsDiffer
  <2>3. call[t].idx = Len(recorded[l]) /\ index[l] = m
    BY <1>3, <2>2 DEF LogOrder
  <2>4. Frame(t, l).idx = call[t].idx /\ Frame(t, l).datum = call[t].datum
    BY DEF Frame
  <2>5. /\ Len(r) = m /\ r[m] = Frame(t, l) /\ m \in Nat /\ m - 1 = Len(recorded[l])
        /\ \A i \in 1 .. Len(recorded[l]) : r[i] = recorded[l][i]
        /\ \A i \in 1 .. Len(r) : i \in 1 .. Len(recorded[l]) \/ i = m
    BY <1>2
  <2>6. ASSUME NEW i \in 1 .. Len(recorded[l])
        PROVE  recorded[l][i].datum < call[t].datum
    <3>1. recorded[l][i].datum \in Data /\ Stream(delivered[recorded[l][i].datum]) = LogStream[l]
      BY <1>3 DEF OnlyDelivered, LogOrder
    <3>2. Busy(t)
      BY DEF Does, Reaches
    <3>3. recorded[l][i].datum <= call[t].datum
      BY <1>7, <1>10, <3>1, <3>2 DEF SerialInv
    <3>4. ~InLog(l, call[t].datum)
      BY <1>6, <1>10 DEF Came
    <3>5. recorded[l][i].datum # call[t].datum
      BY <3>4 DEF InLog, Has
    <3>6. recorded[l][i].datum \in Nat
      BY <3>1 DEF Data
    <3>q. QED
      BY <1>6, <3>3, <3>5, <3>6
  <2> HIDE DEF r, m
  <2>7. ASSUME NEW i \in 1 .. Len(r)
        PROVE  Stream(delivered[r[i].datum]) = LogStream[l] /\ r[i].idx = i - 1
    <3>1. CASE i \in 1 .. Len(recorded[l])
      BY <1>3, <2>5, <3>1 DEF LogOrder
    <3>2. CASE i = m
      BY <1>6, <1>7, <1>10, <2>3, <2>4, <2>5, <3>2
    <3>q. QED
      BY <2>5, <3>1, <3>2
  <2>8. ASSUME NEW i \in 1 .. Len(r), NEW j \in 1 .. Len(r), i < j
        PROVE  r[i].datum < r[j].datum
    <3>1. i \in 1 .. Len(recorded[l])
      BY <2>5, <2>8 DEF m
    <3>2. CASE j \in 1 .. Len(recorded[l])
      BY <1>3, <2>5, <2>8, <3>1, <3>2 DEF LogOrder
    <3>3. CASE j = m
      BY <2>4, <2>5, <2>6, <3>1, <3>3
    <3>q. QED
      BY <2>5, <3>2, <3>3
  <2>9. index'[l] = Len(recorded'[l])
    BY <2>1, <2>3, <2>5
  <2>q. QED
    BY <1>4, <2>1, <2>2, <2>7, <2>8, <2>9 DEF LogOrder
<1>11. CASE ~(s = number(l) /\ data_logger_) /\ ~(s = record(l) /\ data_logger_)
  <2>1. recorded'[l] = recorded[l] /\ index'[l] = index[l]
    BY <1>11 DEF Does
  <2>2. /\ Holding(l)' = Holding(l)
        /\ \A u \in Holding(l) : call'[u] = call[u]
    <3>1. t \notin Holding(l) /\ t \notin Holding(l)'
      BY <1>1, <1>11
    <3>2. \A u \in Threads : u \in Holding(l)' <=> u \in Holding(l)
      BY <1>1, <3>1
    <3>3. Holding(l)' = Holding(l)
      BY <1>2, <3>2
    <3>4. \A u \in Holding(l) : call'[u] = call[u]
      BY <1>1, <1>2, <3>1
    <3>q. QED
      BY <3>3, <3>4
  <2>q. QED
    BY <1>3, <1>4, <2>1, <2>2 DEF LogOrder
<1>q. QED
  BY <1>9, <1>10, <1>11

\* So do the topics and the queues.
LEMMA DoesSerial ==
    ASSUME TypeOK, Calls, OnlyDelivered, Progress, SerialInv,
           NEW t \in Threads, NEW s, Does(t, s)
    PROVE  SerialInv'
<1>1. /\ \A u \in Threads : Busy(u)' => Busy(u)
      /\ \A u \in Threads : u # t => (Busy(u)' <=> Busy(u)) /\ call'[u] = call[u]
  BY DoesCalls
<1>2. /\ delivered' = delivered /\ Data' = Data
      /\ \A u \in Threads : call'[u].form = call[u].form /\ call'[u].datum = call[u].datum
  BY <1>1 DEF Does, Data
<1>3. /\ call[t].datum \in Data /\ call[t].datum \in Nat
      /\ delivered[call[t].datum] = call[t].form
      /\ Shape(Handler[call[t].form], call[t].form)
      /\ call[t].pos \in 1 .. Len(Handler[call[t].form])
      /\ Handler[call[t].form][call[t].pos] = s
      /\ Came(call[t].datum, call[t].pos) /\ ~Did(call[t].datum, call[t].pos, s)
  BY AtStep
<1>4. (\A u, v \in Threads :
          Busy(u) /\ Busy(v) /\ Stream(call[u].form) = Stream(call[v].form) => u = v)'
  BY <1>1, <1>2 DEF SerialInv
<1>5. (\A u \in Threads : Busy(u) =>
          \A d \in Data : Stream(delivered[d]) = Stream(call[u].form) => d <= call[u].datum)'
  BY <1>1, <1>2 DEF SerialInv
<1>6. \A l \in Logs : LogOrder(l)'
  BY DoesLogOrder
<1>7. ASSUME NEW p \in Topics
      PROVE  InOrder(published'[p], TopicStream[p])
  <2>1. InOrder(published[p], TopicStream[p]) /\ published[p] \in Seq(Nat)
    BY DEF SerialInv, TypeOK
  <2>2. CASE s = On(p)
    <3>1. Stream(call[t].form) = TopicStream[p]
      BY <1>3, <2>2 DEF Shape
    <3>2. Never(published[p], call[t].datum)
      BY <1>3, <2>2 DEF Came
    <3>3. \A i \in 1 .. Len(published[p]) : published[p][i] \in Data
      BY DEF OnlyDelivered
    <3>4. InOrder(Append(published[p], call[t].datum), TopicStream[p])
      BY <1>3, <2>1, <3>1, <3>2, <3>3, DoesOrder
    <3>5. published'[p] = Append(published[p], call[t].datum)
      BY <2>2 DEF Does
    <3>q. QED
      BY <3>4, <3>5
  <2>3. CASE s # On(p)
    <3>1. published'[p] = published[p]
      BY <2>3 DEF Does
    <3>q. QED
      BY <2>1, <3>1
  <2>q. QED
    BY <2>2, <2>3
<1>8. ASSUME NEW q \in Queues
      PROVE  InOrder(pushed'[q], QueueStream[q])
  <2>1. InOrder(pushed[q], QueueStream[q]) /\ pushed[q] \in Seq(Nat)
    BY DEF SerialInv, TypeOK
  <2>2. CASE s = Into(q) /\ pushed'[q] = Append(pushed[q], call[t].datum)
    <3>1. Stream(call[t].form) = QueueStream[q]
      BY <1>3, <2>2 DEF Shape
    <3>2. Never(pushed[q], call[t].datum)
      BY <1>3, <2>2 DEF Came
    <3>3. \A i \in 1 .. Len(pushed[q]) : pushed[q][i] \in Data
      BY DEF OnlyDelivered
    <3>4. InOrder(Append(pushed[q], call[t].datum), QueueStream[q])
      BY <1>3, <2>1, <3>1, <3>2, <3>3, DoesOrder
    <3>q. QED
      BY <2>2, <3>4
  <2>3. CASE pushed'[q] = pushed[q]
    BY <2>1, <2>3
  <2>q. QED
    BY <2>2, <2>3 DEF Does
<1>9. /\ \A p \in Topics : InOrder(published[p], TopicStream[p])'
      /\ \A q \in Queues : InOrder(pushed[q], QueueStream[q])'
  BY <1>2, <1>7, <1>8 DEF InOrder
<1>q. QED
  BY <1>4, <1>5, <1>6, <1>9 DEF SerialInv

\* A step of a handler keeps the invariant.
LEMMA HandleStep ==
    ASSUME PubInv, NEW t \in Threads, Handle(t)
    PROVE  PubInv'
<1>1. TypeOK /\ Calls /\ OnlyDelivered /\ Progress
  BY DEF PubInv
<1>2. TypeOK' /\ \E s : Does(t, s)
  BY <1>1, HandleDoes
<1>3. PICK s : Does(t, s)
  BY <1>2
<1>4. Calls' /\ OnlyDelivered'
  BY <1>1, <1>3, DoesCalls
<1>5. ASSUME NEW l \in Logs
      PROVE  IndexInv(l)' /\ OvertakeInv(l)'
  <2>1. IndexInv(l) /\ OvertakeInv(l)
    BY DEF PubInv
  <2>2. IndexInv(l)'
    BY <1>1, <1>3, <2>1, DoesIndex
  <2>3. OvertakeInv(l)'
    BY <1>1, <1>3, <2>1, DoesOvertake
  <2>q. QED
    BY <2>2, <2>3
<1>6. Progress'
  BY <1>1, <1>3, DoesProgress
<1>7. ASSUME serialStreams'
      PROVE  SerialInv'
  <2>1. SerialInv
    BY <1>3, <1>7 DEF Does, PubInv
  <2>q. QED
    BY <1>1, <1>3, <2>1, DoesSerial
<1>q. QED
  BY <1>2, <1>4, <1>5, <1>6, <1>7 DEF PubInv

\* A new call of a handler keeps it.
LEMMA DeliverStep ==
    ASSUME PubInv, NEW t \in Threads, Deliver(t)
    PROVE  PubInv'
<1>1. PICK form \in Forms :
        /\ ~Busy(t)
        /\ Len(delivered) < MaxData
        /\ serialStreams => \A u \in Threads : Busy(u) => Stream(call[u].form) # Stream(form)
        /\ delivered' = Append(delivered, form)
        /\ call' = [call EXCEPT ![t] =
                      [form |-> form, datum |-> Len(delivered) + 1, pos |-> 1, idx |-> -1,
                       seen |-> [l \in Logs |-> Len(recorded[l])]]]
        /\ UNCHANGED <<process, config, thrown, index, out>>
  BY DEF Deliver
<1> DEFINE d0 == Len(delivered) + 1
<1>2. /\ TypeOK /\ Calls /\ OnlyDelivered /\ Progress
      /\ delivered \in Seq(Forms) /\ Len(delivered) \in Nat /\ d0 \in Nat \ {0}
      /\ \A l \in Logs : Len(recorded[l]) \in Nat
      /\ call \in [Threads -> [form : Forms, datum : Nat, pos : Nat \ {0}, idx : Int,
                               seen : [Logs -> Nat]]]
  BY DEF PubInv, TypeOK
<1>3. /\ recorded' = recorded /\ index' = index /\ published' = published /\ pushed' = pushed
      /\ data_logger_' = data_logger_ /\ serialStreams' = serialStreams
      /\ g_sendcloudrender' = g_sendcloudrender /\ process' = process /\ thrown' = thrown
  BY <1>1 DEF config, out
<1>4. /\ call'[t].form = form /\ call'[t].datum = d0 /\ call'[t].pos = 1
      /\ call'[t].seen = [l \in Logs |-> Len(recorded[l])]
      /\ \A u \in Threads : u # t => call'[u] = call[u] /\ (Busy(u)' <=> Busy(u))
  BY <1>1, <1>2 DEF Busy
<1>5. /\ Data' = Data \cup {d0} /\ d0 \notin Data
      /\ \A d \in Data : delivered'[d] = delivered[d]
      /\ delivered'[d0] = form
  BY <1>1, <1>2 DEF Data
<1>6. \A u \in Threads : Busy(u)' => u = t \/ Busy(u)
  BY <1>4
<1>7. TypeOK'
  <2>1. [l \in Logs |-> Len(recorded[l])] \in [Logs -> Nat]
    BY <1>2
  <2>2. call' \in [Threads -> [form : Forms, datum : Nat, pos : Nat \ {0}, idx : Int,
                               seen : [Logs -> Nat]]]
    BY <1>1, <1>2, <2>1
  <2>3. delivered' \in Seq(Forms) /\ Len(delivered') <= MaxData
    BY <1>1, <1>2, PublisherAssumption
  <2>q. QED
    BY <1>2, <1>3, <2>2, <2>3 DEF TypeOK
<1>8. Calls'
  <2>1. ASSUME NEW u \in Threads, Busy(u)'
        PROVE  /\ call'[u].datum \in Data' /\ delivered'[call'[u].datum] = call'[u].form
               /\ \A l \in Logs : call'[u].seen[l] <= Len(recorded'[l])
    <3>1. CASE u = t
      BY <1>2, <1>3, <1>4, <1>5, <3>1
    <3>2. CASE u # t
      BY <1>2, <1>3, <1>4, <1>5, <2>1, <3>2 DEF Calls
    <3>q. QED
      BY <3>1, <3>2
  <2>2. \A u, v \in Threads : Busy(u)' /\ Busy(v)' /\ call'[u].datum = call'[v].datum => u = v
    BY <1>2, <1>4, <1>5 DEF Calls
  <2>q. QED
    BY <2>1, <2>2 DEF Calls
<1>9. OnlyDelivered'
  BY <1>2, <1>3, <1>5 DEF OnlyDelivered
<1>h. ASSUME NEW l \in Logs
       PROVE  /\ Holding(l)' = Holding(l)
              /\ \A u \in Holding(l) : call'[u] = call[u]
  <2>2. Runs(record(l))' <=> Runs(record(l))
    BY <1>3 DEF Runs
  <2>3. t \notin Holding(l)
    BY <1>1 DEF Holding, At, Reaches
  <2>4. t \notin Holding(l)'
    <3>1. Shape(Handler[form], form)
      BY Shapes
    <3>2. Len(Handler[form]) \in Nat
      BY <3>1 DEF Shape
    <3>3. 1 <= Len(Handler[form]) => Handler[form][1] # record(l)
      BY <3>1, <3>2 DEF Shape
    <3>q. QED
      BY <1>4, <3>3 DEF Holding, At, Reaches, Busy
  <2>5. \A u \in Threads : u # t => (u \in Holding(l)' <=> u \in Holding(l))
    BY <1>4, <2>2 DEF Holding, At, Reaches
  <2>6. Holding(l) \subseteq Threads /\ Holding(l)' \subseteq Threads
    BY DEF Holding
  <2>7. Holding(l)' = Holding(l)
    BY <2>3, <2>4, <2>5, <2>6
  <2>8. \A u \in Holding(l) : call'[u] = call[u]
    BY <1>4, <2>3, <2>6
  <2>q. QED
    BY <2>7, <2>8
<1>10. ASSUME NEW l \in Logs
       PROVE  IndexInv(l)' /\ OvertakeInv(l)'
  <2>1. IndexInv(l) /\ OvertakeInv(l)
    BY DEF PubInv
  <2>7. /\ Holding(l)' = Holding(l)
        /\ \A u \in Holding(l) : call'[u] = call[u]
    BY <1>h
  <2>9. Indices(l)' = Indices(l)
    BY <1>3 DEF Indices
  <2>10. {call'[u].idx : u \in Holding(l)} = {call[u].idx : u \in Holding(l)}
    BY <2>7
  <2>11. IndexInv(l)'
    BY <1>3, <2>1, <2>7, <2>9, <2>10 DEF IndexInv
  <2>12. OvertakeInv(l)'
    BY <1>3, <2>1, <2>7 DEF OvertakeInv
  <2>q. QED
    BY <2>11, <2>12
<1>11. Progress'
  <2>1. ASSUME NEW d \in Data
        PROVE  \E n \in Nat : Came(d, n)'
    <3>1. PICK n \in Nat : Came(d, n)
      BY <1>2 DEF Progress
    <3>2. delivered'[d] = delivered[d] /\ d # d0
      BY <1>5
    <3>3. \A step : Did(d, n, step)' <=> Did(d, n, step)
      BY <3>2 DEF Did
    <3>4. \A u \in Threads : Busy(u)' /\ call'[u].datum = d => Busy(u) /\ call'[u] = call[u]
      BY <1>4, <3>2
    <3>5. Returned(d)' => Returned(d)
      BY <1>1, <1>4 DEF Returned
    <3>6. \A l \in Logs : InLog(l, d)' <=> InLog(l, d)
      BY <1>3 DEF InLog
    <3>7. Came(d, n)'
      BY <1>3, <3>1, <3>2, <3>3, <3>4, <3>5, <3>6 DEF Came
    <3>q. QED
      BY <3>7
  <2>2. \A d : d = d0 => Came(d, 1)'
    <3> SUFFICES ASSUME NEW d, d = d0
                 PROVE  Came(d, 1)'
      OBVIOUS
    <3>a. delivered'[d] = form
      BY <1>5
    <3>1. Len(Handler[form]) \in Nat
      BY Shapes DEF Shape
    <3>2. 1 \in 1 .. Len(Handler[form]) + 1
      BY <3>1
    <3>3. ASSUME NEW u \in Threads, Busy(u)', call'[u].datum = d
          PROVE  1 = call'[u].pos
      <4>1. CASE u = t
        BY <1>4, <4>1
      <4>2. CASE u # t
        <5>1. Busy(u) /\ call[u].datum = d
          BY <1>4, <3>3, <4>2
        <5>2. call[u].datum \in Data
          BY <1>2, <5>1 DEF Calls
        <5>q. QED
          BY <1>5, <5>1, <5>2
      <4>q. QED
        BY <4>1, <4>2
    <3>4. Returned(d)' => 1 = Len(Handler[form]) + 1
      <4>1. Busy(t)' <=> 1 <= Len(Handler[form])
        BY <1>4 DEF Busy
      <4>2. Returned(d)' => ~Busy(t)'
        BY <1>4 DEF Returned
      <4>q. QED
        BY <3>1, <4>1, <4>2
    <3>5. \A step : ~Did(d, 1, step)'
      BY DEF Did
    <3>6. d \notin Data
      BY <1>5
    <3>7. /\ \A p \in Topics : Never(published'[p], d)
          /\ \A q \in Queues : Never(pushed'[q], d)
          /\ \A l \in Logs : ~InLog(l, d)'
      BY <1>2, <1>3, <3>6 DEF OnlyDelivered, Never, InLog, Has
    <3>8. /\ \A p \in Topics :
                IF Did(d, 1, On(p))' THEN Once(published'[p], d) ELSE Never(published'[p], d)
          /\ \A q \in Queues : Did(d, 1, Into(q))' \/ Never(pushed'[q], d)
          /\ \A l \in Logs :
                IF Did(d, 1, record(l))' THEN data_logger_' => InLog(l, d)' ELSE ~InLog(l, d)'
      BY <3>5, <3>7
    <3>q. QED
      BY <3>a, <3>2, <3>3, <3>4, <3>8 DEF Came
  <2>3. 1 \in Nat
    OBVIOUS
  <2>q. QED
    BY <1>5, <2>1, <2>2, <2>3 DEF Progress
<1>12. ASSUME serialStreams'
       PROVE  SerialInv'
  <2>1. SerialInv
    BY <1>3, <1>12 DEF PubInv
  <2>2. \A u \in Threads : Busy(u) => Stream(call[u].form) # Stream(form)
    BY <1>1, <1>3, <1>12
  <2>3. (\A u, v \in Threads :
            Busy(u) /\ Busy(v) /\ Stream(call[u].form) = Stream(call[v].form) => u = v)'
    BY <1>4, <2>1, <2>2 DEF SerialInv
  <2>4. ASSUME NEW u \in Threads, Busy(u)', NEW d \in Data',
               Stream(delivered'[d]) = Stream(call'[u].form)
        PROVE  d <= call'[u].datum
    <3>1. CASE u = t
      <4>1. \A e \in Data : e <= d0
        BY <1>2 DEF Data
      <4>2. d <= d0
        BY <1>2, <1>5, <4>1
      <4>q. QED
        BY <1>4, <3>1, <4>2
    <3>2. CASE u # t
      <4>1. Busy(u) /\ call'[u] = call[u]
        BY <1>4, <2>4, <3>2
      <4>2. d \in Data
        BY <1>5, <2>2, <2>4, <4>1
      <4>q. QED
        BY <1>5, <2>1, <2>4, <4>1, <4>2 DEF SerialInv
    <3>q. QED
      BY <3>1, <3>2
  <2>5. ASSUME NEW l \in Logs
        PROVE  LogOrder(l)'
    <3>1. LogOrder(l)
      BY <2>1 DEF SerialInv
    <3>2. \A i \in 1 .. Len(recorded[l]) :
            delivered'[recorded[l][i].datum] = delivered[recorded[l][i].datum]
      BY <1>2, <1>5 DEF OnlyDelivered
    <3>3. /\ Holding(l)' = Holding(l)
          /\ \A u \in Holding(l) : call'[u] = call[u]
      BY <1>h
    <3>q. QED
      BY <1>3, <3>1, <3>2, <3>3 DEF LogOrder
  <2>6. ASSUME NEW p \in Topics
        PROVE  InOrder(published[p], TopicStream[p])'
    <3>1. InOrder(published[p], TopicStream[p])
      BY <2>1 DEF SerialInv
    <3>2. \A i \in 1 .. Len(published[p]) : delivered'[published[p][i]] = delivered[published[p][i]]
      BY <1>2, <1>5 DEF OnlyDelivered
    <3>q. QED
      BY <1>3, <3>1, <3>2 DEF InOrder
  <2>7. ASSUME NEW q \in Queues
        PROVE  InOrder(pushed[q], QueueStream[q])'
    <3>1. InOrder(pushed[q], QueueStream[q])
      BY <2>1 DEF SerialInv
    <3>2. \A i \in 1 .. Len(pushed[q]) : delivered'[pushed[q][i]] = delivered[pushed[q][i]]
      BY <1>2, <1>5 DEF OnlyDelivered
    <3>q. QED
      BY <1>3, <3>1, <3>2 DEF InOrder
  <2>q. QED
    BY <2>3, <2>4, <2>5, <2>6, <2>7 DEF SerialInv
<1>q. QED
  BY <1>7, <1>8, <1>9, <1>10, <1>11, <1>12, <1>3 DEF PubInv
\* The invariant holds before the first call.
LEMMA PubInit == Init => PubInv
<1> SUFFICES ASSUME Init PROVE PubInv
  OBVIOUS
<1>1. /\ \A t \in Threads : call[t] = Idle
      /\ \A l \in Logs : recorded[l] = <<>> /\ index[l] = 0
      /\ \A p \in Topics : published[p] = <<>>
      /\ \A q \in Queues : pushed[q] = <<>>
      /\ delivered = <<>> /\ Len(delivered) = 0
  BY DEF Init
<1>2. Handler["rgb_invalid"] = <<>> /\ "rgb_invalid" \in Forms
  BY DEF Handler, Forms, publishRgb_invalid
<1>3. \A t \in Threads : ~Busy(t)
  BY <1>1, <1>2 DEF Busy, Idle
<1>4. TypeOK
  <2>1. Idle \in [form : Forms, datum : Nat, pos : Nat \ {0}, idx : Int, seen : [Logs -> Nat]]
    BY <1>2 DEF Idle
  <2>2. call \in [Threads -> [form : Forms, datum : Nat, pos : Nat \ {0}, idx : Int,
                              seen : [Logs -> Nat]]]
    BY <2>1 DEF Init
  <2>3. delivered \in Seq(Forms) /\ Len(delivered) <= MaxData
    BY PublisherAssumption DEF Init
  <2>4. /\ index \in [Logs -> Nat]
        /\ recorded \in [Logs -> Seq([idx : Int, datum : Nat, seen : Nat])]
        /\ published \in [Topics -> Seq(Nat)]
        /\ pushed \in [Queues -> Seq(Nat)]
    BY DEF Init
  <2>q. QED
    BY <2>2, <2>3, <2>4 DEF TypeOK, Init
<1>5. Calls
  BY <1>3 DEF Calls
<1>6. OnlyDelivered
  BY <1>1 DEF OnlyDelivered
<1>7. ASSUME NEW l \in Logs
      PROVE  IndexInv(l) /\ OvertakeInv(l) /\ LogOrder(l)
  <2>1. Holding(l) = {}
    BY <1>3 DEF Holding, At, Reaches
  <2>2. Indices(l) = {} /\ Len(recorded[l]) = 0 /\ index[l] = 0
    BY <1>1 DEF Indices
  <2>3. IsFiniteSet({}) /\ Cardinality({}) = 0
    BY FS_EmptySet
  <2>4. IndexInv(l)
    BY <2>1, <2>2, <2>3 DEF IndexInv
  <2>5. OvertakeInv(l) /\ LogOrder(l)
    BY <2>1, <2>2 DEF OvertakeInv, LogOrder
  <2>q. QED
    BY <2>4, <2>5
<1>8. Progress
  BY <1>1 DEF Progress, Data
<1>9. SerialInv
  BY <1>1, <1>3, <1>7 DEF SerialInv, InOrder
<1>q. QED
  BY <1>4, <1>5, <1>6, <1>7, <1>8, <1>9 DEF PubInv

\* The invariant is inductive.
LEMMA PubStep == PubInv /\ [Next]_vars => PubInv'
<1> SUFFICES ASSUME PubInv, [Next]_vars PROVE PubInv'
  OBVIOUS
<1>1. ASSUME NEW t \in Threads, Deliver(t) PROVE PubInv'
  BY <1>1, DeliverStep
<1>2. ASSUME NEW t \in Threads, Handle(t) PROVE PubInv'
  BY <1>2, HandleStep
<1>3. CASE UNCHANGED vars \/ \E t \in Threads : Escapes(t)
  <2>1. /\ recorded' = recorded /\ index' = index /\ published' = published /\ pushed' = pushed
        /\ data_logger_' = data_logger_ /\ serialStreams' = serialStreams
        /\ g_sendcloudrender' = g_sendcloudrender /\ call' = call /\ delivered' = delivered
        /\ thrown' = thrown /\ process' \in {process, "gone"}
    BY <1>3 DEF vars, config, out, Escapes
  <2>2. /\ \A t \in Threads : Busy(t)' <=> Busy(t)
        /\ \A l \in Logs : Indices(l)' = Indices(l)
        /\ Data' = Data
        /\ \A l \in Logs : Runs(record(l))' <=> Runs(record(l))
    BY <2>1 DEF Busy, Indices, Data, Runs
  <2>3. \A l \in Logs : Holding(l)' = Holding(l)
    BY <2>1, <2>2 DEF Holding, At, Reaches
  <2>4. TypeOK'
    BY <2>1 DEF PubInv, TypeOK
  <2>5. Calls' /\ OnlyDelivered'
    BY <2>1, <2>2 DEF PubInv, Calls, OnlyDelivered
  <2>6. \A l \in Logs : IndexInv(l)' /\ OvertakeInv(l)'
    BY <2>1, <2>2, <2>3 DEF PubInv, IndexInv, OvertakeInv
  <2>7. ASSUME NEW d \in Data, NEW n \in Nat, Came(d, n) PROVE Came(d, n)'
    <3>1. /\ Returned(d)' <=> Returned(d)
          /\ \A step : Did(d, n, step)' <=> Did(d, n, step)
          /\ \A l \in Logs : InLog(l, d)' <=> InLog(l, d)
      BY <2>1, <2>2 DEF Returned, Did, InLog
    <3>q. QED
      BY <2>1, <2>2, <2>7, <3>1 DEF Came
  <2>8. Progress'
    BY <2>2, <2>7 DEF PubInv, Progress
  <2>9. ASSUME serialStreams' PROVE SerialInv'
    <3>1. SerialInv
      BY <2>1, <2>9 DEF PubInv
    <3>2. \A l \in Logs : LogOrder(l)'
      BY <2>1, <2>3, <3>1 DEF SerialInv, LogOrder
    <3>3. /\ \A p \in Topics : InOrder(published[p], TopicStream[p])'
          /\ \A q \in Queues : InOrder(pushed[q], QueueStream[q])'
      BY <2>1, <3>1 DEF SerialInv, InOrder
    <3>q. QED
      BY <2>1, <2>2, <3>1, <3>2, <3>3 DEF SerialInv
  <2>q. QED
    BY <2>4, <2>5, <2>6, <2>8, <2>9 DEF PubInv
<1>q. QED
  BY <1>1, <1>2, <1>3 DEF Next, Ended

-----------------------------------------------------------------------------
(* The theorems *)

\* The inductive invariant, from which all that follows: where each handler is
\* and what of its datum is out.
THEOREM PubInvAlways == Spec => []PubInv
  BY PubInit, PubStep, PTL DEF Spec

\* Every variable has its type, whatever the threads of the SDK do.
THEOREM PubTypeCorrect == Spec => []TypeOK
<1>1. PubInv => TypeOK
  BY DEF PubInv
<1>q. QED
  BY <1>1, PubInvAlways, PTL

\* fetch_add(1) of image_index_, cloud_index_ and pose_index_: no number is
\* lost or given twice, whichever handlers overlap or throw.
THEOREM IndicesAccounted == Spec => []IndicesAccountedFor
<1>1. PubInv => IndicesAccountedFor
  BY DEF PubInv, IndexInv, IndicesAccountedFor
<1>q. QED
  BY <1>1, PubInvAlways, PTL

\* A recording is out of the order of its numbers only where handlers ran at
\* the same time.
THEOREM OvertakenOnly == Spec => []OvertakenOnlyByOverlap
<1>1. PubInv => OvertakenOnlyByOverlap
  <2> SUFFICES ASSUME PubInv, NEW l \in Logs, NEW i \in DOMAIN recorded[l],
                      NEW j \in 1 .. recorded[l][i].seen
               PROVE  recorded[l][j].idx < recorded[l][i].idx
    BY DEF OvertakenOnlyByOverlap
  <2>1. recorded[l] \in Seq([idx : Int, datum : Nat, seen : Nat])
    BY DEF PubInv, TypeOK
  <2>2. i \in 1 .. Len(recorded[l])
    BY <2>1
  <2>q. QED
    BY <2>2 DEF PubInv, OvertakeInv
<1>q. QED
  BY <1>1, PubInvAlways, PTL

\* A datum whose handler has returned went all the way, but for a compressed
\* image whose compression threw.
LEMMA ReturnedDid ==
    ASSUME PubInv, NEW d \in Data, Returned(d)
    PROVE  \E n \in Nat :
              /\ Came(d, n)
              /\ LET h == Handler[delivered[d]] IN
                 /\ Len(h) \in Nat /\ Shape(h, delivered[d])
                 /\ \/ n = Len(h) + 1
                    \/ n \in 1 .. Len(h) /\ h[n] = encode /\ d \in thrown
<1>1. PICK n \in Nat : Came(d, n)
  BY DEF PubInv, Progress
<1>2. delivered[d] \in Forms
  BY Element DEF PubInv, TypeOK, Data
<1>3. Shape(Handler[delivered[d]], delivered[d]) /\ Len(Handler[delivered[d]]) \in Nat
  BY <1>2, Shapes DEF Shape
<1>4. \/ n = Len(Handler[delivered[d]]) + 1
      \/ /\ n \in 1 .. Len(Handler[delivered[d]]) /\ Handler[delivered[d]][n] = encode
         /\ d \in thrown
  BY <1>1, <1>3 DEF Came
<1>q. QED
  BY <1>1, <1>3, <1>4

\* What ToSet of a list contains.
LEMMA InToSet ==
    ASSUME NEW s, NEW e, Len(s) \in Nat, DOMAIN s = 1 .. Len(s)
    PROVE  e \in ToSet(s) <=> \E i \in 1 .. Len(s) : s[i] = e
  BY DEF ToSet

\* The handlers are lists of steps.
LEMMA Lists == \A form \in Forms : DOMAIN Handler[form] = 1 .. Len(Handler[form])
  BY DEF Forms, Handler, publishRgb_nv12, publishRgb_jpeg, publishRgb_invalid,
         publishIntensityCloud, publishIntensityCloud_invalid, publishPC2XYZRGBA,
         publishPC2XYZRGBA_empty, publishOdometry_complete, publishOdometry, publishImu

\* The recordings and the topics agree on the data whose handlers returned.
THEOREM RecordedAndPublished == Spec => []RecordedIffPublished
<1>1. ASSUME PubInv, data_logger_, NEW d \in Data, NEW l \in Logs, Returned(d),
             record(l) \in ToSet(Handler[delivered[d]])
      PROVE  (\E i \in DOMAIN recorded[l] : recorded[l][i].datum = d)
                <=> d \in ToSet(published[Twin[l]])
  <2> DEFINE h == Handler[delivered[d]]
             p == Twin[l]
  <2>1. PICK n \in Nat :
          /\ Came(d, n)
          /\ Len(h) \in Nat /\ Shape(h, delivered[d])
          /\ n = Len(h) + 1 \/ (n \in 1 .. Len(h) /\ h[n] = encode)
    BY <1>1, ReturnedDid
  <2>2. p \in Topics /\ delivered[d] \in Forms
    BY <1>1, Element DEF Twin, Logs, Topics, PubInv, TypeOK, Data
  <2>3. recorded[l] \in Seq([idx : Int, datum : Nat, seen : Nat]) /\ published[p] \in Seq(Nat)
    BY <1>1, <2>2 DEF PubInv, TypeOK
  <2>4. (\E i \in DOMAIN recorded[l] : recorded[l][i].datum = d) <=> InLog(l, d)
    BY <2>3 DEF InLog, Has
  <2>5. d \in ToSet(published[p]) <=> \E i \in 1 .. Len(published[p]) : published[p][i] = d
    <3>1. Len(published[p]) \in Nat /\ DOMAIN published[p] = 1 .. Len(published[p])
      BY <2>3
    <3>q. QED
      BY <3>1, InToSet
  <2>6. PICK k \in 1 .. Len(h) : h[k] = record(l)
    BY <1>1, <2>1, <2>2, Lists, InToSet
  <2>7. PICK m \in 1 .. Len(h) : h[m] = On(p)
    BY <2>1, <2>6 DEF Shape
  <2>8. CASE n = Len(h) + 1
    <3>1. 1 .. n - 1 = 1 .. Len(h)
      BY <2>1, <2>8
    <3>2. Did(d, n, record(l)) /\ Did(d, n, On(p))
      BY <2>6, <2>7, <3>1 DEF Did
    <3>3. InLog(l, d) /\ Once(published[p], d)
      BY <1>1, <2>1, <2>2, <3>2 DEF Came
    <3>q. QED
      BY <2>4, <2>5, <3>3 DEF Once
  <2>9. CASE n \in 1 .. Len(h) /\ h[n] = encode
    <3>1. /\ delivered[d] = "nv12"
          /\ \A j \in 1 .. Len(h) : j < n =>
                h[j] # On("image/compressed") /\ h[j] # record(l)
      BY <2>1, <2>9 DEF Shape
    <3>2. p = "image/compressed"
      <4>1. Stream(delivered[d]) = LogStream[l]
        BY <2>1, <2>6 DEF Shape
      <4>q. QED
        BY <3>1, <4>1 DEF Stream, LogStream, Logs, Twin
    <3>3. \A j \in 1 .. n - 1 : j \in 1 .. Len(h) /\ j < n
      BY <2>1, <2>9
    <3>4. ~Did(d, n, record(l)) /\ ~Did(d, n, On(p))
      BY <3>1, <3>2, <3>3 DEF Did
    <3>5. ~InLog(l, d) /\ Never(published[p], d)
      BY <2>1, <2>2, <3>4 DEF Came
    <3>q. QED
      BY <2>4, <2>5, <3>5 DEF Never
  <2>q. QED
    BY <2>1, <2>8, <2>9
<1>2. PubInv => RecordedIffPublished
  BY <1>1 DEF RecordedIffPublished
<1>q. QED
  BY <1>2, PubInvAlways, PTL

\* A handler that returned has published its datum once on each of its topics,
\* but for a compressed image whose compression threw.
THEOREM AllPublished == Spec => []PublishedWhenReturned
<1>1. ASSUME PubInv, NEW d \in Data, NEW p \in Topics, Returned(d),
             On(p) \in ToSet(Handler[delivered[d]]),
             ~(d \in thrown /\ p = "image/compressed")
      PROVE  Cardinality({i \in DOMAIN published[p] : published[p][i] = d}) = 1
  <2> DEFINE h == Handler[delivered[d]]
  <2>1. PICK n \in Nat :
          /\ Came(d, n)
          /\ Len(h) \in Nat /\ Shape(h, delivered[d])
          /\ n = Len(h) + 1 \/ (n \in 1 .. Len(h) /\ h[n] = encode /\ d \in thrown)
    BY <1>1, ReturnedDid
  <2>2. delivered[d] \in Forms
    BY <1>1, Element DEF PubInv, TypeOK, Data
  <2>3. published[p] \in Seq(Nat)
    BY <1>1 DEF PubInv, TypeOK
  <2>4. PICK m \in 1 .. Len(h) : h[m] = On(p)
    BY <1>1, <2>1, <2>2, Lists, InToSet
  <2>5. m \in 1 .. n - 1
    <3>1. CASE n = Len(h) + 1
      BY <2>1, <3>1
    <3>2. CASE n \in 1 .. Len(h) /\ h[n] = encode /\ d \in thrown
      <4>1. p = "image/compressed" \/ m < n
        BY <2>1, <2>4, <3>2 DEF Shape
      <4>q. QED
        BY <1>1, <2>1, <3>2, <4>1
    <3>q. QED
      BY <2>1, <3>1, <3>2
  <2>6. Did(d, n, On(p))
    BY <2>4, <2>5 DEF Did
  <2>7. Once(published[p], d)
    BY <2>1, <2>6 DEF Came
  <2>8. PICK i \in 1 .. Len(published[p]) :
          \A j \in 1 .. Len(published[p]) : published[p][j] = d <=> j = i
    BY <2>7 DEF Once
  <2>9. {j \in DOMAIN published[p] : published[p][j] = d} = {i}
    BY <2>3, <2>8
  <2>q. QED
    BY <2>9, FS_Singleton
<1>2. PubInv => PublishedWhenReturned
  BY <1>1 DEF PublishedWhenReturned
<1>q. QED
  BY <1>2, PubInvAlways, PTL

\* With one datum of a stream at a time, all that leaves the handlers is in the
\* order of delivery, and a recording has no gap.
THEOREM InStreamOrder == Spec => []StreamsInOrder
<1>1. ASSUME PubInv, serialStreams PROVE SerialInv
  BY <1>1 DEF PubInv
<1>2. ASSUME PubInv, serialStreams, NEW l \in Logs
      PROVE  /\ Increasing([i \in DOMAIN recorded[l] |-> recorded[l][i].datum])
             /\ \A i \in DOMAIN recorded[l] : recorded[l][i].idx = i - 1
  <2>1. LogOrder(l)
    BY <1>1, <1>2 DEF SerialInv
  <2>2. recorded[l] \in Seq([idx : Int, datum : Nat, seen : Nat])
    BY <1>2 DEF PubInv, TypeOK
  <2>3. DOMAIN recorded[l] = 1 .. Len(recorded[l])
    BY <2>2
  <2>q. QED
    BY <2>1, <2>3 DEF LogOrder, Increasing
<1>3. ASSUME PubInv, serialStreams, NEW p \in Topics PROVE Increasing(published[p])
  <2>1. InOrder(published[p], TopicStream[p]) /\ published[p] \in Seq(Nat)
    BY <1>1, <1>3 DEF SerialInv, PubInv, TypeOK
  <2>q. QED
    BY <2>1 DEF InOrder, Increasing
<1>4. ASSUME PubInv, serialStreams, NEW q \in Queues PROVE Increasing(pushed[q])
  <2>1. InOrder(pushed[q], QueueStream[q]) /\ pushed[q] \in Seq(Nat)
    BY <1>1, <1>4 DEF SerialInv, PubInv, TypeOK
  <2>q. QED
    BY <2>1 DEF InOrder, Increasing
<1>5. PubInv => StreamsInOrder
  BY <1>2, <1>3, <1>4 DEF StreamsInOrder
<1>q. QED
  BY <1>5, PubInvAlways, PTL

=============================================================================
