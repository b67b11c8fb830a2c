------------------------- MODULE WritePipelineProofs -------------------------
(***************************************************************************)
(* Proofs about WritePipeline, for any users and any bounds.               *)
(***************************************************************************)
EXTENDS WritePipeline, SequenceTheorems, TLAPS

----------------------------------------------------------------------------
(***************************************************************************)
(* Queues.  The ids of a queue are positive and ascend, so that the batch  *)
(* after the last one of the pipeline is the next one of the queue.        *)
(***************************************************************************)
Sorted(q) ==
  /\ \A i \in 1 .. Len(q) : q[i].id > 0
  /\ \A i, j \in 1 .. Len(q) : i < j => q[i].id < q[j].id

\* The batches of a queue, and their fields, have their types.
LEMMA BatchesOf ==
  ASSUME NEW q \in Seq(Batch)
  PROVE  /\ Len(q) \in Nat
         /\ \A i \in 1 .. Len(q) : /\ q[i] \in Batch
                                   /\ q[i].id \in Nat
                                   /\ q[i].tag \in Nat
                                   /\ q[i].ok \in BOOLEAN
<1>1. Len(q) \in Nat
  BY LenProperties
<1>2. \A i \in 1 .. Len(q) : q[i] \in Batch
  BY ElementOfSeq
<1>3. \A b \in Batch : b.id \in Nat /\ b.tag \in Nat /\ b.ok \in BOOLEAN
  BY DEF Batch
<1> QED
  BY <1>1, <1>2, <1>3

\* NextMutationBatchAfterBatchId finds the place after the k-th.
LEMMA NextAfter ==
  ASSUME NEW q \in Seq(Batch), Sorted(q), NEW k \in 0 .. Len(q)
  PROVE  NextBatchAfter(q, IF k = 0 THEN 0 ELSE q[k].id) = k + 1
<1> DEFINE id == IF k = 0 THEN 0 ELSE q[k].id
           Fits(i) == /\ \A j \in 1 .. i - 1 : q[j].id <= id
                      /\ i <= Len(q) => q[i].id > id
<1>1. Len(q) \in Nat /\ \A i \in 1 .. Len(q) : q[i].id \in Nat
  BY BatchesOf
<1>2. k + 1 \in 1 .. Len(q) + 1 /\ Fits(k + 1)
  BY <1>1 DEF Sorted
<1>3. ASSUME NEW i \in 1 .. Len(q) + 1, Fits(i) PROVE i = k + 1
  <2>1. ~(i < k + 1)
    BY <1>1, <1>3 DEF Sorted
  <2>2. ~(i > k + 1)
    <3> SUFFICES ASSUME i > k + 1 PROVE FALSE
      OBVIOUS
    <3>1. k + 1 \in 1 .. i - 1 /\ k + 1 \in 1 .. Len(q)
      BY <1>1
    <3>2. q[k + 1].id <= id
      BY <1>3, <3>1
    <3> QED
      BY <1>1, <3>1, <3>2 DEF Sorted
  <2> QED
    BY <1>1, <2>1, <2>2
<1> HIDE DEF Fits
<1>4. (CHOOSE i \in 1 .. Len(q) + 1 : Fits(i)) = k + 1
  BY <1>2, <1>3
<1> QED
  BY <1>4 DEF NextBatchAfter, Fits

\* Oldest is the beginning of a queue that ends at the bound of the pipeline.
LEMMA OldestProperties ==
  ASSUME NEW q \in Seq(Batch)
  PROVE  /\ Oldest(q) \in Seq(Batch)
         /\ Len(Oldest(q)) = IF Len(q) < MaxPendingWrites THEN Len(q) ELSE MaxPendingWrites
         /\ \A i \in 1 .. Len(Oldest(q)) : i \in 1 .. Len(q) /\ Oldest(q)[i] = q[i]
         /\ Oldest(q) = SubSeq(q, 1, Len(Oldest(q)))
         /\ Oldest(q) = <<>> <=> q = <<>>
<1> DEFINE n == IF Len(q) < MaxPendingWrites THEN Len(q) ELSE MaxPendingWrites
<1>1. n \in 0 .. Len(q) /\ (n = 0 <=> Len(q) = 0)
  BY WriteAssumption
<1>2. /\ SubSeq(q, 1, n) \in Seq(Batch)
      /\ Len(SubSeq(q, 1, n)) = n
      /\ \A i \in 1 .. n : SubSeq(q, 1, n)[i] = q[i]
  BY <1>1, SubSeqProperties
<1> HIDE DEF n
<1> QED
  BY <1>1, <1>2, EmptySeq, SMTT(30) DEF Oldest, n

\* FillWritePipeline completes the pipeline, when that is a beginning of the
\* queue.
LEMMA FillCompletes ==
  ASSUME NEW q \in Seq(Batch), Sorted(q),
         NEW k \in 0 .. Len(Oldest(q)), NEW p, p = SubSeq(q, 1, k)
  PROVE  /\ Retrieved(p, q) \in Seq(Batch)
         /\ p \in Seq(Batch) /\ Len(p) = k
         /\ p \o Retrieved(p, q) = Oldest(q)
<1> DEFINE n == Len(Oldest(q))
<1>1. /\ n \in 0 .. Len(q)
      /\ n = IF Len(q) < MaxPendingWrites THEN Len(q) ELSE MaxPendingWrites
      /\ Oldest(q) = SubSeq(q, 1, n)
      /\ k \in 0 .. n
  BY OldestProperties, WriteAssumption
<1> HIDE DEF n
<1>2. /\ p \in Seq(Batch)
      /\ Len(p) = k
      /\ \A i \in 1 .. k : p[i] = q[i]
  BY <1>1, SubSeqProperties
<1>3. p = <<>> <=> k = 0
  BY <1>2, EmptySeq
<1>4. (IF p = <<>> THEN 0 ELSE p[Len(p)].id) = IF k = 0 THEN 0 ELSE q[k].id
  <2>1. CASE k = 0
    BY <1>3, <2>1
  <2>2. CASE k # 0
    <3>1. k \in 1 .. k
      BY <1>1, <2>2
    <3>2. p[Len(p)] = q[k]
      BY <1>2, <3>1
    <3> QED
      BY <1>3, <2>2, <3>2
  <2> QED
    BY <2>1, <2>2
<1>5. NextBatchAfter(q, IF p = <<>> THEN 0 ELSE p[Len(p)].id) = k + 1
  <2>1. k \in 0 .. Len(q)
    BY <1>1
  <2>2. NextBatchAfter(q, IF k = 0 THEN 0 ELSE q[k].id) = k + 1
    BY <2>1, NextAfter
  <2> QED
    BY <1>4, <2>2
<1>6. (k + 1) + MaxPendingWrites - k - 1 = MaxPendingWrites
  BY <1>1, WriteAssumption
<1>7. Retrieved(p, q) = SubSeq(q, k + 1, n)
  <2>1. Retrieved(p, q) = SubSeq(q, k + 1, IF MaxPendingWrites < Len(q) THEN MaxPendingWrites ELSE Len(q))
    BY <1>2, <1>5, <1>6 DEF Retrieved
  <2>2. (IF MaxPendingWrites < Len(q) THEN MaxPendingWrites ELSE Len(q)) = n
    BY <1>1, WriteAssumption, BatchesOf
  <2> QED
    BY <2>1, <2>2
<1>8. SubSeq(q, k + 1, n) \in Seq(Batch)
  BY <1>1, SubSeqProperties
<1>9. SubSeq(q, 1, k) \o SubSeq(q, k + 1, n) = SubSeq(q, 1, n)
  BY <1>1, ConcatAdjacentSubSeq, SMTT(30)
<1> QED
  BY <1>1, <1>2, <1>7, <1>8, <1>9

\* Without the first batch a queue is its tail; the rest is in order.
LEMMA WithoutFirst ==
  ASSUME NEW q \in Seq(Batch), Sorted(q), q # <<>>
  PROVE  /\ Without(q, q[1].id) = Tail(q)
         /\ Tail(q) \in Seq(Batch)
         /\ Sorted(Tail(q))
         /\ Len(Tail(q)) = Len(q) - 1
         /\ \A i \in 1 .. Len(Tail(q)) : Tail(q)[i] = q[i + 1]
<1>1. /\ Len(q) \in Nat \ {0}
      /\ \A i \in 1 .. Len(q) : q[i].id \in Nat
  BY BatchesOf, EmptySeq
<1>2. /\ Tail(q) \in Seq(Batch)
      /\ Len(Tail(q)) = Len(q) - 1
      /\ \A i \in 1 .. Len(Tail(q)) : Tail(q)[i] = q[i + 1]
  BY HeadTailProperties
<1>3. (CHOOSE i \in DOMAIN q : q[i].id = q[1].id) = 1
  <2>1. DOMAIN q = 1 .. Len(q)
    BY LenProperties
  <2>2. \A i \in DOMAIN q : q[i].id = q[1].id => i = 1
    BY <1>1, <2>1 DEF Sorted
  <2> QED
    BY <1>1, <2>1, <2>2
<1>4. SubSeq(q, 1, 1 - 1) = <<>> /\ SubSeq(q, 1 + 1, Len(q)) = Tail(q)
  BY <1>1, SubSeqEmpty, TailIsSubSeq
<1>5. Without(q, q[1].id) = SubSeq(q, 1, 1 - 1) \o SubSeq(q, 1 + 1, Len(q))
  BY ONLY <1>3, Zenon DEF Without
<1>6. <<>> \o Tail(q) = Tail(q)
  BY <1>2, ConcatEmptySeq
<1>7. Sorted(Tail(q))
  BY <1>1, <1>2 DEF Sorted
<1> QED
  BY <1>2, <1>4, <1>5, <1>6, <1>7

----------------------------------------------------------------------------
(***************************************************************************)
(* The stream.  Whatever the client does to it, the requests that wait for *)
(* an answer are the handshake, or else the pipeline.                      *)
(***************************************************************************)
StreamOK(r) ==
  /\ r \in Remote
  /\ ~IsOpen(r) => ~r.handshake /\ ~r.idle /\ r.sent = <<>> /\ r.served = 0 /\ ~r.denied
  /\ IsOpen(r) => r.sent = IF r.handshake THEN r.pipeline ELSE <<Handshake>>
  /\ IsStarted(r) /\ ~r.handshake => r.pipeline # <<>>
  /\ r.served <= Len(r.sent)
  /\ r.denied => r.served < Len(r.sent) /\ ~r.sent[r.served + 1].ok
  /\ r.idle => IsOpen(r) /\ r.pipeline = <<>>

\* The handshake is a request like any other to the stream.
LEMMA HandshakeSeq ==
  /\ Handshake \in Batch
  /\ <<Handshake>> \in Seq(Batch)
  /\ Len(<<Handshake>>) = 1
  /\ <<Handshake>>[1] = Handshake
BY DEF Handshake, Batch

\* A stream without a call is sound with any pipeline.
LEMMA ClosedIsSound ==
  ASSUME NEW p \in Seq(Batch), NEW state \in {"Initial", "Error"}
  PROVE  StreamOK(Closed(state, p)) /\ Closed(state, p).pipeline = p
BY EmptySeq DEF Closed, StreamOK, Remote, States, IsOpen, IsStarted

\* Starting a stream that is not started and has something to send.
LEMMA StartIsSound ==
  ASSUME NEW r \in Remote, StreamOK(r)
  PROVE  LET f == StartWriteStream(r)
         IN  /\ StreamOK(f)
             /\ f = [r EXCEPT !.state = f.state]
             /\ IsOpen(f) <=> IsOpen(r)
<1> DEFINE f == StartWriteStream(r)
<1>1. CASE ~IsStarted(r) /\ r.pipeline # <<>>
  <2>1. /\ f = [r EXCEPT !.state = IF @ = "Error" THEN "Backoff" ELSE "Starting"]
        /\ f.state \in {"Backoff", "Starting"}
    BY <1>1 DEF StartWriteStream, Start, Remote
  <2>2. /\ f \in Remote
        /\ f.handshake = r.handshake /\ f.idle = r.idle /\ f.pipeline = r.pipeline
        /\ f.sent = r.sent /\ f.served = r.served /\ f.denied = r.denied
    BY <2>1 DEF Remote, States
  <2>3. ~IsOpen(f) /\ ~IsOpen(r)
    BY <1>1, <2>1 DEF IsOpen, IsStarted
  <2>4. f = [r EXCEPT !.state = f.state]
    BY <2>1, <2>2 DEF Remote
  <2> QED
    BY <1>1, <2>2, <2>3, <2>4 DEF StreamOK
<1>2. CASE ~(~IsStarted(r) /\ r.pipeline # <<>>)
  <2>1. f = r
    BY <1>2 DEF StartWriteStream
  <2>2. r = [r EXCEPT !.state = r.state]
    BY DEF Remote
  <2> QED
    BY <2>1, <2>2
<1> QED
  BY <1>1, <1>2

\* FillWritePipeline completes the pipeline and keeps the stream sound: what
\* it adds is sent when, and only when, the handshake is complete.
LEMMA FillIsSound ==
  ASSUME NEW q \in Seq(Batch), Sorted(q), NEW r, StreamOK(r),
         NEW k \in 0 .. Len(Oldest(q)), r.pipeline = SubSeq(q, 1, k)
  PROVE  LET f == FillWritePipeline(r, q)
         IN  /\ StreamOK(f)
             /\ f.pipeline = Oldest(q)
             /\ f.served = r.served /\ f.denied = r.denied
             /\ Len(r.sent) <= Len(f.sent)
             /\ \A i \in 1 .. Len(r.sent) : f.sent[i] = r.sent[i]
<1> DEFINE new   == Retrieved(r.pipeline, q)
           sends == IsOpen(r) /\ r.handshake
           empty == r.pipeline \o new = <<>>
           sent  == IF sends THEN r.sent \o new ELSE r.sent
           idle  == IF empty THEN r.idle \/ IsOpen(r) ELSE r.idle /\ ~(sends /\ new # <<>>)
           g == [r EXCEPT !.pipeline = Oldest(q), !.sent = sent, !.idle = idle]
<1>1. /\ new \in Seq(Batch)
      /\ r.pipeline \in Seq(Batch)
      /\ r.pipeline \o new = Oldest(q)
      /\ Oldest(q) \in Seq(Batch)
  BY FillCompletes, OldestProperties
<1>2. FillWritePipeline(r, q) = StartWriteStream(g)
  BY <1>1 DEF FillWritePipeline
<1>3. r \in Remote /\ r.sent \in Seq(Batch) /\ r.idle \in BOOLEAN
  BY DEF StreamOK, Remote
<1> HIDE DEF new
<1>4. /\ sent \in Seq(Batch)
      /\ Len(r.sent) <= Len(sent)
      /\ \A i \in 1 .. Len(r.sent) : sent[i] = r.sent[i]
  BY <1>1, <1>3, ConcatProperties, BatchesOf
<1>5. idle \in BOOLEAN
  BY <1>3 DEF IsOpen
<1> HIDE DEF sent, idle, sends
<1>6. /\ g \in Remote
      /\ g.state = r.state /\ g.handshake = r.handshake /\ g.idle = idle
      /\ g.pipeline = Oldest(q) /\ g.sent = sent
      /\ g.served = r.served /\ g.denied = r.denied
  BY <1>1, <1>3, <1>4, <1>5 DEF Remote
<1>7. IsOpen(g) = IsOpen(r) /\ IsStarted(g) = IsStarted(r)
  BY <1>6 DEF IsOpen, IsStarted
<1> HIDE DEF g
<1>8. IsOpen(r) => sent = IF r.handshake THEN Oldest(q) ELSE <<Handshake>>
  BY <1>1 DEF sent, sends, StreamOK
<1>9. IsStarted(r) /\ ~r.handshake => Oldest(q) # <<>>
  BY <1>1, ConcatEqualIffEmpty DEF StreamOK
<1>10. idle => IsOpen(r) /\ Oldest(q) = <<>>
  <2>1. CASE empty
    BY <1>1, <2>1 DEF idle, StreamOK
  <2>2. CASE ~empty
    <3> SUFFICES ASSUME idle PROVE FALSE
      OBVIOUS
    <3>1. r.idle /\ ~(sends /\ new # <<>>)
      BY <2>2 DEF idle
    <3>2. IsOpen(r) /\ r.pipeline = <<>> /\ r.handshake
      BY <3>1 DEF StreamOK, IsStarted
    <3>3. new # <<>>
      BY <1>1, <2>2, <3>2, ConcatEmptySeq
    <3> QED
      BY <3>1, <3>2, <3>3 DEF sends
  <2> QED
    BY <2>1, <2>2
<1>11. ~IsOpen(r) => sent = r.sent
  BY DEF sent, sends
<1>12. /\ r.served \in Nat
       /\ r.served <= Len(sent)
       /\ r.denied => r.served < Len(sent) /\ ~sent[r.served + 1].ok
  <2>1. r.served \in Nat /\ Len(sent) \in Nat /\ Len(r.sent) \in Nat
    BY <1>3, <1>4, BatchesOf DEF Remote
  <2>2. r.denied => r.served + 1 \in 1 .. Len(r.sent)
    BY <2>1 DEF StreamOK
  <2> QED
    BY <1>4, <2>1, <2>2 DEF StreamOK
<1>13. StreamOK(g)
  <2>1. ~IsOpen(g) => ~g.handshake /\ ~g.idle /\ g.sent = <<>> /\ g.served = 0 /\ ~g.denied
    BY <1>6, <1>7, <1>10, <1>11 DEF StreamOK
  <2> QED
    BY <1>6, <1>7, <1>8, <1>9, <1>10, <1>12, <2>1 DEF StreamOK
<1>14. LET f == StartWriteStream(g)
       IN  StreamOK(f) /\ f = [g EXCEPT !.state = f.state]
  BY <1>6, <1>13, StartIsSound
<1>15. LET f == StartWriteStream(g)
       IN  /\ f.pipeline = g.pipeline /\ f.served = g.served
           /\ f.denied = g.denied /\ f.sent = g.sent
  BY <1>6, <1>14 DEF Remote
<1> QED
  BY <1>2, <1>4, <1>6, <1>14, <1>15

\* The pipeline without its first batch is a beginning of the queue without it.
LEMMA OldestOfTail ==
  ASSUME NEW q \in Seq(Batch), Sorted(q), q # <<>>
  PROVE  /\ Tail(Oldest(q)) \in Seq(Batch)
         /\ Len(Oldest(q)) - 1 \in 0 .. Len(Oldest(Tail(q)))
         /\ Tail(Oldest(q)) = SubSeq(Tail(q), 1, Len(Oldest(q)) - 1)
<1> DEFINE n == Len(Oldest(q))
<1>1. /\ Oldest(q) \in Seq(Batch) /\ Oldest(q) # <<>>
      /\ n = IF Len(q) < MaxPendingWrites THEN Len(q) ELSE MaxPendingWrites
      /\ \A i \in 1 .. n : Oldest(q)[i] = q[i]
  BY OldestProperties
<1>2. /\ Tail(q) \in Seq(Batch) /\ Len(Tail(q)) = Len(q) - 1
      /\ \A i \in 1 .. Len(Tail(q)) : Tail(q)[i] = q[i + 1]
  BY WithoutFirst
<1>3. /\ Len(q) \in Nat \ {0} /\ n \in 1 .. Len(q)
      /\ MaxPendingWrites \in Nat \ {0}
  BY <1>1, EmptySeq, WriteAssumption, BatchesOf
<1>4. /\ Tail(Oldest(q)) \in Seq(Batch)
      /\ Len(Tail(Oldest(q))) = n - 1
      /\ \A i \in 1 .. n - 1 : Tail(Oldest(q))[i] = Oldest(q)[i + 1]
  BY <1>1, HeadTailProperties
<1>5. n - 1 \in 0 .. Len(Oldest(Tail(q)))
  <2>1. Len(Oldest(Tail(q))) = IF Len(q) - 1 < MaxPendingWrites THEN Len(q) - 1 ELSE MaxPendingWrites
    BY <1>2, OldestProperties
  <2> QED
    BY <1>1, <1>3, <2>1
<1> HIDE DEF n
<1>6. /\ SubSeq(Tail(q), 1, n - 1) \in Seq(Batch)
      /\ Len(SubSeq(Tail(q), 1, n - 1)) = n - 1
      /\ \A i \in 1 .. n - 1 : SubSeq(Tail(q), 1, n - 1)[i] = Tail(q)[i]
  BY <1>2, <1>3, SubSeqProperties
<1>7. \A i \in 1 .. n - 1 : Tail(Oldest(q))[i] = SubSeq(Tail(q), 1, n - 1)[i]
  <2> TAKE i \in 1 .. n - 1
  <2>1. i + 1 \in 1 .. n /\ i \in 1 .. Len(Tail(q))
    BY <1>2, <1>3
  <2> QED
    BY <1>1, <1>2, <1>4, <1>6, <2>1
<1>8. Tail(Oldest(q)) = SubSeq(Tail(q), 1, n - 1)
  BY <1>4, <1>6, <1>7, SeqEqual
<1> QED
  BY <1>4, <1>5, <1>8 DEF n

\* The pipeline is still a beginning of the queue when a batch is added.
LEMMA OldestOfAppend ==
  ASSUME NEW q \in Seq(Batch), NEW b \in Batch
  PROVE  /\ Append(q, b) \in Seq(Batch)
         /\ Len(Append(q, b)) = Len(q) + 1
         /\ \A i \in 1 .. Len(q) : Append(q, b)[i] = q[i]
         /\ Append(q, b)[Len(q) + 1] = b
         /\ Len(Oldest(q)) \in 0 .. Len(Oldest(Append(q, b)))
         /\ Oldest(q) = SubSeq(Append(q, b), 1, Len(Oldest(q)))
<1> DEFINE n == Len(Oldest(q))
           a == Append(q, b)
<1>1. /\ a \in Seq(Batch)
      /\ Len(a) = Len(q) + 1
      /\ \A i \in 1 .. Len(q) : a[i] = q[i]
      /\ a[Len(q) + 1] = b
  BY AppendProperties
<1> HIDE DEF a
<1>2. /\ Oldest(q) \in Seq(Batch)
      /\ n = IF Len(q) < MaxPendingWrites THEN Len(q) ELSE MaxPendingWrites
      /\ \A i \in 1 .. n : Oldest(q)[i] = q[i]
  BY OldestProperties
<1>3. Len(q) \in Nat /\ n \in 0 .. Len(q)
  BY <1>2, WriteAssumption, BatchesOf
<1>4. n \in 0 .. Len(Oldest(a))
  <2>1. Len(Oldest(a)) = IF Len(q) + 1 < MaxPendingWrites THEN Len(q) + 1 ELSE MaxPendingWrites
    BY <1>1, OldestProperties
  <2> QED
    BY <1>2, <1>3, <2>1, WriteAssumption
<1> HIDE DEF n
<1>5. /\ SubSeq(a, 1, n) \in Seq(Batch)
      /\ Len(SubSeq(a, 1, n)) = n
      /\ \A i \in 1 .. n : SubSeq(a, 1, n)[i] = a[i]
  BY <1>1, <1>3, SubSeqProperties
<1>6. \A i \in 1 .. n : i \in 1 .. Len(q)
  BY <1>3
<1>7. Oldest(q) = SubSeq(a, 1, n)
  BY <1>1, <1>2, <1>5, <1>6, SeqEqual DEF n
<1> QED
  BY <1>1, <1>4, <1>7 DEF a, n

\* RestartNetwork, on the queue of the user to come.
LEMMA RestartIsSound ==
  ASSUME NEW q \in Seq(Batch), Sorted(q)
  PROVE  /\ StreamOK(RestartNetwork(q))
         /\ RestartNetwork(q).pipeline = Oldest(q)
         /\ RestartNetwork(q).served = 0 /\ ~RestartNetwork(q).denied
<1> DEFINE c == Closed("Initial", <<>>)
<1>1. StreamOK(c) /\ c.pipeline = <<>> /\ c.served = 0 /\ ~c.denied
  BY ClosedIsSound, EmptySeq DEF Closed
<1>2. SubSeq(q, 1, 0) = <<>> /\ 0 \in 0 .. Len(Oldest(q))
  BY SubSeqEmpty, OldestProperties, BatchesOf
<1> HIDE DEF c
<1> QED
  BY <1>1, <1>2, FillIsSound, ZenonT(60) DEF RestartNetwork, c

----------------------------------------------------------------------------
(***************************************************************************)
(* The inductive invariant of the queue, the stream and the backend.       *)
(***************************************************************************)
Queues ==
  /\ nextId > 0
  /\ \A u \in Users : Sorted(queue[u])
  /\ \A u \in Users : \A i \in 1 .. Len(queue[u]) :
       queue[u][i].id < nextId /\ queue[u][i].tag \in 1 .. written
  /\ \A u, v \in Users : \A i \in 1 .. Len(queue[u]), j \in 1 .. Len(queue[v]) :
       queue[u][i].tag = queue[v][j].tag => u = v /\ i = j

Backend ==
  /\ \A i \in 1 .. remote.served : remote.sent[i].tag \in applied \cup {0}
  /\ remote.denied => remote.sent[remote.served + 1].tag \in refused

SInv ==
  /\ TypeOK
  /\ Queues
  /\ PipelineIsQueueFront
  /\ StreamOK(remote)
  /\ Backend

\* What a sound remote store looks like, field by field.
LEMMA RemoteFields ==
  ASSUME NEW r \in Remote
  PROVE  /\ r.state \in States /\ r.handshake \in BOOLEAN /\ r.idle \in BOOLEAN
         /\ r.pipeline \in Seq(Batch) /\ r.sent \in Seq(Batch)
         /\ r.served \in Nat /\ r.denied \in BOOLEAN
BY DEF Remote

\* A client that has just been installed satisfies the invariant.
LEMMA InitSound == Init => SInv
<1> SUFFICES ASSUME Init PROVE SInv
  OBVIOUS
<1>1. <<>> \in Seq(Batch) /\ Len(<<>>) = 0
  BY EmptySeq
<1>2. StreamOK(remote) /\ remote.pipeline = <<>> /\ remote.served = 0 /\ ~remote.denied
  BY <1>1, ClosedIsSound DEF Init, Closed
<1>3. TypeOK
  BY <1>1, <1>2 DEF Init, TypeOK, StreamOK
<1>4. \A u \in Users : queue[u] = <<>>
  BY DEF Init
<1>5. Queues
  BY <1>1, <1>4 DEF Init, Queues, Sorted
<1>6. PipelineIsQueueFront
  BY <1>1, <1>2, <1>3, <1>4, OldestProperties DEF PipelineIsQueueFront, TypeOK
<1>7. Backend
  BY <1>2 DEF Backend
<1> QED
  BY <1>2, <1>3, <1>5, <1>6, <1>7 DEF SInv

\* The front of a pipeline that is not empty is the first batch of the queue.
LEMMA FrontOfQueue ==
  ASSUME SInv, remote.pipeline # <<>>
  PROVE  /\ queue[user] \in Seq(Batch) /\ queue[user] # <<>>
         /\ Len(queue[user]) \in Nat \ {0}
         /\ Head(remote.pipeline) = queue[user][1]
         /\ remote.pipeline[1] = queue[user][1]
<1>1. queue[user] \in Seq(Batch) /\ remote.pipeline \in Seq(Batch)
  BY RemoteFields DEF SInv, TypeOK
<1>2. queue[user] # <<>> /\ Len(remote.pipeline) \in Nat \ {0} /\ Len(queue[user]) \in Nat \ {0}
  BY <1>1, OldestProperties, EmptySeq, LenProperties DEF SInv, PipelineIsQueueFront
<1>3. 1 \in 1 .. Len(remote.pipeline)
  BY <1>2
<1>4. remote.pipeline[1] = queue[user][1]
  BY <1>1, <1>3, OldestProperties, SMTT(30) DEF SInv, PipelineIsQueueFront
<1>5. Head(remote.pipeline) = remote.pipeline[1]
  BY <1>1, HeadTailProperties
<1> QED
  BY <1>1, <1>2, <1>4, <1>5

\* RemoveMutationBatch takes the first batch from the queue of the user.
LEMMA RemoveFront ==
  ASSUME SInv, remote.pipeline # <<>>, RemoveMutationBatch(Head(remote.pipeline).id),
         UNCHANGED <<nextId, user, written>>
  PROVE  /\ queue' = [queue EXCEPT ![user] = Tail(queue[user])]
         /\ queue' \in [Users -> Seq(Batch)]
         /\ Queues'
         /\ Sorted(queue'[user])
         /\ Tail(remote.pipeline) \in Seq(Batch)
         /\ Len(remote.pipeline) - 1 \in 0 .. Len(Oldest(queue'[user]))
         /\ Tail(remote.pipeline) = SubSeq(queue'[user], 1, Len(remote.pipeline) - 1)
<1> DEFINE q == queue[user]
<1>1. /\ q \in Seq(Batch) /\ q # <<>> /\ Sorted(q) /\ user \in Users
      /\ Head(remote.pipeline) = q[1] /\ remote.pipeline = Oldest(q)
      /\ queue \in [Users -> Seq(Batch)]
  BY FrontOfQueue DEF SInv, Queues, TypeOK, PipelineIsQueueFront
<1>2. /\ Without(q, q[1].id) = Tail(q)
      /\ Tail(q) \in Seq(Batch)
      /\ Sorted(Tail(q))
      /\ Len(Tail(q)) = Len(q) - 1
      /\ \A i \in 1 .. Len(Tail(q)) : Tail(q)[i] = q[i + 1]
  BY <1>1, WithoutFirst
<1>3. queue' = [queue EXCEPT ![user] = Tail(q)]
  BY <1>1, <1>2 DEF RemoveMutationBatch
<1>4. /\ queue' \in [Users -> Seq(Batch)]
      /\ queue'[user] = Tail(q)
      /\ \A u \in Users \ {user} : queue'[u] = queue[u]
  BY <1>1, <1>2, <1>3
<1>5. \A u \in Users : Sorted(queue'[u])
  BY <1>1, <1>2, <1>4 DEF SInv, Queues
<1> DEFINE shift(u) == IF u = user THEN 1 ELSE 0
<1>6. \A u \in Users : \A i \in 1 .. Len(queue'[u]) :
        i + shift(u) \in 1 .. Len(queue[u]) /\ queue'[u][i] = queue[u][i + shift(u)]
  <2> TAKE u \in Users
  <2> TAKE i \in 1 .. Len(queue'[u])
  <2>1. CASE u = user
    <3>1. Len(q) \in Nat /\ i \in 1 .. Len(q) - 1 /\ i \in 1 .. Len(Tail(q))
      BY <1>1, <1>2, <1>4, <2>1, BatchesOf
    <3>2. i + 1 \in 1 .. Len(q) /\ Tail(q)[i] = q[i + 1]
      BY <1>2, <3>1
    <3>3. queue'[u] = Tail(q) /\ queue[u] = q /\ shift(u) = 1
      BY <1>4, <2>1
    <3> QED
      BY <3>2, <3>3
  <2>2. CASE u # user
    <3>1. queue'[u] = queue[u] /\ Len(queue[u]) \in Nat
      BY <1>1, <1>4, <2>2, BatchesOf
    <3>2. i + shift(u) = i
      BY <2>2, <3>1
    <3> QED
      BY <3>1, <3>2
  <2> QED
    BY <2>1, <2>2
<1> HIDE DEF shift
<1>7. \A u \in Users : \A i \in 1 .. Len(queue'[u]) :
        queue'[u][i].id < nextId /\ queue'[u][i].tag \in 1 .. written
  <2> TAKE u \in Users
  <2> TAKE i \in 1 .. Len(queue'[u])
  <2>1. queue[u][i + shift(u)].id < nextId /\ queue[u][i + shift(u)].tag \in 1 .. written
    BY <1>6 DEF SInv, Queues
  <2> QED
    BY <1>6, <2>1
<1>8. ASSUME NEW u \in Users, NEW v \in Users,
             NEW i \in 1 .. Len(queue'[u]), NEW j \in 1 .. Len(queue'[v]),
             queue'[u][i].tag = queue'[v][j].tag
      PROVE  u = v /\ i = j
  <2>1. u = v /\ i + shift(u) = j + shift(v)
    <3>1. /\ i + shift(u) \in 1 .. Len(queue[u]) /\ queue'[u][i] = queue[u][i + shift(u)]
          /\ j + shift(v) \in 1 .. Len(queue[v]) /\ queue'[v][j] = queue[v][j + shift(v)]
      BY <1>6
    <3> QED
      BY <1>8, <3>1, SMTT(30) DEF SInv, Queues
  <2> QED
    BY <1>4, <2>1, BatchesOf DEF shift
<1>9. Queues'
  BY <1>5, <1>7, <1>8 DEF SInv, Queues
<1>10. /\ Tail(remote.pipeline) \in Seq(Batch)
       /\ Len(remote.pipeline) - 1 \in 0 .. Len(Oldest(queue'[user]))
       /\ Tail(remote.pipeline) = SubSeq(queue'[user], 1, Len(remote.pipeline) - 1)
  BY <1>1, <1>4, OldestOfTail
<1> QED
  BY <1>1, <1>3, <1>4, <1>5, <1>9, <1>10

\* NotifyUser keeps the types of the callbacks and of what was told.
LEMMA NotifyTypes ==
  ASSUME TypeOK, NEW id, NEW verdict \in {"acknowledged", "rejected"},
         NotifyUser(id, verdict)
  PROVE  /\ callbacks' \subseteq Callback
         /\ told' \subseteq [tag : Nat, verdict : {"acknowledged", "rejected"}]
<1>1. \A c \in Waiting(user, id) : c \in Callback /\ c.tag \in Nat
  BY DEF TypeOK, Callback, Waiting
<1> QED
  BY <1>1 DEF TypeOK, NotifyUser

\* The tags of the requests that a call leaves behind are numbers.
LEMMA LeftoverTypes ==
  ASSUME TypeOK, StreamOK(remote), CommitsLeftover
  PROVE  applied \subseteq applied' /\ applied' \subseteq Nat
<1>1. PICK tags \in Leftover : applied' = applied \cup tags
  BY DEF CommitsLeftover
<1>2. /\ remote.sent \in Seq(Batch) /\ remote.served \in Nat
      /\ remote.served <= Len(remote.sent)
      /\ remote.denied => remote.served < Len(remote.sent)
  BY RemoteFields DEF StreamOK
<1> DEFINE last == IF remote.denied THEN remote.served ELSE Len(remote.sent)
<1>3. last \in Nat /\ last <= Len(remote.sent)
  BY <1>2, BatchesOf
<1>4. PICK n \in remote.served .. last :
        tags = {remote.sent[i].tag : i \in remote.served + 1 .. n} \ {0}
  BY <1>1 DEF Leftover
<1> HIDE DEF last
<1>5. \A i \in remote.served + 1 .. n : i \in 1 .. Len(remote.sent)
  BY <1>2, <1>3
<1>6. tags \subseteq Nat
  BY <1>2, <1>4, <1>5, BatchesOf
<1> QED
  BY <1>1, <1>6 DEF TypeOK

\* LoadNextBatchIdFromDb hands out an id above every id in use.
LEMMA LoadedIdIsFresh ==
  ASSUME TypeOK, Queues, LoadNextBatchIdFromDb
  PROVE  /\ nextId' \in Nat /\ nextId' > 0
         /\ \A u \in Users : \A i \in 1 .. Len(queue[u]) : queue[u][i].id < nextId'
<1> DEFINE ids == UNION {{queue[u][i].id : i \in DOMAIN queue[u]} : u \in Users}
<1>1. \A u \in Users : /\ queue[u] \in Seq(Batch)
                       /\ DOMAIN queue[u] = 1 .. Len(queue[u])
                       /\ \A i \in 1 .. Len(queue[u]) : queue[u][i].id \in Nat
  BY BatchesOf, LenProperties DEF TypeOK
<1>2. /\ ids \subseteq Nat
      /\ \A u \in Users : \A i \in 1 .. Len(queue[u]) : queue[u][i].id \in ids
  BY <1>1
<1>3. PICK highest \in {0} \cup ids :
        (\A id \in ids : id <= highest) /\ nextId' = highest + 1
  BY DEF LoadNextBatchIdFromDb
<1> HIDE DEF ids
<1>4. highest \in Nat
  <2>1. highest = 0 \/ highest \in ids
    BY <1>3
  <2>2. ids \subseteq Nat
    BY <1>2
  <2> QED
    BY <2>1, <2>2
<1>5. ASSUME NEW u \in Users, NEW i \in 1 .. Len(queue[u]) PROVE queue[u][i].id < nextId'
  BY <1>1, <1>2, <1>3, <1>4
<1> QED
  BY <1>3, <1>4, <1>5

----------------------------------------------------------------------------
(***************************************************************************)
(* Every step keeps the invariant: one lemma for each kind of step.        *)
(***************************************************************************)
\* WriteMutations: the new id is above all others and the pipeline takes the
\* batch if there is room.
LEMMA WriteKeeps ==
  ASSUME SInv, NEW ok \in BOOLEAN, WriteMutations(ok)
  PROVE  SInv'
<1> DEFINE q == queue[user]
           b == [id |-> nextId, tag |-> written + 1, ok |-> ok]
<1>1. /\ q \in Seq(Batch) /\ user \in Users /\ queue \in [Users -> Seq(Batch)]
      /\ nextId \in Nat /\ nextId > 0 /\ written \in Nat /\ Sorted(q)
      /\ remote.pipeline = Oldest(q) /\ StreamOK(remote)
  BY DEF SInv, TypeOK, Queues, PipelineIsQueueFront
<1>2. b \in Batch /\ b.id = nextId /\ b.tag = written + 1
  BY <1>1 DEF Batch
<1>3. /\ queue' = [queue EXCEPT ![user] = Append(q, b)]
      /\ nextId' = nextId + 1 /\ written' = written + 1
      /\ remote' = FillWritePipeline(remote, queue'[user])
      /\ UNCHANGED <<user, applied, refused, told, faults>>
  BY DEF WriteMutations, AddMutationBatch
<1> HIDE DEF b
<1>4. /\ Append(q, b) \in Seq(Batch)
      /\ Len(Append(q, b)) = Len(q) + 1
      /\ \A i \in 1 .. Len(q) : Append(q, b)[i] = q[i]
      /\ Append(q, b)[Len(q) + 1] = b
      /\ Len(Oldest(q)) \in 0 .. Len(Oldest(Append(q, b)))
      /\ Oldest(q) = SubSeq(Append(q, b), 1, Len(Oldest(q)))
  BY <1>1, <1>2, OldestOfAppend
<1>5. /\ queue' \in [Users -> Seq(Batch)]
      /\ queue'[user] = Append(q, b)
      /\ \A u \in Users \ {user} : queue'[u] = queue[u]
  BY <1>1, <1>3, <1>4
<1>6. \A u \in Users : \A i \in 1 .. Len(queue'[u]) :
        \/ i \in 1 .. Len(queue[u]) /\ queue'[u][i] = queue[u][i]
        \/ u = user /\ i = Len(q) + 1 /\ queue'[u][i] = b
  <2> TAKE u \in Users
  <2> TAKE i \in 1 .. Len(queue'[u])
  <2>1. CASE u = user
    <3>1. i \in 1 .. Len(q) \/ i = Len(q) + 1
      BY <1>1, <1>4, <1>5, <2>1, BatchesOf
    <3> QED
      BY <1>4, <1>5, <2>1, <3>1
  <2>2. CASE u # user
    BY <1>5, <2>2
  <2> QED
    BY <2>1, <2>2
<1>7. \A u \in Users : \A i \in 1 .. Len(queue[u]) :
        /\ queue[u][i].id < nextId /\ queue[u][i].tag \in 1 .. written
        /\ queue[u][i].id \in Nat
  BY BatchesOf DEF SInv, TypeOK, Queues
<1>8. \A u \in Users : Len(queue[u]) \in Nat
  BY BatchesOf DEF SInv, TypeOK
<1>9. Queues'
  <2>1. ASSUME NEW u \in Users PROVE Sorted(queue'[u])
    <3>1. \A i \in 1 .. Len(queue'[u]) : queue'[u][i].id > 0
      <4> TAKE i \in 1 .. Len(queue'[u])
      <4>1. CASE i \in 1 .. Len(queue[u]) /\ queue'[u][i] = queue[u][i]
        BY <4>1 DEF SInv, Queues, Sorted
      <4>2. CASE queue'[u][i] = b
        BY <1>1, <1>2, <4>2
      <4> QED
        BY <1>6, <4>1, <4>2
    <3>2. ASSUME NEW i \in 1 .. Len(queue'[u]), NEW j \in 1 .. Len(queue'[u]), i < j
          PROVE  queue'[u][i].id < queue'[u][j].id
      <4>1. CASE j \in 1 .. Len(queue[u]) /\ queue'[u][j] = queue[u][j]
        <5>1. i \in 1 .. Len(queue[u])
          BY <1>8, <3>2, <4>1
        <5>2. queue'[u][i] = queue[u][i]
          BY <1>6, <1>8, <5>1
        <5> QED
          BY <3>2, <4>1, <5>1, <5>2 DEF SInv, Queues, Sorted
      <4>2. CASE u = user /\ j = Len(q) + 1 /\ queue'[u][j] = b
        <5>1. i \in 1 .. Len(queue[u])
          BY <1>8, <3>2, <4>2
        <5>2. queue'[u][i] = queue[u][i]
          BY <1>6, <1>8, <5>1
        <5> QED
          BY <1>2, <1>7, <4>2, <5>1, <5>2
      <4> QED
        BY <1>6, <4>1, <4>2
    <3> QED
      BY <3>1, <3>2 DEF Sorted
  <2>2. ASSUME NEW u \in Users, NEW i \in 1 .. Len(queue'[u])
        PROVE  queue'[u][i].id < nextId' /\ queue'[u][i].tag \in 1 .. written'
    BY <1>1, <1>2, <1>3, <1>6, <1>7
  <2>3. ASSUME NEW u \in Users, NEW v \in Users,
               NEW i \in 1 .. Len(queue'[u]), NEW j \in 1 .. Len(queue'[v]),
               queue'[u][i].tag = queue'[v][j].tag
        PROVE  u = v /\ i = j
    <3>1. \A w \in Users : \A k \in 1 .. Len(queue[w]) : queue[w][k].tag # written + 1
      BY <1>1, <1>7
    <3>2. CASE queue'[u][i] = b
      BY <1>2, <1>6, <2>3, <3>1, <3>2
    <3>3. CASE queue'[v][j] = b
      BY <1>2, <1>6, <2>3, <3>1, <3>3
    <3>4. CASE queue'[u][i] # b /\ queue'[v][j] # b
      <4>1. /\ i \in 1 .. Len(queue[u]) /\ queue'[u][i] = queue[u][i]
            /\ j \in 1 .. Len(queue[v]) /\ queue'[v][j] = queue[v][j]
        BY <1>6, <3>4
      <4> QED
        BY <2>3, <4>1 DEF SInv, Queues
    <3> QED
      BY <3>2, <3>3, <3>4
  <2>4. nextId' > 0
    BY <1>1, <1>3
  <2> QED
    BY <2>1, <2>2, <2>3, <2>4 DEF Queues
<1>10. /\ StreamOK(remote')
       /\ remote'.pipeline = Oldest(queue'[user])
       /\ remote'.served = remote.served /\ remote'.denied = remote.denied
       /\ Len(remote.sent) <= Len(remote'.sent)
       /\ \A i \in 1 .. Len(remote.sent) : remote'.sent[i] = remote.sent[i]
  <2>1. Sorted(Append(q, b))
    BY <1>1, <1>5, <1>9 DEF Queues
  <2> DEFINE a == Append(q, b)
             k == Len(Oldest(q))
  <2>2. /\ a \in Seq(Batch) /\ Sorted(a) /\ StreamOK(remote)
        /\ k \in 0 .. Len(Oldest(a)) /\ remote.pipeline = SubSeq(a, 1, k)
    BY <1>1, <1>4, <2>1
  <2> HIDE DEF a, k
  <2>3. LET f == FillWritePipeline(remote, a)
        IN  /\ StreamOK(f)
            /\ f.pipeline = Oldest(a)
            /\ f.served = remote.served /\ f.denied = remote.denied
            /\ Len(remote.sent) <= Len(f.sent)
            /\ \A i \in 1 .. Len(remote.sent) : f.sent[i] = remote.sent[i]
    BY <2>2, FillIsSound
  <2> QED
    BY <1>3, <1>5, <2>3 DEF a
<1>11. Backend'
  <2>1. /\ remote.served \in Nat /\ Len(remote.sent) \in Nat
        /\ remote.served <= Len(remote.sent)
        /\ remote.denied => remote.served < Len(remote.sent)
    BY <1>1, RemoteFields, BatchesOf DEF StreamOK
  <2>2. \A i \in 1 .. remote.served : i \in 1 .. Len(remote.sent)
    BY <2>1
  <2>3. remote.denied => remote.served + 1 \in 1 .. Len(remote.sent)
    BY <2>1
  <2> QED
    BY <1>3, <1>10, <2>2, <2>3, SMTT(30) DEF SInv, Backend
<1>12. callbacks' \subseteq Callback
  BY <1>1 DEF WriteMutations, SInv, TypeOK, Callback
<1>13. TypeOK'
  <2>1. remote' \in Remote
    BY <1>10 DEF StreamOK
  <2>2. queue' \in [Users -> Seq(Batch)]
    BY <1>1, <1>3, <1>5 DEF SInv, TypeOK
  <2>3. /\ nextId' \in Nat /\ user' \in Users /\ written' \in Nat /\ faults' \in Nat
        /\ applied' \subseteq Nat /\ refused' \subseteq Nat
        /\ told' \subseteq [tag : Nat, verdict : {"acknowledged", "rejected"}]
    BY <1>1, <1>3 DEF SInv, TypeOK
  <2> QED
    BY <1>12, <2>1, <2>2, <2>3 DEF TypeOK
<1> QED
  BY <1>3, <1>9, <1>10, <1>11, <1>13 DEF SInv, PipelineIsQueueFront

\* What is left to show of a step that does not touch the queues.
LEMMA QueuesKept ==
  ASSUME SInv, UNCHANGED <<queue, written>>,
         nextId' \in Nat, nextId' > 0,
         \A u \in Users : \A i \in 1 .. Len(queue[u]) : queue[u][i].id < nextId',
         user' \in Users, callbacks' \subseteq Callback,
         told' \subseteq [tag : Nat, verdict : {"acknowledged", "rejected"}],
         applied' \subseteq Nat, refused' \subseteq Nat, faults' \in Nat,
         StreamOK(remote'), remote'.pipeline = Oldest(queue[user']), Backend'
  PROVE  SInv'
<1>1. TypeOK'
  BY DEF SInv, TypeOK, StreamOK
<1>2. Queues'
  BY DEF SInv, Queues
<1> QED
  BY <1>1, <1>2 DEF SInv, PipelineIsQueueFront

\* The same for a step of the stream alone.
LEMMA StreamSteps ==
  ASSUME SInv, UNCHANGED <<queue, nextId, user, callbacks, told, written, faults>>,
         applied' \subseteq Nat, refused' \subseteq Nat,
         StreamOK(remote'), remote'.pipeline = remote.pipeline, Backend'
  PROVE  SInv'
<1>1. \A u \in Users : \A i \in 1 .. Len(queue[u]) : queue[u][i].id < nextId'
  BY DEF SInv, Queues
<1>2. /\ nextId' \in Nat /\ nextId' > 0 /\ user' \in Users /\ callbacks' \subseteq Callback
      /\ told' \subseteq [tag : Nat, verdict : {"acknowledged", "rejected"}]
      /\ faults' \in Nat
  BY DEF SInv, TypeOK, Queues
<1>3. remote'.pipeline = Oldest(queue[user'])
  BY DEF SInv, PipelineIsQueueFront
<1> QED
  BY <1>1, <1>2, <1>3, QueuesKept

\* OnWriteStreamOpen: the handshake is the only request.
LEMMA OpenKeeps ==
  ASSUME SInv, OnWriteStreamOpen
  PROVE  SInv'
<1>1. remote \in Remote /\ StreamOK(remote) /\ remote.state = "Starting"
  BY DEF SInv, StreamOK, OnWriteStreamOpen
<1>2. /\ remote' \in Remote
      /\ remote'.state = "Open" /\ remote'.sent = <<Handshake>>
      /\ remote'.handshake = remote.handshake /\ remote'.idle = remote.idle
      /\ remote'.pipeline = remote.pipeline /\ remote'.served = remote.served
      /\ remote'.denied = remote.denied
  BY <1>1, HandshakeSeq DEF OnWriteStreamOpen, Remote, States
<1>3. ~remote.handshake /\ ~remote.idle /\ remote.served = 0 /\ ~remote.denied
      /\ remote.pipeline # <<>>
  BY <1>1 DEF StreamOK, IsOpen, IsStarted
<1>4. StreamOK(remote')
  BY <1>2, <1>3, HandshakeSeq DEF StreamOK, IsOpen, IsStarted
<1>5. Backend'
  BY <1>2, <1>3 DEF Backend
<1> QED
  BY <1>2, <1>4, <1>5, StreamSteps DEF OnWriteStreamOpen, SInv, TypeOK

\* The backend answers the next request or turns it down.
LEMMA ServeKeeps ==
  ASSUME SInv, Serve
  PROVE  SInv'
<1> DEFINE n == remote.served
           request == remote.sent[n + 1]
<1>1. /\ remote \in Remote /\ StreamOK(remote) /\ IsOpen(remote) /\ ~remote.denied
      /\ remote.sent \in Seq(Batch) /\ n \in Nat /\ Len(remote.sent) \in Nat
      /\ n + 1 \in 1 .. Len(remote.sent) /\ n < Len(remote.sent)
  BY RemoteFields, BatchesOf DEF SInv, StreamOK, Serve
<1>2. request.tag \in Nat
  BY <1>1, BatchesOf
<1>3. CASE request.ok
  <2>1. /\ remote' = [remote EXCEPT !.served = n + 1]
        /\ applied' = applied \cup ({request.tag} \ {0})
        /\ UNCHANGED refused
    BY <1>3 DEF Serve
  <2>2. /\ remote' \in Remote /\ remote'.served = n + 1
        /\ remote'.state = remote.state /\ remote'.sent = remote.sent
        /\ remote'.handshake = remote.handshake /\ remote'.idle = remote.idle
        /\ remote'.pipeline = remote.pipeline /\ remote'.denied = remote.denied
    BY <1>1, <2>1 DEF Remote
  <2>3. StreamOK(remote')
    BY <1>1, <2>2 DEF StreamOK, IsOpen, IsStarted
  <2>4. Backend'
    <3> SUFFICES ASSUME NEW i \in 1 .. n + 1
                 PROVE  remote.sent[i].tag \in applied' \cup {0}
      BY <1>1, <2>2 DEF Backend
    <3>1. i \in 1 .. n \/ i = n + 1
      BY <1>1
    <3> QED
      BY <2>1, <3>1 DEF SInv, Backend
  <2> QED
    BY <1>2, <2>1, <2>2, <2>3, <2>4, StreamSteps DEF Serve, SInv, TypeOK
<1>4. CASE ~request.ok
  <2>1. /\ remote' = [remote EXCEPT !.denied = TRUE]
        /\ refused' = refused \cup {request.tag}
        /\ UNCHANGED applied
    BY <1>4 DEF Serve
  <2>2. /\ remote' \in Remote /\ remote'.denied
        /\ remote'.state = remote.state /\ remote'.sent = remote.sent
        /\ remote'.handshake = remote.handshake /\ remote'.idle = remote.idle
        /\ remote'.pipeline = remote.pipeline /\ remote'.served = n
    BY <1>1, <2>1 DEF Remote
  <2>3. StreamOK(remote')
    BY <1>1, <1>4, <2>2 DEF StreamOK, IsOpen, IsStarted
  <2>4. Backend'
    BY <2>1, <2>2 DEF SInv, Backend
  <2> QED
    BY <1>2, <2>1, <2>2, <2>3, <2>4, StreamSteps DEF Serve, SInv, TypeOK
<1> QED
  BY <1>3, <1>4

\* OnWriteStreamHandshakeComplete: the whole pipeline has now been sent.
LEMMA HandshakeKeeps ==
  ASSUME SInv, OnWriteStreamHandshakeComplete
  PROVE  SInv'
<1>1. /\ remote \in Remote /\ StreamOK(remote) /\ IsOpen(remote) /\ ~remote.handshake
      /\ remote.served > 0 /\ remote.served \in Nat /\ remote.pipeline \in Seq(Batch)
  BY RemoteFields DEF SInv, StreamOK, OnWriteStreamHandshakeComplete, Answered
<1>2. /\ remote.sent = <<Handshake>> /\ remote.pipeline # <<>>
      /\ ~remote.idle /\ remote.served = 1 /\ ~remote.denied
  <2>1. remote.sent = <<Handshake>> /\ remote.pipeline # <<>>
    BY <1>1 DEF StreamOK, IsStarted
  <2>2. Len(remote.sent) = 1
    BY <2>1, HandshakeSeq
  <2>3. remote.served = 1 /\ ~remote.denied
    BY <1>1, <2>2 DEF StreamOK
  <2>4. ~remote.idle
    BY <1>1, <2>1 DEF StreamOK
  <2> QED
    BY <2>1, <2>3, <2>4
<1>3. Tail(remote.sent) \o remote.pipeline = remote.pipeline
  BY <1>1, <1>2, ConcatEmptySeq
<1>4. /\ remote' \in Remote
      /\ remote'.state = remote.state /\ remote'.sent = remote.pipeline
      /\ remote'.handshake /\ ~remote'.idle
      /\ remote'.pipeline = remote.pipeline /\ remote'.served = 0
      /\ ~remote'.denied
  <2>1. (remote.idle /\ remote.pipeline = <<>>) = FALSE /\ remote.served - 1 = 0
    BY <1>2
  <2>2. remote' = [remote EXCEPT !.handshake = TRUE,
                                 !.sent = Tail(remote.sent) \o remote.pipeline,
                                 !.served = remote.served - 1,
                                 !.idle = remote.idle /\ remote.pipeline = <<>>]
    BY <1>1 DEF OnWriteStreamHandshakeComplete, Remote
  <2>3. remote' = [remote EXCEPT !.handshake = TRUE, !.sent = remote.pipeline,
                                 !.served = 0, !.idle = FALSE]
    BY <1>3, <2>1, <2>2
  <2> QED
    BY <1>1, <1>2, <2>3 DEF Remote
<1>5. StreamOK(remote')
  BY <1>1, <1>4, BatchesOf DEF StreamOK, IsOpen, IsStarted
<1>6. Backend'
  BY <1>4 DEF Backend
<1> QED
  BY <1>4, <1>5, <1>6, StreamSteps DEF OnWriteStreamHandshakeComplete, SInv, TypeOK

\* The end of the backoff and the idle timeout.
LEMMA TimersKeep ==
  ASSUME SInv, BackoffElapsed \/ IdleTimeout
  PROVE  SInv'
<1>1. remote \in Remote /\ StreamOK(remote) /\ remote.pipeline \in Seq(Batch)
  BY RemoteFields DEF SInv, StreamOK
<1>2. CASE BackoffElapsed
  <2>1. /\ remote' \in Remote /\ remote'.state = "Starting"
        /\ remote'.sent = remote.sent /\ remote'.denied = remote.denied
        /\ remote'.handshake = remote.handshake /\ remote'.idle = remote.idle
        /\ remote'.pipeline = remote.pipeline /\ remote'.served = remote.served
        /\ remote.state = "Backoff"
    BY <1>1, <1>2 DEF BackoffElapsed, Remote, States
  <2>2. StreamOK(remote')
    BY <1>1, <2>1 DEF StreamOK, IsOpen, IsStarted
  <2>3. Backend'
    BY <1>2, <2>1 DEF SInv, Backend, BackoffElapsed
  <2> QED
    BY <1>2, <2>1, <2>2, <2>3, StreamSteps DEF BackoffElapsed, SInv, TypeOK
<1>3. CASE IdleTimeout
  <2>1. remote' = Closed("Initial", remote.pipeline)
    BY <1>3 DEF IdleTimeout
  <2>2. /\ StreamOK(remote') /\ remote'.pipeline = remote.pipeline
        /\ remote'.served = 0 /\ ~remote'.denied
    BY <1>1, <2>1, ClosedIsSound DEF Closed
  <2>3. Backend'
    BY <2>2 DEF Backend
  <2> QED
    BY <1>3, <2>2, <2>3, StreamSteps DEF IdleTimeout, SInv, TypeOK
<1> QED
  BY <1>2, <1>3

\* A step that settles the front of the pipeline and fills it again.
LEMMA SettleKeeps ==
  ASSUME SInv, remote.pipeline # <<>>,
         NEW verdict \in {"acknowledged", "rejected"},
         NotifyUser(Head(remote.pipeline).id, verdict),
         RemoveMutationBatch(Head(remote.pipeline).id),
         UNCHANGED <<nextId, user, applied, refused, written, faults>>,
         NEW r, StreamOK(r), r.pipeline = Tail(remote.pipeline),
         remote' = FillWritePipeline(r, queue'[user]),
         \A i \in 1 .. r.served : r.sent[i].tag \in applied \cup {0},
         r.denied => r.sent[r.served + 1].tag \in refused
  PROVE  SInv'
<1> DEFINE k == Len(remote.pipeline) - 1
           q == queue'[user]
<1>1. /\ queue' \in [Users -> Seq(Batch)] /\ Queues' /\ Sorted(q)
      /\ k \in 0 .. Len(Oldest(q)) /\ r.pipeline = SubSeq(q, 1, k)
  BY RemoveFront
<1>2. q \in Seq(Batch)
  BY <1>1 DEF SInv, TypeOK
<1>3. remote' = FillWritePipeline(r, q) /\ queue'[user'] = q
  OBVIOUS
<1> HIDE DEF k, q
<1>4. /\ StreamOK(remote') /\ remote'.pipeline = Oldest(q)
      /\ remote'.served = r.served /\ remote'.denied = r.denied
      /\ Len(r.sent) <= Len(remote'.sent)
      /\ \A i \in 1 .. Len(r.sent) : remote'.sent[i] = r.sent[i]
  <2>1. LET f == FillWritePipeline(r, q)
        IN  /\ StreamOK(f) /\ f.pipeline = Oldest(q)
            /\ f.served = r.served /\ f.denied = r.denied
            /\ Len(r.sent) <= Len(f.sent)
            /\ \A i \in 1 .. Len(r.sent) : f.sent[i] = r.sent[i]
    BY <1>1, <1>2, FillIsSound
  <2> QED
    BY <1>3, <2>1
<1>5. Backend'
  <2>1. /\ r.served \in Nat /\ Len(r.sent) \in Nat
        /\ r.served <= Len(r.sent)
        /\ r.denied => r.served < Len(r.sent)
    BY RemoteFields, BatchesOf DEF StreamOK
  <2>2. \A i \in 1 .. r.served : i \in 1 .. Len(r.sent)
    BY <2>1
  <2>3. r.denied => r.served + 1 \in 1 .. Len(r.sent)
    BY <2>1
  <2> QED
    BY <1>4, <2>2, <2>3 DEF Backend
<1>6. /\ callbacks' \subseteq Callback
      /\ told' \subseteq [tag : Nat, verdict : {"acknowledged", "rejected"}]
  BY NotifyTypes DEF SInv
<1>7. TypeOK'
  BY <1>1, <1>4, <1>6 DEF SInv, TypeOK, StreamOK
<1> QED
  BY <1>1, <1>3, <1>4, <1>5, <1>7 DEF SInv, PipelineIsQueueFront

\* OnWriteStreamMutationResult: pipeline, requests and answers move up by one.
LEMMA ResultKeeps ==
  ASSUME SInv, OnWriteStreamMutationResult
  PROVE  SInv'
<1> DEFINE r == [remote EXCEPT !.pipeline = Tail(@), !.sent = Tail(@), !.served = @ - 1]
           p == remote.pipeline
<1>1. /\ remote \in Remote /\ StreamOK(remote) /\ IsOpen(remote) /\ remote.handshake
      /\ remote.served > 0 /\ remote.served \in Nat
      /\ p \in Seq(Batch) /\ p # <<>> /\ remote.sent = p
      /\ remote.served <= Len(p)
      /\ remote.denied => remote.served < Len(p) /\ ~p[remote.served + 1].ok
      /\ ~remote.idle /\ remote.state \in States /\ remote.denied \in BOOLEAN
  BY RemoteFields DEF SInv, StreamOK, OnWriteStreamMutationResult, Answered
<1>2. /\ Tail(p) \in Seq(Batch) /\ Len(Tail(p)) = Len(p) - 1 /\ Len(p) \in Nat \ {0}
      /\ \A i \in 1 .. Len(Tail(p)) : Tail(p)[i] = p[i + 1]
  BY <1>1, HeadTailProperties, EmptySeq, BatchesOf
<1>3. /\ r \in Remote
      /\ r.state = remote.state /\ r.handshake /\ ~r.idle
      /\ r.pipeline = Tail(p) /\ r.sent = Tail(p)
      /\ r.served = remote.served - 1 /\ r.denied = remote.denied
  <2> DEFINE t == Tail(p)
             n == remote.served - 1
  <2>1. t \in Seq(Batch) /\ n \in Nat
    BY <1>1, <1>2
  <2>2. r = [remote EXCEPT !.pipeline = t, !.sent = t, !.served = n]
    BY <1>1 DEF Remote
  <2> HIDE DEF r, t, n
  <2>3. /\ r \in Remote
        /\ r.state = remote.state /\ r.handshake = remote.handshake /\ r.idle = remote.idle
        /\ r.pipeline = t /\ r.sent = t /\ r.served = n /\ r.denied = remote.denied
    BY <1>1, <2>1, <2>2 DEF Remote
  <2> QED
    BY <1>1, <2>3 DEF t, n
<1>4. /\ HandleSuccessfulWrite(Head(remote.pipeline).id)
      /\ remote' = FillWritePipeline(r, queue'[user])
      /\ UNCHANGED <<nextId, user, applied, refused, written, faults>>
  BY DEF OnWriteStreamMutationResult
<1> HIDE DEF r
<1>5. /\ r.served \in Nat
      /\ \A i \in 1 .. r.served : i + 1 \in 1 .. remote.served /\ r.sent[i] = p[i + 1]
      /\ r.denied => r.served < Len(r.sent) /\ r.sent[r.served + 1] = p[remote.served + 1]
  <2>1. r.served \in Nat /\ Len(r.sent) = Len(p) - 1
    BY <1>1, <1>2, <1>3
  <2>2. ASSUME NEW i \in 1 .. r.served
        PROVE  i + 1 \in 1 .. remote.served /\ r.sent[i] = p[i + 1]
    <3>1. i \in 1 .. Len(Tail(p)) /\ i + 1 \in 1 .. remote.served
      BY <1>1, <1>2, <1>3, <2>1
    <3> QED
      BY <1>2, <1>3, <3>1
  <2>3. ASSUME r.denied
        PROVE  r.served < Len(r.sent) /\ r.sent[r.served + 1] = p[remote.served + 1]
    <3>1. r.served + 1 \in 1 .. Len(Tail(p)) /\ (r.served + 1) + 1 = remote.served + 1
      BY <1>1, <1>2, <1>3, <2>1, <2>3
    <3>2. Tail(p)[r.served + 1] = p[(r.served + 1) + 1]
      BY <1>2, <3>1
    <3> QED
      BY <1>1, <1>2, <1>3, <2>1, <3>1, <3>2
  <2> QED
    BY <2>1, <2>2, <2>3
<1>6. StreamOK(r)
  BY <1>1, <1>2, <1>3, <1>5 DEF StreamOK, IsOpen, IsStarted
<1>7. /\ \A i \in 1 .. r.served : r.sent[i].tag \in applied \cup {0}
      /\ r.denied => r.sent[r.served + 1].tag \in refused
  BY <1>1, <1>3, <1>5 DEF SInv, Backend
<1> QED
  BY <1>1, <1>3, <1>4, <1>6, <1>7, SettleKeeps DEF HandleSuccessfulWrite

\* HandleWriteError: the stream is taken up again without the front.
LEMMA WriteErrorKeeps ==
  ASSUME SInv, HandleWriteError
  PROVE  SInv'
<1> DEFINE r == Closed("Initial", Tail(remote.pipeline))
<1>1. /\ remote.pipeline # <<>>
      /\ HandleRejectedWrite(Head(remote.pipeline).id)
      /\ remote' = FillWritePipeline(r, queue'[user])
      /\ UNCHANGED <<nextId, user, applied, refused, written, faults>>
  BY DEF HandleWriteError
<1>2. Tail(remote.pipeline) \in Seq(Batch)
  BY <1>1, RemoteFields, HeadTailProperties DEF SInv, TypeOK
<1>3. /\ StreamOK(r) /\ r.pipeline = Tail(remote.pipeline)
      /\ r.served = 0 /\ ~r.denied
  BY <1>2, ClosedIsSound DEF Closed
<1> HIDE DEF r
<1>4. /\ \A i \in 1 .. r.served : r.sent[i].tag \in applied \cup {0}
      /\ r.denied => r.sent[r.served + 1].tag \in refused
  BY <1>3
<1> QED
  BY <1>1, <1>3, <1>4, SettleKeeps DEF HandleRejectedWrite

\* The failures: the call ends, and the stream is taken up again with what the
\* queue of the user to come holds.
LEMMA FaultKeeps ==
  ASSUME SInv,
         \/ TransientFailure
         \/ ConnectivityChange
         \/ \E u \in Users : HandleCredentialChange(u) \/ Relaunch(u)
  PROVE  SInv'
<1>1. /\ CommitsLeftover /\ UNCHANGED <<queue, refused, written>> /\ faults' = faults + 1
      /\ user' \in Users
      /\ callbacks' = callbacks \/ callbacks' = {}
  BY DEF TransientFailure, ConnectivityChange, HandleCredentialChange, Relaunch, Fault,
         SInv, TypeOK
<1>2. applied' \subseteq Nat /\ refused' \subseteq Nat /\ faults' \in Nat
      /\ callbacks' \subseteq Callback
  BY <1>1, LeftoverTypes DEF SInv, TypeOK
<1>3. told' \subseteq [tag : Nat, verdict : {"acknowledged", "rejected"}]
  <2>1. told' = told \/ \E id : told' = told \cup {[tag |-> c.tag, verdict |-> "acknowledged"] :
                                                    c \in Waiting(user, id)}
    BY DEF TransientFailure, ConnectivityChange, HandleCredentialChange, Relaunch
  <2>2. \A id : \A c \in Waiting(user, id) : c.tag \in Nat
    BY DEF Waiting, SInv, TypeOK, Callback
  <2> QED
    BY <2>1, <2>2 DEF SInv, TypeOK
<1>4. /\ nextId' \in Nat /\ nextId' > 0
      /\ \A u \in Users : \A i \in 1 .. Len(queue[u]) : queue[u][i].id < nextId'
  <2>1. CASE LoadNextBatchIdFromDb
    BY <2>1, LoadedIdIsFresh DEF SInv
  <2>2. CASE UNCHANGED nextId
    BY <2>2 DEF SInv, TypeOK, Queues
  <2> QED
    BY <2>1, <2>2
       DEF TransientFailure, ConnectivityChange, HandleCredentialChange, Relaunch
<1>5. /\ StreamOK(remote') /\ remote'.pipeline = Oldest(queue[user'])
      /\ remote'.served = 0 /\ ~remote'.denied
  <2>1. CASE TransientFailure
    <3> DEFINE c == Closed("Error", remote.pipeline)
    <3>1. StreamOK(c) /\ c.pipeline = remote.pipeline /\ c.served = 0 /\ ~c.denied
          /\ c \in Remote
      BY ClosedIsSound, RemoteFields DEF SInv, TypeOK, Closed, StreamOK
    <3>2. remote' = StartWriteStream(c) /\ UNCHANGED user
      BY <2>1 DEF TransientFailure
    <3> HIDE DEF c
    <3>3. StreamOK(remote') /\ remote' = [c EXCEPT !.state = remote'.state]
      BY <3>1, <3>2, StartIsSound
    <3>4. remote'.pipeline = c.pipeline /\ remote'.served = c.served /\ remote'.denied = c.denied
      BY <3>1, <3>3 DEF Remote
    <3> QED
      BY <3>1, <3>2, <3>3, <3>4 DEF SInv, PipelineIsQueueFront
  <2>2. CASE remote' = RestartNetwork(queue[user'])
    <3>1. queue[user'] \in Seq(Batch) /\ Sorted(queue[user'])
      BY <1>1 DEF SInv, TypeOK, Queues
    <3> QED
      BY <2>2, <3>1, RestartIsSound
  <2> QED
    BY <2>1, <2>2 DEF ConnectivityChange, HandleCredentialChange, Relaunch
<1>6. Backend'
  BY <1>5 DEF Backend
<1> QED
  BY <1>1, <1>2, <1>3, <1>4, <1>5, <1>6, QueuesKept

\* The lemmas above, over all steps.
LEMMA StepSound == SInv /\ [Next]_vars => SInv'
<1> SUFFICES ASSUME SInv, [Next]_vars PROVE SInv'
  OBVIOUS
<1>1. CASE \E ok \in BOOLEAN : WriteMutations(ok)
  BY <1>1, WriteKeeps
<1>2. CASE Progress
  BY <1>2, OpenKeeps, ServeKeeps, HandshakeKeeps, ResultKeeps, WriteErrorKeeps, TimersKeep
     DEF Progress
<1>3. CASE \/ TransientFailure
           \/ ConnectivityChange
           \/ \E u \in Users : HandleCredentialChange(u) \/ Relaunch(u)
  BY <1>3, FaultKeeps
<1>4. CASE UNCHANGED vars
  BY <1>4, SMTT(30) DEF vars, SInv, TypeOK, Queues, PipelineIsQueueFront, Backend
<1> QED
  BY <1>1, <1>2, <1>3, <1>4 DEF Next

\* The queues, the pipeline, the stream and the backend agree in every state.
THEOREM StoreSound == Spec => []SInv
<1> QED
  BY InitSound, StepSound, PTL DEF Spec

\* No handler of the write path leaves a variable outside its type.
THEOREM TypeCorrect == Spec => []TypeOK
<1>1. SInv => TypeOK
  BY DEF SInv
<1> QED
  BY <1>1, StoreSound, PTL

\* Whatever was refilled, restarted or reloaded in between, the pipeline holds
\* the oldest batches of the queue of the current user.
THEOREM PipelineSound == Spec => []PipelineIsQueueFront
<1>1. SInv => PipelineIsQueueFront
  BY DEF SInv
<1> QED
  BY <1>1, StoreSound, PTL

\* An answer that is there to be read is the answer to the front of the
\* pipeline.
THEOREM ResultsMatch == Spec => []ResultMatchesFront
<1>1. SInv => ResultMatchesFront
  <2> SUFFICES ASSUME SInv, Answered, remote.handshake
               PROVE  remote.pipeline # <<>> /\ Head(remote.sent) = Head(remote.pipeline)
    BY DEF ResultMatchesFront
  <2>1. /\ remote.sent = remote.pipeline /\ remote.served > 0
        /\ remote.served <= Len(remote.sent) /\ remote.served \in Nat
    BY RemoteFields DEF SInv, StreamOK, Answered
  <2>2. Len(<<>>) = 0
    BY EmptySeq
  <2> QED
    BY <2>1, <2>2
<1> QED
  BY <1>1, StoreSound, PTL

\* The idle timer runs only while the queue of the user is empty.
THEOREM IdleSound == Spec => []IdleOnlyWhenDone
<1>1. SInv => IdleOnlyWhenDone
  <2> SUFFICES ASSUME SInv, remote.idle PROVE IsOpen(remote) /\ queue[user] = <<>>
    BY DEF IdleOnlyWhenDone
  <2>1. IsOpen(remote) /\ remote.pipeline = <<>>
    BY DEF SInv, StreamOK
  <2>2. queue[user] \in Seq(Batch)
    BY DEF SInv, TypeOK
  <2> QED
    BY <2>1, <2>2, OldestProperties DEF SInv, PipelineIsQueueFront
<1> QED
  BY <1>1, StoreSound, PTL

----------------------------------------------------------------------------
(***************************************************************************)
(* The writers.  Ids are used again, tags are not: a callback leads to the *)
(* batch of its write, and a writer who waits has not been told.           *)
(***************************************************************************)
Writers ==
  /\ CallbackFindsItsWrite
  /\ VerdictsHold
  /\ \A t \in told : t.tag <= written
  /\ \A t \in told : \A c \in callbacks : t.tag # c.tag

\* Whoever waits for the front of the pipeline issued the first write of the
\* queue.
LEMMA WaitingForFront ==
  ASSUME SInv, Writers, remote.pipeline # <<>>
  PROVE  \A c \in callbacks :
           c \in Waiting(user, Head(remote.pipeline).id) <=> c.tag = queue[user][1].tag
<1> DEFINE b == queue[user][1]
<1>1. /\ Head(remote.pipeline) = b /\ queue[user] \in Seq(Batch)
      /\ 1 \in 1 .. Len(queue[user]) /\ user \in Users
  BY FrontOfQueue DEF SInv, TypeOK
<1> TAKE c \in callbacks
<1>2. c.user \in Users /\ c.id \in Nat /\ queue[c.user] \in Seq(Batch)
  BY DEF SInv, TypeOK, Callback
<1>3. PICK i \in 1 .. Len(queue[c.user]) :
        queue[c.user][i].id = c.id /\ queue[c.user][i].tag = c.tag
  BY <1>2, LenProperties DEF Writers, CallbackFindsItsWrite
<1>4. ASSUME c \in Waiting(user, b.id) PROVE c.tag = b.tag
  <2>1. c.user = user /\ c.id = b.id
    BY <1>4 DEF Waiting
  <2>2. Len(queue[user]) \in Nat /\ \A j \in 1 .. Len(queue[user]) : queue[user][j].id \in Nat
    BY <1>1, BatchesOf
  <2>3. ~(1 < i)
    BY <1>1, <1>3, <2>1, <2>2 DEF SInv, Queues, Sorted
  <2>4. i = 1
    BY <1>3, <2>1, <2>2, <2>3
  <2> QED
    BY <1>3, <2>1, <2>4
<1>5. ASSUME c.tag = b.tag PROVE c \in Waiting(user, b.id)
  <2>1. c.user = user /\ i = 1
    BY <1>1, <1>2, <1>3, <1>5 DEF SInv, Queues
  <2> QED
    BY <1>3, <2>1 DEF Waiting
<1> QED
  BY <1>1, <1>4, <1>5

\* AddMutationBatch adds to the queue of the user and leaves the rest alone.
LEMMA WriteAppends ==
  ASSUME SInv, NEW ok \in BOOLEAN, WriteMutations(ok)
  PROVE  /\ queue' = [queue EXCEPT ![user] =
                        Append(@, [id |-> nextId, tag |-> written + 1, ok |-> ok])]
         /\ queue \in [Users -> Seq(Batch)]
         /\ [id |-> nextId, tag |-> written + 1, ok |-> ok] \in Batch
         /\ \A u \in Users : \A i \in DOMAIN queue[u] :
              i \in DOMAIN queue'[u] /\ queue'[u][i] = queue[u][i]
         /\ \E i \in DOMAIN queue'[user] :
              queue'[user][i].id = nextId /\ queue'[user][i].tag = written + 1
<1> DEFINE q == queue[user]
           b == [id |-> nextId, tag |-> written + 1, ok |-> ok]
<1>1. /\ q \in Seq(Batch) /\ user \in Users /\ queue \in [Users -> Seq(Batch)]
      /\ nextId \in Nat /\ written \in Nat
  BY DEF SInv, TypeOK
<1>2. b \in Batch /\ b.id = nextId /\ b.tag = written + 1
  BY <1>1 DEF Batch
<1>3. queue' = [queue EXCEPT ![user] = Append(@, b)]
  BY DEF WriteMutations, AddMutationBatch
<1> HIDE DEF b
<1>4. /\ Append(q, b) \in Seq(Batch)
      /\ Len(Append(q, b)) = Len(q) + 1
      /\ \A i \in 1 .. Len(q) : Append(q, b)[i] = q[i]
      /\ Append(q, b)[Len(q) + 1] = b
  BY <1>1, <1>2, OldestOfAppend
<1>5. /\ DOMAIN Append(q, b) = 1 .. Len(q) + 1 /\ DOMAIN q = 1 .. Len(q)
      /\ Len(q) \in Nat
  BY <1>1, <1>4, LenProperties
<1>6. /\ queue'[user] = Append(q, b)
      /\ \A u \in Users \ {user} : queue'[u] = queue[u]
  BY <1>1, <1>3
<1>7. ASSUME NEW u \in Users, NEW i \in DOMAIN queue[u]
      PROVE  i \in DOMAIN queue'[u] /\ queue'[u][i] = queue[u][i]
  <2>1. CASE u = user
    <3>1. i \in 1 .. Len(q) /\ i \in 1 .. Len(q) + 1
      BY <1>5, <2>1
    <3> QED
      BY <1>4, <1>5, <1>6, <2>1, <3>1
  <2>2. CASE u # user
    BY <1>6, <2>2
  <2> QED
    BY <2>1, <2>2
<1>8. Len(q) + 1 \in DOMAIN queue'[user] /\ queue'[user][Len(q) + 1] = b
  BY <1>4, <1>5, <1>6
<1> QED
  BY <1>1, <1>2, <1>3, <1>7, <1>8 DEF b

\* WriteMutations registers the writer under an id that nobody waits for.
LEMMA WriteTells ==
  ASSUME SInv, Writers, NEW ok \in BOOLEAN, WriteMutations(ok)
  PROVE  Writers'
<1> DEFINE new == [user |-> user, id |-> nextId, tag |-> written + 1]
<1>1. /\ \A u \in Users : \A i \in DOMAIN queue[u] :
           i \in DOMAIN queue'[u] /\ queue'[u][i] = queue[u][i]
      /\ \E i \in DOMAIN queue'[user] :
           queue'[user][i].id = nextId /\ queue'[user][i].tag = written + 1
  BY WriteAppends
<1>2. /\ callbacks' \subseteq callbacks \cup {new}
      /\ UNCHANGED <<told, applied>> /\ written' = written + 1
  BY DEF WriteMutations
<1>3. /\ written \in Nat /\ \A t \in told : t.tag \in Nat /\ t.tag <= written
      /\ \A c \in callbacks : c.user \in Users
  BY DEF SInv, TypeOK, Callback, Writers
<1>4. new.user = user /\ new.id = nextId /\ new.tag = written + 1
  OBVIOUS
<1> HIDE DEF new
<1>5. ASSUME NEW c \in callbacks'
      PROVE  \E i \in DOMAIN queue'[c.user] :
               queue'[c.user][i].id = c.id /\ queue'[c.user][i].tag = c.tag
  <2>1. CASE c \in callbacks
    <3>1. PICK i \in DOMAIN queue[c.user] :
            queue[c.user][i].id = c.id /\ queue[c.user][i].tag = c.tag
      BY <2>1 DEF Writers, CallbackFindsItsWrite
    <3> QED
      BY <1>1, <1>3, <2>1, <3>1
  <2>2. CASE c = new
    BY <1>1, <1>4, <2>2
  <2> QED
    BY <1>2, <2>1, <2>2
<1>6. ASSUME NEW t \in told, NEW c \in callbacks' PROVE t.tag # c.tag
  BY <1>2, <1>3, <1>4 DEF Writers
<1>7. \A t \in told : t.tag <= written + 1
  BY <1>3
<1> QED
  BY <1>2, <1>5, <1>6, <1>7 DEF Writers, CallbackFindsItsWrite, VerdictsHold

\* A step that settles the front of the queue and says what is true of it.
LEMMA SettleTells ==
  ASSUME SInv, Writers, remote.pipeline # <<>>,
         NEW verdict \in {"acknowledged", "rejected"},
         NotifyUser(Head(remote.pipeline).id, verdict),
         RemoveMutationBatch(Head(remote.pipeline).id),
         UNCHANGED <<nextId, user, applied, refused, written, faults>>,
         verdict = "acknowledged" => queue[user][1].tag \in applied
  PROVE  Writers'
<1> DEFINE q == queue[user]
           h == q[1].tag
           W == Waiting(user, Head(remote.pipeline).id)
<1>1. /\ q \in Seq(Batch) /\ q # <<>> /\ Len(q) \in Nat \ {0} /\ user \in Users
      /\ queue \in [Users -> Seq(Batch)]
      /\ h \in Nat /\ h <= written
  BY FrontOfQueue, BatchesOf, SMTT(30) DEF SInv, TypeOK, Queues
<1>2. /\ W \subseteq callbacks
      /\ \A c \in callbacks : c \in W <=> c.tag = h
  BY WaitingForFront DEF Waiting
<1>3. /\ told' = told \cup {[tag |-> c.tag, verdict |-> verdict] : c \in W}
      /\ callbacks' = callbacks \ W
  BY DEF NotifyUser
<1>4. /\ queue' = [queue EXCEPT ![user] = Tail(q)]
      /\ Tail(q) \in Seq(Batch) /\ Len(Tail(q)) = Len(q) - 1
      /\ \A i \in 1 .. Len(Tail(q)) : Tail(q)[i] = q[i + 1]
  BY <1>1, RemoveFront, WithoutFirst DEF SInv, Queues
<1> HIDE DEF W, h
<1>5. \A t \in told' : t \in told \/ (t = [tag |-> h, verdict |-> verdict] /\ W # {})
  BY <1>2, <1>3
<1>6. \A t \in told' : t.tag <= written
  BY <1>1, <1>5 DEF Writers
<1>7. ASSUME NEW t \in told', NEW c \in callbacks' PROVE t.tag # c.tag
  BY <1>2, <1>3, <1>5 DEF Writers
<1>8. VerdictsHold'
  <2>1. W # {} => \A t \in told : t.tag # h
    BY <1>2 DEF Writers
  <2>2. ASSUME NEW t \in told' PROVE t.verdict = "acknowledged" => t.tag \in applied
    BY <1>5 DEF Writers, VerdictsHold, h
  <2>3. ASSUME NEW t \in told', NEW s \in told', s.tag = t.tag PROVE s = t
    BY <1>5, <2>1, <2>3 DEF Writers, VerdictsHold
  <2> QED
    BY <2>2, <2>3 DEF VerdictsHold
<1>9. ASSUME NEW c \in callbacks'
      PROVE  \E i \in DOMAIN queue'[c.user] :
               queue'[c.user][i].id = c.id /\ queue'[c.user][i].tag = c.tag
  <2>1. c \in callbacks /\ c.tag # h /\ c.user \in Users
    BY <1>2, <1>3 DEF SInv, TypeOK, Callback
  <2>2. PICK i \in DOMAIN queue[c.user] :
          queue[c.user][i].id = c.id /\ queue[c.user][i].tag = c.tag
    BY <2>1 DEF Writers, CallbackFindsItsWrite
  <2>3. CASE c.user = user
    <3>1. i \in 1 .. Len(q) /\ i # 1
      BY <1>1, <2>1, <2>2, <2>3, LenProperties DEF h
    <3>2. i - 1 \in 1 .. Len(Tail(q)) /\ (i - 1) + 1 = i
      BY <1>1, <1>4, <3>1
    <3>3. DOMAIN Tail(q) = 1 .. Len(Tail(q))
      BY <1>4, LenProperties
    <3>4. queue'[c.user] = Tail(q)
      BY <1>1, <1>4, <2>3
    <3>5. i - 1 \in DOMAIN queue'[c.user] /\ queue'[c.user][i - 1] = q[i]
      BY <1>4, <3>2, <3>3, <3>4
    <3> QED
      BY <2>2, <2>3, <3>5
  <2>4. CASE c.user # user
    <3>1. queue'[c.user] = queue[c.user]
      BY <1>1, <1>4, <2>1, <2>4
    <3> QED
      BY <2>2, <3>1
  <2> QED
    BY <2>3, <2>4
<1> QED
  BY <1>6, <1>7, <1>8, <1>9 DEF Writers, CallbackFindsItsWrite

\* When a batch has been answered, the first of the queue is committed.
LEMMA AnsweredIsApplied ==
  ASSUME SInv, remote.served > 0, IsOpen(remote), remote.handshake, remote.pipeline # <<>>
  PROVE  queue[user][1].tag \in applied
<1>1. remote.sent = remote.pipeline /\ remote.served \in Nat
  BY RemoteFields DEF SInv, StreamOK
<1>2. 1 \in 1 .. remote.served
  BY <1>1
<1>3. queue[user][1].tag \in applied \cup {0}
  BY <1>1, <1>2, FrontOfQueue DEF SInv, Backend
<1>4. 1 \in 1 .. Len(queue[user]) /\ user \in Users
  BY FrontOfQueue DEF SInv, TypeOK
<1>5. queue[user][1].tag # 0
  BY <1>4 DEF SInv, Queues
<1> QED
  BY <1>3, <1>5

\* A step that tells nobody, with the queues as they were.
LEMMA SilentTells ==
  ASSUME Writers, UNCHANGED <<queue, told, written>>,
         callbacks' = callbacks \/ callbacks' = {}, applied \subseteq applied'
  PROVE  Writers'
BY DEF Writers, CallbackFindsItsWrite, VerdictsHold

\* A process that dies after NotifyUser takes its callbacks with it.
LEMMA RelaunchTells ==
  ASSUME SInv, Writers, NEW u \in Users, Relaunch(u)
  PROVE  Writers'
<1>1. /\ callbacks' = {} /\ UNCHANGED <<queue, written>>
      /\ applied \subseteq applied'
  BY LeftoverTypes DEF Relaunch, SInv
<1>2. CASE UNCHANGED told
  BY <1>1, <1>2, SilentTells
<1>3. CASE /\ Answered /\ remote.handshake /\ remote.pipeline # <<>>
           /\ told' = told \cup {[tag |-> c.tag, verdict |-> "acknowledged"] :
                                   c \in Waiting(user, Head(remote.pipeline).id)}
  <2> DEFINE W == Waiting(user, Head(remote.pipeline).id)
             h == queue[user][1].tag
  <2>1. W \subseteq callbacks /\ \A c \in W : c.tag = h
    BY <1>3, WaitingForFront DEF Waiting
  <2>2. h \in applied'
    BY <1>1, <1>3, AnsweredIsApplied DEF Answered
  <2>3. h <= written
    BY <1>3, FrontOfQueue, SMTT(30) DEF SInv, Queues, TypeOK
  <2>4. told' = told \cup {[tag |-> c.tag, verdict |-> "acknowledged"] : c \in W}
    BY <1>3
  <2> HIDE DEF W, h
  <2>5. \A t \in told' : t \in told \/ (t = [tag |-> h, verdict |-> "acknowledged"] /\ W # {})
    BY <2>1, <2>4
  <2>6. W # {} => \A t \in told : t.tag # h
    BY <2>1 DEF Writers
  <2>7. ASSUME NEW t \in told'
        PROVE  /\ t.verdict = "acknowledged" => t.tag \in applied'
               /\ t.tag <= written
    BY <1>1, <2>2, <2>3, <2>5 DEF Writers, VerdictsHold
  <2>8. ASSUME NEW t \in told', NEW s \in told', s.tag = t.tag PROVE s = t
    BY <2>5, <2>6, <2>8 DEF Writers, VerdictsHold
  <2> QED
    BY <1>1, <2>7, <2>8 DEF Writers, CallbackFindsItsWrite, VerdictsHold
<1> QED
  BY <1>2, <1>3 DEF Relaunch

\* Every step keeps callbacks and verdicts right.
LEMMA StepTells == SInv /\ Writers /\ [Next]_vars => Writers'
<1> SUFFICES ASSUME SInv, Writers, [Next]_vars PROVE Writers'
  OBVIOUS
<1>1. CASE \E ok \in BOOLEAN : WriteMutations(ok)
  BY <1>1, WriteTells
<1>2. CASE \/ OnWriteStreamOpen \/ OnWriteStreamHandshakeComplete
           \/ BackoffElapsed \/ IdleTimeout
  <2>1. UNCHANGED <<queue, told, written, callbacks, applied>>
    BY <1>2 DEF OnWriteStreamOpen, OnWriteStreamHandshakeComplete, BackoffElapsed, IdleTimeout
  <2> QED
    BY <2>1, SilentTells
<1>3. CASE Serve
  <2>1. UNCHANGED <<queue, told, written, callbacks>> /\ applied \subseteq applied'
    BY <1>3 DEF Serve
  <2> QED
    BY <2>1, SilentTells
<1>4. CASE OnWriteStreamMutationResult
  <2>1. queue[user][1].tag \in applied
    BY <1>4, AnsweredIsApplied DEF OnWriteStreamMutationResult, Answered
  <2> QED
    BY <1>4, <2>1, SettleTells DEF OnWriteStreamMutationResult, HandleSuccessfulWrite
<1>5. CASE HandleWriteError
  BY <1>5, SettleTells DEF HandleWriteError, HandleRejectedWrite
<1>6. CASE \/ TransientFailure \/ ConnectivityChange
           \/ \E u \in Users : HandleCredentialChange(u)
  <2>1. UNCHANGED <<queue, told, written, callbacks>> /\ CommitsLeftover
    BY <1>6 DEF TransientFailure, ConnectivityChange, HandleCredentialChange
  <2> QED
    BY <2>1, LeftoverTypes, SilentTells DEF SInv
<1>7. CASE \E u \in Users : Relaunch(u)
  BY <1>7, RelaunchTells
<1>8. CASE UNCHANGED vars
  <2>1. UNCHANGED <<queue, told, written, callbacks, applied>>
    BY <1>8 DEF vars
  <2> QED
    BY <2>1, SilentTells
<1> QED
  BY <1>1, <1>2, <1>3, <1>4, <1>5, <1>6, <1>7, <1>8 DEF Next, Progress

\* Callbacks and verdicts agree with the queues and the backend in every state.
THEOREM WritersSound == Spec => []Writers
<1>1. Init => Writers
  BY DEF Init, Writers, CallbackFindsItsWrite, VerdictsHold
<1> QED
  BY <1>1, StepTells, StoreSound, PTL DEF Spec

\* A callback waits for the batch of the write it was registered for, although
\* ids are handed out again.
THEOREM CallbacksFindTheirWrites == Spec => []CallbackFindsItsWrite
<1>1. Writers => CallbackFindsItsWrite
  BY DEF Writers
<1> QED
  BY <1>1, WritersSound, PTL

\* A writer who is told of success has a committed write, and none is told two
\* things.
THEOREM VerdictsSound == Spec => []VerdictsHold
<1>1. Writers => VerdictsHold
  BY DEF Writers
<1> QED
  BY <1>1, WritersSound, PTL

----------------------------------------------------------------------------
(***************************************************************************)
(* The write path implements the outbox.                                   *)
(***************************************************************************)
TagsOf(q) == [i \in 1 .. Len(q) |-> q[i].tag]

Outboxes(queues) == [u \in Users |-> TagsOf(queues[u])]

\* The tags of a queue are a sequence as long as the queue.
LEMMA TagsOfSeq ==
  ASSUME NEW q \in Seq(Batch)
  PROVE  /\ TagsOf(q) \in Seq(Nat)
         /\ Len(TagsOf(q)) = Len(q)
         /\ \A i \in 1 .. Len(q) : TagsOf(q)[i] = q[i].tag
<1>1. Len(q) \in Nat /\ \A i \in 1 .. Len(q) : q[i].tag \in Nat
  BY BatchesOf
<1>2. TagsOf(q) \in Seq(Nat)
  BY <1>1, IsASeq DEF TagsOf
<1>3. DOMAIN TagsOf(q) = 1 .. Len(q)
  BY DEF TagsOf
<1> QED
  BY <1>1, <1>2, <1>3, LenProperties DEF TagsOf

\* Adding a batch adds its tag.
LEMMA TagsOfAppend ==
  ASSUME NEW q \in Seq(Batch), NEW b \in Batch
  PROVE  TagsOf(Append(q, b)) = Append(TagsOf(q), b.tag)
<1> DEFINE l == TagsOf(Append(q, b))
           r == Append(TagsOf(q), b.tag)
<1>1. /\ Append(q, b) \in Seq(Batch) /\ Len(Append(q, b)) = Len(q) + 1
      /\ \A i \in 1 .. Len(q) : Append(q, b)[i] = q[i]
      /\ Append(q, b)[Len(q) + 1] = b
      /\ b.tag \in Nat /\ Len(q) \in Nat
  BY OldestOfAppend, BatchesOf DEF Batch
<1>2. /\ l \in Seq(Nat) /\ Len(l) = Len(q) + 1
      /\ \A i \in 1 .. Len(q) + 1 : l[i] = Append(q, b)[i].tag
  BY <1>1, TagsOfSeq
<1>3. /\ TagsOf(q) \in Seq(Nat) /\ Len(TagsOf(q)) = Len(q)
      /\ \A i \in 1 .. Len(q) : TagsOf(q)[i] = q[i].tag
  BY TagsOfSeq
<1>4. /\ r \in Seq(Nat) /\ Len(r) = Len(q) + 1
      /\ \A i \in 1 .. Len(q) : r[i] = TagsOf(q)[i]
      /\ r[Len(q) + 1] = b.tag
  <2> DEFINE t == TagsOf(q)
             x == b.tag
  <2>1. t \in Seq(Nat) /\ x \in Nat /\ Len(t) = Len(q)
    BY <1>1, <1>3
  <2> HIDE DEF t, x
  <2>2. /\ Append(t, x) \in Seq(Nat) /\ Len(Append(t, x)) = Len(t) + 1
        /\ \A i \in 1 .. Len(t) : Append(t, x)[i] = t[i]
        /\ Append(t, x)[Len(t) + 1] = x
    BY <2>1, AppendProperties
  <2> QED
    BY <2>1, <2>2 DEF t, x
<1> HIDE DEF l, r
<1>5. ASSUME NEW i \in 1 .. Len(l) PROVE l[i] = r[i]
  <2>1. i \in 1 .. Len(q) \/ i = Len(q) + 1
    BY <1>1, <1>2
  <2>2. l[i] = Append(q, b)[i].tag
    BY <1>2
  <2> QED
    BY <1>1, <1>3, <1>4, <2>1, <2>2
<1> QED
  BY <1>2, <1>4, <1>5, SeqEqual DEF l, r

\* Removing the first batch removes its tag.
LEMMA TagsOfTail ==
  ASSUME NEW q \in Seq(Batch), Sorted(q), q # <<>>
  PROVE  /\ TagsOf(Tail(q)) = Tail(TagsOf(q))
         /\ TagsOf(q) # <<>> /\ Head(TagsOf(q)) = q[1].tag
<1> DEFINE l == TagsOf(Tail(q))
           r == Tail(TagsOf(q))
<1>1. /\ Tail(q) \in Seq(Batch) /\ Len(Tail(q)) = Len(q) - 1
      /\ \A i \in 1 .. Len(Tail(q)) : Tail(q)[i] = q[i + 1]
      /\ Len(q) \in Nat \ {0}
  BY WithoutFirst, EmptySeq, BatchesOf
<1>2. /\ l \in Seq(Nat) /\ Len(l) = Len(q) - 1
      /\ \A i \in 1 .. Len(q) - 1 : l[i] = Tail(q)[i].tag
  BY <1>1, TagsOfSeq
<1>3. /\ TagsOf(q) \in Seq(Nat) /\ Len(TagsOf(q)) = Len(q)
      /\ \A i \in 1 .. Len(q) : TagsOf(q)[i] = q[i].tag
  BY TagsOfSeq
<1>4. TagsOf(q) # <<>>
  BY <1>1, <1>3, EmptySeq
<1>5. /\ Head(TagsOf(q)) = TagsOf(q)[1]
      /\ r \in Seq(Nat) /\ Len(r) = Len(q) - 1
      /\ \A i \in 1 .. Len(q) - 1 : r[i] = TagsOf(q)[i + 1]
  BY <1>3, <1>4, HeadTailProperties
<1> HIDE DEF l, r
<1>6. ASSUME NEW i \in 1 .. Len(l) PROVE l[i] = r[i]
  <2>1. i \in 1 .. Len(q) - 1 /\ i + 1 \in 1 .. Len(q)
    BY <1>1, <1>2
  <2> QED
    <3>1. l[i] = Tail(q)[i].tag /\ r[i] = TagsOf(q)[i + 1]
      BY <1>2, <1>5, <2>1
    <3>2. TagsOf(q)[i + 1] = q[i + 1].tag
      BY <1>3, <2>1
    <3>3. Tail(q)[i] = q[i + 1]
      BY <1>1, <2>1
    <3> QED
      BY <3>1, <3>2, <3>3
<1>7. l = r
  BY <1>2, <1>5, <1>6, SeqEqual
<1> QED
  BY <1>1, <1>3, <1>4, <1>5, <1>7 DEF l, r

\* What the backend has been sent is what the outbox of the user begins with.
LEMMA SentIsOutbox ==
  ASSUME SInv, IsOpen(remote), remote.handshake
  PROVE  /\ Len(remote.sent) \in 0 .. Len(TagsOf(queue[user]))
         /\ \A i \in 1 .. Len(remote.sent) :
              /\ remote.sent[i].tag = TagsOf(queue[user])[i]
              /\ remote.sent[i].tag # 0
<1>1. /\ queue[user] \in Seq(Batch) /\ user \in Users
      /\ remote.sent = Oldest(queue[user])
  BY DEF SInv, TypeOK, StreamOK, PipelineIsQueueFront
<1>2. /\ Len(remote.sent) \in 0 .. Len(queue[user])
      /\ \A i \in 1 .. Len(remote.sent) :
           i \in 1 .. Len(queue[user]) /\ remote.sent[i] = queue[user][i]
  BY <1>1, OldestProperties, WriteAssumption, BatchesOf
<1>3. \A i \in 1 .. Len(queue[user]) : queue[user][i].tag # 0
  BY <1>1, BatchesOf DEF SInv, Queues
<1> QED
  BY <1>1, <1>2, <1>3, TagsOfSeq

\* What the backend commits when it has answered `served' requests and goes on
\* to the n-th is what Commit(user, n) commits.
LEMMA CommitsPrefix ==
  ASSUME SInv, IsOpen(remote), remote.handshake,
         NEW n \in remote.served .. Len(remote.sent)
  PROVE  /\ n \in 0 .. Len(TagsOf(queue[user]))
         /\ applied \cup ({remote.sent[i].tag : i \in remote.served + 1 .. n} \ {0})
              = applied \cup {TagsOf(queue[user])[i] : i \in 1 .. n}
<1> DEFINE s == remote.served
           o == TagsOf(queue[user])
           S == remote.sent
<1>1. s \in Nat /\ S \in Seq(Batch) /\ Len(S) \in Nat /\ s <= Len(S) /\ n \in Nat
  BY RemoteFields, BatchesOf, SMTT(30) DEF SInv, StreamOK
<1>2. /\ Len(S) \in 0 .. Len(o)
      /\ \A i \in 1 .. Len(S) : S[i].tag = o[i] /\ S[i].tag # 0
  BY SentIsOutbox
<1>3. \A i \in 1 .. s : S[i].tag \in applied \cup {0}
  BY DEF SInv, Backend
<1> HIDE DEF s, o, S
<1>4. \A i \in 1 .. n : i \in 1 .. Len(S)
  BY <1>1 DEF s, S
<1>5. \A i \in 1 .. n : i \in 1 .. s \/ i \in s + 1 .. n
  BY <1>1
<1>6. \A i \in s + 1 .. n : i \in 1 .. n
  BY <1>1
<1>7. {S[i].tag : i \in s + 1 .. n} \ {0} \subseteq {o[i] : i \in 1 .. n}
  BY <1>2, <1>4, <1>6
<1>8. ASSUME NEW i \in 1 .. n
      PROVE  o[i] \in applied \cup ({S[j].tag : j \in s + 1 .. n} \ {0})
  <2>1. o[i] = S[i].tag /\ o[i] # 0
    BY <1>2, <1>4
  <2>2. CASE i \in 1 .. s
    BY <1>3, <2>1, <2>2
  <2>3. CASE i \in s + 1 .. n
    BY <2>1, <2>3
  <2> QED
    BY <1>5, <2>2, <2>3
<1>9. n \in 0 .. Len(o)
  BY <1>1, <1>2 DEF s, S
<1> QED
  BY <1>7, <1>8, <1>9 DEF s, o, S

\* The steps of the outbox, over the tags of the queues.
LEMMA OutboxSteps ==
  ASSUME SInv
  PROVE  /\ (/\ written' = written + 1
             /\ Outboxes(queue') = [Outboxes(queue) EXCEPT ![user] = Append(@, written + 1)]
             /\ UNCHANGED <<applied, refused>>) => Out!Next
         /\ \A n \in 0 .. Len(TagsOf(queue[user])) :
              (/\ applied' = applied \cup {TagsOf(queue[user])[i] : i \in 1 .. n}
               /\ UNCHANGED <<queue, refused, written>>) => Out!Next
         /\ \A n \in 1 .. Len(TagsOf(queue[user])) :
              (/\ \A i \in 1 .. n - 1 : TagsOf(queue[user])[i] \in applied
               /\ refused' = refused \cup {TagsOf(queue[user])[n]}
               /\ UNCHANGED <<queue, applied, written>>) => Out!Next
         /\ (/\ TagsOf(queue[user]) # <<>>
             /\ Head(TagsOf(queue[user])) \in applied \cup refused
             /\ Outboxes(queue') = [Outboxes(queue) EXCEPT ![user] = Tail(@)]
             /\ UNCHANGED <<applied, refused, written>>) => Out!Next
<1>1. PICK w \in Users : w = user
  BY DEF SInv, TypeOK
<1>2. Outboxes(queue) = [u \in Users |-> [i \in 1 .. Len(queue[u]) |-> queue[u][i].tag]]
      /\ Outboxes(queue)[user] = TagsOf(queue[user])
  BY <1>1 DEF Outboxes, TagsOf
<1>3. Outboxes(queue') = [u \in Users |-> [i \in 1 .. Len(queue'[u]) |-> queue'[u][i].tag]]
  BY DEF Outboxes, TagsOf
<1>4. ASSUME written' = written + 1,
             Outboxes(queue') = [Outboxes(queue) EXCEPT ![user] = Append(@, written + 1)],
             UNCHANGED <<applied, refused>>
      PROVE  Out!Submit(w)
  BY <1>1, <1>2, <1>3, <1>4 DEF Out!Submit
<1>5. ASSUME NEW n \in 0 .. Len(TagsOf(queue[user])),
             applied' = applied \cup {TagsOf(queue[user])[i] : i \in 1 .. n},
             UNCHANGED <<queue, refused, written>>
      PROVE  n \in 0 .. Len(Outboxes(queue)[user]) /\ Out!Commit(w, n)
  <2>1. applied' = applied \cup {Outboxes(queue)[w][i] : i \in 1 .. n}
    BY ONLY <1>1, <1>2, <1>5, Zenon
  <2>2. Outboxes(queue') = Outboxes(queue)
    BY <1>5
  <2>3. Out!Commit(w, n)
    BY ONLY <1>5, <2>1, <2>2, Zenon DEF Out!Commit, Outboxes, TagsOf
  <2> QED
    BY <1>2, <2>3
<1>6. ASSUME NEW n \in 1 .. Len(TagsOf(queue[user])),
             \A i \in 1 .. n - 1 : TagsOf(queue[user])[i] \in applied,
             refused' = refused \cup {TagsOf(queue[user])[n]},
             UNCHANGED <<queue, applied, written>>
      PROVE  n \in 1 .. Len(Outboxes(queue)[user]) /\ Out!Refuse(w, n)
  BY <1>1, <1>2, <1>3, <1>6 DEF Out!Refuse
<1>7. ASSUME TagsOf(queue[user]) # <<>>,
             Head(TagsOf(queue[user])) \in applied \cup refused,
             Outboxes(queue') = [Outboxes(queue) EXCEPT ![user] = Tail(@)],
             UNCHANGED <<applied, refused, written>>
      PROVE  Out!Settle(w)
  BY <1>1, <1>2, <1>3, <1>7 DEF Out!Settle
<1>8. /\ Out!Submit(w) \/ Out!Settle(w) => Out!Next
      /\ \A n \in 0 .. Len(Outboxes(queue)[user]) : Out!Commit(w, n) => Out!Next
      /\ \A n \in 1 .. Len(Outboxes(queue)[user]) : Out!Refuse(w, n) => Out!Next
  <2>1. Out!Submit(w) \/ Out!Settle(w) => Out!Next
    BY <1>1 DEF Out!Next
  <2>2. ASSUME NEW n \in 0 .. Len(Outboxes(queue)[user]), Out!Commit(w, n)
        PROVE  Out!Next
    BY <1>1, <2>2 DEF Out!Next, Outboxes, TagsOf
  <2>3. ASSUME NEW n \in 1 .. Len(Outboxes(queue)[user]), Out!Refuse(w, n)
        PROVE  Out!Next
    BY <1>1, <2>3 DEF Out!Next, Outboxes, TagsOf
  <2> QED
    BY <2>1, <2>2, <2>3
<1> QED
  BY <1>4, <1>5, <1>6, <1>7, <1>8

\* An answer is a Commit, an error a Refuse; the handshake changes nothing.
LEMMA ServeImplements ==
  ASSUME SInv, Serve
  PROVE  Out!Next \/ UNCHANGED Out!vars
<1> DEFINE n == remote.served + 1
<1>1. /\ StreamOK(remote) /\ IsOpen(remote) /\ ~remote.denied
      /\ remote.sent \in Seq(Batch) /\ remote.served \in Nat /\ Len(remote.sent) \in Nat
      /\ n \in 1 .. Len(remote.sent) /\ n \in remote.served .. Len(remote.sent)
      /\ UNCHANGED <<queue, written>>
  BY RemoteFields, BatchesOf DEF SInv, StreamOK, Serve
<1>2. CASE ~remote.handshake
  <2>1. remote.sent = <<Handshake>>
    BY <1>1, <1>2 DEF StreamOK
  <2>2. n = 1 /\ remote.sent[n] = Handshake
    BY <1>1, <2>1, HandshakeSeq
  <2>3. Handshake.ok /\ Handshake.tag = 0
    BY DEF Handshake
  <2>4. UNCHANGED <<queue, written, applied, refused>>
    BY <1>1, <2>2, <2>3 DEF Serve
  <2> QED
    BY <2>4 DEF Out!vars
<1>3. CASE remote.handshake /\ remote.sent[n].ok
  <2>1. UNCHANGED refused /\ applied' = applied \cup ({remote.sent[n].tag} \ {0})
    BY <1>3 DEF Serve
  <2>2. {remote.sent[i].tag : i \in remote.served + 1 .. n} = {remote.sent[n].tag}
    <3>1. \A i : i \in remote.served + 1 .. n <=> i = n
      BY <1>1
    <3> HIDE DEF n
    <3> QED
      BY <3>1
  <2>3. /\ n \in 0 .. Len(TagsOf(queue[user]))
        /\ applied' = applied \cup {TagsOf(queue[user])[i] : i \in 1 .. n}
    BY <1>1, <1>3, <2>1, <2>2, CommitsPrefix
  <2> QED
    BY <1>1, <2>1, <2>3, OutboxSteps
<1>4. CASE remote.handshake /\ ~remote.sent[n].ok
  <2>1. UNCHANGED applied /\ refused' = refused \cup {remote.sent[n].tag}
    BY <1>4 DEF Serve
  <2>2. /\ n \in 1 .. Len(TagsOf(queue[user]))
        /\ \A i \in 1 .. n : remote.sent[i].tag = TagsOf(queue[user])[i]
                             /\ remote.sent[i].tag # 0
    BY <1>1, <1>4, SentIsOutbox, SMTT(30)
  <2>3. \A i \in 1 .. n - 1 : TagsOf(queue[user])[i] \in applied
    <3> TAKE i \in 1 .. n - 1
    <3>1. i \in 1 .. remote.served /\ i \in 1 .. n
      BY <1>1
    <3> QED
      BY <2>2, <3>1 DEF SInv, Backend
  <2>4. refused' = refused \cup {TagsOf(queue[user])[n]}
    BY <1>1, <2>1, <2>2, SMTT(30)
  <2> QED
    BY <1>1, <2>1, <2>2, <2>3, <2>4, OutboxSteps
<1> QED
  BY <1>2, <1>3, <1>4

\* A call that ends commits what a Commit step commits.
LEMMA FaultImplements ==
  ASSUME SInv, CommitsLeftover, UNCHANGED <<queue, refused, written>>
  PROVE  Out!Next \/ UNCHANGED Out!vars
<1>1. PICK tags \in Leftover : applied' = applied \cup tags
  BY DEF CommitsLeftover
<1> DEFINE last == IF remote.denied THEN remote.served ELSE Len(remote.sent)
<1>2. PICK n \in remote.served .. last :
        tags = {remote.sent[i].tag : i \in remote.served + 1 .. n} \ {0}
  BY <1>1 DEF Leftover
<1>3. /\ StreamOK(remote) /\ remote.served \in Nat /\ Len(remote.sent) \in Nat
      /\ remote.served <= Len(remote.sent)
  BY RemoteFields, BatchesOf DEF SInv, StreamOK
<1>4. n \in remote.served .. Len(remote.sent)
  BY <1>2, <1>3
<1>5. CASE IsOpen(remote) /\ remote.handshake
  BY <1>1, <1>2, <1>4, <1>5, CommitsPrefix, OutboxSteps
<1>6. CASE ~(IsOpen(remote) /\ remote.handshake)
  <2>1. \A i \in remote.served + 1 .. n : remote.sent[i].tag = 0
    <3>1. CASE ~IsOpen(remote)
      <4>1. Len(remote.sent) = 0
        BY <3>1, EmptySeq DEF SInv, StreamOK
      <4> QED
        BY <1>3, <1>4, <4>1
    <3>2. CASE IsOpen(remote)
      <4>1. remote.sent = <<Handshake>>
        BY <1>6, <3>2 DEF SInv, StreamOK
      <4>2. Len(remote.sent) = 1 /\ remote.sent[1].tag = 0
        BY <4>1, HandshakeSeq DEF Handshake
      <4>3. \A i \in remote.served + 1 .. n : i = 1
        BY <1>3, <1>4, <4>2
      <4> QED
        BY <4>2, <4>3
    <3> QED
      BY <3>1, <3>2
  <2>2. applied' = applied
    BY <1>1, <1>2, <2>1
  <2> QED
    BY <2>2 DEF Out!vars
<1> QED
  BY <1>5, <1>6

\* A write is a Submit.
LEMMA WriteImplements ==
  ASSUME SInv, NEW ok \in BOOLEAN, WriteMutations(ok)
  PROVE  Out!Next
<1> DEFINE b == [id |-> nextId, tag |-> written + 1, ok |-> ok]
           q == queue[user]
<1>1. /\ queue' = [queue EXCEPT ![user] = Append(q, b)]
      /\ queue \in [Users -> Seq(Batch)] /\ b \in Batch /\ b.tag = written + 1
      /\ user \in Users /\ q \in Seq(Batch)
  BY WriteAppends DEF SInv, TypeOK
<1>2. written' = written + 1 /\ UNCHANGED <<applied, refused>>
  BY DEF WriteMutations
<1> HIDE DEF b
<1>3. TagsOf(Append(q, b)) = Append(TagsOf(q), written + 1)
  BY <1>1, TagsOfAppend
<1>4. Outboxes(queue') = [Outboxes(queue) EXCEPT ![user] = Append(@, written + 1)]
  BY <1>1, <1>3 DEF Outboxes
<1> QED
  BY <1>2, <1>4, OutboxSteps

\* A result, or a permanent error, settles the first write of the outbox.
LEMMA SettleImplements ==
  ASSUME SInv, OnWriteStreamMutationResult \/ HandleWriteError
  PROVE  Out!Next
<1> DEFINE q == queue[user]
<1>1. /\ remote.pipeline # <<>> /\ IsOpen(remote) /\ remote.handshake
      /\ RemoveMutationBatch(Head(remote.pipeline).id)
      /\ UNCHANGED <<nextId, user, applied, refused, written, faults>>
  BY DEF OnWriteStreamMutationResult, HandleWriteError, Answered, Denial,
         HandleSuccessfulWrite, HandleRejectedWrite
<1>2. /\ q \in Seq(Batch) /\ q # <<>> /\ Sorted(q) /\ user \in Users
      /\ queue \in [Users -> Seq(Batch)] /\ remote.pipeline[1] = q[1]
  BY <1>1, FrontOfQueue DEF SInv, Queues, TypeOK
<1>3. queue' = [queue EXCEPT ![user] = Tail(q)]
  BY <1>1, RemoveFront
<1>4. TagsOf(Tail(q)) = Tail(TagsOf(q)) /\ TagsOf(q) # <<>> /\ Head(TagsOf(q)) = q[1].tag
  BY <1>2, TagsOfTail
<1>5. Outboxes(queue') = [Outboxes(queue) EXCEPT ![user] = Tail(@)]
  BY <1>2, <1>3, <1>4 DEF Outboxes
<1>6. q[1].tag \in applied \cup refused
  <2>1. remote.sent = remote.pipeline /\ remote.served \in Nat
    BY <1>1, RemoteFields DEF SInv, StreamOK
  <2>2. CASE remote.served > 0
    BY <1>1, <2>2, AnsweredIsApplied
  <2>3. CASE remote.served = 0 /\ remote.denied
    BY <1>2, <2>1, <2>3 DEF SInv, Backend
  <2> QED
    BY <2>1, <2>2, <2>3 DEF OnWriteStreamMutationResult, HandleWriteError, Answered, Denial
<1> QED
  BY <1>1, <1>4, <1>5, <1>6, OutboxSteps

\* The write path implements the outbox: the backend commits the writes of a
\* user in the order they were issued, and a batch leaves the queue only when
\* it is the oldest and the backend has committed or refused it.
THEOREM OutboxImplemented == Spec => ImplementsOutbox
<1>1. Init => Out!Init
  <2> SUFFICES ASSUME Init PROVE Out!Init
    OBVIOUS
  <2>1. \A u \in Users : [i \in 1 .. Len(queue[u]) |-> queue[u][i].tag] = <<>>
    BY DEF Init
  <2> QED
    BY <2>1 DEF Init, Out!Init
<1>2. SInv /\ [Next]_vars => [Out!Next]_(Out!vars)
  <2> SUFFICES ASSUME SInv, [Next]_vars PROVE Out!Next \/ UNCHANGED Out!vars
    OBVIOUS
  <2>1. CASE \E ok \in BOOLEAN : WriteMutations(ok)
    BY <2>1, WriteImplements
  <2>2. CASE Serve
    BY <2>2, ServeImplements
  <2>3. CASE OnWriteStreamMutationResult \/ HandleWriteError
    BY <2>3, SettleImplements
  <2>4. CASE \/ OnWriteStreamOpen \/ OnWriteStreamHandshakeComplete
             \/ BackoffElapsed \/ IdleTimeout \/ UNCHANGED vars
    <3>1. UNCHANGED <<queue, applied, refused, written>>
      BY <2>4 DEF OnWriteStreamOpen, OnWriteStreamHandshakeComplete, BackoffElapsed,
                  IdleTimeout, vars
    <3> QED
      BY <3>1 DEF Out!vars
  <2>5. CASE \/ TransientFailure \/ ConnectivityChange
             \/ \E u \in Users : HandleCredentialChange(u) \/ Relaunch(u)
    <3>1. CommitsLeftover /\ UNCHANGED <<queue, refused, written>>
      BY <2>5 DEF TransientFailure, ConnectivityChange, HandleCredentialChange, Relaunch
    <3> QED
      BY <3>1, FaultImplements
  <2> QED
    BY <2>1, <2>2, <2>3, <2>4, <2>5 DEF Next, Progress
<1> QED
  BY <1>1, <1>2, StoreSound, PTL DEF Spec, ImplementsOutbox, Out!Spec
==============================================================================
