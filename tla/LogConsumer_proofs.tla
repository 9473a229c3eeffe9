------------------------- MODULE LogConsumer_proofs -------------------------
(***************************************************************************)
(* Proofs that the safety properties of LogConsumer hold for every set of  *)
(* partitions and services, every batch size and every bound.              *)
(***************************************************************************)
EXTENDS LogConsumer, SequenceTheorems, TLAPS

\* Names for single expressions are expanded everywhere.
USE DEF CanLock, Unlock, ResetTimer, Fills, Payload

(***************************************************************************)
(* How far each partition is: what is committed was marked, what is marked *)
(* was fetched, and the message in hand is fetched and not yet marked.  A  *)
(* partition without a claim has nothing in hand.                          *)
(***************************************************************************)
Positions ==
  \A p \in Partition :
    /\ Len(topic[p]) <= MaxOffset
    /\ committed[p] <= marked[p]
    /\ fetched[p] <= Len(topic[p])
    /\ IF pc[p] = "idle" THEN marked[p] = fetched[p] ELSE marked[p] < fetched[p]
    /\ pc[p] \in {"add", "flush", "bulk"} => Current(p) \in Service
    /\ p \notin claim => pc[p] = "idle"

(***************************************************************************)
(* The mutex of a batch is held by the callback that waits for its bulk    *)
(* request, which carries the whole buffer, or by the goroutine that       *)
(* filled the batch; and every goroutine at such a point holds it.         *)
(***************************************************************************)
Locking ==
  /\ \A s \in Service :
       /\ holder[s] = Free => body[s] = {}
       /\ holder[s] # Free =>
            /\ BatchOf(holder[s]) = s
            /\ pc[holder[s]] = IF holder[s] \in Partition THEN "flush" ELSE "bulk"
  /\ \A t \in Thread : pc[t] = "bulk" =>
       /\ t \notin Partition
       /\ holder[BatchOf(t)] = t
       /\ body[BatchOf(t)] = Buffered(BatchOf(t))
  /\ \A p \in Partition : pc[p] = "flush" => holder[Current(p)] = p

(***************************************************************************)
(* A message that was fetched is in its batch, stored or hit by a mishap,  *)
(* unless it is unusable or the goroutine has not added it yet.            *)
(***************************************************************************)
FetchedIsKept ==
  \A p \in Partition : \A k \in 1 .. fetched[p] :
    \/ topic[p][k] = Unusable
    \/ <<p, k>> \in index \cup AllBuffered \cup mishap
    \/ k = fetched[p] /\ pc[p] = "add"

IInv ==
  /\ TypeOK
  /\ Positions
  /\ Locking
  /\ FetchedIsKept
  /\ FlushIsScheduled
  /\ FullExactlyWhenStuck

-----------------------------------------------------------------------------
(* Sequences and threads *)

\* Appending adds one element to the range of a sequence.
LEMMA RangeAppend ==
  ASSUME NEW S, NEW b \in Seq(S), NEW d \in S
  PROVE  /\ Append(b, d) \in Seq(S)
         /\ Len(Append(b, d)) = Len(b) + 1
         /\ \A i \in 1 .. Len(b) : Append(b, d)[i] = b[i]
         /\ Append(b, d)[Len(b) + 1] = d
         /\ Range(Append(b, d)) = Range(b) \cup {d}
<1>1. /\ Append(b, d) \in Seq(S)
      /\ Len(Append(b, d)) = Len(b) + 1
      /\ \A i \in 1 .. Len(b) : Append(b, d)[i] = b[i]
      /\ Append(b, d)[Len(b) + 1] = d
  OBVIOUS
<1>2. DOMAIN Append(b, d) = 1 .. Len(b) + 1 /\ DOMAIN b = 1 .. Len(b) /\ Len(b) \in Nat
  BY <1>1, LenProperties
<1>3. Range(Append(b, d)) \subseteq Range(b) \cup {d}
  BY <1>1, <1>2 DEF Range
<1>4. Range(b) \cup {d} \subseteq Range(Append(b, d))
  <2>1. \A i \in 1 .. Len(b) : i \in 1 .. Len(b) + 1
    BY <1>2
  <2>2. Len(b) + 1 \in 1 .. Len(b) + 1
    BY <1>2
  <2> QED BY <1>1, <1>2, <2>1, <2>2 DEF Range
<1> QED BY <1>1, <1>3, <1>4

\* The empty batch holds no document.
LEMMA RangeEmpty == Range(<<>>) = {}
BY DEF Range

\* A batch holds documents.
LEMMA BufferedDocs ==
  ASSUME TypeOK, NEW s \in Service
  PROVE  Buffered(s) \subseteq Doc
BY LenProperties DEF TypeOK, Buffered, Range

\* A callback is no partition, and belongs to a service's batch.
LEMMA CallbackBatch ==
  ASSUME NEW c \in Callback
  PROVE  c \notin Partition /\ c \in Thread /\ c[1] \in Service /\ BatchOf(c) = c[1]
BY ConstantsAssumption DEF Callback, Thread, BatchOf

\* A goroutine at a flush works on the batch of some service.
LEMMA FlushesService ==
  ASSUME Positions, NEW t \in Thread, pc[t] \in {"flush", "bulk"}
  PROVE  BatchOf(t) \in Service
BY CallbackBatch DEF Positions, Thread, BatchOf

-----------------------------------------------------------------------------
(* Type correctness, with the positions *)

\* The consumer starts with nothing fetched, in states of the right type.
LEMMA InitPositions == Init => TypeOK /\ Positions
<1> SUFFICES ASSUME Init PROVE TypeOK /\ Positions
  OBVIOUS
<1>1. /\ \A p \in Partition : topic[p] = <<>> /\ Len(topic[p]) = 0
      /\ topic \in [Partition -> Seq(Message)]
      /\ buffer \in [Service -> Seq(Doc)]
  BY EmptySeq DEF Init
<1>2. TypeOK
  BY <1>1, ConstantsAssumption DEF Init, TypeOK, Location
<1>3. Positions
  BY <1>1, ConstantsAssumption DEF Init, Positions, Thread
<1> QED BY <1>2, <1>3

\* Every step keeps the types and the order committed, marked, fetched.
LEMMA NextPositions ==
  TypeOK /\ Positions /\ [Next]_vars => TypeOK' /\ Positions'
<1> SUFFICES ASSUME TypeOK, Positions, [Next]_vars PROVE TypeOK' /\ Positions'
  OBVIOUS
<1> USE ConstantsAssumption
<1>1. ASSUME NEW p \in Partition, NEW m \in Message, Produce(p, m)
      PROVE  TypeOK' /\ Positions'
  <2>1. topic[p] \in Seq(Message) /\ Len(topic[p]) \in Nat
    BY LenProperties DEF TypeOK
  <2>2. /\ Append(topic[p], m) \in Seq(Message)
        /\ Len(Append(topic[p], m)) = Len(topic[p]) + 1
        /\ \A i \in 1 .. Len(topic[p]) : Append(topic[p], m)[i] = topic[p][i]
    BY <2>1, RangeAppend
  <2>3. TypeOK'
    BY <1>1, <2>2 DEF TypeOK, Produce, claims, batches, history
  <2>4. Positions'
    BY <1>1, <2>1, <2>2 DEF TypeOK, Positions, Produce, claims, batches, history, Current, Thread
  <2> QED BY <2>3, <2>4
<1>2. ASSUME NEW p \in Partition, ConsumeClaim(p)
      PROVE  TypeOK' /\ Positions'
  <2>1. TypeOK'
    BY <1>2 DEF TypeOK, ConsumeClaim, GoTo, kafka, batches, history, Location, Thread
  <2>2. topic[p][fetched[p] + 1] \in Message
    BY <1>2, ElementOfSeq, LenProperties DEF TypeOK, ConsumeClaim
  <2>3. Positions'
    BY <1>2, <2>2, LenProperties
    DEF TypeOK, Positions, ConsumeClaim, GoTo, kafka, batches, history, Current, Thread, Message
  <2> QED BY <2>1, <2>3
<1>3. ASSUME NEW p \in Partition, AddDocument(p)
      PROVE  TypeOK' /\ Positions'
  <2>1. Current(p) \in Service
    BY <1>3 DEF AddDocument, Positions
  <2>2. DocOf(p) \in Doc
    <3>1. pc[p] # "idle"
      BY <1>3 DEF AddDocument
    <3>2. /\ marked[p] \in Nat /\ fetched[p] \in Nat /\ Len(topic[p]) \in Nat
          /\ marked[p] < fetched[p] /\ fetched[p] <= Len(topic[p]) /\ Len(topic[p]) <= MaxOffset
      BY <3>1, LenProperties DEF Positions, TypeOK
    <3>3. fetched[p] \in 1 .. MaxOffset
      BY <3>2
    <3> QED BY <3>3 DEF DocOf, Doc
  <2>3. Append(buffer[Current(p)], DocOf(p)) \in Seq(Doc)
    BY <2>1, <2>2 DEF TypeOK
  <2>4. TypeOK'
    BY <1>3, <2>1, <2>3 DEF TypeOK, AddDocument, GoTo, kafka, claims, Location, Thread
  <2>5. Positions'
    BY <1>3 DEF TypeOK, Positions, AddDocument, GoTo, kafka, claims, Current, Thread
  <2> QED BY <2>4, <2>5
<1>4. ASSUME NEW p \in Partition, MarkMessage(p)
      PROVE  TypeOK' /\ Positions'
  <2>1. TypeOK'
    BY <1>4 DEF TypeOK, MarkMessage, GoTo, kafka, batches, history, Location, Thread
  <2>2. Positions'
    BY <1>4 DEF TypeOK, Positions, MarkMessage, GoTo, kafka, batches, history, Current, Thread
  <2> QED BY <2>1, <2>2
<1>5. ASSUME NEW c \in Callback, TimerFires(c)
      PROVE  TypeOK' /\ Positions'
  <2>1. TypeOK'
    BY <1>5, CallbackBatch DEF TypeOK, TimerFires, GoTo, kafka, claims, history, Location
  <2>2. Positions'
    BY <1>5, CallbackBatch DEF TypeOK, Positions, TimerFires, GoTo, kafka, claims, history, Current, Thread
  <2> QED BY <2>1, <2>2
<1>6. ASSUME NEW t \in Thread, FlushBatch(t)
      PROVE  TypeOK' /\ Positions'
  <2>1. BatchOf(t) \in Service
    BY <1>6, FlushesService DEF FlushBatch
  <2>2. TypeOK'
    BY <1>6, <2>1, BufferedDocs
    DEF TypeOK, FlushBatch, Returned, GoTo, kafka, claims, history, Location
  <2>3. Positions'
    BY <1>6, <2>1 DEF TypeOK, Positions, FlushBatch, Returned, GoTo, kafka, claims, history, Current, Thread
  <2> QED BY <2>2, <2>3
<1>7. ASSUME NEW t \in Thread, BulkAnswered(t)
      PROVE  TypeOK' /\ Positions'
  <2>1. BatchOf(t) \in Service
    BY <1>7, FlushesService DEF BulkAnswered
  <2>2. TypeOK'
    BY <1>7, <2>1, EmptySeq
    DEF TypeOK, BulkAnswered, Trouble, Returned, GoTo, kafka, claims, history, Location
  <2>3. Positions'
    BY <1>7, <2>1 DEF TypeOK, Positions, BulkAnswered, Returned, GoTo, kafka, claims, history, Current, Thread
  <2> QED BY <2>2, <2>3
<1>8. ASSUME NEW t \in Thread, BulkFails(t)
      PROVE  TypeOK' /\ Positions'
  <2>1. BatchOf(t) \in Service
    BY <1>8, FlushesService DEF BulkFails
  <2>2. TypeOK'
    BY <1>8, <2>1
    DEF TypeOK, BulkFails, Trouble, Returned, GoTo, kafka, claims, history, Location
  <2>3. Positions'
    BY <1>8, <2>1 DEF TypeOK, Positions, BulkFails, Returned, GoTo, kafka, claims, history, Current, Thread
  <2> QED BY <2>2, <2>3
<1>9. CASE AutoCommit
  BY <1>9 DEF TypeOK, Positions, AutoCommit, claims, batches, history, Current
<1>10. CASE EndSession
  BY <1>10 DEF TypeOK, Positions, EndSession, Trouble, kafka, batches, Current
<1>11. ASSUME NEW p \in Partition, LeaveClaim(p)
       PROVE  TypeOK' /\ Positions'
  BY <1>11 DEF TypeOK, Positions, LeaveClaim, kafka, batches, history, Current
<1>12. CASE NextSession \/ ConsumerStops
  BY <1>12, LenProperties
  DEF TypeOK, Positions, NextSession, ConsumerStops, SessionOver, batches, history, Current
<1>15. CASE ConsumerStarts
  BY <1>15 DEF TypeOK, Positions, ConsumerStarts, kafka, batches, history, Current
<1>13. CASE Restart
  <2>1. AllBuffered \subseteq Doc /\ InFlight \subseteq Doc
    BY BufferedDocs DEF AllBuffered, InFlight, TypeOK
  <2>2. TypeOK'
    BY <1>13, <2>1, EmptySeq DEF TypeOK, Restart, FreshBatches, Trouble, kafka, Location
  <2>3. \A p \in Partition : committed[p] <= Len(topic[p])
    <3>1. \A p \in Partition : /\ committed[p] \in Nat /\ marked[p] \in Nat
                               /\ fetched[p] \in Nat /\ Len(topic[p]) \in Nat
      BY LenProperties DEF TypeOK
    <3> QED BY <3>1 DEF Positions
  <2>4. Positions'
    <3>1. \A p \in Partition : pc'[p] = "idle" /\ committed[p] \in Nat
      BY <1>13 DEF Restart, Thread, TypeOK
    <3> QED BY <1>13, <2>3, <3>1 DEF Positions, Restart, kafka
  <2> QED BY <2>2, <2>4
<1>14. CASE UNCHANGED vars
  BY <1>14 DEF TypeOK, Positions, vars, kafka, claims, batches, history, Current
<1> QED
  BY <1>1, <1>2, <1>3, <1>4, <1>5, <1>6, <1>7, <1>8, <1>9, <1>10, <1>11, <1>12,
     <1>13, <1>14, <1>15 DEF Next

(***************************************************************************)
(* Every variable keeps its type.                                          *)
(***************************************************************************)
THEOREM TypeCorrect == Spec => []TypeOK
<1>1. TypeOK /\ Positions => TypeOK
  OBVIOUS
<1> QED BY <1>1, InitPositions, NextPositions, PTL DEF Spec

-----------------------------------------------------------------------------
(* Mutual exclusion *)

\* No mutex is held when the consumer starts.
LEMMA InitLocking == Init => Locking
BY ConstantsAssumption DEF Init, Locking, Thread

\* Every step keeps the mutexes and the bulk requests in their goroutines' hands.
LEMMA NextLocking ==
  TypeOK /\ Positions /\ Locking /\ [Next]_vars => Locking'
<1> SUFFICES ASSUME TypeOK, Positions, Locking, [Next]_vars PROVE Locking'
  OBVIOUS
<1> USE ConstantsAssumption
<1>t. /\ \A p \in Partition : p \in Thread
      /\ \A t \in Thread : t \notin Partition => t \in Callback
  BY DEF Thread
<1>p. \A p \in Partition : /\ fetched[p] \in Nat /\ marked[p] \in Nat /\ Len(topic[p]) \in Nat
                           /\ pc[p] # "idle" => fetched[p] \in 1 .. Len(topic[p])
  BY LenProperties DEF TypeOK, Positions
<1>b. \A t \in Thread : pc[t] \in {"flush", "bulk"} => BatchOf(t) \in Service
  BY FlushesService
<1>1. ASSUME NEW p \in Partition, NEW m \in Message, Produce(p, m) PROVE Locking'
  <2>1. \A q \in Partition : pc[q] # "idle" => topic'[q][fetched[q]] = topic[q][fetched[q]]
    <3>1. topic[p] \in Seq(Message)
      BY DEF TypeOK
    <3>2. \A i \in 1 .. Len(topic[p]) : Append(topic[p], m)[i] = topic[p][i]
      BY <3>1, RangeAppend
    <3>3. \A q \in Partition : topic'[q] = IF q = p THEN Append(topic[p], m) ELSE topic[q]
      BY <1>1 DEF Produce, TypeOK
    <3> QED BY <1>p, <3>2, <3>3
  <2>2. /\ fetched' = fetched /\ pc' = pc /\ holder' = holder /\ body' = body /\ buffer' = buffer
    BY <1>1 DEF Produce, claims, batches
  <2> QED BY <1>t, <2>1, <2>2 DEF Locking, BatchOf, Current, Buffered, TypeOK
<1>2. ASSUME NEW p \in Partition, ConsumeClaim(p) PROVE Locking'
  BY <1>2, <1>t DEF ConsumeClaim, GoTo, kafka, batches, Locking, BatchOf, Current, Buffered, TypeOK
<1>3. ASSUME NEW p \in Partition, AddDocument(p) PROVE Locking'
  <2> DEFINE s == Current(p)
             full == Len(buffer[s]) + 1 >= BatchSize
  <2>1. /\ pc[p] = "add" /\ s \in Service /\ holder[s] = Free
        /\ p \in Thread /\ BatchOf(p) = s
    BY <1>3, <1>t DEF AddDocument, Positions, BatchOf
  <2>2. /\ fetched' = fetched /\ topic' = topic /\ body' = body
        /\ \A t \in Thread : pc'[t] = IF t = p THEN IF full THEN "flush" ELSE "mark" ELSE pc[t]
        /\ \A r \in Service : holder'[r] = IF r = s THEN IF full THEN p ELSE Free ELSE holder[r]
        /\ \A r \in Service \ {s} : buffer'[r] = buffer[r]
    BY <1>3, <2>1 DEF AddDocument, GoTo, kafka, claims, TypeOK
  <2>3. /\ \A t \in Thread : BatchOf(t)' = BatchOf(t)
        /\ \A q \in Partition : Current(q)' = Current(q)
    BY <2>2 DEF BatchOf, Current
  <2>4. ASSUME NEW r \in Service
        PROVE  /\ holder'[r] = Free => body'[r] = {}
               /\ holder'[r] # Free =>
                    /\ BatchOf(holder[r])' = r
                    /\ pc'[holder'[r]] = IF holder'[r] \in Partition THEN "flush" ELSE "bulk"
    <3>1. CASE r = s
      <4>1. body[s] = {} /\ Free \notin Thread
        BY <2>1 DEF Locking
      <4> HIDE DEF s, full
      <4>2. CASE full
        <5>1. holder'[r] = p /\ pc'[p] = "flush"
          BY <2>1, <2>2, <3>1, <4>2
        <5>2. BatchOf(holder[r])' = s
          BY <5>1, <2>1, <2>2, <1>t DEF BatchOf, Current, s
        <5> QED BY <5>1, <5>2, <3>1, <2>1, <4>1
      <4>3. CASE ~full
        BY <2>1, <2>2, <3>1, <4>1, <4>3
      <4> QED BY <4>2, <4>3
    <3>2. CASE r # s
      <4>1. holder'[r] = holder[r] /\ body'[r] = body[r]
        BY <2>2, <3>2
      <4>2. holder[r] # p
        BY <2>1 DEF Locking
      <4>3. holder[r] # Free => holder[r] \in Thread
        BY DEF TypeOK
      <4>4. holder[r] # Free => pc'[holder[r]] = pc[holder[r]]
        BY <2>2, <4>2, <4>3
      <4>5. holder[r] # Free => BatchOf(holder[r])' = BatchOf(holder[r])
        BY <2>2, <4>1 DEF BatchOf, Current
      <4> QED BY <4>1, <4>4, <4>5 DEF Locking
    <3> QED BY <3>1, <3>2
  <2>5. ASSUME NEW t \in Thread, pc'[t] = "bulk"
        PROVE  /\ t \notin Partition
               /\ holder'[BatchOf(t)'] = t
               /\ body'[BatchOf(t)'] = Buffered(BatchOf(t))'
    <3>1. pc[t] = "bulk" /\ t # p /\ BatchOf(t) \in Service
      BY <2>2, <2>5, <1>b
    <3>2. /\ t \notin Partition /\ holder[BatchOf(t)] = t
          /\ body[BatchOf(t)] = Buffered(BatchOf(t))
      BY <3>1 DEF Locking
    <3>3. BatchOf(t) # s
      BY <3>2, <2>1
    <3> QED BY <2>2, <2>3, <3>1, <3>2, <3>3 DEF Buffered
  <2>6. ASSUME NEW q \in Partition, pc'[q] = "flush"
        PROVE  holder'[Current(q)'] = q
    <3>1. CASE q = p
      BY <2>1, <2>2, <2>3, <2>6, <3>1
    <3>2. CASE q # p
      <4>1. pc[q] = "flush" /\ Current(q) \in Service
        BY <2>2, <2>6, <3>2, <1>t, <1>b DEF BatchOf
      <4>2. holder[Current(q)] = q /\ q # Free
        BY <4>1, <1>t DEF Locking
      <4> QED BY <2>1, <2>2, <2>3, <4>1, <4>2
    <3> QED BY <3>1, <3>2
  <2> QED BY <2>4, <2>5, <2>6 DEF Locking
<1>4. ASSUME NEW p \in Partition, MarkMessage(p) PROVE Locking'
  BY <1>4, <1>t DEF MarkMessage, GoTo, kafka, batches, Locking, BatchOf, Current, Buffered, TypeOK
<1>5. ASSUME NEW c \in Callback, TimerFires(c) PROVE Locking'
  BY <1>5, <1>t, CallbackBatch
  DEF TimerFires, GoTo, kafka, claims, Locking, BatchOf, Current, Buffered, TypeOK
<1>6. ASSUME NEW t \in Thread, FlushBatch(t) PROVE Locking'
  <2>1. t \notin Partition
    BY <1>6 DEF FlushBatch, Locking, BatchOf
  <2>2. t \in Callback /\ BatchOf(t) = t[1] /\ t[1] \in Service
    BY <2>1, <1>t, CallbackBatch
  <2>3. /\ fetched' = fetched /\ topic' = topic /\ buffer' = buffer
        /\ pc[t] = "flush" /\ holder[t[1]] = Free
        /\ \/ /\ pc' = [pc EXCEPT ![t] = "idle"]
              /\ holder' = holder /\ body' = body
           \/ /\ pc' = [pc EXCEPT ![t] = "bulk"]
              /\ holder' = [holder EXCEPT ![t[1]] = t]
              /\ body' = [body EXCEPT ![t[1]] = Buffered(t[1])]
    BY <1>6, <2>1, <2>2 DEF FlushBatch, Returned, GoTo, kafka, claims
  <2>4. CASE holder' = holder /\ body' = body /\ pc' = [pc EXCEPT ![t] = "idle"]
    BY <1>t, <2>1, <2>2, <2>3, <2>4
    DEF Locking, BatchOf, Current, Buffered, TypeOK
  <2>5. CASE /\ pc' = [pc EXCEPT ![t] = "bulk"]
             /\ holder' = [holder EXCEPT ![t[1]] = t]
             /\ body' = [body EXCEPT ![t[1]] = Buffered(t[1])]
    BY <1>t, <1>b, <2>1, <2>2, <2>3, <2>5
    DEF Locking, BatchOf, Current, Buffered, TypeOK
  <2> QED BY <2>3, <2>4, <2>5
<1>7. ASSUME NEW t \in Thread, BulkAnswered(t) \/ BulkFails(t) PROVE Locking'
  <2>1. pc[t] = "bulk" /\ t \notin Partition /\ holder[BatchOf(t)] = t
    BY <1>7 DEF BulkAnswered, BulkFails, Locking
  <2>2. t \in Callback /\ BatchOf(t) = t[1] /\ t[1] \in Service
    BY <2>1, <1>t, CallbackBatch
  <2>3. /\ fetched' = fetched /\ topic' = topic
        /\ pc' = [pc EXCEPT ![t] = "idle"]
        /\ holder' = [holder EXCEPT ![t[1]] = Free]
        /\ body' = [body EXCEPT ![t[1]] = {}]
        /\ \A s \in Service \ {t[1]} : buffer'[s] = buffer[s]
    BY <1>7, <2>1, <2>2
    DEF BulkAnswered, BulkFails, Returned, GoTo, kafka, claims, TypeOK
  <2> QED BY <1>t, <1>b, <2>1, <2>2, <2>3
          DEF Locking, BatchOf, Current, Buffered, TypeOK
<1>8. CASE NextSession \/ ConsumerStops
  <2>1. \A p \in Partition : pc[p] = "idle"
    BY <1>8 DEF NextSession, ConsumerStops, SessionOver, Positions
  <2>2. topic' = topic /\ pc' = pc /\ holder' = holder /\ body' = body /\ buffer' = buffer
    BY <1>8 DEF NextSession, ConsumerStops, SessionOver, batches
  <2> QED BY <1>t, <2>1, <2>2 DEF Locking, BatchOf, Current, Buffered, TypeOK
<1>9. CASE Restart
  BY <1>9 DEF Restart, FreshBatches, Locking, Thread
<1>10. CASE UNCHANGED <<topic, fetched, pc, holder, body, buffer>>
  BY <1>10 DEF Locking, BatchOf, Current, Buffered
<1>11. CASE \/ \E p \in Partition : LeaveClaim(p)
            \/ AutoCommit \/ EndSession \/ ConsumerStarts \/ UNCHANGED vars
  BY <1>10, <1>11
  DEF AutoCommit, EndSession, LeaveClaim, ConsumerStarts, vars, kafka, claims, batches
<1> QED
  BY <1>1, <1>2, <1>3, <1>4, <1>5, <1>6, <1>7, <1>8, <1>9, <1>11 DEF Next

-----------------------------------------------------------------------------
(* No log is forgotten *)

\* What is buffered, stored or hit stays one of the three in every step.
LEMMA KeptStaysKept ==
  TypeOK /\ Positions /\ Locking /\ [Next]_vars =>
    index \cup AllBuffered \cup mishap \subseteq (index \cup AllBuffered \cup mishap)'
<1> SUFFICES ASSUME TypeOK, Positions, Locking, [Next]_vars
             PROVE  index \cup AllBuffered \cup mishap
                      \subseteq (index \cup AllBuffered \cup mishap)'
  OBVIOUS
<1>1. CASE UNCHANGED <<index, buffer, mishap>>
  BY <1>1 DEF AllBuffered, Buffered
<1>2. ASSUME NEW p \in Partition, AddDocument(p)
      PROVE  index \cup AllBuffered \cup mishap \subseteq (index \cup AllBuffered \cup mishap)'
  <2>1. Current(p) \in Service /\ buffer[Current(p)] \in Seq(Doc)
    BY <1>2 DEF AddDocument, Positions, TypeOK
  <2>2. DocOf(p) \in Doc
    <3>1. /\ marked[p] \in Nat /\ fetched[p] \in Nat /\ Len(topic[p]) \in Nat /\ MaxOffset \in Nat
          /\ marked[p] < fetched[p] /\ fetched[p] <= Len(topic[p]) /\ Len(topic[p]) <= MaxOffset
      BY <1>2, LenProperties, ConstantsAssumption DEF AddDocument, Positions, TypeOK
    <3> QED BY <3>1 DEF DocOf, Doc
  <2>3. Range(buffer[Current(p)]) \subseteq Range(Append(buffer[Current(p)], DocOf(p)))
    BY <2>1, <2>2, RangeAppend
  <2>4. \A s \in Service :
          buffer'[s] = IF s = Current(p) THEN Append(buffer[s], DocOf(p)) ELSE buffer[s]
    BY <1>2 DEF AddDocument, TypeOK
  <2>5. index' = index /\ mishap' = mishap
    BY <1>2 DEF AddDocument
  <2> QED BY <2>3, <2>4, <2>5 DEF AllBuffered, Buffered
<1>3. ASSUME NEW t \in Thread, BulkAnswered(t)
      PROVE  index \cup AllBuffered \cup mishap \subseteq (index \cup AllBuffered \cup mishap)'
  <2>1. body[BatchOf(t)] = Buffered(BatchOf(t))
    BY <1>3 DEF BulkAnswered, Locking
  <2>2. Buffered(BatchOf(t)) \cup index \cup mishap \subseteq index' \cup mishap'
    BY <1>3, <2>1 DEF BulkAnswered
  <2>3. \A s \in Service : s # BatchOf(t) => buffer'[s] = buffer[s]
    BY <1>3 DEF BulkAnswered, TypeOK
  <2> QED BY <2>2, <2>3 DEF AllBuffered, Buffered
<1>4. ASSUME NEW t \in Thread, BulkFails(t)
      PROVE  index \cup AllBuffered \cup mishap \subseteq (index \cup AllBuffered \cup mishap)'
  BY <1>4 DEF BulkFails, AllBuffered, Buffered
<1>5. CASE Restart
  BY <1>5 DEF Restart
<1>6. CASE \/ \E p \in Partition, m \in Message : Produce(p, m)
           \/ \E p \in Partition : ConsumeClaim(p) \/ MarkMessage(p) \/ LeaveClaim(p)
           \/ \E c \in Callback : TimerFires(c)
           \/ \E t \in Thread : FlushBatch(t)
           \/ AutoCommit \/ EndSession \/ NextSession \/ ConsumerStops \/ ConsumerStarts
           \/ UNCHANGED vars
  BY <1>1, <1>6
  DEF Produce, ConsumeClaim, MarkMessage, LeaveClaim, TimerFires, FlushBatch, AutoCommit,
      EndSession, NextSession, ConsumerStops, SessionOver, ConsumerStarts, vars, batches, history
<1> QED BY <1>2, <1>3, <1>4, <1>5, <1>6 DEF Next

\* No step forgets a fetched message: it leaves a batch for the index only,
\* or a mishap hits it, or it is delivered again.
LEMMA NextFetched ==
  TypeOK /\ Positions /\ Locking /\ FetchedIsKept /\ [Next]_vars => FetchedIsKept'
<1> SUFFICES ASSUME TypeOK, Positions, Locking, FetchedIsKept, [Next]_vars
             PROVE  FetchedIsKept'
  OBVIOUS
<1> USE ConstantsAssumption
<1> DEFINE Kept == index \cup AllBuffered \cup mishap
<1>k. Kept \subseteq Kept'
  BY KeptStaysKept
<1>p. \A p \in Partition :
        /\ fetched[p] \in Nat /\ marked[p] \in Nat /\ committed[p] \in Nat
        /\ Len(topic[p]) \in Nat /\ p \in Thread
        /\ committed[p] <= marked[p] /\ marked[p] <= fetched[p] /\ fetched[p] <= Len(topic[p])
  <2>1. \A p \in Partition : /\ fetched[p] \in Nat /\ marked[p] \in Nat /\ committed[p] \in Nat
                             /\ Len(topic[p]) \in Nat /\ p \in Thread
    BY LenProperties DEF TypeOK, Thread
  <2>2. \A p \in Partition : marked[p] <= fetched[p]
    BY <2>1 DEF Positions
  <2> QED BY <2>1, <2>2 DEF Positions
\* A step that changes neither what was fetched, nor leaves "add", keeps it.
<1>s. ASSUME \A p \in Partition : /\ fetched'[p] <= fetched[p] /\ fetched'[p] \in Nat
                                  /\ \A k \in 1 .. fetched[p] : topic'[p][k] = topic[p][k]
                                  /\ pc[p] = "add" => \/ pc'[p] = "add" /\ fetched'[p] = fetched[p]
                                                      \/ fetched'[p] < fetched[p]
      PROVE  FetchedIsKept'
  <2> SUFFICES ASSUME NEW p \in Partition, NEW k \in 1 .. fetched'[p]
               PROVE  \/ topic'[p][k] = Unusable
                      \/ <<p, k>> \in Kept'
                      \/ k = fetched'[p] /\ pc'[p] = "add"
    BY DEF FetchedIsKept
  <2>1. k \in 1 .. fetched[p] /\ topic'[p][k] = topic[p][k] /\ k <= fetched'[p]
    BY <1>s, <1>p
  <2>2. \/ topic[p][k] = Unusable
        \/ <<p, k>> \in Kept
        \/ k = fetched[p] /\ pc[p] = "add"
    BY <2>1 DEF FetchedIsKept
  <2> QED BY <1>k, <1>s, <1>p, <2>1, <2>2
<1>1. ASSUME NEW p \in Partition, NEW m \in Message, Produce(p, m) PROVE FetchedIsKept'
  <2>1. \A i \in 1 .. Len(topic[p]) : Append(topic[p], m)[i] = topic[p][i]
    BY RangeAppend DEF TypeOK
  <2>2. \A q \in Partition : topic'[q] = IF q = p THEN Append(topic[p], m) ELSE topic[q]
    BY <1>1 DEF Produce, TypeOK
  <2>3. fetched' = fetched /\ pc' = pc
    BY <1>1 DEF Produce, claims
  <2>4. ASSUME NEW q \in Partition, NEW k \in 1 .. fetched[q]
        PROVE  topic'[q][k] = topic[q][k]
    <3>1. k \in 1 .. Len(topic[q])
      BY <1>p
    <3> QED BY <2>1, <2>2, <3>1
  <2>5. \A q \in Partition : fetched[q] <= fetched[q]
    BY <1>p
  <2> QED BY <1>s, <1>p, <2>3, <2>4, <2>5
<1>2. ASSUME NEW p \in Partition, ConsumeClaim(p) PROVE FetchedIsKept'
  <2>1. /\ topic' = topic /\ index' = index /\ buffer' = buffer /\ mishap' = mishap
        /\ pc[p] = "idle"
        /\ \A q \in Partition :
             /\ fetched'[q] = IF q = p THEN fetched[p] + 1 ELSE fetched[q]
             /\ pc'[q] = IF q = p THEN IF topic[p][fetched[p] + 1] = Unusable THEN "mark" ELSE "add"
                         ELSE pc[q]
    BY <1>2, <1>p DEF ConsumeClaim, GoTo, kafka, batches, history, TypeOK
  <2> SUFFICES ASSUME NEW q \in Partition, NEW k \in 1 .. fetched'[q]
               PROVE  \/ topic'[q][k] = Unusable
                      \/ <<q, k>> \in Kept'
                      \/ k = fetched'[q] /\ pc'[q] = "add"
    BY DEF FetchedIsKept
  <2>2. CASE k \in 1 .. fetched[q]
    <3>1. \/ topic[q][k] = Unusable
          \/ <<q, k>> \in Kept
          \/ k = fetched[q] /\ pc[q] = "add"
      BY <2>2 DEF FetchedIsKept
    <3> QED BY <1>k, <2>1, <3>1
  <2>3. CASE q = p /\ k = fetched[p] + 1
    BY <2>1, <2>3
  <2> QED BY <1>p, <2>1, <2>2, <2>3
<1>3. ASSUME NEW p \in Partition, AddDocument(p) PROVE FetchedIsKept'
  <2>1. /\ topic' = topic /\ fetched' = fetched /\ index' = index /\ mishap' = mishap
        /\ pc[p] = "add" /\ Current(p) \in Service /\ buffer[Current(p)] \in Seq(Doc)
        /\ \A q \in Partition \ {p} : pc'[q] = pc[q]
    BY <1>3, <1>p DEF AddDocument, GoTo, kafka, claims, TypeOK, Positions
  <2>2. DocOf(p) \in Doc /\ DocOf(p) = <<p, fetched[p]>>
    <3>1. marked[p] < fetched[p] /\ fetched[p] <= Len(topic[p]) /\ Len(topic[p]) <= MaxOffset
      BY <2>1 DEF Positions
    <3> QED BY <3>1, <1>p DEF DocOf, Doc
  <2>3. DocOf(p) \in Range(Append(buffer[Current(p)], DocOf(p)))
    BY <2>1, <2>2, RangeAppend
  <2>4. buffer'[Current(p)] = Append(buffer[Current(p)], DocOf(p))
    BY <1>3, <2>1 DEF AddDocument, TypeOK
  <2>5. <<p, fetched[p]>> \in Kept'
    BY <2>1, <2>2, <2>3, <2>4 DEF AllBuffered, Buffered
  <2> SUFFICES ASSUME NEW q \in Partition, NEW k \in 1 .. fetched'[q]
               PROVE  \/ topic'[q][k] = Unusable
                      \/ <<q, k>> \in Kept'
                      \/ k = fetched'[q] /\ pc'[q] = "add"
    BY DEF FetchedIsKept
  <2>6. \/ topic[q][k] = Unusable
        \/ <<q, k>> \in Kept
        \/ k = fetched[q] /\ pc[q] = "add"
    BY <2>1 DEF FetchedIsKept
  <2> QED BY <1>k, <2>1, <2>5, <2>6
<1>4. CASE NextSession \/ ConsumerStops
  <2>1. \A p \in Partition : pc[p] = "idle"
    BY <1>4 DEF NextSession, ConsumerStops, SessionOver, Positions
  <2>2. topic' = topic /\ pc' = pc /\ (fetched' = committed \/ fetched' = marked)
    BY <1>4 DEF NextSession, ConsumerStops, SessionOver
  <2> QED BY <1>s, <1>p, <2>1, <2>2
<1>5. CASE Restart
  <2>1. /\ topic' = topic /\ fetched' = committed
        /\ \A p \in Partition : pc'[p] = "idle"
    BY <1>5, <1>p DEF Restart, kafka
  <2>2. \A p \in Partition : pc[p] # "idle" => marked[p] < fetched[p]
    BY DEF Positions
  <2>3. \A p \in Partition : pc[p] = "add" => committed[p] < fetched[p]
    BY <1>p, <2>2
  <2>4. \A p \in Partition : committed[p] <= fetched[p]
    BY <1>p
  <2> QED BY <1>s, <1>p, <2>1, <2>3, <2>4
<1>6. CASE \/ \E p \in Partition : MarkMessage(p) \/ LeaveClaim(p)
           \/ \E c \in Callback : TimerFires(c)
           \/ \E t \in Thread : FlushBatch(t) \/ BulkAnswered(t) \/ BulkFails(t)
           \/ AutoCommit \/ EndSession \/ ConsumerStarts \/ UNCHANGED vars
  <2>1. topic' = topic /\ fetched' = fetched
    BY <1>6
    DEF MarkMessage, LeaveClaim, TimerFires, FlushBatch, BulkAnswered, BulkFails, AutoCommit,
        EndSession, ConsumerStarts, vars, kafka, claims
  <2>2. \A p \in Partition : pc[p] = "add" => pc'[p] = "add"
    BY <1>6, <1>p
    DEF MarkMessage, LeaveClaim, TimerFires, FlushBatch, BulkAnswered, BulkFails, AutoCommit,
        EndSession, ConsumerStarts, vars, GoTo, TypeOK
  <2>3. \A p \in Partition : fetched[p] <= fetched[p]
    BY <1>p
  <2> QED BY <1>s, <1>p, <2>1, <2>2, <2>3
<1> QED BY <1>1, <1>2, <1>3, <1>4, <1>5, <1>6 DEF Next

-----------------------------------------------------------------------------
(* Batches: a flush to come, and the full ones *)

\* Every step that leaves documents in a batch leaves a flush to come, and only
\* the goroutine that is then stuck fills a batch.
LEMMA NextBatches ==
  /\ TypeOK /\ Positions /\ Locking
  /\ FlushIsScheduled /\ FullExactlyWhenStuck
  /\ [Next]_vars
  => FlushIsScheduled' /\ FullExactlyWhenStuck'
<1> SUFFICES ASSUME TypeOK, Positions, Locking, FlushIsScheduled, FullExactlyWhenStuck,
                    [Next]_vars
             PROVE  FlushIsScheduled' /\ FullExactlyWhenStuck'
  OBVIOUS
<1> USE ConstantsAssumption
<1> DEFINE Flushing(s) == \E t \in Thread : pc[t] \in {"flush", "bulk"} /\ BatchOf(t) = s
           Scheduled(s) == buffer[s] # <<>> => armed[s] \/ failed[s] \/ Flushing(s)
           Full(s) == /\ Len(buffer[s]) <= BatchSize
                      /\ Len(buffer[s]) = BatchSize <=> Stuck(s)
<1>f. FlushIsScheduled <=> \A s \in Service : Scheduled(s)
  BY DEF FlushIsScheduled
<1>t. \A p \in Partition : p \in Thread
  BY DEF Thread
<1>l. \A s \in Service : Len(buffer[s]) \in Nat /\ buffer[s] \in Seq(Doc)
  BY LenProperties DEF TypeOK
\* The batches that a step does not touch.
<1>u. ASSUME NEW s \in Service,
             buffer'[s] = buffer[s], holder'[s] = holder[s],
             armed'[s] = armed[s], failed'[s] = failed[s],
             \A t \in Thread : BatchOf(t) = s /\ pc[t] \in {"flush", "bulk"} =>
                                 pc'[t] = pc[t] /\ BatchOf(t)' = s,
             \A p \in Partition : holder[s] = p =>
                                    (pc'[p] = "flush" <=> pc[p] = "flush")
      PROVE  Scheduled(s)' /\ Full(s)'
  <2>1. Flushing(s) => Flushing(s)'
    BY <1>u
  <2>2. Stuck(s)' <=> Stuck(s)
    BY <1>u DEF Stuck
  <2>3. Scheduled(s) /\ Full(s)
    BY <1>f DEF FullExactlyWhenStuck
  <2> QED BY <1>u, <2>1, <2>2, <2>3
<1>1. ASSUME NEW p \in Partition, AddDocument(p), NEW s \in Service
      PROVE  Scheduled(s)' /\ Full(s)'
  <2>1. /\ topic' = topic /\ fetched' = fetched /\ pc[p] = "add" /\ holder[Current(p)] = Free
        /\ Current(p) \in Service
        /\ \A t \in Thread \ {p} : pc'[t] = pc[t]
        /\ \A t \in Thread : BatchOf(t)' = BatchOf(t)
    BY <1>1 DEF AddDocument, GoTo, kafka, claims, TypeOK, Positions, BatchOf, Current
  <2>2. CASE s # Current(p)
    <3>1. /\ buffer'[s] = buffer[s] /\ holder'[s] = holder[s]
          /\ armed'[s] = armed[s] /\ failed'[s] = failed[s]
      BY <1>1, <2>1, <2>2 DEF AddDocument, TypeOK
    <3>2. holder[s] # p
      BY <2>1, <1>t DEF Locking
    <3> QED BY <1>u, <1>t, <2>1, <3>1, <3>2
  <2>3. CASE s = Current(p)
    <3>1. ~Stuck(s) /\ Len(buffer[s]) < BatchSize
      <4>1. ~Stuck(s)
        BY <2>1, <2>3, <1>t DEF Stuck
      <4> QED BY <4>1, <1>l DEF FullExactlyWhenStuck
    <3>2. /\ armed'[s] = TRUE
          /\ holder'[s] = IF Len(buffer[s]) + 1 >= BatchSize THEN p ELSE Free
          /\ pc'[p] = IF Len(buffer[s]) + 1 >= BatchSize THEN "flush" ELSE "mark"
      BY <1>1, <1>t, <2>1, <2>3 DEF AddDocument, GoTo, TypeOK
    <3>3. Len(buffer'[s]) = Len(buffer[s]) + 1
      <4>1. DocOf(p) \in Doc
        <5>1. /\ marked[p] \in Nat /\ fetched[p] \in Nat /\ Len(topic[p]) \in Nat
              /\ marked[p] < fetched[p] /\ fetched[p] <= Len(topic[p]) /\ Len(topic[p]) <= MaxOffset
          BY <2>1, LenProperties DEF Positions, TypeOK
        <5> QED BY <5>1 DEF DocOf, Doc
      <4>2. buffer'[s] = Append(buffer[s], DocOf(p))
        BY <1>1, <2>1, <2>3 DEF AddDocument, TypeOK
      <4> QED BY <4>1, <4>2, <1>l, RangeAppend
    <3>4. Stuck(s)' <=> Len(buffer[s]) + 1 >= BatchSize
      <4>1. CASE Len(buffer[s]) + 1 >= BatchSize
        BY <3>2, <4>1 DEF Stuck
      <4>2. CASE ~(Len(buffer[s]) + 1 >= BatchSize)
        BY <1>t, <3>2, <4>2 DEF Stuck
      <4> QED BY <4>1, <4>2
    <3> QED BY <1>l, <3>1, <3>2, <3>3, <3>4
  <2> QED BY <2>2, <2>3
<1>2. ASSUME NEW c \in Callback, TimerFires(c), NEW s \in Service
      PROVE  Scheduled(s)' /\ Full(s)'
  <2>1. /\ c \in Thread /\ c \notin Partition /\ c[1] \in Service /\ BatchOf(c) = c[1]
    BY CallbackBatch
  <2>2. /\ pc[c] = "idle" /\ pc' = [pc EXCEPT ![c] = "flush"]
        /\ armed' = [armed EXCEPT ![c[1]] = FALSE]
        /\ buffer' = buffer /\ holder' = holder /\ failed' = failed
        /\ topic' = topic /\ fetched' = fetched
    BY <1>2 DEF TimerFires, GoTo, kafka, claims, history
  <2>3. \A t \in Thread : /\ pc'[t] = IF t = c THEN "flush" ELSE pc[t]
                          /\ BatchOf(t)' = BatchOf(t)
    BY <2>1, <2>2 DEF BatchOf, Current, TypeOK
  <2>4. CASE s # c[1]
    BY <1>u, <1>t, <2>1, <2>2, <2>3, <2>4 DEF TypeOK
  <2>5. CASE s = c[1]
    <3>1. Scheduled(s)'
      BY <2>1, <2>3, <2>5
    <3>2. Stuck(s)' <=> Stuck(s)
      BY <1>t, <2>1, <2>2, <2>3 DEF Stuck
    <3> QED BY <2>2, <3>1, <3>2 DEF FullExactlyWhenStuck
  <2> QED BY <2>4, <2>5
<1>3. ASSUME NEW t \in Thread, FlushBatch(t) \/ BulkAnswered(t) \/ BulkFails(t), NEW s \in Service
      PROVE  Scheduled(s)' /\ Full(s)'
  <2>1. t \notin Partition /\ t[1] \in Service /\ BatchOf(t) = t[1]
    <3>1. t \notin Partition
      BY <1>3 DEF FlushBatch, BulkAnswered, BulkFails, Locking, BatchOf
    <3> QED BY <3>1, CallbackBatch DEF Thread
  <2>2. /\ \A u \in Thread \ {t} : pc'[u] = pc[u]
        /\ \A u \in Thread : BatchOf(u)' = BatchOf(u)
        /\ armed' = armed
    BY <1>3
    DEF FlushBatch, BulkAnswered, BulkFails, GoTo, kafka, claims, TypeOK, BatchOf, Current
  <2>3. CASE s # t[1]
    <3>1. buffer'[s] = buffer[s] /\ holder'[s] = holder[s] /\ failed'[s] = failed[s]
      BY <1>3, <2>1, <2>3 DEF FlushBatch, BulkAnswered, BulkFails, history, TypeOK
    <3> QED BY <1>u, <1>t, <2>1, <2>2, <2>3, <3>1
  <2>4. CASE s = t[1] /\ FlushBatch(t)
    <3>1. /\ buffer' = buffer /\ failed' = failed /\ holder[s] = Free
          /\ holder'[s] \in {Free, t}
          /\ buffer[s] # <<>> => pc'[t] = "bulk"
      BY <2>1, <2>4, <1>3 DEF FlushBatch, GoTo, history, TypeOK
    <3>2. ~Stuck(s) /\ ~Stuck(s)'
      BY <1>t, <2>1, <3>1 DEF Stuck
    <3>3. buffer'[s] # <<>> => Flushing(s)'
      BY <2>1, <2>2, <2>4, <3>1
    <3> QED BY <3>1, <3>2, <3>3 DEF FullExactlyWhenStuck
  <2>5. CASE s = t[1] /\ BulkAnswered(t)
    <3>1. buffer'[s] = <<>> /\ holder'[s] = Free
      BY <2>1, <2>5 DEF BulkAnswered, TypeOK
    <3>2. ~Stuck(s)'
      BY <1>t, <3>1 DEF Stuck
    <3> QED BY <3>1, <3>2, EmptySeq
  <2>6. CASE s = t[1] /\ BulkFails(t)
    <3>1. buffer' = buffer /\ holder'[s] = Free /\ failed'[s] = TRUE /\ holder[s] = t
      BY <2>1, <2>6 DEF BulkFails, TypeOK, Locking
    <3>2. ~Stuck(s) /\ ~Stuck(s)'
      BY <1>t, <2>1, <3>1 DEF Stuck
    <3> QED BY <3>1, <3>2 DEF FullExactlyWhenStuck
  <2> QED BY <1>3, <2>3, <2>4, <2>5, <2>6
<1>4. CASE Restart
  <2> SUFFICES ASSUME NEW s \in Service PROVE Scheduled(s)' /\ Full(s)'
    BY <1>f DEF FlushIsScheduled, FullExactlyWhenStuck
  <2>1. buffer'[s] = <<>> /\ holder'[s] = Free
    BY <1>4 DEF Restart, FreshBatches
  <2>2. ~Stuck(s)'
    BY <1>t, <2>1 DEF Stuck
  <2> QED BY <2>1, <2>2, EmptySeq
\* The other steps touch no batch, and no goroutine that flushes one.
<1>5. CASE \/ \E p \in Partition, m \in Message : Produce(p, m)
           \/ \E p \in Partition : ConsumeClaim(p) \/ MarkMessage(p) \/ LeaveClaim(p)
           \/ AutoCommit \/ EndSession \/ NextSession \/ ConsumerStops \/ ConsumerStarts
           \/ UNCHANGED vars
  <2> SUFFICES ASSUME NEW s \in Service PROVE Scheduled(s)' /\ Full(s)'
    BY <1>f DEF FlushIsScheduled, FullExactlyWhenStuck
  <2>1. buffer' = buffer /\ holder' = holder /\ armed' = armed /\ failed' = failed
    BY <1>5
    DEF Produce, ConsumeClaim, MarkMessage, LeaveClaim, AutoCommit, EndSession, NextSession,
        ConsumerStops, SessionOver, ConsumerStarts, vars, batches, history
  <2>2. \A t \in Thread : pc[t] \in {"flush", "bulk"} => pc'[t] = pc[t]
    BY <1>5
    DEF Produce, ConsumeClaim, MarkMessage, LeaveClaim, AutoCommit, EndSession, NextSession,
        ConsumerStops, SessionOver, ConsumerStarts, vars, GoTo, TypeOK
  <2>3. \A p \in Partition : pc[p] # "flush" => pc'[p] # "flush"
    BY <1>5, <1>t
    DEF Produce, ConsumeClaim, MarkMessage, LeaveClaim, AutoCommit, EndSession, NextSession,
        ConsumerStops, SessionOver, ConsumerStarts, vars, GoTo, TypeOK
  <2>4. \A t \in Thread : pc[t] \in {"flush", "bulk"} => BatchOf(t)' = BatchOf(t)
    <3> SUFFICES ASSUME NEW p \in Partition, pc[p] \in {"flush", "bulk"}
                 PROVE  topic'[p][fetched'[p]] = topic[p][fetched[p]]
      BY DEF BatchOf, Current
    <3>1. /\ fetched[p] \in Nat /\ marked[p] \in Nat /\ Len(topic[p]) \in Nat
          /\ marked[p] < fetched[p] /\ fetched[p] <= Len(topic[p])
      BY <1>t, LenProperties DEF TypeOK, Positions
    <3>2. fetched'[p] = fetched[p]
      BY <1>5
      DEF Produce, ConsumeClaim, MarkMessage, LeaveClaim, AutoCommit, EndSession, NextSession,
          ConsumerStops, SessionOver, ConsumerStarts, vars, claims, TypeOK, Positions
    <3>3. \A q \in Partition, m \in Message : \A i \in 1 .. Len(topic[q]) :
            Append(topic[q], m)[i] = topic[q][i]
      BY RangeAppend DEF TypeOK
    <3>4. topic'[p][fetched[p]] = topic[p][fetched[p]]
      <4>1. CASE topic' = topic
        BY <4>1
      <4>2. ASSUME NEW q \in Partition, NEW m \in Message, Produce(q, m)
            PROVE  topic'[p][fetched[p]] = topic[p][fetched[p]]
        BY <3>1, <3>3, <4>2 DEF Produce, TypeOK
      <4> QED BY <1>5, <4>1, <4>2
              DEF ConsumeClaim, MarkMessage, LeaveClaim, AutoCommit, EndSession, NextSession,
                  ConsumerStops, SessionOver, ConsumerStarts, vars, kafka
    <3> QED BY <3>2, <3>4
  <2>5. \A p \in Partition : pc'[p] = "flush" <=> pc[p] = "flush"
    BY <1>t, <2>2, <2>3
  <2>6. \A t \in Thread : BatchOf(t) = s /\ pc[t] \in {"flush", "bulk"} =>
                            pc'[t] = pc[t] /\ BatchOf(t)' = s
    BY <2>2, <2>4
  <2> QED BY <1>u, <2>1, <2>5, <2>6
<1>6. (\A s \in Service : Scheduled(s)' /\ Full(s)') =>
        FlushIsScheduled' /\ FullExactlyWhenStuck'
  BY DEF FlushIsScheduled, FullExactlyWhenStuck
<1> QED BY <1>1, <1>2, <1>3, <1>4, <1>5, <1>6 DEF Next

-----------------------------------------------------------------------------
(* The inductive invariant *)

\* The inductive invariant holds when the consumer starts ...
LEMMA InitIInv == Init => IInv
<1> SUFFICES ASSUME Init PROVE IInv
  OBVIOUS
<1>1. FetchedIsKept
  BY DEF Init, FetchedIsKept
<1>2. FlushIsScheduled
  BY DEF Init, FlushIsScheduled
<1>3. FullExactlyWhenStuck
  <2>1. \A s \in Service : Len(buffer[s]) = 0 /\ holder[s] = Free
    BY EmptySeq DEF Init
  <2>2. \A s \in Service : ~Stuck(s)
    BY <2>1, ConstantsAssumption DEF Stuck, Thread
  <2> QED BY <2>1, <2>2, ConstantsAssumption DEF FullExactlyWhenStuck
<1> QED BY <1>1, <1>2, <1>3, InitPositions, InitLocking DEF IInv

\* ... and every step keeps it ...
LEMMA NextIInv == IInv /\ [Next]_vars => IInv'
BY NextPositions, NextLocking, NextFetched, NextBatches DEF IInv

\* ... so that it holds in every state of the consumer.
THEOREM Invariance == Spec => []IInv
BY InitIInv, NextIInv, PTL DEF Spec

(***************************************************************************)
(* No committed log is forgotten without a mishap.                         *)
(***************************************************************************)
THEOREM CommittedLogsAreKept == Spec => []CommittedIsKept
<1>1. IInv => CommittedIsKept
  <2> SUFFICES ASSUME IInv, NEW p \in Partition, NEW k \in 1 .. committed[p],
                      topic[p][k] # Unusable
               PROVE  <<p, k>> \in index \cup AllBuffered \cup mishap
    BY DEF CommittedIsKept
  <2>1. /\ committed[p] \in Nat /\ marked[p] \in Nat /\ fetched[p] \in Nat
        /\ committed[p] <= marked[p]
        /\ IF pc[p] = "idle" THEN marked[p] = fetched[p] ELSE marked[p] < fetched[p]
    BY DEF IInv, TypeOK, Positions
  <2>2. k \in 1 .. fetched[p] /\ ~(k = fetched[p] /\ pc[p] = "add")
    BY <2>1
  <2> QED BY <2>2 DEF IInv, FetchedIsKept
<1> QED BY <1>1, Invariance, PTL

(***************************************************************************)
(* A batch with documents has a flush to come, unless its last one failed. *)
(***************************************************************************)
THEOREM FlushesAreScheduled == Spec => []FlushIsScheduled
<1>1. IInv => FlushIsScheduled
  BY DEF IInv
<1> QED BY <1>1, Invariance, PTL

(***************************************************************************)
(* No batch exceeds its size, and a full one is stuck.                     *)
(***************************************************************************)
THEOREM FullBatchesAreStuck == Spec => []FullExactlyWhenStuck
<1>1. IInv => FullExactlyWhenStuck
  BY DEF IInv
<1> QED BY <1>1, Invariance, PTL
=============================================================================
