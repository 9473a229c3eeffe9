---------------------- MODULE LogConsumerLedger_proofs ----------------------
(***************************************************************************)
(* Proof that LogConsumer implements IngestLedger, for every set of        *)
(* partitions and services, every batch size and every bound.              *)
(***************************************************************************)
EXTENDS LogConsumer_proofs

\* Names for single expressions are expanded everywhere.
USE DEF CanLock, Unlock, ResetTimer, Fills, Payload

(***************************************************************************)
(* What is in a batch was produced, and names a service: an unusable       *)
(* message never gets there.                                               *)
(***************************************************************************)
OnlyUsable ==
  \A s \in Service : \A d \in Buffered(s) :
    d[2] \in 1 .. Len(topic[d[1]]) /\ topic[d[1]][d[2]] \in Service

(***************************************************************************)
(* A bulk request carries documents of its batch only.                     *)
(***************************************************************************)
Carried == \A s \in Service : body[s] \subseteq Buffered(s)

LInv == IInv /\ OnlyUsable /\ Carried

-----------------------------------------------------------------------------
(* The extra invariants *)

\* What addDocument changes: the document in hand, not behind the commit, joins
\* the batch of its service.
LEMMA Adds ==
  ASSUME TypeOK, Positions, NEW p \in Partition, AddDocument(p)
  PROVE  /\ DocOf(p) \in Doc
         /\ fetched[p] \in 1 .. Len(topic[p])
         /\ committed[p] < fetched[p]
         /\ Current(p) \in Service
         /\ \A s \in Service :
              Buffered(s)' = Buffered(s) \cup (IF s = Current(p) THEN {DocOf(p)} ELSE {})
         /\ AllBuffered' = AllBuffered \cup {DocOf(p)}
         /\ UNCHANGED <<topic, committed, index, mishap, body>>
<1>1. /\ marked[p] \in Nat /\ fetched[p] \in Nat /\ Len(topic[p]) \in Nat /\ committed[p] \in Nat
      /\ MaxOffset \in Nat
      /\ committed[p] <= marked[p] /\ marked[p] < fetched[p]
      /\ fetched[p] <= Len(topic[p]) /\ Len(topic[p]) <= MaxOffset
      /\ Current(p) \in Service
  BY LenProperties, ConstantsAssumption DEF AddDocument, Positions, TypeOK
<1>2. DocOf(p) \in Doc /\ fetched[p] \in 1 .. Len(topic[p]) /\ committed[p] < fetched[p]
  BY <1>1 DEF DocOf, Doc
<1>3. UNCHANGED <<topic, committed, index, mishap, body>>
  BY DEF AddDocument, kafka
<1>4. \A s \in Service : buffer[s] \in Seq(Doc) /\
        buffer'[s] = IF s = Current(p) THEN Append(buffer[s], DocOf(p)) ELSE buffer[s]
  BY <1>1 DEF AddDocument, TypeOK
<1>5. \A s \in Service :
        Buffered(s)' = Buffered(s) \cup (IF s = Current(p) THEN {DocOf(p)} ELSE {})
  BY <1>2, <1>4, RangeAppend DEF Buffered
<1>6. AllBuffered' = AllBuffered \cup {DocOf(p)}
  BY <1>1, <1>5 DEF AllBuffered
<1> QED BY <1>1, <1>2, <1>3, <1>5, <1>6

\* The gateway only adds to the end of a partition.
LEMMA ProduceKeeps ==
  ASSUME TypeOK, NEW p \in Partition, NEW m \in Message, Produce(p, m),
         NEW q \in Partition, NEW k \in 1 .. Len(topic[q])
  PROVE  k \in 1 .. Len(topic'[q]) /\ topic'[q][k] = topic[q][k]
<1>1. /\ topic[q] \in Seq(Message) /\ Len(topic[q]) \in Nat
      /\ topic'[q] = IF q = p THEN Append(topic[q], m) ELSE topic[q]
  BY LenProperties DEF TypeOK, Produce
<1>2. /\ Len(Append(topic[q], m)) = Len(topic[q]) + 1
      /\ \A i \in 1 .. Len(topic[q]) : Append(topic[q], m)[i] = topic[q][i]
  BY <1>1, RangeAppend
<1> QED BY <1>1, <1>2

\* Every step puts usable messages only in batches, and in requests only what
\* is in their batches.
LEMMA NextBuffered ==
  TypeOK /\ Positions /\ Locking /\ OnlyUsable /\ Carried /\ [Next]_vars
    => OnlyUsable' /\ Carried'
<1> SUFFICES ASSUME TypeOK, Positions, Locking, OnlyUsable, Carried, [Next]_vars
             PROVE  OnlyUsable' /\ Carried'
  OBVIOUS
<1>d. \A s \in Service : \A d \in Buffered(s) :
        d[1] \in Partition /\ d[2] \in 1 .. Len(topic[d[1]]) /\ topic[d[1]][d[2]] \in Service
  BY BufferedDocs DEF OnlyUsable, Doc
\* A step that puts nothing into a batch, and no more into a request.
<1>s. ASSUME topic' = topic,
             \A s \in Service : Buffered(s)' \subseteq Buffered(s) /\ body'[s] \subseteq Buffered(s)'
      PROVE  OnlyUsable' /\ Carried'
  BY <1>s DEF OnlyUsable, Carried
<1>1. ASSUME NEW p \in Partition, NEW m \in Message, Produce(p, m)
      PROVE  OnlyUsable' /\ Carried'
  <2>1. body' = body /\ \A s \in Service : Buffered(s)' = Buffered(s)
    BY <1>1 DEF Produce, batches, Buffered
  <2>2. \A s \in Service : \A d \in Buffered(s) :
          d[2] \in 1 .. Len(topic'[d[1]]) /\ topic'[d[1]][d[2]] = topic[d[1]][d[2]]
    BY <1>1, <1>d, ProduceKeeps
  <2> QED BY <2>1, <2>2 DEF OnlyUsable, Carried
<1>2. ASSUME NEW p \in Partition, AddDocument(p)
      PROVE  OnlyUsable' /\ Carried'
  <2>1. /\ fetched[p] \in 1 .. Len(topic[p]) /\ Current(p) \in Service
        /\ \A s \in Service :
             Buffered(s)' = Buffered(s) \cup (IF s = Current(p) THEN {DocOf(p)} ELSE {})
        /\ topic' = topic /\ body' = body
    BY <1>2, Adds
  <2>2. DocOf(p)[1] = p /\ DocOf(p)[2] = fetched[p] /\ topic[p][fetched[p]] \in Service
    BY <2>1 DEF DocOf, Current
  <2> QED BY <2>1, <2>2 DEF OnlyUsable, Carried
<1>3. ASSUME NEW t \in Thread, FlushBatch(t) \/ BulkAnswered(t) \/ BulkFails(t)
      PROVE  OnlyUsable' /\ Carried'
  <2>1. BatchOf(t) \in Service
    BY <1>3, FlushesService DEF FlushBatch, BulkAnswered, BulkFails
  <2>2. topic' = topic
    BY <1>3 DEF FlushBatch, BulkAnswered, BulkFails, kafka
  <2>3. \A s \in Service :
          \/ buffer'[s] = buffer[s] /\ body'[s] \in {body[s], Buffered(s), {}}
          \/ buffer'[s] = <<>> /\ body'[s] = {}
    BY <1>3, <2>1 DEF FlushBatch, BulkAnswered, BulkFails, TypeOK
  <2>4. \A s \in Service : Buffered(s)' \subseteq Buffered(s) /\ body'[s] \subseteq Buffered(s)'
    BY <2>3, RangeEmpty DEF Buffered, Carried
  <2> QED BY <1>s, <2>2, <2>4
<1>4. CASE Restart
  <2>1. topic' = topic /\ \A s \in Service : buffer'[s] = <<>> /\ body'[s] = {}
    BY <1>4 DEF Restart, FreshBatches, kafka
  <2> QED BY <1>s, <2>1, RangeEmpty DEF Buffered
<1>5. CASE \/ \E p \in Partition : ConsumeClaim(p) \/ MarkMessage(p) \/ LeaveClaim(p)
           \/ \E c \in Callback : TimerFires(c)
           \/ AutoCommit \/ EndSession \/ NextSession \/ ConsumerStops \/ ConsumerStarts
           \/ UNCHANGED vars
  <2>1. topic' = topic /\ buffer' = buffer /\ body' = body
    BY <1>5
    DEF ConsumeClaim, MarkMessage, LeaveClaim, TimerFires, AutoCommit, EndSession,
        NextSession, ConsumerStops, SessionOver, ConsumerStarts, vars, kafka, batches
  <2> QED BY <1>s, <2>1 DEF Buffered, Carried
<1> QED BY <1>1, <1>2, <1>3, <1>4, <1>5 DEF Next

\* The stronger invariant holds in every state.
LEMMA LedgerInvariance == Spec => []LInv
<1>1. Init => LInv
  <2>1. Init => OnlyUsable /\ Carried
    BY RangeEmpty DEF Init, OnlyUsable, Carried, Buffered
  <2> QED BY <2>1, InitIInv DEF LInv
<1>2. LInv /\ [Next]_vars => LInv'
  BY NextIInv, NextBuffered DEF LInv, IInv
<1> QED BY <1>1, <1>2, PTL DEF Spec

-----------------------------------------------------------------------------
(* The refinement *)

\* The fate of a document, case by case ...
LEMMA Fates ==
  ASSUME NEW d \in Doc
  PROVE  /\ d \in index => FateOf(d) = "stored"
         /\ d \in AllBuffered \ index => FateOf(d) = "held"
         /\ d \notin index \cup AllBuffered /\ d[2] > committed[d[1]] => FateOf(d) = "waiting"
         /\ d \notin index \cup AllBuffered /\ ~(d[2] > committed[d[1]]) =>
              FateOf(d) = IF topic[d[1]][d[2]] = Unusable THEN "skipped" ELSE "lost"
<1>1. d \in index => FateOf(d) = "stored"
  BY Zenon DEF FateOf
<1>2. d \in AllBuffered \ index => FateOf(d) = "held"
  BY Zenon DEF FateOf
<1>3. d \notin index \cup AllBuffered /\ d[2] > committed[d[1]] => FateOf(d) = "waiting"
  BY Zenon DEF FateOf
<1>4. d \notin index \cup AllBuffered /\ ~(d[2] > committed[d[1]]) =>
              FateOf(d) = IF topic[d[1]][d[2]] = Unusable THEN "skipped" ELSE "lost"
  BY Zenon DEF FateOf
<1> QED BY <1>1, <1>2, <1>3, <1>4

\* ... and after a step.
LEMMA FatesAfter ==
  ASSUME NEW d \in Doc
  PROVE  /\ d \in index' => FateOf(d)' = "stored"
         /\ d \in AllBuffered' \ index' => FateOf(d)' = "held"
         /\ d \notin index' \cup AllBuffered' /\ d[2] > committed'[d[1]] => FateOf(d)' = "waiting"
         /\ d \notin index' \cup AllBuffered' /\ ~(d[2] > committed'[d[1]]) =>
              FateOf(d)' = IF topic'[d[1]][d[2]] = Unusable THEN "skipped" ELSE "lost"
<1>1. d \in index' => FateOf(d)' = "stored"
  BY Zenon DEF FateOf
<1>2. d \in AllBuffered' \ index' => FateOf(d)' = "held"
  BY Zenon DEF FateOf
<1>3. d \notin index' \cup AllBuffered' /\ d[2] > committed'[d[1]] => FateOf(d)' = "waiting"
  BY Zenon DEF FateOf
<1>4. d \notin index' \cup AllBuffered' /\ ~(d[2] > committed'[d[1]]) =>
              FateOf(d)' = IF topic'[d[1]][d[2]] = Unusable THEN "skipped" ELSE "lost"
  BY Zenon DEF FateOf
<1> QED BY <1>1, <1>2, <1>3, <1>4

\* The consumer starts where the ledger does.
LEMMA InitLedger == Init => Ledger!Init
<1> SUFFICES ASSUME Init PROVE Ledger!Init
  OBVIOUS
<1>1. ASSUME NEW d \in Doc PROVE FateOf(d) = "waiting"
  <2>1. d[1] \in Partition /\ d[2] \in 1 .. MaxOffset
    BY DEF Doc
  <2>2. d \notin index \cup AllBuffered /\ d[2] > committed[d[1]]
    BY <2>1, RangeEmpty, ConstantsAssumption DEF Init, AllBuffered, Buffered
  <2> QED BY <2>2, Fates
<1>2. mishap = {}
  BY DEF Init
<1> QED BY <1>1, <1>2 DEF Ledger!Init

\* Every step of the consumer is a step of the ledger, or changes no fate.
LEMMA NextLedger ==
  LInv /\ LInv' /\ [Next]_vars => [Ledger!Next]_(Ledger!vars)
<1> SUFFICES ASSUME LInv, LInv', [Next]_vars PROVE [Ledger!Next]_(Ledger!vars)
  OBVIOUS
<1>i. /\ TypeOK /\ Positions /\ Locking /\ FetchedIsKept /\ OnlyUsable /\ Carried
      /\ TypeOK' /\ Positions' /\ FetchedIsKept'
  BY DEF LInv, IInv
<1>h. mishap \subseteq Doc /\ mishap' \subseteq Doc
  BY <1>i DEF TypeOK
<1>f. \A d \in Doc : FateOf(d) \in Ledger!Fate /\ FateOf(d)' \in Ledger!Fate
  BY Fates, FatesAfter DEF Ledger!Fate
<1>d. \A d \in Doc : d[1] \in Partition /\ d[2] \in 1 .. MaxOffset /\ d = <<d[1], d[2]>>
  BY DEF Doc
\* What the fates of the documents say of the ledger.
<1>l. ASSUME mishap \subseteq mishap',
             \A d \in Doc :
               \/ FateOf(d)' = FateOf(d)
               \/ FateOf(d) = "held" /\ FateOf(d)' = "stored"
               \/ d \in mishap' /\ FateOf(d) = "held" /\ FateOf(d)' \in {"waiting", "lost"}
      PROVE  Ledger!Next
  <2>1. Ledger!Leave
    BY <1>l, <1>h, <1>f DEF Ledger!Leave, Ledger!Moves
  <2> QED BY <2>1 DEF Ledger!Next
<1>s. ASSUME mishap' = mishap,
             \A d \in Doc :
               \/ FateOf(d)' = FateOf(d)
               \/ FateOf(d) = "waiting" /\ FateOf(d)' = "skipped"
               \/ d \in mishap /\ FateOf(d) = "waiting" /\ FateOf(d)' = "lost"
      PROVE  Ledger!Next
  <2>1. Ledger!Settle
    BY <1>s, <1>f DEF Ledger!Settle, Ledger!Moves
  <2> QED BY <2>1 DEF Ledger!Next
<1>1. ASSUME NEW p \in Partition, NEW m \in Message, Produce(p, m)
      PROVE  Ledger!Next
  <2>1. UNCHANGED <<committed, index, mishap>> /\ AllBuffered' = AllBuffered
    BY <1>1 DEF Produce, batches, history, AllBuffered, Buffered
  <2>2. ASSUME NEW d \in Doc, ~(d[2] > committed[d[1]])
        PROVE  topic'[d[1]][d[2]] = topic[d[1]][d[2]]
    <3>1. /\ committed[d[1]] \in Nat /\ marked[d[1]] \in Nat /\ fetched[d[1]] \in Nat
          /\ Len(topic[d[1]]) \in Nat
          /\ committed[d[1]] <= marked[d[1]] /\ marked[d[1]] <= fetched[d[1]]
          /\ fetched[d[1]] <= Len(topic[d[1]])
      <4>1. ASSUME NEW q \in Partition
            PROVE  /\ committed[q] \in Nat /\ marked[q] \in Nat /\ fetched[q] \in Nat
                   /\ Len(topic[q]) \in Nat
                   /\ committed[q] <= marked[q] /\ marked[q] <= fetched[q]
                   /\ fetched[q] <= Len(topic[q])
        <5>1. /\ committed[q] \in Nat /\ marked[q] \in Nat /\ fetched[q] \in Nat
              /\ Len(topic[q]) \in Nat
          BY <1>i, LenProperties DEF TypeOK
        <5> QED BY <1>i, <5>1 DEF Positions
      <4> QED BY <1>d, <4>1
    <3>2. d[2] \in 1 .. Len(topic[d[1]])
      BY <1>d, <2>2, <3>1
    <3> QED BY <1>1, <1>i, <1>d, <3>2, ProduceKeeps
  <2>3. \A d \in Doc : FateOf(d)' = FateOf(d)
    BY <2>1, <2>2, Fates, FatesAfter
  <2> QED BY <1>s, <2>1, <2>3
<1>2. ASSUME NEW p \in Partition, AddDocument(p)
      PROVE  [Ledger!Next]_(Ledger!vars)
  <2>0. PICK e \in Doc : e = DocOf(p)
    BY <1>i, <1>2, Adds
  <2>1. /\ committed[p] < fetched[p] /\ AllBuffered' = AllBuffered \cup {e}
        /\ UNCHANGED <<topic, committed, index, mishap>>
    BY <1>i, <1>2, <2>0, Adds
  <2>2. \A d \in Doc : d # e => FateOf(d)' = FateOf(d)
    <3> SUFFICES ASSUME NEW d \in Doc, d # e PROVE FateOf(d)' = FateOf(d)
      OBVIOUS
    <3>1. CASE d \in index \cup AllBuffered
      BY <2>1, <3>1, Fates, FatesAfter
    <3>2. CASE d \notin index \cup AllBuffered
      BY <2>1, <3>2, Fates, FatesAfter
    <3> QED BY <3>1, <3>2
  <2>3. CASE e \in index \cup AllBuffered
    <3>1. FateOf(e)' = FateOf(e)
      BY <2>1, <2>3, Fates, FatesAfter
    <3> QED BY <1>s, <2>1, <2>2, <3>1
  <2>4. CASE e \notin index \cup AllBuffered
    <3>1. e[2] > committed[e[1]]
      <4>1. committed[p] \in Nat /\ fetched[p] \in Nat
        BY <1>i DEF TypeOK
      <4> QED BY <2>0, <2>1, <4>1 DEF DocOf
    <3>2. FateOf(e) = "waiting"
      BY <2>1, <2>4, <3>1, Fates
    <3>3. FateOf(e)' = "held"
      BY <2>1, <2>4, FatesAfter
    <3>4. Ledger!Accept(e)
      BY <2>1, <2>2, <3>2, <3>3 DEF Ledger!Accept
    <3> QED BY <2>1, <3>4 DEF Ledger!Next
  <2> QED BY <2>3, <2>4
<1>3. ASSUME NEW t \in Thread, BulkAnswered(t)
      PROVE  Ledger!Next
  <2>1. /\ body[BatchOf(t)] = Buffered(BatchOf(t)) /\ BatchOf(t) \in Service
        /\ topic' = topic /\ committed' = committed
    BY <1>i, <1>3, FlushesService DEF BulkAnswered, Locking, kafka
  <2>2. PICK S \in SUBSET Buffered(BatchOf(t)) :
          index' = index \cup S /\ mishap' = mishap \cup (Buffered(BatchOf(t)) \ S)
    BY <1>3, <2>1 DEF BulkAnswered
  <2>3. \A s \in Service : Buffered(s)' = IF s = BatchOf(t) THEN {} ELSE Buffered(s)
    BY <1>3, <1>i, <2>1, RangeEmpty DEF BulkAnswered, TypeOK, Buffered
  <2>4. AllBuffered' \subseteq AllBuffered /\ AllBuffered \ Buffered(BatchOf(t)) \subseteq AllBuffered'
    BY <2>3 DEF AllBuffered
  <2>5. Buffered(BatchOf(t)) \subseteq AllBuffered
    BY <2>1 DEF AllBuffered
  <2>6. \A d \in Buffered(BatchOf(t)) : topic[d[1]][d[2]] # Unusable
    BY <1>i, <2>1, ConstantsAssumption DEF OnlyUsable
  <2>7. ASSUME NEW d \in Doc
        PROVE  \/ FateOf(d)' = FateOf(d)
               \/ FateOf(d) = "held" /\ FateOf(d)' = "stored"
               \/ d \in mishap' /\ FateOf(d) = "held" /\ FateOf(d)' \in {"waiting", "lost"}
    <3>1. CASE d \in index \/ d \notin Buffered(BatchOf(t))
      BY <2>1, <2>2, <2>4, <3>1, Fates, FatesAfter
    <3>2. CASE d \in S \ index
      BY <2>2, <2>5, <3>2, Fates, FatesAfter
    <3>3. CASE d \in Buffered(BatchOf(t)) \ (S \cup index)
      <4>1. FateOf(d) = "held" /\ d \in mishap' /\ d \notin index'
        BY <2>2, <2>5, <3>3, Fates
      <4>2. FateOf(d)' \in {"held", "waiting", "lost"}
        BY <2>1, <2>6, <3>3, <4>1, FatesAfter
      <4> QED BY <4>1, <4>2
    <3> QED BY <3>1, <3>2, <3>3
  <2> QED BY <1>l, <2>2, <2>7
<1>4. ASSUME NEW t \in Thread, BulkFails(t)
      PROVE  Ledger!Next
  <2>1. /\ body[BatchOf(t)] = Buffered(BatchOf(t)) /\ BatchOf(t) \in Service
        /\ UNCHANGED <<topic, committed, mishap>> /\ AllBuffered' = AllBuffered
    BY <1>i, <1>4, FlushesService DEF BulkFails, Locking, kafka, AllBuffered, Buffered
  <2>2. PICK S \in SUBSET Buffered(BatchOf(t)) : index' = index \cup S
    BY <1>4, <2>1 DEF BulkFails
  <2>3. S \subseteq AllBuffered
    BY <2>1 DEF AllBuffered
  <2>4. ASSUME NEW d \in Doc
        PROVE  FateOf(d)' = FateOf(d) \/ (FateOf(d) = "held" /\ FateOf(d)' = "stored")
    <3>1. CASE d \in S \ index
      BY <2>2, <2>3, <3>1, Fates, FatesAfter
    <3>2. CASE d \notin S \ index
      BY <2>1, <2>2, <3>2, Fates, FatesAfter
    <3> QED BY <3>1, <3>2
  <2> QED BY <1>l, <2>1, <2>4
<1>5. CASE Restart
  <2>1. /\ topic' = topic /\ committed' = committed /\ mishap' = mishap \cup AllBuffered
        /\ AllBuffered' = {}
    BY <1>5, RangeEmpty DEF Restart, FreshBatches, kafka, AllBuffered, Buffered
  <2>2. PICK S \in SUBSET InFlight : index' = index \cup S
    BY <1>5 DEF Restart
  <2>3. S \subseteq AllBuffered
    BY <1>i DEF Carried, InFlight, AllBuffered
  <2>4. \A d \in AllBuffered : topic[d[1]][d[2]] # Unusable
    BY <1>i, ConstantsAssumption DEF OnlyUsable, AllBuffered
  <2>5. ASSUME NEW d \in Doc
        PROVE  \/ FateOf(d)' = FateOf(d)
               \/ FateOf(d) = "held" /\ FateOf(d)' = "stored"
               \/ d \in mishap' /\ FateOf(d) = "held" /\ FateOf(d)' \in {"waiting", "lost"}
    <3>1. CASE d \in index \/ d \notin AllBuffered
      BY <2>1, <2>2, <2>3, <3>1, Fates, FatesAfter
    <3>2. CASE d \in AllBuffered \ index
      <4>1. FateOf(d) = "held" /\ d \in mishap'
        BY <2>1, <3>2, Fates
      <4>2. FateOf(d)' \in {"stored", "waiting", "lost"}
        BY <2>1, <2>4, <3>2, FatesAfter
      <4> QED BY <4>1, <4>2
    <3> QED BY <3>1, <3>2
  <2> QED BY <1>l, <2>1, <2>5
<1>6. CASE AutoCommit \/ NextSession \/ ConsumerStops
  <2>1. UNCHANGED <<topic, index, mishap>> /\ AllBuffered' = AllBuffered
    BY <1>6
    DEF AutoCommit, NextSession, ConsumerStops, SessionOver, batches, history, AllBuffered, Buffered
  <2>2. \A p \in Partition : /\ committed[p] \in Nat /\ committed'[p] \in Nat
                             /\ committed[p] <= committed'[p]
    BY <1>6, <1>i DEF AutoCommit, NextSession, ConsumerStops, SessionOver, TypeOK, Positions
  <2>3. ASSUME NEW d \in Doc, d \notin index \cup AllBuffered, ~(d[2] > committed'[d[1]])
        PROVE  topic[d[1]][d[2]] = Unusable \/ d \in mishap
    <3> DEFINE p == d[1]
               k == d[2]
    <3>1. /\ committed'[p] \in Nat /\ marked'[p] \in Nat /\ fetched'[p] \in Nat
          /\ committed'[p] <= marked'[p]
          /\ IF pc'[p] = "idle" THEN marked'[p] = fetched'[p] ELSE marked'[p] < fetched'[p]
      BY <1>i, <1>d DEF TypeOK, Positions
    <3>2. k \in 1 .. fetched'[p] /\ ~(k = fetched'[p] /\ pc'[p] = "add")
      BY <1>d, <2>3, <3>1
    <3>3. p \in Partition /\ d = <<p, k>>
      BY <1>d
    <3>4. topic'[p][k] = Unusable \/ <<p, k>> \in index' \cup AllBuffered' \cup mishap'
      BY <1>i, <3>2, <3>3 DEF FetchedIsKept
    <3> QED BY <2>1, <2>3, <3>3, <3>4
  <2>4. ASSUME NEW d \in Doc
        PROVE  \/ FateOf(d)' = FateOf(d)
               \/ FateOf(d) = "waiting" /\ FateOf(d)' = "skipped"
               \/ d \in mishap /\ FateOf(d) = "waiting" /\ FateOf(d)' = "lost"
    <3>1. CASE d \in index \cup AllBuffered
      BY <2>1, <3>1, Fates, FatesAfter
    <3>2. CASE d \notin index \cup AllBuffered /\ d[2] > committed'[d[1]]
      <4>1. d[2] > committed[d[1]]
        BY <1>d, <2>2, <3>2
      <4> QED BY <2>1, <3>2, <4>1, Fates, FatesAfter
    <3>3. CASE d \notin index \cup AllBuffered /\ ~(d[2] > committed'[d[1]])
      BY <2>1, <2>3, <3>3, Fates, FatesAfter
    <3> QED BY <3>1, <3>2, <3>3
  <2> QED BY <1>s, <2>1, <2>4
\* The other steps change no fate.
<1>7. CASE \/ \E p \in Partition : ConsumeClaim(p) \/ MarkMessage(p) \/ LeaveClaim(p)
           \/ \E c \in Callback : TimerFires(c)
           \/ \E t \in Thread : FlushBatch(t)
           \/ EndSession \/ ConsumerStarts \/ UNCHANGED vars
  <2>1. UNCHANGED <<topic, committed, index, mishap>> /\ AllBuffered' = AllBuffered
    BY <1>7
    DEF ConsumeClaim, MarkMessage, LeaveClaim, TimerFires, FlushBatch, EndSession,
        ConsumerStarts, vars, kafka, batches, history, AllBuffered, Buffered
  <2>2. \A d \in Doc : FateOf(d)' = FateOf(d)
    BY <2>1, Fates, FatesAfter
  <2> QED BY <1>s, <2>1, <2>2
<1> QED BY <1>1, <1>2, <1>3, <1>4, <1>5, <1>6, <1>7 DEF Next

(***************************************************************************)
(* The log consumer implements IngestLedger: a log entry is taken into a   *)
(* batch, stored for good or, only if a mishap hit it, lost, whatever the  *)
(* goroutines, timers, failures, rebalances and restarts do.               *)
(***************************************************************************)
THEOREM ConsumerImplementsLedger == Spec => ImplementsLedger
<1>1. Spec => []LInv
  BY LedgerInvariance
<1>2. Init => Ledger!Init
  BY InitLedger
<1>3. LInv /\ LInv' /\ [Next]_vars => [Ledger!Next]_(Ledger!vars)
  BY NextLedger
<1> QED BY <1>1, <1>2, <1>3, PTL DEF Spec, ImplementsLedger, Ledger!Spec

-----------------------------------------------------------------------------
(* What the ledger promises *)

\* The ledger loses only what a mishap hit.
LEMMA LedgerInvariant == Ledger!Spec => [](Ledger!TypeOK /\ Ledger!NoSilentLoss)
<1>1. Ledger!Init => Ledger!TypeOK /\ Ledger!NoSilentLoss
  BY DEF Ledger!Init, Ledger!TypeOK, Ledger!NoSilentLoss, Ledger!With, Ledger!Fate
<1>2. Ledger!TypeOK /\ Ledger!NoSilentLoss /\ [Ledger!Next]_(Ledger!vars)
        => Ledger!TypeOK' /\ Ledger!NoSilentLoss'
  <2> SUFFICES ASSUME Ledger!TypeOK, Ledger!NoSilentLoss, [Ledger!Next]_(Ledger!vars)
               PROVE  Ledger!TypeOK' /\ Ledger!NoSilentLoss'
    OBVIOUS
  <2>1. ASSUME NEW e \in Doc, Ledger!Accept(e) PROVE Ledger!TypeOK' /\ Ledger!NoSilentLoss'
    BY <2>1 DEF Ledger!Accept, Ledger!TypeOK, Ledger!NoSilentLoss, Ledger!With, Ledger!Fate
  <2>2. CASE Ledger!Leave
    BY <2>2 DEF Ledger!Leave, Ledger!Moves, Ledger!TypeOK, Ledger!NoSilentLoss, Ledger!With
  <2>3. CASE Ledger!Settle
    BY <2>3 DEF Ledger!Settle, Ledger!Moves, Ledger!TypeOK, Ledger!NoSilentLoss, Ledger!With
  <2>4. CASE UNCHANGED Ledger!vars
    BY <2>4 DEF Ledger!vars, Ledger!TypeOK, Ledger!NoSilentLoss, Ledger!With
  <2> QED BY <2>1, <2>2, <2>3, <2>4 DEF Ledger!Next
<1> QED BY <1>1, <1>2, PTL DEF Ledger!Spec

(***************************************************************************)
(* No log entry is lost without a mishap that hit it.                      *)
(***************************************************************************)
THEOREM NoLogIsLostSilently == Spec => []Ledger!NoSilentLoss
BY ConsumerImplementsLedger, LedgerInvariant, PTL DEF ImplementsLedger

(***************************************************************************)
(* A log entry that is stored stays stored, although it may be delivered,  *)
(* buffered and sent again.                                                *)
(***************************************************************************)
THEOREM StoredLogsStay == Spec => Ledger!StoredForGood
<1>1. [Ledger!Next]_(Ledger!vars) =>
        [Ledger!With("stored") \subseteq Ledger!With("stored")']_(Ledger!vars)
  <2> SUFFICES ASSUME Ledger!Next PROVE Ledger!With("stored") \subseteq Ledger!With("stored")'
    OBVIOUS
  <2>1. ASSUME NEW e \in Doc, Ledger!Accept(e)
        PROVE  Ledger!With("stored") \subseteq Ledger!With("stored")'
    BY <2>1 DEF Ledger!Accept, Ledger!With
  <2>2. CASE Ledger!Leave \/ Ledger!Settle
    BY <2>2 DEF Ledger!Leave, Ledger!Settle, Ledger!Moves, Ledger!With
  <2> QED BY <2>1, <2>2 DEF Ledger!Next
<1> QED BY <1>1, ConsumerImplementsLedger, PTL
        DEF ImplementsLedger, Ledger!Spec, Ledger!StoredForGood
=============================================================================
