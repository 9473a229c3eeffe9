---------------------------- MODULE LogConsumer ----------------------------
(***************************************************************************)
(* The log consumer of the server (internal/log_consumer/logsConsumer.go): *)
(* one goroutine per claimed Kafka partition hands every log to the batch  *)
(* of its service; a batch is written to Elasticsearch with a bulk request *)
(* when its debounce timer fires or when it is full.  Offsets are marked   *)
(* once a log is in a batch, and committed in the background.              *)
(*                                                                         *)
(* A goroutine is a partition's ConsumeClaim or the callback of a batch's  *)
(* flush timer.  Offsets are counted from 1, so that "committed[p] = k"    *)
(* says that the first k messages of p are never delivered again.          *)
(*                                                                         *)
(* An operator whose comment says "Changed" is a deliberately wrong        *)
(* version of the one after it.  Nothing uses it: it is there to show      *)
(* that a property notices the mistake it describes.                       *)
(***************************************************************************)
EXTENDS Integers, Sequences, Functions

CONSTANTS
  Partition,     \* the claimed partitions of the group's topics
  Service,       \* the service names found in the messages
  ServiceOf,     \* the service of a partition's topic, "logs-<service>"
  Unusable,      \* a message that does not deserialize or names no service
  Free,          \* "nobody holds this mutex"
  BatchSize,     \* DefaultLogProcessor.batchSize
  MaxOffset,     \* bound: messages per partition
  MaxCallbacks,  \* bound: timer callbacks of one batch alive at a time
  MaxTrouble     \* bound: Elasticsearch failures, rebalances and restarts

Callback == Service \X (1 .. MaxCallbacks)
Thread   == Partition \cup Callback
Doc      == Partition \X (1 .. MaxOffset)

ASSUME ConstantsAssumption ==
  /\ BatchSize \in Nat \ {0}
  /\ MaxOffset \in Nat /\ MaxCallbacks \in Nat /\ MaxTrouble \in Nat
  /\ ServiceOf \in [Partition -> Service]
  /\ Unusable \notin Service
  /\ Free \notin Thread
  /\ Partition \cap Callback = {}

VARIABLES
  topic,      \* the messages of every partition, in Kafka
  committed,  \* the offsets committed to the group's coordinator
  session,    \* "open"; "ending" once its context is cancelled; "none" when
              \* nobody consumes
  claim,      \* the partitions whose ConsumeClaim runs
  fetched,    \* messages a claim has taken from claim.Messages()
  marked,     \* offsets marked in the session
  pc,         \* where each goroutine is
  buffer,     \* ServiceBatch.buffer
  holder,     \* who holds ServiceBatch.mutex
  armed,      \* ServiceBatch.flushTimer is running
  body,       \* the documents of the bulk request in flight
  index,      \* the documents in Elasticsearch, by document id
  failed,     \* history: the last flush failed and no log came since
  mishap,     \* history: documents rejected by Elasticsearch or in a buffer
              \* when the process ended
  trouble     \* failures so far, for MaxTrouble

kafka   == <<topic, committed>>
claims  == <<session, claim, fetched, marked>>
batches == <<buffer, holder, armed, body>>
history == <<failed, mishap, trouble>>
vars    == <<kafka, claims, pc, batches, index, history>>

Message  == Service \cup {Unusable}
Location == {"idle", "add", "flush", "bulk", "mark"}

TypeOK ==
  /\ topic \in [Partition -> Seq(Message)]
  /\ committed \in [Partition -> Nat]
  /\ session \in {"open", "ending", "none"}
  /\ claim \subseteq Partition
  /\ fetched \in [Partition -> Nat]
  /\ marked \in [Partition -> Nat]
  /\ pc \in [Thread -> Location]
  /\ buffer \in [Service -> Seq(Doc)]
  /\ holder \in [Service -> Thread \cup {Free}]
  /\ armed \in [Service -> BOOLEAN]
  /\ body \in [Service -> SUBSET Doc]
  /\ index \subseteq Doc
  /\ failed \in [Service -> BOOLEAN]
  /\ mishap \subseteq Doc
  /\ trouble \in 0 .. MaxTrouble

\* The process has just started: no batch exists, nothing is buffered.
FreshBatches ==
  /\ buffer' = [s \in Service |-> <<>>]
  /\ holder' = [s \in Service |-> Free]
  /\ armed' = [s \in Service |-> FALSE]
  /\ body' = [s \in Service |-> {}]
  /\ failed' = [s \in Service |-> FALSE]

Init ==
  /\ topic = [p \in Partition |-> <<>>]
  /\ committed = [p \in Partition |-> 0]
  /\ session = "open"
  /\ claim = Partition
  /\ fetched = [p \in Partition |-> 0]
  /\ marked = [p \in Partition |-> 0]
  /\ pc = [t \in Thread |-> "idle"]
  /\ buffer = [s \in Service |-> <<>>]
  /\ holder = [s \in Service |-> Free]
  /\ armed = [s \in Service |-> FALSE]
  /\ body = [s \in Service |-> {}]
  /\ index = {}
  /\ failed = [s \in Service |-> FALSE]
  /\ mishap = {}
  /\ trouble = 0

-----------------------------------------------------------------------------
(* Helpers *)

Buffered(s)  == Range(buffer[s])
AllBuffered  == UNION {Buffered(s) : s \in Service}
InFlight     == UNION {body[s] : s \in Service}

\* The message a partition's goroutine is working on.
Current(p) == topic[p][fetched[p]]

\* Its document, which Elasticsearch identifies by partition and offset.
\* Changed: the offset is the next one.
DocOfNext(p) == <<p, fetched[p] + 1>>
DocOf(p) == <<p, fetched[p]>>

\* The batch a goroutine works on.
BatchOf(t) == IF t \in Partition THEN Current(t) ELSE t[1]

GoTo(t, l) == pc' = [pc EXCEPT ![t] = l]

\* Where flushBatch returns to: addDocument, hence ProcessLog and MarkMessage,
\* or the end of the timer's callback, which drops the error.
Returned(t) == IF t \in Partition THEN "mark" ELSE "idle"

\* Locking and unlocking a batch.  A sync.Mutex is not re-entrant.
\* Changed: nobody waits for the mutex; it is not given back.
LocksAnyway(s) == s \in Service
CanLock(s) == holder[s] = Free
KeepsLock(s) == UNCHANGED holder
Unlock(s) == holder' = [holder EXCEPT ![s] = Free]

\* addDocument stops the timer, if there is one, and starts a new one.
\* Changed: only the first document of a batch starts the timer.
TimerIfFirst(s) ==
  armed' = IF buffer[s] = <<>> THEN [armed EXCEPT ![s] = TRUE] ELSE armed
ResetTimer(s) == armed' = [armed EXCEPT ![s] = TRUE]

\* The document that is being added fills the batch.
\* Changed: off by one.
OneMoreFills(s) == Len(buffer[s]) + 1 > BatchSize
Fills(s) == Len(buffer[s]) + 1 >= BatchSize

\* The documents of a bulk request.
\* Changed: the last one is forgotten.
AllButLast(s) == {buffer[s][i] : i \in 1 .. Len(buffer[s]) - 1}
Payload(s) == Buffered(s)

\* One more failure, within the bound.
Trouble == trouble < MaxTrouble /\ trouble' = trouble + 1

-----------------------------------------------------------------------------
(* The goroutine of a partition *)

\* The gateway's producer appends a message to the partition.  It names a
\* log's topic after the log's service.
Produce(p, m) ==
  /\ m \in {ServiceOf[p], Unusable}
  /\ Len(topic[p]) < MaxOffset
  /\ topic' = [topic EXCEPT ![p] = Append(@, m)]
  /\ UNCHANGED <<committed, claims, pc, batches, index, history>>

\* ConsumeClaim receives a message.  One that does not deserialize, or that
\* ProcessLog refuses for want of a service name, is only marked.
ConsumeClaim(p) ==
  /\ p \in claim
  /\ pc[p] = "idle"
  /\ fetched[p] < Len(topic[p])
  /\ fetched' = [fetched EXCEPT ![p] = @ + 1]
  /\ GoTo(p, IF topic[p][fetched[p] + 1] = Unusable THEN "mark" ELSE "add")
  /\ UNCHANGED <<kafka, session, claim, marked, batches, index, history>>

\* addDocument locks the batch, appends, restarts the timer and, when the
\* batch is full, calls flushBatch with the mutex still held.
AddDocument(p) ==
  LET s == Current(p) IN
  /\ pc[p] = "add"
  /\ CanLock(s)
  /\ buffer' = [buffer EXCEPT ![s] = Append(@, DocOf(p))]
  /\ ResetTimer(s)
  /\ failed' = [failed EXCEPT ![s] = FALSE]
  /\ holder' = [holder EXCEPT ![s] = IF Fills(s) THEN p ELSE Free]
  /\ GoTo(p, IF Fills(s) THEN "flush" ELSE "mark")
  /\ UNCHANGED <<kafka, claims, body, index, mishap, trouble>>

\* session.MarkMessage
MarkMessage(p) ==
  /\ pc[p] = "mark"
  /\ marked' = [marked EXCEPT ![p] = fetched[p]]
  /\ GoTo(p, "idle")
  /\ UNCHANGED <<kafka, session, claim, fetched, batches, index, history>>

-----------------------------------------------------------------------------
(* Flushing a batch *)

\* The timer runs out: its callback starts in a goroutine of its own.
TimerFires(c) ==
  /\ c \in Callback
  /\ armed[c[1]]
  /\ pc[c] = "idle"
  /\ armed' = [armed EXCEPT ![c[1]] = FALSE]
  /\ GoTo(c, "flush")
  /\ UNCHANGED <<kafka, claims, buffer, holder, body, index, history>>

\* flushBatch locks the batch (a sync.Mutex: not even its holder can lock it
\* again) and, unless the batch is empty, sends the bulk request.
FlushBatch(t) ==
  LET s == BatchOf(t) IN
  /\ pc[t] = "flush"
  /\ CanLock(s)
  /\ IF buffer[s] = <<>>
     THEN /\ GoTo(t, Returned(t))
          /\ UNCHANGED <<holder, body>>
     ELSE /\ GoTo(t, "bulk")
          /\ holder' = [holder EXCEPT ![s] = t]
          /\ body' = [body EXCEPT ![s] = Payload(s)]
  /\ UNCHANGED <<kafka, claims, buffer, armed, index, history>>

\* The bulk request is answered with a success status, and the buffer is
\* cleared.  The documents outside S were rejected one by one in the answer,
\* which is not looked at.
BulkAnswered(t) ==
  LET s == BatchOf(t) IN
  /\ pc[t] = "bulk"
  /\ \E S \in SUBSET body[s] :
       /\ index' = index \cup S
       /\ mishap' = mishap \cup (body[s] \ S)
       /\ (S = body[s] /\ UNCHANGED trouble) \/ (S # body[s] /\ Trouble)
  /\ buffer' = [buffer EXCEPT ![s] = <<>>]
  /\ body' = [body EXCEPT ![s] = {}]
  /\ Unlock(s)
  /\ GoTo(t, Returned(t))
  /\ UNCHANGED <<kafka, claims, armed, failed>>

\* The bulk request fails, or is answered with an error status: the buffer is
\* kept and nothing is scheduled.  Elasticsearch may have stored some of it.
BulkFails(t) ==
  LET s == BatchOf(t) IN
  /\ pc[t] = "bulk"
  /\ Trouble
  /\ \E S \in SUBSET body[s] : index' = index \cup S
  /\ failed' = [failed EXCEPT ![s] = TRUE]
  /\ body' = [body EXCEPT ![s] = {}]
  /\ Unlock(s)
  /\ GoTo(t, Returned(t))
  /\ UNCHANGED <<kafka, claims, buffer, armed, mishap>>

-----------------------------------------------------------------------------
(* The consumer group session and the process *)

\* The client library commits the marked offsets every two seconds.
AutoCommit ==
  /\ committed # marked
  /\ committed' = marked
  /\ UNCHANGED <<topic, claims, pc, batches, index, history>>

\* A rebalance, or a change of topics, cancels the session's context.
EndSession ==
  /\ session = "open"
  /\ Trouble
  /\ session' = "ending"
  /\ UNCHANGED <<kafka, claim, fetched, marked, pc, batches, index, failed, mishap>>

\* ConsumeClaim sees the cancelled context, or its closed channel, and returns.
LeaveClaim(p) ==
  /\ session = "ending"
  /\ p \in claim
  /\ pc[p] = "idle"
  /\ claim' = claim \ {p}
  /\ UNCHANGED <<kafka, session, fetched, marked, pc, batches, index, history>>

\* Once every claim has returned, the library commits a last time (which may
\* fail) and Consume returns.  What comes next is delivered from there.
SessionOver ==
  /\ session = "ending"
  /\ claim = {}
  /\ \E last \in {committed, marked} :
       /\ committed' = last
       /\ fetched' = last
       /\ marked' = last
  /\ UNCHANGED <<topic, pc, batches, index, history>>

\* After a rebalance, or a change of topics, a next session is started.
NextSession ==
  /\ SessionOver
  /\ session' = "open"
  /\ claim' = Partition

\* Consume returns an error, which ends its loop for good, or the new list of
\* topics is empty: the process goes on without a consumer.  (The error of the
\* first consumer is passed on to main instead, which ends it: Restart.)
ConsumerStops ==
  /\ SessionOver
  /\ session' = "none"
  /\ claim' = {}

\* The topic watcher finds other topics later and starts a consumer again.
ConsumerStarts ==
  /\ session = "none"
  /\ session' = "open"
  /\ claim' = Partition
  /\ UNCHANGED <<kafka, fetched, marked, pc, batches, index, history>>

\* The process ends, by a crash or by main returning, and is started again:
\* nobody calls FlushAll or Close, so what was buffered is gone, except for
\* what Elasticsearch makes of a request it had already received.
Restart ==
  /\ Trouble
  /\ mishap' = mishap \cup AllBuffered
  /\ \E S \in SUBSET InFlight : index' = index \cup S
  /\ FreshBatches
  /\ pc' = [t \in Thread |-> "idle"]
  /\ session' = "open"
  /\ claim' = Partition
  /\ fetched' = committed
  /\ marked' = committed
  /\ UNCHANGED kafka

-----------------------------------------------------------------------------
Next ==
  \/ \E p \in Partition, m \in Message : Produce(p, m)
  \/ \E p \in Partition : ConsumeClaim(p)
  \/ \E p \in Partition : AddDocument(p)
  \/ \E p \in Partition : MarkMessage(p)
  \/ \E c \in Callback : TimerFires(c)
  \/ \E t \in Thread : FlushBatch(t)
  \/ \E t \in Thread : BulkAnswered(t)
  \/ \E t \in Thread : BulkFails(t)
  \/ AutoCommit
  \/ EndSession
  \/ \E p \in Partition : LeaveClaim(p)
  \/ NextSession
  \/ ConsumerStops
  \/ ConsumerStarts
  \/ Restart

Spec == Init /\ [][Next]_vars

\* The Go scheduler runs every goroutine that can run, a mutex is not denied
\* to a waiting goroutine forever, timers run out, a bulk request ends one way
\* or the other, and the client library keeps committing.  Nothing forces
\* messages, rebalances, next sessions or restarts to happen: a consumer that
\* stopped may stay stopped.
Fairness ==
  /\ \A p \in Partition : /\ WF_vars(ConsumeClaim(p))
                          /\ WF_vars(AddDocument(p))
                          /\ WF_vars(MarkMessage(p))
                          /\ WF_vars(LeaveClaim(p))
  /\ \A s \in Service : WF_vars(\E c \in Callback : c[1] = s /\ TimerFires(c))
  /\ \A t \in Thread : /\ WF_vars(FlushBatch(t))
                       /\ WF_vars(BulkAnswered(t) \/ BulkFails(t))
  /\ WF_vars(AutoCommit)

FairSpec == Spec /\ Fairness

-----------------------------------------------------------------------------
(***************************************************************************)
(* Once a message is behind the commit, nobody will deliver it again: its  *)
(* document is stored, or still in its batch, unless a mishap hit it.      *)
(* This is what marking the offset of a log that is only buffered          *)
(* (ConsumeClaim) can get wrong.                                           *)
(***************************************************************************)
CommittedIsKept ==
  \A p \in Partition : \A k \in 1 .. committed[p] :
    topic[p][k] # Unusable => <<p, k>> \in index \cup AllBuffered \cup mishap

(***************************************************************************)
(* A batch with documents has a flush to come: its timer runs or a         *)
(* goroutine is flushing it, unless the last flush failed (flushBatch      *)
(* keeps the buffer, and nothing reschedules it).                          *)
(***************************************************************************)
FlushIsScheduled ==
  \A s \in Service : buffer[s] # <<>> =>
    \/ armed[s]
    \/ failed[s]
    \/ \E t \in Thread : pc[t] \in {"flush", "bulk"} /\ BatchOf(t) = s

\* A goroutine called flushBatch with the mutex of this batch in its hands.
Stuck(s) == \E p \in Partition : holder[s] = p /\ pc[p] = "flush"

(***************************************************************************)
(* Whatever Elasticsearch does, a batch stays within batchSize documents,  *)
(* and it is full exactly when the goroutine that filled it stands in      *)
(* flushBatch, waiting for the mutex it holds.                             *)
(***************************************************************************)
FullExactlyWhenStuck ==
  \A s \in Service : /\ Len(buffer[s]) <= BatchSize
                     /\ Len(buffer[s]) = BatchSize <=> Stuck(s)

(***************************************************************************)
(* A buffered log is eventually stored, unless a mishap hits it, its batch *)
(* fills up, or a failed flush is followed by no further log.              *)
(***************************************************************************)
BufferedIsStored ==
  \A s \in Service, d \in Doc :
    [](d \in Buffered(s) =>
         <>(d \in index \cup mishap \/ Stuck(s) \/ []failed[s]))

(***************************************************************************)
(* A session that must end can end: every claim returns, which is what the *)
(* library waits for before it commits a last time and gives the           *)
(* partitions away, unless a claim hangs behind a full batch.              *)
(***************************************************************************)
SessionsEnd ==
  session = "ending" ~>
    claim = {} \/ session # "ending" \/ \E s \in Service : Stuck(s)

(***************************************************************************)
(* "Flush if the batch is full" (addDocument).                             *)
(***************************************************************************)
FullBatchIsFlushed ==
  \A s \in Service :
    Len(buffer[s]) >= BatchSize ~> Len(buffer[s]) < BatchSize

-----------------------------------------------------------------------------
(***************************************************************************)
(* The consumer implements IngestLedger: the fate of a document is read    *)
(* off the index, the batches and the committed offsets.                   *)
(***************************************************************************)
FateOf(d) ==
  CASE d \in index               -> "stored"
    [] d \in AllBuffered \ index -> "held"
    [] d \notin index \cup AllBuffered /\ d[2] > committed[d[1]] -> "waiting"
    [] OTHER -> IF topic[d[1]][d[2]] = Unusable THEN "skipped" ELSE "lost"

Ledger == INSTANCE IngestLedger WITH
            Entry <- Doc,
            fate  <- [d \in Doc |-> FateOf(d)],
            hit   <- mishap

ImplementsLedger == Ledger!Spec
=============================================================================
