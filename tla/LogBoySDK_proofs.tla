-------------------------- MODULE LogBoySDK_proofs --------------------------
(***************************************************************************)
(* What LogBoySDK checks on a small instance holds for any numbers of      *)
(* logs, samples and failures: the types, and that neither monitoring nor  *)
(* close() goes wrong (MetricsAlive, CleanCloseIsFinal).                   *)
(***************************************************************************)
EXTENDS LogBoySDK, TLAPS

(* The flag stands for the timer: handleReconnection sets both, and        *)
(* initializeStream resets the flag when the timer has fired.              *)
FlagIsTimer == metrics.isConnecting <=> metrics.timers = 1

(* Each transport refers to its only open call: that of logs until         *)
(* close(), that of metrics until stopMonitoring().                        *)
OneCall ==
  /\ ~ closed => logStream = LogStream
  /\ call[LogStream] # "unused"
  /\ metrics.stream # LogStream
  /\ monitor.transport => metrics.stream # None
  /\ \A s \in Stream \ {LogStream} : call[s] = "open" => s = metrics.stream

(* Without a timer, the call of a monitor is open or about to report.      *)
Reports ==
  monitor.transport /\ metrics.timers = 0
    => call[metrics.stream] \in {"open", "failed"}

(* After a clean close() nothing is left that could open a call.           *)
Quiet ==
  clean => /\ metrics.timers = 0
           /\ \A s \in Stream : call[s] \in {"unused", "ending", "over"}

Inv == TypeOK /\ FlagIsTimer /\ OneCall /\ Reports /\ Quiet

CallStates == {"unused", "open", "ending", "failed", "over"}

-----------------------------------------------------------------------------
(* The parts of a step, each by what it changes.                           *)

(* The streams, none of which is None.                                     *)
LEMMA Streams == LogStream \in Stream /\ 2 \in Stream /\ None \notin Stream
  BY NoneAssumption, BoundsAssumption DEF Stream, LogStream

(* end() leaves every call as it is or makes an open one end.              *)
LEMMA EndedCalls ==
  ASSUME TypeOK, NEW s \in Stream \cup {None}
  PROVE  /\ Ended(s) \in [Stream -> CallStates]
         /\ \A u \in Stream : u # s => Ended(s)[u] = call[u]
         /\ s \in Stream => Ended(s)[s] = IF call[s] = "open" THEN "ending" ELSE call[s]
  BY Streams DEF TypeOK, Ended, CallStates

(* A write appends to the call's messages, or is lost.                     *)
LEMMA WrittenMessages ==
  ASSUME TypeOK, NEW s \in Stream, NEW m \in Message, Write(s, m)
  PROVE  DOMAIN wire' = Stream /\ \A u \in Stream : wire'[u] \in Seq(Message)
  <1>1. CASE call[s] = "open"
    <2>1. wire' = [wire EXCEPT ![s] = Append(@, m)]
      BY <1>1 DEF Write
    <2> QED BY <2>1 DEF TypeOK
  <1>2. CASE call[s] # "open"
    BY <1>2 DEF Write, TypeOK
  <1> QED BY <1>1, <1>2

(* handleReconnection never has two timers pending.                        *)
LEMMA Reconnection ==
  ASSUME TypeOK, FlagIsTimer, handleReconnection
  PROVE  /\ metrics' \in [stream : Stream \cup {None}, isConnecting : BOOLEAN,
                          timers : 0 .. 1]
         /\ metrics'.stream = metrics.stream
         /\ metrics'.isConnecting /\ metrics'.timers = 1
  <1>1. /\ metrics.stream \in Stream \cup {None} /\ metrics.isConnecting \in BOOLEAN
        /\ metrics.timers \in {0, 1}
        /\ metrics = [stream |-> metrics.stream, isConnecting |-> metrics.isConnecting,
                      timers |-> metrics.timers]
    BY DEF TypeOK
  <1>2. CASE metrics.isConnecting
    BY <1>1, <1>2 DEF TypeOK, FlagIsTimer, handleReconnection
  <1>3. CASE ~ metrics.isConnecting
    <2>1. metrics.timers = 0
      BY <1>1, <1>3 DEF FlagIsTimer
    <2>2. metrics' = [metrics EXCEPT !.isConnecting = TRUE, !.timers = 1]
      BY <1>3, <2>1 DEF handleReconnection
    <2>3. metrics' \in [stream : Stream \cup {None}, isConnecting : BOOLEAN,
                        timers : 0 .. 1]
      <3>1. metrics' = [stream |-> metrics.stream, isConnecting |-> TRUE, timers |-> 1]
        BY <1>1, <2>2, Zenon
      <3> QED BY <1>1, <3>1
    <2>4. metrics'.stream = metrics.stream /\ metrics'.timers = 1
      BY <2>1, <2>2 DEF TypeOK
    <2>5. metrics'.isConnecting = TRUE
      BY <2>2 DEF TypeOK
    <2> QED BY <2>3, <2>4, <2>5
  <1> QED BY <1>2, <1>3

(* A fault counts and is not clean; without one nothing changes there.     *)
LEMMA Faults ==
  ASSUME TypeOK, Fault \/ NoFault
  PROVE  /\ failures' \in 0 .. MaxFailures /\ clean' \in BOOLEAN
         /\ clean' => clean
         /\ Fault => ~ clean'
  <1>1. CASE Fault
    <2>1. failures' \in 0 .. MaxFailures
      BY <1>1, BoundsAssumption DEF TypeOK, Fault
    <2>2. clean' = FALSE
      BY <1>1 DEF Fault
    <2> QED BY <2>1, <2>2, Zenon
  <1>2. CASE ~ Fault /\ NoFault
    BY <1>2 DEF TypeOK, NoFault
  <1> QED BY <1>1, <1>2

(* stopMonitoring() ends the call of the monitor and forgets it.           *)
WasStopped ==
  /\ metrics' \in [stream : Stream \cup {None}, isConnecting : BOOLEAN,
                  timers : 0 .. 1]
  /\ monitor' \in [interval : BOOLEAN, transport : BOOLEAN, previous : BOOLEAN]
  /\ metrics'.timers = metrics.timers
  /\ metrics'.isConnecting = metrics.isConnecting
  /\ metrics'.stream \in {metrics.stream, None}
  /\ monitor.transport => metrics'.stream = None
  /\ ~ monitor.transport => metrics'.stream = metrics.stream
  /\ ~ monitor'.transport
  /\ CallsStopped \in [Stream -> CallStates]
  /\ \A s \in Stream :
       \/ /\ CallsStopped[s] = call[s]
          /\ s = metrics.stream /\ monitor.transport => call[s] # "open"
       \/ /\ CallsStopped[s] = "ending" /\ call[s] = "open"

LEMMA Stopped == ASSUME Inv, MonitorStopped PROVE WasStopped
  <1>1. /\ metrics' \in [stream : Stream \cup {None}, isConnecting : BOOLEAN,
                         timers : 0 .. 1]
        /\ metrics'.timers = metrics.timers
        /\ metrics'.isConnecting = metrics.isConnecting
        /\ metrics'.stream \in {metrics.stream, None}
        /\ monitor.transport => metrics'.stream = None
        /\ ~ monitor.transport => metrics'.stream = metrics.stream
    BY DEF Inv, TypeOK, MonitorStopped
  <1>2. /\ monitor' \in [interval : BOOLEAN, transport : BOOLEAN, previous : BOOLEAN]
        /\ ~ monitor'.transport
    BY DEF Inv, TypeOK, MonitorStopped
  <1>3. metrics.stream \in Stream \cup {None} /\ call \in [Stream -> CallStates]
    BY DEF Inv, TypeOK, CallStates
  <1>4. CallsStopped = call \/ (monitor.transport /\ CallsStopped = Ended(metrics.stream))
    BY DEF CallsStopped
  <1>5. CallsStopped \in [Stream -> CallStates]
    BY <1>3, <1>4, EndedCalls DEF Inv
  <1>6. \A s \in Stream :
          \/ CallsStopped[s] = call[s] /\ (s = metrics.stream /\ monitor.transport
                                             => call[s] # "open")
          \/ CallsStopped[s] = "ending" /\ call[s] = "open"
    <2>1. CASE monitor.transport
      BY <1>3, <2>1, EndedCalls DEF Inv, CallsStopped
    <2>2. CASE ~ monitor.transport
      BY <2>2 DEF CallsStopped
    <2> QED BY <2>1, <2>2
  <1> QED BY <1>1, <1>2, <1>5, <1>6 DEF WasStopped

-----------------------------------------------------------------------------
(* Every step keeps the invariant.                                         *)

LEMMA InitHolds == Init => Inv
  <1> SUFFICES ASSUME Init PROVE Inv
    OBVIOUS
  <1>1. PICK enableMetrics \in BOOLEAN :
          /\ call = [s \in Stream |->
                       IF s = LogStream \/ (enableMetrics /\ s = 2)
                       THEN "open" ELSE "unused"]
          /\ metrics = [stream |-> IF enableMetrics THEN 2 ELSE None,
                        isConnecting |-> FALSE, timers |-> 0]
          /\ monitor = [interval |-> enableMetrics, transport |-> enableMetrics,
                        previous |-> FALSE]
    BY DEF Init
  <1>2. /\ wire = [s \in Stream |-> <<>>] /\ logStream = LogStream /\ ~ closed
        /\ logged = 0 /\ samples = 0 /\ failures = 0 /\ received = {} /\ ~ clean
        /\ closed \in BOOLEAN /\ clean \in BOOLEAN
    BY DEF Init
  <1>3. 2 # LogStream
    BY DEF LogStream
  <1>4. /\ metrics \in [stream : Stream \cup {None}, isConnecting : BOOLEAN, timers : 0 .. 1]
        /\ metrics.stream = IF enableMetrics THEN 2 ELSE None
        /\ ~ metrics.isConnecting /\ metrics.timers = 0
    <2>1. CASE enableMetrics
      BY <1>1, <2>1, Streams
    <2>2. CASE ~ enableMetrics
      BY <1>1, <2>2, Streams
    <2> QED BY <2>1, <2>2
  <1>5. /\ monitor \in [interval : BOOLEAN, transport : BOOLEAN, previous : BOOLEAN]
        /\ monitor.transport = enableMetrics
    BY <1>1
  <1>6. TypeOK
    BY <1>1, <1>2, <1>4, <1>5, Streams, BoundsAssumption DEF TypeOK
  <1>7. OneCall
    BY <1>1, <1>2, <1>3, <1>4, <1>5, Streams DEF OneCall
  <1> QED BY <1>1, <1>2, <1>3, <1>4, <1>5, <1>6, <1>7, Streams
          DEF Inv, FlagIsTimer, Reports, Quiet

LEMMA LogKeeps == ASSUME Inv, Log PROVE Inv'
  <1> USE DEF Inv
  <1>1. UNCHANGED <<call, logStream, metrics, monitor, closed, samples, received>>
    BY DEF Log
  <1>2. logged' \in 1 .. MaxLogs
    BY BoundsAssumption DEF Log, TypeOK
  <1>3. failures' \in 0 .. MaxFailures /\ clean' \in BOOLEAN /\ (clean' => clean)
    BY Faults DEF Log
  <1>4. DOMAIN wire' = Stream /\ \A u \in Stream : wire'[u] \in Seq(Message)
    <2>1. CASE Write(logStream, <<"log", logged'>>)
      <3>1. logStream = LogStream /\ <<"log", logged'>> \in Message
        BY <1>2 DEF Log, OneCall, Message
      <3> QED BY <2>1, <3>1, Streams, WrittenMessages
    <2>2. CASE UNCHANGED wire
      BY <2>2 DEF TypeOK
    <2> QED BY <2>1, <2>2 DEF Log
  <1>5. TypeOK'
    BY <1>1, <1>2, <1>3, <1>4 DEF TypeOK
  <1> QED BY <1>1, <1>3, <1>5 DEF FlagIsTimer, OneCall, Reports, Quiet

LEMMA TickKeeps == ASSUME Inv, Tick PROVE Inv'
  <1> USE DEF Inv
  <1>1. UNCHANGED <<call, logStream, closed, logged, received>>
    BY DEF Tick
  <1>2. samples' \in 0 .. MaxSamples /\ (monitor.previous => samples' \in 1 .. MaxSamples)
    BY BoundsAssumption DEF Tick, TypeOK
  <1>3. failures' \in 0 .. MaxFailures /\ clean' \in BOOLEAN /\ (clean' => clean)
    BY Faults DEF Tick
  <1>4. /\ monitor' \in [interval : BOOLEAN, transport : BOOLEAN, previous : BOOLEAN]
        /\ monitor'.transport = monitor.transport
    <2>1. monitor' = monitor \/ monitor' = [monitor EXCEPT !.previous = TRUE]
      BY DEF Tick
    <2> QED BY <2>1 DEF TypeOK
  <1>5. \/ UNCHANGED metrics
        \/ ~ clean' /\ handleReconnection
    BY Faults DEF Tick
  <1>6. /\ metrics' \in [stream : Stream \cup {None}, isConnecting : BOOLEAN,
                         timers : 0 .. 1]
        /\ metrics'.stream = metrics.stream
        /\ metrics'.timers = 0 => metrics.timers = 0
        /\ clean' => metrics'.timers = metrics.timers
        /\ metrics'.isConnecting <=> metrics'.timers = 1
    BY <1>5, Reconnection DEF TypeOK, FlagIsTimer
  <1>7. DOMAIN wire' = Stream /\ \A u \in Stream : wire'[u] \in Seq(Message)
    <2>1. CASE /\ monitor.previous /\ metrics.stream # None
               /\ Write(metrics.stream, <<"sample", samples'>>)
      <3>1. metrics.stream \in Stream /\ <<"sample", samples'>> \in Message
        BY <1>2, <2>1 DEF TypeOK, Message
      <3> QED BY <2>1, <3>1, WrittenMessages
    <2>2. CASE UNCHANGED wire
      BY <2>2 DEF TypeOK
    <2> QED BY <2>1, <2>2 DEF Tick
  <1>8. TypeOK'
    BY <1>1, <1>2, <1>3, <1>4, <1>6, <1>7 DEF TypeOK
  <1> QED BY <1>1, <1>3, <1>4, <1>6, <1>8 DEF FlagIsTimer, OneCall, Reports, Quiet

LEMMA StopMonitoringKeeps == ASSUME Inv, StopMonitoring PROVE Inv'
  <1>1. /\ call' = CallsStopped /\ monitor.transport
        /\ UNCHANGED <<wire, logStream, closed, logged, samples, received, failures, clean>>
    BY DEF StopMonitoring, NoFault
  <1>2. WasStopped
    BY Stopped DEF StopMonitoring
  <1>3. TypeOK'
    BY <1>1, <1>2 DEF Inv, TypeOK, CallStates, WasStopped
  <1>4. OneCall'
    BY <1>1, <1>2, Streams DEF Inv, OneCall, WasStopped
  <1>5. FlagIsTimer'
    BY <1>2 DEF Inv, FlagIsTimer, WasStopped
  <1>6. Quiet'
    BY <1>1, <1>2 DEF Inv, Quiet, WasStopped
  <1> QED BY <1>2, <1>3, <1>4, <1>5, <1>6 DEF Inv, Reports, WasStopped

LEMMA CloseKeeps == ASSUME Inv, Close PROVE Inv'
  <1>1. /\ closed' = TRUE /\ logStream' = None
        /\ call' = [CallsStopped EXCEPT ![LogStream] = IF @ = "open" THEN "ending" ELSE @]
        /\ UNCHANGED <<wire, logged, samples, failures, received>>
    BY DEF Close, EndCall
  <1>2. /\ clean' \in BOOLEAN
        /\ clean' => /\ metrics.timers = 0 /\ \A s \in Stream : call[s] # "failed"
                     /\ monitor.transport \/ metrics.stream = None
    BY DEF Close
  <1>3. WasStopped
    BY Stopped DEF Close
  <1>4. /\ call' \in [Stream -> CallStates]
        /\ \A s \in Stream : call'[s] = CallsStopped[s] \/ call'[s] = "ending"
        /\ call'[LogStream] \notin {"open", "unused"}
    BY <1>1, <1>3, Streams DEF CallStates, WasStopped, Inv, OneCall
  <1>5. TypeOK'
    BY <1>1, <1>2, <1>3, <1>4 DEF Inv, TypeOK, CallStates, WasStopped
  <1>6. OneCall'
    BY <1>1, <1>3, <1>4, Streams DEF Inv, OneCall, WasStopped
  <1>7. Quiet'
    <2> SUFFICES ASSUME clean', NEW s \in Stream
                 PROVE  call'[s] \in {"unused", "ending", "over"}
      BY <1>2, <1>3 DEF Quiet, WasStopped
    <2>1. CallsStopped[s] # "failed"
      BY <1>2, <1>3 DEF WasStopped
    <2>2. s # LogStream => CallsStopped[s] # "open"
      BY <1>2, <1>3, Streams DEF Inv, OneCall, WasStopped
    <2> QED BY <1>4, <2>1, <2>2 DEF CallStates
  <1> QED BY <1>3, <1>5, <1>6, <1>7 DEF Inv, FlagIsTimer, Reports, WasStopped

LEMMA ReconnectKeeps == ASSUME Inv, Reconnect PROVE Inv'
  <1> USE DEF Inv
  <1>1. PICK s \in Stream :
          /\ call[s] = "unused"
          /\ \A u \in Stream : call[u] = "unused" => s <= u
          /\ call' = [Ended(metrics.stream) EXCEPT ![s] = "open"]
          /\ metrics' = [stream |-> s, isConnecting |-> Connecting(metrics),
                         timers |-> metrics.timers - 1]
    BY DEF Reconnect
  <1>2. metrics.timers = 1 /\ ~ clean
    BY DEF Reconnect, TypeOK, Quiet
  <1>3. UNCHANGED <<wire, logStream, monitor, closed, logged, samples, received,
                    failures, clean>>
    BY DEF Reconnect, NoFault
  <1>4. metrics.stream \in Stream \cup {None}
    BY DEF TypeOK
  <1>5. /\ call' \in [Stream -> CallStates]
        /\ call'[s] = "open"
        /\ \A u \in Stream \ {s} : call'[u] = "open" => call[u] = "open" /\ u # metrics.stream
        /\ \A u \in Stream \ {s} : call'[u] = "unused" => call[u] = "unused"
    BY <1>1, <1>4, EndedCalls DEF CallStates
  <1>6. TypeOK'
    BY <1>1, <1>2, <1>3, <1>5 DEF TypeOK, CallStates, Connecting
  <1>7. s # LogStream
    BY <1>1 DEF OneCall
  <1>8. OneCall'
    BY <1>1, <1>3, <1>4, <1>5, <1>7, Streams DEF OneCall
  <1>9. metrics'.stream = s /\ ~ metrics'.isConnecting /\ metrics'.timers = 0
    BY <1>1, <1>2 DEF Connecting
  <1> QED BY <1>2, <1>3, <1>5, <1>6, <1>8, <1>9 DEF FlagIsTimer, Reports, Quiet

LEMMA StreamErrorKeeps ==
  ASSUME Inv, NEW s \in Stream, StreamError(s) PROVE Inv'
  <1>1. /\ call[s] = "failed" /\ call' = [call EXCEPT ![s] = "over"] /\ OnError(s)
        /\ UNCHANGED <<wire, logStream, monitor, closed, logged, samples, received,
                       failures, clean>>
    BY DEF StreamError, NoFault
  <1>2. ~ clean
    BY <1>1 DEF Inv, Quiet
  <1>3. \/ s = LogStream /\ UNCHANGED metrics
        \/ s # LogStream /\ handleReconnection
    BY <1>1 DEF OnError
  <1>4. /\ metrics' \in [stream : Stream \cup {None}, isConnecting : BOOLEAN,
                         timers : 0 .. 1]
        /\ metrics'.stream = metrics.stream
        /\ metrics'.timers = 0 => metrics.timers = 0 /\ s = LogStream
        /\ metrics'.isConnecting <=> metrics'.timers = 1
    BY <1>3, Reconnection DEF Inv, TypeOK, FlagIsTimer
  <1>5. TypeOK'
    BY <1>1, <1>4 DEF Inv, TypeOK
  <1>6. call' \in [Stream -> CallStates] /\ \A u \in Stream \ {s} : call'[u] = call[u]
        /\ call'[s] = "over"
    BY <1>1 DEF Inv, TypeOK, CallStates
  <1>7. OneCall'
    BY <1>1, <1>4, <1>6, Streams DEF Inv, OneCall
  <1>8. Reports'
    BY <1>1, <1>4, <1>6, Streams DEF Inv, TypeOK, OneCall, Reports
  <1> QED BY <1>1, <1>2, <1>4, <1>5, <1>7, <1>8 DEF Inv, FlagIsTimer, Quiet

LEMMA ReceiveKeeps ==
  ASSUME Inv, NEW s \in Stream, Receive(s) PROVE Inv'
  <1>1. /\ wire[s] # <<>> /\ wire' = [wire EXCEPT ![s] = Tail(@)]
        /\ received' = received \cup {Head(wire[s])}
        /\ UNCHANGED <<call, logStream, metrics, monitor, closed, logged, samples,
                       failures, clean>>
    BY DEF Receive, NoFault
  <1>2. wire[s] \in Seq(Message)
    BY DEF Inv, TypeOK
  <1>3. Head(wire[s]) \in Message /\ Tail(wire[s]) \in Seq(Message)
    BY <1>1, <1>2
  <1>4. TypeOK'
    BY <1>1, <1>3 DEF Inv, TypeOK
  <1> QED BY <1>1, <1>4 DEF Inv, FlagIsTimer, OneCall, Reports, Quiet

LEMMA AcknowledgeKeeps ==
  ASSUME Inv, NEW s \in Stream, Acknowledge(s) PROVE Inv'
  <1>1. /\ call[s] = "ending" /\ call' = [call EXCEPT ![s] = "over"]
        /\ UNCHANGED <<wire, logStream, metrics, monitor, closed, logged, samples,
                       received, failures, clean>>
    BY DEF Acknowledge, NoFault
  <1>2. TypeOK'
    BY <1>1 DEF Inv, TypeOK
  <1> QED BY <1>1, <1>2 DEF Inv, TypeOK, FlagIsTimer, OneCall, Reports, Quiet

LEMMA FailsKeeps ==
  ASSUME Inv, NEW s \in Stream, Fails(s) PROVE Inv'
  <1>1. /\ call[s] \in {"open", "ending"} /\ Fault
        /\ call' = [call EXCEPT ![s] = "failed"]
        /\ wire' = [wire EXCEPT ![s] = <<>>]
        /\ UNCHANGED <<logStream, metrics, monitor, closed, logged, samples, received>>
    BY DEF Fails
  <1>2. failures' \in 0 .. MaxFailures /\ clean' \in BOOLEAN /\ ~ clean'
    BY <1>1, Faults DEF Inv
  <1>3. TypeOK'
    BY <1>1, <1>2 DEF Inv, TypeOK
  <1> QED BY <1>1, <1>2, <1>3 DEF Inv, TypeOK, FlagIsTimer, OneCall, Reports, Quiet

-----------------------------------------------------------------------------
(* The invariant that the safety properties follow from: a timer for every *)
(* flag, one call for each transport, and nothing pending after a clean    *)
(* close().  (handleReconnection, initializeStream, close)                 *)
THEOREM Invariance == Spec => []Inv
  <1>1. Inv /\ [Next]_vars => Inv'
    <2> SUFFICES ASSUME Inv, [Next]_vars PROVE Inv'
      OBVIOUS
    <2>1. CASE \E s \in Stream : StreamError(s) \/ Receive(s) \/ Acknowledge(s) \/ Fails(s)
      BY <2>1, StreamErrorKeeps, ReceiveKeeps, AcknowledgeKeeps, FailsKeeps
    <2>2. CASE UNCHANGED vars
      BY <2>2 DEF vars, Inv, TypeOK, FlagIsTimer, OneCall, Reports, Quiet
    <2> QED BY <2>1, <2>2, LogKeeps, TickKeeps, StopMonitoringKeeps, CloseKeeps,
               ReconnectKeeps DEF Next
  <1> QED BY InitHolds, <1>1, PTL DEF Spec

(* The types of every variable, for all bounds; that there is at most one  *)
(* timer is the part that handleReconnection's guard is needed for.        *)
THEOREM TypeCorrect == Spec => []TypeOK
  BY Invariance, PTL DEF Inv

(* The monitor never runs without a call that works or will report, nor    *)
(* with two open calls.  (GRPCmetricTransport)                             *)
THEOREM MetricsStayAlive == Spec => []MetricsAlive
  <1>1. Inv => MetricsAlive
    <2> SUFFICES ASSUME Inv PROVE MetricsAlive
      OBVIOUS
    <2>1. metrics.timers = 0 \/ metrics.timers > 0
      BY DEF Inv, TypeOK
    <2> QED BY <2>1 DEF Inv, MetricsAlive, OneCall, Reports
  <1> QED BY Invariance, <1>1, PTL

(* A clean close() is final.  (close, stopMonitoring)                      *)
THEOREM CleanCloseStays == Spec => []CleanCloseIsFinal
  <1>1. Inv => CleanCloseIsFinal
    BY DEF Inv, Quiet, CleanCloseIsFinal
  <1> QED BY Invariance, <1>1, PTL
=============================================================================
