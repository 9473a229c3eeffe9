----------------------------- MODULE LogBoySDK -----------------------------
(***************************************************************************)
(* One LogBoy instance of the npm package (logboy-express/src): the logger *)
(* with its gRPC transport of logs, the 15-second monitor with its gRPC    *)
(* transport of metrics, and the client-streaming calls they open at the   *)
(* gateway.                                                                *)
(*                                                                         *)
(* Stream 1 is the call for logs.  It is opened by the constructor and     *)
(* never replaced: its callback only writes to the console, the stream is  *)
(* set to null by close() alone, and winston takes the transport out of    *)
(* the logger before it calls close(), so handleReconnection of the log    *)
(* transport is never reached.  Streams 2, 3, ... are the calls for        *)
(* metrics, each opened in place of the one before.                        *)
(*                                                                         *)
(* A call ends in one callback, with the gateway's answer after end() or   *)
(* with an error; a write to a call that is over is lost without an        *)
(* exception.  MaxFailures bounds the failures of calls and writes.        *)
(*                                                                         *)
(* An operator whose comment says "Changed" is a deliberately wrong        *)
(* version of the one after it.  Nothing uses it: it is there to show      *)
(* that a property notices the mistake it describes.                       *)
(***************************************************************************)
EXTENDS Integers, Sequences

CONSTANTS MaxLogs,     \* bound: logs the application writes
          MaxSamples,  \* bound: samples of the monitor
          MaxFailures, \* bound: failures of a call or a write
          None

ASSUME BoundsAssumption ==
  MaxLogs \in Nat /\ MaxSamples \in Nat /\ MaxFailures \in Nat
ASSUME NoneAssumption == None \notin Nat

(* Each stream but the first two replaces one after a failure.             *)
Stream == 1 .. MaxFailures + 2
LogStream == 1

VARIABLES
  call,       \* the state of each call
  wire,       \* messages written to a call, not yet received
  logStream,  \* GrpcTransport.stream
  metrics,    \* GRPCmetricTransport: stream, isConnecting, timers pending
  monitor,    \* LogBoy: the interval, metricTransport, previousCpuTimes
  closed,     \* close() has been called
  logged,     \* logs written so far
  samples,    \* samples sent so far
  failures,   \* failures so far
  received,   \* history: messages the gateway has received
  clean       \* history: close() came at rest, and nothing failed since

vars == <<call, wire, logStream, metrics, monitor, closed, logged, samples,
          failures, received, clean>>

Message == {"log"} \X (1 .. MaxLogs) \cup {"sample"} \X (1 .. MaxSamples)

TypeOK ==
  /\ call \in [Stream -> {"unused", "open", "ending", "failed", "over"}]
  /\ DOMAIN wire = Stream
  /\ \A s \in Stream : wire[s] \in Seq(Message)
  /\ logStream \in {LogStream, None}
  /\ metrics \in [stream : Stream \cup {None}, isConnecting : BOOLEAN,
                  timers : 0 .. 1]
  /\ monitor \in [interval : BOOLEAN, transport : BOOLEAN, previous : BOOLEAN]
  /\ closed \in BOOLEAN
  /\ logged \in 0 .. MaxLogs
  /\ samples \in 0 .. MaxSamples
  /\ failures \in 0 .. MaxFailures
  /\ received \subseteq Message
  /\ clean \in BOOLEAN

(* new LogBoy: both transports open their call; with enableMetrics = FALSE *)
(* there is no transport of metrics.                                       *)
Init ==
  /\ \E enableMetrics \in BOOLEAN :
       /\ call = [s \in Stream |->
                    IF s = LogStream \/ (enableMetrics /\ s = 2)
                    THEN "open" ELSE "unused"]
       /\ metrics = [stream |-> IF enableMetrics THEN 2 ELSE None,
                     isConnecting |-> FALSE, timers |-> 0]
       /\ monitor = [interval |-> enableMetrics, transport |-> enableMetrics,
                     previous |-> FALSE]
  /\ wire = [s \in Stream |-> <<>>]
  /\ logStream = LogStream
  /\ closed = FALSE
  /\ logged = 0 /\ samples = 0 /\ failures = 0
  /\ received = {}
  /\ clean = FALSE

-----------------------------------------------------------------------------
Fault == failures < MaxFailures /\ failures' = failures + 1 /\ clean' = FALSE
NoFault == UNCHANGED <<failures, clean>>

(* stream.write(m)                                                         *)
Write(s, m) ==
  wire' = IF call[s] = "open" THEN [wire EXCEPT ![s] = Append(@, m)] ELSE wire

(* stream.end(), with what was written before it still under way.          *)
Ended(s) == IF s # None /\ call[s] = "open"
            THEN [call EXCEPT ![s] = "ending"] ELSE call

(* handleReconnection of GRPCmetricTransport.  Changed: without its guard. *)
ReconnectAnyway ==
  metrics' = [metrics EXCEPT !.isConnecting = TRUE, !.timers = @ + 1]
handleReconnection ==
  metrics' = IF metrics.isConnecting THEN metrics
             ELSE [metrics EXCEPT !.isConnecting = TRUE, !.timers = @ + 1]

-----------------------------------------------------------------------------
(* The application.                                                        *)

(* log, info, error, warn, verbose, debug, silly.  A write that throws is  *)
(* caught and the log lost.                                                *)
Log ==
  /\ ~ closed /\ logged < MaxLogs
  /\ logged' = logged + 1
  /\ \/ Write(logStream, <<"log", logged'>>) /\ NoFault
     \/ Fault /\ UNCHANGED wire
  /\ UNCHANGED <<call, logStream, metrics, monitor, closed, samples, received>>

(* The interval: the first tick has no earlier processor times to compare  *)
(* with and sends nothing.                                                 *)
Tick ==
  /\ monitor.interval /\ samples < MaxSamples
  /\ IF ~ monitor.previous
     THEN /\ monitor' = [monitor EXCEPT !.previous = TRUE]
          /\ UNCHANGED <<wire, metrics, samples>> /\ NoFault
     ELSE /\ UNCHANGED monitor
          /\ samples' = samples + 1
          /\ \/ /\ IF metrics.stream # None
                   THEN Write(metrics.stream, <<"sample", samples'>>)
                   ELSE UNCHANGED wire
                /\ UNCHANGED metrics /\ NoFault
             \/ Fault /\ handleReconnection /\ UNCHANGED wire
  /\ UNCHANGED <<call, logStream, closed, logged, received>>

(* stopMonitoring(): the call is ended; a reconnection that is pending is  *)
(* not cancelled.  Changed: the transport is dropped, its call left open.  *)
CallsKept == call
CallsStopped == IF monitor.transport THEN Ended(metrics.stream) ELSE call

MonitorStopped ==
  /\ metrics' = IF monitor.transport THEN [metrics EXCEPT !.stream = None]
                                     ELSE metrics
  /\ monitor' = [monitor EXCEPT !.interval = FALSE, !.transport = FALSE]

StopMonitoring ==
  /\ monitor.transport
  /\ MonitorStopped /\ call' = CallsStopped
  /\ UNCHANGED <<wire, logStream, closed, logged, samples, received>>
  /\ NoFault

(* Changed: the call is cancelled, and what is under way is lost.          *)
CancelCall(s) == wire' = [wire EXCEPT ![s] = <<>>]
(* close() of the log transport only ends the call.                        *)
EndCall(s) == UNCHANGED wire

(* close(): stopMonitoring, then logger.close(), which closes the log      *)
(* transport.                                                              *)
Close ==
  /\ ~ closed
  /\ closed' = TRUE
  /\ MonitorStopped
  /\ call' = [CallsStopped EXCEPT ![LogStream] = IF @ = "open" THEN "ending" ELSE @]
  /\ EndCall(LogStream)
  /\ logStream' = None
  /\ clean' = /\ metrics.timers = 0 /\ \A s \in Stream : call[s] # "failed"
              /\ monitor.transport \/ metrics.stream = None
  /\ UNCHANGED <<logged, samples, failures, received>>

-----------------------------------------------------------------------------
(* The transport of metrics.                                               *)

(* Changed: the flag stays set.                                            *)
StillConnecting(m) == TRUE
Connecting(m) == FALSE

(* The timer of handleReconnection: initializeStream, for a transport that *)
(* has been closed too.                                                    *)
Reconnect ==
  /\ metrics.timers > 0
  /\ \E s \in Stream :
       /\ call[s] = "unused" /\ \A u \in Stream : call[u] = "unused" => s <= u
       /\ call' = [Ended(metrics.stream) EXCEPT ![s] = "open"]
       /\ metrics' = [stream |-> s, isConnecting |-> Connecting(metrics),
                      timers |-> metrics.timers - 1]
  /\ UNCHANGED <<wire, logStream, monitor, closed, logged, samples, received>>
  /\ NoFault

(* Changed: a call that fails is not replaced.                             *)
OnlyLogged(s) == UNCHANGED metrics
(* The callback of a call with an error.                                   *)
OnError(s) == IF s = LogStream THEN UNCHANGED metrics ELSE handleReconnection

StreamError(s) ==
  /\ call[s] = "failed"
  /\ call' = [call EXCEPT ![s] = "over"]
  /\ OnError(s)
  /\ UNCHANGED <<wire, logStream, monitor, closed, logged, samples, received>>
  /\ NoFault

-----------------------------------------------------------------------------
(* The gateway and the network.                                            *)

(* Recv of the gateway's loop.                                             *)
Receive(s) ==
  /\ call[s] \in {"open", "ending"} /\ wire[s] # <<>>
  /\ received' = received \cup {Head(wire[s])}
  /\ wire' = [wire EXCEPT ![s] = Tail(@)]
  /\ UNCHANGED <<call, logStream, metrics, monitor, closed, logged, samples>>
  /\ NoFault

(* EOF: SendAndClose, and the callback without an error, which only        *)
(* writes to the console.                                                  *)
Acknowledge(s) ==
  /\ call[s] = "ending" /\ wire[s] = <<>>
  /\ call' = [call EXCEPT ![s] = "over"]
  /\ UNCHANGED <<wire, logStream, metrics, monitor, closed, logged, samples,
                 received>>
  /\ NoFault

(* The gateway is down, rejects the key, fails in Recv, or the connection  *)
(* breaks.                                                                 *)
Fails(s) ==
  /\ call[s] \in {"open", "ending"}
  /\ Fault
  /\ call' = [call EXCEPT ![s] = "failed"]
  /\ wire' = [wire EXCEPT ![s] = <<>>]
  /\ UNCHANGED <<logStream, metrics, monitor, closed, logged, samples, received>>

-----------------------------------------------------------------------------
Next ==
  \/ Log \/ Tick \/ StopMonitoring \/ Close \/ Reconnect
  \/ \E s \in Stream : StreamError(s) \/ Receive(s) \/ Acknowledge(s) \/ Fails(s)

Spec == Init /\ [][Next]_vars

(* Timers fire, callbacks are called, the gateway goes on receiving.       *)
Fairness ==
  /\ WF_vars(Reconnect)
  /\ \A s \in Stream : /\ WF_vars(StreamError(s))
                       /\ WF_vars(Receive(s)) /\ WF_vars(Acknowledge(s))

FairSpec == Spec /\ Fairness

-----------------------------------------------------------------------------
(* Properties.                                                             *)

(* As long as the monitor runs, its transport has a call that works, one   *)
(* whose error is still to be reported, or a reconnection under way:       *)
(* isConnecting never swallows the only report of a failure.  And at most  *)
(* one call for metrics is open.  (GRPCmetricTransport)                    *)
MetricsAlive ==
  /\ monitor.transport =>
       \/ call[metrics.stream] \in {"open", "failed"}
       \/ metrics.timers > 0
  /\ \A s, u \in Stream \ {LogStream} :
       call[s] = "open" /\ call[u] = "open" => s = u

(* A LogBoy that is closed with no reconnection pending, none that a       *)
(* stopMonitoring() left behind, and no failure afterwards opens no call   *)
(* again: close() is final unless a timer or an error callback outlives    *)
(* it or stopMonitoring().  (close, stopMonitoring)                        *)
CleanCloseIsFinal ==
  clean => \A s \in Stream : call[s] \in {"unused", "ending", "over"}

(* While calls and writes do not fail, a log is received, also one that    *)
(* was written just before close().  (log, close, the gateway's loop)      *)
LogsDelivered ==
  \A n \in 1 .. MaxLogs :
    [](logged = n => <>(<<"log", n>> \in received \/ failures > 0))

(* Once failures have ceased, a LogBoy that monitors has an open call for  *)
(* its samples for ever, and one that does not keeps none half open.       *)
(* (handleReconnection, initializeStream)                                  *)
MetricsRecover ==
  <>[](/\ monitor.transport => call[metrics.stream] = "open"
       /\ metrics.timers = 0
       /\ \A s \in Stream : call[s] \notin {"failed", "ending"})
=============================================================================
